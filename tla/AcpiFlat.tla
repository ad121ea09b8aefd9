------------------------------ MODULE AcpiFlat ------------------------------
(***************************************************************************)
(* src/python/acpi.py: the readers of tables of one piece.  A reader lays  *)
(* one class over the table, which it chooses by the table's revision, or  *)
(* makes for the number of entries that the table's length leaves room     *)
(* for.                                                                    *)
(***************************************************************************)
EXTENDS TableReader, AcpiLayouts

CONSTANT MaxEntries \* entries or trailing bytes of a table

ASSUME FlatAssumption == MaxEntries \in Nat

(* A table with its class: array is the length of the array at its end, which *)
(* ctypes refuses when it is negative.                                        *)
Flat(of, length, array, size, written) ==
    [of |-> of, length |-> length, array |-> array, size |-> size,
     written |-> written]

(* A table that ends in entries of each bytes, their number taken from what  *)
(* the length leaves behind the first counted bytes; base is the length that *)
(* firmware states for a table without entries.                              *)
Entries(of, base, counted, each, Class(_)) ==
    {LET n == Count(length - counted, each)
     IN  Flat(of, length, n, Class(n),
              IF (length - base) % each = 0 /\ length >= base
              THEN length ELSE base) :
        length \in {base + each * i : i \in 0..MaxEntries} \cup {base - 1, 35}}

RSDT == Entries("RSDT", 36, TableHeader, 4, rsdt_factory)
XSDT == Entries("XSDT", 36, TableHeader, 8, xsdt_factory)
MCFG == Entries("MCFG", 44, mcfg_factory(0), MCFGResource, mcfg_factory)
EINJ == Entries("EINJ", 48, einj_factory(0), InjectionInstructionEntry,
                einj_factory)
trigger_error_action ==
    Entries("trigger", 16, trigger_error_action_factory(0),
            InjectionInstructionEntry, trigger_error_action_factory)
MSCT == Entries("MSCT", 56, TableHeader, MSCTProximityDomainInfo_v1,
                msct_factory)
MSDM == Entries("MSDM", 36, msdm_factory(0), 1, msdm_factory)
SLIC == Entries("SLIC", 36, slic_factory(0), 1, slic_factory)
UEFI == Entries("UEFI", 54, uefi_factory(0), 1, uefi_factory)

(* The distances between n localities; the table states n. *)
SLIT == {Flat("SLIT", 44 + n * n, n, slit_factory(n), 44 + n * n) :
            n \in 0..MaxEntries}

(* One class, whatever the table's revision and length. *)
BERT == {Flat("BERT", 48, 0, BERT_v1, 48)}
SPCR == {Flat("SPCR", 80, 0, SPCR_v1, 80)}
HPET == {Flat("HPET", 56, 0, HPET_v1, 56)}
WDDT == {Flat("WDDT", 64, 0, WDDT_v1, 64)}

(* The root pointer is 20 bytes before revision 2, and states no length. *)
RSDP ==
    {LET written == IF revision = 0 THEN 20 ELSE 36
     IN  Flat("RSDP", written, 0, IF revision = 2 THEN RSDP_v2 ELSE RSDP_v1,
              written) :
        revision \in {0, 2}}

(* Revision 2 and revisions after 5 have fields the classes leave out. *)
FACP ==
    {LET revision == version[1]
     IN  Flat(IF revision \in {2, 6} THEN "FACP of another revision" ELSE "FACP",
              version[2], 0,
              CASE revision < 3 -> FACP_v1
                [] revision = 3 -> FACP_v3
                [] revision = 4 -> FACP_v4
                [] OTHER -> FACP_v5,
              version[2]) :
        version \in {<<1, 116>>, <<2, 132>>, <<3, 244>>, <<4, 244>>,
                     <<5, 268>>, <<6, 276>>}}

(* The version counts only if the length is not that of the first one, and   *)
(* all of them have the same.                                                *)
FACS ==
    {Flat("FACS", length, 0,
          CASE length # FACS_v0 /\ version = 1 -> FACS_v1
            [] length # FACS_v0 /\ version = 2 -> FACS_v2
            [] OTHER -> FACS_v0,
          64) :
        length \in {64, 68}, version \in 0..2}

FlatTables ==
    UNION {RSDT, XSDT, MCFG, EINJ, trigger_error_action, MSCT, MSDM, SLIC, UEFI,
           SLIT, BERT, SPCR, HPET, WDDT, RSDP, FACP, FACS}

-----------------------------------------------------------------------------

FlatInit ==
    /\ table = NoTable
    /\ Opened("table", 0, 0)

ReadTable ==
    /\ Reading("table")
    /\ \E t \in FlatTables :
        /\ t.array >= 0
        /\ last' = Decoded("table", t.of, t.length, t.size, t.written)
    /\ status' = "done"
    /\ UNCHANGED <<table, list, u, due, strayed, outer>>

TableRaises ==
    /\ Reading("table")
    /\ \E t \in FlatTables : t.array < 0
    /\ Raises

FlatNext == ReadTable \/ TableRaises
=============================================================================
