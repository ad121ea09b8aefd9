----------------------------- MODULE AcpiTables -----------------------------
(***************************************************************************)
(* src/python/acpi.py: the readers of tables that hold a list of records.  *)
(* A reader walks the list by the length in each record and collects a     *)
(* ctypes class for every one; the classes are then laid one behind the    *)
(* other over the table.  So there are two accounts of where a record      *)
(* lies: u.offset, where the walk has seen it, and due, where the layout   *)
(* has it.  They agree as long as every class is as large as the length    *)
(* its record states.  Nothing but the walk looks at the end of the table. *)
(* Offsets count from the beginning of the table.                          *)
(***************************************************************************)
EXTENDS TableReader, AcpiLayouts, FiniteSets

CONSTANTS
    AcpiLists,    \* the readers that are run
    AcpiSizes,    \* bytes of a list, behind the fields of its table
    MaxCount,     \* entries of the arrays inside a record
    MaxNesting,   \* lists within lists
    MaxOvershoot  \* bytes by which a record goes beyond its list

ASSUME AcpiAssumption ==
    /\ AcpiLists \subseteq {"APIC", "_MAT", "ASF!", "PCCT", "SRAT", "DMAR", "PMTT",
                            "MPST"}
    /\ AcpiSizes \subseteq Nat
    /\ MaxCount \in Nat /\ MaxNesting \in Nat

-----------------------------------------------------------------------------
(* Records.  length is the one stated, size that of the class laid over it,  *)
(* array the number of entries of its array, which ctypes refuses when it is *)
(* negative, and written the length that firmware states for such a record.  *)

Rec(type, length, array, size, written) ==
    [type |-> type, length |-> length, array |-> array, size |-> size,
     written |-> written]

(* A record of a class of fixed size: as firmware writes it, longer as a     *)
(* newer version would have it, cut short, and without a length.             *)
Fixed(type, size, written) ==
    {Rec(type, length, 0, size, written) :
        length \in {written, written + 4, 4, 0}}

(* A record of which the class takes all the bytes behind the first base.    *)
Trailing(type, base, Class(_)) ==
    {Rec(type, length, length - base, Class(length - base), length) :
        length \in {0, base - 1, base, base + 4}}

(* A record with a count of entries in it, each bytes long.                  *)
Counted(type, base, each, Class(_)) ==
    UNION {{Rec(type, length, n, Class(n), base + each * n) :
        length \in {base + each * n, base + each * n + 4, 0}} :
            n \in 0..MaxCount}

(* apic_subtable_list, for the APIC table and for _MAT. *)
ApicRecords ==
    UNION {
        Fixed("LOCAL_APIC", APICSubtableLocalApic, 8),
        Fixed("IO_APIC", APICSubtableIOApic, 12),
        Fixed("INT_SRC_OVERRIDE", APICSubtableIntSrcOverride, 10),
        Fixed("NMI_INT_SRC", APICSubtableNmiIntSrc, 8),
        Fixed("LOCAL_APIC_NMI", APICSubtableLocalApicNmi, 6),
        Fixed("LOCAL_X2APIC", APICSubtableLocalx2Apic, 16),
        Fixed("LOCAL_X2APIC_NMI", APICSubtableLocalx2ApicNmi, 12),
        Fixed("LOCAL_GIC", APICSubtableLocalGIC, 40),
        Fixed("LOCAL_GIC_DISTRIBUTOR", APICSubtableLocalGICDistributor, 24),
        Trailing("unknown", APICSubtable, APICSubtableUnknown_factory)}

(* ASF_subtable_list: the arrays are as long as the counts say, but for the  *)
(* addresses, which fill the record.  Of a record of no known type the       *)
(* length takes the place of a class.                                        *)
AsfRecords ==
    UNION {
        Fixed("ASF_INFO", ASF_info_record, 16),
        Counted("ASF_ALRT", 8, 12, ASF_alrt_factory),
        Counted("ASF_RCTL", 8, 4, ASF_rctl_factory),
        Fixed("ASF_RMCP", ASF_rmcp, 23),
        Trailing("ASF_ADDR", ASF_addr_record_factory(0), ASF_addr_record_factory),
        {Rec("no class", length, 0, 0, 0) : length \in {0, 4, 8}}}

(* pcct_subtable_list *)
PcctRecords ==
    Fixed("GENERIC_COMMUNICATION_SUBSPACE", PCCTGenericCommSubspace, 62) \cup
    Trailing("unknown", PCCTSubtable, pcct_subtable_unknown_factory)

(* SRAT: the factory for other types is called by a name it does not have.   *)
SratRecords ==
    UNION {
        Fixed("LOCAL_APIC_AFFINITY", SRATLocalApicAffinity, 16),
        Fixed("MEMORY_AFFINITY", SRATMemoryAffinity, 40),
        Fixed("LOCAL_X2APIC_AFFINITY", SRATLocalX2ApicAffinity, 24),
        {Rec("undefined", length, 0, 0, length) : length \in {0, 8}}}

(* dmar_subtable_list, but for the structures with device scopes.  An odd    *)
(* length is one that firmware does not write, the structures it writes      *)
(* being even.                                                               *)
DmarRecords ==
    UNION {
        Fixed("RHSA", DMARSubtableRHSA(table.align), 20),
        Trailing("ANDD", DMARSubTableANDD_factory(0), DMARSubTableANDD_factory),
        Trailing("unknown", DMARSubtable, DMARSubtableUnknown_factory)}

(* dmar_device_scope_list *)
ScopeRecords ==
    {LET paths == Count(length - DMARDeviceScope_factory(0), DMARDeviceScopePath)
     IN  Rec("scope", length, paths, DMARDeviceScope_factory(paths), length) :
        length \in {0, 5, 6, 8, 10}}

(* pmtt_subtable_list, but for sockets and memory controllers. *)
PmttRecords ==
    Fixed("DIMM", PMTTSubtableDIMM, 20) \cup
    Trailing("unknown", PMTTSubtable, pmtt_subtable_unknown_factory)

(* mpst_subtable_list *)
MpstRecords ==
    UNION {{Rec("node", length, 0, MPSTMemPowerNode_factory(states, components),
                32 + 2 * states + 2 * components) :
            length \in {32 + 2 * states + 2 * components, 32, 0}} :
        states \in 0..MaxCount, components \in 0..MaxCount}

Records(l) ==
    CASE l \in {"APIC", "_MAT"} -> ApicRecords
      [] l = "ASF!" -> AsfRecords
      [] l = "PCCT" -> PcctRecords
      [] l = "SRAT" -> SratRecords
      [] l = "DMAR" -> DmarRecords
      [] l = "scopes" -> ScopeRecords
      [] l = "PMTT" -> PmttRecords
      [] l = "MPST" -> MpstRecords

(* Where the list begins: the size of the table's class with nothing in it.  *)
Preamble(l) ==
    CASE l = "APIC" -> apic_factory(0)
      [] l = "_MAT" -> 0
      [] l = "ASF!" -> ASF_factory(0)
      [] l = "PCCT" -> pcct_factory(0)
      [] l = "SRAT" -> srat_factory(0)
      [] l = "DMAR" -> dmar_factory(0)
      [] l = "PMTT" -> pmtt_factory(0)
      [] l = "MPST" -> mpst_factory(0, 0) - 4

(* The records with a list of records inside, as <<type, list>>.             *)
Nests(l) ==
    CASE l = "DMAR" -> {<<"DRHD", "scopes">>, <<"RMRR", "scopes">>,
                        <<"ATSR", "scopes">>}
      [] l = "PMTT" -> {<<"SOCKET", "PMTT">>, <<"MEMORY_CONTROLLER", "PMTT">>}
      [] OTHER -> {}

(* The class of such a record, n being its count of domains if it has one,   *)
(* and inner the bytes of the classes in its list.                           *)
Nest(type, n, inner) ==
    CASE type = "DRHD" -> DMARSubtableDRHD_factory(inner)
      [] type = "RMRR" -> DMARSubtableRMRR_factory(inner)
      [] type = "ATSR" -> DMARSubtableATSR_factory(inner)
      [] type = "SOCKET" -> PMTTSubtableSocket_factory(inner)
      [] type = "MEMORY_CONTROLLER" ->
            PMTTSubtableMemController_factory(n, inner)

(* The bytes before the inner list, as firmware writes them. *)
NestWritten(type, n) ==
    CASE type = "DRHD" -> 16
      [] type = "RMRR" -> 24
      [] type = "ATSR" -> 8
      [] type = "SOCKET" -> 12
      [] type = "MEMORY_CONTROLLER" -> 32 + 4 * n

-----------------------------------------------------------------------------

AcpiInit ==
    \E l \in AcpiLists, size \in AcpiSizes, align \in {4, 8} :
        /\ table = [NoTable EXCEPT !.align = align,
                                   !.left = IF l = "MPST" THEN MaxCount ELSE 0]
        /\ align = 4 \/ l = "DMAR"
        /\ Opened(l, Preamble(l), Preamble(l) + size)

\* Fault: the nodes of MPST are read to an end in bytes, like other lists.
MoreBytes == u.offset < u.size

(* The condition of the loops, which is not that of Unpackable; the nodes of *)
(* MPST are counted instead.                                                 *)
More == IF list = "MPST" THEN table.left > 0 ELSE u.offset < u.size

InMemory(length) == u.offset + length <= u.size + MaxOvershoot

(* The walk goes on by the length that the record states. *)
AdvanceBy(r) == r.length

(* The classes whose size is not the length even of a record that firmware   *)
(* has written: their "_pack" leaves them padded.                            *)
Misdeclared(r) ==
    \/ r.type = "RHSA" /\ table.align = 8
    \/ list = "DMAR" /\ r.type \in {"ANDD", "unknown"} /\ r.length % 2 = 1

WalkRecord ==
    /\ status = "reading" /\ list \in AcpiLists \cup {"scopes"}
    /\ More
    /\ \E r \in Records(list) :
        /\ InMemory(r.length)
        /\ r.array >= 0 /\ r.type # "undefined"
        /\ r.length > 0 \/ list = "MPST"
        /\ u' = Advance(u, AdvanceBy(r))
        /\ due' = due + r.size
        /\ strayed' = (strayed \/ r.length # r.written \/ Misdeclared(r))
        /\ table' = [table EXCEPT !.bad = @ \/ r.type = "no class",
                                  !.left = IF list = "MPST" THEN @ - 1 ELSE @]
    /\ UNCHANGED <<list, outer, last, status>>

(* The array of a class would have a negative length, or SRAT meets a record *)
(* it has no class for.                                                      *)
WalkRaises ==
    /\ status = "reading" /\ list \in AcpiLists \cup {"scopes"}
    /\ More
    /\ \E r \in Records(list) : r.array < 0 \/ r.type = "undefined"
    /\ Raises

(* A record of length 0 is walked over again and again, a class for it being *)
(* added each time.                                                          *)
WalkForever ==
    /\ status = "reading" /\ list \in AcpiLists \cup {"scopes"}
    /\ list # "MPST"
    /\ More
    /\ \/ \E r \in Records(list) :
            r.length = 0 /\ r.array >= 0 /\ r.type # "undefined"
       \/ Nests(list) # {}
    /\ status' = "endless"
    /\ UNCHANGED <<table, list, u, due, strayed, outer, last>>

(* A record with a list inside: the list is walked first, from behind the    *)
(* fields of the class up to the length that the record states.  A record    *)
(* shorter than its fields has an empty list.                                *)
WalkInto ==
    /\ status = "reading" /\ list \in AcpiLists
    /\ More
    /\ Len(outer) < MaxNesting
    /\ \E nest \in Nests(list), n \in 0..MaxCount, bytes \in {-4, 0, 6, 8, 20, 52} :
        LET type == nest[1]
            count == IF type = "MEMORY_CONTROLLER" THEN n ELSE 0
            base == Nest(type, count, 0)
            length == NestWritten(type, count) + bytes
        IN  /\ InMemory(length)
            /\ n = count
            /\ list' = nest[2]
            /\ u' = Unpackable(u.offset + base, u.offset + length)
            /\ due' = due + base
            /\ strayed' = (strayed \/ bytes < 0)
            /\ outer' = Append(outer, [list |-> list, type |-> type, n |-> count,
                                       due |-> due, u |-> Advance(u, length)])
    /\ UNCHANGED <<table, last, status>>

(* The inner list has been walked; the class of the record that holds it is  *)
(* now known.                                                                *)
WalkOut ==
    /\ status = "reading" /\ list \in AcpiLists \cup {"scopes"}
    /\ ~More
    /\ outer # <<>>
    /\ LET o == outer[Len(outer)]
           inner == due - o.due - Nest(o.type, o.n, 0)
       IN  /\ list' = o.list
           /\ u' = o.u
           /\ due' = o.due + Nest(o.type, o.n, inner)
           /\ strayed' = (strayed \/ u.offset # u.size)
    /\ outer' = SubSeq(outer, 1, Len(outer) - 1)
    /\ UNCHANGED <<table, last, status>>

(* The classes are laid over the table.  The bytes of _MAT are copied first, *)
(* and must be as many as the classes take; a number is no class.            *)
LaidOut == ~table.bad /\ (list = "_MAT" => due <= u.size)

WalkEnds ==
    /\ status = "reading" /\ list \in AcpiLists
    /\ ~More /\ outer = <<>>
    /\ LaidOut
    /\ Ends

LayoutRaises ==
    /\ status = "reading" /\ list \in AcpiLists
    /\ ~More /\ outer = <<>>
    /\ ~LaidOut
    /\ Raises

AcpiNext ==
    \/ WalkRecord \/ WalkRaises \/ WalkForever
    \/ WalkInto \/ WalkOut
    \/ WalkEnds \/ LayoutRaises
=============================================================================
