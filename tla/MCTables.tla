------------------------------ MODULE MCTables ------------------------------
(***************************************************************************)
(* FirmwareTables for TLC: tables of a few records each, and files of few  *)
(* updates.                                                                *)
(***************************************************************************)
EXTENDS FirmwareTables

(* One structure with at most two strings has up to 40 bytes. *)
SmbiosSizesMC == {0, 1, 42}
SmbiosLengthsMC == 0..40
SmbiosTypesMC == 0..43

(* No header, a header alone, one entry, one of the other length, and a cut. *)
MpBaseLengthsMC == {43, 44, 64, 72, 74}
MpExtendedLengthsMC == {0, 8, 20, 29}

PirSizesMC == {0, 16, 40, 48, 64, 80, 128}

AcpiListsMC == {"APIC", "_MAT", "ASF!", "PCCT", "SRAT", "DMAR", "PMTT", "MPST"}

(* 64 bytes hold a socket, a controller and a DIMM, each in the one before.  *)
AcpiSizesMC == {0, 20, 64}

(* The longest descriptor and the end tag take 58 bytes. *)
BufferSizesMC == {0, 1, 4, 24, 58}

OptionalMC == {"SET_ERROR_TYPE_WITH_ADDRESS", "CHECK_BUSY_STATUS",
               "GET_COMMAND_STATUS", "END_OPERATION"}

(* Two threads of one core, with that of another core between them. *)
CoreOfMC == <<1, 2, 1>>
McuTypesMC == {"p", "q"}
GarbageMC == {0, 1}

(* One file of each kind, and one that holds two updates; the revisions are  *)
(* older and newer than others, negative, and the 0 that is never loaded.    *)
McuUpdate(fits, ext, total, cut, revision) ==
    [fits |-> fits, ext |-> ext, total |-> total, cut |-> cut,
     revision |-> revision]
McuFilesMC ==
    {<<McuUpdate({"p"}, {}, "exact", FALSE, r)>> : r \in {0, 2}}
    \cup {<<McuUpdate({"q"}, {"p"}, "extended", FALSE, 1)>>,
          <<McuUpdate({"q"}, {}, "short", FALSE, 2)>>,
          <<McuUpdate({"p", "q"}, {}, "exact", TRUE, 2)>>,
          <<McuUpdate({"q"}, {}, "exact", FALSE, 3),
            McuUpdate({"p"}, {}, "exact", FALSE, 1)>>}
=============================================================================
