--------------------------- MODULE FirmwareTables ---------------------------
(***************************************************************************)
(* The code that reads what the firmware has left in memory, the code that *)
(* drives the firmware by it, and the code that updates the microcode: one *)
(* of the readers of tables runs, or einj.py, or mcu_load or mcu_status.   *)
(* None of them calls another.                                             *)
(***************************************************************************)
EXTENDS Smbios, MpTable, PirTable, AcpiFlat, AcpiTables, AcpiResources, Einj,
        Microcode

vars == <<readerVars, einjVars, mcuVars>>

ReaderInit ==
    SmbiosInit \/ MpInit \/ PirInit \/ FlatInit \/ AcpiInit \/ ResourceInit

ReaderNext ==
    SmbiosNext \/ MpNext \/ PirNext \/ FlatNext \/ AcpiNext \/ ResourceNext

Init ==
    \/ ReaderInit /\ EinjIdle /\ McuIdle
    \/ ReaderIdle /\ EinjInit /\ McuIdle
    \/ ReaderIdle /\ EinjIdle /\ McuInit

(* What was to be read has been read, no injection is under way, and the     *)
(* report on the microcode has been shown.                                   *)
Rests ==
    /\ status # "reading" /\ pc = "idle" /\ mcuPc \in {"idle", "done"}
    /\ UNCHANGED vars

Next ==
    \/ ReaderNext /\ UNCHANGED <<einjVars, mcuVars>>
    \/ EinjNext /\ UNCHANGED <<readerVars, mcuVars>>
    \/ McuNext /\ UNCHANGED <<readerVars, einjVars>>
    \/ Rests

(* Python and the commands of GRUB run on as long as they can, and the       *)
(* firmware ends what it began.                                              *)
(* A reader can always go on, for no loop of one waits: this is WF of        *)
(* ReaderNext with status = "reading" for its ENABLED.                       *)
Fairness ==
    /\ []<>(status # "reading") \/ []<><<TRUE>>_readerVars
    /\ WF_vars(EinjStep /\ UNCHANGED <<readerVars, mcuVars>>)
    /\ WF_vars(FirmwareCompletes /\ UNCHANGED <<readerVars, mcuVars>>)
    /\ WF_vars(McuNext /\ UNCHANGED <<readerVars, einjVars>>)

Spec == Init /\ [][Next]_vars /\ Fairness

-----------------------------------------------------------------------------
(* Properties *)

TablesTypeOK ==
    /\ status \in {"idle", "reading", "done", "raised", "endless"}
    /\ u.offset \in Nat /\ u.size \in Int /\ due \in Nat
    /\ strayed \in BOOLEAN
    /\ Len(outer) <= MaxNesting
    /\ table.left \in 0..MaxCount
    /\ last.kind # "none" => last.at \in Nat /\ last.length \in Nat
    /\ EinjTypeOK
    /\ McuTypeOK

(* As long as a table holds nothing but records of the kinds and lengths     *)
(* that firmware writes, a reader is where the table has its next record:    *)
(* the lengths by which SMBIOS and MP structures are stepped over are those  *)
(* they take, and the ctypes classes that acpi.py lays one behind the other, *)
(* nested ones included, begin where the walk has met their records.         *)
(* Resource descriptors and extended entries of MP tables have no length but *)
(* that by which their readers step: of them this says nothing.              *)
InStep == ~strayed => u.offset = due

(* What the fields of a class leave out of a record that is as firmware      *)
(* writes it: the upper halves of the addresses of a 32-bit memory range,    *)
(* fields of FACP revisions the code has no class for.  The class of a       *)
(* vendor's resource takes all the bytes behind it too.                      *)
Short == {"Memory32BitRange", "FACP of another revision", "VendorDefined"}

(* The fields of a class are the bytes of its record, no fewer and no more,  *)
(* whenever the record has the length that firmware writes for its type.     *)
DecodedExactly ==
    last.kind \in {"table", "resource", "mp"} /\ last.length = last.written
        /\ last.of \notin Short => last.at = last.length

(* A reader returns or raises, whatever is in the table, unless it is one of *)
(* those that walk an ACPI list over a record of length 0.                   *)
ReaderEnds ==
    <>(Ended \/ (status = "endless" /\ list \in AcpiLists \cup {"scopes"}))

(* Whatever runs comes to its end: a reader of tables, every injection, and  *)
(* a command for the microcode.                                              *)
RunsEnd == ReaderEnds /\ InjectionEnds /\ <>(mcuPc \in {"idle", "done"})
=============================================================================
