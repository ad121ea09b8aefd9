------------------------------ MODULE MpTable ------------------------------
(***************************************************************************)
(* src/python/mptable.py: MPTable() finds the floating pointer, reads the  *)
(* header it points to, then the base list, whose entries have a length by *)
(* their type, and the extended list, whose entries state theirs.  Nothing *)
(* is caught on the way: one bad entry and there is no table at all.       *)
(***************************************************************************)
EXTENDS TableReader

CONSTANTS
    MpBaseLengths,    \* base_table_length, the header's 44 bytes included
    MpExtendedLengths \* extended_table_length

ASSUME MpAssumption ==
    MpBaseLengths \subseteq Nat /\ MpExtendedLengths \subseteq Nat

FloatingPointer == <<4, 4, 1, 1, 1, 1, 1, 1, 1, 1>>

MpHeader == <<4, 2, 1, 1, 8, 12, 4, 2, 2, 4, 2, 1, 1>>

(* The ranges are searched in this order; the last is no valid one, but has *)
(* been seen.  The EBDA is searched when the BIOS data area names one.      *)
SearchOrder(ebda) ==
    (IF ebda THEN <<"EBDA">> ELSE <<>>) \o <<"base memory", "BIOS", "E0000">>

(* The range with the first floating pointer whose signature, length and    *)
(* checksum are right.                                                      *)
FindMpTable(ebda, holding) ==
    Head(SelectSeq(SearchOrder(ebda), LAMBDA range: range \in holding))

(* The widths behind the type byte, reserved bytes included. *)
Processor == <<1, 1, 1, 4, 4, 8>>
Bus == <<1, 6>>
IOApic == <<1, 1, 1, 4>>
IOInterrupt == <<1, 1, 1, 1, 1, 1, 1>>
LocalInterrupt == <<1, 1, 1, 1, 1, 1, 1>>
UnknownEntry == <<>>

BaseFields(type) ==
    CASE type = 0 -> Processor
      [] type = 1 -> Bus
      [] type = 2 -> IOApic
      [] type = 3 -> IOInterrupt
      [] type = 4 -> LocalInterrupt
      [] OTHER -> UnknownEntry

(* MpBaseStructure: the length of an entry is not stated in it. *)
EntryLength(type) == IF type = 0 THEN 20 ELSE 8

(* The entries of the base list as the firmware lays them out. *)
EntryWritten(type) == CASE type = 0 -> 20 [] type \in 1..5 -> 8

(* The widths behind the two bytes of type and length. *)
SystemAddressSpaceMapping == <<1, 1, 8, 8>>
BusHierachyDescriptor == <<1, 1, 1, 3>>
CompatibilityBusAddressSpaceModifier == <<1, 1, 4>>
UnknownExtended == <<>>

ExtendedFields(type) ==
    CASE type = 128 -> SystemAddressSpaceMapping
      [] type = 129 -> BusHierachyDescriptor
      [] type = 130 -> CompatibilityBusAddressSpaceModifier
      [] OTHER -> UnknownExtended

(* The length of such an extended entry in the specification. *)
ExtendedWritten(type) ==
    CASE type = 128 -> 20 [] type \in {129, 130} -> 8 [] OTHER -> 0

-----------------------------------------------------------------------------

MpInit ==
    /\ \E ebda \in BOOLEAN,
          holding \in (SUBSET {"EBDA", "base memory", "BIOS", "E0000"}) \ {{}} :
        /\ holding # {"EBDA"} \/ ebda
        /\ table = [NoTable EXCEPT !.place = FindMpTable(ebda, holding)]
    /\ \E base \in MpBaseLengths : Opened("mp header", 0, base)
    /\ Total(FloatingPointer) = 16

(* The header has been read from 44 bytes of its own; the base table is as   *)
(* long as the header says, which need not be as long as the header.         *)
SkipHeader ==
    /\ Reading("mp header")
    /\ Fits(u, Total(MpHeader))
    /\ list' = "mp base"
    /\ u' = Advance(u, Total(MpHeader))
    /\ due' = 44
    /\ UNCHANGED <<table, strayed, outer, last, status>>

HeaderRaises ==
    /\ Reading("mp header")
    /\ ~Fits(u, Total(MpHeader))
    /\ Raises

ReadEntry ==
    /\ Reading("mp base")
    /\ ~AtEnd(u)
    /\ \E type \in 0..5 :
        LET length == EntryLength(type)
            body == Unpacked(<<Always(BaseFields(type))>>, length, 1)
        IN  /\ Fits(u, length) /\ ~body.raised
            /\ last' = Decoded("mp", "entry", length, body.at,
                                IF type = 5 THEN 0 ELSE EntryWritten(type))
            /\ u' = Advance(u, length)
            /\ due' = due + EntryWritten(type)
    /\ UNCHANGED <<table, list, strayed, outer, status>>

EntryRaises ==
    /\ Reading("mp base")
    /\ ~AtEnd(u)
    /\ \E type \in 0..5 : ~Fits(u, EntryLength(type))
    /\ Raises

(* The extended table begins where the base table ends, and is read from a   *)
(* window of its own.                                                        *)
OpenExtended ==
    /\ Reading("mp base")
    /\ AtEnd(u)
    /\ list' = "mp extended"
    /\ \E length \in MpExtendedLengths : u' = Unpackable(0, length)
    /\ due' = 0
    /\ last' = NoRecord
    /\ UNCHANGED <<table, strayed, outer, status>>

ExtendedBody(type, length) ==
    Unpacked(<<Always(ExtendedFields(type))>>, length, 2)

\* Fault: type and length are read without moving into the entry's window.
FitsWithoutWindow(type, length) == Fits(u, 2) /\ Fits(u, length)

ExtendedFits(type, length) ==
    /\ Fits(u, 2)
    /\ Fits(u, length)
    /\ length >= 2
    /\ ~ExtendedBody(type, length).raised

(* The lengths of the specification, a longer one, and broken ones. *)
ExtendedLengths(type) ==
    {0, 1, 7, 24} \cup (CASE type = 128 -> {20} [] OTHER -> {8})

ReadExtended ==
    /\ Reading("mp extended")
    /\ ~AtEnd(u)
    /\ \E type \in 128..131 : \E length \in ExtendedLengths(type) :
        /\ ExtendedFits(type, length)
        /\ last' = Decoded("mp", "entry", length, ExtendedBody(type, length).at,
                            ExtendedWritten(type))
        /\ u' = Advance(u, length)
        /\ due' = due + length
    /\ UNCHANGED <<table, list, strayed, outer, status>>

ExtendedRaises ==
    /\ Reading("mp extended")
    /\ ~AtEnd(u)
    /\ \E type \in 128..131 : \E length \in ExtendedLengths(type) :
        ~ExtendedFits(type, length)
    /\ Raises

ExtendedEnds ==
    /\ Reading("mp extended")
    /\ AtEnd(u)
    /\ Ends

MpNext ==
    \/ SkipHeader \/ HeaderRaises
    \/ ReadEntry \/ EntryRaises \/ OpenExtended
    \/ ReadExtended \/ ExtendedRaises \/ ExtendedEnds
=============================================================================
