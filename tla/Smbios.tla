------------------------------- MODULE Smbios -------------------------------
(***************************************************************************)
(* src/python/smbios.py: SMBIOS() makes an object of every structure of    *)
(* the table.  A structure is framed by its length and the strings behind  *)
(* it; what is wrong with the frame raises out of SMBIOS(), what is wrong  *)
(* inside is caught, flagged, and the next structure read as if nothing    *)
(* had happened.  The table is read to its length, whatever number of      *)
(* structures the header states and wherever the end-of-table structure    *)
(* stands.                                                                 *)
(***************************************************************************)
EXTENDS TableReader, SmbiosLayouts

CONSTANTS
    SmbiosSizes,   \* lengths of the structure table, in bytes
    SmbiosLengths, \* lengths of a structure's formatted area
    SmbiosTypes,   \* types of structures
    MaxStrings     \* strings behind a structure, one character each

ASSUME SmbiosAssumption ==
    /\ SmbiosSizes \subseteq Nat
    /\ SmbiosLengths \subseteq 0..255 /\ SmbiosTypes \subseteq 0..255
    /\ MaxStrings \in Nat

SmbiosHeader == <<4, 1, 1, 1, 1, 2, 1, 5, 5, 1, 2, 4, 2, 1>>

(* The entry point is found, or SMBIOS() is None; its 31 bytes are the      *)
(* header's, which give the table's address and length.                     *)
SmbiosInit ==
    /\ \E from24 \in BOOLEAN : table = [NoTable EXCEPT !.from24 = from24]
    /\ \E size \in SmbiosSizes : Opened("structures", 0, size)
    /\ Total(SmbiosHeader) = 31

(* The counts that matter to the types that have them. *)
Counts(type) == IF type \in {2, 3, 15} THEN {0, 1, 2} ELSE {0}
Eaches(type) == IF type \in {3, 15} THEN {0, 2, 3} ELSE {0}

(* The structures of one length, as far as their decoding depends on them. *)
Structures(length) ==
    UNION {{[type |-> type, length |-> length, from24 |-> table.from24,
             count |-> count, each |-> each, extended |-> extended] :
                count \in Counts(type), each \in Eaches(type),
                extended \in IF type \in {19, 20} THEN BOOLEAN ELSE {FALSE}} :
            type \in SmbiosTypes}

(* What the firmware puts behind the formatted area: the strings, each with *)
(* its NUL, and one more NUL, or two when there are none.                   *)
StringsWritten(strings) == IF strings = 0 THEN 2 ELSE 2 * strings + 1

\* Fault: the second NUL of a structure without strings is not skipped.
StringsReadOnce(strings) == 2 * strings + 1

(* Strings are read up to the empty one; when that was the first, there is  *)
(* another NUL.                                                             *)
StringsRead(strings) ==
    LET one == 2
        empty == 1
        skipped == IF strings = 0 THEN 1 ELSE 0
    IN  strings * one + empty + skipped

(* Type and length are there, and the length bytes and the strings after    *)
(* them; type, length and handle are then unpacked from the length bytes.   *)
Framed(length, strings) ==
    /\ Fits(u, 2)
    /\ Fits(u, length + StringsRead(strings))
    /\ length >= 4

DecodedStructure(s) ==
    LET body == Unpacked(Body(s), s.length, 4)
    IN  [kind |-> "smbios", of |-> s, length |-> s.length, at |-> body.at,
         failed |-> body.raised \/ (s.type = 15 /\ LogLengthWrong(s))]

ReadStructure ==
    /\ Reading("structures")
    /\ last = NoRecord
    /\ ~AtEnd(u)
    /\ \E length \in SmbiosLengths, strings \in 0..MaxStrings :
        /\ Framed(length, strings)
        /\ \E s \in Structures(length) : last' = DecodedStructure(s)
        /\ u' = Advance(u, length + StringsRead(strings))
        /\ due' = due + length + StringsWritten(strings)
    /\ UNCHANGED <<table, list, strayed, outer, status>>

(* The structure is appended, whether it has failed or not. *)
KeepStructure ==
    /\ Reading("structures")
    /\ last # NoRecord
    /\ last' = NoRecord
    /\ UNCHANGED <<table, list, u, due, strayed, outer, status>>

(* The frame is broken, or does not end within the table. *)
StructureRaises ==
    /\ Reading("structures")
    /\ last = NoRecord
    /\ ~AtEnd(u)
    /\ \E length \in SmbiosLengths, strings \in 0..MaxStrings :
        ~Framed(length, strings)
    /\ Raises

StructuresEnd ==
    /\ Reading("structures")
    /\ last = NoRecord
    /\ AtEnd(u)
    /\ Ends

SmbiosNext ==
    ReadStructure \/ KeepStructure \/ StructureRaises \/ StructuresEnd

-----------------------------------------------------------------------------
(* Properties *)

KnownFields(s) ==
    LET groups == Body(s) IN [i \in 1..Len(groups) |-> Total(groups[i][2])]

(* The structure ends where one of its groups of fields does, and only such *)
(* groups are left as depend on the length.                                 *)
EndsBetweenFields(s) ==
    LET groups == Body(s)
        sizes == KnownFields(s)
    IN  \E k \in 0..Len(sizes) :
            /\ s.length = 4 + Total(SubSeq(sizes, 1, k))
            /\ \A j \in k + 1..Len(groups) : groups[j][1] # 0

(* Where a test of a length and the width of a field disagree, as <<type,   *)
(* length>>.  Cache information guards its last field but one, and system    *)
(* reset its second, by the guard of the field before; the 64-bit memory     *)
(* errors have the guards of the 32-bit ones; and memory channels reserve    *)
(* two bytes for fields of one.                                              *)
Misguarded == {<<7, 17>>, <<23, 7>>, <<33, 19>>, <<33, 27>>} \cup
              ({37} \X {6, 7, 8, 10})

(* A structure that ends between two fields, as those of every version of    *)
(* the specification do, is decoded to its end without a failure: each       *)
(* "if self.length >" of a class agrees with the widths of all the fields    *)
(* before it.                                                                *)
GuardsMatchFields ==
    last.kind = "smbios" /\ <<last.of.type, last.length>> \notin Misguarded
        /\ EndsBetweenFields(last.of)
        /\ ~(last.of.type = 15 /\ LogLengthWrong(last.of)) =>
            last.at = last.length /\ ~last.failed

(* A processor of 24h bytes has a count that is tested for one byte too      *)
(* late, boot information skips its reserved bytes only with its last field, *)
(* and memory channels lag behind their fields.                              *)
Undecoded == {<<4, 36>>} \cup ({32} \X (5..10)) \cup ({37} \X (6..12))

(* A structure that is not flagged as a failure has been decoded to its end, *)
(* or else all the fields its class knows: no known field goes to the raw    *)
(* data behind them without a word.                                          *)
NoSilentLoss ==
    last.kind = "smbios" /\ <<last.of.type, last.length>> \notin Undecoded
        /\ ~last.failed =>
            \/ last.at = last.length
            \/ last.at = 4 + Total(KnownFields(last.of))

(* A structure is decoded to its end and no failure is reported, or fields    *)
(* are missing from it and that is reported, but for the exceptions above.    *)
StructuresDecoded == GuardsMatchFields /\ NoSilentLoss
=============================================================================
