------------------------------- MODULE Layout -------------------------------
(***************************************************************************)
(* The two ways in which BITS turns bytes into records, seen through the   *)
(* only thing the table readers depend on: how many bytes a field takes    *)
(* and where it lies.                                                      *)
(*                                                                         *)
(*  - unpack.Unpackable (src/python/unpack.py): a window on the bytes of a *)
(*    table with an offset; every read is checked against the end of the   *)
(*    window and raises UnpackError beyond it.  smbios.py and mptable.py   *)
(*    are written on it.                                                   *)
(*  - ctypes structures (bits.cdata.Struct): a class is laid over an       *)
(*    address and knows nothing of the length of the table.  acpi.py and   *)
(*    bits/pirtable.py are written on them.                                *)
(***************************************************************************)
EXTENDS Integers, SequencesExt

(* Unpackable: data is left out, offset and size are the window. *)
Unpackable(offset, size) == [offset |-> offset, size |-> size]

(* The condition of _check_unpack, which every read makes first. *)
Fits(u, n) == u.offset + n <= u.size

AtEnd(u) == u.offset = u.size

(* skip, unpack and unpack_raw, once the check has passed. *)
Advance(u, n) == [u EXCEPT !.offset = @ + n]

(***************************************************************************)
(* A body of fields: a sequence of groups <<over, widths>>.  The code of a *)
(* group is "if self.length > over:", followed by one unpack per width;    *)
(* over = 0 stands for fields that are read unconditionally.               *)
(***************************************************************************)
Always(widths) == <<0, widths>>
Over(over, widths) == <<over, widths>>

(* Two things a group may do that are not the unpacking of a field: take   *)
(* the rest of the window, or raise whatever the bytes are.                *)
Rest == 1000
Raise == 2000

(* The sum of n widths. *)
SumOf(n, Width(_)) ==
    LET upto[i \in 0..n] == IF i = 0 THEN 0 ELSE upto[i - 1] + Width(i)
    IN  upto[n]

Total(widths) == SumOf(Len(widths), LAMBDA i: widths[i])

(* The window after a body.  It raises as soon as one read is beyond the     *)
(* end, which is when all of them together are; Rest comes last.             *)
Unpacked(groups, length, from) ==
    LET read == {i \in 1..Len(groups) : length > groups[i][1]}
        known(ws) == SumOf(Len(ws), LAMBDA k: IF ws[k] = Rest THEN 0 ELSE ws[k])
        end == from + SumOf(Len(groups),
                          LAMBDA i: IF i \in read THEN known(groups[i][2]) ELSE 0)
    IN  [raised |-> end > length,
         at |-> IF \E i \in read : Contains(groups[i][2], Rest)
                THEN length ELSE end]

(* n fields of one width, as in a list comprehension over a count. *)
Times(n, width) == IF n > 0 THEN [i \in 1..n |-> width] ELSE <<>>

(***************************************************************************)
(* ctypes.                                                                 *)
(***************************************************************************)

(* The size of a structure with _pack_ = 1. *)
Packed(fields) == Total(fields)

(* A union of an integer of unit bytes with a structure of bit fields of   *)
(* the same unit: ctypes opens another unit when the widths overflow one.  *)
Flags(unit, widths) ==
    LET bits == 8 * unit
        full == (Total(widths) + bits - 1) \div bits
    IN  unit * (IF full > 1 THEN full ELSE 1)

RoundUp(n, align) == ((n + align - 1) \div align) * align

(* The size of a structure without a packing: fields are <<size, align>>,  *)
(* every field starts at a multiple of its alignment and the whole is      *)
(* rounded up to the largest of them.                                      *)
Aligned(fields) ==
    LET ends[i \in 0..Len(fields)] ==
            IF i = 0 THEN 0
            ELSE RoundUp(ends[i - 1], fields[i][2]) + fields[i][1]
        aligns == {fields[i][2] : i \in 1..Len(fields)}
    IN  RoundUp(ends[Len(fields)], Max(aligns))

(* Python 2 division of integers, which rounds down. *)
Count(bytes, each) == bytes \div each
=============================================================================
