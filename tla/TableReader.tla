---------------------------- MODULE TableReader ----------------------------
(***************************************************************************)
(* What the readers of firmware tables share.  A reader is a loop: it      *)
(* looks at the bytes at its offset, makes a record of them, and moves on  *)
(* by the length found there.  Smbios, MpTable, AcpiTables, AcpiResources, *)
(* AcpiFlat and PirTable add the steps of their readers to this state.     *)
(*                                                                         *)
(* The bytes of a table are chosen when they are read: memory may hold     *)
(* anything, and each loop reads a byte once.                              *)
(***************************************************************************)
EXTENDS Layout

VARIABLES
    table,   \* what is known of the whole table, a record
    list,    \* which list of records is being read
    u,       \* the offset of the reader and the end of the list
    due,     \* where the other account of the table has the next record
    strayed, \* a record of the table was one the two accounts may differ on
    outer,   \* the lists around this one, innermost last
    last,    \* the record read last
    status   \* idle, reading, done, raised or endless

readerVars == <<table, list, u, due, strayed, outer, last, status>>

NoTable == [from24 |-> FALSE, align |-> 4, left |-> 0, place |-> "none",
            bad |-> FALSE]
NoRecord == [kind |-> "none"]

(* A record of length bytes, of which its class takes the first at.  written *)
(* is the length that firmware states for a record like it; 0, if the code   *)
(* has no fields for such records.                                           *)
Decoded(kind, of, length, at, written) ==
    [kind |-> kind, of |-> of, length |-> length, at |-> at, written |-> written]

(* A reader of the list l that begins at byte from and ends at byte end. *)
Opened(l, from, end) ==
    /\ list = l
    /\ u = Unpackable(from, end)
    /\ due = from
    /\ strayed = FALSE
    /\ outer = <<>>
    /\ last = NoRecord
    /\ status = "reading"

(* No table is read: the initial state beside a machine of another kind. *)
ReaderIdle ==
    /\ table = NoTable
    /\ list = "none"
    /\ u = Unpackable(0, 0)
    /\ due = 0
    /\ strayed = FALSE
    /\ outer = <<>>
    /\ last = NoRecord
    /\ status = "idle"

Reading(l) == status = "reading" /\ list = l

(* An exception leaves the reader, and everything it has read is dropped. *)
Raises ==
    /\ status' = "raised"
    /\ UNCHANGED <<table, list, u, due, strayed, outer, last>>

(* The loop condition fails: the records are returned. *)
Ends ==
    /\ status' = "done"
    /\ UNCHANGED <<table, list, u, due, strayed, outer, last>>

Ended == status \in {"idle", "done", "raised"}
=============================================================================
