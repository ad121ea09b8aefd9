------------------------------ MODULE PirTable ------------------------------
(***************************************************************************)
(* src/python/bits/pirtable.py: PIRTable() finds the PCI interrupt routing *)
(* table and lays a class over it, a header, 32 reserved bytes and the     *)
(* slots that the rest of the table has room for.  The table has no such   *)
(* reserved bytes: its slots begin behind the header, so the first two are *)
(* taken for them.                                                         *)
(***************************************************************************)
EXTENDS TableReader

CONSTANT PirSizes \* table_size of tables that may be found

ASSUME PirAssumption == PirSizes \subseteq Nat

PirHeader == Packed(<<4, 2, 2, 1, 1, 2, 2, 2, 4, 11, 1>>)

SlotEntry == Packed(<<1, 1, 1, 2, 1, 2, 1, 2, 1, 2, 1, 1>>)

pir_factory(num_slots) == Packed(<<PirHeader, 32, num_slots * SlotEntry>>)

(* The tables that pass the tests in a range of size bytes, at offset; the   *)
(* checksum is left out.                                                     *)
find_pir_table(size, offset) ==
    {table_size \in PirSizes :
        table_size <= size - offset /\ (table_size - 32) % 16 = 0}

PirInit ==
    /\ table = NoTable
    /\ \E offset \in {0, 16, 65536 - 48} :
        \E table_size \in find_pir_table(65536, offset) :
            Opened("pir", 0, table_size)

NumSlots == Count(u.size - pir_factory(0), SlotEntry)

ReadPir ==
    /\ Reading("pir")
    /\ NumSlots >= 0
    /\ last' = Decoded("pir", "PIR", u.size, pir_factory(NumSlots), u.size)
    /\ u' = Advance(u, pir_factory(0))
    /\ due' = PirHeader
    /\ strayed' = TRUE
    /\ status' = "done"
    /\ UNCHANGED <<table, list, outer>>

(* A table of fewer than two slots. *)
PirRaises ==
    /\ Reading("pir")
    /\ NumSlots < 0
    /\ Raises

PirNext == ReadPir \/ PirRaises
=============================================================================
