----------------------------- MODULE MCSmpBoot -----------------------------
(***************************************************************************)
(* SmpBoot for TLC: three APs.  The firmware lists all of them, one more   *)
(* than answers, one too few, nobody, or more than the tables hold, or it  *)
(* leaves a subtable without a length; every MADT also has entries that    *)
(* must not be counted.                                                    *)
(***************************************************************************)
EXTENDS SmpBoot, Sequences

CONSTANTS a1, a2, a3

MCAP == {a1, a2, a3}
BspOrFirst == {BSP, a1}

Entry(t, e) == [type |-> t, enabled |-> e, length |-> 8]
Listing(n) ==
  <<Entry("lapic", FALSE), Entry("ioapic", TRUE)>>
    \o [i \in 1 .. n |-> Entry(IF i % 2 = 0 THEN "lapic" ELSE "x2apic", TRUE)]

Exact == Listing(4)
OneTooMany == Listing(5)
OneTooFew == Listing(3)
Nobody == Listing(0)
TooManyForTheTables == Listing(6)
WithoutLength == Append(Exact, [Entry("ioapic", TRUE) EXCEPT !.length = 0])

\* All of them, and the one that is right.
AnyMadt == {Exact, OneTooMany, OneTooFew, Nobody, TooManyForTheTables, WithoutLength}
ExactOnly == {Exact}
=============================================================================
