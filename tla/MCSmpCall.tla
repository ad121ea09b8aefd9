----------------------------- MODULE MCSmpCall -----------------------------
(***************************************************************************)
(* SmpCall for TLC: the BSP and two APs, one foreign APIC id, one function *)
(* besides ap_park and NULL, two parameters, MWAIT there or not.           *)
(***************************************************************************)
EXTENDS SmpCall

CONSTANTS c1, c2, stranger, f1, x1

MCCpu == {BSP, c1, c2}
MCStrangers == {stranger}
MCFn == {ap_park, NoFn, f1}
MCArg == {NoArg, x1}
=============================================================================
