---------------------------- MODULE ControlWait ----------------------------
(***************************************************************************)
(* The control words through which two processors hand control to each     *)
(* other: set_control of rc/smp/barrier.c, which stores a word, and        *)
(* wait_for_control_asm of rc/smp/smpasm.S, which waits until a word has a *)
(* given value, spinning or with MONITOR/MWAIT.                            *)
(*                                                                         *)
(* The MWAIT loop tests the word, arms the monitor, tests again and only   *)
(* then sleeps.  A store to the monitored line wakes the sleeper or, when  *)
(* it comes between MONITOR and MWAIT, makes MWAIT fall through.  Each     *)
(* processor has one control word, in a cache line of its own              *)
(* (SMP_MWAIT_ALIGN).  Stores of one processor become visible in the order *)
(* it makes them, as on every x86.                                         *)
(***************************************************************************)
EXTENDS Naturals

CONSTANT Cpu

BSP_IN_CONTROL == 0
AP_IN_CONTROL == 1
Control == {BSP_IN_CONTROL, AP_IN_CONTROL}

VARIABLES
  control,  \* the control word of each processor's slot
  wpc,      \* where each processor is in wait_for_control
  word,     \* the word it waits on, by owner
  value,    \* the value it waits for
  monitor   \* its address monitor: "clear", "armed", or "hit" by a store

waitVars == <<wpc, word, value, monitor>>

\* "out": not in wait_for_control; "test" and "retest": before the compare
\* that precedes and that follows MONITOR; "poll": the loop without MWAIT.
WaitPcs == {"out", "test", "arm", "retest", "asleep", "poll"}

WaitTypeOK ==
  /\ control \in [Cpu -> Control]
  /\ wpc \in [Cpu -> WaitPcs]
  /\ word \in [Cpu -> Cpu]
  /\ value \in [Cpu -> Control]
  /\ monitor \in [Cpu -> {"clear", "armed", "hit"}]

Arrived(c) == control[word[c]] = value[c]

\* A store to word w hits every monitor that is armed on its line.
set_control(w, v) ==
  /\ control' = [control EXCEPT ![w] = v]
  /\ monitor' = [c \in Cpu |-> IF monitor[c] = "armed" /\ word[c] = w
                               THEN "hit" ELSE monitor[c]]

wait_for_control(c, w, v, use_mwait) ==
  /\ wpc[c] = "out"
  /\ wpc' = [wpc EXCEPT ![c] = IF use_mwait THEN "test" ELSE "poll"]
  /\ word' = [word EXCEPT ![c] = w]
  /\ value' = [value EXCEPT ![c] = v]
  /\ UNCHANGED <<control, monitor>>

WaitGoto(c, from, to) ==
  /\ wpc[c] = from
  /\ wpc' = [wpc EXCEPT ![c] = to]
  /\ UNCHANGED <<control, word, value>>

FirstTest(c) ==
  /\ WaitGoto(c, "test", IF Arrived(c) THEN "out" ELSE "arm")
  /\ UNCHANGED monitor

Arm(c) ==
  /\ WaitGoto(c, "arm", "retest")
  /\ monitor' = [monitor EXCEPT ![c] = "armed"]

\* Fault: MWAIT right after MONITOR.
SecondTestMissing(c) ==
  /\ WaitGoto(c, "retest", "asleep")
  /\ UNCHANGED monitor

\* Leaving with the monitor armed does not matter: no MWAIT is executed
\* before MONITOR is again.
SecondTest(c) ==
  /\ WaitGoto(c, "retest", IF Arrived(c) THEN "out" ELSE "asleep")
  /\ monitor' = IF Arrived(c) THEN [monitor EXCEPT ![c] = "clear"] ELSE monitor

\* MWAIT ends because the monitor was hit.
Woken(c) ==
  /\ monitor[c] = "hit"
  /\ WaitGoto(c, "asleep", "test")
  /\ monitor' = [monitor EXCEPT ![c] = "clear"]

\* MWAIT may also end for a reason of its own (an interrupt, an SMI, a store
\* elsewhere in the line); nothing promises that it does.
WokenEarly(c) ==
  /\ monitor[c] = "armed"
  /\ WaitGoto(c, "asleep", "test")
  /\ monitor' = [monitor EXCEPT ![c] = "clear"]

Poll(c) ==
  /\ Arrived(c)
  /\ WaitGoto(c, "poll", "out")
  /\ UNCHANGED monitor

\* What a processor in wait_for_control does by itself.
WaitStep(c) == FirstTest(c) \/ Arm(c) \/ SecondTest(c) \/ Woken(c) \/ Poll(c)

\* A processor never sleeps on a value that is already there, unless the
\* store that brought it has hit its monitor: otherwise nothing would wake it,
\* as the other side has done its part (the reason for the second compare in
\* the MWAIT loops).
NoLostWakeup ==
  \A c \in Cpu : wpc[c] = "asleep" /\ Arrived(c) => monitor[c] = "hit"
=============================================================================
