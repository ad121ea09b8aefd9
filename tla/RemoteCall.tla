----------------------------- MODULE RemoteCall -----------------------------
(***************************************************************************)
(* What smp_function promises its caller: the call either is refused at    *)
(* once, because it names nobody or nothing, or the named processor runs   *)
(* the given function with the given parameter exactly once, between the   *)
(* call and its return.  There is no third outcome, no time-out, and one   *)
(* call at a time.                                                         *)
(***************************************************************************)
EXTENDS Naturals

CONSTANTS
  Cpu,      \* the processors of the table
  Target,   \* the APIC ids callers name, some of which belong to nobody
  Fn, Arg,  \* functions and their parameters
  NoFn,     \* the NULL function
  NoCall    \* nothing was run

VARIABLES
  up,       \* the runtime is initialised
  phase,    \* "idle", "asked" or "done"
  req,      \* the call being served: [cpu, fn, arg]
  ran,      \* what was run for it so far, by whom
  runs,     \* how often
  ret       \* what the last call returned

vars == <<up, phase, req, ran, runs, ret>>

Servable == up /\ req.cpu \in Cpu /\ req.fn # NoFn

Init ==
  /\ up \in BOOLEAN
  /\ phase = "idle"
  /\ req = NoCall
  /\ ran = NoCall
  /\ runs = 0
  /\ ret = 0

Toggle ==
  /\ phase = "idle"
  /\ up' = ~ up
  /\ UNCHANGED <<phase, req, ran, runs, ret>>

Ask(c, f, x) ==
  /\ phase = "idle"
  /\ phase' = "asked"
  /\ req' = [cpu |-> c, fn |-> f, arg |-> x]
  /\ UNCHANGED <<up, ran, runs, ret>>

\* The call is over; nothing of it is left to be run.
Finish(r) ==
  /\ phase' = "idle"
  /\ ret' = r
  /\ req' = NoCall
  /\ ran' = NoCall
  /\ runs' = 0
  /\ UNCHANGED up

Refuse ==
  /\ phase = "asked"
  /\ ~ Servable
  /\ Finish(0)

Execute ==
  /\ phase = "asked"
  /\ Servable
  /\ phase' = "done"
  /\ ran' = req
  /\ runs' = runs + 1
  /\ UNCHANGED <<up, req, ret>>

Return ==
  /\ phase = "done"
  /\ Finish(1)

Serve == Refuse \/ Execute \/ Return

Next ==
  \/ Toggle
  \/ \E c \in Target, f \in Fn, x \in Arg : Ask(c, f, x)
  \/ Serve

Safety == Init /\ [][Next]_vars

\* A call that was made returns.
Spec == Safety /\ WF_vars(Serve)
=============================================================================
