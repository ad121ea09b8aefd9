------------------------------ MODULE SmpCall ------------------------------
(***************************************************************************)
(* How the BSP has another processor run a function: smp_function and the  *)
(* MWAIT settings of rc/smp/smprc.c on the BSP's side, the loop of         *)
(* mp_worker on the AP's.  SmpBoot shows that every processor of the table *)
(* reaches that loop and polls the control word of its own slot, so a slot *)
(* is named here by its processor.                                         *)
(*                                                                         *)
(* GRUB runs one caller, on the BSP, and every function it is asked to run *)
(* terminates.                                                             *)
(***************************************************************************)
EXTENDS ControlWait

CONSTANTS
  BSP,          \* the boot processor
  Strangers,    \* APIC ids that no processor of the table has
  Fn, Arg,      \* functions and parameters that callers pass
  NoFn,         \* the NULL function
  NoCall,       \* no call was made, nothing was run
  ap_park, NoArg, \* what smp_init puts into function and param
  MwaitAnswers, \* what mwait_supported() may answer, each time it is asked
  MwaitCpus     \* bound: the processors whose MWAIT settings are changed

AP == Cpu \ {BSP}

ASSUME CallAssumption ==
  /\ BSP \in Cpu
  /\ Strangers \cap Cpu = {}
  /\ ap_park \in Fn
  /\ NoFn \in Fn
  /\ NoFn # ap_park
  /\ NoArg \in Arg
  /\ MwaitAnswers \subseteq BOOLEAN
  /\ MwaitCpus \subseteq Cpu
  /\ NoCall \notin [cpu : Cpu \cup Strangers, fn : Fn, arg : Arg]

VARIABLES
  initialized,  \* host->initialized = SMP_MAGIC
  bspPc,        \* where the BSP is in smp_function
  call,         \* its arguments
  fn, arg,      \* cpu_data[].function and .param
  useMwait,     \* cpu_data[].use_mwait
  apPc,         \* where each AP is in the loop of mp_worker
  ran, runs,    \* history: what the current call made run, and how often
  ret           \* what smp_function returned last

callVars == <<bspPc, call, ret>>
dataVars == <<fn, arg>>
runVars == <<ran, runs>>
vars == <<control, waitVars, initialized, callVars, dataVars, useMwait, apPc, runVars>>

BspPcs == {"idle", "check", "restore", "function", "param", "give", "enter", "wait"}
ApPcs == {"loop", "wait", "run", "give"}
Target == Cpu \cup Strangers
Call == [cpu : Target, fn : Fn, arg : Arg]

Init ==
  /\ control = [c \in Cpu |-> BSP_IN_CONTROL]
  /\ wpc = [c \in Cpu |-> "out"]
  /\ word = [c \in Cpu |-> c]
  /\ value = [c \in Cpu |-> AP_IN_CONTROL]
  /\ monitor = [c \in Cpu |-> "clear"]
  /\ initialized = TRUE
  /\ bspPc = "idle"
  /\ call = NoCall
  /\ fn = [c \in Cpu |-> ap_park]
  /\ arg = [c \in Cpu |-> NoArg]
  /\ useMwait = [c \in Cpu |-> TRUE]
  /\ apPc = [c \in AP |-> "loop"]
  /\ ran = NoCall
  /\ runs = 0
  /\ ret = 0

-----------------------------------------------------------------------------
(* The BSP.                                                                *)

BspGoto(from, to) == bspPc = from /\ bspPc' = to

smp_function(c, f, x) ==
  /\ BspGoto("idle", "check")
  /\ call' = [cpu |-> c, fn |-> f, arg |-> x]
  /\ UNCHANGED <<control, waitVars, initialized, ret, dataVars, useMwait, apPc, runVars>>

\* Back to the caller with r; the history of the call ends with it.
ReturnFrom(from, r) ==
  /\ BspGoto(from, "idle")
  /\ ret' = r
  /\ call' = NoCall
  /\ ran' = NoCall
  /\ runs' = 0
  /\ UNCHANGED <<control, waitVars, initialized, dataVars, useMwait, apPc>>

\* The early returns: not initialised, no function, an APIC id that is not in
\* the table, a processor that has not handed control back.
Rejected ==
  \/ ~ initialized
  \/ call.fn = NoFn
  \/ call.cpu \in Strangers
  \/ call.cpu \in AP /\ control[call.cpu] # BSP_IN_CONTROL

Reject ==
  /\ ReturnFrom("check", 0)
  /\ Rejected

\* For its own APIC id the BSP just runs the function, under an exception
\* handler that recovers from #GP, and puts the old one back.
RunOnBsp ==
  /\ BspGoto("check", "restore")
  /\ ~ Rejected
  /\ call.cpu = BSP
  /\ ran' = call
  /\ runs' = runs + 1
  /\ UNCHANGED <<control, waitVars, initialized, call, ret, dataVars, useMwait, apPc>>

RestoreHandler == ReturnFrom("restore", 1)

Available ==
  /\ BspGoto("check", "function")
  /\ ~ Rejected
  /\ call.cpu \in AP
  /\ UNCHANGED <<control, waitVars, initialized, call, ret, dataVars, useMwait, apPc, runVars>>

\* Fault: the two assignments swapped.
AssignFunctionSwapped ==
  /\ BspGoto("function", "param")
  /\ fn' = [fn EXCEPT ![call.cpu] = call.arg]
  /\ UNCHANGED <<control, waitVars, initialized, call, ret, arg, useMwait, apPc, runVars>>

AssignFunction ==
  /\ BspGoto("function", "param")
  /\ fn' = [fn EXCEPT ![call.cpu] = call.fn]
  /\ UNCHANGED <<control, waitVars, initialized, call, ret, arg, useMwait, apPc, runVars>>

\* Fault: the parameter of the call before is left in place.
AssignParamForgotten ==
  /\ BspGoto("param", "give")
  /\ UNCHANGED <<control, waitVars, initialized, call, ret, dataVars, useMwait, apPc, runVars>>

AssignParam ==
  /\ BspGoto("param", "give")
  /\ arg' = [arg EXCEPT ![call.cpu] = call.arg]
  /\ UNCHANGED <<control, waitVars, initialized, call, ret, fn, useMwait, apPc, runVars>>

GiveControl ==
  /\ BspGoto("give", "enter")
  /\ set_control(call.cpu, AP_IN_CONTROL)
  /\ UNCHANGED <<wpc, word, value, initialized, call, ret, dataVars, useMwait, apPc, runVars>>

\* Fault: the BSP waits for the value it has just stored.
AwaitAnswerWrongValue(supported) ==
  /\ BspGoto("enter", "wait")
  /\ wait_for_control(BSP, call.cpu, AP_IN_CONTROL, useMwait[call.cpu] /\ supported)
  /\ UNCHANGED <<initialized, call, ret, dataVars, useMwait, apPc, runVars>>

\* The BSP waits by the MWAIT settings of the processor it called.
AwaitAnswer(supported) ==
  /\ BspGoto("enter", "wait")
  /\ wait_for_control(BSP, call.cpu, BSP_IN_CONTROL, useMwait[call.cpu] /\ supported)
  /\ UNCHANGED <<initialized, call, ret, dataVars, useMwait, apPc, runVars>>

Answered ==
  /\ ReturnFrom("wait", 1)
  /\ wpc[BSP] = "out"

smp_set_mwait(c, b) ==
  /\ bspPc = "idle"
  /\ initialized
  /\ useMwait' = [useMwait EXCEPT ![c] = b]
  /\ UNCHANGED <<control, waitVars, initialized, callVars, dataVars, apPc, runVars>>

smp_phantom_init ==
  /\ bspPc = "idle"
  /\ initialized
  /\ initialized' = FALSE
  /\ UNCHANGED <<control, waitVars, callVars, dataVars, useMwait, apPc, runVars>>

\* A second smp_init, as its callers see it: everything is reset, and the APs
\* come back to the loop through INIT and SIPI.
smp_init ==
  /\ bspPc = "idle"
  /\ ~ initialized
  /\ initialized' = TRUE
  /\ control' = [c \in Cpu |-> BSP_IN_CONTROL]
  /\ wpc' = [c \in Cpu |-> "out"]
  /\ monitor' = [c \in Cpu |-> "clear"]
  /\ fn' = [c \in Cpu |-> ap_park]
  /\ arg' = [c \in Cpu |-> NoArg]
  /\ useMwait' = [c \in Cpu |-> TRUE]
  /\ apPc' = [c \in AP |-> "loop"]
  /\ UNCHANGED <<word, value, callVars, runVars>>

-----------------------------------------------------------------------------
(* The loop of mp_worker.                                                  *)

ApGoto(p, from, to) == apPc[p] = from /\ apPc' = [apPc EXCEPT ![p] = to]

AwaitWork(p, supported) ==
  /\ ApGoto(p, "loop", "wait")
  /\ wait_for_control(p, p, AP_IN_CONTROL, useMwait[p] /\ supported)
  /\ UNCHANGED <<initialized, callVars, dataVars, useMwait, runVars>>

GotWork(p) ==
  /\ ApGoto(p, "wait", "run")
  /\ wpc[p] = "out"
  /\ UNCHANGED <<control, waitVars, initialized, callVars, dataVars, useMwait, runVars>>

\* cpu_data->function(cpu_data->param)
RunAssigned(p) ==
  /\ ApGoto(p, "run", "give")
  /\ ran' = [cpu |-> p, fn |-> fn[p], arg |-> arg[p]]
  /\ runs' = runs + 1
  /\ UNCHANGED <<control, waitVars, initialized, callVars, dataVars, useMwait>>

ReturnControl(p) ==
  /\ ApGoto(p, "give", "loop")
  /\ set_control(p, BSP_IN_CONTROL)
  /\ UNCHANGED <<wpc, word, value, initialized, callVars, dataVars, useMwait, runVars>>

-----------------------------------------------------------------------------
ApStep(p) ==
  \/ \E b \in MwaitAnswers : AwaitWork(p, b)
  \/ GotWork(p)
  \/ RunAssigned(p)
  \/ ReturnControl(p)

BspStep ==
  \/ Reject
  \/ RunOnBsp
  \/ RestoreHandler
  \/ Available
  \/ AssignFunction
  \/ AssignParam
  \/ GiveControl
  \/ \E b \in MwaitAnswers : AwaitAnswer(b)
  \/ Answered

Caller ==
  \/ \E c \in Target, f \in Fn, x \in Arg : smp_function(c, f, x)
  \/ \E c \in MwaitCpus, b \in BOOLEAN : smp_set_mwait(c, b)
  \/ smp_phantom_init
  \/ smp_init

notWait == <<initialized, callVars, dataVars, useMwait, apPc, runVars>>

Waiting(c) == WaitStep(c) /\ UNCHANGED notWait
Disturbed(c) == WokenEarly(c) /\ UNCHANGED notWait

Next ==
  \/ Caller
  \/ BspStep
  \/ \E p \in AP : ApStep(p)
  \/ \E c \in Cpu : Waiting(c) \/ Disturbed(c)

\* Every processor keeps executing; no caller has to call.
Fairness ==
  /\ WF_vars(BspStep)
  /\ \A p \in AP : WF_vars(ApStep(p))
  /\ \A c \in Cpu : WF_vars(Waiting(c))

Spec == Init /\ [][Next]_vars /\ Fairness

-----------------------------------------------------------------------------
(* Properties.                                                             *)

\* The type invariant: smp_function is never inside a call without arguments.
TypeOK ==
  /\ WaitTypeOK
  /\ initialized \in BOOLEAN
  /\ bspPc \in BspPcs
  /\ call \in Call \cup {NoCall}
  /\ bspPc # "idle" => call \in Call
  /\ fn \in [Cpu -> Fn]
  /\ arg \in [Cpu -> Arg]
  /\ useMwait \in [Cpu -> BOOLEAN]
  /\ apPc \in [AP -> ApPcs]
  /\ ran \in Call \cup {NoCall}
  /\ runs \in Nat
  /\ ret \in {0, 1}

\* The test for an unavailable AP is dead code while there is one caller, as
\* its comment hopes ("FIXME: this should be an assert"): whenever a call gets
\* there, the AP it names has handed control back.
CalledCpuAvailable ==
  bspPc = "check" /\ initialized /\ call.cpu \in AP
    => control[call.cpu] = BSP_IN_CONTROL

\* A call as RemoteCall sees it: "asked" from the call to the run of the
\* function, "done" from there to the return.
phase == IF bspPc = "idle" THEN "idle" ELSE IF runs = 0 THEN "asked" ELSE "done"

RC == INSTANCE RemoteCall WITH up <- initialized, req <- call

\* The implementation of smp_function keeps its promise: every behaviour of the
\* BSP and the APs, their fairness included, is one of RemoteCall.
CallsAreServed == RC!Spec
=============================================================================
