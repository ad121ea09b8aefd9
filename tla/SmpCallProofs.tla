--------------------------- MODULE SmpCallProofs ---------------------------
(***************************************************************************)
(* What is proved of SmpCall, for every set of processors, functions and   *)
(* parameters: its types, that no wakeup is lost, that a called AP is      *)
(* always available, and that every step of it is a step RemoteCall allows *)
(* (the liveness of RemoteCall stays with TLC).                            *)
(*                                                                         *)
(* The heart of the proof is Handover: which of the two, the BSP or the AP *)
(* it has called, is between which of its steps, as the control word and   *)
(* the history of the call tell.                                           *)
(***************************************************************************)
EXTENDS SmpCall, ControlWaitProofs

\* The call that is on its way to an AP.
Calling == bspPc \in {"function", "param", "give", "enter", "wait"}

\* A processor waits for its own control word to come to it; the BSP for the
\* one it has given away to come back.
WaitsRight ==
  /\ \A p \in AP : wpc[p] # "out" =>
       apPc[p] = "wait" /\ word[p] = p /\ value[p] = AP_IN_CONTROL
  /\ wpc[BSP] # "out" =>
       bspPc = "wait" /\ word[BSP] = call.cpu /\ value[BSP] = BSP_IN_CONTROL

\* An AP that was not called has no control and is not at work.
Resting(p) ==
  /\ control[p] = BSP_IN_CONTROL
  /\ apPc[p] \in {"loop", "wait"}
  /\ apPc[p] = "wait" => wpc[p] # "out"

\* The AP that was called has control from GiveControl to ReturnControl, and
\* runs what it was given in between.
Serving(p) ==
  \/ /\ runs = 0
     /\ control[p] = AP_IN_CONTROL
     /\ apPc[p] \in {"loop", "wait", "run"}
  \/ /\ runs = 1
     /\ control[p] = AP_IN_CONTROL
     /\ apPc[p] = "give"
  \/ runs = 1 /\ Resting(p)

\* What the BSP's place in smp_function says about the call.
CallSoFar ==
  /\ bspPc = "idle" => call = NoCall
  /\ bspPc \notin {"restore", "enter", "wait"} => runs = 0
  /\ bspPc = "restore" => runs = 1
  /\ runs = 0 => ran = NoCall
  /\ runs = 1 => ran = call
  /\ bspPc = "restore" \/ Calling => initialized /\ call.fn # NoFn
  /\ bspPc = "restore" => call.cpu = BSP
  /\ Calling => call.cpu \in AP
  /\ bspPc \in {"param", "give", "enter", "wait"} => fn[call.cpu] = call.fn
  /\ bspPc \in {"give", "enter", "wait"} => arg[call.cpu] = call.arg
  /\ bspPc = "wait" /\ wpc[BSP] = "out" => runs = 1 /\ Resting(call.cpu)

Handover ==
  /\ \A p \in AP : ~ (bspPc \in {"enter", "wait"} /\ p = call.cpu) => Resting(p)
  /\ bspPc \in {"enter", "wait"} => Serving(call.cpu)

CallInv ==
  /\ TypeOK
  /\ WaitInv
  /\ WaitsRight
  /\ CallSoFar
  /\ Handover

-----------------------------------------------------------------------------
(* Types, and the wakeups.                                                 *)

\* The control words are as ControlWait wants them when smp_init is done.
LEMMA InitTyped == Init => TypeOK /\ WaitInv
BY CallAssumption
   DEF Init, TypeOK, WaitInv, WaitTypeOK, MonitorSet, NoLostWakeup, Control, BSP_IN_CONTROL,
       AP_IN_CONTROL, WaitPcs, BspPcs, ApPcs, AP

\* Every step keeps the types, and loses no wakeup.
LEMMA StepTyped ==
  ASSUME TypeOK, WaitInv, CallSoFar, [Next]_vars
  PROVE  TypeOK' /\ WaitInv'
<1> USE DEF TypeOK, BspPcs, ApPcs
<1>a. ASSUME UNCHANGED <<control, waitVars>> PROVE WaitInv' /\ WaitTypeOK'
  BY <1>a, SameWaitInv DEF WaitInv
<1>b. {BSP_IN_CONTROL, AP_IN_CONTROL} \subseteq Control
  BY DEF Control
<1>1. ASSUME NEW c \in Target, NEW f \in Fn, NEW x \in Arg, smp_function(c, f, x)
      PROVE  TypeOK' /\ WaitInv'
  BY <1>1, <1>a DEF smp_function, BspGoto, dataVars, runVars, Call
<1>2. ASSUME NEW c \in MwaitCpus, NEW b \in BOOLEAN, smp_set_mwait(c, b)
      PROVE  TypeOK' /\ WaitInv'
  BY <1>2, <1>a, CallAssumption DEF smp_set_mwait, callVars, dataVars, runVars
<1>3. CASE smp_phantom_init
  BY <1>3, <1>a DEF smp_phantom_init, callVars, dataVars, runVars
<1>4. CASE smp_init
  <2>1. WaitTypeOK' /\ MonitorSet' /\ NoLostWakeup'
    BY <1>4, <1>b DEF smp_init, WaitTypeOK, MonitorSet, NoLostWakeup, WaitPcs
  <2>2. /\ UNCHANGED <<callVars, runVars>> /\ initialized' = TRUE
        /\ fn' \in [Cpu -> Fn] /\ arg' \in [Cpu -> Arg]
        /\ useMwait' \in [Cpu -> BOOLEAN]
        /\ apPc' \in [AP -> ApPcs]
    BY <1>4, CallAssumption DEF smp_init
  <2> QED
    BY <2>1, <2>2 DEF callVars, runVars, WaitInv
<1>5. CASE Reject
  BY <1>5, <1>a DEF Reject, ReturnFrom, BspGoto, dataVars
<1>6. CASE RunOnBsp
  BY <1>6, <1>a DEF RunOnBsp, BspGoto, dataVars
<1>7. CASE RestoreHandler
  BY <1>7, <1>a DEF RestoreHandler, ReturnFrom, BspGoto, dataVars
<1>8. CASE Available
  BY <1>8, <1>a DEF Available, BspGoto, dataVars, runVars
<1>9. CASE AssignFunction
  BY <1>9, <1>a DEF AssignFunction, BspGoto, runVars, Call
<1>10. CASE AssignParam
  BY <1>10, <1>a DEF AssignParam, BspGoto, runVars, Call
<1>11. CASE GiveControl
  <2>1. call.cpu \in Cpu
    BY <1>11 DEF GiveControl, BspGoto, CallSoFar, Calling, AP
  <2>2. WaitInv' /\ WaitTypeOK'
    BY <1>11, <1>b, <2>1, SetControlWaitInv DEF GiveControl, WaitInv
  <2> QED
    BY <1>11, <2>2 DEF GiveControl, BspGoto, dataVars, runVars
<1>12. ASSUME NEW b \in MwaitAnswers, AwaitAnswer(b) PROVE TypeOK' /\ WaitInv'
  <2>1. call.cpu \in Cpu
    BY <1>12 DEF AwaitAnswer, BspGoto, CallSoFar, Calling, AP
  <2>2. WaitInv' /\ WaitTypeOK'
    BY <1>12, <1>b, <2>1, CallAssumption, WaitForControlWaitInv DEF AwaitAnswer, WaitInv
  <2> QED
    BY <1>12, <2>2 DEF AwaitAnswer, BspGoto, dataVars, runVars
<1>13. CASE Answered
  BY <1>13, <1>a DEF Answered, ReturnFrom, BspGoto, dataVars
<1>14. ASSUME NEW p \in AP, NEW b \in MwaitAnswers, AwaitWork(p, b) PROVE TypeOK' /\ WaitInv'
  <2>1. WaitInv' /\ WaitTypeOK'
    BY <1>14, <1>b, WaitForControlWaitInv DEF AwaitWork, WaitInv, AP
  <2> QED
    BY <1>14, <2>1 DEF AwaitWork, ApGoto, callVars, dataVars, runVars
<1>15. ASSUME NEW p \in AP, GotWork(p) PROVE TypeOK' /\ WaitInv'
  BY <1>15, <1>a DEF GotWork, ApGoto, callVars, dataVars, runVars
<1>16. ASSUME NEW p \in AP, RunAssigned(p) PROVE TypeOK' /\ WaitInv'
  BY <1>16, <1>a DEF RunAssigned, ApGoto, callVars, dataVars, Call, Target, AP
<1>17. ASSUME NEW p \in AP, ReturnControl(p) PROVE TypeOK' /\ WaitInv'
  <2>1. WaitInv' /\ WaitTypeOK'
    BY <1>17, <1>b, SetControlWaitInv DEF ReturnControl, WaitInv, AP
  <2> QED
    BY <1>17, <2>1 DEF ReturnControl, ApGoto, callVars, dataVars, runVars
<1>18. ASSUME NEW c \in Cpu, Waiting(c) \/ Disturbed(c) PROVE TypeOK' /\ WaitInv'
  <2>1. WaitInv' /\ WaitTypeOK'
    BY <1>18, WaitStepWaitInv DEF Waiting, Disturbed, WaitInv
  <2> QED
    BY <1>18, <2>1 DEF Waiting, Disturbed, notWait, callVars, dataVars, runVars
<1>19. CASE UNCHANGED vars
  BY <1>19, <1>a DEF vars, callVars, dataVars, runVars
<1> QED
  BY <1>1, <1>2, <1>3, <1>4, <1>5, <1>6, <1>7, <1>8, <1>9, <1>10, <1>11, <1>12, <1>13,
     <1>14, <1>15, <1>16, <1>17, <1>18, <1>19
     DEF Next, Caller, BspStep, ApStep

-----------------------------------------------------------------------------
(* The hand-over.                                                          *)

\* When smp_init has set the slots up, nobody has been called.
LEMMA InitCallInv == Init => CallInv
<1> SUFFICES ASSUME Init PROVE CallInv
  OBVIOUS
<1>1. TypeOK /\ WaitInv
  BY InitTyped
<1>2. \A p \in AP : p \in Cpu
  BY DEF AP
<1> QED
  BY <1>1, <1>2, CallAssumption
     DEF Init, CallInv, WaitsRight, CallSoFar, Calling, Handover, Resting

\* The steps of the BSP, in smp_function and outside.
LEMMA BspStepCallInv ==
  ASSUME CallInv, TypeOK', Caller \/ BspStep
  PROVE  WaitsRight' /\ CallSoFar' /\ Handover'
<1> USE DEF CallInv, Calling, BspGoto, callVars, dataVars, runVars, waitVars
<1>a. \A p \in AP : p \in Cpu /\ p # BSP
  BY DEF AP
<1>b. BSP \in Cpu /\ NoFn # ap_park
  BY CallAssumption
<1>1. ASSUME NEW c \in Target, NEW f \in Fn, NEW x \in Arg, smp_function(c, f, x)
      PROVE  WaitsRight' /\ CallSoFar' /\ Handover'
  BY <1>1 DEF smp_function, WaitsRight, CallSoFar, Handover, Resting
<1>2. ASSUME NEW c \in MwaitCpus, NEW b \in BOOLEAN, smp_set_mwait(c, b)
      PROVE  WaitsRight' /\ CallSoFar' /\ Handover'
  BY <1>2 DEF smp_set_mwait, WaitsRight, CallSoFar, Handover, Resting
<1>3. CASE smp_phantom_init
  BY <1>3 DEF smp_phantom_init, WaitsRight, CallSoFar, Handover, Resting
<1>4. CASE smp_init
  BY <1>4, <1>a, <1>b DEF smp_init, WaitsRight, CallSoFar, Handover, Resting
<1>5. CASE Reject
  BY <1>5 DEF Reject, ReturnFrom, WaitsRight, CallSoFar, Handover, Resting
<1>6. CASE RunOnBsp
  BY <1>6 DEF RunOnBsp, Rejected, WaitsRight, CallSoFar, Handover, Resting
<1>7. CASE RestoreHandler
  BY <1>7 DEF RestoreHandler, ReturnFrom, WaitsRight, CallSoFar, Handover, Resting
<1>8. CASE Available
  BY <1>8 DEF Available, Rejected, WaitsRight, CallSoFar, Handover, Resting
<1>9. CASE AssignFunction
  BY <1>9, <1>a DEF AssignFunction, TypeOK, WaitsRight, CallSoFar, Handover, Resting
<1>10. CASE AssignParam
  BY <1>10, <1>a DEF AssignParam, TypeOK, WaitsRight, CallSoFar, Handover, Resting
<1>11. CASE GiveControl
  BY <1>11, <1>a DEF GiveControl, set_control, TypeOK, WaitTypeOK, WaitsRight, CallSoFar,
                     Handover, Resting, Serving
<1>12. ASSUME NEW b \in MwaitAnswers, AwaitAnswer(b)
       PROVE  WaitsRight' /\ CallSoFar' /\ Handover'
  BY <1>12, <1>a, <1>b DEF AwaitAnswer, wait_for_control, TypeOK, WaitTypeOK, WaitsRight,
                           CallSoFar, Handover, Resting, Serving
<1>13. CASE Answered
  BY <1>13 DEF Answered, ReturnFrom, WaitsRight, CallSoFar, Handover, Resting
<1> QED
  BY <1>1, <1>2, <1>3, <1>4, <1>5, <1>6, <1>7, <1>8, <1>9, <1>10, <1>11, <1>12, <1>13
     DEF Caller, BspStep

\* The steps of an AP in the loop of mp_worker.
LEMMA ApStepCallInv ==
  ASSUME CallInv, TypeOK', NEW p \in AP, ApStep(p)
  PROVE  WaitsRight' /\ CallSoFar' /\ Handover'
<1> USE DEF CallInv, Calling, ApGoto, callVars, dataVars, runVars, waitVars, TypeOK, WaitTypeOK
<1>a. p \in Cpu /\ p # BSP /\ BSP \in Cpu
  BY CallAssumption DEF AP
<1>b. BSP_IN_CONTROL # AP_IN_CONTROL
  BY DEF BSP_IN_CONTROL, AP_IN_CONTROL
<1>1. ASSUME NEW b \in MwaitAnswers, AwaitWork(p, b)
      PROVE  WaitsRight' /\ CallSoFar' /\ Handover'
  BY <1>1, <1>a, <1>b DEF AwaitWork, wait_for_control, WaitsRight, CallSoFar, Handover,
                          Resting, Serving, AP
<1>2. CASE GotWork(p)
  BY <1>2, <1>a, <1>b DEF GotWork, WaitsRight, CallSoFar, Handover, Resting, Serving
<1>3. CASE RunAssigned(p)
  BY <1>3, <1>a, <1>b DEF RunAssigned, WaitsRight, CallSoFar, Handover, Resting, Serving, Call
<1>4. CASE ReturnControl(p)
  BY <1>4, <1>a, <1>b DEF ReturnControl, set_control, WaitsRight, CallSoFar, Handover,
                          Resting, Serving, AP
<1> QED
  BY <1>1, <1>2, <1>3, <1>4 DEF ApStep

\* The steps inside wait_for_control.
LEMMA WaitStepCallInv ==
  ASSUME CallInv, TypeOK', NEW c \in Cpu, Waiting(c) \/ Disturbed(c)
  PROVE  WaitsRight' /\ CallSoFar' /\ Handover'
<1> USE DEF CallInv, Calling, callVars, dataVars, runVars, notWait, TypeOK, WaitTypeOK
<1>1. /\ UNCHANGED <<control, word, value, notWait>>
      /\ \A d \in Cpu : d # c => wpc'[d] = wpc[d]
      /\ wpc[c] # "out"
      /\ wpc'[c] = "out" => Arrived(c)
  <2> USE DEF WaitGoto, WaitInv
  <2>0. UNCHANGED notWait
    BY DEF Waiting, Disturbed
  <2>1. CASE FirstTest(c)
    BY <2>0, <2>1 DEF FirstTest
  <2>2. CASE Arm(c)
    BY <2>0, <2>2 DEF Arm
  <2>3. CASE SecondTest(c)
    BY <2>0, <2>3 DEF SecondTest
  <2>4. CASE Woken(c)
    BY <2>0, <2>4 DEF Woken
  <2>5. CASE Poll(c)
    BY <2>0, <2>5 DEF Poll
  <2>6. CASE WokenEarly(c)
    BY <2>0, <2>6 DEF WokenEarly
  <2> QED
    BY <2>1, <2>2, <2>3, <2>4, <2>5, <2>6 DEF Waiting, Disturbed, WaitStep
<1>2. /\ BSP_IN_CONTROL # AP_IN_CONTROL
      /\ BSP \in Cpu
      /\ \A p \in AP : p \in Cpu /\ p # BSP
  BY CallAssumption DEF BSP_IN_CONTROL, AP_IN_CONTROL, AP
<1>3. WaitsRight'
  BY <1>1, <1>2 DEF WaitsRight
<1>4. CallSoFar'
  BY <1>1, <1>2 DEF CallSoFar, WaitsRight, Arrived, Handover, Serving, Resting
<1>5. Handover'
  <2>1. \A p \in AP : Resting(p) => Resting(p)'
    BY <1>1, <1>2 DEF WaitsRight, Arrived, Resting
  <2>2. bspPc \in {"enter", "wait"} /\ Serving(call.cpu) => Serving(call.cpu)'
    BY <1>1, <2>1 DEF Serving, CallSoFar
  <2> QED
    BY <1>1, <2>1, <2>2 DEF Handover
<1> QED
  BY <1>3, <1>4, <1>5

\* Every step keeps the invariant.
LEMMA StepCallInv == CallInv /\ [Next]_vars => CallInv'
<1> SUFFICES ASSUME CallInv, [Next]_vars PROVE CallInv'
  OBVIOUS
<1>1. TypeOK' /\ WaitInv'
  BY StepTyped DEF CallInv
<1>2. CASE Caller \/ BspStep
  BY <1>1, <1>2, BspStepCallInv DEF CallInv
<1>3. ASSUME NEW p \in AP, ApStep(p) PROVE CallInv'
  BY <1>1, <1>3, ApStepCallInv DEF CallInv
<1>4. ASSUME NEW c \in Cpu, Waiting(c) \/ Disturbed(c) PROVE CallInv'
  BY <1>1, <1>4, WaitStepCallInv DEF CallInv
<1>5. CASE UNCHANGED vars
  BY <1>1, <1>5
     DEF CallInv, vars, waitVars, callVars, dataVars, runVars, WaitsRight, CallSoFar, Calling,
         Handover, Resting, Serving
<1> QED
  BY <1>2, <1>3, <1>4, <1>5 DEF Next

\* The invariant that the results below follow from.
LEMMA CallInvariant == Spec => []CallInv
<1>1. CallInv /\ [Next]_vars => CallInv'
  BY StepCallInv
<1> QED
  BY <1>1, InitCallInv, PTL DEF Spec

-----------------------------------------------------------------------------
(* The results.                                                            *)

\* The type invariant of SmpCall.
THEOREM SmpCallTypeOK == Spec => []TypeOK
<1>1. CallInv => TypeOK
  BY DEF CallInv
<1> QED
  BY <1>1, CallInvariant, PTL

\* The second compare in the MWAIT loops is enough: whoever sleeps on a value
\* that is there is about to be woken.
THEOREM SmpCallNoLostWakeup == Spec => []NoLostWakeup
<1>1. CallInv => NoLostWakeup
  BY DEF CallInv, WaitInv
<1> QED
  BY <1>1, CallInvariant, PTL

\* smp_function never finds an AP unavailable.
THEOREM SmpCallCalledCpuAvailable == Spec => []CalledCpuAvailable
<1>1. CallInv => CalledCpuAvailable
  BY DEF CallInv, Handover, Resting, CalledCpuAvailable
<1> QED
  BY <1>1, CallInvariant, PTL

\* Each step of smp_function and mp_worker is the step of RemoteCall that its
\* caller sees, or none.
LEMMA StepServes == CallInv /\ [Next]_vars => [RC!Next]_(RC!vars)
<1> SUFFICES ASSUME CallInv, [Next]_vars PROVE [RC!Next]_(RC!vars)
  OBVIOUS
<1> USE DEF BspGoto, RC!vars, phase, CallInv
<1>1. ASSUME NEW c \in Target, NEW f \in Fn, NEW x \in Arg, smp_function(c, f, x)
      PROVE  RC!Ask(c, f, x)
  BY <1>1 DEF smp_function, RC!Ask, CallSoFar, runVars
<1>2. ASSUME NEW c \in MwaitCpus, NEW b \in BOOLEAN, smp_set_mwait(c, b)
      PROVE  UNCHANGED RC!vars
  BY <1>2 DEF smp_set_mwait, callVars, runVars
<1>3. CASE smp_phantom_init
  <2>1. RC!Toggle
    BY <1>3 DEF smp_phantom_init, RC!Toggle, callVars, runVars
  <2> QED
    BY <2>1 DEF RC!Next
<1>4. CASE smp_init
  <2>1. RC!Toggle
    BY <1>4 DEF smp_init, RC!Toggle, callVars, runVars
  <2> QED
    BY <2>1 DEF RC!Next
<1>5. CASE Reject
  <2>1. RC!Refuse
    BY <1>5, CallAssumption DEF Reject, Rejected, ReturnFrom, RC!Refuse, RC!Finish, RC!Servable,
         CallSoFar, Handover, Resting
  <2> QED
    BY <2>1 DEF RC!Next, RC!Serve
<1>6. CASE RunOnBsp
  <2>1. RC!Execute
    BY <1>6, CallAssumption DEF RunOnBsp, Rejected, RC!Execute, RC!Servable, CallSoFar
  <2> QED
    BY <2>1 DEF RC!Next, RC!Serve
<1>7. CASE RestoreHandler
  <2>1. RC!Return
    BY <1>7 DEF RestoreHandler, ReturnFrom, RC!Return, RC!Finish, CallSoFar
  <2> QED
    BY <2>1 DEF RC!Next, RC!Serve
<1>8. CASE Available \/ AssignFunction \/ AssignParam \/ GiveControl
  BY <1>8 DEF Available, AssignFunction, AssignParam, GiveControl, runVars, CallSoFar
<1>9. ASSUME NEW b \in MwaitAnswers, AwaitAnswer(b) PROVE UNCHANGED RC!vars
  BY <1>9 DEF AwaitAnswer, runVars
<1>10. CASE Answered
  <2>1. RC!Return
    BY <1>10 DEF Answered, ReturnFrom, RC!Return, RC!Finish, CallSoFar
  <2> QED
    BY <2>1 DEF RC!Next, RC!Serve
<1>11. ASSUME NEW p \in AP, NEW b \in MwaitAnswers, AwaitWork(p, b) PROVE UNCHANGED RC!vars
  BY <1>11 DEF AwaitWork, callVars, runVars
<1>12. ASSUME NEW p \in AP, GotWork(p) PROVE UNCHANGED RC!vars
  BY <1>12 DEF GotWork, callVars, runVars
<1>13. ASSUME NEW p \in AP, RunAssigned(p) PROVE RC!Execute
  <2>1. apPc[p] = "run" /\ UNCHANGED <<initialized, callVars>>
        /\ ran' = [cpu |-> p, fn |-> fn[p], arg |-> arg[p]] /\ runs' = runs + 1
    BY <1>13 DEF RunAssigned, ApGoto
  <2>2. bspPc \in {"enter", "wait"} /\ p = call.cpu /\ runs = 0
    BY <2>1 DEF Handover, Serving, Resting
  <2>3. ran' = call
    BY <2>1, <2>2 DEF CallSoFar, TypeOK, Call
  <2>4. initialized /\ call.cpu \in Cpu /\ call.fn # NoFn
    BY <2>2 DEF CallSoFar, Calling, AP
  <2> QED
    BY <2>1, <2>2, <2>3, <2>4 DEF RC!Execute, RC!Servable, callVars
<1>14. ASSUME NEW p \in AP, ReturnControl(p) PROVE UNCHANGED RC!vars
  BY <1>14 DEF ReturnControl, callVars, runVars
<1>15. ASSUME NEW c \in Cpu, Waiting(c) \/ Disturbed(c) PROVE UNCHANGED RC!vars
  BY <1>15 DEF Waiting, Disturbed, notWait, callVars, runVars
<1>16. CASE UNCHANGED vars
  BY <1>16 DEF vars, callVars, runVars
<1> QED
  BY <1>1, <1>2, <1>3, <1>4, <1>5, <1>6, <1>7, <1>8, <1>9, <1>10, <1>11, <1>12, <1>13, <1>14,
     <1>15, <1>16
     DEF Next, Caller, BspStep, ApStep, RC!Next, RC!Serve

\* What RemoteCall promises, its liveness apart, smp_function keeps: a call is
\* refused for a reason its caller can see, or the named processor runs the
\* given function with the given parameter, once, before the call returns.
THEOREM SmpCallServes == Spec => RC!Safety
<1>1. Init => RC!Init
  BY DEF Init, RC!Init, phase
<1>2. CallInv /\ [Next]_vars => [RC!Next]_(RC!vars)
  BY StepServes
<1> QED
  BY <1>1, <1>2, CallInvariant, PTL DEF Spec, RC!Safety
=============================================================================
