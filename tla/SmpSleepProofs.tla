--------------------------- MODULE SmpSleepProofs ---------------------------
(***************************************************************************)
(* What is proved of SmpSleep, for every set of clock rates and sleeps and *)
(* every width of the timer's arithmetic: its type invariant, that the     *)
(* sleeper misses no wakeup, that only the timer interrupts it, that a     *)
(* sleep leaves no timer behind, and that it lasts as long as was asked.   *)
(***************************************************************************)
EXTENDS SmpSleep, ControlWaitProofs

\* Between these two steps of smp_sleep, both included, the timer is unmasked,
\* interrupts are open, LINT0 is masked.
TimerPcs == {"start", "enter", "wait", "mask"}
OpenPcs == {"unmask", "start", "enter", "wait", "mask", "cli"}
Lint0MaskedPcs == OpenPcs \cup {"sti", "restore"}
StartedPcs == {"enter", "wait", "mask", "cli", "restore"}

\* The registers are set and put back in the order of the code.
RegistersFollow ==
  /\ timerOn <=> pc \in TimerPcs
  /\ iflag <=> pc \in OpenPcs
  /\ pc \in Lint0MaskedPcs => ~ lint0On

\* The word goes to 0 once for each sleep, and only by the interrupt of its
\* own timer, which then stands still.
OneInterrupt ==
  /\ pc \in {"lint0", "sti", "unmask", "start"} => control[Self] = 1
  /\ count > 0 \/ pending => pc \in {"enter", "wait"} /\ control[Self] = 1
  /\ ~ (count > 0 /\ pending)

\* The processor waits for its own word to become 0, and goes on when it is.
WaitsForTimer ==
  /\ value[Self] = 0
  /\ wpc[Self] # "out" => pc = "wait"
  /\ pc = "wait" /\ wpc[Self] = "out" => control[Self] = 0

\* The time that has passed and the time that the timer has left make up what
\* was asked for, as long as the clock is watched.
TimeKept ==
  /\ asked \in Usecs \cup {0}
  /\ \E d \in Deltas : bclk = compute_bclk(d)
  /\ pc \in StartedPcs /\ asked * bclk < U32
       => elapsed + count >= TicksAsked \/ elapsed = MaxElapsed

SleepInv ==
  /\ TypeOK /\ WaitInv
  /\ RegistersFollow /\ OneInterrupt /\ WaitsForTimer /\ TimeKept

-----------------------------------------------------------------------------
(* The arithmetic of the timer. *)

\* The measured rate is a number.
LEMMA BclkNat ==
  ASSUME NEW delta \in Nat
  PROVE  compute_bclk(delta) \in Nat
<1> DEFINE measured == (delta * 2) \div 1000
<1>1. measured \in Nat
  OBVIOUS
<1> DEFINE rounded == (measured * 24 + 100) \div 200
<1>2. rounded \in Nat
  <2> HIDE DEF measured
  <2> QED BY <1>1
<1>3. (rounded * 200) \div 24 \in Nat
  <2> HIDE DEF rounded
  <2> QED BY <1>2
<1> QED
  BY <1>3 DEF compute_bclk

\* The timer counts what was asked for, if the product does not wrap around.
LEMMA TimerCount ==
  ASSUME asked \in Nat, bclk \in Nat
  PROVE  /\ start_apic_timer(asked) \in Nat
         /\ TicksAsked \in Nat
         /\ asked * bclk < U32 => start_apic_timer(asked) = TicksAsked
<1> DEFINE product == asked * bclk
<1>1. product \in Nat
  OBVIOUS
<1>2. /\ (product % U32) \div 2 \in Nat
      /\ product \div 2 \in Nat
      /\ product < U32 => product % U32 = product
  <2> HIDE DEF product
  <2> QED BY <1>1, SleepAssumption
<1> QED
  BY <1>2 DEF start_apic_timer, TicksAsked

-----------------------------------------------------------------------------
(* The invariant of a sleep. *)

\* smp_init has left the word at 0 and the timer masked and stopped.
LEMMA InitSleepInv == Init => SleepInv
<1> SUFFICES ASSUME Init PROVE SleepInv
  OBVIOUS
<1>0. Self \in Cpu
  BY SleepAssumption
<1>1. TypeOK
  <2>1. WaitTypeOK
    BY DEF Init, WaitTypeOK, Control, BSP_IN_CONTROL, AP_IN_CONTROL, WaitPcs
  <2>2. bclk \in Nat
    BY BclkNat, SleepAssumption DEF Init
  <2>3. asked \in Nat /\ count \in Nat /\ elapsed \in 0 .. MaxElapsed
    BY SleepAssumption DEF Init
  <2> QED
    BY <2>1, <2>2, <2>3 DEF Init, TypeOK, SleepPcs
<1>2. WaitInv
  BY <1>1 DEF Init, TypeOK, WaitInv, MonitorSet, NoLostWakeup
<1>3. RegistersFollow /\ OneInterrupt /\ WaitsForTimer
  BY <1>0 DEF Init, RegistersFollow, OneInterrupt, WaitsForTimer, TimerPcs, OpenPcs,
              Lint0MaskedPcs
<1>4. TimeKept
  BY DEF Init, TimeKept, StartedPcs
<1> QED
  BY <1>1, <1>2, <1>3, <1>4 DEF SleepInv

\* Every step keeps the types, and loses no wakeup.
LEMMA StepTyped ==
  ASSUME SleepInv, [Next]_vars
  PROVE  TypeOK' /\ WaitInv'
<1> USE DEF SleepInv, TypeOK, SleepPcs
<1>0. Self \in Cpu /\ 0 \in Control /\ 1 \in Control
  BY SleepAssumption DEF Control, BSP_IN_CONTROL, AP_IN_CONTROL
<1>1. ASSUME NEW usecs \in Usecs, smp_sleep(usecs) PROVE TypeOK' /\ WaitInv'
  <2>1. WaitInv'
    BY <1>0, <1>1, SetControlWaitInv DEF smp_sleep
  <2> QED
    BY <2>1, <1>1, SleepAssumption DEF smp_sleep, Goto, apicVars, WaitInv
<1>2. ASSUME SleepStep, UNCHANGED <<control, waitVars>> PROVE TypeOK' /\ WaitInv'
  <2>1. WaitInv'
    BY <1>2, SameWaitInv
  <2>2. /\ bclk' = bclk /\ asked' = asked /\ elapsed' = elapsed /\ pc' \in SleepPcs
        /\ {timerOn', lint0On', oldmask', pending', iflag'} \subseteq BOOLEAN
    <3> USE DEF apicVars, Goto
    <3>1. CASE MaskLint0
      BY <3>1 DEF MaskLint0
    <3>2. CASE EnableInterrupts
      BY <3>2 DEF EnableInterrupts
    <3>3. CASE UnmaskTimer
      BY <3>3 DEF UnmaskTimer
    <3>4. CASE StartTimer
      BY <3>4 DEF StartTimer
    <3>5. CASE \E mwait \in MwaitAnswers : Await(mwait)
      BY <3>5 DEF Await
    <3>6. CASE Awake
      BY <3>6 DEF Awake
    <3>7. CASE MaskTimer
      BY <3>7 DEF MaskTimer
    <3>8. CASE DisableInterrupts
      BY <3>8 DEF DisableInterrupts
    <3>9. CASE RestoreLint0
      BY <3>9 DEF RestoreLint0
    <3> QED
      BY <1>2, <3>1, <3>2, <3>3, <3>4, <3>5, <3>6, <3>7, <3>8, <3>9 DEF SleepStep
  <2>3. count' \in Nat
    BY <1>2, TimerCount
       DEF SleepStep, MaskLint0, EnableInterrupts, UnmaskTimer, StartTimer, Await, Awake,
           MaskTimer, DisableInterrupts, RestoreLint0, apicVars
  <2> QED
    BY <2>1, <2>2, <2>3 DEF WaitInv
<1>3. ASSUME NEW mwait \in MwaitAnswers, Await(mwait) PROVE TypeOK' /\ WaitInv'
  <2>1. WaitInv'
    BY <1>0, <1>3, WaitForControlWaitInv DEF Await
  <2> QED
    BY <2>1, <1>3 DEF Await, Goto, apicVars, WaitInv
<1>4. ASSUME Waiting \/ Disturbed PROVE TypeOK' /\ WaitInv'
  <2>1. WaitInv'
    BY <1>0, <1>4, WaitStepWaitInv DEF Waiting, Disturbed
  <2> QED
    BY <2>1, <1>4 DEF Waiting, Disturbed, notWait, apicVars, WaitInv
<1>5. CASE Tick
  <2>1. WaitInv'
    BY <1>5, SameWaitInv DEF Tick
  <2>2. elapsed' \in 0 .. MaxElapsed /\ count' \in Nat
    BY <1>5, SleepAssumption DEF Tick
  <2> QED
    BY <2>1, <2>2, <1>5 DEF Tick, WaitInv
<1>6. CASE intHandler
  <2>1. WaitInv'
    BY <1>0, <1>6, SetControlWaitInv DEF intHandler
  <2> QED
    BY <2>1, <1>6 DEF intHandler, WaitInv
<1>7. CASE UNCHANGED vars
  <2>1. WaitInv'
    BY <1>7, SameWaitInv DEF vars
  <2> QED
    BY <2>1, <1>7 DEF vars, apicVars, WaitInv
<1>8. SleepStep => UNCHANGED <<control, waitVars>> \/ \E mwait \in MwaitAnswers : Await(mwait)
  BY DEF SleepStep, MaskLint0, EnableInterrupts, UnmaskTimer, StartTimer, Awake,
         MaskTimer, DisableInterrupts, RestoreLint0
<1> QED
  BY <1>1, <1>2, <1>3, <1>4, <1>5, <1>6, <1>7, <1>8 DEF Next

\* The registers are written in the order of SleepPcs, and by smp_sleep only.
LEMMA RegistersStep ==
  ASSUME SleepInv, [Next]_vars
  PROVE  RegistersFollow'
<1> USE DEF SleepInv, RegistersFollow, TimerPcs, OpenPcs, Lint0MaskedPcs, Goto, apicVars
<1>1. ASSUME NEW usecs \in Usecs, smp_sleep(usecs) PROVE RegistersFollow'
  BY <1>1 DEF smp_sleep
<1>2. CASE SleepStep
  <2>1. CASE MaskLint0
    BY <2>1 DEF MaskLint0
  <2>2. CASE EnableInterrupts
    BY <2>2 DEF EnableInterrupts
  <2>3. CASE UnmaskTimer
    BY <2>3 DEF UnmaskTimer
  <2>4. CASE StartTimer
    BY <2>4 DEF StartTimer
  <2>5. CASE \E mwait \in MwaitAnswers : Await(mwait)
    BY <2>5 DEF Await
  <2>6. CASE Awake
    BY <2>6 DEF Awake
  <2>7. CASE MaskTimer
    BY <2>7 DEF MaskTimer
  <2>8. CASE DisableInterrupts
    BY <2>8 DEF DisableInterrupts
  <2>9. CASE RestoreLint0
    BY <2>9 DEF RestoreLint0
  <2> QED
    BY <1>2, <2>1, <2>2, <2>3, <2>4, <2>5, <2>6, <2>7, <2>8, <2>9 DEF SleepStep
<1>3. CASE UNCHANGED <<pc, timerOn, lint0On, iflag>>
  BY <1>3
<1>4. Waiting \/ Disturbed \/ Tick \/ intHandler \/ UNCHANGED vars
        => UNCHANGED <<pc, timerOn, lint0On, iflag>>
  BY DEF Waiting, Disturbed, notWait, Tick, intHandler, vars
<1> QED
  BY <1>1, <1>2, <1>3, <1>4 DEF Next

\* What a step inside wait_for_control does to the sleeper.
LEMMA WaitStepAlone ==
  ASSUME SleepInv, WaitStep(Self) \/ WokenEarly(Self)
  PROVE  /\ UNCHANGED <<control, value>>
         /\ wpc[Self] # "out"
         /\ wpc'[Self] = "out" => control[Self] = 0
<1>1. Self \in Cpu
  BY SleepAssumption
<1>2. word[Self] = Self /\ value[Self] = 0
  BY <1>1, SleepAssumption DEF SleepInv, WaitInv, WaitTypeOK, WaitsForTimer
<1>3. wpc \in [Cpu -> WaitPcs]
  BY DEF SleepInv, WaitInv, WaitTypeOK
<1> QED
  BY <1>1, <1>2, <1>3
     DEF WaitStep, FirstTest, Arm, SecondTest, Woken, Poll, WokenEarly, WaitGoto, Arrived

\* The word is cleared by the interrupt of a timer that stands still, and the
\* processor leaves its wait only then.
LEMMA InterruptStep ==
  ASSUME SleepInv, [Next]_vars
  PROVE  OneInterrupt' /\ WaitsForTimer'
<1> USE DEF OneInterrupt, WaitsForTimer, Goto
<1>0. /\ Self \in Cpu
      /\ control \in [Cpu -> Control] /\ wpc \in [Cpu -> WaitPcs]
      /\ value \in [Cpu -> Control]
      /\ count \in Nat /\ pending \in BOOLEAN /\ pc \in SleepPcs
      /\ OneInterrupt /\ WaitsForTimer
      /\ control[Self] \in {0, 1}
  BY SleepAssumption DEF SleepInv, TypeOK, WaitInv, WaitTypeOK, Control, BSP_IN_CONTROL,
                         AP_IN_CONTROL
<1>1. ASSUME NEW usecs \in Usecs, smp_sleep(usecs) PROVE OneInterrupt' /\ WaitsForTimer'
  BY <1>0, <1>1 DEF smp_sleep, set_control, apicVars
<1>2. CASE SleepStep
  <2> USE DEF apicVars, waitVars
  <2>1. CASE MaskLint0
    BY <1>0, <2>1 DEF MaskLint0
  <2>2. CASE EnableInterrupts
    BY <1>0, <2>2 DEF EnableInterrupts
  <2>3. CASE UnmaskTimer
    BY <1>0, <2>3 DEF UnmaskTimer
  <2>4. CASE StartTimer
    BY <1>0, <2>4 DEF StartTimer
  <2>5. CASE \E mwait \in MwaitAnswers : Await(mwait)
    BY <1>0, <2>5 DEF Await, wait_for_control
  <2>6. CASE Awake
    BY <1>0, <2>6 DEF Awake
  <2>7. CASE MaskTimer
    BY <1>0, <2>7 DEF MaskTimer
  <2>8. CASE DisableInterrupts
    BY <1>0, <2>8 DEF DisableInterrupts
  <2>9. CASE RestoreLint0
    BY <1>0, <2>9 DEF RestoreLint0
  <2> QED
    BY <1>2, <2>1, <2>2, <2>3, <2>4, <2>5, <2>6, <2>7, <2>8, <2>9 DEF SleepStep
<1>3. CASE Waiting \/ Disturbed
  BY <1>0, <1>3, WaitStepAlone DEF Waiting, Disturbed, notWait, apicVars
<1>4. CASE Tick
  BY <1>0, <1>4 DEF Tick, waitVars
<1>5. CASE intHandler
  BY <1>0, <1>5 DEF intHandler, set_control
<1>6. CASE UNCHANGED vars
  BY <1>0, <1>6 DEF vars, waitVars, apicVars
<1> QED
  BY <1>1, <1>2, <1>3, <1>4, <1>5, <1>6 DEF Next

\* A tick takes from what the timer has left what it adds to the time passed;
\* and the timer is started with the time asked for.
LEMMA TimeStep ==
  ASSUME SleepInv, [Next]_vars
  PROVE  TimeKept'
<1> DEFINE kept == elapsed + count >= TicksAsked \/ elapsed = MaxElapsed
<1>0. /\ asked \in Nat /\ bclk \in Nat /\ count \in Nat /\ elapsed \in 0 .. MaxElapsed
      /\ TicksAsked \in Nat /\ TimeKept /\ MaxElapsed \in Nat
  BY TimerCount, SleepAssumption DEF SleepInv, TypeOK
<1>1. ASSUME NEW usecs \in Usecs, smp_sleep(usecs) PROVE TimeKept'
  BY <1>0, <1>1 DEF smp_sleep, Goto, TimeKept, StartedPcs
<1>2. CASE StartTimer
  <2>1. asked * bclk < U32 => kept'
    BY <1>0, <1>2, TimerCount DEF StartTimer, TicksAsked
  <2> QED
    BY <1>0, <1>2, <2>1 DEF StartTimer, TimeKept, TicksAsked
<1>3. CASE Tick
  <2>1. kept => kept'
    BY <1>0, <1>3 DEF Tick, TicksAsked
  <2> QED
    BY <1>0, <1>3, <2>1 DEF Tick, TimeKept, TicksAsked
<1>4. CASE /\ UNCHANGED <<asked, bclk, count, elapsed>>
           /\ pc' \in StartedPcs => pc \in StartedPcs
  BY <1>0, <1>4 DEF TimeKept, TicksAsked
<1>5. SleepStep =>
        \/ StartTimer
        \/ /\ UNCHANGED <<asked, bclk, count, elapsed>>
           /\ pc' \in StartedPcs => pc \in StartedPcs
  BY DEF SleepStep, MaskLint0, EnableInterrupts, UnmaskTimer, Await, Awake, MaskTimer,
         DisableInterrupts, RestoreLint0, Goto, apicVars, StartedPcs
<1>6. Waiting \/ Disturbed \/ intHandler \/ UNCHANGED vars
        => UNCHANGED <<asked, bclk, count, elapsed, pc>>
  BY DEF Waiting, Disturbed, notWait, intHandler, vars, apicVars
<1> QED
  BY <1>1, <1>2, <1>3, <1>4, <1>5, <1>6 DEF Next

\* SleepInv is inductive, and so holds of every state of a sleep.
LEMMA SmpSleepInvariant == Spec => []SleepInv
<1>1. SleepInv /\ [Next]_vars => SleepInv'
  BY StepTyped, RegistersStep, InterruptStep, TimeStep DEF SleepInv
<1> QED
  BY InitSleepInv, <1>1, PTL DEF Spec

-----------------------------------------------------------------------------
(* What follows of the properties. *)

\* smp_sleep, the timer and its interrupt keep the types, and the timer's
\* count never goes below zero.
THEOREM SmpSleepTypeOK == Spec => []TypeOK
<1>1. SleepInv => TypeOK
  BY DEF SleepInv
<1> QED
  BY SmpSleepInvariant, <1>1, PTL

\* The processor is never asleep, in the MWAIT loop of wait_for_control_asm,
\* on a word that intHandler has cleared without its monitor being hit.
THEOREM SmpSleepNoLostWakeup == Spec => []NoLostWakeup
<1>1. SleepInv => NoLostWakeup
  BY DEF SleepInv, WaitInv
<1> QED
  BY SmpSleepInvariant, <1>1, PTL

\* Between sti and cli of smp_sleep LINT0 is masked, so that no interrupt of
\* the 8259 is taken through a vector that leads nowhere.
THEOREM SmpSleepOnlyTheTimerInterrupts == Spec => []OnlyTheTimerInterrupts
<1>1. SleepInv => OnlyTheTimerInterrupts
  BY DEF SleepInv, RegistersFollow, Lint0MaskedPcs, OnlyTheTimerInterrupts
<1> QED
  BY SmpSleepInvariant, <1>1, PTL

\* When smp_sleep returns its timer has run out and is masked, and none of its
\* interrupts is left to clear a word of a stack frame that is gone.
THEOREM SmpSleepNothingLeftBehind == Spec => []NothingLeftBehind
<1>1. SleepInv => NothingLeftBehind
  BY DEF SleepInv, TypeOK, RegistersFollow, OneInterrupt, NothingLeftBehind, TimerPcs, OpenPcs
<1> QED
  BY SmpSleepInvariant, <1>1, PTL

\* The clock is watched for as long as any sleep that does not wrap around.
WatchedLongEnough ==
  \A usecs \in Usecs : \A delta \in Deltas :
    LET product == usecs * compute_bclk(delta)
    IN  product < U32 => product \div 2 <= MaxElapsed

\* smp_sleep does not return before the ticks it was asked for have passed,
\* if their product with the clock rate fits into the U32 of start_apic_timer.
THEOREM SmpSleepLongEnough ==
  ASSUME WatchedLongEnough
  PROVE  Spec => LongEnough
<1>1. ASSUME SleepInv, pc = "restore", asked * bclk < U32
      PROVE  elapsed >= TicksAsked
  <2>1. /\ asked \in Nat /\ bclk \in Nat /\ count = 0 /\ elapsed \in Nat
        /\ MaxElapsed \in Nat /\ TicksAsked \in Nat
    BY <1>1, TimerCount, SleepAssumption DEF SleepInv, TypeOK, OneInterrupt
  <2>2. elapsed >= TicksAsked \/ elapsed = MaxElapsed
    BY <1>1, <2>1 DEF SleepInv, TimeKept, StartedPcs
  <2>3. CASE asked = 0
    <3>1. TicksAsked = 0
      BY <2>1, <2>3 DEF TicksAsked
    <3> QED
      BY <2>1, <3>1
  <2>4. CASE asked \in Usecs
    <3>1. TicksAsked <= MaxElapsed
      BY <1>1, <2>4, WatchedLongEnough DEF SleepInv, TimeKept, WatchedLongEnough, TicksAsked
    <3> QED
      BY <2>1, <2>2, <3>1
  <2> QED
    BY <1>1, <2>3, <2>4 DEF SleepInv, TimeKept
<1>2. SleepInv /\ [Next]_vars =>
        [pc = "restore" /\ pc' = "idle" /\ asked * bclk < U32 => elapsed >= TicksAsked]_vars
  BY <1>1
<1> QED
  BY SmpSleepInvariant, <1>2, PTL DEF Spec, LongEnough
=============================================================================
