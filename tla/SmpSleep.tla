------------------------------ MODULE SmpSleep ------------------------------
(***************************************************************************)
(* smp_sleep of rc/smp/smprc.c on the processor that calls it: it programs *)
(* its local APIC timer, opens interrupts, and waits in wait_for_control   *)
(* for the interrupt handler to clear a word on its stack.  Its only       *)
(* caller is bits_blocking_sleep (rc/python/smpmodule.c), on the BSP and   *)
(* after smp_init, so its two early returns are never taken.               *)
(*                                                                         *)
(* Time is counted in ticks of the timer.  The U32 arithmetic of           *)
(* start_apic_timer is kept, with a modulus of the model's choice.         *)
(***************************************************************************)
EXTENDS ControlWait

CONSTANTS
  Self,       \* the sleeping processor
  Deltas,     \* what the timer may have counted in compute_bclk's 1000 us
  U32,        \* 2^32 in the code
  Usecs,      \* the sleeps that are asked for
  MwaitAnswers, \* use_mwait && mwait_supported()
  MaxElapsed  \* bound: the clock stops being watched

ASSUME SleepAssumption ==
  /\ Cpu = {Self}
  /\ Deltas \subseteq Nat
  /\ U32 \in Nat \ {0}
  /\ Usecs \subseteq Nat
  /\ MwaitAnswers \subseteq BOOLEAN
  /\ MaxElapsed \in Nat

VARIABLES
  bclk,     \* host->bclk, in MHz
  pc,       \* where smp_sleep is
  asked,    \* its argument
  count,    \* APIC_TMR_CURRENT_CNT
  timerOn,  \* the timer's LVT entry is not masked
  lint0On,  \* neither is LINT0's, where the 8259 interrupts
  oldmask,  \* how smp_sleep found LINT0
  pending,  \* a timer interrupt waits in the IRR
  iflag,    \* interrupts are enabled
  elapsed   \* history: ticks since smp_sleep was called

apicVars == <<count, timerOn, lint0On, oldmask, pending>>
vars == <<control, waitVars, bclk, pc, asked, apicVars, iflag, elapsed>>

SleepPcs == {"idle", "lint0", "sti", "unmask", "start", "enter", "wait", "mask",
             "cli", "restore"}

\* The measured rate, rounded to a multiple of 100/12 MHz; no timer is so fast
\* that these products reach 2^32.
compute_bclk(delta) ==
  LET measured == (delta * 2) \div 1000
  IN  (((measured * 24 + 100) \div 200) * 200) \div 24

\* Fault: one tick too few, to make up for the start.
start_apic_timerLessOne(usecs) == ((usecs * bclk) % U32) \div 2 - 1

\* Fault: divided before it is multiplied.
start_apic_timerRounded(usecs) == (((usecs \div 2) * bclk) % U32)

\* timeout_in_usecs * bclk / 2, in U32; without the wrap, the time asked for.
start_apic_timer(usecs) == ((usecs * bclk) % U32) \div 2
TicksAsked == (asked * bclk) \div 2

Init ==
  /\ control = [c \in Cpu |-> 0]
  /\ wpc = [c \in Cpu |-> "out"]
  /\ word = [c \in Cpu |-> c]
  /\ value = [c \in Cpu |-> 0]
  /\ monitor = [c \in Cpu |-> "clear"]
  /\ \E d \in Deltas : bclk = compute_bclk(d)
  /\ pc = "idle"
  /\ asked = 0
  /\ count = 0
  /\ timerOn = FALSE
  /\ lint0On \in BOOLEAN
  /\ oldmask = FALSE
  /\ pending = FALSE
  /\ iflag = FALSE
  /\ elapsed = 0

Goto(from, to) == pc = from /\ pc' = to

-----------------------------------------------------------------------------
\* The handler is installed and the word on the stack set to 1.
smp_sleep(usecs) ==
  /\ Goto("idle", "lint0")
  /\ asked' = usecs
  /\ elapsed' = 0
  /\ set_control(Self, 1)
  /\ UNCHANGED <<wpc, word, value, bclk, apicVars, iflag>>

\* Fault: LINT0 is only looked at.
MaskLint0Reads ==
  /\ Goto("lint0", "sti")
  /\ oldmask' = ~ lint0On
  /\ UNCHANGED <<control, waitVars, bclk, asked, count, timerOn, lint0On, pending, iflag, elapsed>>

MaskLint0 ==
  /\ Goto("lint0", "sti")
  /\ oldmask' = ~ lint0On
  /\ lint0On' = FALSE
  /\ UNCHANGED <<control, waitVars, bclk, asked, count, timerOn, pending, iflag, elapsed>>

EnableInterrupts ==
  /\ Goto("sti", "unmask")
  /\ iflag' = TRUE
  /\ UNCHANGED <<control, waitVars, bclk, asked, apicVars, elapsed>>

\* Fault: the vector is set and the mask left on.
UnmaskTimerMasked ==
  /\ Goto("unmask", "start")
  /\ UNCHANGED <<control, waitVars, bclk, asked, apicVars, iflag, elapsed>>

UnmaskTimer ==
  /\ Goto("unmask", "start")
  /\ timerOn' = TRUE
  /\ UNCHANGED <<control, waitVars, bclk, asked, count, lint0On, oldmask, pending, iflag, elapsed>>

\* A count of zero stops the timer instead of starting it.
StartTimer ==
  /\ Goto("start", "enter")
  /\ count' = start_apic_timer(asked)
  /\ UNCHANGED <<control, waitVars, bclk, asked, timerOn, lint0On, oldmask, pending, iflag, elapsed>>

Await(mwait) ==
  /\ Goto("enter", "wait")
  /\ wait_for_control(Self, Self, 0, mwait)
  /\ UNCHANGED <<bclk, asked, apicVars, iflag, elapsed>>

Awake ==
  /\ Goto("wait", "mask")
  /\ wpc[Self] = "out"
  /\ UNCHANGED <<control, waitVars, bclk, asked, apicVars, iflag, elapsed>>

\* Fault: the timer stays unmasked.
MaskTimerForgotten ==
  /\ Goto("mask", "cli")
  /\ UNCHANGED <<control, waitVars, bclk, asked, apicVars, iflag, elapsed>>

MaskTimer ==
  /\ Goto("mask", "cli")
  /\ timerOn' = FALSE
  /\ UNCHANGED <<control, waitVars, bclk, asked, count, lint0On, oldmask, pending, iflag, elapsed>>

\* An interrupt that was raised before the timer was masked is taken before
\* the processor gets to cli.
DisableInterrupts ==
  /\ Goto("cli", "restore")
  /\ ~ pending
  /\ iflag' = FALSE
  /\ UNCHANGED <<control, waitVars, bclk, asked, apicVars, elapsed>>

RestoreLint0 ==
  /\ Goto("restore", "idle")
  /\ lint0On' = ~ oldmask
  /\ UNCHANGED <<control, waitVars, bclk, asked, count, timerOn, oldmask, pending, iflag, elapsed>>

-----------------------------------------------------------------------------
\* One tick of the APIC timer, in one-shot mode: an unmasked timer that
\* reaches zero raises its interrupt, once.
Tick ==
  /\ elapsed < MaxElapsed \/ count > 0
  /\ elapsed' = IF elapsed < MaxElapsed THEN elapsed + 1 ELSE elapsed
  /\ count' = IF count > 0 THEN count - 1 ELSE 0
  /\ pending' = (pending \/ (count = 1 /\ timerOn))
  /\ UNCHANGED <<control, waitVars, bclk, pc, asked, timerOn, lint0On, oldmask, iflag>>

\* intHandler acknowledges the interrupt and calls set_control_callback, which
\* clears the word through the address kept in gates 0x31 and 0x32.
intHandler ==
  /\ pending
  /\ iflag
  /\ pending' = FALSE
  /\ set_control(Self, 0)
  /\ UNCHANGED <<wpc, word, value, bclk, pc, asked, count, timerOn, lint0On, oldmask, iflag, elapsed>>

SleepStep ==
  \/ MaskLint0
  \/ EnableInterrupts
  \/ UnmaskTimer
  \/ StartTimer
  \/ \E mwait \in MwaitAnswers : Await(mwait)
  \/ Awake
  \/ MaskTimer
  \/ DisableInterrupts
  \/ RestoreLint0

notWait == <<bclk, pc, asked, apicVars, iflag, elapsed>>
Waiting == WaitStep(Self) /\ UNCHANGED notWait
Disturbed == WokenEarly(Self) /\ UNCHANGED notWait

Next ==
  \/ \E usecs \in Usecs : smp_sleep(usecs)
  \/ SleepStep
  \/ Waiting
  \/ Disturbed
  \/ Tick
  \/ intHandler

\* The processor executes, the timer counts, and the local APIC delivers.
Fairness ==
  /\ WF_vars(SleepStep)
  /\ WF_vars(Waiting)
  /\ WF_vars(Tick)
  /\ WF_vars(intHandler)

Spec == Init /\ [][Next]_vars /\ Fairness

-----------------------------------------------------------------------------
\* The type invariant: the timer's count never goes below zero.
TypeOK ==
  /\ WaitTypeOK
  /\ bclk \in Nat
  /\ pc \in SleepPcs
  /\ asked \in Nat
  /\ count \in Nat
  /\ {timerOn, lint0On, oldmask, pending, iflag} \subseteq BOOLEAN
  /\ elapsed \in 0 .. MaxElapsed

\* While interrupts are open only the timer can interrupt: the 8259's vectors
\* lead nowhere in protected mode.
OnlyTheTimerInterrupts == iflag => ~ lint0On

\* A sleep leaves nothing behind that would end the next one early or call the
\* handler on a stack frame that is gone: when it returns, its timer has run
\* out, is masked, and no interrupt of it waits.
NothingLeftBehind ==
  pc = "idle" => ~ timerOn /\ ~ iflag /\ ~ pending /\ count = 0

\* A sleep lasts at least as long as asked, if the product of time and clock
\* rate fits into a U32.
LongEnough ==
  [][pc = "restore" /\ pc' = "idle" /\ asked * bclk < U32
       => elapsed >= TicksAsked]_vars

\* The sleep waits for a timer that start_apic_timer has started.
TimerStarted == pc = "wait" /\ start_apic_timer(asked) # 0

\* A sleep for which the timer was started ends.  One of no time, or whose
\* product wraps to a count of 0, waits for ever.
SleepEnds == TimerStarted ~> pc = "idle"

\* rc/python/smpmodule.c:819: blocking_sleep sleeps "for the specified number
\* of microseconds".
SleepsAsAsked ==
  [][pc = "restore" /\ pc' = "idle" => elapsed >= TicksAsked]_vars
=============================================================================
