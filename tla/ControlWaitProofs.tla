------------------------- MODULE ControlWaitProofs -------------------------
(***************************************************************************)
(* Lemmas about the operations of ControlWait, for every set of            *)
(* processors: each of them keeps the types of the control words and never *)
(* loses a wakeup.  Modules that extend ControlWait with proofs cite them. *)
(***************************************************************************)
EXTENDS ControlWait, TLAPS

\* A processor that is about to execute MWAIT, or does, has its monitor set.
MonitorSet ==
  \A c \in Cpu : wpc[c] \in {"retest", "asleep"} => monitor[c] \in {"armed", "hit"}

WaitInv == WaitTypeOK /\ MonitorSet /\ NoLostWakeup

\* A store wakes everybody who sleeps on the word.
LEMMA SetControlWaitInv ==
  ASSUME WaitInv, NEW w \in Cpu, NEW v \in Control, set_control(w, v),
         UNCHANGED <<wpc, word, value>>
  PROVE  WaitInv'
<1> USE DEF WaitInv, WaitTypeOK, set_control
<1>1. WaitTypeOK'
  OBVIOUS
<1>2. MonitorSet'
  BY DEF MonitorSet
<1>3. NoLostWakeup'
  <2> SUFFICES ASSUME NEW c \in Cpu, wpc[c] = "asleep", Arrived(c)' PROVE monitor'[c] = "hit"
    BY DEF NoLostWakeup
  <2>1. CASE word[c] = w
    BY <2>1 DEF MonitorSet
  <2>2. CASE word[c] # w
    BY <2>2 DEF NoLostWakeup, Arrived
  <2> QED
    BY <2>1, <2>2
<1> QED
  BY <1>1, <1>2, <1>3

\* Nobody sleeps at the moment it begins to wait.
LEMMA WaitForControlWaitInv ==
  ASSUME WaitInv, NEW c \in Cpu, NEW w \in Cpu, NEW v \in Control, NEW use_mwait,
         wait_for_control(c, w, v, use_mwait)
  PROVE  WaitInv'
<1> USE DEF WaitInv, WaitTypeOK
<1>1. /\ wpc' \in [Cpu -> WaitPcs]
      /\ \A d \in Cpu : wpc'[d] \in {"retest", "asleep"} => d # c /\ wpc'[d] = wpc[d]
  BY DEF wait_for_control, WaitPcs
<1>2. /\ word' \in [Cpu -> Cpu] /\ value' \in [Cpu -> Control]
      /\ UNCHANGED <<control, monitor>>
      /\ \A d \in Cpu : d # c => word'[d] = word[d] /\ value'[d] = value[d]
  BY DEF wait_for_control
<1> QED
  BY <1>1, <1>2 DEF MonitorSet, NoLostWakeup, Arrived

\* Neither does a step inside wait_for_control put a processor to sleep on a
\* value that is there.
LEMMA WaitStepWaitInv ==
  ASSUME WaitInv, NEW c \in Cpu, WaitStep(c) \/ WokenEarly(c)
  PROVE  WaitInv'
<1> USE DEF WaitInv, WaitTypeOK, WaitGoto, WaitPcs, MonitorSet, NoLostWakeup, Arrived
<1>1. CASE FirstTest(c)
  BY <1>1 DEF FirstTest
<1>2. CASE Arm(c)
  BY <1>2 DEF Arm
<1>3. CASE SecondTest(c)
  BY <1>3 DEF SecondTest
<1>4. CASE Woken(c)
  BY <1>4 DEF Woken
<1>5. CASE Poll(c)
  BY <1>5 DEF Poll
<1>6. CASE WokenEarly(c)
  BY <1>6 DEF WokenEarly
<1> QED
  BY <1>1, <1>2, <1>3, <1>4, <1>5, <1>6 DEF WaitStep

\* The invariant reads these variables only.
LEMMA SameWaitInv ==
  ASSUME WaitInv, UNCHANGED <<control, waitVars>>
  PROVE  WaitInv'
BY DEF WaitInv, WaitTypeOK, MonitorSet, NoLostWakeup, Arrived, waitVars
=============================================================================
