--------------------------- MODULE SmpBootProofs ---------------------------
(***************************************************************************)
(* What is proved of SmpBoot, for every number of processors, every MADT   *)
(* and every number of boots: its type invariant, that the stack of the    *)
(* low page has one user at a time, and that the processor list, once      *)
(* published, is exact, is stable, and names processors that serve.        *)
(***************************************************************************)
EXTENDS SmpBoot, FiniteSetTheorems, TLAPS

-----------------------------------------------------------------------------
(* The processor count.                                                    *)

\* process_madt counts: its result is a natural number.
LEMMA ProcessMadtType ==
  ASSUME NEW m \in Madts
  PROVE  process_madt(m) \in Nat
<1> DEFINE listed == {i \in DOMAIN m : m[i].type \in {"lapic", "x2apic"} /\ m[i].enabled}
<1>1. IsFiniteSet(DOMAIN m)
  BY BootAssumption
<1>2. IsFiniteSet(listed)
  BY <1>1, FS_Subset, listed \subseteq DOMAIN m
<1> QED
  BY <1>2, FS_CardinalityType DEF process_madt

\* smp_init never expects less than the BSP itself.
LEMMA ExpectedCountType ==
  ASSUME NEW m \in Madts, NEW acpi
  PROVE  ExpectedCount(m, acpi) \in Nat \ {0}
BY ProcessMadtType, BootAssumption DEF ExpectedCount, madt_processor_count

-----------------------------------------------------------------------------
(* Types.                                                                  *)

\* The variables start with values of their types.
LEMMA InitTypeOK == Init => TypeOK
<1> SUFFICES ASSUME Init PROVE TypeOK
  OBVIOUS
<1>1. PICK zero \in ZeroIds : cpu = [i \in Slot |-> [apicid |-> zero, present |-> FALSE]]
  BY DEF Init
<1>2. zero \in Id
  BY BootAssumption DEF Id
<1> QED
  BY <1>1, <1>2 DEF Init, TypeOK, BspPcs, ApPcs

\* No step takes a variable out of its type.
LEMMA StepTypeOK == TypeOK /\ [Next]_vars => TypeOK'
<1> SUFFICES ASSUME TypeOK, [Next]_vars PROVE TypeOK'
  OBVIOUS
<1> USE DEF TypeOK
<1>1. CASE SmpInitAgain
  BY <1>1 DEF SmpInitAgain, hostVars, lowPage, apVars
<1>1a. ASSUME NEW acpi \in AcpiOutcomes, SmpInitWalks(acpi) PROVE TypeOK'
  BY <1>1a DEF SmpInitWalks, hostVars, lowPage, apVars, BspPcs
<1>2. ASSUME NEW acpi \in AcpiOutcomes, SmpInitTooMany(acpi) PROVE TypeOK'
  BY <1>2, ExpectedCountType DEF SmpInitTooMany, lowPage, apVars
<1>3. ASSUME NEW acpi \in AcpiOutcomes, NEW apic \in ApicStates, SmpInit(acpi, apic)
      PROVE  TypeOK'
  <2>1. ExpectedCount(madt, acpi) \in Nat
    BY ExpectedCountType
  <2>2. cpu' \in [Slot -> [apicid : Id, present : BOOLEAN]]
    <3>1. \A i \in Slot : [cpu[i] EXCEPT !.present = FALSE] \in [apicid : Id, present : BOOLEAN]
      OBVIOUS
    <3>2. [apicid |-> BSP, present |-> TRUE] \in [apicid : Id, present : BOOLEAN]
      BY DEF Id
    <3> QED
      BY <1>3, <3>1, <3>2 DEF SmpInit
  <2>3. \/ bspPc' = "reset" /\ UNCHANGED <<initialized, ret>>
        \/ initialized' = TRUE /\ ret' = 1 /\ UNCHANGED bspPc
    BY <1>3, Zenon DEF SmpInit
  <2>4. /\ UNCHANGED <<lowPage, apVars, madt, sipi>>
        /\ expected' = ExpectedCount(madt, acpi)
        /\ logical' = 1
        /\ apIdt' = FALSE
        /\ boots' = boots + 1
    BY <1>3, Zenon DEF SmpInit
  <2>5. bspPc' \in BspPcs /\ ret' \in Nat
    BY <2>3 DEF BspPcs
  <2>6. expected' \in Nat /\ logical' \in Nat /\ boots' \in Nat
    BY <2>1, <2>4
  <2>7. initialized' \in BOOLEAN /\ apIdt' \in BOOLEAN
    BY <2>3, <2>4, Zenon
  <2>8. /\ madt' \in Madts /\ block' \in {0, 1} /\ asleep' \in Nat /\ sipi' \in BOOLEAN
        /\ apPc' \in [AP -> ApPcs] /\ slot' \in [AP -> Nat]
    BY <2>4 DEF lowPage, apVars
  <2> QED
    BY <2>2, <2>5, <2>6, <2>7, <2>8
<1>4. ASSUME NEW taken \in BOOLEAN, smp_phantom_init(taken) PROVE TypeOK'
  BY <1>4 DEF smp_phantom_init, lowPage, ApPcs
<1>5. CASE InitSipiCode
  BY <1>5 DEF InitSipiCode, hostVars, apVars, BspPcs
<1>6. CASE send_broadcast_init
  BY <1>6 DEF send_broadcast_init, hostVars, lowPage, BspPcs, ApPcs
<1>7. CASE send_broadcast_sipi
  BY <1>7 DEF send_broadcast_sipi, hostVars, lowPage, apVars, BspPcs
<1>8. CASE AllCheckedIn
  BY <1>8 DEF AllCheckedIn, lowPage, apVars, BspPcs
<1>9. ASSUME NEW p \in AP, ApStep(p) PROVE TypeOK'
  <2> USE DEF Goto, bspVars, lowPage, hostVars, ApPcs
  <2>1. CASE TakeSipi(p)
    BY <2>1 DEF TakeSipi
  <2>2. CASE TakeLock(p)
    BY <2>2 DEF TakeLock
  <2>3. CASE init_ap_exception_handling(p)
    BY <2>3 DEF init_ap_exception_handling
  <2>4. CASE FullCheck(p)
    BY <2>4 DEF FullCheck
  <2>5. CASE ClaimSlot(p)
    BY <2>5 DEF ClaimSlot
  <2>6. CASE WriteEntry(p)
    <3>1. cpu' \in [Slot -> [apicid : Id, present : BOOLEAN]]
      BY <2>6 DEF WriteEntry, Id
    <3> QED
      BY <2>6, <3>1 DEF WriteEntry
  <2>7. CASE prepare_mp_worker(p)
    BY <2>7 DEF prepare_mp_worker, ScanStep
  <2>8. CASE CountAsleep(p)
    BY <2>8 DEF CountAsleep
  <2>9. CASE DropLock(p)
    BY <2>9 DEF DropLock
  <2>10. CASE mp_worker(p)
    BY <2>10 DEF mp_worker, ScanStep
  <2> QED
    BY <1>9, <2>1, <2>2, <2>3, <2>4, <2>5, <2>6, <2>7, <2>8, <2>9, <2>10 DEF ApStep
<1>10. CASE UNCHANGED vars
  BY <1>10 DEF vars, hostVars, lowPage, bspVars, apVars
<1> QED
  BY <1>1, <1>1a, <1>2, <1>3, <1>4, <1>5, <1>6, <1>7, <1>8, <1>9, <1>10
     DEF Next, Caller, BspStep

\* The type invariant of SmpBoot.
THEOREM SmpBootTypeOK == Spec => []TypeOK
<1>1. Init => TypeOK
  BY InitTypeOK
<1>2. TypeOK /\ [Next]_vars => TypeOK'
  BY StepTypeOK
<1> QED
  BY <1>1, <1>2, PTL DEF Spec

-----------------------------------------------------------------------------
(* One user of the stack in the low page.                                  *)

\* Where an AP is that no longer, or not yet, takes part in a boot: nothing
\* can happen to it but to give BLOCK back and to look for its slot.
QuietPcs == {"foreign", "unlock", "find", "worker", "lost"}
Quiet == \A p \in AP : apPc[p] \in QuietPcs

\* Between two boots, and until the BSP has sent INIT, every AP is quiet.
QuietBetweenBoots ==
  /\ bspPc = "idle" /\ ~ initialized => Quiet
  /\ bspPc = "idle" /\ madt \in PhantomMadts => Quiet
  /\ bspPc \in {"walking", "reset", "code"} => Quiet

\* When a boot may be repeated, it waits for every AP there is.
WaitsForAll ==
  bspPc \notin {"idle", "walking"} /\ madt \in PhantomMadts => Cardinality(AP) < expected

\* BLOCK has one holder.  It reads 1 while it is held; only the BSP, when it
\* writes the trampoline anew, clears it under an AP that is about to do so
\* itself.
LockHeldOnce ==
  /\ \A p, q \in AP : apPc[p] \in Holding /\ apPc[q] \in Holding => p = q
  /\ \A p \in AP : apPc[p] \in Holding =>
       \/ block = 1
       \/ apPc[p] = "unlock" /\ bspPc = "code"

\* The APs that have counted themselves.
Counted == {p \in AP : apPc[p] \in {"unlock", "find", "worker", "lost"}}
CountOnce ==
  /\ bspPc = "code" => asleep = 0
  /\ bspPc \in {"inited", "sipi1", "wait"} => asleep <= Cardinality(Counted)

BootInv ==
  /\ TypeOK
  /\ QuietBetweenBoots
  /\ WaitsForAll
  /\ LockHeldOnce
  /\ CountOnce

\* Those who have counted themselves are finitely many, at most all APs.
LEMMA CountedFinite ==
  /\ IsFiniteSet(Counted)
  /\ Cardinality(Counted) \in Nat
  /\ Cardinality(AP) \in Nat
  /\ Cardinality(Counted) <= Cardinality(AP)
  /\ Cardinality(Counted) = Cardinality(AP) => Counted = AP
<1>1. Counted \subseteq AP /\ IsFiniteSet(AP)
  BY BootAssumption DEF Counted
<1> QED
  BY <1>1, FS_Subset, FS_CardinalityType

\* An AP that counts itself makes them one more.
LEMMA CountedOneMore ==
  ASSUME NEW p \in AP, TypeOK, apPc[p] = "count", apPc' = [apPc EXCEPT ![p] = "unlock"]
  PROVE  Cardinality(Counted') = Cardinality(Counted) + 1
<1>1. p \notin Counted /\ Counted' = Counted \cup {p}
  BY DEF Counted, TypeOK
<1> QED
  BY <1>1, CountedFinite, FS_AddElement

\* A step after which nobody has to count again leaves as many as there were.
LEMMA CountedNoLess ==
  ASSUME Counted \subseteq Counted'
  PROVE  Cardinality(Counted) <= Cardinality(Counted')
<1>1. Counted' \subseteq AP /\ IsFiniteSet(AP)
  BY BootAssumption DEF Counted
<1>2. IsFiniteSet(Counted')
  BY <1>1, FS_Subset
<1> QED
  BY <1>2, FS_Subset

\* The invariant holds before anybody calls smp_init.
LEMMA InitBootInv == Init => BootInv
<1> SUFFICES ASSUME Init PROVE BootInv
  OBVIOUS
<1>1. TypeOK
  BY InitTypeOK
<1>2. \A p \in AP : apPc[p] = "foreign"
  BY DEF Init
<1> QED
  BY <1>1, <1>2
     DEF Init, BootInv, QuietBetweenBoots, Quiet, QuietPcs, WaitsForAll, LockHeldOnce,
         Holding, OnLowStack, CountOnce

\* What every step of an AP has in common: it moves itself only, never out of
\* the quiet places nor out of those who have counted themselves, and leaves
\* the BSP and the number it waits for alone.
LEMMA ApStepMoves ==
  ASSUME TypeOK, NEW p \in AP, ApStep(p)
  PROVE  /\ UNCHANGED <<madt, bspPc, initialized, expected>>
         /\ \A q \in AP : q # p => apPc'[q] = apPc[q]
         /\ apPc[p] \in QuietPcs => apPc'[p] \in QuietPcs
         /\ apPc[p] \in {"unlock", "find", "worker", "lost"}
              => apPc'[p] \in {"unlock", "find", "worker", "lost"}
BY DEF TypeOK, ApStep, TakeSipi, TakeLock, init_ap_exception_handling, FullCheck,
       ClaimSlot, WriteEntry, prepare_mp_worker, CountAsleep, DropLock, mp_worker,
       ScanStep, Goto, bspVars, hostVars, QuietPcs

\* A step of an AP keeps the APs quiet and the BSP waiting for all of them.
LEMMA ApStepQuiet ==
  ASSUME BootInv, NEW p \in AP, ApStep(p)
  PROVE  QuietBetweenBoots' /\ WaitsForAll'
<1>1. Quiet => Quiet'
  BY ApStepMoves DEF BootInv, Quiet
<1> QED
  BY <1>1, ApStepMoves DEF BootInv, QuietBetweenBoots, WaitsForAll

\* A step of an AP leaves BLOCK with one holder: only an AP that finds it free
\* begins to hold it, and only its holder frees it.
LEMMA ApStepLock ==
  ASSUME BootInv, NEW p \in AP, ApStep(p)
  PROVE  LockHeldOnce'
<1> USE DEF BootInv, LockHeldOnce, Holding, OnLowStack, Goto, TypeOK
<1> UNCHANGED bspPc
  BY ApStepMoves
<1>1. CASE TakeSipi(p)
  BY <1>1 DEF TakeSipi, lowPage
<1>2. CASE TakeLock(p)
  <2>1. block = 0 /\ apPc[p] = "spin" /\ block' = 1 /\ apPc' = [apPc EXCEPT ![p] = "idt"]
    BY <1>2 DEF TakeLock
  <2>2. bspPc # "code"
    BY <2>1 DEF QuietBetweenBoots, Quiet, QuietPcs
  <2>3. \A q \in AP : apPc[q] \notin Holding
    BY <2>1, <2>2
  <2> QED
    BY <2>1, <2>3
<1>3. CASE init_ap_exception_handling(p)
  BY <1>3 DEF init_ap_exception_handling, lowPage
<1>4. CASE FullCheck(p)
  BY <1>4 DEF FullCheck, lowPage
<1>5. CASE ClaimSlot(p)
  BY <1>5 DEF ClaimSlot, lowPage
<1>6. CASE WriteEntry(p)
  BY <1>6 DEF WriteEntry, lowPage
<1>7. CASE prepare_mp_worker(p)
  BY <1>7 DEF prepare_mp_worker, ScanStep, lowPage
<1>8. CASE CountAsleep(p)
  <2>1. apPc[p] = "count" /\ apPc' = [apPc EXCEPT ![p] = "unlock"] /\ UNCHANGED block
    BY <1>8 DEF CountAsleep
  <2> QED
    BY <2>1
<1>9. CASE DropLock(p)
  <2>1. apPc[p] = "unlock" /\ apPc' = [apPc EXCEPT ![p] = "find"]
    BY <1>9 DEF DropLock
  <2>2. \A q \in AP : q # p => apPc[q] \notin Holding
    BY <2>1
  <2> QED
    BY <2>1, <2>2
<1>10. CASE mp_worker(p)
  BY <1>10 DEF mp_worker, ScanStep, lowPage
<1> QED
  BY <1>1, <1>2, <1>3, <1>4, <1>5, <1>6, <1>7, <1>8, <1>9, <1>10 DEF ApStep

\* ASLEEP never runs ahead of the APs that have counted themselves.
LEMMA ApStepCount ==
  ASSUME BootInv, NEW p \in AP, ApStep(p)
  PROVE  CountOnce'
<1> UNCHANGED bspPc
  BY ApStepMoves DEF BootInv
<1>1. CASE CountAsleep(p)
  <2>1. apPc[p] = "count" /\ apPc' = [apPc EXCEPT ![p] = "unlock"] /\ asleep' = asleep + 1
    BY <1>1 DEF CountAsleep, Goto
  <2>2. bspPc # "code"
    BY <2>1 DEF BootInv, QuietBetweenBoots, Quiet, QuietPcs
  <2>3. Cardinality(Counted') = Cardinality(Counted) + 1
    BY <2>1, CountedOneMore DEF BootInv
  <2> QED
    BY <2>1, <2>2, <2>3, CountedFinite DEF BootInv, CountOnce, TypeOK
<1>2. CASE ~ CountAsleep(p)
  <2>1. UNCHANGED asleep
    BY <1>2 DEF ApStep, TakeSipi, TakeLock, init_ap_exception_handling, FullCheck, ClaimSlot,
         WriteEntry, prepare_mp_worker, DropLock, mp_worker, lowPage
  <2>2. Counted \subseteq Counted'
    BY ApStepMoves DEF BootInv, Counted
  <2>3. Cardinality(Counted) <= Cardinality(Counted')
    BY <2>2, CountedNoLess
  <2>4. Cardinality(Counted') \in Nat
    <3>1. Counted' \subseteq AP /\ IsFiniteSet(AP)
      BY BootAssumption DEF Counted
    <3> QED
      BY <3>1, FS_Subset, FS_CardinalityType
  <2> QED
    BY <2>1, <2>3, <2>4, CountedFinite DEF BootInv, CountOnce, TypeOK
<1> QED
  BY <1>1, <1>2

\* The BSP's own steps and its callers' keep the invariant, if smp_phantom_init
\* is called only where the MADT lists every AP.
LEMMA BspStepBootInv ==
  ASSUME ReinitContract, BootInv, Caller \/ BspStep
  PROVE  BootInv'
<1>0. TypeOK'
  <2>1. [Next]_vars
    BY DEF Next
  <2> QED
    BY <2>1, StepTypeOK DEF BootInv
<1> USE DEF BootInv
<1>1. CASE SmpInitAgain
  <2>1. UNCHANGED <<hostVars, lowPage, apVars, madt, bspPc>>
    BY <1>1 DEF SmpInitAgain
  <2>2. QuietBetweenBoots' /\ WaitsForAll'
    BY <2>1 DEF QuietBetweenBoots, Quiet, WaitsForAll, hostVars, apVars
  <2>3. LockHeldOnce'
    BY <2>1 DEF LockHeldOnce, lowPage, apVars
  <2>4. CountOnce'
    BY <2>1 DEF CountOnce, Counted, lowPage, apVars
  <2> QED
    BY <1>0, <2>2, <2>3, <2>4
<1>1a. ASSUME NEW acpi \in AcpiOutcomes, SmpInitWalks(acpi) PROVE BootInv'
  <2>1. /\ UNCHANGED <<lowPage, apVars, madt>> /\ ~ initialized
        /\ bspPc = "idle" /\ bspPc' = "walking"
    BY <1>1a DEF SmpInitWalks
  <2>2. QuietBetweenBoots' /\ WaitsForAll' /\ CountOnce'
    BY <2>1 DEF QuietBetweenBoots, Quiet, WaitsForAll, CountOnce, apVars
  <2>3. LockHeldOnce'
    BY <2>1 DEF LockHeldOnce, lowPage, apVars
  <2> QED
    BY <1>0, <2>2, <2>3
<1>2. ASSUME NEW acpi \in AcpiOutcomes, SmpInitTooMany(acpi) PROVE BootInv'
  <2>1. UNCHANGED <<initialized, lowPage, apVars, madt, bspPc>> /\ bspPc = "idle"
    BY <1>2 DEF SmpInitTooMany
  <2>2. QuietBetweenBoots' /\ WaitsForAll'
    BY <2>1 DEF QuietBetweenBoots, Quiet, WaitsForAll, apVars
  <2>3. LockHeldOnce'
    BY <2>1 DEF LockHeldOnce, lowPage, apVars
  <2>4. CountOnce'
    BY <2>1 DEF CountOnce, Counted, lowPage, apVars
  <2> QED
    BY <1>0, <2>2, <2>3, <2>4
<1>3. ASSUME NEW acpi \in AcpiOutcomes, NEW apic \in ApicStates, SmpInit(acpi, apic)
      PROVE  BootInv'
  <2>1. /\ bspPc = "idle" /\ ~ initialized
        /\ UNCHANGED <<lowPage, apVars, madt>>
        /\ expected' = ExpectedCount(madt, acpi)
        /\ \/ bspPc' = "reset"
           \/ UNCHANGED bspPc
    BY <1>3, Zenon DEF SmpInit
  <2>2. Quiet /\ Quiet'
    BY <2>1 DEF QuietBetweenBoots, Quiet, apVars
  <2>3. QuietBetweenBoots'
    BY <2>2 DEF QuietBetweenBoots
  <2>4. WaitsForAll'
    BY <2>1 DEF WaitsForAll, ReinitContract
  <2>5. LockHeldOnce'
    BY <2>1 DEF LockHeldOnce, lowPage, apVars
  <2>6. CountOnce'
    BY <2>1 DEF CountOnce
  <2> QED
    BY <1>0, <2>3, <2>4, <2>5, <2>6
<1>4. ASSUME NEW taken \in BOOLEAN, smp_phantom_init(taken) PROVE BootInv'
  <2>1. /\ bspPc = "idle" /\ madt \in PhantomMadts
        /\ UNCHANGED <<lowPage, madt, bspPc>>
        /\ apPc' = IF taken THEN [p \in AP |-> "foreign"] ELSE apPc
    BY <1>4 DEF smp_phantom_init
  <2>2. Quiet /\ Quiet'
    BY <2>1 DEF QuietBetweenBoots, Quiet, QuietPcs
  <2>3. QuietBetweenBoots'
    BY <2>2 DEF QuietBetweenBoots
  <2>4. WaitsForAll' /\ CountOnce'
    BY <2>1 DEF WaitsForAll, CountOnce
  <2>5. LockHeldOnce'
    BY <2>1 DEF LockHeldOnce, Holding, OnLowStack, lowPage
  <2> QED
    BY <1>0, <2>3, <2>4, <2>5
<1>5. CASE InitSipiCode
  <2>1. /\ bspPc = "reset" /\ bspPc' = "code" /\ asleep' = 0
        /\ UNCHANGED <<hostVars, apVars, madt>>
    BY <1>5 DEF InitSipiCode
  <2>2. Quiet /\ Quiet'
    BY <2>1 DEF QuietBetweenBoots, Quiet, apVars
  <2>3. QuietBetweenBoots'
    BY <2>2 DEF QuietBetweenBoots
  <2>4. WaitsForAll' /\ CountOnce'
    BY <2>1 DEF WaitsForAll, CountOnce, hostVars
  <2>5. LockHeldOnce'
    BY <2>1, <2>2 DEF LockHeldOnce, Quiet, QuietPcs, Holding, OnLowStack, apVars
  <2> QED
    BY <1>0, <2>3, <2>4, <2>5
<1>6. CASE send_broadcast_init
  <2>1. /\ bspPc = "code" /\ bspPc' = "inited" /\ UNCHANGED <<hostVars, lowPage, madt>>
        /\ \A p \in AP : apPc'[p] = "wfs"
    BY <1>6 DEF send_broadcast_init
  <2>2. QuietBetweenBoots' /\ WaitsForAll'
    BY <2>1 DEF QuietBetweenBoots, WaitsForAll, hostVars
  <2>3. LockHeldOnce'
    BY <2>1 DEF LockHeldOnce, Holding, OnLowStack
  <2>4. Counted' = {}
    BY <2>1 DEF Counted
  <2>5. CountOnce'
    BY <2>1, <2>4, FS_EmptySet DEF CountOnce, lowPage
  <2> QED
    BY <1>0, <2>2, <2>3, <2>5
<1>7. CASE send_broadcast_sipi
  <2>1. /\ bspPc \in {"inited", "sipi1"} /\ bspPc' \in {"sipi1", "wait"}
        /\ UNCHANGED <<hostVars, lowPage, apVars, madt>>
    BY <1>7 DEF send_broadcast_sipi
  <2>2. QuietBetweenBoots' /\ WaitsForAll'
    BY <2>1 DEF QuietBetweenBoots, WaitsForAll, hostVars
  <2>3. LockHeldOnce'
    BY <2>1 DEF LockHeldOnce, lowPage, apVars
  <2>4. CountOnce'
    BY <2>1 DEF CountOnce, Counted, lowPage, apVars
  <2> QED
    BY <1>0, <2>2, <2>3, <2>4
<1>8. CASE AllCheckedIn
  <2>1. /\ bspPc = "wait" /\ bspPc' = "idle" /\ asleep = expected - 1
        /\ initialized' = TRUE
        /\ UNCHANGED <<lowPage, apVars, madt>>
    BY <1>8 DEF AllCheckedIn
  <2>2. madt \in PhantomMadts => Quiet
    <3> SUFFICES ASSUME madt \in PhantomMadts PROVE Quiet
      OBVIOUS
    <3>1. Cardinality(AP) <= asleep
      BY <2>1, CountedFinite DEF WaitsForAll, TypeOK
    <3>2. Counted = AP
      BY <2>1, <3>1, CountedFinite DEF CountOnce, TypeOK
    <3> QED
      BY <3>2 DEF Counted, Quiet, QuietPcs
  <2>3. QuietBetweenBoots'
    BY <2>1, <2>2 DEF QuietBetweenBoots, Quiet, apVars
  <2>4. WaitsForAll' /\ CountOnce'
    BY <2>1 DEF WaitsForAll, CountOnce
  <2>5. LockHeldOnce'
    BY <2>1 DEF LockHeldOnce, lowPage, apVars
  <2> QED
    BY <1>0, <2>3, <2>4, <2>5
<1> QED
  BY <1>1, <1>1a, <1>2, <1>3, <1>4, <1>5, <1>6, <1>7, <1>8 DEF Caller, BspStep

\* Every step keeps the invariant, under the same condition.
LEMMA StepBootInv ==
  ASSUME ReinitContract, BootInv, [Next]_vars
  PROVE  BootInv'
<1>0. TypeOK'
  BY StepTypeOK DEF BootInv
<1>1. CASE Caller \/ BspStep
  BY <1>1, BspStepBootInv
<1>2. ASSUME NEW p \in AP, ApStep(p) PROVE BootInv'
  BY <1>0, <1>2, ApStepQuiet, ApStepLock, ApStepCount DEF BootInv
<1>3. CASE UNCHANGED vars
  BY <1>0, <1>3
     DEF BootInv, vars, hostVars, lowPage, bspVars, apVars, QuietBetweenBoots, Quiet,
         WaitsForAll, LockHeldOnce, CountOnce, Counted
<1> QED
  BY <1>1, <1>2, <1>3 DEF Next

\* However many APs there are, whatever the MADT says and however often
\* a boot is repeated, one processor at a time runs on the stack of the low
\* page; a boot may be repeated only where the MADT lists every AP.
THEOREM SmpBootLowStackExclusive ==
  ASSUME ReinitContract
  PROVE  Spec => []LowStackExclusive
<1>1. Init => BootInv
  BY InitBootInv
<1>2. BootInv /\ [Next]_vars => BootInv'
  BY StepBootInv
<1>3. BootInv => LowStackExclusive
  BY DEF BootInv, LockHeldOnce, LowStackExclusive, Holding
<1> QED
  BY <1>1, <1>2, <1>3, PTL DEF Spec

-----------------------------------------------------------------------------
(* The processor list.                                                     *)

\* The entries of the table that are written: an AP that has claimed its slot
\* and not yet filled it is the last one.
Written == IF \E p \in AP : apPc[p] = "apicid" THEN logical - 1 ELSE logical

\* Where an AP is that has an entry.
EnteredPcs == {"prepare", "count", "unlock", "find", "worker"}

\* The APs that have claimed a slot since the last INIT.
ClaimedPcs == {"apicid", "prepare", "count", "unlock", "find", "worker", "lost"}
Claimed == {p \in AP : apPc[p] \in ClaimedPcs}

\* smp_init works on the table, or has published it.
Begun == initialized \/ bspPc \notin {"idle", "walking"}

\* The count never exceeds what the MADT lists, nor that the table.  A slot is
\* claimed only below that limit, and it is the last one.
CountsRight ==
  Begun =>
    /\ 1 <= logical /\ logical <= expected /\ expected <= MaxCpu
    /\ \A p \in AP : apPc[p] = "claim" => logical < expected
    /\ \A p \in AP : apPc[p] = "apicid" => slot[p] = logical - 1 /\ logical > 1

\* The first entry is the BSP's, exactly the written ones are present, and no
\* AP has two of them.
TableRight ==
  Begun =>
    /\ cpu[0].apicid = BSP
    /\ \A i \in Slot : cpu[i].present <=> i < Written
    /\ \A i, j \in Slot : 1 <= i /\ i < j /\ j < Written => cpu[i].apicid # cpu[j].apicid

\* The owner of entry i has written it, has not looked beyond it, and works,
\* once it does, on slot i.
OwnerAt(i, p) ==
  /\ p \in AP
  /\ apPc[p] \in EnteredPcs
  /\ apPc[p] \in {"prepare", "find"} => slot[p] <= i
  /\ apPc[p] = "worker" => slot[p] = i
TableOwned ==
  Begun => \A i \in Slot : 1 <= i /\ i < Written => OwnerAt(i, cpu[i].apicid)

\* Before INIT nobody has claimed anything; after it the count goes up with
\* every claim; and once smp_init has returned nobody claims any more, because
\* all slots are taken or nobody was woken.
ClaimsCounted ==
  /\ initialized => bspPc = "idle"
  /\ bspPc \in {"reset", "code"} => logical = 1
  /\ bspPc \in {"inited", "sipi1", "wait"} => Cardinality(Claimed) = logical - 1
  /\ initialized =>
       /\ \A p \in AP : apPc[p] \notin {"claim", "apicid", "prepare", "count"}
       /\ logical = expected \/ (logical = 1 /\ Quiet)

ListInv == CountsRight /\ TableRight /\ TableOwned /\ ClaimsCounted

\* The written entries are those below the count, or all of them but one.
LEMMA WrittenType ==
  ASSUME TypeOK, CountsRight, Begun
  PROVE  /\ Written \in Nat /\ 1 <= Written /\ Written <= logical
         /\ logical \in Nat /\ logical <= MaxCpu /\ MaxCpu \in Nat
         /\ \A i \in Nat : i < Written => i \in Slot
BY BootAssumption DEF TypeOK, CountsRight, Written, Slot

\* An AP moves itself only.
LEMMA ApStepAlone ==
  ASSUME TypeOK, NEW p \in AP, ApStep(p)
  PROVE  /\ UNCHANGED <<bspPc, initialized, expected>>
         /\ \A q \in AP : q # p => apPc'[q] = apPc[q] /\ slot'[q] = slot[q]
BY DEF TypeOK, ApStep, TakeSipi, TakeLock, init_ap_exception_handling, FullCheck,
       ClaimSlot, WriteEntry, prepare_mp_worker, CountAsleep, DropLock, mp_worker,
       ScanStep, Goto, bspVars, hostVars

\* Only two of its steps touch the table; the others take it neither into the
\* claimants nor out of them.
LEMMA ApStepElsewhere ==
  ASSUME TypeOK, NEW p \in AP, ApStep(p), ~ ClaimSlot(p), ~ WriteEntry(p)
  PROVE  /\ UNCHANGED <<logical, cpu>>
         /\ apPc[p] # "apicid" /\ apPc'[p] # "apicid"
         /\ apPc[p] \in ClaimedPcs <=> apPc'[p] \in ClaimedPcs
BY DEF TypeOK, ApStep, TakeSipi, TakeLock, init_ap_exception_handling, FullCheck,
       prepare_mp_worker, CountAsleep, DropLock, mp_worker,
       ScanStep, Goto, hostVars, ClaimedPcs

\* The owner of an entry that looks for it has not passed it: the entries
\* before it are of others, so it finds no wrong one, and does not run off the
\* end of the table.
LEMMA OwnerFinds ==
  ASSUME TypeOK, CountsRight, TableRight, Begun,
         NEW i \in Slot, 1 <= i, i < Written, NEW p \in AP, p = cpu[i].apicid,
         OwnerAt(i, p), NEW from \in {"prepare", "find"}, NEW found, ScanStep(p, from, found)
  PROVE  \/ slot[p] = i /\ slot'[p] = i /\ apPc'[p] = found
         \/ slot'[p] <= i /\ apPc'[p] = from
<1>1. slot[p] \in Nat /\ slot[p] <= i /\ slot[p] < logical /\ slot[p] \in Slot
  BY WrittenType DEF OwnerAt, ScanStep, Goto, TypeOK, Slot
<1>2. CASE cpu[slot[p]].apicid = p
  <2>1. slot[p] # 0
    BY <1>2, BootAssumption DEF TableRight
  <2>2. slot[p] = i
    BY <1>1, <1>2, <2>1 DEF TableRight, Slot
  <2>3. Goto(p, from, found) /\ UNCHANGED slot
    BY <1>1, <1>2 DEF ScanStep, TypeOK
  <2> QED
    BY <2>2, <2>3 DEF Goto, TypeOK
<1>3. CASE cpu[slot[p]].apicid # p
  <2>1. slot[p] # i
    BY <1>3
  <2>2. apPc[p] = from /\ slot'[p] = slot[p] + 1 /\ UNCHANGED apPc
    BY <1>1, <1>3 DEF ScanStep, TypeOK
  <2> QED
    BY <1>1, <2>1, <2>2 DEF Slot
<1> QED
  BY <1>2, <1>3

\* What an AP does between claims keeps the list: it reads it, or leaves it.
LEMMA ApStepListRead ==
  ASSUME BootInv, ListInv, NEW p \in AP, ApStep(p), ~ ClaimSlot(p), ~ WriteEntry(p)
  PROVE  ListInv'
<1> USE DEF BootInv, ListInv
<1>1. /\ UNCHANGED <<bspPc, initialized, expected, logical, cpu>>
      /\ \A q \in AP : q # p => apPc'[q] = apPc[q] /\ slot'[q] = slot[q]
      /\ apPc[p] # "apicid" /\ apPc'[p] # "apicid"
      /\ apPc[p] \in ClaimedPcs <=> apPc'[p] \in ClaimedPcs
  BY ApStepAlone, ApStepElsewhere
<1>2. Written' = Written /\ Begun' = Begun /\ Claimed' = Claimed
  BY <1>1 DEF Written, Begun, Claimed
<1>3. CASE FullCheck(p)
  <2>1. /\ apPc[p] = "check" /\ UNCHANGED slot
        /\ apPc'[p] = IF logical = expected THEN "full" ELSE "claim"
    BY <1>3 DEF FullCheck, Goto, TypeOK
  <2>2. CountsRight'
    BY <1>1, <1>2, <2>1 DEF CountsRight, TypeOK
  <2>3. TableRight' /\ TableOwned'
    BY <1>1, <1>2, <2>1 DEF TableRight, TableOwned, OwnerAt, EnteredPcs
  <2>4. initialized => logical = expected
    BY <2>1 DEF ClaimsCounted, Quiet, QuietPcs
  <2>5. ClaimsCounted'
    BY <1>1, <1>2, <2>1, <2>4 DEF ClaimsCounted
  <2> QED
    BY <2>2, <2>3, <2>5
<1>4. CASE ~ FullCheck(p)
  <2>1. /\ apPc[p] # "claim" /\ apPc'[p] # "claim"
        /\ apPc'[p] = "prepare" => apPc[p] = "prepare"
        /\ apPc'[p] = "count" => apPc[p] \in {"prepare", "count"}
    BY <1>4 DEF TypeOK, ApStep, TakeSipi, TakeLock, init_ap_exception_handling,
         prepare_mp_worker, CountAsleep, DropLock, mp_worker, ScanStep, Goto, ClaimSlot, WriteEntry
  <2>2. CountsRight'
    BY <1>1, <1>2, <2>1 DEF CountsRight
  <2>3. TableRight'
    BY <1>1, <1>2 DEF TableRight
  <2>4. ASSUME Begun, NEW i \in Slot, 1 <= i, i < Written, cpu[i].apicid = p
        PROVE  OwnerAt(i, p)'
    <3>1. OwnerAt(i, p)
      BY <2>4 DEF TableOwned
    <3>2. CASE prepare_mp_worker(p)
      <4>1. ScanStep(p, "prepare", "count")
        BY <3>2 DEF prepare_mp_worker
      <4> QED
        BY <2>4, <3>1, <4>1, OwnerFinds DEF OwnerAt, EnteredPcs
    <3>3. CASE mp_worker(p)
      <4>1. ScanStep(p, "find", "worker")
        BY <3>3 DEF mp_worker
      <4> QED
        BY <2>4, <3>1, <4>1, OwnerFinds DEF OwnerAt, EnteredPcs
    <3>4. CASE CountAsleep(p)
      BY <3>1, <3>4 DEF CountAsleep, Goto, OwnerAt, EnteredPcs, TypeOK
    <3>5. CASE DropLock(p)
      BY <2>4, <3>1, <3>5 DEF DropLock, Goto, OwnerAt, EnteredPcs, TypeOK, Slot
    <3>6. TakeSipi(p) \/ TakeLock(p) \/ init_ap_exception_handling(p) => FALSE
      BY <3>1 DEF TakeSipi, TakeLock, init_ap_exception_handling, Goto, OwnerAt, EnteredPcs
    <3> QED
      BY <1>4, <3>2, <3>3, <3>4, <3>5, <3>6 DEF ApStep
  <2>5. TableOwned'
    <3> SUFFICES ASSUME Begun', NEW i \in Slot, 1 <= i, i < Written'
                 PROVE  OwnerAt(i, cpu[i].apicid)'
      BY DEF TableOwned
    <3>1. Begun /\ i < Written /\ OwnerAt(i, cpu[i].apicid)
      BY <1>2 DEF TableOwned
    <3>2. CASE cpu[i].apicid = p
      BY <1>1, <2>4, <3>1, <3>2
    <3>3. CASE cpu[i].apicid # p
      BY <1>1, <3>1, <3>3 DEF OwnerAt
    <3> QED
      BY <3>2, <3>3
  <2>6. Quiet => Quiet'
    BY ApStepMoves DEF Quiet
  <2>7. ClaimsCounted'
    BY <1>1, <1>2, <2>1, <2>6 DEF ClaimsCounted
  <2> QED
    BY <2>2, <2>3, <2>5, <2>7
<1> QED
  BY <1>3, <1>4

\* An AP claims the slot after the last, and one that is in the table.
LEMMA ClaimSlotList ==
  ASSUME BootInv, ListInv, NEW p \in AP, ClaimSlot(p)
  PROVE  ListInv'
<1> USE DEF BootInv, ListInv
<1>1. /\ apPc[p] = "claim" /\ apPc' = [apPc EXCEPT ![p] = "apicid"]
      /\ slot' = [slot EXCEPT ![p] = logical] /\ logical' = logical + 1
      /\ UNCHANGED <<initialized, expected, cpu, bspPc>>
  BY DEF ClaimSlot, Goto, bspVars
<1>2. bspPc \in {"inited", "sipi1", "wait"} /\ ~ initialized /\ Begun /\ Begun'
  BY <1>1 DEF QuietBetweenBoots, Quiet, QuietPcs, ClaimsCounted, Begun, TypeOK, BspPcs
<1>3. \A q \in AP : q # p => apPc[q] \notin Holding /\ apPc'[q] = apPc[q]
  BY <1>1 DEF LockHeldOnce, Holding, OnLowStack, TypeOK
<1>4. Written = logical /\ Written' = logical
  BY <1>1, <1>3 DEF Written, Holding, OnLowStack, TypeOK
<1>5. logical < expected /\ 1 <= logical /\ logical \in Nat /\ expected \in Nat
  BY <1>1, <1>2 DEF CountsRight, TypeOK
<1>6. CountsRight'
  BY <1>1, <1>2, <1>3, <1>5 DEF CountsRight, Holding, OnLowStack, TypeOK
<1>7. TableRight'
  BY <1>1, <1>2, <1>4 DEF TableRight
<1>8. TableOwned'
  BY <1>1, <1>2, <1>3, <1>4 DEF TableOwned, OwnerAt, EnteredPcs, TypeOK
<1>9. p \notin Claimed /\ Claimed' = Claimed \cup {p} /\ Claimed \subseteq AP
  BY <1>1 DEF Claimed, ClaimedPcs, TypeOK
<1>10. IsFiniteSet(Claimed)
  BY <1>9, FS_Subset, BootAssumption
<1>11. Cardinality(Claimed') = Cardinality(Claimed) + 1
  BY <1>9, <1>10, FS_AddElement
<1>12. ClaimsCounted'
  BY <1>1, <1>2, <1>5, <1>11 DEF ClaimsCounted
<1> QED
  BY <1>6, <1>7, <1>8, <1>12

\* An AP writes its entry, the only one that is claimed and not written.
LEMMA WriteEntryList ==
  ASSUME BootInv, ListInv, NEW p \in AP, WriteEntry(p)
  PROVE  ListInv'
<1> USE DEF BootInv, ListInv
<1>1. /\ apPc[p] = "apicid" /\ apPc' = [apPc EXCEPT ![p] = "prepare"]
      /\ cpu' = [cpu EXCEPT ![slot[p]] = [apicid |-> p, present |-> TRUE]]
      /\ slot' = [slot EXCEPT ![p] = 0]
      /\ UNCHANGED <<initialized, expected, logical, bspPc>>
  BY DEF WriteEntry, Goto, bspVars
<1>2. bspPc \in {"inited", "sipi1", "wait"} /\ ~ initialized /\ Begun /\ Begun'
  BY <1>1 DEF QuietBetweenBoots, Quiet, QuietPcs, ClaimsCounted, Begun, TypeOK, BspPcs
<1>3. \A q \in AP : q # p => apPc[q] \notin Holding /\ apPc'[q] = apPc[q]
  BY <1>1 DEF LockHeldOnce, Holding, OnLowStack, TypeOK
<1>4. Written = logical - 1 /\ Written' = logical
  BY <1>1, <1>3 DEF Written, Holding, OnLowStack, TypeOK
<1>5. /\ slot[p] = logical - 1 /\ slot[p] \in Slot /\ slot[p] \in Nat /\ 1 <= slot[p]
      /\ logical \in Nat /\ 0 \in Slot
  BY <1>1, <1>2, WrittenType DEF CountsRight, Slot, TypeOK
<1>6. /\ cpu'[slot[p]] = [apicid |-> p, present |-> TRUE]
      /\ \A i \in Slot : i # slot[p] => cpu'[i] = cpu[i]
  BY <1>1, <1>5 DEF TypeOK
<1>7. CountsRight'
  BY <1>1, <1>2, <1>3 DEF CountsRight, TypeOK
<1>8. \A i \in Slot : 1 <= i /\ i < slot[p] => cpu[i].apicid # p
  BY <1>1, <1>2, <1>4, <1>5 DEF TableOwned, OwnerAt, EnteredPcs
<1>9. TableRight'
  <2>1. cpu'[0].apicid = BSP
    BY <1>2, <1>5, <1>6 DEF TableRight
  <2>2. \A i \in Slot : cpu'[i].present <=> i < logical
    <3> SUFFICES ASSUME NEW i \in Slot PROVE cpu'[i].present <=> i < logical
      OBVIOUS
    <3>1. CASE i = slot[p]
      BY <1>5, <1>6, <3>1
    <3>2. CASE i # slot[p]
      <4>1. i \in Nat
        BY DEF Slot
      <4> QED
        BY <1>2, <1>4, <1>5, <1>6, <3>2, <4>1 DEF TableRight
    <3> QED
      BY <3>1, <3>2
  <2>3. ASSUME NEW i \in Slot, NEW j \in Slot, 1 <= i, i < j, j < logical
        PROVE  cpu'[i].apicid # cpu'[j].apicid
    BY <1>2, <1>4, <1>5, <1>6, <1>8, <2>3 DEF TableRight, Slot
  <2> QED
    BY <1>4, <2>1, <2>2, <2>3 DEF TableRight
<1>10. TableOwned'
  <2> SUFFICES ASSUME NEW i \in Slot, 1 <= i, i < logical PROVE OwnerAt(i, cpu[i].apicid)'
    BY <1>4 DEF TableOwned
  <2>1. CASE i = slot[p]
    BY <1>1, <1>5, <1>6, <2>1 DEF OwnerAt, EnteredPcs, TypeOK
  <2>2. CASE i # slot[p]
    <3>1. i < slot[p]
      BY <1>5, <2>2 DEF Slot
    <3>2. OwnerAt(i, cpu[i].apicid) /\ cpu[i].apicid # p
      BY <1>2, <1>4, <1>5, <1>8, <3>1 DEF TableOwned
    <3> QED
      BY <1>1, <1>6, <2>2, <3>2 DEF OwnerAt, TypeOK
  <2> QED
    BY <2>1, <2>2
<1>11. Claimed' = Claimed
  BY <1>1 DEF Claimed, ClaimedPcs, TypeOK
<1>12. ClaimsCounted'
  BY <1>1, <1>2, <1>11 DEF ClaimsCounted
<1> QED
  BY <1>7, <1>9, <1>10, <1>12

\* Every step of an AP keeps the list.
LEMMA ApStepList ==
  ASSUME BootInv, ListInv, NEW p \in AP, ApStep(p)
  PROVE  ListInv'
BY ApStepListRead, ClaimSlotList, WriteEntryList

\* When ASLEEP has reached the number of listed APs, all claims are made and
\* all entries are written: those who have counted themselves are all who have
\* claimed, and they are as many as the list is long.
LEMMA AllCheckedInList ==
  ASSUME BootInv, ListInv, AllCheckedIn
  PROVE  ListInv'
<1> USE DEF BootInv, ListInv
<1>1. /\ bspPc = "wait" /\ bspPc' = "idle" /\ asleep = expected - 1 /\ initialized' = TRUE
      /\ UNCHANGED <<expected, logical, cpu, apPc, slot>>
  BY DEF AllCheckedIn, apVars
<1>2. Begun /\ Begun' /\ Written' = Written
  BY <1>1 DEF Begun, Written
<1>3. Counted \subseteq Claimed /\ IsFiniteSet(Claimed)
  <2>1. Claimed \subseteq AP
    BY DEF Claimed
  <2> QED
    BY <2>1, FS_Subset, BootAssumption DEF Counted, Claimed, ClaimedPcs
<1>4. Cardinality(Claimed) = logical - 1 /\ logical <= expected
  BY <1>1, <1>2 DEF ClaimsCounted, CountsRight
<1>5. expected - 1 <= Cardinality(Counted)
  BY <1>1 DEF CountOnce
<1>6. Cardinality(Counted) <= Cardinality(Claimed)
  BY <1>3, FS_Subset
<1>7. Cardinality(Counted) \in Nat /\ expected \in Nat /\ logical \in Nat
  BY CountedFinite DEF TypeOK
<1>8. logical = expected /\ Cardinality(Counted) = Cardinality(Claimed)
  BY <1>4, <1>5, <1>6, <1>7
<1>9. Counted = Claimed
  BY <1>3, <1>8, FS_Subset
<1>10. \A p \in AP : apPc[p] \notin {"claim", "apicid", "prepare", "count"}
  <2>1. \A p \in AP : apPc[p] # "claim"
    BY <1>2, <1>7, <1>8 DEF CountsRight
  <2>2. \A p \in AP : apPc[p] \in {"apicid", "prepare", "count"} => p \in Claimed /\ p \notin Counted
    BY DEF Claimed, ClaimedPcs, Counted
  <2> QED
    BY <1>9, <2>1, <2>2
<1>11. ClaimsCounted'
  BY <1>1, <1>8, <1>10 DEF ClaimsCounted
<1>12. CountsRight' /\ TableRight' /\ TableOwned'
  BY <1>1, <1>2 DEF CountsRight, TableRight, TableOwned, OwnerAt
<1> QED
  BY <1>11, <1>12

\* The BSP begins with a table of its own entry, and after that leaves it alone.
LEMMA BspStepList ==
  ASSUME BootInv, ListInv, Caller \/ BspStep
  PROVE  ListInv'
<1> USE DEF BootInv, ListInv
<1>1. CASE SmpInitAgain
  <2>1. UNCHANGED <<initialized, expected, logical, cpu, apPc, slot, bspPc>>
    BY <1>1 DEF SmpInitAgain, hostVars, apVars
  <2> QED
    BY <2>1 DEF CountsRight, TableRight, TableOwned, OwnerAt, ClaimsCounted, Claimed, Quiet,
         Begun, Written
<1>1a. ASSUME NEW acpi \in AcpiOutcomes, SmpInitWalks(acpi) PROVE ListInv'
  <2>1. ~ initialized /\ UNCHANGED initialized /\ bspPc' = "walking"
    BY <1>1a DEF SmpInitWalks, hostVars
  <2> QED
    BY <2>1 DEF CountsRight, TableRight, TableOwned, ClaimsCounted, Begun
<1>2. ASSUME NEW acpi \in AcpiOutcomes, SmpInitTooMany(acpi) PROVE ListInv'
  <2>1. bspPc = "idle" /\ ~ initialized /\ UNCHANGED <<bspPc, initialized>>
    BY <1>2 DEF SmpInitTooMany
  <2> QED
    BY <2>1 DEF CountsRight, TableRight, TableOwned, ClaimsCounted, Begun
<1>3. ASSUME NEW acpi \in AcpiOutcomes, NEW apic \in ApicStates, SmpInit(acpi, apic)
      PROVE  ListInv'
  <2>1. /\ bspPc = "idle" /\ ~ initialized /\ UNCHANGED <<apPc, slot>>
        /\ ExpectedCount(madt, acpi) <= MaxCpu
        /\ expected' = ExpectedCount(madt, acpi) /\ logical' = 1
        /\ cpu' = [i \in Slot |-> IF i = 0 THEN [apicid |-> BSP, present |-> TRUE]
                                            ELSE [cpu[i] EXCEPT !.present = FALSE]]
    BY <1>3, Zenon DEF SmpInit, apVars
  <2>2. \/ bspPc' = "reset" /\ UNCHANGED initialized
        \/ initialized' = TRUE /\ UNCHANGED bspPc
    BY <1>3, Zenon DEF SmpInit
  <2>3. Quiet /\ Quiet'
    BY <2>1 DEF QuietBetweenBoots, Quiet
  <2>4. Written' = 1
    BY <2>1, <2>3 DEF Written, Quiet, QuietPcs
  <2>5. CountsRight'
    BY <2>1, <2>3, ExpectedCountType, BootAssumption DEF CountsRight, Quiet, QuietPcs, TypeOK
  <2>6. \A i \in Slot : cpu'[i].present <=> i < 1
    <3>1. ASSUME NEW i \in Slot PROVE cpu'[i].present <=> i = 0
      <4>1. cpu[i] \in [apicid : Id, present : BOOLEAN]
        BY DEF TypeOK
      <4> QED
        BY <2>1, <4>1
    <3> QED
      BY <3>1 DEF Slot
  <2>7. cpu'[0].apicid = BSP
    BY <2>1, BootAssumption DEF Slot
  <2>8. TableRight' /\ TableOwned'
    BY <2>4, <2>6, <2>7 DEF TableRight, TableOwned, Slot
  <2>9. ClaimsCounted'
    BY <2>1, <2>2, <2>3 DEF ClaimsCounted, Quiet, QuietPcs
  <2> QED
    BY <2>5, <2>8, <2>9
<1>4. ASSUME NEW taken \in BOOLEAN, smp_phantom_init(taken) PROVE ListInv'
  <2>1. bspPc' = "idle" /\ initialized' = FALSE
    BY <1>4 DEF smp_phantom_init
  <2> QED
    BY <2>1 DEF CountsRight, TableRight, TableOwned, ClaimsCounted, Begun
<1>5. CASE InitSipiCode
  <2>1. /\ bspPc = "reset" /\ bspPc' = "code"
        /\ UNCHANGED <<initialized, expected, logical, cpu, apPc, slot>>
    BY <1>5 DEF InitSipiCode, hostVars, apVars
  <2>2. Begun /\ Begun' /\ Written' = Written
    BY <2>1 DEF Begun, Written
  <2> QED
    BY <2>1, <2>2 DEF CountsRight, TableRight, TableOwned, OwnerAt, ClaimsCounted, Quiet
<1>6. CASE send_broadcast_init
  <2>1. /\ bspPc = "code" /\ bspPc' = "inited" /\ apPc' = [p \in AP |-> "wfs"]
        /\ UNCHANGED <<initialized, expected, logical, cpu, slot>>
    BY <1>6 DEF send_broadcast_init, hostVars
  <2>2. Begun /\ Begun' /\ logical = 1 /\ ~ initialized
    BY <2>1 DEF Begun, ClaimsCounted
  <2>3. Written = 1 /\ Written' = 1
    BY <2>1, <2>2 DEF Written, QuietBetweenBoots, Quiet, QuietPcs
  <2>4. Claimed' = {}
    BY <2>1 DEF Claimed, ClaimedPcs
  <2>5. ClaimsCounted'
    BY <2>1, <2>2, <2>4, FS_EmptySet DEF ClaimsCounted
  <2>6. CountsRight' /\ TableRight' /\ TableOwned'
    BY <2>1, <2>2, <2>3 DEF CountsRight, TableRight, TableOwned, Slot
  <2> QED
    BY <2>5, <2>6
<1>7. CASE send_broadcast_sipi
  <2>1. /\ bspPc \in {"inited", "sipi1"} /\ bspPc' \in {"sipi1", "wait"}
        /\ UNCHANGED <<initialized, expected, logical, cpu, apPc, slot>>
    BY <1>7 DEF send_broadcast_sipi, hostVars, apVars
  <2>2. Begun /\ Begun' /\ Written' = Written /\ Claimed' = Claimed
    BY <2>1 DEF Begun, Written, Claimed
  <2> QED
    BY <2>1, <2>2 DEF CountsRight, TableRight, TableOwned, OwnerAt, ClaimsCounted, Quiet
<1>8. CASE AllCheckedIn
  BY <1>8, AllCheckedInList
<1> QED
  BY <1>1, <1>1a, <1>2, <1>3, <1>4, <1>5, <1>6, <1>7, <1>8 DEF Caller, BspStep

\* Every step keeps the list.
LEMMA StepListInv ==
  ASSUME BootInv, ListInv, [Next]_vars
  PROVE  ListInv'
<1>1. CASE Caller \/ BspStep
  BY <1>1, BspStepList
<1>2. ASSUME NEW p \in AP, ApStep(p) PROVE ListInv'
  BY <1>2, ApStepList
<1>3. CASE UNCHANGED vars
  BY <1>3 DEF ListInv, CountsRight, TableRight, TableOwned, OwnerAt, ClaimsCounted, Claimed,
       Quiet, Begun, Written, vars, hostVars, bspVars, apVars
<1> QED
  BY <1>1, <1>2, <1>3 DEF Next

\* Before the first smp_init there is no list.
LEMMA InitListInv == Init => ListInv
BY DEF Init, ListInv, CountsRight, TableRight, TableOwned, ClaimsCounted, Begun

\* What the invariant says of a published list.
LEMMA ListPublished ==
  ASSUME BootInv, ListInv
  PROVE  PublishedListExact /\ ListedServe
<1> SUFFICES ASSUME initialized PROVE PublishedListExact /\ ListedServe
  BY DEF PublishedListExact, ListedServe
<1>1. Begun /\ Written = logical
  BY DEF Begun, Written, ListInv, ClaimsCounted
<1>2. logical \in {1, expected}
  BY DEF ListInv, ClaimsCounted
<1>3. TypeOK /\ logical \in Nat /\ logical <= MaxCpu /\ MaxCpu \in Nat
  BY <1>1, WrittenType DEF BootInv, ListInv
<1>4. ASSUME NEW i \in 1 .. logical - 1 PROVE i \in Slot /\ OwnerAt(i, cpu[i].apicid)
  BY <1>1, <1>3, <1>4 DEF ListInv, TableOwned, Slot
<1>5. ListedServe
  BY <1>4 DEF ListedServe, OwnerAt, EnteredPcs, ListInv, ClaimsCounted
<1>6. ASSUME NEW i \in Slot, NEW j \in Slot, i < j, j < logical
      PROVE  cpu[i].apicid # cpu[j].apicid
  <2>1. CASE i = 0
    <3>1. cpu[j].apicid \in AP
      BY <1>3, <1>4, <1>6 DEF OwnerAt, Slot
    <3> QED
      BY <1>1, <2>1, <3>1, BootAssumption DEF ListInv, TableRight
  <2>2. CASE i # 0
    BY <1>1, <1>6, <2>2 DEF ListInv, TableRight, Slot
  <2> QED
    BY <2>1, <2>2
<1>7. PublishedListExact
  BY <1>1, <1>2, <1>6 DEF PublishedListExact, ListInv, TableRight
<1> QED
  BY <1>5, <1>7

\* Nobody writes to a published list: a late AP is parked before it claims.
LEMMA ListStable ==
  ASSUME BootInv, ListInv, [Next]_vars, initialized, initialized'
  PROVE  UNCHANGED <<expected, logical, cpu>>
<1>1. ASSUME NEW p \in AP, ApStep(p) PROVE UNCHANGED <<expected, logical, cpu>>
  <2>1. ~ ClaimSlot(p) /\ ~ WriteEntry(p)
    BY DEF ListInv, ClaimsCounted, ClaimSlot, WriteEntry, Goto
  <2> QED
    BY <1>1, <2>1, ApStepAlone, ApStepElsewhere DEF BootInv
<1>2. ASSUME Caller PROVE UNCHANGED <<expected, logical, cpu>>
  BY <1>2 DEF Caller, SmpInitAgain, SmpInitWalks, SmpInitTooMany, SmpInit, smp_phantom_init, hostVars
<1>3. ASSUME BspStep PROVE UNCHANGED <<expected, logical, cpu>>
  BY <1>3 DEF BspStep, InitSipiCode, send_broadcast_init, send_broadcast_sipi, AllCheckedIn,
       hostVars
<1> QED
  BY <1>1, <1>2, <1>3 DEF Next, vars, hostVars

\* Both invariants hold of every behaviour.
LEMMA SmpBootInvariants ==
  ASSUME ReinitContract
  PROVE  Spec => [](BootInv /\ ListInv)
<1>1. Init => BootInv /\ ListInv
  BY InitBootInv, InitListInv
<1>2. BootInv /\ ListInv /\ [Next]_vars => BootInv' /\ ListInv'
  BY StepBootInv, StepListInv
<1> QED
  BY <1>1, <1>2, PTL DEF Spec

\* Whenever smp_init has returned, the processor list has as many entries as
\* the MADT promised, or only that of the BSP, no two of the same processor,
\* and none beyond them is marked present.
THEOREM SmpBootPublishedListExact ==
  ASSUME ReinitContract
  PROVE  Spec => []PublishedListExact
<1>1. BootInv /\ ListInv => PublishedListExact
  BY ListPublished
<1> QED
  BY <1>1, SmpBootInvariants, PTL

\* Every processor in a published list has checked in, has found or will find
\* its slot, and polls the control word of the slot the list gives it.
THEOREM SmpBootListedServe ==
  ASSUME ReinitContract
  PROVE  Spec => []ListedServe
<1>1. BootInv /\ ListInv => ListedServe
  BY ListPublished
<1> QED
  BY <1>1, SmpBootInvariants, PTL

\* A published list never changes, whatever processors arrive late.
THEOREM SmpBootCpuListStable ==
  ASSUME ReinitContract
  PROVE  Spec => CpuListStable
<1>1. BootInv /\ ListInv /\ [Next]_vars
        => [initialized /\ initialized' => UNCHANGED <<expected, logical, cpu>>]_vars
  BY ListStable
<1> QED
  BY <1>1, SmpBootInvariants, PTL DEF Spec, CpuListStable
=============================================================================
