------------------------------ MODULE SmpBoot ------------------------------
(***************************************************************************)
(* How the boot processor (BSP) wakes the application processors (APs):    *)
(* smp_init_with_memory of rc/smp/smprc.c, the SIPI trampoline ApStart of  *)
(* rc/smp/smpasm.S, and what every AP executes until it sits in the loop   *)
(* of mp_worker, where module SmpCall takes over.                          *)
(*                                                                         *)
(* The BSP writes a lock word (BLOCK) and a counter (ASLEEP) into a page   *)
(* below 1M, broadcasts INIT and two SIPIs, and spins until ASLEEP has     *)
(* reached the number of processors the MADT promised.  The APs queue for  *)
(* BLOCK, because they all start on the one stack of that page; the holder *)
(* claims a processor id, records its APIC id, moves to its own stack and  *)
(* only then counts itself and lets the next one in.                       *)
(*                                                                         *)
(* A processor is identified with its APIC id.                             *)
(***************************************************************************)
EXTENDS Integers, FiniteSets

CONSTANTS
  AP,             \* the processors that answer INIT/SIPI, the BSP excepted
  BSP,            \* the boot processor
  Madts,          \* the MADTs the firmware may have installed
  PhantomMadts,   \* those with which smp_phantom_init is called
  AcpiOutcomes,   \* can acpica_early_init and AcpiGetTable succeed, fail?
  ApicStates,     \* is the local APIC enabled when smp_init looks?
  GRUB_ERR_IO,    \* the nonzero error code of grub's err.h
  MaxCpu,         \* SMP_MAX_LOGICAL_CPU
  ZeroIds,        \* the processors that may have APIC id 0
  MaxBoots        \* bound: how often smp_init does its work

ASSUME BootAssumption ==
  /\ BSP \notin AP
  /\ IsFiniteSet(AP)
  /\ \A m \in Madts : IsFiniteSet(DOMAIN m)
  /\ PhantomMadts \subseteq Madts
  /\ AcpiOutcomes \subseteq BOOLEAN
  /\ ApicStates \subseteq BOOLEAN
  /\ GRUB_ERR_IO \in Nat \ {0}
  /\ MaxCpu \in Nat \ {0}
  /\ ZeroIds \subseteq AP \cup {BSP}
  /\ MaxBoots \in Nat

VARIABLES
  madt,         \* the installed MADT: a sequence of subtables
  initialized,  \* host->initialized = SMP_MAGIC
  expected,     \* host->expected_processor_count
  logical,      \* host->logical_processor_count
  cpu,          \* host->cpu[]: the APIC id and the present flag of each slot
  apIdt,        \* host->ap_exception_info.gpf_idtr_installed
  block,        \* the lock word in the low page
  asleep,       \* the check-in counter in the low page
  sipi,         \* a SIPI has been broadcast since the last INIT
  bspPc,        \* where the BSP is in smp_init
  apPc,         \* where each AP is
  slot,         \* the processor_id of each AP, or its scan index
  ret,          \* what smp_init returned last
  boots         \* how often smp_init did its work

hostVars == <<initialized, expected, logical, cpu, apIdt>>
lowPage == <<block, asleep>>
bspVars == <<madt, sipi, bspPc, ret, boots>>
apVars == <<apPc, slot>>
vars == <<hostVars, lowPage, bspVars, apVars>>

Id == AP \cup {BSP}
Slot == 0 .. MaxCpu - 1

BspPcs == {"idle", "walking", "reset", "code", "inited", "sipi1", "wait"}
ApPcs == {"foreign", "wfs", "spin", "idt", "check", "full", "claim", "apicid",
          "prepare", "count", "unlock", "find", "worker", "lost"}

\* The APs that run on the one stack of the low page (from LockObtained up to
\* switch_stack_and_call), and those that hold BLOCK.
OnLowStack == {"idt", "check", "full", "claim", "apicid", "prepare"}
Holding == OnLowStack \cup {"count", "unlock"}

-----------------------------------------------------------------------------
(* The processor count.                                                    *)

\* The loop steps by the Length each subtable states, and does not end at one
\* that states 0.
WalkEnds(m) == \A i \in DOMAIN m : m[i].length # 0

\* Enabled Local APIC and Local x2APIC entries; a processor that has both is
\* counted twice.
process_madt(m) ==
  Cardinality({i \in DOMAIN m : m[i].type \in {"lapic", "x2apic"} /\ m[i].enabled})

\* Without ACPI the MADT is not walked at all.
CountReturns(m, acpi) == acpi => WalkEnds(m)

\* Without ACPI the error code itself is returned as the count.
madt_processor_count(m, acpi) == IF acpi THEN process_madt(m) ELSE GRUB_ERR_IO

\* host->expected_processor_count as smp_init sets it.
ExpectedCount(m, acpi) ==
  IF madt_processor_count(m, acpi) = 0 THEN 1 ELSE madt_processor_count(m, acpi)

-----------------------------------------------------------------------------
(* The working memory is zero-filled when it is allocated, so every slot   *)
(* starts with APIC id 0, which some processor of the machine has.         *)
Init ==
  /\ madt \in Madts
  /\ initialized = FALSE
  /\ expected = 0
  /\ logical = 0
  /\ \E zero \in ZeroIds : cpu = [i \in Slot |-> [apicid |-> zero, present |-> FALSE]]
  /\ apIdt = FALSE
  /\ block = 0
  /\ asleep = 0
  /\ sipi = FALSE
  /\ bspPc = "idle"
  /\ apPc = [p \in AP |-> "foreign"]
  /\ slot = [p \in AP |-> 0]
  /\ ret = 0
  /\ boots = 0

-----------------------------------------------------------------------------
(* smp_init on the BSP.                                                    *)

\* Already done: the count is handed out again.
SmpInitAgain ==
  /\ bspPc = "idle"
  /\ initialized
  /\ ret' = logical
  /\ UNCHANGED <<hostVars, lowPage, apVars, madt, sipi, bspPc, boots>>

\* process_madt goes round in its loop, before smp_init has written anything.
SmpInitWalks(acpi) ==
  /\ bspPc = "idle"
  /\ ~ initialized
  /\ ~ CountReturns(madt, acpi)
  /\ bspPc' = "walking"
  /\ UNCHANGED <<hostVars, lowPage, apVars, madt, sipi, ret, boots>>

\* More processors than the tables of the host structure can hold.
SmpInitTooMany(acpi) ==
  /\ bspPc = "idle"
  /\ ~ initialized
  /\ CountReturns(madt, acpi)
  /\ ExpectedCount(madt, acpi) > MaxCpu
  /\ expected' = ExpectedCount(madt, acpi)
  /\ ret' = 0
  /\ UNCHANGED <<initialized, logical, cpu, apIdt, lowPage, apVars, madt, sipi, bspPc, boots>>

\* Fault: the present flags of an earlier boot survive.
SmpInitKeepsPresent(acpi, apic) ==
  /\ bspPc = "idle"
  /\ ~ initialized
  /\ boots < MaxBoots
  /\ CountReturns(madt, acpi)
  /\ ExpectedCount(madt, acpi) <= MaxCpu
  /\ boots' = boots + 1
  /\ expected' = ExpectedCount(madt, acpi)
  /\ logical' = 1
  /\ cpu' = [cpu EXCEPT ![0] = [apicid |-> BSP, present |-> TRUE]]
  /\ apIdt' = FALSE
  /\ IF apic /\ ExpectedCount(madt, acpi) # 1
     THEN bspPc' = "reset" /\ UNCHANGED <<initialized, ret>>
     ELSE initialized' = TRUE /\ ret' = 1 /\ UNCHANGED bspPc
  /\ UNCHANGED <<lowPage, apVars, madt, sipi>>

\* The host structure is set up again: only the present flags are cleared, the
\* APIC ids of an earlier boot stay in the table.  do_callback wakes nobody
\* when the APIC is disabled or the BSP is the only processor.
SmpInit(acpi, apic) ==
  /\ bspPc = "idle"
  /\ ~ initialized
  /\ boots < MaxBoots
  /\ CountReturns(madt, acpi)
  /\ ExpectedCount(madt, acpi) <= MaxCpu
  /\ boots' = boots + 1
  /\ expected' = ExpectedCount(madt, acpi)
  /\ logical' = 1
  /\ cpu' = [i \in Slot |-> IF i = 0 THEN [apicid |-> BSP, present |-> TRUE]
                                      ELSE [cpu[i] EXCEPT !.present = FALSE]]
  /\ apIdt' = FALSE
  /\ IF apic /\ ExpectedCount(madt, acpi) # 1
     THEN bspPc' = "reset" /\ UNCHANGED <<initialized, ret>>
     ELSE initialized' = TRUE /\ ret' = 1 /\ UNCHANGED bspPc
  /\ UNCHANGED <<lowPage, apVars, madt, sipi>>

\* Fault: the counter starts below zero, to make up for the BSP.
InitSipiCodeFromMinusOne ==
  /\ bspPc = "reset"
  /\ bspPc' = "code"
  /\ block' = 0
  /\ asleep' = -1
  /\ UNCHANGED <<hostVars, apVars, madt, sipi, ret, boots>>

\* The trampoline page: lock free, nobody checked in.
InitSipiCode ==
  /\ bspPc = "reset"
  /\ bspPc' = "code"
  /\ block' = 0
  /\ asleep' = 0
  /\ UNCHANGED <<hostVars, apVars, madt, sipi, ret, boots>>

\* INIT to all but self, and 10 ms for it to arrive: whatever an AP was doing
\* is gone, and it waits for a SIPI.
send_broadcast_init ==
  /\ bspPc = "code"
  /\ bspPc' = "inited"
  /\ sipi' = FALSE
  /\ apPc' = [p \in AP |-> "wfs"]
  /\ UNCHANGED <<hostVars, lowPage, madt, slot, ret, boots>>

\* The SIPI is sent twice: an AP that missed the first one takes the second.
send_broadcast_sipi ==
  /\ \/ bspPc = "inited" /\ bspPc' = "sipi1"
     \/ bspPc = "sipi1" /\ bspPc' = "wait"
  /\ sipi' = TRUE
  /\ UNCHANGED <<hostVars, lowPage, apVars, madt, ret, boots>>

\* Fault: the BSP counts itself among the check-ins.
AllCheckedInOffByOne ==
  /\ bspPc = "wait"
  /\ asleep = expected
  /\ bspPc' = "idle"
  /\ initialized' = TRUE
  /\ ret' = logical
  /\ UNCHANGED <<expected, logical, cpu, apIdt, lowPage, apVars, madt, sipi, boots>>

\* Fault: the BSP goes by the number of slots handed out.
AllClaimed ==
  /\ bspPc = "wait"
  /\ logical = expected
  /\ bspPc' = "idle"
  /\ initialized' = TRUE
  /\ ret' = logical
  /\ UNCHANGED <<expected, logical, cpu, apIdt, lowPage, apVars, madt, sipi, boots>>

\* The BSP has seen as many check-ins as the MADT promised.
AllCheckedIn ==
  /\ bspPc = "wait"
  /\ asleep = expected - 1
  /\ bspPc' = "idle"
  /\ initialized' = TRUE
  /\ ret' = logical
  /\ UNCHANGED <<expected, logical, cpu, apIdt, lowPage, apVars, madt, sipi, boots>>

\* Another module took the APs away with an INIT-SIPI-SIPI of its own and says
\* so, or somebody just asks for a fresh start.
smp_phantom_init(taken) ==
  /\ bspPc = "idle"
  /\ initialized
  /\ madt \in PhantomMadts
  /\ boots < MaxBoots
  /\ initialized' = FALSE
  /\ apPc' = IF taken THEN [p \in AP |-> "foreign"] ELSE apPc
  /\ sipi' = IF taken THEN FALSE ELSE sipi
  /\ UNCHANGED <<expected, logical, cpu, apIdt, lowPage, slot, madt, bspPc, ret, boots>>

-----------------------------------------------------------------------------
(* An AP on its way to mp_worker.                                          *)

Goto(p, from, to) ==
  /\ apPc[p] = from
  /\ apPc' = [apPc EXCEPT ![p] = to]

\* The hardware takes a SIPI only while it waits for one; pm32 brings the
\* processor to ApStart in protected mode.
TakeSipi(p) ==
  /\ sipi
  /\ Goto(p, "wfs", "spin")
  /\ UNCHANGED <<hostVars, lowPage, bspVars, slot>>

\* Fault: the lock word is tested but not exchanged.
TakeLockNoExchange(p) ==
  /\ block = 0
  /\ Goto(p, "spin", "idt")
  /\ UNCHANGED <<hostVars, lowPage, bspVars, slot>>

\* ApStart: the exchange that found BLOCK free.
TakeLock(p) ==
  /\ block = 0
  /\ Goto(p, "spin", "idt")
  /\ block' = 1
  /\ UNCHANGED <<hostVars, asleep, bspVars, slot>>

\* The first AP builds the table all of them load.
init_ap_exception_handling(p) ==
  /\ Goto(p, "idt", "check")
  /\ apIdt' = TRUE
  /\ UNCHANGED <<initialized, expected, logical, cpu, lowPage, bspVars, slot>>

\* Fault: nobody is parked.
FullCheckMissing(p) ==
  /\ Goto(p, "check", "claim")
  /\ UNCHANGED <<hostVars, lowPage, bspVars, slot>>

\* find_logical_processors: a processor the MADT did not list is parked, lock
\* and all; the others go on to claim a slot.
FullCheck(p) ==
  /\ Goto(p, "check", IF logical = expected THEN "full" ELSE "claim")
  /\ UNCHANGED <<hostVars, lowPage, bspVars, slot>>

ClaimSlot(p) ==
  /\ Goto(p, "claim", "apicid")
  /\ slot' = [slot EXCEPT ![p] = logical]
  /\ logical' = logical + 1
  /\ UNCHANGED <<initialized, expected, cpu, apIdt, lowPage, bspVars>>

WriteEntry(p) ==
  /\ Goto(p, "apicid", "prepare")
  /\ cpu' = [cpu EXCEPT ![slot[p]] = [apicid |-> p, present |-> TRUE]]
  /\ slot' = [slot EXCEPT ![p] = 0]
  /\ UNCHANGED <<initialized, expected, logical, apIdt, lowPage, bspVars>>

\* One iteration of find_processor_id_for_this_apicid: the table is scanned
\* from slot 0 on, its length read again each time.
ScanStep(p, from, found) ==
  \/ /\ slot[p] < logical
     /\ cpu[slot[p]].apicid = p
     /\ Goto(p, from, found)
     /\ UNCHANGED slot
  \/ /\ slot[p] < logical
     /\ cpu[slot[p]].apicid # p
     /\ apPc[p] = from
     /\ slot' = [slot EXCEPT ![p] = @ + 1]
     /\ UNCHANGED apPc
  \/ /\ slot[p] >= logical
     /\ Goto(p, from, "lost")
     /\ UNCHANGED slot

\* prepare_mp_worker looks its slot up to leave the shared stack for the one
\* of that slot.
prepare_mp_worker(p) ==
  /\ ScanStep(p, "prepare", "count")
  /\ UNCHANGED <<hostVars, lowPage, bspVars>>

\* drop_ap_lock: count, then let the next AP in.
CountAsleep(p) ==
  /\ Goto(p, "count", "unlock")
  /\ asleep' = asleep + 1
  /\ UNCHANGED <<hostVars, block, bspVars, slot>>

DropLock(p) ==
  /\ Goto(p, "unlock", "find")
  /\ block' = 0
  /\ slot' = [slot EXCEPT ![p] = 0]
  /\ UNCHANGED <<hostVars, asleep, bspVars>>

\* Fault: the scan stops one entry short.
mp_workerStopsShort(p) ==
  /\ IF slot[p] + 1 < logical THEN ScanStep(p, "find", "worker")
                              ELSE Goto(p, "find", "lost") /\ UNCHANGED slot
  /\ UNCHANGED <<hostVars, lowPage, bspVars>>

\* mp_worker looks its slot up again, with no lock held: the next AP may be
\* writing the table.
mp_worker(p) ==
  /\ ScanStep(p, "find", "worker")
  /\ UNCHANGED <<hostVars, lowPage, bspVars>>

ApStep(p) ==
  \/ TakeSipi(p)
  \/ TakeLock(p)
  \/ init_ap_exception_handling(p)
  \/ FullCheck(p)
  \/ ClaimSlot(p)
  \/ WriteEntry(p)
  \/ prepare_mp_worker(p)
  \/ CountAsleep(p)
  \/ DropLock(p)
  \/ mp_worker(p)

\* What the BSP does inside smp_init, once it was called.
BspStep ==
  \/ InitSipiCode
  \/ send_broadcast_init
  \/ send_broadcast_sipi
  \/ AllCheckedIn

\* What GRUB's callers ask of the library.
Caller ==
  \/ SmpInitAgain
  \/ \E acpi \in AcpiOutcomes : SmpInitWalks(acpi)
  \/ \E acpi \in AcpiOutcomes : SmpInitTooMany(acpi)
  \/ \E acpi \in AcpiOutcomes, apic \in ApicStates : SmpInit(acpi, apic)
  \/ \E taken \in BOOLEAN : smp_phantom_init(taken)

Next ==
  \/ Caller
  \/ BspStep
  \/ \E p \in AP : ApStep(p)

\* Every processor keeps executing; nobody has to call smp_init.
Fairness ==
  /\ WF_vars(BspStep)
  /\ \A p \in AP : WF_vars(ApStep(p))

Spec == Init /\ [][Next]_vars /\ Fairness

-----------------------------------------------------------------------------
(* Properties.                                                             *)

\* The type invariant: no counter of the boot leaves its range.
TypeOK ==
  /\ madt \in Madts
  /\ initialized \in BOOLEAN
  /\ expected \in Nat
  /\ logical \in Nat
  /\ cpu \in [Slot -> [apicid : Id, present : BOOLEAN]]
  /\ apIdt \in BOOLEAN
  /\ block \in {0, 1}
  /\ asleep \in Nat
  /\ sipi \in BOOLEAN
  /\ bspPc \in BspPcs
  /\ apPc \in [AP -> ApPcs]
  /\ slot \in [AP -> Nat]
  /\ ret \in Nat
  /\ boots \in Nat

\* Every processor that runs on the stack of the low page runs there alone:
\* two of them would return into each other's frames.
LowStackExclusive ==
  \A p, q \in AP : apPc[p] \in OnLowStack /\ apPc[q] \in OnLowStack => p = q

\* When smp_init has returned, the table it publishes is complete and without
\* duplicates, whatever an earlier boot left in it, and nothing beyond the
\* count is marked present: bits.cpus and smp_function rely on it.
PublishedListExact ==
  initialized =>
    /\ logical \in {1, expected}
    /\ \A i \in Slot : cpu[i].present <=> i < logical
    /\ \A i, j \in Slot : i < j /\ j < logical => cpu[i].apicid # cpu[j].apicid

\* A processor the published table lists has checked in, is never stuck for
\* not finding itself, and polls the control word of the slot the BSP will
\* use for it: the BSP and the AP look the slot up independently, the AP
\* while others were still writing the table.
ListedServe ==
  initialized =>
    \A i \in 1 .. logical - 1 :
      LET p == cpu[i].apicid
      IN  /\ p \in AP
          /\ apPc[p] \in {"unlock", "find", "worker"}
          /\ apPc[p] = "worker" => slot[p] = i

\* A processor the MADT does not list may come as late as it likes: it never
\* changes the table the callers already work with.
CpuListStable ==
  [][initialized /\ initialized' => UNCHANGED <<expected, logical, cpu>>]_vars

\* With at most as many processors listed as answer, in a MADT whose walk ends,
\* smp_init returns.
BootCompletes ==
  bspPc # "idle" /\ WalkEnds(madt) /\ process_madt(madt) <= Cardinality(AP) + 1
    ~> bspPc = "idle"

\* Every listed processor gets to its work loop, unless it is restarted.
ListedReachWorker ==
  \A p \in AP :
    (initialized /\ \E i \in 1 .. logical - 1 : cpu[i].apicid = p)
      ~> (apPc[p] = "worker" \/ ~ initialized)

\* rc/include/smprc.h:42: smp_init_with_memory "returns the number of CPUs, or
\* 0 on error", so it returns.
InitReturns == bspPc # "idle" ~> bspPc = "idle"

\* What the callers of smp_phantom_init have to see to: that no processor is
\* left running on the low page that the MADT does not list.
ReinitContract ==
  \A m \in PhantomMadts, acpi \in AcpiOutcomes :
    Cardinality(AP) < ExpectedCount(m, acpi)
=============================================================================
