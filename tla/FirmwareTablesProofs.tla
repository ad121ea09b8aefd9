------------------------ MODULE FirmwareTablesProofs ------------------------
(***************************************************************************)
(* What is proved of FirmwareTables: that a reader is in step with every   *)
(* table of the records and lengths that firmware writes, whatever their   *)
(* number, order and nesting, that the classes it lays over them take all  *)
(* their bytes, and that no field of an SMBIOS structure is lost without a *)
(* word, whatever the lengths; for any EINJ table, that an error is        *)
(* triggered only after the firmware has injected it with success; and,    *)
(* for any microcode, that the update due to a processor is loaded and     *)
(* that the report adds up.                                                *)
(***************************************************************************)
EXTENDS FirmwareTables, LayoutProofs, FiniteSetTheorems

-----------------------------------------------------------------------------
(* Error injection. *)

\* Between BEGIN_INJECTION_OPERATION and END_OPERATION.
Injecting == pc \notin {"idle", "BEGIN_INJECTION_OPERATION"}

\* The table can say when the firmware is done.
Protected == Has("EXECUTE_OPERATION") /\ Has("CHECK_BUSY_STATUS") /\ ~ einj.shifted

\* The firmware runs only while the busy bit is waited for, and what is read
\* afterwards is the status of this run.
EinjInv ==
  /\ EinjTypeOK
  /\ einj.shifted \in BOOLEAN
  /\ how \in DOMAIN NoTold
  /\ pc \in (Actions \ {"GET_ERROR_TYPE"}) \cup {"idle"}
  /\ Injecting /\ Has("BEGIN_INJECTION_OPERATION") => open
  /\ Protected =>
       /\ busy => pc = "CHECK_BUSY_STATUS"
       /\ pc = "CHECK_BUSY_STATUS" => busy \/ ran = result
       /\ pc = "GET_COMMAND_STATUS" => ran = result
       /\ pc = "GET_TRIGGER_ERROR_ACTION_TABLE" => ran = "SUCCESS"

LEMMA EinjStarts ==
  ASSUME EinjInit \/ EinjIdle
  PROVE  EinjInv
<1>1. einj.missing \subseteq Actions /\ einj.shifted \in BOOLEAN
  <2>1. CASE EinjInit
    <3>1. einj \in EinjTables
      BY <2>1 DEF EinjInit, EinjStart
    <3> QED
      BY <3>1, EinjAssumption DEF EinjTables
  <2>2. CASE EinjIdle
    <3>1. einj = [missing |-> Actions, shifted |-> FALSE, preserve |-> FALSE, triggers |-> FALSE]
      BY <2>2 DEF EinjIdle, EinjStart
    <3> QED
      BY <3>1
  <2> QED
    BY <2>1, <2>2
<1>2. calls \in 0 .. MaxInjections
  BY EinjAssumption DEF EinjInit, EinjIdle, EinjStart
<1>3. /\ pc = "idle" /\ asked = "none" /\ how = "SET_ERROR_TYPE" /\ told = NoTold
      /\ open = FALSE /\ busy = FALSE /\ result = "SUCCESS" /\ ran = "none"
  BY DEF EinjInit, EinjIdle, EinjStart
<1>4. EinjTypeOK
  <2>1. \A way \in DOMAIN told : told[way] \subseteq Works
    BY <1>3 DEF NoTold
  <2> QED
    BY <1>1, <1>2, <1>3, <2>1 DEF EinjTypeOK, Statuses
<1> QED
  BY <1>1, <1>3, <1>4 DEF EinjInv, NoTold, Injecting

LEMMA EinjSteps ==
  ASSUME EinjInv, EinjNext
  PROVE  EinjInv'
<1> USE DEF EinjInv, Injecting, Protected, Has, Goes, Request, Firmware
<1>1. CASE Inject
  <2>1. how' \in DOMAIN NoTold /\ asked' \in Works \cup Broken
    BY <1>1 DEF Inject, EinjTypeOK, NoTold
  <2>2. calls' \in 0 .. MaxInjections
    BY <1>1, EinjAssumption DEF Inject, EinjTypeOK
  <2>3. /\ UNCHANGED <<einj, told, open, busy, result, ran>>
        /\ pc = "idle" /\ pc' = "BEGIN_INJECTION_OPERATION"
    BY <1>1 DEF Inject
  <2>4. EinjTypeOK'
    BY <2>1, <2>2, <2>3 DEF EinjTypeOK, Actions
  <2> QED
    BY <2>1, <2>3, <2>4 DEF Actions
<1>2. CASE InjectRefused
  <2>1. calls' \in 0 .. MaxInjections
    BY <1>2, EinjAssumption DEF InjectRefused, EinjTypeOK
  <2>2. UNCHANGED <<einj, pc, asked, how, told, open, busy, result, ran>>
    BY <1>2 DEF InjectRefused
  <2>3. EinjTypeOK'
    BY <2>1, <2>2 DEF EinjTypeOK
  <2> QED
    BY <2>2, <2>3
<1>3. CASE Begin
  BY <1>3 DEF Begin, EinjTypeOK, NoTold, Actions
<1>4. CASE SetType \/ SetRaises
  <2>1. \A way \in DOMAIN told' : told'[way] \subseteq Works
    BY <1>4 DEF SetType, SetRaises, EinjTypeOK, WriteType, _write_register
  <2>2. DOMAIN told' = DOMAIN NoTold
    BY <1>4 DEF SetType, SetRaises, EinjTypeOK, WriteType
  <2>3. /\ UNCHANGED <<einj, asked, how, calls, open, busy, result, ran>> /\ Injecting
        /\ pc \in DOMAIN NoTold
        /\ pc' = "EXECUTE_OPERATION" \/ pc' = "idle"
    BY <1>4 DEF SetType, SetRaises, EinjTypeOK, NoTold
  <2>4. pc # "CHECK_BUSY_STATUS" /\ pc' \in (Actions \ {"GET_ERROR_TYPE"}) \cup {"idle"}
    BY <2>3 DEF NoTold, Actions
  <2>5. EinjTypeOK'
    BY <2>1, <2>2, <2>3, <2>4 DEF EinjTypeOK
  <2> QED
    BY <2>3, <2>4, <2>5
<1>5. CASE Execute
  BY <1>5 DEF Execute, EinjTypeOK, Actions
<1>6. CASE CheckBusy
  BY <1>6 DEF CheckBusy, CheckBusyStatus, _read_register_value, EinjTypeOK, Actions
<1>7. CASE GetStatus \/ GetStatusRaises
  <2>1. EinjTypeOK'
    BY <1>7 DEF GetStatus, GetStatusRaises, EinjTypeOK, Actions
  <2>2. /\ UNCHANGED <<einj, how, open, busy, result, ran>>
        /\ pc' \in (Actions \ {"GET_ERROR_TYPE"}) \cup {"idle"}
        /\ Injecting
    BY <1>7 DEF GetStatus, GetStatusRaises, Actions
  <2> QED
    BY <1>7, <2>1, <2>2 DEF GetStatus, GetStatusRaises
<1>8. CASE Trigger \/ TriggerRaises
  <2>1. EinjTypeOK'
    BY <1>8 DEF Trigger, TriggerRaises, EinjTypeOK, Actions
  <2>2. /\ UNCHANGED <<einj, how, open, busy, result, ran>>
        /\ pc' \in (Actions \ {"GET_ERROR_TYPE"}) \cup {"idle"}
        /\ Injecting
    BY <1>8 DEF Trigger, TriggerRaises, Actions
  <2> QED
    BY <1>8, <2>1, <2>2 DEF Trigger, TriggerRaises
<1>9. CASE End
  <2>1. EinjTypeOK'
    BY <1>9 DEF End, EinjTypeOK, Actions
  <2>2. UNCHANGED <<einj, how, busy, result, ran>> /\ pc = "END_OPERATION" /\ pc' = "idle"
    BY <1>9 DEF End
  <2> QED
    BY <2>1, <2>2
<1>10. CASE FirmwareCompletes
  BY <1>10 DEF FirmwareCompletes, EinjTypeOK
<1> QED
  BY <1>1, <1>2, <1>3, <1>4, <1>5, <1>6, <1>7, <1>8, <1>9, <1>10 DEF EinjNext, EinjStep

LEMMA EinjInvariant == Spec => []EinjInv
<1>1. Init => EinjInv
  BY EinjStarts DEF Init
<1>2. EinjInv /\ [Next]_vars => EinjInv'
  <2> SUFFICES ASSUME EinjInv, [Next]_vars PROVE EinjInv'
    OBVIOUS
  <2>1. CASE EinjNext
    BY <2>1, EinjSteps
  <2>2. CASE UNCHANGED einjVars
    BY <2>2 DEF einjVars, EinjInv, EinjTypeOK, Injecting, Protected, Has
  <2> QED
    BY <2>1, <2>2 DEF Next, Rests, vars
<1> QED
  BY <1>1, <1>2, PTL DEF Spec

\* No injection goes on to trigger the error before the firmware has finished
\* this very injection with success, and outside of an operation that has been
\* begun: what _read_register_value makes of the busy bit, and the status that
\* get_command_status_op finds in a register that keeps the last one, suffice
\* for that, if the busy bit is the lowest of its register.
THEOREM FirmwareTriggerOnlyAfterSuccess == Spec => TriggerOnlyAfterSuccess
<1>1. EinjInv => (Trigger /\ Has("EXECUTE_OPERATION") /\ Has("CHECK_BUSY_STATUS")
                    /\ ~ einj.shifted
                  => ran = "SUCCESS" /\ (Has("BEGIN_INJECTION_OPERATION") => open))
  BY DEF EinjInv, Protected, Injecting, Trigger
<1> QED
  BY <1>1, EinjInvariant, PTL DEF TriggerOnlyAfterSuccess

-----------------------------------------------------------------------------
(* Sums over the elements of a set. *)

\* Induction on subsets: one of those in T is without others of T inside.
LEMMA SmallestSet ==
  ASSUME NEW S, IsFiniteSet(S), NEW T, T \subseteq SUBSET S, T # {}
  PROVE  \E s \in T : \A x \in s : s \ {x} \notin T
<1> DEFINE sizes == {Cardinality(t) : t \in T}
<1>1. \A t \in SUBSET S : IsFiniteSet(t) /\ Cardinality(t) \in Nat
  BY FS_Subset, FS_CardinalityType
<1>2. sizes \subseteq Nat /\ sizes # {}
  BY <1>1
<1>3. PICK m \in sizes : \A k \in sizes : m <= k
  <2> HIDE DEF sizes
  <2> QED
    BY <1>2, LeastOf
<1>4. PICK s \in T : m = Cardinality(s)
  BY <1>3
<1>5. ASSUME NEW x \in s
      PROVE  s \ {x} \notin T
  <2>1. Cardinality(s \ {x}) = Cardinality(s) - 1
    BY <1>1, <1>4, FS_RemoveElement
  <2>2. s \ {x} \in T => m <= Cardinality(s \ {x})
    BY <1>3
  <2> QED
    BY <1>1, <1>4, <2>1, <2>2
<1> QED
  BY <1>4, <1>5

One(s) == CHOOSE x \in s : TRUE

\* f adds up c over the sets in L.
Adds(c, L, f) ==
  f = [s \in L |-> IF s = {} THEN 0 ELSE c[One(s)] + f[s \ {One(s)}]]

LEMMA AddsExist ==
  ASSUME NEW S, IsFiniteSet(S), NEW c
  PROVE  \E f : Adds(c, SUBSET S, f)
<1> DEFINE n == Cardinality(S)
           L(k) == {s \in SUBSET S : Cardinality(s) <= k}
           T == {k \in 0 .. n : ~ \E f : Adds(c, L(k), f)}
<1>1. n \in Nat /\ \A s \in SUBSET S : IsFiniteSet(s) /\ Cardinality(s) \in Nat
                                       /\ Cardinality(s) <= n
  BY FS_Subset, FS_CardinalityType
<1>2. ASSUME NEW k \in Nat, NEW s \in L(k), s # {}
      PROVE  s \ {One(s)} \in L(k - 1) /\ s \ {One(s)} \in L(k)
  <2>1. One(s) \in s /\ s \in SUBSET S /\ Cardinality(s) <= k
    BY <1>2 DEF One
  <2>2. Cardinality(s \ {One(s)}) = Cardinality(s) - 1 /\ s \ {One(s)} \in SUBSET S
    BY <1>1, <2>1, FS_RemoveElement
  <2> QED
    BY <1>1, <2>1, <2>2
<1>3. T = {}
  <2> SUFFICES ASSUME T # {} PROVE FALSE
    OBVIOUS
  <2>1. PICK k \in T : \A j \in T : k <= j
    <3>1. T \subseteq Nat
      OBVIOUS
    <3> HIDE DEF T
    <3> QED
      BY <3>1, LeastOf
  <2>2. k \in 0 .. n /\ ~ \E f : Adds(c, L(k), f)
    BY <2>1
  <2>3. CASE k = 0
    <3>1. \A s \in L(0) : s = {}
      <4> TAKE s \in L(0)
      <4>1. Cardinality(s) = 0 /\ IsFiniteSet(s)
        BY <1>1
      <4> QED
        BY <4>1, FS_EmptySet
    <3>2. Adds(c, L(0), [s \in L(0) |-> 0])
      <4> DEFINE f == [s \in L(0) |-> 0]
      <4>1. [s \in L(0) |-> IF s = {} THEN 0 ELSE c[One(s)] + f[s \ {One(s)}]] = f
        BY <3>1
      <4> QED
        BY <4>1 DEF Adds
    <3> QED
      BY <2>2, <2>3, <3>2
  <2>4. CASE k # 0
    <3>1. k - 1 \in 0 .. n /\ k - 1 \notin T /\ k \in Nat
      <4>1. k - 1 \in 0 .. n /\ k \in Nat /\ ~ (k <= k - 1)
        BY <1>1, <2>2, <2>4
      <4> HIDE DEF T
      <4> QED
        BY <2>1, <4>1
    <3>2. PICK g : Adds(c, L(k - 1), g)
      BY <3>1
    <3> DEFINE f == [s \in L(k) |-> IF s = {} THEN 0 ELSE c[One(s)] + g[s \ {One(s)}]]
    <3>3. ASSUME NEW s \in L(k), s # {}
          PROVE  f[s \ {One(s)}] = g[s \ {One(s)}]
      <4>1. s \ {One(s)} \in L(k - 1) /\ s \ {One(s)} \in L(k)
        BY <1>2, <3>1, <3>3
      <4> HIDE DEF L
      <4>2. \A t \in L(k - 1) : g[t] = IF t = {} THEN 0 ELSE c[One(t)] + g[t \ {One(t)}]
        BY <3>2 DEF Adds
      <4> QED
        BY <4>1, <4>2
    <3>4. f = [s \in L(k) |-> IF s = {} THEN 0 ELSE c[One(s)] + f[s \ {One(s)}]]
      <4>1. \A s \in L(k) : (IF s = {} THEN 0 ELSE c[One(s)] + g[s \ {One(s)}])
                              = (IF s = {} THEN 0 ELSE c[One(s)] + f[s \ {One(s)}])
        <5> HIDE DEF f, L
        <5> QED
          BY <3>3
      <4>2. [s \in L(k) |-> IF s = {} THEN 0 ELSE c[One(s)] + g[s \ {One(s)}]]
              = [s \in L(k) |-> IF s = {} THEN 0 ELSE c[One(s)] + f[s \ {One(s)}]]
        <5> HIDE DEF f, L
        <5> QED
          BY <4>1
      <4> QED
        BY <4>2
    <3>5. Adds(c, L(k), f)
      <4> HIDE DEF f, L
      <4> QED
        BY <3>4 DEF Adds
    <3> QED
      BY <2>2, <3>5
  <2> QED
    BY <2>3, <2>4
<1>4. \E f : Adds(c, L(n), f)
  <2>1. n \in 0 .. n
    BY <1>1
  <2> QED
    BY <1>3, <2>1
<1>5. L(n) = SUBSET S
  BY <1>1
<1> QED
  BY <1>4, <1>5

Numbers(c, S) == \A x \in S : c[x] \in Int

\* What f is then.
AddedUp(c, S, f) ==
  /\ f[{}] = 0
  /\ \A s \in SUBSET S : f[s] \in Int /\ (s # {} => f[s] = c[One(s)] + f[s \ {One(s)}])

\* Any two that add up numbers find the same sum, and it does not matter which element
\* is taken off first.
LEMMA AddsTyped ==
  ASSUME NEW S, IsFiniteSet(S), NEW c, Numbers(c, S),
         NEW f, Adds(c, SUBSET S, f)
  PROVE  AddedUp(c, S, f)
<1>1. f[{}] = 0 /\ \A s \in SUBSET S : s # {} => f[s] = c[One(s)] + f[s \ {One(s)}]
  <2>1. \A s \in SUBSET S : f[s] = IF s = {} THEN 0 ELSE c[One(s)] + f[s \ {One(s)}]
    BY DEF Adds
  <2>2. {} \in SUBSET S
    OBVIOUS
  <2> QED
    BY <2>1, <2>2, Zenon
<1> DEFINE T == {s \in SUBSET S : f[s] \notin Int}
<1>2. T = {}
  <2> SUFFICES ASSUME T # {} PROVE FALSE
    OBVIOUS
  <2>1. PICK s \in T : \A x \in s : s \ {x} \notin T
    <3>1. T \subseteq SUBSET S
      OBVIOUS
    <3> HIDE DEF T
    <3> QED
      BY <3>1, SmallestSet
  <2>2. s \in SUBSET S /\ f[s] \notin Int
    BY <2>1
  <2>3. s # {}
    <3>1. 0 \in Int /\ f[{}] = 0
      BY <1>1
    <3> QED
      BY <2>2, <3>1, Zenon
  <2>4. One(s) \in s
    BY <2>3 DEF One
  <2>5. f[s \ {One(s)}] \in Int /\ c[One(s)] \in Int
    BY <2>1, <2>2, <2>4 DEF Numbers
  <2>6. f[s] = c[One(s)] + f[s \ {One(s)}]
    BY <1>1, <2>2, <2>3
  <2>7. f[s] \in Int
    BY <2>5, <2>6
  <2> QED
    BY <2>2, <2>7
<1> QED
  BY <1>1, <1>2 DEF AddedUp

LEMMA AddsAgree ==
  ASSUME NEW S, IsFiniteSet(S), NEW c, Numbers(c, S),
         NEW R, R \subseteq S,
         NEW f, Adds(c, SUBSET S, f), NEW g, Adds(c, SUBSET R, g)
  PROVE  f[R] = g[R]
<1> DEFINE T == {s \in SUBSET R : f[s] # g[s]}
<1>1. IsFiniteSet(R)
  BY FS_Subset
<1>2. f[{}] = 0 /\ \A s \in SUBSET S : s # {} => f[s] = c[One(s)] + f[s \ {One(s)}]
  <2>1. AddedUp(c, S, f)
    BY AddsTyped
  <2> QED
    BY <2>1 DEF AddedUp
<1>4. g[{}] = 0 /\ \A s \in SUBSET R : s # {} => g[s] = c[One(s)] + g[s \ {One(s)}]
  <2>1. Numbers(c, R)
    BY DEF Numbers
  <2>2. AddedUp(c, R, g)
    BY <1>1, <2>1, AddsTyped
  <2> QED
    BY <2>2 DEF AddedUp
<1>3. T = {}
  <2> SUFFICES ASSUME T # {} PROVE FALSE
    OBVIOUS
  <2>1. PICK s \in T : \A x \in s : s \ {x} \notin T
    <3>1. T \subseteq SUBSET R
      OBVIOUS
    <3> HIDE DEF T
    <3> QED
      BY <1>1, <3>1, SmallestSet
  <2>2. s # {} /\ s \in SUBSET S
    BY <1>2, <1>4, <2>1
  <2>3. One(s) \in s
    BY <2>2 DEF One
  <2>4. f[s \ {One(s)}] = g[s \ {One(s)}]
    BY <2>1, <2>3
  <2> QED
    BY <1>2, <1>4, <2>1, <2>2, <2>4
<1> QED
  BY <1>3

LEMMA AddsAnyFirst ==
  ASSUME NEW S, IsFiniteSet(S), NEW c, Numbers(c, S),
         NEW f, Adds(c, SUBSET S, f), NEW x \in S
  PROVE  f[S] = c[x] + f[S \ {x}]
<1> DEFINE T == {s \in SUBSET S : \E y \in s : f[s] # c[y] + f[s \ {y}]}
<1>1. \A s \in SUBSET S :
        f[s] \in Int /\ (s # {} => f[s] = c[One(s)] + f[s \ {One(s)}])
  <2>1. AddedUp(c, S, f)
    BY AddsTyped
  <2> QED
    BY <2>1 DEF AddedUp
<1>2. T = {}
  <2> SUFFICES ASSUME T # {} PROVE FALSE
    OBVIOUS
  <2>1. PICK s \in T : \A y \in s : s \ {y} \notin T
    <3>1. T \subseteq SUBSET S
      OBVIOUS
    <3> HIDE DEF T
    <3> QED
      BY <3>1, SmallestSet
  <2>2. PICK y \in s : f[s] # c[y] + f[s \ {y}]
    BY <2>1
  <2> DEFINE z == One(s)
  <2>3. z \in s /\ s \in SUBSET S /\ f[s] = c[z] + f[s \ {z}]
    BY <1>1, <2>1, <2>2 DEF One
  <2> HIDE DEF z
  <2>4. z # y
    BY <2>2, <2>3
  <2>5. f[s \ {z}] = c[y] + f[(s \ {z}) \ {y}]
    BY <2>1, <2>2, <2>3, <2>4
  <2>6. f[s \ {y}] = c[z] + f[(s \ {y}) \ {z}]
    BY <2>1, <2>2, <2>3, <2>4
  <2>7. (s \ {y}) \ {z} = (s \ {z}) \ {y}
    OBVIOUS
  <2>8. c[y] \in Int /\ c[z] \in Int /\ f[(s \ {y}) \ {z}] \in Int
    BY <1>1, <2>2, <2>3 DEF Numbers
  <2>9. f[s] = c[z] + (c[y] + f[(s \ {y}) \ {z}])
    BY <2>3, <2>5, <2>7
  <2>10. c[y] + (c[z] + f[(s \ {y}) \ {z}]) = c[z] + (c[y] + f[(s \ {y}) \ {z}])
    BY <2>8
  <2> QED
    BY <2>2, <2>6, <2>9, <2>10
<1> QED
  BY <1>2

\* The sum of c over S.
SumOver(c, S) == (CHOOSE f : Adds(c, SUBSET S, f))[S]

\* How it goes on from the sum over a smaller set.
LEMMA SumOverSteps ==
  ASSUME NEW S, IsFiniteSet(S), NEW c, Numbers(c, S)
  PROVE  /\ SumOver(c, {}) = 0
         /\ SumOver(c, S) \in Int
         /\ \A x \in S : /\ SumOver(c, S) = c[x] + SumOver(c, S \ {x})
                         /\ SumOver(c, S \ {x}) \in Int
<1> DEFINE f(R) == CHOOSE g : Adds(c, SUBSET R, g)
<1>1. ASSUME NEW R, R \subseteq S
      PROVE  Adds(c, SUBSET R, f(R)) /\ IsFiniteSet(R) /\ Numbers(c, R)
  <2>1. IsFiniteSet(R) /\ Numbers(c, R)
    BY <1>1, FS_Subset DEF Numbers
  <2>2. \E g : Adds(c, SUBSET R, g)
    BY <2>1, AddsExist
  <2> QED
    BY <2>1, <2>2
<1>2. \A R : SumOver(c, R) = f(R)[R]
  BY DEF SumOver
<1> HIDE DEF f
<1>3. SumOver(c, {}) = 0
  <2>1. AddedUp(c, {}, f({}))
    BY <1>1, AddsTyped
  <2> QED
    BY <1>2, <2>1 DEF AddedUp
<1>4. ASSUME NEW R, R \subseteq S
      PROVE  SumOver(c, R) \in Int
  <2>1. AddedUp(c, R, f(R))
    BY <1>1, <1>4, AddsTyped
  <2> QED
    BY <1>2, <2>1 DEF AddedUp
<1>5. ASSUME NEW x \in S
      PROVE  SumOver(c, S) = c[x] + SumOver(c, S \ {x})
  <2> DEFINE whole == f(S)
             rest == f(S \ {x})
  <2>1. Adds(c, SUBSET S, whole) /\ Adds(c, SUBSET (S \ {x}), rest)
    BY <1>1
  <2> HIDE DEF whole, rest
  <2>2. whole[S] = c[x] + whole[S \ {x}]
    BY <2>1, AddsAnyFirst
  <2>3. whole[S \ {x}] = rest[S \ {x}]
    <3>1. S \ {x} \subseteq S
      OBVIOUS
    <3> QED
      BY <2>1, <3>1, AddsAgree
  <2> USE DEF whole, rest
  <2> QED
    BY <1>2, <2>2, <2>3
<1> QED
  BY <1>3, <1>4, <1>5

\* It depends on the numbers in the set alone.
LEMMA SumOverAgree ==
  ASSUME NEW S, IsFiniteSet(S), NEW c, Numbers(c, S), NEW d, \A x \in S : d[x] = c[x]
  PROVE  SumOver(d, S) = SumOver(c, S)
<1> DEFINE T == {R \in SUBSET S : SumOver(d, R) # SumOver(c, R)}
<1>1. \A R \in SUBSET S : IsFiniteSet(R) /\ Numbers(c, R) /\ Numbers(d, R)
  BY FS_Subset DEF Numbers
<1>2. T = {}
  <2> SUFFICES ASSUME T # {} PROVE FALSE
    OBVIOUS
  <2>1. PICK R \in T : \A x \in R : R \ {x} \notin T
    <3>1. T \subseteq SUBSET S
      OBVIOUS
    <3> HIDE DEF T
    <3> QED
      BY <3>1, SmallestSet
  <2>2. R \in SUBSET S /\ SumOver(d, R) # SumOver(c, R)
    BY <2>1
  <2>3. R # {}
    BY <1>1, <2>2, SumOverSteps
  <2>4. PICK x \in R : TRUE
    BY <2>3
  <2>5. SumOver(d, R \ {x}) = SumOver(c, R \ {x})
    BY <2>1, <2>2, <2>4
  <2>6. SumOver(c, R) = c[x] + SumOver(c, R \ {x})
    BY <1>1, <2>2, <2>4, SumOverSteps
  <2>7. SumOver(d, R) = d[x] + SumOver(d, R \ {x})
    BY <1>1, <2>2, <2>4, SumOverSteps
  <2> QED
    BY <2>2, <2>4, <2>5, <2>6, <2>7
<1> QED
  BY <1>2

-----------------------------------------------------------------------------
(* Microcode: the search. *)

\* A row of the report.
Rows == [type : McuTypes, before : Revisions, update : Revisions, valid : BOOLEAN,
         after : Revisions, count : Nat]

\* The processors whose rows are in the report.
Reported == IF mcuPc \in {"search", "decide", "report"} THEN cpu - 1 ELSE cpu

McuTyped ==
  /\ McuTypeOK
  /\ info \in [valid : BOOLEAN, revision : Revisions]
  /\ buffer \in Seq(Updates) /\ unique \in Seq(Rows)
  /\ Len(unique) <= Reported /\ replaced <= Reported /\ Reported \in Nat

\* The first n - 1 updates are whole, and for other processors.
Missed(n) == \A p \in 1 .. n - 1 : p \notin UpdatesFor(typeOf[Core]) /\ p \notin Stops

\* How far the search for the processor in turn has come.
SearchedSoFar ==
  /\ mcuPc \in {"search", "decide"} =>
       loaded = 0 /\ current \in 1 .. Len(buffer) + 1 /\ Missed(current)
  /\ mcuPc = "search" => ~ info.valid
  /\ mcuPc = "decide" =>
       IF info.valid
       THEN /\ current \in UpdatesFor(typeOf[Core]) /\ current \notin Stops
            /\ info.revision = buffer[current].revision
       ELSE current = Len(buffer) + 1 \/ current \in Stops \cup MayStop

McuInv == McuTyped /\ SearchedSoFar /\ LoadedRight

\* The comparison in the code is the one its comment asks for.
LEMMA NewerByTheGuide ==
  ASSUME NEW z \in Revisions, NEW x \in Revisions
  PROVE  Newer(z, x) <=> ByTheGuide(z, x)
<1> DEFINE all == 2^RevisionBits
           half == 2^(RevisionBits - 1)
<1>1. all \in Int /\ half \in Int
  BY McuAssumption
<1>2. z \in 0 .. all - 1 /\ x \in 0 .. all - 1
  BY DEF Revisions
<1>3. Signed(z) = IF z >= half THEN z - all ELSE z
  BY DEF Signed
<1>4. Signed(x) = IF x >= half THEN x - all ELSE x
  BY DEF Signed
<1>5. ByTheGuide(z, x) <=> z # 0 /\ (z >= half \/ x >= half \/ z > x)
  BY DEF ByTheGuide
<1>6. Newer(z, x) <=> Signed(z) < 0 \/ (Signed(z) > 0 /\ Signed(z) > Signed(x))
  BY DEF Newer
<1>8. half > 0
  BY McuAssumption
<1> HIDE DEF all, half
<1> QED
  BY <1>1, <1>2, <1>3, <1>4, <1>5, <1>6, <1>8

\* The least of the updates for a processor is the one the search has come to.
LEMMA LeastIs ==
  ASSUME NEW S, S \subseteq Int, NEW x \in S, \A y \in S : x <= y
  PROVE  Min(S) = x
<1>1. Min(S) \in S /\ \A y \in S : Min(S) <= y
  <2>1. \E m \in S : \A y \in S : m <= y
    OBVIOUS
  <2> QED
    BY <2>1 DEF Min
<1>2. Min(S) <= x /\ x <= Min(S) /\ x \in Int /\ Min(S) \in Int
  BY <1>1
<1> QED
  BY <1>2

LEMMA McuStarts ==
  ASSUME NEW start, NEW actions, actions \subseteq {"load", "status"},
         NEW revisions, revisions \subseteq Revisions,
         NEW garbage, garbage \subseteq Revisions, start \in {"parse", "idle"},
         McuStart(start, actions, revisions, garbage)
  PROVE  McuInv
<1> USE DEF McuStart
<1>1. buffer = <<>> /\ unique = <<>> /\ Len(<<>>) = 0 /\ <<>> \in Seq(Updates)
      /\ <<>> \in Seq(Rows)
  OBVIOUS
<1>2. info \in [valid : BOOLEAN, revision : Revisions]
  OBVIOUS
<1>3. 0 \in Revisions
  BY McuAssumption DEF Revisions
<1>4. MaxUpdates \in Nat /\ ncpus \in Nat
  BY McuAssumption, LenProperties DEF ncpus
<1>5. Reported = 0
  BY DEF Reported
<1>6. running \in [Cores -> Revisions]
  OBVIOUS
<1>7. cpu \in 0 .. ncpus /\ current \in 1 .. MaxUpdates + 1 /\ loaded \in 0 .. Len(buffer)
      /\ Len(buffer) <= MaxUpdates /\ Len(unique) <= ncpus /\ replaced \in 0 .. ncpus
  BY <1>1, <1>4
<1>8. McuTypeOK
  BY <1>2, <1>3, <1>6, <1>7 DEF McuTypeOK
<1> QED
  BY <1>1, <1>2, <1>5, <1>8 DEF McuInv, McuTyped, SearchedSoFar, LoadedRight

LEMMA McuBegins ==
  ASSUME McuInit \/ McuIdle
  PROVE  McuInv
<1>1. 0 \in Revisions /\ Garbage \subseteq Revisions
  BY McuAssumption DEF Revisions
<1>2. CASE McuInit
  BY <1>1, <1>2, McuStarts DEF McuInit
<1>3. CASE McuIdle
  BY <1>1, <1>3, McuStarts DEF McuIdle
<1> QED
  BY <1>2, <1>3

LEMMA McuContext ==
  ASSUME McuInv, mcuPc \in {"search", "decide", "report"}
  PROVE  /\ cpu \in 1 .. ncpus /\ Core \in Cores /\ typeOf[Core] \in McuTypes
         /\ Len(buffer) \in Nat /\ DOMAIN buffer = 1 .. Len(buffer)
         /\ \A p \in DOMAIN buffer : buffer[p] \in Updates
         /\ UpdatesFor(typeOf[Core]) \subseteq 1 .. Len(buffer)
         /\ Stops \subseteq 1 .. Len(buffer) /\ MayStop \subseteq 1 .. Len(buffer)
<1>1. ncpus \in Nat /\ DOMAIN CoreOf = 1 .. ncpus
  BY McuAssumption, LenProperties DEF ncpus
<1>2. cpu \in 1 .. ncpus
  BY <1>1 DEF McuInv, McuTyped, McuTypeOK, Reported
<1>3. Core \in Cores
  BY <1>1, <1>2 DEF Core, Cores
<1>4. Len(buffer) \in Nat /\ DOMAIN buffer = 1 .. Len(buffer)
      /\ \A p \in DOMAIN buffer : buffer[p] \in Updates
  BY LenProperties, ElementOfSeq DEF McuInv, McuTyped
<1>5. typeOf[Core] \in McuTypes
  BY <1>3 DEF McuInv, McuTyped, McuTypeOK
<1> QED
  BY <1>2, <1>3, <1>4, <1>5 DEF UpdatesFor, Stops, MayStop

LEMMA McuParses ==
  ASSUME McuInv, ParseFile \/ ParseEnds
  PROVE  McuInv'
<1>1. CASE ParseFile
  <2>1. PICK updates \in McuFiles :
          Len(buffer) + Len(updates) <= MaxUpdates /\ buffer' = buffer \o updates
    BY <1>1 DEF ParseFile
  <2>2. updates \in Seq(Updates) /\ buffer \in Seq(Updates)
    BY McuAssumption DEF McuInv, McuTyped
  <2>3. buffer' \in Seq(Updates) /\ Len(buffer') = Len(buffer) + Len(updates)
        /\ Len(buffer) \in Nat /\ Len(updates) \in Nat
    BY <2>1, <2>2, ConcatProperties, LenProperties
  <2>4. /\ UNCHANGED <<typeOf, running, action, mcuPc, cpu, current, before, info, loaded,
                       unique, replaced>>
        /\ mcuPc = "parse"
    BY <1>1 DEF ParseFile, Machine, Loop
  <2>5. loaded' \in 0 .. Len(buffer') /\ Len(buffer') <= MaxUpdates
    BY <2>1, <2>3, <2>4 DEF McuInv, McuTyped, McuTypeOK
  <2>6. McuTyped'
    BY <2>3, <2>4, <2>5 DEF McuInv, McuTyped, McuTypeOK, Reported
  <2> QED
    BY <2>4, <2>6 DEF McuInv, SearchedSoFar, LoadedRight
<1>2. CASE ParseEnds
  <2>1. /\ UNCHANGED <<typeOf, running, action, buffer, cpu, current, before, info, loaded,
                       unique, replaced>>
        /\ mcuPc = "parse" /\ mcuPc' \in {"done", "call"}
    BY <1>2 DEF ParseEnds, Machine, Loop
  <2>2. McuTyped'
    BY <2>1 DEF McuInv, McuTyped, McuTypeOK, Reported
  <2> QED
    BY <2>1, <2>2 DEF McuInv, SearchedSoFar, LoadedRight
<1> QED
  BY <1>1, <1>2

LEMMA McuCalls ==
  ASSUME McuInv, Call
  PROVE  McuInv'
<1>1. /\ UNCHANGED <<typeOf, running, action, buffer, unique, replaced>>
      /\ mcuPc = "call" /\ mcuPc' = "search" /\ cpu < ncpus /\ cpu' = cpu + 1
      /\ before' = running[CoreOf[cpu + 1]] /\ info' = [info EXCEPT !.valid = FALSE]
      /\ current' = 1 /\ loaded' = 0
  BY DEF Call, Machine
<1>2. ncpus \in Nat /\ DOMAIN CoreOf = 1 .. ncpus /\ MaxUpdates \in Nat
  BY McuAssumption, LenProperties DEF ncpus
<1>3. cpu \in 0 .. ncpus /\ cpu' \in 1 .. ncpus /\ cpu + 1 \in DOMAIN CoreOf
  BY <1>1, <1>2 DEF McuInv, McuTyped, McuTypeOK
<1>4. before' \in Revisions
  BY <1>1, <1>3 DEF McuInv, McuTyped, McuTypeOK, Cores
<1>5. info' \in [valid : BOOLEAN, revision : Revisions] /\ ~ info'.valid
      /\ info'.revision \in Revisions
  BY <1>1 DEF McuInv, McuTyped
<1>6. Reported' = Reported
  BY <1>1, <1>3 DEF Reported
<1>7. Len(buffer) \in Nat
  BY LenProperties DEF McuInv, McuTyped
<1>8. current' \in 1 .. MaxUpdates + 1 /\ loaded' \in 0 .. Len(buffer)
      /\ current' \in 1 .. Len(buffer) + 1
  BY <1>1, <1>2, <1>7
<1>9. McuTyped'
  <2>1. cpu' \in 0 .. ncpus
    BY <1>3
  <2> QED
    BY <1>1, <1>4, <1>5, <1>6, <1>8, <2>1 DEF McuInv, McuTyped, McuTypeOK
<1>10. Missed(current)'
  BY <1>1 DEF Missed
<1> QED
  BY <1>1, <1>5, <1>8, <1>9, <1>10 DEF McuInv, SearchedSoFar, LoadedRight

\* A step of the search, by what it makes of the update at hand.
LEMMA SearchSteps ==
  ASSUME McuInv, Searching, ~ SizeWrong(Update), NEW found \in BOOLEAN,
         found <=> current \in UpdatesFor(typeOf[Core]),
         SearchOn(found),
         UNCHANGED <<Machine, buffer, cpu, before, loaded, unique, replaced>>
  PROVE  McuInv'
<1>1. UNCHANGED <<typeOf, running, action, buffer, cpu, before, loaded, unique, replaced>>
  BY DEF Machine
<1>2. mcuPc = "search" /\ current \in 1 .. Len(buffer) /\ loaded = 0 /\ Missed(current)
      /\ Len(buffer) \in Nat /\ Len(buffer) <= MaxUpdates /\ MaxUpdates \in Nat
      /\ ~ info.valid
  BY McuContext, McuAssumption DEF Searching, McuInv, McuTyped, McuTypeOK, SearchedSoFar
<1>3. buffer[current] \in Updates /\ current \notin Stops /\ DOMAIN buffer = 1 .. Len(buffer)
  <2>1. buffer[current] \in Updates /\ DOMAIN buffer = 1 .. Len(buffer)
    BY <1>2, McuContext
  <2>2. ~ buffer[current].cut /\ buffer[current].total # "short"
    BY DEF SizeWrong, Update
  <2> QED
    BY <2>1, <2>2 DEF Stops
<1>4. CASE found
  <2>1. info' = [valid |-> TRUE, revision |-> buffer[current].revision]
        /\ mcuPc' = "decide" /\ UNCHANGED current
    BY <1>4 DEF SearchOn, Found, Update
  <2>2. info' \in [valid : BOOLEAN, revision : Revisions] /\ info'.valid
        /\ info'.revision = buffer[current].revision
        /\ info'.revision \in Revisions
    BY <1>3, <2>1 DEF Updates
  <2>3. McuTyped'
    BY <1>1, <1>2, <2>1, <2>2 DEF McuInv, McuTyped, McuTypeOK, Reported
  <2>4. Missed(current)' /\ current \in 1 .. Len(buffer) + 1
    BY <1>1, <1>2, <2>1 DEF Missed, UpdatesFor, Stops, Core
  <2>5. (current \in UpdatesFor(typeOf[Core]))' /\ (current \notin Stops)'
    BY <1>1, <1>3, <1>4, <2>1 DEF UpdatesFor, Stops, Core
  <2> QED
    BY <1>1, <1>2, <2>1, <2>2, <2>3, <2>4, <2>5 DEF McuInv, SearchedSoFar, LoadedRight
<1>5. CASE ~ found
  <2>1. current' = current + 1 /\ UNCHANGED <<mcuPc, info>>
    BY <1>5 DEF SearchOn
  <2>2. current' \in 1 .. MaxUpdates + 1 /\ current' \in 1 .. Len(buffer) + 1
    BY <1>2, <2>1
  <2>3. McuTyped'
    BY <1>1, <2>1, <2>2 DEF McuInv, McuTyped, McuTypeOK, Reported
  <2>4. \A p \in 1 .. current' - 1 : p \in 1 .. current - 1 \/ p = current
    BY <1>2, <2>1
  <2>5. Missed(current')
    BY <1>2, <1>3, <1>5, <2>4 DEF Missed
  <2>6. Missed(current)'
    BY <1>1, <2>5 DEF Missed, UpdatesFor, Stops, Core
  <2> QED
    BY <1>1, <1>2, <2>1, <2>2, <2>3, <2>6 DEF McuInv, SearchedSoFar, LoadedRight
<1> QED
  BY <1>4, <1>5

LEMMA McuSearches ==
  ASSUME McuInv, Plain \/ Extended \/ SearchFails
  PROVE  McuInv'
<1>1. CASE Plain
  <2>1. Searching /\ Update.total = "exact" /\ ~ SizeWrong(Update)
    BY <1>1 DEF Plain
  <2>2. current \in DOMAIN buffer
    BY <2>1, McuContext DEF Searching, McuInv, SearchedSoFar
  <2>3. Matches(Update.fits) <=> current \in UpdatesFor(typeOf[Core])
    BY <2>1, <2>2 DEF Matches, UpdatesFor, Update
  <2>4. Matches(Update.fits) \in BOOLEAN
    BY DEF Matches
  <2>5. /\ SearchOn(Matches(Update.fits))
        /\ UNCHANGED <<Machine, buffer, cpu, before, loaded, unique, replaced>>
    BY <1>1, <2>1 DEF Plain
  <2> QED
    BY <2>1, <2>3, <2>4, <2>5, SearchSteps, Zenon
<1>2. CASE Extended
  <2>1. Searching /\ Update.total = "extended" /\ ~ SizeWrong(Update)
    BY <1>2 DEF Extended
  <2>2. current \in DOMAIN buffer
    BY <2>1, McuContext DEF Searching, McuInv, SearchedSoFar
  <2>3. Matches(Update.fits \cup Update.ext) <=> current \in UpdatesFor(typeOf[Core])
    BY <2>1, <2>2 DEF Matches, UpdatesFor, Update
  <2>4. Matches(Update.fits \cup Update.ext) \in BOOLEAN
    BY DEF Matches
  <2>5. /\ SearchOn(Matches(Update.fits \cup Update.ext))
        /\ UNCHANGED <<Machine, buffer, cpu, before, loaded, unique, replaced>>
    BY <1>2, <2>1 DEF Extended
  <2> QED
    BY <2>1, <2>3, <2>4, <2>5, SearchSteps, Zenon
<1>3. CASE SearchFails
  <2>1. /\ UNCHANGED <<typeOf, running, action, buffer, cpu, current, before, info, loaded,
                       unique, replaced>>
        /\ mcuPc = "search" /\ mcuPc' = "decide"
        /\ \/ current > Len(buffer)
           \/ Searching /\ (SizeWrong(Update) \/ Update.total = "extended")
    BY <1>3 DEF SearchFails, Machine, Loop
  <2>2. McuTyped'
    BY <2>1 DEF McuInv, McuTyped, McuTypeOK, Reported
  <2>3. current \in 1 .. Len(buffer) + 1 /\ Missed(current) /\ loaded = 0 /\ ~ info.valid
        /\ DOMAIN buffer = 1 .. Len(buffer) /\ Len(buffer) \in Nat
    BY <2>1, McuContext DEF McuInv, SearchedSoFar
  <2>4. current = Len(buffer) + 1 \/ current \in Stops \cup MayStop
    BY <2>1, <2>3 DEF Searching, SizeWrong, Update, Stops, MayStop
  <2>5. Missed(current)' /\ (current \in Stops \cup MayStop)' = (current \in Stops \cup MayStop)
    BY <2>1, <2>3 DEF Missed, UpdatesFor, Stops, MayStop, Core
  <2> QED
    BY <2>1, <2>2, <2>3, <2>4, <2>5 DEF McuInv, SearchedSoFar, LoadedRight
<1> QED
  BY <1>1, <1>2, <1>3

\* What a search that has found an update has come to.
LEMMA FoundFirst ==
  ASSUME McuInv, mcuPc = "decide", info.valid
  PROVE  /\ Min(UpdatesFor(typeOf[Core])) = current
         /\ \A q \in Stops : q > current
         /\ Newer(info.revision, before) <=> ByTheGuide(buffer[current].revision, before)
<1>1. /\ current \in UpdatesFor(typeOf[Core]) /\ current \notin Stops
      /\ info.revision = buffer[current].revision /\ Missed(current)
      /\ current \in 1 .. Len(buffer) + 1
  BY DEF McuInv, SearchedSoFar
<1>2. UpdatesFor(typeOf[Core]) \subseteq 1 .. Len(buffer) /\ Stops \subseteq 1 .. Len(buffer)
      /\ Len(buffer) \in Nat
  BY McuContext
<1>3. \A p \in UpdatesFor(typeOf[Core]) \cup Stops : current <= p
  <2>1. \A p \in 1 .. current - 1 : p \notin UpdatesFor(typeOf[Core]) \cup Stops
    BY <1>1 DEF Missed
  <2>2. \A p \in UpdatesFor(typeOf[Core]) \cup Stops : p \in 1 .. Len(buffer)
    BY <1>2
  <2>3. \A p \in 1 .. Len(buffer) : p \in 1 .. current - 1 \/ current <= p
    BY <1>1, <1>2
  <2> QED
    BY <2>1, <2>2, <2>3
<1>4. Min(UpdatesFor(typeOf[Core])) = current
  BY <1>1, <1>2, <1>3, LeastIs
<1>5. \A q \in Stops : q > current
  BY <1>1, <1>2, <1>3
<1>6. info.revision \in Revisions /\ before \in Revisions
  BY DEF McuInv, McuTyped, McuTypeOK
<1> QED
  BY <1>1, <1>4, <1>5, <1>6, NewerByTheGuide

LEMMA McuLoads ==
  ASSUME McuInv, Load
  PROVE  McuInv'
<1>1. /\ UNCHANGED <<typeOf, action, buffer, cpu, current, before, info, unique, replaced>>
      /\ mcuPc = "decide" /\ mcuPc' = "report" /\ loaded' = current
      /\ info.valid /\ Newer(info.revision, before) /\ action = "load"
      /\ running' = [running EXCEPT ![Core] = info.revision] \/ UNCHANGED running
  BY DEF Load, Loads
<1>2. Core \in Cores /\ info.revision \in Revisions /\ current \in DOMAIN buffer
      /\ DOMAIN buffer = 1 .. Len(buffer) /\ Len(buffer) \in Nat
  <2>1. current \in UpdatesFor(typeOf[Core])
    BY <1>1 DEF McuInv, SearchedSoFar
  <2> QED
    BY <1>1, <2>1, McuContext DEF McuInv, McuTyped, McuTypeOK
<1>3. running' \in [Cores -> Revisions] /\ loaded' \in 0 .. Len(buffer)
  <2>1. running \in [Cores -> Revisions]
    BY DEF McuInv, McuTyped, McuTypeOK
  <2> QED
    BY <1>1, <1>2, <2>1
<1>4. McuTyped'
  BY <1>1, <1>3 DEF McuInv, McuTyped, McuTypeOK, Reported
<1>5. /\ Min(UpdatesFor(typeOf[Core])) = current /\ \A q \in Stops : q > current
      /\ ByTheGuide(buffer[current].revision, before)
      /\ UpdatesFor(typeOf[Core]) # {}
  <2>1. UpdatesFor(typeOf[Core]) # {}
    BY <1>1 DEF McuInv, SearchedSoFar
  <2> QED
    BY <1>1, <2>1, FoundFirst
<1>6. LoadedRight'
  <2>1. (UpdatesFor(typeOf[Core]))' = UpdatesFor(typeOf[Core]) /\ Stops' = Stops
    BY <1>1 DEF UpdatesFor, Stops, Core
  <2> QED
    BY <1>1, <1>5, <2>1 DEF LoadedRight
<1> QED
  BY <1>1, <1>4, <1>6 DEF McuInv, SearchedSoFar

LEMMA McuLoadsNot ==
  ASSUME McuInv, LoadNothing
  PROVE  McuInv'
<1>1. /\ UNCHANGED <<typeOf, running, action, buffer, cpu, current, before, info, loaded,
                     unique, replaced>>
      /\ mcuPc = "decide" /\ mcuPc' = "report"
      /\ ~ (info.valid /\ Newer(info.revision, before) /\ action = "load")
  BY DEF LoadNothing, Loads, Machine, Loop
<1>2. McuTyped'
  BY <1>1 DEF McuInv, McuTyped, McuTypeOK, Reported
<1> DEFINE mine == UpdatesFor(typeOf[Core])
           first == Min(mine)
<1>3. loaded = 0
  BY <1>1 DEF McuInv, SearchedSoFar
<1>4. ASSUME action = "load", mine # {}, \A q \in Stops : q > first,
             ByTheGuide(buffer[first].revision, before), \A q \in MayStop : q > first
      PROVE  FALSE
  <2>1. CASE info.valid
    <3>1. first = current
      BY <1>1, <2>1, FoundFirst
    <3>2. Newer(info.revision, before)
      BY <1>1, <1>4, <2>1, <3>1, FoundFirst
    <3> QED
      BY <1>1, <1>4, <2>1, <3>2
  <2>2. CASE ~ info.valid
    <3>1. Missed(current) /\ current \in 1 .. Len(buffer) + 1
          /\ (current = Len(buffer) + 1 \/ current \in Stops \cup MayStop)
      BY <1>1, <2>2 DEF McuInv, SearchedSoFar
    <3>2. mine \subseteq 1 .. Len(buffer) /\ Len(buffer) \in Nat
      BY <1>1, McuContext
    <3>3. first \in mine
      <4>1. \E m \in mine : \A y \in mine : m <= y
        <5>1. mine \subseteq Nat
          BY <3>2
        <5> HIDE DEF mine
        <5> QED
          BY <1>4, <5>1, LeastOf
      <4> HIDE DEF mine
      <4> QED
        BY <4>1 DEF Min
    <3>4. ~ (first \in 1 .. current - 1)
      BY <3>1, <3>3 DEF Missed
    <3>5. first >= current /\ first <= Len(buffer)
      BY <3>1, <3>2, <3>3, <3>4
    <3>6. current \in Stops \cup MayStop
      <4>1. first \in Int
        BY <3>2, <3>3
      <4> HIDE DEF first, mine
      <4>2. current # Len(buffer) + 1
        BY <3>1, <3>2, <3>5, <4>1
      <4> QED
        BY <3>1, <4>2
    <3>7. current > first
      BY <1>4, <3>6
    <3> HIDE DEF first, mine
    <3> QED
      BY <3>1, <3>2, <3>3, <3>5, <3>7
  <2> QED
    BY <2>1, <2>2
<1>5. LoadedRight'
  <2>1. (UpdatesFor(typeOf[Core]))' = UpdatesFor(typeOf[Core]) /\ Stops' = Stops
        /\ MayStop' = MayStop
    BY <1>1 DEF UpdatesFor, Stops, MayStop, Core
  <2> QED
    BY <1>1, <1>3, <1>4, <2>1 DEF LoadedRight
<1> QED
  BY <1>1, <1>2, <1>5 DEF McuInv, SearchedSoFar

LEMMA McuReports ==
  ASSUME McuInv, Report \/ ReportEnds
  PROVE  McuInv'
<1>1. CASE Report
  <2> DEFINE row == [type |-> typeOf[Core], before |-> before, update |-> info.revision,
                     valid |-> info.valid, after |-> running[Core], count |-> 1]
             same == {j \in DOMAIN unique : RowKey(unique[j]) = RowKey(row)}
  <2>1. /\ UNCHANGED <<typeOf, running, action, buffer, cpu, current, before, info, loaded>>
        /\ mcuPc = "report" /\ mcuPc' = "call"
        /\ unique' = IF same = {} THEN Append(unique, row)
                     ELSE [unique EXCEPT ![Min(same)].count = @ + 1]
        /\ replaced' = replaced + IF row.before # row.after THEN 1 ELSE 0
    BY <1>1 DEF Report, Machine
  <2>2. row \in Rows
    <3>1. Core \in Cores /\ typeOf[Core] \in McuTypes
      BY <2>1, McuContext
    <3>2. before \in Revisions /\ running[Core] \in Revisions
          /\ info.revision \in Revisions /\ info.valid \in BOOLEAN
      BY <3>1 DEF McuInv, McuTyped, McuTypeOK
    <3> QED
      BY <3>1, <3>2 DEF Rows
  <2> HIDE DEF row
  <2>3. unique \in Seq(Rows) /\ Len(unique) <= Reported /\ replaced <= Reported
        /\ Len(unique) \in Nat /\ replaced \in Nat /\ Reported \in Nat
        /\ DOMAIN unique = 1 .. Len(unique)
    <3>1. ncpus \in Nat
      BY McuAssumption, LenProperties DEF ncpus
    <3> QED
      BY <3>1, LenProperties DEF McuInv, McuTyped, McuTypeOK
  <2>4. Reported' = Reported + 1 /\ Reported' \in Nat /\ Reported' <= ncpus /\ ncpus \in Nat
    <3>1. cpu \in 1 .. ncpus /\ ncpus \in Nat
      BY <2>1, McuContext, McuAssumption, LenProperties DEF ncpus
    <3> QED
      BY <2>1, <3>1 DEF Reported
  <2>5. unique' \in Seq(Rows) /\ Len(unique') \in Nat /\ Len(unique') <= Len(unique) + 1
    <3>1. CASE same = {}
      <4>1. unique' = Append(unique, row)
        BY <2>1, <3>1
      <4> QED
        BY <2>2, <2>3, <4>1, AppendProperties
    <3>2. CASE same # {}
      <4>1. unique' = [unique EXCEPT ![Min(same)].count = @ + 1]
        BY <2>1, <3>2
      <4>2. Min(same) \in 1 .. Len(unique)
        <5>1. same \subseteq 1 .. Len(unique)
          BY <2>3
        <5>2. same \subseteq Nat
          BY <5>1
        <5> HIDE DEF same
        <5>3. \E m \in same : \A y \in same : m <= y
          BY <3>2, <5>2, LeastOf
        <5> QED
          BY <5>1, <5>3 DEF Min
      <4> DEFINE k == Min(same)
                 next == [unique[k] EXCEPT !.count = @ + 1]
      <4>3. unique' = [unique EXCEPT ![k] = next]
        BY <4>1
      <4> HIDE DEF k, same
      <4>4. k \in 1 .. Len(unique)
        BY <4>2 DEF k
      <4>5. unique[k] \in Rows
        BY <2>3, <4>4, ElementOfSeq
      <4>6. next \in Rows
        BY <4>5 DEF Rows
      <4> HIDE DEF next
      <4> QED
        BY <2>3, <4>3, <4>4, <4>6, ExceptSeq
    <3> QED
      BY <3>1, <3>2
  <2>6. replaced' \in Nat /\ replaced' <= replaced + 1
    BY <2>1, <2>3
  <2>7. Len(unique') <= Reported' /\ replaced' <= Reported'
    BY <2>3, <2>4, <2>5, <2>6
  <2>8. Len(unique') <= ncpus /\ replaced' \in 0 .. ncpus
    BY <2>4, <2>5, <2>6, <2>7
  <2>9. McuTyped'
    BY <2>1, <2>4, <2>5, <2>7, <2>8 DEF McuInv, McuTyped, McuTypeOK
  <2> QED
    BY <2>1, <2>9 DEF McuInv, SearchedSoFar, LoadedRight
<1>2. CASE ReportEnds
  <2>1. /\ UNCHANGED <<typeOf, running, action, buffer, cpu, current, before, info, loaded,
                       unique, replaced>>
        /\ mcuPc = "call" /\ mcuPc' = "done"
    BY <1>2 DEF ReportEnds, Machine, Loop
  <2>2. McuTyped'
    BY <2>1 DEF McuInv, McuTyped, McuTypeOK, Reported
  <2> QED
    BY <2>1, <2>2 DEF McuInv, SearchedSoFar, LoadedRight
<1> QED
  BY <1>1, <1>2

LEMMA McuSteps ==
  ASSUME McuInv, McuNext
  PROVE  McuInv'
BY McuParses, McuCalls, McuSearches, McuLoads, McuLoadsNot, McuReports DEF McuNext

-----------------------------------------------------------------------------
(* Microcode: the counts of the report. *)

CountedIn(rows, S) == SumOver([j \in DOMAIN rows |-> rows[j].count], S)
Changed(rows) == {j \in DOMAIN rows : rows[j].before # rows[j].after}

McuCounts ==
  /\ CountedIn(unique, DOMAIN unique) = Reported
  /\ CountedIn(unique, Changed(unique)) = replaced

LEMMA McuRows ==
  ASSUME NEW rows \in Seq(Rows), NEW S, S \subseteq DOMAIN rows
  PROVE  /\ IsFiniteSet(S) /\ Numbers([j \in DOMAIN rows |-> rows[j].count], S)
         /\ Changed(rows) \subseteq DOMAIN rows
<1>1. DOMAIN rows = 1 .. Len(rows) /\ Len(rows) \in Nat
  BY LenProperties
<1>2. IsFiniteSet(1 .. Len(rows))
  BY <1>1, FS_Interval
<1>3. IsFiniteSet(S)
  BY <1>1, <1>2, FS_Subset
<1>4. \A j \in S : rows[j].count \in Int
  <2>1. \A j \in S : rows[j] \in Rows
    BY <1>1, ElementOfSeq
  <2>2. \A row \in Rows : row.count \in Int
    BY DEF Rows
  <2> QED
    BY <2>1, <2>2
<1> QED
  BY <1>3, <1>4 DEF Numbers, Changed

\* The sum as the module writes it.
LEMMA ReportCounts ==
  ASSUME McuInv, McuCounts
  PROVE  ReportAddsUp
<1> DEFINE c == [j \in DOMAIN unique |-> unique[j].count]
           A(S, f) == f = [s \in SUBSET S |->
                             IF s = {} THEN 0
                             ELSE unique[CHOOSE x \in s : TRUE].count
                                    + f[s \ {CHOOSE x \in s : TRUE}]]
<1>1. ASSUME NEW S, S \subseteq DOMAIN unique
      PROVE  (CHOOSE f : A(S, f))[S] = CountedIn(unique, S)
  <2>1. ASSUME NEW f
        PROVE  A(S, f) <=> Adds(c, SUBSET S, f)
    <3>1. \A s \in SUBSET S : s # {} => One(s) \in DOMAIN unique
      BY <1>1 DEF One
    <3>2. \A s \in SUBSET S : s # {} => unique[One(s)].count = c[One(s)]
      BY <3>1
    <3>3. [s \in SUBSET S |-> IF s = {} THEN 0 ELSE unique[One(s)].count + f[s \ {One(s)}]]
            = [s \in SUBSET S |-> IF s = {} THEN 0 ELSE c[One(s)] + f[s \ {One(s)}]]
      BY <3>2
    <3>4. A(S, f) <=> f = [s \in SUBSET S |-> IF s = {} THEN 0
                                   ELSE unique[One(s)].count + f[s \ {One(s)}]]
      BY DEF One
    <3> QED
      BY <3>3, <3>4 DEF Adds
  <2> DEFINE a(f) == A(S, f)
             b(f) == Adds(c, SUBSET S, f)
  <2>2. \A f : a(f) <=> b(f)
    BY <2>1
  <2>3. (CHOOSE f : a(f)) = (CHOOSE f : b(f))
    <3> HIDE DEF a, b
    <3> QED
      BY <2>2, Zenon
  <2> QED
    BY <2>3 DEF CountedIn, SumOver
<1>2. (CHOOSE f : A(DOMAIN unique, f))[DOMAIN unique] = Reported
  BY <1>1 DEF McuCounts
<1>3. (CHOOSE f : A(Changed(unique), f))[Changed(unique)] = replaced
  BY <1>1 DEF McuCounts, Changed
<1> QED
  BY <1>2, <1>3 DEF ReportAddsUp, MapThenSumSet, MapThenFoldSet, Reported, Changed

\* A row more.
LEMMA RowAppended ==
  ASSUME NEW rows \in Seq(Rows), NEW row \in Rows, NEW S, S \subseteq DOMAIN rows
  PROVE  /\ CountedIn(Append(rows, row), S) = CountedIn(rows, S)
         /\ CountedIn(Append(rows, row), S \cup {Len(rows) + 1})
              = CountedIn(rows, S) + row.count
<1> DEFINE more == Append(rows, row)
           n == Len(rows) + 1
           c == [j \in DOMAIN rows |-> rows[j].count]
           d == [j \in DOMAIN more |-> more[j].count]
<1>1. /\ more \in Seq(Rows) /\ DOMAIN more = 1 .. n /\ DOMAIN rows = 1 .. Len(rows)
      /\ Len(rows) \in Nat /\ \A j \in DOMAIN rows : more[j] = rows[j]
      /\ more[n] = row
  BY AppendProperties, LenProperties
<1>2. n \notin S /\ n \in DOMAIN more /\ S \subseteq DOMAIN more /\ d[n] = row.count
      /\ S \cup {n} \subseteq DOMAIN more
  BY <1>1
<1>3. \A j \in S : d[j] = c[j]
  BY <1>1, <1>2
<1>4. IsFiniteSet(S) /\ Numbers(c, S)
  BY McuRows
<1>5. IsFiniteSet(S \cup {n}) /\ Numbers(d, S \cup {n})
  BY <1>1, <1>2, McuRows
<1>10. /\ CountedIn(rows, S) = SumOver(c, S) /\ CountedIn(more, S) = SumOver(d, S)
       /\ CountedIn(more, S \cup {n}) = SumOver(d, S \cup {n})
  BY DEF CountedIn
<1> HIDE DEF c, d, more, n
<1>6. SumOver(d, S) = SumOver(c, S)
  BY <1>3, <1>4, SumOverAgree
<1>7. SumOver(d, S \cup {n}) = d[n] + SumOver(d, (S \cup {n}) \ {n})
  BY <1>5, SumOverSteps
<1>8. (S \cup {n}) \ {n} = S
  BY <1>2
<1>9. SumOver(c, S) \in Int /\ row.count \in Int
  BY <1>4, SumOverSteps DEF Rows
<1>11. /\ CountedIn(more, S) = CountedIn(rows, S)
       /\ CountedIn(more, S \cup {n}) = CountedIn(rows, S) + row.count
  <2>1. SumOver(d, S \cup {n}) = row.count + SumOver(c, S)
    BY <1>2, <1>6, <1>7, <1>8
  <2> QED
    BY <1>6, <1>9, <1>10, <2>1
<1> QED
  BY <1>11 DEF more, n

\* One more in a row.
LEMMA RowCounted ==
  ASSUME NEW rows \in Seq(Rows), NEW k \in DOMAIN rows, NEW next \in Rows,
         next.count = rows[k].count + 1, NEW S, S \subseteq DOMAIN rows
  PROVE  CountedIn([rows EXCEPT ![k] = next], S)
           = CountedIn(rows, S) + IF k \in S THEN 1 ELSE 0
<1> DEFINE more == [rows EXCEPT ![k] = next]
           c == [j \in DOMAIN rows |-> rows[j].count]
           d == [j \in DOMAIN more |-> more[j].count]
<1>1. /\ more \in Seq(Rows) /\ DOMAIN more = DOMAIN rows
      /\ \A j \in DOMAIN rows \ {k} : more[j] = rows[j]
      /\ more[k] = next
  BY ExceptSeq, LenProperties
<1>2. (\A j \in S \ {k} : d[j] = c[j]) /\ d[k] = c[k] + 1
  BY <1>1
<1>3. /\ IsFiniteSet(S) /\ Numbers(c, S) /\ Numbers(d, S)
      /\ IsFiniteSet(S \ {k}) /\ Numbers(c, S \ {k})
  <2>1. S \ {k} \subseteq DOMAIN rows
    OBVIOUS
  <2> QED
    BY <1>1, <2>1, McuRows
<1>4. rows[k].count \in Int /\ c[k] = rows[k].count
  <2>1. rows[k] \in Rows
    BY ElementOfSeq, LenProperties
  <2> QED
    BY <2>1 DEF Rows
<1>5. CountedIn(rows, S) = SumOver(c, S) /\ CountedIn(more, S) = SumOver(d, S)
  BY DEF CountedIn
<1> HIDE DEF c, d, more
<1>6. SumOver(d, S \ {k}) = SumOver(c, S \ {k})
  BY <1>2, <1>3, SumOverAgree
<1>7. SumOver(c, S) \in Int
  BY <1>3, SumOverSteps
<1>8. CASE k \in S
  <2>1. SumOver(d, S) = d[k] + SumOver(d, S \ {k})
    BY <1>3, <1>8, SumOverSteps
  <2>2. SumOver(c, S) = c[k] + SumOver(c, S \ {k}) /\ SumOver(c, S \ {k}) \in Int
    BY <1>3, <1>8, SumOverSteps
  <2> QED
    BY <1>2, <1>4, <1>5, <1>6, <1>8, <2>1, <2>2 DEF more
<1>9. CASE k \notin S
  <2>1. S \ {k} = S
    BY <1>9
  <2>2. SumOver(d, S) = SumOver(c, S)
    BY <1>6, <2>1
  <2>3. CountedIn(more, S) = CountedIn(rows, S) + 0
    BY <1>5, <1>7, <2>2
  <2> QED
    BY <1>9, <2>3 DEF more
<1> QED
  BY <1>8, <1>9

LEMMA CountsReported ==
  ASSUME McuInv, McuCounts, Report
  PROVE  McuCounts'
<1> DEFINE row == [type |-> typeOf[Core], before |-> before, update |-> info.revision,
                   valid |-> info.valid, after |-> running[Core], count |-> 1]
           same == {j \in DOMAIN unique : RowKey(unique[j]) = RowKey(row)}
<1>1. /\ cpu' = cpu /\ mcuPc = "report" /\ mcuPc' = "call"
      /\ unique' = IF same = {} THEN Append(unique, row)
                   ELSE [unique EXCEPT ![Min(same)].count = @ + 1]
      /\ replaced' = replaced + IF row.before # row.after THEN 1 ELSE 0
  BY DEF Report, Machine
<1>2. row \in Rows
  <2>1. Core \in Cores /\ typeOf[Core] \in McuTypes
    BY <1>1, McuContext
  <2>2. before \in Revisions /\ running[Core] \in Revisions
        /\ info.revision \in Revisions /\ info.valid \in BOOLEAN
    BY <2>1 DEF McuInv, McuTyped, McuTypeOK
  <2> QED
    BY <2>1, <2>2 DEF Rows
<1>3. row.count = 1
  OBVIOUS
<1> HIDE DEF row
<1>4. /\ unique \in Seq(Rows) /\ Len(unique) \in Nat /\ DOMAIN unique = 1 .. Len(unique)
      /\ replaced \in Int /\ Reported \in Int
  <2>1. ncpus \in Nat
    BY McuAssumption, LenProperties DEF ncpus
  <2> QED
    BY <2>1, LenProperties DEF McuInv, McuTyped, McuTypeOK
<1>5. Reported' = Reported + 1
  <2>1. cpu \in 1 .. ncpus
    BY <1>1, McuContext
  <2> QED
    BY <1>1, <2>1 DEF Reported
<1>6. /\ CountedIn(unique, DOMAIN unique) = Reported
      /\ CountedIn(unique, Changed(unique)) = replaced /\ Changed(unique) \subseteq DOMAIN unique
  BY DEF McuCounts, Changed
<1>7. CASE same = {}
  <2> DEFINE more == Append(unique, row)
             n == Len(unique) + 1
  <2>1. unique' = more
    BY <1>1, <1>7
  <2>2. /\ DOMAIN more = DOMAIN unique \cup {n} /\ n \notin DOMAIN unique
        /\ \A j \in DOMAIN unique : more[j] = unique[j]
        /\ more[n] = row
    BY <1>2, <1>4, AppendProperties
  <2>3. /\ CountedIn(more, DOMAIN unique \cup {n}) = Reported + 1
        /\ CountedIn(more, Changed(unique)) = replaced
        /\ CountedIn(more, Changed(unique) \cup {n}) = replaced + 1
    <3>1. \A S \in SUBSET DOMAIN unique :
            /\ CountedIn(more, S) = CountedIn(unique, S)
            /\ CountedIn(more, S \cup {n}) = CountedIn(unique, S) + row.count
      BY <1>2, <1>4, RowAppended
    <3> QED
      BY <1>3, <1>6, <3>1
  <2> HIDE DEF more, n
  <2>4. Changed(more) = IF row.before # row.after THEN Changed(unique) \cup {n}
                        ELSE Changed(unique)
    BY <2>2 DEF Changed
  <2>5. CountedIn(more, Changed(more)) = replaced + IF row.before # row.after THEN 1 ELSE 0
    BY <1>4, <2>3, <2>4
  <2>6. CountedIn(more, DOMAIN more) = Reported + 1
    BY <2>2, <2>3
  <2> QED
    BY <1>1, <1>5, <2>1, <2>5, <2>6 DEF McuCounts
<1>8. CASE same # {}
  <2> DEFINE k == Min(same)
             next == [unique[k] EXCEPT !.count = @ + 1]
             more == [unique EXCEPT ![k] = next]
  <2>1. unique' = more
    BY <1>1, <1>8
  <2>2. k \in same
    <3>1. same \subseteq Nat
      BY <1>4
    <3> HIDE DEF same
    <3>2. \E m \in same : \A y \in same : m <= y
      BY <1>8, <3>1, LeastOf
    <3> QED
      BY <3>2 DEF Min
  <2> HIDE DEF k
  <2>3. k \in DOMAIN unique /\ RowKey(unique[k]) = RowKey(row)
    BY <2>2
  <2> HIDE DEF same
  <2>4. unique[k] \in Rows
    BY <1>4, <2>3, ElementOfSeq
  <2>5. /\ next \in Rows /\ next.count = unique[k].count + 1
        /\ next.before = unique[k].before /\ next.after = unique[k].after
    BY <2>4 DEF Rows
  <2>6. unique[k].before = row.before /\ unique[k].after = row.after
    BY <2>3 DEF RowKey
  <2>7. /\ DOMAIN more = DOMAIN unique /\ more[k] = next
        /\ \A j \in DOMAIN unique \ {k} : more[j] = unique[j]
    BY <2>3
  <2> HIDE DEF next
  <2>8. /\ CountedIn(more, DOMAIN unique) = Reported + 1
        /\ CountedIn(more, Changed(unique)) = replaced + IF k \in Changed(unique) THEN 1 ELSE 0
    <3>1. ASSUME NEW S, S \subseteq DOMAIN unique
          PROVE  CountedIn(more, S) = CountedIn(unique, S) + IF k \in S THEN 1 ELSE 0
      <4>1. unique \in Seq(Rows) /\ k \in DOMAIN unique /\ next \in Rows
            /\ next.count = unique[k].count + 1
        BY <1>4, <2>3, <2>5
      <4> QED
        BY <3>1, <4>1, RowCounted
    <3> QED
      BY <1>6, <2>3, <3>1
  <2> HIDE DEF more
  <2>9. Changed(more) = Changed(unique)
    BY <2>5, <2>7 DEF Changed
  <2>10. k \in Changed(unique) <=> row.before # row.after
    BY <2>3, <2>6 DEF Changed
  <2>11. CountedIn(more, Changed(more)) = replaced + IF row.before # row.after THEN 1 ELSE 0
    BY <2>8, <2>9, <2>10
  <2>12. CountedIn(more, DOMAIN more) = Reported + 1
    BY <2>7, <2>8
  <2> QED
    BY <1>1, <1>5, <2>1, <2>11, <2>12 DEF McuCounts
<1> QED
  BY <1>7, <1>8

\* The other steps leave the report alone.
LEMMA CountsKept ==
  ASSUME McuInv, McuCounts, McuNext, ~ Report
  PROVE  McuCounts'
<1>1. UNCHANGED <<unique, replaced>>
  BY DEF McuNext, ParseFile, ParseEnds, Call, Plain, Extended, SearchFails, Load,
         LoadNothing, ReportEnds, Machine, Loop
<1>2. Reported' = Reported
  <2>1. cpu \in Int
    BY DEF McuInv, McuTyped, McuTypeOK, ncpus
  <2> QED
    BY <2>1 DEF Reported, McuNext, ParseFile, ParseEnds, Call, Plain, Extended, SearchFails,
       Load,
         LoadNothing, ReportEnds, Machine, Loop, SearchOn, Found, Searching
<1> QED
  BY <1>1, <1>2 DEF McuCounts

LEMMA CountsBegin ==
  ASSUME McuInit \/ McuIdle
  PROVE  McuCounts
<1>1. unique = <<>> /\ cpu = 0 /\ replaced = 0 /\ mcuPc \notin {"search", "decide", "report"}
  BY DEF McuInit, McuIdle, McuStart
<1>2. IsFiniteSet({}) /\ Numbers([j \in DOMAIN unique |-> unique[j].count], {})
  BY FS_EmptySet DEF Numbers
<1>3. SumOver([j \in DOMAIN unique |-> unique[j].count], {}) = 0
  BY <1>2, SumOverSteps
<1>4. DOMAIN unique = {}
  BY <1>1
<1>5. Changed(unique) = {}
  BY <1>4 DEF Changed
<1> QED
  BY <1>1, <1>3, <1>4, <1>5 DEF McuCounts, CountedIn, Reported

LEMMA McuInvariant == Spec => [](McuInv /\ McuCounts)
<1>1. Init => McuInv /\ McuCounts
  BY McuBegins, CountsBegin DEF Init
<1>2. McuInv /\ McuCounts /\ [Next]_vars => (McuInv /\ McuCounts)'
  <2> SUFFICES ASSUME McuInv, McuCounts, [Next]_vars PROVE McuInv' /\ McuCounts'
    OBVIOUS
  <2>1. CASE McuNext
    BY <2>1, McuSteps, CountsReported, CountsKept
  <2>2. CASE UNCHANGED mcuVars
    BY <2>2 DEF mcuVars, McuInv, McuTyped, McuTypeOK, SearchedSoFar, LoadedRight, McuCounts,
                Reported, UpdatesFor, Stops, MayStop, Missed, Core
  <2> QED
    BY <2>1, <2>2 DEF Next, Rests, vars
<1> QED
  BY <1>1, <1>2, PTL DEF Spec

\* Whatever the files hold, whatever processors there are and whatever revision
\* update_info holds at first: mcu_load writes to each processor the first update
\* that is made for it and that the guide has it load, unless a broken one is
\* before it, and nothing else; and the rows that WriteUpdatesToCpus shows count
\* every processor once, and as replaced those whose revision has changed.
THEOREM FirmwareUpdatedAsReported == Spec => []UpdatedAsReported
<1>1. McuInv /\ McuCounts => UpdatedAsReported
  BY ReportCounts DEF UpdatedAsReported, McuInv
<1> QED
  BY <1>1, McuInvariant, PTL

-----------------------------------------------------------------------------
(* The records of the lists of acpi.py. *)

\* A class is as large as the length its record states, if firmware writes that.
Agrees(r) == r.length = r.written /\ ~ Misdeclared(r) => r.size = r.length

Sized(r) == r.length \in Nat /\ r.size \in Nat /\ Agrees(r)

LEMMA FixedSized ==
  ASSUME NEW type, NEW size \in Nat, NEW r \in Fixed(type, size, size)
  PROVE  Sized(r) /\ r.size = size
BY DEF Fixed, Rec, Sized, Agrees

LEMMA ApicSized ==
  ASSUME NEW r \in ApicRecords, r.array >= 0
  PROVE  Sized(r)
<1>1. \/ r \in Fixed("LOCAL_APIC", 8, 8)
      \/ r \in Fixed("IO_APIC", 12, 12)
      \/ r \in Fixed("INT_SRC_OVERRIDE", 10, 10)
      \/ r \in Fixed("NMI_INT_SRC", 8, 8)
      \/ r \in Fixed("LOCAL_APIC_NMI", 6, 6)
      \/ r \in Fixed("LOCAL_X2APIC", 16, 16)
      \/ r \in Fixed("LOCAL_X2APIC_NMI", 12, 12)
      \/ r \in Fixed("LOCAL_GIC", 40, 40)
      \/ r \in Fixed("LOCAL_GIC_DISTRIBUTOR", 24, 24)
      \/ r \in Trailing("unknown", APICSubtable, APICSubtableUnknown_factory)
  BY ApicSizes DEF ApicRecords
<1>2. CASE r \in Trailing("unknown", APICSubtable, APICSubtableUnknown_factory)
  <2>1. PICK length \in {0, 1, 2, 6} :
          r = Rec("unknown", length, length - 2, APICSubtableUnknown_factory(length - 2), length)
    BY <1>2, ApicSizes DEF Trailing
  <2>2. length - 2 >= 0
    BY <2>1 DEF Rec
  <2>3. APICSubtableUnknown_factory(length - 2) = 2 + (length - 2)
    BY <2>1, ApicSizes
  <2> QED
    BY <2>1, <2>2, <2>3 DEF Rec, Sized, Agrees
<1> QED
  BY <1>1, <1>2, FixedSized

LEMMA AsfSized ==
  ASSUME NEW r \in AsfRecords, r.array >= 0, MaxCount \in Nat
  PROVE  Sized(r)
<1>1. \/ r \in Fixed("ASF_INFO", 16, 16)
      \/ r \in Counted("ASF_ALRT", 8, 12, ASF_alrt_factory)
      \/ r \in Counted("ASF_RCTL", 8, 4, ASF_rctl_factory)
      \/ r \in Fixed("ASF_RMCP", 23, 23)
      \/ r \in Trailing("ASF_ADDR", ASF_addr_record_factory(0), ASF_addr_record_factory)
      \/ \E length \in {0, 4, 8} : r = Rec("no class", length, 0, 0, 0)
  BY AsfSizes DEF AsfRecords
<1>2. CASE r \in Counted("ASF_ALRT", 8, 12, ASF_alrt_factory)
  <2>1. PICK n \in 0 .. MaxCount : \E length \in {8 + 12 * n, 8 + 12 * n + 4, 0} :
          r = Rec("ASF_ALRT", length, n, ASF_alrt_factory(n), 8 + 12 * n)
    BY <1>2 DEF Counted
  <2>2. ASF_alrt_factory(n) = 8 + 12 * n /\ 8 + 12 * n \in Nat
    BY AsfSizes
  <2> QED
    BY <2>1, <2>2 DEF Rec, Sized, Agrees
<1>3. CASE r \in Counted("ASF_RCTL", 8, 4, ASF_rctl_factory)
  <2>1. PICK n \in 0 .. MaxCount : \E length \in {8 + 4 * n, 8 + 4 * n + 4, 0} :
          r = Rec("ASF_RCTL", length, n, ASF_rctl_factory(n), 8 + 4 * n)
    BY <1>3 DEF Counted
  <2>2. ASF_rctl_factory(n) = 8 + 4 * n /\ 8 + 4 * n \in Nat
    BY AsfSizes
  <2> QED
    BY <2>1, <2>2 DEF Rec, Sized, Agrees
<1>4. CASE r \in Trailing("ASF_ADDR", ASF_addr_record_factory(0), ASF_addr_record_factory)
  <2>1. ASF_addr_record_factory(0) = 6
    BY AsfSizes
  <2>2. PICK length \in {0, 5, 6, 10} :
          r = Rec("ASF_ADDR", length, length - 6, ASF_addr_record_factory(length - 6), length)
    BY <1>4, <2>1 DEF Trailing
  <2>3. length - 6 >= 0
    BY <2>2 DEF Rec
  <2>4. ASF_addr_record_factory(length - 6) = 6 + (length - 6)
    BY <2>2, AsfSizes
  <2> QED
    BY <2>2, <2>3, <2>4 DEF Rec, Sized, Agrees
<1>5. CASE \E length \in {0, 4, 8} : r = Rec("no class", length, 0, 0, 0)
  <2>1. PICK length \in {0, 4, 8} : r = Rec("no class", length, 0, 0, 0)
    BY <1>5
  <2>2. \A n \in {0, 4, 8} : n \in Nat
    OBVIOUS
  <2>3. length \in Nat
    BY <2>2
  <2>4. r.length = length /\ r.size = 0 /\ r.written = 0
    BY <2>1 DEF Rec
  <2> QED
    BY <2>3, <2>4 DEF Sized, Agrees
<1> QED
  BY <1>1, <1>2, <1>3, <1>4, <1>5, FixedSized

LEMMA PcctSized ==
  ASSUME NEW r \in PcctRecords, r.array >= 0
  PROVE  Sized(r)
<1>1. \/ r \in Fixed("GENERIC_COMMUNICATION_SUBSPACE", 62, 62)
      \/ r \in Trailing("unknown", PCCTSubtable, pcct_subtable_unknown_factory)
  BY PcctSizes DEF PcctRecords
<1>2. CASE r \in Trailing("unknown", PCCTSubtable, pcct_subtable_unknown_factory)
  <2>1. PICK length \in {0, 1, 2, 6} :
          r = Rec("unknown", length, length - 2, pcct_subtable_unknown_factory(length - 2), length)
    BY <1>2, PcctSizes DEF Trailing
  <2>2. length - 2 >= 0
    BY <2>1 DEF Rec
  <2>3. pcct_subtable_unknown_factory(length - 2) = 2 + (length - 2)
    BY <2>1, PcctSizes
  <2> QED
    BY <2>1, <2>2, <2>3 DEF Rec, Sized, Agrees
<1> QED
  BY <1>1, <1>2, FixedSized

LEMMA SratSized ==
  ASSUME NEW r \in SratRecords, r.type # "undefined"
  PROVE  Sized(r)
<1>1. \/ r \in Fixed("LOCAL_APIC_AFFINITY", 16, 16)
      \/ r \in Fixed("MEMORY_AFFINITY", 40, 40)
      \/ r \in Fixed("LOCAL_X2APIC_AFFINITY", 24, 24)
      \/ \E length \in {0, 8} : r = Rec("undefined", length, 0, 0, length)
  BY SratSizes DEF SratRecords
<1>2. ~ \E length \in {0, 8} : r = Rec("undefined", length, 0, 0, length)
  BY DEF Rec
<1> QED
  BY <1>1, <1>2, FixedSized

LEMMA PmttSized ==
  ASSUME NEW r \in PmttRecords, r.array >= 0
  PROVE  Sized(r)
<1>1. \/ r \in Fixed("DIMM", 20, 20)
      \/ r \in Trailing("unknown", PMTTSubtable, pmtt_subtable_unknown_factory)
  BY PmttSizes DEF PmttRecords
<1>2. CASE r \in Trailing("unknown", PMTTSubtable, pmtt_subtable_unknown_factory)
  <2>1. PICK length \in {0, 7, 8, 12} :
          r = Rec("unknown", length, length - 8, pmtt_subtable_unknown_factory(length - 8), length)
    BY <1>2, PmttSizes DEF Trailing
  <2>2. length - 8 >= 0
    BY <2>1 DEF Rec
  <2>3. pmtt_subtable_unknown_factory(length - 8) = 8 + (length - 8)
    BY <2>1, PmttSizes
  <2> QED
    BY <2>1, <2>2, <2>3 DEF Rec, Sized, Agrees
<1> QED
  BY <1>1, <1>2, FixedSized

LEMMA MpstSized ==
  ASSUME NEW r \in MpstRecords, MaxCount \in Nat
  PROVE  Sized(r)
<1>1. PICK states \in 0 .. MaxCount, components \in 0 .. MaxCount :
        \E length \in {32 + 2 * states + 2 * components, 32, 0} :
          r = Rec("node", length, 0, MPSTMemPowerNode_factory(states, components),
                  32 + 2 * states + 2 * components)
  BY DEF MpstRecords
<1>2. /\ MPSTMemPowerNode_factory(states, components) = 32 + 2 * states + 2 * components
      /\ 32 + 2 * states + 2 * components \in Nat
  BY MpstSizes
<1> QED
  BY <1>1, <1>2 DEF Rec, Sized, Agrees

LEMMA DmarSized ==
  ASSUME NEW r \in DmarRecords, r.array >= 0, list = "DMAR", table.align \in {4, 8}
  PROVE  Sized(r)
<1>1. \/ r \in Fixed("RHSA", DMARSubtableRHSA(table.align), 20)
      \/ r \in Trailing("ANDD", DMARSubTableANDD_factory(0), DMARSubTableANDD_factory)
      \/ r \in Trailing("unknown", DMARSubtable, DMARSubtableUnknown_factory)
  BY DEF DmarRecords
<1>2. CASE r \in Fixed("RHSA", DMARSubtableRHSA(table.align), 20)
  <2>1. PICK length \in {20, 24, 4, 0} :
          r = Rec("RHSA", length, 0, DMARSubtableRHSA(table.align), 20)
    BY <1>2 DEF Fixed
  <2>2. DMARSubtableRHSA(table.align) \in Nat
        /\ (table.align # 8 => DMARSubtableRHSA(table.align) = 20)
    BY PaddedSizes
  <2> QED
    BY <2>1, <2>2 DEF Rec, Sized, Agrees, Misdeclared
<1>3. CASE r \in Trailing("ANDD", DMARSubTableANDD_factory(0), DMARSubTableANDD_factory)
  <2>1. DMARSubTableANDD_factory(0) = 8
    BY PaddedSizes DEF RoundUp
  <2>2. PICK length \in {0, 7, 8, 12} :
          r = Rec("ANDD", length, length - 8, DMARSubTableANDD_factory(length - 8), length)
    BY <1>3, <2>1 DEF Trailing
  <2>3. length - 8 >= 0
    BY <2>2 DEF Rec
  <2>4. DMARSubTableANDD_factory(length - 8) = length
    BY <2>2, <2>3, PaddedSizes DEF RoundUp
  <2> QED
    BY <2>2, <2>3, <2>4 DEF Rec, Sized, Agrees
<1>4. CASE r \in Trailing("unknown", DMARSubtable, DMARSubtableUnknown_factory)
  <2>1. PICK length \in {0, 3, 4, 8} :
          r = Rec("unknown", length, length - 4, DMARSubtableUnknown_factory(length - 4), length)
    BY <1>4, DmarSizes DEF Trailing
  <2>2. length - 4 >= 0
    BY <2>1 DEF Rec
  <2>3. DMARSubtableUnknown_factory(length - 4) = length
    BY <2>1, <2>2, PaddedSizes DEF RoundUp
  <2> QED
    BY <2>1, <2>2, <2>3 DEF Rec, Sized, Agrees
<1> QED
  BY <1>1, <1>2, <1>3, <1>4

LEMMA ScopeSized ==
  ASSUME NEW r \in ScopeRecords, r.array >= 0
  PROVE  Sized(r) /\ r.size % 2 = 0
<1>1. PICK length \in {0, 5, 6, 8, 10} :
        r = Rec("scope", length, (length - 6) \div 2,
                DMARDeviceScope_factory((length - 6) \div 2), length)
  <2>1. DMARDeviceScope_factory(0) = 6 /\ DMARDeviceScopePath = 2
    BY DmarSizes
  <2> QED
    BY <2>1 DEF ScopeRecords, Count
<1>2. length \in {6, 8, 10}
  BY <1>1 DEF Rec
<1>3. DMARDeviceScope_factory((length - 6) \div 2) = 6 + 2 * ((length - 6) \div 2)
  BY <1>1, DmarSizes
<1>4. 6 + 2 * ((length - 6) \div 2) = length /\ length % 2 = 0 /\ length \in Nat
  BY <1>2
<1> QED
  BY <1>1, <1>3, <1>4 DEF Rec, Sized, Agrees

-----------------------------------------------------------------------------
(* The accounts of a reader. *)

Scoped == {"DRHD", "RMRR", "ATSR"}

\* What is kept of a list that another is inside of.
OuterLists ==
  [list : AcpiLists, type : Scoped \cup {"SOCKET", "MEMORY_CONTROLLER"},
   n : 0 .. MaxCount, due : Nat, u : [offset : Nat, size : Int]]

\* Where the layout has the list inside of the k-th begin, its account and its end.
NestBegins(k) == outer[k].due + Nest(outer[k].type, outer[k].n, 0)
InsideDue(k) == IF k = Len(outer) THEN due ELSE outer[k + 1].due
InsideEnd(k) == IF k = Len(outer) THEN u.size ELSE outer[k + 1].u.size

\* A list ends where the one around it goes on.
Nested ==
  \A k \in 1 .. Len(outer) :
    /\ InsideDue(k) >= NestBegins(k)
    /\ ~ strayed => InsideEnd(k) = outer[k].u.offset
    /\ outer[k].type \in Scoped =>
         k = Len(outer) /\ list = "scopes" /\ (due - NestBegins(k)) % 2 = 0

ReaderInv ==
  /\ table = [from24 |-> table.from24, align |-> table.align, left |-> table.left,
              place |-> table.place, bad |-> table.bad]
  /\ table.align \in {4, 8} /\ table.left \in 0 .. MaxCount
  /\ u \in [offset : Nat, size : Int] /\ due \in Nat /\ strayed \in BOOLEAN
  /\ outer \in Seq(OuterLists) /\ Len(outer) <= MaxNesting
  /\ outer # <<>> => list \in AcpiLists \cup {"scopes"}
  /\ list = "mp header" => u.offset = 0
  /\ ~ strayed => u.offset = due
  /\ Nested

LEMMA NestSizes ==
  ASSUME NEW n \in Nat, NEW i \in Nat
  PROVE  /\ Nest("DRHD", n, i) = 16 + i
         /\ Nest("RMRR", n, i) = 24 + i
         /\ Nest("ATSR", n, i) >= 8 + i /\ Nest("ATSR", n, i) \in Nat
         /\ i % 2 = 0 => Nest("ATSR", n, i) = 8 + i
         /\ Nest("SOCKET", n, i) = 12 + i
         /\ Nest("MEMORY_CONTROLLER", n, i) = 32 + 4 * n + i
<1>1. DMARSubtableATSR_factory(i) = RoundUp(8 + i, 2)
  BY PaddedSizes
<1>2. RoundUp(8 + i, 2) >= 8 + i /\ RoundUp(8 + i, 2) \in Nat
  BY DEF RoundUp
<1>3. i % 2 = 0 => RoundUp(8 + i, 2) = 8 + i
  BY DEF RoundUp
<1>4. /\ DMARSubtableDRHD_factory(i) = 16 + i /\ DMARSubtableRMRR_factory(i) = 24 + i
      /\ PMTTSubtableSocket_factory(i) = 12 + i
      /\ PMTTSubtableMemController_factory(n, i) = 32 + 4 * n + i
  BY DmarSizes, PmttSizes
<1>5. /\ Nest("DRHD", n, i) = DMARSubtableDRHD_factory(i)
      /\ Nest("RMRR", n, i) = DMARSubtableRMRR_factory(i)
      /\ Nest("ATSR", n, i) = DMARSubtableATSR_factory(i)
      /\ Nest("SOCKET", n, i) = PMTTSubtableSocket_factory(i)
      /\ Nest("MEMORY_CONTROLLER", n, i) = PMTTSubtableMemController_factory(n, i)
  BY DEF Nest
<1> QED
  BY <1>1, <1>2, <1>3, <1>4, <1>5

NestTypes == Scoped \cup {"SOCKET", "MEMORY_CONTROLLER"}

\* What a class adds to the classes of its list does not depend on them.
LEMMA NestAdds ==
  ASSUME NEW type \in NestTypes, NEW n \in Nat, NEW i \in Nat
  PROVE  /\ Nest(type, n, 0) \in Nat
         /\ Nest(type, n, i) \in Nat /\ Nest(type, n, i) >= Nest(type, n, 0) + i
         /\ (type \in Scoped => i % 2 = 0) => Nest(type, n, i) = Nest(type, n, 0) + i
         /\ NestWritten(type, n) = Nest(type, n, 0)
<1>1. CASE type = "DRHD"
  <2>1. Nest(type, n, 0) = 16 /\ Nest(type, n, i) = 16 + i
    BY <1>1, NestSizes
  <2>2. NestWritten(type, n) = 16
    BY <1>1 DEF NestWritten
  <2> QED
    BY <2>1, <2>2
<1>2. CASE type = "RMRR"
  <2>1. Nest(type, n, 0) = 24 /\ Nest(type, n, i) = 24 + i
    BY <1>2, NestSizes
  <2>2. NestWritten(type, n) = 24
    BY <1>2 DEF NestWritten
  <2> QED
    BY <2>1, <2>2
<1>3. CASE type = "ATSR"
  <2>1. Nest(type, n, i) >= 8 + i /\ Nest(type, n, i) \in Nat
        /\ (i % 2 = 0 => Nest(type, n, i) = 8 + i)
    BY <1>3, NestSizes
  <2>2. 0 \in Nat /\ 0 % 2 = 0
    OBVIOUS
  <2>3. Nest(type, n, 0) = 8 + 0
    BY <1>3, <2>2, NestSizes
  <2>4. NestWritten(type, n) = 8 /\ type \in Scoped
    BY <1>3 DEF NestWritten, Scoped
  <2> QED
    BY <2>1, <2>3, <2>4
<1>4. CASE type = "SOCKET"
  <2>1. Nest(type, n, 0) = 12 /\ Nest(type, n, i) = 12 + i
    BY <1>4, NestSizes
  <2>2. NestWritten(type, n) = 12
    BY <1>4 DEF NestWritten
  <2> QED
    BY <2>1, <2>2
<1>5. CASE type = "MEMORY_CONTROLLER"
  <2>1. Nest(type, n, 0) = 32 + 4 * n /\ Nest(type, n, i) = 32 + 4 * n + i
    BY <1>5, NestSizes
  <2>2. NestWritten(type, n) = 32 + 4 * n
    BY <1>5 DEF NestWritten
  <2> QED
    BY <2>1, <2>2
<1> QED
  BY <1>1, <1>2, <1>3, <1>4, <1>5 DEF NestTypes, Scoped

LEMMA RecordSized ==
  ASSUME ReaderInv, list \in AcpiLists \cup {"scopes"},
         NEW r \in Records(list), r.array >= 0, r.type # "undefined"
  PROVE  Sized(r) /\ (list = "scopes" => r.size % 2 = 0)
<1>1. table.align \in {4, 8} /\ MaxCount \in Nat
  BY AcpiAssumption DEF ReaderInv
<1>2. list \in {"APIC", "_MAT", "ASF!", "PCCT", "SRAT", "DMAR", "PMTT", "MPST", "scopes"}
  BY AcpiAssumption
<1>3. CASE list \in {"APIC", "_MAT"}
  <2>1. r \in ApicRecords /\ list # "scopes"
    BY <1>3 DEF Records
  <2> QED
    BY <2>1, ApicSized
<1>4. CASE list = "ASF!"
  <2>1. r \in AsfRecords
    BY <1>4 DEF Records
  <2> QED
    BY <1>1, <1>4, <2>1, AsfSized
<1>5. CASE list = "PCCT"
  <2>1. r \in PcctRecords
    BY <1>5 DEF Records
  <2> QED
    BY <1>5, <2>1, PcctSized
<1>6. CASE list = "SRAT"
  <2>1. r \in SratRecords
    BY <1>6 DEF Records
  <2> QED
    BY <1>6, <2>1, SratSized
<1>7. CASE list = "DMAR"
  <2>1. r \in DmarRecords
    BY <1>7 DEF Records
  <2> QED
    BY <1>1, <1>7, <2>1, DmarSized
<1>8. CASE list = "PMTT"
  <2>1. r \in PmttRecords
    BY <1>8 DEF Records
  <2> QED
    BY <1>8, <2>1, PmttSized
<1>9. CASE list = "MPST"
  <2>1. r \in MpstRecords
    BY <1>9 DEF Records
  <2> QED
    BY <1>1, <1>9, <2>1, MpstSized
<1>10. CASE list = "scopes"
  <2>1. r \in ScopeRecords
    BY <1>10 DEF Records
  <2> QED
    BY <2>1, ScopeSized
<1> QED
  BY <1>2, <1>3, <1>4, <1>5, <1>6, <1>7, <1>8, <1>9, <1>10

\* What Nested says of the outermost lists stays as it is when only the list inside
\* of them all moves on.
LEMMA OnlyInmost ==
  ASSUME ReaderInv, UNCHANGED <<list, outer>>, due' \in Nat, due' >= due,
         u'.size = u.size, strayed => strayed',
         list = "scopes" => (due' - due) % 2 = 0
  PROVE  Nested'
<1>1. ASSUME NEW k \in 1 .. Len(outer)
      PROVE  /\ InsideDue(k)' >= NestBegins(k)
             /\ ~ strayed' => InsideEnd(k)' = outer[k].u.offset
             /\ outer[k].type \in Scoped =>
                  k = Len(outer) /\ list = "scopes" /\ (due' - NestBegins(k)) % 2 = 0
  <2>1. /\ InsideDue(k) >= NestBegins(k)
        /\ ~ strayed => InsideEnd(k) = outer[k].u.offset
        /\ outer[k].type \in Scoped =>
             k = Len(outer) /\ list = "scopes" /\ (due - NestBegins(k)) % 2 = 0
    BY <1>1 DEF ReaderInv, Nested
  <2>2. outer[k] \in OuterLists /\ due \in Nat
    BY <1>1, ElementOfSeq DEF ReaderInv
  <2>3. Nest(outer[k].type, outer[k].n, 0) \in Nat
    <3>1. outer[k].type \in NestTypes /\ outer[k].n \in Nat
      BY <2>2, AcpiAssumption DEF OuterLists, NestTypes
    <3> QED
      BY <3>1, NestAdds
  <2>4. NestBegins(k) \in Nat
    BY <2>2, <2>3 DEF NestBegins, OuterLists
  <2>5. InsideEnd(k)' = InsideEnd(k)
    BY DEF InsideEnd
  <2>6. InsideDue(k)' >= NestBegins(k)
    BY <2>1, <2>2, <2>4 DEF InsideDue
  <2>7. outer[k].type \in Scoped => (due' - NestBegins(k)) % 2 = 0
    <3> SUFFICES ASSUME outer[k].type \in Scoped
                 PROVE  (due' - NestBegins(k)) % 2 = 0
      OBVIOUS
    <3>1. (due' - due) % 2 = 0 /\ (due - NestBegins(k)) % 2 = 0
      BY <2>1
    <3> HIDE DEF NestBegins
    <3> QED
      BY <2>2, <2>4, <3>1
  <2> QED
    BY <2>1, <2>5, <2>6, <2>7
<1> QED
  BY <1>1 DEF Nested, NestBegins

LEMMA WalkRecordSteps ==
  ASSUME ReaderInv, WalkRecord
  PROVE  ReaderInv'
<1>1. PICK r \in Records(list) :
        /\ r.array >= 0 /\ r.type # "undefined"
        /\ u' = Advance(u, r.length) /\ due' = due + r.size
        /\ strayed' = (strayed \/ r.length # r.written \/ Misdeclared(r))
        /\ table' = [table EXCEPT !.bad = @ \/ r.type = "no class",
                                  !.left = IF list = "MPST" THEN @ - 1 ELSE @]
  BY DEF WalkRecord, AdvanceBy
<1>2. list \in AcpiLists \cup {"scopes"} /\ UNCHANGED <<list, outer>>
      /\ (list = "MPST" => table.left > 0)
  BY DEF WalkRecord, More
<1>3. r.length \in Nat /\ r.size \in Nat
      /\ (r.length = r.written /\ ~ Misdeclared(r) => r.size = r.length)
      /\ (list = "scopes" => r.size % 2 = 0)
  BY <1>1, <1>2, RecordSized DEF Sized, Agrees
<1>4. u.offset \in Nat /\ u.size \in Int /\ due \in Nat /\ strayed \in BOOLEAN
      /\ u = [offset |-> u.offset, size |-> u.size]
  BY DEF ReaderInv
<1>5. u' = [offset |-> u.offset + r.length, size |-> u.size]
  BY <1>1, <1>4 DEF Advance
<1>6. u' \in [offset : Nat, size : Int] /\ due' \in Nat /\ strayed' \in BOOLEAN
  BY <1>1, <1>3, <1>4, <1>5
<1>7. ~ strayed' => u'.offset = due'
  <2> SUFFICES ASSUME ~ strayed' PROVE u'.offset = due'
    OBVIOUS
  <2>1. ~ strayed /\ r.length = r.written /\ ~ Misdeclared(r)
    BY <1>1
  <2>2. u.offset = due
    BY <2>1 DEF ReaderInv
  <2> QED
    BY <1>1, <1>3, <1>5, <2>1, <2>2
<1>8. /\ table' = [from24 |-> table'.from24, align |-> table'.align,
                   left |-> table'.left, place |-> table'.place, bad |-> table'.bad]
      /\ table'.align = table.align
      /\ table'.left = IF list = "MPST" THEN table.left - 1 ELSE table.left
  <2>1. table = [from24 |-> table.from24, align |-> table.align, left |-> table.left,
                 place |-> table.place, bad |-> table.bad]
    BY DEF ReaderInv
  <2> QED
    BY <1>1, <2>1
<1>9. table'.align \in {4, 8} /\ table'.left \in 0 .. MaxCount
  <2>1. table.align \in {4, 8} /\ table.left \in 0 .. MaxCount /\ MaxCount \in Nat
    BY AcpiAssumption DEF ReaderInv
  <2> QED
    BY <1>2, <1>8, <2>1
<1>10. Nested'
  <2>1. due' >= due /\ u'.size = u.size /\ (strayed => strayed')
    BY <1>1, <1>3, <1>4, <1>5
  <2>2. list = "scopes" => (due' - due) % 2 = 0
    BY <1>1, <1>3, <1>4
  <2> QED
    BY <1>2, <1>6, <2>1, <2>2, OnlyInmost
<1>11. list # "mp header"
  BY <1>2, AcpiAssumption
<1> QED
  BY <1>2, <1>6, <1>7, <1>8, <1>9, <1>10, <1>11 DEF ReaderInv

LEMMA WalkIntoSteps ==
  ASSUME ReaderInv, WalkInto
  PROVE  ReaderInv'
<1>a. MaxCount \in Nat /\ MaxNesting \in Nat
  BY AcpiAssumption
<1>b. 0 \in 0 .. MaxCount /\ \A i \in 0 .. MaxCount : i \in Nat
  BY <1>a
<1>c. Len(outer) \in Nat /\ Len(outer) < MaxNesting => Len(outer) + 1 <= MaxNesting
  BY <1>a
<1>1. PICK nest \in Nests(list), n \in 0 .. MaxCount, bytes \in {-4, 0, 6, 8, 20, 52} :
        LET type == nest[1]
            count == IF type = "MEMORY_CONTROLLER" THEN n ELSE 0
            base == Nest(type, count, 0)
            length == NestWritten(type, count) + bytes
        IN  /\ list' = nest[2]
            /\ u' = Unpackable(u.offset + base, u.offset + length)
            /\ due' = due + base
            /\ strayed' = (strayed \/ bytes < 0)
            /\ outer' = Append(outer, [list |-> list, type |-> type, n |-> count,
                                       due |-> due, u |-> Advance(u, length)])
  BY DEF WalkInto
<1> DEFINE type == nest[1]
           count == IF type = "MEMORY_CONTROLLER" THEN n ELSE 0
           base == Nest(type, count, 0)
           length == NestWritten(type, count) + bytes
           o == [list |-> list, type |-> type, n |-> count, due |-> due,
                 u |-> Advance(u, length)]
<1>2. list' = nest[2] /\ u' = Unpackable(u.offset + base, u.offset + length)
      /\ due' = due + base /\ strayed' = (strayed \/ bytes < 0)
      /\ outer' = Append(outer, o)
  BY <1>1
<1>3. list \in AcpiLists /\ Len(outer) < MaxNesting /\ UNCHANGED table
  BY DEF WalkInto
<1>4. /\ type \in NestTypes
      /\ list' \in AcpiLists \cup {"scopes"}
      /\ type \in Scoped => list' = "scopes"
  <2>1. nest \in {<<"DRHD", "scopes">>, <<"RMRR", "scopes">>, <<"ATSR", "scopes">>}
        \/ (nest \in {<<"SOCKET", "PMTT">>, <<"MEMORY_CONTROLLER", "PMTT">>}
              /\ list = "PMTT")
    BY DEF Nests
  <2>2. CASE nest \in {<<"DRHD", "scopes">>, <<"RMRR", "scopes">>, <<"ATSR", "scopes">>}
    <3>1. nest[1] \in {"DRHD", "RMRR", "ATSR"} /\ nest[2] = "scopes"
      BY <2>2
    <3> QED
      BY <1>2, <3>1 DEF NestTypes, Scoped
  <2>3. CASE nest \in {<<"SOCKET", "PMTT">>, <<"MEMORY_CONTROLLER", "PMTT">>}
             /\ list = "PMTT"
    <3>1. nest[1] \in {"SOCKET", "MEMORY_CONTROLLER"} /\ nest[2] = "PMTT"
      BY <2>3
    <3> QED
      BY <1>2, <1>3, <2>3, <3>1 DEF NestTypes, Scoped
  <2> QED
    BY <2>1, <2>2, <2>3
<1>5. MaxCount \in Nat /\ MaxNesting \in Nat /\ "scopes" \notin AcpiLists
      /\ "mp header" \notin AcpiLists
  BY AcpiAssumption
<1>6. count \in 0 .. MaxCount /\ count \in Nat
  BY <1>b
<1> HIDE DEF count
<1>7. base \in Nat /\ length \in Int /\ length = base + bytes
  <2>1. Nest(type, count, 0) \in Nat /\ NestWritten(type, count) = Nest(type, count, 0)
    BY <1>4, <1>6, NestAdds
  <2> QED
    BY <2>1
<1>8. length \in Nat
  <2>1. base >= 4
    <3> HIDE DEF type
    <3>1. /\ Nest("DRHD", count, 0) = 16 + 0 /\ Nest("RMRR", count, 0) = 24 + 0
          /\ Nest("ATSR", count, 0) >= 8 + 0 /\ Nest("SOCKET", count, 0) = 12 + 0
          /\ Nest("MEMORY_CONTROLLER", count, 0) = 32 + 4 * count + 0
          /\ Nest("ATSR", count, 0) \in Nat
      BY <1>6, NestSizes
    <3>2. /\ Nest("DRHD", count, 0) >= 4 /\ Nest("RMRR", count, 0) >= 4
          /\ Nest("ATSR", count, 0) >= 4 /\ Nest("SOCKET", count, 0) >= 4
          /\ Nest("MEMORY_CONTROLLER", count, 0) >= 4
      BY <1>6, <3>1
    <3> QED
      BY <1>4, <3>2 DEF NestTypes, Scoped
  <2> HIDE DEF base, length
  <2> QED
    BY <1>7, <2>1
<1> HIDE DEF type, base, length
<1>9. u.offset \in Nat /\ u.size \in Int /\ due \in Nat /\ strayed \in BOOLEAN
      /\ u = [offset |-> u.offset, size |-> u.size] /\ (~ strayed => u.offset = due)
  BY DEF ReaderInv
<1>10. /\ u' = [offset |-> u.offset + base, size |-> u.offset + length]
       /\ Advance(u, length) = [offset |-> u.offset + length, size |-> u.size]
  BY <1>2, <1>9 DEF Unpackable, Advance
<1>11. u' \in [offset : Nat, size : Int] /\ due' \in Nat /\ strayed' \in BOOLEAN
       /\ (~ strayed' => u'.offset = due')
  BY <1>2, <1>7, <1>8, <1>9, <1>10
<1>12. o \in OuterLists
  BY <1>3, <1>4, <1>6, <1>8, <1>9, <1>10 DEF OuterLists, NestTypes
<1> DEFINE m == Len(outer)
<1> HIDE DEF o
<1>13. /\ outer \in Seq(OuterLists) /\ m \in Nat
       /\ outer' \in Seq(OuterLists) /\ Len(outer') = m + 1
       /\ outer'[m + 1] = o /\ \A k \in 1 .. m : outer'[k] = outer[k]
  <2>1. outer \in Seq(OuterLists)
    BY DEF ReaderInv
  <2> QED
    BY <1>2, <1>12, <2>1, AppendProperties, LenProperties
<1>14. ASSUME NEW k \in 1 .. m + 1
       PROVE  /\ InsideDue(k)' >= NestBegins(k)'
              /\ ~ strayed' => InsideEnd(k)' = outer'[k].u.offset
              /\ outer'[k].type \in Scoped =>
                   k = m + 1 /\ list' = "scopes" /\ (due' - NestBegins(k)') % 2 = 0
  <2>1. CASE k = m + 1
    <3>1. outer'[k] = o /\ o.due = due /\ o.type = type /\ o.n = count
          /\ o.u.offset = u.offset + length
      BY <1>10, <1>13, <2>1 DEF o
    <3>2. NestBegins(k)' = due + base
      BY <3>1 DEF NestBegins, base
    <3>3. InsideDue(k)' = due' /\ InsideEnd(k)' = u'.size
      BY <1>13, <2>1 DEF InsideDue, InsideEnd
    <3>4. (due' - (due + base)) % 2 = 0 /\ due' >= due + base
      BY <1>2, <1>7, <1>9
    <3> QED
      BY <1>4, <1>10, <2>1, <3>1, <3>2, <3>3, <3>4
  <2>2. CASE k \in 1 .. m
    <3>1. /\ InsideDue(k) >= NestBegins(k)
          /\ ~ strayed => InsideEnd(k) = outer[k].u.offset
          /\ outer[k].type \in Scoped => k = m /\ list = "scopes"
      BY <2>2 DEF ReaderInv, Nested
    <3>2. outer'[k] = outer[k]
      BY <1>13, <2>2
    <3>3. NestBegins(k)' = NestBegins(k)
      BY <3>2 DEF NestBegins
    <3>4. InsideDue(k)' = InsideDue(k) /\ InsideEnd(k)' = InsideEnd(k)
      <4>1. k # m + 1 /\ outer'[k + 1] = IF k = m THEN o ELSE outer[k + 1]
        BY <1>13, <2>2
      <4>2. o.due = due /\ o.u.size = u.size
        BY <1>10 DEF o
      <4> QED
        BY <1>13, <4>1, <4>2 DEF InsideDue, InsideEnd
    <3>5. outer[k].type \notin Scoped
      BY <1>3, <1>5, <3>1
    <3> QED
      BY <1>2, <3>1, <3>2, <3>3, <3>4, <3>5
  <2> QED
    BY <1>13, <2>1, <2>2
<1>15. Nested'
  BY <1>13, <1>14 DEF Nested
<1>16. Len(outer') <= MaxNesting
  BY <1>3, <1>c, <1>13
<1>17. list' # "mp header"
  BY <1>4, <1>5
<1>18. table' = table
  BY <1>3
<1> QED
  BY <1>4, <1>11, <1>13, <1>15, <1>16, <1>17, <1>18 DEF ReaderInv

\* A sequence without its last element.
LEMMA FrontOf ==
  ASSUME NEW S, NEW s \in Seq(S), NEW m \in Nat \ {0}, m = Len(s)
  PROVE  /\ SubSeq(s, 1, m - 1) \in Seq(S) /\ Len(SubSeq(s, 1, m - 1)) = m - 1
         /\ \A k \in 1 .. m - 1 : SubSeq(s, 1, m - 1)[k] = s[k]
<1>1. m - 1 \in Int /\ 1 \in Int /\ \A i \in 1 .. m - 1 : s[i] \in S
  BY ElementOfSeq
<1>2. /\ SubSeq(s, 1, m - 1) \in Seq(S)
      /\ Len(SubSeq(s, 1, m - 1)) = IF 1 <= m - 1 THEN m - 1 - 1 + 1 ELSE 0
      /\ \A i \in 1 .. m - 1 - 1 + 1 : SubSeq(s, 1, m - 1)[i] = s[1 + i - 1]
  BY <1>1, SubSeqProperties
<1>3. m - 1 - 1 + 1 = m - 1 /\ \A i \in 1 .. m - 1 : 1 + i - 1 = i
  OBVIOUS
<1> QED
  BY <1>2, <1>3

LEMMA WalkOutSteps ==
  ASSUME ReaderInv, WalkOut
  PROVE  ReaderInv'
<1> DEFINE m == Len(outer)
           o == outer[m]
           inner == due - o.due - Nest(o.type, o.n, 0)
<1>1. /\ outer # <<>> /\ UNCHANGED table
      /\ list' = o.list /\ u' = o.u
      /\ due' = o.due + Nest(o.type, o.n, inner)
      /\ strayed' = (strayed \/ u.offset # u.size)
      /\ outer' = SubSeq(outer, 1, m - 1)
  BY DEF WalkOut
<1>2. outer \in Seq(OuterLists) /\ m \in Nat \ {0}
  <2>1. outer \in Seq(OuterLists)
    BY DEF ReaderInv
  <2> QED
    BY <1>1, <2>1, LenProperties, EmptySeq
<1>3. o \in OuterLists /\ \A k \in 1 .. m : outer[k] \in OuterLists
  BY <1>2, ElementOfSeq
<1>4. /\ outer' \in Seq(OuterLists) /\ Len(outer') = m - 1
      /\ \A k \in 1 .. m - 1 : outer'[k] = outer[k]
  BY <1>1, <1>2, FrontOf
<1>5. /\ due >= NestBegins(m)
      /\ ~ strayed => u.size = o.u.offset
      /\ o.type \in Scoped => (due - NestBegins(m)) % 2 = 0
      /\ NestBegins(m) = o.due + Nest(o.type, o.n, 0)
  <2>1. m \in 1 .. m
    BY <1>2
  <2> QED
    BY <2>1 DEF ReaderInv, Nested, InsideDue, InsideEnd, NestBegins
<1>6. o.type \in NestTypes /\ o.n \in Nat /\ o.due \in Nat /\ o.list \in AcpiLists
      /\ o.u \in [offset : Nat, size : Int]
  <2>1. MaxCount \in Nat
    BY AcpiAssumption
  <2> HIDE DEF o
  <2> QED
    BY <1>3, <2>1 DEF OuterLists, NestTypes
<1>7. u.offset \in Nat /\ u.size \in Int /\ due \in Nat /\ strayed \in BOOLEAN
      /\ (~ strayed => u.offset = due)
  BY DEF ReaderInv
<1> HIDE DEF o
<1>8. Nest(o.type, o.n, 0) \in Nat
  BY <1>6, NestAdds
<1>9. inner \in Nat /\ (o.type \in Scoped => inner % 2 = 0)
      /\ due = o.due + Nest(o.type, o.n, 0) + inner
  BY <1>5, <1>6, <1>7, <1>8
<1> HIDE DEF inner
<1>10. /\ Nest(o.type, o.n, inner) = Nest(o.type, o.n, 0) + inner
       /\ due' = due
  <2>1. Nest(o.type, o.n, inner) = Nest(o.type, o.n, 0) + inner
    BY <1>6, <1>9, NestAdds
  <2> QED
    BY <1>1, <1>6, <1>8, <1>9, <2>1
<1>11. ~ strayed' => u'.offset = due'
  <2> SUFFICES ASSUME ~ strayed' PROVE u'.offset = due'
    OBVIOUS
  <2>1. ~ strayed /\ u.offset = u.size
    BY <1>1
  <2> QED
    BY <1>1, <1>5, <1>7, <1>10, <2>1
<1>12. ASSUME NEW k \in 1 .. m - 1
       PROVE  /\ InsideDue(k)' >= NestBegins(k)'
              /\ ~ strayed' => InsideEnd(k)' = outer'[k].u.offset
              /\ outer'[k].type \notin Scoped
  <2>1. k \in 1 .. m /\ k # m
    BY <1>2
  <2>2. /\ InsideDue(k) >= NestBegins(k)
        /\ ~ strayed => InsideEnd(k) = outer[k].u.offset
        /\ outer[k].type \notin Scoped
    BY <2>1 DEF ReaderInv, Nested
  <2>3. outer'[k] = outer[k]
    BY <1>4
  <2>4. NestBegins(k)' = NestBegins(k)
    BY <2>3 DEF NestBegins
  <2>5. InsideDue(k) = outer[k + 1].due /\ InsideEnd(k) = outer[k + 1].u.size
    BY <2>1 DEF InsideDue, InsideEnd
  <2>6. CASE k = m - 1
    <3>1. k + 1 = m
      BY <1>2, <2>6
    <3>2. InsideDue(k)' = due' /\ InsideEnd(k)' = u'.size
      BY <1>4, <2>6 DEF InsideDue, InsideEnd
    <3>3. InsideDue(k) = o.due /\ InsideEnd(k) = o.u.size
      BY <2>5, <3>1 DEF o
    <3>4. due' >= o.due
      BY <1>6, <1>8, <1>9, <1>10
    <3>5. NestBegins(k) \in Int
      <4>1. outer[k] \in OuterLists
        BY <1>3, <2>1
      <4>2. outer[k].type \in NestTypes /\ outer[k].n \in Nat /\ outer[k].due \in Nat
        <5>1. MaxCount \in Nat
          BY AcpiAssumption
        <5> QED
          BY <4>1, <5>1 DEF OuterLists, NestTypes
      <4>3. Nest(outer[k].type, outer[k].n, 0) \in Nat
        BY <4>2, NestAdds
      <4> QED
        BY <4>2, <4>3 DEF NestBegins
    <3>6. due' >= NestBegins(k)
      BY <1>6, <1>7, <1>10, <2>2, <3>3, <3>4, <3>5
    <3> QED
      BY <1>1, <2>2, <2>3, <2>4, <3>2, <3>3, <3>6
  <2>7. CASE k # m - 1
    <3>1. outer'[k + 1] = outer[k + 1] /\ k # Len(outer')
      BY <1>2, <1>4, <2>7
    <3>2. InsideDue(k)' = InsideDue(k) /\ InsideEnd(k)' = InsideEnd(k)
      BY <2>5, <3>1 DEF InsideDue, InsideEnd
    <3> QED
      BY <1>1, <2>2, <2>3, <2>4, <3>2
  <2> QED
    BY <2>6, <2>7
<1>13. Nested'
  BY <1>4, <1>12 DEF Nested
<1>14. Len(outer') <= MaxNesting
  <2>1. m <= MaxNesting /\ MaxNesting \in Nat
    BY AcpiAssumption DEF ReaderInv
  <2> QED
    BY <1>2, <1>4, <2>1
<1>15. list' \in AcpiLists /\ list' # "mp header"
  BY <1>1, <1>6, AcpiAssumption
<1>16. table' = table /\ due' \in Nat /\ strayed' \in BOOLEAN
       /\ u' \in [offset : Nat, size : Int]
  BY <1>1, <1>6, <1>7, <1>10
<1> QED
  BY <1>4, <1>11, <1>13, <1>14, <1>15, <1>16 DEF ReaderInv

-----------------------------------------------------------------------------
(* Resource descriptors. *)

\* The class of a descriptor that is as firmware writes it takes all its bytes.
Classed(item) ==
  /\ item.length \in Nat /\ item.size \in Nat /\ item.written \in Nat
  /\ item.of \notin Short /\ item.length = item.written =>
       item.size = item.length + HeaderBytes(item.large)

LEMMA SmallClassed ==
  ASSUME NEW of, NEW written \in Nat, NEW size \in Nat, size = written + 1,
         NEW item \in Small(of, size, written)
  PROVE  Classed(item)
<1>1. PICK length \in {written, 0, 7} : item = Item(of, FALSE, length, size, 1, written)
  BY DEF Small
<1>2. item.length = length /\ item.size = size /\ item.written = written
      /\ item.large = FALSE
  BY <1>1 DEF Item
<1>3. length \in Nat /\ HeaderBytes(FALSE) = 1
  BY DEF HeaderBytes
<1> QED
  BY <1>2, <1>3 DEF Classed

LEMMA LargeClassed ==
  ASSUME NEW of, NEW written \in Nat, NEW size \in Nat,
         of \in Short \/ size = written + 3,
         NEW item \in Large(of, size, written)
  PROVE  Classed(item)
<1>1. PICK length \in {written, 0, written + 4} :
        item = Item(of, TRUE, length, size, 1, written)
  BY DEF Large
<1>2. item.length = length /\ item.size = size /\ item.written = written
      /\ item.large = TRUE /\ item.of = of
  BY <1>1 DEF Item
<1>3. length \in Nat /\ HeaderBytes(TRUE) = 3
  BY DEF HeaderBytes
<1> QED
  BY <1>2, <1>3 DEF Classed

LEMMA ItemsClassed ==
  ASSUME u.offset \in Nat, u.size \in Int, u.offset < u.size, NEW item \in Items
  PROVE  Classed(item)
<1>1. RestOf \in Nat
  BY DEF RestOf
<1>2. MaxRepeats \in Nat
  BY ResourceAssumption
<1>3. CASE item \in parse_IRQDescriptor
  <2>1. PICK length \in {0, 2, 3, 7} :
          item = Item("IRQ", FALSE, length,
                      IF length = 2 THEN IRQDescriptor2 ELSE IRQDescriptor3, 1,
                      IF length = 2 THEN 2 ELSE 3)
    BY <1>3 DEF parse_IRQDescriptor
  <2>2. IRQDescriptor2 = 3 /\ IRQDescriptor3 = 4 /\ HeaderBytes(FALSE) = 1
    BY ResourceSizes DEF HeaderBytes
  <2>3. item.length = length /\ item.size = (IF length = 2 THEN 3 ELSE 4)
        /\ item.written = (IF length = 2 THEN 2 ELSE 3) /\ item.large = FALSE
    BY <2>1, <2>2 DEF Item
  <2>4. \A n \in {0, 2, 3, 7} : n \in Nat
    OBVIOUS
  <2>5. length \in Nat
    BY <2>4
  <2>6. CASE length = 2
    <3>1. item.length = 2 /\ item.size = 3 /\ item.written = 2 /\ item.large = FALSE
      BY <2>3, <2>6
    <3>2. 3 = 2 + 1 /\ 2 \in Nat /\ 3 \in Nat
      OBVIOUS
    <3> QED
      BY <2>2, <3>1, <3>2 DEF Classed
  <2>7. CASE length # 2
    <3>1. item.length = length /\ item.size = 4 /\ item.written = 3 /\ item.large = FALSE
      BY <2>3, <2>7
    <3>2. 4 = 3 + 1 /\ 3 \in Nat /\ 4 \in Nat
      OBVIOUS
    <3> QED
      BY <2>2, <2>5, <3>1, <3>2 DEF Classed
  <2> QED
    BY <2>6, <2>7
<1>4. CASE item \in parse_StartDependentFunctionsDescriptor
  <2>1. PICK length \in {0, 1, 7} :
          item = Item("StartDependentFunctions", FALSE, length,
                      IF length = 0 THEN StartDependentFunctionsDescriptor0
                      ELSE StartDependentFunctionsDescriptor1, 1,
                      IF length = 0 THEN 0 ELSE 1)
    BY <1>4 DEF parse_StartDependentFunctionsDescriptor
  <2>2. StartDependentFunctionsDescriptor0 = 1 /\ StartDependentFunctionsDescriptor1 = 2
        /\ HeaderBytes(FALSE) = 1
    BY ResourceSizes DEF HeaderBytes
  <2>3. item.length = length /\ item.size = (IF length = 0 THEN 1 ELSE 2)
        /\ item.written = (IF length = 0 THEN 0 ELSE 1) /\ item.large = FALSE
    BY <2>1, <2>2 DEF Item
  <2>4. \A n \in {0, 1, 7} : n \in Nat
    OBVIOUS
  <2>5. length \in Nat
    BY <2>4
  <2>6. CASE length = 0
    <3>1. item.length = 0 /\ item.size = 1 /\ item.written = 0 /\ item.large = FALSE
      BY <2>3, <2>6
    <3>2. 1 = 0 + 1 /\ 0 \in Nat /\ 1 \in Nat
      OBVIOUS
    <3> QED
      BY <2>2, <3>1, <3>2 DEF Classed
  <2>7. CASE length # 0
    <3>1. item.length = length /\ item.size = 2 /\ item.written = 1 /\ item.large = FALSE
      BY <2>3, <2>7
    <3>2. 2 = 1 + 1 /\ 1 \in Nat /\ 2 \in Nat
      OBVIOUS
    <3> QED
      BY <2>2, <2>5, <3>1, <3>2 DEF Classed
  <2> QED
    BY <2>6, <2>7
<1>5. CASE item \in parse_VendorDefinedSmallDescriptor
  <2>1. PICK length \in 0 .. MaxRepeats :
          item = Item("VendorDefined", FALSE, length,
                      VendorDefinedSmallDescriptor_factory(
                        RestOf - VendorDefinedSmallDescriptor_factory(0)), 1, length)
    BY <1>5 DEF parse_VendorDefinedSmallDescriptor
  <2>2. VendorDefinedSmallDescriptor_factory(0) = 1
        /\ VendorDefinedSmallDescriptor_factory(RestOf - 1) = 1 + (RestOf - 1)
    BY <1>1, ResourceSizes
  <2>3. item.length = length /\ item.size = 1 + (RestOf - 1) /\ item.written = length
        /\ item.of = "VendorDefined"
    BY <2>1, <2>2 DEF Item
  <2>4. 1 + (RestOf - 1) \in Nat /\ length \in Nat
    BY <1>1, <1>2
  <2> QED
    BY <2>3, <2>4 DEF Classed, Short
<1>6. CASE item \in parse_VendorDefinedLargeDescriptor
  <2> DEFINE base == VendorDefinedLargeDescriptor_factory(0)
  <2>1. PICK n \in 0 .. MaxRepeats :
          item = Item("VendorDefined", TRUE, 17 + n,
                      VendorDefinedLargeDescriptor_factory(RestOf - base), base, 17 + n)
    BY <1>6 DEF parse_VendorDefinedLargeDescriptor
  <2>2. base = 20 /\ VendorDefinedLargeDescriptor_factory(RestOf - 20) = 20 + (RestOf - 20)
    BY <1>1, ResourceSizes
  <2>3. item.length = 17 + n /\ item.size = 20 + (RestOf - 20) /\ item.written = 17 + n
        /\ item.of = "VendorDefined"
    BY <2>1, <2>2 DEF Item
  <2>4. 20 + (RestOf - 20) \in Nat /\ 17 + n \in Nat
    BY <1>1, <1>2
  <2> QED
    BY <2>3, <2>4 DEF Classed, Short
<1>7. CASE item \in parse_ExtendedInterruptDescriptor
  <2>1. PICK n \in 0 .. MaxRepeats :
          item = Item("ExtendedInterrupt", TRUE, 2 + 4 * n, InterruptClass(n),
                      ExtendedInterruptDescriptor_factory(0), 2 + 4 * n)
    BY <1>7 DEF parse_ExtendedInterruptDescriptor
  <2>2. n \in Nat
    BY <1>2
  <2>3. InterruptClass(n) = 5 + 4 * n /\ HeaderBytes(TRUE) = 3
    BY <2>2, ResourceSizes DEF InterruptClass, HeaderBytes
  <2>4. item.length = 2 + 4 * n /\ item.size = 5 + 4 * n /\ item.written = 2 + 4 * n
        /\ item.large = TRUE
    BY <2>1, <2>3 DEF Item
  <2>5. 2 + 4 * n \in Nat /\ 5 + 4 * n \in Nat /\ 5 + 4 * n = 2 + 4 * n + 3
    BY <2>2
  <2> QED
    BY <2>3, <2>4, <2>5 DEF Classed
<1>8. CASE \/ item \in Small("DMA", DMADescriptor, 2)
           \/ item \in Small("EndDependentFunctions", EndDependentFunctionsDescriptor, 0)
           \/ item \in Small("IOPort", IOPortDescriptor, 7)
           \/ item \in Small("FixedIOPort", FixedIOPortDescriptor, 3)
           \/ item \in Small("FixedDMA", FixedDMADescriptor, 5)
           \/ item \in Small("EndTag", EndTagDescriptor, 1)
  <2>1. /\ DMADescriptor = 3 /\ EndDependentFunctionsDescriptor = 1
        /\ IOPortDescriptor = 8 /\ FixedIOPortDescriptor = 4
        /\ FixedDMADescriptor = 6 /\ EndTagDescriptor = 2
    BY ResourceSizes, PaddedSizes
  <2>2. 3 = 2 + 1 /\ 1 = 0 + 1 /\ 8 = 7 + 1 /\ 4 = 3 + 1 /\ 6 = 5 + 1 /\ 2 = 1 + 1
    OBVIOUS
  <2> QED
    BY <1>8, <2>1, <2>2, SmallClassed
<1>9. CASE \/ item \in Large("Memory24BitRange", Memory24BitRangeDescriptor, 9)
           \/ item \in Large("GenericRegister", GenericRegisterDescriptor, 12)
           \/ item \in Large("Memory32BitRange", Memory32BitRangeDescriptor, 17)
           \/ item \in Large("FixedMemory32BitRange", FixedMemory32BitRangeDescriptor, 9)
           \/ item \in Large("DwordAddressSpace", DwordAddressSpaceDescriptor, 23)
           \/ item \in Large("WordAddressSpace", WordAddressSpaceDescriptor, 13)
           \/ item \in Large("QwordAddressSpace", QwordAddressSpaceDescriptor, 43)
           \/ item \in Large("ExtendedAddressSpace", ExtendedAddressSpaceDescriptor, 53)
  <2>1. /\ Memory24BitRangeDescriptor = 9 + 3 /\ GenericRegisterDescriptor = 12 + 3
        /\ FixedMemory32BitRangeDescriptor = 9 + 3
        /\ DwordAddressSpaceDescriptor = 23 + 3 /\ WordAddressSpaceDescriptor = 13 + 3
        /\ QwordAddressSpaceDescriptor = 43 + 3 /\ ExtendedAddressSpaceDescriptor = 53 + 3
        /\ Memory32BitRangeDescriptor \in Nat /\ "Memory32BitRange" \in Short
    BY ResourceSizes DEF Short
  <2>2. \A n \in Nat : n + 3 \in Nat
    OBVIOUS
  <2>3. CASE item \in Large("Memory32BitRange", Memory32BitRangeDescriptor, 17)
    BY <2>1, <2>3, LargeClassed
  <2>4. CASE item \in Large("Memory24BitRange", Memory24BitRangeDescriptor, 9)
             \/ item \in Large("GenericRegister", GenericRegisterDescriptor, 12)
             \/ item \in Large("FixedMemory32BitRange", FixedMemory32BitRangeDescriptor, 9)
    BY <2>1, <2>2, <2>4, LargeClassed
  <2>5. CASE item \in Large("DwordAddressSpace", DwordAddressSpaceDescriptor, 23)
             \/ item \in Large("WordAddressSpace", WordAddressSpaceDescriptor, 13)
    BY <2>1, <2>2, <2>5, LargeClassed
  <2>6. CASE item \in Large("QwordAddressSpace", QwordAddressSpaceDescriptor, 43)
             \/ item \in Large("ExtendedAddressSpace", ExtendedAddressSpaceDescriptor, 53)
    BY <2>1, <2>2, <2>6, LargeClassed
  <2> QED
    BY <1>9, <2>3, <2>4, <2>5, <2>6
<1> QED
  BY <1>3, <1>4, <1>5, <1>6, <1>7, <1>8, <1>9
  DEF Items, small_descriptor_dict, large_descriptor_dict

-----------------------------------------------------------------------------
(* The tables without nested lists. *)

\* The PCI interrupt routing table.
LEMMA PirClasses ==
  /\ PirHeader = 32
  /\ SlotEntry = 16
  /\ \A n \in Int : pir_factory(n) = 64 + n * 16
<1>1. PirHeader = 32
  <2> DEFINE w == <<4, 2, 2, 1, 1, 2, 2, 2, 4, 11, 1>>
  <2>1. w \in Seq(Int) /\ Len(w) = 11
    OBVIOUS
  <2>2. w[1] = 4 /\ w[2] = 2 /\ w[3] = 2 /\ w[4] = 1 /\ w[5] = 1 /\ w[6] = 2 /\ w[7] = 2
        /\ w[8] = 2 /\ w[9] = 4 /\ w[10] = 11 /\ w[11] = 1
    OBVIOUS
  <2> HIDE DEF w
  <2>3. Total(w) = w[1] + w[2] + w[3] + w[4] + w[5] + w[6] + w[7] + w[8] + w[9] + w[10]
                   + w[11]
    BY <2>1, Sum11
  <2>4. Total(w) = 32
    BY <2>2, <2>3
  <2> QED
    BY <2>4 DEF w, PirHeader, Packed
<1>2. SlotEntry = 16
  <2> DEFINE w == <<1, 1, 1, 2, 1, 2, 1, 2, 1, 2, 1, 1>>
  <2>1. w \in Seq(Int) /\ Len(w) = 12
    OBVIOUS
  <2>2. w[1] = 1 /\ w[2] = 1 /\ w[3] = 1 /\ w[4] = 2 /\ w[5] = 1 /\ w[6] = 2 /\ w[7] = 1
        /\ w[8] = 2 /\ w[9] = 1 /\ w[10] = 2 /\ w[11] = 1 /\ w[12] = 1
    OBVIOUS
  <2> HIDE DEF w
  <2>3. Total(w) = w[1] + w[2] + w[3] + w[4] + w[5] + w[6] + w[7] + w[8] + w[9] + w[10]
                   + w[11] + w[12]
    BY <2>1, Sum12
  <2>4. Total(w) = 16
    BY <2>2, <2>3
  <2> QED
    BY <2>4 DEF w, SlotEntry, Packed
<1>3. \A n \in Int : pir_factory(n) = 64 + n * 16
  BY <1>1, <1>2, Total3 DEF pir_factory, Packed
<1> QED
  BY <1>1, <1>2, <1>3

\* A reader that only ends or raises.
LEMMA Stays ==
  ASSUME ReaderInv, UNCHANGED <<table, list, u, due, strayed, outer>>
  PROVE  ReaderInv'
BY DEF ReaderInv, Nested, NestBegins, InsideDue, InsideEnd

LEMMA AcpiSteps ==
  ASSUME ReaderInv, AcpiNext
  PROVE  ReaderInv'
<1>1. CASE WalkRecord
  BY <1>1, WalkRecordSteps
<1>2. CASE WalkInto
  BY <1>2, WalkIntoSteps
<1>3. CASE WalkOut
  BY <1>3, WalkOutSteps
<1>4. CASE WalkRaises \/ WalkForever \/ WalkEnds \/ LayoutRaises
  BY <1>4, Stays DEF WalkRaises, WalkForever, WalkEnds, LayoutRaises, Raises, Ends
<1> QED
  BY <1>1, <1>2, <1>3, <1>4 DEF AcpiNext

LEMMA NoElements == 1 .. Len(<<>>) = {}
OBVIOUS

\* Outside of the lists of acpi.py no list lies in another.
LEMMA FlatSteps ==
  ASSUME ReaderInv, outer = <<>>, UNCHANGED <<table, outer>>,
         u' \in [offset : Nat, size : Int], due' \in Nat, strayed' \in BOOLEAN,
         list' = "mp header" => u'.offset = 0,
         ~ strayed' => u'.offset = due'
  PROVE  ReaderInv'
<1>1. Nested'
  <2>1. outer' = <<>>
    OBVIOUS
  <2> QED
    BY <2>1, NoElements DEF Nested
<1> QED
  BY <1>1 DEF ReaderInv

LEMMA SmbiosSteps ==
  ASSUME ReaderInv, SmbiosNext
  PROVE  ReaderInv'
<1>1. CASE ReadStructure
  <2>1. PICK length \in SmbiosLengths, strings \in 0 .. MaxStrings :
          /\ u' = Advance(u, length + StringsRead(strings))
          /\ due' = due + length + StringsWritten(strings)
    BY <1>1 DEF ReadStructure
  <2>2. UNCHANGED <<table, list, strayed, outer>> /\ list = "structures"
    BY <1>1 DEF ReadStructure, Reading
  <2>3. length \in Nat /\ strings \in Nat
    BY SmbiosAssumption
  <2>4. StringsRead(strings) \in Nat /\ StringsWritten(strings) = StringsRead(strings)
    BY <2>3 DEF StringsRead, StringsWritten
  <2>5. u.offset \in Nat /\ u.size \in Int /\ due \in Nat /\ strayed \in BOOLEAN
        /\ u = [offset |-> u.offset, size |-> u.size]
        /\ (~ strayed => u.offset = due) /\ outer = <<>>
    BY <2>2, AcpiAssumption DEF ReaderInv
  <2>6. u' = [offset |-> u.offset + (length + StringsRead(strings)), size |-> u.size]
    BY <2>1, <2>5 DEF Advance
  <2>7. u' \in [offset : Nat, size : Int] /\ due' \in Nat /\ (~ strayed => u'.offset = due')
    BY <2>1, <2>3, <2>4, <2>5, <2>6
  <2> QED
    BY <2>2, <2>5, <2>7, FlatSteps
<1>2. CASE KeepStructure \/ StructureRaises \/ StructuresEnd
  BY <1>2, Stays DEF KeepStructure, StructureRaises, StructuresEnd, Raises, Ends
<1> QED
  BY <1>1, <1>2 DEF SmbiosNext

LEMMA MpHeaderSize == Total(MpHeader) = 44
<1>1. MpHeader \in Seq(Int) /\ Len(MpHeader) = 13
  BY DEF MpHeader
<1>2. Total(MpHeader) =
        MpHeader[1] + MpHeader[2] + MpHeader[3] + MpHeader[4] + MpHeader[5]
        + MpHeader[6] + MpHeader[7] + MpHeader[8] + MpHeader[9] + MpHeader[10]
        + MpHeader[11] + MpHeader[12] + MpHeader[13]
  BY <1>1, Sum13
<1>3. /\ MpHeader[1] = 4 /\ MpHeader[2] = 2 /\ MpHeader[3] = 1 /\ MpHeader[4] = 1
      /\ MpHeader[5] = 8 /\ MpHeader[6] = 12 /\ MpHeader[7] = 4 /\ MpHeader[8] = 2
      /\ MpHeader[9] = 2 /\ MpHeader[10] = 4 /\ MpHeader[11] = 2 /\ MpHeader[12] = 1
      /\ MpHeader[13] = 1
  BY DEF MpHeader
<1> QED
  BY <1>2, <1>3

LEMMA MpSteps ==
  ASSUME ReaderInv, MpNext
  PROVE  ReaderInv'
<1>1. ASSUME list \in {"mp header", "mp base", "mp extended"}
      PROVE  outer = <<>>
  BY <1>1, AcpiAssumption DEF ReaderInv
<1>2. u.offset \in Nat /\ u.size \in Int /\ due \in Nat /\ strayed \in BOOLEAN
      /\ u = [offset |-> u.offset, size |-> u.size]
      /\ (~ strayed => u.offset = due)
  BY DEF ReaderInv
<1>3. CASE SkipHeader
  <2>1. u' = Advance(u, 44) /\ due' = 44 /\ UNCHANGED <<table, strayed, outer>>
        /\ list = "mp header" /\ list' = "mp base"
    BY <1>3, MpHeaderSize DEF SkipHeader, Reading
  <2>2. u' = [offset |-> 44, size |-> u.size]
    <3>1. u.offset = 0
      BY <2>1 DEF ReaderInv
    <3>2. u' = [offset |-> u.offset + 44, size |-> u.size]
      BY <1>2, <2>1 DEF Advance
    <3> QED
      BY <3>1, <3>2
  <2>3. u' \in [offset : Nat, size : Int] /\ due' \in Nat /\ u'.offset = due'
    <3>1. due' = 44 /\ u.size \in Int
      BY <1>2, <2>1
    <3> QED
      BY <2>2, <3>1
  <2> QED
    BY <1>1, <1>2, <2>1, <2>3, FlatSteps
<1>4. CASE ReadEntry
  <2>1. PICK type \in 0 .. 5 : u' = Advance(u, EntryLength(type))
                               /\ due' = due + EntryWritten(type)
    BY <1>4 DEF ReadEntry
  <2>2. UNCHANGED <<table, list, strayed, outer>> /\ list = "mp base"
    BY <1>4 DEF ReadEntry, Reading
  <2>3. EntryWritten(type) = EntryLength(type) /\ EntryLength(type) \in Nat
    <3>1. type = 0 \/ (type \in 1 .. 5 /\ type # 0)
      OBVIOUS
    <3> QED
      BY <3>1 DEF EntryLength, EntryWritten
  <2>4. u' = [offset |-> u.offset + EntryLength(type), size |-> u.size]
    BY <1>2, <2>1 DEF Advance
  <2>5. u' \in [offset : Nat, size : Int] /\ due' \in Nat /\ (~ strayed => u'.offset = due')
    BY <1>2, <2>1, <2>3, <2>4
  <2> QED
    BY <1>1, <1>2, <2>2, <2>5, FlatSteps
<1>5. CASE OpenExtended
  <2>1. PICK length \in MpExtendedLengths : u' = Unpackable(0, length)
    BY <1>5 DEF OpenExtended
  <2>2. due' = 0 /\ UNCHANGED <<table, strayed, outer>> /\ list = "mp base"
        /\ list' = "mp extended"
    BY <1>5 DEF OpenExtended, Reading
  <2>3. u' \in [offset : Nat, size : Int] /\ due' \in Nat /\ u'.offset = due'
    <3>1. length \in Int /\ 0 \in Nat
      BY MpAssumption
    <3>2. u' = [offset |-> 0, size |-> length]
      BY <2>1 DEF Unpackable
    <3> QED
      BY <2>2, <3>1, <3>2
  <2> QED
    BY <1>1, <1>2, <2>2, <2>3, FlatSteps
<1>6. CASE ReadExtended
  <2>1. PICK type \in 128 .. 131 : \E length \in ExtendedLengths(type) :
          u' = Advance(u, length) /\ due' = due + length
    BY <1>6 DEF ReadExtended
  <2>2. PICK length \in ExtendedLengths(type) : u' = Advance(u, length) /\ due' = due + length
    BY <2>1
  <2>3. UNCHANGED <<table, list, strayed, outer>> /\ list = "mp extended"
    BY <1>6 DEF ReadExtended, Reading
  <2>4. length \in Nat
    <3>1. length \in {0, 1, 7, 24} \cup {20} \/ length \in {0, 1, 7, 24} \cup {8}
      BY <2>2 DEF ExtendedLengths
    <3> QED
      BY <3>1
  <2>5. u' = [offset |-> u.offset + length, size |-> u.size]
    BY <1>2, <2>2 DEF Advance
  <2>6. u' \in [offset : Nat, size : Int] /\ due' \in Nat /\ (~ strayed => u'.offset = due')
    BY <1>2, <2>2, <2>4, <2>5
  <2> QED
    BY <1>1, <1>2, <2>3, <2>6, FlatSteps
<1>7. CASE HeaderRaises \/ EntryRaises \/ ExtendedRaises \/ ExtendedEnds
  BY <1>7, Stays DEF HeaderRaises, EntryRaises, ExtendedRaises, ExtendedEnds, Raises, Ends
<1> QED
  BY <1>3, <1>4, <1>5, <1>6, <1>7 DEF MpNext

LEMMA PieceSteps ==
  ASSUME ReaderInv, PirNext \/ FlatNext
  PROVE  ReaderInv'
<1>1. CASE ReadPir
  <2>1. u' = Advance(u, pir_factory(0)) /\ due' = PirHeader /\ strayed' = TRUE
        /\ UNCHANGED <<table, list, outer>> /\ list = "pir"
    BY <1>1 DEF ReadPir, Reading
  <2>2. u.offset \in Nat /\ u.size \in Int /\ outer = <<>>
        /\ u = [offset |-> u.offset, size |-> u.size]
    BY <2>1, AcpiAssumption DEF ReaderInv
  <2>3. pir_factory(0) = 64 + 0 * 16 /\ PirHeader = 32
    BY PirClasses
  <2>4. u' = [offset |-> u.offset + pir_factory(0), size |-> u.size]
    BY <2>1, <2>2 DEF Advance
  <2>5. u' \in [offset : Nat, size : Int] /\ due' \in Nat
    BY <2>1, <2>2, <2>3, <2>4
  <2> QED
    BY <2>1, <2>2, <2>5, FlatSteps
<1>2. CASE PirRaises \/ ReadTable \/ TableRaises
  BY <1>2, Stays DEF PirRaises, ReadTable, TableRaises, Raises
<1> QED
  BY <1>1, <1>2 DEF PirNext, FlatNext

LEMMA ResourceSteps ==
  ASSUME ReaderInv, ResourceNext
  PROVE  ReaderInv'
<1>1. CASE ReadDescriptor
  <2>1. PICK item \in Items : u' = Advance(u, item.length + HeaderBytes(item.large))
    BY <1>1 DEF ReadDescriptor
  <2>2. due' = u'.offset /\ UNCHANGED <<table, list, strayed, outer>>
        /\ list = "resources" /\ u.offset < u.size
    BY <1>1 DEF ReadDescriptor, Reading
  <2>3. u.offset \in Nat /\ u.size \in Int /\ outer = <<>> /\ strayed \in BOOLEAN
        /\ u = [offset |-> u.offset, size |-> u.size]
    BY <2>2, AcpiAssumption DEF ReaderInv
  <2>4. item.length \in Nat /\ HeaderBytes(item.large) \in Nat
    BY <2>2, <2>3, ItemsClassed DEF Classed, HeaderBytes
  <2>5. u' = [offset |-> u.offset + (item.length + HeaderBytes(item.large)),
              size |-> u.size]
    BY <2>1, <2>3 DEF Advance
  <2>6. u' \in [offset : Nat, size : Int] /\ due' \in Nat
    BY <2>2, <2>3, <2>4, <2>5
  <2> QED
    BY <2>2, <2>3, <2>6, FlatSteps
<1>2. CASE DescriptorRaises \/ ReturnRest \/ ResourcesEnd
  BY <1>2, Stays DEF DescriptorRaises, ReturnRest, ResourcesEnd, Raises, Ends
<1> QED
  BY <1>1, <1>2 DEF ResourceNext

-----------------------------------------------------------------------------
(* The tables of one piece. *)

\* The class of a table has a size, and takes all the bytes of one that is as firmware
\* writes it.
Whole(t) ==
  /\ t.length \in Nat /\ (t.array >= 0 => t.size \in Nat)
  /\ t.of \notin Short /\ t.length = t.written => t.size = t.length

LEMMA Divided ==
  ASSUME NEW x \in Nat, NEW d \in Nat
  PROVE  /\ x % 1 = 0 /\ d < 1 => (x + d) \div 1 \in Nat /\ 1 * ((x + d) \div 1) = x
         /\ x % 4 = 0 /\ d < 4 => (x + d) \div 4 \in Nat /\ 4 * ((x + d) \div 4) = x
         /\ x % 8 = 0 /\ d < 8 => (x + d) \div 8 \in Nat /\ 8 * ((x + d) \div 8) = x
         /\ x % 16 = 0 /\ d < 16 => (x + d) \div 16 \in Nat /\ 16 * ((x + d) \div 16) = x
         /\ x % 22 = 0 /\ d < 22 => (x + d) \div 22 \in Nat /\ 22 * ((x + d) \div 22) = x
         /\ x % 32 = 0 /\ d < 32 => (x + d) \div 32 \in Nat /\ 32 * ((x + d) \div 32) = x
<1>1. x % 1 = 0 /\ d < 1 => (x + d) \div 1 \in Nat /\ 1 * ((x + d) \div 1) = x
  OBVIOUS
<1>2. x % 4 = 0 /\ d < 4 => (x + d) \div 4 \in Nat /\ 4 * ((x + d) \div 4) = x
  OBVIOUS
<1>3. x % 8 = 0 /\ d < 8 => (x + d) \div 8 \in Nat /\ 8 * ((x + d) \div 8) = x
  OBVIOUS
<1>4. x % 16 = 0 /\ d < 16 => (x + d) \div 16 \in Nat /\ 16 * ((x + d) \div 16) = x
  OBVIOUS
<1>5. x % 22 = 0 /\ d < 22 => (x + d) \div 22 \in Nat /\ 22 * ((x + d) \div 22) = x
  OBVIOUS
<1>6. x % 32 = 0 /\ d < 32 => (x + d) \div 32 \in Nat /\ 32 * ((x + d) \div 32) = x
  OBVIOUS
<1> QED
  BY <1>1, <1>2, <1>3, <1>4, <1>5, <1>6

\* A table whose class has room for entries of each bytes behind the first base of
\* them, and that is as long as firmware makes it.
Made(base, counted, each, length) ==
  /\ base \in Int /\ counted \in Int /\ each \in {1, 4, 8, 16, 22, 32} /\ length \in Int
  /\ counted <= base /\ base < counted + each
  /\ length = IF (length - base) % each = 0 /\ length >= base THEN length ELSE base

\* The number of entries that is found is the one for which the length was made.
LEMMA EntriesWhole ==
  ASSUME NEW base, NEW counted, NEW each, NEW length, Made(base, counted, each, length)
  PROVE  base + each * Count(length - counted, each) = length
<1> DEFINE x == length - base
           d == base - counted
<1> USE DEF Made
<1>1. each \in Nat /\ each > 0
  OBVIOUS
<1>2. d \in Nat /\ d < each
  BY <1>1
<1>3. x \in Nat /\ x % each = 0
  <2>1. \A k \in {1, 4, 8, 16, 22, 32} : 0 % k = 0
    OBVIOUS
  <2>2. (base - base) % each = 0
    BY <2>1
  <2> QED
    BY <1>1, <2>2
<1>4. length - counted = x + d /\ length = base + x
  OBVIOUS
<1>5. each \in {1, 4, 8, 16, 22, 32}
  OBVIOUS
<1> HIDE DEF x, d, Made
<1>6. each * Count(x + d, each) = x
  BY <1>2, <1>3, <1>5, Divided DEF Count
<1> QED
  BY <1>4, <1>6

LEMMA RsdtWhole ==
  ASSUME NEW t \in RSDT
  PROVE  Whole(t)
<1>1. PICK length \in {36 + 4 * i : i \in 0 .. MaxEntries} \cup {36 - 1, 35} :
        t = Flat("RSDT", length, Count(length - TableHeader, 4),
                 rsdt_factory(Count(length - TableHeader, 4)),
                 IF (length - 36) % 4 = 0 /\ length >= 36 THEN length ELSE 36)
  BY DEF RSDT, Entries
<1>2. TableHeader = 36 /\ \A n \in Int : rsdt_factory(n) = 36 + 4 * n
  BY CommonSizes, FlatSizes
<1>3. length \in Nat
  BY <1>1, <1>2, FlatAssumption
<1>4. Count(length - 36, 4) \in Int
  BY <1>3 DEF Count
<1>5. /\ t.length = length /\ t.array = Count(length - 36, 4)
      /\ t.size = 36 + 4 * Count(length - 36, 4)
      /\ t.written = IF (length - 36) % 4 = 0 /\ length >= 36 THEN length ELSE 36
  BY <1>1, <1>2, <1>4 DEF Flat
<1>6. ASSUME t.length = t.written
      PROVE  36 + 4 * Count(length - 36, 4) = length
  <2>1. length = IF (length - 36) % 4 = 0 /\ length >= 36 THEN length ELSE 36
    BY <1>5, <1>6
  <2>2. Made(36, 36, 4, length)
    BY <1>3, <2>1 DEF Made
  <2> QED
    BY <2>2, EntriesWhole
<1> QED
  BY <1>3, <1>4, <1>5, <1>6 DEF Whole

LEMMA XsdtWhole ==
  ASSUME NEW t \in XSDT
  PROVE  Whole(t)
<1>1. PICK length \in {36 + 8 * i : i \in 0 .. MaxEntries} \cup {36 - 1, 35} :
        t = Flat("XSDT", length, Count(length - TableHeader, 8),
                 xsdt_factory(Count(length - TableHeader, 8)),
                 IF (length - 36) % 8 = 0 /\ length >= 36 THEN length ELSE 36)
  BY DEF XSDT, Entries
<1>2. TableHeader = 36 /\ \A n \in Int : xsdt_factory(n) = 36 + 8 * n
  BY CommonSizes, FlatSizes
<1>3. length \in Nat
  BY <1>1, <1>2, FlatAssumption
<1>4. Count(length - 36, 8) \in Int
  BY <1>3 DEF Count
<1>5. /\ t.length = length /\ t.array = Count(length - 36, 8)
      /\ t.size = 36 + 8 * Count(length - 36, 8)
      /\ t.written = IF (length - 36) % 8 = 0 /\ length >= 36 THEN length ELSE 36
  BY <1>1, <1>2, <1>4 DEF Flat
<1>6. ASSUME t.length = t.written
      PROVE  36 + 8 * Count(length - 36, 8) = length
  <2>1. length = IF (length - 36) % 8 = 0 /\ length >= 36 THEN length ELSE 36
    BY <1>5, <1>6
  <2>2. Made(36, 36, 8, length)
    BY <1>3, <2>1 DEF Made
  <2> QED
    BY <2>2, EntriesWhole
<1> QED
  BY <1>3, <1>4, <1>5, <1>6 DEF Whole

LEMMA McfgWhole ==
  ASSUME NEW t \in MCFG
  PROVE  Whole(t)
<1>1. PICK length \in {44 + MCFGResource * i : i \in 0 .. MaxEntries} \cup {44 - 1, 35} :
        t = Flat("MCFG", length, Count(length - mcfg_factory(0), MCFGResource),
                 mcfg_factory(Count(length - mcfg_factory(0), MCFGResource)),
                 IF (length - 44) % MCFGResource = 0 /\ length >= 44 THEN length ELSE 44)
  BY DEF MCFG, Entries
<1>2. mcfg_factory(0) = 44 /\ MCFGResource = 16 /\ \A n \in Int : mcfg_factory(n) = 44 + 16 * n
  BY CommonSizes, FlatSizes
<1>3. length \in Nat
  BY <1>1, <1>2, FlatAssumption
<1>4. Count(length - 44, 16) \in Int
  BY <1>3 DEF Count
<1>5. /\ t.length = length /\ t.array = Count(length - 44, 16)
      /\ t.size = 44 + 16 * Count(length - 44, 16)
      /\ t.written = IF (length - 44) % 16 = 0 /\ length >= 44 THEN length ELSE 44
  BY <1>1, <1>2, <1>4 DEF Flat
<1>6. ASSUME t.length = t.written
      PROVE  44 + 16 * Count(length - 44, 16) = length
  <2>1. length = IF (length - 44) % 16 = 0 /\ length >= 44 THEN length ELSE 44
    BY <1>5, <1>6
  <2>2. Made(44, 44, 16, length)
    BY <1>3, <2>1 DEF Made
  <2> QED
    BY <2>2, EntriesWhole
<1> QED
  BY <1>3, <1>4, <1>5, <1>6 DEF Whole

LEMMA EinjWhole ==
  ASSUME NEW t \in EINJ
  PROVE  Whole(t)
<1>1. PICK length \in {48 + InjectionInstructionEntry * i : i \in 0 .. MaxEntries} \cup {48 - 1, 35} :
        t = Flat("EINJ", length, Count(length - einj_factory(0), InjectionInstructionEntry),
                 einj_factory(Count(length - einj_factory(0), InjectionInstructionEntry)),
                 IF (length - 48) % InjectionInstructionEntry = 0 /\ length >= 48 THEN length ELSE 48)
  BY DEF EINJ, Entries
<1>2. einj_factory(0) = 48 /\ InjectionInstructionEntry = 32 /\ \A n \in Int : einj_factory(n) = 48 + 32 * n
  BY CommonSizes, FlatSizes
<1>3. length \in Nat
  BY <1>1, <1>2, FlatAssumption
<1>4. Count(length - 48, 32) \in Int
  BY <1>3 DEF Count
<1>5. /\ t.length = length /\ t.array = Count(length - 48, 32)
      /\ t.size = 48 + 32 * Count(length - 48, 32)
      /\ t.written = IF (length - 48) % 32 = 0 /\ length >= 48 THEN length ELSE 48
  BY <1>1, <1>2, <1>4 DEF Flat
<1>6. ASSUME t.length = t.written
      PROVE  48 + 32 * Count(length - 48, 32) = length
  <2>1. length = IF (length - 48) % 32 = 0 /\ length >= 48 THEN length ELSE 48
    BY <1>5, <1>6
  <2>2. Made(48, 48, 32, length)
    BY <1>3, <2>1 DEF Made
  <2> QED
    BY <2>2, EntriesWhole
<1> QED
  BY <1>3, <1>4, <1>5, <1>6 DEF Whole

LEMMA TriggerWhole ==
  ASSUME NEW t \in trigger_error_action
  PROVE  Whole(t)
<1>1. PICK length \in {16 + InjectionInstructionEntry * i : i \in 0 .. MaxEntries} \cup {16 - 1, 35} :
        t = Flat("trigger", length, Count(length - trigger_error_action_factory(0), InjectionInstructionEntry),
                 trigger_error_action_factory(Count(length - trigger_error_action_factory(0), InjectionInstructionEntry)),
                 IF (length - 16) % InjectionInstructionEntry = 0 /\ length >= 16 THEN length ELSE 16)
  BY DEF trigger_error_action, Entries
<1>2. trigger_error_action_factory(0) = 16 /\ InjectionInstructionEntry = 32 /\ \A n \in Int : trigger_error_action_factory(n) = 16 + 32 * n
  BY CommonSizes, FlatSizes
<1>3. length \in Nat
  BY <1>1, <1>2, FlatAssumption
<1>4. Count(length - 16, 32) \in Int
  BY <1>3 DEF Count
<1>5. /\ t.length = length /\ t.array = Count(length - 16, 32)
      /\ t.size = 16 + 32 * Count(length - 16, 32)
      /\ t.written = IF (length - 16) % 32 = 0 /\ length >= 16 THEN length ELSE 16
  BY <1>1, <1>2, <1>4 DEF Flat
<1>6. ASSUME t.length = t.written
      PROVE  16 + 32 * Count(length - 16, 32) = length
  <2>1. length = IF (length - 16) % 32 = 0 /\ length >= 16 THEN length ELSE 16
    BY <1>5, <1>6
  <2>2. Made(16, 16, 32, length)
    BY <1>3, <2>1 DEF Made
  <2> QED
    BY <2>2, EntriesWhole
<1> QED
  BY <1>3, <1>4, <1>5, <1>6 DEF Whole

LEMMA MsctWhole ==
  ASSUME NEW t \in MSCT
  PROVE  Whole(t)
<1>1. PICK length \in {56 + MSCTProximityDomainInfo_v1 * i : i \in 0 .. MaxEntries} \cup {56 - 1, 35} :
        t = Flat("MSCT", length, Count(length - TableHeader, MSCTProximityDomainInfo_v1),
                 msct_factory(Count(length - TableHeader, MSCTProximityDomainInfo_v1)),
                 IF (length - 56) % MSCTProximityDomainInfo_v1 = 0 /\ length >= 56 THEN length ELSE 56)
  BY DEF MSCT, Entries
<1>2. TableHeader = 36 /\ MSCTProximityDomainInfo_v1 = 22 /\ \A n \in Int : msct_factory(n) = 56 + 22 * n
  BY CommonSizes, FlatSizes
<1>3. length \in Nat
  BY <1>1, <1>2, FlatAssumption
<1>4. Count(length - 36, 22) \in Int
  BY <1>3 DEF Count
<1>5. /\ t.length = length /\ t.array = Count(length - 36, 22)
      /\ t.size = 56 + 22 * Count(length - 36, 22)
      /\ t.written = IF (length - 56) % 22 = 0 /\ length >= 56 THEN length ELSE 56
  BY <1>1, <1>2, <1>4 DEF Flat
<1>6. ASSUME t.length = t.written
      PROVE  56 + 22 * Count(length - 36, 22) = length
  <2>1. length = IF (length - 56) % 22 = 0 /\ length >= 56 THEN length ELSE 56
    BY <1>5, <1>6
  <2>2. Made(56, 36, 22, length)
    BY <1>3, <2>1 DEF Made
  <2> QED
    BY <2>2, EntriesWhole
<1> QED
  BY <1>3, <1>4, <1>5, <1>6 DEF Whole

LEMMA MsdmWhole ==
  ASSUME NEW t \in MSDM
  PROVE  Whole(t)
<1>1. PICK length \in {36 + 1 * i : i \in 0 .. MaxEntries} \cup {36 - 1, 35} :
        t = Flat("MSDM", length, Count(length - msdm_factory(0), 1),
                 msdm_factory(Count(length - msdm_factory(0), 1)),
                 IF (length - 36) % 1 = 0 /\ length >= 36 THEN length ELSE 36)
  BY DEF MSDM, Entries
<1>2. msdm_factory(0) = 36 /\ \A n \in Int : msdm_factory(n) = 36 + 1 * n
  BY CommonSizes, FlatSizes
<1>3. length \in Nat
  BY <1>1, <1>2, FlatAssumption
<1>4. Count(length - 36, 1) \in Int
  BY <1>3 DEF Count
<1>5. /\ t.length = length /\ t.array = Count(length - 36, 1)
      /\ t.size = 36 + 1 * Count(length - 36, 1)
      /\ t.written = IF (length - 36) % 1 = 0 /\ length >= 36 THEN length ELSE 36
  BY <1>1, <1>2, <1>4 DEF Flat
<1>6. ASSUME t.length = t.written
      PROVE  36 + 1 * Count(length - 36, 1) = length
  <2>1. length = IF (length - 36) % 1 = 0 /\ length >= 36 THEN length ELSE 36
    BY <1>5, <1>6
  <2>2. Made(36, 36, 1, length)
    BY <1>3, <2>1 DEF Made
  <2> QED
    BY <2>2, EntriesWhole
<1> QED
  BY <1>3, <1>4, <1>5, <1>6 DEF Whole

LEMMA SlicWhole ==
  ASSUME NEW t \in SLIC
  PROVE  Whole(t)
<1>1. PICK length \in {36 + 1 * i : i \in 0 .. MaxEntries} \cup {36 - 1, 35} :
        t = Flat("SLIC", length, Count(length - slic_factory(0), 1),
                 slic_factory(Count(length - slic_factory(0), 1)),
                 IF (length - 36) % 1 = 0 /\ length >= 36 THEN length ELSE 36)
  BY DEF SLIC, Entries
<1>2. slic_factory(0) = 36 /\ \A n \in Int : slic_factory(n) = 36 + 1 * n
  BY CommonSizes, FlatSizes
<1>3. length \in Nat
  BY <1>1, <1>2, FlatAssumption
<1>4. Count(length - 36, 1) \in Int
  BY <1>3 DEF Count
<1>5. /\ t.length = length /\ t.array = Count(length - 36, 1)
      /\ t.size = 36 + 1 * Count(length - 36, 1)
      /\ t.written = IF (length - 36) % 1 = 0 /\ length >= 36 THEN length ELSE 36
  BY <1>1, <1>2, <1>4 DEF Flat
<1>6. ASSUME t.length = t.written
      PROVE  36 + 1 * Count(length - 36, 1) = length
  <2>1. length = IF (length - 36) % 1 = 0 /\ length >= 36 THEN length ELSE 36
    BY <1>5, <1>6
  <2>2. Made(36, 36, 1, length)
    BY <1>3, <2>1 DEF Made
  <2> QED
    BY <2>2, EntriesWhole
<1> QED
  BY <1>3, <1>4, <1>5, <1>6 DEF Whole

LEMMA UefiWhole ==
  ASSUME NEW t \in UEFI
  PROVE  Whole(t)
<1>1. PICK length \in {54 + 1 * i : i \in 0 .. MaxEntries} \cup {54 - 1, 35} :
        t = Flat("UEFI", length, Count(length - uefi_factory(0), 1),
                 uefi_factory(Count(length - uefi_factory(0), 1)),
                 IF (length - 54) % 1 = 0 /\ length >= 54 THEN length ELSE 54)
  BY DEF UEFI, Entries
<1>2. uefi_factory(0) = 54 /\ \A n \in Int : uefi_factory(n) = 54 + 1 * n
  BY CommonSizes, FlatSizes
<1>3. length \in Nat
  BY <1>1, <1>2, FlatAssumption
<1>4. Count(length - 54, 1) \in Int
  BY <1>3 DEF Count
<1>5. /\ t.length = length /\ t.array = Count(length - 54, 1)
      /\ t.size = 54 + 1 * Count(length - 54, 1)
      /\ t.written = IF (length - 54) % 1 = 0 /\ length >= 54 THEN length ELSE 54
  BY <1>1, <1>2, <1>4 DEF Flat
<1>6. ASSUME t.length = t.written
      PROVE  54 + 1 * Count(length - 54, 1) = length
  <2>1. length = IF (length - 54) % 1 = 0 /\ length >= 54 THEN length ELSE 54
    BY <1>5, <1>6
  <2>2. Made(54, 54, 1, length)
    BY <1>3, <2>1 DEF Made
  <2> QED
    BY <2>2, EntriesWhole
<1> QED
  BY <1>3, <1>4, <1>5, <1>6 DEF Whole

LEMMA OtherWhole ==
  ASSUME NEW t \in FlatTables,
         t \in UNION {SLIT, BERT, SPCR, HPET, WDDT, RSDP, FACP, FACS}
  PROVE  Whole(t)
<1> USE DEF Flat, Whole
<1>1. CASE t \in SLIT
  <2>1. PICK n \in 0 .. MaxEntries :
          t = Flat("SLIT", 44 + n * n, n, slit_factory(n), 44 + n * n)
    BY <1>1 DEF SLIT
  <2>2. n \in Int
    BY FlatAssumption
  <2>3. slit_factory(n) = 44 + n * n
    BY <2>2, CommonSizes, Total3 DEF slit_factory, Packed
  <2> QED
    BY <2>1, <2>3
<1>2. CASE t \in BERT
  <2>1. t.length = 48 /\ t.size = BERT_v1
    BY <1>2 DEF BERT
  <2> QED
    BY <2>1, FlatSizes
<1>3. CASE t \in SPCR
  <2>1. t.length = 80 /\ t.size = SPCR_v1
    BY <1>3 DEF SPCR
  <2> QED
    BY <2>1, LongSizes
<1>7. CASE t \in HPET
  <2>1. t.length = 56 /\ t.size = HPET_v1
    BY <1>7 DEF HPET
  <2> QED
    BY <2>1, FlatSizes
<1>8. CASE t \in WDDT
  <2>1. t.length = 64 /\ t.size = WDDT_v1
    BY <1>8 DEF WDDT
  <2> QED
    BY <2>1, FlatSizes
<1>4. CASE t \in RSDP
  <2>1. PICK revision \in {0, 2} :
          t = Flat("RSDP", IF revision = 0 THEN 20 ELSE 36, 0,
                   IF revision = 2 THEN RSDP_v2 ELSE RSDP_v1,
                   IF revision = 0 THEN 20 ELSE 36)
    BY <1>4 DEF RSDP
  <2>2. RSDP_v1 = 20 /\ RSDP_v2 = 36
    BY FlatSizes
  <2> QED
    BY <2>1, <2>2
<1>6. CASE t \in FACP
  <2>1. FACP_v1 = 116 /\ FACP_v3 = 244 /\ FACP_v4 = 244 /\ FACP_v5 = 268
    BY LongSizes
  <2>2. PICK version \in {<<1, 116>>, <<2, 132>>, <<3, 244>>, <<4, 244>>,
                          <<5, 268>>, <<6, 276>>} :
          t = Flat(IF version[1] \in {2, 6} THEN "FACP of another revision" ELSE "FACP",
                   version[2], 0,
                   CASE version[1] < 3 -> FACP_v1
                     [] version[1] = 3 -> FACP_v3
                     [] version[1] = 4 -> FACP_v4
                     [] OTHER -> FACP_v5,
                   version[2])
    BY <1>6 DEF FACP
  <2>3. /\ t.of = IF version[1] \in {2, 6} THEN "FACP of another revision" ELSE "FACP"
        /\ t.length = version[2]
        /\ t.size = CASE version[1] < 3 -> FACP_v1
                      [] version[1] = 3 -> FACP_v3
                      [] version[1] = 4 -> FACP_v4
                      [] OTHER -> FACP_v5
    BY <2>2
  <2>5. CASE version = <<1, 116>>
    <3>1. version[1] = 1 /\ version[2] = 116
      BY <2>5
    <3> QED
      BY <2>1, <2>3, <3>1
  <2>6. CASE version = <<3, 244>>
    <3>1. version[1] = 3 /\ version[2] = 244
      BY <2>6
    <3> QED
      BY <2>1, <2>3, <3>1
  <2>7. CASE version = <<4, 244>>
    <3>1. version[1] = 4 /\ version[2] = 244
      BY <2>7
    <3> QED
      BY <2>1, <2>3, <3>1
  <2>8. CASE version = <<5, 268>>
    <3>1. version[1] = 5 /\ version[2] = 268
      BY <2>8
    <3> QED
      BY <2>1, <2>3, <3>1
  <2>9. CASE version = <<2, 132>>
    <3>1. version[1] = 2 /\ version[2] = 132
      BY <2>9
    <3>2. t.of \in Short
      BY <2>3, <3>1 DEF Short
    <3>3. t.length = 132
      BY <2>3, <3>1
    <3>4. t.size = FACP_v1
      <4>1. 2 < 3 /\ 2 # 3 /\ 2 # 4
        OBVIOUS
      <4> QED
        BY ONLY <2>3, <3>1, <4>1
    <3> QED
      BY <2>1, <3>2, <3>3, <3>4
  <2>10. CASE version = <<6, 276>>
    <3>1. version[1] = 6 /\ version[2] = 276
      BY <2>10
    <3>2. t.of \in Short
      BY <2>3, <3>1 DEF Short
    <3>3. t.length = 276
      BY <2>3, <3>1
    <3>4. t.size = FACP_v5
      <4>1. ~ 6 < 3 /\ 6 # 3 /\ 6 # 4
        OBVIOUS
      <4> QED
        BY ONLY <2>3, <3>1, <4>1
    <3> QED
      BY <2>1, <3>2, <3>3, <3>4
  <2> QED
    BY <2>2, <2>5, <2>6, <2>7, <2>8, <2>9, <2>10, Zenon
<1>5. CASE t \in FACS
  <2>1. PICK length \in {64, 68}, version \in 0 .. 2 :
          t.length = length /\ t.written = 64 /\ t.size = 64
    BY <1>5, FlatSizes DEF FACS
  <2> QED
    BY <2>1
<1> QED
  BY <1>1, <1>2, <1>3, <1>4, <1>5, <1>6, <1>7, <1>8

LEMMA FlatWhole ==
  ASSUME NEW t \in FlatTables
  PROVE  Whole(t)
BY RsdtWhole, XsdtWhole, McfgWhole, EinjWhole, TriggerWhole, MsctWhole, MsdmWhole,
   SlicWhole, UefiWhole, OtherWhole DEF FlatTables

-----------------------------------------------------------------------------
(* The entries of an MP table. *)

\* Widths that say nothing but how much is taken.
OnlyWidths(ws) == ws \in Seq(Int) /\ \A k \in 1 .. Len(ws) : ws[k] # Rest

LEMMA MpBodies ==
  /\ OnlyWidths(Processor) /\ Total(Processor) = 19
  /\ OnlyWidths(Bus) /\ Total(Bus) = 7
  /\ OnlyWidths(IOApic) /\ Total(IOApic) = 7
  /\ OnlyWidths(IOInterrupt) /\ Total(IOInterrupt) = 7
  /\ OnlyWidths(LocalInterrupt) /\ Total(LocalInterrupt) = 7
  /\ OnlyWidths(SystemAddressSpaceMapping) /\ Total(SystemAddressSpaceMapping) = 18
  /\ OnlyWidths(BusHierachyDescriptor) /\ Total(BusHierachyDescriptor) = 6
  /\ OnlyWidths(CompatibilityBusAddressSpaceModifier)
  /\ Total(CompatibilityBusAddressSpaceModifier) = 6
<1> USE DEF OnlyWidths, Rest
<1>1. OnlyWidths(Processor) /\ Total(Processor) = 19
  <2> DEFINE w == <<1, 1, 1, 4, 4, 8>>
  <2>1. w \in Seq(Int) /\ Len(w) = 6
    OBVIOUS
  <2>2. w[1] = 1 /\ w[2] = 1 /\ w[3] = 1 /\ w[4] = 4 /\ w[5] = 4 /\ w[6] = 8
    OBVIOUS
  <2> HIDE DEF w
  <2>3. Total(w) = w[1] + w[2] + w[3] + w[4] + w[5] + w[6]
    BY <2>1, Sum6
  <2>4. OnlyWidths(w) /\ Total(w) = 19
    BY <2>1, <2>2, <2>3
  <2> QED
    BY <2>4 DEF w, Processor
<1>2. OnlyWidths(Bus) /\ Total(Bus) = 7
  BY Total2 DEF Bus
<1>3. OnlyWidths(IOApic) /\ Total(IOApic) = 7
  BY Total4 DEF IOApic
<1>4. \A w : w = <<1, 1, 1, 1, 1, 1, 1>> => OnlyWidths(w) /\ Total(w) = 7
  <2> TAKE w
  <2> HAVE w = <<1, 1, 1, 1, 1, 1, 1>>
  <2>1. w \in Seq(Int) /\ Len(w) = 7 /\ \A i \in 1 .. 7 : w[i] = 1
    OBVIOUS
  <2>2. OnlyWidths(w)
    BY <2>1
  <2>3. Total(w) = 7
    <3>1. 7 \in Nat /\ \A i \in 1 .. Len(w) : w[i] = 1
      BY <2>1
    <3> QED
      BY <2>1, <3>1, TotalOnes
  <2> QED
    BY <2>2, <2>3
<1>5. OnlyWidths(SystemAddressSpaceMapping) /\ Total(SystemAddressSpaceMapping) = 18
  BY Total4 DEF SystemAddressSpaceMapping
<1>6. OnlyWidths(BusHierachyDescriptor) /\ Total(BusHierachyDescriptor) = 6
  BY Total4 DEF BusHierachyDescriptor
<1>7. OnlyWidths(CompatibilityBusAddressSpaceModifier)
      /\ Total(CompatibilityBusAddressSpaceModifier) = 6
  BY Total3 DEF CompatibilityBusAddressSpaceModifier
<1> QED
  BY <1>1, <1>2, <1>3, <1>4, <1>5, <1>6, <1>7 DEF IOInterrupt, LocalInterrupt

LEMMA BaseBodies ==
  ASSUME NEW type \in 0 .. 4
  PROVE  Unpacked(<<Always(BaseFields(type))>>, EntryLength(type), 1).at = EntryLength(type)
<1>1. OnlyWidths(BaseFields(type)) /\ 1 + Total(BaseFields(type)) = EntryLength(type)
      /\ EntryLength(type) \in Nat \ {0}
  BY MpBodies DEF BaseFields, EntryLength
<1>2. 1 \in Nat
  OBVIOUS
<1> QED
  BY <1>1, <1>2, UnpackedAlways DEF OnlyWidths

LEMMA ExtendedBodies ==
  ASSUME NEW type \in 128 .. 130, NEW length, length = ExtendedWritten(type)
  PROVE  ExtendedBody(type, length).at = length
<1>1. OnlyWidths(ExtendedFields(type)) /\ 2 + Total(ExtendedFields(type)) = length
      /\ length \in Nat \ {0}
  BY MpBodies DEF ExtendedFields, ExtendedWritten
<1>2. 2 \in Nat
  OBVIOUS
<1> QED
  BY <1>1, <1>2, UnpackedAlways DEF OnlyWidths, ExtendedBody

-----------------------------------------------------------------------------
(* The readers. *)

LEMMA EmptySequence == Len(<<>>) = 0 /\ \A S : <<>> \in Seq(S)
OBVIOUS

LEMMA NestingAllowed == 0 <= MaxNesting
BY AcpiAssumption

LEMMA OpenedStarts ==
  ASSUME NEW l, NEW from \in Nat, NEW end \in Int, Opened(l, from, end),
         l = "mp header" => from = 0,
         table = [from24 |-> table.from24, align |-> table.align,
                  left |-> table.left, place |-> table.place, bad |-> table.bad],
         table.align \in {4, 8}, table.left \in 0 .. MaxCount
  PROVE  ReaderInv
<1>1. list = l /\ u = [offset |-> from, size |-> end] /\ due = from /\ strayed = FALSE
      /\ outer = <<>>
  BY DEF Opened, Unpackable
<1>2. outer \in Seq(OuterLists) /\ Len(outer) <= MaxNesting
  <2>3. outer = <<>>
    BY <1>1
  <2> QED
    BY <2>3, NestingAllowed, EmptySequence
<1>3. Nested
  BY <1>1, NoElements DEF Nested
<1> QED
  BY <1>1, <1>2, <1>3 DEF ReaderInv

LEMMA PreambleOf ==
  ASSUME NEW l \in AcpiLists
  PROVE  Preamble(l) \in Nat
<1>1. /\ apic_factory(0) = 44 /\ ASF_factory(0) = 36 /\ pcct_factory(0) = 48
      /\ srat_factory(0) = 48 /\ dmar_factory(0) = 48 /\ pmtt_factory(0) = 40
      /\ mpst_factory(0, 0) - 4 = 44
  <2>1. mpst_factory(0, 0) = 48 + 0 + 24 * 0
    BY MpstSizes
  <2>2. mpst_factory(0, 0) - 4 = 44
    BY <2>1
  <2> QED
    BY <2>2, ApicSizes, AsfSizes, PcctSizes, SratSizes, PaddedSizes, PmttSizes
<1>2. l \in {"APIC", "_MAT", "ASF!", "PCCT", "SRAT", "DMAR", "PMTT", "MPST"}
  BY AcpiAssumption
<1> QED
  BY <1>1, <1>2 DEF Preamble

LEMMA ReaderStarts ==
  ASSUME ReaderInit \/ ReaderIdle
  PROVE  ReaderInv
<1>1. MaxCount \in Nat /\ 0 \in 0 .. MaxCount /\ MaxCount \in 0 .. MaxCount
  BY AcpiAssumption
<1>2. NoTable.left = 0 /\ NoTable.align = 4
      /\ NoTable = [from24 |-> NoTable.from24, align |-> NoTable.align,
                    left |-> NoTable.left, place |-> NoTable.place, bad |-> NoTable.bad]
  BY DEF NoTable
<1>3. CASE ReaderIdle
  <2>1. u = [offset |-> 0, size |-> 0] /\ due = 0 /\ strayed = FALSE /\ outer = <<>>
        /\ table = NoTable /\ list = "none"
    BY <1>3 DEF ReaderIdle, Unpackable
  <2>2. outer \in Seq(OuterLists) /\ Len(outer) <= MaxNesting
    BY <2>1, NestingAllowed, EmptySequence
  <2>3. Nested
    BY <2>1, NoElements DEF Nested
  <2>4. u \in [offset : Nat, size : Int] /\ due \in Nat /\ u.offset = due
    BY <2>1
  <2> QED
    BY <1>1, <1>2, <2>1, <2>2, <2>3, <2>4 DEF ReaderInv
<1>4. CASE SmbiosInit
  <2>1. PICK from24 \in BOOLEAN : table = [NoTable EXCEPT !.from24 = from24]
    BY <1>4 DEF SmbiosInit
  <2>2. PICK size \in SmbiosSizes : Opened("structures", 0, size)
    BY <1>4 DEF SmbiosInit
  <2>3. size \in Int /\ 0 \in Nat
    BY SmbiosAssumption
  <2>4. table.align = 4 /\ table.left = 0
        /\ table = [from24 |-> table.from24, align |-> table.align,
                    left |-> table.left, place |-> table.place, bad |-> table.bad]
    BY <1>2, <2>1
  <2> QED
    BY <1>1, <2>2, <2>3, <2>4, OpenedStarts
<1>5. CASE MpInit
  <2>1. PICK place : table = [NoTable EXCEPT !.place = place]
    BY <1>5 DEF MpInit
  <2>2. PICK base \in MpBaseLengths : Opened("mp header", 0, base)
    BY <1>5 DEF MpInit
  <2>3. base \in Int /\ 0 \in Nat
    BY MpAssumption
  <2>4. table.align = 4 /\ table.left = 0
        /\ table = [from24 |-> table.from24, align |-> table.align,
                    left |-> table.left, place |-> table.place, bad |-> table.bad]
    BY <1>2, <2>1
  <2> QED
    BY <1>1, <2>2, <2>3, <2>4, OpenedStarts
<1>6. CASE PirInit
  <2>1. table = NoTable /\ \E table_size \in PirSizes : Opened("pir", 0, table_size)
    BY <1>6 DEF PirInit, find_pir_table
  <2>2. PICK table_size \in PirSizes : Opened("pir", 0, table_size)
    BY <2>1
  <2>3. table_size \in Int /\ 0 \in Nat
    BY PirAssumption
  <2> QED
    BY <1>1, <1>2, <2>1, <2>2, <2>3, OpenedStarts
<1>7. CASE FlatInit
  <2>1. table = NoTable /\ Opened("table", 0, 0)
    BY <1>7 DEF FlatInit
  <2>2. 0 \in Int /\ 0 \in Nat
    OBVIOUS
  <2> QED
    BY <1>1, <1>2, <2>1, <2>2, OpenedStarts
<1>8. CASE ResourceInit
  <2>1. table = NoTable
    BY <1>8 DEF ResourceInit
  <2>2. PICK size \in BufferSizes : Opened("resources", 0, size)
    BY <1>8 DEF ResourceInit
  <2>3. size \in Int /\ 0 \in Nat
    BY ResourceAssumption
  <2> QED
    BY <1>1, <1>2, <2>1, <2>2, <2>3, OpenedStarts
<1>9. CASE AcpiInit
  <2>1. PICK l \in AcpiLists, size \in AcpiSizes, align \in {4, 8} :
          /\ table = [NoTable EXCEPT !.align = align,
                                     !.left = IF l = "MPST" THEN MaxCount ELSE 0]
          /\ Opened(l, Preamble(l), Preamble(l) + size)
    BY <1>9 DEF AcpiInit
  <2>2. Preamble(l) \in Nat /\ Preamble(l) + size \in Int
    <3>1. size \in Nat
      BY AcpiAssumption
    <3>2. Preamble(l) \in Nat
      BY PreambleOf
    <3> QED
      BY <3>1, <3>2
  <2>3. l # "mp header"
    BY AcpiAssumption
  <2>4. table.align = align /\ table.left = (IF l = "MPST" THEN MaxCount ELSE 0)
        /\ table = [from24 |-> table.from24, align |-> table.align,
                    left |-> table.left, place |-> table.place, bad |-> table.bad]
    BY <1>2, <2>1
  <2>5. table.align \in {4, 8} /\ table.left \in 0 .. MaxCount
    BY <1>1, <2>4
  <2> QED
    BY <2>1, <2>2, <2>3, <2>4, <2>5, OpenedStarts
<1> QED
  BY <1>3, <1>4, <1>5, <1>6, <1>7, <1>8, <1>9 DEF ReaderInit

LEMMA ReaderInvariant == Spec => []ReaderInv
<1>1. Init => ReaderInv
  BY ReaderStarts DEF Init
<1>2. ReaderInv /\ [Next]_vars => ReaderInv'
  <2> SUFFICES ASSUME ReaderInv, [Next]_vars PROVE ReaderInv'
    OBVIOUS
  <2>1. CASE ReaderNext
    BY <2>1, SmbiosSteps, MpSteps, PieceSteps, AcpiSteps, ResourceSteps DEF ReaderNext
  <2>2. CASE UNCHANGED readerVars
    BY <2>2, Stays DEF readerVars
  <2> QED
    BY <2>1, <2>2 DEF Next, Rests, vars
<1> QED
  BY <1>1, <1>2, PTL DEF Spec

\* A reader of a firmware table is at the next record of the table for as long as it has
\* met nothing but records of the kinds and lengths that firmware writes, however many
\* there are, in whatever order, and however deep they are nested: the ctypes classes
\* that acpi.py lays one behind the other, and the lengths by which smbios.py, mptable.py
\* and parse_descriptor move on, agree with the table.
THEOREM FirmwareInStep == Spec => []InStep
<1>1. ReaderInv => InStep
  BY DEF ReaderInv, InStep
<1> QED
  BY <1>1, ReaderInvariant, PTL

-----------------------------------------------------------------------------
(* What a reader has read last. *)

\* The steps after which last is a record that DecodedExactly says nothing of.
LEMMA NothingSaid ==
  ASSUME DecodedExactly,
         UNCHANGED last \/ last' = NoRecord \/ last'.kind \in {"smbios", "pir"}
  PROVE  DecodedExactly'
BY DEF DecodedExactly, NoRecord

LEMMA DecodedSteps ==
  ASSUME ReaderInv, DecodedExactly, ReaderNext
  PROVE  DecodedExactly'
<1>1. CASE SmbiosNext
  <2>1. CASE ReadStructure
    <3>1. PICK length \in SmbiosLengths : \E s \in Structures(length) : last' = DecodedStructure(s)
      BY <2>1 DEF ReadStructure
    <3>2. PICK s \in Structures(length) : last' = DecodedStructure(s)
      BY <3>1
    <3>3. last'.kind = "smbios"
      BY <3>2 DEF DecodedStructure
    <3> QED
      BY <3>3, NothingSaid
  <2> QED
    BY <1>1, <2>1, NothingSaid
    DEF SmbiosNext, KeepStructure, StructureRaises, StructuresEnd, Raises, Ends
<1>2. CASE MpNext
  <2>1. CASE ReadEntry
    <3>1. PICK type \in 0 .. 5 :
            last' = Decoded("mp", "entry", EntryLength(type),
                            Unpacked(<<Always(BaseFields(type))>>, EntryLength(type), 1).at,
                            IF type = 5 THEN 0 ELSE EntryWritten(type))
      BY <2>1 DEF ReadEntry
    <3>2. /\ last'.length = EntryLength(type)
          /\ last'.at = Unpacked(<<Always(BaseFields(type))>>, EntryLength(type), 1).at
          /\ last'.written = IF type = 5 THEN 0 ELSE EntryWritten(type)
      BY <3>1 DEF Decoded
    <3>3. EntryLength(type) # 0
      BY DEF EntryLength
    <3>4. last'.length = last'.written => type \in 0 .. 4
      BY <3>2, <3>3
    <3>5. last'.length = last'.written => last'.at = last'.length
      BY <3>2, <3>4, BaseBodies
    <3> QED
      BY <3>5 DEF DecodedExactly
  <2>2. CASE ReadExtended
    <3>1. PICK type \in 128 .. 131 : \E length \in ExtendedLengths(type) :
            /\ ExtendedFits(type, length)
            /\ last' = Decoded("mp", "entry", length, ExtendedBody(type, length).at,
                               ExtendedWritten(type))
      BY <2>2 DEF ReadExtended
    <3>2. PICK length \in ExtendedLengths(type) :
            /\ ExtendedFits(type, length)
            /\ last' = Decoded("mp", "entry", length, ExtendedBody(type, length).at,
                               ExtendedWritten(type))
      BY <3>1
    <3>3. /\ last'.length = length /\ last'.at = ExtendedBody(type, length).at
          /\ last'.written = ExtendedWritten(type)
      BY <3>2 DEF Decoded
    <3>4. length >= 2
      BY <3>2 DEF ExtendedFits
    <3>5. type = 131 => ExtendedWritten(type) = 0
      BY DEF ExtendedWritten
    <3>6. last'.length = last'.written => type \in 128 .. 130
      <4>1. ~ (0 >= 2) /\ (type \in 128 .. 130 \/ type = 131)
        OBVIOUS
      <4> QED
        BY <3>3, <3>4, <3>5, <4>1
    <3>7. last'.length = last'.written => last'.at = last'.length
      BY <3>3, <3>6, ExtendedBodies
    <3> QED
      BY <3>7 DEF DecodedExactly
  <2> QED
    BY <1>2, <2>1, <2>2, NothingSaid
    DEF MpNext, SkipHeader, HeaderRaises, EntryRaises, OpenExtended, ExtendedRaises,
        ExtendedEnds, Raises, Ends
<1>3. CASE PirNext
  <2>1. UNCHANGED last \/ last' = Decoded("pir", "PIR", u.size, pir_factory(NumSlots), u.size)
    BY <1>3 DEF PirNext, ReadPir, PirRaises, Raises
  <2>2. UNCHANGED last \/ last'.kind = "pir"
    BY <2>1 DEF Decoded
  <2> QED
    BY <2>2, NothingSaid
<1>4. CASE FlatNext
  <2>1. CASE ReadTable
    <3>1. PICK t \in FlatTables : last' = Decoded("table", t.of, t.length, t.size, t.written)
      BY <2>1 DEF ReadTable
    <3>2. Whole(t)
      BY FlatWhole
    <3>3. last'.of = t.of /\ last'.length = t.length /\ last'.at = t.size
          /\ last'.written = t.written
      BY <3>1 DEF Decoded
    <3> QED
      BY <3>2, <3>3 DEF Whole, DecodedExactly
  <2> QED
    BY <1>4, <2>1, NothingSaid DEF FlatNext, TableRaises, Raises
<1>5. CASE AcpiNext
  <2>1. UNCHANGED last
    BY <1>5 DEF AcpiNext, WalkRecord, WalkRaises, WalkForever, WalkInto, WalkOut,
                WalkEnds, LayoutRaises, Raises, Ends
  <2> QED
    BY <2>1, NothingSaid
<1>6. CASE ResourceNext
  <2>1. CASE ReadDescriptor
    <3>1. PICK item \in Items :
            last' = Decoded("resource", item.of, item.length + HeaderBytes(item.large),
                            item.size, item.written + HeaderBytes(item.large))
      BY <2>1 DEF ReadDescriptor
    <3>2. u.offset \in Nat /\ u.size \in Int /\ u.offset < u.size
      BY <2>1 DEF ReadDescriptor, ReaderInv
    <3>3. Classed(item)
      BY <3>2, ItemsClassed
    <3>4. HeaderBytes(item.large) \in Nat
      BY DEF HeaderBytes
    <3>5. item.length + HeaderBytes(item.large) = item.written + HeaderBytes(item.large)
            => item.length = item.written
      BY <3>3, <3>4 DEF Classed
    <3>6. last'.of = item.of /\ last'.length = item.length + HeaderBytes(item.large)
          /\ last'.at = item.size
          /\ last'.written = item.written + HeaderBytes(item.large)
      BY <3>1 DEF Decoded
    <3> QED
      BY <3>3, <3>5, <3>6 DEF Classed, DecodedExactly
  <2> QED
    BY <1>6, <2>1, NothingSaid
    DEF ResourceNext, DescriptorRaises, ReturnRest, ResourcesEnd, Raises, Ends
<1> QED
  BY <1>1, <1>2, <1>3, <1>4, <1>5, <1>6 DEF ReaderNext

\* The class that is laid over a whole table, over a resource descriptor or over an entry
\* of an MP table takes all its bytes and no more, whenever it is as long as firmware
\* makes it: the sizes of the classes, the number of entries taken from the length, and
\* the choice of a class by revision or length are right.
THEOREM FirmwareDecodedExactly == Spec => []DecodedExactly
<1>1. Init => DecodedExactly
  <2>1. ReaderInit \/ ReaderIdle => last = NoRecord
    <3>1. \A l, from, end : Opened(l, from, end) => last = NoRecord
      BY DEF Opened
    <3>2. ReaderIdle => last = NoRecord
      BY DEF ReaderIdle
    <3>3. SmbiosInit \/ MpInit \/ FlatInit \/ AcpiInit \/ ResourceInit => last = NoRecord
      BY <3>1 DEF SmbiosInit, MpInit, FlatInit, AcpiInit, ResourceInit
    <3>4. PirInit => last = NoRecord
      BY <3>1 DEF PirInit, find_pir_table
    <3> QED
      BY <3>2, <3>3, <3>4 DEF ReaderInit
  <2>2. last = NoRecord => DecodedExactly
    BY DEF DecodedExactly, NoRecord
  <2> QED
    BY <2>1, <2>2 DEF Init
<1>2. ReaderInv /\ DecodedExactly /\ [Next]_vars => DecodedExactly'
  <2> SUFFICES ASSUME ReaderInv, DecodedExactly, [Next]_vars PROVE DecodedExactly'
    OBVIOUS
  <2>1. CASE ReaderNext
    BY <2>1, DecodedSteps
  <2>2. CASE UNCHANGED readerVars
    BY <2>2, NothingSaid DEF readerVars
  <2> QED
    BY <2>1, <2>2 DEF Next, Rests, vars
<1> QED
  BY <1>1, <1>2, ReaderInvariant, PTL DEF Spec

-----------------------------------------------------------------------------
(* The structures of SMBIOS. *)

\* The structures that the properties leave out.
LostOf(s) == {l \in Nat : <<s.type, l>> \in Undecoded}
WrongOf(s) == {l \in Nat : <<s.type, l>> \in Misguarded}

\* The types whose bodies are not fields alone.
OpenEnded == {15, 40, 42}

\* More exceptions may be made.
LEMMA LaidOf ==
  ASSUME NEW groups, NEW length, NEW lost, NEW wrong, NEW lost2, NEW wrong2,
         Laid(groups, length, lost, wrong), length \in lost => length \in lost2,
         length \in wrong => length \in wrong2
  PROVE  Laid(groups, length, lost2, wrong2)
BY DEF Laid

\* Each type has its class.
LEMMA BodyLaid ==
  ASSUME NEW s, Formatted(s), s.type \notin OpenEnded
  PROVE  Laid(Body(s), s.length, LostOf(s), WrongOf(s))
<1>1. s.type \in Nat /\ s.length \in Nat /\ s.length >= 4
  BY DEF Formatted
<1>2. ASSUME NEW body, Body(s) = body, Laid(body, s.length, {}, {})
      PROVE  Laid(Body(s), s.length, LostOf(s), WrongOf(s))
  BY <1>2, LaidOf
<1>3. CASE s.type = 0
  <2>1. Body(s) = BIOSInformation(s)
    BY <1>3 DEF Body
  <2>2. Laid(BIOSInformation(s), s.length, {}, {})
    BY <1>1, BIOSInformationLaid
  <2> QED
    BY <1>2, <2>1, <2>2
<1>4. CASE s.type = 1
  <2>1. Body(s) = SystemInformation
    BY <1>4 DEF Body
  <2>2. Laid(SystemInformation, s.length, {}, {})
    BY <1>1, SystemInformationLaid
  <2> QED
    BY <1>2, <2>1, <2>2
<1>5. CASE s.type = 2
  <2>1. Body(s) = BaseboardInformation(s)
    BY <1>5 DEF Body
  <2>2. Laid(BaseboardInformation(s), s.length, {}, {})
    BY <1>1, BaseboardInformationLaid
  <2> QED
    BY <1>2, <2>1, <2>2
<1>6. CASE s.type = 3
  <2>1. Body(s) = SystemEnclosure(s)
    BY <1>6 DEF Body
  <2>2. Laid(SystemEnclosure(s), s.length, {}, {})
    BY <1>1, SystemEnclosureLaid
  <2> QED
    BY <1>2, <2>1, <2>2
<1>7. CASE s.type = 4
  <2>1. Body(s) = ProcessorInformation
    BY <1>7 DEF Body
  <2>2. Laid(ProcessorInformation, s.length, {36}, {})
    BY <1>1, ProcessorInformationLaid
  <2>3. /\ s.length \in {36} => s.length \in LostOf(s)
        /\ s.length \in {} => s.length \in WrongOf(s)
    BY <1>1, <1>7 DEF LostOf, WrongOf, Undecoded, Misguarded
  <2> QED
    BY ONLY <2>1, <2>2, <2>3, LaidOf
<1>8. CASE s.type = 5
  <2>1. Body(s) = MemoryControllerInformation
    BY <1>8 DEF Body
  <2>2. Laid(MemoryControllerInformation, s.length, {}, {})
    BY <1>1, MemoryControllerInformationLaid
  <2> QED
    BY <1>2, <2>1, <2>2
<1>9. CASE s.type = 6
  <2>1. Body(s) = MemoryModuleInformation
    BY <1>9 DEF Body
  <2>2. Laid(MemoryModuleInformation, s.length, {}, {})
    BY <1>1, MemoryModuleInformationLaid
  <2> QED
    BY <1>2, <2>1, <2>2
<1>10. CASE s.type = 7
  <2>1. Body(s) = CacheInformation
    BY <1>10 DEF Body
  <2>2. Laid(CacheInformation, s.length, {}, {17})
    BY <1>1, CacheInformationLaid
  <2>3. /\ s.length \in {} => s.length \in LostOf(s)
        /\ s.length \in {17} => s.length \in WrongOf(s)
    BY <1>1, <1>10 DEF LostOf, WrongOf, Undecoded, Misguarded
  <2> QED
    BY ONLY <2>1, <2>2, <2>3, LaidOf
<1>11. CASE s.type = 8
  <2>1. Body(s) = PortConnectorInfo
    BY <1>11 DEF Body
  <2>2. Laid(PortConnectorInfo, s.length, {}, {})
    BY <1>1, PortConnectorInfoLaid
  <2> QED
    BY <1>2, <2>1, <2>2
<1>12. CASE s.type = 9
  <2>1. Body(s) = SystemSlots
    BY <1>12 DEF Body
  <2>2. Laid(SystemSlots, s.length, {}, {})
    BY <1>1, SystemSlotsLaid
  <2> QED
    BY <1>2, <2>1, <2>2
<1>13. CASE s.type = 10
  <2>1. Body(s) = OnBoardDevicesInformation
    BY <1>13 DEF Body
  <2>2. Laid(OnBoardDevicesInformation, s.length, {}, {})
    BY <1>1, OnBoardDevicesInformationLaid
  <2> QED
    BY <1>2, <2>1, <2>2
<1>14. CASE s.type = 11
  <2>1. Body(s) = OEMStrings
    BY <1>14 DEF Body
  <2>2. Laid(OEMStrings, s.length, {}, {})
    BY <1>1, OEMStringsLaid
  <2> QED
    BY <1>2, <2>1, <2>2
<1>15. CASE s.type = 12
  <2>1. Body(s) = SystemConfigOptions
    BY <1>15 DEF Body
  <2>2. Laid(SystemConfigOptions, s.length, {}, {})
    BY <1>1, SystemConfigOptionsLaid
  <2> QED
    BY <1>2, <2>1, <2>2
<1>16. CASE s.type = 13
  <2>1. Body(s) = BIOSLanguageInformation
    BY <1>16 DEF Body
  <2>2. Laid(BIOSLanguageInformation, s.length, {}, {})
    BY <1>1, BIOSLanguageInformationLaid
  <2> QED
    BY <1>2, <2>1, <2>2
<1>17. CASE s.type = 14
  <2>1. Body(s) = GroupAssociations
    BY <1>17 DEF Body
  <2>2. Laid(GroupAssociations, s.length, {}, {})
    BY <1>1, GroupAssociationsLaid
  <2> QED
    BY <1>2, <2>1, <2>2
<1>18. CASE s.type = 16
  <2>1. Body(s) = PhysicalMemoryArray
    BY <1>18 DEF Body
  <2>2. Laid(PhysicalMemoryArray, s.length, {}, {})
    BY <1>1, PhysicalMemoryArrayLaid
  <2> QED
    BY <1>2, <2>1, <2>2
<1>19. CASE s.type = 17
  <2>1. Body(s) = MemoryDevice
    BY <1>19 DEF Body
  <2>2. Laid(MemoryDevice, s.length, {}, {})
    BY <1>1, MemoryDeviceLaid
  <2> QED
    BY <1>2, <2>1, <2>2
<1>20. CASE s.type = 18
  <2>1. Body(s) = MemoryErrorInfo32Bit
    BY <1>20 DEF Body
  <2>2. Laid(MemoryErrorInfo32Bit, s.length, {}, {})
    BY <1>1, MemoryErrorInfo32BitLaid
  <2> QED
    BY <1>2, <2>1, <2>2
<1>21. CASE s.type = 19
  <2>1. Body(s) = MemoryArrayMappedAddress(s)
    BY <1>21 DEF Body
  <2>2. Laid(MemoryArrayMappedAddress(s), s.length, {}, {})
    BY <1>1, MemoryArrayMappedAddressLaid
  <2> QED
    BY <1>2, <2>1, <2>2
<1>22. CASE s.type = 20
  <2>1. Body(s) = MemoryDeviceMappedAddress(s)
    BY <1>22 DEF Body
  <2>2. Laid(MemoryDeviceMappedAddress(s), s.length, {}, {})
    BY <1>1, MemoryDeviceMappedAddressLaid
  <2> QED
    BY <1>2, <2>1, <2>2
<1>23. CASE s.type = 21
  <2>1. Body(s) = BuiltInPointingDevice
    BY <1>23 DEF Body
  <2>2. Laid(BuiltInPointingDevice, s.length, {}, {})
    BY <1>1, BuiltInPointingDeviceLaid
  <2> QED
    BY <1>2, <2>1, <2>2
<1>24. CASE s.type = 22
  <2>1. Body(s) = PortableBattery
    BY <1>24 DEF Body
  <2>2. Laid(PortableBattery, s.length, {}, {})
    BY <1>1, PortableBatteryLaid
  <2> QED
    BY <1>2, <2>1, <2>2
<1>25. CASE s.type = 23
  <2>1. Body(s) = SystemReset
    BY <1>25 DEF Body
  <2>2. Laid(SystemReset, s.length, {}, {7})
    BY <1>1, SystemResetLaid
  <2>3. /\ s.length \in {} => s.length \in LostOf(s)
        /\ s.length \in {7} => s.length \in WrongOf(s)
    BY <1>1, <1>25 DEF LostOf, WrongOf, Undecoded, Misguarded
  <2> QED
    BY ONLY <2>1, <2>2, <2>3, LaidOf
<1>26. CASE s.type = 24
  <2>1. Body(s) = HardwareSecurity
    BY <1>26 DEF Body
  <2>2. Laid(HardwareSecurity, s.length, {}, {})
    BY <1>1, HardwareSecurityLaid
  <2> QED
    BY <1>2, <2>1, <2>2
<1>27. CASE s.type = 25
  <2>1. Body(s) = SystemPowerControls
    BY <1>27 DEF Body
  <2>2. Laid(SystemPowerControls, s.length, {}, {})
    BY <1>1, SystemPowerControlsLaid
  <2> QED
    BY <1>2, <2>1, <2>2
<1>28. CASE s.type = 26
  <2>1. Body(s) = VoltageProbe
    BY <1>28 DEF Body
  <2>2. Laid(VoltageProbe, s.length, {}, {})
    BY <1>1, VoltageProbeLaid
  <2> QED
    BY <1>2, <2>1, <2>2
<1>29. CASE s.type = 27
  <2>1. Body(s) = CoolingDevice
    BY <1>29 DEF Body
  <2>2. Laid(CoolingDevice, s.length, {}, {})
    BY <1>1, CoolingDeviceLaid
  <2> QED
    BY <1>2, <2>1, <2>2
<1>30. CASE s.type = 28
  <2>1. Body(s) = TemperatureProbe
    BY <1>30 DEF Body
  <2>2. Laid(TemperatureProbe, s.length, {}, {})
    BY <1>1, TemperatureProbeLaid
  <2> QED
    BY <1>2, <2>1, <2>2
<1>31. CASE s.type = 29
  <2>1. Body(s) = ElectricalCurrentProbe
    BY <1>31 DEF Body
  <2>2. Laid(ElectricalCurrentProbe, s.length, {}, {})
    BY <1>1, ElectricalCurrentProbeLaid
  <2> QED
    BY <1>2, <2>1, <2>2
<1>32. CASE s.type = 30
  <2>1. Body(s) = OutOfBandRemoteAccess
    BY <1>32 DEF Body
  <2>2. Laid(OutOfBandRemoteAccess, s.length, {}, {})
    BY <1>1, OutOfBandRemoteAccessLaid
  <2> QED
    BY <1>2, <2>1, <2>2
<1>33. CASE s.type = 32
  <2>1. Body(s) = SystemBootInformation
    BY <1>33 DEF Body
  <2>2. Laid(SystemBootInformation, s.length, 5 .. 10, {})
    BY <1>1, SystemBootInformationLaid
  <2>3. /\ s.length \in 5 .. 10 => s.length \in LostOf(s)
        /\ s.length \in {} => s.length \in WrongOf(s)
    BY <1>1, <1>33 DEF LostOf, WrongOf, Undecoded, Misguarded
  <2> QED
    BY ONLY <2>1, <2>2, <2>3, LaidOf
<1>34. CASE s.type = 33
  <2>1. Body(s) = MemoryErrorInfo64Bit
    BY <1>34 DEF Body
  <2>2. Laid(MemoryErrorInfo64Bit, s.length, {}, {19, 27})
    BY <1>1, MemoryErrorInfo64BitLaid
  <2>3. /\ s.length \in {} => s.length \in LostOf(s)
        /\ s.length \in {19, 27} => s.length \in WrongOf(s)
    BY <1>1, <1>34 DEF LostOf, WrongOf, Undecoded, Misguarded
  <2> QED
    BY ONLY <2>1, <2>2, <2>3, LaidOf
<1>35. CASE s.type = 34
  <2>1. Body(s) = ManagementDevice
    BY <1>35 DEF Body
  <2>2. Laid(ManagementDevice, s.length, {}, {})
    BY <1>1, ManagementDeviceLaid
  <2> QED
    BY <1>2, <2>1, <2>2
<1>36. CASE s.type = 35
  <2>1. Body(s) = ManagementDeviceComponent
    BY <1>36 DEF Body
  <2>2. Laid(ManagementDeviceComponent, s.length, {}, {})
    BY <1>1, ManagementDeviceComponentLaid
  <2> QED
    BY <1>2, <2>1, <2>2
<1>37. CASE s.type = 36
  <2>1. Body(s) = ManagementDeviceThresholdData
    BY <1>37 DEF Body
  <2>2. Laid(ManagementDeviceThresholdData, s.length, {}, {})
    BY <1>1, ManagementDeviceThresholdDataLaid
  <2> QED
    BY <1>2, <2>1, <2>2
<1>38. CASE s.type = 37
  <2>1. Body(s) = MemoryChannel
    BY <1>38 DEF Body
  <2>2. Laid(MemoryChannel, s.length, 6 .. 12, {6, 7, 8, 10})
    BY <1>1, MemoryChannelLaid
  <2>3. /\ s.length \in 6 .. 12 => s.length \in LostOf(s)
        /\ s.length \in {6, 7, 8, 10} => s.length \in WrongOf(s)
    BY <1>1, <1>38 DEF LostOf, WrongOf, Undecoded, Misguarded
  <2> QED
    BY ONLY <2>1, <2>2, <2>3, LaidOf
<1>39. CASE s.type = 38
  <2>1. Body(s) = IPMIDeviceInformation
    BY <1>39 DEF Body
  <2>2. Laid(IPMIDeviceInformation, s.length, {}, {})
    BY <1>1, IPMIDeviceInformationLaid
  <2> QED
    BY <1>2, <2>1, <2>2
<1>40. CASE s.type = 39
  <2>1. Body(s) = SystemPowerSupply
    BY <1>40 DEF Body
  <2>2. Laid(SystemPowerSupply, s.length, {}, {})
    BY <1>1, SystemPowerSupplyLaid
  <2> QED
    BY <1>2, <2>1, <2>2
<1>41. CASE s.type = 41
  <2>1. Body(s) = OnboardDevicesExtendedInformation
    BY <1>41 DEF Body
  <2>2. Laid(OnboardDevicesExtendedInformation, s.length, {}, {})
    BY <1>1, OnboardDevicesExtendedInformationLaid
  <2> QED
    BY <1>2, <2>1, <2>2
<1>42. CASE s.type = 31
  <2>1. Body(s) = <<>>
    BY <1>42 DEF Body
  <2> QED
    BY <1>1, <1>2, <2>1, NoFields
<1>43. CASE s.type > 42
  <2>1. ASSUME NEW n \in Nat, n > 42, s.type = n
        PROVE  Body(s) = <<>>
    BY ONLY <2>1, n \in Nat, SMTT(60) DEF Body
  <2> QED
    BY <1>1, <1>2, <1>43, <2>1, NoFields
<1> QED
  BY <1>1, <1>3, <1>4, <1>5, <1>6, <1>7, <1>8, <1>9, <1>10, <1>11, <1>12, <1>13, <1>14,
     <1>15, <1>16, <1>17, <1>18, <1>19, <1>20, <1>21, <1>22, <1>23, <1>24, <1>25, <1>26,
     <1>27, <1>28, <1>29, <1>30, <1>31, <1>32, <1>33, <1>34, <1>35, <1>36, <1>37, <1>38,
     <1>39, <1>40, <1>41, <1>42, <1>43 DEF OpenEnded

\* A body that ends with the rest of the structure.
LEMMA OpenRead ==
  ASSUME NEW ws \in Seq(Nat), Contains(ws, Rest), Total(ws) >= Rest,
         NEW length \in Nat, length >= 4, length <= 255,
         NEW groups, Len(groups) = 2, groups[1] = Over(4, << 1 >>), groups[2] = Over(5, ws)
  PROVE  /\ Unpacked(groups, length, 4).at \in Nat
         /\ Complete(groups, length) /\ ToItsEnd(groups, length)
<1>1. /\ Len(groups) = 2 /\ groups[1][1] = 4 /\ groups[2][1] = 5
      /\ groups[1][2] = <<1>> /\ groups[2][2] = ws
  BY DEF Over
<1>2. \A i \in 1 .. 2 : i = 1 \/ i = 2
  OBVIOUS
<1>3. Len(ws) \in Nat /\ Total(ws) \in Nat /\ Len(<<1>>) = 1 /\ Total(<<1>>) = 1
      /\ ~ Contains(<<1>>, Rest) /\ Total(Known(<<1>>)) = 1
  <2>1. Len(ws) \in Nat /\ Total(ws) \in Nat /\ Len(<<1>>) = 1
    BY TotalNat, LenProperties
  <2>2. Takes(<<1>>, 1)
    BY Takes1 DEF Rest
  <2> QED
    BY <2>1, <2>2, TakesKnown DEF Takes
<1>4. Unpacked(groups, length, 4)
        = [raised |-> 4 + Total(Taken(groups, length)) > length,
           at |-> IF \E i \in 1 .. Len(groups) : /\ length > groups[i][1]
                                                 /\ Contains(groups[i][2], Rest)
                  THEN length ELSE 4 + Total(Taken(groups, length))]
  <2>1. Len(groups) \in Nat
    BY <1>1
  <2>2. \A i \in 1 .. Len(groups) : Len(groups[i][2]) \in Nat
    BY <1>1, <1>2, <1>3
  <2> QED
    BY <2>1, <2>2, UnpackedIs
<1>5. CASE length > 5
  <2>1. \E i \in 1 .. Len(groups) : length > groups[i][1] /\ Contains(groups[i][2], Rest)
    <3>1. 2 \in 1 .. Len(groups) /\ length > groups[2][1] /\ Contains(groups[2][2], Rest)
      BY <1>1, <1>5
    <3> QED
      BY <3>1
  <2>2. Unpacked(groups, length, 4).at = length
    BY <1>4, <2>1
  <2>3. ~ \E k \in 0 .. Len(Sizes(groups)) : length = 4 + Total(SubSeq(Sizes(groups), 1, k))
    <3>1. Sizes(groups) = <<1, Total(ws)>>
      <4>1. Sizes(groups) = [i \in 1 .. 2 |-> Total(groups[i][2])]
        BY <1>1 DEF Sizes
      <4>2. \A i \in 1 .. 2 : Total(groups[i][2]) = <<1, Total(ws)>>[i]
        BY <1>1, <1>2, <1>3
      <4> QED
        BY <4>1, <4>2
    <3> DEFINE z == Sizes(groups)
    <3>2. z \in Seq(Int) /\ Len(z) = 2 /\ z[1] = 1 /\ z[2] = Total(ws)
      BY <1>3, <3>1
    <3> HIDE DEF z
    <3>3. ASSUME NEW k \in 0 .. 2 PROVE Total(SubSeq(z, 1, k)) \in {0, 1, 1 + Total(ws)}
      <4>1. k \in Nat /\ SubSeq(z, 1, k) \in Seq(Int) /\ Len(SubSeq(z, 1, k)) = k
            /\ \A i \in 1 .. k : SubSeq(z, 1, k)[i] = z[i]
        <5>1. k \in Nat /\ \A i \in 1 .. k : z[i] \in Int
          <6>1. \A i \in 1 .. 2 : z[i] \in Int
            BY <3>2, ElementOfSeq
          <6>2. k \in Nat /\ \A i \in 1 .. k : i \in 1 .. 2
            OBVIOUS
          <6> QED
            BY <6>1, <6>2
        <5>2. /\ SubSeq(z, 1, k) \in Seq(Int) /\ Len(SubSeq(z, 1, k)) = k
              /\ \A i \in 1 .. k : SubSeq(z, 1, k)[i] = z[1 + i - 1] /\ 1 + i - 1 = i
          BY <5>1, SubSeqProperties
        <5> QED
          BY <5>1, <5>2
      <4>2. PICK f : Sums(SubSeq(z, 1, k), f) /\ Total(SubSeq(z, 1, k)) = f[k]
        BY <4>1, TotalSteps
      <4>3. f[0] = 0 /\ (k >= 1 => f[1] = f[0] + z[1]) /\ (k >= 2 => f[2] = f[1] + z[2])
        BY <4>1, <4>2 DEF Sums
      <4> QED
        BY <3>2, <4>2, <4>3
    <3>4. length # 4 /\ length # 5 /\ length # 4 + (1 + Total(ws))
      BY <1>3, <1>5 DEF Rest
    <3> QED
      BY <3>2, <3>3, <3>4 DEF z
  <2> QED
    BY <2>2, <2>3 DEF Complete, ToItsEnd
<1>6. CASE length = 4 \/ length = 5
  <2> DEFINE t == Taken(groups, length)
             n == IF length = 5 THEN 1 ELSE 0
  <2>1. t = <<n, 0>>
    <3>1. t = [i \in 1 .. 2 |-> IF length > groups[i][1] THEN Total(Known(groups[i][2])) ELSE 0]
      BY <1>1 DEF Taken
    <3>2. \A i \in 1 .. 2 : (IF length > groups[i][1] THEN Total(Known(groups[i][2])) ELSE 0)
                              = <<n, 0>>[i]
      <4>1. (IF length > groups[1][1] THEN Total(Known(groups[1][2])) ELSE 0) = n
        BY ONLY <1>1, <1>3, <1>6
      <4>2. (IF length > groups[2][1] THEN Total(Known(groups[2][2])) ELSE 0) = 0
        BY <1>1, <1>6
      <4> HIDE DEF n
      <4> QED
        BY ONLY <1>2, <4>1, <4>2
    <3> HIDE DEF t, n
    <3> QED
      BY <3>1, <3>2
  <2>2. Total(t) = n + 0
    <3>1. n \in Int
      OBVIOUS
    <3> HIDE DEF n
    <3> QED
      BY <2>1, <3>1, Total2
  <2>3. 4 + Total(t) = length
    BY <1>6, <2>2
  <2>4. ~ \E i \in 1 .. Len(groups) : length > groups[i][1] /\ Contains(groups[i][2], Rest)
    BY ONLY <1>1, <1>2, <1>3, <1>6
  <2> HIDE DEF t
  <2>5. Unpacked(groups, length, 4).at = length /\ ~ Unpacked(groups, length, 4).raised
    <3>1. Unpacked(groups, length, 4) = [raised |-> FALSE, at |-> length]
      <4>1. (4 + Total(Taken(groups, length)) > length) = FALSE
        BY <2>3 DEF t
      <4> QED
        BY <1>4, <2>3, <2>4, <4>1 DEF t
    <3> QED
      BY <3>1
  <2> QED
    BY <2>5 DEF Complete, ToItsEnd
<1> QED
  <2>1. Unpacked(groups, length, 4).at \in Nat
    <3>1. Len(groups) \in Nat /\ \A i \in 1 .. Len(groups) : groups[i][2] \in Seq(Nat)
      <4>1. <<1>> \in Seq(Nat)
        OBVIOUS
      <4>2. groups[1][2] \in Seq(Nat) /\ groups[2][2] \in Seq(Nat)
        BY <1>1, <4>1
      <4>3. \A i \in 1 .. 2 : groups[i][2] \in Seq(Nat)
        <5> TAKE i \in 1 .. 2
        <5>1. CASE i = 1
          BY <4>2, <5>1
        <5>2. CASE i = 2
          BY <4>2, <5>2
        <5> QED
          BY <1>2, <5>1, <5>2
      <4> QED
        BY <1>1, <4>3
    <3> QED
      BY <3>1, UnpackedNat
  <2> QED
    BY <1>5, <1>6, <2>1

\* A log that has no count of its descriptors.
LEMMA ShortLog ==
  ASSUME NEW s, Formatted(s), s.type = 15, ~ (s.length > 22)
  PROVE  Unpacked(Body(s), s.length, 4).at \in Nat /\ LogLengthWrong(s)
<1> DEFINE front == <<Always(<<2, 2, 2, 1, 1, 4, 4>>), Over(20, <<1>>), Over(21, <<1>>),
                      Over(22, <<1>>)>>
           groups == <<Always(<<2, 2, 2, 1, 1, 4, 4>>), Over(20, <<1>>), Over(21, <<1>>),
                       Over(22, <<1>>), Always(<<Raise>>)>>
<1>1. s.length \in Nat /\ s.length <= 22 /\ s.count \in 0 .. 2 /\ s.each \in {0, 2, 3}
  BY DEF Formatted
<1>2. Body(s) = groups
  <2>1. Body(s) = SystemEventLog(s)
    BY DEF Body
  <2>2. SystemEventLog(s) = front \o <<Always(<<Raise>>)>>
    BY <1>1 DEF SystemEventLog
  <2> QED
    BY <2>1, <2>2, Joined41
<1>3. Len(groups) = 5 /\ \A i \in 1 .. 5 : groups[i][2] \in Seq(Nat)
  BY DEF Always, Over, Raise
<1>4. Unpacked(Body(s), s.length, 4).at \in Nat
  <2> HIDE DEF groups
  <2>1. Len(groups) \in Nat /\ \A i \in 1 .. Len(groups) : groups[i][2] \in Seq(Nat)
    BY <1>3
  <2> QED
    BY <1>1, <1>2, <2>1, UnpackedNat
<1>5. LogLengthWrong(s)
  <2>1. \A m \in 0 .. 2, n \in {0, 2, 3} : m * n \in Nat
    OBVIOUS
  <2>2. s.count * s.each \in Nat
    BY <1>1, <2>1
  <2> QED
    BY <1>1, <2>2 DEF LogLengthWrong
<1> QED
  BY <1>4, <1>5

\* What is read of any structure.
LEMMA BodyRead ==
  ASSUME NEW s, Formatted(s)
  PROVE  /\ Unpacked(Body(s), s.length, 4).at \in Nat
         /\ \/ s.type = 15 /\ LogLengthWrong(s)
            \/ /\ s.length \notin LostOf(s) => Complete(Body(s), s.length)
               /\ s.length \notin WrongOf(s) => ToItsEnd(Body(s), s.length)
<1>1. s.length \in Nat /\ s.length >= 4 /\ s.length <= 255
  BY DEF Formatted
<1>2. CASE s.type \notin OpenEnded
  BY <1>1, <1>2, BodyLaid, LaidRead
<1>3. CASE s.type = 15 /\ s.length > 22
  <2>1. Body(s) = SystemEventLog(s)
    BY <1>3 DEF Body
  <2>2. Laid(SystemEventLog(s), s.length, {}, {})
    BY <1>3, SystemEventLogLaid
  <2> QED
    BY <1>1, <2>1, <2>2, LaidRead
<1>4. CASE s.type = 15 /\ ~ (s.length > 22)
  BY <1>4, ShortLog
<1>5. CASE s.type = 40
  <2>1. Len(Body(s)) = 2 /\ Body(s)[1] = Over(4, <<1>>) /\ Body(s)[2] = Over(5, <<1, 2, 1, 1, Rest>>)
    BY <1>5 DEF Body, AdditionalInformation
  <2> DEFINE ws == <<1, 2, 1, 1, Rest>>
  <2>2. ws \in Seq(Nat) /\ ws[5] = Rest /\ Len(ws) = 5
    BY DEF Rest
  <2>3. Total(ws) = 1 + 2 + 1 + 1 + Rest
    BY Total5 DEF Rest
  <2>4. Total(ws) >= Rest
    BY <2>3 DEF Rest
  <2> HIDE DEF ws
  <2>5. Contains(ws, Rest)
    BY <2>2 DEF Contains
  <2> QED
    BY <1>1, <2>1, <2>2, <2>4, <2>5, OpenRead DEF ws
<1>6. CASE s.type = 42
  <2>1. Len(Body(s)) = 2 /\ Body(s)[1] = Over(4, <<1>>) /\ Body(s)[2] = Over(5, <<Rest>>)
    BY <1>6 DEF Body, ManagementControllerHostInterface
  <2> DEFINE ws == <<Rest>>
  <2>2. ws \in Seq(Nat) /\ ws[1] = Rest /\ Len(ws) = 1
    BY DEF Rest
  <2>3. Total(ws) = Rest
    BY Total1 DEF Rest
  <2>4. Total(ws) >= Rest
    BY <2>3 DEF Rest
  <2> HIDE DEF ws
  <2>5. Contains(ws, Rest)
    BY <2>2 DEF Contains
  <2> QED
    BY <1>1, <2>1, <2>2, <2>4, <2>5, OpenRead DEF ws
<1> QED
  BY <1>2, <1>3, <1>4, <1>5, <1>6 DEF OpenEnded

\* What StructuresDecoded says of the record d.
RightlyDecoded(d) ==
  d.kind = "smbios" =>
    /\ <<d.of.type, d.length>> \notin Misguarded /\ EndsBetweenFields(d.of)
          /\ ~ (d.of.type = 15 /\ LogLengthWrong(d.of)) => d.at = d.length /\ ~ d.failed
    /\ <<d.of.type, d.length>> \notin Undecoded /\ ~ d.failed
         => d.at = d.length \/ d.at = 4 + Total(KnownFields(d.of))

\* A structure as ReadStructure chooses it.
LEMMA StructureFormatted ==
  ASSUME NEW length \in SmbiosLengths, length >= 4, table.from24 \in BOOLEAN,
         NEW s \in Structures(length)
  PROVE  Formatted(s) /\ s.length = length
<1> DEFINE Wide(type) == IF type \in {19, 20} THEN BOOLEAN ELSE {FALSE}
           Of(type) == {[type |-> type, length |-> length, from24 |-> table.from24,
                         count |-> count, each |-> each, extended |-> extended] :
                          count \in Counts(type), each \in Eaches(type),
                          extended \in Wide(type)}
<1>1. PICK type \in SmbiosTypes : s \in Of(type)
  <2>1. Structures(length) = UNION {Of(type) : type \in SmbiosTypes}
    BY DEF Structures
  <2> HIDE DEF Of
  <2> QED
    BY <2>1
<1>2. PICK count \in Counts(type), each \in Eaches(type), extended \in Wide(type) :
        s = [type |-> type, length |-> length, from24 |-> table.from24,
             count |-> count, each |-> each, extended |-> extended]
  <2> HIDE DEF Wide
  <2> QED
    BY <1>1
<1>3. length \in 4 .. 255 /\ type \in Nat
  BY SmbiosAssumption
<1>4. count \in 0 .. 2 /\ each \in {0, 2, 3} /\ extended \in BOOLEAN
  <2>1. count \in 0 .. 2
    BY DEF Counts
  <2>2. each \in {0, 2, 3}
    BY DEF Eaches
  <2> QED
    BY <2>1, <2>2
<1> QED
  BY <1>2, <1>3, <1>4 DEF Formatted

\* The record of a structure is as the property asks.
LEMMA StructureDecoded ==
  ASSUME NEW s, Formatted(s), NEW d, d = DecodedStructure(s)
  PROVE  /\ RightlyDecoded(d)
         /\ d.kind = "smbios" /\ d.length \in Nat /\ d.at \in Nat /\ d.length >= 4
<1> DEFINE b == Unpacked(Body(s), s.length, 4)
           failed == b.raised \/ (s.type = 15 /\ LogLengthWrong(s))
<1>1. s.length \in Nat /\ s.length >= 4
  BY DEF Formatted
<1>2. d.kind = "smbios" /\ d.of = s /\ d.length = s.length /\ d.at = b.at
      /\ (d.failed <=> failed)
  <2>1. d = [kind |-> "smbios", of |-> s, length |-> s.length, at |-> b.at, failed |-> failed]
    BY DEF DecodedStructure
  <2>2. failed \in BOOLEAN
    OBVIOUS
  <2> HIDE DEF b, failed
  <2> QED
    BY <2>1, <2>2
<1>3. KnownFields(s) = Sizes(Body(s))
  BY DEF KnownFields, Sizes
<1>4. EndsBetweenFields(s)
        <=> \E k \in 0 .. Len(Sizes(Body(s))) :
              /\ s.length = 4 + Total(SubSeq(Sizes(Body(s)), 1, k))
              /\ \A j \in k + 1 .. Len(Body(s)) : Body(s)[j][1] # 0
  BY <1>3 DEF EndsBetweenFields
<1>5. /\ b.at \in Nat
      /\ \/ s.type = 15 /\ LogLengthWrong(s)
         \/ /\ s.length \notin LostOf(s) => Complete(Body(s), s.length)
            /\ s.length \notin WrongOf(s) => ToItsEnd(Body(s), s.length)
  BY BodyRead
<1>6. /\ s.length \in LostOf(s) => <<s.type, s.length>> \in Undecoded
      /\ s.length \in WrongOf(s) => <<s.type, s.length>> \in Misguarded
  BY DEF LostOf, WrongOf
<1>7. Complete(Body(s), s.length)
        <=> (~ b.raised => b.at = s.length \/ b.at = 4 + Total(KnownFields(s)))
  BY <1>3 DEF Complete
<1>8. ToItsEnd(Body(s), s.length)
        <=> (EndsBetweenFields(s) => b.at = s.length /\ ~ b.raised)
  BY <1>4 DEF ToItsEnd
<1> HIDE DEF b
<1>9. RightlyDecoded(d)
  <2>1. <<s.type, s.length>> \notin Misguarded /\ EndsBetweenFields(s)
          /\ ~ (s.type = 15 /\ LogLengthWrong(s)) => b.at = s.length /\ ~ failed
    BY ONLY <1>5, <1>6, <1>8
  <2>2. <<s.type, s.length>> \notin Undecoded /\ ~ failed
          => b.at = s.length \/ b.at = 4 + Total(KnownFields(s))
    BY ONLY <1>5, <1>6, <1>7
  <2> HIDE DEF failed
  <2>3. <<d.of.type, d.length>> \notin Misguarded /\ EndsBetweenFields(d.of)
          /\ ~ (d.of.type = 15 /\ LogLengthWrong(d.of)) => d.at = d.length /\ ~ d.failed
    BY ONLY <1>2, <2>1
  <2>4. <<d.of.type, d.length>> \notin Undecoded /\ ~ d.failed
          => d.at = d.length \/ d.at = 4 + Total(KnownFields(d.of))
    BY ONLY <1>2, <2>2
  <2> QED
    BY ONLY <2>3, <2>4 DEF RightlyDecoded
<1> QED
  BY <1>1, <1>2, <1>5, <1>9

-----------------------------------------------------------------------------
(* The record that is read, and its type. *)

States == {"idle", "reading", "done", "raised", "endless"}

\* The record read last is one of some length, and SMBIOS structures are decoded
\* by the version of the table.
LastInv ==
  /\ status \in States
  /\ table.from24 \in BOOLEAN
  /\ last.kind # "none" => last.at \in Nat /\ last.length \in Nat
  /\ RightlyDecoded(last)

\* The steps that leave no record, or the last one.
LEMMA LastKept ==
  ASSUME LastInv, UNCHANGED last \/ last' = NoRecord,
         table'.from24 = table.from24, status' \in States
  PROVE  LastInv'
<1>1. CASE UNCHANGED last
  BY <1>1 DEF LastInv
<1>2. CASE last' = NoRecord
  <2>1. last'.kind = "none"
    BY <1>2 DEF NoRecord
  <2> QED
    BY <2>1 DEF LastInv, RightlyDecoded
<1> QED
  BY <1>1, <1>2

\* The steps that make a record of another kind than SMBIOS structures.
LEMMA LastMade ==
  ASSUME LastInv, NEW kind, kind # "smbios", NEW of, NEW length \in Nat, NEW at \in Nat,
         NEW written, last' = Decoded(kind, of, length, at, written),
         table' = table, status' \in States
  PROVE  LastInv'
<1>1. last'.kind = kind /\ last'.length = length /\ last'.at = at
  BY DEF Decoded
<1> QED
  BY <1>1 DEF LastInv, RightlyDecoded

\* Nothing has been read at first.
LEMMA LastStarts ==
  ASSUME ReaderInit \/ ReaderIdle
  PROVE  LastInv
<1>1. NoTable.from24 = FALSE /\ NoRecord.kind = "none"
      /\ NoTable = [from24 |-> NoTable.from24, align |-> NoTable.align,
                    left |-> NoTable.left, place |-> NoTable.place, bad |-> NoTable.bad]
  BY DEF NoTable, NoRecord
<1>2. \A l, from, end : Opened(l, from, end) => last = NoRecord /\ status = "reading"
  BY DEF Opened
<1>3. last = NoRecord /\ status \in States
  <2>1. CASE ReaderIdle
    BY <2>1 DEF ReaderIdle, States
  <2>2. CASE SmbiosInit \/ MpInit \/ FlatInit \/ AcpiInit \/ ResourceInit
    BY <1>2, <2>2 DEF SmbiosInit, MpInit, FlatInit, AcpiInit, ResourceInit, States
  <2>3. CASE PirInit
    BY <1>2, <2>3 DEF PirInit, find_pir_table, States
  <2> QED
    BY <2>1, <2>2, <2>3 DEF ReaderInit
<1>4. table.from24 \in BOOLEAN
  <2>1. CASE ReaderIdle \/ PirInit \/ FlatInit \/ ResourceInit
    <3>1. table = NoTable
      BY ONLY <2>1 DEF ReaderIdle, PirInit, FlatInit, ResourceInit
    <3> QED
      BY <1>1, <3>1
  <2>2. CASE SmbiosInit
    <3>1. PICK from24 \in BOOLEAN : table = [NoTable EXCEPT !.from24 = from24]
      BY <2>2 DEF SmbiosInit
    <3> QED
      BY <1>1, <3>1
  <2>3. CASE MpInit
    <3>1. PICK place : table = [NoTable EXCEPT !.place = place]
      BY <2>3 DEF MpInit
    <3> QED
      BY <1>1, <3>1
  <2>4. CASE AcpiInit
    <3>1. PICK align, left : table = [NoTable EXCEPT !.align = align, !.left = left]
      BY <2>4 DEF AcpiInit
    <3> QED
      BY <1>1, <3>1
  <2> QED
    BY <2>1, <2>2, <2>3, <2>4 DEF ReaderInit
<1> QED
  BY <1>1, <1>3, <1>4 DEF LastInv, RightlyDecoded

\* The readers, one after the other.
LEMMA SmbiosLast ==
  ASSUME ReaderInv, LastInv, SmbiosNext
  PROVE  LastInv'
<1>1. CASE ReadStructure
  <2>1. PICK length \in SmbiosLengths, strings \in 0 .. MaxStrings :
          Framed(length, strings)
          /\ \E s \in Structures(length) : last' = DecodedStructure(s)
    BY <1>1 DEF ReadStructure
  <2>2. PICK s \in Structures(length) : last' = DecodedStructure(s)
    BY <2>1
  <2>3. length >= 4 /\ table.from24 \in BOOLEAN
    BY <2>1 DEF Framed, LastInv
  <2>4. Formatted(s)
    BY <2>3, StructureFormatted
  <2>5. RightlyDecoded(last') /\ last'.at \in Nat /\ last'.length \in Nat
    BY <2>2, <2>4, StructureDecoded
  <2>6. UNCHANGED <<table, status>>
    BY <1>1 DEF ReadStructure
  <2> QED
    BY <2>5, <2>6 DEF LastInv, RightlyDecoded
<1>2. CASE KeepStructure \/ StructureRaises \/ StructuresEnd
  BY <1>2, LastKept
  DEF KeepStructure, StructureRaises, StructuresEnd, Raises, Ends, LastInv, States
<1> QED
  BY <1>1, <1>2 DEF SmbiosNext

\* The fields of MP entries have widths.
LEMMA EntryWidths ==
  ASSUME NEW type
  PROVE  /\ BaseFields(type) \in Seq(Nat) /\ ExtendedFields(type) \in Seq(Nat)
         /\ EntryLength(type) \in Nat
<1>1. /\ Processor \in Seq(Nat) /\ Bus \in Seq(Nat) /\ IOApic \in Seq(Nat)
      /\ IOInterrupt \in Seq(Nat) /\ LocalInterrupt \in Seq(Nat)
      /\ UnknownEntry \in Seq(Nat)
  BY DEF Processor, Bus, IOApic, IOInterrupt, LocalInterrupt, UnknownEntry
<1>2. /\ SystemAddressSpaceMapping \in Seq(Nat) /\ BusHierachyDescriptor \in Seq(Nat)
      /\ CompatibilityBusAddressSpaceModifier \in Seq(Nat) /\ UnknownExtended \in Seq(Nat)
  BY DEF SystemAddressSpaceMapping, BusHierachyDescriptor,
         CompatibilityBusAddressSpaceModifier, UnknownExtended
<1> QED
  BY <1>1, <1>2 DEF BaseFields, ExtendedFields, EntryLength

\* Fields without a test end at some byte.
LEMMA FieldsAt ==
  ASSUME NEW ws \in Seq(Nat), NEW length \in Nat, NEW from \in Nat
  PROVE  Unpacked(<<Always(ws)>>, length, from).at \in Nat
<1> DEFINE groups == <<Always(ws)>>
<1>1. Len(groups) = 1 /\ groups[1][2] = ws
  BY DEF Always
<1> HIDE DEF groups
<1>2. Len(groups) \in Nat /\ \A i \in 1 .. Len(groups) : groups[i][2] \in Seq(Nat)
  <2>1. \A i \in 1 .. 1 : i = 1
    OBVIOUS
  <2> QED
    BY <1>1, <2>1
<1> QED
  BY <1>2, UnpackedNat DEF groups

LEMMA MpLast ==
  ASSUME ReaderInv, LastInv, MpNext
  PROVE  LastInv'
<1>1. CASE ReadEntry
  <2>1. PICK type \in 0 .. 5 :
          last' = Decoded("mp", "entry", EntryLength(type),
                          Unpacked(<<Always(BaseFields(type))>>, EntryLength(type), 1).at,
                          IF type = 5 THEN 0 ELSE EntryWritten(type))
    BY <1>1 DEF ReadEntry
  <2>2. /\ EntryLength(type) \in Nat /\ 1 \in Nat
        /\ Unpacked(<<Always(BaseFields(type))>>, EntryLength(type), 1).at \in Nat
    BY EntryWidths, FieldsAt
  <2>3. table' = table /\ status' \in States
    BY <1>1 DEF ReadEntry, LastInv
  <2> QED
    BY <2>1, <2>2, <2>3, LastMade
<1>2. CASE ReadExtended
  <2>1. PICK type \in 128 .. 131 : \E length \in ExtendedLengths(type) :
          last' = Decoded("mp", "entry", length, ExtendedBody(type, length).at,
                          ExtendedWritten(type))
    BY <1>2 DEF ReadExtended
  <2>2. PICK length \in ExtendedLengths(type) :
          last' = Decoded("mp", "entry", length, ExtendedBody(type, length).at,
                          ExtendedWritten(type))
    BY <2>1
  <2>3. length \in Nat /\ 2 \in Nat
    BY DEF ExtendedLengths
  <2>4. ExtendedBody(type, length).at \in Nat
    BY <2>3, EntryWidths, FieldsAt DEF ExtendedBody
  <2>5. table' = table /\ status' \in States
    BY <1>2 DEF ReadExtended, LastInv
  <2> QED
    BY <2>2, <2>3, <2>4, <2>5, LastMade
<1>3. CASE SkipHeader \/ HeaderRaises \/ EntryRaises \/ OpenExtended
           \/ ExtendedRaises \/ ExtendedEnds
  BY <1>3, LastKept
  DEF SkipHeader, HeaderRaises, EntryRaises, OpenExtended, ExtendedRaises, ExtendedEnds,
      Raises, Ends, LastInv, States
<1> QED
  BY <1>1, <1>2, <1>3 DEF MpNext

LEMMA PieceLast ==
  ASSUME ReaderInv, LastInv, PirNext \/ FlatNext
  PROVE  LastInv'
<1>1. CASE ReadPir
  <2>1. /\ last' = Decoded("pir", "PIR", u.size, pir_factory(NumSlots), u.size)
        /\ table' = table /\ status' = "done" /\ NumSlots >= 0 /\ list = "pir"
    BY <1>1 DEF ReadPir, Reading
  <2>2. u.size \in Nat /\ NumSlots \in Int
    <3>1. pir_factory(0) = 64 /\ SlotEntry = 16 /\ u.size \in Int
      <4>1. u.size \in Int
        BY DEF ReaderInv
      <4>2. pir_factory(0) = 64 + 0 * 16
        BY PirClasses
      <4> QED
        BY <4>1, <4>2, PirClasses
    <3>2. NumSlots = (u.size - 64) \div 16
      BY <3>1 DEF NumSlots, Count
    <3> QED
      BY <2>1, <3>1, <3>2
  <2>3. pir_factory(NumSlots) \in Nat
    BY <2>1, <2>2, PirClasses
  <2> QED
    BY <2>1, <2>2, <2>3, LastMade DEF States
<1>2. CASE ReadTable
  <2>1. PICK t \in FlatTables :
          t.array >= 0 /\ last' = Decoded("table", t.of, t.length, t.size, t.written)
    BY <1>2 DEF ReadTable
  <2>2. t.length \in Nat /\ t.size \in Nat
    BY <2>1, FlatWhole DEF Whole
  <2>3. table' = table /\ status' = "done"
    BY <1>2 DEF ReadTable
  <2> QED
    BY <2>1, <2>2, <2>3, LastMade DEF States
<1>3. CASE PirRaises \/ TableRaises
  BY <1>3, LastKept DEF PirRaises, TableRaises, Raises, States
<1> QED
  BY <1>1, <1>2, <1>3 DEF PirNext, FlatNext

LEMMA AcpiLast ==
  ASSUME ReaderInv, LastInv, AcpiNext
  PROVE  LastInv'
<1>1. CASE WalkRecord
  <2>1. PICK bad, left : table' = [table EXCEPT !.bad = bad, !.left = left]
    BY <1>1 DEF WalkRecord
  <2>2. table'.from24 = table.from24
    <3>1. table = [from24 |-> table.from24, align |-> table.align, left |-> table.left,
                   place |-> table.place, bad |-> table.bad]
      BY DEF ReaderInv
    <3> QED
      BY <2>1, <3>1
  <2>3. UNCHANGED <<last, status>>
    BY <1>1 DEF WalkRecord
  <2> QED
    BY <2>2, <2>3, LastKept DEF LastInv
<1>2. CASE WalkRaises \/ WalkForever \/ WalkInto \/ WalkOut \/ WalkEnds \/ LayoutRaises
  <2>1. UNCHANGED <<table, last>> /\ (UNCHANGED status \/ status' \in States)
    BY <1>2 DEF WalkRaises, WalkForever, WalkInto, WalkOut, WalkEnds, LayoutRaises, Raises,
       Ends,
                States
  <2> QED
    BY <2>1, LastKept DEF LastInv
<1> QED
  BY <1>1, <1>2 DEF AcpiNext

LEMMA ResourceLast ==
  ASSUME ReaderInv, LastInv, ResourceNext
  PROVE  LastInv'
<1>1. CASE ReadDescriptor
  <2>1. PICK item \in Items :
          last' = Decoded("resource", item.of, item.length + HeaderBytes(item.large),
                          item.size, item.written + HeaderBytes(item.large))
    BY <1>1 DEF ReadDescriptor
  <2>2. u.offset \in Nat /\ u.size \in Int /\ u.offset < u.size
    BY <1>1 DEF ReadDescriptor, ReaderInv
  <2>3. item.length + HeaderBytes(item.large) \in Nat /\ item.size \in Nat
    BY <2>2, ItemsClassed DEF Classed, HeaderBytes
  <2>4. table' = table /\ status' \in States
    BY <1>1 DEF ReadDescriptor, LastInv
  <2> QED
    BY <2>1, <2>3, <2>4, LastMade
<1>2. CASE DescriptorRaises \/ ReturnRest \/ ResourcesEnd
  BY <1>2, LastKept DEF DescriptorRaises, ReturnRest, ResourcesEnd, Raises, Ends, States
<1> QED
  BY <1>1, <1>2 DEF ResourceNext

LEMMA LastInvariant == Spec => []LastInv
<1>1. Init => LastInv
  BY LastStarts DEF Init
<1>2. ReaderInv /\ LastInv /\ [Next]_vars => LastInv'
  <2> SUFFICES ASSUME ReaderInv, LastInv, [Next]_vars PROVE LastInv'
    OBVIOUS
  <2>1. CASE ReaderNext
    BY <2>1, SmbiosLast, MpLast, PieceLast, AcpiLast, ResourceLast DEF ReaderNext
  <2>2. CASE UNCHANGED readerVars
    BY <2>2, LastKept DEF readerVars, LastInv
  <2> QED
    BY <2>1, <2>2 DEF Next, Rests, vars
<1> QED
  BY <1>1, <1>2, ReaderInvariant, PTL DEF Spec

\* Of every structure of every type, length and version of the table, all that its class
\* knows is read, or a failure is flagged; and one that ends between two fields is read to
\* its end: each "if self.length >" of smbios.py stands where the widths of the fields
\* before it say, but for the lengths that Misguarded and Undecoded list.
THEOREM FirmwareStructuresDecoded == Spec => []StructuresDecoded
<1>1. LastInv => StructuresDecoded
  BY DEF LastInv, RightlyDecoded, StructuresDecoded, GuardsMatchFields, NoSilentLoss
<1> QED
  BY <1>1, LastInvariant, PTL

\* The readers, the injection and the microcode commands keep their variables within their
\* types, whatever is in the tables: no offset is negative, no nesting is deeper than
\* MaxNesting, and a record that has been read has a length and an end.
THEOREM FirmwareTypeOK == Spec => []TablesTypeOK
<1>1. EinjInv /\ McuInv => EinjTypeOK /\ McuTypeOK
  BY DEF EinjInv, McuInv, McuTyped
<1>2. ReaderInv => /\ u.offset \in Nat /\ u.size \in Int /\ due \in Nat
                   /\ strayed \in BOOLEAN /\ Len(outer) <= MaxNesting
                   /\ table.left \in 0 .. MaxCount
  BY DEF ReaderInv
<1>3. ReaderInv /\ LastInv /\ EinjInv /\ McuInv => TablesTypeOK
  BY ONLY <1>1, <1>2 DEF LastInv, States, TablesTypeOK
<1> QED
  BY <1>3, ReaderInvariant, LastInvariant, EinjInvariant, McuInvariant, PTL

=============================================================================
