-------------------------- MODULE EfiSocketProofs --------------------------
(***************************************************************************)
(* What is proved of EfiSocket, for any set of sockets and any sizes of    *)
(* what is sent and received: the types, that events and tokens are kept   *)
(* account of, that the stream is in order and its end told in its place,  *)
(* and that what select returns holds.                                     *)
(*                                                                         *)
(* c_event_callback ignores the result of Py_AddPendingCall                *)
(* (efimodule.c:116): a completion that finds the queue of pending calls   *)
(* full is lost, and its event with it.  So all of this holds as long as   *)
(* the queue has room for all events (RoomForAll).                         *)
(***************************************************************************)
EXTENDS EfiSocket, SequenceTheorems, FiniteSetTheorems, TLAPS

\* No completion is lost because Python's queue of pending calls is full.
RoomForAll == Cardinality(Event) < NPENDINGCALLS

ExitPcs == {"exit", "abort", "close_all", "close_event", "exited", "exit_failed"}
SelectPcs == {"select", "select_start"}
ReadPcs == {"read", "start", "check", "copy"}

CallType ==
  [pc : Pcs, at : Sock, limit : {"never", "now", "later"},
   status : {"none", "ok", "error", "fin"}, want : Nat, copied : Nat,
   asked : SUBSET (Sock \X {"read", "write"}), todo : SUBSET (Sock \X {"read", "write"}),
   ready : SUBSET (Sock \X {"read", "write"})]

\* The types, of the histories and the local variables too.
Typed ==
  /\ TypeOK
  /\ call \in CallType
  /\ queue \in [Sock -> Seq(Result \ {Fin})]
  /\ got \in [Sock -> Seq(Nat)]
  /\ \A s \in Sock : taken[s] <= sent[s]

\* Where the program is says what its local variables hold.
CallOf ==
  /\ exiting <=> call.pc \in ExitPcs
  /\ call.todo # {} => call.pc \in SelectPcs
  /\ call.pc \in ReadPcs /\ call.at \in Client => call.want # 0
  /\ call.pc = "copy" => call.at \in Client

\* The events that may be created are not open.
Unopened ==
  ~ exiting =>
    \A s \in Sock :
      /\ tcp[s] = "unconfigured" => <<s, "connect">> \notin handlers
      /\ ~ closed[s] => <<s, "close">> \notin handlers

\* A token is started for an empty queue, or one that a callback has just put
\* something into.
StartsEmpty ==
  call.pc \in {"start", "select_start"} =>
    Len(queue[at]) + (IF running[at] THEN 1 ELSE 0) <= 1

\* The end of a stream is reported for a read, after all that was sent.
EndTold ==
  /\ \A e \in Event : outcome[e] = Fin =>
       e[2] = "read" /\ fin[e[1]] /\ taken[e[1]] = sent[e[1]]
  /\ \A s \in Sock : shut[s] => fin[s] /\ taken[s] = sent[s]
  /\ \A s \in Sock : fin[s] => s \in Client
  /\ ~ exiting => \A s \in Sock : ~ (shut[s] /\ running[s])

\* What the firmware hands over for a read is an error, the end, or some data.
SomeData(o) == o.status = "ok" => o.data # <<>>
DataNotEmpty ==
  /\ \A s \in Sock : SomeData(outcome[<<s, "read">>])
  /\ \A s \in Sock : \A i \in DOMAIN queue[s] : SomeData(queue[s][i])

\* recv finds something to copy, or the end; what it copies select has not
\* promised to anybody.
CopiesReadable ==
  call.pc = "copy" =>
    /\ call.copied = 0 => Readable(at)
    /\ <<at, "read">> \notin told

\* What a select in progress has found is still there.
Ready(x) == IF x[2] = "read" THEN Readable(x[1]) ELSE connectStatus[x[1]] # "none"
FoundReady == call.pc \in SelectPcs => \A x \in call.ready : Ready(x)

EventInv == Typed /\ CallOf /\ Unopened /\ EventsExact /\ RunningExact /\ StartsEmpty
StreamInv == EndTold /\ DataNotEmpty /\ StreamInOrder /\ CopiesReadable /\ EofMeansAll
SelectInv == FoundReady /\ SelectedReady
SocketInv == EventInv /\ StreamInv /\ SelectInv

-----------------------------------------------------------------------------
(* Sequences: the pending calls, and the streams. *)

LEMMA AppendSet ==
  ASSUME NEW S, NEW q \in Seq(S), NEW e \in S
  PROVE  /\ ToSet(Append(q, e)) = ToSet(q) \cup {e}
         /\ IsInjective(q) /\ e \notin ToSet(q) => IsInjective(Append(q, e))
<1>1. /\ DOMAIN q = 1 .. Len(q) /\ Len(q) \in Nat
      /\ DOMAIN Append(q, e) = 1 .. Len(q) + 1
      /\ \A i \in 1 .. Len(q) : Append(q, e)[i] = q[i]
      /\ Append(q, e)[Len(q) + 1] = e
  BY LenProperties, AppendProperties
<1>2. \A i \in 1 .. Len(q) + 1 : i \in 1 .. Len(q) \/ i = Len(q) + 1
  BY <1>1
<1>3. ToSet(Append(q, e)) = ToSet(q) \cup {e}
  BY <1>1, <1>2 DEF ToSet
<1>4. IsInjective(q) /\ e \notin ToSet(q) => IsInjective(Append(q, e))
  BY <1>1, <1>2 DEF ToSet, IsInjective
<1> QED
  BY <1>3, <1>4

LEMMA TailSet ==
  ASSUME NEW S, NEW q \in Seq(S), q # <<>>, IsInjective(q)
  PROVE  /\ ToSet(Tail(q)) = ToSet(q) \ {Head(q)}
         /\ IsInjective(Tail(q))
<1>1. /\ DOMAIN q = 1 .. Len(q) /\ Len(q) \in Nat \ {0}
      /\ Head(q) = q[1]
      /\ DOMAIN Tail(q) = 1 .. Len(q) - 1
      /\ \A i \in 1 .. Len(q) - 1 : Tail(q)[i] = q[i + 1]
  BY LenProperties, EmptySeq, HeadTailProperties
<1>2. /\ \A i \in 1 .. Len(q) - 1 : i + 1 \in 1 .. Len(q) /\ i + 1 # 1
      /\ \A i \in 1 .. Len(q) : i # 1 => i - 1 \in 1 .. Len(q) - 1 /\ (i - 1) + 1 = i
      /\ \A i, j \in 1 .. Len(q) - 1 : i + 1 = j + 1 => i = j
      /\ 1 \in 1 .. Len(q)
  BY <1>1
<1>3. ToSet(Tail(q)) = ToSet(q) \ {Head(q)}
  <2>1. ASSUME NEW x \in ToSet(Tail(q)) PROVE x \in ToSet(q) \ {Head(q)}
    <3>1. PICK i \in 1 .. Len(q) - 1 : x = q[i + 1]
      BY <1>1, <2>1 DEF ToSet
    <3> QED
      BY <1>1, <1>2, <3>1 DEF ToSet, IsInjective
  <2>2. ASSUME NEW x \in ToSet(q) \ {Head(q)} PROVE x \in ToSet(Tail(q))
    <3>1. PICK i \in 1 .. Len(q) : x = q[i] /\ i # 1
      BY <1>1, <2>2 DEF ToSet
    <3>2. i - 1 \in DOMAIN Tail(q) /\ Tail(q)[i - 1] = x
      BY <1>1, <1>2, <3>1
    <3> QED
      BY <3>2 DEF ToSet
  <2> QED
    BY <2>1, <2>2
<1>4. IsInjective(Tail(q))
  BY <1>1, <1>2 DEF IsInjective
<1> QED
  BY <1>3, <1>4

\* A queue that names no event twice has fewer entries than there are others.
LEMMA InjectiveShort ==
  ASSUME NEW S, IsFiniteSet(S), NEW q \in Seq(S), IsInjective(q), NEW e \in S, e \notin ToSet(q)
  PROVE  Len(q) + 1 <= Cardinality(S)
<1> DEFINE r == Append(q, e)
<1>1. r \in Seq(S) /\ Len(r) = Len(q) + 1 /\ IsInjective(r) /\ Len(q) \in Nat
  BY AppendSet, AppendProperties, LenProperties
<1> HIDE DEF r
<1>2. r \in Injection(1 .. Len(r), S)
  BY <1>1, LenProperties DEF Injection
<1>3. Cardinality(1 .. Len(r)) <= Cardinality(S)
  BY <1>2, FS_Injection
<1>4. Cardinality(1 .. Len(r)) = Len(r)
  BY <1>1, FS_Interval
<1> QED
  BY <1>1, <1>3, <1>4

\* What queues of up to two buffers hold, one after the other.
LEMMA FlattenEmpty == FlattenSeq(<<>>) = <<>>
BY DEF FlattenSeq

LEMMA FlattenOne ==
  ASSUME NEW q, DOMAIN q = 1 .. 1, Len(q) = 1
  PROVE  FlattenSeq(q) = q[1]
<1> DEFINE F(f) == [i \in 1 .. Len(q) |-> IF i = 1 THEN q[i] ELSE f[i - 1] \o q[i]]
           g == [i \in 1 .. 1 |-> q[1]]
           flatten == CHOOSE f : f = F(f)
<1>1. g = F(g)
  OBVIOUS
<1>2. flatten = F(flatten)
  <2> HIDE DEF F
  <2> QED
    BY <1>1
<1>3. flatten[1] = q[1]
  <2> HIDE DEF flatten
  <2> QED
    BY <1>2
<1>4. FlattenSeq(q) = flatten[1]
  BY DEF FlattenSeq
<1> QED
  BY <1>3, <1>4

LEMMA FlattenTwo ==
  ASSUME NEW q, DOMAIN q = 1 .. 2, Len(q) = 2
  PROVE  FlattenSeq(q) = q[1] \o q[2]
<1> DEFINE F(f) == [i \in 1 .. Len(q) |-> IF i = 1 THEN q[i] ELSE f[i - 1] \o q[i]]
           g == [i \in 1 .. 2 |-> IF i = 1 THEN q[1] ELSE q[1] \o q[2]]
           flatten == CHOOSE f : f = F(f)
<1>1. g = F(g)
  OBVIOUS
<1>2. flatten = F(flatten)
  <2> HIDE DEF F
  <2> QED
    BY <1>1
<1>3. flatten[2] = q[1] \o q[2]
  <2> HIDE DEF flatten
  <2> QED
    BY <1>2
<1>4. FlattenSeq(q) = flatten[2]
  BY DEF FlattenSeq
<1> QED
  BY <1>3, <1>4

-----------------------------------------------------------------------------
(* The pending calls. *)

\* Whatever the firmware signals, the queue keeps its type and its bound.
LEMMA PendingTyped ==
  ASSUME EventTypeOK, NEW es, NEW n \in Nat, es \in [1 .. n -> Event], c_event_callback(es)
  PROVE  pending' \in Seq(Event) /\ Len(pending') < NPENDINGCALLS
<1> DEFINE room == NPENDINGCALLS - 1 - Len(pending)
           k == IF Len(es) < room THEN Len(es) ELSE room
<1>1. es \in Seq(Event) /\ Len(es) = n
  OBVIOUS
<1>2. room \in Nat /\ pending \in Seq(Event) /\ Len(pending) \in Nat
  BY EventAssumption DEF EventTypeOK
<1>3. k \in Nat /\ k <= room /\ k <= Len(es)
  BY <1>1, <1>2
<1>4. SubSeq(es, 1, k) \in Seq(Event) /\ Len(SubSeq(es, 1, k)) = k
  <2> HIDE DEF k
  <2> QED
    BY <1>1, <1>3, SubSeqProperties
<1>5. pending' = pending \o SubSeq(es, 1, k)
  BY DEF c_event_callback
<1>6. pending' \in Seq(Event) /\ Len(pending') = Len(pending) + k
  <2> HIDE DEF k
  <2> QED
    BY <1>2, <1>4, <1>5, ConcatProperties
<1> QED
  BY <1>2, <1>3, <1>6, EventAssumption

LEMMA EventsFinite == IsFiniteSet(Event)
<1>1. IsFiniteSet(Op)
  <2>1. Op = ({"connect"} \cup {"read"}) \cup ({"send"} \cup {"close"})
    BY DEF Op
  <2> QED
    BY <2>1, FS_Singleton, FS_Union
<1> QED
  BY <1>1, FS_Product, SocketAssumption

\* An event that is not pending finds a place behind those that are.
LEMMA PendingAppended ==
  ASSUME RoomForAll, EventTypeOK, IsInjective(pending), NEW e \in Event, e \notin ToSet(pending),
         c_event_callback(<<e>>)
  PROVE  pending' = Append(pending, e)
<1>1. IsFiniteSet(Event)
  BY EventsFinite
<1>2. /\ Len(pending) + 1 <= Cardinality(Event)
      /\ Len(pending) \in Nat /\ pending \in Seq(Event)
  BY <1>1, InjectiveShort, LenProperties DEF EventTypeOK
<1>3. NPENDINGCALLS - 1 - Len(pending) >= 1
  BY <1>1, <1>2, EventAssumption, FS_CardinalityType DEF RoomForAll
<1>4. SubSeq(<<e>>, 1, 1) = <<e>>
  <2>1. <<e>> \in Seq(Event) /\ Len(<<e>>) = 1
    OBVIOUS
  <2> QED
    BY <2>1, SubSeqFull
<1>5. pending' = pending \o SubSeq(<<e>>, 1, 1)
  BY <1>2, <1>3, EventAssumption DEF c_event_callback
<1> QED
  BY <1>2, <1>4, <1>5, AppendIsConcat

-----------------------------------------------------------------------------
(* The steps, by what they change. *)

\* A completion of the firmware: some data or a connection for a read; the end
\* of the stream; or that the operation was done or has failed.
FirmwareHands(s, op, o) ==
  /\ Complete(<<s, op>>, o)
  /\ UNCHANGED <<sent, fin>>
  /\ tcp' \in [Sock -> Tcp]
  /\ \A r \in Sock : tcp'[r] = "unconfigured" => tcp[r] = "unconfigured"
  /\ \/ /\ op = "read"
        /\ \E n \in 1 .. MaxSent :
             /\ taken[s] + n <= sent[s]
             /\ o = Ok([i \in 1 .. n |-> taken[s] + i])
             /\ taken' = [taken EXCEPT ![s] = @ + n]
     \/ /\ op = "read" /\ o = Fin
        /\ s \in Client /\ fin[s] /\ taken[s] = sent[s]
        /\ UNCHANGED taken
     \/ /\ o = Error \/ (o = Ok(<<>>) /\ op # "read")
        /\ UNCHANGED taken

Handed == {Error, Fin} \cup [status : {"ok"}, data : Seq(Nat)]

LEMMA FirmwareSteps ==
  ASSUME Typed, EndTold, NEW s \in Sock, Firmware(s)
  PROVE  \E op \in Op, o \in Handed :
           FirmwareHands(s, op, o)
<1> USE DEF FirmwareHands, Handed, Op, Typed, TypeOK, Tcp, Ok, Error, Fin
<1>0. <<>> \in Seq(Nat) /\ tcp \in [Sock -> Tcp]
  OBVIOUS
<1>1. CASE Connected(s)
  <2>1. UNCHANGED peerVars
    BY <1>1 DEF Connected
  <2>2. CASE Complete(<<s, "connect">>, Ok(<<>>)) /\ tcp' = [tcp EXCEPT ![s] = "up"]
    <3>1. FirmwareHands(s, "connect", Ok(<<>>))
      BY <1>0, <2>1, <2>2 DEF peerVars
    <3> QED
      BY <1>0, <3>1
  <2>3. CASE Complete(<<s, "connect">>, Error) /\ tcp' = [tcp EXCEPT ![s] = "broken"]
    <3>1. FirmwareHands(s, "connect", Error)
      BY <1>0, <2>1, <2>3 DEF peerVars
    <3> QED
      BY <3>1
  <2> QED
    BY <1>1, <2>2, <2>3 DEF Connected
<1>2. CASE Received(s)
  <2>1. PICK n \in 1 .. (IF s \in Listener THEN 1 ELSE MaxChunk) :
               /\ taken[s] + n <= sent[s]
               /\ Complete(<<s, "read">>, Ok([i \in 1 .. n |-> taken[s] + i]))
               /\ taken' = [taken EXCEPT ![s] = @ + n]
    BY <1>2 DEF Received
  <2>2. taken[s] \in 0 .. MaxSent /\ sent[s] \in 0 .. MaxSent /\ MaxSent \in Nat
    BY SocketAssumption
  <2>3. n \in Nat /\ n >= 1
    BY <2>1, SocketAssumption
  <2>4. n \in 1 .. MaxSent
    BY <2>1, <2>2, <2>3
  <2>5. [i \in 1 .. n |-> taken[s] + i] \in Seq(Nat)
    BY <2>2, <2>3
  <2>6. UNCHANGED <<tcp, sent, fin>>
    BY <1>2 DEF Received
  <2> HIDE DEF Ok
  <2>7. FirmwareHands(s, "read", Ok([i \in 1 .. n |-> taken[s] + i]))
    BY <1>0, <2>1, <2>4, <2>6
  <2>8. Ok([i \in 1 .. n |-> taken[s] + i]) \in [status : {"ok"}, data : Seq(Nat)]
    BY <2>5 DEF Ok
  <2> QED
    BY <2>7, <2>8
<1>3. CASE Finished(s)
  BY <1>0, <1>3 DEF Finished, peerVars, EndTold
<1>4. CASE Transmitted(s)
  BY <1>0, <1>4 DEF Transmitted, peerVars
<1>5. CASE Closed(s)
  BY <1>0, <1>5 DEF Closed, peerVars
<1>6. CASE Failed(s)
  BY <1>0, <1>6 DEF Failed, peerVars
<1> QED
  BY <1>1, <1>2, <1>3, <1>4, <1>5, <1>6 DEF Firmware

\* The steps of the program that only change its own local variables.
LocalStep ==
  \/ NotReady \/ CheckTime \/ CopyError \/ ConnectReturns \/ ConnectTimesOut
  \/ SendReturns \/ PollFails
  \/ \E x \in Sock \X {"read", "write"} : Look(x)
  \/ \E s \in Sock, l \in Limits : accept(s, l)
  \/ \E s \in Sock, n \in Wants, l \in Limits : recv_into(s, n, l)

\* The steps that change neither events nor streams.
QuietStep ==
  \/ LocalStep \/ BeginCopy \/ CopyDone \/ RoundEnds
  \/ \E s \in Sock : getsockopt(s) \/ listen(s)
  \/ \E xs \in Selections, l \in Limits : select(xs, l)

ExitStep == close_all_events \/ NextEvent \/ Abort \/ CloseAll \/ CloseCurrent

LEMMA AllSteps ==
  ASSUME Next
  PROVE  \/ \E e \in Event : Callback(e)
         \/ \E e \in Event : StaleCallback(e)
         \/ \E s \in Sock : Firmware(s)
         \/ \E s \in Sock : Peer(s)
         \/ Start
         \/ TakeConnection
         \/ CopyData
         \/ \E s \in Sock, l \in Limits : connect(s, l)
         \/ \E s \in Sock : sendall(s)
         \/ \E s \in Sock : close(s)
         \/ QuietStep
         \/ ExitStep
<1>1. CASE Program
  BY <1>1 DEF Program, LocalStep, QuietStep, ExitStep
<1>2. CASE Caller
  BY <1>2 DEF Caller, LocalStep, QuietStep, ExitStep
<1>3. CASE Interpreter
  BY <1>3 DEF Interpreter
<1> QED
  BY <1>1, <1>2, <1>3 DEF Next, LocalStep, QuietStep

LEMMA LocalSteps == LocalStep => OnlyCall
BY DEF LocalStep, NotReady, CheckTime, CopyError, ConnectReturns, ConnectTimesOut, SendReturns,
       PollFails, Look, accept, recv_into

\* What quiet steps leave alone.
LEMMA QuietSteps ==
  ASSUME QuietStep
  PROVE  /\ UNCHANGED <<eventVars, tokens, outcome, peerVars, queue, running, shut, endVars,
                        size, cur, got>>
         /\ connectStatus' = connectStatus
              \/ \E s \in Sock : connectStatus' = [connectStatus EXCEPT ![s] = "ok"]
         /\ tcp' = tcp \/ \E s \in Sock : tcp' = [tcp EXCEPT ![s] = "up"]
<1> USE DEF eventVars, fwVars, peerVars, resultVars, endVars, exitVars, pastVars
<1>1. CASE LocalStep
  BY <1>1, LocalSteps DEF OnlyCall
<1>2. CASE BeginCopy \/ CopyDone \/ RoundEnds
  BY <1>2 DEF BeginCopy, CopyDone, RoundEnds
<1>3. ASSUME NEW s \in Sock, getsockopt(s) \/ listen(s)
      PROVE  /\ UNCHANGED <<eventVars, tokens, outcome, peerVars, queue, running, shut, endVars,
                            size, cur, got>>
             /\ connectStatus' = connectStatus
                  \/ connectStatus' = [connectStatus EXCEPT ![s] = "ok"]
             /\ tcp' = tcp \/ tcp' = [tcp EXCEPT ![s] = "up"]
  BY <1>3 DEF getsockopt, listen
<1>4. ASSUME NEW xs \in Selections, NEW l \in Limits, select(xs, l)
      PROVE  UNCHANGED <<eventVars, fwVars, peerVars, resultVars, endVars, exitVars, pastVars>>
  BY <1>4 DEF select
<1> QED
  BY <1>1, <1>2, <1>3, <1>4 DEF QuietStep

-----------------------------------------------------------------------------
(* The program's place and its local variables. *)

LEMMA IdleTyped ==
  /\ Idle \in CallType
  /\ Idle.pc = "idle" /\ Idle.todo = {} /\ Idle.ready = {} /\ Idle.want = 0 /\ Idle.copied = 0
<1>1. (CHOOSE s \in Sock : TRUE) \in Sock
  BY SocketAssumption
<1> QED
  BY <1>1 DEF Idle, CallType, Pcs

\* A step from one place to another leaves the local variables, or drops them.
LEMMA GotoTyped ==
  ASSUME call \in CallType, NEW from, NEW to \in Pcs, Goto(from, to)
  PROVE  /\ call' \in CallType /\ call.pc = from /\ call'.pc = to
         /\ to = "idle" => call' = Idle
         /\ to # "idle" => call' = [call EXCEPT !.pc = to]
<1>1. CASE to = "idle"
  BY <1>1, IdleTyped DEF Goto
<1>2. CASE to # "idle"
  BY <1>2 DEF Goto, CallType
<1> QED
  BY <1>1, <1>2

LEMMA BeginTyped ==
  ASSUME NEW to \in Pcs, NEW s \in Sock, NEW l \in Limits, Begin(to, s, l)
  PROVE  /\ call' \in CallType /\ call.pc = "idle" /\ call'.pc = to
         /\ call'.todo = {} /\ call'.ready = {} /\ call'.want = 0 /\ call'.copied = 0
         /\ to # "idle" => call'.at = s
<1>1. CASE to = "idle"
  BY <1>1, IdleTyped DEF Begin
<1>2. CASE to # "idle"
  BY <1>2, IdleTyped, SocketAssumption DEF Begin, CallType
<1> QED
  BY <1>1, <1>2

\* What the call has become: of the right type, with no more copied than was
\* asked for, and with the local variables its place goes with.
CallRight ==
  /\ call' \in CallType
  /\ call'.copied <= call'.want
  /\ call'.todo # {} => call'.pc \in SelectPcs
  /\ call'.pc \in ReadPcs /\ call'.at \in Client => call'.want # 0
  /\ call'.pc = "copy" => call'.at \in Client
  /\ exiting' <=> call'.pc \in ExitPcs

LEMMA GotoRight ==
  ASSUME Typed, CallOf, NEW from \in Pcs, NEW to \in Pcs, Goto(from, to),
         to # "copy", to \notin ExitPcs => exiting' = exiting /\ from \notin ExitPcs,
         to \in ExitPcs => exiting', from \in SelectPcs => to = "idle" \/ to \in SelectPcs,
         to \in ReadPcs => from \in ReadPcs
  PROVE  CallRight
<1>1. call \in CallType /\ call.copied <= call.want
  BY DEF Typed, TypeOK
<1>2. CASE to = "idle"
  BY <1>1, <1>2, GotoTyped, IdleTyped DEF CallRight, CallOf, ExitPcs, ReadPcs
<1>3. CASE to # "idle"
  <2>1. /\ call'.pc = to /\ call.pc = from /\ call' \in CallType
        /\ call'.todo = call.todo /\ call'.copied = call.copied /\ call'.want = call.want
        /\ call'.at = call.at
    BY <1>1, <1>3, GotoTyped DEF CallType
  <2>2. call'.copied <= call'.want /\ ~ (call'.pc = "copy")
    BY <1>1, <2>1
  <2>3. call'.todo # {} => call'.pc \in SelectPcs
    BY <1>3, <2>1 DEF CallOf
  <2>4. exiting' <=> call'.pc \in ExitPcs
    BY <2>1 DEF CallOf
  <2>5. call'.pc \in ReadPcs /\ call'.at \in Client => call'.want # 0
    BY <2>1 DEF CallOf
  <2> QED
    BY <2>1, <2>2, <2>3, <2>4, <2>5 DEF CallRight
<1> QED
  BY <1>2, <1>3

LEMMA IdleRight ==
  ASSUME Typed, CallOf, call' = Idle, exiting' = exiting, call.pc \notin ExitPcs
  PROVE  CallRight
BY IdleTyped DEF CallRight, CallOf, ExitPcs, ReadPcs

LEMMA LocalRight ==
  ASSUME Typed, CallOf, LocalStep
  PROVE  CallRight
<1>0. call \in CallType /\ exiting' = exiting
  BY LocalSteps DEF Typed, OnlyCall, eventVars
<1> USE <1>0, SocketAssumption DEF Pcs, ExitPcs, SelectPcs, ReadPcs
<1>1. CASE NotReady
  BY <1>1, GotoRight DEF NotReady
<1>2. CASE CheckTime
  BY <1>2, GotoRight DEF CheckTime
<1>3. CASE CopyError
  BY <1>3, GotoRight DEF CopyError
<1>4. CASE ConnectReturns \/ ConnectTimesOut
  BY <1>4, GotoRight DEF ConnectReturns, ConnectTimesOut
<1>5. CASE SendReturns
  BY <1>5, GotoRight DEF SendReturns
<1>6. CASE PollFails
  <2>1. call.pc \notin ExitPcs
    BY <1>6 DEF PollFails, CallOf
  <2> QED
    BY <1>6, <2>1, IdleRight DEF PollFails
<1>7. ASSUME NEW x \in Sock \X {"read", "write"}, Look(x) PROVE CallRight
  <2>1. PICK to \in SelectPcs, found \in {{}, {x}} : Seen(x, to, found)
    BY <1>7 DEF Look
  <2>2. /\ call' \in CallType /\ call'.pc = to
        /\ call'.copied = call.copied /\ call'.want = call.want
    BY <2>1 DEF Seen, CallType
  <2>3. call.copied <= call.want
    BY DEF Typed, TypeOK
  <2>4. call.pc = "select"
    BY <2>1 DEF Seen
  <2> QED
    BY <2>2, <2>3, <2>4 DEF CallRight, CallOf
<1>8. ASSUME NEW s \in Sock, NEW l \in Limits, accept(s, l) PROVE CallRight
  <2>1. /\ call' \in CallType /\ call'.pc = "read" /\ call'.todo = {} /\ call'.copied = 0
        /\ call'.want = 0 /\ call'.at \notin Client /\ call.pc = "idle"
    BY <1>8, BeginTyped DEF accept
  <2> QED
    BY <2>1 DEF CallRight, CallOf
<1>9. ASSUME NEW s \in Sock, NEW n \in Wants, NEW l \in Limits, recv_into(s, n, l)
      PROVE  CallRight
  <2>1. /\ call' \in CallType /\ call'.pc = "read" /\ call'.todo = {} /\ call'.copied = 0
        /\ call'.want \in Nat
    BY <1>9, IdleTyped DEF recv_into, CallType
  <2> QED
    BY <1>9, <2>1 DEF recv_into, CallRight, CallOf
<1> QED
  BY <1>1, <1>2, <1>3, <1>4, <1>5, <1>6, <1>7, <1>8, <1>9 DEF LocalStep

LEMMA QuietRight ==
  ASSUME Typed, CallOf, QuietStep
  PROVE  CallRight
<1>0. call \in CallType /\ exiting' = exiting
  BY QuietSteps DEF Typed, eventVars
<1> USE <1>0, SocketAssumption DEF Pcs, ExitPcs, SelectPcs, ReadPcs
<1>1. CASE LocalStep
  BY <1>1, LocalRight
<1>2. CASE BeginCopy
  <2>1. /\ call' \in CallType /\ call.pc = "read" /\ call'.pc = "copy" /\ at \in Client
        /\ call'.at = at
        /\ call'.todo = call.todo /\ call'.copied = call.copied /\ call'.want = call.want
    BY <1>2, GotoTyped DEF BeginCopy, CallType, at
  <2> QED
    BY <2>1 DEF CallRight, CallOf, Typed, TypeOK, at, Readable
<1>3. CASE CopyDone
  BY <1>3, GotoRight DEF CopyDone
<1>4. CASE RoundEnds
  <2>1. CASE call' = Idle
    BY <1>4, <2>1, IdleRight DEF RoundEnds
  <2>2. CASE call' = [call EXCEPT !.todo = call.asked]
    <3>1. /\ call' \in CallType /\ call'.pc = "select"
          /\ call'.copied = call.copied /\ call'.want = call.want
      BY <1>4, <2>2 DEF RoundEnds, CallType
    <3> QED
      BY <1>4, <3>1 DEF CallRight, CallOf, Typed, TypeOK, RoundEnds
  <2> QED
    BY <1>4, <2>1, <2>2 DEF RoundEnds
<1>5. ASSUME NEW s \in Sock, getsockopt(s) \/ listen(s) PROVE CallRight
  <2>1. call' = call /\ call.copied <= call.want
    BY <1>5 DEF getsockopt, listen, Typed, TypeOK
  <2> QED
    BY <2>1 DEF CallRight, CallOf
<1>6. ASSUME NEW xs \in Selections, NEW l \in Limits, select(xs, l) PROVE CallRight
  <2>1. xs \in SUBSET (Sock \X {"read", "write"})
    BY DEF Sock
  <2>2. /\ call' \in CallType /\ call'.pc = "select" /\ call'.copied = 0 /\ call'.want = 0
    BY <1>6, <2>1, IdleTyped DEF select, CallType
  <2> QED
    BY <1>6, <2>2 DEF select, CallRight, CallOf
<1> QED
  BY <1>1, <1>2, <1>3, <1>4, <1>5, <1>6 DEF QuietStep

\* What the firmware may have handed over.
LEMMA ResultTyped ==
  ASSUME NEW r \in Result
  PROVE  /\ r = [status |-> r.status, data |-> r.data]
         /\ r.status \in {"ok", "error", "fin"} /\ r.data \in Seq(Nat)
         /\ r.status = "error" => r = Error
         /\ r.status = "fin" => r = Fin
<1>1. CASE r \in {Error, Fin}
  <2>1. <<>> \in Seq(Nat)
    OBVIOUS
  <2>2. CASE r = Error
    BY <2>1, <2>2 DEF Error
  <2>3. CASE r = Fin
    BY <2>1, <2>3 DEF Fin
  <2> QED
    BY <1>1, <2>2, <2>3
<1>2. CASE r \in {Ok(SubSeq([i \in 1 .. MaxSent |-> i], m, n)) :
                  m \in 1 .. MaxSent + 1, n \in 0 .. MaxSent}
  <2>1. PICK m \in 1 .. MaxSent + 1, n \in 0 .. MaxSent :
               r = Ok(SubSeq([i \in 1 .. MaxSent |-> i], m, n))
    BY <1>2
  <2>2. \A i \in m .. n : [j \in 1 .. MaxSent |-> j][i] \in Nat
    BY SocketAssumption
  <2>3. SubSeq([i \in 1 .. MaxSent |-> i], m, n) \in Seq(Nat)
    BY <2>2, SubSeqProperties, SocketAssumption
  <2> QED
    BY <2>1, <2>3 DEF Ok
<1> QED
  BY <1>1, <1>2 DEF Result

\* Consecutive numbers are a result.
LEMMA ResultRun ==
  ASSUME NEW m \in Nat, NEW n \in Nat, m + n <= MaxSent
  PROVE  /\ Ok([i \in 1 .. n |-> m + i]) \in Result \ {Fin}
         /\ [i \in 1 .. n |-> m + i] = SubSeq([i \in 1 .. MaxSent |-> i], m + 1, m + n)
<1> DEFINE all == [i \in 1 .. MaxSent |-> i]
           run == SubSeq(all, m + 1, m + n)
<1>1. MaxSent \in Nat /\ \A i \in m + 1 .. m + n : i \in 1 .. MaxSent /\ all[i] = i /\ all[i] \in Nat
  BY SocketAssumption
<1>2. /\ run \in Seq(Nat) /\ Len(run) = n
      /\ \A i \in 1 .. n : run[i] = m + i
  <2>1. /\ run \in Seq(Nat)
        /\ Len(run) = IF m + 1 <= m + n THEN (m + n) - (m + 1) + 1 ELSE 0
        /\ \A i \in 1 .. (m + n) - (m + 1) + 1 : run[i] = all[(m + 1) + i - 1]
    BY <1>1, SubSeqProperties
  <2>2. (m + n) - (m + 1) + 1 = n /\ \A i \in 1 .. n : (m + 1) + i - 1 = m + i /\ m + i \in m + 1 .. m + n
    OBVIOUS
  <2> HIDE DEF run, all
  <2> QED
    BY <1>1, <2>1, <2>2
<1>3. run = [i \in 1 .. n |-> m + i]
  <2> HIDE DEF run
  <2> QED
    BY <1>2
<1>4. m + 1 \in 1 .. MaxSent + 1 /\ m + n \in 0 .. MaxSent
  BY <1>1
<1>5. Ok(run) \in Result
  BY <1>4 DEF Result
<1>6. Ok(run) # Fin
  BY DEF Ok, Fin
<1> QED
  BY <1>3, <1>5, <1>6

\* So is what is left of a buffer when its beginning is copied.
LEMMA ResultRest ==
  ASSUME NEW d, Ok(d) \in Result, NEW n \in 0 .. Len(d) - 1
  PROVE  Ok(SubSeq(d, n + 1, Len(d))) \in Result \ {Fin}
<1> DEFINE all == [i \in 1 .. MaxSent |-> i]
<1>1. PICK m \in 1 .. MaxSent + 1, k \in 0 .. MaxSent : d = SubSeq(all, m, k)
  <2>1. Ok(d) \notin {Error, Fin}
    BY DEF Ok, Error, Fin
  <2>2. PICK m \in 1 .. MaxSent + 1, k \in 0 .. MaxSent : Ok(d) = Ok(SubSeq(all, m, k))
    BY <2>1 DEF Result
  <2> QED
    BY <2>2 DEF Ok
<1>2. MaxSent \in Nat /\ all \in Seq(Nat) /\ Len(all) = MaxSent
  BY SocketAssumption
<1> HIDE DEF all
<1>3. Len(d) = IF m <= k THEN k - m + 1 ELSE 0
  <2>1. \A i \in m .. k : all[i] \in Nat
    BY <1>2, ElementOfSeq
  <2> QED
    BY <1>1, <1>2, <2>1, SubSeqProperties
<1>4. m <= k /\ Len(d) = k - m + 1 /\ n \in Nat /\ n <= k - m
  BY <1>2, <1>3
<1>5. SubSeq(d, n + 1, Len(d)) = SubSeq(all, m + n, k)
  <2>1. /\ m \in 1 .. Len(all) /\ k \in 1 .. Len(all)
        /\ n + 1 \in 1 .. k - m + 1 /\ k - m + 1 \in 1 .. k - m + 1
    BY <1>2, <1>4
  <2>2. m + (n + 1) - 1 = m + n /\ m + (k - m + 1) - 1 = k
    BY <1>4
  <2>3. SubSeq(SubSeq(all, m, k), n + 1, k - m + 1)
          = SubSeq(all, m + (n + 1) - 1, m + (k - m + 1) - 1)
    BY <1>2, <2>1, SubSeqOfSubSeq
  <2> QED
    BY <1>1, <1>4, <2>2, <2>3
<1>6. m + n \in 1 .. MaxSent + 1
  BY <1>2, <1>4
<1>7. Ok(SubSeq(d, n + 1, Len(d))) # Fin
  BY DEF Ok, Fin
<1>8. Ok(SubSeq(all, m + n, k)) \in Result
  BY <1>6 DEF Result, all
<1> QED
  BY <1>5, <1>7, <1>8

-----------------------------------------------------------------------------
(* Copying. *)

CopySource == Head(queue[at]).data
CopyLength ==
  IF call.copied + Len(CopySource) > call.want THEN call.want - call.copied ELSE Len(CopySource)

LEMMA CopyDataSteps ==
  ASSUME Typed, CopyData
  PROVE  /\ at \in Sock /\ queue[at] \in Seq(Result \ {Fin}) /\ queue[at] # <<>>
         /\ Head(queue[at]) = Ok(CopySource) /\ CopySource \in Seq(Nat)
         /\ CopyLength \in 0 .. Len(CopySource)
         /\ CopySource # <<>> => CopyLength # 0
         /\ call' = [call EXCEPT !.copied = @ + CopyLength]
         /\ call.copied + CopyLength <= call.want
         /\ got' = [got EXCEPT ![at] = @ \o SubSeq(CopySource, 1, CopyLength)]
         /\ queue' = [queue EXCEPT ![at] =
              IF CopyLength < Len(CopySource)
              THEN <<Ok(SubSeq(CopySource, CopyLength + 1, Len(CopySource)))>> \o Tail(@)
              ELSE Tail(@)]
         /\ CopyLength < Len(CopySource) =>
              Ok(SubSeq(CopySource, CopyLength + 1, Len(CopySource))) \in Result \ {Fin}
         /\ UNCHANGED <<eventVars, fwVars, peerVars, connectStatus, running, shut, endVars, told,
                        exitVars, eof>>
<1>1. /\ at \in Sock /\ queue[at] \in Seq(Result \ {Fin}) /\ queue[at] # <<>>
      /\ Head(queue[at]) # Error
  BY DEF Typed, TypeOK, CopyData
<1>2. Head(queue[at]) \in Result \ {Fin}
  BY <1>1, HeadTailProperties
<1>3. Head(queue[at]) = Ok(CopySource) /\ CopySource \in Seq(Nat)
  BY <1>1, <1>2, ResultTyped DEF CopySource, Ok
<1>4. /\ call.copied \in Nat /\ call.want \in Nat /\ call.copied < call.want
      /\ Len(CopySource) \in Nat
      /\ CopySource # <<>> => Len(CopySource) # 0
  BY <1>3, LenProperties, EmptySeq DEF Typed, TypeOK, CopyData
<1>5. /\ CopyLength \in 0 .. Len(CopySource) /\ call.copied + CopyLength <= call.want
      /\ CopySource # <<>> => CopyLength # 0
  BY <1>4 DEF CopyLength
<1>6. /\ call' = [call EXCEPT !.copied = @ + CopyLength]
      /\ got' = [got EXCEPT ![at] = @ \o SubSeq(CopySource, 1, CopyLength)]
      /\ queue' = [queue EXCEPT ![at] =
           IF CopyLength < Len(CopySource)
           THEN <<Ok(SubSeq(CopySource, CopyLength + 1, Len(CopySource)))>> \o Tail(@)
           ELSE Tail(@)]
      /\ UNCHANGED <<eventVars, fwVars, peerVars, connectStatus, running, shut, endVars, told,
                     exitVars, eof>>
  BY DEF CopyData, CopyLength, CopySource
<1>7. ASSUME CopyLength < Len(CopySource)
      PROVE  Ok(SubSeq(CopySource, CopyLength + 1, Len(CopySource))) \in Result \ {Fin}
  <2>1. CopyLength \in 0 .. Len(CopySource) - 1
    BY <1>4, <1>5, <1>7
  <2> QED
    BY <1>2, <1>3, <2>1, ResultRest
<1> QED
  BY <1>1, <1>3, <1>5, <1>6, <1>7

\* Every step leaves the call as CallOf says.
LEMMA StepCallRight ==
  ASSUME Typed, CallOf, [Next]_vars
  PROVE  CallRight
<1>0. call \in CallType /\ call.copied <= call.want /\ call.pc \in Pcs
  BY DEF Typed, TypeOK
<1> USE SocketAssumption DEF Pcs, ExitPcs, SelectPcs, ReadPcs
<1>1. CASE call' = call /\ exiting' = exiting
  BY <1>0, <1>1 DEF CallRight, CallOf
<1>2. ASSUME NEW e \in Event, Callback(e) PROVE CallRight
  <2>1. outcome[e].status \in {"ok", "error", "fin"} /\ exiting' = exiting
    BY <1>2, ResultTyped DEF Callback, Typed, TypeOK
  <2>2. /\ call' \in CallType /\ call'.pc = call.pc /\ call'.at = call.at
        /\ call'.todo = call.todo /\ call'.copied = call.copied /\ call'.want = call.want
    BY <1>0, <1>2, <2>1 DEF Callback, CallType
  <2> QED
    BY <1>0, <2>1, <2>2 DEF CallRight, CallOf
<1>3. ASSUME NEW e \in Event, StaleCallback(e) PROVE CallRight
  <2> DEFINE to == CASE call.pc \in {"abort", "close_all"} -> "close_event"
                     [] call.pc = "close_event" -> "exit"
                     [] call.pc = "exit" -> "exit_failed"
                     [] call.pc \in {"exited", "exit_failed"} -> call.pc
                     [] OTHER -> "idle"
  <2>1. Goto(call.pc, to) /\ exiting' = exiting
    BY <1>3 DEF StaleCallback
  <2>2. to \in ExitPcs \cup {"idle"} /\ (to \in ExitPcs <=> call.pc \in ExitPcs)
    OBVIOUS
  <2> HIDE DEF to
  <2> QED
    BY <1>0, <2>1, <2>2, GotoRight DEF CallOf
<1>4. CASE Start
  BY <1>0, <1>4, GotoRight DEF Start
<1>5. CASE TakeConnection
  BY <1>0, <1>5, GotoRight DEF TakeConnection, eventVars
<1>6. CASE CopyData
  <2>1. /\ call' \in CallType /\ call'.pc = call.pc /\ call'.at = call.at
        /\ call'.todo = call.todo /\ call'.copied <= call'.want /\ call'.want = call.want
        /\ exiting' = exiting
    <3>1. /\ call' = [call EXCEPT !.copied = @ + CopyLength]
          /\ call.copied + CopyLength <= call.want /\ CopyLength \in Nat
          /\ exiting' = exiting
      BY <1>6, CopyDataSteps, LenProperties DEF eventVars
    <3> QED
      BY <1>0, <3>1 DEF CallType
  <2> QED
    BY <1>0, <2>1 DEF CallRight, CallOf
<1>7. ASSUME NEW s \in Sock, NEW l \in Limits, connect(s, l) PROVE CallRight
  <2>1. exiting' = exiting /\ \E to \in {"idle", "connect"} : Begin(to, s, l)
    BY <1>7 DEF connect
  <2>2. /\ call' \in CallType /\ call'.pc \in {"idle", "connect"} /\ call.pc = "idle"
        /\ call'.todo = {} /\ call'.copied = 0 /\ call'.want = 0
    BY <2>1, BeginTyped
  <2> QED
    BY <2>1, <2>2 DEF CallRight, CallOf
<1>8. ASSUME NEW s \in Sock, sendall(s) PROVE CallRight
  <2>1. exiting' = exiting /\ Begin("send", s, "never")
    BY <1>8 DEF sendall
  <2>2. call' \in CallType /\ call'.pc = "send" /\ call.pc = "idle" /\ call'.todo = {}
        /\ call'.copied = 0 /\ call'.want = 0
    BY <2>1, IdleTyped DEF Begin, CallType
  <2> QED
    BY <2>1, <2>2 DEF CallRight, CallOf
<1>9. CASE QuietStep
  BY <1>9, QuietRight
<1>10. CASE ExitStep
  <2>1. CASE close_all_events
    BY <1>0, <2>1, GotoRight DEF close_all_events
  <2>2. CASE NextEvent
    <3>1. \E to \in {"exit_failed", "exited", "close_event", "abort"} : Goto("exit", to)
      BY <2>2 DEF NextEvent
    <3>2. exiting /\ exiting'
      BY <2>2, <3>1 DEF NextEvent, Goto, CallOf, eventVars
    <3> QED
      BY <3>1, <3>2, GotoRight
  <2>3. CASE Abort \/ CloseAll \/ CloseCurrent
    <3>1. \E from, to \in {"abort", "close_all", "close_event", "exit"} : Goto(from, to)
      BY <2>3 DEF Abort, CloseAll, CloseCurrent
    <3>2. exiting /\ exiting'
      BY <2>3, <3>1 DEF Abort, CloseAll, CloseCurrent, Goto, CallOf
    <3> QED
      BY <3>1, <3>2, GotoRight
  <2> QED
    BY <1>10, <2>1, <2>2, <2>3 DEF ExitStep
<1>11. ASSUME NEW s \in Sock, Firmware(s) \/ Peer(s) \/ close(s)
       PROVE  call' = call /\ exiting' = exiting
  BY <1>11 DEF Firmware, Connected, Received, Finished, Transmitted, Closed, Failed, Complete,
               Peer, close, create_event, eventVars
<1>12. UNCHANGED vars => call' = call /\ exiting' = exiting
  BY DEF vars, eventVars
<1> QED
  BY <1>1, <1>2, <1>3, <1>4, <1>5, <1>6, <1>7, <1>8, <1>9, <1>10, <1>11, <1>12, AllSteps

-----------------------------------------------------------------------------
(* Types. *)

\* All of Typed that is not about the call.
StateTyped ==
  /\ EventTypeOK
  /\ tcp \in [Sock -> Tcp] /\ tokens \subseteq Event /\ outcome \in [Event -> Result]
  /\ sent \in [Sock -> 0 .. MaxSent] /\ taken \in [Sock -> 0 .. MaxSent]
  /\ fin \in [Sock -> BOOLEAN] /\ \A s \in Sock : taken[s] <= sent[s]
  /\ connectStatus \in [Sock -> {"none", "ok", "error"}]
  /\ queue \in [Sock -> Seq(Result \ {Fin})] /\ got \in [Sock -> Seq(Nat)]
  /\ running \in [Sock -> BOOLEAN] /\ shut \in [Sock -> BOOLEAN]
  /\ closed \in [Sock -> BOOLEAN] /\ aborted \in [Sock -> BOOLEAN] /\ eof \in [Sock -> BOOLEAN]
  /\ told \subseteq Sock \X {"read", "write"}
  /\ cur \in Event

LEMMA TypedParts == Typed => StateTyped
BY DEF Typed, TypeOK, StateTyped

LEMMA TypedFromParts ==
  ASSUME StateTyped', CallRight
  PROVE  Typed'
<1>1. \A s \in Sock : \A i \in DOMAIN queue'[s] : queue'[s][i] \in Result \ {Fin}
  BY LenProperties DEF StateTyped
<1>2. /\ call'.pc \in Pcs /\ at' \in Sock /\ call'.want \in Nat
      /\ call'.copied \in 0 .. call'.want /\ call'.limit \in {"never", "now", "later"}
  BY DEF CallRight, CallType, at
<1>3. {running', shut', closed', aborted', eof'} \subseteq [Sock -> BOOLEAN]
  BY DEF StateTyped
<1> QED
  BY <1>1, <1>2, <1>3 DEF Typed, TypeOK, StateTyped, CallRight

\* What is noted of a result has its type, if only a read meets the end.
LEMMA NoteTyped ==
  ASSUME StateTyped, NEW s \in Sock, NEW op \in Op, NEW o \in Result, Note(s, op, o),
         o = Fin => op = "read"
  PROVE  /\ connectStatus' \in [Sock -> {"none", "ok", "error"}]
         /\ queue' \in [Sock -> Seq(Result \ {Fin})]
         /\ running' \in [Sock -> BOOLEAN] /\ shut' \in [Sock -> BOOLEAN]
<1>1. op = "connect" => o.status \in {"ok", "error"}
  BY ResultTyped
<1>2. o # Fin => Append(queue[s], o) \in Seq(Result \ {Fin})
  BY AppendProperties DEF StateTyped
<1> QED
  BY <1>1, <1>2 DEF Note, StateTyped

LEMMA EventIs == \A e \in Event : e[1] \in Sock /\ e[2] \in Op /\ e = <<e[1], e[2]>>
BY SocketAssumption

LEMMA ErrorResult == Error \in Result \ {Fin} /\ Fin \in Result /\ Error # Fin
BY DEF Result, Error, Fin

LEMMA StepTyped ==
  ASSUME Typed, CallOf, EndTold, [Next]_vars
  PROVE  Typed'
<1> SUFFICES StateTyped'
  BY StepCallRight, TypedFromParts
<1>0. StateTyped /\ at \in Sock
  BY TypedParts DEF Typed, TypeOK
<1> USE DEF eventVars, fwVars, peerVars, resultVars, endVars, exitVars, pastVars
<1>1. ASSUME NEW e \in Event, Callback(e) PROVE StateTyped'
  <2>1. outcome[e] \in Result /\ outcome[e] = Fin => e[2] = "read"
    BY <1>0 DEF StateTyped, EndTold
  <2>2. pending' \in Seq(Event) /\ Len(pending') < NPENDINGCALLS
    BY <1>0, <1>1, HeadTailProperties, LenProperties, EventAssumption
       DEF Callback, _event_callback, StateTyped, EventTypeOK
  <2>3. /\ connectStatus' \in [Sock -> {"none", "ok", "error"}]
        /\ queue' \in [Sock -> Seq(Result \ {Fin})]
        /\ running' \in [Sock -> BOOLEAN] /\ shut' \in [Sock -> BOOLEAN]
    BY <1>0, <1>1, <2>1, NoteTyped, EventIs DEF Callback, StateTyped, EndTold
  <2>4. handlers' \subseteq Event /\ outcome' \in [Event -> Result]
    BY <1>0, <1>1, ErrorResult DEF Callback, close_event, StateTyped, EventTypeOK
  <2> QED
    BY <1>0, <1>1, <2>2, <2>3, <2>4 DEF Callback, StateTyped, EventTypeOK
<1>2. ASSUME NEW e \in Event, StaleCallback(e) PROVE StateTyped'
  <2>1. pending' \in Seq(Event) /\ Len(pending') < NPENDINGCALLS
    BY <1>0, <1>2, HeadTailProperties, LenProperties, EventAssumption
       DEF StaleCallback, _event_callback, StateTyped, EventTypeOK
  <2> QED
    BY <1>0, <1>2, <2>1 DEF StaleCallback, StateTyped, EventTypeOK
<1>3. ASSUME NEW s \in Sock, Firmware(s) PROVE StateTyped'
  <2>1. PICK op \in Op, o \in Handed :
               FirmwareHands(s, op, o)
    BY <1>3, FirmwareSteps
  <2>2. <<s, op>> \in Event /\ Complete(<<s, op>>, o)
    BY <2>1, SocketAssumption DEF FirmwareHands
  <2>3. pending' \in Seq(Event) /\ Len(pending') < NPENDINGCALLS
    <3>1. <<<<s, op>>>> \in [1 .. 1 -> Event] /\ c_event_callback(<<<<s, op>>>>)
      BY <2>2 DEF Complete
    <3> QED
      BY <1>0, <3>1, PendingTyped DEF StateTyped
  <2>4. taken[s] \in 0 .. MaxSent /\ sent[s] \in 0 .. MaxSent /\ MaxSent \in Nat
    BY <1>0, SocketAssumption DEF StateTyped
  <2>5. /\ o \in Result
        /\ taken' \in [Sock -> 0 .. MaxSent] /\ \A r \in Sock : taken'[r] <= sent[r]
    <3>1. ASSUME NEW n \in 1 .. MaxSent, taken[s] + n <= sent[s],
                 o = Ok([i \in 1 .. n |-> taken[s] + i]), taken' = [taken EXCEPT ![s] = @ + n]
          PROVE  /\ o \in Result
                 /\ taken' \in [Sock -> 0 .. MaxSent] /\ \A r \in Sock : taken'[r] <= sent[r]
      <4>1. taken[s] \in Nat /\ n \in Nat /\ taken[s] + n <= MaxSent
        BY <2>4, <3>1
      <4>2. o \in Result
        BY <3>1, <4>1, ResultRun
      <4> QED
        BY <1>0, <2>4, <3>1, <4>1, <4>2 DEF StateTyped
    <3>2. ASSUME o \in {Error, Fin, Ok(<<>>)}, taken' = taken
          PROVE  /\ o \in Result
                 /\ taken' \in [Sock -> 0 .. MaxSent] /\ \A r \in Sock : taken'[r] <= sent[r]
      <4>1. Ok(<<>>) \in Result
        <5>1. SubSeq([i \in 1 .. MaxSent |-> i], 1, 0) = <<>>
          BY SubSeqEmpty
        <5>2. 1 \in 1 .. MaxSent + 1 /\ 0 \in 0 .. MaxSent
          BY <2>4
        <5>3. Ok(SubSeq([i \in 1 .. MaxSent |-> i], 1, 0)) \in Result
          BY <5>2 DEF Result
        <5> QED
          BY <5>1, <5>3
      <4> QED
        BY <1>0, <3>2, <4>1, ErrorResult DEF StateTyped
    <3> QED
      BY <2>1, <3>1, <3>2 DEF FirmwareHands
  <2> QED
    BY <1>0, <2>1, <2>2, <2>3, <2>5 DEF FirmwareHands, Complete, StateTyped, EventTypeOK
<1>4. ASSUME NEW s \in Sock, Peer(s) PROVE StateTyped'
  <2>1. /\ sent' \in [Sock -> 0 .. MaxSent] /\ \A r \in Sock : taken[r] <= sent'[r]
        /\ fin' \in [Sock -> BOOLEAN] /\ tcp' \in [Sock -> Tcp]
    <3>1. /\ sent[s] \in 0 .. MaxSent /\ \A r \in Sock : sent[r] \in Nat /\ taken[r] \in Nat
          /\ MaxSent \in Nat
      BY <1>0, SocketAssumption DEF StateTyped
    <3>2. CASE /\ sent[s] < MaxSent /\ sent' = [sent EXCEPT ![s] = @ + 1]
               /\ UNCHANGED <<tcp, fin>>
      BY <1>0, <3>1, <3>2 DEF StateTyped
    <3>3. CASE fin' = [fin EXCEPT ![s] = TRUE] /\ UNCHANGED <<tcp, sent>>
      BY <1>0, <3>3 DEF StateTyped
    <3>4. CASE tcp' = [tcp EXCEPT ![s] = "broken"] /\ UNCHANGED <<sent, fin>>
      BY <1>0, <3>4 DEF StateTyped, Tcp
    <3> QED
      BY <1>4, <3>2, <3>3, <3>4 DEF Peer
  <2> QED
    BY <1>0, <1>4, <2>1 DEF Peer, StateTyped, EventTypeOK
<1>5. CASE Start
  <2>1. /\ connectStatus' \in [Sock -> {"none", "ok", "error"}]
        /\ queue' \in [Sock -> Seq(Result \ {Fin})]
        /\ running' \in [Sock -> BOOLEAN] /\ shut' \in [Sock -> BOOLEAN]
        /\ handlers' \subseteq Event /\ tokens' \subseteq Event
    <3>1. CASE UNCHANGED <<handlers, tokens, resultVars>>
      BY <1>0, <3>1 DEF StateTyped, EventTypeOK
    <3>2. CASE /\ create_event(<<at, "read">>)
               /\ tokens' = tokens \cup {<<at, "read">>}
               /\ running' = [running EXCEPT ![at] = TRUE]
               /\ UNCHANGED <<connectStatus, queue, shut>>
      <4>1. <<at, "read">> \in Event
        BY <1>0, SocketAssumption DEF Op
      <4> QED
        BY <1>0, <3>2, <4>1 DEF StateTyped, EventTypeOK, create_event
    <3>3. CASE \E o \in {Error, Fin} : Note(at, "read", o) /\ UNCHANGED <<handlers, tokens>>
      <4>1. PICK o \in {Error, Fin} : Note(at, "read", o) /\ UNCHANGED <<handlers, tokens>>
        BY <3>3
      <4>2. "read" \in Op /\ o \in Result
        BY ErrorResult DEF Op
      <4>3. /\ connectStatus' \in [Sock -> {"none", "ok", "error"}]
            /\ queue' \in [Sock -> Seq(Result \ {Fin})]
            /\ running' \in [Sock -> BOOLEAN] /\ shut' \in [Sock -> BOOLEAN]
        BY <1>0, <4>1, <4>2, NoteTyped
      <4> QED
        BY <1>0, <4>1, <4>3 DEF StateTyped, EventTypeOK
    <3> QED
      BY <1>5, <3>1, <3>2, <3>3 DEF Start, StartRead
  <2> QED
    BY <1>0, <1>5, <2>1 DEF Start, StateTyped, EventTypeOK
<1>6. CASE TakeConnection
  <2>1. queue[at] \in Seq(Result \ {Fin}) /\ queue[at] # <<>>
    <3>1. at \notin Client
      BY <1>6, SocketAssumption DEF TakeConnection
    <3> QED
      BY <1>0, <1>6, <3>1 DEF StateTyped, TakeConnection, Readable, EndTold
  <2>2. Tail(queue[at]) \in Seq(Result \ {Fin}) /\ Head(queue[at]) \in Result
    BY <2>1, HeadTailProperties
  <2>3. got[at] \o Head(queue[at]).data \in Seq(Nat)
    BY <1>0, <2>2, ResultTyped, ConcatProperties DEF StateTyped
  <2>4. queue' \in [Sock -> Seq(Result \ {Fin})] /\ got' \in [Sock -> Seq(Nat)]
    BY <1>0, <1>6, <2>2, <2>3 DEF TakeConnection, StateTyped
  <2> QED
    BY <1>0, <1>6, <2>4 DEF TakeConnection, StateTyped, EventTypeOK
<1>7. CASE CopyData
  <2> DEFINE rest == SubSeq(CopySource, CopyLength + 1, Len(CopySource))
             tail == Tail(queue[at])
  <2>1. /\ CopySource \in Seq(Nat) /\ CopyLength \in 0 .. Len(CopySource)
        /\ tail \in Seq(Result \ {Fin})
        /\ CopyLength < Len(CopySource) => Ok(rest) \in Result \ {Fin}
    BY <1>7, CopyDataSteps, HeadTailProperties
  <2>2. got[at] \o SubSeq(CopySource, 1, CopyLength) \in Seq(Nat)
    <3>1. SubSeq(CopySource, 1, CopyLength) \in Seq(Nat)
      <4>1. \A i \in 1 .. CopyLength : CopySource[i] \in Nat
        BY <2>1, ElementOfSeq, LenProperties
      <4>2. CopyLength \in Int
        BY <2>1
      <4> QED
        BY <4>1, <4>2, SubSeqProperties
    <3> QED
      BY <1>0, <3>1, ConcatProperties DEF StateTyped
  <2> DEFINE left == IF CopyLength < Len(CopySource) THEN <<Ok(rest)>> \o tail ELSE tail
  <2>3. left \in Seq(Result \ {Fin})
    <3>1. ASSUME Ok(rest) \in Result \ {Fin} PROVE <<Ok(rest)>> \o tail \in Seq(Result \ {Fin})
      <4>1. <<Ok(rest)>> \in Seq(Result \ {Fin})
        BY <3>1
      <4> QED
        BY <2>1, <4>1, ConcatProperties
    <3> QED
      BY <2>1, <3>1
  <2>4. /\ got' = [got EXCEPT ![at] = @ \o SubSeq(CopySource, 1, CopyLength)]
        /\ queue' = [queue EXCEPT ![at] = left]
        /\ UNCHANGED <<eventVars, fwVars, peerVars, connectStatus, running, shut, endVars, told,
                       exitVars, eof>>
    BY <1>7, CopyDataSteps
  <2> HIDE DEF left
  <2>5. queue' \in [Sock -> Seq(Result \ {Fin})] /\ got' \in [Sock -> Seq(Nat)]
    BY <1>0, <2>2, <2>3, <2>4 DEF StateTyped
  <2> QED
    BY <1>0, <2>4, <2>5 DEF StateTyped, EventTypeOK
<1>8. ASSUME NEW s \in Sock, NEW l \in Limits, connect(s, l) PROVE StateTyped'
  <2>1. /\ connectStatus' \in [Sock -> {"none", "ok", "error"}]
        /\ queue' \in [Sock -> Seq(Result \ {Fin})]
        /\ running' \in [Sock -> BOOLEAN] /\ shut' \in [Sock -> BOOLEAN]
        /\ handlers' \subseteq Event /\ tokens' \subseteq Event /\ tcp' \in [Sock -> Tcp]
    <3>1. CASE /\ create_event(<<s, "connect">>)
               /\ tokens' = tokens \cup {<<s, "connect">>}
               /\ tcp' = [tcp EXCEPT ![s] = "connecting"]
               /\ UNCHANGED resultVars
      <4>1. <<s, "connect">> \in Event
        BY SocketAssumption DEF Op
      <4> QED
        BY <1>0, <3>1, <4>1 DEF StateTyped, EventTypeOK, create_event, Tcp
    <3>2. CASE /\ Note(s, "connect", Error)
               /\ tcp' = [tcp EXCEPT ![s] = "broken"]
               /\ UNCHANGED <<handlers, tokens>>
      <4>1. "connect" \in Op /\ Error \in Result /\ Error # Fin
        BY ErrorResult DEF Op
      <4>2. /\ connectStatus' \in [Sock -> {"none", "ok", "error"}]
            /\ queue' \in [Sock -> Seq(Result \ {Fin})]
            /\ running' \in [Sock -> BOOLEAN] /\ shut' \in [Sock -> BOOLEAN]
        BY <1>0, <3>2, <4>1, NoteTyped
      <4> QED
        BY <1>0, <3>2, <4>2 DEF StateTyped, EventTypeOK, Tcp
    <3>3. CASE /\ tcp' = [tcp EXCEPT ![s] = "broken"]
               /\ UNCHANGED <<handlers, tokens, resultVars>>
      BY <1>0, <3>3 DEF StateTyped, EventTypeOK, Tcp
    <3> QED
      BY <1>8, <3>1, <3>2, <3>3 DEF connect
  <2> QED
    BY <1>0, <1>8, <2>1 DEF connect, StateTyped, EventTypeOK
<1>9. ASSUME NEW s \in Sock, sendall(s) \/ close(s) PROVE StateTyped'
  <2>1. <<s, "send">> \in Event /\ <<s, "close">> \in Event
    BY SocketAssumption DEF Op
  <2>2. CASE sendall(s)
    BY <1>0, <2>1, <2>2 DEF sendall, create_event, StateTyped, EventTypeOK
  <2>3. CASE close(s)
    BY <1>0, <2>1, <2>3 DEF close, create_event, StateTyped, EventTypeOK, Tcp
  <2> QED
    BY <1>9, <2>2, <2>3
<1>10. CASE QuietStep
  <2>1. /\ UNCHANGED <<eventVars, tokens, outcome, peerVars, queue, running, shut, endVars,
                       size, cur, got>>
        /\ connectStatus' \in [Sock -> {"none", "ok", "error"}]
        /\ tcp' \in [Sock -> Tcp]
    BY <1>0, <1>10, QuietSteps DEF StateTyped, Tcp
  <2>2. eof' \in [Sock -> BOOLEAN] /\ told' \subseteq Sock \X {"read", "write"}
    <3>1. CASE CopyDone
      BY <1>0, <3>1 DEF CopyDone, StateTyped
    <3>2. CASE BeginCopy
      BY <1>0, <3>2 DEF BeginCopy, StateTyped
    <3>3. CASE RoundEnds
      <4>1. call.ready \subseteq Sock \X {"read", "write"}
        BY DEF Typed, CallType
      <4> QED
        BY <1>0, <3>3, <4>1 DEF RoundEnds, StateTyped
    <3>4. CASE LocalStep
      BY <1>0, <3>4, LocalSteps DEF OnlyCall, StateTyped
    <3>5. ASSUME NEW s \in Sock, getsockopt(s) \/ listen(s) PROVE UNCHANGED <<eof, told>>
      BY <3>5 DEF getsockopt, listen
    <3>6. ASSUME NEW xs \in Selections, NEW l \in Limits, select(xs, l)
          PROVE  eof' = eof /\ told' = {}
      BY <3>6 DEF select
    <3> QED
      BY <1>0, <1>10, <3>1, <3>2, <3>3, <3>4, <3>5, <3>6 DEF QuietStep, StateTyped
  <2> QED
    BY <1>0, <2>1, <2>2 DEF StateTyped, EventTypeOK
<1>11. CASE ExitStep
  <2>1. CASE close_all_events \/ NextEvent \/ CloseCurrent
    BY <1>0, <2>1 DEF close_all_events, NextEvent, CloseCurrent, close_event, StateTyped,
                      EventTypeOK
  <2>2. CASE CloseAll
    BY <1>0, <2>2, EventIs DEF CloseAll, close_event, StateTyped, EventTypeOK
  <2>3. CASE Abort
    <3> DEFINE mine == {e \in tokens : e[1] = cur[1]}
    <3>1. /\ tcp' = [tcp EXCEPT ![cur[1]] = "unconfigured"]
          /\ tokens' = tokens \ mine
          /\ outcome' = [e \in Event |-> IF e \in mine THEN Error ELSE outcome[e]]
          /\ \E order \in SetToSeqs(mine) : c_event_callback(order)
          /\ UNCHANGED <<handlers, exiting, peerVars, resultVars, endVars, told, exitVars,
                         pastVars>>
      BY <2>3 DEF Abort
    <3>2. pending' \in Seq(Event) /\ Len(pending') < NPENDINGCALLS
      <4>1. IsFiniteSet(mine) /\ mine \subseteq Event
        BY <1>0, EventsFinite, FS_Subset DEF StateTyped
      <4>2. PICK order \in [1 .. Cardinality(mine) -> mine] : c_event_callback(order)
        <5> HIDE DEF mine
        <5> QED
          BY <3>1 DEF SetToSeqs
      <4>3. Cardinality(mine) \in Nat /\ order \in [1 .. Cardinality(mine) -> Event]
        <5> HIDE DEF mine
        <5> QED
          BY <4>1, FS_CardinalityType
      <4> HIDE DEF mine
      <4> QED
        BY <1>0, <4>2, <4>3, PendingTyped DEF StateTyped
    <3>3. tcp' \in [Sock -> Tcp] /\ tokens' \subseteq Event /\ outcome' \in [Event -> Result]
      BY <1>0, <3>1, ErrorResult DEF StateTyped, Tcp
    <3> QED
      BY <1>0, <3>1, <3>2, <3>3 DEF StateTyped, EventTypeOK
  <2> QED
    BY <1>11, <2>1, <2>2, <2>3 DEF ExitStep
<1>12. CASE UNCHANGED vars
  BY <1>0, <1>12 DEF vars, StateTyped, EventTypeOK
<1> QED
  BY <1>1, <1>2, <1>3, <1>4, <1>5, <1>6, <1>7, <1>8, <1>9, <1>10, <1>11, <1>12, AllSteps

-----------------------------------------------------------------------------
(* Events, until the program exits. *)

LEMMA ReadOp == "read" \in Op /\ "connect" \in Op /\ "send" \in Op /\ "close" \in Op
BY DEF Op

LEMMA EventOf == \A s \in Sock, op \in Op : <<s, op>> \in Event
BY SocketAssumption

\* There is no way back from the exit.
LEMMA ExitStays ==
  ASSUME Typed, CallOf, Next, ~ exiting'
  PROVE  ~ exiting /\ ~ ExitStep
<1>1. ~ ExitStep
  <2>1. close_all_events => exiting'
    BY DEF close_all_events
  <2>2. NextEvent \/ Abort \/ CloseAll \/ CloseCurrent => call.pc \in ExitPcs /\ exiting' = exiting
    BY DEF NextEvent, Abort, CloseAll, CloseCurrent, Goto, ExitPcs, eventVars
  <2> QED
    BY <2>1, <2>2 DEF ExitStep, CallOf
<1>2. QuietStep => exiting' = exiting
  BY QuietSteps DEF eventVars
<1>3. ASSUME NEW e \in Event, Callback(e) \/ StaleCallback(e) PROVE exiting' = exiting
  BY <1>3 DEF Callback, StaleCallback
<1>4. ASSUME NEW s \in Sock, Firmware(s) \/ Peer(s) PROVE exiting' = exiting
  BY <1>4 DEF Firmware, Connected, Received, Finished, Transmitted, Closed, Failed, Complete,
              Peer, eventVars
<1>5. ASSUME NEW s \in Sock, NEW l, connect(s, l) \/ sendall(s) \/ close(s) PROVE exiting' = exiting
  BY <1>5 DEF connect, sendall, close, create_event
<1>6. Start \/ TakeConnection \/ CopyData => exiting' = exiting
  BY DEF Start, TakeConnection, CopyData, eventVars
<1> QED
  BY <1>1, <1>2, <1>3, <1>4, <1>5, <1>6, AllSteps

\* A token that the firmware completes has its event pending from then on.
LEMMA Signalled ==
  ASSUME RoomForAll, EventInv, ~ exiting, NEW e \in Event, NEW o, Complete(e, o)
  PROVE  /\ e \in tokens /\ e \in handlers /\ e \notin ToSet(pending)
         /\ pending' = Append(pending, e)
         /\ ToSet(pending') = ToSet(pending) \cup {e} /\ IsInjective(pending')
         /\ handlers' = handlers /\ tokens' = tokens \ {e}
<1>1. /\ e \in tokens /\ e \in handlers /\ e \notin ToSet(pending) /\ IsInjective(pending)
      /\ handlers' = handlers /\ tokens' = tokens \ {e} /\ c_event_callback(<<e>>)
  BY DEF EventInv, EventsExact, Complete
<1>2. EventTypeOK /\ pending \in Seq(Event)
  BY DEF EventInv, Typed, TypeOK, EventTypeOK
<1>3. pending' = Append(pending, e)
  BY <1>1, <1>2, PendingAppended
<1> QED
  BY <1>1, <1>2, <1>3, AppendSet

\* A callback closes the event that was pending, and no other.
LEMMA Handled ==
  ASSUME EventInv, ~ exiting, NEW e \in Event, Callback(e)
  PROVE  /\ e \in handlers /\ e \notin tokens /\ e \in ToSet(pending)
         /\ ToSet(pending') = ToSet(pending) \ {e} /\ IsInjective(pending')
         /\ handlers' = handlers \ {e} /\ tokens' = tokens
<1>1. /\ pending # <<>> /\ e = Head(pending) /\ pending' = Tail(pending)
      /\ e \in handlers /\ handlers' = handlers \ {e} /\ tokens' = tokens
  BY DEF Callback, _event_callback, close_event
<1>2. pending \in Seq(Event) /\ IsInjective(pending)
  BY DEF EventInv, Typed, TypeOK, EventTypeOK, EventsExact
<1>3. Head(pending) \in ToSet(pending)
  BY <1>1, <1>2, LenProperties, EmptySeq DEF ToSet
<1> QED
  BY <1>1, <1>2, <1>3, TailSet DEF EventInv, EventsExact

\* The program sees no callback for an event that is closed.
LEMMA NoStaleCallback ==
  ASSUME EventInv, ~ exiting, NEW e \in Event
  PROVE  ~ StaleCallback(e)
<1>1. pending \in Seq(Event)
  BY DEF EventInv, Typed, TypeOK, EventTypeOK
<1>2. pending # <<>> => Head(pending) \in ToSet(pending)
  BY <1>1, LenProperties, EmptySeq DEF ToSet
<1> QED
  BY <1>2 DEF StaleCallback, _event_callback, EventInv, EventsExact

\* An event is created for one token, and only where none of its kind is open.
LEMMA Created ==
  ASSUME EventInv, ~ exiting, NEW e, e \notin handlers,
         create_event(e), tokens' = tokens \cup {e}, pending' = pending
  PROVE  EventsExact'
BY DEF EventInv, EventsExact, create_event

LEMMA EventsStep ==
  ASSUME RoomForAll, EventInv, EndTold, [Next]_vars
  PROVE  EventsExact' /\ Unopened'
<1> SUFFICES ASSUME ~ exiting' PROVE EventsExact' /\ Unopened'
  BY DEF EventsExact, Unopened
<1>0. Typed /\ CallOf /\ at \in Sock
  BY DEF EventInv, Typed, TypeOK
<1>1. CASE UNCHANGED <<handlers, pending, tokens, exiting, tcp, closed>>
  BY <1>1 DEF EventInv, EventsExact, Unopened
<1> SUFFICES ASSUME Next PROVE EventsExact' /\ Unopened'
  BY <1>1 DEF vars, eventVars, fwVars, endVars
<1>2. ~ exiting /\ ~ ExitStep
  BY <1>0, ExitStays
<1>3. ASSUME NEW e \in Event, Callback(e) PROVE EventsExact' /\ Unopened'
  <2>1. UNCHANGED <<tcp, closed>>
    BY <1>3 DEF Callback, endVars
  <2> QED
    BY <1>2, <1>3, <2>1, Handled DEF EventInv, EventsExact, Unopened
<1>4. ASSUME NEW s \in Sock, Firmware(s) PROVE EventsExact' /\ Unopened'
  <2>1. PICK op \in Op, o \in Handed : FirmwareHands(s, op, o)
    BY <1>0, <1>4, FirmwareSteps
  <2>2. Complete(<<s, op>>, o) /\ closed' = closed
    BY <2>1 DEF FirmwareHands, Complete, endVars
  <2>3. \A r \in Sock : tcp'[r] = "unconfigured" => tcp[r] = "unconfigured"
    BY <2>1 DEF FirmwareHands
  <2> QED
    BY <1>2, <2>2, <2>3, Signalled, EventOf DEF EventInv, EventsExact, Unopened
<1>5. ASSUME NEW s \in Sock, Peer(s) PROVE EventsExact' /\ Unopened'
  <2>1. UNCHANGED <<handlers, pending, tokens, exiting, closed>>
    BY <1>5 DEF Peer, eventVars, endVars
  <2>2. \A r \in Sock : tcp'[r] = "unconfigured" => tcp[r] = "unconfigured"
    BY <1>0, <1>5 DEF Peer, Typed, TypeOK
  <2> QED
    BY <2>1, <2>2 DEF EventInv, EventsExact, Unopened
<1>6. CASE Start
  <2>1. pending' = pending /\ UNCHANGED <<tcp, closed>> /\ StartRead(at)
    BY <1>6 DEF Start, endVars
  <2>2. CASE UNCHANGED <<handlers, tokens>>
    BY <1>2, <2>1, <2>2 DEF EventInv, EventsExact, Unopened
  <2>3. CASE /\ ~ running[at]
             /\ create_event(<<at, "read">>) /\ tokens' = tokens \cup {<<at, "read">>}
    <3>1. <<at, "read">> \notin handlers
      BY <1>0, <1>2, <2>3 DEF EventInv, RunningExact
    <3>2. EventsExact'
      BY <1>2, <2>1, <2>3, <3>1, Created
    <3> QED
      BY <1>2, <2>1, <2>3, <3>2 DEF EventInv, Unopened, create_event
  <2> QED
    BY <2>1, <2>2, <2>3 DEF StartRead
<1>7. CASE TakeConnection \/ CopyData
  BY <1>1, <1>7 DEF TakeConnection, CopyData, eventVars, fwVars, endVars
<1>8. ASSUME NEW s \in Sock, NEW l, connect(s, l) PROVE EventsExact' /\ Unopened'
  <2>1. /\ pending' = pending /\ closed' = closed /\ <<s, "connect">> \notin handlers
        /\ \A r \in Sock : tcp'[r] = "unconfigured" => tcp[r] = "unconfigured" /\ r # s
    BY <1>0, <1>2, <1>8 DEF connect, endVars, EventInv, Unopened, Typed, TypeOK
  <2>2. CASE UNCHANGED <<handlers, tokens>>
    BY <1>2, <2>1, <2>2 DEF EventInv, EventsExact, Unopened
  <2>3. CASE create_event(<<s, "connect">>) /\ tokens' = tokens \cup {<<s, "connect">>}
    BY <1>2, <2>1, <2>3, Created DEF EventInv, Unopened, create_event
  <2> QED
    BY <1>8, <2>2, <2>3 DEF connect
<1>9. ASSUME NEW s \in Sock, sendall(s) PROVE EventsExact' /\ Unopened'
  <2>1. /\ pending' = pending /\ closed' = closed /\ tcp' = tcp /\ <<s, "send">> \notin handlers
        /\ create_event(<<s, "send">>) /\ tokens' = tokens \cup {<<s, "send">>}
    BY <1>9 DEF sendall, endVars
  <2> QED
    BY <1>2, <2>1, Created DEF EventInv, Unopened, create_event
<1>10. ASSUME NEW s \in Sock, close(s) PROVE EventsExact' /\ Unopened'
  <2>1. /\ pending' = pending /\ <<s, "close">> \notin handlers
        /\ create_event(<<s, "close">>) /\ tokens' = tokens \cup {<<s, "close">>}
        /\ \A r \in Sock : ~ closed'[r] => ~ closed[r] /\ r # s
        /\ \A r \in Sock : tcp'[r] = "unconfigured" => tcp[r] = "unconfigured"
    BY <1>0, <1>2, <1>10 DEF close, EventInv, Unopened, Typed, TypeOK
  <2> QED
    BY <1>2, <2>1, Created DEF EventInv, Unopened, create_event
<1>11. CASE QuietStep
  <2>1. UNCHANGED <<handlers, pending, exiting, tokens, closed>>
    BY <1>11, QuietSteps DEF eventVars, endVars
  <2>2. \A r \in Sock : tcp'[r] = "unconfigured" => tcp[r] = "unconfigured"
    BY <1>0, <1>11, QuietSteps DEF Typed, TypeOK
  <2> QED
    BY <2>1, <2>2 DEF EventInv, EventsExact, Unopened
<1> QED
  BY <1>2, <1>3, <1>4, <1>5, <1>6, <1>7, <1>8, <1>9, <1>10, <1>11, NoStaleCallback, AllSteps

\* A socket's flag, its read event and what it has read ahead; and what it may
\* have read ahead where a token is started.
ReadsExact ==
  /\ ~ exiting =>
       \A s \in Sock :
         /\ running[s] <=> <<s, "read">> \in handlers
         /\ Len(queue[s]) <= 2
         /\ running[s] => Len(queue[s]) <= 1
  /\ call.pc \in {"start", "select_start"} =>
       /\ Len(queue[call.at]) <= 1
       /\ running[call.at] => Len(queue[call.at]) = 0

LEMMA Ahead ==
  ASSUME NEW n \in Nat, NEW b \in BOOLEAN
  PROVE  /\ n + (IF b THEN 1 ELSE 0) <= 2 <=> (n <= 2 /\ (b => n <= 1))
         /\ n + (IF b THEN 1 ELSE 0) <= 1 <=> (n <= 1 /\ (b => n = 0))
<1>1. CASE b = TRUE
  BY <1>1
<1>2. CASE b = FALSE
  BY <1>2
<1> QED
  BY <1>1, <1>2

LEMMA ReadsAre ==
  ASSUME Typed
  PROVE  RunningExact /\ StartsEmpty <=> ReadsExact
<1>1. /\ \A s \in Sock : Len(queue[s]) \in Nat /\ running[s] \in BOOLEAN
      /\ call.at \in Sock
  BY TypedParts, LenProperties DEF StateTyped, Typed, CallType
<1>2. \A s \in Sock : Len(queue[s]) + (IF running[s] THEN 1 ELSE 0) <= 2
                        <=> (Len(queue[s]) <= 2 /\ (running[s] => Len(queue[s]) <= 1))
  BY <1>1, Ahead
<1>3. Len(queue[call.at]) + (IF running[call.at] THEN 1 ELSE 0) <= 1
        <=> (Len(queue[call.at]) <= 1 /\ (running[call.at] => Len(queue[call.at]) = 0))
  BY <1>1, Ahead
<1> QED
  BY <1>2, <1>3, Zenon DEF RunningExact, StartsEmpty, ReadsExact, at

LEMMA ReadsArePrimed ==
  ASSUME Typed', ReadsExact'
  PROVE  RunningExact' /\ StartsEmpty'
<1>1. /\ \A s \in Sock : Len(queue'[s]) \in Nat /\ running'[s] \in BOOLEAN
      /\ call'.at \in Sock
  <2>1. /\ queue' \in [Sock -> Seq(Result \ {Fin})] /\ running' \in [Sock -> BOOLEAN]
        /\ call' \in CallType
    BY DEF Typed, TypeOK
  <2> QED
    BY <2>1, LenProperties DEF CallType
<1>2. \A s \in Sock : Len(queue'[s]) + (IF running'[s] THEN 1 ELSE 0) <= 2
                        <=> (Len(queue'[s]) <= 2 /\ (running'[s] => Len(queue'[s]) <= 1))
  BY <1>1, Ahead
<1>3. Len(queue'[call'.at]) + (IF running'[call'.at] THEN 1 ELSE 0) <= 1
        <=> (Len(queue'[call'.at]) <= 1 /\ (running'[call'.at] => Len(queue'[call'.at]) = 0))
  BY <1>1, Ahead
<1>4. RunningExact'
  BY <1>2, Zenon DEF RunningExact, ReadsExact
<1>5. StartsEmpty'
  BY <1>3, Zenon DEF StartsEmpty, ReadsExact, at
<1> QED
  BY <1>4, <1>5

LEMMA SameReads ==
  ASSUME EventInv, CallRight, ~ exiting,
         \A s \in Sock : queue'[s] = queue[s] /\ running'[s] = running[s],
         \A s \in Sock : <<s, "read">> \in handlers' <=> <<s, "read">> \in handlers,
         \/ call'.pc \notin {"start", "select_start"}
         \/ call'.pc = call.pc /\ call'.at = call.at
         \/ call'.at \in Sock /\ queue[call'.at] = <<>>
  PROVE  ReadsExact'
<1>0. ReadsExact /\ call'.at \in Sock
  BY ReadsAre DEF EventInv, CallRight, CallType
<1>1. Len(<<>>) = 0
  OBVIOUS
<1> QED
  BY <1>0, <1>1 DEF ReadsExact

\* A callback takes the flag and gives an entry of the queue instead.
LEMMA NoteReads ==
  ASSUME Typed, NEW s \in Sock, NEW op \in Op, NEW o \in Result, Note(s, op, o)
  PROVE  /\ \A r \in Sock : r # s \/ op # "read" => queue'[r] = queue[r] /\ running'[r] = running[r]
         /\ op = "read" => /\ ~ running'[s]
                           /\ Len(queue'[s]) \in {Len(queue[s]), Len(queue[s]) + 1}
<1>1. queue[s] \in Seq(Result \ {Fin}) /\ queue \in [Sock -> Seq(Result \ {Fin})]
      /\ running \in [Sock -> BOOLEAN]
  BY TypedParts DEF StateTyped
<1>2. o # Fin => Len(Append(queue[s], o)) = Len(queue[s]) + 1
  BY <1>1, AppendProperties
<1> QED
  BY <1>1, <1>2 DEF Note

LEMMA QueueShortens ==
  ASSUME Typed, EndTold, TakeConnection \/ CopyData
  PROVE  /\ at \in Sock /\ Len(queue'[at]) <= Len(queue[at]) /\ Len(queue'[at]) \in Nat
         /\ \A s \in Sock : s # at => queue'[s] = queue[s]
         /\ UNCHANGED <<handlers, running, exiting>>
<1>0. StateTyped /\ at \in Sock
  BY TypedParts DEF Typed, TypeOK
<1>1. CASE TakeConnection
  <2>1. queue[at] \in Seq(Result \ {Fin}) /\ queue[at] # <<>>
    <3>1. at \notin Client
      BY <1>1, SocketAssumption DEF TakeConnection
    <3> QED
      BY <1>0, <1>1, <3>1 DEF StateTyped, TakeConnection, Readable, EndTold
  <2>2. Len(Tail(queue[at])) = Len(queue[at]) - 1 /\ Len(Tail(queue[at])) \in Nat
        /\ Len(queue[at]) \in Nat
    BY <2>1, HeadTailProperties, LenProperties
  <2> QED
    BY <1>0, <1>1, <2>2 DEF TakeConnection, StateTyped, eventVars
<1>2. CASE CopyData
  <2> DEFINE rest == Ok(SubSeq(CopySource, CopyLength + 1, Len(CopySource)))
             tail == Tail(queue[at])
  <2>1. /\ queue[at] \in Seq(Result \ {Fin}) /\ queue[at] # <<>>
        /\ queue' = [queue EXCEPT ![at] = IF CopyLength < Len(CopySource)
                                          THEN <<rest>> \o tail ELSE tail]
        /\ CopyLength < Len(CopySource) => rest \in Result \ {Fin}
        /\ UNCHANGED <<handlers, running, exiting>>
    BY <1>2, CopyDataSteps DEF eventVars
  <2>2. /\ tail \in Seq(Result \ {Fin}) /\ Len(tail) = Len(queue[at]) - 1
        /\ Len(tail) \in Nat /\ Len(queue[at]) \in Nat
    BY <2>1, HeadTailProperties, LenProperties
  <2> HIDE DEF rest, tail
  <2>3. ASSUME rest \in Result \ {Fin} PROVE Len(<<rest>> \o tail) = Len(queue[at])
    <3>1. <<rest>> \in Seq(Result \ {Fin}) /\ Len(<<rest>>) = 1
      BY <2>3
    <3>2. Len(<<rest>> \o tail) = 1 + Len(tail)
      BY <2>2, <3>1, ConcatProperties
    <3> QED
      BY <2>2, <3>2
  <2> QED
    BY <1>0, <2>1, <2>2, <2>3 DEF StateTyped
<1> QED
  BY <1>1, <1>2

\* A token is only asked for where nothing was found.
LEMMA QuietStarts ==
  ASSUME Typed, QuietStep
  PROVE  \/ call'.pc \notin {"start", "select_start"}
         \/ call'.pc = call.pc /\ call'.at = call.at
         \/ call'.at \in Sock /\ queue[call'.at] = <<>>
<1>0. call \in CallType /\ at \in Sock /\ at = call.at
  BY DEF Typed, TypeOK, at
<1> USE DEF Pcs
<1>1. CASE NotReady
  <2>1. call'.at = at /\ queue[at] = <<>>
    BY <1>0, <1>1, GotoTyped DEF NotReady, Readable, CallType
  <2> QED
    BY <1>0, <2>1
<1>2. CASE CheckTime
  BY <1>0, <1>2, GotoTyped DEF CheckTime
<1>3. CASE CopyError \/ ConnectReturns \/ ConnectTimesOut \/ SendReturns \/ CopyDone
  BY <1>0, <1>3, GotoTyped DEF CopyError, ConnectReturns, ConnectTimesOut, SendReturns, CopyDone
<1>4. CASE PollFails
  BY <1>4, IdleTyped DEF PollFails
<1>5. ASSUME NEW x \in Sock \X {"read", "write"}, Look(x)
      PROVE  \/ call'.pc = "select"
             \/ call'.at \in Sock /\ queue[call'.at] = <<>>
  <2>1. CASE ~ Readable(x[1])
    <3>1. PICK to, found : Seen(x, to, found)
      BY <1>5 DEF Look
    <3>2. call'.at = x[1]
      BY <1>0, <3>1 DEF Seen, CallType
    <3> QED
      BY <2>1, <3>2 DEF Readable
  <2>2. CASE \E found : Seen(x, "select", found)
    <3>1. call'.pc = "select"
      BY <1>0, <2>2 DEF Seen, CallType
    <3> QED
      BY <3>1
  <2> QED
    BY <1>5, <2>1, <2>2 DEF Look
<1>6. ASSUME NEW s \in Sock, NEW n, NEW l \in Limits,
             accept(s, l) \/ recv_into(s, n, l)
      PROVE  call'.pc = "read"
  <2>1. CASE accept(s, l)
    BY <2>1, BeginTyped DEF accept
  <2>2. CASE recv_into(s, n, l)
    BY <2>2, IdleTyped DEF recv_into, CallType
  <2> QED
    BY <1>6, <2>1, <2>2
<1>7. CASE BeginCopy
  BY <1>0, <1>7, GotoTyped DEF BeginCopy
<1>8. CASE RoundEnds
  <2>1. call' = Idle => call'.pc = "idle"
    BY IdleTyped
  <2>2. call' = [call EXCEPT !.todo = call.asked] => call'.pc = call.pc /\ call'.at = call.at
    BY <1>0 DEF CallType
  <2> QED
    BY <1>8, <2>1, <2>2 DEF RoundEnds
<1>9. ASSUME NEW s \in Sock, getsockopt(s) \/ listen(s) PROVE call' = call
  BY <1>9 DEF getsockopt, listen
<1>10. ASSUME NEW xs, NEW l, select(xs, l) PROVE call'.pc = "select"
  BY <1>10, IdleTyped DEF select, CallType
<1> QED
  BY <1>1, <1>2, <1>3, <1>4, <1>5, <1>6, <1>7, <1>8, <1>9, <1>10 DEF QuietStep, LocalStep

LEMMA ReadsStep ==
  ASSUME RoomForAll, EventInv, EndTold, [Next]_vars
  PROVE  ReadsExact'
<1>0. /\ Typed /\ CallOf /\ StateTyped /\ CallRight /\ at \in Sock /\ at = call.at
      /\ queue \in [Sock -> Seq(Result \ {Fin})] /\ running \in [Sock -> BOOLEAN]
      /\ \A s \in Sock : Len(queue[s]) \in Nat
      /\ ReadsExact
  BY StepCallRight, TypedParts, LenProperties, ReadsAre
     DEF EventInv, StateTyped, Typed, TypeOK, at
<1>1. CASE exiting'
  <2>1. call'.pc \notin {"start", "select_start"}
    BY <1>0, <1>1 DEF CallRight, ExitPcs
  <2> QED
    BY <1>1, <2>1 DEF ReadsExact
<1>2. CASE UNCHANGED vars
  <2>1. UNCHANGED <<handlers, queue, running, exiting, call>>
    BY <1>2 DEF vars, eventVars, resultVars
  <2> QED
    BY <1>0, <2>1 DEF ReadsExact
<1> SUFFICES ASSUME Next, ~ exiting' PROVE ReadsExact'
  BY <1>1, <1>2
<1>3. ~ exiting /\ ~ ExitStep
  BY <1>0, ExitStays
<1>4. ASSUME NEW e \in Event, Callback(e) PROVE ReadsExact'
  <2>1. /\ e[1] \in Sock /\ e[2] \in Op /\ e = <<e[1], e[2]>> /\ outcome[e] \in Result
        /\ Note(e[1], e[2], outcome[e]) /\ e \in handlers /\ handlers' = handlers \ {e}
    BY <1>0, <1>4, EventIs DEF Callback, close_event, StateTyped
  <2>2. call'.pc = call.pc /\ call'.at = call.at
    BY <1>0, <1>4 DEF Callback, Typed, CallType
  <2>3. CASE e[2] # "read"
    <3>1. \A r \in Sock : queue'[r] = queue[r] /\ running'[r] = running[r]
      BY <1>0, <2>1, <2>3, NoteReads
    <3>2. \A r \in Sock : <<r, "read">> \in handlers' <=> <<r, "read">> \in handlers
      BY <2>1, <2>3
    <3> QED
      BY <1>0, <1>3, <2>2, <3>1, <3>2, SameReads
  <2>4. CASE e[2] = "read"
    <3>1. PICK s \in Sock : e = <<s, "read">> /\ s = e[1]
      BY <2>1, <2>4
    <3>2. /\ ~ running'[s] /\ running[s]
          /\ Len(queue'[s]) \in {Len(queue[s]), Len(queue[s]) + 1}
          /\ \A r \in Sock : r # s => queue'[r] = queue[r] /\ running'[r] = running[r]
      <4>1. ReadOp /\ Note(s, "read", outcome[e])
        BY <2>1, <2>4, <3>1, ReadOp
      <4>2. running[s]
        BY <1>0, <1>3, <2>1, <3>1 DEF ReadsExact
      <4> QED
        BY <1>0, <2>1, <2>4, <3>1, <4>1, <4>2, NoteReads
    <3>3. \A r \in Sock : r # s => (<<r, "read">> \in handlers' <=> <<r, "read">> \in handlers)
      BY <2>1, <3>1
    <3>4. <<s, "read">> \notin handlers'
      BY <2>1, <3>1
    <3>5. Len(queue[s]) <= 1 /\ Len(queue[s]) \in Nat
      BY <1>0, <1>3, <3>2 DEF ReadsExact
    <3>6. Len(queue'[s]) <= 2
      BY <3>2, <3>5
    <3>7. ASSUME NEW r \in Sock
          PROVE  /\ running'[r] <=> <<r, "read">> \in handlers'
                 /\ Len(queue'[r]) <= 2
                 /\ running'[r] => Len(queue'[r]) <= 1
      <4>1. CASE r = s
        BY <3>2, <3>4, <3>6, <4>1
      <4>2. CASE r # s
        BY <1>0, <1>3, <3>2, <3>3, <4>2 DEF ReadsExact
      <4> QED
        BY <4>1, <4>2
    <3>8. ASSUME call.pc \in {"start", "select_start"}
          PROVE  /\ Len(queue'[call.at]) <= 1
                 /\ running'[call.at] => Len(queue'[call.at]) = 0
      <4>1. CASE call.at = s
        <5>1. Len(queue[s]) = 0
          BY <1>0, <3>2, <3>8, <4>1 DEF ReadsExact
        <5>2. Len(queue'[s]) <= 1
          <6> DEFINE n == Len(queue[s])
                     m == Len(queue'[s])
          <6>1. m \in {n, n + 1} /\ n = 0
            BY <3>2, <5>1
          <6> HIDE DEF n, m
          <6>2. m <= 1
            BY <6>1
          <6> QED
            BY <6>2 DEF m
        <5> QED
          BY <3>2, <4>1, <5>2, Zenon
      <4>2. CASE call.at # s
        <5>1. queue'[call.at] = queue[call.at] /\ running'[call.at] = running[call.at]
          BY <1>0, <3>2, <4>2
        <5>2. /\ Len(queue[call.at]) <= 1
              /\ running[call.at] => Len(queue[call.at]) = 0
          BY <1>0, <3>8 DEF ReadsExact
        <5> QED
          BY <5>1, <5>2
      <4> QED
        BY <4>1, <4>2
    <3> QED
      BY <2>2, <3>7, <3>8 DEF ReadsExact
  <2> QED
    BY <2>3, <2>4
<1>5. ASSUME NEW s \in Sock, Firmware(s) PROVE ReadsExact'
  <2>1. PICK op \in Op, o \in Handed : FirmwareHands(s, op, o)
    BY <1>0, <1>5, FirmwareSteps
  <2>2. UNCHANGED <<handlers, queue, running, call>>
    BY <2>1 DEF FirmwareHands, Complete, resultVars
  <2> QED
    BY <1>0, <1>3, <2>2 DEF ReadsExact
<1>6. ASSUME NEW s \in Sock, Peer(s) PROVE ReadsExact'
  <2>1. UNCHANGED <<handlers, queue, running, call>>
    BY <1>6 DEF Peer, resultVars, eventVars
  <2> QED
    BY <1>0, <1>3, <2>1 DEF ReadsExact
<1>7. CASE Start
  <2>1. /\ call.pc \in {"start", "select_start"}
        /\ call'.pc \in {"check", "select"} /\ StartRead(at)
    BY <1>0, <1>7, GotoTyped DEF Start, Pcs, Typed
  <2>2. /\ Len(queue[at]) <= 1
        /\ running[at] => Len(queue[at]) = 0
    BY <1>0, <2>1 DEF ReadsExact
  <2> SUFFICES ASSUME NEW r \in Sock
               PROVE  /\ running'[r] <=> <<r, "read">> \in handlers'
                      /\ Len(queue'[r]) <= 2
                      /\ running'[r] => Len(queue'[r]) <= 1
    BY <2>1 DEF ReadsExact
  <2>3. /\ running[r] <=> <<r, "read">> \in handlers
        /\ Len(queue[r]) <= 2
        /\ running[r] => Len(queue[r]) <= 1
    BY <1>0, <1>3 DEF ReadsExact
  <2>4. CASE UNCHANGED <<handlers, tokens, resultVars>>
    BY <2>3, <2>4 DEF resultVars
  <2>5. CASE ~ running[at] /\ create_event(<<at, "read">>)
             /\ running' = [running EXCEPT ![at] = TRUE] /\ queue' = queue
    <3>1. running'[at] /\ <<at, "read">> \in handlers'
      BY <1>0, <2>5 DEF create_event
    <3>2. r # at => /\ running'[r] = running[r]
                    /\ <<r, "read">> \in handlers' <=> <<r, "read">> \in handlers
      BY <1>0, <2>5 DEF create_event
    <3>3. CASE r = at
      BY <2>2, <2>3, <2>5, <3>1, <3>3
    <3>4. CASE r # at
      BY <2>3, <2>5, <3>2, <3>4
    <3> QED
      BY <3>3, <3>4
  <2>6. ASSUME NEW o \in {Error, Fin}, Note(at, "read", o), ~ running[at], handlers' = handlers
        PROVE  /\ running'[r] <=> <<r, "read">> \in handlers'
               /\ Len(queue'[r]) <= 2
               /\ running'[r] => Len(queue'[r]) <= 1
    <3>1. /\ ~ running'[at] /\ Len(queue'[at]) \in {Len(queue[at]), Len(queue[at]) + 1}
          /\ r # at => queue'[r] = queue[r] /\ running'[r] = running[r]
      BY <1>0, <2>6, NoteReads, ErrorResult, ReadOp
    <3>2. CASE r = at
      <4>1. Len(queue[at]) \in Nat
        BY <1>0
      <4>2. Len(queue'[at]) <= 2
        BY <2>2, <3>1, <4>1
      <4> QED
        BY <2>3, <2>6, <3>1, <3>2, <4>2
    <3>3. CASE r # at
      BY <2>3, <2>6, <3>1, <3>3
    <3> QED
      BY <3>2, <3>3
  <2> QED
    BY <2>1, <2>4, <2>5, <2>6 DEF StartRead
<1>8. CASE TakeConnection \/ CopyData
  <2>1. call'.pc \notin {"start", "select_start"}
    <3>1. TakeConnection => call'.pc = "idle"
      BY GotoTyped DEF TakeConnection, Pcs, Typed, EventInv
    <3>2. CopyData => call'.pc = "copy"
      BY <1>0, CopyDataSteps DEF CopyData, Typed, CallType
    <3> QED
      BY <1>8, <3>1, <3>2
  <2>2. /\ Len(queue'[at]) <= Len(queue[at]) /\ Len(queue'[at]) \in Nat
        /\ \A s \in Sock : s # at => queue'[s] = queue[s]
        /\ UNCHANGED <<handlers, running, exiting>>
    BY <1>0, <1>8, QueueShortens
  <2>3. ASSUME NEW r \in Sock
        PROVE  /\ running'[r] <=> <<r, "read">> \in handlers'
               /\ Len(queue'[r]) <= 2
               /\ running'[r] => Len(queue'[r]) <= 1
    <3>1. /\ running[r] <=> <<r, "read">> \in handlers
          /\ Len(queue[r]) <= 2
          /\ running[r] => Len(queue[r]) <= 1
          /\ Len(queue[r]) \in Nat
      BY <1>0, <1>3 DEF ReadsExact
    <3>2. CASE r = at
      BY <2>2, <3>1, <3>2
    <3>3. CASE r # at
      BY <2>2, <3>1, <3>3
    <3> QED
      BY <3>2, <3>3
  <2> QED
    BY <2>1, <2>3 DEF ReadsExact
<1>9. ASSUME NEW s \in Sock, NEW l, (l \in Limits /\ connect(s, l)) \/ sendall(s) \/ close(s)
      PROVE  ReadsExact'
  <2>1. \/ call' = call
        \/ call'.pc \notin {"start", "select_start"}
    <3>1. l \in Limits /\ connect(s, l) => call'.pc \in {"idle", "connect"}
      BY BeginTyped DEF connect, Pcs
    <3>2. sendall(s) => call'.pc = "send"
      BY IdleTyped DEF sendall, Begin, CallType
    <3>3. close(s) => call' = call
      BY DEF close
    <3> QED
      BY <1>9, <3>1, <3>2, <3>3
  <2>2. \A r \in Sock : queue'[r] = queue[r] /\ running'[r] = running[r]
    BY <1>0, <1>9, NoteReads, ErrorResult, ReadOp DEF connect, sendall, close, resultVars
  <2>3. \A r \in Sock : <<r, "read">> \in handlers' <=> <<r, "read">> \in handlers
    BY <1>9 DEF connect, sendall, close, create_event
  <2> QED
    BY <1>0, <1>3, <2>1, <2>2, <2>3, SameReads
<1>10. CASE QuietStep
  <2>1. UNCHANGED <<handlers, queue, running>>
    BY <1>10, QuietSteps DEF eventVars
  <2>2. \/ call'.pc \notin {"start", "select_start"}
        \/ call'.pc = call.pc /\ call'.at = call.at
        \/ call'.at \in Sock /\ queue[call'.at] = <<>>
    BY <1>0, <1>10, QuietStarts
  <2> QED
    BY <1>0, <1>3, <2>1, <2>2, SameReads
<1> QED
  BY <1>3, <1>4, <1>5, <1>6, <1>7, <1>8, <1>9, <1>10, NoStaleCallback, AllSteps

-----------------------------------------------------------------------------
(* The end of a stream. *)

LEMMA SameEnd ==
  ASSUME EndTold, exiting => exiting', \A e \in Event : outcome'[e] \in {Error, outcome[e]},
         UNCHANGED <<sent, taken, fin, running, shut>>
  PROVE  EndTold'
BY ErrorResult DEF EndTold

LEMMA EndStep ==
  ASSUME EventInv, EndTold, [Next]_vars
  PROVE  EndTold'
<1>0. /\ Typed /\ CallOf /\ StateTyped /\ at \in Sock
      /\ outcome \in [Event -> Result] /\ running \in [Sock -> BOOLEAN] /\ shut \in [Sock -> BOOLEAN]
      /\ taken \in [Sock -> 0 .. MaxSent] /\ sent \in [Sock -> 0 .. MaxSent]
      /\ fin \in [Sock -> BOOLEAN]
  BY TypedParts DEF EventInv, StateTyped, Typed, TypeOK
<1>1. CASE UNCHANGED <<sent, taken, fin, running, shut, outcome, exiting>>
  BY <1>1, SameEnd
<1> SUFFICES ASSUME Next PROVE EndTold'
  BY <1>1 DEF vars, eventVars, fwVars, peerVars, resultVars
<1>2. exiting => exiting'
  BY <1>0, ExitStays
<1>3. ASSUME NEW e \in Event, Callback(e) PROVE EndTold'
  <2>1. /\ e[1] \in Sock /\ e[2] \in Op /\ e = <<e[1], e[2]>>
        /\ Note(e[1], e[2], outcome[e]) /\ outcome' = [outcome EXCEPT ![e] = Error]
        /\ UNCHANGED <<sent, taken, fin, exiting>>
    BY <1>3, EventIs DEF Callback, peerVars
  <2>2. \A x \in Event : outcome'[x] = Fin =>
          x[2] = "read" /\ fin[x[1]] /\ taken[x[1]] = sent[x[1]]
    BY <1>0, <2>1, ErrorResult DEF EndTold
  <2>3. ASSUME NEW s \in Sock, shut'[s]
        PROVE  fin[s] /\ taken[s] = sent[s]
    <3>1. shut[s] \/ (s = e[1] /\ outcome[e] = Fin)
      BY <1>0, <2>1, <2>3 DEF Note
    <3> QED
      BY <3>1 DEF EndTold
  <2>4. ASSUME NEW s \in Sock, ~ exiting, shut'[s], running'[s] PROVE FALSE
    <3>1. running[s] /\ ~ (s = e[1] /\ e[2] = "read")
      BY <1>0, <2>1, <2>4 DEF Note
    <3>2. shut[s]
      BY <1>0, <2>1, <2>4, <3>1 DEF Note
    <3> QED
      BY <2>4, <3>1, <3>2 DEF EndTold
  <2> QED
    BY <2>1, <2>2, <2>3, <2>4 DEF EndTold
<1>4. ASSUME NEW s \in Sock, Firmware(s) PROVE EndTold'
  <2>1. PICK op \in Op, o \in Handed : FirmwareHands(s, op, o)
    BY <1>0, <1>4, FirmwareSteps
  <2>2. /\ outcome' = [outcome EXCEPT ![<<s, op>>] = o] /\ <<s, op>> \in Event
        /\ UNCHANGED <<sent, fin, running, shut, exiting>>
    BY <2>1, EventOf DEF FirmwareHands, Complete, resultVars
  <2>3. CASE op = "read" /\ o = Fin /\ fin[s] /\ taken[s] = sent[s] /\ taken' = taken
    <3>1. ASSUME NEW x \in Event, outcome'[x] = Fin
          PROVE  x[2] = "read" /\ fin[x[1]] /\ taken[x[1]] = sent[x[1]]
      <4>1. x = <<s, op>> \/ outcome[x] = Fin
        BY <1>0, <2>2, <3>1
      <4> QED
        BY <2>3, <4>1 DEF EndTold
    <3> QED
      BY <2>2, <2>3, <3>1 DEF EndTold
  <2>4. CASE o # Fin /\ taken' = taken
    <3>1. \A x \in Event : outcome'[x] = Fin => outcome[x] = Fin
      BY <1>0, <2>2, <2>4
    <3> QED
      BY <2>2, <2>4, <3>1 DEF EndTold
  <2>5. ASSUME NEW n \in 1 .. MaxSent, taken[s] + n <= sent[s], o # Fin,
               taken' = [taken EXCEPT ![s] = @ + n]
        PROVE  EndTold'
    <3>1. taken[s] # sent[s]
      <4>1. taken[s] \in Nat /\ sent[s] \in Nat /\ n \in Nat /\ n # 0
        BY <1>0, SocketAssumption
      <4> QED
        BY <2>5, <4>1
    <3>2. \A x \in Event : outcome'[x] = Fin => outcome[x] = Fin
      BY <1>0, <2>2, <2>5
    <3>3. /\ ~ shut[s]
          /\ \A x \in Event : outcome[x] = Fin => x[1] # s
      BY <3>1 DEF EndTold
    <3>4. \A r \in Sock : r # s => taken'[r] = taken[r]
      BY <1>0, <2>5
    <3> QED
      BY <2>2, <3>2, <3>3, <3>4, EventIs DEF EndTold
  <2>6. o # Fin \/ (op = "read" /\ o = Fin /\ fin[s] /\ taken[s] = sent[s] /\ taken' = taken)
    BY <2>1 DEF FirmwareHands, Ok, Fin, Error
  <2>7. \/ taken' = taken
        \/ \E n \in 1 .. MaxSent : /\ taken[s] + n <= sent[s]
                                   /\ taken' = [taken EXCEPT ![s] = @ + n]
    BY <2>1 DEF FirmwareHands
  <2> QED
    BY <2>3, <2>4, <2>5, <2>6, <2>7
<1>5. ASSUME NEW s \in Sock, Peer(s) PROVE EndTold'
  <2>1. UNCHANGED <<outcome, taken, running, shut, exiting>>
    BY <1>5 DEF Peer, resultVars, eventVars
  <2>2. \A r \in Sock : /\ fin[r] => sent'[r] = sent[r]
                        /\ fin[r] => fin'[r]
                        /\ fin'[r] => fin[r] \/ r \in Client
    BY <1>0, <1>5 DEF Peer
  <2> QED
    BY <2>1, <2>2, EventIs DEF EndTold
<1>6. CASE Start
  <2>1. /\ UNCHANGED <<outcome, taken, fin, sent, exiting>> /\ StartRead(at)
    BY <1>6 DEF Start, peerVars
  <2>2. CASE UNCHANGED resultVars
    BY <1>1, <2>1, <2>2 DEF resultVars
  <2>3. CASE ~ shut[at] /\ running' = [running EXCEPT ![at] = TRUE] /\ shut' = shut
    <3>1. \A s \in Sock : ~ exiting => ~ (shut[s] /\ running'[s])
      BY <1>0, <2>3 DEF EndTold
    <3> QED
      BY <2>1, <2>3, <3>1 DEF EndTold
  <2>4. ASSUME NEW o \in {Error, Fin}, Note(at, "read", o), ~ running[at],
               o = Fin => fin[at] /\ taken[at] = sent[at]
        PROVE  EndTold'
    <3>1. \A s \in Sock : /\ shut'[s] => shut[s] \/ (s = at /\ o = Fin)
                          /\ running'[s] => running[s] /\ s # at
      BY <1>0, <2>4 DEF Note
    <3> QED
      BY <2>1, <2>4, <3>1 DEF EndTold
  <2> QED
    BY <2>1, <2>2, <2>3, <2>4, ErrorResult DEF StartRead
<1>7. CASE TakeConnection \/ CopyData
  BY <1>1, <1>7 DEF TakeConnection, CopyData, eventVars, fwVars, peerVars
<1>8. ASSUME NEW s \in Sock, NEW l, connect(s, l) PROVE EndTold'
  <2>1. UNCHANGED <<outcome, taken, fin, sent, exiting>>
    BY <1>8 DEF connect, peerVars
  <2>2. UNCHANGED <<running, shut>>
    BY <1>8 DEF connect, resultVars, Note
  <2> QED
    BY <1>1, <2>1, <2>2
<1>9. ASSUME NEW s \in Sock, sendall(s) \/ close(s) PROVE EndTold'
  BY <1>1, <1>9 DEF sendall, close, peerVars, resultVars, create_event
<1>10. CASE QuietStep
  BY <1>1, <1>10, QuietSteps DEF eventVars, peerVars
<1>11. CASE ExitStep
  <2>1. UNCHANGED <<sent, taken, fin, running, shut>>
    BY <1>11 DEF ExitStep, close_all_events, NextEvent, Abort, CloseAll, CloseCurrent, peerVars,
                 resultVars, fwVars
  <2>2. \A e \in Event : outcome'[e] \in {Error, outcome[e]}
    BY <1>0, <1>11 DEF ExitStep, close_all_events, NextEvent, Abort, CloseAll, CloseCurrent, fwVars
  <2> QED
    BY <1>2, <2>1, <2>2, SameEnd
<1>12. ASSUME NEW e \in Event, StaleCallback(e) PROVE EndTold'
  BY <1>1, <1>12 DEF StaleCallback, fwVars, peerVars, resultVars
<1> QED
  BY <1>3, <1>4, <1>5, <1>6, <1>7, <1>8, <1>9, <1>10, <1>11, <1>12, AllSteps

-----------------------------------------------------------------------------
(* Streams. *)

\* What is in a queue, end to end: Queued(s) is Data(queue[s]).
Data(q) == FlattenSeq([i \in DOMAIN q |-> q[i].data])

LEMMA DataIs ==
  /\ Data(<<>>) = <<>>
  /\ \A a : Data(<<a>>) = a.data
  /\ \A a, b : Data(<<a, b>>) = a.data \o b.data
<1>1. Data(<<>>) = <<>>
  <2>1. [i \in DOMAIN <<>> |-> <<>>[i].data] = <<>>
    OBVIOUS
  <2> QED
    BY <2>1, FlattenEmpty DEF Data
<1>2. ASSUME NEW a PROVE Data(<<a>>) = a.data
  <2> DEFINE d == [i \in DOMAIN <<a>> |-> <<a>>[i].data]
  <2>1. DOMAIN <<a>> = 1 .. 1
    OBVIOUS
  <2>2. DOMAIN d = 1 .. 1 /\ Len(d) = 1 /\ d[1] = a.data
    BY <2>1
  <2>3. Data(<<a>>) = FlattenSeq(d)
    BY DEF Data
  <2> HIDE DEF d
  <2> QED
    BY <2>2, <2>3, FlattenOne
<1>3. ASSUME NEW a, NEW b PROVE Data(<<a, b>>) = a.data \o b.data
  <2> DEFINE d == [i \in DOMAIN <<a, b>> |-> <<a, b>>[i].data]
  <2>1. DOMAIN <<a, b>> = 1 .. 2
    OBVIOUS
  <2>2. DOMAIN d = 1 .. 2 /\ Len(d) = 2 /\ d[1] = a.data /\ d[2] = b.data
    BY <2>1
  <2>3. Data(<<a, b>>) = FlattenSeq(d)
    BY DEF Data
  <2> HIDE DEF d
  <2> QED
    BY <2>2, <2>3, FlattenTwo
<1> QED
  BY <1>1, <1>2, <1>3

\* Sequences of up to two elements, written out.
LEMMA Short ==
  ASSUME NEW S, NEW q \in Seq(S)
  PROVE  /\ Len(q) <= 2 => \/ q = <<>>
                           \/ \E a \in S : q = <<a>>
                           \/ \E a, b \in S : q = <<a, b>>
         /\ Len(q) <= 1 => q = <<>> \/ \E a \in S : q = <<a>>
<1> DEFINE n == Len(q)
<1>1. n \in Nat /\ DOMAIN q = 1 .. n /\ \A i \in 1 .. n : q[i] \in S
  BY LenProperties, ElementOfSeq
<1>2. n = 0 => q = <<>>
  BY EmptySeq
<1>3. n = 1 => q[1] \in S /\ q = <<q[1]>>
  <2> HAVE n = 1
  <2>1. <<q[1]>> \in Seq(S) /\ Len(<<q[1]>>) = 1 /\ <<q[1]>>[1] = q[1] /\ q[1] \in S
    BY <1>1
  <2>2. \A i \in 1 .. Len(q) : q[i] = <<q[1]>>[i]
    BY <1>1
  <2> QED
    BY <2>1, <2>2, SeqEqual
<1>4. n = 2 => q[1] \in S /\ q[2] \in S /\ q = <<q[1], q[2]>>
  <2> HAVE n = 2
  <2>1. /\ <<q[1], q[2]>> \in Seq(S) /\ Len(<<q[1], q[2]>>) = 2
        /\ <<q[1], q[2]>>[1] = q[1] /\ <<q[1], q[2]>>[2] = q[2] /\ q[1] \in S /\ q[2] \in S
    BY <1>1
  <2>2. \A i \in 1 .. Len(q) : q[i] = <<q[1], q[2]>>[i]
    BY <1>1
  <2> QED
    BY <2>1, <2>2, SeqEqual
<1> HIDE DEF n
<1>5. /\ n <= 1 => n = 0 \/ n = 1
      /\ n <= 2 => n = 0 \/ n = 1 \/ n = 2
  BY <1>1
<1> QED
  BY <1>2, <1>3, <1>4, <1>5 DEF n

LEMMA Pair ==
  ASSUME NEW S, NEW a \in S, NEW b \in S
  PROVE  Append(<<a>>, b) = <<a, b>> /\ <<a>> \o <<b>> = <<a, b>>
<1>1. <<a>> \in Seq(S) /\ Len(<<a>>) = 1 /\ <<a>>[1] = a
  OBVIOUS
<1>2. /\ Append(<<a>>, b) \in Seq(S) /\ Len(Append(<<a>>, b)) = 2
      /\ Append(<<a>>, b)[1] = a /\ Append(<<a>>, b)[2] = b
  <2>1. /\ Append(<<a>>, b) \in Seq(S) /\ Len(Append(<<a>>, b)) = Len(<<a>>) + 1
        /\ \A i \in 1 .. Len(<<a>>) : Append(<<a>>, b)[i] = <<a>>[i]
        /\ Append(<<a>>, b)[Len(<<a>>) + 1] = b
    BY <1>1, AppendProperties
  <2> QED
    BY <1>1, <2>1
<1> DEFINE p == Append(<<a>>, b)
           q == <<a, b>>
<1>3. q \in Seq(S) /\ Len(q) = 2 /\ q[1] = a /\ q[2] = b
  OBVIOUS
<1>4. p = q
  <2>1. p \in Seq(S) /\ Len(p) = 2 /\ p[1] = a /\ p[2] = b
    BY <1>2
  <2> HIDE DEF p, q
  <2>2. \A i \in 1 .. 2 : p[i] = q[i]
    BY <1>3, <2>1
  <2> QED
    BY <1>3, <2>1, <2>2, SeqEqual
<1> QED
  BY <1>1, <1>4, AppendIsConcat

\* A buffer is added at the end of what is queued.
LEMMA DataAppended ==
  ASSUME NEW q \in Seq(Result), Len(q) <= 1, NEW o \in Result
  PROVE  /\ Data(Append(q, o)) = Data(q) \o o.data
         /\ Data(q) \in Seq(Nat)
<1>1. o.data \in Seq(Nat) /\ \A a \in Result : a.data \in Seq(Nat)
  BY ResultTyped
<1>2. CASE q = <<>>
  <2>1. Append(q, o) = <<o>> /\ <<>> \in Seq(Nat)
    BY <1>2
  <2> QED
    BY <1>1, <1>2, <2>1, DataIs, ConcatEmptySeq
<1>3. ASSUME NEW a \in Result, q = <<a>>
      PROVE  Data(Append(q, o)) = Data(q) \o o.data /\ Data(q) \in Seq(Nat)
  <2>1. Append(q, o) = <<a, o>>
    BY <1>3, Pair
  <2> QED
    BY <1>1, <1>3, <2>1, DataIs
<1> QED
  BY <1>2, <1>3, Short

\* The first buffer comes before the others.
LEMMA DataTail ==
  ASSUME NEW q \in Seq(Result), q # <<>>, Len(q) <= 2
  PROVE  /\ Data(q) = Head(q).data \o Data(Tail(q))
         /\ Data(Tail(q)) \in Seq(Nat) /\ Len(Tail(q)) <= 1
<1>1. \A a \in Result : a.data \in Seq(Nat)
  BY ResultTyped
<1>2. ASSUME NEW a \in Result, q = <<a>>
      PROVE  /\ Data(q) = Head(q).data \o Data(Tail(q))
             /\ Data(Tail(q)) \in Seq(Nat) /\ Len(Tail(q)) <= 1
  <2>1. Head(q) = a /\ Tail(q) = <<>> /\ <<>> \in Seq(Nat) /\ Len(<<>>) <= 1
    BY <1>2
  <2> QED
    BY <1>1, <1>2, <2>1, DataIs, ConcatEmptySeq
<1>3. ASSUME NEW a \in Result, NEW b \in Result, q = <<a, b>>
      PROVE  /\ Data(q) = Head(q).data \o Data(Tail(q))
             /\ Data(Tail(q)) \in Seq(Nat) /\ Len(Tail(q)) <= 1
  <2>1. Head(q) = a /\ Tail(q) = <<b>> /\ Len(<<b>>) <= 1
    BY <1>3
  <2> QED
    BY <1>1, <1>3, <2>1, DataIs
<1> QED
  BY <1>2, <1>3, Short

LEMMA DataBefore ==
  ASSUME NEW o \in Result, NEW q \in Seq(Result), Len(q) <= 1
  PROVE  Data(<<o>> \o q) = o.data \o Data(q)
<1>1. o.data \in Seq(Nat)
  BY ResultTyped
<1>2. CASE q = <<>>
  <2>1. <<o>> \o <<>> = <<o>>
    OBVIOUS
  <2> QED
    BY <1>1, <1>2, <2>1, DataIs, ConcatEmptySeq
<1>3. ASSUME NEW a \in Result, q = <<a>> PROVE Data(<<o>> \o q) = o.data \o Data(q)
  <2>1. <<o>> \o <<a>> = <<o, a>>
    BY Pair
  <2> QED
    BY <1>3, <2>1, DataIs
<1> QED
  BY <1>2, <1>3, Short

\* What the firmware hands over continues what it handed over before.
Run(n) == [i \in 1 .. n |-> i]

LEMMA RunContinues ==
  ASSUME NEW m \in Nat, NEW n \in Nat
  PROVE  Run(m) \o [i \in 1 .. n |-> m + i] = Run(m + n)
<1> DEFINE a == [i \in 1 .. m |-> i]
           b == [i \in 1 .. n |-> m + i]
           c == [i \in 1 .. m + n |-> i]
<1>1. a \in Seq(Nat) /\ Len(a) = m /\ b \in Seq(Nat) /\ Len(b) = n /\ c \in Seq(Nat) /\ Len(c) = m + n
  OBVIOUS
<1>2. /\ \A i \in 1 .. m : a[i] = i
      /\ \A i \in 1 .. n : b[i] = m + i
      /\ \A i \in 1 .. m + n : c[i] = i
  OBVIOUS
<1> HIDE DEF a, b, c
<1>3. a \o b \in Seq(Nat) /\ Len(a \o b) = m + n
  BY <1>1, ConcatProperties
<1>4. \A i \in 1 .. m + n : (a \o b)[i] = c[i]
  <2>1. \A i \in 1 .. Len(a) + Len(b) : (a \o b)[i] = IF i <= Len(a) THEN a[i] ELSE b[i - Len(a)]
    BY <1>1, ConcatProperties
  <2> TAKE i \in 1 .. m + n
  <2>2. CASE i <= m
    BY <1>1, <1>2, <2>1, <2>2
  <2>3. CASE ~ (i <= m)
    <3>1. i - m \in 1 .. n /\ m + (i - m) = i
      BY <2>3
    <3> QED
      BY <1>1, <1>2, <2>1, <2>3, <3>1
  <2> QED
    BY <2>2, <2>3
<1>5. a \o b = c
  BY <1>1, <1>3, <1>4, SeqEqual
<1> QED
  BY <1>5 DEF a, b, c, Run

\* StreamInOrder for one socket, in these terms.
Arrived(s) == IF <<s, "read">> \in ToSet(pending) THEN outcome[<<s, "read">>].data ELSE <<>>
StreamOf(s) == got[s] \o Data(queue[s]) \o Arrived(s) = Run(taken[s])
Streams == ~ exiting => \A s \in Sock : StreamOf(s)

LEMMA StreamsAre == ASSUME Typed PROVE StreamInOrder <=> Streams
<1>1. pending \in Seq(Event) /\ DOMAIN pending = 1 .. Len(pending)
  BY LenProperties DEF Typed, TypeOK, EventTypeOK
<1>2. \A s \in Sock : Queued(s) = Data(queue[s]) /\ Arriving(s) = Arrived(s)
  BY <1>1 DEF Queued, Data, Arriving, Arrived, Contains, ToSet
<1> QED
  BY <1>2 DEF StreamInOrder, Streams, StreamOf, Run

LEMMA StreamsArePrimed == ASSUME Typed', Streams' PROVE StreamInOrder'
<1>1. pending' \in Seq(Event) /\ DOMAIN pending' = 1 .. Len(pending')
  BY LenProperties DEF Typed, TypeOK, EventTypeOK
<1>2. \A s \in Sock : Queued(s)' = Data(queue'[s]) /\ Arriving(s)' = Arrived(s)'
  BY <1>1 DEF Queued, Data, Arriving, Arrived, Contains, ToSet
<1> QED
  BY <1>2 DEF StreamInOrder, Streams, StreamOf, Run

\* What a stream consists of, and the room there is where a read is on its way.
LEMMA StreamTyped ==
  ASSUME EventInv, Streams, ~ exiting, NEW s \in Sock
  PROVE  /\ StreamOf(s)
         /\ got[s] \in Seq(Nat) /\ queue[s] \in Seq(Result \ {Fin}) /\ queue[s] \in Seq(Result)
         /\ Data(queue[s]) \in Seq(Nat) /\ Arrived(s) \in Seq(Nat)
         /\ Len(queue[s]) <= 2
         /\ <<s, "read">> \in handlers => Len(queue[s]) <= 1
         /\ taken[s] \in Nat
<1>1. StateTyped /\ ReadsExact
  BY TypedParts, ReadsAre DEF EventInv
<1>2. /\ got[s] \in Seq(Nat) /\ queue[s] \in Seq(Result \ {Fin}) /\ queue[s] \in Seq(Result)
      /\ taken[s] \in Nat
  <2>1. Seq(Result \ {Fin}) \subseteq Seq(Result)
    OBVIOUS
  <2> QED
    BY <1>1, <2>1, SocketAssumption DEF StateTyped
<1>3. Len(queue[s]) <= 2 /\ (<<s, "read">> \in handlers => Len(queue[s]) <= 1)
  BY <1>1 DEF ReadsExact
<1>4. outcome[<<s, "read">>] \in Result
  BY <1>1, EventOf, ReadOp DEF StateTyped
<1>5. Arrived(s) \in Seq(Nat)
  <2>1. outcome[<<s, "read">>].data \in Seq(Nat) /\ <<>> \in Seq(Nat)
    BY <1>4, ResultTyped
  <2> QED
    BY <2>1 DEF Arrived
<1>6. Data(queue[s]) \in Seq(Nat)
  <2>1. CASE queue[s] = <<>>
    <3>1. <<>> \in Seq(Nat)
      OBVIOUS
    <3> QED
      BY <2>1, <3>1, DataIs
  <2>2. CASE queue[s] # <<>>
    <3>1. Head(queue[s]).data \in Seq(Nat)
      BY <1>2, <2>2, HeadTailProperties, ResultTyped
    <3> QED
      BY <1>2, <1>3, <2>2, <3>1, DataTail, ConcatProperties
  <2> QED
    BY <2>1, <2>2
<1> QED
  BY <1>2, <1>3, <1>5, <1>6 DEF Streams

LEMMA SameStream ==
  ASSUME NEW s \in Sock, StreamOf(s), got'[s] = got[s], queue'[s] = queue[s],
         taken'[s] = taken[s],
         <<s, "read">> \in ToSet(pending') <=> <<s, "read">> \in ToSet(pending),
         <<s, "read">> \in ToSet(pending) => outcome'[<<s, "read">>] = outcome[<<s, "read">>]
  PROVE  StreamOf(s)'
BY DEF StreamOf, Arrived

LEMMA Joined ==
  /\ \A a, b \in Seq(Nat) : a \o b \in Seq(Nat) /\ Len(a \o b) = Len(a) + Len(b)
  /\ \A a, b, c \in Seq(Nat) : (a \o b) \o c = a \o (b \o c)
<1>1. ASSUME NEW a \in Seq(Nat), NEW b \in Seq(Nat)
      PROVE  a \o b \in Seq(Nat) /\ Len(a \o b) = Len(a) + Len(b)
  BY ConcatProperties
<1>2. ASSUME NEW a \in Seq(Nat), NEW b \in Seq(Nat)
      PROVE  /\ \A i \in 1 .. Len(a) : (a \o b)[i] = a[i]
             /\ \A i \in 1 .. Len(b) : (a \o b)[Len(a) + i] = b[i]
  <2>1. \A i \in 1 .. Len(a) + Len(b) : (a \o b)[i] = IF i <= Len(a) THEN a[i] ELSE b[i - Len(a)]
    BY ConcatProperties
  <2>2. Len(a) \in Nat /\ Len(b) \in Nat
    BY LenProperties
  <2>3. /\ \A i \in 1 .. Len(a) : i \in 1 .. Len(a) + Len(b) /\ i <= Len(a)
        /\ \A i \in 1 .. Len(b) : /\ Len(a) + i \in 1 .. Len(a) + Len(b)
                                  /\ ~ (Len(a) + i <= Len(a))
                                  /\ (Len(a) + i) - Len(a) = i
    BY <2>2
  <2> QED
    BY <2>1, <2>3
<1>3. ASSUME NEW a \in Seq(Nat), NEW b \in Seq(Nat), NEW c \in Seq(Nat)
      PROVE  (a \o b) \o c = a \o (b \o c)
  <2> DEFINE ab == a \o b
             bc == b \o c
             p == ab \o c
             q == a \o bc
             k == Len(a)
             l == Len(b)
             m == Len(c)
  <2>1. /\ ab \in Seq(Nat) /\ Len(ab) = k + l /\ bc \in Seq(Nat) /\ Len(bc) = l + m
        /\ p \in Seq(Nat) /\ Len(p) = (k + l) + m /\ q \in Seq(Nat) /\ Len(q) = k + (l + m)
    BY <1>1
  <2>2. k \in Nat /\ l \in Nat /\ m \in Nat
    BY LenProperties
  <2>3. /\ \A i \in 1 .. k : ab[i] = a[i]
        /\ \A i \in 1 .. l : ab[k + i] = b[i]
        /\ \A i \in 1 .. l : bc[i] = b[i]
        /\ \A i \in 1 .. m : bc[l + i] = c[i]
    BY <1>2
  <2>4. /\ \A i \in 1 .. k + l : p[i] = ab[i]
        /\ \A i \in 1 .. m : p[(k + l) + i] = c[i]
        /\ \A i \in 1 .. k : q[i] = a[i]
        /\ \A i \in 1 .. l + m : q[k + i] = bc[i]
    <3> HIDE DEF ab, bc
    <3>1. /\ \A i \in 1 .. Len(ab) : p[i] = ab[i]
          /\ \A i \in 1 .. m : p[Len(ab) + i] = c[i]
      BY <1>2, <2>1
    <3>2. /\ \A i \in 1 .. k : q[i] = a[i]
          /\ \A i \in 1 .. Len(bc) : q[k + i] = bc[i]
      BY <1>2, <2>1
    <3> HIDE DEF p, q, k, l, m
    <3> QED
      BY <2>1, <3>1, <3>2
  <2> HIDE DEF ab, bc, p, q, k, l, m
  <2>5. ASSUME NEW i \in 1 .. Len(p) PROVE p[i] = q[i]
    <3>1. CASE i <= k
      <4>1. i \in 1 .. k /\ i \in 1 .. k + l
        BY <2>2, <3>1
      <4> QED
        BY <2>3, <2>4, <4>1
    <3>2. CASE ~ (i <= k) /\ i <= k + l
      <4>1. PICK j \in 1 .. l : i = k + j
        <5>1. i - k \in 1 .. l /\ i = k + (i - k)
          BY <2>2, <3>2
        <5> QED
          BY <5>1
      <4>2. i \in 1 .. k + l /\ j \in 1 .. l + m
        BY <2>2, <3>2
      <4> QED
        BY <2>3, <2>4, <4>1, <4>2
    <3>3. CASE ~ (i <= k + l)
      <4>1. PICK j \in 1 .. m : i = (k + l) + j
        <5>1. i - (k + l) \in 1 .. m /\ i = (k + l) + (i - (k + l))
          BY <2>1, <2>2, <3>3
        <5> QED
          BY <5>1
      <4>2. l + j \in 1 .. l + m /\ (k + l) + j = k + (l + j)
        BY <2>2
      <4> QED
        BY <2>3, <2>4, <4>1, <4>2
    <3> QED
      BY <2>2, <3>1, <3>2, <3>3
  <2>6. Len(p) = Len(q)
    BY <2>1, <2>2
  <2>7. p = q
    BY <2>1, <2>5, <2>6, SeqEqual
  <2> QED
    BY <2>7 DEF p, q, ab, bc
<1> QED
  BY <1>1, <1>3

\* The next part of a stream moves on: from the firmware to the queue,
LEMMA StreamQueued ==
  ASSUME NEW g \in Seq(Nat), NEW q \in Seq(Result), Len(q) <= 1, NEW o \in Result
  PROVE  g \o Data(Append(q, o)) \o <<>> = g \o Data(q) \o o.data
<1>1. /\ Data(Append(q, o)) = Data(q) \o o.data
      /\ Data(q) \in Seq(Nat) /\ o.data \in Seq(Nat)
  BY DataAppended, ResultTyped
<1>2. (g \o Data(q)) \o o.data = g \o (Data(q) \o o.data)
  BY <1>1, Joined, Zenon
<1>3. g \o (Data(q) \o o.data) \in Seq(Nat)
  BY <1>1, ConcatProperties
<1> QED
  BY <1>1, <1>2, <1>3, ConcatEmptySeq

\* from the queue to the program, the first buffer or some of it,
LEMMA StreamTaken ==
  ASSUME NEW g \in Seq(Nat), NEW q \in Seq(Result), q # <<>>, Len(q) <= 2, NEW a \in Seq(Nat)
  PROVE  (g \o Head(q).data) \o Data(Tail(q)) \o a = g \o Data(q) \o a
<1>1. /\ Data(q) = Head(q).data \o Data(Tail(q))
      /\ Data(Tail(q)) \in Seq(Nat) /\ Head(q).data \in Seq(Nat)
  BY DataTail, HeadTailProperties, ResultTyped
<1>2. (g \o Head(q).data) \o Data(Tail(q)) = g \o (Head(q).data \o Data(Tail(q)))
  BY <1>1, Joined, Zenon
<1> QED
  BY <1>1, <1>2

LEMMA Split ==
  ASSUME NEW d \in Seq(Nat), NEW n \in 0 .. Len(d)
  PROVE  /\ SubSeq(d, 1, n) \in Seq(Nat) /\ SubSeq(d, n + 1, Len(d)) \in Seq(Nat)
         /\ SubSeq(d, 1, n) \o SubSeq(d, n + 1, Len(d)) = d
<1>1. Len(d) \in Nat /\ 1 \in 1 .. Len(d) + 1 /\ n \in 1 - 1 .. Len(d) /\ Len(d) \in n .. Len(d)
  BY LenProperties
<1>2. SubSeq(d, 1, n) \o SubSeq(d, n + 1, Len(d)) = SubSeq(d, 1, Len(d))
  BY <1>1, ConcatAdjacentSubSeq
<1>3. \A i \in 1 .. Len(d) : d[i] \in Nat
  BY ElementOfSeq
<1>4. /\ \A i \in 1 .. n : d[i] \in Nat
      /\ \A i \in n + 1 .. Len(d) : d[i] \in Nat
      /\ n \in Int /\ n + 1 \in Int
  BY <1>1, <1>3
<1>5. SubSeq(d, 1, n) \in Seq(Nat) /\ SubSeq(d, n + 1, Len(d)) \in Seq(Nat)
  BY <1>1, <1>4, SubSeqProperties
<1>6. SubSeq(d, 1, Len(d)) = d
  BY SubSeqFull
<1> QED
  BY <1>2, <1>5, <1>6

LEMMA StreamSplit ==
  ASSUME NEW q \in Seq(Result), q # <<>>, Len(q) <= 2, NEW first \in Seq(Nat),
         NEW rest \in Seq(Nat), Ok(rest) \in Result, first \o rest = Head(q).data
  PROVE  /\ Data(q) = first \o Data(<<Ok(rest)>> \o Tail(q))
         /\ Data(<<Ok(rest)>> \o Tail(q)) \in Seq(Nat)
<1> DEFINE tail == Data(Tail(q))
<1>1. /\ Data(q) = (first \o rest) \o tail /\ tail \in Seq(Nat)
      /\ Tail(q) \in Seq(Result) /\ Len(Tail(q)) <= 1
  BY DataTail, HeadTailProperties
<1>2. Data(<<Ok(rest)>> \o Tail(q)) = rest \o tail
  <2>1. Ok(rest).data = rest
    BY DEF Ok
  <2> QED
    BY <1>1, <2>1, DataBefore
<1> HIDE DEF tail
<1>3. (first \o rest) \o tail = first \o (rest \o tail) /\ rest \o tail \in Seq(Nat)
  BY <1>1, Joined, Zenon
<1> QED
  BY <1>1, <1>2, <1>3

LEMMA StreamStep ==
  ASSUME RoomForAll, EventInv, EndTold, Streams, [Next]_vars
  PROVE  Streams'
<1>0. /\ Typed /\ CallOf /\ StateTyped /\ at \in Sock
      /\ queue \in [Sock -> Seq(Result \ {Fin})] /\ got \in [Sock -> Seq(Nat)]
      /\ outcome \in [Event -> Result] /\ taken \in [Sock -> 0 .. MaxSent]
  BY TypedParts DEF EventInv, StateTyped, Typed, TypeOK
<1> SUFFICES ASSUME ~ exiting', NEW s \in Sock PROVE StreamOf(s)'
  BY DEF Streams
<1> DEFINE r == <<s, "read">>
<1>r. r \in Event
  BY EventOf, ReadOp
<1>1. CASE UNCHANGED <<got, queue, taken, pending, outcome, exiting>>
  BY <1>1, SameStream DEF Streams
<1> SUFFICES ASSUME Next PROVE StreamOf(s)'
  BY <1>1 DEF vars, eventVars, fwVars, peerVars, resultVars, pastVars
<1>2. ~ exiting /\ ~ ExitStep
  BY <1>0, ExitStays
<1>3. /\ StreamOf(s) /\ got[s] \in Seq(Nat) /\ queue[s] \in Seq(Result)
      /\ queue[s] \in Seq(Result \ {Fin})
      /\ Data(queue[s]) \in Seq(Nat) /\ Arrived(s) \in Seq(Nat) /\ Len(queue[s]) <= 2
      /\ r \in handlers => Len(queue[s]) <= 1
      /\ taken[s] \in Nat
  BY <1>2, StreamTyped
<1>4. ASSUME NEW e \in Event, Callback(e) PROVE StreamOf(s)'
  <2>1. /\ e \in handlers /\ e \in ToSet(pending) /\ ToSet(pending') = ToSet(pending) \ {e}
        /\ Note(e[1], e[2], outcome[e]) /\ outcome' = [outcome EXCEPT ![e] = Error]
        /\ got' = got /\ taken' = taken /\ outcome[e] \in Result
        /\ e[1] \in Sock /\ e[2] \in Op /\ e = <<e[1], e[2]>>
    BY <1>0, <1>2, <1>4, Handled, EventIs DEF Callback, pastVars, peerVars
  <2>2. CASE e # r
    <3>1. e[1] # s \/ e[2] # "read"
      BY <2>1, <2>2
    <3>2. queue'[s] = queue[s]
      BY <1>0, <2>1, <3>1, NoteReads
    <3>3. outcome'[r] = outcome[r]
      BY <1>0, <1>r, <2>1, <2>2
    <3> QED
      BY <1>3, <2>1, <2>2, <3>2, <3>3, SameStream
  <2>3. CASE e = r
    <3> DEFINE o == outcome[r]
    <3>1. /\ Arrived(s) = o.data /\ Arrived(s)' = <<>> /\ o \in Result
          /\ e[1] = s /\ e[2] = "read" /\ Len(queue[s]) <= 1
      BY <1>3, <2>1, <2>3 DEF Arrived
    <3>2. CASE o = Fin
      <4>1. queue'[s] = queue[s] /\ o.data = <<>>
        BY <1>0, <2>1, <2>3, <3>1, <3>2 DEF Note, Fin
      <4> QED
        BY <1>3, <2>1, <3>1, <4>1 DEF StreamOf
    <3>3. CASE o # Fin
      <4>1. queue'[s] = Append(queue[s], o)
        BY <1>0, <2>1, <2>3, <3>1, <3>3 DEF Note
      <4>2. got[s] \o Data(Append(queue[s], o)) \o <<>> = got[s] \o Data(queue[s]) \o o.data
        BY <1>3, <3>1, StreamQueued
      <4> QED
        BY <1>3, <2>1, <3>1, <4>1, <4>2 DEF StreamOf
    <3> QED
      BY <3>2, <3>3
  <2> QED
    BY <2>2, <2>3
<1>5. ASSUME NEW q \in Sock, Firmware(q) PROVE StreamOf(s)'
  <2>1. PICK op \in Op, o \in Handed :
               FirmwareHands(q, op, o)
    BY <1>0, <1>5, FirmwareSteps
  <2>2. <<q, op>> \in Event /\ Complete(<<q, op>>, o)
    BY <2>1, EventOf DEF FirmwareHands
  <2>3. /\ <<q, op>> \notin ToSet(pending) /\ ToSet(pending') = ToSet(pending) \cup {<<q, op>>}
        /\ outcome' = [outcome EXCEPT ![<<q, op>>] = o] /\ UNCHANGED <<got, queue>>
    BY <1>2, <2>2, Signalled DEF Complete, resultVars, pastVars
  <2>4. CASE <<q, op>> # r
    <3>1. outcome'[r] = outcome[r] /\ (r \in ToSet(pending') <=> r \in ToSet(pending))
      BY <1>0, <1>r, <2>3, <2>4
    <3>2. taken'[s] = taken[s]
      <4>1. taken' = taken \/ (op = "read" /\ \E n \in 1 .. MaxSent :
                                                taken' = [taken EXCEPT ![q] = @ + n])
        BY <2>1 DEF FirmwareHands
      <4> QED
        BY <1>0, <2>4, <4>1
    <3> QED
      BY <1>3, <2>3, <3>1, <3>2, SameStream
  <2>5. CASE <<q, op>> = r
    <3>1. /\ q = s /\ op = "read" /\ outcome'[r] = o /\ Arrived(s) = <<>> /\ Arrived(s)' = o.data
      BY <1>0, <1>r, <2>3, <2>5 DEF Arrived
    <3>2. got[s] \o Data(queue[s]) = Run(taken[s])
      <4>1. got[s] \o Data(queue[s]) \in Seq(Nat)
        BY <1>3, Joined
      <4> QED
        BY <1>3, <3>1, <4>1, ConcatEmptySeq DEF StreamOf
    <3>3. CASE taken' = taken /\ o.data = <<>>
      BY <1>3, <2>3, <3>1, <3>3 DEF StreamOf
    <3>4. ASSUME NEW n \in 1 .. MaxSent, o = Ok([i \in 1 .. n |-> taken[s] + i]),
                 taken' = [taken EXCEPT ![s] = @ + n]
          PROVE  StreamOf(s)'
      <4>1. n \in Nat /\ o.data = [i \in 1 .. n |-> taken[s] + i] /\ taken'[s] = taken[s] + n
        BY <1>0, <3>4, SocketAssumption DEF Ok
      <4>2. Run(taken[s]) \o [i \in 1 .. n |-> taken[s] + i] = Run(taken[s] + n)
        BY <1>3, <4>1, RunContinues
      <4>3. got[s] \o Data(queue[s]) \o o.data = Run(taken[s] + n)
        BY <3>2, <4>1, <4>2
      <4>4. got'[s] = got[s] /\ queue'[s] = queue[s] /\ Arrived(s)' = o.data
        BY <2>3, <3>1
      <4>5. got'[s] \o Data(queue'[s]) \o Arrived(s)' = got[s] \o Data(queue[s]) \o o.data
        BY <4>4
      <4>6. Run(taken'[s]) = Run(taken[s] + n)
        BY <4>1
      <4> QED
        BY <4>3, <4>5, <4>6 DEF StreamOf
    <3> QED
      <4>1. \/ o \in {Error, Fin, Ok(<<>>)} /\ taken' = taken
            \/ \E n \in 1 .. MaxSent : /\ o = Ok([i \in 1 .. n |-> taken[s] + i])
                                       /\ taken' = [taken EXCEPT ![s] = @ + n]
        BY <2>1, <3>1 DEF FirmwareHands
      <4>2. Error.data = <<>> /\ Fin.data = <<>> /\ Ok(<<>>).data = <<>>
        BY DEF Error, Fin, Ok
      <4> QED
        BY <3>3, <3>4, <4>1, <4>2
  <2> QED
    BY <2>4, <2>5
<1>6. ASSUME NEW q \in Sock, Peer(q) PROVE StreamOf(s)'
  BY <1>1, <1>6 DEF Peer, eventVars, resultVars, pastVars
<1>7. CASE Start
  <2>1. UNCHANGED <<got, taken, pending, outcome>> /\ call.pc \in {"start", "select_start"}
        /\ StartRead(at)
    BY <1>7 DEF Start, peerVars, pastVars, Goto
  <2>2. CASE queue' = queue
    BY <1>3, <2>1, <2>2, SameStream
  <2>3. CASE queue' = [queue EXCEPT ![at] = Append(@, Error)] /\ ~ running[at]
    <3>1. CASE s # at
      <4>1. queue'[s] = queue[s]
        BY <1>0, <2>3, <3>1
      <4> QED
        BY <1>3, <2>1, <4>1, SameStream
    <3>2. CASE s = at
      <4>1. Len(queue[s]) <= 1 /\ ~ (r \in ToSet(pending))
        <5>1. ReadsExact /\ at = call.at
          BY <1>0, ReadsAre DEF EventInv, at
        <5>2. r \notin handlers
          BY <1>2, <2>3, <3>2, <5>1 DEF ReadsExact
        <5> QED
          BY <1>2, <2>1, <3>2, <5>1, <5>2 DEF ReadsExact, EventInv, EventsExact
      <4>2. Arrived(s) = <<>> /\ Arrived(s)' = <<>>
        BY <2>1, <4>1 DEF Arrived
      <4>3. queue'[s] = Append(queue[s], Error) /\ Error.data = <<>> /\ Error \in Result
        BY <1>0, <2>3, <3>2, ErrorResult DEF Error
      <4>4. got[s] \o Data(Append(queue[s], Error)) \o <<>>
              = got[s] \o Data(queue[s]) \o Error.data
        BY <1>3, <4>1, <4>3, StreamQueued
      <4> QED
        BY <1>3, <2>1, <4>2, <4>3, <4>4 DEF StreamOf
    <3> QED
      BY <3>1, <3>2
  <2> QED
    BY <2>1, <2>2, <2>3, ErrorResult DEF StartRead, Note, resultVars
<1>8. CASE TakeConnection
  <2>1. /\ got' = [got EXCEPT ![at] = @ \o Head(queue[at]).data]
        /\ queue' = [queue EXCEPT ![at] = Tail(@)] /\ UNCHANGED <<taken, pending, outcome>>
    BY <1>8 DEF TakeConnection, eventVars, fwVars, peerVars
  <2>2. queue[at] # <<>>
    <3>1. at \notin Client
      BY <1>8, SocketAssumption DEF TakeConnection
    <3> QED
      BY <1>0, <1>8, <3>1 DEF TakeConnection, Readable, EndTold
  <2>3. CASE s # at
    BY <1>0, <1>3, <2>1, <2>3, SameStream
  <2>4. CASE s = at
    <3>1. (got[s] \o Head(queue[s]).data) \o Data(Tail(queue[s])) \o Arrived(s)
            = got[s] \o Data(queue[s]) \o Arrived(s)
      BY <1>3, <2>2, <2>4, StreamTaken
    <3>2. /\ got'[s] = got[s] \o Head(queue[s]).data /\ queue'[s] = Tail(queue[s])
          /\ Arrived(s)' = Arrived(s)
      BY <1>0, <2>1, <2>4 DEF Arrived
    <3> QED
      BY <1>3, <2>1, <3>1, <3>2 DEF StreamOf
  <2> QED
    BY <2>3, <2>4
<1>9. CASE CopyData
  <2> DEFINE n == CopyLength
             d == CopySource
             rest == Ok(SubSeq(d, n + 1, Len(d)))
  <2>1. /\ queue[at] # <<>> /\ d = Head(queue[at]).data /\ d \in Seq(Nat) /\ n \in 0 .. Len(d)
        /\ got' = [got EXCEPT ![at] = @ \o SubSeq(d, 1, n)]
        /\ queue' = [queue EXCEPT ![at] = IF n < Len(d) THEN <<rest>> \o Tail(@) ELSE Tail(@)]
        /\ n < Len(d) => rest \in Result
        /\ UNCHANGED <<taken, pending, outcome>>
    BY <1>0, <1>9, CopyDataSteps DEF CopySource, eventVars, fwVars, peerVars
  <2> HIDE DEF n, d
  <2>2. CASE s # at
    BY <1>0, <1>3, <2>1, <2>2, SameStream
  <2>3. CASE s = at
    <3>1. /\ got'[s] = got[s] \o SubSeq(d, 1, n) /\ Arrived(s)' = Arrived(s)
          /\ queue'[s] = IF n < Len(d) THEN <<rest>> \o Tail(queue[s]) ELSE Tail(queue[s])
      BY <1>0, <2>1, <2>3 DEF Arrived
    <3>2. CASE n < Len(d)
      <4> DEFINE first == SubSeq(d, 1, n)
                 last == SubSeq(d, n + 1, Len(d))
      <4>1. /\ first \in Seq(Nat) /\ last \in Seq(Nat) /\ first \o last = Head(queue[s]).data
            /\ Ok(last) \in Result /\ queue[s] # <<>>
        BY <2>1, <2>3, <3>2, Split
      <4>2. got'[s] = got[s] \o first /\ queue'[s] = <<Ok(last)>> \o Tail(queue[s])
        BY <3>1, <3>2
      <4> HIDE DEF first, last
      <4> DEFINE q == queue[s]
                 p == <<Ok(last)>> \o Tail(q)
      <4>3. q \in Seq(Result) /\ q # <<>> /\ Len(q) <= 2 /\ first \o last = Head(q).data
        BY <1>3, <4>1
      <4>4. Data(q) = first \o Data(p) /\ Data(p) \in Seq(Nat)
        <5> HIDE DEF q
        <5> QED
          BY <4>1, <4>3, StreamSplit
      <4> HIDE DEF p, q
      <4>5. (got[s] \o first) \o Data(p) = got[s] \o Data(q)
        <5>1. got[s] \in Seq(Nat)
          BY <1>3
        <5>2. (got[s] \o first) \o Data(p) = got[s] \o (first \o Data(p))
          BY <4>1, <4>4, <5>1, Joined, Zenon
        <5> QED
          BY <4>4, <5>2
      <4> QED
        BY <1>3, <2>1, <3>1, <4>2, <4>5 DEF StreamOf, p, q
    <3>3. CASE ~ (n < Len(d))
      <4>1. n = Len(d)
        BY <2>1, <3>3, LenProperties
      <4>2. SubSeq(d, 1, n) = d
        BY <2>1, <4>1, SubSeqFull
      <4>3. (got[s] \o d) \o Data(Tail(queue[s])) \o Arrived(s)
              = got[s] \o Data(queue[s]) \o Arrived(s)
        BY <1>3, <2>1, <2>3, StreamTaken
      <4> QED
        BY <1>3, <2>1, <3>1, <3>3, <4>2, <4>3 DEF StreamOf
    <3> QED
      BY <3>2, <3>3
  <2> QED
    BY <2>2, <2>3
<1>10. ASSUME NEW q \in Sock, NEW l, connect(q, l) \/ sendall(q) \/ close(q) PROVE StreamOf(s)'
  <2>1. UNCHANGED <<got, taken, pending, outcome, exiting>>
    BY <1>10 DEF connect, sendall, close, peerVars, pastVars, create_event
  <2>2. queue' = queue
    BY <1>10 DEF connect, sendall, close, resultVars, Note
  <2> QED
    BY <1>1, <2>1, <2>2
<1>11. CASE QuietStep
  BY <1>1, <1>11, QuietSteps DEF eventVars, peerVars
<1> QED
  BY <1>2, <1>4, <1>5, <1>6, <1>7, <1>8, <1>9, <1>10, <1>11, NoStaleCallback, AllSteps

\* A program that has read as much as was sent finds nothing more to copy.
LEMMA NothingLeft ==
  ASSUME EventInv, Streams, ~ exiting, NEW s \in Sock, taken[s] <= Len(got[s])
  PROVE  /\ Len(got[s]) = taken[s]
         /\ queue[s] # <<>> => Len(Head(queue[s]).data) = 0
<1>1. /\ got[s] \o Data(queue[s]) \o Arrived(s) = Run(taken[s])
      /\ got[s] \in Seq(Nat) /\ Data(queue[s]) \in Seq(Nat) /\ Arrived(s) \in Seq(Nat)
      /\ taken[s] \in Nat /\ queue[s] \in Seq(Result) /\ Len(queue[s]) <= 2
  BY StreamTyped DEF StreamOf
<1> DEFINE g == Len(got[s])
           d == Len(Data(queue[s]))
           a == Len(Arrived(s))
<1>2. g \in Nat /\ d \in Nat /\ a \in Nat
  BY <1>1, LenProperties
<1>3. (g + d) + a = taken[s]
  <2>1. Len(Run(taken[s])) = taken[s]
    BY <1>1 DEF Run
  <2>2. Len(got[s] \o Data(queue[s])) = g + d /\ got[s] \o Data(queue[s]) \in Seq(Nat)
    BY <1>1, Joined
  <2>3. Len((got[s] \o Data(queue[s])) \o Arrived(s)) = (g + d) + a
    <3> DEFINE gd == got[s] \o Data(queue[s])
    <3>1. gd \in Seq(Nat) /\ Len(gd) = g + d
      BY <2>2
    <3> HIDE DEF gd
    <3>2. Len(gd \o Arrived(s)) = Len(gd) + Len(Arrived(s))
      BY <1>1, <3>1, Joined
    <3> QED
      BY <3>1, <3>2 DEF gd
  <2> QED
    BY <1>1, <2>1, <2>3
<1>4. g = taken[s] /\ d = 0
  <2> HIDE DEF g, d, a
  <2>1. taken[s] <= g
    BY DEF g
  <2> QED
    BY <1>1, <1>2, <1>3, <2>1
<1>5. ASSUME queue[s] # <<>> PROVE Len(Head(queue[s]).data) = 0
  <2>1. /\ Data(queue[s]) = Head(queue[s]).data \o Data(Tail(queue[s]))
        /\ Data(Tail(queue[s])) \in Seq(Nat) /\ Head(queue[s]).data \in Seq(Nat)
    BY <1>1, <1>5, DataTail, HeadTailProperties, ResultTyped
  <2> DEFINE h == Len(Head(queue[s]).data)
             t == Len(Data(Tail(queue[s])))
  <2>2. h + t = d /\ h \in Nat /\ t \in Nat
    BY <2>1, Joined, LenProperties
  <2> HIDE DEF h, t, d
  <2>3. h = 0
    BY <1>4, <2>2
  <2> QED
    BY <2>3 DEF h
<1> QED
  BY <1>4, <1>5

LEMMA EofStep ==
  ASSUME EventInv, EndTold, Streams, CopiesReadable, EofMeansAll, [Next]_vars
  PROVE  EofMeansAll'
<1>0. /\ Typed /\ CallOf /\ StateTyped /\ at \in Sock
      /\ got \in [Sock -> Seq(Nat)] /\ eof \in [Sock -> BOOLEAN] /\ fin \in [Sock -> BOOLEAN]
      /\ taken \in [Sock -> 0 .. MaxSent] /\ sent \in [Sock -> 0 .. MaxSent]
      /\ \A s \in Sock : taken[s] <= sent[s]
  BY TypedParts DEF EventInv, StateTyped, Typed, TypeOK
<1>1. CASE UNCHANGED <<got, eof, fin, sent>>
  BY <1>1 DEF EofMeansAll
<1> SUFFICES ASSUME Next PROVE EofMeansAll'
  BY <1>1 DEF vars, peerVars, pastVars
<1>2. ASSUME NEW s \in Sock, Peer(s) PROVE EofMeansAll'
  <2>1. UNCHANGED <<got, eof>> /\ \A r \in Sock : fin[r] => fin'[r] /\ sent'[r] = sent[r]
    BY <1>0, <1>2 DEF Peer, pastVars
  <2> QED
    BY <2>1 DEF EofMeansAll, Sock
<1>3. CASE TakeConnection
  <2>1. UNCHANGED <<eof, fin, sent>> /\ got' = [got EXCEPT ![at] = @ \o Head(queue[at]).data]
        /\ at \notin Client
    BY <1>3, SocketAssumption DEF TakeConnection, peerVars
  <2> QED
    BY <1>0, <2>1 DEF EofMeansAll, Sock
<1>4. CASE CopyData
  <2>1. /\ UNCHANGED <<eof, fin, sent>>
        /\ queue[at] # <<>> /\ CopySource \in Seq(Nat) /\ CopyLength \in 0 .. Len(CopySource)
        /\ got' = [got EXCEPT ![at] = @ \o SubSeq(CopySource, 1, CopyLength)]
    BY <1>0, <1>4, CopyDataSteps DEF peerVars
  <2>2. ASSUME NEW s \in Client, eof[s] PROVE Len(got'[s]) = Len(got[s])
    <3>1. CASE s # at
      BY <1>0, <2>1, <3>1 DEF Sock
    <3>2. CASE s = at
      <4>1. ~ exiting
        BY <1>0, <1>4 DEF CopyData, CallOf, ExitPcs
      <4>2. taken[s] <= Len(got[s])
        BY <1>0, <2>2 DEF EofMeansAll, Sock
      <4>3. Len(CopySource) = 0
        BY <1>0, <2>1, <3>2, <4>1, <4>2, NothingLeft DEF CopySource
      <4>4. SubSeq(CopySource, 1, CopyLength) = <<>>
        <5>1. CopyLength = 0
          BY <2>1, <4>3
        <5> QED
          BY <5>1, SubSeqEmpty
      <4>5. got'[s] = got[s] \o <<>> /\ got[s] \in Seq(Nat)
        BY <1>0, <2>1, <3>2, <4>4
      <4> QED
        BY <4>5, ConcatEmptySeq
    <3> QED
      BY <3>1, <3>2
  <2> QED
    BY <2>1, <2>2 DEF EofMeansAll
<1>5. CASE CopyDone
  <2>1. /\ UNCHANGED <<got, fin, sent>> /\ eof' = [eof EXCEPT ![at] = @ \/ call.copied = 0]
        /\ queue[at] = <<>> \/ call.copied = call.want
        /\ call.pc = "copy"
    BY <1>5 DEF CopyDone, peerVars, Goto
  <2>2. ASSUME call.copied = 0 PROVE fin[at] /\ Len(got[at]) = sent[at]
    <3>1. call.want # 0 /\ ~ exiting
      BY <1>0, <2>1 DEF CallOf, ReadPcs, ExitPcs
    <3>2. queue[at] = <<>> /\ shut[at]
      BY <2>1, <2>2, <3>1 DEF CopiesReadable, Readable
    <3>3. fin[at] /\ taken[at] = sent[at] /\ ~ running[at]
      BY <1>0, <3>1, <3>2 DEF EndTold
    <3>4. Arrived(at) = <<>>
      <4>1. <<at, "read">> \notin handlers
        BY <1>0, <3>1, <3>3, ReadsAre DEF EventInv, ReadsExact
      <4> QED
        BY <3>1, <4>1 DEF EventInv, EventsExact, Arrived
    <3>5. got[at] \o <<>> \o <<>> = Run(taken[at]) /\ got[at] \in Seq(Nat) /\ taken[at] \in Nat
      BY <1>0, <3>1, <3>2, <3>4, StreamTyped, DataIs DEF StreamOf
    <3>6. got[at] = Run(taken[at])
      BY <3>5, ConcatEmptySeq
    <3> QED
      BY <3>3, <3>5, <3>6 DEF Run
  <2>3. ASSUME NEW s \in Client, eof'[s] PROVE fin[s] /\ Len(got[s]) = sent[s]
    <3>1. eof[s] \/ (s = at /\ call.copied = 0)
      BY <1>0, <2>1, <2>3 DEF Sock
    <3> QED
      BY <2>2, <3>1 DEF EofMeansAll
  <2> QED
    BY <2>1, <2>3 DEF EofMeansAll
<1>6. ASSUME NEW e \in Event, Callback(e) \/ StaleCallback(e) PROVE EofMeansAll'
  BY <1>1, <1>6 DEF Callback, StaleCallback, peerVars, pastVars
<1>7. ASSUME NEW s \in Sock, Firmware(s) PROVE EofMeansAll'
  <2>1. PICK op \in Op, o \in Handed : FirmwareHands(s, op, o)
    BY <1>0, <1>7, FirmwareSteps
  <2> QED
    BY <1>1, <2>1 DEF FirmwareHands, Complete, pastVars
<1>8. CASE Start
  BY <1>1, <1>8 DEF Start, peerVars, pastVars
<1>9. ASSUME NEW s \in Sock, NEW l, connect(s, l) \/ sendall(s) \/ close(s) PROVE EofMeansAll'
  BY <1>1, <1>9 DEF connect, sendall, close, peerVars, pastVars
<1>10. CASE QuietStep
  <2>1. LocalStep => UNCHANGED <<got, eof, fin, sent>>
    BY LocalSteps DEF OnlyCall, peerVars, pastVars
  <2>2. BeginCopy \/ RoundEnds => UNCHANGED <<got, eof, fin, sent>>
    BY DEF BeginCopy, RoundEnds, peerVars, pastVars
  <2>3. ASSUME NEW s \in Sock, getsockopt(s) \/ listen(s) PROVE UNCHANGED <<got, eof, fin, sent>>
    BY <2>3 DEF getsockopt, listen, peerVars, pastVars
  <2>4. ASSUME NEW xs, NEW l, select(xs, l) PROVE UNCHANGED <<got, eof, fin, sent>>
    BY <2>4 DEF select, peerVars, pastVars
  <2> QED
    BY <1>1, <1>5, <1>10, <2>1, <2>2, <2>3, <2>4 DEF QuietStep
<1>11. CASE ExitStep
  BY <1>1, <1>11 DEF ExitStep, close_all_events, NextEvent, Abort, CloseAll, CloseCurrent,
                     peerVars, pastVars
<1> QED
  BY <1>2, <1>3, <1>4, <1>6, <1>7, <1>8, <1>9, <1>10, <1>11, AllSteps

-----------------------------------------------------------------------------
(* What is handed over for a read is not empty, and what is ready stays. *)

Full(q) == \A i \in DOMAIN q : SomeData(q[i])

LEMMA FullAppended ==
  ASSUME NEW S, NEW q \in Seq(S), Full(q), NEW o \in S, SomeData(o)
  PROVE  Full(Append(q, o))
<1>1. /\ DOMAIN q = 1 .. Len(q) /\ Len(q) \in Nat
      /\ DOMAIN Append(q, o) = 1 .. Len(q) + 1
      /\ \A i \in 1 .. Len(q) : Append(q, o)[i] = q[i]
      /\ Append(q, o)[Len(q) + 1] = o
  BY LenProperties, AppendProperties
<1>2. \A i \in 1 .. Len(q) + 1 : i \in 1 .. Len(q) \/ i = Len(q) + 1
  BY <1>1
<1> QED
  BY <1>1, <1>2 DEF Full

LEMMA FullTail ==
  ASSUME NEW S, NEW q \in Seq(S), q # <<>>, Full(q)
  PROVE  Full(Tail(q)) /\ SomeData(Head(q))
<1>1. /\ DOMAIN q = 1 .. Len(q) /\ Len(q) \in Nat \ {0}
      /\ Head(q) = q[1]
      /\ DOMAIN Tail(q) = 1 .. Len(q) - 1
      /\ \A i \in 1 .. Len(q) - 1 : Tail(q)[i] = q[i + 1]
  BY LenProperties, EmptySeq, HeadTailProperties
<1>2. 1 \in 1 .. Len(q) /\ \A i \in 1 .. Len(q) - 1 : i + 1 \in 1 .. Len(q)
  BY <1>1
<1> QED
  BY <1>1, <1>2 DEF Full

LEMMA FullBefore ==
  ASSUME NEW S, NEW q \in Seq(S), Full(q), NEW o \in S, SomeData(o)
  PROVE  Full(<<o>> \o q)
<1>1. <<o>> \in Seq(S) /\ Len(<<o>>) = 1 /\ <<o>>[1] = o /\ Len(q) \in Nat /\ DOMAIN q = 1 .. Len(q)
  BY LenProperties
<1>2. \A i \in 1 .. Len(<<o>>) + Len(q) :
        (<<o>> \o q)[i] = IF i <= Len(<<o>>) THEN <<o>>[i] ELSE q[i - Len(<<o>>)]
  BY <1>1, ConcatProperties
<1>3. DOMAIN (<<o>> \o q) = 1 .. 1 + Len(q)
  <2>1. <<o>> \o q \in Seq(S) /\ Len(<<o>> \o q) = Len(<<o>>) + Len(q)
    BY <1>1, ConcatProperties
  <2> QED
    BY <1>1, <2>1, LenProperties
<1>4. ASSUME NEW i \in 1 .. 1 + Len(q) PROVE SomeData((<<o>> \o q)[i])
  <2>1. CASE i <= 1
    BY <1>1, <1>2, <2>1
  <2>2. CASE ~ (i <= 1)
    <3>1. i - 1 \in 1 .. Len(q)
      BY <1>1, <2>2
    <3>2. (<<o>> \o q)[i] = q[i - 1]
      BY <1>1, <1>2, <2>2
    <3> QED
      BY <1>1, <3>1, <3>2 DEF Full
  <2> QED
    BY <2>1, <2>2
<1> QED
  BY <1>3, <1>4 DEF Full

LEMMA DataStep ==
  ASSUME EventInv, EndTold, DataNotEmpty, [Next]_vars
  PROVE  DataNotEmpty'
<1>0. /\ Typed /\ StateTyped /\ at \in Sock
      /\ queue \in [Sock -> Seq(Result \ {Fin})] /\ outcome \in [Event -> Result]
      /\ \A s \in Sock : Full(queue[s]) /\ SomeData(outcome[<<s, "read">>])
      /\ \A s \in Sock : <<s, "read">> \in Event
      /\ SomeData(Error) /\ SomeData(Fin)
  BY TypedParts, EventOf, ReadOp
     DEF EventInv, StateTyped, Typed, TypeOK, DataNotEmpty, Full, SomeData, Error, Fin
<1> SUFFICES ASSUME NEW s \in Sock
             PROVE  Full(queue'[s]) /\ SomeData(outcome'[<<s, "read">>])
  BY DEF DataNotEmpty, Full
<1>1. CASE UNCHANGED <<queue, outcome>>
  BY <1>0, <1>1
<1> SUFFICES ASSUME Next PROVE Full(queue'[s]) /\ SomeData(outcome'[<<s, "read">>])
  BY <1>1 DEF vars, fwVars, resultVars
<1>2. ASSUME NEW e \in Event, Callback(e)
      PROVE  Full(queue'[s]) /\ SomeData(outcome'[<<s, "read">>])
  <2>1. /\ Note(e[1], e[2], outcome[e]) /\ outcome' = [outcome EXCEPT ![e] = Error]
        /\ e[1] \in Sock /\ e = <<e[1], e[2]>>
    BY <1>2, EventIs DEF Callback
  <2>2. SomeData(outcome'[<<s, "read">>])
    BY <1>0, <2>1
  <2>3. CASE queue' = queue
    BY <1>0, <2>2, <2>3
  <2>4. CASE e[2] = "read" /\ outcome[e] # Fin
             /\ queue' = [queue EXCEPT ![e[1]] = Append(@, outcome[e])]
    <3>1. SomeData(outcome[e]) /\ outcome[e] \in Result \ {Fin}
      BY <1>0, <2>1, <2>4
    <3>2. Full(Append(queue[s], outcome[e]))
      BY <1>0, <3>1, FullAppended
    <3>3. queue'[s] = IF s = e[1] THEN Append(queue[s], outcome[e]) ELSE queue[s]
      BY <1>0, <2>4
    <3> QED
      BY <1>0, <2>2, <3>2, <3>3
  <2> QED
    BY <2>1, <2>3, <2>4 DEF Note
<1>3. ASSUME NEW q \in Sock, Firmware(q)
      PROVE  Full(queue'[s]) /\ SomeData(outcome'[<<s, "read">>])
  <2>1. PICK op \in Op, o \in Handed : FirmwareHands(q, op, o)
    BY <1>0, <1>3, FirmwareSteps
  <2>2. queue' = queue /\ outcome' = [outcome EXCEPT ![<<q, op>>] = o]
    BY <2>1 DEF FirmwareHands, Complete, resultVars
  <2>3. op = "read" => SomeData(o)
    <3>1. ASSUME NEW n \in 1 .. MaxSent, o = Ok([i \in 1 .. n |-> taken[q] + i])
          PROVE  SomeData(o)
      <4>1. [i \in 1 .. n |-> taken[q] + i] # <<>>
        <5>1. 1 \in DOMAIN [i \in 1 .. n |-> taken[q] + i]
          BY SocketAssumption
        <5>2. DOMAIN <<>> = {}
          OBVIOUS
        <5> QED
          BY <5>1, <5>2
      <4> QED
        BY <3>1, <4>1 DEF SomeData, Ok
    <3> QED
      BY <1>0, <2>1, <3>1 DEF FirmwareHands
  <2>4. CASE <<q, op>> = <<s, "read">>
    BY <1>0, <2>2, <2>3, <2>4
  <2>5. CASE <<q, op>> # <<s, "read">>
    BY <1>0, <2>2, <2>5
  <2> QED
    BY <2>4, <2>5
<1>4. CASE Start
  <2>1. outcome' = outcome /\ StartRead(at)
    BY <1>4 DEF Start
  <2>2. CASE queue' = [queue EXCEPT ![at] = Append(@, Error)]
    <3>1. Full(Append(queue[s], Error))
      BY <1>0, FullAppended, ErrorResult
    <3>2. queue'[s] = IF s = at THEN Append(queue[s], Error) ELSE queue[s]
      BY <1>0, <2>2
    <3> QED
      BY <1>0, <2>1, <3>1, <3>2
  <2>3. CASE queue' = queue
    BY <1>0, <2>1, <2>3
  <2> QED
    BY <2>1, <2>2, <2>3, ErrorResult DEF StartRead, Note, resultVars
<1>5. CASE TakeConnection
  <2>1. queue' = [queue EXCEPT ![at] = Tail(@)] /\ outcome' = outcome
    BY <1>5 DEF TakeConnection, fwVars
  <2>2. queue[at] # <<>>
    <3>1. at \notin Client
      BY <1>5, SocketAssumption DEF TakeConnection
    <3> QED
      BY <1>0, <1>5, <3>1 DEF TakeConnection, Readable, EndTold
  <2>3. Full(Tail(queue[at]))
    BY <1>0, <2>2, FullTail
  <2>4. queue'[s] = IF s = at THEN Tail(queue[at]) ELSE queue[s]
    BY <1>0, <2>1
  <2> QED
    BY <1>0, <2>1, <2>3, <2>4
<1>6. CASE CopyData
  <2> DEFINE rest == SubSeq(CopySource, CopyLength + 1, Len(CopySource))
  <2>1. /\ queue[at] # <<>> /\ outcome' = outcome
        /\ queue' = [queue EXCEPT ![at] = IF CopyLength < Len(CopySource)
                                          THEN <<Ok(rest)>> \o Tail(@) ELSE Tail(@)]
        /\ CopyLength < Len(CopySource) => Ok(rest) \in Result \ {Fin}
        /\ CopySource \in Seq(Nat) /\ CopyLength \in 0 .. Len(CopySource)
    BY <1>0, <1>6, CopyDataSteps DEF fwVars
  <2>2. Full(Tail(queue[at])) /\ Tail(queue[at]) \in Seq(Result \ {Fin})
    BY <1>0, <2>1, FullTail, HeadTailProperties
  <2>3. ASSUME CopyLength < Len(CopySource) PROVE Full(<<Ok(rest)>> \o Tail(queue[at]))
    <3>1. rest # <<>>
      <4>1. CopyLength + 1 <= Len(CopySource) /\ CopyLength \in Nat /\ Len(CopySource) \in Nat
        BY <2>1, <2>3, LenProperties
      <4>2. Len(rest) = Len(CopySource) - (CopyLength + 1) + 1
        <5>1. \A i \in CopyLength + 1 .. Len(CopySource) : CopySource[i] \in Nat
          BY <2>1, <4>1, ElementOfSeq
        <5> QED
          BY <4>1, <5>1, SubSeqProperties
      <4>3. Len(rest) # 0
        <5> DEFINE l == Len(rest)
        <5>1. l = Len(CopySource) - (CopyLength + 1) + 1
          BY <4>2
        <5> HIDE DEF l
        <5>2. l # 0
          BY <4>1, <5>1
        <5> QED
          BY <5>2 DEF l
      <4>4. Len(<<>>) = 0
        OBVIOUS
      <4> QED
        BY <4>3, <4>4
    <3> HIDE DEF rest
    <3>2. SomeData(Ok(rest))
      BY <3>1 DEF SomeData, Ok
    <3> QED
      BY <2>1, <2>2, <2>3, <3>2, FullBefore
  <2> HIDE DEF rest
  <2>4. queue'[s] = IF s = at
                    THEN IF CopyLength < Len(CopySource)
                         THEN <<Ok(rest)>> \o Tail(queue[at]) ELSE Tail(queue[at])
                    ELSE queue[s]
    BY <1>0, <2>1
  <2> QED
    BY <1>0, <2>1, <2>2, <2>3, <2>4
<1>7. ASSUME NEW q \in Sock, NEW l, connect(q, l) \/ sendall(q) \/ close(q)
      PROVE  Full(queue'[s]) /\ SomeData(outcome'[<<s, "read">>])
  BY <1>1, <1>7 DEF connect, sendall, close, resultVars, Note
<1>8. CASE QuietStep
  BY <1>1, <1>8, QuietSteps
<1>9. CASE ExitStep
  <2>1. CASE close_all_events \/ NextEvent \/ CloseAll \/ CloseCurrent
    BY <1>1, <2>1 DEF close_all_events, NextEvent, CloseAll, CloseCurrent, resultVars, fwVars
  <2>2. CASE Abort
    <3>1. queue' = queue /\ outcome'[<<s, "read">>] \in {Error, outcome[<<s, "read">>]}
      BY <1>0, <2>2 DEF Abort, resultVars
    <3> QED
      BY <1>0, <3>1
  <2> QED
    BY <1>9, <2>1, <2>2 DEF ExitStep
<1>10. ASSUME NEW e \in Event, StaleCallback(e)
       PROVE  Full(queue'[s]) /\ SomeData(outcome'[<<s, "read">>])
  BY <1>1, <1>10 DEF StaleCallback, resultVars, fwVars
<1>11. ASSUME NEW q \in Sock, Peer(q)
       PROVE  Full(queue'[s]) /\ SomeData(outcome'[<<s, "read">>])
  BY <1>1, <1>11 DEF Peer, resultVars
<1> QED
  BY <1>2, <1>3, <1>4, <1>5, <1>6, <1>7, <1>8, <1>9, <1>10, <1>11, AllSteps

LEMMA NoteReady ==
  ASSUME Typed, NEW s \in Sock, NEW op \in Op, NEW o \in Result, Note(s, op, o),
         NEW x \in Sock \X {"read", "write"}, Ready(x)
  PROVE  Ready(x)'
<1>1. /\ x[1] \in Sock /\ queue \in [Sock -> Seq(Result \ {Fin})] /\ shut \in [Sock -> BOOLEAN]
      /\ connectStatus \in [Sock -> {"none", "ok", "error"}]
  BY TypedParts DEF StateTyped
<1>2. CASE x[2] = "read"
  <2>1. queue[x[1]] # <<>> \/ shut[x[1]]
    BY <1>2 DEF Ready, Readable
  <2>2. o # Fin => Append(queue[s], o) # <<>>
    BY <1>1, AppendProperties
  <2>3. queue'[x[1]] # <<>> \/ shut'[x[1]]
    <3>1. queue'[x[1]] = queue[x[1]] \/ queue'[x[1]] # <<>>
      BY <1>1, <2>2 DEF Note
    <3>2. shut[x[1]] => shut'[x[1]]
      BY <1>1 DEF Note
    <3> QED
      BY <2>1, <3>1, <3>2
  <2> QED
    BY <1>2, <2>3 DEF Ready, Readable
<1>3. CASE x[2] # "read"
  <2>1. o.status # "none"
    BY ResultTyped
  <2>2. connectStatus[x[1]] # "none"
    BY <1>3 DEF Ready
  <2>3. connectStatus'[x[1]] # "none"
    BY <1>1, <2>1, <2>2 DEF Note
  <2> QED
    BY <1>3, <2>3 DEF Ready
<1> QED
  BY <1>2, <1>3

\* Only reading makes a socket less readable than it was.
LEMMA ReadyStays ==
  ASSUME Typed, EndTold, [Next]_vars,
         NEW x \in Sock \X {"read", "write"}, Ready(x),
         TakeConnection \/ CopyData => x # <<at, "read">>
  PROVE  Ready(x)'
<1>a. x[1] \in Sock /\ x = <<x[1], x[2]>>
  OBVIOUS
<1>b. /\ StateTyped /\ at \in Sock
      /\ queue \in [Sock -> Seq(Result \ {Fin})] /\ outcome \in [Event -> Result]
      /\ connectStatus \in [Sock -> {"none", "ok", "error"}]
  BY TypedParts DEF StateTyped, Typed, TypeOK
<1>0. /\ StateTyped /\ at \in Sock /\ x[1] \in Sock /\ x = <<x[1], x[2]>>
      /\ queue \in [Sock -> Seq(Result \ {Fin})] /\ outcome \in [Event -> Result]
      /\ connectStatus \in [Sock -> {"none", "ok", "error"}]
  BY <1>a, <1>b
<1>1. CASE UNCHANGED <<queue, shut, connectStatus>>
  BY <1>1 DEF Ready, Readable
<1> SUFFICES ASSUME Next PROVE Ready(x)'
  BY <1>1 DEF vars, resultVars
<1>2. ASSUME NEW e \in Event, Callback(e) PROVE Ready(x)'
  <2>1. e[1] \in Sock /\ e[2] \in Op /\ outcome[e] \in Result /\ Note(e[1], e[2], outcome[e])
    BY <1>0, <1>2, EventIs DEF Callback
  <2> QED
    BY <2>1, NoteReady
<1>3. CASE Start
  BY <1>0, <1>1, <1>3, NoteReady, ErrorResult, ReadOp DEF Start, StartRead, resultVars
<1>4. CASE TakeConnection \/ CopyData
  <2>1. /\ \A s \in Sock : s # at => queue'[s] = queue[s]
        /\ UNCHANGED <<shut, connectStatus>>
    <3>1. UNCHANGED <<shut, connectStatus>>
      BY <1>4 DEF TakeConnection, CopyData
    <3> QED
      BY <1>4, <3>1, QueueShortens
  <2> QED
    BY <1>0, <1>4, <2>1 DEF Ready, Readable
<1>5. ASSUME NEW s \in Sock, NEW l, connect(s, l) PROVE Ready(x)'
  <2>1. UNCHANGED resultVars \/ Note(s, "connect", Error)
    BY <1>5 DEF connect
  <2> QED
    BY <1>1, <2>1, NoteReady, ErrorResult, ReadOp DEF resultVars
<1>6. CASE QuietStep
  <2>1. UNCHANGED <<queue, shut>>
    BY <1>6, QuietSteps
  <2>2. connectStatus[x[1]] # "none" => connectStatus'[x[1]] # "none"
    BY <1>0, <1>6, QuietSteps
  <2> QED
    BY <2>1, <2>2 DEF Ready, Readable
<1>7. ASSUME NEW s \in Sock, sendall(s) \/ close(s) \/ Peer(s) PROVE Ready(x)'
  BY <1>1, <1>7 DEF sendall, close, Peer, resultVars
<1>8. ASSUME NEW s \in Sock, Firmware(s) PROVE Ready(x)'
  <2>1. PICK op \in Op, o \in Handed : FirmwareHands(s, op, o)
    BY <1>8, FirmwareSteps
  <2> QED
    BY <1>1, <2>1 DEF FirmwareHands, Complete, resultVars
<1>9. CASE ExitStep
  BY <1>1, <1>9 DEF ExitStep, close_all_events, NextEvent, Abort, CloseAll, CloseCurrent, resultVars
<1>10. ASSUME NEW e \in Event, StaleCallback(e) PROVE Ready(x)'
  BY <1>1, <1>10 DEF StaleCallback, resultVars
<1> QED
  BY <1>2, <1>3, <1>4, <1>5, <1>6, <1>7, <1>8, <1>9, <1>10, AllSteps

\* How a recv begins to copy and goes on, and what a select keeps and returns.
LEMMA CallKeeps ==
  ASSUME Typed, EndTold, [Next]_vars
  PROVE  /\ call'.pc = "copy" =>
              \/ BeginCopy \/ CopyData
              \/ UNCHANGED <<told, call.pc, call.at, call.copied>>
         /\ call'.pc \in SelectPcs =>
              \/ call.pc \in SelectPcs /\ call'.ready = call.ready
              \/ call'.ready = {}
              \/ \E x \in Sock \X {"read", "write"} : Look(x)
         /\ \/ told' = told
            \/ told' = {}
            \/ BeginCopy
            \/ TakeConnection
            \/ RoundEnds /\ call.pc = "select" /\ told' = call.ready
<1> DEFINE Same == UNCHANGED <<told, call.pc, call.at, call.copied, call.ready>>
           Out == call'.pc \notin SelectPcs \cup {"copy"}
<1>0. call \in CallType /\ call.pc \in Pcs
  BY DEF Typed, TypeOK
<1> USE <1>0 DEF Pcs, SelectPcs
<1> SUFFICES ASSUME Next
             PROVE  /\ call'.pc = "copy" =>
                         \/ BeginCopy \/ CopyData
                         \/ UNCHANGED <<told, call.pc, call.at, call.copied>>
                    /\ call'.pc \in SelectPcs =>
                         \/ call.pc \in SelectPcs /\ call'.ready = call.ready
                         \/ call'.ready = {}
                         \/ \E x \in Sock \X {"read", "write"} : Look(x)
                    /\ \/ told' = told
                       \/ told' = {}
                       \/ BeginCopy
                       \/ TakeConnection
                       \/ RoundEnds /\ call.pc = "select" /\ told' = call.ready
  BY DEF vars
<1>1. ASSUME NEW e \in Event, Callback(e) PROVE Same
  BY <1>1 DEF Callback, CallType
<1>2. ASSUME NEW e \in Event, StaleCallback(e) PROVE Out /\ told' = told
  <2> DEFINE to == CASE call.pc \in {"abort", "close_all"} -> "close_event"
                     [] call.pc = "close_event" -> "exit"
                     [] call.pc = "exit" -> "exit_failed"
                     [] call.pc \in {"exited", "exit_failed"} -> call.pc
                     [] OTHER -> "idle"
  <2>1. Goto(call.pc, to) /\ told' = told
    BY <1>2 DEF StaleCallback
  <2>2. to \in {"close_event", "exit", "exit_failed", "exited", "idle"}
    OBVIOUS
  <2> HIDE DEF to
  <2>3. call'.pc = to
    BY <2>1, <2>2, GotoTyped
  <2> QED
    BY <2>1, <2>2, <2>3
<1>3. ASSUME NEW s \in Sock, Firmware(s) PROVE Same
  <2>1. PICK op \in Op, o \in Handed : FirmwareHands(s, op, o)
    BY <1>3, FirmwareSteps
  <2> QED
    BY <2>1 DEF FirmwareHands, Complete
<1>4. ASSUME NEW s \in Sock, Peer(s) \/ close(s) \/ getsockopt(s) \/ listen(s) PROVE Same
  BY <1>4 DEF Peer, close, getsockopt, listen
<1>5. CASE Start
  <2>1. told' = told /\ (Goto("start", "check") \/ Goto("select_start", "select"))
    BY <1>5 DEF Start
  <2>2. Goto("start", "check") => Out
    BY GotoTyped
  <2>3. Goto("select_start", "select") => /\ call'.pc = "select" /\ call.pc = "select_start"
                                          /\ call'.ready = call.ready
    BY GotoTyped DEF CallType
  <2> QED
    BY <2>1, <2>2, <2>3
<1>6. TakeConnection => Out
  BY GotoTyped DEF TakeConnection
<1>7. CopyData => told' = told /\ call'.pc = "copy"
  BY CopyDataSteps DEF CopyData, CallType
<1>8. ASSUME NEW s \in Sock, NEW l \in Limits, connect(s, l) PROVE Out /\ told' = told
  BY <1>8, BeginTyped DEF connect
<1>9. ASSUME NEW s \in Sock, sendall(s) PROVE Out /\ told' = told
  BY <1>9, IdleTyped DEF sendall, Begin, CallType
<1>10. LocalStep => told' = told
  BY LocalSteps DEF OnlyCall
<1>11. ASSUME LocalStep, ~ (\E x \in Sock \X {"read", "write"} : Look(x)) PROVE Out
  <2>1. NotReady \/ CheckTime \/ CopyError \/ ConnectReturns \/ ConnectTimesOut \/ SendReturns => Out
    BY GotoTyped DEF NotReady, CheckTime, CopyError, ConnectReturns, ConnectTimesOut, SendReturns
  <2>2. PollFails => Out
    BY IdleTyped DEF PollFails
  <2>3. ASSUME NEW s \in Sock, NEW n, NEW l,
               (l \in Limits /\ accept(s, l)) \/ recv_into(s, n, l)
        PROVE  Out
    <3>1. l \in Limits /\ accept(s, l) => Out
      BY BeginTyped DEF accept
    <3>2. recv_into(s, n, l) => Out
      BY IdleTyped DEF recv_into, CallType
    <3> QED
      BY <2>3, <3>1, <3>2
  <2> QED
    BY <1>11, <2>1, <2>2, <2>3 DEF LocalStep
<1>12. ASSUME NEW x \in Sock \X {"read", "write"}, Look(x) PROVE call'.pc \in SelectPcs
  BY <1>12 DEF Look, Seen, CallType
<1>13. BeginCopy => call'.pc = "copy"
  BY GotoTyped DEF BeginCopy
<1>14. CopyDone => Out /\ told' = told
  BY GotoTyped DEF CopyDone
<1>15. CASE RoundEnds
  <2>1. /\ call.pc = "select"
        /\ \/ call' = Idle /\ told' = call.ready
           \/ call' = [call EXCEPT !.todo = call.asked] /\ told' = told
    BY <1>15 DEF RoundEnds
  <2>2. call' = Idle => Out
    BY IdleTyped
  <2>3. call' = [call EXCEPT !.todo = call.asked] => call'.pc = "select" /\ call'.ready = call.ready
    BY <2>1 DEF CallType
  <2> QED
    BY <1>15, <2>1, <2>2, <2>3
<1>16. ASSUME NEW xs, NEW l, select(xs, l)
       PROVE  call'.pc = "select" /\ call'.ready = {} /\ told' = {}
  BY <1>16, IdleTyped DEF select, CallType
<1>17. CASE ExitStep
  <2>1. told' = told
    BY <1>17 DEF ExitStep, close_all_events, NextEvent, Abort, CloseAll, CloseCurrent
  <2>2. \E from, to \in {"idle", "exit", "abort", "close_all", "close_event", "exited", "exit_failed"} :
          Goto(from, to) /\ (from = "idle" => to = "exit")
    BY <1>17 DEF ExitStep, close_all_events, NextEvent, Abort, CloseAll, CloseCurrent
  <2>3. Out
    BY <2>2, GotoTyped
  <2> QED
    BY <2>1, <2>3
<1> HIDE DEF Same, Out
<1>18. Same => /\ UNCHANGED <<told, call.pc, call.at, call.copied>>
               /\ call'.pc = call.pc /\ call'.ready = call.ready
  BY DEF Same
<1>19. Out => call'.pc # "copy" /\ call'.pc \notin SelectPcs
  BY DEF Out
<1>20. CASE QuietStep
  BY <1>4, <1>10, <1>11, <1>12, <1>13, <1>14, <1>15, <1>16, <1>18, <1>19, <1>20 DEF QuietStep
<1> QED
  BY <1>1, <1>2, <1>3, <1>4, <1>5, <1>6, <1>7, <1>8, <1>9, <1>17, <1>18, <1>19, <1>20, AllSteps

LEMMA CopiesStep ==
  ASSUME Typed, CallOf, EndTold, DataNotEmpty, CopiesReadable, [Next]_vars
  PROVE  CopiesReadable'
<1> SUFFICES ASSUME call'.pc = "copy"
             PROVE  /\ call'.copied = 0 => queue'[call'.at] # <<>> \/ shut'[call'.at]
                    /\ <<call'.at, "read">> \notin told'
  BY DEF CopiesReadable, Readable, at
<1>0. /\ call \in CallType /\ at \in Sock /\ at = call.at /\ call.copied \in Nat
      /\ queue \in [Sock -> Seq(Result \ {Fin})]
  BY DEF Typed, TypeOK, CallType, at
<1>1. CASE BeginCopy
  <2>1. /\ Readable(at) /\ UNCHANGED <<queue, shut>> /\ told' = told \ {<<at, "read">>}
        /\ Goto("read", "copy")
    BY <1>1 DEF BeginCopy, resultVars
  <2>2. call'.at = at
    <3>1. call' = [call EXCEPT !.pc = "copy"]
      BY <2>1 DEF Goto
    <3> QED
      BY <1>0, <3>1 DEF CallType
  <2> QED
    BY <2>1, <2>2 DEF Readable
<1>2. CASE CopyData
  <2>1. /\ call.pc = "copy" /\ UNCHANGED told
        /\ Head(queue[at]) = Ok(CopySource) /\ CopyLength \in Nat
        /\ CopySource # <<>> => CopyLength # 0
        /\ call' = [call EXCEPT !.copied = @ + CopyLength]
    <3>1. CopySource \in Seq(Nat) /\ CopyLength \in 0 .. Len(CopySource)
      BY <1>2, CopyDataSteps
    <3>2. CopyLength \in Nat
      BY <3>1, LenProperties
    <3> QED
      BY <1>2, <3>2, CopyDataSteps DEF CopyData
  <2>2. CopySource # <<>>
    <3>1. queue[at] \in Seq(Result \ {Fin}) /\ queue[at] # <<>> /\ Full(queue[at])
      BY <1>0, <1>2 DEF CopyData, DataNotEmpty, Full
    <3>2. SomeData(Head(queue[at]))
      BY <3>1, FullTail
    <3> QED
      BY <2>1, <3>2 DEF SomeData, Ok
  <2>3. call'.at = at /\ call'.copied = call.copied + CopyLength
    BY <1>0, <2>1 DEF CallType
  <2>4. call'.copied # 0
    BY <1>0, <2>1, <2>2, <2>3
  <2> QED
    BY <2>1, <2>3, <2>4 DEF CopiesReadable
<1>3. CASE ~ CopyData /\ UNCHANGED <<told, call.pc, call.at, call.copied>>
  <2>1. ~ TakeConnection
    BY <1>3 DEF TakeConnection, Goto
  <2>2. ASSUME call'.copied = 0, NEW s \in Sock, s = at
        PROVE  queue'[s] # <<>> \/ shut'[s]
    <3>1. Ready(<<s, "read">>) /\ <<s, "read">> \in Sock \X {"read", "write"}
      BY <1>3, <2>2 DEF CopiesReadable, Ready
    <3>2. Ready(<<s, "read">>)'
      BY <1>3, <2>1, <3>1, ReadyStays
    <3> QED
      BY <3>2 DEF Ready, Readable
  <2>3. call'.at = at /\ <<at, "read">> \notin told'
    BY <1>0, <1>3 DEF CopiesReadable
  <2> QED
    BY <1>0, <2>2, <2>3
<1> QED
  BY <1>1, <1>2, <1>3, CallKeeps

\* What is ready stays so, whatever select or a caller has kept of it.
LEMMA SelectStep ==
  ASSUME Typed, CallOf, EndTold, CopiesReadable, SelectInv, [Next]_vars
  PROVE  SelectInv'
<1> DEFINE Flag == Sock \X {"read", "write"}
<1>0. /\ call \in CallType /\ at \in Sock /\ at = call.at
      /\ told \subseteq Flag /\ call.ready \subseteq Flag
  BY DEF Typed, TypeOK, CallType, at
<1>1. FoundReady /\ (\A x \in told : Ready(x))
  BY DEF SelectInv, SelectedReady, Ready
<1>2. ASSUME NEW x \in told' PROVE Ready(x)'
  <2>1. CASE RoundEnds /\ call.pc = "select" /\ told' = call.ready
    <3>1. x \in Flag /\ Ready(x)
      BY <1>0, <1>1, <1>2, <2>1 DEF FoundReady, SelectPcs
    <3>2. ~ TakeConnection /\ ~ CopyData
      BY <2>1 DEF TakeConnection, CopyData, Goto
    <3> QED
      BY <3>1, <3>2, ReadyStays
  <2>2. CASE BeginCopy
    <3>1. x \in Flag /\ Ready(x)
      BY <1>0, <1>1, <1>2, <2>2 DEF BeginCopy
    <3>2. ~ TakeConnection /\ ~ CopyData
      BY <1>0, <2>2, SocketAssumption DEF BeginCopy, TakeConnection, CopyData, Goto
    <3> QED
      BY <3>1, <3>2, ReadyStays
  <2>3. CASE TakeConnection
    <3>1. x \in Flag /\ Ready(x) /\ x # <<at, "read">>
      BY <1>0, <1>1, <1>2, <2>3 DEF TakeConnection
    <3> QED
      BY <3>1, ReadyStays
  <2>4. CASE told' = told /\ ~ TakeConnection
    <3>1. x \in Flag /\ Ready(x)
      BY <1>0, <1>1, <1>2, <2>4
    <3>2. CopyData => x # <<at, "read">>
      BY <1>2, <2>4 DEF CopyData, CopiesReadable
    <3> QED
      BY <2>4, <3>1, <3>2, ReadyStays
  <2> QED
    BY <1>2, <2>1, <2>2, <2>3, <2>4, CallKeeps
<1>3. ASSUME call'.pc \in SelectPcs, NEW x \in call'.ready PROVE Ready(x)'
  <2>1. CASE call.pc \in SelectPcs /\ call'.ready = call.ready
    <3>1. x \in Flag /\ Ready(x)
      BY <1>0, <1>1, <1>3, <2>1 DEF FoundReady
    <3>2. ~ TakeConnection /\ ~ CopyData
      BY <2>1 DEF TakeConnection, CopyData, Goto, SelectPcs
    <3> QED
      BY <3>1, <3>2, ReadyStays
  <2>2. ASSUME NEW y \in Flag, Look(y) PROVE Ready(x)'
    <3>1. UNCHANGED <<queue, shut, connectStatus>>
      BY <2>2 DEF Look, OnlyCall, resultVars
    <3>2. call'.ready \subseteq call.ready \cup {y} /\ (y \in call'.ready => y \in call.ready \/ Ready(y))
      <4>1. PICK found, to : Seen(y, to, found) /\ found \subseteq {y} /\ (y \in found => Ready(y))
        BY <2>2 DEF Look, Ready
      <4>2. call'.ready = call.ready \cup found
        BY <1>0, <4>1 DEF Seen, CallType
      <4> QED
        BY <4>1, <4>2
    <3>3. Ready(x)
      BY <1>1, <1>3, <2>2, <3>2 DEF FoundReady, Look, Seen, SelectPcs
    <3> QED
      BY <3>1, <3>3 DEF Ready, Readable
  <2> QED
    BY <1>3, <2>1, <2>2, CallKeeps
<1>4. FoundReady' /\ SelectedReady'
  BY <1>2, <1>3 DEF FoundReady, SelectedReady, Ready
<1> QED
  BY <1>4 DEF SelectInv

-----------------------------------------------------------------------------
(* The invariant, and what follows from it. *)

LEMMA SocketInit == Init => SocketInv
<1> SUFFICES ASSUME Init PROVE SocketInv
  OBVIOUS
<1>1. /\ (CHOOSE e \in Event : TRUE) \in Event
      /\ (CHOOSE s \in Sock : TRUE) \in Sock
  BY SocketAssumption, EventOf, ReadOp
<1>2. /\ 0 \in 0 .. MaxSent /\ <<>> \in Seq(Event) /\ Len(<<>>) = 0
      /\ <<>> \in Seq(Result \ {Fin}) /\ <<>> \in Seq(Nat) /\ DOMAIN <<>> = {}
  BY SocketAssumption
<1>3. Error \in Result \ {Fin} /\ Error # Fin
  BY ErrorResult
<1>4. StateTyped
  <2>1. EventTypeOK
    <3>1. handlers = {} /\ pending = <<>> /\ exiting = FALSE
      BY DEF Init
    <3>2. 0 < NPENDINGCALLS
      BY EventAssumption
    <3> QED
      BY <1>2, <3>1, <3>2 DEF EventTypeOK
  <2>2. /\ tcp \in [Sock -> Tcp] /\ tokens \subseteq Event /\ outcome \in [Event -> Result]
        /\ connectStatus \in [Sock -> {"none", "ok", "error"}]
        /\ told \subseteq Sock \X {"read", "write"} /\ cur \in Event
    BY <1>1, <1>3 DEF Init, Tcp
  <2>3. /\ sent \in [Sock -> 0 .. MaxSent] /\ taken \in [Sock -> 0 .. MaxSent]
        /\ \A s \in Sock : taken[s] <= sent[s]
    BY <1>2 DEF Init
  <2>4. queue \in [Sock -> Seq(Result \ {Fin})] /\ got \in [Sock -> Seq(Nat)]
    BY <1>2 DEF Init
  <2>5. /\ fin \in [Sock -> BOOLEAN] /\ running \in [Sock -> BOOLEAN] /\ shut \in [Sock -> BOOLEAN]
        /\ closed \in [Sock -> BOOLEAN] /\ aborted \in [Sock -> BOOLEAN]
        /\ eof \in [Sock -> BOOLEAN]
    BY DEF Init
  <2> QED
    BY <2>1, <2>2, <2>3, <2>4, <2>5 DEF StateTyped
<1>5. /\ call \in CallType /\ call.pc = "idle" /\ call.todo = {}
      /\ call.want = 0 /\ call.copied = 0
  BY IdleTyped DEF Init
<1>6. Typed
  <2>1. \A s \in Sock : \A i \in DOMAIN queue[s] : queue[s][i] \in Result \ {Fin}
    BY <1>2 DEF Init
  <2>2. /\ call.pc \in Pcs /\ at \in Sock /\ call.want \in Nat /\ call.copied \in 0 .. call.want
        /\ call.limit \in {"never", "now", "later"}
    BY <1>5 DEF CallType, at
  <2>3. {running, shut, closed, aborted, eof} \subseteq [Sock -> BOOLEAN]
    BY <1>4 DEF StateTyped
  <2> QED
    BY <1>4, <1>5, <2>1, <2>2, <2>3 DEF Typed, TypeOK, StateTyped
<1>7. CallOf /\ StartsEmpty /\ CopiesReadable /\ FoundReady
  BY <1>5 DEF Init, CallOf, StartsEmpty, CopiesReadable, FoundReady, ExitPcs, SelectPcs, ReadPcs
<1>8. Unopened
  BY DEF Init, Unopened
<1>9. EventsExact
  <2>1. ToSet(<<>>) = {} /\ IsInjective(<<>>)
    BY <1>2 DEF ToSet, IsInjective
  <2>2. handlers = {} /\ tokens = {} /\ pending = <<>>
    BY DEF Init
  <2> QED
    BY <2>1, <2>2 DEF EventsExact
<1>10. RunningExact
  BY <1>2 DEF Init, RunningExact
<1>11. EndTold
  BY <1>3 DEF Init, EndTold
<1>12. DataNotEmpty
  <2>1. SomeData(Error)
    BY DEF SomeData, Error
  <2>2. \A s \in Sock : <<s, "read">> \in Event
    BY EventOf, ReadOp
  <2> QED
    BY <1>2, <2>1, <2>2 DEF Init, DataNotEmpty
<1>13. StreamInOrder
  <2>1. ASSUME NEW s \in Sock PROVE StreamOf(s)
    <3>1. got[s] = <<>> /\ Data(queue[s]) = <<>> /\ taken[s] = 0 /\ pending = <<>>
      BY DataIs DEF Init
    <3>2. Arrived(s) = <<>>
      BY <1>2, <3>1 DEF Arrived, ToSet
    <3>3. <<>> \o <<>> = <<>> /\ Run(0) = <<>>
      BY DEF Run
    <3> QED
      BY <3>1, <3>2, <3>3 DEF StreamOf
  <2> QED
    BY <1>6, <2>1, StreamsAre DEF Streams
<1>14. EofMeansAll /\ SelectedReady
  BY SocketAssumption DEF Init, EofMeansAll, SelectedReady, Sock
<1> QED
  BY <1>6, <1>7, <1>8, <1>9, <1>10, <1>11, <1>12, <1>13, <1>14
     DEF SocketInv, EventInv, StreamInv, SelectInv

LEMMA SocketStep ==
  ASSUME RoomForAll, SocketInv, [Next]_vars
  PROVE  SocketInv'
<1>1. EventInv /\ StreamInv /\ SelectInv
  BY DEF SocketInv
<1>2. Typed /\ CallOf /\ EndTold /\ DataNotEmpty /\ CopiesReadable /\ EofMeansAll
  BY <1>1 DEF EventInv, StreamInv
<1>3. Streams
  BY <1>1, <1>2, StreamsAre DEF StreamInv
<1>4. Typed'
  BY <1>2, StepTyped
<1>5. CallOf'
  BY <1>2, StepCallRight DEF CallRight, CallOf
<1>6. EventsExact' /\ Unopened'
  BY <1>1, <1>2, EventsStep
<1>7. RunningExact' /\ StartsEmpty'
  BY <1>1, <1>2, <1>4, ReadsStep, ReadsArePrimed
<1>8. EndTold'
  BY <1>1, <1>2, EndStep
<1>9. DataNotEmpty'
  BY <1>1, <1>2, DataStep
<1>10. StreamInOrder'
  BY <1>1, <1>2, <1>3, <1>4, StreamStep, StreamsArePrimed
<1>11. CopiesReadable'
  BY <1>2, CopiesStep
<1>12. EofMeansAll'
  BY <1>1, <1>2, <1>3, EofStep
<1>13. SelectInv'
  BY <1>1, <1>2, SelectStep
<1> QED
  BY <1>4, <1>5, <1>6, <1>7, <1>8, <1>9, <1>10, <1>11, <1>12, <1>13
     DEF SocketInv, EventInv, StreamInv

LEMMA SocketInvariant == ASSUME RoomForAll PROVE Spec => []SocketInv
<1>1. SocketInv /\ [Next]_vars => SocketInv'
  BY SocketStep
<1> QED
  BY <1>1, SocketInit, PTL DEF Spec

\* Whatever the program, the firmware and the peers do, every variable keeps its
\* type, and recv_into never copies more than it was asked for.
THEOREM EfiTypeOK == ASSUME RoomForAll PROVE Spec => []TypeOK
<1>1. SocketInv => TypeOK
  BY DEF SocketInv, EventInv, Typed
<1> QED
  BY <1>1, SocketInvariant, PTL

\* create_event and close_event are paired with the tokens: the open events are
\* those of the tokens that are out and of the completions not yet handled, so
\* that none is leaked, closed too early or handled twice.
THEOREM EfiEventsExact == ASSUME RoomForAll PROVE Spec => []EventsExact
<1>1. SocketInv => EventsExact
  BY DEF SocketInv, EventInv
<1> QED
  BY <1>1, SocketInvariant, PTL

\* _recv_running and _accept_running are set exactly while a token is out or its
\* callback still to run, and a socket reads ahead by one token at most.
THEOREM EfiRunningExact == ASSUME RoomForAll PROVE Spec => []RunningExact
<1>1. SocketInv => RunningExact
  BY DEF SocketInv, EventInv
<1> QED
  BY <1>1, SocketInvariant, PTL

\* Nothing that the firmware has handed over is lost, repeated or reordered on
\* its way through the callbacks and the queues to recv and accept.
THEOREM EfiStreamInOrder == ASSUME RoomForAll PROVE Spec => []StreamInOrder
<1>1. SocketInv => StreamInOrder
  BY DEF SocketInv, StreamInv
<1> QED
  BY <1>1, SocketInvariant, PTL

\* recv returns the empty string only when the peer has finished and all it
\* sent has been returned.
THEOREM EfiEofMeansAll == ASSUME RoomForAll PROVE Spec => []EofMeansAll
<1>1. SocketInv => EofMeansAll
  BY DEF SocketInv, StreamInv
<1> QED
  BY <1>1, SocketInvariant, PTL

\* What select has returned is still ready when the program acts on it.
THEOREM EfiSelectedReady == ASSUME RoomForAll PROVE Spec => []SelectedReady
<1>1. SocketInv => SelectedReady
  BY DEF SocketInv, SelectInv
<1> QED
  BY <1>1, SocketInvariant, PTL
=============================================================================
