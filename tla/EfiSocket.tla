----------------------------- MODULE EfiSocket -----------------------------
(***************************************************************************)
(* The sockets of python/_socket.py and the select of python/select.py,    *)
(* over the TCP4 protocol of the EFI firmware.  One program uses all       *)
(* sockets.  An operation gives the firmware a token with an event, and    *)
(* goes round a loop until the event's callback has noted the result; when *)
(* its time is up it leaves the token with the firmware, and the result is *)
(* there for the next call.                                                *)
(*                                                                         *)
(* The connections that arrive at a listening socket are treated like the  *)
(* bytes that arrive at a connected one: both are numbered 1, 2, ... in    *)
(* the order the peers send them.  Calls that raise before they change     *)
(* anything are not steps.                                                 *)
(***************************************************************************)
EXTENDS EfiEvents, SequencesExt

CONSTANTS
  Client, Listener,  \* sockets that connect, sockets that listen
  MaxSent,           \* bound: what the peers send to each socket
  MaxChunk,          \* a receive token's buffer, 65536 in the code
  Wants,             \* how many bytes recv is asked for
  Limits,            \* time-outs: "never", "now" (0) or "later"
  Selections         \* what select is asked about: sets of <<socket, "read" or "write">>

Sock == Client \cup Listener
Op == {"connect", "read", "send", "close"}

ASSUME SocketAssumption ==
  /\ Client \cap Listener = {}
  /\ Sock # {} /\ IsFiniteSet(Sock)
  /\ Event = Sock \X Op
  /\ MaxSent \in Nat
  /\ MaxChunk \in Nat \ {0}
  /\ Wants \subseteq Nat \ {0}
  /\ Limits \subseteq {"never", "now", "later"}
  /\ Selections \subseteq SUBSET (Sock \X {"read"} \cup Client \X {"write"})

VARIABLES
  \* the firmware and the peers
  tcp,           \* the state of each TCP4 instance
  tokens,        \* the events of the tokens the firmware holds
  outcome,       \* what it wrote into each token it completed
  sent,          \* how much the peers have sent
  taken,         \* how much of it was put into tokens
  fin,           \* the peer has finished
  \* the socket objects
  connectStatus, \* _connect_status
  queue,         \* _recv_queue, _accept_queue
  running,       \* _recv_running, _accept_running
  shut,          \* _recv_shutdown
  closed,
  aborted,       \* _aborted
  \* the program
  call,          \* the operation that runs, with its local variables
  told,          \* what the last select returned and nobody has acted on
  size, cur,     \* the iterator of close_all_events: how many, and which
  got,           \* history: what recv and accept have returned
  eof            \* history: recv has returned the empty string

fwVars == <<tcp, tokens, outcome>>
peerVars == <<sent, taken, fin>>
resultVars == <<connectStatus, queue, running, shut>>
endVars == <<closed, aborted>>
exitVars == <<size, cur>>
pastVars == <<got, eof>>
vars == <<eventVars, fwVars, peerVars, resultVars, endVars, call, told, exitVars, pastVars>>

Ok(data) == [status |-> "ok", data |-> data]
Error == [status |-> "error", data |-> <<>>]
Fin == [status |-> "fin", data |-> <<>>]

Tcp == {"unconfigured", "connecting", "up", "broken", "closing"}
Pcs == {"idle", "connect", "read", "start", "check", "copy", "send", "select", "select_start",
        "exit", "abort", "close_all", "close_event", "exited", "exit_failed"}

\* pc: what the program does; at: the socket; limit: the time-out that counts;
\* status: send_status of sendall; want, copied: nbytes and nbytes_read of
\* recv_into; asked, todo, ready: select's lists, what is left of them in this
\* round, and what it has found.
Idle == [pc |-> "idle", at |-> CHOOSE s \in Sock : TRUE, limit |-> "never",
         status |-> "none", want |-> 0, copied |-> 0,
         asked |-> {}, todo |-> {}, ready |-> {}]

at == call.at

Goto(from, to) ==
  /\ call.pc = from
  /\ call' = IF to = "idle" THEN Idle ELSE [call EXCEPT !.pc = to]

OnlyCall ==
  UNCHANGED <<eventVars, fwVars, peerVars, resultVars, endVars, told, exitVars, pastVars>>

Init ==
  /\ handlers = {} /\ pending = <<>> /\ exiting = FALSE
  /\ tcp = [s \in Sock |-> "unconfigured"]
  /\ tokens = {}
  /\ outcome = [e \in Event |-> Error]
  /\ sent = [s \in Sock |-> 0]
  /\ taken = [s \in Sock |-> 0]
  /\ fin = [s \in Sock |-> FALSE]
  /\ connectStatus = [s \in Sock |-> "none"]
  /\ queue = [s \in Sock |-> <<>>]
  /\ running = [s \in Sock |-> FALSE]
  /\ shut = [s \in Sock |-> FALSE]
  /\ closed = [s \in Sock |-> FALSE]
  /\ aborted = [s \in Sock |-> FALSE]
  /\ call = Idle
  /\ told = {}
  /\ size = 0 /\ cur = CHOOSE e \in Event : TRUE
  /\ got = [s \in Sock |-> <<>>]
  /\ eof = [s \in Sock |-> FALSE]

-----------------------------------------------------------------------------
(* The callbacks.                                                          *)

\* Fault: after data has come, the socket stays marked as reading.
NoteStillRunning(s, op, o) ==
  /\ connectStatus' = IF op = "connect" THEN [connectStatus EXCEPT ![s] = o.status]
                                        ELSE connectStatus
  /\ running' = IF op = "read" /\ o.status # "ok" THEN [running EXCEPT ![s] = FALSE] ELSE running
  /\ shut' = IF op = "read" /\ o = Fin THEN [shut EXCEPT ![s] = TRUE] ELSE shut
  /\ queue' = IF op = "read" /\ o # Fin THEN [queue EXCEPT ![s] = Append(@, o)] ELSE queue

\* Fault: every failed receive is taken for the end of the stream.
NoteErrorAsEnd(s, op, o) ==
  /\ connectStatus' = IF op = "connect" THEN [connectStatus EXCEPT ![s] = o.status]
                                        ELSE connectStatus
  /\ running' = IF op = "read" THEN [running EXCEPT ![s] = FALSE] ELSE running
  /\ shut' = IF op = "read" /\ o.status # "ok" THEN [shut EXCEPT ![s] = TRUE] ELSE shut
  /\ queue' = IF op = "read" /\ o.status = "ok" THEN [queue EXCEPT ![s] = Append(@, o)]
                                               ELSE queue

\* What the callback of an operation writes down: the status of a connect; data,
\* a new connection or an error for the reader; that there is no more to read.
Note(s, op, o) ==
  /\ connectStatus' = IF op = "connect" THEN [connectStatus EXCEPT ![s] = o.status]
                                        ELSE connectStatus
  /\ running' = IF op = "read" THEN [running EXCEPT ![s] = FALSE] ELSE running
  /\ shut' = IF op = "read" /\ o = Fin THEN [shut EXCEPT ![s] = TRUE] ELSE shut
  /\ queue' = IF op = "read" /\ o # Fin THEN [queue EXCEPT ![s] = Append(@, o)] ELSE queue

\* The interpreter runs a callback, which closes its event.
Callback(e) ==
  /\ _event_callback(e)
  /\ e \in handlers
  /\ close_event(e)
  /\ Note(e[1], e[2], outcome[e])
  /\ call' = IF e[2] = "send" /\ call.pc = "send" /\ call.at = e[1]
              THEN [call EXCEPT !.status = outcome[e].status] ELSE call
  /\ outcome' = [outcome EXCEPT ![e] = Error]
  /\ UNCHANGED <<exiting, tcp, tokens, peerVars, endVars, told, exitVars, pastVars>>

\* A pending call whose event is closed raises KeyError in the program; inside
\* the loop of close_all_events the exception is printed or dropped.
StaleCallback(e) ==
  /\ _event_callback(e)
  /\ e \notin handlers
  /\ Goto(call.pc, CASE call.pc \in {"abort", "close_all"} -> "close_event"
                     [] call.pc = "close_event" -> "exit"
                     [] call.pc = "exit" -> "exit_failed"
                     [] call.pc \in {"exited", "exit_failed"} -> call.pc
                     [] OTHER -> "idle")
  /\ UNCHANGED <<handlers, exiting, fwVars, peerVars, resultVars, endVars, told, exitVars,
                 pastVars>>

Interpreter == \E e \in Event : Callback(e) \/ StaleCallback(e)

-----------------------------------------------------------------------------
(* The firmware and the peers.                                             *)

Complete(e, o) ==
  /\ e \in tokens
  /\ tokens' = tokens \ {e}
  /\ outcome' = [outcome EXCEPT ![e] = o]
  /\ c_event_callback(<<e>>)
  /\ UNCHANGED <<handlers, exiting, resultVars, endVars, call, told, exitVars, pastVars>>

Connected(s) ==
  /\ tcp[s] = "connecting"
  /\ \/ Complete(<<s, "connect">>, Ok(<<>>)) /\ tcp' = [tcp EXCEPT ![s] = "up"]
     \/ Complete(<<s, "connect">>, Error) /\ tcp' = [tcp EXCEPT ![s] = "broken"]
  /\ UNCHANGED peerVars

\* A receive token takes some of what has come, a listen token one connection.
Received(s) ==
  /\ tcp[s] = "up"
  /\ \E n \in 1 .. (IF s \in Listener THEN 1 ELSE MaxChunk) :
       /\ taken[s] + n <= sent[s]
       /\ Complete(<<s, "read">>, Ok([i \in 1 .. n |-> taken[s] + i]))
       /\ taken' = [taken EXCEPT ![s] = @ + n]
  /\ UNCHANGED <<tcp, sent, fin>>

Finished(s) ==
  /\ tcp[s] = "up"
  /\ fin[s]
  /\ taken[s] = sent[s]
  /\ Complete(<<s, "read">>, Fin)
  /\ UNCHANGED <<tcp, peerVars>>

Transmitted(s) ==
  /\ tcp[s] = "up"
  /\ Complete(<<s, "send">>, Ok(<<>>))
  /\ UNCHANGED <<tcp, peerVars>>

Closed(s) ==
  /\ tcp[s] = "closing"
  /\ Complete(<<s, "close">>, Ok(<<>>))
  /\ UNCHANGED <<tcp, peerVars>>

\* A connection that is gone or going fails what waits for it.
Failed(s) ==
  /\ tcp[s] \in {"broken", "closing"}
  /\ \E op \in Op : Complete(<<s, op>>, Error)
  /\ UNCHANGED <<tcp, peerVars>>

Peer(s) ==
  /\ tcp[s] = "up"
  /\ \/ /\ sent[s] < MaxSent /\ ~ fin[s]
        /\ sent' = [sent EXCEPT ![s] = @ + 1]
        /\ UNCHANGED <<tcp, fin>>
     \/ /\ s \in Client
        /\ fin' = [fin EXCEPT ![s] = TRUE]
        /\ UNCHANGED <<tcp, sent>>
     \/ /\ tcp' = [tcp EXCEPT ![s] = "broken"]
        /\ UNCHANGED <<sent, fin>>
  /\ UNCHANGED <<eventVars, tokens, outcome, taken, resultVars, endVars, call, told, exitVars,
                 pastVars>>

Firmware(s) ==
  Connected(s) \/ Received(s) \/ Finished(s) \/ Transmitted(s) \/ Closed(s) \/ Failed(s)

-----------------------------------------------------------------------------
(* Reading.                                                                *)

\* What _read_ready tests.
Readable(s) == queue[s] # <<>> \/ shut[s]

\* Fault: a token the firmware refuses is not reported to the callback.
StartReadUnreported(s) ==
  IF running[s] \/ shut[s]
  THEN UNCHANGED <<handlers, tokens, resultVars>>
  ELSE /\ running' = [running EXCEPT ![s] = TRUE]
       /\ UNCHANGED <<connectStatus, queue, shut>>
       /\ \/ /\ tcp[s] \in {"connecting", "up"}
             /\ create_event(<<s, "read">>)
             /\ tokens' = tokens \cup {<<s, "read">>}
          \/ /\ tcp[s] # "up"
             /\ UNCHANGED <<handlers, tokens>>

\* _maybe_start_recv, _maybe_start_accept: _poll if a token is out, else a new
\* one, of which the firmware may also say at once that it failed.  A callback
\* may have run since the caller found nothing to read.
StartRead(s) ==
  IF running[s] \/ shut[s]
  THEN UNCHANGED <<handlers, tokens, resultVars>>
  ELSE \/ /\ tcp[s] \in {"connecting", "up"}
          /\ create_event(<<s, "read">>)
          /\ tokens' = tokens \cup {<<s, "read">>}
          /\ running' = [running EXCEPT ![s] = TRUE]
          /\ UNCHANGED <<connectStatus, queue, shut>>
       \/ /\ tcp[s] # "up"
          /\ Note(s, "read", Error)
          /\ UNCHANGED <<handlers, tokens>>
       \/ /\ s \in Client /\ tcp[s] = "up" /\ fin[s] /\ taken[s] = sent[s]
          /\ Note(s, "read", Fin)
          /\ UNCHANGED <<handlers, tokens>>

Begin(to, s, l) ==
  /\ call.pc = "idle"
  /\ call' = IF to = "idle" THEN Idle ELSE [Idle EXCEPT !.pc = to, !.at = s, !.limit = l]

recv_into(s, n, l) ==
  /\ s \in Client
  /\ call.pc = "idle"
  /\ call' = [Idle EXCEPT !.pc = "read", !.at = s, !.limit = l, !.want = n]
  /\ OnlyCall

accept(s, l) ==
  /\ s \in Listener
  /\ tcp[s] # "unconfigured"
  /\ Begin("read", s, l)
  /\ OnlyCall

\* One round of their loops: nothing yet,
NotReady ==
  /\ ~ Readable(at)
  /\ Goto("read", "start")
  /\ OnlyCall

\* so ask the firmware,
Start ==
  /\ Goto("start", "check") \/ Goto("select_start", "select")
  /\ StartRead(at)
  /\ UNCHANGED <<pending, exiting, tcp, outcome, peerVars, endVars, told, exitVars, pastVars>>

\* Fault: the time-out is not looked at.
CheckTimeIgnored ==
  /\ Goto("check", "read")
  /\ OnlyCall

\* Fault: giving up closes the event, as if the token were gone with it.
CheckTimeCloses ==
  /\ \/ Goto("check", "read") /\ call.limit # "now" /\ UNCHANGED handlers
     \/ Goto("check", "idle") /\ call.limit # "never" /\ close_event(<<at, "read">>)
  /\ UNCHANGED <<pending, exiting, fwVars, peerVars, resultVars, endVars, told, exitVars,
                 pastVars>>

\* and look at the time,
CheckTime ==
  /\ \/ Goto("check", "read") /\ call.limit # "now"
     \/ Goto("check", "idle") /\ call.limit # "never"
  /\ OnlyCall

\* Fault: accept leaves the connection in the queue.
TakeConnectionStays ==
  /\ at \in Listener
  /\ Readable(at)
  /\ Goto("read", "idle")
  /\ got' = [got EXCEPT ![at] = @ \o Head(queue[at]).data]
  /\ told' = told \ {<<at, "read">>}
  /\ UNCHANGED <<eventVars, fwVars, peerVars, resultVars, endVars, exitVars, eof>>

\* until there is something: accept takes the oldest connection or error,
TakeConnection ==
  /\ at \in Listener
  /\ Readable(at)
  /\ Goto("read", "idle")
  /\ queue' = [queue EXCEPT ![at] = Tail(@)]
  /\ got' = [got EXCEPT ![at] = @ \o Head(queue[at]).data]
  /\ told' = told \ {<<at, "read">>}
  /\ UNCHANGED <<eventVars, fwVars, peerVars, connectStatus, running, shut, endVars, exitVars,
                 eof>>

\* and recv begins to copy.
BeginCopy ==
  /\ at \in Client
  /\ Readable(at)
  /\ Goto("read", "copy")
  /\ told' = told \ {<<at, "read">>}
  /\ UNCHANGED <<eventVars, fwVars, peerVars, resultVars, endVars, exitVars, pastVars>>

\* An error ends the copying; alone it is raised, and it stays in the queue.
CopyError ==
  /\ queue[at] # <<>>
  /\ call.copied # call.want
  /\ Head(queue[at]) = Error
  /\ Goto("copy", "idle")
  /\ OnlyCall

\* Fault: the buffer is copied whatever its length.
CopyDataUnbounded ==
  /\ queue[at] # <<>>
  /\ call.copied # call.want
  /\ Head(queue[at]) # Error
  /\ call.pc = "copy"
  /\ got' = [got EXCEPT ![at] = @ \o Head(queue[at]).data]
  /\ call' = [call EXCEPT !.copied = @ + Len(Head(queue[at]).data)]
  /\ queue' = [queue EXCEPT ![at] = Tail(@)]
  /\ UNCHANGED <<eventVars, fwVars, peerVars, connectStatus, running, shut, endVars, told,
                 exitVars, eof>>

\* Fault: what does not fit is thrown away with the rest.
CopyDataNoSplit ==
  /\ queue[at] # <<>>
  /\ call.copied # call.want
  /\ Head(queue[at]) # Error
  /\ call.pc = "copy"
  /\ LET src == Head(queue[at]).data
         n == IF call.copied + Len(src) > call.want THEN call.want - call.copied ELSE Len(src)
     IN  /\ got' = [got EXCEPT ![at] = @ \o SubSeq(src, 1, n)]
         /\ call' = [call EXCEPT !.copied = @ + n]
         /\ queue' = [queue EXCEPT ![at] = Tail(@)]
  /\ UNCHANGED <<eventVars, fwVars, peerVars, connectStatus, running, shut, endVars, told,
                 exitVars, eof>>

\* The oldest buffer is copied, and removed or split.
CopyData ==
  /\ queue[at] # <<>>
  /\ call.copied # call.want
  /\ Head(queue[at]) # Error
  /\ call.pc = "copy"
  /\ LET src == Head(queue[at]).data
         n == IF call.copied + Len(src) > call.want THEN call.want - call.copied ELSE Len(src)
     IN  /\ got' = [got EXCEPT ![at] = @ \o SubSeq(src, 1, n)]
         /\ call' = [call EXCEPT !.copied = @ + n]
         /\ queue' = [queue EXCEPT ![at] =
              IF n < Len(src) THEN <<Ok(SubSeq(src, n + 1, Len(src)))>> \o Tail(@) ELSE Tail(@)]
  /\ UNCHANGED <<eventVars, fwVars, peerVars, connectStatus, running, shut, endVars, told,
                 exitVars, eof>>

CopyDone ==
  /\ queue[at] = <<>> \/ call.copied = call.want
  /\ Goto("copy", "idle")
  /\ eof' = [eof EXCEPT ![at] = @ \/ call.copied = 0]
  /\ UNCHANGED <<eventVars, fwVars, peerVars, resultVars, endVars, told, exitVars, got>>

\* _poll may raise while an operation waits; its token stays behind.
PollFails ==
  /\ \/ call.pc \in {"start", "select_start"} /\ running[at]
     \/ \E x \in call.todo : x[2] = "write" /\ connectStatus[x[1]] = "none"
     \/ call.pc = "connect" /\ connectStatus[at] = "none"
     \/ call.pc = "send" /\ call.status = "none"
  /\ call' = Idle
  /\ OnlyCall

-----------------------------------------------------------------------------
(* Connecting, listening, sending, closing.                                *)

\* A socket that was configured before is refused by Configure.  The firmware
\* takes the token, or fails the connect at once; or a route cannot be added,
\* and the socket stays configured for nothing.
connect(s, l) ==
  /\ s \in Client
  /\ connectStatus[s] = "none"
  /\ tcp[s] = "unconfigured"
  /\ \/ /\ Begin(IF l = "now" THEN "idle" ELSE "connect", s, l)
        /\ create_event(<<s, "connect">>)
        /\ tokens' = tokens \cup {<<s, "connect">>}
        /\ tcp' = [tcp EXCEPT ![s] = "connecting"]
        /\ UNCHANGED resultVars
     \/ /\ Begin(IF l = "now" THEN "idle" ELSE "connect", s, l)
        /\ Note(s, "connect", Error)
        /\ tcp' = [tcp EXCEPT ![s] = "broken"]
        /\ UNCHANGED <<handlers, tokens>>
     \/ /\ Begin("idle", s, l)
        /\ tcp' = [tcp EXCEPT ![s] = "broken"]
        /\ UNCHANGED <<handlers, tokens, resultVars>>
  /\ UNCHANGED <<pending, exiting, outcome, peerVars, endVars, told, exitVars, pastVars>>

ConnectReturns ==
  /\ connectStatus[at] # "none"
  /\ Goto("connect", "idle")
  /\ OnlyCall

ConnectTimesOut ==
  /\ call.limit = "later"
  /\ Goto("connect", "idle")
  /\ OnlyCall

\* SO_ERROR hands the status out, and says from then on that there is no error.
getsockopt(s) ==
  /\ call.pc = "idle"
  /\ s \in Client
  /\ connectStatus' = [connectStatus EXCEPT ![s] = "ok"]
  /\ UNCHANGED <<eventVars, fwVars, peerVars, queue, running, shut, endVars, call, told, exitVars,
                 pastVars>>

listen(s) ==
  /\ call.pc = "idle"
  /\ s \in Listener
  /\ tcp[s] = "unconfigured"
  /\ tcp' = [tcp EXCEPT ![s] = "up"]
  /\ UNCHANGED <<eventVars, tokens, outcome, peerVars, resultVars, endVars, call, told, exitVars,
                 pastVars>>

\* A token of an earlier sendall that a failed poll has ended may still be with
\* the firmware; the model follows one at a time.
sendall(s) ==
  /\ s \in Client
  /\ <<s, "send">> \notin handlers
  /\ tcp[s] \in {"connecting", "up"}
  /\ Begin("send", s, "never")
  /\ create_event(<<s, "send">>)
  /\ tokens' = tokens \cup {<<s, "send">>}
  /\ UNCHANGED <<pending, exiting, tcp, outcome, peerVars, connectStatus, queue, running, shut,
                 endVars, told, exitVars, pastVars>>

SendReturns ==
  /\ call.status # "none"
  /\ Goto("send", "idle")
  /\ OnlyCall

close(s) ==
  /\ call.pc = "idle"
  /\ ~ closed[s]
  /\ tcp[s] # "unconfigured"
  /\ create_event(<<s, "close">>)
  /\ tokens' = tokens \cup {<<s, "close">>}
  /\ tcp' = [tcp EXCEPT ![s] = "closing"]
  /\ closed' = [closed EXCEPT ![s] = TRUE]
  /\ UNCHANGED <<pending, exiting, outcome, peerVars, resultVars, aborted, call, told, exitVars,
                 pastVars>>

-----------------------------------------------------------------------------
(* select.                                                                 *)

select(xs, l) ==
  /\ \A x \in xs : x[1] \in Listener => tcp[x[1]] # "unconfigured"
  /\ call.pc = "idle"
  /\ call' = [Idle EXCEPT !.pc = "select", !.limit = l, !.asked = xs, !.todo = xs]
  /\ told' = {}
  /\ UNCHANGED <<eventVars, fwVars, peerVars, resultVars, endVars, exitVars, pastVars>>

Seen(x, to, found) ==
  /\ call.pc = "select"
  /\ x \in call.todo
  /\ call' = [call EXCEPT !.todo = @ \ {x}, !.ready = @ \cup found, !.pc = to, !.at = x[1]]

\* Fault: a socket that has been polled counts as writable.
LookAnyWritable(x) ==
  /\ \/ (x[2] = "write" \/ Readable(x[1])) /\ Seen(x, "select", {x})
     \/ x[2] = "read" /\ ~ Readable(x[1]) /\ Seen(x, "select_start", {})
  /\ OnlyCall

\* _read_ready or _write_ready of one socket of the lists.
Look(x) ==
  /\ \/ x[2] = "write" /\ Seen(x, "select", IF connectStatus[x[1]] # "none" THEN {x} ELSE {})
     \/ x[2] = "read" /\ Readable(x[1]) /\ Seen(x, "select", {x})
     \/ x[2] = "read" /\ ~ Readable(x[1]) /\ Seen(x, "select_start", {})
  /\ OnlyCall

\* After a round something was found, or the time is up, or there is another.
RoundEnds ==
  /\ call.pc = "select"
  /\ call.todo = {}
  /\ \/ /\ call.ready # {} \/ call.limit # "never"
        /\ call' = Idle
        /\ told' = call.ready
     \/ /\ call.ready = {} /\ call.limit # "now"
        /\ call' = [call EXCEPT !.todo = call.asked]
        /\ UNCHANGED told
  /\ UNCHANGED <<eventVars, fwVars, peerVars, resultVars, endVars, exitVars, pastVars>>

-----------------------------------------------------------------------------
(* close_all_events, when Python exits.                                    *)

close_all_events ==
  /\ Goto("idle", "exit")
  /\ exiting' = TRUE
  /\ size' = Cardinality(handlers)
  /\ UNCHANGED <<handlers, pending, fwVars, peerVars, resultVars, endVars, told, cur, pastVars>>

\* The iterator over _event_handlers fails when the dictionary has changed its
\* size, which every closed event does.
NextEvent ==
  /\ \/ /\ Cardinality(handlers) # size
        /\ Goto("exit", "exit_failed")
        /\ UNCHANGED cur
     \/ /\ handlers = {} /\ size = 0
        /\ Goto("exit", "exited")
        /\ UNCHANGED cur
     \/ /\ Cardinality(handlers) = size
        /\ cur' \in handlers
        /\ Goto("exit", IF aborted[cur'[1]] THEN "close_event" ELSE "abort")
  /\ UNCHANGED <<eventVars, fwVars, peerVars, resultVars, endVars, told, size, pastVars>>

\* _abort: Configure with nothing makes the firmware fail all tokens,
Abort ==
  LET mine == {e \in tokens : e[1] = cur[1]}
  IN  /\ Goto("abort", "close_all")
      /\ tcp' = [tcp EXCEPT ![cur[1]] = "unconfigured"]
      /\ tokens' = tokens \ mine
      /\ outcome' = [e \in Event |-> IF e \in mine THEN Error ELSE outcome[e]]
      /\ \E order \in SetToSeqs(mine) : c_event_callback(order)
      /\ UNCHANGED <<handlers, exiting, peerVars, resultVars, endVars, told, exitVars, pastVars>>

\* and close_all closes the events whose callbacks have not done so yet.  Its
\* iterator, too, fails after the first, and before it when a callback closes
\* an event inside the loop.
CloseAll ==
  LET mine == {e \in handlers : e[1] = cur[1]}
  IN  /\ Goto("close_all", "close_event")
      /\ IF mine = {}
         THEN aborted' = [aborted EXCEPT ![cur[1]] = TRUE] /\ UNCHANGED handlers
         ELSE /\ UNCHANGED handlers \/ \E e \in mine : close_event(e)
              /\ UNCHANGED aborted
      /\ UNCHANGED <<pending, exiting, fwVars, peerVars, resultVars, closed, told, exitVars,
                     pastVars>>

CloseCurrent ==
  /\ Goto("close_event", "exit")
  /\ close_event(cur)
  /\ UNCHANGED <<pending, exiting, fwVars, peerVars, resultVars, endVars, told, exitVars,
                 pastVars>>

-----------------------------------------------------------------------------
\* What the program's loops do by themselves.
Program ==
  \/ NotReady \/ Start \/ CheckTime \/ TakeConnection
  \/ BeginCopy \/ CopyError \/ CopyData \/ CopyDone
  \/ ConnectReturns \/ SendReturns
  \/ (\E x \in Sock \X {"read", "write"} : Look(x)) \/ RoundEnds
  \/ NextEvent \/ Abort \/ CloseAll \/ CloseCurrent

Caller ==
  \/ \E s \in Sock, l \in Limits : accept(s, l) \/ connect(s, l)
  \/ \E s \in Sock, n \in Wants, l \in Limits : recv_into(s, n, l)
  \/ \E s \in Sock : getsockopt(s) \/ listen(s) \/ sendall(s) \/ close(s)
  \/ \E xs \in Selections, l \in Limits : select(xs, l)
  \/ close_all_events

Next ==
  \/ Caller
  \/ Program
  \/ ConnectTimesOut
  \/ PollFails
  \/ Interpreter
  \/ \E s \in Sock : Firmware(s) \/ Peer(s)

\* Time passes, so a loop that looks at it finds it up in the end: for recv,
\* accept and select this is the strong fairness of the step that gives up.
TimeIsUp == CheckTime /\ call'.pc = "idle"
SelectTimeIsUp == RoundEnds /\ call'.pc = "idle"

\* The program and the interpreter execute, and the firmware completes what it
\* can.
Fairness ==
  /\ WF_vars(Program)
  /\ SF_vars(TimeIsUp)
  /\ SF_vars(SelectTimeIsUp)
  /\ WF_vars(ConnectTimesOut)
  /\ WF_vars(Interpreter)
  /\ \A s \in Sock : WF_vars(Firmware(s))

Spec == Init /\ [][Next]_vars /\ Fairness

-----------------------------------------------------------------------------
(* Properties.                                                             *)

Result == {Error, Fin} \cup {Ok(SubSeq([i \in 1 .. MaxSent |-> i], m, n)) :
                             m \in 1 .. MaxSent + 1, n \in 0 .. MaxSent}

\* The type invariant: recv never copies more than it was asked for.
TypeOK ==
  /\ EventTypeOK
  /\ tcp \in [Sock -> Tcp]
  /\ tokens \subseteq Event
  /\ outcome \in [Event -> Result]
  /\ sent \in [Sock -> 0 .. MaxSent]
  /\ taken \in [Sock -> 0 .. MaxSent]
  /\ fin \in [Sock -> BOOLEAN]
  /\ connectStatus \in [Sock -> {"none", "ok", "error"}]
  /\ \A s \in Sock : \A i \in DOMAIN queue[s] : queue[s][i] \in Result \ {Fin}
  /\ {running, shut, closed, aborted, eof} \subseteq [Sock -> BOOLEAN]
  /\ call.pc \in Pcs
  /\ at \in Sock
  /\ call.want \in Nat
  /\ call.copied \in 0 .. call.want
  /\ call.limit \in {"never", "now", "later"}
  /\ told \subseteq Sock \X {"read", "write"}
  /\ cur \in Event

\* The open events are exactly those of the tokens the firmware still holds and
\* of the completions Python has not handled yet: no operation that ends, in
\* time or not, leaks an event or closes one that will be signalled, and no
\* completion is handled twice.
EventsExact ==
  ~ exiting =>
    /\ handlers = tokens \cup ToSet(pending)
    /\ tokens \cap ToSet(pending) = {}
    /\ IsInjective(pending)

\* A socket reads as long as a token of it is out or its callback still to run:
\* a flag left set would silence it for good, one left clear would start a
\* second token.  It reads ahead by one token at most, which it starts when a
\* callback runs between the look at the queue and the look at the flag.
RunningExact ==
  ~ exiting =>
    \A s \in Sock :
      /\ running[s] <=> <<s, "read">> \in handlers
      /\ Len(queue[s]) + (IF running[s] THEN 1 ELSE 0) <= 2

\* What the firmware has handed over is what recv and accept have returned,
\* what is queued, and what the next callback will queue, in the order in which
\* the peers sent it: time-outs, failed polls and short reads lose nothing.
Queued(s) == FlattenSeq([i \in DOMAIN queue[s] |-> queue[s][i].data])
Arriving(s) == IF Contains(pending, <<s, "read">>) THEN outcome[<<s, "read">>].data ELSE <<>>
StreamInOrder ==
  ~ exiting =>
    \A s \in Sock : got[s] \o Queued(s) \o Arriving(s) = [i \in 1 .. taken[s] |-> i]

\* "When the remote end is closed and all data is read, return the empty
\* string": and not before, nor when the connection broke.
EofMeansAll == \A s \in Client : eof[s] => fin[s] /\ Len(got[s]) = sent[s]

\* What select has reported stays true until the program acts on it: the recv
\* or accept it then makes does not wait.
SelectedReady ==
  \A x \in told : IF x[2] = "read" THEN Readable(x[1]) ELSE connectStatus[x[1]] # "none"

\* accept, recv, connect and select end when their time is up, whatever the
\* network does (sendall has no such promise: it waits for the firmware).
InTime ==
  /\ call.limit # "never"
  /\ call.pc \in {"read", "start", "check", "connect", "select", "select_start"}
TimeoutsHold == InTime ~> call.pc = "idle"

\* A recv for which there is data returns, even without a time-out.
DataThere(s) ==
  call.pc \in {"read", "start", "check"} /\ at = s /\ taken[s] < sent[s] /\ tcp[s] = "up"
DataIsRead == \A s \in Sock : DataThere(s) ~> call.pc = "idle"

\* python/efi.py:1808: "abort provides a callback to be called if cleaning up
\* all events before exiting Python", to tell the firmware not to touch the
\* event or its data any more.
ExitAbortsAll == call.pc \in {"exited", "exit_failed"} => tokens = {}
=============================================================================
