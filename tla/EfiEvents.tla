----------------------------- MODULE EfiEvents -----------------------------
(***************************************************************************)
(* How an EFI event reaches the Python function that handles it:           *)
(* create_event, close_event and _event_callback of python/efi.py, and     *)
(* c_event_callback of rc/python/efimodule.c.                              *)
(*                                                                         *)
(* The firmware notifies BITS of a signalled event at any time, from the   *)
(* timer interrupt or from inside a call.  The notification only leaves a  *)
(* pending call with the Python interpreter, which makes it between two    *)
(* instructions of the program, one at a time.  Python is built without    *)
(* threads, where its queue of pending calls is short and unlocked: a call *)
(* that does not fit is refused, and a store of the notification to the    *)
(* interpreter's counter may be overwritten, so that the program runs on   *)
(* for a while.                                                            *)
(***************************************************************************)
EXTENDS Naturals, Sequences, FiniteSets

CONSTANTS
  Event,          \* the events the program uses, by name
  NPENDINGCALLS   \* the places in Python's queue, one of which stays free

ASSUME EventAssumption == NPENDINGCALLS \in Nat \ {0}

VARIABLES
  handlers,  \* the keys of _event_handlers
  pending,   \* the pending calls
  exiting    \* _event_exiting

eventVars == <<handlers, pending, exiting>>

EventTypeOK ==
  /\ handlers \subseteq Event
  /\ pending \in Seq(Event)
  /\ Len(pending) < NPENDINGCALLS
  /\ exiting \in BOOLEAN

\* Refused while the program exits.
create_event(e) ==
  /\ ~ exiting
  /\ handlers' = handlers \cup {e}

close_event(e) == handlers' = handlers \ {e}

\* c_event_callback, for events signalled one after the other: it ignores the
\* result of Py_AddPendingCall, so what does not fit is gone.
c_event_callback(es) ==
  LET room == NPENDINGCALLS - 1 - Len(pending)
  IN  pending' = pending \o SubSeq(es, 1, IF Len(es) < room THEN Len(es) ELSE room)

\* The interpreter makes the oldest pending call, whose event is e.
_event_callback(e) ==
  /\ pending # <<>>
  /\ e = Head(pending)
  /\ pending' = Tail(pending)
=============================================================================
