SPECIFICATION Spec
CONSTANTS
  c = c
  l = l
  Client = {}
  Listener <- MCListener
  Event <- MCEvent
  Selections <- MCSelections
  NPENDINGCALLS = 8
  MaxSent = 3
  MaxChunk = 2
  Wants = {1}
  Limits = {"never", "now", "later"}
CHECK_DEADLOCK FALSE
INVARIANTS
  EventsExact
  StreamInOrder
PROPERTIES
  DataIsRead
