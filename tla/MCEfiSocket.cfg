SPECIFICATION Spec
CONSTANTS
  c = c
  l = l
  Client <- MCClient
  Listener = {}
  Event <- MCEvent
  Selections <- MCSelections
  NPENDINGCALLS = 8
  MaxSent = 2
  MaxChunk = 2
  Wants = {1, 2}
  Limits = {"never", "now", "later"}
CHECK_DEADLOCK FALSE
INVARIANTS
  TypeOK
  EventsExact
  RunningExact
  StreamInOrder
  EofMeansAll
  SelectedReady
