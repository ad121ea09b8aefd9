SPECIFICATION Spec
CONSTANTS
  c = c
  l = l
  Client <- MCClient
  Listener = {}
  Event <- MCEvent
  Selections <- MCSelections
  NPENDINGCALLS = 8
  MaxSent = 1
  MaxChunk = 2
  Wants = {1}
  Limits = {"never", "later"}
CHECK_DEADLOCK FALSE
PROPERTIES
  TimeoutsHold
  DataIsRead
