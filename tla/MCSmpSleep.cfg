SPECIFICATION Spec
CONSTANTS
  Self = self
  Cpu = {self}
  Deltas = {2500, 10000}
  U32 = 512
  Usecs = {0, 1, 3, 64, 65}
  MwaitAnswers = {TRUE, FALSE}
  MaxElapsed = 30
CHECK_DEADLOCK FALSE
INVARIANTS
  TypeOK
  NoLostWakeup
  OnlyTheTimerInterrupts
  NothingLeftBehind
PROPERTIES
  LongEnough
  SleepEnds
