SPECIFICATION Spec
CONSTANTS
  x = x
  blank = blank
  Char <- MCChar
  Space = blank
  Alnum <- MCAlnum
  Completions <- MCCompletions
  Widths = {1, 2}
  MaxKept = 2
  MaxShown = 2
  MaxLine = 3
CHECK_DEADLOCK FALSE
INVARIANTS
  TypeOK
  KillsUndone
  YankUndone
  LineFits
PROPERTIES
  CompletionUndone
