------------------------------ MODULE Readline ------------------------------
(***************************************************************************)
(* The line editor of python/readline.py: the line and its cursor, the     *)
(* history, the kill ring, yanking and completion.  Each action is one     *)
(* turn of the loop of _readline, from get_key to the next get_key; what   *)
(* it draws is left out.  pos counts the characters before the cursor, and *)
(* indices into history count from 0, as in the code.                      *)
(***************************************************************************)
EXTENDS Integers, FiniteSets, SequencesExt

CONSTANTS
  Char, Space, Alnum,  \* what can be typed, the blank, what isalnum() accepts
  Widths,              \* the values of buffer_max: it depends on the prompt
  Completions,         \* completer: the completions of a word, in its order
  MaxKept,             \* bound: entries of history and kill_ring together
  MaxShown,            \* bound: lines of the history that a call shows
  MaxLine              \* bound: the length of a line

ASSUME ReadlineAssumption ==
  /\ Space \in Char
  /\ Alnum \subseteq Char \ {Space}
  /\ Widths \subseteq Nat
  /\ MaxKept \in Nat
  /\ MaxShown \in Nat
  /\ MaxLine \in Nat
  /\ \A w \in DOMAIN Completions : Completions[w] \in Seq(Seq(Char))

VARIABLES
  reading,          \* _readline runs
  line, pos,        \* line_buffer, pos
  buffer_max,
  history, history_index,
  history_state,    \* the lines this call has shown, with their cursors
  ctrl_o_index,     \* -1 for None
  kill_ring, kill_accumulate,
  last_yank_start,  \* -1 for None
  completer_state, current_completion, saved_str,
  origin            \* history: line and cursor before the kills, the yank or
                    \* the completions that go on

lineVars == <<line, pos>>
historyVars == <<history, history_index, history_state, ctrl_o_index>>
killVars == <<kill_ring, kill_accumulate>>
completionVars == <<completer_state, current_completion, saved_str>>
vars == <<reading, lineVars, buffer_max, historyVars, killVars, last_yank_start,
          completionVars, origin>>

Here == <<line, pos>>
Nowhere == <<<<>>, 0>>
Before(p) == SubSeq(line, 1, p)
After(p) == SubSeq(line, p + 1, Len(line))

\* There is room for one more entry within the bound.
MayKeep == Len(history) + Len(kill_ring) < MaxKept

Init ==
  /\ reading = FALSE
  /\ line = <<>> /\ pos = 0 /\ buffer_max = 0
  /\ history = <<>> /\ history_index = 0 /\ history_state = <<>> /\ ctrl_o_index = -1
  /\ kill_ring = <<>> /\ kill_accumulate = FALSE
  /\ last_yank_start = -1
  /\ completer_state = 0 /\ current_completion = <<>> /\ saved_str = <<>>
  /\ origin = Nowhere

-----------------------------------------------------------------------------
(* The beginning of a call and of every turn.                              *)

\* history[i], with the cursor at its end.
Recalled(i) == <<history[i + 1], Len(history[i + 1])>>

\* The line to edit is empty, or the one that followed in the history when
\* the last call ended with Ctrl-O.
_readline(max) ==
  LET resumes == ctrl_o_index # -1 /\ ctrl_o_index < Len(history)
      index == IF resumes THEN ctrl_o_index ELSE Len(history)
      start == IF resumes THEN Recalled(index) ELSE Nowhere
  IN  /\ ~ reading
      /\ reading' = TRUE
      /\ buffer_max' = max
      /\ line' = start[1]
      /\ pos' = start[2]
      /\ history_index' = index
      /\ history_state' = [i \in {index} |-> start]
      /\ ctrl_o_index' = -1
      /\ kill_accumulate' = FALSE
      /\ last_yank_start' = -1
      /\ completer_state' = 0
      /\ UNCHANGED <<history, kill_ring, current_completion, saved_str, origin>>

\* The line is now l with the cursor at p, and the loop starts again.
Edit(l, p) ==
  /\ reading
  /\ Len(l) <= MaxLine
  /\ line' = l
  /\ pos' = p
  /\ history_state' = [i \in {history_index'} \cup DOMAIN history_state |->
                         IF i = history_index' THEN <<l, p>> ELSE history_state[i]]
  /\ UNCHANGED <<reading, buffer_max, history, ctrl_o_index>>

\* Every key but the one that continues it ends a yank, the kills that go into
\* one entry and the completions of a word, whose locals are then forgotten.
EndYank == last_yank_start' = -1
EndKills == kill_accumulate' = FALSE /\ UNCHANGED kill_ring
EndCompletion == completer_state' = 0 /\ current_completion' = <<>> /\ saved_str' = <<>>
EndAll == EndYank /\ EndKills /\ EndCompletion /\ origin' = Nowhere

PlainEdit(l, p) == UNCHANGED history_index /\ Edit(l, p) /\ EndAll

-----------------------------------------------------------------------------
(* The cursor, deletion and insertion.                                     *)

\* Where the cursor stops when it moves over characters of S.
BackOver(p, S) ==
  CHOOSE q \in 0 .. p : /\ \A i \in q + 1 .. p : line[i] \in S
                        /\ q = 0 \/ line[q] \notin S
ForwardOver(p, S) ==
  CHOOSE q \in p .. Len(line) : /\ \A i \in p + 1 .. q : line[i] \in S
                                /\ q = Len(line) \/ line[q + 1] \notin S

Home == PlainEdit(line, 0)
End == PlainEdit(line, Len(line))
Left == PlainEdit(line, IF pos = 0 THEN 0 ELSE pos - 1)
Right == PlainEdit(line, IF pos = Len(line) THEN pos ELSE pos + 1)
WordLeft == PlainEdit(line, BackOver(BackOver(pos, Char \ Alnum), Alnum))
WordRight == PlainEdit(line, ForwardOver(ForwardOver(pos, Char \ Alnum), Alnum))

\* Delete, and Ctrl-D when the line is not empty.
Delete == PlainEdit(Before(pos) \o After(pos + 1), pos)
Backspace == pos # 0 /\ PlainEdit(Before(pos - 1) \o After(pos), pos - 1)

\* Backspace at the start, Up and Down at the ends of the history, Ctrl-L, an F key, a key without a meaning; Escape
\* and Ctrl-Z when the line is not empty; Tab without a completer.
OtherKey == PlainEdit(line, pos)

\* How much of s is inserted into l, character by character while there is room.
\* Fault: one too many.
RoomOffByOne(l) == IF Len(l) <= buffer_max THEN buffer_max - Len(l) + 1 ELSE 0
Room(l) == IF Len(l) < buffer_max THEN buffer_max - Len(l) ELSE 0
InsertChars(s, l) == SubSeq(s, 1, IF Len(s) <= Room(l) THEN Len(s) ELSE Room(l))

insert_char(c) ==
  LET s == InsertChars(<<c>>, line)
  IN  PlainEdit(Before(pos) \o s \o After(pos), pos + Len(s))

-----------------------------------------------------------------------------
(* Kills and yanks.                                                        *)

\* Kill the text of the line from start to end, which ends or starts at the
\* cursor; to_right tells which.
add_to_kill_ring(s, to_right) ==
  /\ kill_accumulate' = TRUE
  /\ IF kill_accumulate
     THEN kill_ring' = Append(Front(kill_ring), IF to_right THEN Last(kill_ring) \o s
                                                            ELSE s \o Last(kill_ring))
     ELSE /\ MayKeep
          /\ kill_ring' = Append(kill_ring, s)

Kill(from, to, to_right) ==
  /\ UNCHANGED history_index
  /\ Edit(Before(from) \o After(to), from)
  /\ add_to_kill_ring(SubSeq(line, from + 1, to), to_right)
  /\ origin' = IF kill_accumulate THEN origin ELSE Here
  /\ EndYank
  /\ EndCompletion

KillToEnd == Kill(pos, Len(line), TRUE)
KillToStart == Kill(0, pos, FALSE)
\* Fault: the word is put behind what was killed before.
KillWordToRight == Kill(BackOver(BackOver(pos, {Space}), Char \ {Space}), pos, TRUE)
KillWord == Kill(BackOver(BackOver(pos, {Space}), Char \ {Space}), pos, FALSE)

\* s[:n] of Python, which counts a negative n from the end of s.
Slice(s, n) == SubSeq(s, 1, IF n >= 0 THEN n ELSE Len(s) + n)

\* The part of s that insert_string inserts into l.  In a line that was longer
\* than buffer_max when it came from the history, chars_remaining is negative.
insert_string(s, l) ==
  LET chars_remaining == buffer_max - Len(l)
  IN  IF chars_remaining < Len(s) THEN Slice(s, chars_remaining) ELSE s

\* The text s is inserted between l and r.
Insert(s, l, r) ==
  LET t == insert_string(s, l \o r)
  IN  /\ UNCHANGED history_index
      /\ Edit(l \o t \o r, Len(l) + Len(t))
      /\ last_yank_start' = Len(l)

Yank ==
  /\ kill_ring # <<>>
  /\ Insert(Last(kill_ring), Before(pos), After(pos))
  /\ origin' = Here
  /\ EndKills /\ EndCompletion

YankNothing == kill_ring = <<>> /\ PlainEdit(line, pos)

Rotated == <<Last(kill_ring)>> \o Front(kill_ring)

\* Fault: the text yanked before stays.
YankNextKeeps ==
  /\ last_yank_start # -1
  /\ kill_ring' = Rotated
  /\ Insert(Last(Rotated), Before(pos), After(pos))
  /\ kill_accumulate' = FALSE
  /\ EndCompletion
  /\ UNCHANGED origin

\* Alt-Y right after Ctrl-Y or Alt-Y; OtherKey otherwise.
YankNext ==
  /\ last_yank_start # -1
  /\ kill_ring' = Rotated
  /\ Insert(Last(Rotated), Before(last_yank_start), After(pos))
  /\ kill_accumulate' = FALSE
  /\ EndCompletion
  /\ UNCHANGED origin

-----------------------------------------------------------------------------
(* The history.                                                            *)

\* Fault: only the line is looked up, and the cursor stays.
ShowHistoryLineOnly(i) ==
  LET shown == IF i \in DOMAIN history_state THEN history_state[i]
               ELSE IF i = Len(history) THEN Nowhere ELSE Recalled(i)
  IN  /\ history_index' = i
      /\ Edit(shown[1], pos)
      /\ EndAll

\* history_state.get(i, ...), of which Up never asks for the new line.
ShowHistory(i) ==
  LET shown == IF i \in DOMAIN history_state THEN history_state[i]
               ELSE IF i = Len(history) THEN Nowhere ELSE Recalled(i)
  IN  /\ i \in DOMAIN history_state \/ Cardinality(DOMAIN history_state) < MaxShown
      /\ history_index' = i
      /\ Edit(shown[1], shown[2])
      /\ EndAll

Down == history_index < Len(history) /\ ShowHistory(history_index + 1)
Up == history_index > 0 /\ ShowHistory(history_index - 1)

\* The call returns, and its locals are gone.
Return ==
  /\ reading
  /\ reading' = FALSE
  /\ line' = <<>> /\ pos' = 0
  /\ history_index' = 0 /\ history_state' = <<>>
  /\ EndAll
  /\ UNCHANGED buffer_max

\* Enter (next = -1) and Ctrl-O.  A blank line is kept after one that is not.
Accept(next) ==
  /\ IF line # <<>> \/ (history # <<>> /\ Last(history) # <<>>)
     THEN /\ MayKeep
          /\ history' = Append(history, line)
     ELSE UNCHANGED history
  /\ ctrl_o_index' = next
  /\ Return

Enter == Accept(-1)
OperateAndGetNext == Accept(history_index + 1)

\* Ctrl-D, Ctrl-Z and Escape on an empty line: the end of the file.
Eof == line = <<>> /\ Return /\ UNCHANGED <<history, ctrl_o_index>>

-----------------------------------------------------------------------------
(* Completion.                                                             *)

WordsOf(w) == IF w \in DOMAIN Completions THEN Completions[w] ELSE <<>>

\* Fault: the completion before stays.
TabKeeps ==
  LET again == completer_state # 0
      start == IF ~ again THEN BackOver(pos, Char \ {Space}) ELSE pos
      word == IF again THEN saved_str ELSE SubSeq(line, start + 1, pos)
      left == Before(start) \o After(pos)
      found == completer_state < Len(WordsOf(word))
      new == IF found THEN WordsOf(word)[completer_state + 1] ELSE word
      s == InsertChars(new, left)
  IN  /\ UNCHANGED history_index
      /\ Edit(Before(start) \o s \o After(pos), start + Len(s))
      /\ IF found
         THEN /\ completer_state' = completer_state + 1
              /\ current_completion' = new
              /\ saved_str' = word
              /\ origin' = IF again THEN origin ELSE Here
         ELSE EndCompletion /\ origin' = Nowhere
      /\ EndYank /\ EndKills

\* The word before the cursor gives way to its first completion, a completion
\* to the next, and the last to the word.
Tab ==
  LET again == completer_state # 0
      start == IF ~ again THEN BackOver(pos, Char \ {Space})
               ELSE IF Len(current_completion) < pos THEN pos - Len(current_completion) ELSE 0
      word == IF again THEN saved_str ELSE SubSeq(line, start + 1, pos)
      left == Before(start) \o After(pos)
      found == completer_state < Len(WordsOf(word))
      new == IF found THEN WordsOf(word)[completer_state + 1] ELSE word
      s == InsertChars(new, left)
  IN  /\ UNCHANGED history_index
      /\ Edit(Before(start) \o s \o After(pos), start + Len(s))
      /\ IF found
         THEN /\ completer_state' = completer_state + 1
              /\ current_completion' = new
              /\ saved_str' = word
              /\ origin' = IF again THEN origin ELSE Here
         ELSE EndCompletion /\ origin' = Nowhere
      /\ EndYank /\ EndKills

-----------------------------------------------------------------------------
Next ==
  \/ \E max \in Widths : _readline(max)
  \/ \E c \in Char : insert_char(c)
  \/ Home \/ End \/ Left \/ Right \/ WordLeft \/ WordRight
  \/ Delete \/ Backspace \/ OtherKey
  \/ KillToEnd \/ KillToStart \/ KillWord
  \/ Yank \/ YankNothing \/ YankNext
  \/ Up \/ Down
  \/ Enter \/ OperateAndGetNext \/ Eof
  \/ Tab

Spec == Init /\ [][Next]_vars

-----------------------------------------------------------------------------
(* Properties.                                                             *)

Line == Seq(Char)
Placed(x) == x[1] \in Line /\ x[2] \in 0 .. Len(x[1])

\* Every variable has its type; the cursor is within its line, in the lines of
\* the history that may be shown again too, and a yank begins before it.
TypeOK ==
  /\ reading \in BOOLEAN /\ kill_accumulate \in BOOLEAN
  /\ Placed(Here) /\ Placed(origin)
  /\ buffer_max \in Nat
  /\ history \in Seq(Line) /\ kill_ring \in Seq(Line)
  /\ history_index \in 0 .. Len(history)
  /\ DOMAIN history_state \subseteq 0 .. Len(history)
  /\ \A i \in DOMAIN history_state : Placed(history_state[i])
  /\ ctrl_o_index \in {-1} \cup 1 .. Len(history) + 1
  /\ last_yank_start \in -1 .. pos
  /\ kill_accumulate \/ last_yank_start # -1 => kill_ring # <<>>
  /\ completer_state \in 0 .. Len(WordsOf(saved_str))
  /\ current_completion \in Line /\ saved_str \in Line

\* However Ctrl-K, Ctrl-U and Ctrl-W are mixed, one Ctrl-Y undoes them: the
\* newest entry of the ring, put in at the cursor, is the line before the first.
KillsUndone ==
  kill_accumulate => Before(pos) \o Last(kill_ring) \o After(pos) = origin[1]

\* However often Alt-Y has replaced the text, what was yanked last lies between
\* last_yank_start and the cursor, and the rest is the line before Ctrl-Y.
YankUndone ==
  last_yank_start # -1 => <<Before(last_yank_start) \o After(pos), last_yank_start>> = origin

\* All completions of w fit into the line that was l, where w stood.
Fit(w, l) ==
  /\ Len(l) <= buffer_max
  /\ \A i \in DOMAIN WordsOf(w) : Len(l) - Len(w) + Len(WordsOf(w)[i]) <= buffer_max

\* As long as its completions fit, Tab changes nothing but the word: the line
\* has the completion in its place, and after the last one the word again,
\* with the cursor where it was.
CompletionUndone ==
  [][LET from == IF completer_state = 0 THEN Here ELSE origin
         start == IF completer_state' # 0 THEN from[2] - Len(saved_str') ELSE from[2]
     IN  Tab /\ Fit(IF completer_state = 0 THEN saved_str' ELSE saved_str, from[1]) =>
           IF completer_state' = 0
           THEN Here' = from
           ELSE /\ SubSeq(from[1], 1, start) \o SubSeq(from[1], from[2] + 1, Len(from[1]))
                     = SubSeq(line', 1, start) \o SubSeq(line', pos' + 1, Len(line'))
                /\ SubSeq(line', start + 1, pos') = WordsOf(saved_str')[completer_state']]_vars

\* What is drawn stays on the screen, unless a line of the history was written
\* after a shorter prompt: no key makes the line longer than buffer_max.
LineFits ==
  reading /\ (\A i \in DOMAIN history : Len(history[i]) <= buffer_max) => Len(line) <= buffer_max

=============================================================================
