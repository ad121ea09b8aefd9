--------------------------- MODULE ReadlineProofs ---------------------------
(***************************************************************************)
(* What is proved of Readline, for any characters, prompts and completions *)
(* and any bounds: the types, and that kills, yanks and completions can be *)
(* undone and the line stays on the screen.                                *)
(***************************************************************************)
EXTENDS Readline, SequenceTheorems, WellFoundedInduction, TLAPS

\* The lines that may be shown fit on the screen, if those of the history do.
HistoryFits == \A i \in DOMAIN history : Len(history[i]) <= buffer_max
ShownFit ==
  reading /\ HistoryFits =>
    /\ Len(line) <= buffer_max
    /\ \A i \in DOMAIN history_state : Len(history_state[i][1]) <= buffer_max

\* While a word is completed, the line is the one before with the completion in
\* the place of the word.
WordStart == origin[2] - Len(saved_str)
Completed ==
  completer_state # 0 /\ Fit(saved_str, origin[1]) =>
    /\ WordStart >= 0
    /\ saved_str = SubSeq(origin[1], WordStart + 1, origin[2])
    /\ current_completion = WordsOf(saved_str)[completer_state]
    /\ line = SubSeq(origin[1], 1, WordStart) \o current_completion
                \o SubSeq(origin[1], origin[2] + 1, Len(origin[1]))
    /\ pos = WordStart + Len(current_completion)

LineInv == TypeOK /\ KillsUndone /\ YankUndone /\ ShownFit /\ Completed

-----------------------------------------------------------------------------
(* Numbers and sequences. *)

LEMMA LeastOf ==
  ASSUME NEW T, T \subseteq Nat, T # {}
  PROVE  \E x \in T : \A y \in T : x <= y
<1> DEFINE R == OpToRel(<, Nat)
<1>1. IsWellFoundedOn(R, Nat)
  BY NatLessThanWellFounded
<1>2. PICK x \in T : \A y \in T : <<y, x>> \notin R
  <2> HIDE DEF R
  <2> QED
    BY <1>1, WFMin
<1>3. \A y \in T : y < x => <<y, x>> \in R
  BY DEF OpToRel
<1>4. x \in Nat /\ \A y \in T : y \in Nat /\ ~ (y < x)
  BY <1>2, <1>3
<1> QED
  BY <1>4

LEMMA GreatestOf ==
  ASSUME NEW n \in Nat, NEW T, T \subseteq 0 .. n, T # {}
  PROVE  \E x \in T : \A y \in T : y <= x
<1> DEFINE M == {n - x : x \in T}
<1>1. M \subseteq Nat /\ M # {}
  <2>1. \A x \in T : n - x \in Nat
    OBVIOUS
  <2>2. \E x \in T : TRUE
    OBVIOUS
  <2> QED
    BY <2>1, <2>2
<1>2. PICK m \in M : \A y \in M : m <= y
  <2> HIDE DEF M
  <2> QED
    BY <1>1, LeastOf
<1>3. PICK x \in T : m = n - x
  OBVIOUS
<1>4. ASSUME NEW y \in T PROVE y <= x
  <2>1. n - x <= n - y
    BY <1>2, <1>3
  <2>2. x \in Int /\ y \in Int
    OBVIOUS
  <2> HIDE DEF M
  <2> QED
    BY <2>1, <2>2
<1> QED
  BY <1>4

LEMMA Piece ==
  ASSUME NEW S, NEW s \in Seq(S), NEW m \in Nat \ {0}, NEW n \in Int, n <= Len(s)
  PROVE  /\ SubSeq(s, m, n) \in Seq(S)
         /\ Len(SubSeq(s, m, n)) = IF m <= n THEN n - m + 1 ELSE 0
         /\ \A i \in 1 .. n - m + 1 : SubSeq(s, m, n)[i] = s[m + i - 1]
<1>1. Len(s) \in Nat /\ \A i \in 1 .. Len(s) : s[i] \in S
  BY LenProperties
<1>2. \A i \in m .. n : i \in 1 .. Len(s)
  BY <1>1
<1> QED
  BY <1>1, <1>2, SubSeqProperties

\* A sequence, cut in two.
LEMMA Cut ==
  ASSUME NEW S, NEW s \in Seq(S), NEW p \in 0 .. Len(s)
  PROVE  /\ SubSeq(s, 1, p) \in Seq(S) /\ Len(SubSeq(s, 1, p)) = p
         /\ SubSeq(s, p + 1, Len(s)) \in Seq(S)
         /\ Len(SubSeq(s, p + 1, Len(s))) = Len(s) - p
         /\ SubSeq(s, 1, p) \o SubSeq(s, p + 1, Len(s)) = s
<1> DEFINE n == Len(s)
<1>1. n \in Nat
  BY LenProperties
<1> HIDE DEF n
<1>2. p \in Nat /\ p <= n
  BY <1>1 DEF n
<1>3. SubSeq(s, 1, p) \in Seq(S) /\ Len(SubSeq(s, 1, p)) = p
  BY <1>1, <1>2, Piece DEF n
<1>4. SubSeq(s, p + 1, n) \in Seq(S) /\ Len(SubSeq(s, p + 1, n)) = n - p
  <2>1. p + 1 \in Nat \ {0} /\ n <= Len(s)
    BY <1>1, <1>2 DEF n
  <2>2. /\ SubSeq(s, p + 1, n) \in Seq(S)
        /\ Len(SubSeq(s, p + 1, n)) = IF p + 1 <= n THEN n - (p + 1) + 1 ELSE 0
    BY <1>1, <2>1, Piece
  <2> QED
    BY <1>1, <1>2, <2>2
<1>5. SubSeq(s, 1, p) \o SubSeq(s, p + 1, n) = SubSeq(s, 1, n)
  <2>1. 1 \in 1 .. n + 1 /\ p \in 1 - 1 .. n /\ n \in p .. n
    BY <1>1, <1>2
  <2> QED
    BY <2>1, ConcatAdjacentSubSeq DEF n
<1>6. SubSeq(s, 1, n) = s
  BY SubSeqFull DEF n
<1> QED
  BY <1>3, <1>4, <1>5, <1>6 DEF n

\* The middle of a sequence joins either side.
LEMMA Middle ==
  ASSUME NEW S, NEW s \in Seq(S), NEW p \in 0 .. Len(s), NEW q \in p .. Len(s)
  PROVE  /\ SubSeq(s, p + 1, q) \in Seq(S) /\ Len(SubSeq(s, p + 1, q)) = q - p
         /\ SubSeq(s, 1, p) \o SubSeq(s, p + 1, q) = SubSeq(s, 1, q)
         /\ SubSeq(s, p + 1, q) \o SubSeq(s, q + 1, Len(s)) = SubSeq(s, p + 1, Len(s))
<1> DEFINE n == Len(s)
<1>1. n \in Nat
  BY LenProperties
<1> HIDE DEF n
<1>2. p \in Nat /\ q \in Nat /\ p <= q /\ q <= n
  BY <1>1 DEF n
<1>3. SubSeq(s, p + 1, q) \in Seq(S) /\ Len(SubSeq(s, p + 1, q)) = q - p
  <2>1. p + 1 \in Nat \ {0} /\ q \in Int /\ q <= Len(s)
    BY <1>2 DEF n
  <2>2. /\ SubSeq(s, p + 1, q) \in Seq(S)
        /\ Len(SubSeq(s, p + 1, q)) = IF p + 1 <= q THEN q - (p + 1) + 1 ELSE 0
    BY <2>1, Piece
  <2> QED
    BY <1>2, <2>2
<1>4. SubSeq(s, 1, p) \o SubSeq(s, p + 1, q) = SubSeq(s, 1, q)
  <2>1. 1 \in 1 .. n + 1 /\ p \in 1 - 1 .. n /\ q \in p .. n
    BY <1>1, <1>2
  <2> QED
    BY <2>1, ConcatAdjacentSubSeq DEF n
<1>5. SubSeq(s, p + 1, q) \o SubSeq(s, q + 1, n) = SubSeq(s, p + 1, n)
  <2>1. p + 1 \in 1 .. n + 1 /\ q \in (p + 1) - 1 .. n /\ n \in q .. n
    BY <1>1, <1>2
  <2> QED
    BY <2>1, ConcatAdjacentSubSeq DEF n
<1> QED
  BY <1>3, <1>4, <1>5 DEF n

\* Cut where it was joined, a sequence falls into its parts.
LEMMA Rejoined ==
  ASSUME NEW S, NEW l \in Seq(S), NEW r \in Seq(S)
  PROVE  /\ l \o r \in Seq(S) /\ Len(l \o r) = Len(l) + Len(r)
         /\ Len(l) \in Nat /\ Len(r) \in Nat
         /\ SubSeq(l \o r, 1, Len(l)) = l
         /\ SubSeq(l \o r, Len(l) + 1, Len(l \o r)) = r
<1> DEFINE s == l \o r
           m == Len(l)
           n == Len(r)
<1>1. m \in Nat /\ n \in Nat
  BY LenProperties
<1>2. /\ s \in Seq(S) /\ Len(s) = m + n
      /\ \A i \in 1 .. m + n : s[i] = IF i <= m THEN l[i] ELSE r[i - m]
  BY ConcatProperties
<1> HIDE DEF s, m, n
<1>3. SubSeq(s, 1, m) = l
  <2>1. /\ SubSeq(s, 1, m) \in Seq(S) /\ Len(SubSeq(s, 1, m)) = m
        /\ \A i \in 1 .. m : SubSeq(s, 1, m)[i] = s[i]
    <3>1. 1 \in Nat \ {0} /\ m \in Int /\ m <= Len(s)
      BY <1>1, <1>2
    <3>2. /\ SubSeq(s, 1, m) \in Seq(S)
          /\ Len(SubSeq(s, 1, m)) = IF 1 <= m THEN m - 1 + 1 ELSE 0
          /\ \A i \in 1 .. m - 1 + 1 : SubSeq(s, 1, m)[i] = s[1 + i - 1]
      BY <1>2, <3>1, Piece
    <3> QED
      BY <1>1, <3>2
  <2>2. \A i \in 1 .. m : SubSeq(s, 1, m)[i] = l[i]
    BY <1>1, <1>2, <2>1
  <2> QED
    BY <2>1, <2>2, SeqEqual DEF m
<1>4. SubSeq(s, m + 1, m + n) = r
  <2> DEFINE t == SubSeq(s, m + 1, m + n)
  <2>1. /\ t \in Seq(S) /\ Len(t) = n
        /\ \A i \in 1 .. n : t[i] = s[m + i]
    <3>1. m + 1 \in Nat \ {0} /\ m + n \in Int /\ m + n <= Len(s)
      BY <1>1, <1>2
    <3>2. /\ t \in Seq(S)
          /\ Len(t) = IF m + 1 <= m + n THEN (m + n) - (m + 1) + 1 ELSE 0
          /\ \A i \in 1 .. (m + n) - (m + 1) + 1 : t[i] = s[(m + 1) + i - 1]
      BY <1>2, <3>1, Piece
    <3> HIDE DEF t
    <3>3. (m + n) - (m + 1) + 1 = n /\ (m + 1 <= m + n <=> 1 <= n)
      BY <1>1
    <3>4. \A i \in 1 .. n : (m + 1) + i - 1 = m + i
      BY <1>1
    <3> QED
      BY <1>1, <3>2, <3>3, <3>4
  <2>2. \A i \in 1 .. n : t[i] = r[i]
    <3> TAKE i \in 1 .. n
    <3>1. m + i \in 1 .. m + n /\ ~ (m + i <= m) /\ (m + i) - m = i
      BY <1>1
    <3> QED
      BY <1>2, <2>1, <3>1
  <2> HIDE DEF t
  <2> QED
    BY <2>1, <2>2, SeqEqual DEF n, t
<1> QED
  BY <1>1, <1>2, <1>3, <1>4 DEF s, m, n

-----------------------------------------------------------------------------
(* What the operators of the editor return. *)

\* The cursor stops within the line.
LEMMA BackOverTyped ==
  ASSUME line \in Line, NEW p \in 0 .. Len(line), NEW S
  PROVE  BackOver(p, S) \in 0 .. p
<1> DEFINE Stops(q) == /\ \A i \in q + 1 .. p : line[i] \in S
                       /\ q = 0 \/ line[q] \notin S
           T == {q \in 0 .. p : q = 0 \/ line[q] \notin S}
<1>1. Len(line) \in Nat /\ p \in Nat
  BY LenProperties DEF Line
<1>2. T \subseteq 0 .. p /\ 0 \in T
  BY <1>1
<1>3. PICK q \in T : \A r \in T : r <= q
  <2> HIDE DEF T
  <2> QED
    BY <1>1, <1>2, GreatestOf
<1>4. \A i \in q + 1 .. p : i \notin T /\ i \in 0 .. p
  BY <1>1, <1>2, <1>3
<1>5. q \in 0 .. p /\ Stops(q)
  BY <1>3, <1>4
<1> HIDE DEF Stops, T
<1>6. (CHOOSE r \in 0 .. p : Stops(r)) \in 0 .. p
  BY <1>5
<1> QED
  BY <1>6 DEF BackOver, Stops

LEMMA ForwardOverTyped ==
  ASSUME line \in Line, NEW p \in 0 .. Len(line), NEW S
  PROVE  ForwardOver(p, S) \in p .. Len(line)
<1> DEFINE n == Len(line)
           Stops(q) == /\ \A i \in p + 1 .. q : line[i] \in S
                       /\ q = n \/ line[q + 1] \notin S
           T == {d \in Nat : p + d = n \/ (p + d < n /\ line[p + d + 1] \notin S)}
<1>1. n \in Nat /\ p \in Nat /\ p <= n
  BY LenProperties DEF Line
<1>2. T \subseteq Nat /\ n - p \in T
  BY <1>1
<1>3. PICK d \in T : \A e \in T : d <= e
  <2> HIDE DEF T
  <2> QED
    BY <1>2, LeastOf
<1>4. d \in Nat /\ p + d <= n /\ (p + d = n \/ line[p + d + 1] \notin S)
  <2> HIDE DEF n
  <2> QED
    BY <1>1, <1>3
<1>5. ASSUME NEW i \in p + 1 .. p + d PROVE line[i] \in S
  <2>1. i - 1 - p \in Nat /\ i - 1 - p < d /\ p + (i - 1 - p) + 1 = i /\ p + (i - 1 - p) < n
    BY <1>1, <1>4
  <2>2. i - 1 - p \notin T
    <3> DEFINE e == i - 1 - p
    <3>1. e \in Nat /\ ~ (d <= e)
      BY <1>4, <2>1
    <3> HIDE DEF e, T
    <3>2. e \notin T
      BY <1>3, <3>1
    <3> QED
      BY <3>2 DEF e
  <2> QED
    BY <2>1, <2>2
<1>6. p + d \in p .. n /\ Stops(p + d)
  BY <1>1, <1>4, <1>5
<1> HIDE DEF Stops, T
<1>7. (CHOOSE q \in p .. n : Stops(q)) \in p .. n
  BY <1>6
<1> QED
  BY <1>7 DEF ForwardOver, Stops

\* As many characters as there is room for.
LEMMA InsertCharsTyped ==
  ASSUME NEW s \in Line, NEW l \in Line, buffer_max \in Nat
  PROVE  /\ InsertChars(s, l) \in Line
         /\ Len(l) <= buffer_max => Len(l) + Len(InsertChars(s, l)) <= buffer_max
         /\ Len(l) + Len(s) <= buffer_max => InsertChars(s, l) = s
<1> DEFINE n == Len(s)
           m == Len(l)
           k == IF n <= Room(l) THEN n ELSE Room(l)
<1>1. n \in Nat /\ m \in Nat
  BY LenProperties DEF Line
<1>2. Room(l) = IF m < buffer_max THEN buffer_max - m ELSE 0
  BY DEF Room
<1> HIDE DEF n, m
<1>3. /\ k \in Nat /\ k <= n
      /\ m <= buffer_max => m + k <= buffer_max
      /\ m + n <= buffer_max => k = n
  BY <1>1, <1>2
<1> HIDE DEF k
<1>4. /\ SubSeq(s, 1, k) \in Line
      /\ Len(SubSeq(s, 1, k)) = k
  BY <1>1, <1>3, Cut DEF Line, n
<1>5. InsertChars(s, l) = SubSeq(s, 1, k)
  BY DEF InsertChars, k, n
<1>6. SubSeq(s, 1, n) = s
  BY SubSeqFull DEF n, Line
<1> QED
  BY <1>3, <1>4, <1>5, <1>6 DEF n, m

LEMMA InsertStringTyped ==
  ASSUME NEW s \in Line, NEW l \in Line, buffer_max \in Nat
  PROVE  /\ insert_string(s, l) \in Line
         /\ Len(l) <= buffer_max => Len(l) + Len(insert_string(s, l)) <= buffer_max
<1> DEFINE n == Len(s)
           m == Len(l)
           c == buffer_max - m
           k == IF c >= 0 THEN c ELSE n + c
<1>1. n \in Nat /\ m \in Nat
  BY LenProperties DEF Line
<1> HIDE DEF n, m
<1>2. CASE c < n
  <2>1. insert_string(s, l) = SubSeq(s, 1, k)
    BY <1>2 DEF insert_string, Slice, n, m
  <2>2. k \in Int /\ k <= n /\ (m <= buffer_max => k \in Nat /\ m + k = buffer_max)
    BY <1>1, <1>2
  <2> HIDE DEF k
  <2>3. SubSeq(s, 1, k) \in Line /\ Len(SubSeq(s, 1, k)) = IF 1 <= k THEN k - 1 + 1 ELSE 0
    <3>1. 1 \in Nat \ {0} /\ k \in Int /\ k <= Len(s)
      BY <2>2 DEF n
    <3> QED
      BY <3>1, Piece DEF Line
  <2>4. m <= buffer_max => m + Len(SubSeq(s, 1, k)) <= buffer_max
    BY <1>1, <2>2, <2>3
  <2> QED
    BY <2>1, <2>3, <2>4 DEF m
<1>3. CASE ~ (c < n)
  <2>1. insert_string(s, l) = s
    BY <1>3 DEF insert_string, n, m
  <2>2. m + n <= buffer_max
    BY <1>1, <1>3
  <2> QED
    BY <2>1, <2>2 DEF n, m
<1> QED
  BY <1>2, <1>3

-----------------------------------------------------------------------------
(* Types. *)

\* The line with its parts, as the actions put them together again.
LEMMA Parts ==
  ASSUME TypeOK
  PROVE  /\ line \in Line /\ pos \in 0 .. Len(line) /\ Len(line) \in Nat /\ pos \in Nat
         /\ \A p \in 0 .. Len(line) :
              /\ Before(p) \in Line /\ Len(Before(p)) = p
              /\ After(p) \in Line /\ Len(After(p)) = Len(line) - p
              /\ Before(p) \o After(p) = line
<1>1. line \in Line /\ pos \in 0 .. Len(line)
  BY DEF TypeOK, Placed, Here
<1>2. Len(line) \in Nat
  BY <1>1, LenProperties DEF Line
<1>3. pos \in Nat
  BY <1>1, <1>2
<1>4. ASSUME NEW p \in 0 .. Len(line)
      PROVE  /\ Before(p) \in Line /\ Len(Before(p)) = p
             /\ After(p) \in Line /\ Len(After(p)) = Len(line) - p
             /\ Before(p) \o After(p) = line
  BY <1>1, Cut DEF Before, After, Line
<1> QED
  BY <1>1, <1>2, <1>3, <1>4

\* Every word has a list of completions.
LEMMA WordsTyped ==
  ASSUME NEW w
  PROVE  /\ WordsOf(w) \in Seq(Line) /\ Len(WordsOf(w)) \in Nat
         /\ \A i \in 1 .. Len(WordsOf(w)) : WordsOf(w)[i] \in Line
<1>1. WordsOf(w) \in Seq(Line)
  BY ReadlineAssumption DEF WordsOf, Line
<1> QED
  BY <1>1, LenProperties

\* What an edited line leaves of the invariant to be shown.
LEMMA EditTyped ==
  ASSUME TypeOK, NEW l \in Line, NEW p \in 0 .. Len(l), Edit(l, p),
         history_index' \in 0 .. Len(history)
  PROVE  /\ reading' \in BOOLEAN /\ Placed(Here)' /\ buffer_max' \in Nat
         /\ history' \in Seq(Line) /\ history_index' \in 0 .. Len(history')
         /\ DOMAIN history_state' \subseteq 0 .. Len(history')
         /\ \A i \in DOMAIN history_state' : Placed(history_state'[i])
         /\ ctrl_o_index' \in {-1} \cup 1 .. Len(history') + 1
         /\ line' = l /\ pos' = p
<1>1. /\ reading' = reading /\ buffer_max' = buffer_max /\ history' = history
      /\ ctrl_o_index' = ctrl_o_index /\ line' = l /\ pos' = p
      /\ history_state' = [i \in {history_index'} \cup DOMAIN history_state |->
                            IF i = history_index' THEN <<l, p>> ELSE history_state[i]]
  BY DEF Edit
<1>2. /\ DOMAIN history_state' = {history_index'} \cup DOMAIN history_state
      /\ history_state'[history_index'] = <<l, p>>
      /\ \A i \in DOMAIN history_state : i # history_index' => history_state'[i] = history_state[i]
  BY <1>1
<1>3. Placed(<<l, p>>)
  BY DEF Placed
<1>4. /\ DOMAIN history_state' \subseteq 0 .. Len(history')
      /\ \A i \in DOMAIN history_state' : Placed(history_state'[i])
  BY <1>1, <1>2, <1>3 DEF TypeOK
<1> QED
  BY <1>1, <1>3, <1>4 DEF TypeOK, Here, Placed

\* A line that fits when the history does leaves all lines fitting.
LEMMA EditFits ==
  ASSUME TypeOK, ShownFit, NEW l \in Line, NEW p \in 0 .. Len(l), Edit(l, p),
         history_index' \in 0 .. Len(history),
         reading /\ HistoryFits => Len(l) <= buffer_max
  PROVE  ShownFit'
<1>1. /\ reading' = reading /\ buffer_max' = buffer_max /\ history' = history /\ line' = l
      /\ history_state' = [i \in {history_index'} \cup DOMAIN history_state |->
                            IF i = history_index' THEN <<l, p>> ELSE history_state[i]]
  BY DEF Edit
<1>2. /\ DOMAIN history_state' = {history_index'} \cup DOMAIN history_state
      /\ history_state'[history_index'] = <<l, p>>
      /\ \A i \in DOMAIN history_state : i # history_index' => history_state'[i] = history_state[i]
  BY <1>1
<1>3. HistoryFits' <=> HistoryFits
  BY <1>1 DEF HistoryFits
<1> QED
  BY <1>1, <1>2, <1>3 DEF ShownFit

\* What a plain edit, which ends yanks, kills and completions, has to show.
LEMMA EndAllKeeps ==
  ASSUME TypeOK, EndAll
  PROVE  /\ kill_accumulate' = FALSE /\ kill_ring' \in Seq(Line)
         /\ Placed(origin)' /\ last_yank_start' = -1
         /\ completer_state' = 0 /\ completer_state' \in 0 .. Len(WordsOf(saved_str'))
         /\ current_completion' \in Line /\ saved_str' \in Line
<1>1. <<>> \in Line /\ Len(<<>>) = 0
  BY DEF Line
<1>2. \A w : Len(WordsOf(w)) \in Nat
  BY WordsTyped
<1>3. Placed(Nowhere)
  BY <1>1 DEF Placed, Nowhere
<1>4. Placed(origin)'
  BY <1>3 DEF EndAll, Placed
<1> QED
  BY <1>1, <1>2, <1>4 DEF EndAll, EndYank, EndKills, EndCompletion, TypeOK

LEMMA PlainEditStep ==
  ASSUME LineInv, NEW l \in Line, NEW p \in 0 .. Len(l), Edit(l, p), EndAll,
         history_index' \in 0 .. Len(history),
         reading /\ HistoryFits => Len(l) <= buffer_max
  PROVE  LineInv'
<1>1. TypeOK /\ ShownFit
  BY DEF LineInv
<1>2. ShownFit'
  BY <1>1, EditFits
<1>3. /\ reading' \in BOOLEAN /\ Placed(Here)' /\ buffer_max' \in Nat
      /\ history' \in Seq(Line) /\ history_index' \in 0 .. Len(history')
      /\ DOMAIN history_state' \subseteq 0 .. Len(history')
      /\ \A i \in DOMAIN history_state' : Placed(history_state'[i])
      /\ ctrl_o_index' \in {-1} \cup 1 .. Len(history') + 1
      /\ line' = l /\ pos' = p
  BY <1>1, EditTyped
<1>4. /\ kill_accumulate' = FALSE /\ kill_ring' \in Seq(Line)
      /\ Placed(origin)' /\ last_yank_start' = -1
      /\ completer_state' = 0 /\ completer_state' \in 0 .. Len(WordsOf(saved_str'))
      /\ current_completion' \in Line /\ saved_str' \in Line
  BY <1>1, EndAllKeeps
<1>5. last_yank_start' \in -1 .. pos'
  <2>1. Len(l) \in Nat
    BY LenProperties DEF Line
  <2> QED
    BY <1>3, <1>4, <2>1
<1>6. TypeOK'
  BY <1>3, <1>4, <1>5 DEF TypeOK, WordsOf
<1> QED
  BY <1>2, <1>4, <1>6 DEF LineInv, KillsUndone, YankUndone, Completed

-----------------------------------------------------------------------------
(* The keys that move, delete and insert, and the history. *)

LEMMA PlainStep ==
  ASSUME LineInv, NEW l \in Line, NEW p \in 0 .. Len(l), PlainEdit(l, p),
         Len(line) <= buffer_max => Len(l) <= buffer_max
  PROVE  LineInv'
<1>1. history_index' \in 0 .. Len(history)
  BY DEF LineInv, TypeOK, PlainEdit
<1>2. reading /\ HistoryFits => Len(l) <= buffer_max
  BY DEF LineInv, ShownFit
<1> QED
  BY <1>1, <1>2, PlainEditStep DEF PlainEdit

LEMMA CursorStep ==
  ASSUME LineInv, Home \/ End \/ Left \/ Right \/ WordLeft \/ WordRight \/ OtherKey \/ YankNothing
  PROVE  LineInv'
<1>1. line \in Line /\ pos \in 0 .. Len(line) /\ Len(line) \in Nat /\ pos \in Nat
  BY Parts DEF LineInv
<1>2. \A p \in 0 .. Len(line) : PlainEdit(line, p) => LineInv'
  BY <1>1, PlainStep
<1>3. CASE Home \/ End \/ Left \/ Right \/ OtherKey \/ YankNothing
  <2>1. /\ 0 \in 0 .. Len(line) /\ Len(line) \in 0 .. Len(line) /\ pos \in 0 .. Len(line)
        /\ pos # 0 => pos - 1 \in 0 .. Len(line)
        /\ pos # Len(line) => pos + 1 \in 0 .. Len(line)
    BY <1>1
  <2> QED
    BY <1>2, <1>3, <2>1 DEF Home, End, Left, Right, OtherKey, YankNothing
<1>4. CASE WordLeft
  <2> DEFINE p == BackOver(pos, Char \ Alnum)
             q == BackOver(p, Alnum)
  <2>1. p \in 0 .. pos
    BY <1>1, BackOverTyped
  <2>2. PlainEdit(line, q)
    BY <1>4 DEF WordLeft
  <2>3. p \in 0 .. Len(line)
    <3> HIDE DEF p
    <3> QED
      BY <1>1, <2>1
  <2>4. q \in 0 .. p
    <3> HIDE DEF p
    <3> QED
      BY <1>1, <2>3, BackOverTyped
  <2> HIDE DEF p, q
  <2>5. q \in 0 .. Len(line)
    BY <1>1, <2>3, <2>4
  <2> QED
    BY <1>2, <2>2, <2>5
<1>5. CASE WordRight
  <2> DEFINE p == ForwardOver(pos, Char \ Alnum)
             q == ForwardOver(p, Alnum)
  <2>1. p \in pos .. Len(line)
    BY <1>1, ForwardOverTyped
  <2>2. PlainEdit(line, q)
    BY <1>5 DEF WordRight
  <2>3. p \in 0 .. Len(line)
    <3> HIDE DEF p
    <3> QED
      BY <1>1, <2>1
  <2>4. q \in p .. Len(line)
    <3> HIDE DEF p
    <3> QED
      BY <1>1, <2>3, ForwardOverTyped
  <2> HIDE DEF p, q
  <2>5. q \in 0 .. Len(line)
    BY <1>1, <2>3, <2>4
  <2> QED
    BY <1>2, <2>2, <2>5
<1> QED
  BY <1>3, <1>4, <1>5

\* Two parts of the line, put together, are no longer than the line.
LEMMA Shorter ==
  ASSUME TypeOK, NEW p \in 0 .. Len(line), NEW q \in p .. Len(line)
  PROVE  /\ Before(p) \o After(q) \in Line
         /\ Len(Before(p) \o After(q)) = Len(line) - (q - p)
         /\ p \in 0 .. Len(Before(p) \o After(q))
<1> DEFINE n == Len(line)
<1>1. n \in Nat
  BY Parts
<1>2. p \in 0 .. n /\ q \in 0 .. n /\ p <= q
  <2> HIDE DEF n
  <2> QED
    BY <1>1 DEF n
<1>3. /\ Before(p) \in Line /\ Len(Before(p)) = p
      /\ After(q) \in Line /\ Len(After(q)) = n - q
  BY <1>2, Parts
<1>4. Before(p) \o After(q) \in Line /\ Len(Before(p) \o After(q)) = p + (n - q)
  <2> DEFINE b == Before(p)
             a == After(q)
  <2>1. b \in Seq(Char) /\ a \in Seq(Char) /\ Len(b) = p /\ Len(a) = n - q
    BY <1>3 DEF Line
  <2> HIDE DEF a, b, n
  <2>2. b \o a \in Seq(Char) /\ Len(b \o a) = Len(b) + Len(a)
    BY <2>1, Rejoined
  <2> QED
    BY <2>1, <2>2 DEF a, b, Line
<1> HIDE DEF n
<1>5. p + (n - q) = n - (q - p) /\ p \in 0 .. p + (n - q)
  BY <1>1, <1>2
<1> QED
  BY <1>4, <1>5 DEF n

LEMMA DeleteStep ==
  ASSUME LineInv, Delete \/ Backspace
  PROVE  LineInv'
<1>1. TypeOK /\ line \in Line /\ pos \in 0 .. Len(line) /\ Len(line) \in Nat /\ pos \in Nat
  BY Parts DEF LineInv
<1>2. ASSUME NEW p \in 0 .. Len(line), NEW q \in p .. Len(line), PlainEdit(Before(p) \o After(q), p)
      PROVE  LineInv'
  <2> DEFINE l == Before(p) \o After(q)
  <2>1. l \in Line /\ Len(l) = Len(line) - (q - p) /\ p \in 0 .. Len(l)
    BY <1>1, <1>2, Shorter
  <2>2. Len(l) <= Len(line) /\ Len(l) \in Int
    <3> HIDE DEF l
    <3> QED
      BY <1>1, <1>2, <2>1
  <2>3. buffer_max \in Nat
    BY <1>1 DEF TypeOK
  <2>4. Len(line) <= buffer_max => Len(l) <= buffer_max
    <3> HIDE DEF l
    <3> QED
      BY <1>1, <2>2, <2>3
  <2>5. PlainEdit(l, p)
    BY <1>2
  <2> HIDE DEF l
  <2> QED
    BY <2>1, <2>4, <2>5, PlainStep
<1>3. CASE Delete
  <2>1. PlainEdit(Before(pos) \o After(pos + 1), pos)
    BY <1>3 DEF Delete
  <2>2. CASE pos = Len(line)
    <3>1. After(pos + 1) = <<>> /\ After(pos) = <<>>
      BY <1>1, <2>2, SubSeqEmpty DEF After
    <3>2. pos \in pos .. Len(line)
      BY <1>1
    <3> QED
      BY <1>1, <1>2, <2>1, <3>1, <3>2
  <2>3. CASE pos # Len(line)
    <3>1. pos + 1 \in pos .. Len(line)
      BY <1>1, <2>3
    <3> QED
      BY <1>1, <1>2, <2>1, <3>1
  <2> QED
    BY <2>2, <2>3
<1>4. CASE Backspace
  <2>1. pos - 1 \in 0 .. Len(line) /\ pos \in (pos - 1) .. Len(line)
    BY <1>1, <1>4 DEF Backspace
  <2> QED
    BY <1>2, <1>4, <2>1 DEF Backspace
<1> QED
  BY <1>3, <1>4

\* Text between the parts of the line.
LEMMA Between ==
  ASSUME NEW l \in Line, NEW s \in Line, NEW r \in Line
  PROVE  /\ l \o s \o r \in Line /\ Len(l \o s \o r) = Len(l) + Len(s) + Len(r)
         /\ Len(l) \in Nat /\ Len(s) \in Nat /\ Len(r) \in Nat
         /\ Len(l) + Len(s) \in 0 .. Len(l \o s \o r)
         /\ l \o r \in Line /\ Len(l \o r) = Len(l) + Len(r)
         /\ SubSeq(l \o s \o r, 1, Len(l)) = l
         /\ SubSeq(l \o s \o r, Len(l) + Len(s) + 1, Len(l \o s \o r)) = r
         /\ SubSeq(l \o s \o r, Len(l) + 1, Len(l) + Len(s)) = s
<1> DEFINE m == Len(l)
           k == Len(s)
           n == Len(r)
           t == l \o s
           u == s \o r
<1>1. /\ t \in Line /\ Len(t) = m + k /\ m \in Nat /\ k \in Nat
      /\ SubSeq(t, 1, m) = l /\ SubSeq(t, m + 1, Len(t)) = s
  BY Rejoined DEF Line
<1>2. u \in Line /\ n \in Nat
  BY Rejoined DEF Line
<1>3. l \o r \in Line /\ Len(l \o r) = m + n
  BY Rejoined DEF Line
<1>4. l \o s \o r = l \o u
  BY ConcatAssociative DEF Line
<1>5. t \o r = l \o s \o r
  OBVIOUS
<1> DEFINE w == l \o s \o r
<1> HIDE DEF m, k, n, t, u
<1>6. w \in Line /\ Len(w) = (m + k) + n /\ SubSeq(w, (m + k) + 1, Len(w)) = r
  <2>1. w = t \o r
    BY <1>5
  <2>2. /\ t \o r \in Line /\ Len(t \o r) = Len(t) + n
        /\ SubSeq(t \o r, Len(t) + 1, Len(t \o r)) = r
    <3>1. t \in Seq(Char) /\ r \in Seq(Char)
      BY <1>1 DEF Line
    <3>2. /\ t \o r \in Seq(Char) /\ Len(t \o r) = Len(t) + Len(r)
          /\ SubSeq(t \o r, Len(t) + 1, Len(t \o r)) = r
      BY <3>1, Rejoined
    <3>3. Seq(Char) = Line /\ n = Len(r)
      BY DEF Line, n
    <3> HIDE DEF w
    <3> QED
      BY <3>2, <3>3, Zenon
  <2>3. Len(t) = m + k
    BY <1>1
  <2> HIDE DEF w
  <2> QED
    BY <2>1, <2>2, <2>3, Zenon
<1>7. SubSeq(w, 1, m) = l
  <2>1. w = l \o u
    BY <1>4
  <2> HIDE DEF w
  <2> QED
    BY <1>2, <2>1, Rejoined DEF Line, m
<1> HIDE DEF w
<1>8. m + k \in 0 .. Len(w)
  BY <1>1, <1>2, <1>6
<1>9. SubSeq(w, m + 1, m + k) = s
  <2>1. /\ m + 1 \in Nat \ {0} /\ m + k \in Int /\ m + k <= Len(w)
        /\ 1 + m <= Len(w) + 1
    BY <1>1, <1>6, <1>8
  <2>2. w = t \o r
    BY <1>5 DEF w
  <2>3. CASE k = 0
    <3>1. s = <<>>
      BY <2>3, EmptySeq DEF k, Line
    <3>2. SubSeq(w, m + 1, m + k) = <<>>
      BY <1>1, <2>3, SubSeqEmpty
    <3> QED
      BY <3>1, <3>2
  <2>4. CASE k # 0
    <3>1. m + 1 \in 1 .. Len(t) /\ m + k \in 1 .. Len(t) /\ Len(t) = m + k
      BY <1>1, <2>4
    <3>2. SubSeq(t \o r, m + 1, m + k) = SubSeq(t, m + 1, m + k)
      BY <1>1, <3>1, SubSeqOfConcat1 DEF Line
    <3> QED
      BY <1>1, <2>2, <3>1, <3>2
  <2> QED
    BY <2>3, <2>4
<1> QED
  BY <1>1, <1>2, <1>3, <1>6, <1>7, <1>8, <1>9 DEF w, m, k, n

LEMMA Associative == \A s, t, u \in Seq(Char) : (s \o t) \o u = s \o (t \o u)
BY ConcatAssociative

LEMMA HeadOf == \A l, s, r \in Line : SubSeq(l \o s \o r, 1, Len(l)) = l
<1> TAKE l \in Line, s \in Line, r \in Line
<1> DEFINE u == s \o r
<1>1. u \in Line
  BY Rejoined DEF Line
<1>2. l \o s \o r = l \o u
  BY Associative, Zenon DEF Line
<1> HIDE DEF u
<1>3. SubSeq(l \o u, 1, Len(l)) = l
  BY <1>1, Rejoined DEF Line
<1> QED
  BY <1>2, <1>3, Zenon

LEMMA MiddleOf ==
  \A l, s, r \in Line : SubSeq(l \o s \o r, Len(l) + 1, Len(l) + Len(s)) = s
BY Between, ZenonT(30)

LEMMA TailOf ==
  \A l, s, r \in Line : SubSeq(l \o s \o r, Len(l) + Len(s) + 1, Len(l \o s \o r)) = r
<1> TAKE l \in Line, s \in Line, r \in Line
<1> DEFINE t == l \o s
<1>1. t \in Line /\ Len(t) = Len(l) + Len(s)
  BY Rejoined DEF Line
<1>2. l \o s \o r = t \o r
  OBVIOUS
<1> HIDE DEF t
<1>3. SubSeq(t \o r, Len(t) + 1, Len(t \o r)) = r
  BY <1>1, Rejoined DEF Line
<1> QED
  BY <1>1, <1>2, <1>3, Zenon

LEMMA InsertCharStep ==
  ASSUME LineInv, NEW c \in Char, insert_char(c)
  PROVE  LineInv'
<1> DEFINE s == InsertChars(<<c>>, line)
           b == Before(pos)
           a == After(pos)
           l == b \o s \o a
<1>1. /\ TypeOK /\ line \in Line /\ pos \in 0 .. Len(line) /\ Len(line) \in Nat
      /\ b \in Line /\ Len(b) = pos /\ a \in Line /\ Len(a) = Len(line) - pos
  BY Parts DEF LineInv
<1>2. buffer_max \in Nat
  BY <1>1 DEF TypeOK
<1>3. s \in Line /\ (Len(line) <= buffer_max => Len(line) + Len(s) <= buffer_max)
  <2>1. <<c>> \in Line
    BY DEF Line
  <2> QED
    BY <1>1, <1>2, <2>1, InsertCharsTyped
<1>4. PlainEdit(l, Len(b) + Len(s))
  BY <1>1 DEF insert_char
<1> HIDE DEF s, a, b
<1>5. /\ l \in Line /\ Len(l) = Len(b) + Len(s) + Len(a) /\ Len(b) + Len(s) \in 0 .. Len(l)
      /\ Len(s) \in Nat
  BY <1>1, <1>3, Between
<1> HIDE DEF l
<1>6. Len(line) <= buffer_max => Len(l) <= buffer_max
  BY <1>1, <1>3, <1>5
<1> QED
  BY <1>4, <1>5, <1>6, PlainStep

\* The lines of the history are lines, with their cursors at the end.
LEMMA RecalledTyped ==
  ASSUME TypeOK, NEW i \in 0 .. Len(history), i # Len(history)
  PROVE  /\ Placed(Recalled(i))
         /\ \A max \in Nat : (\A j \in DOMAIN history : Len(history[j]) <= max)
                               => Len(Recalled(i)[1]) <= max
<1>1. history \in Seq(Line) /\ Len(history) \in Nat /\ DOMAIN history = 1 .. Len(history)
  BY LenProperties DEF TypeOK
<1>2. i + 1 \in 1 .. Len(history)
  <2> DEFINE n == Len(history)
  <2>1. n \in Nat /\ i \in 0 .. n /\ i # n
    BY <1>1
  <2> HIDE DEF n
  <2>2. i + 1 \in 1 .. n
    BY <2>1
  <2> QED
    BY <2>2 DEF n
<1>3. history[i + 1] \in Line
  BY <1>1, <1>2, ElementOfSeq
<1>4. Len(history[i + 1]) \in Nat
  BY <1>3, LenProperties DEF Line
<1>5. Recalled(i)[1] = history[i + 1] /\ Recalled(i)[2] = Len(history[i + 1])
  BY DEF Recalled
<1>6. Len(history[i + 1]) \in 0 .. Len(history[i + 1])
  BY <1>4
<1>7. Placed(Recalled(i))
  BY <1>3, <1>5, <1>6 DEF Placed
<1> QED
  BY <1>1, <1>2, <1>5, <1>7

LEMMA NowhereTyped == Placed(Nowhere) /\ Len(Nowhere[1]) = 0
BY DEF Placed, Nowhere, Line

LEMMA ShowHistoryStep ==
  ASSUME LineInv, Down \/ Up
  PROVE  LineInv'
<1>1. TypeOK /\ ShownFit /\ Len(history) \in Nat /\ history_index \in 0 .. Len(history)
      /\ buffer_max \in Nat
  BY LenProperties DEF LineInv, TypeOK
<1>2. PICK i \in 0 .. Len(history) : ShowHistory(i)
  <2>1. CASE Down
    <3>1. history_index + 1 \in 0 .. Len(history)
      BY <1>1, <2>1 DEF Down
    <3> QED
      BY <2>1, <3>1 DEF Down
  <2>2. CASE Up
    <3>1. history_index - 1 \in 0 .. Len(history)
      BY <1>1, <2>2 DEF Up
    <3> QED
      BY <2>2, <3>1 DEF Up
  <2> QED
    BY <2>1, <2>2
<1> DEFINE shown == IF i \in DOMAIN history_state THEN history_state[i]
                    ELSE IF i = Len(history) THEN Nowhere ELSE Recalled(i)
<1>3. Edit(shown[1], shown[2]) /\ EndAll /\ history_index' = i
  BY <1>2 DEF ShowHistory
<1>4. Placed(shown) /\ (reading /\ HistoryFits => Len(shown[1]) <= buffer_max)
  <2>1. CASE i \in DOMAIN history_state
    BY <1>1, <2>1 DEF TypeOK, ShownFit
  <2>2. CASE i \notin DOMAIN history_state /\ i = Len(history)
    BY <1>1, <2>2, NowhereTyped
  <2>3. CASE i \notin DOMAIN history_state /\ i # Len(history)
    BY <1>1, <2>3, RecalledTyped DEF HistoryFits
  <2> QED
    BY <2>1, <2>2, <2>3
<1> HIDE DEF shown
<1> QED
  BY <1>3, <1>4, PlainEditStep DEF Placed

LEMMA ReadlineStep ==
  ASSUME LineInv, NEW max \in Widths, _readline(max)
  PROVE  LineInv'
<1> DEFINE resumes == ctrl_o_index # -1 /\ ctrl_o_index < Len(history)
           index == IF resumes THEN ctrl_o_index ELSE Len(history)
           start == IF resumes THEN Recalled(index) ELSE Nowhere
<1>1. /\ TypeOK /\ Len(history) \in Nat /\ history \in Seq(Line) /\ max \in Nat
      /\ ctrl_o_index \in {-1} \cup 1 .. Len(history) + 1
  BY LenProperties, ReadlineAssumption DEF LineInv, TypeOK
<1>2. /\ reading' = TRUE /\ buffer_max' = max /\ line' = start[1] /\ pos' = start[2]
      /\ history_index' = index /\ history_state' = [i \in {index} |-> start]
      /\ ctrl_o_index' = -1 /\ kill_accumulate' = FALSE /\ last_yank_start' = -1
      /\ completer_state' = 0
      /\ UNCHANGED <<history, kill_ring, current_completion, saved_str, origin>>
  BY DEF _readline
<1>3. index \in 0 .. Len(history) /\ (resumes => index # Len(history))
  BY <1>1
<1>4. Placed(start) /\ ((\A j \in DOMAIN history : Len(history[j]) <= max)
                          => Len(start[1]) <= max)
  <2>1. CASE resumes
    <3>1. start = Recalled(index)
      BY <2>1
    <3> HIDE DEF start, index
    <3> QED
      BY <1>1, <1>3, <2>1, <3>1, RecalledTyped
  <2>2. CASE ~ resumes
    <3>1. start = Nowhere
      BY <2>2
    <3> HIDE DEF start
    <3> QED
      BY <1>1, <3>1, NowhereTyped
  <2> QED
    BY <2>1, <2>2
<1> HIDE DEF resumes, index, start
<1>5. pos' \in 0 .. Len(line') /\ line' \in Line
  BY <1>2, <1>4 DEF Placed
<1>6. last_yank_start' \in -1 .. pos'
  <2>1. Len(line') \in Nat
    BY <1>5, LenProperties DEF Line
  <2> QED
    BY <1>2, <1>5, <2>1
<1>7. completer_state' \in 0 .. Len(WordsOf(saved_str'))
  <2>1. Len(WordsOf(saved_str')) \in Nat
    BY WordsTyped
  <2> QED
    BY <1>2, <2>1
<1>8. TypeOK'
  BY <1>1, <1>2, <1>3, <1>4, <1>5, <1>6, <1>7 DEF TypeOK, Placed, Here, WordsOf
<1>9. ShownFit'
  BY <1>2, <1>4 DEF ShownFit, HistoryFits
<1> QED
  BY <1>2, <1>8, <1>9 DEF LineInv, KillsUndone, YankUndone, Completed

LEMMA ReturnStep ==
  ASSUME LineInv, Enter \/ OperateAndGetNext \/ Eof
  PROVE  LineInv'
<1>1. /\ TypeOK /\ Len(history) \in Nat /\ history \in Seq(Line) /\ line \in Line
      /\ history_index \in 0 .. Len(history)
      /\ ctrl_o_index \in {-1} \cup 1 .. Len(history) + 1
  BY Parts, LenProperties DEF LineInv, TypeOK
<1>2. Return
  BY DEF Enter, OperateAndGetNext, Eof, Accept
<1>3. /\ history' \in Seq(Line) /\ Len(history') \in Nat /\ Len(history) <= Len(history')
      /\ ctrl_o_index' \in {-1} \cup 1 .. Len(history) + 1
  <2>1. Append(history, line) \in Seq(Line) /\ Len(Append(history, line)) = Len(history) + 1
    BY <1>1, AppendProperties
  <2>2. history' = history \/ history' = Append(history, line)
    BY DEF Enter, OperateAndGetNext, Eof, Accept
  <2>3. ctrl_o_index' \in {-1, history_index + 1, ctrl_o_index}
    BY DEF Enter, OperateAndGetNext, Eof, Accept
  <2>4. history_index + 1 \in 1 .. Len(history) + 1
    BY <1>1
  <2>5. Len(history) <= Len(history) + 1 /\ Len(history) + 1 \in Nat /\ Len(history) <= Len(history)
    BY <1>1
  <2> QED
    BY <1>1, <2>1, <2>2, <2>3, <2>4, <2>5
<1>4. ctrl_o_index' \in {-1} \cup 1 .. Len(history') + 1
  BY <1>1, <1>3
<1>5. /\ reading' = FALSE /\ line' = <<>> /\ pos' = 0 /\ history_index' = 0
      /\ history_state' = <<>> /\ EndAll /\ buffer_max' = buffer_max
  BY <1>2 DEF Return
<1>6. /\ kill_accumulate' = FALSE /\ kill_ring' \in Seq(Line)
      /\ Placed(origin)' /\ last_yank_start' = -1
      /\ completer_state' = 0 /\ completer_state' \in 0 .. Len(WordsOf(saved_str'))
      /\ current_completion' \in Line /\ saved_str' \in Line
  BY <1>1, <1>5, EndAllKeeps
<1>7. Placed(Here)'
  BY <1>5 DEF Placed, Here, Line
<1>8. DOMAIN history_state' = {}
  BY <1>5
<1>9. history_index' \in 0 .. Len(history') /\ last_yank_start' \in -1 .. pos'
  BY <1>3, <1>5, <1>6
<1>10. TypeOK'
  BY <1>1, <1>3, <1>4, <1>5, <1>6, <1>7, <1>8, <1>9 DEF TypeOK, WordsOf
<1> QED
  BY <1>5, <1>6, <1>10 DEF LineInv, KillsUndone, YankUndone, Completed, ShownFit

-----------------------------------------------------------------------------
(* Kills. *)

LEMMA FrontLast ==
  ASSUME NEW S, NEW q \in Seq(S), q # <<>>
  PROVE  Front(q) \in Seq(S) /\ Last(q) \in S
<1> DEFINE n == Len(q)
<1>1. n \in Nat \ {0}
  BY EmptySeq
<1> HIDE DEF n
<1>2. n - 1 \in Int /\ n - 1 <= n /\ n \in 1 .. n
  BY <1>1
<1>3. SubSeq(q, 1, n - 1) \in Seq(S)
  BY <1>1, <1>2, Piece DEF n
<1>4. q[n] \in S
  BY <1>2, ElementOfSeq DEF n
<1> QED
  BY <1>3, <1>4 DEF Front, Last, n

LEMMA LastAppended ==
  ASSUME NEW S, NEW q \in Seq(S), NEW e \in S
  PROVE  /\ Append(q, e) \in Seq(S) /\ Append(q, e) # <<>> /\ Last(Append(q, e)) = e
<1>1. /\ Append(q, e) \in Seq(S) /\ Append(q, e) # <<>>
      /\ Len(Append(q, e)) = Len(q) + 1 /\ Append(q, e)[Len(q) + 1] = e
  BY AppendProperties
<1> QED
  BY <1>1 DEF Last

LEMMA KillStep ==
  ASSUME LineInv, NEW from \in 0 .. Len(line), NEW to \in from .. Len(line),
         NEW to_right \in BOOLEAN, Kill(from, to, to_right),
         IF to_right THEN from = pos ELSE to = pos
  PROVE  LineInv'
<1> DEFINE b == Before(from)
           a == After(to)
           s == SubSeq(line, from + 1, to)
           l == b \o a
           L == Last(kill_ring)
           k == IF kill_accumulate THEN IF to_right THEN L \o s ELSE s \o L ELSE s
<1>1. /\ TypeOK /\ ShownFit /\ KillsUndone /\ kill_ring \in Seq(Line)
      /\ line \in Line /\ pos \in 0 .. Len(line) /\ Len(line) \in Nat /\ buffer_max \in Nat
  BY Parts DEF LineInv, TypeOK
<1>2. /\ UNCHANGED history_index /\ Edit(l, from) /\ add_to_kill_ring(s, to_right)
      /\ origin' = (IF kill_accumulate THEN origin ELSE Here)
      /\ EndYank /\ EndCompletion
  BY DEF Kill
<1>3. from \in Nat /\ to \in Nat /\ from <= to /\ to \in 0 .. Len(line)
  <2> DEFINE n == Len(line)
  <2>1. n \in Nat
    BY <1>1
  <2> HIDE DEF n
  <2>2. from \in 0 .. n /\ to \in from .. n
    BY DEF n
  <2>3. from \in Nat /\ to \in Nat /\ from <= to /\ to \in 0 .. n
    BY <2>1, <2>2
  <2> QED
    BY <2>3 DEF n
<1>4. /\ b \in Line /\ Len(b) = from /\ a \in Line /\ After(from) \in Line /\ Before(to) \in Line
      /\ b \o After(from) = line /\ Before(to) \o a = line
  BY <1>1, <1>3, Parts
<1>5. s \in Line /\ b \o s = Before(to) /\ s \o a = After(from)
  BY <1>1, Middle DEF Line, Before, After
<1>6. l \in Line /\ Len(l) = Len(line) - (to - from) /\ from \in 0 .. Len(l)
  BY <1>1, Shorter
<1>7. SubSeq(l, 1, from) = b /\ SubSeq(l, from + 1, Len(l)) = a
  <2>1. SubSeq(l, 1, Len(b)) = b /\ SubSeq(l, Len(b) + 1, Len(l)) = a
    BY <1>4, Rejoined DEF Line
  <2> HIDE DEF a, b, l
  <2> QED
    BY <1>4, <2>1
<1>8. kill_accumulate => L \in Line /\ Front(kill_ring) \in Seq(Line)
  BY <1>1, FrontLast DEF TypeOK
<1>9. k \in Line
  <2> HIDE DEF L, s
  <2>1. kill_accumulate => L \o s \in Line /\ s \o L \in Line
    BY <1>5, <1>8, Rejoined DEF Line
  <2> QED
    BY <1>5, <2>1
<1>10. /\ kill_ring' \in Seq(Line) /\ kill_ring' # <<>> /\ Last(kill_ring') = k
       /\ kill_accumulate' = TRUE
  <2>1. CASE kill_accumulate
    <3>1. kill_ring' = Append(Front(kill_ring), k) /\ kill_accumulate' = TRUE
      BY <1>2, <2>1 DEF add_to_kill_ring
    <3> HIDE DEF k
    <3> QED
      BY <1>8, <1>9, <2>1, <3>1, LastAppended
  <2>2. CASE ~ kill_accumulate
    <3>1. kill_ring' = Append(kill_ring, k) /\ kill_accumulate' = TRUE
      BY <1>2, <2>2 DEF add_to_kill_ring
    <3> HIDE DEF k
    <3> QED
      BY <1>1, <1>9, <3>1, LastAppended
  <2> QED
    BY <2>1, <2>2
<1>11. (b \o k) \o a = origin'[1]
  <2>1. CASE ~ kill_accumulate
    <3>1. k = s /\ origin'[1] = line
      BY <1>2, <2>1 DEF Here
    <3> HIDE DEF k, a, b, s
    <3> QED
      BY <1>4, <1>5, <3>1
  <2>2. CASE kill_accumulate
    <3>1. /\ (Before(pos) \o L) \o After(pos) = origin[1]
          /\ origin'[1] = origin[1] /\ L \in Line
      BY <1>1, <1>2, <1>8, <2>2 DEF KillsUndone
    <3>2. CASE to_right
      <4>1. k = L \o s /\ from = pos
        BY <2>2, <3>2
      <4>2. (b \o L) \o After(from) = origin[1]
        BY <3>1, <4>1
      <4> HIDE DEF k, a, b, s, L
      <4>3. (b \o (L \o s)) \o a = (b \o L) \o (s \o a)
        <5>1. /\ b \in Seq(Char) /\ L \in Seq(Char) /\ s \in Seq(Char) /\ a \in Seq(Char)
              /\ b \o L \in Seq(Char)
          BY <1>4, <1>5, <3>1, Rejoined DEF Line
        <5>2. (b \o L) \o s = b \o (L \o s)
          BY <5>1, Associative, Zenon
        <5>3. ((b \o L) \o s) \o a = (b \o L) \o (s \o a)
          BY <5>1, Associative, Zenon
        <5> QED
          BY <5>2, <5>3, Zenon
      <4> QED
        BY <1>5, <3>1, <4>1, <4>2, <4>3
    <3>3. CASE ~ to_right
      <4>1. k = s \o L /\ to = pos
        BY <2>2, <3>3
      <4>2. (Before(to) \o L) \o a = origin[1]
        BY <3>1, <4>1
      <4> HIDE DEF k, a, b, s, L
      <4>3. b \o (s \o L) = (b \o s) \o L
        <5>1. b \in Seq(Char) /\ L \in Seq(Char) /\ s \in Seq(Char)
          BY <1>4, <1>5, <3>1 DEF Line
        <5> QED
          BY <5>1, Associative, Zenon
      <4> QED
        BY <1>5, <3>1, <4>1, <4>2, <4>3
    <3> QED
      BY <3>2, <3>3
  <2> QED
    BY <2>1, <2>2
<1> HIDE DEF k, L, s, a, b, l
<1>12. /\ reading' \in BOOLEAN /\ Placed(Here)' /\ buffer_max' \in Nat
       /\ history' \in Seq(Line) /\ history_index' \in 0 .. Len(history')
       /\ DOMAIN history_state' \subseteq 0 .. Len(history')
       /\ \A i \in DOMAIN history_state' : Placed(history_state'[i])
       /\ ctrl_o_index' \in {-1} \cup 1 .. Len(history') + 1
       /\ line' = l /\ pos' = from
  <2>1. history_index' \in 0 .. Len(history)
    BY <1>1, <1>2 DEF TypeOK
  <2> QED
    BY <1>1, <1>2, <1>6, <2>1, EditTyped
<1>13. /\ last_yank_start' = -1 /\ completer_state' = 0
       /\ current_completion' = <<>> /\ saved_str' = <<>>
  BY <1>2 DEF EndYank, EndCompletion
<1>14. Placed(origin)'
  BY <1>1, <1>2 DEF TypeOK, Placed, Here
<1>15. TypeOK'
  <2>1. last_yank_start' \in -1 .. pos'
    BY <1>3, <1>12, <1>13
  <2>2. completer_state' \in 0 .. Len(WordsOf(saved_str')) /\ <<>> \in Line
    <3>1. Len(WordsOf(saved_str')) \in Nat
      BY WordsTyped
    <3> QED
      BY <1>13, <3>1 DEF Line
  <2> QED
    BY <1>10, <1>12, <1>13, <1>14, <2>1, <2>2 DEF TypeOK, WordsOf
<1>16. ShownFit'
  <2>1. history_index' \in 0 .. Len(history)
    BY <1>1, <1>2 DEF TypeOK
  <2>2. reading /\ HistoryFits => Len(l) <= buffer_max
    <3> DEFINE n == Len(line)
               m == Len(l)
    <3>1. n \in Nat /\ m = n - (to - from) /\ (reading /\ HistoryFits => n <= buffer_max)
      BY <1>1, <1>6 DEF ShownFit
    <3> HIDE DEF n, m
    <3>2. reading /\ HistoryFits => m <= buffer_max
      BY <1>1, <1>3, <3>1
    <3> QED
      BY <3>2 DEF m
  <2> QED
    BY <1>1, <1>2, <1>6, <2>1, <2>2, EditFits
<1>17. KillsUndone'
  <2>1. (Before(pos) \o Last(kill_ring) \o After(pos))' = origin'[1]
    BY <1>7, <1>10, <1>11, <1>12 DEF Before, After
  <2> QED
    BY <2>1 DEF KillsUndone
<1> QED
  BY <1>13, <1>15, <1>16, <1>17 DEF LineInv, YankUndone, Completed

LEMMA KillsStep ==
  ASSUME LineInv, KillToEnd \/ KillToStart \/ KillWord
  PROVE  LineInv'
<1>1. line \in Line /\ pos \in 0 .. Len(line) /\ Len(line) \in Nat /\ pos \in Nat
  BY Parts DEF LineInv
<1>2. CASE KillToEnd
  <2>1. Len(line) \in pos .. Len(line)
    BY <1>1
  <2> QED
    BY <1>1, <1>2, <2>1, KillStep DEF KillToEnd
<1>3. CASE KillToStart
  <2>1. 0 \in 0 .. Len(line) /\ pos \in 0 .. Len(line)
    BY <1>1
  <2> QED
    BY <1>3, <2>1, KillStep DEF KillToStart
<1>4. CASE KillWord
  <2> DEFINE p == BackOver(pos, {Space})
             q == BackOver(p, Char \ {Space})
  <2>1. p \in 0 .. pos
    BY <1>1, BackOverTyped
  <2>2. Kill(q, pos, FALSE)
    BY <1>4 DEF KillWord
  <2>3. p \in 0 .. Len(line)
    <3> HIDE DEF p
    <3> QED
      BY <1>1, <2>1
  <2>4. q \in 0 .. p
    <3> HIDE DEF p
    <3> QED
      BY <1>1, <2>3, BackOverTyped
  <2> HIDE DEF p, q
  <2>5. q \in 0 .. Len(line) /\ pos \in q .. Len(line)
    BY <1>1, <2>1, <2>3, <2>4
  <2> QED
    BY <2>2, <2>5, KillStep
<1> QED
  BY <1>2, <1>3, <1>4

-----------------------------------------------------------------------------
(* Yanks. *)

LEMMA InsertStep ==
  ASSUME LineInv, NEW x \in Line, NEW b \in Line, NEW a \in Line, Insert(x, b, a),
         Len(line) <= buffer_max => Len(b \o a) <= buffer_max,
         origin' = <<b \o a, Len(b)>>,
         kill_ring' \in Seq(Line), kill_ring' # <<>>, kill_accumulate' = FALSE, EndCompletion
  PROVE  LineInv'
<1> DEFINE t == insert_string(x, b \o a)
           l == b \o t \o a
<1>1. /\ TypeOK /\ ShownFit /\ buffer_max \in Nat
      /\ b \o a \in Line /\ Len(b \o a) = Len(b) + Len(a) /\ Len(b) \in Nat /\ Len(a) \in Nat
  BY Rejoined DEF LineInv, TypeOK, Line
<1>2. t \in Line /\ (Len(b \o a) <= buffer_max => Len(b \o a) + Len(t) <= buffer_max)
  BY <1>1, InsertStringTyped
<1>3. /\ UNCHANGED history_index /\ Edit(l, Len(b) + Len(t)) /\ last_yank_start' = Len(b)
  BY DEF Insert
<1>4. history_index' \in 0 .. Len(history)
  BY <1>1, <1>3 DEF TypeOK
<1> HIDE DEF t
<1>5. /\ l \in Line /\ Len(l) = Len(b) + Len(t) + Len(a) /\ Len(b) + Len(t) \in 0 .. Len(l)
      /\ Len(t) \in Nat
      /\ SubSeq(l, 1, Len(b)) = b
      /\ SubSeq(l, Len(b) + Len(t) + 1, Len(l)) = a
  <2>1. t \in Line
    BY <1>2
  <2>2. /\ b \o t \o a \in Line /\ Len(b \o t \o a) = Len(b) + Len(t) + Len(a)
        /\ Len(b) + Len(t) \in 0 .. Len(b \o t \o a)
        /\ Len(t) \in Nat
        /\ SubSeq(b \o t \o a, 1, Len(b)) = b
        /\ SubSeq(b \o t \o a, Len(b) + Len(t) + 1, Len(b \o t \o a)) = a
    <3>1. /\ b \o t \o a \in Line /\ Len(b \o t \o a) = Len(b) + Len(t) + Len(a)
          /\ Len(b) + Len(t) \in 0 .. Len(b \o t \o a)
          /\ Len(t) \in Nat
      BY <2>1, Between
    <3>2. SubSeq(b \o t \o a, 1, Len(b)) = b
      BY <2>1, HeadOf, Zenon
    <3>3. SubSeq(b \o t \o a, Len(b) + Len(t) + 1, Len(b \o t \o a)) = a
      BY <2>1, TailOf, Zenon
    <3> QED
      BY <3>1, <3>2, <3>3
  <2>3. l = b \o t \o a
    OBVIOUS
  <2> HIDE DEF l
  <2> QED
    BY <2>2, <2>3, Zenon
<1> HIDE DEF l
<1>6. /\ reading' \in BOOLEAN /\ Placed(Here)' /\ buffer_max' \in Nat
      /\ history' \in Seq(Line) /\ history_index' \in 0 .. Len(history')
      /\ DOMAIN history_state' \subseteq 0 .. Len(history')
      /\ \A i \in DOMAIN history_state' : Placed(history_state'[i])
      /\ ctrl_o_index' \in {-1} \cup 1 .. Len(history') + 1
      /\ line' = l /\ pos' = Len(b) + Len(t)
  BY <1>1, <1>3, <1>4, <1>5, EditTyped
<1>7. completer_state' = 0 /\ current_completion' = <<>> /\ saved_str' = <<>>
  BY DEF EndCompletion
<1>8. TypeOK'
  <2>1. last_yank_start' \in -1 .. pos'
    BY <1>1, <1>3, <1>5, <1>6
  <2>2. completer_state' \in 0 .. Len(WordsOf(saved_str')) /\ <<>> \in Line
    <3>1. Len(WordsOf(saved_str')) \in Nat
      BY WordsTyped
    <3> QED
      BY <1>7, <3>1 DEF Line
  <2>3. Placed(origin)'
    <3>1. Len(b) \in 0 .. Len(b \o a)
      BY <1>1
    <3> QED
      BY <1>1, <3>1 DEF Placed
  <2> QED
    BY <1>6, <1>7, <2>1, <2>2, <2>3 DEF TypeOK, WordsOf
<1>9. ShownFit'
  <2>1. Len(line) <= buffer_max => Len(l) <= buffer_max
    BY <1>1, <1>2, <1>5
  <2>2. reading /\ HistoryFits => Len(l) <= buffer_max
    BY <1>1, <2>1 DEF ShownFit
  <2> QED
    BY <1>1, <1>3, <1>4, <1>5, <2>2, EditFits
<1>10. YankUndone'
  <2>1. <<Before(last_yank_start) \o After(pos), last_yank_start>>' = origin'
    BY <1>3, <1>5, <1>6 DEF Before, After
  <2> QED
    BY <2>1 DEF YankUndone
<1> QED
  BY <1>7, <1>8, <1>9, <1>10 DEF LineInv, KillsUndone, Completed

LEMMA YankStep ==
  ASSUME LineInv, Yank \/ YankNext
  PROVE  LineInv'
<1>1. /\ TypeOK /\ YankUndone /\ kill_ring \in Seq(Line) /\ kill_ring # <<>>
      /\ line \in Line /\ pos \in 0 .. Len(line) /\ Len(line) \in Nat /\ pos \in Nat
      /\ buffer_max \in Nat /\ last_yank_start \in -1 .. pos
  BY Parts DEF LineInv, TypeOK, Yank, YankNext
<1>2. Front(kill_ring) \in Seq(Line) /\ Last(kill_ring) \in Line
  BY <1>1, FrontLast
<1>3. CASE Yank
  <2> DEFINE b == Before(pos)
             a == After(pos)
  <2>1. /\ Insert(Last(kill_ring), b, a) /\ origin' = Here
        /\ kill_ring' = kill_ring /\ kill_accumulate' = FALSE /\ EndCompletion
    BY <1>3 DEF Yank, EndKills
  <2>2. b \in Line /\ a \in Line /\ b \o a = line /\ Len(b) = pos
    BY <1>1, Parts
  <2>3. origin' = <<b \o a, Len(b)>> /\ (Len(line) <= buffer_max => Len(b \o a) <= buffer_max)
    BY <2>1, <2>2 DEF Here
  <2> HIDE DEF a, b
  <2> QED
    BY <1>1, <1>2, <2>1, <2>2, <2>3, InsertStep
<1>4. CASE YankNext
  <2> DEFINE p == last_yank_start
             b == Before(p)
             a == After(pos)
  <2>1. /\ Insert(Last(Rotated), b, a) /\ origin' = origin
        /\ kill_ring' = Rotated /\ kill_accumulate' = FALSE /\ EndCompletion
        /\ p # -1
    BY <1>4 DEF YankNext
  <2>2. p \in 0 .. Len(line) /\ pos \in p .. Len(line) /\ p \in Nat
    BY <1>1, <2>1
  <2>3. b \in Line /\ a \in Line /\ Len(b) = p /\ origin = <<b \o a, p>>
    BY <1>1, <2>1, <2>2, Parts DEF YankUndone
  <2>4. Len(b \o a) = Len(line) - (pos - p)
    BY <1>1, <2>2, Shorter
  <2>5. Len(line) <= buffer_max => Len(b \o a) <= buffer_max
    <3> DEFINE n == Len(line)
               m == Len(b \o a)
    <3>1. n \in Nat /\ m = n - (pos - p)
      BY <1>1, <2>4
    <3> HIDE DEF n, m
    <3>2. n <= buffer_max => m <= buffer_max
      BY <1>1, <2>2, <3>1
    <3> QED
      BY <3>2 DEF m, n
  <2>6. Rotated \in Seq(Line) /\ Rotated # <<>> /\ Last(Rotated) \in Line
    <3>1. <<Last(kill_ring)>> \in Seq(Line) /\ Len(<<Last(kill_ring)>>) = 1
      BY <1>2
    <3>2. Rotated \in Seq(Line) /\ Len(Rotated) = 1 + Len(Front(kill_ring))
      BY <1>2, <3>1, ConcatProperties DEF Rotated
    <3>3. Len(Front(kill_ring)) \in Nat
      BY <1>2, LenProperties
    <3>4. Rotated # <<>>
      BY <3>2, <3>3, EmptySeq
    <3> QED
      BY <3>2, <3>4, FrontLast
  <2> HIDE DEF a, b, p
  <2> QED
    BY <1>1, <2>1, <2>3, <2>5, <2>6, InsertStep
<1> QED
  BY <1>3, <1>4

-----------------------------------------------------------------------------
(* Completion. *)

\* What Tab does, named as in the action.
Again == completer_state # 0
WordAt == IF ~ Again THEN BackOver(pos, Char \ {Space})
          ELSE IF Len(current_completion) < pos THEN pos - Len(current_completion) ELSE 0
Word == IF Again THEN saved_str ELSE SubSeq(line, WordAt + 1, pos)
Found == completer_state < Len(WordsOf(Word))
New == IF Found THEN WordsOf(Word)[completer_state + 1] ELSE Word
Inserted == InsertChars(New, Before(WordAt) \o After(pos))

LEMMA TabIs ==
  ASSUME Tab
  PROVE  /\ UNCHANGED history_index
         /\ Edit(Before(WordAt) \o Inserted \o After(pos), WordAt + Len(Inserted))
         /\ Found => /\ completer_state' = completer_state + 1
                     /\ current_completion' = New /\ saved_str' = Word
                     /\ origin' = IF Again THEN origin ELSE Here
         /\ ~ Found => EndCompletion /\ origin' = Nowhere
         /\ EndYank /\ EndKills
BY DEF Tab, Again, WordAt, Word, Found, New, Inserted

LEMMA TabTyped ==
  ASSUME LineInv
  PROVE  /\ WordAt \in Nat /\ WordAt \in 0 .. Len(line) /\ pos \in WordAt .. Len(line)
         /\ Before(WordAt) \in Line /\ Len(Before(WordAt)) = WordAt
         /\ After(pos) \in Line /\ Len(After(pos)) = Len(line) - pos
         /\ Before(WordAt) \o After(pos) \in Line
         /\ Len(Before(WordAt) \o After(pos)) = Len(line) - (pos - WordAt)
         /\ Word \in Line /\ New \in Line /\ Inserted \in Line
         /\ completer_state \in Nat
         /\ ~ Again => Len(Word) = pos - WordAt
<1>1. /\ TypeOK /\ line \in Line /\ pos \in 0 .. Len(line) /\ Len(line) \in Nat /\ pos \in Nat
      /\ buffer_max \in Nat /\ saved_str \in Line /\ current_completion \in Line
      /\ completer_state \in 0 .. Len(WordsOf(saved_str))
  BY Parts DEF LineInv, TypeOK
<1>2. WordAt \in 0 .. pos
  <2>1. CASE ~ Again
    BY <1>1, <2>1, BackOverTyped DEF WordAt
  <2>2. CASE Again
    <3> DEFINE k == Len(current_completion)
    <3>1. k \in Nat
      BY <1>1, LenProperties DEF Line
    <3>2. WordAt = IF k < pos THEN pos - k ELSE 0
      BY <2>2 DEF WordAt
    <3> HIDE DEF k
    <3> QED
      BY <1>1, <3>1, <3>2
  <2> QED
    BY <2>1, <2>2
<1>3. WordAt \in Nat /\ WordAt \in 0 .. Len(line) /\ pos \in WordAt .. Len(line)
  <2> DEFINE n == Len(line)
  <2>1. n \in Nat /\ pos \in 0 .. n
    BY <1>1
  <2> HIDE DEF n
  <2>2. WordAt \in Nat /\ WordAt \in 0 .. n /\ pos \in WordAt .. n
    BY <1>2, <2>1
  <2> QED
    BY <2>2 DEF n
<1>4. /\ Before(WordAt) \in Line /\ Len(Before(WordAt)) = WordAt
      /\ After(pos) \in Line /\ Len(After(pos)) = Len(line) - pos
      /\ Before(WordAt) \o After(pos) \in Line
      /\ Len(Before(WordAt) \o After(pos)) = Len(line) - (pos - WordAt)
  BY <1>1, <1>3, Parts, Shorter
<1>5. /\ SubSeq(line, WordAt + 1, pos) \in Line
      /\ Len(SubSeq(line, WordAt + 1, pos)) = pos - WordAt
  BY <1>1, <1>3, Middle DEF Line
<1>6. Word \in Line /\ (~ Again => Len(Word) = pos - WordAt)
  BY <1>1, <1>5 DEF Word
<1>7. completer_state \in Nat
  <2>1. Len(WordsOf(saved_str)) \in Nat
    BY WordsTyped
  <2> QED
    BY <1>1, <2>1
<1>8. New \in Line
  <2>1. /\ Len(WordsOf(Word)) \in Nat
        /\ \A i \in 1 .. Len(WordsOf(Word)) : WordsOf(Word)[i] \in Line
    BY WordsTyped
  <2>2. Found => completer_state + 1 \in 1 .. Len(WordsOf(Word))
    BY <1>7, <2>1 DEF Found
  <2> QED
    BY <1>6, <2>1, <2>2 DEF New
<1>9. Inserted \in Line
  BY <1>1, <1>4, <1>8, InsertCharsTyped DEF Inserted
<1> QED
  BY <1>3, <1>4, <1>6, <1>7, <1>8, <1>9

\* Where the word was, in the line before the completions.
From == IF Again THEN origin ELSE Here

LEMMA TabPlace ==
  ASSUME LineInv, Fit(Word, From[1])
  PROVE  /\ From[1] \in Line /\ From[2] \in 0 .. Len(From[1])
         /\ WordAt = From[2] - Len(Word)
         /\ Word = SubSeq(From[1], WordAt + 1, From[2])
         /\ Before(WordAt) = SubSeq(From[1], 1, WordAt)
         /\ After(pos) = SubSeq(From[1], From[2] + 1, Len(From[1]))
         /\ Inserted = New
<1> DEFINE l == From[1]
           o == From[2]
           n == Len(From[1])
           k == Len(Word)
           b == Before(WordAt)
           a == After(pos)
           m == Len(b \o a)
<1>1. /\ TypeOK /\ Completed /\ line \in Line /\ pos \in 0 .. Len(line) /\ Len(line) \in Nat
      /\ pos \in Nat /\ buffer_max \in Nat /\ Placed(origin)
  BY Parts DEF LineInv, TypeOK
<1>2. /\ WordAt \in Nat /\ WordAt \in 0 .. Len(line)
      /\ b \in Line /\ a \in Line /\ b \o a \in Line
      /\ m = Len(line) - (pos - WordAt)
      /\ Word \in Line /\ New \in Line /\ completer_state \in Nat
      /\ (~ Again => k = pos - WordAt)
  BY TabTyped
<1>3. l \in Line /\ o \in 0 .. n
  BY <1>1 DEF From, Placed, Here
<1>4. n \in Nat /\ k \in Nat
  BY <1>2, <1>3, LenProperties DEF Line
<1>5. /\ WordAt = o - k
      /\ Word = SubSeq(l, WordAt + 1, o)
      /\ b = SubSeq(l, 1, WordAt)
      /\ a = SubSeq(l, o + 1, n)
      /\ m = n - k
  <2>1. CASE ~ Again
    <3>1. l = line /\ o = pos /\ n = Len(line)
      BY <2>1 DEF From, Here
    <3>2. WordAt = o - k /\ m = n - k
      <4> HIDE DEF o, k, m, n
      <4> QED
        BY <1>1, <1>2, <2>1, <3>1
    <3>3. Word = SubSeq(line, WordAt + 1, pos)
      BY <2>1 DEF Word
    <3> QED
      BY <3>1, <3>2, <3>3 DEF Before, After
  <2>2. CASE Again
    <3> DEFINE c == current_completion
               h == SubSeq(l, 1, WordStart)
               t == SubSeq(l, o + 1, n)
    <3>1. From = origin /\ Word = saved_str /\ completer_state # 0
      BY <2>2 DEF From, Word, Again
    <3>2. /\ WordStart >= 0 /\ Word = SubSeq(l, WordStart + 1, o)
          /\ line = h \o c \o t /\ pos = WordStart + Len(c)
      BY <1>1, <3>1 DEF Completed
    <3>3. WordStart = o - k
      BY <3>1 DEF WordStart
    <3>4. WordStart \in 0 .. n /\ WordStart \in Nat
      <4> HIDE DEF n, k, o
      <4> QED
        BY <1>3, <1>4, <3>2, <3>3
    <3>5. h \in Line /\ Len(h) = WordStart /\ t \in Line /\ Len(t) = n - o
      BY <1>3, <3>4, Cut DEF Line
    <3>6. c \in Line /\ Len(c) \in Nat
      BY <1>1, LenProperties DEF TypeOK, Line
    <3>7. WordAt = WordStart
      <4>1. WordAt = IF Len(c) < pos THEN pos - Len(c) ELSE 0
        BY <2>2 DEF WordAt
      <4> HIDE DEF c
      <4> QED
        BY <3>2, <3>4, <3>6, <4>1
    <3> HIDE DEF h, t, c, l, n, o, k
    <3>8. b = h
      <4>1. SubSeq(h \o c \o t, 1, Len(h)) = h
        BY <3>5, <3>6, HeadOf, Zenon
      <4>2. SubSeq(line, 1, WordAt) = h
        BY <3>2, <3>5, <3>7, <4>1, Zenon
      <4> QED
        BY <4>2 DEF Before
    <3>9. a = t
      <4>1. SubSeq(h \o c \o t, Len(h) + Len(c) + 1, Len(h \o c \o t)) = t
        BY <3>5, <3>6, TailOf, Zenon
      <4>2. SubSeq(line, pos + 1, Len(line)) = t
        BY <3>2, <3>5, <4>1, Zenon
      <4> QED
        BY <4>2 DEF After
    <3>10. m = n - k
      <4>1. Len(h \o t) = Len(h) + Len(t)
        BY <3>5, Rejoined DEF Line
      <4>2. m = WordStart + (n - o)
        BY <3>5, <3>8, <3>9, <4>1
      <4> HIDE DEF m
      <4> QED
        BY <1>3, <1>4, <3>3, <3>4, <4>2 DEF l, n, o, k
    <3> QED
      BY <3>2, <3>3, <3>7, <3>8, <3>9, <3>10 DEF h, t
  <2> QED
    BY <2>1, <2>2
<1>6. m + Len(New) <= buffer_max
  <2>1. CASE Found
    <3>1. New = WordsOf(Word)[completer_state + 1]
      BY <2>1 DEF New
    <3>2. completer_state + 1 \in DOMAIN WordsOf(Word)
      <4>1. WordsOf(Word) \in Seq(Line) /\ Len(WordsOf(Word)) \in Nat
        BY WordsTyped
      <4>2. DOMAIN WordsOf(Word) = 1 .. Len(WordsOf(Word))
        BY <4>1, LenProperties
      <4> QED
        BY <1>2, <2>1, <4>1, <4>2 DEF Found
    <3>3. n - k + Len(New) <= buffer_max
      BY <3>1, <3>2 DEF Fit
    <3> QED
      BY <1>5, <3>3
  <2>2. CASE ~ Found
    <3>1. n <= buffer_max /\ New = Word
      BY <2>2 DEF Fit, New
    <3> HIDE DEF m, n
    <3> QED
      BY <1>1, <1>4, <1>5, <3>1
  <2> QED
    BY <2>1, <2>2
<1>7. Inserted = New
  BY <1>1, <1>2, <1>6, InsertCharsTyped DEF Inserted
<1> QED
  BY <1>3, <1>5, <1>7

LEMMA TabCompletes ==
  ASSUME LineInv, Tab, Found
  PROVE  Completed'
<1>1. /\ Edit(Before(WordAt) \o Inserted \o After(pos), WordAt + Len(Inserted))
      /\ completer_state' = completer_state + 1
      /\ current_completion' = New /\ saved_str' = Word /\ origin' = From
  BY TabIs DEF From
<1>2. /\ line' = Before(WordAt) \o Inserted \o After(pos) /\ pos' = WordAt + Len(Inserted)
      /\ buffer_max' = buffer_max
  BY <1>1 DEF Edit
<1>3. ASSUME Fit(saved_str, origin[1])'
      PROVE  /\ WordStart' >= 0
             /\ saved_str' = SubSeq(origin'[1], WordStart' + 1, origin'[2])
             /\ current_completion' = WordsOf(saved_str')[completer_state']
             /\ line' = SubSeq(origin'[1], 1, WordStart') \o current_completion'
                          \o SubSeq(origin'[1], origin'[2] + 1, Len(origin'[1]))
             /\ pos' = WordStart' + Len(current_completion')
  <2>1. Fit(Word, From[1])
    BY <1>1, <1>2, <1>3 DEF Fit, WordsOf
  <2>2. /\ From[1] \in Line /\ From[2] \in 0 .. Len(From[1])
        /\ WordAt = From[2] - Len(Word)
        /\ Word = SubSeq(From[1], WordAt + 1, From[2])
        /\ Before(WordAt) = SubSeq(From[1], 1, WordAt)
        /\ After(pos) = SubSeq(From[1], From[2] + 1, Len(From[1]))
        /\ Inserted = New
    BY <2>1, TabPlace
  <2>3. WordStart' = WordAt
    BY <1>1, <2>2 DEF WordStart
  <2>4. WordAt \in Nat
    BY TabTyped
  <2>5. New = WordsOf(Word)[completer_state + 1]
    BY DEF New
  <2>6. WordStart' >= 0
    BY <2>3, <2>4
  <2>7. saved_str' = SubSeq(origin'[1], WordStart' + 1, origin'[2])
    BY <1>1, <2>2, <2>3, Zenon
  <2>8. line' = SubSeq(origin'[1], 1, WordStart') \o current_completion'
                  \o SubSeq(origin'[1], origin'[2] + 1, Len(origin'[1]))
    BY <1>1, <1>2, <2>2, <2>3, Zenon
  <2>9. pos' = WordStart' + Len(current_completion')
    BY <1>1, <1>2, <2>2, <2>3, Zenon
  <2> QED
    BY <1>1, <2>5, <2>6, <2>7, <2>8, <2>9
<1> QED
  BY <1>3 DEF Completed

LEMMA TabStep ==
  ASSUME LineInv, Tab
  PROVE  LineInv'
<1> DEFINE b == Before(WordAt)
           a == After(pos)
           l == b \o Inserted \o a
<1>1. /\ TypeOK /\ ShownFit /\ buffer_max \in Nat /\ kill_ring \in Seq(Line)
      /\ Placed(origin) /\ Placed(Here) /\ Len(line) \in Nat
      /\ history_index \in 0 .. Len(history)
  BY Parts DEF LineInv, TypeOK
<1>2. /\ WordAt \in Nat /\ pos \in WordAt .. Len(line)
      /\ b \in Line /\ Len(b) = WordAt /\ a \in Line /\ b \o a \in Line
      /\ Len(b \o a) = Len(line) - (pos - WordAt)
      /\ Word \in Line /\ New \in Line /\ Inserted \in Line /\ completer_state \in Nat
  BY TabTyped
<1>3. /\ UNCHANGED history_index /\ Edit(l, WordAt + Len(Inserted))
      /\ last_yank_start' = -1 /\ kill_accumulate' = FALSE /\ UNCHANGED kill_ring
      /\ Found => /\ completer_state' = completer_state + 1
                  /\ current_completion' = New /\ saved_str' = Word /\ origin' = From
      /\ ~ Found => EndCompletion /\ origin' = Nowhere
  BY TabIs DEF EndYank, EndKills, From
<1>4. /\ l \in Line /\ WordAt + Len(Inserted) \in 0 .. Len(l)
      /\ Len(l) = Len(b \o a) + Len(Inserted)
  <2> DEFINE t == Inserted
  <2>1. b \in Line /\ t \in Line /\ a \in Line
    BY <1>2 DEF t
  <2> HIDE DEF a, b, t, l
  <2>2. /\ b \o t \o a \in Line /\ Len(b \o t \o a) = Len(b) + Len(t) + Len(a)
        /\ Len(b) + Len(t) \in 0 .. Len(b \o t \o a)
        /\ Len(t) \in Nat
    BY <2>1, Between
  <2>3. Len(b \o a) = Len(b) + Len(a) /\ Len(b) \in Nat /\ Len(a) \in Nat
    BY <1>2, Rejoined DEF Line
  <2>4. l = b \o t \o a
    BY DEF l, t
  <2>5. Len(l) = Len(b) + Len(t) + Len(a) /\ l \in Line /\ WordAt + Len(t) \in 0 .. Len(l)
    BY <1>2, <2>2, <2>4, Zenon
  <2>6. Len(l) = Len(b \o a) + Len(t)
    BY <2>2, <2>3, <2>5
  <2> QED
    BY <2>5, <2>6 DEF t
<1>5. Len(b \o a) <= buffer_max => Len(b \o a) + Len(Inserted) <= buffer_max
  BY <1>1, <1>2, InsertCharsTyped DEF Inserted
<1>6. Len(line) <= buffer_max => Len(l) <= buffer_max
  <2> HIDE DEF a, b, l
  <2>1. Len(line) <= buffer_max => Len(b \o a) <= buffer_max
    BY <1>1, <1>2
  <2> QED
    BY <1>4, <1>5, <2>1
<1> HIDE DEF a, b, l
<1>7. history_index' \in 0 .. Len(history)
  BY <1>1, <1>3
<1>8. ShownFit'
  <2>1. reading /\ HistoryFits => Len(l) <= buffer_max
    BY <1>1, <1>6 DEF ShownFit
  <2> QED
    BY <1>1, <1>3, <1>4, <1>7, <2>1, EditFits
<1>9. /\ reading' \in BOOLEAN /\ Placed(Here)' /\ buffer_max' \in Nat
      /\ history' \in Seq(Line) /\ history_index' \in 0 .. Len(history')
      /\ DOMAIN history_state' \subseteq 0 .. Len(history')
      /\ \A i \in DOMAIN history_state' : Placed(history_state'[i])
      /\ ctrl_o_index' \in {-1} \cup 1 .. Len(history') + 1
      /\ line' = l /\ pos' = WordAt + Len(Inserted)
  BY <1>1, <1>3, <1>4, <1>7, EditTyped
<1>10. last_yank_start' \in -1 .. pos'
  <2>1. Len(Inserted) \in Nat
    BY <1>2, LenProperties DEF Line
  <2> QED
    BY <1>2, <1>3, <1>9, <2>1
<1>11. /\ Placed(origin)' /\ current_completion' \in Line /\ saved_str' \in Line
       /\ completer_state' \in 0 .. Len(WordsOf(saved_str'))
  <2>1. CASE Found
    <3>1. origin' = origin \/ origin' = Here
      BY <1>3, <2>1 DEF From
    <3>2. Placed(origin)'
      BY <1>1, <3>1 DEF Placed
    <3>3. Len(WordsOf(Word)) \in Nat /\ completer_state < Len(WordsOf(Word))
      BY <2>1, WordsTyped DEF Found
    <3> QED
      BY <1>2, <1>3, <2>1, <3>2, <3>3
  <2>2. CASE ~ Found
    <3>1. Placed(origin)'
      BY <1>3, <2>2, NowhereTyped DEF Placed
    <3>2. Len(WordsOf(saved_str')) \in Nat
      BY WordsTyped
    <3> QED
      BY <1>3, <2>2, <3>1, <3>2 DEF EndCompletion, Line
  <2> QED
    BY <2>1, <2>2
<1>12. TypeOK'
  BY <1>1, <1>3, <1>9, <1>10, <1>11 DEF TypeOK, WordsOf
<1>13. Completed'
  <2>1. CASE Found
    BY <2>1, TabCompletes
  <2>2. CASE ~ Found
    BY <1>3, <2>2 DEF EndCompletion, Completed
  <2> QED
    BY <2>1, <2>2
<1> QED
  BY <1>3, <1>8, <1>12, <1>13 DEF LineInv, KillsUndone, YankUndone

-----------------------------------------------------------------------------
(* The invariant. *)

LEMMA LineInit ==
  ASSUME Init
  PROVE  LineInv
<1>1. TypeOK
  <2>1. Len(WordsOf(saved_str)) \in Nat
    BY WordsTyped
  <2>2. <<>> \in Line /\ <<>> \in Seq(Line) /\ Len(<<>>) = 0
    BY DEF Line
  <2>3. Placed(Here) /\ Placed(origin)
    BY <2>2, NowhereTyped DEF Init, Placed, Here
  <2>4. DOMAIN history_state = {}
    BY DEF Init
  <2>5. Len(history) = 0 /\ history \in Seq(Line) /\ kill_ring \in Seq(Line)
    BY <2>2 DEF Init
  <2>6. /\ history_index \in 0 .. Len(history) /\ ctrl_o_index \in {-1} \cup 1 .. Len(history) + 1
        /\ last_yank_start \in -1 .. pos /\ completer_state \in 0 .. Len(WordsOf(saved_str))
        /\ DOMAIN history_state \subseteq 0 .. Len(history)
    BY <2>1, <2>4, <2>5 DEF Init
  <2>7. /\ reading \in BOOLEAN /\ kill_accumulate \in BOOLEAN /\ buffer_max \in Nat
        /\ (kill_accumulate \/ last_yank_start # -1 => kill_ring # <<>>)
        /\ current_completion \in Line /\ saved_str \in Line
    BY <2>2 DEF Init
  <2> QED
    BY <2>3, <2>4, <2>5, <2>6, <2>7 DEF TypeOK
<1> QED
  BY <1>1 DEF Init, LineInv, KillsUndone, YankUndone, ShownFit, Completed

LEMMA LineStep ==
  ASSUME LineInv, [Next]_vars
  PROVE  LineInv'
<1>1. CASE \E max \in Widths : _readline(max)
  BY <1>1, ReadlineStep
<1>2. CASE \E c \in Char : insert_char(c)
  BY <1>2, InsertCharStep
<1>3. CASE Home \/ End \/ Left \/ Right \/ WordLeft \/ WordRight \/ OtherKey \/ YankNothing
  BY <1>3, CursorStep
<1>4. CASE Delete \/ Backspace
  BY <1>4, DeleteStep
<1>5. CASE KillToEnd \/ KillToStart \/ KillWord
  BY <1>5, KillsStep
<1>6. CASE Yank \/ YankNext
  BY <1>6, YankStep
<1>7. CASE Up \/ Down
  BY <1>7, ShowHistoryStep
<1>8. CASE Enter \/ OperateAndGetNext \/ Eof
  BY <1>8, ReturnStep
<1>9. CASE Tab
  BY <1>9, TabStep
<1>10. CASE UNCHANGED vars
  BY <1>10 DEF vars, lineVars, historyVars, killVars, completionVars, LineInv, TypeOK,
               Placed, Here, KillsUndone, Before, After, YankUndone, ShownFit, HistoryFits,
               Completed, WordStart, Fit, WordsOf
<1> QED
  BY <1>1, <1>2, <1>3, <1>4, <1>5, <1>6, <1>7, <1>8, <1>9, <1>10 DEF Next

\* What is kept in origin is a line and a cursor, and nothing else.
Pair == origin = <<origin[1], origin[2]>>

LEMMA PairStep ==
  ASSUME Pair, [Next]_vars
  PROVE  Pair'
<1>1. CASE Next
  <2>1. origin' = origin \/ origin' = Here \/ origin' = Nowhere
    BY <1>1
    DEF Next, _readline, insert_char, Home, End, Left, Right, WordLeft, WordRight, Delete,
        Backspace, OtherKey, KillToEnd, KillToStart, KillWord, Kill, Yank, YankNothing,
        YankNext, Up, Down, ShowHistory, Enter, OperateAndGetNext, Eof, Accept, Return, Tab,
        PlainEdit, EndAll
  <2> QED
    BY <2>1 DEF Pair, Here, Nowhere
<1>2. CASE UNCHANGED vars
  BY <1>2 DEF vars, Pair
<1> QED
  BY <1>1, <1>2

LEMMA LineInvariant == Spec => [](LineInv /\ Pair)
<1>1. Init => LineInv
  BY LineInit
<1>2. Init => Pair
  BY DEF Init, Pair, Nowhere
<1>3. LineInv /\ [Next]_vars => LineInv'
  BY LineStep
<1>4. Pair /\ [Next]_vars => Pair'
  BY PairStep
<1> QED
  BY <1>1, <1>2, <1>3, <1>4, PTL DEF Spec

\* What is not the word and its completions stays, and comes back.
LEMMA TabUndoes ==
  ASSUME LineInv, Pair, Tab,
         Fit(IF completer_state = 0 THEN saved_str' ELSE saved_str, From[1])
  PROVE  IF completer_state' = 0
         THEN Here' = From
         ELSE LET start == From[2] - Len(saved_str')
              IN  /\ SubSeq(From[1], 1, start) \o SubSeq(From[1], From[2] + 1, Len(From[1]))
                       = SubSeq(line', 1, start) \o SubSeq(line', pos' + 1, Len(line'))
                  /\ SubSeq(line', start + 1, pos') = WordsOf(saved_str')[completer_state']
<1> DEFINE b == Before(WordAt)
           a == After(pos)
<1>1. /\ Edit(b \o Inserted \o a, WordAt + Len(Inserted))
      /\ Found => completer_state' = completer_state + 1 /\ saved_str' = Word
      /\ ~ Found => completer_state' = 0 /\ saved_str' = <<>>
  BY TabIs DEF EndCompletion
<1>2. line' = b \o Inserted \o a /\ pos' = WordAt + Len(Inserted)
  BY <1>1 DEF Edit
<1>3. /\ completer_state \in Nat /\ Word \in Line /\ New \in Line /\ WordAt \in Nat
      /\ b \in Line /\ Len(b) = WordAt /\ a \in Line
  BY TabTyped
<1>4. Fit(Word, From[1])
  <2>1. CASE Again
    BY <2>1 DEF Again, Word
  <2>2. CASE ~ Again /\ Found
    BY <1>1, <2>2 DEF Again
  <2>3. CASE ~ Again /\ ~ Found
    <3>1. WordsOf(Word) \in Seq(Line) /\ Len(WordsOf(Word)) \in Nat
      BY WordsTyped
    <3>2. Len(WordsOf(Word)) = 0
      BY <2>3, <3>1 DEF Found, Again
    <3>3. DOMAIN WordsOf(Word) = {}
      BY <3>1, <3>2, LenProperties
    <3> QED
      BY <3>3 DEF Fit
  <2> QED
    BY <2>1, <2>2, <2>3
<1>5. /\ From[1] \in Line /\ From[2] \in 0 .. Len(From[1])
      /\ WordAt = From[2] - Len(Word)
      /\ Word = SubSeq(From[1], WordAt + 1, From[2])
      /\ b = SubSeq(From[1], 1, WordAt)
      /\ a = SubSeq(From[1], From[2] + 1, Len(From[1]))
      /\ Inserted = New
  BY <1>4, TabPlace
<1>6. CASE Found
  <2>1. completer_state' # 0 /\ saved_str' = Word
    BY <1>1, <1>3, <1>6
  <2>9. From[2] - Len(saved_str') = WordAt
    BY <1>5, <2>1, Zenon
  <2>2. line' = b \o New \o a /\ pos' = Len(b) + Len(New)
    BY <1>2, <1>3, <1>5
  <2> HIDE DEF a, b
  <2>3. SubSeq(line', 1, Len(b)) = b
    BY <1>3, <2>2, HeadOf, Zenon
  <2>4. SubSeq(line', pos' + 1, Len(line')) = a
    BY <1>3, <2>2, TailOf, Zenon
  <2>5. SubSeq(line', Len(b) + 1, pos') = New
    BY <1>3, <2>2, MiddleOf, Zenon
  <2>6. New = WordsOf(saved_str')[completer_state']
    BY <1>1, <1>6 DEF New
  <2>7. SubSeq(From[1], 1, WordAt) \o SubSeq(From[1], From[2] + 1, Len(From[1]))
          = SubSeq(line', 1, WordAt) \o SubSeq(line', pos' + 1, Len(line'))
    BY <1>3, <1>5, <2>3, <2>4, Zenon
  <2>8. SubSeq(line', WordAt + 1, pos') = WordsOf(saved_str')[completer_state']
    BY <1>3, <2>5, <2>6, Zenon
  <2> QED
    BY <2>1, <2>7, <2>8, <2>9, Zenon
<1>7. CASE ~ Found
  <2>1. completer_state' = 0 /\ New = Word
    BY <1>1, <1>7 DEF New
  <2> DEFINE l == From[1]
             o == From[2]
  <2>2. WordAt \in 0 .. Len(l) /\ o \in WordAt .. Len(l) /\ WordAt + Len(Word) = o
    <3> DEFINE n == Len(l)
               k == Len(Word)
    <3>1. n \in Nat /\ k \in Nat /\ o \in 0 .. n /\ WordAt = o - k
      BY <1>3, <1>5, LenProperties DEF Line
    <3> HIDE DEF n, k, l, o
    <3>2. WordAt \in 0 .. n /\ o \in WordAt .. n /\ WordAt + k = o
      BY <1>3, <3>1
    <3> QED
      BY <3>2 DEF n, k
  <2>3. pos' = o
    BY <1>2, <1>5, <2>1, <2>2
  <2>4. line' = l
    <3>1. l \in Seq(Char)
      BY <1>5 DEF Line
    <3> HIDE DEF l, o
    <3>2. /\ SubSeq(l, 1, WordAt) \o SubSeq(l, WordAt + 1, o) = SubSeq(l, 1, o)
          /\ SubSeq(l, 1, o) \o SubSeq(l, o + 1, Len(l)) = l
      <4>1. o \in 0 .. Len(l)
        BY <1>3, <1>5 DEF l, o
      <4>2. SubSeq(l, 1, o) \o SubSeq(l, o + 1, Len(l)) = l
        BY <3>1, <4>1, Cut
      <4>3. SubSeq(l, 1, WordAt) \o SubSeq(l, WordAt + 1, o) = SubSeq(l, 1, o)
        BY <2>2, <3>1, Middle
      <4> QED
        BY <4>2, <4>3
    <3>3. line' = SubSeq(l, 1, WordAt) \o SubSeq(l, WordAt + 1, o) \o SubSeq(l, o + 1, Len(l))
      BY <1>2, <1>5, <2>1, Zenon DEF l, o
    <3> QED
      BY <3>2, <3>3, Zenon
  <2>5. From = <<l, o>>
    BY DEF From, Here, Pair
  <2> QED
    BY <2>1, <2>3, <2>4, <2>5 DEF Here
<1> QED
  BY <1>6, <1>7

-----------------------------------------------------------------------------
(* The theorems. *)

\* Every variable has its type, in every call of _readline and between calls:
\* no key moves the cursor, or one kept with a line of the history, out of its
\* line, and no slice or index of the code is out of range.
THEOREM ReadlineTypeOK == Spec => []TypeOK
<1>1. LineInv => TypeOK
  BY DEF LineInv
<1> QED
  BY <1>1, LineInvariant, PTL

\* add_to_kill_ring puts what Ctrl-K, Ctrl-U and Ctrl-W kill one after another
\* on the side of the entry where it was: put in at the cursor, the entry gives
\* the line before the first of them, however they are mixed.
THEOREM ReadlineKillsUndone == Spec => []KillsUndone
<1>1. LineInv => KillsUndone
  BY DEF LineInv
<1> QED
  BY <1>1, LineInvariant, PTL

\* What Ctrl-Y and any number of Alt-Y have put in lies between last_yank_start
\* and the cursor: what is around it is the line before Ctrl-Y, although
\* insert_string may leave out any part of the text.
THEOREM ReadlineYankUndone == Spec => []YankUndone
<1>1. LineInv => YankUndone
  BY DEF LineInv
<1> QED
  BY <1>1, LineInvariant, PTL

\* No key, yank, completion or line of the history makes the line longer than
\* buffer_max, as long as no line of the history was: all lines the call has
\* shown, which Up and Down may bring back, fit then.
THEOREM ReadlineLineFits == Spec => []LineFits
<1>1. LineInv => LineFits
  BY DEF LineInv, ShownFit, HistoryFits, LineFits
<1> QED
  BY <1>1, LineInvariant, PTL

\* Tab puts each completion in the place of the one before and of nothing else,
\* and after the last restores line and cursor, if all completions fit.
THEOREM ReadlineCompletionUndone == Spec => CompletionUndone
<1> DEFINE from == IF completer_state = 0 THEN Here ELSE origin
           start == IF completer_state' # 0 THEN from[2] - Len(saved_str') ELSE from[2]
           Undoes == Tab /\ Fit(IF completer_state = 0 THEN saved_str' ELSE saved_str, from[1]) =>
             IF completer_state' = 0
             THEN Here' = from
             ELSE /\ SubSeq(from[1], 1, start) \o SubSeq(from[1], from[2] + 1, Len(from[1]))
                       = SubSeq(line', 1, start) \o SubSeq(line', pos' + 1, Len(line'))
                  /\ SubSeq(line', start + 1, pos') = WordsOf(saved_str')[completer_state']
<1>1. LineInv /\ Pair => Undoes
  <2> SUFFICES ASSUME LineInv, Pair, Tab,
                      Fit(IF completer_state = 0 THEN saved_str' ELSE saved_str, from[1])
               PROVE  Undoes
    OBVIOUS
  <2>1. from = From
    BY DEF From, Again
  <2>2. IF completer_state' = 0
        THEN Here' = From
        ELSE LET begin == From[2] - Len(saved_str')
             IN  /\ SubSeq(From[1], 1, begin) \o SubSeq(From[1], From[2] + 1, Len(From[1]))
                      = SubSeq(line', 1, begin) \o SubSeq(line', pos' + 1, Len(line'))
                 /\ SubSeq(line', begin + 1, pos') = WordsOf(saved_str')[completer_state']
    <3> HIDE DEF from
    <3> QED
      BY <2>1, TabUndoes
  <2>3. CASE completer_state' = 0
    BY <2>1, <2>2, <2>3
  <2>4. CASE completer_state' # 0
    <3>1. start = From[2] - Len(saved_str')
      BY <2>1, <2>4
    <3> HIDE DEF from, start
    <3> QED
      BY <2>1, <2>2, <2>4, <3>1, Zenon
  <2> QED
    BY <2>3, <2>4
<1>2. [](LineInv /\ Pair) => [][Undoes]_vars
  BY <1>1, PTL
<1>3. [][Undoes]_vars => CompletionUndone
  BY DEF CompletionUndone
<1> QED
  BY <1>2, <1>3, LineInvariant, PTL
=============================================================================
