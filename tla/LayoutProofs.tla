---------------------------- MODULE LayoutProofs ----------------------------
(***************************************************************************)
(* What is proved of Layout, AcpiLayouts and SmbiosLayouts: what Total and *)
(* Aligned return for any widths, how large the ctypes classes of the      *)
(* records are, and where the class of an SMBIOS structure stops reading,  *)
(* for every length of the structure.                                      *)
(***************************************************************************)
EXTENDS AcpiLayouts, SmbiosLayouts, WellFoundedInduction, SequenceTheorems, TLAPS
-----------------------------------------------------------------------------
(* Numbers that are computed one after the other. *)

LEMMA LeastOf ==
  ASSUME NEW T, T \subseteq Nat, T # {}
  PROVE  \E x \in T : \A y \in T : x <= y
<1> DEFINE R == OpToRel(<, Nat)
<1>1. IsWellFoundedOn(R, Nat)
  BY NatLessThanWellFounded
<1>2. PICK x \in T : \A y \in T : <<y, x>> \notin R
  <2> HIDE DEF R
  <2> QED
    BY <1>1, WFMin
<1>3. \A y \in T : y < x => <<y, x>> \in R
  BY DEF OpToRel
<1>4. x \in Nat /\ \A y \in T : y \in Nat /\ ~ (y < x)
  BY <1>2, <1>3
<1> QED
  BY <1>4

\* f begins with 0, and h makes each of its next n values from the one before.
Chain(f, h, n) == f = [i \in 0 .. n |-> IF i = 0 THEN 0 ELSE h[<<i, f[i - 1]>>]]

LEMMA ChainTyped ==
  ASSUME NEW n \in Nat, NEW h \in [(1 .. n) \X Int -> Int], NEW f, Chain(f, h, n)
  PROVE  /\ f[0] = 0 /\ \A i \in 1 .. n : f[i] = h[<<i, f[i - 1]>>]
         /\ \A i \in 0 .. n : f[i] \in Int
<1>1. \A i \in 0 .. n : f[i] = IF i = 0 THEN 0 ELSE h[<<i, f[i - 1]>>]
  BY DEF Chain
<1>2. f[0] = 0 /\ \A i \in 1 .. n : f[i] = h[<<i, f[i - 1]>>]
  <2>1. 0 \in 0 .. n /\ \A i \in 1 .. n : i \in 0 .. n /\ i # 0
    OBVIOUS
  <2> QED
    BY <1>1, <2>1
<1> DEFINE T == {i \in 0 .. n : f[i] \notin Int}
<1>3. T = {}
  <2> SUFFICES ASSUME T # {} PROVE FALSE
    OBVIOUS
  <2>1. PICK i \in T : \A j \in T : i <= j
    <3>1. T \subseteq Nat
      OBVIOUS
    <3> HIDE DEF T
    <3> QED
      BY <3>1, LeastOf
  <2>2. i \in 1 .. n /\ i - 1 \in 0 .. n /\ i - 1 \notin T /\ f[i] \notin Int
    BY <1>2, <2>1
  <2>3. f[i - 1] \in Int
    BY <2>2
  <2>4. f[i] \in Int
    BY <1>2, <2>2, <2>3
  <2> QED
    BY <2>2, <2>4
<1> QED
  BY <1>2, <1>3

LEMMA ChainExists ==
  ASSUME NEW n \in Nat, NEW h \in [(1 .. n) \X Int -> Int]
  PROVE  \E f : Chain(f, h, n)
<1> DEFINE T == {m \in 0 .. n : ~ \E f : Chain(f, h, m)}
<1>1. T = {}
  <2> SUFFICES ASSUME T # {} PROVE FALSE
    OBVIOUS
  <2>1. PICK m \in T : \A k \in T : m <= k
    <3>1. T \subseteq Nat
      OBVIOUS
    <3> HIDE DEF T
    <3> QED
      BY <3>1, LeastOf
  <2>2. m \in 0 .. n /\ ~ \E f : Chain(f, h, m)
    BY <2>1
  <2>3. CASE m = 0
    <3> DEFINE f == [i \in 0 .. 0 |-> 0]
    <3>1. Chain(f, h, 0)
      BY DEF Chain
    <3> QED
      BY <2>2, <2>3, <3>1
  <2>4. CASE m # 0
    <3>1. m - 1 \in 0 .. n /\ m - 1 \notin T /\ m \in Nat \ {0}
      BY <2>1, <2>4
    <3>2. PICK g : Chain(g, h, m - 1)
      BY <3>1
    <3> DEFINE f == [i \in 0 .. m |-> IF i = 0 THEN 0 ELSE h[<<i, g[i - 1]>>]]
    <3>3. \A i \in 0 .. m - 1 : f[i] = g[i]
      <4>1. \A i \in 0 .. m - 1 : g[i] = IF i = 0 THEN 0 ELSE h[<<i, g[i - 1]>>]
        BY <3>2 DEF Chain
      <4> QED
        BY <3>1, <4>1
    <3>4. \A i \in 0 .. m : i = 0 \/ i - 1 \in 0 .. m - 1
      BY <3>1
    <3>5. Chain(f, h, m)
      BY <3>3, <3>4 DEF Chain
    <3> QED
      BY <2>2, <3>5
  <2> QED
    BY <2>3, <2>4
<1>2. n \in 0 .. n
  OBVIOUS
<1> QED
  BY <1>1, <1>2

\* There is a function that adds up any numbers.
LEMMA SumExists ==
  ASSUME NEW n \in Nat, NEW w \in [1 .. n -> Int]
  PROVE  \E f : f = [i \in 0 .. n |-> IF i = 0 THEN 0 ELSE f[i - 1] + w[i]]
<1> DEFINE h == [x \in (1 .. n) \X Int |-> x[2] + w[x[1]]]
<1>1. h \in [(1 .. n) \X Int -> Int] /\ \A i \in 1 .. n, v \in Int : h[<<i, v>>] = v + w[i]
  OBVIOUS
<1> HIDE DEF h
<1>2. PICK g : Chain(g, h, n)
  BY <1>1, ChainExists
<1>3. \A i \in 0 .. n : g[i] \in Int
  BY <1>1, <1>2, ChainTyped
<1>4. \A i \in 1 .. n : h[<<i, g[i - 1]>>] = g[i - 1] + w[i]
  BY <1>1, <1>3
<1>5. \A i \in 0 .. n : i = 0 \/ i \in 1 .. n
  OBVIOUS
<1>6. \A i \in 0 .. n : (IF i = 0 THEN 0 ELSE h[<<i, g[i - 1]>>])
                          = IF i = 0 THEN 0 ELSE g[i - 1] + w[i]
  BY <1>4, <1>5
<1>7. [i \in 0 .. n |-> IF i = 0 THEN 0 ELSE h[<<i, g[i - 1]>>]]
        = [i \in 0 .. n |-> IF i = 0 THEN 0 ELSE g[i - 1] + w[i]]
  BY <1>6
<1> QED
  BY <1>2, <1>7 DEF Chain

\* What Total returns, and how it comes about.
LEMMA TotalOf ==
  ASSUME NEW w \in Seq(Int)
  PROVE  \E f : /\ f[0] = 0 /\ \A i \in 1 .. Len(w) : f[i] = f[i - 1] + w[i]
                /\ \A i \in 0 .. Len(w) : f[i] \in Int
                /\ Total(w) = f[Len(w)]
<1> DEFINE n == Len(w)
           Sums(f) == f = [i \in 0 .. n |-> IF i = 0 THEN 0 ELSE f[i - 1] + w[i]]
           f == CHOOSE g : Sums(g)
<1>1. n \in Nat /\ w \in [1 .. n -> Int] /\ \A i \in 1 .. n : w[i] \in Int
  BY LenProperties
<1>3. Sums(f)
  <2> HIDE DEF n
  <2>1. \E g : Sums(g)
    BY <1>1, SumExists
  <2> HIDE DEF Sums
  <2> QED
    BY <2>1
<1>4. Total(w) = f[n]
  BY DEF Total, SumOf
<1> HIDE DEF f
<1>5. f[0] = 0 /\ \A i \in 1 .. n : f[i] = f[i - 1] + w[i]
  BY <1>1, <1>3
<1>6. \A i \in 0 .. n : f[i] \in Int
  <2> HIDE DEF n
  <2> DEFINE T == {i \in 0 .. n : f[i] \notin Int}
  <2>1. T = {}
    <3> SUFFICES ASSUME T # {} PROVE FALSE
      OBVIOUS
    <3>1. PICK i \in T : \A j \in T : i <= j
      <4>1. T \subseteq Nat
        BY <1>1
      <4> HIDE DEF T
      <4> QED
        BY <4>1, LeastOf
    <3>2. i \in 1 .. n /\ i - 1 \in 0 .. n /\ i - 1 \notin T /\ f[i] \notin Int
      BY <1>1, <1>5, <3>1
    <3>3. f[i - 1] \in Int /\ w[i] \in Int /\ f[i] = f[i - 1] + w[i]
      BY <1>1, <1>5, <3>2
    <3>4. f[i - 1] + w[i] \in Int
      BY <3>3
    <3> QED
      BY <3>2, <3>3, <3>4
  <2> QED
    BY <2>1
<1> QED
  BY <1>4, <1>5, <1>6

LEMMA NextIndex ==
  ASSUME NEW n \in Nat
  PROVE  \A i, j \in 0 .. n : j = i + 1 => j \in 1 .. n /\ j - 1 = i
OBVIOUS

\* f[i] is the sum of the first i widths of w.
Sums(w, f) ==
  /\ f[0] = 0 /\ \A i, j \in 0 .. Len(w) : j = i + 1 => f[j] = f[i] + w[j]
  /\ \A i \in 0 .. Len(w) : f[i] \in Int

LEMMA TotalSteps ==
  ASSUME NEW w \in Seq(Int)
  PROVE  \E f : Sums(w, f) /\ Total(w) = f[Len(w)]
<1>1. PICK f : /\ f[0] = 0 /\ \A i \in 1 .. Len(w) : f[i] = f[i - 1] + w[i]
               /\ \A i \in 0 .. Len(w) : f[i] \in Int
               /\ Total(w) = f[Len(w)]
  BY TotalOf
<1>2. \A i, j \in 0 .. Len(w) : j = i + 1 => f[j] = f[i] + w[j]
  <2>1. Len(w) \in Nat
    BY LenProperties
  <2> QED
    BY <1>1, <2>1, NextIndex
<1> QED
  BY <1>1, <1>2 DEF Sums

LEMMA Total1 ==
  ASSUME NEW a \in Int
  PROVE  Total(<<a>>) = a
<1> DEFINE w == <<a>>
<1>1. w \in Seq(Int) /\ Len(w) = 1
  OBVIOUS
<1>2. w[1] = a
  OBVIOUS
<1> HIDE DEF w
<1>3. PICK f : Sums(w, f) /\ Total(w) = f[1]
  BY <1>1, TotalSteps
<1>4. f[0] = 0 /\ \A i, j \in 0 .. 1 : j = i + 1 => f[j] = f[i] + w[j]
  BY <1>1, <1>3 DEF Sums
<1>5. f[1] = f[0] + a
  BY <1>2, <1>4
<1>6. f[1] \in Int
  BY <1>1, <1>3 DEF Sums
<1>7. Total(w) = a
  BY <1>3, <1>4, <1>5, <1>6
<1> QED
  BY <1>7 DEF w

LEMMA Total2 ==
  ASSUME NEW a \in Int, NEW b \in Int
  PROVE  Total(<<a, b>>) = a + b
<1> DEFINE w == <<a, b>>
<1>1. w \in Seq(Int) /\ Len(w) = 2
  OBVIOUS
<1>2. w[1] = a /\ w[2] = b
  OBVIOUS
<1> HIDE DEF w
<1>3. PICK f : Sums(w, f) /\ Total(w) = f[2]
  BY <1>1, TotalSteps
<1>4. f[0] = 0 /\ \A i, j \in 0 .. 2 : j = i + 1 => f[j] = f[i] + w[j]
  BY <1>1, <1>3 DEF Sums
<1>5. f[1] = f[0] + a /\ f[2] = f[1] + b
  BY <1>2, <1>4
<1>6. f[1] \in Int /\ f[2] \in Int
  BY <1>1, <1>3 DEF Sums
<1>7. Total(w) = a + b
  BY <1>3, <1>4, <1>5, <1>6
<1> QED
  BY <1>7 DEF w

LEMMA Total3 ==
  ASSUME NEW a \in Int, NEW b \in Int, NEW c \in Int
  PROVE  Total(<<a, b, c>>) = a + b + c
<1> DEFINE w == <<a, b, c>>
<1>1. w \in Seq(Int) /\ Len(w) = 3
  OBVIOUS
<1>2. w[1] = a /\ w[2] = b /\ w[3] = c
  OBVIOUS
<1> HIDE DEF w
<1>3. PICK f : Sums(w, f) /\ Total(w) = f[3]
  BY <1>1, TotalSteps
<1>4. f[0] = 0 /\ \A i, j \in 0 .. 3 : j = i + 1 => f[j] = f[i] + w[j]
  BY <1>1, <1>3 DEF Sums
<1>5. f[1] = f[0] + a /\ f[2] = f[1] + b /\ f[3] = f[2] + c
  BY <1>2, <1>4
<1>6. f[1] \in Int /\ f[2] \in Int /\ f[3] \in Int
  BY <1>1, <1>3 DEF Sums
<1>7. Total(w) = a + b + c
  BY <1>3, <1>4, <1>5, <1>6
<1> QED
  BY <1>7 DEF w

LEMMA Total4 ==
  ASSUME NEW a \in Int, NEW b \in Int, NEW c \in Int, NEW d \in Int
  PROVE  Total(<<a, b, c, d>>) = a + b + c + d
<1> DEFINE w == <<a, b, c, d>>
<1>1. w \in Seq(Int) /\ Len(w) = 4
  OBVIOUS
<1>2. w[1] = a /\ w[2] = b /\ w[3] = c /\ w[4] = d
  OBVIOUS
<1> HIDE DEF w
<1>3. PICK f : Sums(w, f) /\ Total(w) = f[4]
  BY <1>1, TotalSteps
<1>4. f[0] = 0 /\ \A i, j \in 0 .. 4 : j = i + 1 => f[j] = f[i] + w[j]
  BY <1>1, <1>3 DEF Sums
<1>5. f[1] = f[0] + a /\ f[2] = f[1] + b /\ f[3] = f[2] + c /\ f[4] = f[3] + d
  BY <1>2, <1>4
<1>6. f[1] \in Int /\ f[2] \in Int /\ f[3] \in Int /\ f[4] \in Int
  BY <1>1, <1>3 DEF Sums
<1>7. Total(w) = a + b + c + d
  BY <1>3, <1>4, <1>5, <1>6
<1> QED
  BY <1>7 DEF w

LEMMA Total5 ==
  ASSUME NEW a \in Int, NEW b \in Int, NEW c \in Int, NEW d \in Int, NEW e \in Int
  PROVE  Total(<<a, b, c, d, e>>) = a + b + c + d + e
<1> DEFINE w == <<a, b, c, d, e>>
<1>1. w \in Seq(Int) /\ Len(w) = 5
  OBVIOUS
<1>2. w[1] = a /\ w[2] = b /\ w[3] = c /\ w[4] = d /\ w[5] = e
  OBVIOUS
<1> HIDE DEF w
<1>3. PICK f : Sums(w, f) /\ Total(w) = f[5]
  BY <1>1, TotalSteps
<1>4. f[0] = 0 /\ \A i, j \in 0 .. 5 : j = i + 1 => f[j] = f[i] + w[j]
  BY <1>1, <1>3 DEF Sums
<1>5. f[1] = f[0] + a /\ f[2] = f[1] + b /\ f[3] = f[2] + c /\ f[4] = f[3] + d
      /\ f[5] = f[4] + e
  BY <1>2, <1>4
<1>6. f[1] \in Int /\ f[2] \in Int /\ f[3] \in Int /\ f[4] \in Int /\ f[5] \in Int
  BY <1>1, <1>3 DEF Sums
<1>7. Total(w) = a + b + c + d + e
  BY <1>3, <1>4, <1>5, <1>6
<1> QED
  BY <1>7 DEF w

LEMMA Sum6 ==
  ASSUME NEW w \in Seq(Int), Len(w) = 6
  PROVE  Total(w) = w[1] + w[2] + w[3] + w[4] + w[5] + w[6]
<1>1. PICK f : Sums(w, f) /\ Total(w) = f[6]
  BY TotalSteps
<1>2. w[1] \in Int /\ w[2] \in Int /\ w[3] \in Int /\ w[4] \in Int /\ w[5] \in Int
      /\ w[6] \in Int
  <2>1. \A i \in 1 .. 6 : w[i] \in Int
    BY LenProperties
  <2> QED
    BY <2>1
<1>3. f[1] = f[0] + w[1] /\ f[2] = f[1] + w[2] /\ f[3] = f[2] + w[3]
      /\ f[4] = f[3] + w[4] /\ f[5] = f[4] + w[5] /\ f[6] = f[5] + w[6]
  BY <1>1 DEF Sums
<1>4. f[0] = 0 /\ Total(w) = f[6]
  BY <1>1 DEF Sums
<1>5. f[4] = w[1] + w[2] + w[3] + w[4]
  BY <1>2, <1>3, <1>4
<1>6. f[6] = w[1] + w[2] + w[3] + w[4] + w[5] + w[6]
  BY <1>2, <1>3, <1>5
<1> QED
  BY <1>4, <1>6

LEMMA Sum7 ==
  ASSUME NEW w \in Seq(Int), Len(w) = 7
  PROVE  Total(w) = w[1] + w[2] + w[3] + w[4] + w[5] + w[6] + w[7]
<1>1. PICK f : Sums(w, f) /\ Total(w) = f[7]
  BY TotalSteps
<1>2. w[1] \in Int /\ w[2] \in Int /\ w[3] \in Int /\ w[4] \in Int /\ w[5] \in Int
      /\ w[6] \in Int /\ w[7] \in Int
  <2>1. \A i \in 1 .. 7 : w[i] \in Int
    BY LenProperties
  <2> QED
    BY <2>1
<1>3. f[1] = f[0] + w[1] /\ f[2] = f[1] + w[2] /\ f[3] = f[2] + w[3]
      /\ f[4] = f[3] + w[4] /\ f[5] = f[4] + w[5] /\ f[6] = f[5] + w[6]
      /\ f[7] = f[6] + w[7]
  BY <1>1 DEF Sums
<1>4. f[0] = 0 /\ Total(w) = f[7]
  BY <1>1 DEF Sums
<1>5. f[4] = w[1] + w[2] + w[3] + w[4]
  BY <1>2, <1>3, <1>4
<1>6. f[7] = w[1] + w[2] + w[3] + w[4] + w[5] + w[6] + w[7]
  BY <1>2, <1>3, <1>5
<1> QED
  BY <1>4, <1>6

LEMMA Sum8 ==
  ASSUME NEW w \in Seq(Int), Len(w) = 8
  PROVE  Total(w) = w[1] + w[2] + w[3] + w[4] + w[5] + w[6] + w[7] + w[8]
<1>1. PICK f : Sums(w, f) /\ Total(w) = f[8]
  BY TotalSteps
<1>2. w[1] \in Int /\ w[2] \in Int /\ w[3] \in Int /\ w[4] \in Int /\ w[5] \in Int
      /\ w[6] \in Int /\ w[7] \in Int /\ w[8] \in Int
  <2>1. \A i \in 1 .. 8 : w[i] \in Int
    BY LenProperties
  <2> QED
    BY <2>1
<1>3. f[1] = f[0] + w[1] /\ f[2] = f[1] + w[2] /\ f[3] = f[2] + w[3]
      /\ f[4] = f[3] + w[4] /\ f[5] = f[4] + w[5] /\ f[6] = f[5] + w[6]
      /\ f[7] = f[6] + w[7] /\ f[8] = f[7] + w[8]
  BY <1>1 DEF Sums
<1>4. f[0] = 0 /\ Total(w) = f[8]
  BY <1>1 DEF Sums
<1>5. f[4] = w[1] + w[2] + w[3] + w[4]
  BY <1>2, <1>3, <1>4
<1>6. f[8] = w[1] + w[2] + w[3] + w[4] + w[5] + w[6] + w[7] + w[8]
  BY <1>2, <1>3, <1>5
<1> QED
  BY <1>4, <1>6

LEMMA Sum9 ==
  ASSUME NEW w \in Seq(Int), Len(w) = 9
  PROVE  Total(w) = w[1] + w[2] + w[3] + w[4] + w[5] + w[6] + w[7] + w[8] + w[9]
<1>1. PICK f : Sums(w, f) /\ Total(w) = f[9]
  BY TotalSteps
<1>2. w[1] \in Int /\ w[2] \in Int /\ w[3] \in Int /\ w[4] \in Int /\ w[5] \in Int
      /\ w[6] \in Int /\ w[7] \in Int /\ w[8] \in Int /\ w[9] \in Int
  <2>1. \A i \in 1 .. 9 : w[i] \in Int
    BY LenProperties
  <2> QED
    BY <2>1
<1>3. f[1] = f[0] + w[1] /\ f[2] = f[1] + w[2] /\ f[3] = f[2] + w[3]
      /\ f[4] = f[3] + w[4] /\ f[5] = f[4] + w[5] /\ f[6] = f[5] + w[6]
      /\ f[7] = f[6] + w[7] /\ f[8] = f[7] + w[8] /\ f[9] = f[8] + w[9]
  BY <1>1 DEF Sums
<1>4. f[0] = 0 /\ Total(w) = f[9]
  BY <1>1 DEF Sums
<1>5. f[4] = w[1] + w[2] + w[3] + w[4]
  BY <1>2, <1>3, <1>4
<1>6. f[8] = w[1] + w[2] + w[3] + w[4] + w[5] + w[6] + w[7] + w[8]
  BY <1>2, <1>3, <1>5
<1>7. f[9] = w[1] + w[2] + w[3] + w[4] + w[5] + w[6] + w[7] + w[8] + w[9]
  BY <1>2, <1>3, <1>6
<1> QED
  BY <1>4, <1>7

LEMMA Sum10 ==
  ASSUME NEW w \in Seq(Int), Len(w) = 10
  PROVE  Total(w) = w[1] + w[2] + w[3] + w[4] + w[5] + w[6] + w[7] + w[8] + w[9] + w[10]
<1>1. PICK f : Sums(w, f) /\ Total(w) = f[10]
  BY TotalSteps
<1>2. w[1] \in Int /\ w[2] \in Int /\ w[3] \in Int /\ w[4] \in Int /\ w[5] \in Int
      /\ w[6] \in Int /\ w[7] \in Int /\ w[8] \in Int /\ w[9] \in Int /\ w[10] \in Int
  <2>1. \A i \in 1 .. 10 : w[i] \in Int
    BY LenProperties
  <2> QED
    BY <2>1
<1>3. f[1] = f[0] + w[1] /\ f[2] = f[1] + w[2] /\ f[3] = f[2] + w[3]
      /\ f[4] = f[3] + w[4] /\ f[5] = f[4] + w[5] /\ f[6] = f[5] + w[6]
      /\ f[7] = f[6] + w[7] /\ f[8] = f[7] + w[8] /\ f[9] = f[8] + w[9]
      /\ f[10] = f[9] + w[10]
  BY <1>1 DEF Sums
<1>4. f[0] = 0 /\ Total(w) = f[10]
  BY <1>1 DEF Sums
<1>5. f[4] = w[1] + w[2] + w[3] + w[4]
  BY <1>2, <1>3, <1>4
<1>6. f[8] = w[1] + w[2] + w[3] + w[4] + w[5] + w[6] + w[7] + w[8]
  BY <1>2, <1>3, <1>5
<1>7. f[10] = w[1] + w[2] + w[3] + w[4] + w[5] + w[6] + w[7] + w[8] + w[9] + w[10]
  BY <1>2, <1>3, <1>6
<1> QED
  BY <1>4, <1>7

LEMMA Sum11 ==
  ASSUME NEW w \in Seq(Int), Len(w) = 11
  PROVE  Total(w) = w[1] + w[2] + w[3] + w[4] + w[5] + w[6] + w[7] + w[8] + w[9] + w[10]
                    + w[11]
<1>1. PICK f : Sums(w, f) /\ Total(w) = f[11]
  BY TotalSteps
<1>2. w[1] \in Int /\ w[2] \in Int /\ w[3] \in Int /\ w[4] \in Int /\ w[5] \in Int
      /\ w[6] \in Int /\ w[7] \in Int /\ w[8] \in Int /\ w[9] \in Int /\ w[10] \in Int
      /\ w[11] \in Int
  <2>1. \A i \in 1 .. 11 : w[i] \in Int
    BY LenProperties
  <2> QED
    BY <2>1
<1>3. f[1] = f[0] + w[1] /\ f[2] = f[1] + w[2] /\ f[3] = f[2] + w[3]
      /\ f[4] = f[3] + w[4] /\ f[5] = f[4] + w[5] /\ f[6] = f[5] + w[6]
      /\ f[7] = f[6] + w[7] /\ f[8] = f[7] + w[8] /\ f[9] = f[8] + w[9]
      /\ f[10] = f[9] + w[10] /\ f[11] = f[10] + w[11]
  BY <1>1 DEF Sums
<1>4. f[0] = 0 /\ Total(w) = f[11]
  BY <1>1 DEF Sums
<1>5. f[4] = w[1] + w[2] + w[3] + w[4]
  BY <1>2, <1>3, <1>4
<1>6. f[8] = w[1] + w[2] + w[3] + w[4] + w[5] + w[6] + w[7] + w[8]
  BY <1>2, <1>3, <1>5
<1>7. f[11] = w[1] + w[2] + w[3] + w[4] + w[5] + w[6] + w[7] + w[8] + w[9] + w[10]
              + w[11]
  BY <1>2, <1>3, <1>6
<1> QED
  BY <1>4, <1>7

LEMMA Sum12 ==
  ASSUME NEW w \in Seq(Int), Len(w) = 12
  PROVE  Total(w) = w[1] + w[2] + w[3] + w[4] + w[5] + w[6] + w[7] + w[8] + w[9] + w[10]
                    + w[11] + w[12]
<1>1. PICK f : Sums(w, f) /\ Total(w) = f[12]
  BY TotalSteps
<1>2. w[1] \in Int /\ w[2] \in Int /\ w[3] \in Int /\ w[4] \in Int /\ w[5] \in Int
      /\ w[6] \in Int /\ w[7] \in Int /\ w[8] \in Int /\ w[9] \in Int /\ w[10] \in Int
      /\ w[11] \in Int /\ w[12] \in Int
  <2>1. \A i \in 1 .. 12 : w[i] \in Int
    BY LenProperties
  <2> QED
    BY <2>1
<1>3. f[1] = f[0] + w[1] /\ f[2] = f[1] + w[2] /\ f[3] = f[2] + w[3]
      /\ f[4] = f[3] + w[4] /\ f[5] = f[4] + w[5] /\ f[6] = f[5] + w[6]
      /\ f[7] = f[6] + w[7] /\ f[8] = f[7] + w[8] /\ f[9] = f[8] + w[9]
      /\ f[10] = f[9] + w[10] /\ f[11] = f[10] + w[11] /\ f[12] = f[11] + w[12]
  BY <1>1 DEF Sums
<1>4. f[0] = 0 /\ Total(w) = f[12]
  BY <1>1 DEF Sums
<1>5. f[4] = w[1] + w[2] + w[3] + w[4]
  BY <1>2, <1>3, <1>4
<1>6. f[8] = w[1] + w[2] + w[3] + w[4] + w[5] + w[6] + w[7] + w[8]
  BY <1>2, <1>3, <1>5
<1>7. f[12] = w[1] + w[2] + w[3] + w[4] + w[5] + w[6] + w[7] + w[8] + w[9] + w[10]
              + w[11] + w[12]
  BY <1>2, <1>3, <1>6
<1> QED
  BY <1>4, <1>7

LEMMA Sum13 ==
  ASSUME NEW w \in Seq(Int), Len(w) = 13
  PROVE  Total(w) = w[1] + w[2] + w[3] + w[4] + w[5] + w[6] + w[7] + w[8] + w[9] + w[10]
                    + w[11] + w[12] + w[13]
<1>1. PICK f : Sums(w, f) /\ Total(w) = f[13]
  BY TotalSteps
<1>2. w[1] \in Int /\ w[2] \in Int /\ w[3] \in Int /\ w[4] \in Int /\ w[5] \in Int
      /\ w[6] \in Int /\ w[7] \in Int /\ w[8] \in Int /\ w[9] \in Int /\ w[10] \in Int
      /\ w[11] \in Int /\ w[12] \in Int /\ w[13] \in Int
  <2>1. \A i \in 1 .. 13 : w[i] \in Int
    BY LenProperties
  <2> QED
    BY <2>1
<1>3. f[1] = f[0] + w[1] /\ f[2] = f[1] + w[2] /\ f[3] = f[2] + w[3]
      /\ f[4] = f[3] + w[4] /\ f[5] = f[4] + w[5] /\ f[6] = f[5] + w[6]
      /\ f[7] = f[6] + w[7] /\ f[8] = f[7] + w[8] /\ f[9] = f[8] + w[9]
      /\ f[10] = f[9] + w[10] /\ f[11] = f[10] + w[11] /\ f[12] = f[11] + w[12]
      /\ f[13] = f[12] + w[13]
  BY <1>1 DEF Sums
<1>4. f[0] = 0 /\ Total(w) = f[13]
  BY <1>1 DEF Sums
<1>5. f[4] = w[1] + w[2] + w[3] + w[4]
  BY <1>2, <1>3, <1>4
<1>6. f[8] = w[1] + w[2] + w[3] + w[4] + w[5] + w[6] + w[7] + w[8]
  BY <1>2, <1>3, <1>5
<1>7. f[12] = w[1] + w[2] + w[3] + w[4] + w[5] + w[6] + w[7] + w[8] + w[9] + w[10]
              + w[11] + w[12]
  BY <1>2, <1>3, <1>6
<1>8. f[13] = w[1] + w[2] + w[3] + w[4] + w[5] + w[6] + w[7] + w[8] + w[9] + w[10]
              + w[11] + w[12] + w[13]
  BY <1>2, <1>3, <1>7
<1> QED
  BY <1>4, <1>8

LEMMA Sum14 ==
  ASSUME NEW w \in Seq(Int), Len(w) = 14
  PROVE  Total(w) = w[1] + w[2] + w[3] + w[4] + w[5] + w[6] + w[7] + w[8] + w[9] + w[10]
                    + w[11] + w[12] + w[13] + w[14]
<1>1. PICK f : Sums(w, f) /\ Total(w) = f[14]
  BY TotalSteps
<1>2. w[1] \in Int /\ w[2] \in Int /\ w[3] \in Int /\ w[4] \in Int /\ w[5] \in Int
      /\ w[6] \in Int /\ w[7] \in Int /\ w[8] \in Int /\ w[9] \in Int /\ w[10] \in Int
      /\ w[11] \in Int /\ w[12] \in Int /\ w[13] \in Int /\ w[14] \in Int
  <2>1. \A i \in 1 .. 14 : w[i] \in Int
    BY LenProperties
  <2> QED
    BY <2>1
<1>3. f[1] = f[0] + w[1] /\ f[2] = f[1] + w[2] /\ f[3] = f[2] + w[3]
      /\ f[4] = f[3] + w[4] /\ f[5] = f[4] + w[5] /\ f[6] = f[5] + w[6]
      /\ f[7] = f[6] + w[7] /\ f[8] = f[7] + w[8] /\ f[9] = f[8] + w[9]
      /\ f[10] = f[9] + w[10] /\ f[11] = f[10] + w[11] /\ f[12] = f[11] + w[12]
      /\ f[13] = f[12] + w[13] /\ f[14] = f[13] + w[14]
  BY <1>1 DEF Sums
<1>4. f[0] = 0 /\ Total(w) = f[14]
  BY <1>1 DEF Sums
<1>5. f[4] = w[1] + w[2] + w[3] + w[4]
  BY <1>2, <1>3, <1>4
<1>6. f[8] = w[1] + w[2] + w[3] + w[4] + w[5] + w[6] + w[7] + w[8]
  BY <1>2, <1>3, <1>5
<1>7. f[12] = w[1] + w[2] + w[3] + w[4] + w[5] + w[6] + w[7] + w[8] + w[9] + w[10]
              + w[11] + w[12]
  BY <1>2, <1>3, <1>6
<1>8. f[14] = w[1] + w[2] + w[3] + w[4] + w[5] + w[6] + w[7] + w[8] + w[9] + w[10]
              + w[11] + w[12] + w[13] + w[14]
  BY <1>2, <1>3, <1>7
<1> QED
  BY <1>4, <1>8

\* The sum of ones.
LEMMA TotalOnes ==
  ASSUME NEW w \in Seq(Int), \A i \in 1 .. Len(w) : w[i] = 1
  PROVE  Total(w) = Len(w)
<1>1. PICK f : /\ f[0] = 0 /\ \A i \in 1 .. Len(w) : f[i] = f[i - 1] + w[i]
               /\ \A i \in 0 .. Len(w) : f[i] \in Int
               /\ Total(w) = f[Len(w)]
  BY TotalOf
<1> DEFINE n == Len(w)
           T == {i \in 0 .. n : f[i] # i}
<1>2. n \in Nat
  BY LenProperties
<1>3. f[0] = 0 /\ \A i \in 1 .. n : f[i] = f[i - 1] + 1
  BY <1>1
<1> HIDE DEF n
<1>4. T = {}
  <2> SUFFICES ASSUME T # {} PROVE FALSE
    OBVIOUS
  <2>1. PICK i \in T : \A j \in T : i <= j
    <3>1. T \subseteq Nat
      BY <1>2
    <3> HIDE DEF T
    <3> QED
      BY <3>1, LeastOf
  <2>2. i \in 1 .. n /\ i - 1 \in 0 .. n /\ i - 1 \notin T /\ f[i] # i
    BY <1>2, <1>3, <2>1
  <2>3. f[i - 1] = i - 1
    BY <2>2
  <2> QED
    BY <1>3, <2>2, <2>3
<1>5. f[n] = n
  BY <1>2, <1>4
<1> QED
  BY <1>1, <1>5 DEF n

-----------------------------------------------------------------------------
(* Bit fields, and structures without a packing. *)

\* A union of a unit with bit fields that fit into it takes the unit.
LEMMA FlagsOf ==
  ASSUME NEW w, NEW n \in Int, Total(w) = n
  PROVE  /\ n <= 8 => Flags(1, w) = 1
         /\ n <= 16 => Flags(2, w) = 2
         /\ n <= 32 => Flags(4, w) = 4
<1>1. /\ n <= 8 => ~ (n + 8 - 1) \div 8 > 1
      /\ n <= 16 => ~ (n + 16 - 1) \div 16 > 1
      /\ n <= 32 => ~ (n + 32 - 1) \div 32 > 1
  OBVIOUS
<1>2. 8 * 1 = 8 /\ 8 * 2 = 16 /\ 8 * 4 = 32
  OBVIOUS
<1> QED
  BY <1>1, <1>2 DEF Flags

\* RoundUp goes to the next multiple.
LEMMA RoundUpOf ==
  ASSUME NEW n \in Int
  PROVE  /\ RoundUp(n, 1) = n
         /\ n % 2 = 0 => RoundUp(n, 2) = n
         /\ n % 4 = 0 => RoundUp(n, 4) = n
BY DEF RoundUp

LEMMA RoundUpType ==
  ASSUME NEW n \in Int, NEW a \in Nat \ {0}
  PROVE  RoundUp(n, a) \in Int
BY DEF RoundUp

\* The largest alignment of the fields w is m.
Widest(w, m) ==
  (\E i \in 1 .. Len(w) : w[i][2] = m) /\ \A i \in 1 .. Len(w) : w[i][2] <= m

\* f[i] is where the first i of the fields w end.
FieldEnds(w, f) ==
  f[0] = 0 /\ \A i, j \in 0 .. Len(w) :
                j = i + 1 => f[j] = RoundUp(f[i], w[j][2]) + w[j][1]

\* What Aligned returns, and how it comes about.
LEMMA AlignedOf ==
  ASSUME NEW w \in Seq(Int \X (Nat \ {0})), NEW m \in Nat, Widest(w, m)
  PROVE  \E f : FieldEnds(w, f) /\ Aligned(w) = RoundUp(f[Len(w)], m)
<1> DEFINE n == Len(w)
           Ends(f) == f = [i \in 0 .. n |->
                             IF i = 0 THEN 0 ELSE RoundUp(f[i - 1], w[i][2]) + w[i][1]]
           h == [x \in (1 .. n) \X Int |-> RoundUp(x[2], w[x[1]][2]) + w[x[1]][1]]
           f == CHOOSE g : Ends(g)
           aligns == {w[i][2] : i \in 1 .. n}
<1>1. n \in Nat /\ \A i \in 1 .. n : w[i] \in Int \X (Nat \ {0})
  BY LenProperties
<1>2. \A i \in 1 .. n, v \in Int : RoundUp(v, w[i][2]) + w[i][1] \in Int
  <2> SUFFICES ASSUME NEW i \in 1 .. n, NEW v \in Int
               PROVE  RoundUp(v, w[i][2]) + w[i][1] \in Int
    OBVIOUS
  <2>1. w[i][2] \in Nat \ {0} /\ w[i][1] \in Int
    BY <1>1
  <2>2. RoundUp(v, w[i][2]) \in Int
    BY <2>1, RoundUpType
  <2> QED
    BY <2>1, <2>2
<1>3. h \in [(1 .. n) \X Int -> Int]
      /\ \A i \in 1 .. n, v \in Int : h[<<i, v>>] = RoundUp(v, w[i][2]) + w[i][1]
  BY <1>2
<1>4. Ends(f)
  <2> HIDE DEF n, h
  <2>1. PICK g : Chain(g, h, n)
    BY <1>1, <1>3, ChainExists
  <2>2. \A i \in 0 .. n : g[i] \in Int
    BY <1>1, <1>3, <2>1, ChainTyped
  <2>3. \A i \in 1 .. n : h[<<i, g[i - 1]>>] = RoundUp(g[i - 1], w[i][2]) + w[i][1]
    BY <1>1, <1>3, <2>2
  <2>4. Ends(g)
    <3>1. \A i \in 0 .. n : i = 0 \/ i \in 1 .. n
      BY <1>1
    <3>2. \A i \in 0 .. n : (IF i = 0 THEN 0 ELSE h[<<i, g[i - 1]>>])
                              = IF i = 0 THEN 0 ELSE RoundUp(g[i - 1], w[i][2]) + w[i][1]
      BY <2>3, <3>1
    <3>3. [i \in 0 .. n |-> IF i = 0 THEN 0 ELSE h[<<i, g[i - 1]>>]]
            = [i \in 0 .. n |->
                 IF i = 0 THEN 0 ELSE RoundUp(g[i - 1], w[i][2]) + w[i][1]]
      BY <3>2
    <3> QED
      BY <2>1, <3>3 DEF Chain
  <2> HIDE DEF Ends
  <2> QED
    BY <2>4
<1>5. Max(aligns) = m
  <2>1. m \in aligns /\ (\A y \in aligns : m >= y) /\ aligns \subseteq Nat
    BY <1>1 DEF Widest
  <2> HIDE DEF aligns
  <2>2. Max(aligns) \in aligns /\ \A y \in aligns : Max(aligns) >= y
    BY <2>1 DEF Max
  <2>3. Max(aligns) \in Nat /\ m >= Max(aligns) /\ Max(aligns) >= m
    BY <2>1, <2>2
  <2> HIDE DEF Max
  <2> QED
    BY <2>3
<1>6. Aligned(w) = RoundUp(f[n], m)
  BY <1>5 DEF Aligned
<1> HIDE DEF f
<1>7. f[0] = 0
      /\ \A i \in 1 .. n : f[i] = RoundUp(f[i - 1], w[i][2]) + w[i][1]
  <2>1. 0 \in 0 .. n /\ \A i \in 1 .. n : i \in 0 .. n /\ i # 0
    BY <1>1
  <2> QED
    BY <1>4, <2>1
<1>8. \A i \in 0 .. n : f[i] \in Int
  <2> HIDE DEF h, n
  <2> DEFINE T == {i \in 0 .. n : f[i] \notin Int}
  <2>1. T = {}
    <3> SUFFICES ASSUME T # {} PROVE FALSE
      OBVIOUS
    <3>1. PICK i \in T : \A j \in T : i <= j
      <4>1. T \subseteq Nat
        BY <1>1
      <4> HIDE DEF T
      <4> QED
        BY <4>1, LeastOf
    <3>2. f[0] \in Int
      BY <1>7
    <3>3. i \in 1 .. n /\ i - 1 \in 0 .. n /\ i - 1 \notin T /\ f[i] \notin Int
      BY <1>1, <3>1, <3>2
    <3>4. f[i - 1] \in Int
      BY <3>3
    <3> QED
      BY <1>2, <1>7, <3>3, <3>4
  <2> QED
    BY <2>1
<1>9. \A i, j \in 0 .. n : j = i + 1 => f[j] = RoundUp(f[i], w[j][2]) + w[j][1]
  <2> HIDE DEF n, h
  <2>1. \A i, j \in 0 .. n : j = i + 1 => j \in 1 .. n /\ j - 1 = i
    BY <1>1, NextIndex
  <2> SUFFICES ASSUME NEW i \in 0 .. n, NEW j \in 0 .. n, j = i + 1
               PROVE  f[j] = RoundUp(f[i], w[j][2]) + w[j][1]
    OBVIOUS
  <2>2. j \in 1 .. n /\ j - 1 = i
    BY <2>1
  <2>3. f[j] = RoundUp(f[j - 1], w[j][2]) + w[j][1]
    BY <1>7, <2>2
  <2> QED
    BY <2>2, <2>3
<1> QED
  BY <1>6, <1>7, <1>9 DEF FieldEnds

-----------------------------------------------------------------------------
(* The sizes of the classes. *)

\* What several tables have in common.
LEMMA CommonSizes ==
  /\ TableHeader = 36
  /\ GAS = 12
<1>1. TableHeader = 36
  <2> DEFINE w == <<4, 4, 1, 1, 6, 8, 4, 4, 4>>
  <2>1. w \in Seq(Int) /\ Len(w) = 9
    OBVIOUS
  <2>2. w[1] = 4 /\ w[2] = 4 /\ w[3] = 1 /\ w[4] = 1 /\ w[5] = 6 /\ w[6] = 8 /\ w[7] = 4
        /\ w[8] = 4 /\ w[9] = 4
    OBVIOUS
  <2> HIDE DEF w
  <2>3. Total(w) = w[1] + w[2] + w[3] + w[4] + w[5] + w[6] + w[7] + w[8] + w[9]
    BY <2>1, Sum9
  <2>4. Total(w) = 36
    BY <2>2, <2>3
  <2> QED
    BY <2>4 DEF w, TableHeader, Packed
<1>2. GAS = 12
  BY Total5 DEF GAS, Packed
<1> QED
  BY <1>1, <1>2

\* The records of the APIC table.
LEMMA ApicSizes ==
  /\ \A n \in Int : apic_factory(n) = 44 + n
  /\ APICSubtable = 2
  /\ APICSubtableLocalApic = 8
  /\ APICSubtableIOApic = 12
  /\ APICSubtableNmiIntSrc = 8
  /\ APICSubtableLocalApicNmi = 6
  /\ APICSubtableIntSrcOverride = 10
  /\ APICSubtableLocalx2Apic = 16
  /\ APICSubtableLocalx2ApicNmi = 12
  /\ APICSubtableLocalGIC = 40
  /\ APICSubtableLocalGICDistributor = 24
  /\ \A n \in Int : APICSubtableUnknown_factory(n) = 2 + n
<1>1. APIC_table_flags = 4
  <2>1. Total(<<1>>) = 1
    BY Total1
  <2> QED
    BY <2>1, FlagsOf DEF APIC_table_flags
<1>2. \A n \in Int : apic_factory(n) = 44 + n
  BY <1>1, CommonSizes, Total4 DEF apic_factory, Packed
<1>3. APICSubtable = 2
  BY Total2 DEF APICSubtable, Packed
<1>4. local_apic_flags = 4
  <2>1. Total(<<1>>) = 1
    BY Total1
  <2> QED
    BY <2>1, FlagsOf DEF local_apic_flags
<1>5. APICSubtableLocalApic = 8
  BY <1>3, <1>4, Total4 DEF APICSubtableLocalApic, Packed
<1>6. APICSubtableIOApic = 12
  BY <1>3, Total5 DEF APICSubtableIOApic, Packed
<1>7. APICSubtable_int_flags = 2
  <2>1. Total(<<2, 2>>) = 4
    BY Total2
  <2> QED
    BY <2>1, FlagsOf DEF APICSubtable_int_flags
<1>8. APICSubtableNmiIntSrc = 8
  BY <1>3, <1>7, Total3 DEF APICSubtableNmiIntSrc, Packed
<1>9. APICSubtableLocalApicNmi = 6
  BY <1>3, <1>7, Total4 DEF APICSubtableLocalApicNmi, Packed
<1>10. APICSubtableIntSrcOverride = 10
  BY <1>3, <1>7, Total5 DEF APICSubtableIntSrcOverride, Packed
<1>11. APICSubtableLocalx2Apic = 16
  BY <1>3, <1>4, Total5 DEF APICSubtableLocalx2Apic, Packed
<1>12. APICSubtableLocalx2ApicNmi = 12
  BY <1>3, <1>7, Total5 DEF APICSubtableLocalx2ApicNmi, Packed
<1>13. APICSubtableLocalGIC_flags = 4
  <2>1. Total(<<1, 1>>) = 2
    BY Total2
  <2> QED
    BY <2>1, FlagsOf DEF APICSubtableLocalGIC_flags
<1>14. APICSubtableLocalGIC = 40
  <2> DEFINE w == <<APICSubtable, 2, 4, 4, APICSubtableLocalGIC_flags, 4, 4, 8, 8>>
  <2>1. w \in Seq(Int) /\ Len(w) = 9
    BY <1>3, <1>13
  <2>2. w[1] = 2 /\ w[2] = 2 /\ w[3] = 4 /\ w[4] = 4 /\ w[5] = 4 /\ w[6] = 4 /\ w[7] = 4
        /\ w[8] = 8 /\ w[9] = 8
    BY <1>3, <1>13
  <2> HIDE DEF w
  <2>3. Total(w) = w[1] + w[2] + w[3] + w[4] + w[5] + w[6] + w[7] + w[8] + w[9]
    BY <2>1, Sum9
  <2>4. Total(w) = 40
    BY <2>2, <2>3
  <2> QED
    BY <2>4 DEF w, APICSubtableLocalGIC, Packed
<1>15. APICSubtableLocalGICDistributor = 24
  <2> DEFINE w == <<APICSubtable, 2, 4, 8, 4, 4>>
  <2>1. w \in Seq(Int) /\ Len(w) = 6
    BY <1>3
  <2>2. w[1] = 2 /\ w[2] = 2 /\ w[3] = 4 /\ w[4] = 8 /\ w[5] = 4 /\ w[6] = 4
    BY <1>3
  <2> HIDE DEF w
  <2>3. Total(w) = w[1] + w[2] + w[3] + w[4] + w[5] + w[6]
    BY <2>1, Sum6
  <2>4. Total(w) = 24
    BY <2>2, <2>3
  <2> QED
    BY <2>4 DEF w, APICSubtableLocalGICDistributor, Packed
<1>16. \A n \in Int : APICSubtableUnknown_factory(n) = 2 + n
  BY <1>3, Total2 DEF APICSubtableUnknown_factory, Packed
<1> QED
  BY <1>2, <1>3, <1>5, <1>6, <1>8, <1>9, <1>10, <1>11, <1>12, <1>14, <1>15, <1>16

\* The records of ASF!.
LEMMA AsfSizes ==
  /\ \A n \in Int : ASF_factory(n) = 36 + n
  /\ ASF_info_record = 16
  /\ \A n \in Int : ASF_alrt_factory(n) = 8 + 12 * n
  /\ \A n \in Int : ASF_rctl_factory(n) = 8 + 4 * n
  /\ ASF_rmcp = 23
  /\ \A n \in Int : ASF_addr_record_factory(n) = 6 + n
<1>1. \A n \in Int : ASF_factory(n) = 36 + n
  BY CommonSizes, Total2 DEF ASF_factory, Packed
<1>2. ASFSubtable = 4
  BY Total3 DEF ASFSubtable, Packed
<1>3. ASF_info_flags = 1
  <2>1. Total(<<1>>) = 1
    BY Total1
  <2> QED
    BY <2>1, FlagsOf DEF ASF_info_flags
<1>4. ASF_info_record = 16
  <2> DEFINE w == <<ASFSubtable, 1, 1, 2, 4, ASF_info_flags, 3>>
  <2>1. w \in Seq(Int) /\ Len(w) = 7
    BY <1>2, <1>3
  <2>2. w[1] = 4 /\ w[2] = 1 /\ w[3] = 1 /\ w[4] = 2 /\ w[5] = 4 /\ w[6] = 1 /\ w[7] = 3
    BY <1>2, <1>3
  <2> HIDE DEF w
  <2>3. Total(w) = w[1] + w[2] + w[3] + w[4] + w[5] + w[6] + w[7]
    BY <2>1, Sum7
  <2>4. Total(w) = 16
    BY <2>2, <2>3
  <2> QED
    BY <2>4 DEF w, ASF_info_record, Packed
<1>5. ASF_ALERTDATA = 12
  <2> DEFINE w == <<1, 1, 1, 1, 1, 1, 1, 1, 1, 1, 1, 1>>
  <2>1. w \in Seq(Int) /\ Len(w) = 12
    OBVIOUS
  <2>2. w[1] = 1 /\ w[2] = 1 /\ w[3] = 1 /\ w[4] = 1 /\ w[5] = 1 /\ w[6] = 1 /\ w[7] = 1
        /\ w[8] = 1 /\ w[9] = 1 /\ w[10] = 1 /\ w[11] = 1 /\ w[12] = 1
    OBVIOUS
  <2> HIDE DEF w
  <2>3. Total(w) = w[1] + w[2] + w[3] + w[4] + w[5] + w[6] + w[7] + w[8] + w[9] + w[10]
                   + w[11] + w[12]
    BY <2>1, Sum12
  <2>4. Total(w) = 12
    BY <2>2, <2>3
  <2> QED
    BY <2>4 DEF w, ASF_ALERTDATA, Packed
<1>6. \A n \in Int : ASF_alrt_factory(n) = 8 + 12 * n
  <2> SUFFICES ASSUME NEW n \in Int
               PROVE  ASF_alrt_factory(n) = 8 + 12 * n
    OBVIOUS
  <2> DEFINE w == <<ASFSubtable, 1, 1, 1, 1, ASF_ALERTDATA * n>>
  <2>1. w \in Seq(Int) /\ Len(w) = 6
    BY <1>2, <1>5
  <2>2. w[1] = 4 /\ w[2] = 1 /\ w[3] = 1 /\ w[4] = 1 /\ w[5] = 1 /\ w[6] = 12 * n
    BY <1>2, <1>5
  <2> HIDE DEF w
  <2>3. Total(w) = w[1] + w[2] + w[3] + w[4] + w[5] + w[6]
    BY <2>1, Sum6
  <2>4. Total(w) = 8 + 12 * n
    BY <2>2, <2>3
  <2> QED
    BY <2>4 DEF w, ASF_alrt_factory, Packed
<1>7. ASF_CONTROLDATA = 4
  BY Total4 DEF ASF_CONTROLDATA, Packed
<1>8. \A n \in Int : ASF_rctl_factory(n) = 8 + 4 * n
  BY <1>2, <1>7, Total5 DEF ASF_rctl_factory, Packed
<1>9. ASF_boot_options_capabilities_1 = 1
  <2> DEFINE w == <<1, 1, 1, 2, 1, 1, 1>>
  <2>1. w \in Seq(Int) /\ Len(w) = 7 /\ w[1] = 1 /\ w[2] = 1 /\ w[3] = 1 /\ w[4] = 2 /\ w[5] = 1 /\ w[6] = 1 /\ w[7] = 1
    OBVIOUS
  <2> HIDE DEF w
  <2>2. Total(w) = w[1] + w[2] + w[3] + w[4] + w[5] + w[6] + w[7]
    BY <2>1, Sum7
  <2>3. Total(w) = 8
    BY <2>1, <2>2
  <2> QED
    BY <2>3, FlagsOf DEF w, ASF_boot_options_capabilities_1
<1>10. ASF_boot_options_capabilities_2 = 1
  <2> DEFINE w == <<3, 1, 1, 1, 1, 1>>
  <2>1. w \in Seq(Int) /\ Len(w) = 6 /\ w[1] = 3 /\ w[2] = 1 /\ w[3] = 1 /\ w[4] = 1 /\ w[5] = 1 /\ w[6] = 1
    OBVIOUS
  <2> HIDE DEF w
  <2>2. Total(w) = w[1] + w[2] + w[3] + w[4] + w[5] + w[6]
    BY <2>1, Sum6
  <2>3. Total(w) = 8
    BY <2>1, <2>2
  <2> QED
    BY <2>3, FlagsOf DEF w, ASF_boot_options_capabilities_2
<1>11. ASF_special_commands_2 = 1
  <2> DEFINE w == <<1, 1, 1, 1, 1, 3>>
  <2>1. w \in Seq(Int) /\ Len(w) = 6 /\ w[1] = 1 /\ w[2] = 1 /\ w[3] = 1 /\ w[4] = 1 /\ w[5] = 1 /\ w[6] = 3
    OBVIOUS
  <2> HIDE DEF w
  <2>2. Total(w) = w[1] + w[2] + w[3] + w[4] + w[5] + w[6]
    BY <2>1, Sum6
  <2>3. Total(w) = 8
    BY <2>1, <2>2
  <2> QED
    BY <2>3, FlagsOf DEF w, ASF_special_commands_2
<1>12. ASF_system_capabilities = 1
  <2> DEFINE w == <<1, 1, 1, 1, 1, 1, 1, 1>>
  <2>1. w \in Seq(Int) /\ Len(w) = 8 /\ \A i \in 1 .. 8 : w[i] = 1
    OBVIOUS
  <2> HIDE DEF w
  <2>2. Total(w) = 8
    BY <2>1, TotalOnes
  <2> QED
    BY <2>2, FlagsOf DEF w, ASF_system_capabilities
<1>13. ASF_rmcp = 23
  <2> DEFINE w == <<ASFSubtable, ASF_boot_options_capabilities_1
                  , ASF_boot_options_capabilities_2, 1, 1, 1, ASF_special_commands_2
                  , ASF_system_capabilities, 1, 4, 1, 2, 2, 2>>
  <2>1. w \in Seq(Int) /\ Len(w) = 14
    BY <1>2, <1>9, <1>10, <1>11, <1>12
  <2>2. w[1] = 4 /\ w[2] = 1 /\ w[3] = 1 /\ w[4] = 1 /\ w[5] = 1 /\ w[6] = 1 /\ w[7] = 1
        /\ w[8] = 1 /\ w[9] = 1 /\ w[10] = 4 /\ w[11] = 1 /\ w[12] = 2 /\ w[13] = 2
        /\ w[14] = 2
    BY <1>2, <1>9, <1>10, <1>11, <1>12
  <2> HIDE DEF w
  <2>3. Total(w) = w[1] + w[2] + w[3] + w[4] + w[5] + w[6] + w[7] + w[8] + w[9] + w[10]
                   + w[11] + w[12] + w[13] + w[14]
    BY <2>1, Sum14
  <2>4. Total(w) = 23
    BY <2>2, <2>3
  <2> QED
    BY <2>4 DEF w, ASF_rmcp, Packed
<1>14. fixed_smbus_address = 1
  BY Total1 DEF fixed_smbus_address, Packed
<1>15. \A n \in Int : ASF_addr_record_factory(n) = 6 + n
  BY <1>2, <1>14, Total4 DEF ASF_addr_record_factory, Packed
<1> QED
  BY <1>1, <1>4, <1>6, <1>8, <1>13, <1>15

\* The records of PCCT.
LEMMA PcctSizes ==
  /\ \A n \in Int : pcct_factory(n) = 48 + n
  /\ PCCTSubtable = 2
  /\ \A n \in Int : pcct_subtable_unknown_factory(n) = 2 + n
  /\ PCCTGenericCommSubspace = 62
<1>1. PCCT_flags = 4
  <2>1. Total(<<1>>) = 1
    BY Total1
  <2> QED
    BY <2>1, FlagsOf DEF PCCT_flags
<1>2. \A n \in Int : pcct_factory(n) = 48 + n
  BY <1>1, CommonSizes, Total4 DEF pcct_factory, Packed
<1>3. PCCTSubtable = 2
  BY Total2 DEF PCCTSubtable, Packed
<1>4. \A n \in Int : pcct_subtable_unknown_factory(n) = 2 + n
  BY <1>3, Total2 DEF pcct_subtable_unknown_factory, Packed
<1>5. PCCTGenericCommSubspace = 62
  <2> DEFINE w == <<PCCTSubtable, 6, 8, 8, GAS, 8, 8, 4, 4, 2>>
  <2>1. w \in Seq(Int) /\ Len(w) = 10
    BY <1>3, CommonSizes
  <2>2. w[1] = 2 /\ w[2] = 6 /\ w[3] = 8 /\ w[4] = 8 /\ w[5] = 12 /\ w[6] = 8
        /\ w[7] = 8 /\ w[8] = 4 /\ w[9] = 4 /\ w[10] = 2
    BY <1>3, CommonSizes
  <2> HIDE DEF w
  <2>3. Total(w) = w[1] + w[2] + w[3] + w[4] + w[5] + w[6] + w[7] + w[8] + w[9] + w[10]
    BY <2>1, Sum10
  <2>4. Total(w) = 62
    BY <2>2, <2>3
  <2> QED
    BY <2>4 DEF w, PCCTGenericCommSubspace, Packed
<1> QED
  BY <1>2, <1>3, <1>4, <1>5

\* The records of SRAT.
LEMMA SratSizes ==
  /\ \A n \in Int : srat_factory(n) = 48 + n
  /\ SRATLocalApicAffinity = 16
  /\ SRATMemoryAffinity = 40
  /\ SRATLocalX2ApicAffinity = 24
<1>1. \A n \in Int : srat_factory(n) = 48 + n
  BY CommonSizes, Total4 DEF srat_factory, Packed
<1>2. SRATSubtable = 2
  BY Total2 DEF SRATSubtable, Packed
<1>3. SRATLocalApicAffinity_flags = 4
  <2>1. Total(<<1>>) = 1
    BY Total1
  <2> QED
    BY <2>1, FlagsOf DEF SRATLocalApicAffinity_flags
<1>4. SRATLocalApicAffinity = 16
  <2> DEFINE w == <<SRATSubtable, 1, 1, SRATLocalApicAffinity_flags, 1, 3, 4>>
  <2>1. w \in Seq(Int) /\ Len(w) = 7
    BY <1>2, <1>3
  <2>2. w[1] = 2 /\ w[2] = 1 /\ w[3] = 1 /\ w[4] = 4 /\ w[5] = 1 /\ w[6] = 3 /\ w[7] = 4
    BY <1>2, <1>3
  <2> HIDE DEF w
  <2>3. Total(w) = w[1] + w[2] + w[3] + w[4] + w[5] + w[6] + w[7]
    BY <2>1, Sum7
  <2>4. Total(w) = 16
    BY <2>2, <2>3
  <2> QED
    BY <2>4 DEF w, SRATLocalApicAffinity, Packed
<1>5. SRATMemoryAffinity_flags = 4
  <2>1. Total(<<1, 1, 1>>) = 3
    BY Total3
  <2> QED
    BY <2>1, FlagsOf DEF SRATMemoryAffinity_flags
<1>6. SRATMemoryAffinity = 40
  <2> DEFINE w == <<SRATSubtable, 4, 2, 4, 4, 4, 4, 4, SRATMemoryAffinity_flags, 8>>
  <2>1. w \in Seq(Int) /\ Len(w) = 10
    BY <1>2, <1>5
  <2>2. w[1] = 2 /\ w[2] = 4 /\ w[3] = 2 /\ w[4] = 4 /\ w[5] = 4 /\ w[6] = 4 /\ w[7] = 4
        /\ w[8] = 4 /\ w[9] = 4 /\ w[10] = 8
    BY <1>2, <1>5
  <2> HIDE DEF w
  <2>3. Total(w) = w[1] + w[2] + w[3] + w[4] + w[5] + w[6] + w[7] + w[8] + w[9] + w[10]
    BY <2>1, Sum10
  <2>4. Total(w) = 40
    BY <2>2, <2>3
  <2> QED
    BY <2>4 DEF w, SRATMemoryAffinity, Packed
<1>7. SRATLocalX2ApicAffinity_flags = 4
  <2>1. Total(<<1>>) = 1
    BY Total1
  <2> QED
    BY <2>1, FlagsOf DEF SRATLocalX2ApicAffinity_flags
<1>8. SRATLocalX2ApicAffinity = 24
  <2> DEFINE w == <<SRATSubtable, 2, 4, 4, SRATLocalX2ApicAffinity_flags, 4, 4>>
  <2>1. w \in Seq(Int) /\ Len(w) = 7
    BY <1>2, <1>7
  <2>2. w[1] = 2 /\ w[2] = 2 /\ w[3] = 4 /\ w[4] = 4 /\ w[5] = 4 /\ w[6] = 4 /\ w[7] = 4
    BY <1>2, <1>7
  <2> HIDE DEF w
  <2>3. Total(w) = w[1] + w[2] + w[3] + w[4] + w[5] + w[6] + w[7]
    BY <2>1, Sum7
  <2>4. Total(w) = 24
    BY <2>2, <2>3
  <2> QED
    BY <2>4 DEF w, SRATLocalX2ApicAffinity, Packed
<1> QED
  BY <1>1, <1>4, <1>6, <1>8

\* The records of PMTT.
LEMMA PmttSizes ==
  /\ \A n \in Int : pmtt_factory(n) = 40 + n
  /\ PMTTSubtable = 8
  /\ \A n \in Int : PMTTSubtableSocket_factory(n) = 12 + n
  /\ \A n, s \in Int : PMTTSubtableMemController_factory(n, s) = 32 + 4 * n + s
  /\ PMTTSubtableDIMM = 20
  /\ \A n \in Int : pmtt_subtable_unknown_factory(n) = 8 + n
<1>1. \A n \in Int : pmtt_factory(n) = 40 + n
  BY CommonSizes, Total3 DEF pmtt_factory, Packed
<1>2. PMTT_flags = 2
  <2>1. Total(<<1, 1>>) = 2
    BY Total2
  <2> QED
    BY <2>1, FlagsOf DEF PMTT_flags
<1>3. PMTTSubtable = 8
  BY <1>2, Total5 DEF PMTTSubtable, Packed
<1>4. \A n \in Int : PMTTSubtableSocket_factory(n) = 12 + n
  BY <1>3, Total4 DEF PMTTSubtableSocket_factory, Packed
<1>5. \A n, s \in Int : PMTTSubtableMemController_factory(n, s) = 32 + 4 * n + s
  <2> SUFFICES ASSUME NEW n \in Int, NEW s \in Int
               PROVE  PMTTSubtableMemController_factory(n, s) = 32 + 4 * n + s
    OBVIOUS
  <2> DEFINE w == <<PMTTSubtable, 4, 4, 4, 4, 2, 2, 2, 2, 4 * n, s>>
  <2>1. w \in Seq(Int) /\ Len(w) = 11
    BY <1>3
  <2>2. w[1] = 8 /\ w[2] = 4 /\ w[3] = 4 /\ w[4] = 4 /\ w[5] = 4 /\ w[6] = 2 /\ w[7] = 2
        /\ w[8] = 2 /\ w[9] = 2 /\ w[10] = 4 * n /\ w[11] = s
    BY <1>3
  <2> HIDE DEF w
  <2>3. Total(w) = w[1] + w[2] + w[3] + w[4] + w[5] + w[6] + w[7] + w[8] + w[9] + w[10]
                   + w[11]
    BY <2>1, Sum11
  <2>4. Total(w) = 32 + 4 * n + s
    BY <2>2, <2>3
  <2> QED
    BY <2>4 DEF w, PMTTSubtableMemController_factory, Packed
<1>6. PMTTSubtableDIMM = 20
  BY <1>3, Total5 DEF PMTTSubtableDIMM, Packed
<1>7. \A n \in Int : pmtt_subtable_unknown_factory(n) = 8 + n
  BY <1>3, Total2 DEF pmtt_subtable_unknown_factory, Packed
<1> QED
  BY <1>1, <1>3, <1>4, <1>5, <1>6, <1>7

\* The records of MPST.
LEMMA MpstSizes ==
  /\ \A n, c \in Int : mpst_factory(n, c) = 48 + n + 24 * c
  /\ \A s, c \in Int : MPSTMemPowerNode_factory(s, c) = 32 + 2 * s + 2 * c
<1>1. power_state_structure_id = 1
  <2>1. Total(<<6, 2>>) = 8
    BY Total2
  <2> QED
    BY <2>1, FlagsOf DEF power_state_structure_id
<1>2. power_state_structure_flags = 1
  <2>1. Total(<<1, 1, 1>>) = 3
    BY Total3
  <2> QED
    BY <2>1, FlagsOf DEF power_state_structure_flags
<1>3. MPSTCharacteristics = 24
  <2> DEFINE w == <<power_state_structure_id, power_state_structure_flags, 2, 4, 4, 8, 4>>
  <2>1. w \in Seq(Int) /\ Len(w) = 7
    BY <1>1, <1>2
  <2>2. w[1] = 1 /\ w[2] = 1 /\ w[3] = 2 /\ w[4] = 4 /\ w[5] = 4 /\ w[6] = 8 /\ w[7] = 4
    BY <1>1, <1>2
  <2> HIDE DEF w
  <2>3. Total(w) = w[1] + w[2] + w[3] + w[4] + w[5] + w[6] + w[7]
    BY <2>1, Sum7
  <2>4. Total(w) = 24
    BY <2>2, <2>3
  <2> QED
    BY <2>4 DEF w, MPSTCharacteristics, Packed
<1>4. \A n, c \in Int : mpst_factory(n, c) = 48 + n + 24 * c
  <2> SUFFICES ASSUME NEW n \in Int, NEW c \in Int
               PROVE  mpst_factory(n, c) = 48 + n + 24 * c
    OBVIOUS
  <2> DEFINE w == <<TableHeader, 1, 3, 2, 2, n, 2, 2, MPSTCharacteristics * c>>
  <2>1. w \in Seq(Int) /\ Len(w) = 9
    BY <1>3, CommonSizes
  <2>2. w[1] = 36 /\ w[2] = 1 /\ w[3] = 3 /\ w[4] = 2 /\ w[5] = 2 /\ w[6] = n
        /\ w[7] = 2 /\ w[8] = 2 /\ w[9] = 24 * c
    BY <1>3, CommonSizes
  <2> HIDE DEF w
  <2>3. Total(w) = w[1] + w[2] + w[3] + w[4] + w[5] + w[6] + w[7] + w[8] + w[9]
    BY <2>1, Sum9
  <2>4. Total(w) = 48 + n + 24 * c
    BY <2>2, <2>3
  <2> QED
    BY <2>4 DEF w, mpst_factory, Packed
<1>5. MPSTMemPowerNode_flags = 1
  <2>1. Total(<<1, 1, 1>>) = 3
    BY Total3
  <2> QED
    BY <2>1, FlagsOf DEF MPSTMemPowerNode_flags
<1>6. MPSTState = 2
  BY Total2 DEF MPSTState, Packed
<1>7. \A s, c \in Int : MPSTMemPowerNode_factory(s, c) = 32 + 2 * s + 2 * c
  <2> SUFFICES ASSUME NEW s \in Int, NEW c \in Int
               PROVE  MPSTMemPowerNode_factory(s, c) = 32 + 2 * s + 2 * c
    OBVIOUS
  <2> DEFINE w == <<MPSTMemPowerNode_flags, 1, 2, 4, 4, 4, 4, 4, 4, 4, MPSTState * s
                  , 2 * c>>
  <2>1. w \in Seq(Int) /\ Len(w) = 12
    BY <1>5, <1>6
  <2>2. w[1] = 1 /\ w[2] = 1 /\ w[3] = 2 /\ w[4] = 4 /\ w[5] = 4 /\ w[6] = 4 /\ w[7] = 4
        /\ w[8] = 4 /\ w[9] = 4 /\ w[10] = 4 /\ w[11] = 2 * s /\ w[12] = 2 * c
    BY <1>5, <1>6
  <2> HIDE DEF w
  <2>3. Total(w) = w[1] + w[2] + w[3] + w[4] + w[5] + w[6] + w[7] + w[8] + w[9] + w[10]
                   + w[11] + w[12]
    BY <2>1, Sum12
  <2>4. Total(w) = 32 + 2 * s + 2 * c
    BY <2>2, <2>3
  <2> QED
    BY <2>4 DEF w, MPSTMemPowerNode_factory, Packed
<1> QED
  BY <1>4, <1>7

\* The packed records of DMAR.
LEMMA DmarSizes ==
  /\ DMARSubtable = 4
  /\ DMARDeviceScopePath = 2
  /\ \A n \in Int : DMARDeviceScope_factory(n) = 6 + 2 * n
  /\ \A n \in Int : DMARSubtableDRHD_factory(n) = 16 + n
  /\ \A n \in Int : DMARSubtableRMRR_factory(n) = 24 + n
<1>1. DMARSubtable = 4
  BY Total2 DEF DMARSubtable, Packed
<1>2. DMARDeviceScopePath = 2
  BY Total2 DEF DMARDeviceScopePath, Packed
<1>3. \A n \in Int : DMARDeviceScope_factory(n) = 6 + 2 * n
  <2> SUFFICES ASSUME NEW n \in Int
               PROVE  DMARDeviceScope_factory(n) = 6 + 2 * n
    OBVIOUS
  <2> DEFINE w == <<1, 1, 2, 1, 1, DMARDeviceScopePath * n>>
  <2>1. w \in Seq(Int) /\ Len(w) = 6
    BY <1>2
  <2>2. w[1] = 1 /\ w[2] = 1 /\ w[3] = 2 /\ w[4] = 1 /\ w[5] = 1 /\ w[6] = 2 * n
    BY <1>2
  <2> HIDE DEF w
  <2>3. Total(w) = w[1] + w[2] + w[3] + w[4] + w[5] + w[6]
    BY <2>1, Sum6
  <2>4. Total(w) = 6 + 2 * n
    BY <2>2, <2>3
  <2> QED
    BY <2>4 DEF w, DMARDeviceScope_factory, Packed
<1>4. drhd_flags = 1
  <2>1. Total(<<1>>) = 1
    BY Total1
  <2> QED
    BY <2>1, FlagsOf DEF drhd_flags
<1>5. \A n \in Int : DMARSubtableDRHD_factory(n) = 16 + n
  <2> SUFFICES ASSUME NEW n \in Int
               PROVE  DMARSubtableDRHD_factory(n) = 16 + n
    OBVIOUS
  <2> DEFINE w == <<DMARSubtable, drhd_flags, 1, 2, 8, n>>
  <2>1. w \in Seq(Int) /\ Len(w) = 6
    BY <1>1, <1>4
  <2>2. w[1] = 4 /\ w[2] = 1 /\ w[3] = 1 /\ w[4] = 2 /\ w[5] = 8 /\ w[6] = n
    BY <1>1, <1>4
  <2> HIDE DEF w
  <2>3. Total(w) = w[1] + w[2] + w[3] + w[4] + w[5] + w[6]
    BY <2>1, Sum6
  <2>4. Total(w) = 16 + n
    BY <2>2, <2>3
  <2> QED
    BY <2>4 DEF w, DMARSubtableDRHD_factory, Packed
<1>6. \A n \in Int : DMARSubtableRMRR_factory(n) = 24 + n
  <2> SUFFICES ASSUME NEW n \in Int
               PROVE  DMARSubtableRMRR_factory(n) = 24 + n
    OBVIOUS
  <2> DEFINE w == <<DMARSubtable, 2, 2, 8, 8, n>>
  <2>1. w \in Seq(Int) /\ Len(w) = 6
    BY <1>1
  <2>2. w[1] = 4 /\ w[2] = 2 /\ w[3] = 2 /\ w[4] = 8 /\ w[5] = 8 /\ w[6] = n
    BY <1>1
  <2> HIDE DEF w
  <2>3. Total(w) = w[1] + w[2] + w[3] + w[4] + w[5] + w[6]
    BY <2>1, Sum6
  <2>4. Total(w) = 24 + n
    BY <2>2, <2>3
  <2> QED
    BY <2>4 DEF w, DMARSubtableRMRR_factory, Packed
<1> QED
  BY <1>1, <1>2, <1>3, <1>5, <1>6

\* DMAR has classes that are padded, as their "_pack" is none: one with a device
\* scope list ends on a multiple of 2, and the 64-bit integer of RHSA lies on a
\* multiple of its alignment.
LEMMA PaddedSizes ==
  /\ \A n \in Int : DMARSubtableATSR_factory(n) = RoundUp(8 + n, 2)
  /\ \A n \in Int : DMARSubTableANDD_factory(n) = RoundUp(8 + n, 2)
  /\ \A n \in Int : DMARSubtableUnknown_factory(n) = RoundUp(4 + n, 2)
  /\ DMARSubtableRHSA(4) = 20 /\ DMARSubtableRHSA(8) = 24
  /\ \A n \in Int : dmar_factory(n) = 48 + n
  /\ GUID = 16
  /\ EndDependentFunctionsDescriptor = 1
<1>1. atsr_flags = 1
  <2>1. Total(<<1>>) = 1
    BY Total1
  <2> QED
    BY <2>1, FlagsOf DEF atsr_flags
<1>2. small_resource = 1
  BY Total1 DEF small_resource, Packed
<1>3. \A n \in Int : DMARSubtableATSR_factory(n) = RoundUp(8 + n, 2)
  <2> SUFFICES ASSUME NEW n \in Int PROVE DMARSubtableATSR_factory(n) = RoundUp(8 + n, 2)
    OBVIOUS
  <2> DEFINE w == <<<<2, 2>>, <<2, 2>>, <<atsr_flags, 1>>, <<1, 1>>, <<2, 2>>, <<n, 1>>>>
  <2>1. w \in Seq(Int \X (Nat \ {0})) /\ Len(w) = 6
    BY <1>1
  <2>2. w[1] = <<2, 2>> /\ w[2] = <<2, 2>> /\ w[3] = <<1, 1>> /\ w[4] = <<1, 1>>
        /\ w[5] = <<2, 2>> /\ w[6] = <<n, 1>>
    BY <1>1
  <2> HIDE DEF w
  <2>3. Widest(w, 2)
    BY <2>1, <2>2 DEF Widest
  <2>4. PICK f : FieldEnds(w, f) /\ Aligned(w) = RoundUp(f[Len(w)], 2)
    BY <2>1, <2>3, AlignedOf
  <2>5. f[0] = 0 /\ \A i, j \in 0 .. 6 : j = i + 1 => f[j] = RoundUp(f[i], w[j][2]) + w[j][1]
    BY <2>1, <2>4 DEF FieldEnds
  <2>6. f[1] = 2
    BY <2>2, <2>5 DEF RoundUp
  <2>7. f[2] = 4
    BY <2>2, <2>6, <2>5 DEF RoundUp
  <2>8. f[3] = 5
    BY <2>2, <2>7, <2>5 DEF RoundUp
  <2>9. f[4] = 6
    BY <2>2, <2>8, <2>5 DEF RoundUp
  <2>10. f[5] = 8
    BY <2>2, <2>9, <2>5 DEF RoundUp
  <2>11. f[6] = 8 + n
    BY <2>2, <2>10, <2>5 DEF RoundUp
  <2> QED
    BY <2>1, <2>11, <2>4 DEF w, DMARSubtableATSR_factory
<1>4. \A n \in Int : DMARSubTableANDD_factory(n) = RoundUp(8 + n, 2)
  <2> SUFFICES ASSUME NEW n \in Int PROVE DMARSubTableANDD_factory(n) = RoundUp(8 + n, 2)
    OBVIOUS
  <2> DEFINE w == <<<<2, 2>>, <<2, 2>>, <<3, 1>>, <<1, 1>>, <<n, 1>>>>
  <2>1. w \in Seq(Int \X (Nat \ {0})) /\ Len(w) = 5
    OBVIOUS
  <2>2. w[1] = <<2, 2>> /\ w[2] = <<2, 2>> /\ w[3] = <<3, 1>> /\ w[4] = <<1, 1>>
        /\ w[5] = <<n, 1>>
    OBVIOUS
  <2> HIDE DEF w
  <2>3. Widest(w, 2)
    BY <2>1, <2>2 DEF Widest
  <2>4. PICK f : FieldEnds(w, f) /\ Aligned(w) = RoundUp(f[Len(w)], 2)
    BY <2>1, <2>3, AlignedOf
  <2>5. f[0] = 0 /\ \A i, j \in 0 .. 5 : j = i + 1 => f[j] = RoundUp(f[i], w[j][2]) + w[j][1]
    BY <2>1, <2>4 DEF FieldEnds
  <2>6. f[1] = 2
    BY <2>2, <2>5 DEF RoundUp
  <2>7. f[2] = 4
    BY <2>2, <2>6, <2>5 DEF RoundUp
  <2>8. f[3] = 7
    BY <2>2, <2>7, <2>5 DEF RoundUp
  <2>9. f[4] = 8
    BY <2>2, <2>8, <2>5 DEF RoundUp
  <2>10. f[5] = 8 + n
    BY <2>2, <2>9, <2>5 DEF RoundUp
  <2> QED
    BY <2>1, <2>10, <2>4 DEF w, DMARSubTableANDD_factory
<1>5. \A n \in Int : DMARSubtableUnknown_factory(n) = RoundUp(4 + n, 2)
  <2> SUFFICES ASSUME NEW n \in Int PROVE DMARSubtableUnknown_factory(n) = RoundUp(4 + n, 2)
    OBVIOUS
  <2> DEFINE w == <<<<2, 2>>, <<2, 2>>, <<n, 1>>>>
  <2>1. w \in Seq(Int \X (Nat \ {0})) /\ Len(w) = 3
    OBVIOUS
  <2>2. w[1] = <<2, 2>> /\ w[2] = <<2, 2>> /\ w[3] = <<n, 1>>
    OBVIOUS
  <2> HIDE DEF w
  <2>3. Widest(w, 2)
    BY <2>1, <2>2 DEF Widest
  <2>4. PICK f : FieldEnds(w, f) /\ Aligned(w) = RoundUp(f[Len(w)], 2)
    BY <2>1, <2>3, AlignedOf
  <2>5. f[0] = 0 /\ \A i, j \in 0 .. 3 : j = i + 1 => f[j] = RoundUp(f[i], w[j][2]) + w[j][1]
    BY <2>1, <2>4 DEF FieldEnds
  <2>6. f[1] = 2
    BY <2>2, <2>5 DEF RoundUp
  <2>7. f[2] = 4
    BY <2>2, <2>6, <2>5 DEF RoundUp
  <2>8. f[3] = 4 + n
    BY <2>2, <2>7, <2>5 DEF RoundUp
  <2> QED
    BY <2>1, <2>8, <2>4 DEF w, DMARSubtableUnknown_factory
<1>6. DMARSubtableRHSA(4) = 20
  <2> DEFINE w == <<<<2, 2>>, <<2, 2>>, <<4, 4>>, <<8, 4>>, <<4, 4>>>>
  <2>1. w \in Seq(Int \X (Nat \ {0})) /\ Len(w) = 5
    OBVIOUS
  <2>2. w[1] = <<2, 2>> /\ w[2] = <<2, 2>> /\ w[3] = <<4, 4>> /\ w[4] = <<8, 4>>
        /\ w[5] = <<4, 4>>
    OBVIOUS
  <2> HIDE DEF w
  <2>3. Widest(w, 4)
    BY <2>1, <2>2 DEF Widest
  <2>4. PICK f : FieldEnds(w, f) /\ Aligned(w) = RoundUp(f[Len(w)], 4)
    BY <2>1, <2>3, AlignedOf
  <2>5. f[0] = 0 /\ \A i, j \in 0 .. 5 : j = i + 1 => f[j] = RoundUp(f[i], w[j][2]) + w[j][1]
    BY <2>1, <2>4 DEF FieldEnds
  <2>6. f[1] = 2
    BY <2>2, <2>5 DEF RoundUp
  <2>7. f[2] = 4
    BY <2>2, <2>6, <2>5 DEF RoundUp
  <2>8. f[3] = 8
    BY <2>2, <2>7, <2>5 DEF RoundUp
  <2>9. f[4] = 16
    BY <2>2, <2>8, <2>5 DEF RoundUp
  <2>10. f[5] = 20
    BY <2>2, <2>9, <2>5 DEF RoundUp
  <2>11. RoundUp(20, 4) = 20
    BY DEF RoundUp
  <2> QED
    BY <2>1, <2>10, <2>4, <2>11 DEF w, DMARSubtableRHSA
<1>7. DMARSubtableRHSA(8) = 24
  <2> DEFINE w == <<<<2, 2>>, <<2, 2>>, <<4, 4>>, <<8, 8>>, <<4, 4>>>>
  <2>1. w \in Seq(Int \X (Nat \ {0})) /\ Len(w) = 5
    OBVIOUS
  <2>2. w[1] = <<2, 2>> /\ w[2] = <<2, 2>> /\ w[3] = <<4, 4>> /\ w[4] = <<8, 8>>
        /\ w[5] = <<4, 4>>
    OBVIOUS
  <2> HIDE DEF w
  <2>3. Widest(w, 8)
    BY <2>1, <2>2 DEF Widest
  <2>4. PICK f : FieldEnds(w, f) /\ Aligned(w) = RoundUp(f[Len(w)], 8)
    BY <2>1, <2>3, AlignedOf
  <2>5. f[0] = 0 /\ \A i, j \in 0 .. 5 : j = i + 1 => f[j] = RoundUp(f[i], w[j][2]) + w[j][1]
    BY <2>1, <2>4 DEF FieldEnds
  <2>6. f[1] = 2
    BY <2>2, <2>5 DEF RoundUp
  <2>7. f[2] = 4
    BY <2>2, <2>6, <2>5 DEF RoundUp
  <2>8. f[3] = 8
    BY <2>2, <2>7, <2>5 DEF RoundUp
  <2>9. f[4] = 16
    BY <2>2, <2>8, <2>5 DEF RoundUp
  <2>10. f[5] = 20
    BY <2>2, <2>9, <2>5 DEF RoundUp
  <2>11. RoundUp(20, 8) = 24
    BY DEF RoundUp
  <2> QED
    BY <2>1, <2>10, <2>4, <2>11 DEF w, DMARSubtableRHSA
<1>8. \A n \in Int : dmar_factory(n) = 48 + n
  <2> SUFFICES ASSUME NEW n \in Int PROVE dmar_factory(n) = 48 + n
    OBVIOUS
  <2> DEFINE w == <<<<TableHeader, 1>>, <<1, 1>>, <<1, 1>>, <<10, 1>>, <<n, 1>>>>
  <2>1. w \in Seq(Int \X (Nat \ {0})) /\ Len(w) = 5
    BY CommonSizes
  <2>2. w[1] = <<36, 1>> /\ w[2] = <<1, 1>> /\ w[3] = <<1, 1>> /\ w[4] = <<10, 1>>
        /\ w[5] = <<n, 1>>
    BY CommonSizes
  <2> HIDE DEF w
  <2>3. Widest(w, 1)
    BY <2>1, <2>2 DEF Widest
  <2>4. PICK f : FieldEnds(w, f) /\ Aligned(w) = RoundUp(f[Len(w)], 1)
    BY <2>1, <2>3, AlignedOf
  <2>5. f[0] = 0 /\ \A i, j \in 0 .. 5 : j = i + 1 => f[j] = RoundUp(f[i], w[j][2]) + w[j][1]
    BY <2>1, <2>4 DEF FieldEnds
  <2>6. f[1] = 36
    BY <2>2, <2>5 DEF RoundUp
  <2>7. f[2] = 37
    BY <2>2, <2>6, <2>5 DEF RoundUp
  <2>8. f[3] = 38
    BY <2>2, <2>7, <2>5 DEF RoundUp
  <2>9. f[4] = 48
    BY <2>2, <2>8, <2>5 DEF RoundUp
  <2>10. f[5] = 48 + n
    BY <2>2, <2>9, <2>5 DEF RoundUp
  <2>11. RoundUp(48 + n, 1) = 48 + n
    BY DEF RoundUp
  <2> QED
    BY <2>1, <2>10, <2>4, <2>11 DEF w, dmar_factory
<1>9. GUID = 16
  <2> DEFINE w == <<<<16, 1>>>>
  <2>1. w \in Seq(Int \X (Nat \ {0})) /\ Len(w) = 1
    OBVIOUS
  <2>2. w[1] = <<16, 1>>
    OBVIOUS
  <2> HIDE DEF w
  <2>3. Widest(w, 1)
    BY <2>1, <2>2 DEF Widest
  <2>4. PICK f : FieldEnds(w, f) /\ Aligned(w) = RoundUp(f[Len(w)], 1)
    BY <2>1, <2>3, AlignedOf
  <2>5. f[0] = 0 /\ \A i, j \in 0 .. 1 : j = i + 1 => f[j] = RoundUp(f[i], w[j][2]) + w[j][1]
    BY <2>1, <2>4 DEF FieldEnds
  <2>6. f[1] = 16
    BY <2>2, <2>5 DEF RoundUp
  <2>7. RoundUp(16, 1) = 16
    BY DEF RoundUp
  <2> QED
    BY <2>1, <2>6, <2>4, <2>7 DEF w, GUID
<1>10. EndDependentFunctionsDescriptor = 1
  <2> DEFINE w == <<<<small_resource, 1>>>>
  <2>1. w \in Seq(Int \X (Nat \ {0})) /\ Len(w) = 1
    BY <1>2
  <2>2. w[1] = <<1, 1>>
    BY <1>2
  <2> HIDE DEF w
  <2>3. Widest(w, 1)
    BY <2>1, <2>2 DEF Widest
  <2>4. PICK f : FieldEnds(w, f) /\ Aligned(w) = RoundUp(f[Len(w)], 1)
    BY <2>1, <2>3, AlignedOf
  <2>5. f[0] = 0 /\ \A i, j \in 0 .. 1 : j = i + 1 => f[j] = RoundUp(f[i], w[j][2]) + w[j][1]
    BY <2>1, <2>4 DEF FieldEnds
  <2>6. f[1] = 1
    BY <2>2, <2>5 DEF RoundUp
  <2>7. RoundUp(1, 1) = 1
    BY DEF RoundUp
  <2> QED
    BY <2>1, <2>6, <2>4, <2>7 DEF w, EndDependentFunctionsDescriptor
<1> QED
  BY <1>3, <1>4, <1>5, <1>6, <1>7, <1>8, <1>9, <1>10

\* The resource descriptors.
LEMMA ResourceSizes ==
  /\ small_resource = 1
  /\ IRQDescriptor2 = 3
  /\ IRQDescriptor3 = 4
  /\ DMADescriptor = 3
  /\ StartDependentFunctionsDescriptor0 = 1
  /\ StartDependentFunctionsDescriptor1 = 2
  /\ IOPortDescriptor = 8
  /\ FixedIOPortDescriptor = 4
  /\ FixedDMADescriptor = 6
  /\ \A n \in Int : VendorDefinedSmallDescriptor_factory(n) = 1 + n
  /\ EndTagDescriptor = 2
  /\ Memory24BitRangeDescriptor = 12
  /\ GenericRegisterDescriptor = 15
  /\ \A n \in Int : VendorDefinedLargeDescriptor_factory(n) = 20 + n
  /\ Memory32BitRangeDescriptor = 12
  /\ FixedMemory32BitRangeDescriptor = 12
  /\ DwordAddressSpaceDescriptor = 26
  /\ WordAddressSpaceDescriptor = 16
  /\ \A n \in Int : ExtendedInterruptDescriptor_factory(n) = 5 + 4 * n
  /\ QwordAddressSpaceDescriptor = 46
  /\ ExtendedAddressSpaceDescriptor = 56
<1>1. small_resource = 1
  BY Total1 DEF small_resource, Packed
<1>2. IRQDescriptor2 = 3
  BY <1>1, Total2 DEF IRQDescriptor2, Packed
<1>3. irq_information = 1
  <2>1. Total(<<1, 2, 1, 2>>) = 6
    BY Total4
  <2> QED
    BY <2>1, FlagsOf DEF irq_information
<1>4. IRQDescriptor3 = 4
  BY <1>2, <1>3, Total2 DEF IRQDescriptor3, Packed
<1>5. DMADescriptor = 3
  BY <1>1, Total3 DEF DMADescriptor, Packed
<1>6. StartDependentFunctionsDescriptor0 = 1
  BY <1>1, Total1 DEF StartDependentFunctionsDescriptor0, Packed
<1>7. priority = 1
  <2>1. Total(<<2, 2>>) = 4
    BY Total2
  <2> QED
    BY <2>1, FlagsOf DEF priority
<1>8. StartDependentFunctionsDescriptor1 = 2
  BY <1>1, <1>7, Total2 DEF StartDependentFunctionsDescriptor1, Packed
<1>9. ioport_information = 1
  <2>1. Total(<<1>>) = 1
    BY Total1
  <2> QED
    BY <2>1, FlagsOf DEF ioport_information
<1>10. IOPortDescriptor = 8
  <2> DEFINE w == <<small_resource, ioport_information, 2, 2, 1, 1>>
  <2>1. w \in Seq(Int) /\ Len(w) = 6
    BY <1>1, <1>9
  <2>2. w[1] = 1 /\ w[2] = 1 /\ w[3] = 2 /\ w[4] = 2 /\ w[5] = 1 /\ w[6] = 1
    BY <1>1, <1>9
  <2> HIDE DEF w
  <2>3. Total(w) = w[1] + w[2] + w[3] + w[4] + w[5] + w[6]
    BY <2>1, Sum6
  <2>4. Total(w) = 8
    BY <2>2, <2>3
  <2> QED
    BY <2>4 DEF w, IOPortDescriptor, Packed
<1>11. FixedIOPortDescriptor = 4
  BY <1>1, Total3 DEF FixedIOPortDescriptor, Packed
<1>12. FixedDMADescriptor = 6
  BY <1>1, Total4 DEF FixedDMADescriptor, Packed
<1>13. \A n \in Int : VendorDefinedSmallDescriptor_factory(n) = 1 + n
  BY <1>1, Total2 DEF VendorDefinedSmallDescriptor_factory, Packed
<1>14. EndTagDescriptor = 2
  BY <1>1, Total2 DEF EndTagDescriptor, Packed
<1>15. large_resource = 1
  BY Total1 DEF large_resource, Packed
<1>16. memory_range_information = 1
  <2>1. Total(<<1>>) = 1
    BY Total1
  <2> QED
    BY <2>1, FlagsOf DEF memory_range_information
<1>17. Memory24BitRangeDescriptor = 12
  <2> DEFINE w == <<large_resource, 2, memory_range_information, 2, 2, 2, 2>>
  <2>1. w \in Seq(Int) /\ Len(w) = 7
    BY <1>15, <1>16
  <2>2. w[1] = 1 /\ w[2] = 2 /\ w[3] = 1 /\ w[4] = 2 /\ w[5] = 2 /\ w[6] = 2 /\ w[7] = 2
    BY <1>15, <1>16
  <2> HIDE DEF w
  <2>3. Total(w) = w[1] + w[2] + w[3] + w[4] + w[5] + w[6] + w[7]
    BY <2>1, Sum7
  <2>4. Total(w) = 12
    BY <2>2, <2>3
  <2> QED
    BY <2>4 DEF w, Memory24BitRangeDescriptor, Packed
<1>18. GenericRegisterDescriptor = 15
  <2> DEFINE w == <<large_resource, 2, 1, 1, 1, 1, 8>>
  <2>1. w \in Seq(Int) /\ Len(w) = 7
    BY <1>15
  <2>2. w[1] = 1 /\ w[2] = 2 /\ w[3] = 1 /\ w[4] = 1 /\ w[5] = 1 /\ w[6] = 1 /\ w[7] = 8
    BY <1>15
  <2> HIDE DEF w
  <2>3. Total(w) = w[1] + w[2] + w[3] + w[4] + w[5] + w[6] + w[7]
    BY <2>1, Sum7
  <2>4. Total(w) = 15
    BY <2>2, <2>3
  <2> QED
    BY <2>4 DEF w, GenericRegisterDescriptor, Packed
<1>19. \A n \in Int : VendorDefinedLargeDescriptor_factory(n) = 20 + n
  BY <1>15, CommonSizes, PaddedSizes, Total5 DEF VendorDefinedLargeDescriptor_factory, Packed
<1>20. Memory32BitRangeDescriptor = 12
  <2> DEFINE w == <<large_resource, 2, memory_range_information, 2, 2, 2, 2>>
  <2>1. w \in Seq(Int) /\ Len(w) = 7
    BY <1>15, <1>16
  <2>2. w[1] = 1 /\ w[2] = 2 /\ w[3] = 1 /\ w[4] = 2 /\ w[5] = 2 /\ w[6] = 2 /\ w[7] = 2
    BY <1>15, <1>16
  <2> HIDE DEF w
  <2>3. Total(w) = w[1] + w[2] + w[3] + w[4] + w[5] + w[6] + w[7]
    BY <2>1, Sum7
  <2>4. Total(w) = 12
    BY <2>2, <2>3
  <2> QED
    BY <2>4 DEF w, Memory32BitRangeDescriptor, Packed
<1>21. FixedMemory32BitRangeDescriptor = 12
  BY <1>15, <1>16, Total5 DEF FixedMemory32BitRangeDescriptor, Packed
<1>22. resource_flags = 1
  <2>1. Total(<<1, 1, 1, 1, 1>>) = 5
    BY Total5
  <2> QED
    BY <2>1, FlagsOf DEF resource_flags
<1>23. DwordAddressSpaceDescriptor = 26
  <2> DEFINE w == <<large_resource, 2, 1, resource_flags, 1, 4, 4, 4, 4, 4>>
  <2>1. w \in Seq(Int) /\ Len(w) = 10
    BY <1>15, <1>22
  <2>2. w[1] = 1 /\ w[2] = 2 /\ w[3] = 1 /\ w[4] = 1 /\ w[5] = 1 /\ w[6] = 4 /\ w[7] = 4
        /\ w[8] = 4 /\ w[9] = 4 /\ w[10] = 4
    BY <1>15, <1>22
  <2> HIDE DEF w
  <2>3. Total(w) = w[1] + w[2] + w[3] + w[4] + w[5] + w[6] + w[7] + w[8] + w[9] + w[10]
    BY <2>1, Sum10
  <2>4. Total(w) = 26
    BY <2>2, <2>3
  <2> QED
    BY <2>4 DEF w, DwordAddressSpaceDescriptor, Packed
<1>24. WordAddressSpaceDescriptor = 16
  <2> DEFINE w == <<large_resource, 2, 1, resource_flags, 1, 2, 2, 2, 2, 2>>
  <2>1. w \in Seq(Int) /\ Len(w) = 10
    BY <1>15, <1>22
  <2>2. w[1] = 1 /\ w[2] = 2 /\ w[3] = 1 /\ w[4] = 1 /\ w[5] = 1 /\ w[6] = 2 /\ w[7] = 2
        /\ w[8] = 2 /\ w[9] = 2 /\ w[10] = 2
    BY <1>15, <1>22
  <2> HIDE DEF w
  <2>3. Total(w) = w[1] + w[2] + w[3] + w[4] + w[5] + w[6] + w[7] + w[8] + w[9] + w[10]
    BY <2>1, Sum10
  <2>4. Total(w) = 16
    BY <2>2, <2>3
  <2> QED
    BY <2>4 DEF w, WordAddressSpaceDescriptor, Packed
<1>25. interrupt_vector_info = 1
  <2>1. Total(<<1, 1, 1, 2, 3>>) = 8
    BY Total5
  <2> QED
    BY <2>1, FlagsOf DEF interrupt_vector_info
<1>26. \A n \in Int : ExtendedInterruptDescriptor_factory(n) = 5 + 4 * n
  BY <1>15, <1>25, Total5 DEF ExtendedInterruptDescriptor_factory, Packed
<1>27. QwordAddressSpaceDescriptor = 46
  <2> DEFINE w == <<large_resource, 2, 1, resource_flags, 1, 8, 8, 8, 8, 8>>
  <2>1. w \in Seq(Int) /\ Len(w) = 10
    BY <1>15, <1>22
  <2>2. w[1] = 1 /\ w[2] = 2 /\ w[3] = 1 /\ w[4] = 1 /\ w[5] = 1 /\ w[6] = 8 /\ w[7] = 8
        /\ w[8] = 8 /\ w[9] = 8 /\ w[10] = 8
    BY <1>15, <1>22
  <2> HIDE DEF w
  <2>3. Total(w) = w[1] + w[2] + w[3] + w[4] + w[5] + w[6] + w[7] + w[8] + w[9] + w[10]
    BY <2>1, Sum10
  <2>4. Total(w) = 46
    BY <2>2, <2>3
  <2> QED
    BY <2>4 DEF w, QwordAddressSpaceDescriptor, Packed
<1>28. ExtendedAddressSpaceDescriptor = 56
  <2> DEFINE w == <<large_resource, 2, 1, resource_flags, 1, 1, 1, 8, 8, 8, 8, 8, 8>>
  <2>1. w \in Seq(Int) /\ Len(w) = 13
    BY <1>15, <1>22
  <2>2. w[1] = 1 /\ w[2] = 2 /\ w[3] = 1 /\ w[4] = 1 /\ w[5] = 1 /\ w[6] = 1 /\ w[7] = 1
        /\ w[8] = 8 /\ w[9] = 8 /\ w[10] = 8 /\ w[11] = 8 /\ w[12] = 8 /\ w[13] = 8
    BY <1>15, <1>22
  <2> HIDE DEF w
  <2>3. Total(w) = w[1] + w[2] + w[3] + w[4] + w[5] + w[6] + w[7] + w[8] + w[9] + w[10]
                   + w[11] + w[12] + w[13]
    BY <2>1, Sum13
  <2>4. Total(w) = 56
    BY <2>2, <2>3
  <2> QED
    BY <2>4 DEF w, ExtendedAddressSpaceDescriptor, Packed
<1> QED
  BY <1>1, <1>2, <1>4, <1>5, <1>6, <1>8, <1>10, <1>11, <1>12, <1>13, <1>14, <1>17, <1>18,
     <1>19, <1>20, <1>21, <1>23, <1>24, <1>26, <1>27, <1>28

\* The tables of one piece.
LEMMA FlatSizes ==
  /\ \A n \in Int : rsdt_factory(n) = 36 + 4 * n
  /\ \A n \in Int : xsdt_factory(n) = 36 + 8 * n
  /\ MCFGResource = 16
  /\ \A n \in Int : mcfg_factory(n) = 44 + 16 * n
  /\ InjectionInstructionEntry = 32
  /\ \A n \in Int : einj_factory(n) = 48 + 32 * n
  /\ \A n \in Int : trigger_error_action_factory(n) = 16 + 32 * n
  /\ MSCTProximityDomainInfo_v1 = 22
  /\ \A n \in Int : msct_factory(n) = 56 + 22 * n
  /\ \A n \in Int : msdm_factory(n) = 36 + n
  /\ \A n \in Int : slic_factory(n) = 36 + n
  /\ \A n \in Int : uefi_factory(n) = 54 + n
  /\ BERT_v1 = 48
  /\ HPET_v1 = 56
  /\ WDDT_v1 = 64
  /\ RSDP_v1 = 20
  /\ RSDP_v2 = 36
  /\ FACS_v0 = 64
  /\ FACS_v1 = 64
  /\ FACS_v2 = 64
<1>1. \A n \in Int : rsdt_factory(n) = 36 + 4 * n
  BY CommonSizes, PaddedSizes, Total2 DEF rsdt_factory, Packed
<1>2. \A n \in Int : xsdt_factory(n) = 36 + 8 * n
  BY CommonSizes, PaddedSizes, Total2 DEF xsdt_factory, Packed
<1>3. MCFGResource = 16
  BY Total5 DEF MCFGResource, Packed
<1>4. \A n \in Int : mcfg_factory(n) = 44 + 16 * n
  BY <1>3, CommonSizes, PaddedSizes, Total3 DEF mcfg_factory, Packed
<1>5. injection_instruction_entry_flags = 1
  <2>1. Total(<<1>>) = 1
    BY Total1
  <2> QED
    BY <2>1, FlagsOf DEF injection_instruction_entry_flags
<1>6. InjectionInstructionEntry = 32
  <2> DEFINE w == <<1, 1, injection_instruction_entry_flags, 1, GAS, 8, 8>>
  <2>1. w \in Seq(Int) /\ Len(w) = 7
    BY <1>5, CommonSizes, PaddedSizes
  <2>2. w[1] = 1 /\ w[2] = 1 /\ w[3] = 1 /\ w[4] = 1 /\ w[5] = 12 /\ w[6] = 8
        /\ w[7] = 8
    BY <1>5, CommonSizes, PaddedSizes
  <2> HIDE DEF w
  <2>3. Total(w) = w[1] + w[2] + w[3] + w[4] + w[5] + w[6] + w[7]
    BY <2>1, Sum7
  <2>4. Total(w) = 32
    BY <2>2, <2>3
  <2> QED
    BY <2>4 DEF w, InjectionInstructionEntry, Packed
<1>7. \A n \in Int : einj_factory(n) = 48 + 32 * n
  <2> SUFFICES ASSUME NEW n \in Int
               PROVE  einj_factory(n) = 48 + 32 * n
    OBVIOUS
  <2> DEFINE w == <<TableHeader, 4, 1, 3, 4, InjectionInstructionEntry * n>>
  <2>1. w \in Seq(Int) /\ Len(w) = 6
    BY <1>6, CommonSizes, PaddedSizes
  <2>2. w[1] = 36 /\ w[2] = 4 /\ w[3] = 1 /\ w[4] = 3 /\ w[5] = 4 /\ w[6] = 32 * n
    BY <1>6, CommonSizes, PaddedSizes
  <2> HIDE DEF w
  <2>3. Total(w) = w[1] + w[2] + w[3] + w[4] + w[5] + w[6]
    BY <2>1, Sum6
  <2>4. Total(w) = 48 + 32 * n
    BY <2>2, <2>3
  <2> QED
    BY <2>4 DEF w, einj_factory, Packed
<1>8. trigger_error_header = 16
  BY Total4 DEF trigger_error_header, Packed
<1>9. \A n \in Int : trigger_error_action_factory(n) = 16 + 32 * n
  BY <1>8, <1>6, Total2 DEF trigger_error_action_factory, Packed
<1>10. MSCTProximityDomainInfo_v1 = 22
  <2> DEFINE w == <<1, 1, 4, 4, 4, 8>>
  <2>1. w \in Seq(Int) /\ Len(w) = 6
    OBVIOUS
  <2>2. w[1] = 1 /\ w[2] = 1 /\ w[3] = 4 /\ w[4] = 4 /\ w[5] = 4 /\ w[6] = 8
    OBVIOUS
  <2> HIDE DEF w
  <2>3. Total(w) = w[1] + w[2] + w[3] + w[4] + w[5] + w[6]
    BY <2>1, Sum6
  <2>4. Total(w) = 22
    BY <2>2, <2>3
  <2> QED
    BY <2>4 DEF w, MSCTProximityDomainInfo_v1, Packed
<1>11. \A n \in Int : msct_factory(n) = 56 + 22 * n
  <2> SUFFICES ASSUME NEW n \in Int
               PROVE  msct_factory(n) = 56 + 22 * n
    OBVIOUS
  <2> DEFINE w == <<TableHeader, 4, 4, 4, 8, MSCTProximityDomainInfo_v1 * n>>
  <2>1. w \in Seq(Int) /\ Len(w) = 6
    BY <1>10, CommonSizes, PaddedSizes
  <2>2. w[1] = 36 /\ w[2] = 4 /\ w[3] = 4 /\ w[4] = 4 /\ w[5] = 8 /\ w[6] = 22 * n
    BY <1>10, CommonSizes, PaddedSizes
  <2> HIDE DEF w
  <2>3. Total(w) = w[1] + w[2] + w[3] + w[4] + w[5] + w[6]
    BY <2>1, Sum6
  <2>4. Total(w) = 56 + 22 * n
    BY <2>2, <2>3
  <2> QED
    BY <2>4 DEF w, msct_factory, Packed
<1>12. \A n \in Int : msdm_factory(n) = 36 + n
  BY CommonSizes, PaddedSizes, Total2 DEF msdm_factory, Packed
<1>13. \A n \in Int : slic_factory(n) = 36 + n
  BY CommonSizes, PaddedSizes, Total2 DEF slic_factory, Packed
<1>14. \A n \in Int : uefi_factory(n) = 54 + n
  BY CommonSizes, PaddedSizes, Total4 DEF uefi_factory, Packed
<1>15. BERT_v1 = 48
  BY CommonSizes, PaddedSizes, Total3 DEF BERT_v1, Packed
<1>16. event_timer_block_id = 4
  <2> DEFINE w == <<8, 5, 1, 1, 1, 16>>
  <2>1. w \in Seq(Int) /\ Len(w) = 6 /\ w[1] = 8 /\ w[2] = 5 /\ w[3] = 1 /\ w[4] = 1 /\ w[5] = 1 /\ w[6] = 16
    OBVIOUS
  <2> HIDE DEF w
  <2>2. Total(w) = w[1] + w[2] + w[3] + w[4] + w[5] + w[6]
    BY <2>1, Sum6
  <2>3. Total(w) = 32
    BY <2>1, <2>2
  <2> QED
    BY <2>3, FlagsOf DEF w, event_timer_block_id
<1>17. hpet_capabilities = 1
  <2>1. Total(<<4, 4>>) = 8
    BY Total2
  <2> QED
    BY <2>1, FlagsOf DEF hpet_capabilities
<1>18. HPET_v1 = 56
  <2> DEFINE w == <<TableHeader, event_timer_block_id, GAS, 1, 2, hpet_capabilities>>
  <2>1. w \in Seq(Int) /\ Len(w) = 6
    BY <1>16, <1>17, CommonSizes, PaddedSizes
  <2>2. w[1] = 36 /\ w[2] = 4 /\ w[3] = 12 /\ w[4] = 1 /\ w[5] = 2 /\ w[6] = 1
    BY <1>16, <1>17, CommonSizes, PaddedSizes
  <2> HIDE DEF w
  <2>3. Total(w) = w[1] + w[2] + w[3] + w[4] + w[5] + w[6]
    BY <2>1, Sum6
  <2>4. Total(w) = 56
    BY <2>2, <2>3
  <2> QED
    BY <2>4 DEF w, HPET_v1, Packed
<1>19. wddt_status = 2
  <2> DEFINE w == <<1, 1, 1, 8, 1, 1, 1, 1>>
  <2>1. w \in Seq(Int) /\ Len(w) = 8 /\ w[1] = 1 /\ w[2] = 1 /\ w[3] = 1 /\ w[4] = 8 /\ w[5] = 1 /\ w[6] = 1 /\ w[7] = 1
        /\ w[8] = 1
    OBVIOUS
  <2> HIDE DEF w
  <2>2. Total(w) = w[1] + w[2] + w[3] + w[4] + w[5] + w[6] + w[7] + w[8]
    BY <2>1, Sum8
  <2>3. Total(w) = 15
    BY <2>1, <2>2
  <2> QED
    BY <2>3, FlagsOf DEF w, wddt_status
<1>20. wddt_capability = 2
  <2>1. Total(<<1, 1, 1, 1, 1>>) = 5
    BY Total5
  <2> QED
    BY <2>1, FlagsOf DEF wddt_capability
<1>21. WDDT_v1 = 64
  <2> DEFINE w == <<TableHeader, 2, 2, 2, GAS, 2, 2, 2, wddt_status, wddt_capability>>
  <2>1. w \in Seq(Int) /\ Len(w) = 10
    BY <1>19, <1>20, CommonSizes, PaddedSizes
  <2>2. w[1] = 36 /\ w[2] = 2 /\ w[3] = 2 /\ w[4] = 2 /\ w[5] = 12 /\ w[6] = 2
        /\ w[7] = 2 /\ w[8] = 2 /\ w[9] = 2 /\ w[10] = 2
    BY <1>19, <1>20, CommonSizes, PaddedSizes
  <2> HIDE DEF w
  <2>3. Total(w) = w[1] + w[2] + w[3] + w[4] + w[5] + w[6] + w[7] + w[8] + w[9] + w[10]
    BY <2>1, Sum10
  <2>4. Total(w) = 64
    BY <2>2, <2>3
  <2> QED
    BY <2>4 DEF w, WDDT_v1, Packed
<1>22. RSDP_v1 = 20
  BY Total5 DEF RSDP_v1, Packed
<1>23. RSDP_v2 = 36
  BY <1>22, Total5 DEF RSDP_v2, Packed
<1>24. facs_global_lock = 4
  <2>1. Total(<<1, 1>>) = 2
    BY Total2
  <2> QED
    BY <2>1, FlagsOf DEF facs_global_lock
<1>25. facs_flags = 4
  <2>1. Total(<<1>>) = 1
    BY Total1
  <2> QED
    BY <2>1, FlagsOf DEF facs_flags
<1>26. FACS_v0 = 64
  <2> DEFINE w == <<4, 4, 4, 4, facs_global_lock, facs_flags, 40>>
  <2>1. w \in Seq(Int) /\ Len(w) = 7
    BY <1>24, <1>25
  <2>2. w[1] = 4 /\ w[2] = 4 /\ w[3] = 4 /\ w[4] = 4 /\ w[5] = 4 /\ w[6] = 4
        /\ w[7] = 40
    BY <1>24, <1>25
  <2> HIDE DEF w
  <2>3. Total(w) = w[1] + w[2] + w[3] + w[4] + w[5] + w[6] + w[7]
    BY <2>1, Sum7
  <2>4. Total(w) = 64
    BY <2>2, <2>3
  <2> QED
    BY <2>4 DEF w, FACS_v0, Packed
<1>27. FACS_v1 = 64
  <2> DEFINE w == <<4, 4, 4, 4, facs_global_lock, facs_flags, 8, 1, 31>>
  <2>1. w \in Seq(Int) /\ Len(w) = 9
    BY <1>24, <1>25
  <2>2. w[1] = 4 /\ w[2] = 4 /\ w[3] = 4 /\ w[4] = 4 /\ w[5] = 4 /\ w[6] = 4 /\ w[7] = 8
        /\ w[8] = 1 /\ w[9] = 31
    BY <1>24, <1>25
  <2> HIDE DEF w
  <2>3. Total(w) = w[1] + w[2] + w[3] + w[4] + w[5] + w[6] + w[7] + w[8] + w[9]
    BY <2>1, Sum9
  <2>4. Total(w) = 64
    BY <2>2, <2>3
  <2> QED
    BY <2>4 DEF w, FACS_v1, Packed
<1>28. facs_flags_v2 = 4
  <2>1. Total(<<1, 1>>) = 2
    BY Total2
  <2> QED
    BY <2>1, FlagsOf DEF facs_flags_v2
<1>29. facs_ospm_flags = 4
  <2>1. Total(<<1>>) = 1
    BY Total1
  <2> QED
    BY <2>1, FlagsOf DEF facs_ospm_flags
<1>30. FACS_v2 = 64
  <2> DEFINE w == <<4, 4, 4, 4, facs_global_lock, facs_flags_v2, 8, 1, 3, facs_ospm_flags
                  , 24>>
  <2>1. w \in Seq(Int) /\ Len(w) = 11
    BY <1>24, <1>28, <1>29
  <2>2. w[1] = 4 /\ w[2] = 4 /\ w[3] = 4 /\ w[4] = 4 /\ w[5] = 4 /\ w[6] = 4 /\ w[7] = 8
        /\ w[8] = 1 /\ w[9] = 3 /\ w[10] = 4 /\ w[11] = 24
    BY <1>24, <1>28, <1>29
  <2> HIDE DEF w
  <2>3. Total(w) = w[1] + w[2] + w[3] + w[4] + w[5] + w[6] + w[7] + w[8] + w[9] + w[10]
                   + w[11]
    BY <2>1, Sum11
  <2>4. Total(w) = 64
    BY <2>2, <2>3
  <2> QED
    BY <2>4 DEF w, FACS_v2, Packed
<1> QED
  BY <1>1, <1>2, <1>3, <1>4, <1>6, <1>7, <1>9, <1>10, <1>11, <1>12, <1>13, <1>14, <1>15,
     <1>18, <1>21, <1>22, <1>23, <1>26, <1>27, <1>30

\* SPCR and FACP.
LEMMA LongSizes ==
  /\ SPCR_v1 = 80
  /\ FACP_v1 = 116
  /\ FACP_v3 = 244
  /\ FACP_v4 = 244
  /\ FACP_v5 = 268
<1>1. flow_control = 1
  <2>1. Total(<<1, 1, 1>>) = 3
    BY Total3
  <2> QED
    BY <2>1, FlagsOf DEF flow_control
<1>2. SPCR_v1 = 80
  <2> DEFINE w == <<TableHeader, 1, 3, GAS, 1, 1, 4, 1, 1, 1, flow_control, 1, 1, 2, 2, 1
                  , 1, 1, 4, 1, 4>>
  <2>1. w \in Seq(Int) /\ Len(w) = 21
    BY <1>1, CommonSizes, PaddedSizes
  <2>2. w[1] = 36 /\ w[2] = 1 /\ w[3] = 3 /\ w[4] = 12 /\ w[5] = 1 /\ w[6] = 1
        /\ w[7] = 4 /\ w[8] = 1 /\ w[9] = 1 /\ w[10] = 1 /\ w[11] = 1 /\ w[12] = 1
        /\ w[13] = 1 /\ w[14] = 2 /\ w[15] = 2 /\ w[16] = 1 /\ w[17] = 1 /\ w[18] = 1
        /\ w[19] = 4 /\ w[20] = 1 /\ w[21] = 4
    BY <1>1, CommonSizes, PaddedSizes
  <2> HIDE DEF w
  <2>3. PICK f : Sums(w, f) /\ Total(w) = f[21]
    BY <2>1, TotalSteps
  <2>4. f[0] = 0 /\ \A i, j \in 0 .. 21 : j = i + 1 => f[j] = f[i] + w[j]
    BY <2>1, <2>3 DEF Sums
  <2>5. f[6] = 54
    <3>1. f[1] = f[0] + w[1] /\ f[2] = f[1] + w[2] /\ f[3] = f[2] + w[3]
          /\ f[4] = f[3] + w[4] /\ f[5] = f[4] + w[5] /\ f[6] = f[5] + w[6]
      BY <2>4
    <3> QED
      BY <2>2, <2>4, <3>1
  <2>6. f[12] = 63
    <3>1. f[7] = f[6] + w[7] /\ f[8] = f[7] + w[8] /\ f[9] = f[8] + w[9]
          /\ f[10] = f[9] + w[10] /\ f[11] = f[10] + w[11] /\ f[12] = f[11] + w[12]
      BY <2>4
    <3> QED
      BY <2>2, <2>5, <3>1
  <2>7. f[18] = 71
    <3>1. f[13] = f[12] + w[13] /\ f[14] = f[13] + w[14] /\ f[15] = f[14] + w[15]
          /\ f[16] = f[15] + w[16] /\ f[17] = f[16] + w[17] /\ f[18] = f[17] + w[18]
      BY <2>4
    <3> QED
      BY <2>2, <2>6, <3>1
  <2>8. f[21] = 80
    <3>1. f[19] = f[18] + w[19] /\ f[20] = f[19] + w[20] /\ f[21] = f[20] + w[21]
      BY <2>4
    <3> QED
      BY <2>2, <2>7, <3>1
  <2> QED
    BY <2>3, <2>8 DEF w, SPCR_v1, Packed
<1>3. facp_flags_v1 = 4
  <2> DEFINE w == <<1, 1, 1, 1, 1, 1, 1, 1, 1, 1>>
  <2>1. w \in Seq(Int) /\ Len(w) = 10 /\ \A i \in 1 .. 10 : w[i] = 1
    OBVIOUS
  <2> HIDE DEF w
  <2>2. Total(w) = 10
    BY <2>1, TotalOnes
  <2> QED
    BY <2>2, FlagsOf DEF w, facp_flags_v1
<1>4. FACP_v1 = 116
  <2> DEFINE w == <<TableHeader, 4, 4, 1, 1, 2, 4, 1, 1, 1, 1, 4, 4, 4, 4, 4, 4, 4, 4, 1
                  , 1, 1, 1, 1, 1, 1, 1, 2, 2, 2, 2, 1, 1, 1, 1, 1, 3, facp_flags_v1>>
  <2>1. w \in Seq(Int) /\ Len(w) = 38
    BY <1>3, CommonSizes, PaddedSizes
  <2>2. w[1] = 36 /\ w[2] = 4 /\ w[3] = 4 /\ w[4] = 1 /\ w[5] = 1 /\ w[6] = 2
        /\ w[7] = 4 /\ w[8] = 1 /\ w[9] = 1 /\ w[10] = 1 /\ w[11] = 1 /\ w[12] = 4
        /\ w[13] = 4 /\ w[14] = 4 /\ w[15] = 4 /\ w[16] = 4 /\ w[17] = 4 /\ w[18] = 4
        /\ w[19] = 4 /\ w[20] = 1 /\ w[21] = 1 /\ w[22] = 1 /\ w[23] = 1 /\ w[24] = 1
        /\ w[25] = 1 /\ w[26] = 1 /\ w[27] = 1 /\ w[28] = 2 /\ w[29] = 2 /\ w[30] = 2
        /\ w[31] = 2 /\ w[32] = 1 /\ w[33] = 1 /\ w[34] = 1 /\ w[35] = 1 /\ w[36] = 1
        /\ w[37] = 3 /\ w[38] = 4
    BY <1>3, CommonSizes, PaddedSizes
  <2> HIDE DEF w
  <2>3. PICK f : Sums(w, f) /\ Total(w) = f[38]
    BY <2>1, TotalSteps
  <2>4. f[0] = 0 /\ \A i, j \in 0 .. 38 : j = i + 1 => f[j] = f[i] + w[j]
    BY <2>1, <2>3 DEF Sums
  <2>5. f[6] = 48
    <3>1. f[1] = f[0] + w[1] /\ f[2] = f[1] + w[2] /\ f[3] = f[2] + w[3]
          /\ f[4] = f[3] + w[4] /\ f[5] = f[4] + w[5] /\ f[6] = f[5] + w[6]
      BY <2>4
    <3> QED
      BY <2>2, <2>4, <3>1
  <2>6. f[12] = 60
    <3>1. f[7] = f[6] + w[7] /\ f[8] = f[7] + w[8] /\ f[9] = f[8] + w[9]
          /\ f[10] = f[9] + w[10] /\ f[11] = f[10] + w[11] /\ f[12] = f[11] + w[12]
      BY <2>4
    <3> QED
      BY <2>2, <2>5, <3>1
  <2>7. f[18] = 84
    <3>1. f[13] = f[12] + w[13] /\ f[14] = f[13] + w[14] /\ f[15] = f[14] + w[15]
          /\ f[16] = f[15] + w[16] /\ f[17] = f[16] + w[17] /\ f[18] = f[17] + w[18]
      BY <2>4
    <3> QED
      BY <2>2, <2>6, <3>1
  <2>8. f[24] = 93
    <3>1. f[19] = f[18] + w[19] /\ f[20] = f[19] + w[20] /\ f[21] = f[20] + w[21]
          /\ f[22] = f[21] + w[22] /\ f[23] = f[22] + w[23] /\ f[24] = f[23] + w[24]
      BY <2>4
    <3> QED
      BY <2>2, <2>7, <3>1
  <2>9. f[30] = 102
    <3>1. f[25] = f[24] + w[25] /\ f[26] = f[25] + w[26] /\ f[27] = f[26] + w[27]
          /\ f[28] = f[27] + w[28] /\ f[29] = f[28] + w[29] /\ f[30] = f[29] + w[30]
      BY <2>4
    <3> QED
      BY <2>2, <2>8, <3>1
  <2>10. f[36] = 109
    <3>1. f[31] = f[30] + w[31] /\ f[32] = f[31] + w[32] /\ f[33] = f[32] + w[33]
          /\ f[34] = f[33] + w[34] /\ f[35] = f[34] + w[35] /\ f[36] = f[35] + w[36]
      BY <2>4
    <3> QED
      BY <2>2, <2>9, <3>1
  <2>11. f[38] = 116
    <3>1. f[37] = f[36] + w[37] /\ f[38] = f[37] + w[38]
      BY <2>4
    <3> QED
      BY <2>2, <2>10, <3>1
  <2> QED
    BY <2>3, <2>11 DEF w, FACP_v1, Packed
<1>5. facp_iapc_arch_v3 = 2
  <2>1. Total(<<1, 1, 1, 1>>) = 4
    BY Total4
  <2> QED
    BY <2>1, FlagsOf DEF facp_iapc_arch_v3
<1>6. facp_flags_v3 = 4
  <2> DEFINE w == <<1, 1, 1, 1, 1, 1, 1, 1, 1, 1, 1, 1, 1, 1, 1, 1, 1, 1, 1, 1>>
  <2>1. w \in Seq(Int) /\ Len(w) = 20 /\ \A i \in 1 .. 20 : w[i] = 1
    OBVIOUS
  <2> HIDE DEF w
  <2>2. Total(w) = 20
    BY <2>1, TotalOnes
  <2> QED
    BY <2>2, FlagsOf DEF w, facp_flags_v3
<1>7. FACP_v3 = 244
  <2> DEFINE w == <<TableHeader, 4, 4, 1, 1, 2, 4, 1, 1, 1, 1, 4, 4, 4, 4, 4, 4, 4, 4, 1
                  , 1, 1, 1, 1, 1, 1, 1, 2, 2, 2, 2, 1, 1, 1, 1, 1, facp_iapc_arch_v3, 1
                  , facp_flags_v3, GAS, 1, 3, 8, 8, GAS, GAS, GAS, GAS, GAS, GAS, GAS
                  , GAS>>
  <2>1. w \in Seq(Int) /\ Len(w) = 52
    BY <1>5, <1>6, CommonSizes, PaddedSizes
  <2>2. w[1] = 36 /\ w[2] = 4 /\ w[3] = 4 /\ w[4] = 1 /\ w[5] = 1 /\ w[6] = 2
        /\ w[7] = 4 /\ w[8] = 1 /\ w[9] = 1 /\ w[10] = 1 /\ w[11] = 1 /\ w[12] = 4
        /\ w[13] = 4 /\ w[14] = 4 /\ w[15] = 4 /\ w[16] = 4 /\ w[17] = 4 /\ w[18] = 4
        /\ w[19] = 4 /\ w[20] = 1 /\ w[21] = 1 /\ w[22] = 1 /\ w[23] = 1 /\ w[24] = 1
        /\ w[25] = 1 /\ w[26] = 1 /\ w[27] = 1 /\ w[28] = 2 /\ w[29] = 2 /\ w[30] = 2
        /\ w[31] = 2 /\ w[32] = 1 /\ w[33] = 1 /\ w[34] = 1 /\ w[35] = 1 /\ w[36] = 1
        /\ w[37] = 2 /\ w[38] = 1 /\ w[39] = 4 /\ w[40] = 12 /\ w[41] = 1 /\ w[42] = 3
        /\ w[43] = 8 /\ w[44] = 8 /\ w[45] = 12 /\ w[46] = 12 /\ w[47] = 12
        /\ w[48] = 12 /\ w[49] = 12 /\ w[50] = 12 /\ w[51] = 12 /\ w[52] = 12
    BY <1>5, <1>6, CommonSizes, PaddedSizes
  <2> HIDE DEF w
  <2>3. PICK f : Sums(w, f) /\ Total(w) = f[52]
    BY <2>1, TotalSteps
  <2>4. f[0] = 0 /\ \A i, j \in 0 .. 52 : j = i + 1 => f[j] = f[i] + w[j]
    BY <2>1, <2>3 DEF Sums
  <2>5. f[6] = 48
    <3>1. f[1] = f[0] + w[1] /\ f[2] = f[1] + w[2] /\ f[3] = f[2] + w[3]
          /\ f[4] = f[3] + w[4] /\ f[5] = f[4] + w[5] /\ f[6] = f[5] + w[6]
      BY <2>4
    <3> QED
      BY <2>2, <2>4, <3>1
  <2>6. f[12] = 60
    <3>1. f[7] = f[6] + w[7] /\ f[8] = f[7] + w[8] /\ f[9] = f[8] + w[9]
          /\ f[10] = f[9] + w[10] /\ f[11] = f[10] + w[11] /\ f[12] = f[11] + w[12]
      BY <2>4
    <3> QED
      BY <2>2, <2>5, <3>1
  <2>7. f[18] = 84
    <3>1. f[13] = f[12] + w[13] /\ f[14] = f[13] + w[14] /\ f[15] = f[14] + w[15]
          /\ f[16] = f[15] + w[16] /\ f[17] = f[16] + w[17] /\ f[18] = f[17] + w[18]
      BY <2>4
    <3> QED
      BY <2>2, <2>6, <3>1
  <2>8. f[24] = 93
    <3>1. f[19] = f[18] + w[19] /\ f[20] = f[19] + w[20] /\ f[21] = f[20] + w[21]
          /\ f[22] = f[21] + w[22] /\ f[23] = f[22] + w[23] /\ f[24] = f[23] + w[24]
      BY <2>4
    <3> QED
      BY <2>2, <2>7, <3>1
  <2>9. f[30] = 102
    <3>1. f[25] = f[24] + w[25] /\ f[26] = f[25] + w[26] /\ f[27] = f[26] + w[27]
          /\ f[28] = f[27] + w[28] /\ f[29] = f[28] + w[29] /\ f[30] = f[29] + w[30]
      BY <2>4
    <3> QED
      BY <2>2, <2>8, <3>1
  <2>10. f[36] = 109
    <3>1. f[31] = f[30] + w[31] /\ f[32] = f[31] + w[32] /\ f[33] = f[32] + w[33]
          /\ f[34] = f[33] + w[34] /\ f[35] = f[34] + w[35] /\ f[36] = f[35] + w[36]
      BY <2>4
    <3> QED
      BY <2>2, <2>9, <3>1
  <2>11. f[42] = 132
    <3>1. f[37] = f[36] + w[37] /\ f[38] = f[37] + w[38] /\ f[39] = f[38] + w[39]
          /\ f[40] = f[39] + w[40] /\ f[41] = f[40] + w[41] /\ f[42] = f[41] + w[42]
      BY <2>4
    <3> QED
      BY <2>2, <2>10, <3>1
  <2>12. f[48] = 196
    <3>1. f[43] = f[42] + w[43] /\ f[44] = f[43] + w[44] /\ f[45] = f[44] + w[45]
          /\ f[46] = f[45] + w[46] /\ f[47] = f[46] + w[47] /\ f[48] = f[47] + w[48]
      BY <2>4
    <3> QED
      BY <2>2, <2>11, <3>1
  <2>13. f[52] = 244
    <3>1. f[49] = f[48] + w[49] /\ f[50] = f[49] + w[50] /\ f[51] = f[50] + w[51]
          /\ f[52] = f[51] + w[52]
      BY <2>4
    <3> QED
      BY <2>2, <2>12, <3>1
  <2> QED
    BY <2>3, <2>13 DEF w, FACP_v3, Packed
<1>8. facp_iapc_arch_v4 = 2
  <2>1. Total(<<1, 1, 1, 1, 1>>) = 5
    BY Total5
  <2> QED
    BY <2>1, FlagsOf DEF facp_iapc_arch_v4
<1>9. FACP_v4 = 244
  <2> DEFINE w == <<TableHeader, 4, 4, 1, 1, 2, 4, 1, 1, 1, 1, 4, 4, 4, 4, 4, 4, 4, 4, 1
                  , 1, 1, 1, 1, 1, 1, 1, 2, 2, 2, 2, 1, 1, 1, 1, 1, facp_iapc_arch_v4, 1
                  , facp_flags_v3, GAS, 1, 3, 8, 8, GAS, GAS, GAS, GAS, GAS, GAS, GAS
                  , GAS>>
  <2>1. w \in Seq(Int) /\ Len(w) = 52
    BY <1>8, <1>6, CommonSizes, PaddedSizes
  <2>2. w[1] = 36 /\ w[2] = 4 /\ w[3] = 4 /\ w[4] = 1 /\ w[5] = 1 /\ w[6] = 2
        /\ w[7] = 4 /\ w[8] = 1 /\ w[9] = 1 /\ w[10] = 1 /\ w[11] = 1 /\ w[12] = 4
        /\ w[13] = 4 /\ w[14] = 4 /\ w[15] = 4 /\ w[16] = 4 /\ w[17] = 4 /\ w[18] = 4
        /\ w[19] = 4 /\ w[20] = 1 /\ w[21] = 1 /\ w[22] = 1 /\ w[23] = 1 /\ w[24] = 1
        /\ w[25] = 1 /\ w[26] = 1 /\ w[27] = 1 /\ w[28] = 2 /\ w[29] = 2 /\ w[30] = 2
        /\ w[31] = 2 /\ w[32] = 1 /\ w[33] = 1 /\ w[34] = 1 /\ w[35] = 1 /\ w[36] = 1
        /\ w[37] = 2 /\ w[38] = 1 /\ w[39] = 4 /\ w[40] = 12 /\ w[41] = 1 /\ w[42] = 3
        /\ w[43] = 8 /\ w[44] = 8 /\ w[45] = 12 /\ w[46] = 12 /\ w[47] = 12
        /\ w[48] = 12 /\ w[49] = 12 /\ w[50] = 12 /\ w[51] = 12 /\ w[52] = 12
    BY <1>8, <1>6, CommonSizes, PaddedSizes
  <2> HIDE DEF w
  <2>3. PICK f : Sums(w, f) /\ Total(w) = f[52]
    BY <2>1, TotalSteps
  <2>4. f[0] = 0 /\ \A i, j \in 0 .. 52 : j = i + 1 => f[j] = f[i] + w[j]
    BY <2>1, <2>3 DEF Sums
  <2>5. f[6] = 48
    <3>1. f[1] = f[0] + w[1] /\ f[2] = f[1] + w[2] /\ f[3] = f[2] + w[3]
          /\ f[4] = f[3] + w[4] /\ f[5] = f[4] + w[5] /\ f[6] = f[5] + w[6]
      BY <2>4
    <3> QED
      BY <2>2, <2>4, <3>1
  <2>6. f[12] = 60
    <3>1. f[7] = f[6] + w[7] /\ f[8] = f[7] + w[8] /\ f[9] = f[8] + w[9]
          /\ f[10] = f[9] + w[10] /\ f[11] = f[10] + w[11] /\ f[12] = f[11] + w[12]
      BY <2>4
    <3> QED
      BY <2>2, <2>5, <3>1
  <2>7. f[18] = 84
    <3>1. f[13] = f[12] + w[13] /\ f[14] = f[13] + w[14] /\ f[15] = f[14] + w[15]
          /\ f[16] = f[15] + w[16] /\ f[17] = f[16] + w[17] /\ f[18] = f[17] + w[18]
      BY <2>4
    <3> QED
      BY <2>2, <2>6, <3>1
  <2>8. f[24] = 93
    <3>1. f[19] = f[18] + w[19] /\ f[20] = f[19] + w[20] /\ f[21] = f[20] + w[21]
          /\ f[22] = f[21] + w[22] /\ f[23] = f[22] + w[23] /\ f[24] = f[23] + w[24]
      BY <2>4
    <3> QED
      BY <2>2, <2>7, <3>1
  <2>9. f[30] = 102
    <3>1. f[25] = f[24] + w[25] /\ f[26] = f[25] + w[26] /\ f[27] = f[26] + w[27]
          /\ f[28] = f[27] + w[28] /\ f[29] = f[28] + w[29] /\ f[30] = f[29] + w[30]
      BY <2>4
    <3> QED
      BY <2>2, <2>8, <3>1
  <2>10. f[36] = 109
    <3>1. f[31] = f[30] + w[31] /\ f[32] = f[31] + w[32] /\ f[33] = f[32] + w[33]
          /\ f[34] = f[33] + w[34] /\ f[35] = f[34] + w[35] /\ f[36] = f[35] + w[36]
      BY <2>4
    <3> QED
      BY <2>2, <2>9, <3>1
  <2>11. f[42] = 132
    <3>1. f[37] = f[36] + w[37] /\ f[38] = f[37] + w[38] /\ f[39] = f[38] + w[39]
          /\ f[40] = f[39] + w[40] /\ f[41] = f[40] + w[41] /\ f[42] = f[41] + w[42]
      BY <2>4
    <3> QED
      BY <2>2, <2>10, <3>1
  <2>12. f[48] = 196
    <3>1. f[43] = f[42] + w[43] /\ f[44] = f[43] + w[44] /\ f[45] = f[44] + w[45]
          /\ f[46] = f[45] + w[46] /\ f[47] = f[46] + w[47] /\ f[48] = f[47] + w[48]
      BY <2>4
    <3> QED
      BY <2>2, <2>11, <3>1
  <2>13. f[52] = 244
    <3>1. f[49] = f[48] + w[49] /\ f[50] = f[49] + w[50] /\ f[51] = f[50] + w[51]
          /\ f[52] = f[51] + w[52]
      BY <2>4
    <3> QED
      BY <2>2, <2>12, <3>1
  <2> QED
    BY <2>3, <2>13 DEF w, FACP_v4, Packed
<1>10. facp_iapc_arch_v5 = 2
  <2> DEFINE w == <<1, 1, 1, 1, 1, 1>>
  <2>1. w \in Seq(Int) /\ Len(w) = 6 /\ \A i \in 1 .. 6 : w[i] = 1
    OBVIOUS
  <2> HIDE DEF w
  <2>2. Total(w) = 6
    BY <2>1, TotalOnes
  <2> QED
    BY <2>2, FlagsOf DEF w, facp_iapc_arch_v5
<1>11. facp_flags_v5 = 4
  <2> DEFINE w == <<1, 1, 1, 1, 1, 1, 1, 1, 1, 1, 1, 1, 1, 1, 1, 1, 1, 1, 1, 1, 1, 1>>
  <2>1. w \in Seq(Int) /\ Len(w) = 22 /\ \A i \in 1 .. 22 : w[i] = 1
    OBVIOUS
  <2> HIDE DEF w
  <2>2. Total(w) = 22
    BY <2>1, TotalOnes
  <2> QED
    BY <2>2, FlagsOf DEF w, facp_flags_v5
<1>12. FACP_v5 = 268
  <2> DEFINE w == <<TableHeader, 4, 4, 1, 1, 2, 4, 1, 1, 1, 1, 4, 4, 4, 4, 4, 4, 4, 4, 1
                  , 1, 1, 1, 1, 1, 1, 1, 2, 2, 2, 2, 1, 1, 1, 1, 1, facp_iapc_arch_v5, 1
                  , facp_flags_v5, GAS, 1, 3, 8, 8, GAS, GAS, GAS, GAS, GAS, GAS, GAS
                  , GAS, GAS, GAS>>
  <2>1. w \in Seq(Int) /\ Len(w) = 54
    BY <1>10, <1>11, CommonSizes, PaddedSizes
  <2>2. w[1] = 36 /\ w[2] = 4 /\ w[3] = 4 /\ w[4] = 1 /\ w[5] = 1 /\ w[6] = 2
        /\ w[7] = 4 /\ w[8] = 1 /\ w[9] = 1 /\ w[10] = 1 /\ w[11] = 1 /\ w[12] = 4
        /\ w[13] = 4 /\ w[14] = 4 /\ w[15] = 4 /\ w[16] = 4 /\ w[17] = 4 /\ w[18] = 4
        /\ w[19] = 4 /\ w[20] = 1 /\ w[21] = 1 /\ w[22] = 1 /\ w[23] = 1 /\ w[24] = 1
        /\ w[25] = 1 /\ w[26] = 1 /\ w[27] = 1 /\ w[28] = 2 /\ w[29] = 2 /\ w[30] = 2
        /\ w[31] = 2 /\ w[32] = 1 /\ w[33] = 1 /\ w[34] = 1 /\ w[35] = 1 /\ w[36] = 1
        /\ w[37] = 2 /\ w[38] = 1 /\ w[39] = 4 /\ w[40] = 12 /\ w[41] = 1 /\ w[42] = 3
        /\ w[43] = 8 /\ w[44] = 8 /\ w[45] = 12 /\ w[46] = 12 /\ w[47] = 12
        /\ w[48] = 12 /\ w[49] = 12 /\ w[50] = 12 /\ w[51] = 12 /\ w[52] = 12
        /\ w[53] = 12 /\ w[54] = 12
    BY <1>10, <1>11, CommonSizes, PaddedSizes
  <2> HIDE DEF w
  <2>3. PICK f : Sums(w, f) /\ Total(w) = f[54]
    BY <2>1, TotalSteps
  <2>4. f[0] = 0 /\ \A i, j \in 0 .. 54 : j = i + 1 => f[j] = f[i] + w[j]
    BY <2>1, <2>3 DEF Sums
  <2>5. f[6] = 48
    <3>1. f[1] = f[0] + w[1] /\ f[2] = f[1] + w[2] /\ f[3] = f[2] + w[3]
          /\ f[4] = f[3] + w[4] /\ f[5] = f[4] + w[5] /\ f[6] = f[5] + w[6]
      BY <2>4
    <3> QED
      BY <2>2, <2>4, <3>1
  <2>6. f[12] = 60
    <3>1. f[7] = f[6] + w[7] /\ f[8] = f[7] + w[8] /\ f[9] = f[8] + w[9]
          /\ f[10] = f[9] + w[10] /\ f[11] = f[10] + w[11] /\ f[12] = f[11] + w[12]
      BY <2>4
    <3> QED
      BY <2>2, <2>5, <3>1
  <2>7. f[18] = 84
    <3>1. f[13] = f[12] + w[13] /\ f[14] = f[13] + w[14] /\ f[15] = f[14] + w[15]
          /\ f[16] = f[15] + w[16] /\ f[17] = f[16] + w[17] /\ f[18] = f[17] + w[18]
      BY <2>4
    <3> QED
      BY <2>2, <2>6, <3>1
  <2>8. f[24] = 93
    <3>1. f[19] = f[18] + w[19] /\ f[20] = f[19] + w[20] /\ f[21] = f[20] + w[21]
          /\ f[22] = f[21] + w[22] /\ f[23] = f[22] + w[23] /\ f[24] = f[23] + w[24]
      BY <2>4
    <3> QED
      BY <2>2, <2>7, <3>1
  <2>9. f[30] = 102
    <3>1. f[25] = f[24] + w[25] /\ f[26] = f[25] + w[26] /\ f[27] = f[26] + w[27]
          /\ f[28] = f[27] + w[28] /\ f[29] = f[28] + w[29] /\ f[30] = f[29] + w[30]
      BY <2>4
    <3> QED
      BY <2>2, <2>8, <3>1
  <2>10. f[36] = 109
    <3>1. f[31] = f[30] + w[31] /\ f[32] = f[31] + w[32] /\ f[33] = f[32] + w[33]
          /\ f[34] = f[33] + w[34] /\ f[35] = f[34] + w[35] /\ f[36] = f[35] + w[36]
      BY <2>4
    <3> QED
      BY <2>2, <2>9, <3>1
  <2>11. f[42] = 132
    <3>1. f[37] = f[36] + w[37] /\ f[38] = f[37] + w[38] /\ f[39] = f[38] + w[39]
          /\ f[40] = f[39] + w[40] /\ f[41] = f[40] + w[41] /\ f[42] = f[41] + w[42]
      BY <2>4
    <3> QED
      BY <2>2, <2>10, <3>1
  <2>12. f[48] = 196
    <3>1. f[43] = f[42] + w[43] /\ f[44] = f[43] + w[44] /\ f[45] = f[44] + w[45]
          /\ f[46] = f[45] + w[46] /\ f[47] = f[46] + w[47] /\ f[48] = f[47] + w[48]
      BY <2>4
    <3> QED
      BY <2>2, <2>11, <3>1
  <2>13. f[54] = 268
    <3>1. f[49] = f[48] + w[49] /\ f[50] = f[49] + w[50] /\ f[51] = f[50] + w[51]
          /\ f[52] = f[51] + w[52] /\ f[53] = f[52] + w[53] /\ f[54] = f[53] + w[54]
      BY <2>4
    <3> QED
      BY <2>2, <2>12, <3>1
  <2> QED
    BY <2>3, <2>13 DEF w, FACP_v5, Packed
<1> QED
  BY <1>2, <1>4, <1>7, <1>9, <1>12

-----------------------------------------------------------------------------
(* The bodies of Unpackable. *)

\* The fields ws without the rest of the window.
Known(ws) == [k \in 1 .. Len(ws) |-> IF ws[k] = Rest THEN 0 ELSE ws[k]]

\* What each group of a body takes.
Taken(groups, length) ==
  [i \in 1 .. Len(groups) |-> IF length > groups[i][1] THEN Total(Known(groups[i][2])) ELSE 0]

LEMMA SumOfKnown ==
  ASSUME NEW ws, Len(ws) \in Nat
  PROVE  SumOf(Len(ws), LAMBDA k: IF ws[k] = Rest THEN 0 ELSE ws[k]) = Total(Known(ws))
<1> DEFINE n == Len(ws)
           v == Known(ws)
           A(f) == f = [i \in 0 .. n |-> IF i = 0 THEN 0 ELSE f[i - 1] +
                                           (IF ws[i] = Rest THEN 0 ELSE ws[i])]
           B(f) == f = [i \in 0 .. Len(v) |-> IF i = 0 THEN 0 ELSE f[i - 1] + v[i]]
<1>1. Len(v) = n /\ \A i \in 1 .. n : v[i] = IF ws[i] = Rest THEN 0 ELSE ws[i]
  BY DEF Known
<1>2. \A f : A(f) <=> B(f)
  <2> TAKE f
  <2> HIDE DEF v
  <2>1. \A i \in 0 .. n : i = 0 \/ i \in 1 .. n
    OBVIOUS
  <2>2. \A i \in 0 .. n : (IF i = 0 THEN 0 ELSE f[i - 1] + (IF ws[i] = Rest THEN 0 ELSE ws[i]))
                            = (IF i = 0 THEN 0 ELSE f[i - 1] + v[i])
    BY <1>1, <2>1
  <2>3. [i \in 0 .. n |-> IF i = 0 THEN 0 ELSE f[i - 1] + (IF ws[i] = Rest THEN 0 ELSE ws[i])]
         = [i \in 0 .. n |-> IF i = 0 THEN 0 ELSE f[i - 1] + v[i]]
    BY <2>2
  <2> QED
    BY <1>1, <2>3
<1>3. (CHOOSE f : A(f)) = (CHOOSE f : B(f))
  <2> HIDE DEF A, B
  <2> QED
    BY <1>2, Zenon
<1>4. SumOf(n, LAMBDA k: IF ws[k] = Rest THEN 0 ELSE ws[k]) = (CHOOSE f : A(f))[n]
  BY DEF SumOf
<1>5. Total(v) = (CHOOSE f : B(f))[n]
  BY <1>1 DEF Total, SumOf
<1> QED
  BY <1>3, <1>4, <1>5

\* What unpack bodies do, as sums of widths.
LEMMA UnpackedIs ==
  ASSUME NEW groups, Len(groups) \in Nat,
         \A i \in 1 .. Len(groups) : Len(groups[i][2]) \in Nat,
         NEW length, NEW from
  PROVE  Unpacked(groups, length, from)
           = [raised |-> from + Total(Taken(groups, length)) > length,
              at |-> IF \E i \in 1 .. Len(groups) : /\ length > groups[i][1]
                                                    /\ Contains(groups[i][2], Rest)
                     THEN length ELSE from + Total(Taken(groups, length))]
<1> DEFINE n == Len(groups)
           read == {i \in 1 .. n : length > groups[i][1]}
           known(v) == SumOf(Len(v), LAMBDA k: IF v[k] = Rest THEN 0 ELSE v[k])
           t == Taken(groups, length)
           A(f) == f = [i \in 0 .. n |-> IF i = 0 THEN 0 ELSE f[i - 1] +
                                           (IF i \in read THEN known(groups[i][2]) ELSE 0)]
           B(f) == f = [i \in 0 .. Len(t) |-> IF i = 0 THEN 0 ELSE f[i - 1] + t[i]]
<1>1. Len(t) = n
  BY DEF Taken
<1>2. \A i \in 1 .. n : t[i] = IF i \in read THEN known(groups[i][2]) ELSE 0
  <2> TAKE i \in 1 .. n
  <2>1. known(groups[i][2]) = Total(Known(groups[i][2]))
    BY SumOfKnown
  <2>2. t[i] = IF length > groups[i][1] THEN Total(Known(groups[i][2])) ELSE 0
    BY DEF Taken
  <2> HIDE DEF known, t
  <2> QED
    BY <2>1, <2>2
<1>3. \A f : A(f) <=> B(f)
  <2> TAKE f
  <2> HIDE DEF t, known, read
  <2>1. \A i \in 0 .. n : i = 0 \/ i \in 1 .. n
    OBVIOUS
  <2>2. \A i \in 0 .. n :
          (IF i = 0 THEN 0 ELSE f[i - 1] + (IF i \in read THEN known(groups[i][2]) ELSE 0))
            = (IF i = 0 THEN 0 ELSE f[i - 1] + t[i])
    BY <1>2, <2>1
  <2>3. [i \in 0 .. n |->
           IF i = 0 THEN 0 ELSE f[i - 1] + (IF i \in read THEN known(groups[i][2]) ELSE 0)]
         = [i \in 0 .. n |-> IF i = 0 THEN 0 ELSE f[i - 1] + t[i]]
    BY <2>2
  <2> QED
    BY <1>1, <2>3
<1>4. (CHOOSE f : A(f)) = (CHOOSE f : B(f))
  <2> HIDE DEF A, B
  <2> QED
    BY <1>3, Zenon
<1>5. SumOf(n, LAMBDA i: IF i \in read THEN known(groups[i][2]) ELSE 0) = (CHOOSE f : A(f))[n]
  BY DEF SumOf
<1>6. Total(t) = (CHOOSE f : B(f))[n]
  BY <1>1 DEF Total, SumOf
<1> DEFINE end == from + SumOf(n, LAMBDA i: IF i \in read THEN known(groups[i][2]) ELSE 0)
<1>7. end = from + Total(t)
  BY <1>4, <1>5, <1>6
<1>8. Unpacked(groups, length, from)
        = [raised |-> end > length,
           at |-> IF \E i \in read : Contains(groups[i][2], Rest) THEN length ELSE end]
  BY DEF Unpacked
<1>9. (\E i \in read : Contains(groups[i][2], Rest))
        <=> \E i \in 1 .. n : length > groups[i][1] /\ Contains(groups[i][2], Rest)
  OBVIOUS
<1> HIDE DEF end
<1> QED
  BY <1>7, <1>8, <1>9

\* A body of fields that are all read takes the sum of their widths.
LEMMA UnpackedAlways ==
  ASSUME NEW ws \in Seq(Int), \A k \in 1 .. Len(ws) : ws[k] # Rest,
         NEW length \in Nat \ {0}, NEW from \in Nat
  PROVE  Unpacked(<<Always(ws)>>, length, from).at = from + Total(ws)
<1> DEFINE groups == <<Always(ws)>>
<1>1. Len(groups) = 1 /\ groups[1][1] = 0 /\ groups[1][2] = ws
  BY DEF Always
<1>2. Known(ws) = ws
  BY LenProperties DEF Known
<1>3. Taken(groups, length) = <<Total(ws)>>
  <2>1. \A i \in 1 .. 1 : (IF length > groups[i][1] THEN Total(Known(groups[i][2])) ELSE 0)
                            = Total(ws)
    <3>1. length > 0 /\ \A i \in 1 .. 1 : i = 1
      OBVIOUS
    <3> HIDE DEF groups
    <3> QED
      BY <1>1, <1>2, <3>1
  <2>2. Taken(groups, length) = [i \in 1 .. 1 |-> Total(ws)]
    <3> HIDE DEF groups
    <3> QED
      BY <1>1, <2>1 DEF Taken
  <2> QED
    BY <2>2
<1>4. Total(ws) \in Int
  BY TotalSteps, LenProperties DEF Sums
<1>5. Total(<<Total(ws)>>) = Total(ws)
  BY <1>4, Total1
<1>6. ~ \E i \in 1 .. Len(groups) : Contains(groups[i][2], Rest)
  <2>1. ~ Contains(ws, Rest)
    BY LenProperties DEF Contains
  <2>2. \A i \in 1 .. 1 : i = 1
    OBVIOUS
  <2> HIDE DEF groups
  <2> QED
    BY <1>1, <2>1, <2>2
<1>7. \A i \in 1 .. Len(groups) : Len(groups[i][2]) \in Nat
  <2>1. Len(ws) \in Nat /\ \A i \in 1 .. 1 : i = 1
    BY LenProperties
  <2> HIDE DEF groups
  <2> QED
    BY <1>1, <2>1
<1> HIDE DEF groups
<1>8. Unpacked(groups, length, from).at = from + Total(Taken(groups, length))
  <2>1. Len(groups) \in Nat
    BY <1>1
  <2>2. Unpacked(groups, length, from)
          = [raised |-> from + Total(Taken(groups, length)) > length,
             at |-> IF \E i \in 1 .. Len(groups) : /\ length > groups[i][1]
                                                   /\ Contains(groups[i][2], Rest)
                    THEN length ELSE from + Total(Taken(groups, length))]
    BY <1>7, <2>1, UnpackedIs
  <2>3. ~ \E i \in 1 .. Len(groups) : length > groups[i][1] /\ Contains(groups[i][2], Rest)
    BY <1>6
  <2> QED
    BY <2>2, <2>3
<1> QED
  BY <1>3, <1>5, <1>8 DEF groups

-----------------------------------------------------------------------------
(* Bodies of fields that are read as far as the length of the structure goes. *)

\* Widths add up to no less than nothing.
LEMMA TotalNat ==
  ASSUME NEW w \in Seq(Nat)
  PROVE  Total(w) \in Nat
<1>1. w \in Seq(Int) /\ Len(w) \in Nat
  BY LenProperties
<1>2. PICK f : Sums(w, f) /\ Total(w) = f[Len(w)]
  BY <1>1, TotalSteps
<1> DEFINE T == {i \in 0 .. Len(w) : ~ f[i] >= 0}
<1>3. T = {}
  <2> SUFFICES ASSUME T # {} PROVE FALSE
    OBVIOUS
  <2>1. PICK i \in T : \A j \in T : i <= j
    <3>1. T \subseteq Nat
      BY <1>1
    <3> HIDE DEF T
    <3> QED
      BY <3>1, LeastOf
  <2>2. i \in 0 .. Len(w) /\ f[0] = 0 /\ ~ f[i] >= 0
    BY <1>2, <2>1 DEF Sums
  <2>3. i \in 1 .. Len(w) /\ i - 1 \in 0 .. Len(w) /\ i - 1 \notin T
    BY <1>1, <2>1, <2>2
  <2>4. f[i] = f[i - 1] + w[i] /\ f[i - 1] \in Int /\ f[i - 1] >= 0
    BY <1>2, <2>2, <2>3 DEF Sums
  <2>5. w[i] \in Nat
    BY <2>3, ElementOfSeq
  <2> QED
    BY <2>2, <2>4, <2>5
<1>4. f[Len(w)] \in Int /\ f[Len(w)] >= 0
  BY <1>1, <1>2, <1>3 DEF Sums
<1> QED
  BY <1>2, <1>4

\* The fields ws take n bytes, and not the rest of the window.
Takes(ws, n) == ws \in Seq(Nat) /\ (\A k \in 1 .. Len(ws) : ws[k] # Rest) /\ Total(ws) = n

\* Group i of the body begins at byte ends[i] and ends at ends[i + 1].
Stages(groups, ends) ==
  /\ DOMAIN groups = 1 .. Len(groups) /\ Len(groups) \in Nat
  /\ ends[1] = 4 /\ \A i \in 1 .. Len(groups) + 1 : ends[i] \in Nat
  /\ \A i \in 1 .. Len(groups) : /\ groups[i][1] \in Nat
                                 /\ Takes(groups[i][2], ends[i + 1] - ends[i])

\* Fields that take n bytes are all known.
LEMMA TakesKnown ==
  ASSUME NEW ws, NEW n, Takes(ws, n)
  PROVE  /\ Total(Known(ws)) = n /\ Len(ws) \in Nat /\ ~ Contains(ws, Rest)
         /\ n \in Nat
<1>1. Len(ws) \in Nat /\ DOMAIN ws = 1 .. Len(ws) /\ ws \in Seq(Int)
  BY LenProperties DEF Takes
<1>2. Known(ws) = ws
  <2>1. \A k \in 1 .. Len(ws) : (IF ws[k] = Rest THEN 0 ELSE ws[k]) = ws[k]
    BY DEF Takes
  <2>2. Known(ws) = [k \in 1 .. Len(ws) |-> ws[k]]
    BY <2>1 DEF Known
  <2>3. ws = [k \in 1 .. Len(ws) |-> ws[k]]
    BY <1>1
  <2> QED
    BY <2>2, <2>3
<1>3. ~ Contains(ws, Rest)
  BY DEF Takes, Contains
<1>4. n \in Nat
  BY TotalNat DEF Takes
<1> QED
  BY <1>1, <1>2, <1>3, <1>4 DEF Takes

\* The sum of differences.
LEMMA TotalEnds ==
  ASSUME NEW w \in Seq(Int), NEW n, Len(w) = n,
         NEW ends, \A i \in 1 .. n + 1 : ends[i] \in Int,
         \A i \in 1 .. n : w[i] = ends[i + 1] - ends[i]
  PROVE  Total(w) = ends[n + 1] - ends[1]
<1>1. n \in Nat
  BY LenProperties
<1>2. PICK f : Sums(w, f) /\ Total(w) = f[n]
  BY TotalSteps
<1> DEFINE T == {i \in 0 .. n : f[i] # ends[i + 1] - ends[1]}
<1>3. T = {}
  <2> SUFFICES ASSUME T # {} PROVE FALSE
    OBVIOUS
  <2>1. PICK i \in T : \A j \in T : i <= j
    <3>1. T \subseteq Nat
      BY <1>1
    <3> HIDE DEF T
    <3> QED
      BY <3>1, LeastOf
  <2>2. i \in 0 .. n /\ f[i] # ends[i + 1] - ends[1] /\ f[0] = 0
    BY <1>1, <1>2, <2>1 DEF Sums
  <2>3. i # 0
    <3>1. 1 \in 1 .. n + 1
      BY <1>1
    <3>2. ends[1] - ends[1] = 0
      BY <3>1
    <3> QED
      BY <2>2, <3>2
  <2>4. i \in 1 .. n /\ i - 1 \in 0 .. n /\ i - 1 \notin T
    BY <1>1, <2>1, <2>2, <2>3
  <2>5. f[i - 1] = ends[i] - ends[1] /\ f[i] = f[i - 1] + w[i]
        /\ w[i] = ends[i + 1] - ends[i]
    BY <1>1, <1>2, <2>4 DEF Sums
  <2>6. ends[i] \in Int /\ ends[i + 1] \in Int /\ ends[1] \in Int
    BY <1>1, <2>4
  <2> QED
    BY <2>2, <2>5, <2>6
<1> QED
  BY <1>1, <1>2, <1>3

\* If the first k groups are read, and no others, the body ends with the k-th.
LEMMA StagesUnpacked ==
  ASSUME NEW groups, NEW ends, Stages(groups, ends), NEW length \in Nat,
         NEW k \in 0 .. Len(groups),
         \A i \in 1 .. Len(groups) : length > groups[i][1] <=> i <= k
  PROVE  Unpacked(groups, length, 4) = [raised |-> ends[k + 1] > length, at |-> ends[k + 1]]
<1> DEFINE n == Len(groups)
           t == Taken(groups, length)
           e == [i \in 1 .. n + 1 |-> IF i <= k + 1 THEN ends[i] ELSE ends[k + 1]]
<1>1. n \in Nat /\ k \in 0 .. n /\ \A i \in 1 .. n + 1 : ends[i] \in Nat
  BY DEF Stages
<1>2. \A i \in 1 .. n : /\ Total(Known(groups[i][2])) = ends[i + 1] - ends[i]
                        /\ Len(groups[i][2]) \in Nat
                        /\ ~ Contains(groups[i][2], Rest)
  BY TakesKnown DEF Stages
<1>3. \A i \in 1 .. n : t[i] = IF i <= k THEN ends[i + 1] - ends[i] ELSE 0
  BY <1>2 DEF Taken
<1>4. DOMAIN t = 1 .. n /\ t = [i \in 1 .. n |-> t[i]] /\ Len(t) = n
  BY <1>1 DEF Taken
<1>5. Total(t) = e[n + 1] - e[1]
  <2>1. \A i \in 1 .. n + 1 : e[i] \in Int
    BY <1>1
  <2>2. \A i \in 1 .. n : t[i] = e[i + 1] - e[i]
    <3> TAKE i \in 1 .. n
    <3>1. i \in 1 .. n + 1 /\ i + 1 \in 1 .. n + 1 /\ ends[k + 1] \in Int
      BY <1>1
    <3>2. CASE i <= k
      <4>1. e[i] = ends[i] /\ e[i + 1] = ends[i + 1]
        BY <1>1, <3>1, <3>2
      <4> QED
        BY <1>3, <3>2, <4>1
    <3>3. CASE ~ (i <= k)
      <4>1. e[i + 1] = ends[k + 1] /\ e[i] = ends[k + 1]
        <5>1. ~ (i + 1 <= k + 1) /\ (i <= k + 1 => i = k + 1)
          BY <1>1, <3>3
        <5> QED
          BY <3>1, <5>1
      <4> QED
        BY <1>3, <3>1, <3>3, <4>1
    <3> QED
      BY <3>2, <3>3
  <2> HIDE DEF e, t, n
  <2>3. t \in Seq(Int) /\ Len(t) = n
    <3>1. \A i \in 1 .. n : t[i] \in Int
      <4> TAKE i \in 1 .. n
      <4>1. i \in 1 .. n + 1 /\ i + 1 \in 1 .. n + 1
        BY <1>1
      <4> QED
        BY <2>1, <2>2, <4>1
    <3>2. t \in [1 .. n -> Int]
      BY <1>4, <3>1
    <3> QED
      BY <1>1, <1>4, <3>2, SeqDef
  <2> QED
    BY <2>1, <2>2, <2>3, TotalEnds
<1>6. e[n + 1] = ends[k + 1] /\ e[1] = 4
  <2>1. n + 1 \in 1 .. n + 1 /\ 1 \in 1 .. n + 1 /\ 1 <= k + 1 /\ (n + 1 <= k + 1 => k = n)
    BY <1>1
  <2> QED
    BY <2>1 DEF Stages
<1>7. 4 + Total(t) = ends[k + 1]
  BY <1>1, <1>5, <1>6
<1> HIDE DEF t
<1>8. Unpacked(groups, length, 4)
        = [raised |-> 4 + Total(Taken(groups, length)) > length,
           at |-> IF \E i \in 1 .. Len(groups) : /\ length > groups[i][1]
                                                 /\ Contains(groups[i][2], Rest)
                  THEN length ELSE 4 + Total(Taken(groups, length))]
  BY <1>1, <1>2, UnpackedIs
<1> QED
  BY <1>2, <1>7, <1>8 DEF t

\* The groups of a body that are read are the first ones; and unless they are all of
\* them, the fields read end with the structure, or beyond it.
ReadInOrder(groups, ends, length) ==
  \E k \in 0 .. Len(groups) :
    /\ \A i \in 1 .. Len(groups) : length > groups[i][1] <=> i <= k
    /\ k # Len(groups) /\ ends[k + 1] <= length => ends[k + 1] = length

\* In a structure that ends with one of its groups, all groups up to there are read
\* and no others.
ReadToItsEnd(groups, ends, length) ==
  \A k \in 0 .. Len(groups) :
    length = ends[k + 1] /\ (\A i \in k + 1 .. Len(groups) : groups[i][1] # 0)
      => \A i \in 1 .. Len(groups) : length > groups[i][1] <=> i <= k

\* Where a body ends whose groups are read like this.
LEMMA StagesRead ==
  ASSUME NEW groups, NEW ends, Stages(groups, ends), NEW length \in Nat
  PROVE  /\ ReadInOrder(groups, ends, length) /\ ~ Unpacked(groups, length, 4).raised
              => \/ Unpacked(groups, length, 4).at = length
                 \/ Unpacked(groups, length, 4).at = ends[Len(groups) + 1]
         /\ ReadToItsEnd(groups, ends, length)
            /\ (\E k \in 0 .. Len(groups) :
                  length = ends[k + 1] /\ \A i \in k + 1 .. Len(groups) : groups[i][1] # 0)
              => /\ Unpacked(groups, length, 4).at = length
                 /\ ~ Unpacked(groups, length, 4).raised
         /\ ReadInOrder(groups, ends, length) => Unpacked(groups, length, 4).at \in Nat
<1>1. Len(groups) \in Nat /\ \A i \in 1 .. Len(groups) + 1 : ends[i] \in Nat
  BY DEF Stages
<1>2. ASSUME NEW k \in 0 .. Len(groups),
             \A i \in 1 .. Len(groups) : length > groups[i][1] <=> i <= k
      PROVE  /\ Unpacked(groups, length, 4).raised <=> ends[k + 1] > length
             /\ Unpacked(groups, length, 4).at = ends[k + 1]
             /\ ends[k + 1] \in Nat
  <2>1. Unpacked(groups, length, 4) = [raised |-> ends[k + 1] > length, at |-> ends[k + 1]]
    BY <1>2, StagesUnpacked
  <2>2. ends[k + 1] \in Nat
    <3>1. k + 1 \in 1 .. Len(groups) + 1
      BY <1>1
    <3> QED
      BY <1>1, <3>1
  <2>3. Unpacked(groups, length, 4).at = ends[k + 1]
    BY <2>1
  <2>4. Unpacked(groups, length, 4).raised <=> ends[k + 1] > length
    <3> DEFINE beyond == ends[k + 1] > length
               b == Unpacked(groups, length, 4)
    <3>1. beyond \in BOOLEAN
      BY <2>2
    <3>2. b = [raised |-> beyond, at |-> ends[k + 1]]
      BY <2>1
    <3> HIDE DEF beyond, b
    <3>3. b.raised <=> beyond
      BY <3>1, <3>2
    <3> QED
      BY <3>3 DEF beyond, b
  <2> QED
    BY <2>2, <2>3, <2>4
<1>3. ASSUME ReadInOrder(groups, ends, length)
      PROVE  /\ Unpacked(groups, length, 4).at \in Nat
             /\ ~ Unpacked(groups, length, 4).raised
                  => \/ Unpacked(groups, length, 4).at = length
                     \/ Unpacked(groups, length, 4).at = ends[Len(groups) + 1]
  <2>1. PICK k \in 0 .. Len(groups) :
          /\ \A i \in 1 .. Len(groups) : length > groups[i][1] <=> i <= k
          /\ k # Len(groups) /\ ends[k + 1] <= length => ends[k + 1] = length
    BY <1>3 DEF ReadInOrder
  <2>2. /\ Unpacked(groups, length, 4).raised <=> ends[k + 1] > length
        /\ Unpacked(groups, length, 4).at = ends[k + 1]
        /\ ends[k + 1] \in Nat
    BY <1>2, <2>1
  <2> QED
    BY <2>1, <2>2
<1>4. ASSUME ReadToItsEnd(groups, ends, length), NEW k \in 0 .. Len(groups),
             length = ends[k + 1], \A i \in k + 1 .. Len(groups) : groups[i][1] # 0
      PROVE  Unpacked(groups, length, 4).at = length /\ ~ Unpacked(groups, length, 4).raised
  <2>1. \A i \in 1 .. Len(groups) : length > groups[i][1] <=> i <= k
    BY <1>4 DEF ReadToItsEnd
  <2>2. /\ Unpacked(groups, length, 4).raised <=> ends[k + 1] > length
        /\ Unpacked(groups, length, 4).at = ends[k + 1]
    BY <1>2, <2>1
  <2> QED
    BY <1>4, <2>2
<1> QED
  BY <1>3, <1>4

\* What never falls from one index to the next never falls.
LEMMA Rising ==
  ASSUME NEW n \in Nat, NEW f, \A i \in 1 .. n : f[i] \in Int,
         \A i \in 1 .. n : i < n => f[i] <= f[i + 1]
  PROVE  \A i, j \in 1 .. n : i <= j => f[i] <= f[j]
<1> DEFINE T == {j \in 1 .. n : \E i \in 1 .. n : i <= j /\ ~ (f[i] <= f[j])}
<1>1. T = {}
  <2> SUFFICES ASSUME T # {} PROVE FALSE
    OBVIOUS
  <2>1. PICK j \in T : \A k \in T : j <= k
    <3>1. T \subseteq Nat
      OBVIOUS
    <3> HIDE DEF T
    <3> QED
      BY <3>1, LeastOf
  <2>2. j \in 1 .. n /\ \E i \in 1 .. n : i <= j /\ ~ (f[i] <= f[j])
    BY <2>1
  <2>3. PICK i \in 1 .. n : i <= j /\ ~ (f[i] <= f[j])
    BY <2>2
  <2>4. i # j
    BY <2>2, <2>3
  <2>5. j - 1 \in 1 .. n /\ i <= j - 1 /\ j - 1 \notin T /\ j - 1 < n
    BY <2>1, <2>2, <2>3, <2>4
  <2>6. f[i] <= f[j - 1]
    BY <2>5
  <2>7. f[j - 1] <= f[(j - 1) + 1] /\ (j - 1) + 1 = j
    BY <2>2, <2>5
  <2> QED
    BY <2>2, <2>3, <2>5, <2>6, <2>7
<1> QED
  BY <1>1

\* A group is read only if those before it are.
InOrder(groups, length) ==
  \A i, j \in 1 .. Len(groups) : i <= j /\ length > groups[j][1] => length > groups[i][1]

\* No group is left out of which there are some bytes.
NoneSkipped(groups, ends, length) ==
  \A i \in 1 .. Len(groups) : ~ (ends[i] < length /\ length <= groups[i][1])

\* If the structure ends with a group, none is left out of which there are all bytes,
\* and none is read of which there is no byte.
Guarded(groups, ends, length) ==
  \A i \in 1 .. Len(groups), k \in 1 .. Len(groups) + 1 :
    length = ends[k] => /\ ends[i + 1] <= length => length > groups[i][1]
                        /\ length <= ends[i] /\ groups[i][1] # 0 => length <= groups[i][1]

\* The two of ReadInOrder.
LEMMA OrderRead ==
  ASSUME NEW groups, NEW ends, Stages(groups, ends), NEW length \in Nat,
         InOrder(groups, length), NoneSkipped(groups, ends, length)
  PROVE  ReadInOrder(groups, ends, length)
<1> DEFINE n == Len(groups)
           over == [i \in 1 .. n |-> groups[i][1]]
           T == {i \in 1 .. n : ~ (length > over[i])}
<1>1. n \in Nat /\ (\A i \in 1 .. n + 1 : ends[i] \in Nat) /\ \A i \in 1 .. n : over[i] \in Nat
  BY DEF Stages
<1>2. CASE T = {}
  <2>1. n \in 0 .. n /\ \A i \in 1 .. n : length > groups[i][1] <=> i <= n
    <3>1. n \in 0 .. n /\ \A i \in 1 .. n : i <= n
      BY <1>1
    <3>2. \A i \in 1 .. n : length > over[i]
      BY <1>2
    <3> QED
      BY <3>1, <3>2
  <2> QED
    BY <2>1 DEF ReadInOrder
<1>3. CASE T # {}
  <2>1. PICK j \in T : \A i \in T : j <= i
    <3>1. T \subseteq Nat
      BY <1>1
    <3> HIDE DEF T
    <3> QED
      BY <1>3, <3>1, LeastOf
  <2>2. j \in 1 .. n /\ length <= over[j] /\ j - 1 \in 0 .. n
    BY <1>1, <2>1
  <2>3. \A i \in 1 .. n : length > over[i] <=> i <= j - 1
    <3> TAKE i \in 1 .. n
    <3>1. i <= j - 1 => i \notin T
      BY <1>1, <2>1, <2>2
    <3>2. j <= i /\ length > over[i] => length > over[j]
      BY <2>2 DEF InOrder
    <3>3. over[i] \in Nat /\ over[j] \in Nat
      BY <1>1, <2>2
    <3> HIDE DEF over
    <3> QED
      BY <1>1, <2>2, <3>1, <3>2, <3>3
  <2>4. ends[(j - 1) + 1] <= length => ends[(j - 1) + 1] = length
    <3>1. (j - 1) + 1 = j /\ ends[j] \in Nat
      BY <1>1, <2>2
    <3>2. ~ (ends[j] < length /\ length <= over[j])
      BY <2>2 DEF NoneSkipped
    <3> HIDE DEF over
    <3> QED
      BY <2>2, <3>1, <3>2
  <2> QED
    BY <2>2, <2>3, <2>4 DEF ReadInOrder
<1> QED
  BY <1>2, <1>3

\* The one of ReadToItsEnd.
LEMMA GuardedRead ==
  ASSUME NEW groups, NEW ends, Stages(groups, ends), NEW length \in Nat,
         Guarded(groups, ends, length)
  PROVE  ReadToItsEnd(groups, ends, length)
<1> DEFINE n == Len(groups)
           over == [i \in 1 .. n |-> groups[i][1]]
<1>1. n \in Nat /\ (\A i \in 1 .. n + 1 : ends[i] \in Nat) /\ \A i \in 1 .. n : over[i] \in Nat
  BY DEF Stages
<1>2. \A i, j \in 1 .. n + 1 : i <= j => ends[i] <= ends[j]
  <2>1. \A i \in 1 .. n + 1 : i < n + 1 => ends[i] <= ends[i + 1]
    <3> TAKE i \in 1 .. n + 1
    <3> HAVE i < n + 1
    <3>1. i \in 1 .. n /\ i + 1 \in 1 .. n + 1
      BY <1>1
    <3>2. ends[i + 1] - ends[i] \in Nat
      BY <3>1, TakesKnown DEF Stages
    <3>3. ends[i] \in Nat /\ ends[i + 1] \in Nat
      BY <1>1, <3>1
    <3> QED
      BY <3>2, <3>3
  <2> DEFINE m == n + 1
  <2>2. m \in Nat /\ \A i \in 1 .. m : ends[i] \in Int
    BY <1>1
  <2> HIDE DEF n
  <2>3. \A i \in 1 .. m : i < m => ends[i] <= ends[i + 1]
    BY <2>1
  <2> HIDE DEF m
  <2>4. \A i, j \in 1 .. m : i <= j => ends[i] <= ends[j]
    BY <2>2, <2>3, Rising
  <2> QED
    BY <2>4 DEF m
<1> SUFFICES ASSUME NEW k \in 0 .. n, length = ends[k + 1],
                    \A i \in k + 1 .. n : over[i] # 0, NEW i \in 1 .. n
             PROVE  length > over[i] <=> i <= k
  <2>1. \A k \in 0 .. n : \A i \in k + 1 .. n : groups[i][1] = over[i]
    BY <1>1
  <2> QED
    BY <2>1 DEF ReadToItsEnd
<1>3. /\ over[i] \in Nat /\ ends[i] \in Nat /\ ends[i + 1] \in Nat
      /\ k + 1 \in 1 .. n + 1 /\ i + 1 \in 1 .. n + 1 /\ i \in 1 .. n + 1
  BY <1>1
<1>4. /\ ends[i + 1] <= length => length > over[i]
      /\ length <= ends[i] /\ over[i] # 0 => length <= over[i]
  BY <1>3 DEF Guarded
<1>5. CASE i <= k
  <2>1. ends[i + 1] <= length
    BY <1>1, <1>2, <1>3, <1>5
  <2> QED
    BY <1>4, <1>5, <2>1
<1>6. CASE ~ (i <= k)
  <2>1. i \in k + 1 .. n
    BY <1>1, <1>6
  <2>2. over[i] # 0
    BY <2>1
  <2>3. length <= ends[i]
    BY <1>1, <1>2, <1>3, <1>6
  <2> HIDE DEF over
  <2> QED
    BY <1>3, <1>4, <1>6, <2>2, <2>3
<1> QED
  BY <1>5, <1>6

\* The groups of a body and their guards, for a structure of this length, which is
\* not one of those that lose fields, or of those with a wrong guard.
Laid(groups, length, lost, wrong) ==
  \E ends : /\ Stages(groups, ends)
            /\ length \notin lost =>
                 InOrder(groups, length) /\ NoneSkipped(groups, ends, length)
            /\ length \notin wrong => Guarded(groups, ends, length)

\* Guards that rise let groups be read in their order.
LEMMA RisingInOrder ==
  ASSUME NEW groups, NEW length \in Nat, length >= 4, NEW n \in Nat, Len(groups) = n,
         \A i \in 1 .. n : groups[i][1] \in Nat,
         \A i \in 1 .. n : i < n => groups[i][1] <= groups[i + 1][1]
  PROVE  InOrder(groups, length)
<1> DEFINE over == [i \in 1 .. n |-> groups[i][1]]
<1>1. \A i \in 1 .. n : i < n => over[i] <= over[i + 1]
  OBVIOUS
<1>2. \A i \in 1 .. n : over[i] \in Nat /\ over[i] \in Int
  OBVIOUS
<1>3. \A i, j \in 1 .. n : i <= j => over[i] <= over[j]
  <2> HIDE DEF over
  <2> QED
    BY <1>1, <1>2, Rising
<1>4. \A i, j \in 1 .. n : i <= j /\ length > over[j] => length > over[i]
  <2> TAKE i, j \in 1 .. n
  <2>1. over[i] \in Nat /\ over[j] \in Nat /\ (i <= j => over[i] <= over[j])
    BY <1>2, <1>3
  <2> HIDE DEF over
  <2> QED
    BY <2>1
<1> QED
  BY <1>4 DEF InOrder

\* Each test of the length is for the end of the fields before it, or none is made.
Tight(groups, ends) ==
  /\ \A i \in 1 .. Len(groups) : /\ groups[i][1] = 0 \/ groups[i][1] = ends[i]
                                 /\ groups[i][1] < ends[i + 1]
  /\ \A i \in 1 .. Len(groups) : i < Len(groups) => groups[i][1] <= groups[i + 1][1]

\* A body with such tests loses no fields and has no wrong guard.
LEMMA TightLaid ==
  ASSUME NEW groups, NEW ends, Stages(groups, ends), Tight(groups, ends),
         NEW length \in Nat, length >= 4
  PROVE  Laid(groups, length, {}, {})
<1> DEFINE n == Len(groups)
           over == [i \in 1 .. n |-> groups[i][1]]
<1>1. n \in Nat /\ (\A i \in 1 .. n + 1 : ends[i] \in Nat) /\ \A i \in 1 .. n : over[i] \in Nat
  BY DEF Stages
<1>2. \A i \in 1 .. n : (over[i] = 0 \/ over[i] = ends[i]) /\ over[i] < ends[i + 1]
  BY DEF Tight
<1>4. InOrder(groups, length)
  <2>1. \A i \in 1 .. n : groups[i][1] \in Nat
    BY DEF Stages
  <2>2. \A i \in 1 .. n : i < n => groups[i][1] <= groups[i + 1][1]
    BY DEF Tight
  <2> QED
    BY <1>1, <2>1, <2>2, RisingInOrder
<1>5. NoneSkipped(groups, ends, length)
  <2>1. \A i \in 1 .. n : ~ (ends[i] < length /\ length <= over[i])
    <3> TAKE i \in 1 .. n
    <3>1. over[i] \in Nat /\ ends[i] \in Nat /\ (over[i] = 0 \/ over[i] = ends[i])
      BY <1>1, <1>2
    <3> HIDE DEF over
    <3> QED
      BY <3>1
  <2> QED
    BY <2>1 DEF NoneSkipped
<1>6. Guarded(groups, ends, length)
  <2>1. \A i \in 1 .. n : /\ ends[i + 1] <= length => length > over[i]
                          /\ length <= ends[i] /\ over[i] # 0 => length <= over[i]
    <3> TAKE i \in 1 .. n
    <3>1. /\ over[i] \in Nat /\ ends[i] \in Nat /\ ends[i + 1] \in Nat
          /\ (over[i] = 0 \/ over[i] = ends[i]) /\ over[i] < ends[i + 1]
      BY <1>1, <1>2
    <3> HIDE DEF over
    <3> QED
      BY <3>1
  <2> QED
    BY <2>1 DEF Guarded
<1> QED
  BY <1>4, <1>5, <1>6 DEF Laid

\* The sums of the fields of each group.
Sizes(groups) == [i \in 1 .. Len(groups) |-> Total(groups[i][2])]

\* The fields of a body, as the properties add them up.
LEMMA FieldsEnd ==
  ASSUME NEW groups, NEW ends, Stages(groups, ends),
         NEW fields, fields = Sizes(groups)
  PROVE  /\ Len(fields) = Len(groups) /\ 4 + Total(fields) = ends[Len(groups) + 1]
         /\ \A k \in 0 .. Len(groups) : 4 + Total(SubSeq(fields, 1, k)) = ends[k + 1]
<1> USE DEF Sizes
<1> DEFINE n == Len(groups)
<1>1. n \in Nat /\ (\A i \in 1 .. n + 1 : ends[i] \in Nat) /\ ends[1] = 4
  BY DEF Stages
<1>2. \A i \in 1 .. n : fields[i] = ends[i + 1] - ends[i]
  BY DEF Stages, Takes
<1>3. DOMAIN fields = 1 .. n /\ Len(fields) = n
  BY <1>1
<1>4. fields \in Seq(Int)
  <2>1. \A i \in 1 .. n : fields[i] \in Int
    <3> TAKE i \in 1 .. n
    <3>1. i \in 1 .. n + 1 /\ i + 1 \in 1 .. n + 1
      BY <1>1
    <3>2. ends[i] \in Nat /\ ends[i + 1] \in Nat
      BY ONLY <1>1, <3>1
    <3>3. fields[i] = ends[i + 1] - ends[i]
      BY <1>2
    <3> QED
      BY ONLY <3>2, <3>3
  <2>2. fields \in [1 .. n -> Int]
    BY <1>3, <2>1
  <2> QED
    BY <1>1, <2>2, SeqDef
<1>5. ASSUME NEW k \in 0 .. n
      PROVE  4 + Total(SubSeq(fields, 1, k)) = ends[k + 1]
  <2> DEFINE w == SubSeq(fields, 1, k)
  <2>1. k \in Nat /\ \A i \in 1 .. k : fields[i] \in Int
    BY <1>1, <1>3, <1>4, ElementOfSeq
  <2>2. w \in Seq(Int) /\ Len(w) = k
    BY ONLY <2>1, SubSeqProperties
  <2>3. \A i \in 1 .. k : w[i] = ends[i + 1] - ends[i]
    <3>1. \A i \in 1 .. k : w[i] = fields[1 + i - 1] /\ 1 + i - 1 = i
      BY ONLY <2>1, SubSeqProperties
    <3>2. \A i \in 1 .. k : i \in 1 .. n
      BY <1>1
    <3> QED
      BY ONLY <1>2, <3>1, <3>2
  <2>4. \A i \in 1 .. k + 1 : ends[i] \in Int
    BY <1>1
  <2> HIDE DEF w
  <2>5. Total(w) = ends[k + 1] - ends[1]
    BY ONLY <2>2, <2>3, <2>4, TotalEnds, SMTT(30)
  <2>6. ends[k + 1] \in Nat
    <3>1. k + 1 \in 1 .. n + 1
      BY <1>1
    <3> QED
      BY <1>1, <3>1
  <2>7. ends[1] = 4
    BY DEF Stages
  <2>8. 4 + Total(w) = ends[k + 1]
    BY ONLY <2>5, <2>6, <2>7
  <2> QED
    BY <2>8 DEF w
<1>6. SubSeq(fields, 1, n) = fields
  BY <1>3, <1>4, SubSeqFull
<1>7. 4 + Total(fields) = ends[n + 1]
  <2>1. n \in 0 .. n
    BY <1>1
  <2> QED
    BY <1>5, <1>6, <2>1
<1> QED
  BY <1>3, <1>5, <1>7

-----------------------------------------------------------------------------
(* Fields of one body. *)

\* A few fields take the sum of their widths.
LEMMA Takes1 ==
  ASSUME NEW a \in Nat, a # Rest
  PROVE  Takes(<<a>>, a)
BY Total1 DEF Takes

LEMMA Takes2 ==
  ASSUME NEW a \in Nat \ {Rest}, NEW b \in Nat \ {Rest}
  PROVE  Takes(<<a, b>>, a + b)
BY Total2 DEF Takes

LEMMA Takes3 ==
  ASSUME NEW a \in Nat \ {Rest}, NEW b \in Nat \ {Rest}, NEW c \in Nat \ {Rest}
  PROVE  Takes(<<a, b, c>>, a + b + c)
BY Total3 DEF Takes

LEMMA Takes4 ==
  ASSUME NEW a \in Nat \ {Rest}, NEW b \in Nat \ {Rest}, NEW c \in Nat \ {Rest},
         NEW d \in Nat \ {Rest}
  PROVE  Takes(<<a, b, c, d>>, a + b + c + d)
BY Total4 DEF Takes

LEMMA Takes5 ==
  ASSUME NEW a \in Nat \ {Rest}, NEW b \in Nat \ {Rest}, NEW c \in Nat \ {Rest},
         NEW d \in Nat \ {Rest}, NEW e \in Nat \ {Rest}
  PROVE  Takes(<<a, b, c, d, e>>, a + b + c + d + e)
<1> DEFINE w == <<a, b, c, d, e>>
<1>1. w \in Seq(Nat) /\ Len(w) = 5
  OBVIOUS
<1>2. \A k \in 1 .. 5 : w[k] # Rest
  OBVIOUS
<1>3. Total(w) = a + b + c + d + e
  BY Total5
<1> HIDE DEF w
<1>4. Takes(w, a + b + c + d + e)
  BY <1>1, <1>2, <1>3 DEF Takes
<1> QED
  BY <1>4 DEF w

\* Longer ones.
LEMMA TakesMany ==
  /\ Takes(<<1, 1, 2, 1, 1, 8>>, 14)
  /\ Takes(<<1, 1, 1, 1, 1, 2, 2, 1, 1, Raise>>, 2011)
  /\ Takes(<<1, 1, 1, 1, 8, 1, 1, 2, 2, 2, 1, 1>>, 22)
  /\ Takes(<<1, 1, 1, 2, 1, 1, 1>>, 8)
  /\ Takes(<<1, 2, 2, 2, 2, 2>>, 11)
  /\ Takes(<<1, 1, 1, 1, 1, 2, 1>>, 8)
  /\ Takes(<<2, 2, 2, 1, 1, 4, 4>>, 16)
  /\ Takes(<<1, 1, 1, 1, 8, 1, 1>>, 14)
<1>1. ASSUME NEW w, w = <<1, 1, 2, 1, 1, 8>> PROVE Takes(w, 14)
  <2>1. w \in Seq(Nat) /\ w \in Seq(Int) /\ Len(w) = 6
    BY <1>1 DEF Raise
  <2>2. \A k \in 1 .. 6 : w[k] # Rest
    BY <1>1 DEF Rest, Raise
  <2>3. w[1] = 1 /\ w[2] = 1 /\ w[3] = 2 /\ w[4] = 1 /\ w[5] = 1 /\ w[6] = 8
    BY <1>1 DEF Raise
  <2>4. Total(w) = w[1] + w[2] + w[3] + w[4] + w[5] + w[6]
    BY ONLY <2>1, Sum6
  <2>5. Total(w) = 14
    BY ONLY <2>3, <2>4
  <2> QED
    BY ONLY <2>1, <2>2, <2>5 DEF Takes
<1>2. ASSUME NEW w, w = <<1, 1, 1, 1, 1, 2, 2, 1, 1, Raise>> PROVE Takes(w, 2011)
  <2>1. w \in Seq(Nat) /\ w \in Seq(Int) /\ Len(w) = 10
    BY <1>2 DEF Raise
  <2>2. \A k \in 1 .. 10 : w[k] # Rest
    BY <1>2 DEF Rest, Raise
  <2>3. w[1] = 1 /\ w[2] = 1 /\ w[3] = 1 /\ w[4] = 1 /\ w[5] = 1 /\ w[6] = 2
        /\ w[7] = 2 /\ w[8] = 1 /\ w[9] = 1 /\ w[10] = 2000
    BY <1>2 DEF Raise
  <2>4. Total(w) = w[1] + w[2] + w[3] + w[4] + w[5] + w[6] + w[7] + w[8] + w[9] + w[10]
    BY ONLY <2>1, Sum10
  <2>5. Total(w) = 2011
    BY ONLY <2>3, <2>4
  <2> QED
    BY ONLY <2>1, <2>2, <2>5 DEF Takes
<1>3. ASSUME NEW w, w = <<1, 1, 1, 1, 8, 1, 1, 2, 2, 2, 1, 1>> PROVE Takes(w, 22)
  <2>1. w \in Seq(Nat) /\ w \in Seq(Int) /\ Len(w) = 12
    BY <1>3 DEF Raise
  <2>2. \A k \in 1 .. 12 : w[k] # Rest
    BY <1>3 DEF Rest, Raise
  <2>3. w[1] = 1 /\ w[2] = 1 /\ w[3] = 1 /\ w[4] = 1 /\ w[5] = 8 /\ w[6] = 1
        /\ w[7] = 1 /\ w[8] = 2 /\ w[9] = 2 /\ w[10] = 2 /\ w[11] = 1 /\ w[12] = 1
    BY <1>3 DEF Raise
  <2>4. Total(w) = w[1] + w[2] + w[3] + w[4] + w[5] + w[6]
                   + w[7] + w[8] + w[9] + w[10] + w[11] + w[12]
    BY ONLY <2>1, Sum12
  <2>5. Total(w) = 22
    BY ONLY <2>3, <2>4
  <2> QED
    BY ONLY <2>1, <2>2, <2>5 DEF Takes
<1>4. ASSUME NEW w, w = <<1, 1, 1, 2, 1, 1, 1>> PROVE Takes(w, 8)
  <2>1. w \in Seq(Nat) /\ w \in Seq(Int) /\ Len(w) = 7
    BY <1>4 DEF Raise
  <2>2. \A k \in 1 .. 7 : w[k] # Rest
    BY <1>4 DEF Rest, Raise
  <2>3. w[1] = 1 /\ w[2] = 1 /\ w[3] = 1 /\ w[4] = 2 /\ w[5] = 1 /\ w[6] = 1
        /\ w[7] = 1
    BY <1>4 DEF Raise
  <2>4. Total(w) = w[1] + w[2] + w[3] + w[4] + w[5] + w[6] + w[7]
    BY ONLY <2>1, Sum7
  <2>5. Total(w) = 8
    BY ONLY <2>3, <2>4
  <2> QED
    BY ONLY <2>1, <2>2, <2>5 DEF Takes
<1>5. ASSUME NEW w, w = <<1, 2, 2, 2, 2, 2>> PROVE Takes(w, 11)
  <2>1. w \in Seq(Nat) /\ w \in Seq(Int) /\ Len(w) = 6
    BY <1>5 DEF Raise
  <2>2. \A k \in 1 .. 6 : w[k] # Rest
    BY <1>5 DEF Rest, Raise
  <2>3. w[1] = 1 /\ w[2] = 2 /\ w[3] = 2 /\ w[4] = 2 /\ w[5] = 2 /\ w[6] = 2
    BY <1>5 DEF Raise
  <2>4. Total(w) = w[1] + w[2] + w[3] + w[4] + w[5] + w[6]
    BY ONLY <2>1, Sum6
  <2>5. Total(w) = 11
    BY ONLY <2>3, <2>4
  <2> QED
    BY ONLY <2>1, <2>2, <2>5 DEF Takes
<1>6. ASSUME NEW w, w = <<1, 1, 1, 1, 1, 2, 1>> PROVE Takes(w, 8)
  <2>1. w \in Seq(Nat) /\ w \in Seq(Int) /\ Len(w) = 7
    BY <1>6 DEF Raise
  <2>2. \A k \in 1 .. 7 : w[k] # Rest
    BY <1>6 DEF Rest, Raise
  <2>3. w[1] = 1 /\ w[2] = 1 /\ w[3] = 1 /\ w[4] = 1 /\ w[5] = 1 /\ w[6] = 2
        /\ w[7] = 1
    BY <1>6 DEF Raise
  <2>4. Total(w) = w[1] + w[2] + w[3] + w[4] + w[5] + w[6] + w[7]
    BY ONLY <2>1, Sum7
  <2>5. Total(w) = 8
    BY ONLY <2>3, <2>4
  <2> QED
    BY ONLY <2>1, <2>2, <2>5 DEF Takes
<1>7. ASSUME NEW w, w = <<2, 2, 2, 1, 1, 4, 4>> PROVE Takes(w, 16)
  <2>1. w \in Seq(Nat) /\ w \in Seq(Int) /\ Len(w) = 7
    BY <1>7 DEF Raise
  <2>2. \A k \in 1 .. 7 : w[k] # Rest
    BY <1>7 DEF Rest, Raise
  <2>3. w[1] = 2 /\ w[2] = 2 /\ w[3] = 2 /\ w[4] = 1 /\ w[5] = 1 /\ w[6] = 4
        /\ w[7] = 4
    BY <1>7 DEF Raise
  <2>4. Total(w) = w[1] + w[2] + w[3] + w[4] + w[5] + w[6] + w[7]
    BY ONLY <2>1, Sum7
  <2>5. Total(w) = 16
    BY ONLY <2>3, <2>4
  <2> QED
    BY ONLY <2>1, <2>2, <2>5 DEF Takes
<1>8. ASSUME NEW w, w = <<1, 1, 1, 1, 8, 1, 1>> PROVE Takes(w, 14)
  <2>1. w \in Seq(Nat) /\ w \in Seq(Int) /\ Len(w) = 7
    BY <1>8 DEF Raise
  <2>2. \A k \in 1 .. 7 : w[k] # Rest
    BY <1>8 DEF Rest, Raise
  <2>3. w[1] = 1 /\ w[2] = 1 /\ w[3] = 1 /\ w[4] = 1 /\ w[5] = 8 /\ w[6] = 1
        /\ w[7] = 1
    BY <1>8 DEF Raise
  <2>4. Total(w) = w[1] + w[2] + w[3] + w[4] + w[5] + w[6] + w[7]
    BY ONLY <2>1, Sum7
  <2>5. Total(w) = 14
    BY ONLY <2>3, <2>4
  <2> QED
    BY ONLY <2>1, <2>2, <2>5 DEF Takes
<1> QED
  BY <1>1, <1>2, <1>3, <1>4, <1>5, <1>6, <1>7, <1>8

-----------------------------------------------------------------------------
(* The classes of SMBIOS structures: the length alone decides what is read. *)

\* A body of single fields, each tested for at its own place.
LEMMA SinglesLaid ==
  ASSUME NEW groups, NEW ends, NEW n \in Nat, Len(groups) = n, DOMAIN groups = 1 .. n,
         ends[1] = 4, \A i \in 1 .. n + 1 : ends[i] \in Nat /\ ends[i] <= 255,
         \A i \in 1 .. n : ends[i] < ends[i + 1],
         \A i \in 1 .. n : /\ groups[i][1] = ends[i]
                           /\ groups[i][2] = <<ends[i + 1] - ends[i]>>,
         NEW length \in Nat, length >= 4
  PROVE  Laid(groups, length, {}, {})
<1>1. \A i \in 1 .. n + 1 : ends[i] \in Nat /\ ends[i] <= 255
  OBVIOUS
<1>2. \A i \in 1 .. n : /\ i \in 1 .. n + 1 /\ i + 1 \in 1 .. n + 1
                        /\ i < n => i + 1 \in 1 .. n
  OBVIOUS
<1>3. \A i \in 1 .. n : Takes(groups[i][2], ends[i + 1] - ends[i])
  <2> TAKE i \in 1 .. n
  <2> DEFINE a == ends[i + 1] - ends[i]
  <2>1. a \in Nat /\ a # Rest
    BY <1>1, <1>2 DEF Rest
  <2>2. groups[i][2] = <<a>>
    OBVIOUS
  <2> HIDE DEF a
  <2>3. Takes(<<a>>, a)
    BY <2>1, Takes1
  <2> QED
    BY <2>2, <2>3 DEF a
<1>4. \A i \in 1 .. n : groups[i][1] \in Nat
  BY <1>1, <1>2
<1>5. Stages(groups, ends)
  BY <1>1, <1>3, <1>4 DEF Stages
<1>6. Tight(groups, ends)
  <2>1. \A i \in 1 .. n : i < n => groups[i][1] <= groups[i + 1][1]
    <3> TAKE i \in 1 .. n
    <3> HAVE i < n
    <3>1. groups[i + 1][1] = ends[i + 1] /\ ends[i] \in Nat /\ ends[i + 1] \in Nat
          /\ ends[i] < ends[i + 1] /\ groups[i][1] = ends[i]
      BY <1>1, <1>2
    <3> QED
      BY <3>1
  <2> QED
    BY <2>1 DEF Tight
<1> QED
  BY <1>5, <1>6, TightLaid

\* The classes of such bodies.
LEMMA PhysicalMemoryArrayLaid ==
  ASSUME NEW length \in Nat, length >= 4
  PROVE  Laid(PhysicalMemoryArray, length, {}, {})
<1>1. ASSUME NEW g, NEW e, g = PhysicalMemoryArray,
             e = <<4, 5, 6, 7, 11, 13, 15, 23>>
      PROVE  Laid(g, length, {}, {})
  <2>1. Len(g) = 7 /\ DOMAIN g = 1 .. 7 /\ e[1] = 4
    BY <1>1 DEF PhysicalMemoryArray, Over
  <2>2. \A i \in 1 .. 7 + 1 : e[i] \in Nat /\ e[i] <= 255
    BY <1>1
  <2>3. \A i \in 1 .. 7 : e[i] < e[i + 1]
    BY <1>1
  <2>4. \A i \in 1 .. 7 : g[i][1] = e[i] /\ g[i][2] = <<e[i + 1] - e[i]>>
    BY <1>1 DEF PhysicalMemoryArray, Over
  <2> QED
    BY ONLY length \in Nat, length >= 4, <2>1, <2>2, <2>3, <2>4, SinglesLaid
<1> QED
  BY <1>1

LEMMA MemoryDeviceLaid ==
  ASSUME NEW length \in Nat, length >= 4
  PROVE  Laid(MemoryDevice, length, {}, {})
<1>1. ASSUME NEW g, NEW e, g = MemoryDevice,
             e = <<4, 6, 8, 10, 12, 14, 15, 16, 17, 18, 19,
                     21, 23, 24, 25, 26, 27, 28, 32, 34, 36, 38, 40>>
      PROVE  Laid(g, length, {}, {})
  <2>1. Len(g) = 22 /\ DOMAIN g = 1 .. 22 /\ e[1] = 4
    BY <1>1 DEF MemoryDevice, Over
  <2>2. \A i \in 1 .. 22 + 1 : e[i] \in Nat /\ e[i] <= 255
    BY <1>1
  <2>3. \A i \in 1 .. 22 : e[i] < e[i + 1]
    BY <1>1
  <2>4. \A i \in 1 .. 22 : g[i][1] = e[i] /\ g[i][2] = <<e[i + 1] - e[i]>>
    BY <1>1 DEF MemoryDevice, Over
  <2> QED
    BY ONLY length \in Nat, length >= 4, <2>1, <2>2, <2>3, <2>4, SinglesLaid
<1> QED
  BY <1>1

LEMMA MemoryErrorInfo32BitLaid ==
  ASSUME NEW length \in Nat, length >= 4
  PROVE  Laid(MemoryErrorInfo32Bit, length, {}, {})
<1>1. ASSUME NEW g, NEW e, g = MemoryErrorInfo32Bit,
             e = <<4, 5, 6, 7, 11, 15, 19, 23>>
      PROVE  Laid(g, length, {}, {})
  <2>1. Len(g) = 7 /\ DOMAIN g = 1 .. 7 /\ e[1] = 4
    BY <1>1 DEF MemoryErrorInfo32Bit, Over
  <2>2. \A i \in 1 .. 7 + 1 : e[i] \in Nat /\ e[i] <= 255
    BY <1>1
  <2>3. \A i \in 1 .. 7 : e[i] < e[i + 1]
    BY <1>1
  <2>4. \A i \in 1 .. 7 : g[i][1] = e[i] /\ g[i][2] = <<e[i + 1] - e[i]>>
    BY <1>1 DEF MemoryErrorInfo32Bit, Over
  <2> QED
    BY ONLY length \in Nat, length >= 4, <2>1, <2>2, <2>3, <2>4, SinglesLaid
<1> QED
  BY <1>1

LEMMA BuiltInPointingDeviceLaid ==
  ASSUME NEW length \in Nat, length >= 4
  PROVE  Laid(BuiltInPointingDevice, length, {}, {})
<1>1. ASSUME NEW g, NEW e, g = BuiltInPointingDevice,
             e = <<4, 5, 6, 7>>
      PROVE  Laid(g, length, {}, {})
  <2>1. Len(g) = 3 /\ DOMAIN g = 1 .. 3 /\ e[1] = 4
    BY <1>1 DEF BuiltInPointingDevice, Over
  <2>2. \A i \in 1 .. 3 + 1 : e[i] \in Nat /\ e[i] <= 255
    BY <1>1
  <2>3. \A i \in 1 .. 3 : e[i] < e[i + 1]
    BY <1>1
  <2>4. \A i \in 1 .. 3 : g[i][1] = e[i] /\ g[i][2] = <<e[i + 1] - e[i]>>
    BY <1>1 DEF BuiltInPointingDevice, Over
  <2> QED
    BY ONLY length \in Nat, length >= 4, <2>1, <2>2, <2>3, <2>4, SinglesLaid
<1> QED
  BY <1>1

LEMMA PortableBatteryLaid ==
  ASSUME NEW length \in Nat, length >= 4
  PROVE  Laid(PortableBattery, length, {}, {})
<1>1. ASSUME NEW g, NEW e, g = PortableBattery,
             e = <<4, 5, 6, 7, 8, 9, 10, 12, 14, 15, 16, 18, 20, 21, 22, 26>>
      PROVE  Laid(g, length, {}, {})
  <2>1. Len(g) = 15 /\ DOMAIN g = 1 .. 15 /\ e[1] = 4
    BY <1>1 DEF PortableBattery, Over
  <2>2. \A i \in 1 .. 15 + 1 : e[i] \in Nat /\ e[i] <= 255
    BY <1>1
  <2>3. \A i \in 1 .. 15 : e[i] < e[i + 1]
    BY <1>1
  <2>4. \A i \in 1 .. 15 : g[i][1] = e[i] /\ g[i][2] = <<e[i + 1] - e[i]>>
    BY <1>1 DEF PortableBattery, Over
  <2> QED
    BY ONLY length \in Nat, length >= 4, <2>1, <2>2, <2>3, <2>4, SinglesLaid
<1> QED
  BY <1>1

LEMMA HardwareSecurityLaid ==
  ASSUME NEW length \in Nat, length >= 4
  PROVE  Laid(HardwareSecurity, length, {}, {})
<1>1. ASSUME NEW g, NEW e, g = HardwareSecurity,
             e = <<4, 5>>
      PROVE  Laid(g, length, {}, {})
  <2>1. Len(g) = 1 /\ DOMAIN g = 1 .. 1 /\ e[1] = 4
    BY <1>1 DEF HardwareSecurity, Over
  <2>2. \A i \in 1 .. 1 + 1 : e[i] \in Nat /\ e[i] <= 255
    BY <1>1
  <2>3. \A i \in 1 .. 1 : e[i] < e[i + 1]
    BY <1>1
  <2>4. \A i \in 1 .. 1 : g[i][1] = e[i] /\ g[i][2] = <<e[i + 1] - e[i]>>
    BY <1>1 DEF HardwareSecurity, Over
  <2> QED
    BY ONLY length \in Nat, length >= 4, <2>1, <2>2, <2>3, <2>4, SinglesLaid
<1> QED
  BY <1>1

LEMMA VoltageProbeLaid ==
  ASSUME NEW length \in Nat, length >= 4
  PROVE  Laid(VoltageProbe, length, {}, {})
<1>1. ASSUME NEW g, NEW e, g = VoltageProbe,
             e = <<4, 5, 6, 8, 10, 12, 14, 16, 20, 22>>
      PROVE  Laid(g, length, {}, {})
  <2>1. Len(g) = 9 /\ DOMAIN g = 1 .. 9 /\ e[1] = 4
    BY <1>1 DEF VoltageProbe, Over
  <2>2. \A i \in 1 .. 9 + 1 : e[i] \in Nat /\ e[i] <= 255
    BY <1>1
  <2>3. \A i \in 1 .. 9 : e[i] < e[i + 1]
    BY <1>1
  <2>4. \A i \in 1 .. 9 : g[i][1] = e[i] /\ g[i][2] = <<e[i + 1] - e[i]>>
    BY <1>1 DEF VoltageProbe, Over
  <2> QED
    BY ONLY length \in Nat, length >= 4, <2>1, <2>2, <2>3, <2>4, SinglesLaid
<1> QED
  BY <1>1

LEMMA CoolingDeviceLaid ==
  ASSUME NEW length \in Nat, length >= 4
  PROVE  Laid(CoolingDevice, length, {}, {})
<1>1. ASSUME NEW g, NEW e, g = CoolingDevice,
             e = <<4, 6, 7, 8, 12, 14, 15>>
      PROVE  Laid(g, length, {}, {})
  <2>1. Len(g) = 6 /\ DOMAIN g = 1 .. 6 /\ e[1] = 4
    BY <1>1 DEF CoolingDevice, Over
  <2>2. \A i \in 1 .. 6 + 1 : e[i] \in Nat /\ e[i] <= 255
    BY <1>1
  <2>3. \A i \in 1 .. 6 : e[i] < e[i + 1]
    BY <1>1
  <2>4. \A i \in 1 .. 6 : g[i][1] = e[i] /\ g[i][2] = <<e[i + 1] - e[i]>>
    BY <1>1 DEF CoolingDevice, Over
  <2> QED
    BY ONLY length \in Nat, length >= 4, <2>1, <2>2, <2>3, <2>4, SinglesLaid
<1> QED
  BY <1>1

LEMMA TemperatureProbeLaid ==
  ASSUME NEW length \in Nat, length >= 4
  PROVE  Laid(TemperatureProbe, length, {}, {})
<1>1. ASSUME NEW g, NEW e, g = TemperatureProbe,
             e = <<4, 5, 6, 8, 10, 12, 14, 16, 20, 22>>
      PROVE  Laid(g, length, {}, {})
  <2>1. Len(g) = 9 /\ DOMAIN g = 1 .. 9 /\ e[1] = 4
    BY <1>1 DEF TemperatureProbe, Over
  <2>2. \A i \in 1 .. 9 + 1 : e[i] \in Nat /\ e[i] <= 255
    BY <1>1
  <2>3. \A i \in 1 .. 9 : e[i] < e[i + 1]
    BY <1>1
  <2>4. \A i \in 1 .. 9 : g[i][1] = e[i] /\ g[i][2] = <<e[i + 1] - e[i]>>
    BY <1>1 DEF TemperatureProbe, Over
  <2> QED
    BY ONLY length \in Nat, length >= 4, <2>1, <2>2, <2>3, <2>4, SinglesLaid
<1> QED
  BY <1>1

LEMMA ElectricalCurrentProbeLaid ==
  ASSUME NEW length \in Nat, length >= 4
  PROVE  Laid(ElectricalCurrentProbe, length, {}, {})
<1>1. ASSUME NEW g, NEW e, g = ElectricalCurrentProbe,
             e = <<4, 5, 6, 8, 10, 12, 14, 16, 20, 22>>
      PROVE  Laid(g, length, {}, {})
  <2>1. Len(g) = 9 /\ DOMAIN g = 1 .. 9 /\ e[1] = 4
    BY <1>1 DEF ElectricalCurrentProbe, Over
  <2>2. \A i \in 1 .. 9 + 1 : e[i] \in Nat /\ e[i] <= 255
    BY <1>1
  <2>3. \A i \in 1 .. 9 : e[i] < e[i + 1]
    BY <1>1
  <2>4. \A i \in 1 .. 9 : g[i][1] = e[i] /\ g[i][2] = <<e[i + 1] - e[i]>>
    BY <1>1 DEF ElectricalCurrentProbe, Over
  <2> QED
    BY ONLY length \in Nat, length >= 4, <2>1, <2>2, <2>3, <2>4, SinglesLaid
<1> QED
  BY <1>1

LEMMA OutOfBandRemoteAccessLaid ==
  ASSUME NEW length \in Nat, length >= 4
  PROVE  Laid(OutOfBandRemoteAccess, length, {}, {})
<1>1. ASSUME NEW g, NEW e, g = OutOfBandRemoteAccess,
             e = <<4, 5, 6>>
      PROVE  Laid(g, length, {}, {})
  <2>1. Len(g) = 2 /\ DOMAIN g = 1 .. 2 /\ e[1] = 4
    BY <1>1 DEF OutOfBandRemoteAccess, Over
  <2>2. \A i \in 1 .. 2 + 1 : e[i] \in Nat /\ e[i] <= 255
    BY <1>1
  <2>3. \A i \in 1 .. 2 : e[i] < e[i + 1]
    BY <1>1
  <2>4. \A i \in 1 .. 2 : g[i][1] = e[i] /\ g[i][2] = <<e[i + 1] - e[i]>>
    BY <1>1 DEF OutOfBandRemoteAccess, Over
  <2> QED
    BY ONLY length \in Nat, length >= 4, <2>1, <2>2, <2>3, <2>4, SinglesLaid
<1> QED
  BY <1>1

LEMMA ManagementDeviceLaid ==
  ASSUME NEW length \in Nat, length >= 4
  PROVE  Laid(ManagementDevice, length, {}, {})
<1>1. ASSUME NEW g, NEW e, g = ManagementDevice,
             e = <<4, 5, 6, 10, 11>>
      PROVE  Laid(g, length, {}, {})
  <2>1. Len(g) = 4 /\ DOMAIN g = 1 .. 4 /\ e[1] = 4
    BY <1>1 DEF ManagementDevice, Over
  <2>2. \A i \in 1 .. 4 + 1 : e[i] \in Nat /\ e[i] <= 255
    BY <1>1
  <2>3. \A i \in 1 .. 4 : e[i] < e[i + 1]
    BY <1>1
  <2>4. \A i \in 1 .. 4 : g[i][1] = e[i] /\ g[i][2] = <<e[i + 1] - e[i]>>
    BY <1>1 DEF ManagementDevice, Over
  <2> QED
    BY ONLY length \in Nat, length >= 4, <2>1, <2>2, <2>3, <2>4, SinglesLaid
<1> QED
  BY <1>1

LEMMA ManagementDeviceComponentLaid ==
  ASSUME NEW length \in Nat, length >= 4
  PROVE  Laid(ManagementDeviceComponent, length, {}, {})
<1>1. ASSUME NEW g, NEW e, g = ManagementDeviceComponent,
             e = <<4, 5, 7, 9, 11>>
      PROVE  Laid(g, length, {}, {})
  <2>1. Len(g) = 4 /\ DOMAIN g = 1 .. 4 /\ e[1] = 4
    BY <1>1 DEF ManagementDeviceComponent, Over
  <2>2. \A i \in 1 .. 4 + 1 : e[i] \in Nat /\ e[i] <= 255
    BY <1>1
  <2>3. \A i \in 1 .. 4 : e[i] < e[i + 1]
    BY <1>1
  <2>4. \A i \in 1 .. 4 : g[i][1] = e[i] /\ g[i][2] = <<e[i + 1] - e[i]>>
    BY <1>1 DEF ManagementDeviceComponent, Over
  <2> QED
    BY ONLY length \in Nat, length >= 4, <2>1, <2>2, <2>3, <2>4, SinglesLaid
<1> QED
  BY <1>1

LEMMA ManagementDeviceThresholdDataLaid ==
  ASSUME NEW length \in Nat, length >= 4
  PROVE  Laid(ManagementDeviceThresholdData, length, {}, {})
<1>1. ASSUME NEW g, NEW e, g = ManagementDeviceThresholdData,
             e = <<4, 6, 8, 10, 12, 14, 16>>
      PROVE  Laid(g, length, {}, {})
  <2>1. Len(g) = 6 /\ DOMAIN g = 1 .. 6 /\ e[1] = 4
    BY <1>1 DEF ManagementDeviceThresholdData, Over
  <2>2. \A i \in 1 .. 6 + 1 : e[i] \in Nat /\ e[i] <= 255
    BY <1>1
  <2>3. \A i \in 1 .. 6 : e[i] < e[i + 1]
    BY <1>1
  <2>4. \A i \in 1 .. 6 : g[i][1] = e[i] /\ g[i][2] = <<e[i + 1] - e[i]>>
    BY <1>1 DEF ManagementDeviceThresholdData, Over
  <2> QED
    BY ONLY length \in Nat, length >= 4, <2>1, <2>2, <2>3, <2>4, SinglesLaid
<1> QED
  BY <1>1

LEMMA SystemPowerSupplyLaid ==
  ASSUME NEW length \in Nat, length >= 4
  PROVE  Laid(SystemPowerSupply, length, {}, {})
<1>1. ASSUME NEW g, NEW e, g = SystemPowerSupply,
             e = <<4, 5, 6, 7, 8, 9, 10, 11, 12, 14, 16, 18, 20, 22>>
      PROVE  Laid(g, length, {}, {})
  <2>1. Len(g) = 13 /\ DOMAIN g = 1 .. 13 /\ e[1] = 4
    BY <1>1 DEF SystemPowerSupply, Over
  <2>2. \A i \in 1 .. 13 + 1 : e[i] \in Nat /\ e[i] <= 255
    BY <1>1
  <2>3. \A i \in 1 .. 13 : e[i] < e[i + 1]
    BY <1>1
  <2>4. \A i \in 1 .. 13 : g[i][1] = e[i] /\ g[i][2] = <<e[i + 1] - e[i]>>
    BY <1>1 DEF SystemPowerSupply, Over
  <2> QED
    BY ONLY length \in Nat, length >= 4, <2>1, <2>2, <2>3, <2>4, SinglesLaid
<1> QED
  BY <1>1

LEMMA OnboardDevicesExtendedInformationLaid ==
  ASSUME NEW length \in Nat, length >= 4
  PROVE  Laid(OnboardDevicesExtendedInformation, length, {}, {})
<1>1. ASSUME NEW g, NEW e, g = OnboardDevicesExtendedInformation,
             e = <<4, 5, 6, 7, 9, 10, 11>>
      PROVE  Laid(g, length, {}, {})
  <2>1. Len(g) = 6 /\ DOMAIN g = 1 .. 6 /\ e[1] = 4
    BY <1>1 DEF OnboardDevicesExtendedInformation, Over
  <2>2. \A i \in 1 .. 6 + 1 : e[i] \in Nat /\ e[i] <= 255
    BY <1>1
  <2>3. \A i \in 1 .. 6 : e[i] < e[i + 1]
    BY <1>1
  <2>4. \A i \in 1 .. 6 : g[i][1] = e[i] /\ g[i][2] = <<e[i + 1] - e[i]>>
    BY <1>1 DEF OnboardDevicesExtendedInformation, Over
  <2> QED
    BY ONLY length \in Nat, length >= 4, <2>1, <2>2, <2>3, <2>4, SinglesLaid
<1> QED
  BY <1>1

\* The classes that read some fields without a test, or several after one.
LEMMA SystemInformationLaid ==
  ASSUME NEW length \in Nat, length >= 4
  PROVE  Laid(SystemInformation, length, {}, {})
<1>1. ASSUME NEW g, NEW e, g = SystemInformation, e = <<4, 8, 25, 27>>
      PROVE  Laid(g, length, {}, {})
  <2>1. Len(g) = 3 /\ DOMAIN g = 1 .. 3 /\ e[1] = 4
    BY <1>1 DEF SystemInformation, Always, Over
  <2>2. \A i \in 1 .. 3 + 1 : e[i] \in Nat
    BY <1>1 DEF Raise
  <2>3. \A i \in 1 .. 3 : /\ g[i][1] \in Nat /\ (g[i][1] = 0 \/ g[i][1] = e[i])
                         /\ g[i][1] < e[i + 1]
    BY <1>1 DEF SystemInformation, Always, Over, Raise
  <2>4. \A i \in 1 .. 3 : i < 3 => g[i][1] <= g[i + 1][1]
    BY <1>1 DEF SystemInformation, Always, Over
  <2>5. \A i \in 1 .. 3 : Takes(g[i][2], e[i + 1] - e[i])
    <3>1. g[1][2] = <<1, 1, 1, 1>> /\ e[2] - e[1] = 4
      BY <1>1 DEF SystemInformation, Always, Over, Raise
    <3>2. g[2][2] = <<16, 1>> /\ e[3] - e[2] = 17
      BY <1>1 DEF SystemInformation, Always, Over, Raise
    <3>3. g[3][2] = <<1, 1>> /\ e[4] - e[3] = 2
      BY <1>1 DEF SystemInformation, Always, Over, Raise
    <3>4. Takes(<<1, 1, 1, 1>>, 4)
      BY Takes4 DEF Rest
    <3>5. Takes(<<16, 1>>, 17)
      BY Takes2 DEF Rest
    <3>6. Takes(<<1, 1>>, 2)
      BY Takes2 DEF Rest
    <3> QED
      BY <3>1, <3>2, <3>3, <3>4, <3>5, <3>6
  <2>6. Stages(g, e)
    BY ONLY <2>1, <2>2, <2>3, <2>5 DEF Stages
  <2>7. Tight(g, e)
    BY ONLY <2>1, <2>3, <2>4 DEF Tight
  <2> QED
    BY ONLY length \in Nat, length >= 4, <2>6, <2>7, TightLaid
<1> QED
  BY <1>1

LEMMA MemoryControllerInformationLaid ==
  ASSUME NEW length \in Nat, length >= 4
  PROVE  Laid(MemoryControllerInformation, length, {}, {})
<1>1. ASSUME NEW g, NEW e, g = MemoryControllerInformation, e = <<4, 15 + Raise>>
      PROVE  Laid(g, length, {}, {})
  <2>1. Len(g) = 1 /\ DOMAIN g = 1 .. 1 /\ e[1] = 4
    BY <1>1 DEF MemoryControllerInformation, Always, Over
  <2>2. \A i \in 1 .. 1 + 1 : e[i] \in Nat
    BY <1>1 DEF Raise
  <2>3. \A i \in 1 .. 1 : /\ g[i][1] \in Nat /\ (g[i][1] = 0 \/ g[i][1] = e[i])
                         /\ g[i][1] < e[i + 1]
    BY <1>1 DEF MemoryControllerInformation, Always, Over, Raise
  <2>4. \A i \in 1 .. 1 : i < 1 => g[i][1] <= g[i + 1][1]
    BY <1>1 DEF MemoryControllerInformation, Always, Over
  <2>5. \A i \in 1 .. 1 : Takes(g[i][2], e[i + 1] - e[i])
    <3>1. g[1][2] = <<1, 1, 1, 1, 1, 2, 2, 1, 1, Raise>> /\ e[2] - e[1] = 2011
      BY <1>1 DEF MemoryControllerInformation, Always, Over, Raise
    <3>2. Takes(<<1, 1, 1, 1, 1, 2, 2, 1, 1, Raise>>, 2011)
      BY TakesMany DEF Rest
    <3> QED
      BY <3>1, <3>2
  <2>6. Stages(g, e)
    BY ONLY <2>1, <2>2, <2>3, <2>5 DEF Stages
  <2>7. Tight(g, e)
    BY ONLY <2>1, <2>3, <2>4 DEF Tight
  <2> QED
    BY ONLY length \in Nat, length >= 4, <2>6, <2>7, TightLaid
<1> QED
  BY <1>1

LEMMA MemoryModuleInformationLaid ==
  ASSUME NEW length \in Nat, length >= 4
  PROVE  Laid(MemoryModuleInformation, length, {}, {})
<1>1. ASSUME NEW g, NEW e, g = MemoryModuleInformation, e = <<4, 12>>
      PROVE  Laid(g, length, {}, {})
  <2>1. Len(g) = 1 /\ DOMAIN g = 1 .. 1 /\ e[1] = 4
    BY <1>1 DEF MemoryModuleInformation, Always, Over
  <2>2. \A i \in 1 .. 1 + 1 : e[i] \in Nat
    BY <1>1 DEF Raise
  <2>3. \A i \in 1 .. 1 : /\ g[i][1] \in Nat /\ (g[i][1] = 0 \/ g[i][1] = e[i])
                         /\ g[i][1] < e[i + 1]
    BY <1>1 DEF MemoryModuleInformation, Always, Over, Raise
  <2>4. \A i \in 1 .. 1 : i < 1 => g[i][1] <= g[i + 1][1]
    BY <1>1 DEF MemoryModuleInformation, Always, Over
  <2>5. \A i \in 1 .. 1 : Takes(g[i][2], e[i + 1] - e[i])
    <3>1. g[1][2] = <<1, 1, 1, 2, 1, 1, 1>> /\ e[2] - e[1] = 8
      BY <1>1 DEF MemoryModuleInformation, Always, Over, Raise
    <3>2. Takes(<<1, 1, 1, 2, 1, 1, 1>>, 8)
      BY TakesMany DEF Rest
    <3> QED
      BY <3>1, <3>2
  <2>6. Stages(g, e)
    BY ONLY <2>1, <2>2, <2>3, <2>5 DEF Stages
  <2>7. Tight(g, e)
    BY ONLY <2>1, <2>3, <2>4 DEF Tight
  <2> QED
    BY ONLY length \in Nat, length >= 4, <2>6, <2>7, TightLaid
<1> QED
  BY <1>1

LEMMA PortConnectorInfoLaid ==
  ASSUME NEW length \in Nat, length >= 4
  PROVE  Laid(PortConnectorInfo, length, {}, {})
<1>1. ASSUME NEW g, NEW e, g = PortConnectorInfo, e = <<4, 9>>
      PROVE  Laid(g, length, {}, {})
  <2>1. Len(g) = 1 /\ DOMAIN g = 1 .. 1 /\ e[1] = 4
    BY <1>1 DEF PortConnectorInfo, Always, Over
  <2>2. \A i \in 1 .. 1 + 1 : e[i] \in Nat
    BY <1>1 DEF Raise
  <2>3. \A i \in 1 .. 1 : /\ g[i][1] \in Nat /\ (g[i][1] = 0 \/ g[i][1] = e[i])
                         /\ g[i][1] < e[i + 1]
    BY <1>1 DEF PortConnectorInfo, Always, Over, Raise
  <2>4. \A i \in 1 .. 1 : i < 1 => g[i][1] <= g[i + 1][1]
    BY <1>1 DEF PortConnectorInfo, Always, Over
  <2>5. \A i \in 1 .. 1 : Takes(g[i][2], e[i + 1] - e[i])
    <3>1. g[1][2] = <<1, 1, 1, 1, 1>> /\ e[2] - e[1] = 5
      BY <1>1 DEF PortConnectorInfo, Always, Over, Raise
    <3>2. Takes(<<1, 1, 1, 1, 1>>, 5)
      BY Takes5 DEF Rest
    <3> QED
      BY <3>1, <3>2
  <2>6. Stages(g, e)
    BY ONLY <2>1, <2>2, <2>3, <2>5 DEF Stages
  <2>7. Tight(g, e)
    BY ONLY <2>1, <2>3, <2>4 DEF Tight
  <2> QED
    BY ONLY length \in Nat, length >= 4, <2>6, <2>7, TightLaid
<1> QED
  BY <1>1

LEMMA SystemSlotsLaid ==
  ASSUME NEW length \in Nat, length >= 4
  PROVE  Laid(SystemSlots, length, {}, {})
<1>1. ASSUME NEW g, NEW e, g = SystemSlots, e = <<4, 12, 13, 17>>
      PROVE  Laid(g, length, {}, {})
  <2>1. Len(g) = 3 /\ DOMAIN g = 1 .. 3 /\ e[1] = 4
    BY <1>1 DEF SystemSlots, Always, Over
  <2>2. \A i \in 1 .. 3 + 1 : e[i] \in Nat
    BY <1>1 DEF Raise
  <2>3. \A i \in 1 .. 3 : /\ g[i][1] \in Nat /\ (g[i][1] = 0 \/ g[i][1] = e[i])
                         /\ g[i][1] < e[i + 1]
    BY <1>1 DEF SystemSlots, Always, Over, Raise
  <2>4. \A i \in 1 .. 3 : i < 3 => g[i][1] <= g[i + 1][1]
    BY <1>1 DEF SystemSlots, Always, Over
  <2>5. \A i \in 1 .. 3 : Takes(g[i][2], e[i + 1] - e[i])
    <3>1. g[1][2] = <<1, 1, 1, 1, 1, 2, 1>> /\ e[2] - e[1] = 8
      BY <1>1 DEF SystemSlots, Always, Over, Raise
    <3>2. g[2][2] = <<1>> /\ e[3] - e[2] = 1
      BY <1>1 DEF SystemSlots, Always, Over, Raise
    <3>3. g[3][2] = <<2, 1, 1>> /\ e[4] - e[3] = 4
      BY <1>1 DEF SystemSlots, Always, Over, Raise
    <3>4. Takes(<<1, 1, 1, 1, 1, 2, 1>>, 8)
      BY TakesMany DEF Rest
    <3>5. Takes(<<1>>, 1)
      BY Takes1 DEF Rest
    <3>6. Takes(<<2, 1, 1>>, 4)
      BY Takes3 DEF Rest
    <3> QED
      BY <3>1, <3>2, <3>3, <3>4, <3>5, <3>6
  <2>6. Stages(g, e)
    BY ONLY <2>1, <2>2, <2>3, <2>5 DEF Stages
  <2>7. Tight(g, e)
    BY ONLY <2>1, <2>3, <2>4 DEF Tight
  <2> QED
    BY ONLY length \in Nat, length >= 4, <2>6, <2>7, TightLaid
<1> QED
  BY <1>1

LEMMA OnBoardDevicesInformationLaid ==
  ASSUME NEW length \in Nat, length >= 4
  PROVE  Laid(OnBoardDevicesInformation, length, {}, {})
<1>1. ASSUME NEW g, NEW e, g = OnBoardDevicesInformation, e = <<4, 6>>
      PROVE  Laid(g, length, {}, {})
  <2>1. Len(g) = 1 /\ DOMAIN g = 1 .. 1 /\ e[1] = 4
    BY <1>1 DEF OnBoardDevicesInformation, Always, Over
  <2>2. \A i \in 1 .. 1 + 1 : e[i] \in Nat
    BY <1>1 DEF Raise
  <2>3. \A i \in 1 .. 1 : /\ g[i][1] \in Nat /\ (g[i][1] = 0 \/ g[i][1] = e[i])
                         /\ g[i][1] < e[i + 1]
    BY <1>1 DEF OnBoardDevicesInformation, Always, Over, Raise
  <2>4. \A i \in 1 .. 1 : i < 1 => g[i][1] <= g[i + 1][1]
    BY <1>1 DEF OnBoardDevicesInformation, Always, Over
  <2>5. \A i \in 1 .. 1 : Takes(g[i][2], e[i + 1] - e[i])
    <3>1. g[1][2] = <<1, 1>> /\ e[2] - e[1] = 2
      BY <1>1 DEF OnBoardDevicesInformation, Always, Over, Raise
    <3>2. Takes(<<1, 1>>, 2)
      BY Takes2 DEF Rest
    <3> QED
      BY <3>1, <3>2
  <2>6. Stages(g, e)
    BY ONLY <2>1, <2>2, <2>3, <2>5 DEF Stages
  <2>7. Tight(g, e)
    BY ONLY <2>1, <2>3, <2>4 DEF Tight
  <2> QED
    BY ONLY length \in Nat, length >= 4, <2>6, <2>7, TightLaid
<1> QED
  BY <1>1

LEMMA OEMStringsLaid ==
  ASSUME NEW length \in Nat, length >= 4
  PROVE  Laid(OEMStrings, length, {}, {})
<1>1. ASSUME NEW g, NEW e, g = OEMStrings, e = <<4, 5>>
      PROVE  Laid(g, length, {}, {})
  <2>1. Len(g) = 1 /\ DOMAIN g = 1 .. 1 /\ e[1] = 4
    BY <1>1 DEF OEMStrings, Always, Over
  <2>2. \A i \in 1 .. 1 + 1 : e[i] \in Nat
    BY <1>1 DEF Raise
  <2>3. \A i \in 1 .. 1 : /\ g[i][1] \in Nat /\ (g[i][1] = 0 \/ g[i][1] = e[i])
                         /\ g[i][1] < e[i + 1]
    BY <1>1 DEF OEMStrings, Always, Over, Raise
  <2>4. \A i \in 1 .. 1 : i < 1 => g[i][1] <= g[i + 1][1]
    BY <1>1 DEF OEMStrings, Always, Over
  <2>5. \A i \in 1 .. 1 : Takes(g[i][2], e[i + 1] - e[i])
    <3>1. g[1][2] = <<1>> /\ e[2] - e[1] = 1
      BY <1>1 DEF OEMStrings, Always, Over, Raise
    <3>2. Takes(<<1>>, 1)
      BY Takes1 DEF Rest
    <3> QED
      BY <3>1, <3>2
  <2>6. Stages(g, e)
    BY ONLY <2>1, <2>2, <2>3, <2>5 DEF Stages
  <2>7. Tight(g, e)
    BY ONLY <2>1, <2>3, <2>4 DEF Tight
  <2> QED
    BY ONLY length \in Nat, length >= 4, <2>6, <2>7, TightLaid
<1> QED
  BY <1>1

LEMMA SystemConfigOptionsLaid ==
  ASSUME NEW length \in Nat, length >= 4
  PROVE  Laid(SystemConfigOptions, length, {}, {})
<1>1. ASSUME NEW g, NEW e, g = SystemConfigOptions, e = <<4, 5>>
      PROVE  Laid(g, length, {}, {})
  <2>1. Len(g) = 1 /\ DOMAIN g = 1 .. 1 /\ e[1] = 4
    BY <1>1 DEF SystemConfigOptions, Always, Over
  <2>2. \A i \in 1 .. 1 + 1 : e[i] \in Nat
    BY <1>1 DEF Raise
  <2>3. \A i \in 1 .. 1 : /\ g[i][1] \in Nat /\ (g[i][1] = 0 \/ g[i][1] = e[i])
                         /\ g[i][1] < e[i + 1]
    BY <1>1 DEF SystemConfigOptions, Always, Over, Raise
  <2>4. \A i \in 1 .. 1 : i < 1 => g[i][1] <= g[i + 1][1]
    BY <1>1 DEF SystemConfigOptions, Always, Over
  <2>5. \A i \in 1 .. 1 : Takes(g[i][2], e[i + 1] - e[i])
    <3>1. g[1][2] = <<1>> /\ e[2] - e[1] = 1
      BY <1>1 DEF SystemConfigOptions, Always, Over, Raise
    <3>2. Takes(<<1>>, 1)
      BY Takes1 DEF Rest
    <3> QED
      BY <3>1, <3>2
  <2>6. Stages(g, e)
    BY ONLY <2>1, <2>2, <2>3, <2>5 DEF Stages
  <2>7. Tight(g, e)
    BY ONLY <2>1, <2>3, <2>4 DEF Tight
  <2> QED
    BY ONLY length \in Nat, length >= 4, <2>6, <2>7, TightLaid
<1> QED
  BY <1>1

LEMMA BIOSLanguageInformationLaid ==
  ASSUME NEW length \in Nat, length >= 4
  PROVE  Laid(BIOSLanguageInformation, length, {}, {})
<1>1. ASSUME NEW g, NEW e, g = BIOSLanguageInformation, e = <<4, 5, 6, 22>>
      PROVE  Laid(g, length, {}, {})
  <2>1. Len(g) = 3 /\ DOMAIN g = 1 .. 3 /\ e[1] = 4
    BY <1>1 DEF BIOSLanguageInformation, Always, Over
  <2>2. \A i \in 1 .. 3 + 1 : e[i] \in Nat
    BY <1>1 DEF Raise
  <2>3. \A i \in 1 .. 3 : /\ g[i][1] \in Nat /\ (g[i][1] = 0 \/ g[i][1] = e[i])
                         /\ g[i][1] < e[i + 1]
    BY <1>1 DEF BIOSLanguageInformation, Always, Over, Raise
  <2>4. \A i \in 1 .. 3 : i < 3 => g[i][1] <= g[i + 1][1]
    BY <1>1 DEF BIOSLanguageInformation, Always, Over
  <2>5. \A i \in 1 .. 3 : Takes(g[i][2], e[i + 1] - e[i])
    <3>1. g[1][2] = <<1>> /\ e[2] - e[1] = 1
      BY <1>1 DEF BIOSLanguageInformation, Always, Over, Raise
    <3>2. g[2][2] = <<1>> /\ e[3] - e[2] = 1
      BY <1>1 DEF BIOSLanguageInformation, Always, Over, Raise
    <3>3. g[3][2] = <<15, 1>> /\ e[4] - e[3] = 16
      BY <1>1 DEF BIOSLanguageInformation, Always, Over, Raise
    <3>4. Takes(<<1>>, 1)
      BY Takes1 DEF Rest
    <3>5. Takes(<<1>>, 1)
      BY Takes1 DEF Rest
    <3>6. Takes(<<15, 1>>, 16)
      BY Takes2 DEF Rest
    <3> QED
      BY <3>1, <3>2, <3>3, <3>4, <3>5, <3>6
  <2>6. Stages(g, e)
    BY ONLY <2>1, <2>2, <2>3, <2>5 DEF Stages
  <2>7. Tight(g, e)
    BY ONLY <2>1, <2>3, <2>4 DEF Tight
  <2> QED
    BY ONLY length \in Nat, length >= 4, <2>6, <2>7, TightLaid
<1> QED
  BY <1>1

LEMMA GroupAssociationsLaid ==
  ASSUME NEW length \in Nat, length >= 4
  PROVE  Laid(GroupAssociations, length, {}, {})
<1>1. ASSUME NEW g, NEW e, g = GroupAssociations, e = <<4, 8>>
      PROVE  Laid(g, length, {}, {})
  <2>1. Len(g) = 1 /\ DOMAIN g = 1 .. 1 /\ e[1] = 4
    BY <1>1 DEF GroupAssociations, Always, Over
  <2>2. \A i \in 1 .. 1 + 1 : e[i] \in Nat
    BY <1>1 DEF Raise
  <2>3. \A i \in 1 .. 1 : /\ g[i][1] \in Nat /\ (g[i][1] = 0 \/ g[i][1] = e[i])
                         /\ g[i][1] < e[i + 1]
    BY <1>1 DEF GroupAssociations, Always, Over, Raise
  <2>4. \A i \in 1 .. 1 : i < 1 => g[i][1] <= g[i + 1][1]
    BY <1>1 DEF GroupAssociations, Always, Over
  <2>5. \A i \in 1 .. 1 : Takes(g[i][2], e[i + 1] - e[i])
    <3>1. g[1][2] = <<1, 1, 2>> /\ e[2] - e[1] = 4
      BY <1>1 DEF GroupAssociations, Always, Over, Raise
    <3>2. Takes(<<1, 1, 2>>, 4)
      BY Takes3 DEF Rest
    <3> QED
      BY <3>1, <3>2
  <2>6. Stages(g, e)
    BY ONLY <2>1, <2>2, <2>3, <2>5 DEF Stages
  <2>7. Tight(g, e)
    BY ONLY <2>1, <2>3, <2>4 DEF Tight
  <2> QED
    BY ONLY length \in Nat, length >= 4, <2>6, <2>7, TightLaid
<1> QED
  BY <1>1

LEMMA SystemPowerControlsLaid ==
  ASSUME NEW length \in Nat, length >= 4
  PROVE  Laid(SystemPowerControls, length, {}, {})
<1>1. ASSUME NEW g, NEW e, g = SystemPowerControls, e = <<4, 9>>
      PROVE  Laid(g, length, {}, {})
  <2>1. Len(g) = 1 /\ DOMAIN g = 1 .. 1 /\ e[1] = 4
    BY <1>1 DEF SystemPowerControls, Always, Over
  <2>2. \A i \in 1 .. 1 + 1 : e[i] \in Nat
    BY <1>1 DEF Raise
  <2>3. \A i \in 1 .. 1 : /\ g[i][1] \in Nat /\ (g[i][1] = 0 \/ g[i][1] = e[i])
                         /\ g[i][1] < e[i + 1]
    BY <1>1 DEF SystemPowerControls, Always, Over, Raise
  <2>4. \A i \in 1 .. 1 : i < 1 => g[i][1] <= g[i + 1][1]
    BY <1>1 DEF SystemPowerControls, Always, Over
  <2>5. \A i \in 1 .. 1 : Takes(g[i][2], e[i + 1] - e[i])
    <3>1. g[1][2] = <<1, 1, 1, 1, 1>> /\ e[2] - e[1] = 5
      BY <1>1 DEF SystemPowerControls, Always, Over, Raise
    <3>2. Takes(<<1, 1, 1, 1, 1>>, 5)
      BY Takes5 DEF Rest
    <3> QED
      BY <3>1, <3>2
  <2>6. Stages(g, e)
    BY ONLY <2>1, <2>2, <2>3, <2>5 DEF Stages
  <2>7. Tight(g, e)
    BY ONLY <2>1, <2>3, <2>4 DEF Tight
  <2> QED
    BY ONLY length \in Nat, length >= 4, <2>6, <2>7, TightLaid
<1> QED
  BY <1>1

LEMMA IPMIDeviceInformationLaid ==
  ASSUME NEW length \in Nat, length >= 4
  PROVE  Laid(IPMIDeviceInformation, length, {}, {})
<1>1. ASSUME NEW g, NEW e, g = IPMIDeviceInformation, e = <<4, 18>>
      PROVE  Laid(g, length, {}, {})
  <2>1. Len(g) = 1 /\ DOMAIN g = 1 .. 1 /\ e[1] = 4
    BY <1>1 DEF IPMIDeviceInformation, Always, Over
  <2>2. \A i \in 1 .. 1 + 1 : e[i] \in Nat
    BY <1>1 DEF Raise
  <2>3. \A i \in 1 .. 1 : /\ g[i][1] \in Nat /\ (g[i][1] = 0 \/ g[i][1] = e[i])
                         /\ g[i][1] < e[i + 1]
    BY <1>1 DEF IPMIDeviceInformation, Always, Over, Raise
  <2>4. \A i \in 1 .. 1 : i < 1 => g[i][1] <= g[i + 1][1]
    BY <1>1 DEF IPMIDeviceInformation, Always, Over
  <2>5. \A i \in 1 .. 1 : Takes(g[i][2], e[i + 1] - e[i])
    <3>1. g[1][2] = <<1, 1, 1, 1, 8, 1, 1>> /\ e[2] - e[1] = 14
      BY <1>1 DEF IPMIDeviceInformation, Always, Over, Raise
    <3>2. Takes(<<1, 1, 1, 1, 8, 1, 1>>, 14)
      BY TakesMany DEF Rest
    <3> QED
      BY <3>1, <3>2
  <2>6. Stages(g, e)
    BY ONLY <2>1, <2>2, <2>3, <2>5 DEF Stages
  <2>7. Tight(g, e)
    BY ONLY <2>1, <2>3, <2>4 DEF Tight
  <2> QED
    BY ONLY length \in Nat, length >= 4, <2>6, <2>7, TightLaid
<1> QED
  BY <1>1

\* The classes with a guard that is not at the end of the fields before it: they lose
\* fields, or have a wrong guard, at these lengths and at no others.
LEMMA ProcessorInformationLaid ==
  ASSUME NEW length \in Nat, length >= 4
  PROVE  Laid(ProcessorInformation, length, {36}, {})
<1>1. ASSUME NEW g, NEW e, g = ProcessorInformation, e = <<4, 26, 32, 35, 40, 42, 48>>
      PROVE  Laid(g, length, {36}, {})
  <2>1. Len(g) = 6 /\ DOMAIN g = 1 .. 6 /\ e[1] = 4
    BY <1>1 DEF ProcessorInformation, Always, Over
  <2>2. \A i \in 1 .. 6 + 1 : e[i] \in Nat
    BY <1>1
  <2>3. /\ \A i \in 1 .. 6 : g[i][1] \in Nat
        /\ \A i \in 1 .. 6 : i < 6 => g[i][1] <= g[i + 1][1]
    BY <1>1 DEF ProcessorInformation, Always, Over
  <2>4. \A i \in 1 .. 6 : Takes(g[i][2], e[i + 1] - e[i])
    <3>1. g[1][2] = <<1, 1, 1, 1, 8, 1, 1, 2, 2, 2, 1, 1>> /\ e[2] - e[1] = 22
      BY <1>1 DEF ProcessorInformation, Always, Over
    <3>2. g[2][2] = <<2, 2, 2>> /\ e[3] - e[2] = 6
      BY <1>1 DEF ProcessorInformation, Always, Over
    <3>3. g[3][2] = <<1, 1, 1>> /\ e[4] - e[3] = 3
      BY <1>1 DEF ProcessorInformation, Always, Over
    <3>4. g[4][2] = <<1, 1, 1, 2>> /\ e[5] - e[4] = 5
      BY <1>1 DEF ProcessorInformation, Always, Over
    <3>5. g[5][2] = <<2>> /\ e[6] - e[5] = 2
      BY <1>1 DEF ProcessorInformation, Always, Over
    <3>6. g[6][2] = <<2, 2, 2>> /\ e[7] - e[6] = 6
      BY <1>1 DEF ProcessorInformation, Always, Over
    <3>7. Takes(<<1, 1, 1, 1, 8, 1, 1, 2, 2, 2, 1, 1>>, 22)
      BY TakesMany DEF Rest
    <3>8. Takes(<<2, 2, 2>>, 6)
      BY Takes3 DEF Rest
    <3>9. Takes(<<1, 1, 1>>, 3)
      BY Takes3 DEF Rest
    <3>10. Takes(<<1, 1, 1, 2>>, 5)
      BY Takes4 DEF Rest
    <3>11. Takes(<<2>>, 2)
      BY Takes1 DEF Rest
    <3>12. Takes(<<2, 2, 2>>, 6)
      BY Takes3 DEF Rest
    <3> QED
      BY <3>1, <3>2, <3>3, <3>4, <3>5, <3>6, <3>7, <3>8, <3>9, <3>10, <3>11, <3>12
  <2>5. Stages(g, e)
    BY ONLY <2>1, <2>2, <2>3, <2>4 DEF Stages
  <2>6. InOrder(g, length)
    BY ONLY length \in Nat, length >= 4, <2>1, <2>2, <2>3, RisingInOrder
  <2>7. length \notin {36} => NoneSkipped(g, e, length)
    <3>1. \A i \in 1 .. 6 : length \notin {36} => ~ (e[i] < length /\ length <= g[i][1])
      BY <1>1 DEF ProcessorInformation, Always, Over
    <3> QED
      BY <2>1, <3>1 DEF NoneSkipped
  <2>8. length \notin {} => Guarded(g, e, length)
    <3>1. \A i \in 1 .. 6, k \in 1 .. 6 + 1 :
            length \notin {} /\ length = e[k]
              => /\ e[i + 1] <= length => length > g[i][1]
                 /\ length <= e[i] /\ g[i][1] # 0 => length <= g[i][1]
      BY <1>1 DEF ProcessorInformation, Always, Over
    <3> QED
      BY <2>1, <3>1 DEF Guarded
  <2> QED
    BY ONLY <2>5, <2>6, <2>7, <2>8 DEF Laid
<1> QED
  BY <1>1

LEMMA CacheInformationLaid ==
  ASSUME NEW length \in Nat, length >= 4
  PROVE  Laid(CacheInformation, length, {}, {17})
<1>1. ASSUME NEW g, NEW e, g = CacheInformation, e = <<4, 15, 16, 17, 18, 19>>
      PROVE  Laid(g, length, {}, {17})
  <2>1. Len(g) = 5 /\ DOMAIN g = 1 .. 5 /\ e[1] = 4
    BY <1>1 DEF CacheInformation, Always, Over
  <2>2. \A i \in 1 .. 5 + 1 : e[i] \in Nat
    BY <1>1
  <2>3. /\ \A i \in 1 .. 5 : g[i][1] \in Nat
        /\ \A i \in 1 .. 5 : i < 5 => g[i][1] <= g[i + 1][1]
    BY <1>1 DEF CacheInformation, Always, Over
  <2>4. \A i \in 1 .. 5 : Takes(g[i][2], e[i + 1] - e[i])
    <3>1. g[1][2] = <<1, 2, 2, 2, 2, 2>> /\ e[2] - e[1] = 11
      BY <1>1 DEF CacheInformation, Always, Over
    <3>2. g[2][2] = <<1>> /\ e[3] - e[2] = 1
      BY <1>1 DEF CacheInformation, Always, Over
    <3>3. g[3][2] = <<1>> /\ e[4] - e[3] = 1
      BY <1>1 DEF CacheInformation, Always, Over
    <3>4. g[4][2] = <<1>> /\ e[5] - e[4] = 1
      BY <1>1 DEF CacheInformation, Always, Over
    <3>5. g[5][2] = <<1>> /\ e[6] - e[5] = 1
      BY <1>1 DEF CacheInformation, Always, Over
    <3>6. Takes(<<1, 2, 2, 2, 2, 2>>, 11)
      BY TakesMany DEF Rest
    <3>7. Takes(<<1>>, 1)
      BY Takes1 DEF Rest
    <3>8. Takes(<<1>>, 1)
      BY Takes1 DEF Rest
    <3>9. Takes(<<1>>, 1)
      BY Takes1 DEF Rest
    <3>10. Takes(<<1>>, 1)
      BY Takes1 DEF Rest
    <3> QED
      BY <3>1, <3>2, <3>3, <3>4, <3>5, <3>6, <3>7, <3>8, <3>9, <3>10
  <2>5. Stages(g, e)
    BY ONLY <2>1, <2>2, <2>3, <2>4 DEF Stages
  <2>6. InOrder(g, length)
    BY ONLY length \in Nat, length >= 4, <2>1, <2>2, <2>3, RisingInOrder
  <2>7. length \notin {} => NoneSkipped(g, e, length)
    <3>1. \A i \in 1 .. 5 : length \notin {} => ~ (e[i] < length /\ length <= g[i][1])
      BY <1>1 DEF CacheInformation, Always, Over
    <3> QED
      BY <2>1, <3>1 DEF NoneSkipped
  <2>8. length \notin {17} => Guarded(g, e, length)
    <3>1. \A i \in 1 .. 5, k \in 1 .. 5 + 1 :
            length \notin {17} /\ length = e[k]
              => /\ e[i + 1] <= length => length > g[i][1]
                 /\ length <= e[i] /\ g[i][1] # 0 => length <= g[i][1]
      BY <1>1 DEF CacheInformation, Always, Over
    <3> QED
      BY <2>1, <3>1 DEF Guarded
  <2> QED
    BY ONLY <2>5, <2>6, <2>7, <2>8 DEF Laid
<1> QED
  BY <1>1

LEMMA SystemResetLaid ==
  ASSUME NEW length \in Nat, length >= 4
  PROVE  Laid(SystemReset, length, {}, {7})
<1>1. ASSUME NEW g, NEW e, g = SystemReset, e = <<4, 5, 7, 9, 11, 13>>
      PROVE  Laid(g, length, {}, {7})
  <2>1. Len(g) = 5 /\ DOMAIN g = 1 .. 5 /\ e[1] = 4
    BY <1>1 DEF SystemReset, Always, Over
  <2>2. \A i \in 1 .. 5 + 1 : e[i] \in Nat
    BY <1>1
  <2>3. /\ \A i \in 1 .. 5 : g[i][1] \in Nat
        /\ \A i \in 1 .. 5 : i < 5 => g[i][1] <= g[i + 1][1]
    BY <1>1 DEF SystemReset, Always, Over
  <2>4. \A i \in 1 .. 5 : Takes(g[i][2], e[i + 1] - e[i])
    <3>1. g[1][2] = <<1>> /\ e[2] - e[1] = 1
      BY <1>1 DEF SystemReset, Always, Over
    <3>2. g[2][2] = <<2>> /\ e[3] - e[2] = 2
      BY <1>1 DEF SystemReset, Always, Over
    <3>3. g[3][2] = <<2>> /\ e[4] - e[3] = 2
      BY <1>1 DEF SystemReset, Always, Over
    <3>4. g[4][2] = <<2>> /\ e[5] - e[4] = 2
      BY <1>1 DEF SystemReset, Always, Over
    <3>5. g[5][2] = <<2>> /\ e[6] - e[5] = 2
      BY <1>1 DEF SystemReset, Always, Over
    <3>6. Takes(<<1>>, 1)
      BY Takes1 DEF Rest
    <3>7. Takes(<<2>>, 2)
      BY Takes1 DEF Rest
    <3>8. Takes(<<2>>, 2)
      BY Takes1 DEF Rest
    <3>9. Takes(<<2>>, 2)
      BY Takes1 DEF Rest
    <3>10. Takes(<<2>>, 2)
      BY Takes1 DEF Rest
    <3> QED
      BY <3>1, <3>2, <3>3, <3>4, <3>5, <3>6, <3>7, <3>8, <3>9, <3>10
  <2>5. Stages(g, e)
    BY ONLY <2>1, <2>2, <2>3, <2>4 DEF Stages
  <2>6. InOrder(g, length)
    BY ONLY length \in Nat, length >= 4, <2>1, <2>2, <2>3, RisingInOrder
  <2>7. length \notin {} => NoneSkipped(g, e, length)
    <3>1. \A i \in 1 .. 5 : length \notin {} => ~ (e[i] < length /\ length <= g[i][1])
      BY <1>1 DEF SystemReset, Always, Over
    <3> QED
      BY <2>1, <3>1 DEF NoneSkipped
  <2>8. length \notin {7} => Guarded(g, e, length)
    <3>1. \A i \in 1 .. 5, k \in 1 .. 5 + 1 :
            length \notin {7} /\ length = e[k]
              => /\ e[i + 1] <= length => length > g[i][1]
                 /\ length <= e[i] /\ g[i][1] # 0 => length <= g[i][1]
      BY <1>1 DEF SystemReset, Always, Over
    <3> QED
      BY <2>1, <3>1 DEF Guarded
  <2> QED
    BY ONLY <2>5, <2>6, <2>7, <2>8 DEF Laid
<1> QED
  BY <1>1

LEMMA SystemBootInformationLaid ==
  ASSUME NEW length \in Nat, length >= 4
  PROVE  Laid(SystemBootInformation, length, 5 .. 10, {})
<1>1. ASSUME NEW g, NEW e, g = SystemBootInformation, e = <<4, 11>>
      PROVE  Laid(g, length, 5 .. 10, {})
  <2>1. Len(g) = 1 /\ DOMAIN g = 1 .. 1 /\ e[1] = 4
    BY <1>1 DEF SystemBootInformation, Always, Over
  <2>2. \A i \in 1 .. 1 + 1 : e[i] \in Nat
    BY <1>1
  <2>3. /\ \A i \in 1 .. 1 : g[i][1] \in Nat
        /\ \A i \in 1 .. 1 : i < 1 => g[i][1] <= g[i + 1][1]
    BY <1>1 DEF SystemBootInformation, Always, Over
  <2>4. \A i \in 1 .. 1 : Takes(g[i][2], e[i + 1] - e[i])
    <3>1. g[1][2] = <<6, 1>> /\ e[2] - e[1] = 7
      BY <1>1 DEF SystemBootInformation, Always, Over
    <3>2. Takes(<<6, 1>>, 7)
      BY Takes2 DEF Rest
    <3> QED
      BY <3>1, <3>2
  <2>5. Stages(g, e)
    BY ONLY <2>1, <2>2, <2>3, <2>4 DEF Stages
  <2>6. InOrder(g, length)
    BY ONLY length \in Nat, length >= 4, <2>1, <2>2, <2>3, RisingInOrder
  <2>7. length \notin 5 .. 10 => NoneSkipped(g, e, length)
    <3>1. \A i \in 1 .. 1 : length \notin 5 .. 10 => ~ (e[i] < length /\ length <= g[i][1])
      BY <1>1 DEF SystemBootInformation, Always, Over
    <3> QED
      BY <2>1, <3>1 DEF NoneSkipped
  <2>8. length \notin {} => Guarded(g, e, length)
    <3>1. \A i \in 1 .. 1, k \in 1 .. 1 + 1 :
            length \notin {} /\ length = e[k]
              => /\ e[i + 1] <= length => length > g[i][1]
                 /\ length <= e[i] /\ g[i][1] # 0 => length <= g[i][1]
      BY <1>1 DEF SystemBootInformation, Always, Over
    <3> QED
      BY <2>1, <3>1 DEF Guarded
  <2> QED
    BY ONLY <2>5, <2>6, <2>7, <2>8 DEF Laid
<1> QED
  BY <1>1

LEMMA MemoryErrorInfo64BitLaid ==
  ASSUME NEW length \in Nat, length >= 4
  PROVE  Laid(MemoryErrorInfo64Bit, length, {}, {19, 27})
<1>1. ASSUME NEW g, NEW e, g = MemoryErrorInfo64Bit, e = <<4, 5, 6, 7, 11, 19, 27, 35>>
      PROVE  Laid(g, length, {}, {19, 27})
  <2>1. Len(g) = 7 /\ DOMAIN g = 1 .. 7 /\ e[1] = 4
    BY <1>1 DEF MemoryErrorInfo64Bit, Always, Over
  <2>2. \A i \in 1 .. 7 + 1 : e[i] \in Nat
    BY <1>1
  <2>3. /\ \A i \in 1 .. 7 : g[i][1] \in Nat
        /\ \A i \in 1 .. 7 : i < 7 => g[i][1] <= g[i + 1][1]
    BY <1>1 DEF MemoryErrorInfo64Bit, Always, Over
  <2>4. \A i \in 1 .. 7 : Takes(g[i][2], e[i + 1] - e[i])
    <3>1. g[1][2] = <<1>> /\ e[2] - e[1] = 1
      BY <1>1 DEF MemoryErrorInfo64Bit, Always, Over
    <3>2. g[2][2] = <<1>> /\ e[3] - e[2] = 1
      BY <1>1 DEF MemoryErrorInfo64Bit, Always, Over
    <3>3. g[3][2] = <<1>> /\ e[4] - e[3] = 1
      BY <1>1 DEF MemoryErrorInfo64Bit, Always, Over
    <3>4. g[4][2] = <<4>> /\ e[5] - e[4] = 4
      BY <1>1 DEF MemoryErrorInfo64Bit, Always, Over
    <3>5. g[5][2] = <<8>> /\ e[6] - e[5] = 8
      BY <1>1 DEF MemoryErrorInfo64Bit, Always, Over
    <3>6. g[6][2] = <<8>> /\ e[7] - e[6] = 8
      BY <1>1 DEF MemoryErrorInfo64Bit, Always, Over
    <3>7. g[7][2] = <<8>> /\ e[8] - e[7] = 8
      BY <1>1 DEF MemoryErrorInfo64Bit, Always, Over
    <3>8. Takes(<<1>>, 1)
      BY Takes1 DEF Rest
    <3>9. Takes(<<1>>, 1)
      BY Takes1 DEF Rest
    <3>10. Takes(<<1>>, 1)
      BY Takes1 DEF Rest
    <3>11. Takes(<<4>>, 4)
      BY Takes1 DEF Rest
    <3>12. Takes(<<8>>, 8)
      BY Takes1 DEF Rest
    <3>13. Takes(<<8>>, 8)
      BY Takes1 DEF Rest
    <3>14. Takes(<<8>>, 8)
      BY Takes1 DEF Rest
    <3> QED
      BY <3>1, <3>2, <3>3, <3>4, <3>5, <3>6, <3>7, <3>8, <3>9, <3>10, <3>11, <3>12, <3>13,
         <3>14
  <2>5. Stages(g, e)
    BY ONLY <2>1, <2>2, <2>3, <2>4 DEF Stages
  <2>6. InOrder(g, length)
    BY ONLY length \in Nat, length >= 4, <2>1, <2>2, <2>3, RisingInOrder
  <2>7. length \notin {} => NoneSkipped(g, e, length)
    <3>1. \A i \in 1 .. 7 : length \notin {} => ~ (e[i] < length /\ length <= g[i][1])
      BY <1>1 DEF MemoryErrorInfo64Bit, Always, Over
    <3> QED
      BY <2>1, <3>1 DEF NoneSkipped
  <2>8. length \notin {19, 27} => Guarded(g, e, length)
    <3>1. \A i \in 1 .. 7, k \in 1 .. 7 + 1 :
            length \notin {19, 27} /\ length = e[k]
              => /\ e[i + 1] <= length => length > g[i][1]
                 /\ length <= e[i] /\ g[i][1] # 0 => length <= g[i][1]
      BY <1>1 DEF MemoryErrorInfo64Bit, Always, Over
    <3> QED
      BY <2>1, <3>1 DEF Guarded
  <2> QED
    BY ONLY <2>5, <2>6, <2>7, <2>8 DEF Laid
<1> QED
  BY <1>1

LEMMA MemoryChannelLaid ==
  ASSUME NEW length \in Nat, length >= 4
  PROVE  Laid(MemoryChannel, length, 6 .. 12, {6, 7, 8, 10})
<1>1. ASSUME NEW g, NEW e, g = MemoryChannel, e = <<4, 5, 6, 7, 8, 10>>
      PROVE  Laid(g, length, 6 .. 12, {6, 7, 8, 10})
  <2>1. Len(g) = 5 /\ DOMAIN g = 1 .. 5 /\ e[1] = 4
    BY <1>1 DEF MemoryChannel, Always, Over
  <2>2. \A i \in 1 .. 5 + 1 : e[i] \in Nat
    BY <1>1
  <2>3. /\ \A i \in 1 .. 5 : g[i][1] \in Nat
        /\ \A i \in 1 .. 5 : i < 5 => g[i][1] <= g[i + 1][1]
    BY <1>1 DEF MemoryChannel, Always, Over
  <2>4. \A i \in 1 .. 5 : Takes(g[i][2], e[i + 1] - e[i])
    <3>1. g[1][2] = <<1>> /\ e[2] - e[1] = 1
      BY <1>1 DEF MemoryChannel, Always, Over
    <3>2. g[2][2] = <<1>> /\ e[3] - e[2] = 1
      BY <1>1 DEF MemoryChannel, Always, Over
    <3>3. g[3][2] = <<1>> /\ e[4] - e[3] = 1
      BY <1>1 DEF MemoryChannel, Always, Over
    <3>4. g[4][2] = <<1>> /\ e[5] - e[4] = 1
      BY <1>1 DEF MemoryChannel, Always, Over
    <3>5. g[5][2] = <<2>> /\ e[6] - e[5] = 2
      BY <1>1 DEF MemoryChannel, Always, Over
    <3>6. Takes(<<1>>, 1)
      BY Takes1 DEF Rest
    <3>7. Takes(<<1>>, 1)
      BY Takes1 DEF Rest
    <3>8. Takes(<<1>>, 1)
      BY Takes1 DEF Rest
    <3>9. Takes(<<1>>, 1)
      BY Takes1 DEF Rest
    <3>10. Takes(<<2>>, 2)
      BY Takes1 DEF Rest
    <3> QED
      BY <3>1, <3>2, <3>3, <3>4, <3>5, <3>6, <3>7, <3>8, <3>9, <3>10
  <2>5. Stages(g, e)
    BY ONLY <2>1, <2>2, <2>3, <2>4 DEF Stages
  <2>6. InOrder(g, length)
    BY ONLY length \in Nat, length >= 4, <2>1, <2>2, <2>3, RisingInOrder
  <2>7. length \notin 6 .. 12 => NoneSkipped(g, e, length)
    <3>1. \A i \in 1 .. 5 : length \notin 6 .. 12 => ~ (e[i] < length /\ length <= g[i][1])
      BY <1>1 DEF MemoryChannel, Always, Over
    <3> QED
      BY <2>1, <3>1 DEF NoneSkipped
  <2>8. length \notin {6, 7, 8, 10} => Guarded(g, e, length)
    <3>1. \A i \in 1 .. 5, k \in 1 .. 5 + 1 :
            length \notin {6, 7, 8, 10} /\ length = e[k]
              => /\ e[i + 1] <= length => length > g[i][1]
                 /\ length <= e[i] /\ g[i][1] # 0 => length <= g[i][1]
      BY <1>1 DEF MemoryChannel, Always, Over
    <3> QED
      BY <2>1, <3>1 DEF Guarded
  <2> QED
    BY ONLY <2>5, <2>6, <2>7, <2>8 DEF Laid
<1> QED
  BY <1>1

-----------------------------------------------------------------------------
(* The classes of SMBIOS structures: other fields have a say in what is read. *)

\* What s must be like for the classes that look at more than its length.
Formatted(s) ==
  /\ s.type \in Nat /\ s.length \in 4 .. 255 /\ s.count \in 0 .. 2 /\ s.each \in {0, 2, 3}
  /\ s.from24 \in BOOLEAN /\ s.extended \in BOOLEAN

\* A structure of which only the header is read.
LEMMA NoFields ==
  ASSUME NEW length \in Nat
  PROVE  Laid(<<>>, length, {}, {})
<1>1. ASSUME NEW g, NEW e, g = <<>>, e = << 4 >>
      PROVE  Laid(g, length, {}, {})
  <2>1. Len(g) = 0 /\ DOMAIN g = 1 .. 0 /\ e[1] = 4 /\ 1 .. 0 = {}
    BY <1>1
  <2> QED
    BY ONLY <2>1 DEF Laid, Stages, InOrder, NoneSkipped, Guarded
<1> QED
  BY <1>1

\* Fields that are counted.
LEMMA TakesTimes ==
  ASSUME NEW n \in Int
  PROVE  Takes(Times(n, 1), IF n > 0 THEN n ELSE 0)
<1>1. CASE n > 0
  <2>1. ASSUME NEW w, w = [i \in 1 .. n |-> 1] PROVE Takes(w, n)
    <3>1. n \in Nat /\ w \in Seq(Nat) /\ w \in Seq(Int) /\ Len(w) = n
      BY <1>1, <2>1, SeqDef
    <3>2. \A i \in 1 .. n : w[i] = 1
      BY <2>1
    <3> QED
      BY <3>1, <3>2, TotalOnes DEF Takes, Rest
  <2> QED
    BY <1>1, <2>1 DEF Times
<1>2. CASE ~ (n > 0)
  <2>1. Takes(<<>>, 0)
    <3>1. \A w : w = <<>> => w \in Seq(Int) /\ Len(w) = 0 /\ \A i \in 1 .. 0 : w[i] = 1
      OBVIOUS
    <3>2. Total(<<>>) = 0
      BY <3>1, TotalOnes
    <3> QED
      BY <3>1, <3>2 DEF Takes
  <2> QED
    BY <1>2, <2>1 DEF Times
<1> QED
  BY <1>1, <1>2

\* h consists of the m elements of f and the n of g.
Joins(f, m, g, n, h, l) ==
  /\ m \in Nat /\ n \in Nat /\ l = m + n
  /\ \E S : f \in [1 .. m -> S] /\ g \in [1 .. n -> S] /\ h \in [1 .. l -> S]
  /\ \A i \in 1 .. l : h[i] = IF i <= m THEN f[i] ELSE g[i - m]

\* There is one such sequence.
LEMMA Joined ==
  ASSUME NEW f, NEW m, NEW g, NEW n, NEW h, NEW l, Joins(f, m, g, n, h, l)
  PROVE  f \o g = h
<1>1. PICK S : f \in [1 .. m -> S] /\ g \in [1 .. n -> S] /\ h \in [1 .. l -> S]
  BY DEF Joins
<1>2. /\ f \in Seq(S) /\ Len(f) = m /\ g \in Seq(S) /\ Len(g) = n
      /\ h \in Seq(S) /\ Len(h) = l
  BY <1>1, SeqDef DEF Joins
<1>3. /\ f \o g \in Seq(S) /\ Len(f \o g) = l
      /\ \A i \in 1 .. l : (f \o g)[i] = h[i]
  BY <1>2, ConcatProperties DEF Joins
<1> QED
  BY <1>2, <1>3, SeqEqual

\* Sequences of a few elements one behind the other.
LEMMA Joined11 ==
  ASSUME NEW a, NEW x
  PROVE  <<a>> \o <<x>> = <<a, x>>
<1> DEFINE f == <<a>>
           g == <<x>>
           h == <<a, x>>
           S == {a, x}
<1>1. f \in [1 .. 1 -> S] /\ g \in [1 .. 1 -> S] /\ h \in [1 .. 2 -> S]
  OBVIOUS
<1>2. \A i \in 1 .. 2 : h[i] = IF i <= 1 THEN f[i] ELSE g[i - 1]
  OBVIOUS
<1> HIDE DEF f, g, h, S
<1>3. Joins(f, 1, g, 1, h, 2)
  BY <1>1, <1>2 DEF Joins
<1>4. f \o g = h
  BY <1>3, Joined
<1> QED
  BY <1>4 DEF f, g, h

LEMMA Joined12 ==
  ASSUME NEW a, NEW x, NEW y
  PROVE  <<a>> \o <<x, y>> = <<a, x, y>>
<1> DEFINE f == <<a>>
           g == <<x, y>>
           h == <<a, x, y>>
           S == {a, x, y}
<1>1. f \in [1 .. 1 -> S] /\ g \in [1 .. 2 -> S] /\ h \in [1 .. 3 -> S]
  OBVIOUS
<1>2. \A i \in 1 .. 3 : h[i] = IF i <= 1 THEN f[i] ELSE g[i - 1]
  OBVIOUS
<1> HIDE DEF f, g, h, S
<1>3. Joins(f, 1, g, 2, h, 3)
  BY <1>1, <1>2 DEF Joins
<1>4. f \o g = h
  BY <1>3, Joined
<1> QED
  BY <1>4 DEF f, g, h

LEMMA Joined41 ==
  ASSUME NEW a, NEW b, NEW c, NEW d, NEW x
  PROVE  <<a, b, c, d>> \o <<x>> = <<a, b, c, d, x>>
<1> DEFINE f == <<a, b, c, d>>
           g == <<x>>
           h == <<a, b, c, d, x>>
           S == {a, b, c, d, x}
<1>1. f \in [1 .. 4 -> S] /\ g \in [1 .. 1 -> S] /\ h \in [1 .. 5 -> S]
  OBVIOUS
<1>2. \A i \in 1 .. 5 : h[i] = IF i <= 4 THEN f[i] ELSE g[i - 4]
  OBVIOUS
<1> HIDE DEF f, g, h, S
<1>3. Joins(f, 4, g, 1, h, 5)
  BY <1>1, <1>2 DEF Joins
<1>4. f \o g = h
  BY <1>3, Joined
<1> QED
  BY <1>4 DEF f, g, h

LEMMA Joined42 ==
  ASSUME NEW a, NEW b, NEW c, NEW d, NEW x, NEW y
  PROVE  <<a, b, c, d>> \o <<x, y>> = <<a, b, c, d, x, y>>
<1> DEFINE f == <<a, b, c, d>>
           g == <<x, y>>
           h == <<a, b, c, d, x, y>>
           S == {a, b, c, d, x, y}
<1>1. f \in [1 .. 4 -> S] /\ g \in [1 .. 2 -> S] /\ h \in [1 .. 6 -> S]
  OBVIOUS
<1>2. \A i \in 1 .. 6 : h[i] = IF i <= 4 THEN f[i] ELSE g[i - 4]
  OBVIOUS
<1> HIDE DEF f, g, h, S
<1>3. Joins(f, 4, g, 2, h, 6)
  BY <1>1, <1>2 DEF Joins
<1>4. f \o g = h
  BY <1>3, Joined
<1> QED
  BY <1>4 DEF f, g, h

LEMMA Joined51 ==
  ASSUME NEW a, NEW b, NEW c, NEW d, NEW o, NEW x
  PROVE  <<a, b, c, d, o>> \o <<x>> = <<a, b, c, d, o, x>>
<1> DEFINE f == <<a, b, c, d, o>>
           g == <<x>>
           h == <<a, b, c, d, o, x>>
           S == {a, b, c, d, o, x}
<1>1. f \in [1 .. 5 -> S] /\ g \in [1 .. 1 -> S] /\ h \in [1 .. 6 -> S]
  OBVIOUS
<1>2. \A i \in 1 .. 6 : h[i] = IF i <= 5 THEN f[i] ELSE g[i - 5]
  OBVIOUS
<1> HIDE DEF f, g, h, S
<1>3. Joins(f, 5, g, 1, h, 6)
  BY <1>1, <1>2 DEF Joins
<1>4. f \o g = h
  BY <1>3, Joined
<1> QED
  BY <1>4 DEF f, g, h

LEMMA Joined61 ==
  ASSUME NEW a, NEW b, NEW c, NEW d, NEW o, NEW p,
         NEW x
  PROVE  <<a, b, c, d, o, p>> \o <<x>> = <<a, b, c, d, o, p, x>>
<1> DEFINE f == <<a, b, c, d, o, p>>
           g == <<x>>
           h == <<a, b, c, d, o, p, x>>
           S == {a, b, c, d, o, p, x}
<1>1. f \in [1 .. 6 -> S] /\ g \in [1 .. 1 -> S] /\ h \in [1 .. 7 -> S]
  OBVIOUS
<1>2. \A i \in 1 .. 7 : h[i] = IF i <= 6 THEN f[i] ELSE g[i - 6]
  OBVIOUS
<1> HIDE DEF f, g, h, S
<1>3. Joins(f, 6, g, 1, h, 7)
  BY <1>1, <1>2 DEF Joins
<1>4. f \o g = h
  BY <1>3, Joined
<1> QED
  BY <1>4 DEF f, g, h

LEMMA Joined71 ==
  ASSUME NEW a, NEW b, NEW c, NEW d, NEW o, NEW p, NEW q,
         NEW x
  PROVE  <<a, b, c, d, o, p, q>> \o <<x>> = <<a, b, c, d, o, p, q, x>>
<1> DEFINE f == <<a, b, c, d, o, p, q>>
           g == <<x>>
           h == <<a, b, c, d, o, p, q, x>>
           S == {a, b, c, d, o, p, q, x}
<1>1. f \in [1 .. 7 -> S] /\ g \in [1 .. 1 -> S] /\ h \in [1 .. 8 -> S]
  OBVIOUS
<1>2. \A i \in 1 .. 8 : h[i] = IF i <= 7 THEN f[i] ELSE g[i - 7]
  OBVIOUS
<1> HIDE DEF f, g, h, S
<1>3. Joins(f, 7, g, 1, h, 8)
  BY <1>1, <1>2 DEF Joins
<1>4. f \o g = h
  BY <1>3, Joined
<1> QED
  BY <1>4 DEF f, g, h

LEMMA Joined72 ==
  ASSUME NEW a, NEW b, NEW c, NEW d, NEW o, NEW p, NEW q,
         NEW x, NEW y
  PROVE  <<a, b, c, d, o, p, q>> \o <<x, y>> = <<a, b, c, d, o, p, q, x, y>>
<1> DEFINE f == <<a, b, c, d, o, p, q>>
           g == <<x, y>>
           h == <<a, b, c, d, o, p, q, x, y>>
           S == {a, b, c, d, o, p, q, x, y}
<1>1. f \in [1 .. 7 -> S] /\ g \in [1 .. 2 -> S] /\ h \in [1 .. 9 -> S]
  OBVIOUS
<1>2. \A i \in 1 .. 9 : h[i] = IF i <= 7 THEN f[i] ELSE g[i - 7]
  OBVIOUS
<1> HIDE DEF f, g, h, S
<1>3. Joins(f, 7, g, 2, h, 9)
  BY <1>1, <1>2 DEF Joins
<1>4. f \o g = h
  BY <1>3, Joined
<1> QED
  BY <1>4 DEF f, g, h

\* The classes whose fields depend on the version of the table, or on another field.
LEMMA BIOSInformationLaid ==
  ASSUME NEW s, Formatted(s)
  PROVE  Laid(BIOSInformation(s), s.length, {}, {})
<1>0. s.length \in Nat /\ s.length >= 4
  BY DEF Formatted
<1>1. ASSUME NEW g, g = <<Always(<<1, 1, 2, 1, 1, 8>>), Always(<<1, 1>>),
                   Always(<<1, 1, 1, 1>>)>>,
             NEW e, e = <<4, 18, 20, 24>>
      PROVE  Laid(g, s.length, {}, {})
  <2>1. Len(g) = 3 /\ DOMAIN g = 1 .. 3 /\ e[1] = 4
    BY <1>1
  <2>2. \A i \in 1 .. 3 + 1 : e[i] \in Nat
    BY <1>1
  <2>3. \A i \in 1 .. 3 : /\ g[i][1] \in Nat /\ (g[i][1] = 0 \/ g[i][1] = e[i])
                         /\ g[i][1] < e[i + 1]
    BY <1>1 DEF Always, Over
  <2>4. \A i \in 1 .. 3 : i < 3 => g[i][1] <= g[i + 1][1]
    BY <1>1 DEF Always, Over
  <2>5. \A i \in 1 .. 3 : Takes(g[i][2], e[i + 1] - e[i])
    <3>1. g[1][2] = <<1, 1, 2, 1, 1, 8>> /\ e[2] - e[1] = 14
      BY <1>1 DEF Always, Over
    <3>2. g[2][2] = <<1, 1>> /\ e[3] - e[2] = 2
      BY <1>1 DEF Always, Over
    <3>3. g[3][2] = <<1, 1, 1, 1>> /\ e[4] - e[3] = 4
      BY <1>1 DEF Always, Over
    <3>4. Takes(<<1, 1, 2, 1, 1, 8>>, 14)
      BY TakesMany DEF Rest
    <3>5. Takes(<<1, 1>>, 2)
      BY Takes2 DEF Rest
    <3>6. Takes(<<1, 1, 1, 1>>, 4)
      BY Takes4 DEF Rest
    <3> QED
      BY <3>1, <3>2, <3>3, <3>4, <3>5, <3>6
  <2>6. Stages(g, e)
    BY ONLY <2>1, <2>2, <2>3, <2>5 DEF Stages
  <2>7. Tight(g, e)
    BY ONLY <2>1, <2>3, <2>4 DEF Tight
  <2> QED
    BY ONLY <1>0, <2>6, <2>7, TightLaid
<1>2. ASSUME NEW g, g = <<Always(<<1, 1, 2, 1, 1, 8>>), Always(Times(s.length - 18, 1))>>,
             NEW e, e = <<4, 18, 18 + (IF s.length - 18 > 0 THEN s.length - 18 ELSE 0)>>
      PROVE  Laid(g, s.length, {}, {})
  <2>1. Len(g) = 2 /\ DOMAIN g = 1 .. 2 /\ e[1] = 4
    BY <1>2
  <2>2. \A i \in 1 .. 2 + 1 : e[i] \in Nat
    BY <1>2, <1>0
  <2>3. \A i \in 1 .. 2 : /\ g[i][1] \in Nat /\ (g[i][1] = 0 \/ g[i][1] = e[i])
                         /\ g[i][1] < e[i + 1]
    BY <1>2, <1>0 DEF Always, Over
  <2>4. \A i \in 1 .. 2 : i < 2 => g[i][1] <= g[i + 1][1]
    BY <1>2 DEF Always, Over
  <2>5. \A i \in 1 .. 2 : Takes(g[i][2], e[i + 1] - e[i])
    <3>1. g[1][2] = <<1, 1, 2, 1, 1, 8>> /\ e[2] - e[1] = 14
      BY <1>2, <1>0 DEF Always, Over
    <3>2. /\ g[2][2] = Times(s.length - 18, 1)
          /\ e[3] - e[2] = (IF s.length - 18 > 0 THEN s.length - 18 ELSE 0)
      BY <1>2, <1>0 DEF Always, Over
    <3>3. Takes(<<1, 1, 2, 1, 1, 8>>, 14)
      BY TakesMany DEF Rest
    <3>4. Takes(Times(s.length - 18, 1), (IF s.length - 18 > 0 THEN s.length - 18 ELSE 0))
      BY <1>0, TakesTimes
    <3> QED
      BY <3>1, <3>2, <3>3, <3>4
  <2>6. Stages(g, e)
    BY ONLY <2>1, <2>2, <2>3, <2>5 DEF Stages
  <2>7. Tight(g, e)
    BY ONLY <2>1, <2>3, <2>4 DEF Tight
  <2> QED
    BY ONLY <1>0, <2>6, <2>7, TightLaid
<1>3. CASE s.from24
  <2>1. BIOSInformation(s)
          = <<Always(<<1, 1, 2, 1, 1, 8>>), Always(<<1, 1>>), Always(<<1, 1, 1, 1>>)>>
    BY <1>3, Joined12 DEF BIOSInformation
  <2> QED
    BY <1>1, <2>1
<1>4. CASE ~ s.from24
  <2>1. BIOSInformation(s)
          = <<Always(<<1, 1, 2, 1, 1, 8>>), Always(Times(s.length - 18, 1))>>
    BY <1>4, Joined11 DEF BIOSInformation
  <2> QED
    BY <1>2, <2>1
<1> QED
  BY <1>3, <1>4

LEMMA MemoryArrayMappedAddressLaid ==
  ASSUME NEW s, Formatted(s)
  PROVE  Laid(MemoryArrayMappedAddress(s), s.length, {}, {})
<1>0. s.length \in Nat /\ s.length >= 4
  BY DEF Formatted
<1>1. ASSUME NEW g, g = <<Over(4, << 4 >>), Over(8, << 4 >>), Over(12, << 2 >>),
                   Over(14, << 1 >>), Over(15, << 8 >>), Over(23, << 8 >>)>>,
             NEW e, e = <<4, 8, 12, 14, 15, 23, 31>>
      PROVE  Laid(g, s.length, {}, {})
  <2>1. Len(g) = 6 /\ DOMAIN g = 1 .. 6 /\ e[1] = 4
    BY <1>1
  <2>2. \A i \in 1 .. 6 + 1 : e[i] \in Nat
    BY <1>1
  <2>3. \A i \in 1 .. 6 : /\ g[i][1] \in Nat /\ (g[i][1] = 0 \/ g[i][1] = e[i])
                         /\ g[i][1] < e[i + 1]
    BY <1>1 DEF Always, Over
  <2>4. \A i \in 1 .. 6 : i < 6 => g[i][1] <= g[i + 1][1]
    BY <1>1 DEF Always, Over
  <2>5. \A i \in 1 .. 6 : Takes(g[i][2], e[i + 1] - e[i])
    <3>1. g[1][2] = <<4>> /\ e[2] - e[1] = 4
      BY <1>1 DEF Always, Over
    <3>2. g[2][2] = <<4>> /\ e[3] - e[2] = 4
      BY <1>1 DEF Always, Over
    <3>3. g[3][2] = <<2>> /\ e[4] - e[3] = 2
      BY <1>1 DEF Always, Over
    <3>4. g[4][2] = <<1>> /\ e[5] - e[4] = 1
      BY <1>1 DEF Always, Over
    <3>5. g[5][2] = <<8>> /\ e[6] - e[5] = 8
      BY <1>1 DEF Always, Over
    <3>6. g[6][2] = <<8>> /\ e[7] - e[6] = 8
      BY <1>1 DEF Always, Over
    <3>7. Takes(<<4>>, 4)
      BY Takes1 DEF Rest
    <3>8. Takes(<<4>>, 4)
      BY Takes1 DEF Rest
    <3>9. Takes(<<2>>, 2)
      BY Takes1 DEF Rest
    <3>10. Takes(<<1>>, 1)
      BY Takes1 DEF Rest
    <3>11. Takes(<<8>>, 8)
      BY Takes1 DEF Rest
    <3>12. Takes(<<8>>, 8)
      BY Takes1 DEF Rest
    <3> QED
      BY <3>1, <3>2, <3>3, <3>4, <3>5, <3>6, <3>7, <3>8, <3>9, <3>10, <3>11, <3>12
  <2>6. Stages(g, e)
    BY ONLY <2>1, <2>2, <2>3, <2>5 DEF Stages
  <2>7. Tight(g, e)
    BY ONLY <2>1, <2>3, <2>4 DEF Tight
  <2> QED
    BY ONLY <1>0, <2>6, <2>7, TightLaid
<1>2. ASSUME NEW g, g = <<Over(4, << 4 >>), Over(8, << 4 >>), Over(12, << 2 >>),
                   Over(14, << 1 >>), Over(15, << 16 >>)>>,
             NEW e, e = <<4, 8, 12, 14, 15, 31>>
      PROVE  Laid(g, s.length, {}, {})
  <2>1. Len(g) = 5 /\ DOMAIN g = 1 .. 5 /\ e[1] = 4
    BY <1>2
  <2>2. \A i \in 1 .. 5 + 1 : e[i] \in Nat
    BY <1>2
  <2>3. \A i \in 1 .. 5 : /\ g[i][1] \in Nat /\ (g[i][1] = 0 \/ g[i][1] = e[i])
                         /\ g[i][1] < e[i + 1]
    BY <1>2 DEF Always, Over
  <2>4. \A i \in 1 .. 5 : i < 5 => g[i][1] <= g[i + 1][1]
    BY <1>2 DEF Always, Over
  <2>5. \A i \in 1 .. 5 : Takes(g[i][2], e[i + 1] - e[i])
    <3>1. g[1][2] = <<4>> /\ e[2] - e[1] = 4
      BY <1>2 DEF Always, Over
    <3>2. g[2][2] = <<4>> /\ e[3] - e[2] = 4
      BY <1>2 DEF Always, Over
    <3>3. g[3][2] = <<2>> /\ e[4] - e[3] = 2
      BY <1>2 DEF Always, Over
    <3>4. g[4][2] = <<1>> /\ e[5] - e[4] = 1
      BY <1>2 DEF Always, Over
    <3>5. g[5][2] = <<16>> /\ e[6] - e[5] = 16
      BY <1>2 DEF Always, Over
    <3>6. Takes(<<4>>, 4)
      BY Takes1 DEF Rest
    <3>7. Takes(<<4>>, 4)
      BY Takes1 DEF Rest
    <3>8. Takes(<<2>>, 2)
      BY Takes1 DEF Rest
    <3>9. Takes(<<1>>, 1)
      BY Takes1 DEF Rest
    <3>10. Takes(<<16>>, 16)
      BY Takes1 DEF Rest
    <3> QED
      BY <3>1, <3>2, <3>3, <3>4, <3>5, <3>6, <3>7, <3>8, <3>9, <3>10
  <2>6. Stages(g, e)
    BY ONLY <2>1, <2>2, <2>3, <2>5 DEF Stages
  <2>7. Tight(g, e)
    BY ONLY <2>1, <2>3, <2>4 DEF Tight
  <2> QED
    BY ONLY <1>0, <2>6, <2>7, TightLaid
<1>3. CASE s.extended
  <2>1. MemoryArrayMappedAddress(s)
          = <<Over(4, <<4>>), Over(8, <<4>>), Over(12, <<2>>), Over(14, <<1>>),
              Over(15, <<8>>),
               Over(23, <<8>>)>>
    BY <1>3, Joined42 DEF MemoryArrayMappedAddress
  <2> QED
    BY <1>1, <2>1
<1>4. CASE ~ s.extended
  <2>1. MemoryArrayMappedAddress(s)
          = <<Over(4, <<4>>), Over(8, <<4>>), Over(12, <<2>>), Over(14, <<1>>),
              Over(15, <<16>>)>>
    BY <1>4, Joined41 DEF MemoryArrayMappedAddress
  <2> QED
    BY <1>2, <2>1
<1> QED
  BY <1>3, <1>4

LEMMA MemoryDeviceMappedAddressLaid ==
  ASSUME NEW s, Formatted(s)
  PROVE  Laid(MemoryDeviceMappedAddress(s), s.length, {}, {})
<1>0. s.length \in Nat /\ s.length >= 4
  BY DEF Formatted
<1>1. ASSUME NEW g, g = <<Over(4, << 4 >>), Over(8, << 4 >>), Over(12, << 2 >>),
                          Over(14, << 2 >>), Over(16, << 1 >>),
                   Over(17, << 1 >>), Over(18, << 1 >>), Over(19, << 8 >>), Over(27, << 8 >>)>>,
             NEW e, e = <<4, 8, 12, 14, 16, 17, 18, 19, 27, 35>>
      PROVE  Laid(g, s.length, {}, {})
  <2>1. Len(g) = 9 /\ DOMAIN g = 1 .. 9 /\ e[1] = 4
    BY <1>1
  <2>2. \A i \in 1 .. 9 + 1 : e[i] \in Nat
    BY <1>1
  <2>3. \A i \in 1 .. 9 : /\ g[i][1] \in Nat /\ (g[i][1] = 0 \/ g[i][1] = e[i])
                         /\ g[i][1] < e[i + 1]
    BY <1>1 DEF Always, Over
  <2>4. \A i \in 1 .. 9 : i < 9 => g[i][1] <= g[i + 1][1]
    BY <1>1 DEF Always, Over
  <2>5. \A i \in 1 .. 9 : Takes(g[i][2], e[i + 1] - e[i])
    <3>1. g[1][2] = <<4>> /\ e[2] - e[1] = 4
      BY <1>1 DEF Always, Over
    <3>2. g[2][2] = <<4>> /\ e[3] - e[2] = 4
      BY <1>1 DEF Always, Over
    <3>3. g[3][2] = <<2>> /\ e[4] - e[3] = 2
      BY <1>1 DEF Always, Over
    <3>4. g[4][2] = <<2>> /\ e[5] - e[4] = 2
      BY <1>1 DEF Always, Over
    <3>5. g[5][2] = <<1>> /\ e[6] - e[5] = 1
      BY <1>1 DEF Always, Over
    <3>6. g[6][2] = <<1>> /\ e[7] - e[6] = 1
      BY <1>1 DEF Always, Over
    <3>7. g[7][2] = <<1>> /\ e[8] - e[7] = 1
      BY <1>1 DEF Always, Over
    <3>8. g[8][2] = <<8>> /\ e[9] - e[8] = 8
      BY <1>1 DEF Always, Over
    <3>9. g[9][2] = <<8>> /\ e[10] - e[9] = 8
      BY <1>1 DEF Always, Over
    <3>10. Takes(<<4>>, 4)
      BY Takes1 DEF Rest
    <3>11. Takes(<<4>>, 4)
      BY Takes1 DEF Rest
    <3>12. Takes(<<2>>, 2)
      BY Takes1 DEF Rest
    <3>13. Takes(<<2>>, 2)
      BY Takes1 DEF Rest
    <3>14. Takes(<<1>>, 1)
      BY Takes1 DEF Rest
    <3>15. Takes(<<1>>, 1)
      BY Takes1 DEF Rest
    <3>16. Takes(<<1>>, 1)
      BY Takes1 DEF Rest
    <3>17. Takes(<<8>>, 8)
      BY Takes1 DEF Rest
    <3>18. Takes(<<8>>, 8)
      BY Takes1 DEF Rest
    <3> QED
      BY <3>1, <3>2, <3>3, <3>4, <3>5, <3>6, <3>7, <3>8, <3>9, <3>10, <3>11, <3>12, <3>13,
         <3>14, <3>15, <3>16, <3>17, <3>18
  <2>6. Stages(g, e)
    BY ONLY <2>1, <2>2, <2>3, <2>5 DEF Stages
  <2>7. Tight(g, e)
    BY ONLY <2>1, <2>3, <2>4 DEF Tight
  <2> QED
    BY ONLY <1>0, <2>6, <2>7, TightLaid
<1>2. ASSUME NEW g, g = <<Over(4, << 4 >>), Over(8, << 4 >>), Over(12, << 2 >>), Over(14, << 2 >>),
                   Over(16, << 1 >>), Over(17, << 1 >>), Over(18, << 1 >>), Over(19, << 16 >>)>>,
             NEW e, e = <<4, 8, 12, 14, 16, 17, 18, 19, 35>>
      PROVE  Laid(g, s.length, {}, {})
  <2>1. Len(g) = 8 /\ DOMAIN g = 1 .. 8 /\ e[1] = 4
    BY <1>2
  <2>2. \A i \in 1 .. 8 + 1 : e[i] \in Nat
    BY <1>2
  <2>3. \A i \in 1 .. 8 : /\ g[i][1] \in Nat /\ (g[i][1] = 0 \/ g[i][1] = e[i])
                         /\ g[i][1] < e[i + 1]
    BY <1>2 DEF Always, Over
  <2>4. \A i \in 1 .. 8 : i < 8 => g[i][1] <= g[i + 1][1]
    BY <1>2 DEF Always, Over
  <2>5. \A i \in 1 .. 8 : Takes(g[i][2], e[i + 1] - e[i])
    <3>1. g[1][2] = <<4>> /\ e[2] - e[1] = 4
      BY <1>2 DEF Always, Over
    <3>2. g[2][2] = <<4>> /\ e[3] - e[2] = 4
      BY <1>2 DEF Always, Over
    <3>3. g[3][2] = <<2>> /\ e[4] - e[3] = 2
      BY <1>2 DEF Always, Over
    <3>4. g[4][2] = <<2>> /\ e[5] - e[4] = 2
      BY <1>2 DEF Always, Over
    <3>5. g[5][2] = <<1>> /\ e[6] - e[5] = 1
      BY <1>2 DEF Always, Over
    <3>6. g[6][2] = <<1>> /\ e[7] - e[6] = 1
      BY <1>2 DEF Always, Over
    <3>7. g[7][2] = <<1>> /\ e[8] - e[7] = 1
      BY <1>2 DEF Always, Over
    <3>8. g[8][2] = <<16>> /\ e[9] - e[8] = 16
      BY <1>2 DEF Always, Over
    <3>9. Takes(<<4>>, 4)
      BY Takes1 DEF Rest
    <3>10. Takes(<<4>>, 4)
      BY Takes1 DEF Rest
    <3>11. Takes(<<2>>, 2)
      BY Takes1 DEF Rest
    <3>12. Takes(<<2>>, 2)
      BY Takes1 DEF Rest
    <3>13. Takes(<<1>>, 1)
      BY Takes1 DEF Rest
    <3>14. Takes(<<1>>, 1)
      BY Takes1 DEF Rest
    <3>15. Takes(<<1>>, 1)
      BY Takes1 DEF Rest
    <3>16. Takes(<<16>>, 16)
      BY Takes1 DEF Rest
    <3> QED
      BY <3>1, <3>2, <3>3, <3>4, <3>5, <3>6, <3>7, <3>8, <3>9, <3>10, <3>11, <3>12, <3>13,
         <3>14, <3>15, <3>16
  <2>6. Stages(g, e)
    BY ONLY <2>1, <2>2, <2>3, <2>5 DEF Stages
  <2>7. Tight(g, e)
    BY ONLY <2>1, <2>3, <2>4 DEF Tight
  <2> QED
    BY ONLY <1>0, <2>6, <2>7, TightLaid
<1>3. CASE s.extended
  <2>1. MemoryDeviceMappedAddress(s)
          = <<Over(4, <<4>>), Over(8, <<4>>), Over(12, <<2>>), Over(14, <<2>>),
              Over(16, <<1>>),
               Over(17, <<1>>), Over(18, <<1>>), Over(19, <<8>>), Over(27, <<8>>)>>
    BY <1>3, Joined72 DEF MemoryDeviceMappedAddress
  <2> QED
    BY <1>1, <2>1
<1>4. CASE ~ s.extended
  <2>1. MemoryDeviceMappedAddress(s)
          = <<Over(4, <<4>>), Over(8, <<4>>), Over(12, <<2>>), Over(14, <<2>>),
              Over(16, <<1>>),
               Over(17, <<1>>), Over(18, <<1>>), Over(19, <<16>>)>>
    BY <1>4, Joined71 DEF MemoryDeviceMappedAddress
  <2> QED
    BY <1>2, <2>1
<1> QED
  BY <1>3, <1>4

\* A count and as many handles.
LEMMA TakesHandles ==
  ASSUME NEW n \in 0 .. 2, NEW m, m = 1 + 2 * n
  PROVE  Takes(<<1>> \o Times(n, 2), m)
<1>1. CASE n = 0
  <2>1. <<1>> \o <<>> = <<1>>
    BY ConcatEmptySeq, <<1>> \in Seq({1})
  <2>2. Takes(<<1>>, 1)
    BY Takes1 DEF Rest
  <2> QED
    BY <1>1, <2>1, <2>2 DEF Times
<1>2. CASE n = 1
  <2>1. Times(1, 2) = <<2>>
    BY DEF Times
  <2>2. Takes(<<1, 2>>, 3)
    BY Takes2 DEF Rest
  <2>3. <<1>> \o <<2>> = <<1, 2>>
    BY Joined11
  <2>4. Takes(<<1>> \o Times(1, 2), 3)
    BY ONLY <2>1, <2>2, <2>3
  <2>5. m = 3
    BY <1>2
  <2> QED
    BY <1>2, <2>4, <2>5
<1>3. CASE n = 2
  <2>1. Times(2, 2) = <<2, 2>>
    BY DEF Times
  <2>2. Takes(<<1, 2, 2>>, 5)
    BY Takes3 DEF Rest
  <2>3. <<1>> \o <<2, 2>> = <<1, 2, 2>>
    BY Joined12
  <2>4. Takes(<<1>> \o Times(2, 2), 5)
    BY ONLY <2>1, <2>2, <2>3
  <2>5. m = 5
    BY <1>3
  <2> QED
    BY <1>3, <2>4, <2>5
<1> QED
  BY <1>1, <1>2, <1>3

\* The baseboard with the handles of the objects on it.
LEMMA BaseboardInformationLaid ==
  ASSUME NEW s, Formatted(s)
  PROVE  Laid(BaseboardInformation(s), s.length, {}, {})
<1>0. s.length \in Nat /\ s.length >= 4 /\ s.count \in 0 .. 2
  BY DEF Formatted
<1>1. ASSUME NEW w, NEW c \in Nat \ {0}, Takes(w, c),
             NEW g, g = <<Always(<<1, 1, 1, 1>>), Over(8, << 1 >>), Over(9, << 1 >>),
                          Over(10, << 1 >>),
                   Over(11, << 2 >>), Over(13, << 1 >>), Over(14, w)>>,
             NEW e, e = <<4, 8, 9, 10, 11, 13, 14, 14 + c>>
      PROVE  Laid(g, s.length, {}, {})
  <2>1. Len(g) = 7 /\ DOMAIN g = 1 .. 7 /\ e[1] = 4
    BY <1>1
  <2>2. \A i \in 1 .. 7 + 1 : e[i] \in Nat
    BY <1>1
  <2>3. \A i \in 1 .. 7 : /\ g[i][1] \in Nat /\ (g[i][1] = 0 \/ g[i][1] = e[i])
                         /\ g[i][1] < e[i + 1]
    BY <1>1 DEF Always, Over
  <2>4. \A i \in 1 .. 7 : i < 7 => g[i][1] <= g[i + 1][1]
    BY <1>1 DEF Always, Over
  <2>5. \A i \in 1 .. 7 : Takes(g[i][2], e[i + 1] - e[i])
    <3>1. g[1][2] = <<1, 1, 1, 1>> /\ e[2] - e[1] = 4
      BY <1>1 DEF Always, Over
    <3>2. g[2][2] = <<1>> /\ e[3] - e[2] = 1
      BY <1>1 DEF Always, Over
    <3>3. g[3][2] = <<1>> /\ e[4] - e[3] = 1
      BY <1>1 DEF Always, Over
    <3>4. g[4][2] = <<1>> /\ e[5] - e[4] = 1
      BY <1>1 DEF Always, Over
    <3>5. g[5][2] = <<2>> /\ e[6] - e[5] = 2
      BY <1>1 DEF Always, Over
    <3>6. g[6][2] = <<1>> /\ e[7] - e[6] = 1
      BY <1>1 DEF Always, Over
    <3>7. g[7][2] = w /\ e[8] - e[7] = c
      BY <1>1 DEF Always, Over
    <3>8. Takes(<<1, 1, 1, 1>>, 4)
      BY Takes4 DEF Rest
    <3>9. Takes(<<1>>, 1)
      BY Takes1 DEF Rest
    <3>10. Takes(<<1>>, 1)
      BY Takes1 DEF Rest
    <3>11. Takes(<<1>>, 1)
      BY Takes1 DEF Rest
    <3>12. Takes(<<2>>, 2)
      BY Takes1 DEF Rest
    <3>13. Takes(<<1>>, 1)
      BY Takes1 DEF Rest
    <3>14. Takes(w, c)
      BY <1>1
    <3> QED
      BY <3>1, <3>2, <3>3, <3>4, <3>5, <3>6, <3>7, <3>8, <3>9, <3>10, <3>11, <3>12, <3>13,
         <3>14
  <2>6. Stages(g, e)
    BY ONLY <2>1, <2>2, <2>3, <2>5 DEF Stages
  <2>7. Tight(g, e)
    BY ONLY <2>1, <2>3, <2>4 DEF Tight
  <2> QED
    BY ONLY <1>0, <2>6, <2>7, TightLaid
<1> DEFINE w == <<1>> \o Times(s.count, 2)
           c == 1 + 2 * s.count
<1>2. Takes(w, c) /\ c \in Nat \ {0}
  BY <1>0, TakesHandles
<1>3. BaseboardInformation(s) = <<Always(<<1, 1, 1, 1>>), Over(8, <<1>>), Over(9, <<1>>),
          Over(10, <<1>>), Over(11, <<2>>), Over(13, <<1>>), Over(14, w)>>
  BY DEF BaseboardInformation
<1> HIDE DEF w, c
<1> QED
  BY <1>1, <1>2, <1>3

\* Elements of x bytes, of which each are counted: all, or some and the read that raises.
LEMMA ElementsLaid ==
  ASSUME NEW length \in Nat, length >= 18, length <= 255,
         NEW each \in Nat, each <= 3, NEW x \in Nat, NEW w, Takes(w, x),
         x = each \/ x >= Raise, NEW one, one = 21 + each, NEW two, two = 21 + 2 * each
  PROVE  /\ Laid(<<Always(<<1, 1, 1, 1, 1>>), Over(9, <<1, 1, 1, 1>>), Over(13, <<4>>),
                   Over(17, <<1, 1, 1, 1>>), Always(w), Over(one, <<1>>)>>, length, {}, {})
         /\ Laid(<<Always(<<1, 1, 1, 1, 1>>), Over(9, <<1, 1, 1, 1>>), Over(13, <<4>>),
                   Over(17, <<1, 1, 1, 1>>), Always(w), Always(w),
                   Over(two, <<1>>)>>, length, {}, {})
<1>0. /\ length \in Nat /\ length >= 18 /\ length <= 255 /\ each \in Nat /\ x \in Nat
      /\ each <= x /\ Takes(w, x) /\ (x = each \/ x >= 2000)
      /\ one = 21 + each /\ two = 21 + 2 * each
  BY DEF Raise
<1>1. ASSUME NEW g, g = <<Always(<<1, 1, 1, 1, 1>>), Over(9, <<1, 1, 1, 1>>),
                          Over(13, << 4 >>), Over(17, <<1, 1, 1, 1>>),
                   Always(w), Over(one, << 1 >>)>>,
             NEW e, e = <<4, 9, 13, 17, 21, 21 + x, 22 + x>>
      PROVE  Laid(g, length, {}, {})
  <2>1. Len(g) = 6 /\ DOMAIN g = 1 .. 6 /\ e[1] = 4
    BY <1>1
  <2>2. \A i \in 1 .. 6 + 1 : e[i] \in Nat
    BY <1>0, <1>1
  <2>3. \A i \in 1 .. 6 : g[i][1] \in Nat /\ g[i][1] < e[i + 1] /\ g[i][1] <= e[i]
    BY <1>0, <1>1 DEF Always, Over
  <2>4. \A i \in 1 .. 6 : Takes(g[i][2], e[i + 1] - e[i])
    <3>1. g[1][2] = <<1, 1, 1, 1, 1>> /\ e[2] - e[1] = 5
      BY <1>0, <1>1 DEF Always, Over
    <3>2. g[2][2] = <<1, 1, 1, 1>> /\ e[3] - e[2] = 4
      BY <1>0, <1>1 DEF Always, Over
    <3>3. g[3][2] = <<4>> /\ e[4] - e[3] = 4
      BY <1>0, <1>1 DEF Always, Over
    <3>4. g[4][2] = <<1, 1, 1, 1>> /\ e[5] - e[4] = 4
      BY <1>0, <1>1 DEF Always, Over
    <3>5. g[5][2] = w /\ e[6] - e[5] = x
      BY <1>0, <1>1 DEF Always, Over
    <3>6. g[6][2] = <<1>> /\ e[7] - e[6] = 1
      BY <1>0, <1>1 DEF Always, Over
    <3>7. Takes(<<1, 1, 1, 1, 1>>, 5)
      BY Takes5 DEF Rest
    <3>8. Takes(<<1, 1, 1, 1>>, 4)
      BY Takes4 DEF Rest
    <3>9. Takes(<<4>>, 4)
      BY Takes1 DEF Rest
    <3>10. Takes(<<1, 1, 1, 1>>, 4)
      BY Takes4 DEF Rest
    <3>11. Takes(w, x)
      BY <1>0
    <3>12. Takes(<<1>>, 1)
      BY Takes1 DEF Rest
    <3> QED
      BY <3>1, <3>2, <3>3, <3>4, <3>5, <3>6, <3>7, <3>8, <3>9, <3>10, <3>11, <3>12
  <2>5. Stages(g, e)
    BY ONLY <2>1, <2>2, <2>3, <2>4 DEF Stages
  <2>6. \A i \in 1 .. 6 : i # 6 => length > g[i][1] /\ (g[i][1] = 0 \/ g[i][1] = e[i])
    BY <1>0, <1>1 DEF Always, Over
  <2>7. InOrder(g, length)
    BY ONLY <2>1, <2>6 DEF InOrder
  <2>8. NoneSkipped(g, e, length)
    BY ONLY length \in Nat, <2>1, <2>2, <2>3 DEF NoneSkipped
  <2>9. Guarded(g, e, length)
    <3>1. \A i \in 1 .. 6 : e[i + 1] <= length => length > g[i][1]
      <4> TAKE i \in 1 .. 6
      <4>1. i + 1 \in 1 .. 6 + 1
        OBVIOUS
      <4>2. e[i + 1] \in Nat /\ g[i][1] \in Nat /\ g[i][1] < e[i + 1]
        BY <2>2, <2>3, <4>1
      <4> QED
        BY <1>0, <4>2
    <3>2. \A i \in 1 .. 6, k \in 1 .. 6 + 1 :
            length = e[k] /\ length <= e[i] /\ g[i][1] # 0 => length <= g[i][1]
      <4>1. g[6][1] = e[6] \/ (e[6] >= 2000 /\ g[6][1] >= 21)
        BY <1>0, <1>1 DEF Over
      <4>2. \A k \in 1 .. 6 + 1 : e[k] <= 21 \/ e[k] >= 2000 \/ g[6][1] = e[6]
        BY <1>0, <1>1 DEF Over
      <4> QED
        BY <2>2, <2>3, <2>6, <4>1, <4>2
    <3> QED
      BY <2>1, <3>1, <3>2 DEF Guarded
  <2> QED
    BY ONLY <2>5, <2>7, <2>8, <2>9 DEF Laid
<1>2. ASSUME NEW g, g = <<Always(<<1, 1, 1, 1, 1>>), Over(9, <<1, 1, 1, 1>>),
                          Over(13, << 4 >>), Over(17, <<1, 1, 1, 1>>),
                   Always(w), Always(w), Over(two, << 1 >>)>>,
             NEW e, e = <<4, 9, 13, 17, 21, 21 + x, 21 + 2 * x, 22 + 2 * x>>
      PROVE  Laid(g, length, {}, {})
  <2>1. Len(g) = 7 /\ DOMAIN g = 1 .. 7 /\ e[1] = 4
    BY <1>2
  <2>2. \A i \in 1 .. 7 + 1 : e[i] \in Nat
    BY <1>0, <1>2
  <2>3. \A i \in 1 .. 7 : g[i][1] \in Nat /\ g[i][1] < e[i + 1] /\ g[i][1] <= e[i]
    BY <1>0, <1>2 DEF Always, Over
  <2>4. \A i \in 1 .. 7 : Takes(g[i][2], e[i + 1] - e[i])
    <3>1. g[1][2] = <<1, 1, 1, 1, 1>> /\ e[2] - e[1] = 5
      BY <1>0, <1>2 DEF Always, Over
    <3>2. g[2][2] = <<1, 1, 1, 1>> /\ e[3] - e[2] = 4
      BY <1>0, <1>2 DEF Always, Over
    <3>3. g[3][2] = <<4>> /\ e[4] - e[3] = 4
      BY <1>0, <1>2 DEF Always, Over
    <3>4. g[4][2] = <<1, 1, 1, 1>> /\ e[5] - e[4] = 4
      BY <1>0, <1>2 DEF Always, Over
    <3>5. g[5][2] = w /\ e[6] - e[5] = x
      BY <1>0, <1>2 DEF Always, Over
    <3>6. g[6][2] = w /\ e[7] - e[6] = x
      BY <1>0, <1>2 DEF Always, Over
    <3>7. g[7][2] = <<1>> /\ e[8] - e[7] = 1
      BY <1>0, <1>2 DEF Always, Over
    <3>8. Takes(<<1, 1, 1, 1, 1>>, 5)
      BY Takes5 DEF Rest
    <3>9. Takes(<<1, 1, 1, 1>>, 4)
      BY Takes4 DEF Rest
    <3>10. Takes(<<4>>, 4)
      BY Takes1 DEF Rest
    <3>11. Takes(<<1, 1, 1, 1>>, 4)
      BY Takes4 DEF Rest
    <3>12. Takes(w, x)
      BY <1>0
    <3>13. Takes(w, x)
      BY <1>0
    <3>14. Takes(<<1>>, 1)
      BY Takes1 DEF Rest
    <3> QED
      BY <3>1, <3>2, <3>3, <3>4, <3>5, <3>6, <3>7, <3>8, <3>9, <3>10, <3>11, <3>12, <3>13,
         <3>14
  <2>5. Stages(g, e)
    BY ONLY <2>1, <2>2, <2>3, <2>4 DEF Stages
  <2>6. \A i \in 1 .. 7 : i # 7 => length > g[i][1] /\ (g[i][1] = 0 \/ g[i][1] = e[i])
    BY <1>0, <1>2 DEF Always, Over
  <2>7. InOrder(g, length)
    BY ONLY <2>1, <2>6 DEF InOrder
  <2>8. NoneSkipped(g, e, length)
    BY ONLY length \in Nat, <2>1, <2>2, <2>3 DEF NoneSkipped
  <2>9. Guarded(g, e, length)
    <3>1. \A i \in 1 .. 7 : e[i + 1] <= length => length > g[i][1]
      <4> TAKE i \in 1 .. 7
      <4>1. i + 1 \in 1 .. 7 + 1
        OBVIOUS
      <4>2. e[i + 1] \in Nat /\ g[i][1] \in Nat /\ g[i][1] < e[i + 1]
        BY <2>2, <2>3, <4>1
      <4> QED
        BY <1>0, <4>2
    <3>2. \A i \in 1 .. 7, k \in 1 .. 7 + 1 :
            length = e[k] /\ length <= e[i] /\ g[i][1] # 0 => length <= g[i][1]
      <4>1. g[7][1] = e[7] \/ (e[7] >= 2000 /\ g[7][1] >= 21)
        BY <1>0, <1>2 DEF Over
      <4>2. \A k \in 1 .. 7 + 1 : e[k] <= 21 \/ e[k] >= 2000 \/ g[7][1] = e[7]
        BY <1>0, <1>2 DEF Over
      <4> QED
        BY <2>2, <2>3, <2>6, <4>1, <4>2
    <3> QED
      BY <2>1, <3>1, <3>2 DEF Guarded
  <2> QED
    BY ONLY <2>5, <2>7, <2>8, <2>9 DEF Laid
<1>3. Laid(<<Always(<<1, 1, 1, 1, 1>>), Over(9, <<1, 1, 1, 1>>), Over(13, <<4>>),
             Over(17, <<1, 1, 1, 1>>), Always(w), Over(one, <<1>>)>>, length, {}, {})
  BY ONLY <1>1
<1>4. Laid(<<Always(<<1, 1, 1, 1, 1>>), Over(9, <<1, 1, 1, 1>>), Over(13, <<4>>),
             Over(17, <<1, 1, 1, 1>>), Always(w), Always(w),
             Over(two, <<1>>)>>, length, {}, {})
  BY ONLY <1>2
<1> QED
  BY ONLY <1>3, <1>4

\* A sequence of n times the same.
LEMMA Alike ==
  ASSUME NEW v
  PROVE  /\ [i \in 1 .. 0 |-> v] = <<>>
         /\ [i \in 1 .. 1 |-> v] = <<v>>
         /\ [i \in 1 .. 2 |-> v] = <<v, v>>
OBVIOUS

\* The enclosure with its contained elements.
LEMMA SystemEnclosureLaid ==
  ASSUME NEW s, Formatted(s)
  PROVE  Laid(SystemEnclosure(s), s.length, {}, {})
<1>0. s.length \in Nat /\ s.length >= 4 /\ s.length <= 255 /\ s.count \in 0 .. 2
      /\ s.each \in {0, 2, 3}
  BY DEF Formatted
<1>1. ASSUME NEW g, g = <<Always(<<1, 1, 1, 1, 1>>), Over(9, <<1, 1, 1, 1>>), Over(13, << 4 >>),
                   Over(17, <<1, 1, 1, 1>>), Over(21, << 1 >>)>>,
             NEW e, e = <<4, 9, 13, 17, 21, 22>>
      PROVE  Laid(g, s.length, {}, {})
  <2>1. Len(g) = 5 /\ DOMAIN g = 1 .. 5 /\ e[1] = 4
    BY <1>1
  <2>2. \A i \in 1 .. 5 + 1 : e[i] \in Nat
    BY <1>1
  <2>3. \A i \in 1 .. 5 : /\ g[i][1] \in Nat /\ (g[i][1] = 0 \/ g[i][1] = e[i])
                         /\ g[i][1] < e[i + 1]
    BY <1>1 DEF Always, Over
  <2>4. \A i \in 1 .. 5 : i < 5 => g[i][1] <= g[i + 1][1]
    BY <1>1 DEF Always, Over
  <2>5. \A i \in 1 .. 5 : Takes(g[i][2], e[i + 1] - e[i])
    <3>1. g[1][2] = <<1, 1, 1, 1, 1>> /\ e[2] - e[1] = 5
      BY <1>1 DEF Always, Over
    <3>2. g[2][2] = <<1, 1, 1, 1>> /\ e[3] - e[2] = 4
      BY <1>1 DEF Always, Over
    <3>3. g[3][2] = <<4>> /\ e[4] - e[3] = 4
      BY <1>1 DEF Always, Over
    <3>4. g[4][2] = <<1, 1, 1, 1>> /\ e[5] - e[4] = 4
      BY <1>1 DEF Always, Over
    <3>5. g[5][2] = <<1>> /\ e[6] - e[5] = 1
      BY <1>1 DEF Always, Over
    <3>6. Takes(<<1, 1, 1, 1, 1>>, 5)
      BY Takes5 DEF Rest
    <3>7. Takes(<<1, 1, 1, 1>>, 4)
      BY Takes4 DEF Rest
    <3>8. Takes(<<4>>, 4)
      BY Takes1 DEF Rest
    <3>9. Takes(<<1, 1, 1, 1>>, 4)
      BY Takes4 DEF Rest
    <3>10. Takes(<<1>>, 1)
      BY Takes1 DEF Rest
    <3> QED
      BY <3>1, <3>2, <3>3, <3>4, <3>5, <3>6, <3>7, <3>8, <3>9, <3>10
  <2>6. Stages(g, e)
    BY ONLY <2>1, <2>2, <2>3, <2>5 DEF Stages
  <2>7. Tight(g, e)
    BY ONLY <2>1, <2>3, <2>4 DEF Tight
  <2> QED
    BY ONLY <1>0, <2>6, <2>7, TightLaid
<1> DEFINE w == ContainedElement(s)
           x == s.each + (IF s.each >= 3 THEN 0 ELSE Raise)
           front == <<Always(<<1, 1, 1, 1, 1>>), Over(9, <<1, 1, 1, 1>>), Over(13, <<4>>),
                      Over(17, <<1, 1, 1, 1>>)>>
<1>2. Takes(w, x) /\ x \in Nat /\ (x = s.each \/ x >= Raise)
  <2>1. CASE s.each = 3
    <3>1. w = <<3>> /\ x = 3
      BY <2>1 DEF ContainedElement
    <3> QED
      BY <2>1, <3>1, Takes1 DEF Rest
  <2>2. CASE s.each = 2
    <3>1. w = <<2, Raise>> /\ x = 2 + Raise
      BY <2>2 DEF ContainedElement, Raise
    <3> QED
      BY <2>2, <3>1, Takes2 DEF Rest, Raise
  <2>3. CASE s.each = 0
    <3>1. w = <<0, Raise>> /\ x = 0 + Raise
      BY <2>3 DEF ContainedElement, Raise
    <3> QED
      BY <2>3, <3>1, Takes2 DEF Rest, Raise
  <2> QED
    BY <1>0, <2>1, <2>2, <2>3
<1>3. CASE ~ (s.length > 17) \/ s.count = 0
  <2>1. SystemEnclosure(s) = (front \o [i \in 1 .. 0 |-> Always(w)]) \o <<Over(21, <<1>>)>>
    <3>1. CASE ~ (s.length > 17)
      <4>1. SystemEnclosure(s)
              = (front \o [i \in 1 .. 0 |-> Always(w)]) \o <<Over(21 + 0 * 0, <<1>>)>>
        BY <1>0, <3>1 DEF SystemEnclosure
      <4> HIDE DEF front
      <4> QED
        BY <4>1
    <3>2. CASE s.length > 17 /\ s.count = 0
      <4>1. 21 + 0 * s.each = 21
        BY <1>0
      <4>2. SystemEnclosure(s)
              = (front \o [i \in 1 .. 0 |-> Always(w)]) \o <<Over(21 + 0 * s.each, <<1>>)>>
        BY <1>0, <3>2 DEF SystemEnclosure
      <4> HIDE DEF front
      <4> QED
        BY <4>1, <4>2
    <3> QED
      BY <1>0, <1>3, <3>1, <3>2
  <2>2. front \o <<>> = front
    <3>1. front \in Seq({front[1], front[2], front[3], front[4]})
      OBVIOUS
    <3> QED
      BY <3>1, ConcatEmptySeq
  <2>3. SystemEnclosure(s) = front \o <<Over(21, <<1>>)>>
    BY <2>1, <2>2, Alike
  <2>4. SystemEnclosure(s) = <<Always(<<1, 1, 1, 1, 1>>), Over(9, <<1, 1, 1, 1>>),
           Over(13, <<4>>), Over(17, <<1, 1, 1, 1>>), Over(21, <<1>>)>>
    BY <2>3, Joined41
  <2> QED
    BY <1>1, <2>4
<1>4. CASE s.length > 17 /\ s.count = 1
  <2>1. SystemEnclosure(s)
          = (front \o [i \in 1 .. 1 |-> Always(w)]) \o <<Over(21 + s.each, <<1>>)>>
    BY <1>0, <1>4 DEF SystemEnclosure
  <2> HIDE DEF w, x
  <2>2. SystemEnclosure(s) = <<Always(<<1, 1, 1, 1, 1>>), Over(9, <<1, 1, 1, 1>>),
           Over(13, <<4>>), Over(17, <<1, 1, 1, 1>>), Always(w)>> \o <<Over(21 + s.each, <<1>>)>>
    BY <2>1, Alike, Joined41
  <2>3. SystemEnclosure(s) = <<Always(<<1, 1, 1, 1, 1>>), Over(9, <<1, 1, 1, 1>>),
           Over(13, <<4>>), Over(17, <<1, 1, 1, 1>>), Always(w), Over(21 + s.each, <<1>>)>>
    BY <2>2, Joined51
  <2>4. s.length \in Nat /\ s.length >= 18 /\ s.length <= 255
        /\ s.each \in Nat /\ s.each <= 3
    BY <1>0, <1>4
  <2> DEFINE one == 21 + s.each
             two == 21 + 2 * s.each
  <2>5. one = 21 + s.each /\ two = 21 + 2 * s.each
    OBVIOUS
  <2> HIDE DEF one, two
  <2>6. Laid(<<Always(<<1, 1, 1, 1, 1>>), Over(9, <<1, 1, 1, 1>>), Over(13, <<4>>),
               Over(17, <<1, 1, 1, 1>>), Always(w), Over(one, <<1>>)>>,
             s.length, {}, {})
    BY ONLY <1>2, <2>4, <2>5, ElementsLaid
  <2> QED
    BY <2>3, <2>6 DEF one
<1>5. CASE s.length > 17 /\ s.count = 2
  <2>1. SystemEnclosure(s)
          = (front \o [i \in 1 .. 2 |-> Always(w)]) \o <<Over(21 + 2 * s.each, <<1>>)>>
    BY <1>0, <1>5 DEF SystemEnclosure
  <2> HIDE DEF w, x
  <2>2. SystemEnclosure(s) = <<Always(<<1, 1, 1, 1, 1>>), Over(9, <<1, 1, 1, 1>>),
           Over(13, <<4>>), Over(17, <<1, 1, 1, 1>>), Always(w), Always(w)>>
           \o <<Over(21 + 2 * s.each, <<1>>)>>
    BY <2>1, Alike, Joined42
  <2>3. SystemEnclosure(s) = <<Always(<<1, 1, 1, 1, 1>>), Over(9, <<1, 1, 1, 1>>),
           Over(13, <<4>>), Over(17, <<1, 1, 1, 1>>), Always(w), Always(w),
           Over(21 + 2 * s.each, <<1>>)>>
    BY <2>2, Joined61
  <2>4. s.length \in Nat /\ s.length >= 18 /\ s.length <= 255
        /\ s.each \in Nat /\ s.each <= 3
    BY <1>0, <1>5
  <2> DEFINE one == 21 + s.each
             two == 21 + 2 * s.each
  <2>5. one = 21 + s.each /\ two = 21 + 2 * s.each
    OBVIOUS
  <2> HIDE DEF one, two
  <2>6. Laid(<<Always(<<1, 1, 1, 1, 1>>), Over(9, <<1, 1, 1, 1>>), Over(13, <<4>>),
               Over(17, <<1, 1, 1, 1>>), Always(w), Always(w), Over(two, <<1>>)>>,
             s.length, {}, {})
    BY ONLY <1>2, <2>4, <2>5, ElementsLaid
  <2> QED
    BY <2>3, <2>6 DEF two
<1> QED
  BY <1>0, <1>3, <1>4, <1>5

\* Bodies all of whose groups are read.
LEMMA AllReadLaid ==
  ASSUME NEW g, NEW e, NEW n \in Nat, NEW length \in Nat, length > 22,
         Len(g) = n, DOMAIN g = 1 .. n, e[1] = 4, \A i \in 1 .. n + 1 : e[i] \in Nat,
         \A i \in 1 .. n : /\ g[i][1] \in Nat /\ g[i][1] <= 22
                           /\ g[i][1] = 0 \/ g[i][1] = e[i],
         \A i \in 1 .. n : Takes(g[i][2], e[i + 1] - e[i])
  PROVE  Laid(g, length, {}, {})
<1>1. \A i \in 1 .. n : g[i][1] \in Nat /\ length > g[i][1] /\ (g[i][1] = 0 \/ g[i][1] = e[i])
  OBVIOUS
<1>2. Stages(g, e)
  BY <1>1 DEF Stages
<1>3. InOrder(g, length)
  BY ONLY <1>1, Len(g) = n DEF InOrder
<1>4. NoneSkipped(g, e, length)
  BY ONLY <1>1, Len(g) = n, length \in Nat DEF NoneSkipped
<1>5. Guarded(g, e, length)
  BY ONLY <1>1, Len(g) = n, length \in Nat DEF Guarded
<1> QED
  BY ONLY <1>2, <1>3, <1>4, <1>5 DEF Laid

\* An event log that is long enough to have descriptors.
LEMMA SystemEventLogLaid ==
  ASSUME NEW s, Formatted(s), s.length > 22
  PROVE  Laid(SystemEventLog(s), s.length, {}, {})
<1>0. s.length \in Nat /\ s.length > 22 /\ s.count \in 0 .. 2
  BY DEF Formatted
<1>1. ASSUME NEW g, g = <<Always(<<2, 2, 2, 1, 1, 4, 4>>), Over(20, << 1 >>),
                          Over(21, << 1 >>), Over(22, << 1 >>)>>,
             NEW e, e = <<4, 20, 21, 22, 23>>
      PROVE  Laid(g, s.length, {}, {})
  <2>1. Len(g) = 4 /\ DOMAIN g = 1 .. 4 /\ e[1] = 4
    BY <1>1
  <2>2. \A i \in 1 .. 4 + 1 : e[i] \in Nat
    BY <1>1
  <2>3. \A i \in 1 .. 4 : /\ g[i][1] \in Nat /\ g[i][1] <= 22
                          /\ (g[i][1] = 0 \/ g[i][1] = e[i])
    BY <1>1 DEF Always, Over
  <2>4. \A i \in 1 .. 4 : Takes(g[i][2], e[i + 1] - e[i])
    <3>1. g[1][2] = <<2, 2, 2, 1, 1, 4, 4>> /\ e[2] - e[1] = 16
      BY <1>1 DEF Always, Over
    <3>2. g[2][2] = <<1>> /\ e[3] - e[2] = 1
      BY <1>1 DEF Always, Over
    <3>3. g[3][2] = <<1>> /\ e[4] - e[3] = 1
      BY <1>1 DEF Always, Over
    <3>4. g[4][2] = <<1>> /\ e[5] - e[4] = 1
      BY <1>1 DEF Always, Over
    <3>5. Takes(<<2, 2, 2, 1, 1, 4, 4>>, 16)
      BY TakesMany
    <3>6. Takes(<<1>>, 1)
      BY Takes1 DEF Rest
    <3>7. Takes(<<1>>, 1)
      BY Takes1 DEF Rest
    <3>8. Takes(<<1>>, 1)
      BY Takes1 DEF Rest
    <3> QED
      BY <3>1, <3>2, <3>3, <3>4, <3>5, <3>6, <3>7, <3>8
  <2> QED
    BY ONLY <1>0, <2>1, <2>2, <2>3, <2>4, AllReadLaid
<1>2. ASSUME NEW g, g = <<Always(<<2, 2, 2, 1, 1, 4, 4>>), Over(20, << 1 >>),
                          Over(21, << 1 >>), Over(22, << 1 >>),
                   Always(<<1, 1>>)>>,
             NEW e, e = <<4, 20, 21, 22, 23, 25>>
      PROVE  Laid(g, s.length, {}, {})
  <2>1. Len(g) = 5 /\ DOMAIN g = 1 .. 5 /\ e[1] = 4
    BY <1>2
  <2>2. \A i \in 1 .. 5 + 1 : e[i] \in Nat
    BY <1>2
  <2>3. \A i \in 1 .. 5 : /\ g[i][1] \in Nat /\ g[i][1] <= 22
                          /\ (g[i][1] = 0 \/ g[i][1] = e[i])
    BY <1>2 DEF Always, Over
  <2>4. \A i \in 1 .. 5 : Takes(g[i][2], e[i + 1] - e[i])
    <3>1. g[1][2] = <<2, 2, 2, 1, 1, 4, 4>> /\ e[2] - e[1] = 16
      BY <1>2 DEF Always, Over
    <3>2. g[2][2] = <<1>> /\ e[3] - e[2] = 1
      BY <1>2 DEF Always, Over
    <3>3. g[3][2] = <<1>> /\ e[4] - e[3] = 1
      BY <1>2 DEF Always, Over
    <3>4. g[4][2] = <<1>> /\ e[5] - e[4] = 1
      BY <1>2 DEF Always, Over
    <3>5. g[5][2] = <<1, 1>> /\ e[6] - e[5] = 2
      BY <1>2 DEF Always, Over
    <3>6. Takes(<<2, 2, 2, 1, 1, 4, 4>>, 16)
      BY TakesMany
    <3>7. Takes(<<1>>, 1)
      BY Takes1 DEF Rest
    <3>8. Takes(<<1>>, 1)
      BY Takes1 DEF Rest
    <3>9. Takes(<<1>>, 1)
      BY Takes1 DEF Rest
    <3>10. Takes(<<1, 1>>, 2)
      BY Takes2 DEF Rest
    <3> QED
      BY <3>1, <3>2, <3>3, <3>4, <3>5, <3>6, <3>7, <3>8, <3>9, <3>10
  <2> QED
    BY ONLY <1>0, <2>1, <2>2, <2>3, <2>4, AllReadLaid
<1>3. ASSUME NEW g, g = <<Always(<<2, 2, 2, 1, 1, 4, 4>>), Over(20, << 1 >>),
                          Over(21, << 1 >>), Over(22, << 1 >>),
                   Always(<<1, 1>>), Always(<<1, 1>>)>>,
             NEW e, e = <<4, 20, 21, 22, 23, 25, 27>>
      PROVE  Laid(g, s.length, {}, {})
  <2>1. Len(g) = 6 /\ DOMAIN g = 1 .. 6 /\ e[1] = 4
    BY <1>3
  <2>2. \A i \in 1 .. 6 + 1 : e[i] \in Nat
    BY <1>3
  <2>3. \A i \in 1 .. 6 : /\ g[i][1] \in Nat /\ g[i][1] <= 22
                          /\ (g[i][1] = 0 \/ g[i][1] = e[i])
    BY <1>3 DEF Always, Over
  <2>4. \A i \in 1 .. 6 : Takes(g[i][2], e[i + 1] - e[i])
    <3>1. g[1][2] = <<2, 2, 2, 1, 1, 4, 4>> /\ e[2] - e[1] = 16
      BY <1>3 DEF Always, Over
    <3>2. g[2][2] = <<1>> /\ e[3] - e[2] = 1
      BY <1>3 DEF Always, Over
    <3>3. g[3][2] = <<1>> /\ e[4] - e[3] = 1
      BY <1>3 DEF Always, Over
    <3>4. g[4][2] = <<1>> /\ e[5] - e[4] = 1
      BY <1>3 DEF Always, Over
    <3>5. g[5][2] = <<1, 1>> /\ e[6] - e[5] = 2
      BY <1>3 DEF Always, Over
    <3>6. g[6][2] = <<1, 1>> /\ e[7] - e[6] = 2
      BY <1>3 DEF Always, Over
    <3>7. Takes(<<2, 2, 2, 1, 1, 4, 4>>, 16)
      BY TakesMany
    <3>8. Takes(<<1>>, 1)
      BY Takes1 DEF Rest
    <3>9. Takes(<<1>>, 1)
      BY Takes1 DEF Rest
    <3>10. Takes(<<1>>, 1)
      BY Takes1 DEF Rest
    <3>11. Takes(<<1, 1>>, 2)
      BY Takes2 DEF Rest
    <3>12. Takes(<<1, 1>>, 2)
      BY Takes2 DEF Rest
    <3> QED
      BY <3>1, <3>2, <3>3, <3>4, <3>5, <3>6, <3>7, <3>8, <3>9, <3>10, <3>11, <3>12
  <2> QED
    BY ONLY <1>0, <2>1, <2>2, <2>3, <2>4, AllReadLaid
<1> DEFINE front == <<Always(<<2, 2, 2, 1, 1, 4, 4>>), Over(20, <<1>>), Over(21, <<1>>),
                      Over(22, <<1>>)>>
<1>4. SystemEventLog(s) = front \o [i \in 1 .. s.count |-> Always(<<1, 1>>)]
  BY <1>0 DEF SystemEventLog, EventLogDescriptor
<1>5. CASE s.count = 0
  <2>1. front \o <<>> = front
    <3>1. front \in Seq({front[1], front[2], front[3], front[4]})
      OBVIOUS
    <3> QED
      BY <3>1, ConcatEmptySeq
  <2>2. SystemEventLog(s) = front
    BY <1>4, <1>5, <2>1, Alike
  <2> QED
    BY <1>1, <2>2
<1>6. CASE s.count = 1
  <2>1. SystemEventLog(s) = <<Always(<<2, 2, 2, 1, 1, 4, 4>>), Over(20, <<1>>),
                              Over(21, <<1>>),
                              Over(22, <<1>>), Always(<<1, 1>>)>>
    BY <1>4, <1>6, Alike, Joined41
  <2> QED
    BY <1>2, <2>1
<1>7. CASE s.count = 2
  <2>1. SystemEventLog(s) = <<Always(<<2, 2, 2, 1, 1, 4, 4>>), Over(20, <<1>>),
                              Over(21, <<1>>),
                              Over(22, <<1>>), Always(<<1, 1>>), Always(<<1, 1>>)>>
    BY <1>4, <1>7, Alike, Joined42
  <2> QED
    BY <1>3, <2>1
<1> QED
  BY <1>0, <1>5, <1>6, <1>7

-----------------------------------------------------------------------------
(* What the classes that are laid like this read. *)

\* A body of fields ends with some byte, or with the window.
LEMMA UnpackedNat ==
  ASSUME NEW groups, Len(groups) \in Nat,
         \A i \in 1 .. Len(groups) : groups[i][2] \in Seq(Nat),
         NEW length \in Nat, NEW from \in Nat
  PROVE  Unpacked(groups, length, from).at \in Nat
<1> DEFINE n == Len(groups)
           t == Taken(groups, length)
<1>1. \A i \in 1 .. n : Len(groups[i][2]) \in Nat /\ Total(Known(groups[i][2])) \in Nat
  <2> TAKE i \in 1 .. n
  <2> DEFINE ws == groups[i][2]
             v == Known(ws)
  <2>1. ws \in Seq(Nat)
    OBVIOUS
  <2> HIDE DEF ws
  <2>2. Len(ws) \in Nat /\ \A k \in 1 .. Len(ws) : ws[k] \in Nat
    BY <2>1, LenProperties, ElementOfSeq
  <2>3. v \in [1 .. Len(ws) -> Nat]
    BY <2>2 DEF Known
  <2>4. v \in Seq(Nat)
    <3> HIDE DEF v
    <3> QED
      BY <2>2, <2>3, SeqDef
  <2>5. Total(v) \in Nat
    <3> HIDE DEF v
    <3> QED
      BY <2>4, TotalNat
  <2> QED
    BY <2>2, <2>5 DEF ws
<1>2. Total(t) \in Nat
  <2>1. t \in [1 .. n -> Nat]
    BY <1>1 DEF Taken
  <2> HIDE DEF t
  <2>2. t \in Seq(Nat)
    BY <2>1, SeqDef
  <2> QED
    BY <2>2, TotalNat
<1>3. Unpacked(groups, length, from)
        = [raised |-> from + Total(Taken(groups, length)) > length,
           at |-> IF \E i \in 1 .. Len(groups) : /\ length > groups[i][1]
                                                 /\ Contains(groups[i][2], Rest)
                  THEN length ELSE from + Total(Taken(groups, length))]
  BY <1>1, UnpackedIs
<1>4. from + Total(t) \in Nat
  BY <1>2
<1> HIDE DEF t
<1> QED
  BY <1>3, <1>4 DEF t

\* What the properties say of a body, for a structure of this length.
Complete(groups, length) ==
  ~ Unpacked(groups, length, 4).raised
    => \/ Unpacked(groups, length, 4).at = length
       \/ Unpacked(groups, length, 4).at = 4 + Total(Sizes(groups))

ToItsEnd(groups, length) ==
  (\E k \in 0 .. Len(Sizes(groups)) :
      /\ length = 4 + Total(SubSeq(Sizes(groups), 1, k))
      /\ \A j \in k + 1 .. Len(groups) : groups[j][1] # 0)
    => Unpacked(groups, length, 4).at = length /\ ~ Unpacked(groups, length, 4).raised

\* What a body read in its order is, where it loses no fields and has no wrong guard.
LEMMA LaidRead ==
  ASSUME NEW groups, NEW length \in Nat, NEW lost, NEW wrong, Laid(groups, length, lost, wrong)
  PROVE  /\ Unpacked(groups, length, 4).at \in Nat
         /\ length \notin lost => Complete(groups, length)
         /\ length \notin wrong => ToItsEnd(groups, length)
<1>1. PICK ends : /\ Stages(groups, ends)
                  /\ length \notin lost
                       => InOrder(groups, length) /\ NoneSkipped(groups, ends, length)
                  /\ length \notin wrong => Guarded(groups, ends, length)
  BY DEF Laid
<1>2. Unpacked(groups, length, 4).at \in Nat
  <2>1. Len(groups) \in Nat /\ \A i \in 1 .. Len(groups) : groups[i][2] \in Seq(Nat)
    BY <1>1 DEF Stages, Takes
  <2> QED
    BY <2>1, UnpackedNat
<1>3. /\ Len(Sizes(groups)) = Len(groups) /\ 4 + Total(Sizes(groups)) = ends[Len(groups) + 1]
      /\ \A k \in 0 .. Len(groups) : 4 + Total(SubSeq(Sizes(groups), 1, k)) = ends[k + 1]
  BY <1>1, FieldsEnd
<1>4. length \notin lost => Complete(groups, length)
  <2>1. length \notin lost => ReadInOrder(groups, ends, length)
    BY <1>1, OrderRead
  <2> QED
    BY <1>1, <1>3, <2>1, StagesRead DEF Complete
<1>5. length \notin wrong => ToItsEnd(groups, length)
  <2>1. length \notin wrong => ReadToItsEnd(groups, ends, length)
    BY <1>1, GuardedRead
  <2> QED
    BY <1>1, <1>3, <2>1, StagesRead DEF ToItsEnd
<1> QED
  BY <1>2, <1>4, <1>5
=============================================================================
