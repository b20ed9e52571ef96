---------------------------- MODULE FoldTheorems -----------------------------
(***************************************************************************)
(* What a fold of a sequence from the left comes to, for every operator.   *)
(* The operator is a constant of this module and not of its theorems:      *)
(* instances of the module are the theorems for one operator each.  Its    *)
(* first argument is what the folded operation depends on besides the      *)
(* result so far and the element.                                          *)
(***************************************************************************)
EXTENDS Integers, Sequences, SequencesExt, SequenceTheorems, WellFoundedInduction, TLAPS

CONSTANTS Op(_, _, _), Base

Fold(c, s) == FoldLeft(LAMBDA a, b : Op(c, a, b), Base, s)

\* What FoldLeft chooses: a function of the sets of the indices of s.
Folds_(g, c, s, D) ==
  g = [t \in D |-> IF t = {} THEN Base ELSE Op(c, g[t \ {Max(t)}], s[Max(t)])]

\* A set that holds 0 and with each number the next one holds all numbers.
LEMMA AllNumbers ==
  ASSUME NEW A, 0 \in A, \A n \in Nat : n \in A => n + 1 \in A
  PROVE  Nat \subseteq A
<1> DEFINE Rest == Nat \ A
<1>1. SUFFICES ASSUME Rest # {}
               PROVE  FALSE
  OBVIOUS
<1>2. PICK x \in Rest : \A y \in Rest : ~(<<y, x>> \in OpToRel(<, Nat))
  <2>1. Rest \subseteq Nat
    OBVIOUS
  <2> HIDE DEF Rest
  <2> QED
    BY <1>1, <2>1, WFMin, NatLessThanWellFounded
<1>3. \A y \in Rest : ~(y < x)
  BY <1>2 DEF OpToRel
<1>4. x - 1 \in Nat
  OBVIOUS
<1>5. x - 1 \in A
  BY <1>3, <1>4
<1> QED
  BY <1>4, <1>5

\* The same for sequences, which grow by one element.
LEMMA AllSequences ==
  ASSUME NEW T, NEW A, <<>> \in A,
         \A s \in Seq(T), x \in T : s \in A => Append(s, x) \in A
  PROVE  Seq(T) \subseteq A
<1> DEFINE B == {n \in Nat : \A s \in Seq(T) : Len(s) = n => s \in A}
<1>1. 0 \in B
  <2>1. \A s \in Seq(T) : Len(s) = 0 => s = <<>>
    BY EmptySeq
  <2> QED
    BY <2>1
<1>2. ASSUME NEW n \in Nat, n \in B
      PROVE  n + 1 \in B
  <2> SUFFICES ASSUME NEW s \in Seq(T), Len(s) = n + 1
               PROVE  s \in A
    OBVIOUS
  <2> DEFINE f == SubSeq(s, 1, n)
  <2>1. \A i \in 1..(n + 1) : s[i] \in T
    BY ElementOfSeq
  <2>2. f \in Seq(T) /\ Len(f) = n /\ \A i \in 1..n : f[i] = s[i]
    BY <2>1, SubSeqProperties
  <2>3. s[n + 1] \in T
    BY <2>1
  <2> HIDE DEF f
  <2>4. Append(f, s[n + 1]) \in A
    BY <1>2, <2>2, <2>3
  <2>5. Append(f, s[n + 1]) = s
    BY <2>2, <2>3, AppendProperties, SeqEqual
  <2> QED
    BY <2>4, <2>5
<1>3. Nat \subseteq B
  <2> HIDE DEF B
  <2> QED
    BY <1>1, <1>2, AllNumbers
<1> QED
  <2> SUFFICES ASSUME NEW s \in Seq(T)
               PROVE  s \in A
    OBVIOUS
  <2>1. Len(s) \in Nat
    OBVIOUS
  <2> QED
    BY <1>3, <2>1

\* The greatest of some of the numbers up to n.
LEMMA Greatest ==
  ASSUME NEW n \in Nat, NEW t \in SUBSET (0..n), t # {}
  PROVE  /\ Max(t) \in t /\ \A y \in t : Max(t) >= y
         /\ \A k \in Nat : t \subseteq 1..(k + 1) => t \ {Max(t)} \subseteq 1..k
<1> DEFINE B == {m \in Nat : \A u \in SUBSET (0..m) :
                               u # {} => \E x \in u : \A y \in u : x >= y}
<1>1. 0 \in B
  <2>1. \A y \in 0..0 : y = 0
    OBVIOUS
  <2>2. ASSUME NEW u \in SUBSET (0..0), u # {}
        PROVE  \E x \in u : \A y \in u : x >= y
    <3>1. PICK x \in u : TRUE
      BY <2>2
    <3>2. x = 0 /\ \A y \in u : y = 0
      BY <2>1
    <3> QED
      BY <3>1, <3>2
  <2> QED
    BY <2>2
<1>2. ASSUME NEW m \in Nat, m \in B
      PROVE  m + 1 \in B
  <2> SUFFICES ASSUME NEW u \in SUBSET (0..(m + 1)), u # {}
               PROVE  \E x \in u : \A y \in u : x >= y
    OBVIOUS
  <2>1. CASE m + 1 \in u
    BY <2>1
  <2>2. CASE m + 1 \notin u
    <3>1. u \in SUBSET (0..m)
      BY <2>2
    <3> QED
      BY <1>2, <3>1
  <2> QED
    BY <2>1, <2>2
<1>3. n \in B
  <2> HIDE DEF B
  <2> QED
    BY <1>1, <1>2, AllNumbers
<1>4. \E x \in t : \A y \in t : x >= y
  BY <1>3
<1>5. Max(t) \in t /\ \A y \in t : Max(t) >= y
  BY <1>4 DEF Max
<1>6. ASSUME NEW k \in Nat, t \subseteq 1..(k + 1), NEW y \in t, y # Max(t)
      PROVE  y \in 1..k
  <2>1. Max(t) \in 1..(k + 1) /\ y \in 1..(k + 1) /\ Max(t) >= y
    BY <1>5, <1>6
  <2> QED
    BY <1>6, <2>1
<1> QED
  BY <1>5, <1>6

\* Such a function exists.
LEMMA FoldExists ==
  ASSUME NEW c, NEW s, NEW n \in Nat
  PROVE  \E g : Folds_(g, c, s, SUBSET (1..n))
<1> DEFINE B == {m \in Nat : \E g : Folds_(g, c, s, SUBSET (1..m))}
<1>1. 0 \in B
  <2> DEFINE g == [t \in SUBSET (1..0) |-> Base]
  <2>1. \A t \in SUBSET (1..0) : t = {}
    OBVIOUS
  <2>2. Folds_(g, c, s, SUBSET (1..0))
    BY <2>1 DEF Folds_
  <2> QED
    BY <2>2
<1>2. ASSUME NEW m \in Nat, m \in B
      PROVE  m + 1 \in B
  <2>1. PICK g : Folds_(g, c, s, SUBSET (1..m))
    BY <1>2
  <2> DEFINE D == SUBSET (1..(m + 1))
             val(f, t) == IF t = {} THEN Base ELSE Op(c, f[t \ {Max(t)}], s[Max(t)])
             h == [t \in D |-> val(g, t)]
  <2>2. \A t \in SUBSET (1..m) : g[t] = val(g, t)
    BY <2>1 DEF Folds_
  <2>3. \A t \in SUBSET (1..m) : h[t] = g[t]
    <3>1. \A t \in SUBSET (1..m) : t \in D
      OBVIOUS
    <3> QED
      BY <2>2, <3>1
  <2>4. \A t \in D : t # {} => t \ {Max(t)} \in SUBSET (1..m)
    <3> SUFFICES ASSUME NEW t \in D, t # {}
                 PROVE  t \ {Max(t)} \subseteq 1..m
      OBVIOUS
    <3>1. m + 1 \in Nat /\ t \in SUBSET (0..(m + 1)) /\ t \subseteq 1..(m + 1)
      OBVIOUS
    <3> QED
      BY <3>1, Greatest
  <2>5. \A t \in D : val(g, t) = val(h, t)
    <3> HIDE DEF D, h
    <3> QED
      BY <2>3, <2>4
  <2>6. h = [t \in D |-> val(h, t)]
    <3>1. \A f : (\A t \in D : val(g, t) = val(f, t))
                   => [t \in D |-> val(g, t)] = [t \in D |-> val(f, t)]
      OBVIOUS
    <3>2. h = [t \in D |-> val(g, t)]
      OBVIOUS
    <3> HIDE DEF h, D, val
    <3> QED
      BY <2>5, <3>1, <3>2
  <2>7. Folds_(h, c, s, D)
    BY <2>6 DEF Folds_
  <2> QED
    BY <2>7
<1>3. n \in B
  <2> HIDE DEF B
  <2> QED
    BY <1>1, <1>2, AllNumbers
<1> QED
  BY <1>3

\* FoldLeft is such a function, at the set of all indices.
LEMMA FoldChosen ==
  ASSUME NEW c, NEW T, NEW s \in Seq(T)
  PROVE  \E g : /\ Folds_(g, c, s, SUBSET (1..Len(s)))
                /\ Fold(c, s) = g[1..Len(s)]
<1> DEFINE g == CHOOSE g : Folds_(g, c, s, SUBSET (1..Len(s)))
<1>1. Folds_(g, c, s, SUBSET (1..Len(s)))
  <2>1. Len(s) \in Nat
    OBVIOUS
  <2>2. \E f : Folds_(f, c, s, SUBSET (1..Len(s)))
    BY <2>1, FoldExists
  <2> QED
    BY <2>2
<1>2. DOMAIN s = 1..Len(s)
  OBVIOUS
<1>3. Fold(c, s) = g[1..Len(s)]
  BY <1>2 DEF Fold, FoldLeft, MapThenFoldSet, Folds_
<1> QED
  BY <1>1, <1>3

\* Nothing to fold.
LEMMA FoldEmpty == \A c : Fold(c, <<>>) = Base
<1> SUFFICES ASSUME NEW c
             PROVE  Fold(c, <<>>) = Base
  OBVIOUS
<1>1. <<>> \in Seq({}) /\ Len(<<>>) = 0
  OBVIOUS
<1>2. PICK g : /\ Folds_(g, c, <<>>, SUBSET (1..Len(<<>>)))
               /\ Fold(c, <<>>) = g[1..Len(<<>>)]
  BY <1>1, FoldChosen
<1>3. 1..Len(<<>>) = {}
  BY <1>1
<1> QED
  BY <1>2, <1>3 DEF Folds_

\* The last element is folded last.
LEMMA FoldAppend ==
  ASSUME NEW c, NEW T, NEW s \in Seq(T), NEW x \in T
  PROVE  Fold(c, Append(s, x)) = Op(c, Fold(c, s), x)
<1> DEFINE n == Len(s)
           a == Append(s, x)
<1>1. /\ a \in Seq(T) /\ Len(a) = n + 1 /\ n \in Nat
      /\ a[n + 1] = x /\ \A i \in 1..n : a[i] = s[i]
  BY AppendProperties
<1> HIDE DEF a
<1>2. PICK g : Folds_(g, c, s, SUBSET (1..n)) /\ Fold(c, s) = g[1..n]
  BY FoldChosen
<1>3. PICK h : Folds_(h, c, a, SUBSET (1..(n + 1))) /\ Fold(c, a) = h[1..(n + 1)]
  BY <1>1, FoldChosen
<1> HIDE DEF n
<1> DEFINE B == {m \in Nat : m <= n => h[1..m] = g[1..m]}
<1>4. \A m \in Nat : 1..(m + 1) # {} /\ Max(1..(m + 1)) = m + 1
                      /\ (1..(m + 1)) \ {m + 1} = 1..m
  <2> SUFFICES ASSUME NEW m \in Nat
               PROVE  1..(m + 1) # {} /\ Max(1..(m + 1)) = m + 1
                      /\ (1..(m + 1)) \ {m + 1} = 1..m
    OBVIOUS
  <2>1. m + 1 \in 1..(m + 1) /\ \A y \in 1..(m + 1) : m + 1 >= y
    OBVIOUS
  <2>2. Max(1..(m + 1)) \in 1..(m + 1) /\ Max(1..(m + 1)) >= m + 1
    BY <2>1 DEF Max
  <2> QED
    BY <2>1, <2>2
<1>5. \A m \in Nat : m <= n =>
        /\ h[1..(m + 1)] = Op(c, h[1..m], a[m + 1])
        /\ m + 1 <= n => g[1..(m + 1)] = Op(c, g[1..m], s[m + 1])
  <2> SUFFICES ASSUME NEW m \in Nat, m <= n
               PROVE  /\ h[1..(m + 1)] = Op(c, h[1..m], a[m + 1])
                      /\ m + 1 <= n => g[1..(m + 1)] = Op(c, g[1..m], s[m + 1])
    OBVIOUS
  <2>1. 1..(m + 1) \in SUBSET (1..(n + 1))
    BY <1>1
  <2>2. m + 1 <= n => 1..(m + 1) \in SUBSET (1..n)
    BY <1>1
  <2>3. h[1..(m + 1)] = Op(c, h[1..m], a[m + 1])
    <3>1. \A t \in SUBSET (1..(n + 1)) :
            t # {} => h[t] = Op(c, h[t \ {Max(t)}], a[Max(t)])
      BY <1>3 DEF Folds_
    <3> QED
      BY <1>4, <2>1, <3>1
  <2>4. m + 1 <= n => g[1..(m + 1)] = Op(c, g[1..m], s[m + 1])
    <3>1. \A t \in SUBSET (1..n) :
            t # {} => g[t] = Op(c, g[t \ {Max(t)}], s[Max(t)])
      BY <1>2 DEF Folds_
    <3> QED
      BY <1>4, <2>2, <3>1
  <2> QED
    BY <2>3, <2>4
<1>6. 0 \in B
  <2>1. 1..0 = {} /\ {} \in SUBSET (1..n) /\ {} \in SUBSET (1..(n + 1))
    OBVIOUS
  <2>2. g[{}] = Base
    BY <1>2, <2>1 DEF Folds_
  <2>3. h[{}] = Base
    BY <1>3, <2>1 DEF Folds_
  <2> QED
    BY <2>1, <2>2, <2>3
<1>7. ASSUME NEW m \in Nat, m \in B
      PROVE  m + 1 \in B
  <2> SUFFICES ASSUME m + 1 <= n
               PROVE  h[1..(m + 1)] = g[1..(m + 1)]
    OBVIOUS
  <2>1. m <= n /\ a[m + 1] = s[m + 1]
    BY <1>1
  <2> QED
    BY <1>5, <1>7, <2>1
<1>8. h[1..n] = g[1..n]
  <2>1. Nat \subseteq B
    <3> HIDE DEF B
    <3> QED
      BY <1>6, <1>7, AllNumbers
  <2> QED
    BY <1>1, <2>1
<1>9. h[1..(n + 1)] = Op(c, h[1..n], a[n + 1])
  BY <1>1, <1>5
<1> QED
  BY <1>1, <1>2, <1>3, <1>8, <1>9 DEF a

\* What holds of the base and is kept by the operation holds of the result.
LEMMA FoldStays ==
  ASSUME NEW c, NEW T, NEW R, Base \in R, \A a \in R, x \in T : Op(c, a, x) \in R
  PROVE  \A s \in Seq(T) : Fold(c, s) \in R
<1> DEFINE A == {s \in Seq(T) : Fold(c, s) \in R}
<1>1. <<>> \in A
  BY FoldEmpty
<1>2. \A s \in Seq(T), x \in T : s \in A => Append(s, x) \in A
  BY FoldAppend, AppendProperties
<1>3. Seq(T) \subseteq A
  <2> HIDE DEF A
  <2> QED
    BY <1>1, <1>2, AllSequences
<1> QED
  BY <1>3
=============================================================================
