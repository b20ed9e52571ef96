---------------------------- MODULE AnswersProofs -----------------------------
(***************************************************************************)
(* Theorems about the planners and the advisors of Analysis, which answer  *)
(* from data of any length: what sums, the line of least squares and the   *)
(* k-th smallest of a list come to, and from that why the forecasts agree  *)
(* and neither plans nor advice contradict themselves.                     *)
(***************************************************************************)
EXTENDS Analysis, SequenceTheorems, FiniteSetTheorems, TLAPS

Adding == INSTANCE FoldTheorems WITH Op <- LAMBDA c, a, x : a + x, Base <- 0
Sum(s) == Adding!Fold(0, s)

\* An element that is appended is added.
LEMMA SumAppend ==
  ASSUME NEW s \in Seq(Int), NEW x \in Int
  PROVE  Sum(Append(s, x)) = Sum(s) + x
BY Adding!FoldAppend DEF Sum

\* A sum is a number, that of nothing 0.
LEMMA SumTyped == Sum(<<>>) = 0 /\ \A s \in Seq(Int) : Sum(s) \in Int
<1>1. Sum(<<>>) = 0
  BY Adding!FoldEmpty DEF Sum
<1>2. \A s \in Seq(Int) : Sum(s) \in Int
  BY Adding!FoldStays DEF Sum
<1> QED
  BY <1>1, <1>2

\* Adding up the elements of s, p[k] is what the first k come to.
AddsUp(p, s) ==
  /\ p \in [0..Len(s) -> Int] /\ p[0] = 0 /\ p[Len(s)] = Sum(s)
  /\ \A k \in 0..(Len(s) - 1) : p[k + 1] = p[k] + s[k + 1]

\* The first k elements come to something, for each k.
LEMMA PartialSums ==
  ASSUME NEW s \in Seq(Int)
  PROVE  \E p : AddsUp(p, s)
<1> DEFINE n == Len(s)
           first(k) == Sum(SubSeq(s, 1, k))
           p == [k \in 0..n |-> first(k)]
<1>0. n \in Nat /\ \A i \in 1..n : s[i] \in Int
  BY ElementOfSeq
<1>1. ASSUME NEW k \in 0..n
      PROVE  /\ SubSeq(s, 1, k) \in Seq(Int) /\ Len(SubSeq(s, 1, k)) = k
             /\ \A i \in 1..k : SubSeq(s, 1, k)[i] = s[i]
  BY <1>0, SubSeqProperties
<1>2. \A k \in 0..n : first(k) \in Int
  BY <1>1, SumTyped
<1>3. SubSeq(s, 1, 0) = <<>>
  <2>1. SubSeq(s, 1, 0) \in Seq(Int) /\ Len(SubSeq(s, 1, 0)) = 0
    BY <1>0, <1>1
  <2> QED
    BY <2>1, EmptySeq
<1>4. SubSeq(s, 1, n) = s
  <2>1. /\ SubSeq(s, 1, n) \in Seq(Int) /\ Len(SubSeq(s, 1, n)) = n
        /\ \A i \in 1..n : SubSeq(s, 1, n)[i] = s[i]
    BY <1>0, <1>1
  <2> QED
    BY <2>1, SeqEqual
<1>5. ASSUME NEW k \in 0..(n - 1)
      PROVE  Sum(SubSeq(s, 1, k + 1)) = Sum(SubSeq(s, 1, k)) + s[k + 1]
  <2> DEFINE a == SubSeq(s, 1, k)
             b == SubSeq(s, 1, k + 1)
  <2>1. k \in 0..n /\ k + 1 \in 0..n /\ s[k + 1] \in Int
    BY <1>0
  <2>2. a \in Seq(Int) /\ Len(a) = k /\ \A i \in 1..k : a[i] = s[i]
    BY <1>1, <2>1
  <2>3. b \in Seq(Int) /\ Len(b) = k + 1 /\ \A i \in 1..(k + 1) : b[i] = s[i]
    BY <1>1, <2>1
  <2> HIDE DEF a, b
  <2>4. /\ Append(a, s[k + 1]) \in Seq(Int) /\ Len(Append(a, s[k + 1])) = k + 1
        /\ \A i \in 1..k : Append(a, s[k + 1])[i] = a[i]
        /\ Append(a, s[k + 1])[k + 1] = s[k + 1]
    BY <2>1, <2>2, AppendProperties
  <2>5. ASSUME NEW i \in 1..(k + 1)
        PROVE  Append(a, s[k + 1])[i] = b[i]
    <3>1. CASE i = k + 1
      BY <2>3, <2>4, <3>1
    <3>2. CASE i \in 1..k
      BY <2>2, <2>3, <2>4, <3>2
    <3>3. i = k + 1 \/ i \in 1..k
      BY <1>0
    <3> QED
      BY <3>1, <3>2, <3>3
  <2>6. Append(a, s[k + 1]) = b
    BY <2>3, <2>4, <2>5, SeqEqual
  <2>7. Sum(Append(a, s[k + 1])) = Sum(a) + s[k + 1]
    BY <2>1, <2>2, SumAppend
  <2> QED
    BY <2>6, <2>7 DEF a, b
<1>6. first(0) = 0 /\ first(n) = Sum(s)
  BY <1>3, <1>4, SumTyped
<1>7. \A k \in 0..(n - 1) : first(k + 1) = first(k) + s[k + 1]
  BY <1>5
<1> HIDE DEF first
<1>8. p \in [0..n -> Int] /\ \A k \in 0..n : p[k] = first(k)
  BY <1>2
<1>9. 0 \in 0..n /\ n \in 0..n /\ \A k \in 0..(n - 1) : k \in 0..n /\ k + 1 \in 0..n
  BY <1>0
<1> HIDE DEF p
<1>10. AddsUp(p, s)
  BY <1>0, <1>6, <1>7, <1>8, <1>9 DEF AddsUp
<1> QED
  BY <1>10

\* What bounds the elements bounds the sums.
Bounded(s, t, r, a, b, c, d) ==
  /\ Len(t) = Len(s) /\ Len(r) = Len(s)
  /\ \A i \in 1..Len(s) : a * s[i] <= b * t[i] + d * r[i] + c

\* So is what they add up to.
LEMMA SumsBounded ==
  ASSUME NEW s \in Seq(Int), NEW t \in Seq(Int), NEW r \in Seq(Int),
         NEW a \in Int, NEW b \in Int, NEW c \in Int, NEW d \in Int,
         Bounded(s, t, r, a, b, c, d)
  PROVE  a * Sum(s) <= b * Sum(t) + d * Sum(r) + Len(s) * c
<1> DEFINE n == Len(s)
<1>0. /\ n \in Nat /\ Len(t) = n /\ Len(r) = n
      /\ \A i \in 1..n : /\ s[i] \in Int /\ t[i] \in Int /\ r[i] \in Int
                         /\ a * s[i] <= b * t[i] + d * r[i] + c
  BY ElementOfSeq DEF Bounded
<1>1. PICK p : AddsUp(p, s)
  BY PartialSums
<1>2. PICK q : AddsUp(q, t)
  BY PartialSums
<1>3. PICK o : AddsUp(o, r)
  BY PartialSums
<1> DEFINE A == {k \in Nat : k <= n => a * p[k] <= b * q[k] + d * o[k] + k * c}
<1>4. 0 \in A
  <2>1. p[0] = 0 /\ q[0] = 0 /\ o[0] = 0
    BY <1>1, <1>2, <1>3 DEF AddsUp
  <2>2. a * 0 <= b * 0 + d * 0 + 0 * c
    OBVIOUS
  <2> QED
    BY <2>1, <2>2
<1>5. ASSUME NEW k \in Nat, k \in A
      PROVE  k + 1 \in A
  <2> SUFFICES ASSUME k + 1 <= n
               PROVE  a * p[k + 1] <= b * q[k + 1] + d * o[k + 1] + (k + 1) * c
    OBVIOUS
  <2>1. k \in 0..(n - 1) /\ k \in 0..n /\ k + 1 \in 1..n
    BY <1>0
  <2>2. /\ p[k] \in Int /\ p[k + 1] = p[k] + s[k + 1]
        /\ q[k] \in Int /\ q[k + 1] = q[k] + t[k + 1]
        /\ o[k] \in Int /\ o[k + 1] = o[k] + r[k + 1]
    BY <1>0, <1>1, <1>2, <1>3, <2>1 DEF AddsUp
  <2>3. /\ s[k + 1] \in Int /\ t[k + 1] \in Int /\ r[k + 1] \in Int
        /\ a * s[k + 1] <= b * t[k + 1] + d * r[k + 1] + c
    BY <1>0, <2>1
  <2>4. a * p[k] <= b * q[k] + d * o[k] + k * c
    BY <1>0, <1>5, <2>1
  <2>5. \A x, y, z, u, v, w \in Int :
          a * x <= b * y + d * z + k * c /\ a * u <= b * v + d * w + c
          => a * (x + u) <= b * (y + v) + d * (z + w) + (k + 1) * c
    OBVIOUS
  <2>6. a * (p[k] + s[k + 1])
          <= b * (q[k] + t[k + 1]) + d * (o[k] + r[k + 1]) + (k + 1) * c
    BY <2>2, <2>3, <2>4, <2>5, Zenon
  <2> QED
    BY <2>2, <2>6, Zenon
<1>6. n \in A
  <2> HIDE DEF A
  <2> QED
    BY <1>0, <1>4, <1>5, Adding!AllNumbers
<1>7. p[n] = Sum(s) /\ q[n] = Sum(t) /\ o[n] = Sum(r)
  BY <1>0, <1>1, <1>2, <1>3 DEF AddsUp
<1> QED
  BY <1>0, <1>6, <1>7

\* What the elements are made of the sums are made of.
Linear(s, t, r, a, b, c, d) ==
  /\ Len(t) = Len(s) /\ Len(r) = Len(s)
  /\ \A i \in 1..Len(s) : a * s[i] = b * t[i] + d * r[i] + c

\* In the same proportions.
LEMMA SumsLinear ==
  ASSUME NEW s \in Seq(Int), NEW t \in Seq(Int), NEW r \in Seq(Int),
         NEW a \in Int, NEW b \in Int, NEW c \in Int, NEW d \in Int,
         Linear(s, t, r, a, b, c, d)
  PROVE  a * Sum(s) = b * Sum(t) + d * Sum(r) + Len(s) * c
<1>0. /\ Len(s) \in Nat /\ Len(t) = Len(s) /\ Len(r) = Len(s)
      /\ Sum(s) \in Int /\ Sum(t) \in Int /\ Sum(r) \in Int
      /\ \A i \in 1..Len(s) : /\ s[i] \in Int /\ t[i] \in Int /\ r[i] \in Int
                              /\ a * s[i] = b * t[i] + d * r[i] + c
  BY SumTyped, ElementOfSeq DEF Linear
<1>1. \A x, y, z \in Int : a * x = b * y + d * z + c
        => /\ a * x <= b * y + d * z + c
           /\ (-a) * x <= (-b) * y + (-d) * z + (-c)
  OBVIOUS
<1>2. Bounded(s, t, r, a, b, c, d)
  BY <1>0, <1>1 DEF Bounded
<1>3. Bounded(s, t, r, -a, -b, -c, -d)
  BY <1>0, <1>1 DEF Bounded
<1>4. a * Sum(s) <= b * Sum(t) + d * Sum(r) + Len(s) * c
  BY <1>2, SumsBounded
<1>5. -a \in Int /\ -b \in Int /\ -c \in Int /\ -d \in Int
  OBVIOUS
<1>6. (-a) * Sum(s) <= (-b) * Sum(t) + (-d) * Sum(r) + Len(s) * (-c)
  BY <1>3, <1>5, SumsBounded
<1>7. PICK x \in Int, y \in Int, z \in Int, n \in Int :
        x = Sum(s) /\ y = Sum(t) /\ z = Sum(r) /\ n = Len(s)
  BY <1>0
<1>8. a * x <= b * y + d * z + n * c /\ (-a) * x <= (-b) * y + (-d) * z + n * (-c)
  BY <1>4, <1>6, <1>7
<1>9. a * x = b * y + d * z + n * c
  BY <1>8
<1> QED
  BY <1>7, <1>9

\* The elements of two sequences add up together.
LEMMA SumConcat ==
  ASSUME NEW s \in Seq(Int), NEW t \in Seq(Int)
  PROVE  Sum(s \o t) = Sum(s) + Sum(t)
<1> DEFINE A == {u \in Seq(Int) : Sum(s \o u) = Sum(s) + Sum(u)}
<1>1. <<>> \in A
  <2>1. s \o <<>> = s
    OBVIOUS
  <2>2. <<>> \in Seq(Int)
    OBVIOUS
  <2> QED
    BY <2>1, <2>2, SumTyped
<1>2. ASSUME NEW u \in Seq(Int), NEW x \in Int, u \in A
      PROVE  Append(u, x) \in A
  <2>1. s \o u \in Seq(Int) /\ Append(u, x) \in Seq(Int)
    OBVIOUS
  <2>2. s \o Append(u, x) = Append(s \o u, x)
    OBVIOUS
  <2>3. Sum(Append(s \o u, x)) = Sum(s \o u) + x /\ Sum(Append(u, x)) = Sum(u) + x
    BY <2>1, SumAppend
  <2>4. Sum(s) \in Int /\ Sum(u) \in Int /\ Sum(s \o u) = Sum(s) + Sum(u)
    BY <1>2, SumTyped
  <2>5. Sum(s \o Append(u, x)) = Sum(s) + Sum(Append(u, x))
    BY <2>2, <2>3, <2>4
  <2> QED
    BY <2>1, <2>5
<1>3. Seq(Int) \subseteq A
  <2> HIDE DEF A
  <2> QED
    BY <1>1, <1>2, Adding!AllSequences
<1> QED
  BY <1>3

\* What (x - v) * (y - z) comes to, added up over the pairs v, z whose sums are
\* c and d and whose products add up to q; and how far the products are ahead.
Area(x, v, y, z) == (x - v) * (y - z)
Gap(k, q, c, d, x, y) == q - c * y - x * d + k * x * y
Lead(k, q, c, d) == k * q - c * d

\* Areas are numbers, and those of the pairs before a pair are not negative.
LEMMA Areas ==
  ASSUME NEW x \in Int, NEW v \in Int, NEW y \in Int, NEW z \in Int
  PROVE  /\ Area(x, v, y, z) \in Int
         /\ v <= x /\ z <= y => Area(x, v, y, z) >= 0
         /\ v < x /\ z < y => Area(x, v, y, z) > 0
         /\ v = x => Area(x, v, y, z) = 0
<1>1. PICK c \in Int, d \in Int : c = x - v /\ d = y - z
  OBVIOUS
<1>2. c >= 0 /\ d >= 0 => c * d >= 0
  OBVIOUS
<1>3. c > 0 /\ d > 0 => c * d > 0
  OBVIOUS
<1>4. c = 0 => c * d = 0
  OBVIOUS
<1>5. Area(x, v, y, z) = c * d /\ c * d \in Int
  BY <1>1 DEF Area
<1> QED
  BY <1>1, <1>2, <1>3, <1>4, <1>5

\* Before the first pair.
LEMMA GapStarts ==
  /\ \A k \in Nat, q, c, d \in Int : Lead(k, q, c, d) \in Int
  /\ \A k \in Nat, q, c, d, x, y \in Int : Gap(k, q, c, d, x, y) \in Int
  /\ Lead(0, 0, 0, 0) = 0 /\ \A x, y \in Int : Gap(0, 0, 0, 0, x, y) = 0
BY DEF Gap, Lead

\* With one pair more.
LEMMA GapGrows ==
  \A k, q, c, d, v, z, x, y :
    (k \in Nat /\ q \in Int /\ c \in Int /\ d \in Int /\ v \in Int /\ z \in Int
       /\ x \in Int /\ y \in Int)
    => Gap(k + 1, q + v * z, c + v, d + z, x, y) = Gap(k, q, c, d, x, y) + Area(x, v, y, z)
BY DEF Area, Gap

\* The lead grows by what the next pair adds to it.
LEMMA LeadGrows ==
  \A k, q, c, d, v, z :
    (k \in Nat /\ q \in Int /\ c \in Int /\ d \in Int /\ v \in Int /\ z \in Int)
    => Lead(k + 1, q + v * z, c + v, d + z) = Lead(k, q, c, d) + Gap(k, q, c, d, v, z)
BY DEF Gap, Lead

\* The first n pairs of t and u rise together; a, b and p are their sums and that
\* of their products.
Rises(s, n) == \A j \in 1..n : \A i \in 1..j : s[i] <= s[j]
Products(w, t, u, n) == \A i \in 1..n : w[i] = t[i] * u[i]
RisingPairs(n, t, u, a, b, p) ==
  /\ \A i \in 1..n : t[i] \in Int /\ u[i] \in Int
  /\ \A k \in 0..n : a[k] \in Int /\ b[k] \in Int /\ p[k] \in Int
  /\ \A k \in 0..(n - 1) : /\ a[k + 1] = a[k] + t[k + 1]
                           /\ b[k + 1] = b[k] + u[k + 1]
                           /\ p[k + 1] = p[k] + t[k + 1] * u[k + 1]
  /\ a[0] = 0 /\ b[0] = 0 /\ p[0] = 0
  /\ Rises(t, n) /\ Rises(u, n)

\* The lead of n pairs is at least the area between the first and the last.
LEMMA PairsLead ==
  ASSUME NEW n \in Nat, n >= 1, NEW t, NEW u, NEW a, NEW b, NEW p,
         RisingPairs(n, t, u, a, b, p)
  PROVE  Lead(n, p[n], a[n], b[n]) >= Area(t[n], t[1], u[n], u[1])
<1> DEFINE gap(k, x, y) == Gap(k, p[k], a[k], b[k], x, y)
           lead(k) == Lead(k, p[k], a[k], b[k])
           area(x, y) == Area(x, t[1], y, u[1])
           Above(k, x, y) == \A i \in 1..k : t[i] <= x /\ u[i] <= y
<1>0. \A i \in 1..n : t[i] \in Int /\ u[i] \in Int
  BY DEF RisingPairs
<1>4. a[0] = 0 /\ b[0] = 0 /\ p[0] = 0
  BY DEF RisingPairs
<1>5. ASSUME NEW k \in Nat, k + 1 <= n
      PROVE  /\ k + 1 \in 1..n /\ lead(k) \in Int /\ lead(k + 1) \in Int
             /\ lead(k + 1) = lead(k) + gap(k, t[k + 1], u[k + 1])
             /\ \A x, y \in Int :
                  /\ gap(k, x, y) \in Int
                  /\ gap(k + 1, x, y) = gap(k, x, y) + Area(x, t[k + 1], y, u[k + 1])
  <2>1. k \in 0..(n - 1) /\ k \in 0..n /\ k + 1 \in 0..n /\ k + 1 \in 1..n
    BY <1>5
  <2>2. /\ a[k] \in Int /\ b[k] \in Int /\ p[k] \in Int
        /\ a[k + 1] \in Int /\ b[k + 1] \in Int /\ p[k + 1] \in Int
        /\ a[k + 1] = a[k] + t[k + 1] /\ b[k + 1] = b[k] + u[k + 1] 
        /\ p[k + 1] = p[k] + t[k + 1] * u[k + 1]
    BY <2>1 DEF RisingPairs
  <2>3. t[k + 1] \in Int /\ u[k + 1] \in Int
    BY <1>0, <2>1
  <2>5. lead(k) \in Int /\ lead(k + 1) \in Int /\ \A x, y \in Int : gap(k, x, y) \in Int
    <3>1. k + 1 \in Nat
      OBVIOUS
    <3> QED
      BY <2>2, <3>1, GapStarts
  <2> PICK q \in Int, c \in Int, d \in Int, v \in Int, z \in Int :
        q = p[k] /\ c = a[k] /\ d = b[k] /\ v = t[k + 1] /\ z = u[k + 1]
    BY <2>2, <2>3
  <2>6. lead(k + 1) = lead(k) + gap(k, t[k + 1], u[k + 1])
    <3>1. Lead(k + 1, q + v * z, c + v, d + z) = Lead(k, q, c, d) + Gap(k, q, c, d, v, z)
      BY LeadGrows
    <3> QED
      BY <2>2, <3>1
  <2>7. ASSUME NEW x \in Int, NEW y \in Int
        PROVE  gap(k + 1, x, y) = gap(k, x, y) + Area(x, t[k + 1], y, u[k + 1])
    <3>1. Gap(k + 1, q + v * z, c + v, d + z, x, y)
          = Gap(k, q, c, d, x, y) + Area(x, v, y, z)
      BY GapGrows
    <3> QED
      BY <2>2, <3>1
  <2> QED
    BY <2>1, <2>5, <2>6, <2>7
<1>6. \A x, y \in Int : gap(0, x, y) = 0
  BY <1>4, GapStarts
<1>7. lead(0) = 0
  BY <1>4, GapStarts
<1>8. 1 \in 1..n /\ t[1] \in Int /\ u[1] \in Int
  BY <1>0
<1>9. \A x, y \in Int :
        area(x, y) \in Int /\ (t[1] <= x /\ u[1] <= y => area(x, y) >= 0)
  BY <1>8, Areas
<1> DEFINE A == {k \in Nat : k + 1 <= n => \A x, y \in Int :
                   Above(k + 1, x, y) => gap(k + 1, x, y) >= area(x, y)}
<1>10. 0 \in A
  <2> SUFFICES ASSUME NEW x \in Int, NEW y \in Int
               PROVE  gap(1, x, y) >= area(x, y)
    OBVIOUS
  <2>1. 0 \in Nat /\ 0 + 1 <= n /\ 0 + 1 = 1
    BY <1>0
  <2>2. gap(1, x, y) = gap(0, x, y) + area(x, y)
    <3> HIDE DEF gap
    <3>1. gap(0 + 1, x, y) = gap(0, x, y) + Area(x, t[0 + 1], y, u[0 + 1])
      BY <1>5, <2>1
    <3> QED
      BY <2>1, <3>1
  <2>3. gap(0, x, y) = 0 /\ area(x, y) \in Int
    BY <1>6, <1>9
  <2> HIDE DEF gap, area
  <2> QED
    BY <2>2, <2>3
<1>11. ASSUME NEW k \in Nat, k \in A
       PROVE  k + 1 \in A
  <2> DEFINE m == k + 1
  <2> SUFFICES ASSUME m + 1 <= n, NEW x \in Int, NEW y \in Int, Above(m + 1, x, y)
               PROVE  gap(m + 1, x, y) >= area(x, y)
    <3> HIDE DEF Above, gap, area
    <3> QED
      OBVIOUS
  <2>1. m \in Nat /\ m <= n
    BY <1>0
  <2>2. Above(m, x, y)
    BY <2>1
  <2>3. gap(m, x, y) >= area(x, y)
    <3> HIDE DEF Above, gap, area
    <3> QED
      BY <1>11, <2>1, <2>2
  <2>4. t[m + 1] <= x /\ u[m + 1] <= y
    BY <2>1
  <2> HIDE DEF m
  <2>5. m + 1 \in 1..n /\ t[m + 1] \in Int /\ u[m + 1] \in Int
    BY <1>0, <2>1
  <2>6. Area(x, t[m + 1], y, u[m + 1]) >= 0 /\ Area(x, t[m + 1], y, u[m + 1]) \in Int
    BY <2>4, <2>5, Areas
  <2>7. gap(m + 1, x, y) = gap(m, x, y) + Area(x, t[m + 1], y, u[m + 1]) /\ gap(m, x, y) \in Int
    <3> HIDE DEF gap
    <3> QED
      BY <1>5, <2>1
  <2>8. area(x, y) \in Int
    BY <1>9
  <2> HIDE DEF gap, area
  <2> QED
    BY <2>3, <2>6, <2>7, <2>8
<1>12. ASSUME NEW k \in Nat, k + 1 <= n, NEW x \in Int, NEW y \in Int, Above(k + 1, x, y)
       PROVE  gap(k + 1, x, y) >= area(x, y)
  <2>1. k \in A
    <3> HIDE DEF A
    <3> QED
      BY <1>10, <1>11, Adding!AllNumbers
  <2> HIDE DEF Above, gap, area
  <2> QED
    BY <1>12, <2>1
\* The lead over the first k + 1 pairs.
<1> DEFINE B == {k \in Nat : k + 1 <= n => lead(k + 1) >= area(t[k + 1], u[k + 1])}
<1>13. 0 \in B
  <2> SUFFICES lead(1) >= area(t[1], u[1])
    OBVIOUS
  <2>1. 0 \in Nat /\ 0 + 1 <= n /\ 0 + 1 = 1
    BY <1>0
  <2>2. lead(1) = lead(0) + gap(0, t[1], u[1])
    <3> HIDE DEF gap, lead
    <3> QED
      BY <1>5, <2>1
  <2>3. area(t[1], u[1]) = 0
    BY <1>8, Areas
  <2> HIDE DEF gap, area, lead
  <2> QED
    BY <1>6, <1>7, <1>8, <2>2, <2>3
<1>14. ASSUME NEW k \in Nat, k \in B
       PROVE  k + 1 \in B
  <2> DEFINE m == k + 1
  <2> SUFFICES ASSUME m + 1 <= n
               PROVE  lead(m + 1) >= area(t[m + 1], u[m + 1])
    <3> HIDE DEF lead, area
    <3> QED
      OBVIOUS
  <2>1. m \in Nat /\ m <= n /\ m \in 1..n /\ m + 1 \in 1..n
    BY <1>0
  <2>2. /\ t[m] \in Int /\ u[m] \in Int /\ t[m + 1] \in Int /\ u[m + 1] \in Int
        /\ t[1] <= t[m] /\ u[1] <= u[m]
    BY <1>0, <2>1 DEF RisingPairs, Rises
  <2>3. Above(m, t[m + 1], u[m + 1])
    BY <1>0, <2>1 DEF RisingPairs, Rises
  <2>4. gap(m, t[m + 1], u[m + 1]) >= area(t[m + 1], u[m + 1])
    <3> HIDE DEF Above, gap, area
    <3> QED
      BY <1>12, <2>1, <2>2, <2>3
  <2>5. lead(m) >= area(t[m], u[m])
    <3> HIDE DEF lead, area
    <3> QED
      BY <1>14, <2>1
  <2>6. area(t[m], u[m]) >= 0 /\ area(t[m], u[m]) \in Int /\ area(t[m + 1], u[m + 1]) \in Int
    BY <1>9, <2>2
  <2> HIDE DEF m
  <2>7. /\ lead(m + 1) = lead(m) + gap(m, t[m + 1], u[m + 1])
        /\ lead(m) \in Int /\ gap(m, t[m + 1], u[m + 1]) \in Int
    <3> HIDE DEF gap, lead
    <3> QED
      BY <1>5, <2>1, <2>2
  <2> HIDE DEF gap, lead, area
  <2> QED
    BY <2>4, <2>5, <2>6, <2>7
<1>15. lead(n) >= area(t[n], u[n])
  <2>1. PICK k \in Nat : n = k + 1
    <3>1. n - 1 \in Nat /\ n = (n - 1) + 1
      BY <1>0
    <3> QED
      BY <3>1
  <2>2. k \in B
    <3> HIDE DEF B
    <3> QED
      BY <1>13, <1>14, Adding!AllNumbers
  <2> HIDE DEF lead, area
  <2> QED
    BY <1>0, <2>1, <2>2
<1> QED
  BY <1>15

\* Two sequences that rise together: n times the sum of their products exceeds
\* the product of their sums by what is between their ends at least (the
\* inequality of Chebyshev).
LEMMA RiseTogether ==
  ASSUME NEW t \in Seq(Int), NEW u \in Seq(Int), NEW w \in Seq(Int),
         Len(u) = Len(t), Len(w) = Len(t), Len(t) >= 1,
         Products(w, t, u, Len(t)), Rises(t, Len(t)), Rises(u, Len(t))
  PROVE  Len(t) * Sum(w) - Sum(t) * Sum(u) >= Area(t[Len(t)], t[1], u[Len(t)], u[1])
<1> DEFINE n == Len(t)
<1>0. n \in Nat /\ \A i \in 1..n : t[i] \in Int /\ u[i] \in Int
  BY ElementOfSeq
<1>1. PICK a : AddsUp(a, t)
  BY PartialSums
<1>2. PICK b : AddsUp(b, u)
  BY PartialSums
<1>3. PICK p : AddsUp(p, w)
  BY PartialSums
<1>4. a[n] = Sum(t) /\ b[n] = Sum(u) /\ p[n] = Sum(w)
  BY <1>1, <1>2, <1>3 DEF AddsUp
<1>5. \A k \in 0..n : a[k] \in Int /\ b[k] \in Int /\ p[k] \in Int
  BY <1>1, <1>2, <1>3 DEF AddsUp
<1>6. ASSUME NEW k \in 0..(n - 1)
      PROVE  /\ a[k + 1] = a[k] + t[k + 1]
             /\ b[k + 1] = b[k] + u[k + 1]
             /\ p[k + 1] = p[k] + t[k + 1] * u[k + 1]
  <2>1. k + 1 \in 1..n
    BY <1>0
  <2> QED
    BY <1>1, <1>2, <1>3, <2>1 DEF AddsUp, Products
<1>7. RisingPairs(n, t, u, a, b, p)
  <2>1. a[0] = 0 /\ b[0] = 0 /\ p[0] = 0
    BY <1>1, <1>2, <1>3 DEF AddsUp
  <2> QED
    BY <1>0, <1>5, <1>6, <2>1 DEF RisingPairs
<1> QED
  BY <1>0, <1>4, <1>7, PairsLead DEF Lead
----------------------------------------------------------------------------
\* The places of s with less than v and with no more, and the k-th smallest.
Under(s, v) == {i \in DOMAIN s : s[i] < v}
Within(s, v) == {i \in DOMAIN s : s[i] <= v}
IsSmallest(v, s, k) ==
  /\ \E i \in DOMAIN s : v = s[i]
  /\ Cardinality(Under(s, v)) < k /\ k <= Cardinality(Within(s, v))

\* Those places are finitely many, at most all.
LEMMA Tallied ==
  ASSUME NEW T, NEW s \in Seq(T), NEW v
  PROVE  /\ IsFiniteSet(Under(s, v)) /\ Cardinality(Under(s, v)) \in Nat
         /\ IsFiniteSet(Within(s, v)) /\ Cardinality(Within(s, v)) \in Nat
         /\ Cardinality(Within(s, v)) <= Len(s)
         /\ DOMAIN s = 1..Len(s) /\ Cardinality(DOMAIN s) = Len(s)
<1>1. DOMAIN s = 1..Len(s) /\ Len(s) \in Nat
  OBVIOUS
<1>2. IsFiniteSet(1..Len(s)) /\ Cardinality(1..Len(s)) = Len(s)
  BY <1>1, FS_Interval
<1>3. Under(s, v) \in SUBSET (1..Len(s)) /\ Within(s, v) \in SUBSET (1..Len(s))
  BY <1>1 DEF Under, Within
<1>4. IsFiniteSet(Under(s, v)) /\ Cardinality(Under(s, v)) \in Nat
  BY <1>2, <1>3, FS_Subset, FS_CardinalityType
<1>5. IsFiniteSet(Within(s, v)) /\ Cardinality(Within(s, v)) \in Nat
  BY <1>2, <1>3, FS_Subset, FS_CardinalityType
<1>6. Cardinality(Within(s, v)) <= Len(s)
  BY <1>2, <1>3, FS_Subset
<1> QED
  BY <1>1, <1>2, <1>4, <1>5, <1>6

\* There is one.
LEMMA SmallestExists ==
  ASSUME NEW s \in Seq(Nat), NEW k \in 1..Len(s)
  PROVE  \E v \in Nat : IsSmallest(v, s, k)
<1> DEFINE n == Len(s)
<1>0. n \in Nat /\ \A i \in 1..n : s[i] \in Nat
  BY ElementOfSeq
<1>1. \E m \in Nat : \A i \in 1..n : s[i] <= m
  <2> DEFINE B == {j \in Nat : j <= n => \E m \in Nat : \A i \in 1..j : s[i] <= m}
  <2>1. 0 \in B
    OBVIOUS
  <2>2. ASSUME NEW j \in Nat, j \in B
        PROVE  j + 1 \in B
    <3> SUFFICES ASSUME j + 1 <= n
                 PROVE  \E m \in Nat : \A i \in 1..(j + 1) : s[i] <= m
      OBVIOUS
    <3>1. j <= n /\ j + 1 \in 1..n
      BY <1>0
    <3>2. PICK m \in Nat : \A i \in 1..j : s[i] <= m
      BY <2>2, <3>1
    <3>3. s[j + 1] \in Nat
      BY <1>0, <3>1
    <3>4. m + s[j + 1] \in Nat
      BY <3>3
    <3>5. ASSUME NEW i \in 1..(j + 1)
          PROVE  s[i] <= m + s[j + 1]
      <4>1. CASE i = j + 1
        BY <3>3, <4>1
      <4>2. CASE i \in 1..j
        <5>1. s[i] \in Nat /\ s[i] <= m
          BY <1>0, <3>1, <3>2, <4>2
        <5> QED
          BY <3>3, <5>1
      <4>3. i = j + 1 \/ i \in 1..j
        OBVIOUS
      <4> QED
        BY <4>1, <4>2, <4>3
    <3> QED
      BY <3>4, <3>5
  <2>3. n \in B
    <3> HIDE DEF B
    <3> QED
      BY <1>0, <2>1, <2>2, Adding!AllNumbers
  <2> QED
    BY <1>0, <2>3
<1> DEFINE A == {m \in Nat : Cardinality(Within(s, m)) < k}
<1>2. \E m \in Nat : m \notin A
  <2>1. PICK m \in Nat : \A i \in 1..n : s[i] <= m
    BY <1>1
  <2>2. Within(s, m) = DOMAIN s
    BY <2>1, Tallied DEF Within
  <2>3. Cardinality(Within(s, m)) = n
    BY <2>2, Tallied
  <2> QED
    BY <1>0, <2>3
<1>3. \E w \in Nat : w \notin A /\ (w = 0 \/ w - 1 \in A)
  <2> HIDE DEF A
  <2>1. SUFFICES ASSUME \A w \in Nat : w \in A \/ (w # 0 /\ w - 1 \notin A)
                 PROVE  FALSE
    OBVIOUS
  <2>2. 0 \in A
    BY <2>1
  <2>3. \A m \in Nat : m \in A => m + 1 \in A
    <3> SUFFICES ASSUME NEW m \in Nat, m \in A
                 PROVE  m + 1 \in A
      OBVIOUS
    <3>1. m + 1 \in Nat /\ (m + 1) - 1 = m
      OBVIOUS
    <3> QED
      BY <2>1, <3>1
  <2> QED
    BY <1>2, <2>2, <2>3, Adding!AllNumbers
<1>4. PICK w \in Nat : w \notin A /\ (w = 0 \/ w - 1 \in A)
  BY <1>3
<1>5. k <= Cardinality(Within(s, w))
  BY <1>4, Tallied
<1>6. Cardinality(Under(s, w)) < k
  <2>1. CASE w = 0
    <3>1. Under(s, w) = {}
      BY <1>0, <2>1, Tallied DEF Under
    <3> QED
      BY <3>1, FS_EmptySet
  <2>2. CASE w - 1 \in A
    <3>1. Under(s, w) = Within(s, w - 1)
      <4>1. \A i \in DOMAIN s : s[i] \in Nat
        BY <1>0, Tallied
      <4>2. \A x \in Nat : x < w <=> x <= w - 1
        OBVIOUS
      <4> QED
        BY <4>1, <4>2 DEF Under, Within
    <3> QED
      BY <2>2, <3>1
  <2> QED
    BY <1>4, <2>1, <2>2
<1>7. \E i \in DOMAIN s : w = s[i]
  <2> SUFFICES ASSUME \A i \in DOMAIN s : w # s[i]
               PROVE  FALSE
    OBVIOUS
  <2>1. \A i \in DOMAIN s : s[i] < w <=> s[i] <= w
    <3>1. \A i \in DOMAIN s : s[i] \in Nat
      BY <1>0, Tallied
    <3>2. \A x \in Nat : x # w => (x < w <=> x <= w)
      OBVIOUS
    <3> QED
      BY <3>1, <3>2
  <2>2. Under(s, w) = Within(s, w)
    BY <2>1 DEF Under, Within
  <2>3. Cardinality(Under(s, w)) \in Nat
    BY Tallied
  <2> QED
    BY <1>5, <1>6, <2>2, <2>3
<1> QED
  BY <1>5, <1>6, <1>7 DEF IsSmallest

\* The later in the order, the greater.
LEMMA SmallestOrdered ==
  ASSUME NEW s \in Seq(Nat), NEW j \in Nat, NEW k \in Nat,
         NEW v \in Nat, NEW w \in Nat, w < v,
         IsSmallest(w, s, k), Cardinality(Under(s, v)) < j
  PROVE  k < j
<1>1. \A i \in DOMAIN s : s[i] \in Nat
  BY ElementOfSeq, Tallied
<1>2. Within(s, w) \in SUBSET Under(s, v)
  BY <1>1 DEF Within, Under
<1>3. Cardinality(Within(s, w)) <= Cardinality(Under(s, v))
  BY <1>2, Tallied, FS_Subset
<1>4. k <= Cardinality(Within(s, w))
  BY DEF IsSmallest
<1>5. Cardinality(Within(s, w)) \in Nat /\ Cardinality(Under(s, v)) \in Nat
  BY Tallied
<1> QED
  BY <1>3, <1>4, <1>5

\* What is less than v in two sequences together.
LEMMA UnderBoth ==
  ASSUME NEW s \in Seq(Nat), NEW t \in Seq(Nat), NEW v \in Nat
  PROVE  Cardinality(Under(s \o t, v)) <= Cardinality(Under(s, v)) + Cardinality(Under(t, v))
<1> DEFINE m == Len(s)
           S == Under(t, v)
           f == [i \in S |-> m + i]
           T == {f[i] : i \in S}
<1>1. /\ m \in Nat /\ Len(t) \in Nat /\ s \o t \in Seq(Nat) /\ Len(s \o t) = m + Len(t)
      /\ \A i \in 1..(m + Len(t)) : (s \o t)[i] = IF i <= m THEN s[i] ELSE t[i - m]
  OBVIOUS
<1>2. /\ IsFiniteSet(S) /\ IsFiniteSet(Under(s, v)) /\ IsFiniteSet(Under(s \o t, v))
      /\ Cardinality(S) \in Nat /\ Cardinality(Under(s, v)) \in Nat
      /\ Cardinality(Under(s \o t, v)) \in Nat
  BY <1>1, Tallied
<1>3. f \in Surjection(S, T)
  BY DEF Surjection
<1>4. IsFiniteSet(T) /\ Cardinality(T) <= Cardinality(S)
  <2> HIDE DEF S, T, f
  <2> QED
    BY <1>2, <1>3, FS_Surjection
<1>5. ASSUME NEW i \in Under(s \o t, v)
      PROVE  i \in Under(s, v) \cup T
  <2>1. i \in 1..(m + Len(t)) /\ (s \o t)[i] < v
    BY <1>1, Tallied DEF Under
  <2>2. CASE i <= m
    <3>1. i \in 1..m /\ s[i] < v
      BY <1>1, <2>1, <2>2
    <3> QED
      BY <3>1, Tallied DEF Under
  <2>3. CASE i > m
    <3>1. i - m \in 1..Len(t) /\ t[i - m] < v /\ m + (i - m) = i
      BY <1>1, <2>1, <2>3
    <3>2. i - m \in S
      BY <3>1, Tallied DEF Under
    <3>3. f[i - m] = i
      BY <3>1, <3>2
    <3> QED
      BY <3>2, <3>3
  <2> QED
    BY <1>1, <2>1, <2>2, <2>3
<1>6. Under(s \o t, v) \in SUBSET (Under(s, v) \cup T)
  BY <1>5
<1> HIDE DEF T, S
<1>7. /\ IsFiniteSet(Under(s, v) \cup T) /\ Cardinality(T) \in Nat
      /\ Cardinality(Under(s, v) \cup T) \in Nat
      /\ Cardinality(Under(s, v) \cup T) <= Cardinality(Under(s, v)) + Cardinality(T)
  <2>1. /\ IsFiniteSet(Under(s, v) \cup T)
        /\ Cardinality(Under(s, v) \cup T)
           = Cardinality(Under(s, v)) + Cardinality(T) - Cardinality(Under(s, v) \cap T)
    BY <1>2, <1>4, FS_Union
  <2>2. Cardinality(T) \in Nat /\ Cardinality(Under(s, v) \cup T) \in Nat
        /\ Cardinality(Under(s, v) \cap T) \in Nat
    <3>1. IsFiniteSet(Under(s, v) \cap T)
      BY <1>2, FS_Subset
    <3> QED
      BY <1>4, <2>1, <3>1, FS_CardinalityType
  <2> QED
    BY <1>2, <2>1, <2>2
<1>8. Cardinality(Under(s \o t, v)) <= Cardinality(Under(s, v) \cup T)
  BY <1>6, <1>7, FS_Subset
<1> QED
  BY <1>2, <1>4, <1>7, <1>8 DEF S
----------------------------------------------------------------------------
\* Quotients are rounded down.
LEMMA Quotient ==
  ASSUME NEW a \in Int, NEW b \in Int, b > 0
  PROVE  a \div b \in Int /\ b * (a \div b) <= a /\ a < b * (a \div b) + b
OBVIOUS

\* A factor that both sides have.
LEMMA Cancel ==
  ASSUME NEW c \in Int, c > 0, NEW x \in Int, NEW y \in Int
  PROVE  /\ c * x < c * y <=> x < y
         /\ c * x <= c * y <=> x <= y
         /\ c * x = c * y <=> x = y
<1>1. ASSUME NEW v \in Int, NEW w \in Int, v < w
      PROVE  c * v < c * w
  <2>1. \A d \in Int : d > 0 => c * d > 0
    OBVIOUS
  <2>2. c * (w - v) > 0
    BY <1>1, <2>1
  <2>3. c * (w - v) = c * w - c * v /\ c * w \in Int /\ c * v \in Int
    OBVIOUS
  <2> QED
    BY <2>2, <2>3
<1>2. x < y \/ y < x \/ x = y
  OBVIOUS
<1>3. c * x \in Int /\ c * y \in Int
  OBVIOUS
<1> QED
  BY <1>1, <1>2, <1>3

\* A quotient is told by its remainder.
LEMMA QuotientIs ==
  ASSUME NEW a \in Int, NEW b \in Int, b > 0, NEW q \in Int, b * q <= a, a < b * q + b
  PROVE  a \div b = q
<1> DEFINE p == a \div b
<1>1. p \in Int /\ b * p <= a /\ a < b * p + b
  BY Quotient
<1> HIDE DEF p
<1>2. b * p < b * (q + 1) /\ b * q < b * (p + 1)
  <2>1. b * (q + 1) = b * q + b /\ b * (p + 1) = b * p + b
    BY <1>1
  <2> QED
    BY <1>1, <2>1
<1>3. p < q + 1 /\ q < p + 1
  BY <1>1, <1>2, Cancel
<1> QED
  BY <1>1, <1>3 DEF p

\* Fractions that are equal have the same quotient.
LEMMA SameFraction ==
  ASSUME NEW a \in Int, NEW b \in Int, b > 0, NEW c \in Int, NEW d \in Int, d > 0,
         a * d = c * b
  PROVE  a \div b = c \div d
<1> DEFINE q == c \div d
<1>1. q \in Int /\ d * q <= c /\ c < d * q + d
  BY Quotient
<1> HIDE DEF q
<1>2. d * (b * q) <= d * a
  <2>1. b * (d * q) <= b * c
    BY <1>1, Cancel
  <2> QED
    BY <1>1, <2>1
<1>3. d * a < d * (b * q + b)
  <2>1. b * c < b * (d * q + d)
    BY <1>1, Cancel
  <2> QED
    BY <1>1, <2>1
<1>4. b * q <= a /\ a < b * q + b
  <2>1. b * q \in Int /\ b * q + b \in Int
    BY <1>1
  <2> QED
    BY <1>2, <1>3, <2>1, Cancel
<1> QED
  BY <1>1, <1>4, QuotientIs DEF q

\* Of points on a line, f at the start and G higher after T, the line of least
\* squares is that line.
LinedUp(n, T, G, f, su, st, sw, sq, rise, spread) ==
  /\ n \in Int /\ T \in Int /\ T > 0 /\ G \in Int /\ f \in Int
  /\ su \in Int /\ st \in Int /\ sw \in Int /\ sq \in Int
  /\ rise = n * sw - st * su /\ spread = n * sq - st * st
  /\ T * su = G * st + n * (T * f)
  /\ T * sw = G * sq + (T * f) * st

\* Its rise and its base are those of the points.
LEMMA OnLine ==
  ASSUME NEW n, NEW T, NEW G, NEW f, NEW su, NEW st, NEW sw, NEW sq, NEW rise, NEW spread,
         LinedUp(n, T, G, f, su, st, sw, sq, rise, spread)
  PROVE  T * rise = G * spread /\ su * spread - rise * st = n * f * spread
<1>0. /\ n \in Int /\ T \in Int /\ T > 0 /\ G \in Int /\ f \in Int
      /\ su \in Int /\ st \in Int /\ sw \in Int /\ sq \in Int
      /\ rise \in Int /\ spread \in Int
  BY DEF LinedUp
<1>a. rise = n * sw - st * su /\ spread = n * sq - st * st
  BY DEF LinedUp
<1>b. T * su = G * st + n * (T * f) /\ T * sw = G * sq + (T * f) * st
  BY DEF LinedUp
<1>1. n * (T * sw) = n * (G * sq + (T * f) * st)
  BY <1>b, Zenon
<1>2. st * (T * su) = st * (G * st + n * (T * f))
  BY <1>b, Zenon
<1>3. T * (n * sw - st * su) = n * (T * sw) - st * (T * su)
  BY <1>0
<1>4. G * (n * sq - st * st)
      = n * (G * sq + (T * f) * st) - st * (G * st + n * (T * f))
  BY <1>0
<1>5. T * rise = G * spread
  BY <1>a, <1>1, <1>2, <1>3, <1>4, Zenon
<1>6. (T * su) * spread - (T * rise) * st = (G * st + n * (T * f)) * spread - (G * spread) * st
  BY <1>b, <1>5, Zenon
<1>7. T * (su * spread - rise * st) = (T * su) * spread - (T * rise) * st
  BY <1>0
<1>8. (G * st + n * (T * f)) * spread - (G * spread) * st = T * (n * f * spread)
  BY <1>0
<1>9. su * spread - rise * st \in Int /\ n * f * spread \in Int
  BY <1>0
<1>10. T * (su * spread - rise * st) = T * (n * f * spread)
  BY <1>6, <1>7, <1>8, Zenon
<1> QED
  BY <1>0, <1>5, <1>9, <1>10, Cancel

\* On such a line, both ways to say when it is at 80% come to the same.
Reaches(n, T, G, f, rise, spread, later, total, now, goal) ==
  /\ n \in Int /\ n > 0 /\ T \in Int /\ T > 0 /\ G \in Int /\ G > 0 /\ f \in Int
  /\ rise \in Int /\ spread \in Int /\ spread > 0 /\ later \in Nat
  /\ total \in Int /\ now \in Int /\ goal \in Int
  /\ T * rise = G * spread
  /\ now = 100 * (n * rise * (T + later) + n * f * spread)
  /\ goal = 80 * total * n * spread

\* The days to go, rounded down.
LEMMA ForecastOnLine ==
  ASSUME NEW n, NEW T, NEW G, NEW f, NEW rise, NEW spread, NEW later, NEW total,
         NEW now, NEW goal,
         Reaches(n, T, G, f, rise, spread, later, total, now, goal)
  PROVE  LET first == IF 100 * (f + G) >= 80 * total THEN 0
                      ELSE ((80 * total - 100 * (f + G)) * T) \div (100 * G)
         IN /\ rise > 0
            /\ (IF now >= goal THEN 0 ELSE (goal - now) \div (100 * n * rise))
               = IF first - later < 0 THEN 0 ELSE first - later
<1>t. /\ n \in Int /\ n > 0 /\ T \in Int /\ T > 0 /\ G \in Int /\ G > 0 /\ f \in Int
      /\ rise \in Int /\ spread \in Int /\ spread > 0 /\ later \in Nat
      /\ total \in Int /\ now \in Int /\ goal \in Int
  BY DEF Reaches
<1> USE <1>t
<1>0. /\ T * rise = G * spread
      /\ now = 100 * (n * rise * (T + later) + n * f * spread)
      /\ goal = 80 * total * n * spread
  BY DEF Reaches
<1>1. rise > 0
  <2>1. G * spread > 0
    OBVIOUS
  <2>2. T * 0 < T * rise
    BY <1>0, <2>1
  <2> QED
    BY <2>2, Cancel
<1> DEFINE x == 80 * total - 100 * (f + G)
           d == 100 * G
           b == 100 * n * rise
<1>2. x \in Int /\ d \in Int /\ d > 0 /\ b \in Int /\ b > 0
  <2>1. n * rise > 0 /\ n * rise \in Int
    BY <1>1
  <2>2. b = 100 * (n * rise)
    OBVIOUS
  <2> QED
    BY <2>1, <2>2
<1>3. goal - now = n * spread * x - b * later
  <2>1. n * rise * (T + later) = n * (T * rise) + n * rise * later
    OBVIOUS
  <2>2. n * (T * rise) = n * (G * spread)
    BY <1>0, Zenon
  <2>3. now = 100 * (n * (G * spread) + n * rise * later + n * f * spread)
    BY <1>0, <2>1, <2>2
  <2>4. 80 * total * n * spread
          - 100 * (n * (G * spread) + n * rise * later + n * f * spread)
        = n * spread * x - b * later
    OBVIOUS
  <2> QED
    BY <1>0, <2>3, <2>4, Zenon
<1>4. (n * spread * x) * d = (x * T) * b
  <2>1. (x * T) * b = (100 * n * x) * (T * rise)
    OBVIOUS
  <2>2. (100 * n * x) * (T * rise) = (100 * n * x) * (G * spread)
    BY <1>0, Zenon
  <2>3. (100 * n * x) * (G * spread) = (n * spread * x) * d
    OBVIOUS
  <2> QED
    BY <2>1, <2>2, <2>3, Zenon
<1> DEFINE a == n * spread * x
           c == x * T
           r == c \div d
<1>5. a \in Int /\ c \in Int /\ a * d = c * b
  BY <1>4
<1>6. r \in Int /\ d * r <= c /\ c < d * r + d
  BY <1>2, <1>5, Quotient
<1>7. a \div b = r
  BY <1>2, <1>5, SameFraction
<1>8. b * r <= a /\ a < b * r + b
  BY <1>2, <1>5, <1>7, Quotient
<1>9. x <= 0 => a <= 0
  <2>1. n * spread > 0 /\ n * spread \in Int
    OBVIOUS
  <2>2. x <= 0 => (n * spread) * x <= (n * spread) * 0
    BY <1>2, <2>1, Cancel
  <2>3. (n * spread) * 0 = 0
    BY <2>1
  <2> QED
    BY <2>2, <2>3
<1>10. b * later >= 0 /\ b * later \in Int
  BY <1>2
<1>11. now >= goal <=> a <= b * later
  BY <1>3, <1>5, <1>10
<1>12. ~(now >= goal) => (goal - now) \div b = r - later
  <2>1. b * (r - later) = b * r - b * later /\ b * r \in Int /\ r - later \in Int
    BY <1>2, <1>6
  <2>2. goal - now \in Int /\ goal - now = a - b * later
    BY <1>3
  <2>3. b * (r - later) <= goal - now /\ goal - now < b * (r - later) + b
    BY <1>2, <1>5, <1>8, <1>10, <2>1, <2>2
  <2> QED
    BY <1>2, <2>1, <2>2, <2>3, QuotientIs
<1>13. now >= goal => r <= later
  <2>1. now >= goal => b * r <= b * later
    <3>1. b * r \in Int
      BY <1>2, <1>6
    <3> QED
      BY <1>5, <1>8, <1>10, <1>11, <3>1
  <2> QED
    BY <1>2, <1>6, <2>1, Cancel
<1>14. ~(now >= goal) => r >= later
  <2>1. ~(now >= goal) => b * later < b * (r + 1)
    <3>1. b * r \in Int /\ b * (r + 1) = b * r + b
      BY <1>2, <1>6
    <3> QED
      BY <1>2, <1>5, <1>8, <1>10, <1>11, <3>1
  <2>2. ~(now >= goal) => later < r + 1
    BY <1>2, <1>6, <2>1, Cancel
  <2> QED
    BY <1>6, <2>2
<1> HIDE DEF a, c, r, b, d
<1>15. CASE x <= 0
  <2>1. now >= goal
    BY <1>5, <1>9, <1>10, <1>11, <1>15
  <2>2. 100 * (f + G) >= 80 * total
    BY <1>15
  <2>3. 0 - later < 0 \/ 0 - later = 0
    OBVIOUS
  <2> QED
    BY <1>1, <2>1, <2>2, <2>3
<1>16. CASE x > 0
  <2>1. ~(100 * (f + G) >= 80 * total)
    BY <1>16
  <2>2. (IF now >= goal THEN 0 ELSE (goal - now) \div b)
        = IF r - later < 0 THEN 0 ELSE r - later
    BY <1>6, <1>12, <1>13, <1>14
  <2> QED
    BY <1>1, <2>1, <2>2 DEF r, c, d, b
<1> QED
  BY <1>2, <1>15, <1>16
----------------------------------------------------------------------------
\* The planners and the advisors add up as above.
LEMMA SumsAgree ==
  /\ \A s : Planner!SumOf(s) = Sum(s)
  /\ \A s : Advisor!SumOf(s) = Sum(s)
BY DEF Planner!SumOf, Planner!FoldLeft, Planner!MapThenFoldSet, Planner!Max,
       Advisor!SumOf, Advisor!FoldLeft, Advisor!MapThenFoldSet, Advisor!Max,
       Sum, Adding!Fold, Adding!FoldLeft, Adding!MapThenFoldSet, Adding!Max

\* The advisors count as usual.
LEMMA AdvisorCounts == \A S : Advisor!Cardinality(S) = Cardinality(S)
BY DEF Advisor!Cardinality, Cardinality

\* So do the planners.
LEMMA PlannerCounts == \A S : Planner!Cardinality(S) = Cardinality(S)
BY DEF Planner!Cardinality, Cardinality

\* What the advisors choose is the k-th smallest.
LEMMA SmallestChosen ==
  ASSUME NEW s \in Seq(Nat), NEW k \in 1..Len(s)
  PROVE  IsSmallest(Advisor!Smallest(s, k), s, k) /\ Advisor!Smallest(s, k) \in Nat
<1> DEFINE V == {s[i] : i \in DOMAIN s}
           P(v) == Advisor!Cardinality({i \in DOMAIN s : s[i] < v}) < k
                   /\ k <= Advisor!Cardinality({i \in DOMAIN s : s[i] <= v})
           c == Advisor!Smallest(s, k)
<1>1. PICK v \in Nat : IsSmallest(v, s, k)
  BY SmallestExists
<1>2. \A w : P(w) <=> Cardinality(Under(s, w)) < k /\ k <= Cardinality(Within(s, w))
  BY AdvisorCounts DEF Under, Within
<1>3. c = CHOOSE w \in V : P(w)
  BY DEF Advisor!Smallest, Advisor!ToSet
<1> HIDE DEF c, P
<1>4. \E w \in V : P(w)
  BY <1>1, <1>2 DEF IsSmallest
<1>5. c \in V /\ P(c)
  BY <1>3, <1>4
<1>6. \A i \in DOMAIN s : s[i] \in Nat
  BY ElementOfSeq, Tallied
<1> QED
  BY <1>2, <1>5, <1>6 DEF IsSmallest, c

\* The lists that the requests hold.
LEMMA ListsOf ==
  ASSUME NEW S, NEW n \in Nat
  PROVE  /\ \A s \in Planner!Some(S, n) : s \in Seq(S) /\ Len(s) \in Nat /\ Len(s) >= 1
         /\ \A s \in Advisor!Upto(S, n) : s \in Seq(S) /\ Len(s) \in Nat /\ Len(s) >= 1
<1>1. \A k \in 1..n : \A s \in [1..k -> S] : s \in Seq(S) /\ Len(s) \in Nat /\ Len(s) >= 1
  <2> SUFFICES ASSUME NEW k \in 1..n, NEW s \in [1..k -> S]
               PROVE  s \in Seq(S) /\ Len(s) \in Nat /\ Len(s) >= 1
    OBVIOUS
  <2>1. k \in Nat /\ k >= 1
    OBVIOUS
  <2>2. s \in Seq(S) /\ Len(s) = k
    BY <2>1
  <2> QED
    BY <2>1, <2>2
<1> QED
  BY <1>1 DEF Planner!Some, Advisor!Upto
\* A function of the first numbers is a sequence.
LEMMA FunctionIsSeq ==
  ASSUME NEW n \in Nat, NEW T, NEW f \in [1..n -> T]
  PROVE  f \in Seq(T) /\ Len(f) = n /\ DOMAIN f = 1..n
OBVIOUS

\* The sum of what is negated.
LEMMA SumNegated ==
  ASSUME NEW s \in Seq(Int), NEW t \in Seq(Int), Len(t) = Len(s),
         \A i \in 1..Len(s) : s[i] = -t[i]
  PROVE  Sum(s) = -Sum(t)
<1>1. PICK a \in Int, b \in Int, c \in Int : a = 1 /\ b = -1 /\ c = 0
  OBVIOUS
<1>2. Linear(s, t, t, a, b, c, c)
  <2>1. \A i \in 1..Len(s) : s[i] \in Int /\ t[i] \in Int
    BY ElementOfSeq
  <2> QED
    BY <1>1, <2>1 DEF Linear
<1>3. a * Sum(s) = b * Sum(t) + c * Sum(t) + Len(s) * c
  BY <1>2, SumsLinear
<1>4. Len(s) \in Nat /\ Sum(s) \in Int /\ Sum(t) \in Int
  BY SumTyped
<1> QED
  BY <1>1, <1>3, <1>4

\* What never falls from one element to the next is in order.
LEMMA StepsRise ==
  ASSUME NEW s \in Seq(Int), \A i \in 2..Len(s) : s[i - 1] <= s[i]
  PROVE  Rises(s, Len(s))
<1> DEFINE n == Len(s)
           A == {j \in Nat : j + 1 <= n => \A i \in 1..(j + 1) : s[i] <= s[j + 1]}
<1>0. n \in Nat /\ \A i \in 1..n : s[i] \in Int
  BY ElementOfSeq
<1>1. 0 \in A
  BY <1>0
<1>2. ASSUME NEW j \in Nat, j \in A
      PROVE  j + 1 \in A
  <2> SUFFICES ASSUME j + 2 <= n, NEW i \in 1..(j + 2)
               PROVE  s[i] <= s[j + 2]
    OBVIOUS
  <2>1. j + 1 \in 1..n /\ j + 2 \in 1..n /\ i \in 1..n /\ j + 2 \in 2..n /\ (j + 2) - 1 = j + 1
    BY <1>0
  <2>2. s[j + 1] <= s[j + 2]
    BY <2>1
  <2>3. s[j + 1] \in Int /\ s[j + 2] \in Int /\ s[i] \in Int
    BY <1>0, <2>1
  <2>4. CASE i = j + 2
    BY <2>3, <2>4
  <2>5. CASE i \in 1..(j + 1)
    <3>1. s[i] <= s[j + 1]
      BY <1>0, <1>2, <2>1, <2>5
    <3> QED
      BY <2>2, <2>3, <3>1
  <2> QED
    BY <2>4, <2>5
<1>3. ASSUME NEW j \in 1..n, NEW i \in 1..j
      PROVE  s[i] <= s[j]
  <2>1. j - 1 \in Nat /\ (j - 1) + 1 = j
    OBVIOUS
  <2>2. j - 1 \in A
    <3> HIDE DEF A
    <3> QED
      BY <1>1, <1>2, <2>1, Adding!AllNumbers
  <2> QED
    BY <1>0, <2>1, <2>2
<1> QED
  BY <1>3 DEF Rises

\* Rise and spread of the line of least squares through the points t, u.
Times_(t, u) == [i \in 1..Len(t) |-> t[i] * u[i]]
Rise(t, u) == Len(t) * Sum(Times_(t, u)) - Sum(t) * Sum(u)

\* Of points that rise, the line rises.
LEMMA RiseOfRising ==
  ASSUME NEW t \in Seq(Int), NEW u \in Seq(Int), Len(u) = Len(t), Len(t) >= 1,
         Rises(t, Len(t)), Rises(u, Len(t))
  PROVE  /\ Rise(t, u) \in Int /\ Rise(t, u) >= 0
         /\ t[1] < t[Len(t)] /\ u[1] < u[Len(t)] => Rise(t, u) > 0
<1> DEFINE n == Len(t)
           w == Times_(t, u)
<1>0. /\ n \in Nat /\ 1 \in 1..n /\ n \in 1..n
      /\ \A i \in 1..n : t[i] \in Int /\ u[i] \in Int
  BY ElementOfSeq
<1>1. w \in Seq(Int) /\ Len(w) = n /\ \A i \in 1..n : w[i] = t[i] * u[i]
  <2>1. w \in [1..n -> Int] /\ \A i \in 1..n : w[i] = t[i] * u[i]
    BY <1>0 DEF Times_
  <2> HIDE DEF w
  <2>2. w \in Seq(Int) /\ Len(w) = n
    BY <1>0, <2>1, FunctionIsSeq
  <2> QED
    BY <1>0, <2>1, <2>2
<1> HIDE DEF w
<1>2. n * Sum(w) - Sum(t) * Sum(u) >= Area(t[n], t[1], u[n], u[1])
  BY <1>0, <1>1, RiseTogether DEF Products
<1>3. Sum(w) \in Int /\ Sum(t) \in Int /\ Sum(u) \in Int
  BY <1>1, SumTyped
<1>4. /\ t[1] \in Int /\ u[1] \in Int /\ t[n] \in Int /\ u[n] \in Int
      /\ t[1] <= t[n] /\ u[1] <= u[n]
  BY <1>0 DEF Rises
<1>5. /\ Area(t[n], t[1], u[n], u[1]) \in Int /\ Area(t[n], t[1], u[n], u[1]) >= 0
      /\ t[1] < t[n] /\ u[1] < u[n] => Area(t[n], t[1], u[n], u[1]) > 0
  BY <1>4, Areas
<1>6. Rise(t, u) = n * Sum(w) - Sum(t) * Sum(u)
  BY DEF Rise, w
<1>7. n * Sum(w) - Sum(t) * Sum(u) \in Int
  BY <1>0, <1>3
<1> QED
  BY <1>2, <1>5, <1>6, <1>7

\* Never more than before.
Falls(u) == \A i \in 2..Len(u) : u[i] <= u[i - 1]

\* Of points that fall, it does not.
LEMMA RiseOfFalling ==
  ASSUME NEW t \in Seq(Int), NEW u \in Seq(Int), Len(u) = Len(t), Len(t) >= 1,
         Rises(t, Len(t)), Falls(u)
  PROVE  Rise(t, u) <= 0
<1> DEFINE n == Len(t)
           v == [i \in 1..n |-> -u[i]]
           w == Times_(t, u)
           x == Times_(t, v)
<1>0. n \in Nat /\ \A i \in 1..n : t[i] \in Int /\ u[i] \in Int
  BY ElementOfSeq
<1>1. v \in Seq(Int) /\ Len(v) = n /\ \A i \in 1..n : v[i] = -u[i] /\ v[i] \in Int
  <2>1. v \in [1..n -> Int] /\ \A i \in 1..n : v[i] = -u[i]
    BY <1>0
  <2> HIDE DEF v
  <2>2. v \in Seq(Int) /\ Len(v) = n
    BY <1>0, <2>1, FunctionIsSeq
  <2> QED
    BY <1>0, <2>1, <2>2
<1> HIDE DEF v
<1>2. Rises(v, n)
  <2>1. ASSUME NEW i \in 2..n
        PROVE  v[i - 1] <= v[i]
    <3>1. i \in 1..n /\ i - 1 \in 1..n /\ i \in 2..Len(u)
      OBVIOUS
    <3>2. u[i] <= u[i - 1]
      BY <3>1 DEF Falls
    <3>3. v[i] = -u[i] /\ v[i - 1] = -u[i - 1] /\ u[i] \in Int /\ u[i - 1] \in Int
      BY <1>0, <1>1, <3>1
    <3> QED
      BY <3>2, <3>3
  <2> QED
    BY <1>1, <2>1, StepsRise
<1>3. Rise(t, v) \in Int /\ Rise(t, v) >= 0
  BY <1>1, <1>2, RiseOfRising
<1>4. w \in Seq(Int) /\ Len(w) = n /\ \A i \in 1..n : w[i] = t[i] * u[i]
  <2>1. w \in [1..n -> Int] /\ \A i \in 1..n : w[i] = t[i] * u[i]
    BY <1>0 DEF Times_
  <2> HIDE DEF w
  <2>2. w \in Seq(Int) /\ Len(w) = n
    BY <1>0, <2>1, FunctionIsSeq
  <2> QED
    BY <1>0, <2>1, <2>2
<1>5. x \in Seq(Int) /\ Len(x) = n /\ \A i \in 1..n : x[i] = t[i] * v[i]
  <2>1. x \in [1..n -> Int] /\ \A i \in 1..n : x[i] = t[i] * v[i]
    BY <1>0, <1>1 DEF Times_
  <2> HIDE DEF x
  <2>2. x \in Seq(Int) /\ Len(x) = n
    BY <1>0, <2>1, FunctionIsSeq
  <2> QED
    BY <1>0, <2>1, <2>2
<1>6. Rise(t, u) = n * Sum(w) - Sum(t) * Sum(u) /\ Rise(t, v) = n * Sum(x) - Sum(t) * Sum(v)
  BY DEF Rise
<1> HIDE DEF w, x
<1>7. Sum(w) \in Int /\ Sum(x) \in Int /\ Sum(t) \in Int /\ Sum(u) \in Int /\ Sum(v) \in Int
  BY <1>1, <1>4, <1>5, SumTyped
<1>8. Sum(v) = -Sum(u)
  BY <1>1, SumNegated
<1>9. Sum(x) = -Sum(w)
  <2>1. ASSUME NEW i \in 1..n
        PROVE  x[i] = -w[i]
    <3>1. PICK a \in Int, b \in Int : a = t[i] /\ b = u[i]
      BY <1>0
    <3>2. x[i] = a * (-b) /\ w[i] = a * b
      BY <1>1, <1>4, <1>5, <3>1
    <3> QED
      BY <3>2
  <2> QED
    BY <1>4, <1>5, <2>1, SumNegated
<1>10. PICK a \in Int, b \in Int, c \in Int : a = Sum(w) /\ b = Sum(t) /\ c = Sum(u)
  BY <1>7
<1>11. Rise(t, v) = n * (-a) - b * (-c) /\ Rise(t, u) = n * a - b * c
  BY <1>6, <1>8, <1>9, <1>10
<1>12. n * (-a) - b * (-c) = -(n * a - b * c) /\ n * a - b * c \in Int
  BY <1>0
<1> QED
  BY <1>3, <1>11, <1>12
----------------------------------------------------------------------------
\* The readings of a forecast: their days, what they find used and the totals.
LEMMA ForecastTyped ==
  ASSUME NEW q \in Planner!ForecastRequests
  PROVE  /\ q.about = "forecast" /\ q.later \in Nat
         /\ q.day \in Seq(Int) /\ q.used \in Seq(Int) /\ q.total \in Seq(Int)
         /\ Len(q.day) = Len(q.used) /\ Len(q.total) = Len(q.used)
         /\ Len(q.used) \in Nat /\ Len(q.used) >= 1
         /\ \A i \in 1..Len(q.used) :
              /\ q.day[i] \in Int /\ q.used[i] \in Int /\ q.used[i] >= 0
              /\ q.total[i] \in Int /\ q.total[i] > 0
         /\ \/ \A i \in 2..Len(q.used) : q.day[i - 1] < q.day[i]
            \/ \A i \in 2..Len(q.used) : q.day[i] = 0
         /\ q.day[1] = 0
<1>1. /\ q.about = "forecast" /\ q.later \in 0..1 /\ q.day \in Planner!Days
      /\ q.used \in Planner!Some(Levels, MaxReadings) /\ Len(q.day) = Len(q.used)
      /\ q.total \in Planner!Some(Totals, MaxReadings) /\ Len(q.total) = Len(q.used)
  BY DEF Planner!ForecastRequests
<1>2. /\ MaxReadings \in Nat /\ MaxDay \in Nat /\ Levels \subseteq Nat
      /\ Totals \subseteq Nat \ {0}
  BY AnalysisAssumption DEF AnalysisAssumption, Planner!PlannersAssumption
<1>3. q.day \in Planner!Some(0..MaxDay, MaxReadings) /\ q.day[1] = 0
  BY <1>1 DEF Planner!Days
<1>4. \/ \A i \in 2..Len(q.day) : q.day[i - 1] < q.day[i]
      \/ \A i \in 2..Len(q.day) : q.day[i] = 0
  BY <1>1 DEF Planner!Days
<1>5. q.day \in Seq(0..MaxDay)
  BY <1>2, <1>3, ListsOf
<1>6. /\ q.used \in Seq(Levels) /\ Len(q.used) \in Nat /\ Len(q.used) >= 1
      /\ q.total \in Seq(Totals)
  BY <1>1, <1>2, ListsOf
<1>7. q.day \in Seq(Int) /\ q.used \in Seq(Int) /\ q.total \in Seq(Int)
  <2>1. \A S, T : S \subseteq T => Seq(S) \subseteq Seq(T)
    OBVIOUS
  <2>2. 0..MaxDay \subseteq Int /\ Levels \subseteq Int /\ Totals \subseteq Int
    BY <1>2
  <2> QED
    BY <1>5, <1>6, <2>1, <2>2
<1>8. ASSUME NEW i \in 1..Len(q.used)
      PROVE  /\ q.day[i] \in Int /\ q.used[i] \in Int /\ q.used[i] >= 0
             /\ q.total[i] \in Int /\ q.total[i] > 0
  <2>1. q.day[i] \in Int
    BY <1>1, <1>7, ElementOfSeq
  <2>2. q.used[i] \in Levels
    BY <1>6, ElementOfSeq
  <2>3. q.total[i] \in Totals
    BY <1>1, <1>6, ElementOfSeq
  <2>4. q.used[i] \in Nat
    BY <1>2, <2>2
  <2>5. q.total[i] \in Nat \ {0}
    BY <1>2, <2>3
  <2>6. \A n \in Nat : n \in Int /\ n >= 0 /\ (n # 0 => n > 0)
    OBVIOUS
  <2> QED
    BY <2>1, <2>4, <2>5, <2>6, Zenon
<1>9. /\ \/ \A i \in 2..Len(q.used) : q.day[i - 1] < q.day[i]
         \/ \A i \in 2..Len(q.used) : q.day[i] = 0
  BY <1>1, <1>4
<1>10. q.later \in Nat
  BY <1>1
<1> QED
  BY <1>1, <1>3, <1>6, <1>7, <1>8, <1>9, <1>10, Zenon

\* The days from the first reading on.
Since1(q) == [i \in 1..Len(q.used) |-> q.day[i] - q.day[1]]

\* They start at 0 and are in order.
LEMMA DaysInOrder ==
  ASSUME NEW q \in Planner!ForecastRequests, Planner!Fits(q)
  PROVE  /\ Since1(q) \in Seq(Int) /\ Len(Since1(q)) = Len(q.used)
         /\ \A i \in 1..Len(q.used) : Since1(q)[i] = q.day[i] - q.day[1]
         /\ Rises(Since1(q), Len(q.used))
         /\ Since1(q)[1] = 0 /\ Since1(q)[Len(q.used)] = Planner!Lasted(q)
         /\ Planner!Lasted(q) \in Int /\ Planner!Lasted(q) > 0 /\ Len(q.used) >= 3
<1> DEFINE n == Len(q.used)
           t == Since1(q)
<1>0. /\ n \in Nat /\ n >= 3 /\ 1 \in 1..n /\ n \in 1..n
      /\ Planner!Lasted(q) >= 1 /\ Planner!Lasted(q) = q.day[n] - q.day[1]
  BY ForecastTyped DEF Planner!Fits, Planner!LastOf, Planner!Lasted
<1>1. /\ \A i \in 1..n : q.day[i] \in Int
      /\ \A i \in 2..n : q.day[i - 1] < q.day[i]
  <2>1. \A i \in 1..n : q.day[i] \in Int
    BY ForecastTyped
  <2>2. ~(\A i \in 2..n : q.day[i] = 0)
    <3>1. q.day[1] = 0
      BY ForecastTyped
    <3>2. n \in 2..n
      BY <1>0
    <3> QED
      BY <1>0, <3>1, <3>2
  <2> QED
    BY <2>1, <2>2, ForecastTyped
<1>2. t \in [1..n -> Int] /\ \A i \in 1..n : t[i] = q.day[i] - q.day[1]
  BY <1>0, <1>1 DEF Since1
<1> HIDE DEF t
<1>3. t \in Seq(Int) /\ Len(t) = n
  BY <1>0, <1>2, FunctionIsSeq
<1>4. ASSUME NEW i \in 2..n
      PROVE  t[i - 1] <= t[i]
  <2>1. i \in 1..n /\ i - 1 \in 1..n
    OBVIOUS
  <2>2. /\ t[i] = q.day[i] - q.day[1] /\ t[i - 1] = q.day[i - 1] - q.day[1]
        /\ q.day[i] \in Int /\ q.day[i - 1] \in Int /\ q.day[1] \in Int
        /\ q.day[i - 1] < q.day[i]
    BY <1>0, <1>1, <1>2, <2>1
  <2> QED
    BY <2>2
<1>5. Rises(t, n)
  BY <1>3, <1>4, StepsRise
<1>6. t[1] = 0 /\ t[n] = Planner!Lasted(q) /\ Planner!Lasted(q) \in Int
  BY <1>0, <1>1, <1>2
<1> QED
  BY <1>0, <1>2, <1>3, <1>5, <1>6 DEF t

\* FitLinear by rise and spread.
LEMMA LineFitted ==
  ASSUME NEW q \in Planner!ForecastRequests, Planner!Fits(q)
  PROVE  LET l == Planner!FitLinear(q)
             t == Since1(q)
         IN /\ l.n = Len(q.used)
            /\ l.rise = Rise(t, q.used) /\ l.rise \in Int
            /\ l.spread = Rise(t, t) /\ l.spread \in Int /\ l.spread > 0
            /\ l.base = Sum(q.used) * l.spread - l.rise * Sum(t)
<1> DEFINE n == Len(q.used)
           t == Since1(q)
           u == q.used
           l == Planner!FitLinear(q)
<1>0. /\ t \in Seq(Int) /\ Len(t) = n /\ n \in Nat /\ n >= 1 /\ u \in Seq(Int)
      /\ \A i \in 1..n : t[i] \in Int /\ u[i] \in Int
  BY ForecastTyped, DaysInOrder, ElementOfSeq
<1>1. l = [n |-> n, rise |-> Rise(t, u), spread |-> Rise(t, t),
           base |-> Sum(u) * Rise(t, t) - Rise(t, u) * Sum(t)]
  <2>1. Rise(t, u) = n * Sum([i \in 1..n |-> t[i] * u[i]]) - Sum(t) * Sum(u)
    BY <1>0 DEF Rise, Times_
  <2>2. Rise(t, t) = n * Sum([i \in 1..n |-> t[i] * t[i]]) - Sum(t) * Sum(t)
    BY <1>0 DEF Rise, Times_
  <2>3. l = [n |-> n,
             rise |-> n * Sum([i \in 1..n |-> t[i] * u[i]]) - Sum(t) * Sum(u),
             spread |-> n * Sum([i \in 1..n |-> t[i] * t[i]]) - Sum(t) * Sum(t),
             base |-> Sum(u) * (n * Sum([i \in 1..n |-> t[i] * t[i]]) - Sum(t) * Sum(t))
                        - (n * Sum([i \in 1..n |-> t[i] * u[i]]) - Sum(t) * Sum(u)) * Sum(t)]
    BY SumsAgree DEF Planner!FitLinear, Planner!LastOf, Since1
  <2> HIDE DEF l, t, u, n
  <2> QED
    BY <2>1, <2>2, <2>3
<1> HIDE DEF l
<1>2. Rises(t, n)
  BY DaysInOrder
<1>3. Rise(t, t) \in Int /\ Rise(t, t) > 0
  <2>1. t[1] < t[n]
    BY DaysInOrder
  <2> QED
    BY <1>0, <1>2, <2>1, RiseOfRising
<1>4. Rise(t, u) \in Int
  <2> DEFINE w == Times_(t, u)
  <2>1. w \in [1..n -> Int]
    BY <1>0 DEF Times_
  <2> HIDE DEF w
  <2>2. w \in Seq(Int)
    BY <1>0, <2>1, FunctionIsSeq
  <2>3. Sum(w) \in Int /\ Sum(t) \in Int /\ Sum(u) \in Int
    BY <1>0, <2>2, SumTyped
  <2> QED
    BY <1>0, <2>3 DEF Rise, w
<1> QED
  BY <1>1, <1>3, <1>4 DEF l

\* Of readings on a line, the line fitted is that line.
LEMMA LineOfLine ==
  ASSUME NEW q \in Planner!ForecastRequests, Planner!Fits(q), Planner!OnALine(q)
  PROVE  LET l == Planner!FitLinear(q)
         IN /\ Planner!Lasted(q) * l.rise = Planner!Grown(q) * l.spread
            /\ l.base = l.n * q.used[1] * l.spread
<1> DEFINE n == Len(q.used)
           t == Since1(q)
           u == q.used
           w == Times_(t, u)
           s == Times_(t, t)
           l == Planner!FitLinear(q)
           T == Planner!Lasted(q)
           G == Planner!Grown(q)
<1>0. /\ t \in Seq(Int) /\ Len(t) = n /\ n \in Nat /\ n >= 1 /\ u \in Seq(Int)
      /\ \A i \in 1..n : t[i] \in Int /\ u[i] \in Int /\ t[i] = q.day[i] - q.day[1]
      /\ T \in Int /\ T > 0 /\ G = u[n] - u[1] /\ Len(u) = n
  BY ForecastTyped, DaysInOrder, ElementOfSeq DEF Planner!Grown, Planner!LastOf
<1>1. G \in Int /\ u[1] \in Int /\ T \in Int
  BY <1>0
<1>2. \A i \in 1..n : (u[i] - u[1]) * T = G * t[i]
  BY <1>0 DEF Planner!OnALine, Planner!LastOf
<1>3. /\ l.n = n /\ l.rise = Rise(t, u) /\ l.rise \in Int
      /\ l.spread = Rise(t, t) /\ l.spread \in Int
      /\ l.base = Sum(u) * l.spread - l.rise * Sum(t)
  BY LineFitted
<1>4. w \in Seq(Int) /\ Len(w) = n /\ \A i \in 1..n : w[i] = t[i] * u[i]
  <2>1. w \in [1..n -> Int] /\ \A i \in 1..n : w[i] = t[i] * u[i]
    BY <1>0 DEF Times_
  <2> HIDE DEF w
  <2> QED
    BY <1>0, <2>1, FunctionIsSeq
<1>5. s \in Seq(Int) /\ Len(s) = n /\ \A i \in 1..n : s[i] = t[i] * t[i]
  <2>1. s \in [1..n -> Int] /\ \A i \in 1..n : s[i] = t[i] * t[i]
    BY <1>0 DEF Times_
  <2> HIDE DEF s
  <2> QED
    BY <1>0, <2>1, FunctionIsSeq
<1>6. Rise(t, u) = n * Sum(w) - Sum(t) * Sum(u) /\ Rise(t, t) = n * Sum(s) - Sum(t) * Sum(t)
  BY <1>0 DEF Rise
<1> HIDE DEF T, G, l, t, u, w, s
<1> DEFINE f == u[1]
<1>7. PICK z \in Int, e \in Int : z = 0 /\ e = T * f
  BY <1>0, <1>1
<1>8. T * Sum(u) = G * Sum(t) + n * (T * f)
  <2>1. Linear(u, t, t, T, G, e, z)
    <3>1. ASSUME NEW i \in 1..n
          PROVE  T * u[i] = G * t[i] + z * t[i] + e
      <4>1. PICK a \in Int, b \in Int, c \in Int : a = u[i] /\ b = t[i] /\ c = u[1]
        BY <1>0, <1>1
      <4>2. (a - c) * T = G * b /\ e = T * c
        BY <1>2, <1>7, <4>1
      <4>3. T * a = G * b + z * b + e
        BY <1>0, <1>1, <1>7, <4>2
      <4> QED
        BY <4>1, <4>3
    <3> QED
      BY <1>0, <3>1 DEF Linear
  <2>2. T * Sum(u) = G * Sum(t) + z * Sum(t) + n * e
    BY <1>0, <1>1, <1>7, <2>1, SumsLinear
  <2>3. Sum(t) \in Int
    BY <1>0, SumTyped
  <2>4. z * Sum(t) = 0
    BY <1>7, <2>3
  <2>5. G * Sum(t) \in Int /\ n * e \in Int
    BY <1>0, <1>1, <1>7, <2>3
  <2> QED
    BY <1>7, <2>2, <2>4, <2>5
<1>9. T * Sum(w) = G * Sum(s) + (T * f) * Sum(t)
  <2>1. Linear(w, s, t, T, G, z, e)
    <3>1. ASSUME NEW i \in 1..n
          PROVE  T * w[i] = G * s[i] + e * t[i] + z
      <4>1. PICK a \in Int, b \in Int, c \in Int : a = u[i] /\ b = t[i] /\ c = u[1]
        BY <1>0, <1>1
      <4>2. (a - c) * T = G * b /\ e = T * c /\ w[i] = b * a /\ s[i] = b * b
        BY <1>2, <1>4, <1>5, <1>7, <4>1
      <4>3. b * ((a - c) * T) = b * (G * b)
        BY <4>2
      <4>4. b * ((a - c) * T) = T * (b * a) - (T * c) * b /\ b * (G * b) = G * (b * b)
        BY <1>1
      <4>5. T * (b * a) \in Int /\ (T * c) * b \in Int /\ G * (b * b) \in Int
        BY <1>0, <1>1
      <4>6. T * (b * a) = G * (b * b) + (T * c) * b + z
        BY <1>7, <4>3, <4>4, <4>5
      <4> QED
        BY <4>1, <4>2, <4>6
    <3> QED
      BY <1>0, <1>4, <1>5, <3>1 DEF Linear
  <2>2. T * Sum(w) = G * Sum(s) + e * Sum(t) + n * z
    BY <1>0, <1>1, <1>4, <1>5, <1>7, <2>1, SumsLinear
  <2>3. Sum(t) \in Int /\ Sum(s) \in Int
    BY <1>0, <1>5, SumTyped
  <2>4. n * z = 0
    BY <1>0, <1>7
  <2>5. G * Sum(s) \in Int /\ e * Sum(t) \in Int
    BY <1>1, <1>7, <2>3
  <2> QED
    BY <1>7, <2>2, <2>4, <2>5
<1>10. /\ Sum(u) \in Int /\ Sum(t) \in Int /\ Sum(w) \in Int /\ Sum(s) \in Int
       /\ n \in Int /\ f \in Int
  BY <1>0, <1>1, <1>4, <1>5, SumTyped
<1>11. l.rise = n * Sum(w) - Sum(t) * Sum(u) /\ l.spread = n * Sum(s) - Sum(t) * Sum(t)
  BY <1>3, <1>6
<1>12. /\ T * l.rise = G * l.spread
       /\ Sum(u) * l.spread - l.rise * Sum(t) = n * f * l.spread
  <2>1. LinedUp(n, T, G, f, Sum(u), Sum(t), Sum(w), Sum(s), l.rise, l.spread)
    BY <1>0, <1>1, <1>8, <1>9, <1>10, <1>11 DEF LinedUp
  <2> HIDE DEF f
  <2> QED
    BY <2>1, OnLine
<1> QED
  BY <1>3, <1>12 DEF l, T, G, u
\* What is not negative has a quotient that is not.
LEMMA QuotientNat ==
  ASSUME NEW a \in Int, a >= 0, NEW b \in Int, b > 0
  PROVE  a \div b \in Nat
<1> DEFINE q == a \div b
<1>1. q \in Int /\ a < b * q + b
  BY Quotient
<1> HIDE DEF q
<1>2. b * 0 < b * (q + 1)
  <2>1. b * (q + 1) = b * q + b /\ b * 0 = 0 /\ b * q \in Int
    BY <1>1
  <2> QED
    BY <1>1, <2>1
<1>3. 0 < q + 1
  BY <1>1, <1>2, Cancel
<1> QED
  BY <1>1, <1>3 DEF q

\* What is used of a total, b of M in place of a of m: a smaller share if less is
\* used of no less, a larger one if more is used of no more.
LEMMA SharesMove ==
  ASSUME NEW a \in Int, a >= 0, NEW b \in Int, b >= 0,
         NEW m \in Int, m > 0, NEW M \in Int, M > 0
  PROVE  /\ b * m - a * M \in Int
         /\ b <= a /\ m <= M => b * m - a * M <= 0
         /\ a < b /\ M <= m => b * m - a * M > 0
<1>1. /\ b * m \in Int /\ a * M \in Int /\ a * m \in Int
      /\ m * b = b * m /\ m * a = a * m
  OBVIOUS
<1>2. ASSUME b <= a, m <= M
      PROVE  b * m <= a * M
  <2>1. m * b <= m * a
    BY <1>2, Cancel
  <2>2. CASE a = 0
    BY <1>1, <2>1, <2>2
  <2>3. CASE a > 0
    <3>1. a * m <= a * M
      BY <1>2, <2>3, Cancel
    <3> QED
      BY <1>1, <2>1, <3>1
  <2> QED
    BY <2>2, <2>3
<1>3. ASSUME a < b, M <= m
      PROVE  b * m > a * M
  <2>1. m * a < m * b
    BY <1>3, Cancel
  <2>2. CASE a = 0
    BY <1>1, <2>1, <2>2
  <2>3. CASE a > 0
    <3>1. a * M <= a * m
      BY <1>3, <2>3, Cancel
    <3> QED
      BY <1>1, <2>1, <3>1
  <2> QED
    BY <2>2, <2>3
<1> QED
  BY <1>1, <1>2, <1>3

\* Of one total, the share grows as what is used does, and the total cancels.
LEMMA SharesOfOne ==
  ASSUME NEW f \in Int, NEW G \in Int, NEW m \in Int, m > 0, NEW x \in Int, NEW T \in Int
  PROVE  LET P == (f + G) * m - f * m
         IN /\ P <= 0 <=> G <= 0
            /\ G > 0 => ((x * T) * m) \div (100 * P) = (x * T) \div (100 * G)
<1> DEFINE P == (f + G) * m - f * m
<1>1. P = m * G /\ P \in Int
  OBVIOUS
<1> HIDE DEF P
<1>2. P <= 0 <=> G <= 0
  <2>1. m * G <= m * 0 <=> G <= 0
    BY Cancel
  <2>2. m * 0 = 0
    OBVIOUS
  <2> QED
    BY <1>1, <2>1, <2>2
<1>3. ASSUME G > 0
      PROVE  ((x * T) * m) \div (100 * P) = (x * T) \div (100 * G)
  <2> DEFINE c == x * T
  <2>1. c \in Int
    OBVIOUS
  <2> HIDE DEF c
  <2>2. c * m \in Int /\ 100 * P \in Int /\ 100 * P > 0 /\ 100 * G \in Int /\ 100 * G > 0
    BY <1>1, <1>2, <1>3, <2>1
  <2>3. (c * m) * (100 * G) = c * (100 * P)
    <3>1. (c * m) * (100 * G) = c * (100 * (m * G))
      BY <2>1
    <3> QED
      BY <1>1, <3>1
  <2>4. (c * m) \div (100 * P) = c \div (100 * G)
    BY <2>1, <2>2, <2>3, SameFraction
  <2> QED
    BY <2>4 DEF c
<1> QED
  BY <1>2, <1>3 DEF P

\* What never rises is no more at the end than at the start, what never falls no
\* less.
LEMMA EndsOf ==
  ASSUME NEW u \in Seq(Int), Len(u) >= 1
  PROVE  /\ Falls(u) => u[Len(u)] <= u[1]
         /\ (\A i \in 2..Len(u) : u[i - 1] <= u[i]) => u[1] <= u[Len(u)]
<1> DEFINE n == Len(u)
<1>0. n \in Nat /\ 1 \in 1..n /\ n \in 1..n /\ \A i \in 1..n : u[i] \in Int
  BY ElementOfSeq
<1>1. ASSUME Falls(u)
      PROVE  u[n] <= u[1]
  <2> DEFINE v == [i \in 1..n |-> -u[i]]
  <2>1. v \in [1..n -> Int] /\ \A i \in 1..n : v[i] = -u[i]
    BY <1>0
  <2> HIDE DEF v
  <2>2. v \in Seq(Int) /\ Len(v) = n
    BY <1>0, <2>1, FunctionIsSeq
  <2>3. ASSUME NEW i \in 2..n
        PROVE  v[i - 1] <= v[i]
    <3>1. i \in 1..n /\ i - 1 \in 1..n
      OBVIOUS
    <3>2. v[i] = -u[i] /\ v[i - 1] = -u[i - 1]
          /\ u[i] \in Int /\ u[i - 1] \in Int /\ u[i] <= u[i - 1]
      BY <1>0, <1>1, <2>1, <3>1 DEF Falls
    <3> QED
      BY <3>2
  <2>4. Rises(v, n)
    BY <2>2, <2>3, StepsRise
  <2>5. v[1] <= v[n]
    BY <1>0, <2>4 DEF Rises
  <2>6. v[1] = -u[1] /\ v[n] = -u[n] /\ u[1] \in Int /\ u[n] \in Int
    BY <1>0, <2>1
  <2> QED
    BY <2>5, <2>6
<1>2. ASSUME \A i \in 2..n : u[i - 1] <= u[i]
      PROVE  u[1] <= u[n]
  <2>1. Rises(u, n)
    BY <1>2, StepsRise
  <2> QED
    BY <1>0, <2>1 DEF Rises
<1> QED
  BY <1>1, <1>2

\* What the two forecasts of a request are computed from.
LEMMA ForecastTerms ==
  ASSUME NEW q \in Planner!ForecastRequests, Planner!Fits(q)
  PROVE  LET l == Planner!FitLinear(q)
             n == Len(q.used)
             G == Planner!Grown(q)
             T == Planner!Lasted(q)
             P == q.used[n] * q.total[1] - q.used[1] * q.total[n]
             now == 100 * (n * l.rise * (T + q.later) + l.base)
             goal == 80 * q.total[n] * n * l.spread
         IN /\ n \in Int /\ n >= 3 /\ T \in Int /\ T > 0 /\ G \in Int
            /\ q.used[1] \in Int /\ q.used[n] \in Int /\ q.used[n] = q.used[1] + G
            /\ q.used[1] >= 0 /\ q.used[n] >= 0
            /\ q.total[1] \in Int /\ q.total[1] > 0 /\ q.total[n] \in Int /\ q.total[n] > 0
            /\ l.rise \in Int /\ l.spread \in Int /\ l.spread > 0 /\ l.base \in Int
            /\ now \in Int /\ goal \in Int /\ q.later \in Nat
            /\ Planner!DaysUntilEighty(q) =
                 IF l.rise <= 0 THEN -1
                 ELSE IF now >= goal THEN 0 ELSE (goal - now) \div (100 * n * l.rise)
            /\ Planner!DaysUntilFull(q) =
                 IF P <= 0 THEN -1
                 ELSE IF 100 * q.used[n] >= 80 * q.total[n] THEN 0
                 ELSE (((80 * q.total[n] - 100 * q.used[n]) * T) * q.total[1]) \div (100 * P)
<1> DEFINE l == Planner!FitLinear(q)
           n == Len(q.used)
           M == q.total[n]
           G == Planner!Grown(q)
           T == Planner!Lasted(q)
           P == q.used[n] * q.total[1] - q.used[1] * q.total[n]
           now == 100 * (n * l.rise * (T + q.later) + l.base)
           goal == 80 * M * n * l.spread
<1>1. /\ q.used \in Seq(Int) /\ n \in Nat /\ q.later \in Nat
      /\ \A i \in 1..n : /\ q.used[i] \in Int /\ q.used[i] >= 0
                         /\ q.total[i] \in Int /\ q.total[i] > 0
  BY ForecastTyped
<1>2. n >= 3 /\ T \in Int /\ T > 0 /\ Since1(q) \in Seq(Int) /\ 1 \in 1..n /\ n \in 1..n
  BY <1>1, DaysInOrder
<1>3. q.total[1] \in Int /\ q.total[1] > 0 /\ M \in Int /\ M > 0
  BY <1>1, <1>2
<1>4. /\ l.n = n /\ l.rise \in Int /\ l.spread \in Int /\ l.spread > 0
      /\ l.base = Sum(q.used) * l.spread - l.rise * Sum(Since1(q))
  BY LineFitted
<1>5. l.base \in Int
  <2>1. Sum(q.used) \in Int /\ Sum(Since1(q)) \in Int
    BY <1>1, <1>2, SumTyped
  <2> HIDE DEF l
  <2> QED
    BY <1>4, <2>1
<1>6. /\ q.used[1] \in Int /\ q.used[n] \in Int /\ G = q.used[n] - q.used[1]
      /\ q.used[1] >= 0 /\ q.used[n] >= 0
  BY <1>1, <1>2 DEF Planner!Grown, Planner!LastOf
<1>7. Planner!DaysUntilEighty(q) =
        IF l.rise <= 0 THEN -1
        ELSE IF now >= goal THEN 0 ELSE (goal - now) \div (100 * n * l.rise)
  BY <1>4 DEF Planner!DaysUntilEighty, Planner!FromOrigin, Planner!LastOf
<1>8. Planner!DaysUntilFull(q) =
        IF P <= 0 THEN -1
        ELSE IF 100 * q.used[n] >= 80 * M THEN 0
        ELSE (((80 * M - 100 * q.used[n]) * T) * q.total[1]) \div (100 * P)
  <2>1. n >= 2 /\ T > 0
    BY <1>1, <1>2
  <2>2. Planner!LastOf(q) = n /\ Planner!PctGrown(q) = P
    BY DEF Planner!LastOf, Planner!PctGrown
  <2> HIDE DEF n, T, P
  <2>3. ~(n < 2 \/ T <= 0)
    BY <1>1, <1>2, <2>1
  <2> QED
    BY <2>2, <2>3 DEF Planner!DaysUntilFull, T
<1> HIDE DEF l, G, T, M
<1>9. now \in Int /\ goal \in Int
  <2>1. n \in Int /\ l.rise \in Int /\ T + q.later \in Int
    BY <1>1, <1>2, <1>4
  <2>2. n * l.rise \in Int
    BY <2>1
  <2>3. (n * l.rise) * (T + q.later) \in Int
    BY <2>1, <2>2
  <2>4. 80 * M * n \in Int
    BY <1>3, <2>1
  <2>5. (80 * M * n) * l.spread \in Int
    BY <1>4, <2>4
  <2> QED
    BY <1>5, <2>3, <2>5
<1>10. /\ n \in Int /\ q.used[n] = q.used[1] + G /\ G \in Int
  BY <1>1, <1>6
<1> QED
  BY <1>1, <1>2, <1>3, <1>4, <1>5, <1>6, <1>7, <1>8, <1>9, <1>10, Zenon DEF l, G, T, M

\* The two forecasts of a request agree.
LEMMA ForecastsOfRequest ==
  ASSUME plan \in Planner!ForecastRequests
  PROVE  Planner!ForecastsAgree
<1> SUFFICES ASSUME Planner!Fits(plan)
             PROVE  /\ (Planner!OnALine(plan) /\ Planner!SameTotal(plan)
                         /\ Planner!Grown(plan) > 0) =>
                         LET later == Planner!DaysUntilFull(plan) - plan.later
                         IN Planner!DaysUntilEighty(plan) = IF later < 0 THEN 0 ELSE later
                    /\ (\A i \in 2..Len(plan.used) :
                          plan.used[i] <= plan.used[i - 1]
                          /\ plan.total[i] >= plan.total[i - 1]) =>
                         Planner!DaysUntilFull(plan) = -1 /\ Planner!DaysUntilEighty(plan) = -1
                    /\ (\A i \in 2..Len(plan.used) :
                          plan.used[i] > plan.used[i - 1]
                          /\ plan.total[i] <= plan.total[i - 1]) =>
                         Planner!DaysUntilFull(plan) >= 0 /\ Planner!DaysUntilEighty(plan) >= 0
  BY DEF Planner!ForecastsAgree, Planner!LastOf
<1> DEFINE q == plan
           l == Planner!FitLinear(q)
           n == Len(q.used)
           G == Planner!Grown(q)
           T == Planner!Lasted(q)
           f == q.used[1]
           m == q.total[1]
           M == q.total[n]
           P == q.used[n] * m - f * M
           now == 100 * (n * l.rise * (T + q.later) + l.base)
           goal == 80 * M * n * l.spread
           eighty == Planner!DaysUntilEighty(q)
           full == Planner!DaysUntilFull(q)
           t == Since1(q)
<1>1. /\ n \in Nat /\ n >= 3 /\ T \in Int /\ T > 0 /\ G \in Int
      /\ f \in Int /\ q.used[n] \in Int /\ q.used[n] = f + G
      /\ l.rise \in Int /\ l.spread \in Int /\ l.spread > 0 /\ l.base \in Int
      /\ now \in Int /\ goal \in Int /\ q.later \in Nat
      /\ f >= 0 /\ q.used[n] >= 0 /\ m \in Int /\ m > 0 /\ M \in Int /\ M > 0
  BY ForecastTerms, ForecastTyped
<1>2. eighty = IF l.rise <= 0 THEN -1
               ELSE IF now >= goal THEN 0 ELSE (goal - now) \div (100 * n * l.rise)
  BY ForecastTerms
<1>3. full = IF P <= 0 THEN -1
             ELSE IF 100 * q.used[n] >= 80 * M THEN 0
             ELSE (((80 * M - 100 * q.used[n]) * T) * m) \div (100 * P)
  BY ForecastTerms
<1>9. P \in Int
  BY <1>1, SharesMove
<1>4. /\ t \in Seq(Int) /\ Len(t) = n /\ Rises(t, n) /\ t[1] < t[n]
      /\ q.used \in Seq(Int) /\ l.rise = Rise(t, q.used)
  BY <1>1, ForecastTyped, DaysInOrder, LineFitted
<1>8. /\ q.total \in Seq(Int) /\ Len(q.total) = n
      /\ \A i \in 1..n : q.used[i] \in Int /\ q.total[i] \in Int
  BY ForecastTyped
<1>5. ASSUME Planner!OnALine(q), Planner!SameTotal(q), G > 0
      PROVE  eighty = IF full - q.later < 0 THEN 0 ELSE full - q.later
  <2>1. T * l.rise = G * l.spread /\ l.base = n * f * l.spread
    BY <1>5, LineOfLine, LineFitted
  <2>6. M = m
    <3>1. n \in 1..n
      BY <1>1
    <3>2. \A i \in 1..n : q.total[i] = m
      BY <1>5, Zenon DEF Planner!SameTotal, Planner!LastOf
    <3> QED
      BY <3>1, <3>2, Zenon
  <2> HIDE DEF eighty, full, l, G, T, f, n, m, M
  <2>2. Reaches(n, T, G, f, l.rise, l.spread, q.later, M, now, goal)
    BY <1>1, <1>5, <2>1 DEF Reaches
  <2> HIDE DEF now, goal
  <2> DEFINE first == IF 100 * (f + G) >= 80 * M THEN 0
                      ELSE ((80 * M - 100 * (f + G)) * T) \div (100 * G)
  <2>3. /\ l.rise > 0
        /\ (IF now >= goal THEN 0 ELSE (goal - now) \div (100 * n * l.rise))
           = IF first - q.later < 0 THEN 0 ELSE first - q.later
    BY <2>2, ForecastOnLine
  <2>4. full = first
    <3> DEFINE x == 80 * M - 100 * (f + G)
    <3>1. x \in Int
      BY <1>1
    <3>2. P = (f + G) * m - f * m
      BY <1>1, <2>6
    <3> HIDE DEF x, P
    <3>3. ~(P <= 0) /\ ((x * T) * m) \div (100 * P) = (x * T) \div (100 * G)
      BY <1>1, <1>5, <3>1, <3>2, SharesOfOne
    <3>4. full = IF 100 * (f + G) >= 80 * M THEN 0 ELSE ((x * T) * m) \div (100 * P)
      BY <1>1, <1>3, <3>3 DEF x
    <3> QED
      BY <3>3, <3>4 DEF x
  <2>5. eighty = IF now >= goal THEN 0 ELSE (goal - now) \div (100 * n * l.rise)
    BY <1>1, <1>2, <2>3
  <2> HIDE DEF first
  <2> QED
    BY <2>3, <2>4, <2>5
<1>6. ASSUME \A i \in 2..n : q.used[i] <= q.used[i - 1] /\ q.total[i] >= q.total[i - 1]
      PROVE  full = -1 /\ eighty = -1
  <2>1. Falls(q.used) /\ \A i \in 2..n : q.total[i - 1] <= q.total[i]
    <3>1. ASSUME NEW i \in 2..n
          PROVE  q.used[i] <= q.used[i - 1] /\ q.total[i - 1] <= q.total[i]
      <4>1. i \in 1..n /\ i - 1 \in 1..n
        OBVIOUS
      <4>2. q.total[i] \in Int /\ q.total[i - 1] \in Int
        BY <1>8, <4>1
      <4> QED
        BY <1>6, <4>2
    <3> QED
      BY <3>1 DEF Falls
  <2>2. l.rise <= 0
    BY <1>1, <1>4, <2>1, RiseOfFalling
  <2>3. q.used[n] <= f /\ m <= M
    <3>1. Len(q.used) = n /\ Len(q.used) >= 1 /\ Len(q.total) = n /\ Len(q.total) >= 1
      BY <1>1, <1>8
    <3>2. q.used[Len(q.used)] <= q.used[1]
      BY <1>4, <2>1, <3>1, EndsOf, Zenon
    <3>3. q.total[1] <= q.total[Len(q.total)]
      BY <1>8, <2>1, <3>1, EndsOf, Zenon
    <3> QED
      BY <3>1, <3>2, <3>3, Zenon
  <2>4. P <= 0
    <3> HIDE DEF f, m, M, n
    <3> QED
      BY <1>1, <2>3, SharesMove
  <2> HIDE DEF eighty, full, l, P
  <2> QED
    BY <1>2, <1>3, <2>2, <2>4
<1>7. ASSUME \A i \in 2..n : q.used[i] > q.used[i - 1] /\ q.total[i] <= q.total[i - 1]
      PROVE  full >= 0 /\ eighty >= 0
  <2>1. \A i \in 2..n : q.used[i - 1] <= q.used[i]
    <3> SUFFICES ASSUME NEW i \in 2..n
                 PROVE  q.used[i - 1] <= q.used[i]
      OBVIOUS
    <3>1. i \in 1..n /\ i - 1 \in 1..n
      OBVIOUS
    <3>2. q.used[i] \in Int /\ q.used[i - 1] \in Int /\ q.used[i] > q.used[i - 1]
      BY <1>8, <1>7, <3>1
    <3> QED
      BY <3>2
  <2>2. Rises(q.used, n)
    BY <1>4, <2>1, StepsRise
  <2>3. q.used[1] < q.used[n]
    <3>1. /\ 2 \in 2..n /\ 2 \in 1..n /\ n \in 1..n /\ 1 \in 1..n /\ 2 - 1 = 1
      <4>1. n \in Nat /\ n >= 3
        BY <1>1
      <4> HIDE DEF n
      <4> QED
        BY <4>1
    <3>2. q.used[2] > q.used[1] /\ q.used[2] <= q.used[n]
      <4>1. q.used[2] > q.used[2 - 1]
        BY <1>7, <3>1
      <4>2. 2 \in 1..n /\ n \in 1..n
        BY <3>1
      <4>3. q.used[2] <= q.used[n]
        BY <1>1, <2>2, <4>2 DEF Rises
      <4> QED
        BY <3>1, <4>1, <4>3
    <3>3. q.used[2] \in Int /\ q.used[1] \in Int /\ q.used[n] \in Int
      BY <1>8, <3>1
    <3> QED
      BY <3>2, <3>3
  <2>4. l.rise > 0
    <3>1. /\ Len(q.used) = Len(t) /\ Len(t) >= 1
          /\ Rises(t, Len(t)) /\ Rises(q.used, Len(t))
          /\ t[1] < t[Len(t)] /\ q.used[1] < q.used[Len(t)]
      <4>1. Len(t) = n
        BY <1>4
      <4>2. n >= 1
        BY <1>1
      <4>3. Rises(t, n) /\ Rises(q.used, n) /\ t[1] < t[n] /\ q.used[1] < q.used[n]
        BY <1>4, <2>2, <2>3
      <4> QED
        BY <4>1, <4>2, <4>3, Zenon
    <3>2. t \in Seq(Int) /\ q.used \in Seq(Int)
      BY <1>4
    <3>3. Rise(t, q.used) > 0
      BY <3>1, <3>2, RiseOfRising
    <3> QED
      BY <1>4, <3>3
  <2>5. P > 0
    <3>1. Falls(q.total)
      BY <1>7, <1>8 DEF Falls
    <3>2. M <= m
      <4>1. Len(q.total) = n /\ Len(q.total) >= 1
        BY <1>1, <1>8
      <4>2. q.total[Len(q.total)] <= q.total[1]
        BY <1>8, <3>1, <4>1, EndsOf, Zenon
      <4> QED
        BY <4>1, <4>2, Zenon
    <3> HIDE DEF f, m, M, n
    <3> QED
      BY <1>1, <2>3, <3>2, SharesMove DEF f
  <2> HIDE DEF eighty, full, l, G, T, f, n, m, M, P, now, goal
  <2>6. full >= 0
    <3> DEFINE x == 80 * M - 100 * q.used[n]
    <3>1. CASE 100 * q.used[n] >= 80 * M
      BY <1>3, <1>9, <2>5, <3>1
    <3>2. CASE ~(100 * q.used[n] >= 80 * M)
      <4>1. x \in Int /\ x >= 0 /\ 100 * P \in Int /\ 100 * P > 0
        BY <1>1, <1>9, <2>5, <3>2
      <4> DEFINE y == x * T
      <4>2. y \in Int /\ y >= 0
        BY <1>1, <4>1
      <4>3. y * m \in Int /\ y * m >= 0
        <5> HIDE DEF y
        <5> QED
          BY <1>1, <4>2
      <4>4. (y * m) \div (100 * P) \in Nat
        BY <4>1, <4>3, QuotientNat
      <4>5. full = (y * m) \div (100 * P)
        BY <1>3, <1>9, <2>5, <3>2
      <4> QED
        BY <4>4, <4>5
    <3> QED
      BY <3>1, <3>2
  <2>7. eighty >= 0
    <3>1. CASE now >= goal
      BY <1>1, <1>2, <2>4, <3>1
    <3>2. CASE ~(now >= goal)
      <4>1. goal - now \in Int /\ goal - now >= 0
        BY <1>1, <3>2
      <4>2. 100 * n * l.rise \in Int /\ 100 * n * l.rise > 0
        <5>1. n * l.rise \in Int /\ n * l.rise > 0
          BY <1>1, <2>4
        <5>2. 100 * n * l.rise = 100 * (n * l.rise)
          BY <1>1
        <5> QED
          BY <5>1, <5>2
      <4>3. (goal - now) \div (100 * n * l.rise) \in Nat
        BY <4>1, <4>2, QuotientNat
      <4>4. eighty = (goal - now) \div (100 * n * l.rise)
        BY <1>1, <1>2, <2>4, <3>2
      <4> QED
        BY <4>3, <4>4
    <3> QED
      BY <3>1, <3>2
  <2> QED
    BY <2>6, <2>7
<1> QED
  BY <1>5, <1>6, <1>7
----------------------------------------------------------------------------
\* What bounds the elements of one sequence by those of another.
Below(s, t, a, b, c) ==
  Len(t) = Len(s) /\ \A i \in 1..Len(s) : a * s[i] <= b * t[i] + c

\* Their sums are bounded the same way.
LEMMA SumsBelow ==
  ASSUME NEW s \in Seq(Int), NEW t \in Seq(Int), NEW a \in Int, NEW b \in Int, NEW c \in Int,
         Below(s, t, a, b, c)
  PROVE  a * Sum(s) <= b * Sum(t) + Len(s) * c
<1>1. PICK d \in Int : d = 0
  OBVIOUS
<1>2. Bounded(s, t, t, a, b, c, d)
  <2>1. Len(t) = Len(s) /\ \A i \in 1..Len(s) : t[i] \in Int /\ a * s[i] <= b * t[i] + c
    BY ElementOfSeq DEF Below
  <2>2. ASSUME NEW i \in 1..Len(s)
        PROVE  a * s[i] <= b * t[i] + d * t[i] + c
    <3>1. PICK x \in Int : x = t[i]
      BY <2>1
    <3>2. d * x = 0
      BY <1>1
    <3>3. b * x + d * x + c = b * x + c
      BY <3>2
    <3>4. a * s[i] <= b * x + c
      BY <2>1, <3>1
    <3> QED
      BY <3>1, <3>3, <3>4, Zenon
  <2> QED
    BY <2>1, <2>2 DEF Bounded
<1>3. a * Sum(s) <= b * Sum(t) + d * Sum(t) + Len(s) * c
  BY <1>2, SumsBounded
<1>4. PICK x \in Int, y \in Int, n \in Int : x = Sum(s) /\ y = Sum(t) /\ n = Len(s)
  BY SumTyped
<1>5. a * x <= b * y + d * y + n * c
  BY <1>3, <1>4
<1>6. d * y = 0
  BY <1>1
<1>7. a * x <= b * y + n * c
  BY <1>5, <1>6
<1> QED
  BY <1>4, <1>7

\* What is least of all elements.
AllAtLeast(s, a, m) == \A i \in 1..Len(s) : a * s[i] >= m

\* The sum is as much for each of them.
LEMMA SumAtLeast ==
  ASSUME NEW s \in Seq(Int), NEW a \in Int, NEW m \in Int, AllAtLeast(s, a, m)
  PROVE  a * Sum(s) >= Len(s) * m
<1>1. PICK e \in Int, b \in Int, c \in Int : e = -a /\ b = 0 /\ c = -m
  OBVIOUS
<1>2. Below(s, s, e, b, c)
  <2>1. ASSUME NEW i \in 1..Len(s)
        PROVE  e * s[i] <= b * s[i] + c
    <3>1. PICK x \in Int : x = s[i]
      BY ElementOfSeq
    <3>2. a * x >= m
      BY <3>1 DEF AllAtLeast
    <3>3. e * x <= b * x + c
      BY <1>1, <3>2
    <3> QED
      BY <3>1, <3>3
  <2> QED
    BY <2>1 DEF Below
<1>3. e * Sum(s) <= b * Sum(s) + Len(s) * c
  BY <1>2, SumsBelow
<1>4. PICK x \in Int, n \in Int : x = Sum(s) /\ n = Len(s)
  BY SumTyped
<1>5. e * x <= b * x + n * c
  BY <1>3, <1>4
<1>6. a * x >= n * m
  BY <1>1, <1>5
<1> QED
  BY <1>4, <1>6

\* A share of each element, rounded down: together not more than the share of all,
\* and less than one for each element below it.
LEMMA SharesOf ==
  ASSUME NEW s \in Seq(Int), NEW t \in Seq(Int), Len(t) = Len(s),
         NEW u \in Int, NEW all \in Int, all > 0,
         \A i \in 1..Len(s) : t[i] = (u * s[i]) \div all
  PROVE  /\ all * Sum(t) <= u * Sum(s)
         /\ u * Sum(s) <= all * Sum(t) + Len(s) * (all - 1)
<1>1. PICK z \in Int, d \in Int : z = 0 /\ d = all - 1
  OBVIOUS
<1>2. ASSUME NEW i \in 1..Len(s)
      PROVE  all * t[i] <= u * s[i] + z /\ u * s[i] <= all * t[i] + d
  <2>1. PICK x \in Int : x = s[i]
    BY ElementOfSeq
  <2> DEFINE y == u * x
             w == y \div all
  <2>2. y \in Int
    OBVIOUS
  <2> HIDE DEF y
  <2>3. w \in Int /\ all * w <= y /\ y < all * w + all
    BY <2>2, Quotient
  <2>4. t[i] = w
    BY <2>1 DEF y
  <2> HIDE DEF w
  <2>5. all * w \in Int
    BY <2>3
  <2>6. all * w <= y + z /\ y <= all * w + d
    BY <1>1, <2>2, <2>3, <2>5
  <2> QED
    BY <2>1, <2>4, <2>6 DEF y
<1>3. Below(t, s, all, u, z) /\ Below(s, t, u, all, d)
  BY <1>2 DEF Below
<1>4. all * Sum(t) <= u * Sum(s) + Len(t) * z /\ u * Sum(s) <= all * Sum(t) + Len(s) * d
  BY <1>1, <1>3, SumsBelow
<1>5. PICK x \in Int, y \in Int, n \in Int : x = Sum(s) /\ y = Sum(t) /\ n = Len(s) /\ n = Len(t)
  BY SumTyped
<1>6. all * y <= u * x + n * z /\ u * x <= all * y + n * d
  BY <1>4, <1>5
<1>7. n * z = 0
  BY <1>1
<1>8. all * y <= u * x
  BY <1>6, <1>7
<1> QED
  BY <1>1, <1>5, <1>6, <1>8

----------------------------------------------------------------------------
\* What an expansion is scored by.
LEMMA ScoreOfExpansion ==
  ASSUME NEW q \in Planner!ExpansionRequests, Planner!ValidConfig(q)
  PROVE  /\ (Planner!Verdict(q) = "not_recommended") = (q.type = "single")
         /\ Planner!UsableHalves(q) \in 1..(2 * q.count)
<1> DEFINE c == q.count
           W == Planner!Warnings(q)
           N == Cardinality(W)
           F == Planner!FaultTolerance(q)
           U == Planner!UsableHalves(q)
           E == Planner!Efficiency(q)
<1>1. q.type \in Planner!VdevTypes /\ c \in Nat /\ c > 0
  <2>1. q.type \in Planner!VdevTypes /\ c \in Drives
    BY DEF Planner!ExpansionRequests
  <2>2. Drives \subseteq Nat \ {0}
    BY AnalysisAssumption DEF AnalysisAssumption, Planner!PlannersAssumption
  <2>3. \A x \in Nat \ {0} : x \in Nat /\ x > 0
    OBVIOUS
  <2>4. c \in Nat \ {0}
    BY <2>1, <2>2
  <2> HIDE DEF c
  <2> QED
    BY <2>1, <2>3, <2>4
<1>2. N \in Nat /\ (q.type # "single" => N <= 2) /\ (q.type = "single" => N >= 1)
  <2> DEFINE M == {"mixed", "mismatch"}
             R == {"no redundancy"}
  <2>1. IsFiniteSet(M) /\ Cardinality(M) = 2
    <3>1. IsFiniteSet({"mixed"}) /\ Cardinality({"mixed"}) = 1
      BY FS_Singleton
    <3>2. M = {"mixed"} \cup {"mismatch"} /\ "mismatch" \notin {"mixed"}
      OBVIOUS
    <3> QED
      BY <3>1, <3>2, FS_AddElement
  <2>2. IsFiniteSet(M \cup R)
    BY <2>1, FS_AddElement
  <2>3. W \in SUBSET (M \cup R)
    BY DEF Planner!Warnings
  <2>4. IsFiniteSet(W) /\ N \in Nat
    <3> HIDE DEF W, M, R
    <3> QED
      BY <2>2, <2>3, FS_Subset, FS_CardinalityType
  <2>5. CASE q.type # "single"
    <3>1. W \in SUBSET M
      BY <2>5 DEF Planner!Warnings
    <3> HIDE DEF W, M, R
    <3> QED
      BY <2>1, <2>4, <2>5, <3>1, FS_Subset
  <2>6. CASE q.type = "single"
    <3>1. W # {}
      BY <2>6 DEF Planner!Warnings
    <3> HIDE DEF W
    <3> QED
      BY <2>4, <2>6, <3>1, FS_EmptySet
  <2> QED
    BY <2>5, <2>6
<1>3. Planner!Score(q) = 5 + 2 * F + E - N - (IF q.type = "single" THEN 4 ELSE 0)
  BY PlannerCounts DEF Planner!Score
<1>4. Planner!Verdict(q) = "not_recommended"
        <=> ~(Planner!Score(q) >= 8) /\ ~(Planner!Score(q) >= 5)
  BY DEF Planner!Verdict
<1>5. E = (3 * U + c) \div (2 * c)
  BY DEF Planner!Efficiency
<1>6. CASE q.type = "single"
  <2>1. c = 1
    BY <1>6 DEF Planner!ValidConfig
  <2>2. U = 2 * c /\ F = 0
    BY <1>6 DEF Planner!UsableHalves, Planner!FaultTolerance
  <2>3. U = 2 /\ 3 * U + c = 7 /\ 2 * c = 2
    BY <2>1, <2>2
  <2>4. E = 3
    BY <1>5, <2>3
  <2>5. Planner!Score(q) = 5 + 2 * 0 + 3 - N - 4
    BY <1>3, <1>6, <2>2, <2>4
  <2> HIDE DEF N
  <2>6. ~(Planner!Score(q) >= 8) /\ ~(Planner!Score(q) >= 5)
    BY <1>2, <1>6, <2>5
  <2>7. U \in 1..(2 * c)
    BY <2>1, <2>3
  <2> QED
    BY <1>4, <1>6, <2>6, <2>7
<1>7. CASE q.type # "single"
  <2>1. F \in Nat /\ F >= 1 /\ U \in 1..(2 * c)
    <3>1. CASE q.type = "mirror"
      <4>1. c >= 2
        BY <3>1 DEF Planner!ValidConfig, Planner!MinDrives
      <4>2. U = c /\ F = c \div 2
        BY <3>1 DEF Planner!UsableHalves, Planner!FaultTolerance
      <4> HIDE DEF U, F
      <4> QED
        BY <1>1, <4>1, <4>2
    <3>2. CASE q.type \in {"raidz1", "raidz2", "raidz3"}
      <4>1. /\ Planner!Parity[q.type] \in 1..3
            /\ Planner!MinDrives[q.type] = Planner!Parity[q.type] + 2
        BY <3>2 DEF Planner!Parity, Planner!MinDrives
      <4>2. c >= Planner!MinDrives[q.type]
        BY <1>7 DEF Planner!ValidConfig
      <4>3. U = 2 * (c - Planner!Parity[q.type]) /\ F = Planner!Parity[q.type]
        BY <3>2 DEF Planner!UsableHalves, Planner!FaultTolerance
      <4> HIDE DEF U, F
      <4> QED
        BY <1>1, <4>1, <4>2, <4>3
    <3> QED
      BY <1>1, <1>7, <3>1, <3>2 DEF Planner!VdevTypes
  <2>2. E \in Nat
    <3> HIDE DEF U
    <3>1. 3 * U + c \in Int /\ 3 * U + c >= 0 /\ 2 * c \in Int /\ 2 * c > 0
      BY <1>1, <2>1
    <3> QED
      BY <1>5, <3>1, QuotientNat
  <2>3. Planner!Score(q) = 5 + 2 * F + E - N - 0
    BY <1>3, <1>7
  <2> HIDE DEF N, E, F
  <2>4. Planner!Score(q) >= 5
    BY <1>2, <1>7, <2>1, <2>2, <2>3
  <2> QED
    BY <1>4, <1>7, <2>1, <2>4
<1> QED
  BY <1>6, <1>7

\* Sizes are numbers above 0.
LEMMA Positives ==
  ASSUME NEW S, S \subseteq Nat \ {0}
  PROVE  /\ \A x \in S : x \in Nat /\ x > 0
         /\ \A x \in S \cup {0} : x \in Nat
<1>1. \A x \in Nat \ {0} : x \in Nat /\ x > 0
  OBVIOUS
<1>2. \A x \in S : x \in Nat /\ x > 0
  BY <1>1
<1> QED
  BY <1>2

\* An expansion is advised against when it is a single drive.
LEMMA ExpansionIsSound ==
  ASSUME plan \in Planner!ExpansionRequests
  PROVE  Planner!PlansAreSound
<1> SUFFICES ASSUME Planner!ValidConfig(plan)
             PROVE  /\ (Planner!Verdict(plan) = "not_recommended") = (plan.type = "single")
                    /\ Planner!Problems(plan) # {} => "mismatch" \in Planner!Warnings(plan)
                    /\ Planner!UsableHalves(plan) \in 1..(2 * plan.count)
  <2>1. plan.about = "expansion"
    BY DEF Planner!ExpansionRequests
  <2> QED
    BY <2>1 DEF Planner!PlansAreSound
<1>1. Planner!Problems(plan) # {} => "mismatch" \in Planner!Warnings(plan)
  <2> SUFFICES ASSUME Planner!Problems(plan) # {}
               PROVE  "mismatch" \in Planner!Warnings(plan)
    OBVIOUS
  <2>1. plan.poolDrive > 0 /\ 2 * plan.size < plan.poolDrive
    BY DEF Planner!Problems
  <2>2. plan.poolDrive \in Sizes \cup {0} /\ plan.size \in Sizes
    BY DEF Planner!ExpansionRequests
  <2>3. Sizes \subseteq Nat \ {0}
    BY AnalysisAssumption DEF AnalysisAssumption, Planner!PlannersAssumption
  <2>4. plan.poolDrive \in Nat /\ plan.size \in Nat
    BY <2>2, <2>3, Positives
  <2>5. plan.poolDrive # 0 /\ plan.poolDrive # plan.size
    BY <2>1, <2>4
  <2> QED
    BY <2>5 DEF Planner!Warnings
<1> QED
  BY <1>1, ScoreOfExpansion

\* One vdev at least is no bottleneck.
LEMMA CapacityIsSound ==
  ASSUME plan \in Planner!CapacityRequests
  PROVE  Planner!PlansAreSound
<1> DEFINE q == plan
           v == q.vdevs
           n == Len(v)
<1>1. /\ q.about = "capacity" /\ q.used \in Uses /\ v \in Planner!Some(Shares, MaxVdevs)
  BY DEF Planner!CapacityRequests
<1>2. /\ Uses \subseteq 0..100 /\ Shares \subseteq 0..100 /\ MaxVdevs \in Nat
  BY AnalysisAssumption DEF AnalysisAssumption, Planner!PlannersAssumption
<1>4. v \in Seq(Shares) /\ n \in Nat /\ n >= 1
  BY <1>1, <1>2, ListsOf
<1>5. v \in Seq(Int) /\ DOMAIN v = 1..n /\ \A i \in 1..n : v[i] \in Int
  <2>1. \A S, T : S \subseteq T => Seq(S) \subseteq Seq(T)
    OBVIOUS
  <2>2. Shares \subseteq Int
    BY <1>2
  <2>3. v \in Seq(Int)
    BY <1>4, <2>1, <2>2
  <2> QED
    BY <2>3, ElementOfSeq
<1>7. Planner!Bottlenecks(q) # DOMAIN v
  <2> SUFFICES ASSUME Planner!Bottlenecks(q) = DOMAIN v
               PROVE  FALSE
    OBVIOUS
  <2>1. \A i \in 1..n : n > 1 /\ (v[i] - 10) * n > Sum(v)
    <3>1. \A i \in DOMAIN v : i \in Planner!Bottlenecks(q)
      OBVIOUS
    <3> QED
      BY <1>5, <3>1, SumsAgree DEF Planner!Bottlenecks
  <2>2. Sum(v) \in Int
    BY <1>5, SumTyped
  <2> DEFINE m == Sum(v) + 10 * n
  <2>3. AllAtLeast(v, n, m)
    <3>1. ASSUME NEW i \in 1..n
          PROVE  n * v[i] >= m
      <4>1. PICK x \in Int : x = v[i]
        BY <1>5
      <4>2. PICK y \in Int : y = Sum(v)
        BY <2>2
      <4>3. (x - 10) * n > y
        BY <2>1, <4>1, <4>2
      <4>4. n * x >= y + 10 * n
        <5>1. n \in Int
          BY <1>4
        <5> HIDE DEF n
        <5>2. (x - 10) * n = n * x - 10 * n
          BY <5>1
        <5>3. n * x \in Int
          BY <5>1
        <5> QED
          BY <4>3, <5>1, <5>2, <5>3
      <4>5. n * x >= m
        BY <4>2, <4>4
      <4> QED
        BY <4>1, <4>5
    <3> QED
      BY <3>1 DEF AllAtLeast
  <2>4. n * Sum(v) >= n * m
    <3>1. m \in Int /\ n \in Int
      BY <1>4, <2>2
    <3> HIDE DEF m
    <3> QED
      BY <1>5, <2>3, <3>1, SumAtLeast
  <2>5. m <= Sum(v)
    <3>1. m \in Int /\ n \in Int /\ n > 0
      BY <1>4, <2>2
    <3> HIDE DEF m
    <3>2. n * m <= n * Sum(v)
      <4>1. n * m \in Int /\ n * Sum(v) \in Int
        BY <2>2, <3>1
      <4> QED
        BY <2>4, <4>1
    <3> QED
      BY <2>2, <3>1, <3>2, Cancel
  <2> QED
    BY <1>4, <2>2, <2>5
<1>6. DOMAIN v \ Planner!Bottlenecks(q) # {}
  BY <1>7 DEF Planner!Bottlenecks
<1> QED
  BY <1>1, <1>6 DEF Planner!PlansAreSound

\* What the sizes of a rebalance come to.
LEMMA RebalanceTyped ==
  ASSUME NEW q \in Planner!RebalanceRequests
  PROVE  /\ q.about = "rebalance" /\ q.used \in Nat /\ q.total \in Nat
         /\ q.vdevs \in Seq(Int) /\ Len(q.vdevs) \in Nat /\ Len(q.vdevs) >= 1
         /\ q.add \in Seq(Int) /\ Len(q.add) \in Nat /\ Len(q.add) >= 1
         /\ Sum(q.vdevs) \in Int /\ Sum(q.vdevs) > 0
         /\ Sum(q.add) \in Int /\ Sum(q.add) > 0
         /\ Planner!AfterTotal(q) = Sum(q.vdevs) + Sum(q.add)
<1>1. /\ q.about = "rebalance" /\ q.used \in 0..Total /\ q.total \in Sizes \cup {Total}
      /\ q.vdevs \in Planner!Some(Sizes, MaxVdevs) /\ q.add \in Planner!Some(Sizes, MaxAdded)
  BY DEF Planner!RebalanceRequests
<1>2. /\ Sizes \subseteq Nat \ {0} /\ Total \in Nat /\ MaxVdevs \in Nat /\ MaxAdded \in Nat
  BY AnalysisAssumption DEF AnalysisAssumption, Planner!PlannersAssumption
<1>3. q.used \in Nat /\ q.total \in Nat
  <2>1. q.used \in Nat
    BY <1>1, <1>2
  <2>2. \A x \in Sizes \cup {Total} : x \in Nat
    BY <1>2, Positives
  <2> QED
    BY <1>1, <2>1, <2>2
<1>4. /\ q.vdevs \in Seq(Sizes) /\ Len(q.vdevs) \in Nat /\ Len(q.vdevs) >= 1
      /\ q.add \in Seq(Sizes) /\ Len(q.add) \in Nat /\ Len(q.add) >= 1
  BY <1>1, <1>2, ListsOf
<1>5. ASSUME NEW s \in Seq(Sizes), Len(s) >= 1
      PROVE  s \in Seq(Int) /\ Sum(s) \in Int /\ Sum(s) > 0
  <2>1. \A S, T : S \subseteq T => Seq(S) \subseteq Seq(T)
    OBVIOUS
  <2>2. Sizes \subseteq Int
    BY <1>2
  <2>3. s \in Seq(Int)
    BY <2>1, <2>2
  <2>4. \A i \in 1..Len(s) : s[i] \in Nat \ {0}
    <3>1. \A i \in 1..Len(s) : s[i] \in Sizes
      BY ElementOfSeq
    <3> QED
      BY <1>2, <3>1
  <2>5. PICK a \in Int : a = 1
    OBVIOUS
  <2>6. AllAtLeast(s, a, a)
    BY <2>4, <2>5 DEF AllAtLeast
  <2>7. a * Sum(s) >= Len(s) * a
    BY <2>3, <2>6, SumAtLeast
  <2>8. Sum(s) \in Int /\ Len(s) \in Nat
    BY <2>3, SumTyped
  <2> QED
    BY <1>5, <2>3, <2>5, <2>7, <2>8
<1>6. Planner!AfterTotal(q) = Sum(q.vdevs) + Sum(q.add)
  <2>1. Planner!AfterTotal(q) = Sum(q.vdevs \o q.add)
    BY SumsAgree DEF Planner!AfterTotal, Planner!After
  <2>2. q.vdevs \in Seq(Int) /\ q.add \in Seq(Int)
    BY <1>4, <1>5
  <2> QED
    BY <2>1, <2>2, SumConcat
<1> QED
  BY <1>1, <1>3, <1>4, <1>5, <1>6

\* What is moved is at most what is used, and at most what the new vdevs get, n,
\* and one for each of the k of them.
LEMMA MovedAtMost ==
  ASSUME NEW u \in Nat, NEW all \in Int, all > 0, NEW part \in Int, part >= 0, part <= all
  PROVE  /\ (6 * u * part) \div (10 * all) <= u
         /\ \A n \in Int, k \in Nat :
              u * part <= all * n + k * (all - 1) => (6 * u * part) \div (10 * all) <= n + k
<1> DEFINE p == u * part
           w == (6 * p) \div (10 * all)
<1>1. p \in Int /\ p >= 0
  <2>1. \A x, y \in Nat : x * y \in Nat
    OBVIOUS
  <2>2. part \in Nat
    OBVIOUS
  <2>3. p \in Nat
    BY <2>1, <2>2
  <2> HIDE DEF p
  <2> QED
    BY <2>3
<1>2. p <= u * all
  <2>1. PICK d \in Nat : d = all - part
    OBVIOUS
  <2>2. u * d \in Nat
    BY <2>1
  <2>3. u * all = u * part + u * d
    BY <2>1
  <2>4. u * part \in Int
    OBVIOUS
  <2> QED
    BY <2>2, <2>3, <2>4
<1>3. 6 * u * part = 6 * p
  OBVIOUS
<1>4. (6 * u * part) \div (10 * all) = w
  BY <1>3
<1>5. w \in Int /\ all * w <= p
  <2> HIDE DEF p
  <2>1. 6 * p \in Int /\ 10 * all \in Int /\ 10 * all > 0
    BY <1>1
  <2>2. w \in Int /\ (10 * all) * w <= 6 * p
    BY <2>1, Quotient
  <2> HIDE DEF w
  <2>3. (10 * all) * w = 10 * (all * w) /\ all * w \in Int
    BY <2>2
  <2>4. PICK x \in Int : x = all * w
    BY <2>3
  <2>5. 10 * x <= 6 * p
    BY <2>2, <2>3, <2>4
  <2>6. x <= p
    BY <1>1, <2>5
  <2> QED
    BY <2>2, <2>4, <2>6
<1>6. w <= u
  <2> HIDE DEF p, w
  <2>1. all * w \in Int /\ u * all \in Int /\ all * u = u * all
    BY <1>5
  <2>2. all * w <= all * u
    BY <1>1, <1>2, <1>5, <2>1
  <2> QED
    BY <1>5, <2>2, Cancel
<1>7. ASSUME NEW n \in Int, NEW k \in Nat, p <= all * n + k * (all - 1)
      PROVE  w <= n + k
  <2> HIDE DEF p, w
  <2>1. all * w \in Int /\ all * n \in Int /\ k * all \in Int
    BY <1>5
  <2>2. k * (all - 1) = k * all - k /\ all * (n + k) = all * n + k * all
    OBVIOUS
  <2>3. all * w <= all * (n + k)
    BY <1>1, <1>5, <1>7, <2>1, <2>2
  <2> QED
    BY <1>5, <2>3, Cancel
<1> HIDE DEF w
<1> QED
  BY <1>4, <1>6, <1>7 DEF p

\* A sum within these bounds falls short of u by less than n.
LEMMA RoundedShort ==
  ASSUME NEW u \in Nat, NEW all \in Int, all > 0, NEW x \in Int, NEW n \in Nat, n >= 1,
         all * x <= u * all, u * all <= all * x + n * (all - 1)
  PROVE  x \in (u - n + 1)..u
<1>1. x <= u
  <2>1. all * x <= all * u
    OBVIOUS
  <2> QED
    BY <2>1, Cancel
<1>2. all * u < all * (x + n)
  <2>1. all * x \in Int /\ all * u \in Int /\ n * all \in Int /\ all * u = u * all
    OBVIOUS
  <2>2. n * (all - 1) = n * all - n /\ all * (x + n) = all * x + n * all
    OBVIOUS
  <2> QED
    BY <2>1, <2>2
<1>3. u < x + n
  BY <1>2, Cancel
<1> QED
  BY <1>1, <1>3

\* The elements of two sequences, one after the other, and those after the first.
LEMMA Concat ==
  ASSUME NEW s \in Seq(Int), NEW t \in Seq(Int)
  PROVE  /\ s \o t \in Seq(Int) /\ Len(s \o t) = Len(s) + Len(t)
         /\ Len(s) \in Nat /\ Len(t) \in Nat
         /\ \A i \in 1..Len(t) : Len(s) + i \in 1..Len(s \o t) /\ (s \o t)[Len(s) + i] = t[i]
<1>1. s \o t \in Seq(Int) /\ Len(s \o t) = Len(s) + Len(t)
  OBVIOUS
<1>2. Len(s) \in Nat /\ Len(t) \in Nat
  OBVIOUS
<1>3. ASSUME NEW i \in 1..Len(t)
      PROVE  Len(s) + i \in 1..Len(s \o t) /\ (s \o t)[Len(s) + i] = t[i]
  <2>1. Len(s) + i \in 1..(Len(s) + Len(t)) /\ ~(Len(s) + i <= Len(s))
    BY <1>2
  <2>2. Len(s) + i - Len(s) = i
    BY <1>2
  <2> QED
    BY <1>1, <2>1, <2>2
<1> QED
  BY <1>1, <1>2, <1>3

\* The elements from m + 1 on, k of them.
LEMMA Suffix ==
  ASSUME NEW s \in Seq(Int), NEW m \in Nat, NEW k \in Nat, Len(s) = m + k
  PROVE  LET t == SubSeq(s, m + 1, Len(s))
         IN t \in Seq(Int) /\ Len(t) = k /\ \A i \in 1..k : t[i] = s[m + i]
<1> DEFINE t == SubSeq(s, m + 1, Len(s))
<1>1. t = [i \in 1..k |-> s[m + i]]
  <2>1. Len(s) - (m + 1) + 1 = k
    OBVIOUS
  <2>2. t = [i \in 1..(Len(s) - (m + 1) + 1) |-> s[i + (m + 1) - 1]]
    BY DEF SubSeq
  <2>3. \A i \in 1..k : i + (m + 1) - 1 = m + i
    OBVIOUS
  <2> HIDE DEF t
  <2> QED
    BY <2>1, <2>2, <2>3
<1>2. \A i \in 1..k : s[m + i] \in Int
  <2>1. \A i \in 1..k : m + i \in 1..Len(s)
    OBVIOUS
  <2> QED
    BY <2>1, ElementOfSeq
<1> HIDE DEF t
<1>3. t \in [1..k -> Int]
  BY <1>1, <1>2
<1>4. t \in Seq(Int) /\ Len(t) = k
  BY <1>3, FunctionIsSeq
<1> QED
  BY <1>1, <1>4 DEF t

\* A rebalance loses nothing but what is rounded, and moves no more than comes to
\* the new vdevs.
LEMMA RebalanceIsSound ==
  ASSUME plan \in Planner!RebalanceRequests
  PROVE  Planner!PlansAreSound
<1> DEFINE q == plan
           u == q.used
           s == Planner!After(q)
           L == Len(s)
           all == Planner!AfterTotal(q)
           then == Planner!AfterDistribution(q)
           D == Planner!DataMovement(q)
           old == Len(q.vdevs)
           new == SubSeq(then, old + 1, Len(then))
<1>1. /\ q.about = "rebalance" /\ u \in Nat /\ q.total \in Nat
      /\ q.vdevs \in Seq(Int) /\ old \in Nat /\ old >= 1
      /\ q.add \in Seq(Int) /\ Len(q.add) \in Nat /\ Len(q.add) >= 1
      /\ Sum(q.vdevs) \in Int /\ Sum(q.vdevs) > 0
      /\ Sum(q.add) \in Int /\ Sum(q.add) > 0
      /\ all = Sum(q.vdevs) + Sum(q.add)
  BY RebalanceTyped
<1>2. all \in Int /\ all > 0
  BY <1>1
<1>3. /\ s \in Seq(Int) /\ L \in Nat /\ L = old + Len(q.add) /\ DOMAIN s = 1..L
      /\ \A i \in 1..Len(q.add) : old + i \in 1..L /\ s[old + i] = q.add[i]
  <2>1. s = q.vdevs \o q.add
    BY DEF Planner!After
  <2> HIDE DEF s
  <2>2. /\ s \in Seq(Int) /\ L = old + Len(q.add)
        /\ \A i \in 1..Len(q.add) : old + i \in 1..L /\ s[old + i] = q.add[i]
    BY <1>1, <2>1, Concat
  <2>3. DOMAIN s = 1..L /\ L \in Nat
    <3>1. \A e \in Seq(Int) : DOMAIN e = 1..Len(e) /\ Len(e) \in Nat
      OBVIOUS
    <3> QED
      BY <2>2, <3>1
  <2> QED
    BY <2>2, <2>3
<1>4. Sum(s) = all
  BY <1>1, SumConcat DEF Planner!After
<1>5. then = [i \in 1..L |-> (u * s[i]) \div all]
  BY <1>3 DEF Planner!AfterDistribution
<1>6. \A i \in 1..L : s[i] \in Int /\ (u * s[i]) \div all \in Int
  <2>1. \A i \in 1..L : s[i] \in Int
    BY <1>3, ElementOfSeq
  <2> HIDE DEF q, s, all, L
  <2>2. \A x \in Int : u * x \in Int
    BY <1>1
  <2> QED
    BY <1>2, <2>1, <2>2, Quotient
<1>7. then \in Seq(Int) /\ Len(then) = L
  <2> HIDE DEF q, s, all, L
  <2>1. then \in [1..L -> Int]
    BY <1>5, <1>6
  <2> HIDE DEF then
  <2> QED
    BY <1>3, <2>1, FunctionIsSeq
<1>8. /\ all * Sum(then) <= u * all
      /\ u * all <= all * Sum(then) + L * (all - 1)
  <2>1. \A i \in 1..L : then[i] = (u * s[i]) \div all
    BY <1>5
  <2>2. s \in Seq(Int) /\ then \in Seq(Int) /\ Len(then) = Len(s) /\ u \in Int
    BY <1>1, <1>3, <1>7
  <2>3. /\ all * Sum(then) <= u * Sum(s)
        /\ u * Sum(s) <= all * Sum(then) + Len(s) * (all - 1)
    <3> HIDE DEF all, then, s, u
    <3> QED
      BY <1>2, <2>1, <2>2, SharesOf
  <2> HIDE DEF all, then, s, u
  <2> QED
    BY <1>4, <2>3
<1>9. Sum(then) \in (u - Len(then) + 1)..u
  <2>1. Sum(then) \in Int /\ L \in Nat /\ L >= 1 /\ u \in Nat /\ Len(then) = L
    <3>1. L = old + Len(q.add) /\ L \in Nat /\ old >= 1 /\ Len(q.add) >= 1
          /\ old \in Nat /\ Len(q.add) \in Nat
      BY <1>1, <1>3
    <3>2. L >= 1
      <4> HIDE DEF L, old
      <4> QED
        BY <3>1
    <3>3. Sum(then) \in Int
      <4> HIDE DEF then
      <4> QED
        BY <1>7, SumTyped
    <3> QED
      BY <1>1, <1>7, <3>1, <3>2, <3>3
  <2> HIDE DEF all, then, L, u
  <2> QED
    BY <1>2, <1>8, <2>1, RoundedShort
<1>10. D <= u
  <2> HIDE DEF all, u
  <2>1. CASE all <= q.total
    <3>1. D = 0
      BY <2>1 DEF Planner!DataMovement, all
    <3> QED
      BY <1>1, <3>1
  <2>2. CASE ~(all <= q.total)
    <3>1. D = (6 * u * (all - q.total)) \div (10 * all)
      BY <2>2 DEF Planner!DataMovement, all, u
    <3>2. all - q.total \in Int /\ all - q.total >= 0 /\ all - q.total <= all
      BY <1>1, <1>2, <2>2
    <3> QED
      BY <1>1, <1>2, <3>1, <3>2, MovedAtMost
  <2> QED
    BY <2>1, <2>2
<1>11. ASSUME q.total = Sum(q.vdevs)
       PROVE  D <= Sum(new) + Len(q.add)
  <2> DEFINE k == Len(q.add)
             part == Sum(q.add)
  <2>1. D = (6 * u * part) \div (10 * all)
    <3>1. ~(all <= q.total) /\ all - q.total = part
      BY <1>1, <1>11
    <3> QED
      BY <3>1 DEF Planner!DataMovement
  <2>2. /\ new \in Seq(Int) /\ Len(new) = k
        /\ \A i \in 1..k : new[i] = (u * q.add[i]) \div all
    <3>1. /\ Len(then) = old + k
          /\ \A i \in 1..k : then[old + i] = (u * q.add[i]) \div all
      <4>1. \A i \in 1..k : old + i \in 1..L /\ s[old + i] = q.add[i]
        BY <1>3
      <4>2. \A j \in 1..L : then[j] = (u * s[j]) \div all
        BY <1>5
      <4>3. Len(then) = old + k
        BY <1>3, <1>7
      <4> HIDE DEF all, then, s, u, L, old, k
      <4> QED
        BY <4>1, <4>2, <4>3
    <3>2. then \in Seq(Int) /\ old \in Nat /\ k \in Nat
      BY <1>1, <1>7
    <3> HIDE DEF then, all, u, old, k
    <3>3. new \in Seq(Int) /\ Len(new) = k /\ \A i \in 1..k : new[i] = then[old + i]
      BY <3>1, <3>2, Suffix
    <3> HIDE DEF new
    <3> QED
      BY <3>1, <3>3
  <2>3. u * part <= all * Sum(new) + k * (all - 1)
    <3>1. q.add \in Seq(Int) /\ Len(new) = Len(q.add) /\ u \in Int
      <4>1. u \in Int
        BY <1>1
      <4> HIDE DEF u, new
      <4> QED
        BY <1>1, <2>2, <4>1
    <3>2. \A i \in 1..Len(q.add) : new[i] = (u * q.add[i]) \div all
      BY <2>2
    <3>3. new \in Seq(Int)
      BY <2>2
    <3> HIDE DEF all, new, u, part, k
    <3>4. u * Sum(q.add) <= all * Sum(new) + Len(q.add) * (all - 1)
      BY <1>2, <3>1, <3>2, <3>3, SharesOf
    <3> QED
      BY <3>4 DEF part, k
  <2>4. Sum(new) \in Int
    BY <2>2, SumTyped
  <2>5. part \in Int /\ part >= 0 /\ part <= all /\ k \in Nat
    BY <1>1
  <2> HIDE DEF all, new, part, u, k, D
  <2> QED
    BY <1>1, <1>2, <2>1, <2>3, <2>4, <2>5, MovedAtMost DEF k
<1>12. /\ D <= u
       /\ Planner!SumOf(then) \in (u - Len(then) + 1)..u
       /\ q.total = Planner!SumOf(q.vdevs) => D <= Planner!SumOf(new) + Len(q.add)
  <2> HIDE DEF D, then, u, new
  <2> QED
    BY <1>9, <1>10, <1>11, SumsAgree
<1> QED
  BY <1>1, <1>12 DEF Planner!PlansAreSound
----------------------------------------------------------------------------
\* The snapshots of a case: a list of them.
LEMMA SnapshotsTyped ==
  ASSUME NEW c \in Advisor!SnapshotCases
  PROVE  /\ c.about = "snapshots" /\ c.fails \in {"yes", "no"}
         /\ Len(c.snaps) \in Nat /\ DOMAIN c.snaps = 1..Len(c.snaps)
         /\ \A i \in 1..Len(c.snaps) : c.snaps[i].held \in Nat /\ c.snaps[i].age \in Nat
<1> DEFINE Snaps == [tag : Advisor!Tags, age : Ages, held : Held, clones : 0..1]
<1>1. /\ c.about = "snapshots" /\ c.fails \in {"yes", "no"}
      /\ c.snaps \in Advisor!Upto(Snaps, MaxSnapshots)
  BY DEF Advisor!SnapshotCases
<1>2. Ages \subseteq Nat /\ Held \subseteq Nat /\ MaxSnapshots \in Nat
  BY AnalysisAssumption DEF AnalysisAssumption, Advisor!AdvisorsAssumption
<1>3. \A e \in Snaps : e.held \in Nat /\ e.age \in Nat
  BY <1>2
<1> HIDE DEF Snaps
<1>4. c.snaps \in Seq(Snaps)
  BY <1>1, <1>2, ListsOf
<1>5. DOMAIN c.snaps = 1..Len(c.snaps) /\ Len(c.snaps) \in Nat
  BY <1>4
<1>6. \A i \in 1..Len(c.snaps) : c.snaps[i] \in Snaps
  BY <1>4, ElementOfSeq
<1> QED
  BY <1>1, <1>3, <1>5, <1>6

\* Some snapshots hold at most what all of them hold, also those made up, and one
\* that no schedule made is an orphan before it may be deleted.
LEMMA SnapshotsAreSound ==
  ASSUME case \in Advisor!SnapshotCases
  PROVE  Advisor!AdviceIsSound
<1> DEFINE l == case.snaps
           n == Len(l)
           D == {i \in DOMAIN l : Advisor!IsDeleteCandidate(l[i])}
           answer == Advisor!AnalyzeSnapshotCost(case)
           few == [i \in DOMAIN l |-> IF i \in D THEN l[i].held ELSE 0]
           many == [i \in DOMAIN l |-> IF i \in DOMAIN l THEN l[i].held ELSE 0]
<1>1. /\ case.about = "snapshots" /\ case.fails \in {"yes", "no"} /\ n \in Nat
      /\ DOMAIN l = 1..n
      /\ \A i \in 1..n : l[i].held \in Nat /\ l[i].age \in Nat
  BY SnapshotsTyped
<1>2. Advisor!ExpectedFree(case) <= Advisor!TotalSpaceHeld(case)
  <2>1. few \in [1..n -> Int] /\ many \in [1..n -> Int]
    <3> HIDE DEF D
    <3> QED
      BY <1>1
  <2>2. \A i \in 1..n : few[i] <= many[i]
    <3> HIDE DEF D
    <3> QED
      BY <1>1
  <2>3. Advisor!ExpectedFree(case) = Sum(few) /\ Advisor!TotalSpaceHeld(case) = Sum(many)
    BY SumsAgree DEF Advisor!ExpectedFree, Advisor!TotalSpaceHeld, Advisor!Space
  <2> HIDE DEF few, many, D, n
  <2>4. /\ few \in Seq(Int) /\ Len(few) = n /\ many \in Seq(Int) /\ Len(many) = n
    BY <1>1, <2>1, FunctionIsSeq
  <2>5. PICK a \in Int, z \in Int : a = 1 /\ z = 0
    OBVIOUS
  <2>6. Below(few, many, a, a, z)
    <3>1. ASSUME NEW i \in 1..n
          PROVE  a * few[i] <= a * many[i] + z
      <4>1. PICK x \in Int, y \in Int : x = few[i] /\ y = many[i]
        BY <2>1
      <4>2. x <= y
        BY <2>2, <4>1
      <4>3. a * x <= a * y + z
        BY <2>5, <4>2
      <4> QED
        BY <4>1, <4>3
    <3> QED
      BY <2>4, <3>1 DEF Below
  <2>7. a * Sum(few) <= a * Sum(many) + n * z
    BY <2>4, <2>6, SumsBelow
  <2>8. PICK x \in Int, y \in Int : x = Sum(few) /\ y = Sum(many)
    BY <2>4, SumTyped
  <2>9. x <= y
    <3>1. a * x <= a * y + n * z
      BY <2>7, <2>8
    <3>2. n * z = 0
      BY <1>1, <2>5
    <3> QED
      BY <2>5, <3>1, <3>2
  <2> QED
    BY <2>3, <2>8, <2>9
<1>3. ASSUME NEW i \in DOMAIN l, Advisor!IsDeleteCandidate(l[i])
      PROVE  /\ l[i].clones = 0
             /\ l[i].tag = "by hand" => "orphaned" \in Advisor!SnapAlerts(case, Advisor!PoolSize)
  <2>1. l[i].clones = 0 /\ l[i].age > Advisor!KeptFor[Advisor!Tier(l[i])]
    BY <1>3 DEF Advisor!IsDeleteCandidate
  <2>2. ASSUME l[i].tag = "by hand"
        PROVE  "orphaned" \in Advisor!SnapAlerts(case, Advisor!PoolSize)
    <3>1. Advisor!Tier(l[i]) = "manual"
      BY <2>2 DEF Advisor!Tier
    <3>2. Advisor!KeptFor["manual"] = 180
      BY DEF Advisor!KeptFor
    <3>3. l[i].age > 90
      BY <1>1, <2>1, <3>1, <3>2
    <3>4. Advisor!IsOrphaned(l[i])
      BY <2>2, <3>3 DEF Advisor!IsOrphaned
    <3> QED
      BY <3>4 DEF Advisor!SnapAlerts
  <2> QED
    BY <2>1, <2>2
<1>4. \A i \in DOMAIN l : (case.fails = "no" /\ Advisor!IsDeleteCandidate(l[i])) =>
        /\ l[i].clones = 0
        /\ l[i].tag = "by hand" => "orphaned" \in Advisor!SnapAlerts(case, Advisor!PoolSize)
  BY <1>3
<1>5. answer.free <= answer.held
  <2>1. CASE case.fails = "yes"
    BY <2>1 DEF Advisor!AnalyzeSnapshotCost, Advisor!MockSnapshotAnalysis
  <2>2. CASE case.fails = "no"
    <3>1. answer.free = Advisor!ExpectedFree(case) /\ answer.held = Advisor!TotalSpaceHeld(case)
      BY <2>2 DEF Advisor!AnalyzeSnapshotCost
    <3> QED
      BY <1>2, <3>1
  <2> QED
    BY <1>1, <2>1, <2>2
<1> HIDE DEF answer
<1>6. Advisor!AnalyzeSnapshotCost(case).free <= Advisor!AnalyzeSnapshotCost(case).held
  BY <1>5 DEF answer
<1> QED
  BY <1>1, <1>4, <1>6 DEF Advisor!AdviceIsSound

\* What adds to the risk of a vdev.
Capped(most, n) == Advisor!Least(most, n)
LatencyRisk(c) == IF Advisor!Slower(c, 50) THEN 20 ELSE IF Advisor!Slower(c, 20) THEN 10 ELSE 0
StateRisk(c) == IF c.online THEN 0 ELSE 30

\* Each part grows with what it counts.
LEMMA CappedGrows ==
  ASSUME NEW most \in Nat, NEW a \in Nat, NEW x \in Nat, NEW y \in Nat, x <= y
  PROVE  /\ Capped(most, a * x) \in Nat /\ Capped(most, a * y) \in Nat
         /\ Capped(most, a * x) <= Capped(most, a * y)
<1>1. PICK b \in Nat, d \in Nat : b = a * x /\ d = a * y
  <2>1. \A v, w \in Nat : v * w \in Nat
    OBVIOUS
  <2> QED
    BY <2>1
<1>2. b <= d
  <2>1. PICK e \in Nat : y = x + e
    <3>1. y - x \in Nat /\ y = x + (y - x)
      OBVIOUS
    <3> QED
      BY <3>1
  <2>2. a * e \in Nat
    OBVIOUS
  <2>3. d = b + a * e
    BY <1>1, <2>1
  <2> QED
    BY <2>2, <2>3
<1> QED
  BY <1>1, <1>2 DEF Capped, Advisor!Least

\* A vdev with something worse has no lower risk, and is not called healthy if the
\* other was not.
LEMMA RiskIsSound ==
  ASSUME case \in Advisor!RiskCases
  PROVE  Advisor!AdviceIsSound
<1>1. ASSUME NEW c \in Advisor!RiskCases
      PROVE  /\ c.about = "risk" /\ c.online \in BOOLEAN
             /\ c.cksum \in Nat /\ c.io \in Nat /\ c.reallocated \in Nat /\ c.pending \in Nat
             /\ LatencyRisk(c) \in Nat /\ StateRisk(c) \in Nat
  <2>1. Errs \subseteq Nat
    BY AnalysisAssumption DEF AnalysisAssumption, Advisor!AdvisorsAssumption
  <2>2. /\ c.about = "risk" /\ c.online \in BOOLEAN
        /\ c.cksum \in Errs /\ c.io \in Errs /\ c.reallocated \in Errs /\ c.pending \in Errs
    BY DEF Advisor!RiskCases
  <2>3. LatencyRisk(c) \in Nat /\ StateRisk(c) \in Nat
    BY DEF LatencyRisk, StateRisk
  <2> QED
    BY <2>1, <2>2, <2>3
<1>2. \A c : Advisor!RiskScore(c) =
        Capped(100, Capped(40, 10 * c.cksum) + Capped(30, 5 * c.io) + LatencyRisk(c)
                      + Capped(20, 2 * c.reallocated) + Capped(20, 5 * c.pending)
                      + StateRisk(c))
  BY DEF Advisor!RiskScore, Capped, LatencyRisk, StateRisk
<1>3. ASSUME NEW d \in Advisor!Worse(case)
      PROVE  /\ Advisor!RiskScore(d) >= Advisor!RiskScore(case)
             /\ Advisor!Advice(d) = "healthy" => Advisor!Advice(case) = "healthy"
  <2>1. /\ d \in Advisor!RiskCases
        /\ d.cksum >= case.cksum /\ d.io >= case.io /\ d.reallocated >= case.reallocated
        /\ d.pending >= case.pending /\ (d.online => case.online)
        /\ d.latencies = case.latencies
    BY DEF Advisor!Worse
  <2>2. LatencyRisk(d) = LatencyRisk(case)
    <3>1. \A p : Advisor!Slower(d, p) <=> Advisor!Slower(case, p)
      BY <2>1 DEF Advisor!Slower
    <3> QED
      BY <3>1, Zenon DEF LatencyRisk
  <2>3. StateRisk(case) <= StateRisk(d)
    BY <1>1, <2>1 DEF StateRisk
  <2> DEFINE c == case
  <2>4. /\ Capped(40, 10 * c.cksum) \in Nat /\ Capped(30, 5 * c.io) \in Nat
        /\ Capped(20, 2 * c.reallocated) \in Nat /\ Capped(20, 5 * c.pending) \in Nat
        /\ LatencyRisk(c) \in Nat /\ StateRisk(c) \in Nat
    <3>1. /\ c.cksum \in Nat /\ c.io \in Nat /\ c.reallocated \in Nat /\ c.pending \in Nat
          /\ LatencyRisk(c) \in Nat /\ StateRisk(c) \in Nat
      BY <1>1
    <3>2. \A x \in Nat : /\ Capped(40, 10 * x) \in Nat /\ Capped(30, 5 * x) \in Nat
                        /\ Capped(20, 2 * x) \in Nat /\ Capped(20, 5 * x) \in Nat
      BY DEF Capped, Advisor!Least
    <3> HIDE DEF c
    <3> QED
      BY <3>1, <3>2
  <2>5. PICK e1 \in Nat, e2 \in Nat, e3 \in Nat, e4 \in Nat, e5 \in Nat, e6 \in Nat :
          /\ e1 = Capped(40, 10 * case.cksum) /\ e2 = Capped(30, 5 * case.io)
          /\ e3 = LatencyRisk(case) /\ e4 = Capped(20, 2 * case.reallocated)
          /\ e5 = Capped(20, 5 * case.pending) /\ e6 = StateRisk(case)
    BY <2>4
  <2>6. PICK f1 \in Nat, f2 \in Nat, f3 \in Nat, f4 \in Nat, f5 \in Nat, f6 \in Nat :
          /\ f1 = Capped(40, 10 * d.cksum) /\ f2 = Capped(30, 5 * d.io)
          /\ f3 = LatencyRisk(d) /\ f4 = Capped(20, 2 * d.reallocated)
          /\ f5 = Capped(20, 5 * d.pending) /\ f6 = StateRisk(d)
    BY <1>1, <2>1, CappedGrows
  <2>7. e1 <= f1 /\ e2 <= f2 /\ e4 <= f4 /\ e5 <= f5
    <3>1. e1 <= f1
      BY <1>1, <2>1, <2>5, <2>6, CappedGrows
    <3>2. e2 <= f2
      BY <1>1, <2>1, <2>5, <2>6, CappedGrows
    <3>3. e4 <= f4
      BY <1>1, <2>1, <2>5, <2>6, CappedGrows
    <3>4. e5 <= f5
      BY <1>1, <2>1, <2>5, <2>6, CappedGrows
    <3> QED
      BY <3>1, <3>2, <3>3, <3>4
  <2>8. PICK x \in Nat, y \in Nat :
          /\ x = e1 + e2 + e3 + e4 + e5 + e6
          /\ y = f1 + f2 + f3 + f4 + f5 + f6
    OBVIOUS
  <2>9. x <= y
    BY <2>2, <2>3, <2>5, <2>6, <2>7, <2>8
  <2>10. Advisor!RiskScore(case) = Capped(100, x) /\ Advisor!RiskScore(d) = Capped(100, y)
    BY <1>2, <2>5, <2>6, <2>8, Zenon
  <2>11. Capped(100, x) \in Nat /\ Capped(100, y) \in Nat /\ Capped(100, x) <= Capped(100, y)
    BY <2>9 DEF Capped, Advisor!Least
  <2>12. PICK r \in Nat, t \in Nat :
           r = Advisor!RiskScore(case) /\ t = Advisor!RiskScore(d) /\ r <= t
    BY <2>10, <2>11
  <2>13. t >= r
    BY <2>12
  <2>14. Advisor!Advice(d) = "healthy" => Advisor!Advice(case) = "healthy"
    <3>1. Advisor!Advice(d) = "healthy" => ~(t >= 40)
      BY <2>12 DEF Advisor!Advice
    <3>2. ~(r >= 40) => Advisor!Advice(case) = "healthy"
      BY <2>12 DEF Advisor!Advice
    <3> QED
      BY <2>13, <3>1, <3>2
  <2> QED
    BY <2>12, <2>13, <2>14
<1> QED
  BY <1>1, <1>3 DEF Advisor!AdviceIsSound
----------------------------------------------------------------------------
\* Where errors grow, the day of too many can be told.
LEMMA TrendIsSound ==
  ASSUME case \in Advisor!TrendCases
  PROVE  Advisor!AdviceIsSound
<1> DEFINE e == case.errs
           n == Len(e)
           x == [i \in 1..n |-> i - 1]
           days == Advisor!EstimateDTF(case)
<1>1. /\ case.about = "errors" /\ e \in Seq(Int) /\ n \in Nat /\ n >= 1
      /\ case.gap \in Nat
  <2>1. /\ case.about = "errors" /\ e \in Advisor!Upto(Counts, MaxTrend)
        /\ case.gap \in Gaps
    BY DEF Advisor!TrendCases
  <2>2. Counts \subseteq Int /\ MaxTrend \in Nat /\ Gaps \subseteq Nat
    BY AnalysisAssumption DEF AnalysisAssumption, Advisor!AdvisorsAssumption
  <2>3. e \in Seq(Counts) /\ n \in Nat /\ n >= 1
    BY <2>1, <2>2, ListsOf
  <2>4. \A S, T : S \subseteq T => Seq(S) \subseteq Seq(T)
    OBVIOUS
  <2> HIDE DEF e, n
  <2> QED
    BY <2>1, <2>2, <2>3, <2>4
<1>2. ASSUME n > 1, e[1] < e[n], \A i \in 2..n : e[i - 1] <= e[i]
      PROVE  days >= 0
  <2>1. x \in Seq(Int) /\ Len(x) = n /\ \A i \in 1..n : x[i] = i - 1
    <3>1. x \in [1..n -> Int]
      BY <1>1
    <3>2. \A i \in 1..n : x[i] = i - 1
      OBVIOUS
    <3> HIDE DEF x, n
    <3> QED
      BY <1>1, <3>1, <3>2, FunctionIsSeq
  <2>2. /\ days = IF n < 2 \/ Rise(x, e) <= 0 THEN -1
                  ELSE IF e[n] >= 100 THEN 1
                  ELSE ((((100 - e[n]) * Rise(x, x)) \div Rise(x, e)) * case.gap) \div 24
    <3>1. Rise(x, e) = n * Sum([i \in 1..n |-> x[i] * e[i]]) - Sum(x) * Sum(e)
      BY <2>1 DEF Rise, Times_
    <3>2. Rise(x, x) = n * Sum([i \in 1..n |-> x[i] * x[i]]) - Sum(x) * Sum(x)
      BY <2>1 DEF Rise, Times_
    <3>3. days = IF n < 2 \/ n * Sum([i \in 1..n |-> x[i] * e[i]]) - Sum(x) * Sum(e) <= 0 THEN -1
                 ELSE IF e[n] >= 100 THEN 1
                 ELSE ((((100 - e[n]) * (n * Sum([i \in 1..n |-> x[i] * x[i]]) - Sum(x) * Sum(x)))
                        \div (n * Sum([i \in 1..n |-> x[i] * e[i]]) - Sum(x) * Sum(e)))
                        * case.gap) \div 24
      BY SumsAgree DEF Advisor!EstimateDTF
    <3> HIDE DEF days, x, e, n
    <3> QED
      BY <3>1, <3>2, <3>3
  <2> HIDE DEF days, x
  <2>3. Rises(x, n) /\ x[1] < x[n]
    <3>1. n \in Nat /\ n > 1
      BY <1>1, <1>2
    <3>2. \A i \in 1..n : x[i] = i - 1
      BY <2>1
    <3> HIDE DEF e, n
    <3>3. x[1] = 0 /\ x[n] = n - 1
      BY <3>1, <3>2
    <3>4. \A j \in 1..n : \A i \in 1..j : x[i] <= x[j]
      BY <3>1, <3>2
    <3> QED
      BY <3>1, <3>3, <3>4 DEF Rises
  <2>4. Rises(e, n)
    BY <1>1, <1>2, StepsRise
  <2>5. Rise(x, e) \in Int /\ Rise(x, e) > 0 /\ Rise(x, x) \in Int /\ Rise(x, x) >= 0
    <3>1. Len(e) = n
      OBVIOUS
    <3> HIDE DEF e, n
    <3> QED
      BY <1>1, <1>2, <2>1, <2>3, <2>4, <3>1, RiseOfRising
  <2>6. CASE e[n] >= 100
    BY <1>2, <2>2, <2>5, <2>6
  <2>7. CASE ~(e[n] >= 100)
    <3>1. e[n] \in Int
      BY <1>1, ElementOfSeq
    <3> HIDE DEF e, n
    <3>2. PICK a \in Nat, b \in Nat : a = 100 - e[n] /\ b = Rise(x, x)
      BY <2>5, <2>7, <3>1
    <3>3. a * b \in Nat
      <4>1. \A v, w \in Nat : v * w \in Nat
        OBVIOUS
      <4> QED
        BY <4>1
    <3>4. (a * b) \div Rise(x, e) \in Nat
      BY <2>5, <3>3, QuotientNat
    <3>5. ~(n < 2) /\ ~(Rise(x, e) <= 0)
      BY <1>1, <1>2, <2>5
    <3>6. days = (((a * b) \div Rise(x, e)) * case.gap) \div 24
      BY <2>2, <2>7, <3>2, <3>5, Zenon
    <3>7. PICK s \in Nat, g \in Nat : s = (a * b) \div Rise(x, e) /\ g = case.gap
      BY <1>1, <3>4
    <3>8. s * g \in Nat
      OBVIOUS
    <3>9. (s * g) \div 24 \in Nat
      BY <3>8, QuotientNat
    <3> QED
      BY <3>6, <3>7, <3>9
  <2> QED
    BY <2>6, <2>7
<1>3. (n > 1 /\ e[1] < e[n] /\ \A i \in 2..n : e[i - 1] <= e[i]) => days >= 0
  BY <1>2
<1> QED
  BY <1>1, <1>3 DEF Advisor!AdviceIsSound
----------------------------------------------------------------------------
\* Where in n sorted samples the p-th percentile is.
Place(n, p) == LET at == (p * n) \div 100 IN IF at >= n THEN n ELSE at + 1

\* It is one of them.
LEMMA PlaceIn ==
  ASSUME NEW n \in Nat, n >= 1, NEW p \in 0..100
  PROVE  Place(n, p) \in 1..n
<1>1. p * n \in Int /\ p * n >= 0
  <2>1. \A x, y \in Nat : x * y \in Nat
    OBVIOUS
  <2>2. p * n \in Nat
    BY <2>1
  <2> QED
    BY <2>2
<1>2. (p * n) \div 100 \in Nat
  BY <1>1, QuotientNat
<1> DEFINE at == (p * n) \div 100
<1>3. Place(n, p) = IF at >= n THEN n ELSE at + 1
  BY DEF Place
<1> HIDE DEF at
<1> QED
  BY <1>2, <1>3 DEF at

\* The greater the percentage, the later.
LEMMA PlaceGrows ==
  ASSUME NEW n \in Nat, n >= 1, NEW p \in 0..100, NEW q \in 0..100, p <= q
  PROVE  Place(n, p) <= Place(n, q)
<1> DEFINE a == p * n
           b == q * n
           x == a \div 100
           y == b \div 100
<1>1. a \in Int /\ b \in Int /\ a <= b
  <2>1. PICK d \in Nat : q = p + d
    <3>1. q - p \in Nat /\ q = p + (q - p)
      OBVIOUS
    <3> QED
      BY <3>1
  <2>2. d * n \in Nat
    BY <2>1
  <2>3. b = a + d * n /\ a \in Int
    BY <2>1
  <2> HIDE DEF a, b
  <2> QED
    BY <2>2, <2>3
<1> HIDE DEF a, b
<1>2. x <= y /\ x \in Int /\ y \in Int
  BY <1>1
<1>3. Place(n, p) = (IF x >= n THEN n ELSE x + 1) /\ Place(n, q) = (IF y >= n THEN n ELSE y + 1)
  BY DEF Place, a, b
<1> HIDE DEF x, y
<1> QED
  BY <1>2, <1>3

\* The place in all samples is no earlier than those in two parts of them together.
LEMMA PlaceOfBoth ==
  ASSUME NEW m \in Nat, m >= 1, NEW n \in Nat, n >= 1, NEW p \in 0..100
  PROVE  Place(m + n, p) >= Place(m, p) + Place(n, p) - 1
<1> DEFINE a == p * m
           b == p * n
           c == p * (m + n)
           x == a \div 100
           y == b \div 100
           z == c \div 100
<1>1. a \in Int /\ b \in Int /\ c = a + b /\ a <= 100 * m /\ b <= 100 * n
  <2>1. PICK d \in Nat : 100 = p + d
    <3>1. 100 - p \in Nat /\ 100 = p + (100 - p)
      OBVIOUS
    <3> QED
      BY <3>1
  <2>2. d * m \in Nat /\ d * n \in Nat
    BY <2>1
  <2>3. (p + d) * m = a + d * m /\ (p + d) * n = b + d * n /\ c = a + b
    BY <2>1
  <2>4. a \in Int /\ b \in Int
    OBVIOUS
  <2> HIDE DEF a, b, c
  <2>5. 100 * m = a + d * m /\ 100 * n = b + d * n
    BY <2>1, <2>3
  <2> QED
    BY <2>2, <2>3, <2>4, <2>5
<1>2. /\ Place(m, p) = (IF x >= m THEN m ELSE x + 1)
      /\ Place(n, p) = (IF y >= n THEN n ELSE y + 1)
      /\ Place(m + n, p) = (IF z >= m + n THEN m + n ELSE z + 1)
  BY DEF Place
<1> HIDE DEF a, b, c
<1>3. x \in Int /\ y \in Int /\ z \in Int /\ z >= x + y
  BY <1>1
<1>4. CASE x >= m /\ y >= n
  <2> HIDE DEF x, y, z
  <2> QED
    BY <1>2, <1>3, <1>4
<1>5. CASE ~(x >= m /\ y >= n)
  <2>1. x <= m /\ y <= n
    BY <1>1
  <2> HIDE DEF x, y, z
  <2> QED
    BY <1>2, <1>3, <1>5, <2>1
<1> QED
  BY <1>4, <1>5

\* The lists that latencies are measured as.
LEMMA LatencyTyped ==
  /\ \A c \in Advisor!LatencyCases :
       /\ c.about = "latency"
       /\ c.now = <<>>
          \/ (c.now \in Seq(Nat) /\ Len(c.now) \in Nat /\ Len(c.now) >= 1)
       /\ c.others = <<>>
          \/ (c.others \in Seq(Nat) /\ Len(c.others) \in Nat /\ Len(c.others) >= 1)
  /\ Percents \subseteq 0..100 /\ AlertAbove \in Percents /\ Samples \in Nat
<1>1. /\ Delays \subseteq Nat /\ MaxProfiled \in Nat
      /\ Percents \subseteq 0..100 /\ AlertAbove \in Percents /\ Samples \in Nat
  BY AnalysisAssumption DEF AnalysisAssumption, Advisor!AdvisorsAssumption
<1>2. \A s \in Advisor!Upto(Delays, MaxProfiled) : s \in Seq(Nat) /\ Len(s) \in Nat /\ Len(s) >= 1
  <2>1. \A S, T : S \subseteq T => Seq(S) \subseteq Seq(T)
    OBVIOUS
  <2> QED
    BY <1>1, <2>1, ListsOf
<1>3. ASSUME NEW c \in Advisor!LatencyCases
      PROVE  /\ c.about = "latency"
             /\ c.now = <<>> \/ c.now \in Advisor!Upto(Delays, MaxProfiled)
             /\ c.others = <<>> \/ c.others \in Advisor!Upto(Delays, MaxProfiled)
  BY DEF Advisor!LatencyCases
<1> QED
  BY <1>1, <1>2, <1>3

\* A percentile is the element at its place.
LEMMA PercentileIs ==
  ASSUME NEW s \in Seq(Nat), Len(s) >= 1, NEW p \in 0..100
  PROVE  /\ Place(Len(s), p) \in Nat /\ Place(Len(s), p) >= 1
         /\ Advisor!Percentile(s, p) \in Nat
         /\ IsSmallest(Advisor!Percentile(s, p), s, Place(Len(s), p))
<1>1. Len(s) \in Nat
  OBVIOUS
<1>2. Place(Len(s), p) \in 1..Len(s)
  BY <1>1, PlaceIn
<1>3. Advisor!Percentile(s, p) = Advisor!Smallest(s, Place(Len(s), p))
  BY DEF Advisor!Percentile, Place
<1>4. Place(Len(s), p) \in Nat /\ Place(Len(s), p) >= 1
  BY <1>1, <1>2
<1> QED
  BY <1>2, <1>3, <1>4, SmallestChosen

\* Percentiles are in order.
LEMMA PercentilesOrdered ==
  ASSUME NEW s \in Seq(Nat), Len(s) >= 1, NEW p \in 0..100, NEW q \in 0..100, p <= q
  PROVE  Advisor!Percentile(s, p) <= Advisor!Percentile(s, q)
<1> DEFINE v == Advisor!Percentile(s, p)
           w == Advisor!Percentile(s, q)
           j == Place(Len(s), p)
           k == Place(Len(s), q)
<1>1. v \in Nat /\ w \in Nat /\ IsSmallest(v, s, j) /\ IsSmallest(w, s, k) /\ j \in Nat /\ k \in Nat
  BY PercentileIs
<1>2. j <= k
  <2>1. Len(s) \in Nat
    OBVIOUS
  <2> QED
    BY <2>1, PlaceGrows
<1>3. Cardinality(Under(s, v)) < j
  BY <1>1 DEF IsSmallest
<1> HIDE DEF v, w, j, k
<1>4. w < v => k < j
  BY <1>1, <1>3, SmallestOrdered
<1> QED
  BY <1>1, <1>2, <1>4 DEF v, w

\* Samples whose percentile is no higher than that of the baseline do not lower the
\* percentile of the baseline below their own one when they are added to it.
THEOREM BaselineAbove ==
  ASSUME NEW s \in Seq(Nat), Len(s) >= 1, NEW t \in Seq(Nat), Len(t) >= 1, NEW p \in 0..100,
         Advisor!Percentile(t, p) <= Advisor!Percentile(s, p)
  PROVE  Advisor!Percentile(t, p) <= Advisor!Percentile(s \o t, p)
<1> DEFINE u == Advisor!Percentile(s, p)
           v == Advisor!Percentile(t, p)
           w == Advisor!Percentile(s \o t, p)
           i == Place(Len(s), p)
           j == Place(Len(t), p)
           k == Place(Len(s) + Len(t), p)
<1>1. s \o t \in Seq(Nat) /\ Len(s \o t) = Len(s) + Len(t) /\ Len(s) \in Nat /\ Len(t) \in Nat
  OBVIOUS
<1>2. /\ u \in Nat /\ v \in Nat /\ i \in Nat /\ j \in Nat /\ i >= 1 /\ j >= 1
      /\ IsSmallest(u, s, i) /\ IsSmallest(v, t, j)
  BY PercentileIs
<1>3. w \in Nat /\ IsSmallest(w, s \o t, k) /\ k \in Nat
  <2>1. Len(s \o t) >= 1
    BY <1>1
  <2> QED
    BY <1>1, <2>1, PercentileIs
<1>4. k >= i + j - 1
  BY <1>1, PlaceOfBoth
<1>5. Cardinality(Under(s, v)) < i /\ Cardinality(Under(t, v)) < j
  <2>1. Under(s, v) \in SUBSET Under(s, u)
    <3>1. \A n \in DOMAIN s : s[n] \in Nat
      BY ElementOfSeq, Tallied
    <3>2. v <= u
      OBVIOUS
    <3> HIDE DEF u, v
    <3> QED
      BY <1>2, <3>1, <3>2 DEF Under
  <2>2. Cardinality(Under(s, u)) < i /\ Cardinality(Under(t, v)) < j
    BY <1>2 DEF IsSmallest
  <2> HIDE DEF u, v, i, j
  <2>3. Cardinality(Under(s, v)) <= Cardinality(Under(s, u))
    BY <1>2, <2>1, Tallied, FS_Subset
  <2>4. Cardinality(Under(s, v)) \in Nat /\ Cardinality(Under(s, u)) \in Nat
    BY Tallied
  <2> QED
    BY <1>2, <2>2, <2>3, <2>4
<1> HIDE DEF u, v, w, i, j, k
<1>6. Cardinality(Under(s \o t, v)) < i + j - 1
  <2>1. /\ Cardinality(Under(s \o t, v)) \in Nat /\ Cardinality(Under(s, v)) \in Nat
        /\ Cardinality(Under(t, v)) \in Nat
    BY <1>1, Tallied
  <2>2. Cardinality(Under(s \o t, v)) <= Cardinality(Under(s, v)) + Cardinality(Under(t, v))
    BY <1>2, UnderBoth
  <2> QED
    BY <1>2, <1>5, <2>1, <2>2
<1>7. i + j - 1 \in Nat
  BY <1>2
<1>8. w < v => k < i + j - 1
  BY <1>1, <1>2, <1>3, <1>6, <1>7, SmallestOrdered
<1> QED
  BY <1>2, <1>3, <1>4, <1>7, <1>8 DEF v, w

\* Percentiles are in order, and what is in line with the samples of the others does
\* not alert.
LEMMA LatencyIsSound ==
  ASSUME case \in Advisor!LatencyCases
  PROVE  Advisor!AdviceIsSound
<1> DEFINE s == case.others
           t == case.now
           v == Advisor!Percentile(t, AlertAbove)
           w == Advisor!Percentile(Advisor!Baseline(case), AlertAbove)
<1>1. /\ case.about = "latency"
      /\ t = <<>> \/ (t \in Seq(Nat) /\ Len(t) \in Nat /\ Len(t) >= 1)
      /\ s = <<>> \/ (s \in Seq(Nat) /\ Len(s) \in Nat /\ Len(s) >= 1)
      /\ Percents \subseteq 0..100 /\ AlertAbove \in 0..100
  BY LatencyTyped
<1>2. \A p, q \in Percents :
        p <= q => Advisor!Reported(case, p) <= Advisor!Reported(case, q)
  <2>1. CASE t = <<>>
    BY <2>1 DEF Advisor!Reported
  <2>2. CASE t # <<>>
    <3>1. \A p : Advisor!Reported(case, p) = Advisor!Percentile(t, p)
      BY <2>2 DEF Advisor!Reported
    <3>2. t \in Seq(Nat) /\ Len(t) >= 1
      BY <1>1, <2>2
    <3> HIDE DEF t, s
    <3>3. \A p, q \in 0..100 : p <= q => Advisor!Percentile(t, p) <= Advisor!Percentile(t, q)
      BY <3>2, PercentilesOrdered
    <3> QED
      BY <1>1, <3>1, <3>3
  <2> QED
    BY <2>1, <2>2
<1>5. CASE t = <<>>
  <2>1. Advisor!AssessLatency(case) = "ok"
    BY <1>5 DEF Advisor!AssessLatency
  <2> QED
    BY <1>1, <1>2, <2>1 DEF Advisor!AdviceIsSound
<1>6. CASE t # <<>>
  <2>1. t \in Seq(Nat) /\ Len(t) \in Nat /\ Len(t) >= 1
    BY <1>1, <1>6
  <2>3. ASSUME \/ s = <<>>
               \/ v <= Advisor!Percentile(s, AlertAbove)
        PROVE  Advisor!AssessLatency(case) = "ok"
    <3>1. v \in Nat /\ w \in Nat /\ v <= w
      <4>1. CASE s = <<>>
        <5>1. Advisor!Baseline(case) = t
          BY <2>1, <4>1 DEF Advisor!Baseline
        <5>2. v \in Nat
          <6> HIDE DEF t
          <6> QED
            BY <1>1, <2>1, PercentileIs
        <5> HIDE DEF t
        <5> QED
          BY <5>1, <5>2
      <4>2. CASE s # <<>>
        <5>1. Advisor!Baseline(case) = s \o t
          BY DEF Advisor!Baseline
        <5>2. s \in Seq(Nat) /\ Len(s) >= 1 /\ Len(s) \in Nat
          BY <1>1, <4>2
        <5>3. v <= Advisor!Percentile(s, AlertAbove)
          BY <2>3, <4>2
        <5> HIDE DEF s, t
        <5>4. s \o t \in Seq(Nat) /\ Len(s \o t) >= 1
          BY <2>1, <5>2
        <5>5. v \in Nat /\ Advisor!Percentile(s \o t, AlertAbove) \in Nat
          BY <1>1, <2>1, <5>4, PercentileIs
        <5>6. v <= Advisor!Percentile(s \o t, AlertAbove)
          BY <1>1, <2>1, <5>2, <5>3, BaselineAbove
        <5> QED
          BY <5>1, <5>5, <5>6
      <4> QED
        BY <4>1, <4>2
    <3> HIDE DEF v, w
    <3>2. PICK h \in Int : h = (w * 3) \div 2 /\ v <= h /\ v <= 2 * h
      BY <3>1
    <3>3. Advisor!AssessLatency(case) =
            IF t = <<>> \/ Len(Advisor!Baseline(case)) < Samples THEN "ok"
            ELSE IF v > 2 * h THEN "critical" ELSE IF v > h THEN "warning" ELSE "ok"
      BY <3>2 DEF Advisor!AssessLatency, v, w
    <3>4. ~(v > 2 * h) /\ ~(v > h)
      BY <3>1, <3>2
    <3> QED
      BY <3>3, <3>4, Zenon
  <2>4. (s = <<>> \/ t = <<>> \/ v <= Advisor!Percentile(s, AlertAbove)) =>
          Advisor!AssessLatency(case) = "ok"
    BY <1>6, <2>3
  <2> QED
    BY <1>1, <1>2, <2>4 DEF Advisor!AdviceIsSound
<1> QED
  BY <1>5, <1>6
----------------------------------------------------------------------------
\* The mean of amounts is an amount, and to record each of them twice does not
\* change it.
LEMMA MeanTyped ==
  ASSUME NEW s \in Seq(Nat), Len(s) >= 1
  PROVE  /\ Advisor!Mean(s, 4) \in Nat
         /\ Advisor!Mean(s \o s, 4) = Advisor!Mean(s, 4)
<1>1. s \in Seq(Int) /\ Len(s) \in Nat /\ \A i \in 1..Len(s) : s[i] \in Nat
  <2>1. \A S, T : S \subseteq T => Seq(S) \subseteq Seq(T)
    OBVIOUS
  <2>2. s \in Seq(Int)
    BY <2>1
  <2> QED
    BY <2>2, ElementOfSeq
<1>2. PICK x \in Int, n \in Nat : x = Sum(s) /\ n = Len(s) /\ n >= 1
  BY <1>1, SumTyped
<1>3. x >= 0
  <2>1. PICK a \in Int, z \in Int : a = 1 /\ z = 0
    OBVIOUS
  <2>2. AllAtLeast(s, a, z)
    <3>1. ASSUME NEW i \in 1..Len(s)
          PROVE  a * s[i] >= z
      <4>1. PICK y \in Nat : y = s[i]
        BY <1>1
      <4>2. a * y >= z
        BY <2>1
      <4> QED
        BY <4>1, <4>2
    <3> QED
      BY <3>1 DEF AllAtLeast
  <2>3. a * x >= n * z
    BY <1>1, <1>2, <2>2, SumAtLeast
  <2>4. n * z = 0
    BY <2>1
  <2> QED
    BY <2>1, <2>3, <2>4
<1>4. Advisor!Mean(s, 4) = (4 * x) \div n
  BY <1>2, SumsAgree DEF Advisor!Mean
<1>5. Advisor!Mean(s \o s, 4) = (4 * (x + x)) \div (n + n)
  <2>1. Sum(s \o s) = x + x
    BY <1>1, <1>2, SumConcat
  <2>2. Len(s \o s) = n + n
    BY <1>1, <1>2
  <2> QED
    BY <2>1, <2>2, SumsAgree DEF Advisor!Mean
<1>6. (4 * (x + x)) \div (n + n) = (4 * x) \div n
  <2>1. (4 * (x + x)) * n = (4 * x) * (n + n)
    OBVIOUS
  <2>2. 4 * (x + x) \in Int /\ n + n \in Int /\ n + n > 0 /\ 4 * x \in Int /\ n \in Int /\ n > 0
    BY <1>2
  <2> QED
    BY <2>1, <2>2, SameFraction
<1>7. (4 * x) \div n \in Nat
  <2>1. 4 * x \in Int /\ 4 * x >= 0 /\ n \in Int /\ n > 0
    BY <1>2, <1>3
  <2> QED
    BY <2>1, QuotientNat
<1> QED
  BY <1>4, <1>5, <1>6, <1>7

\* Two percentages of one pool, rounded down.
LEMMA PercentagesOfPool ==
  ASSUME NEW a \in Nat, NEW b \in Nat, a + b # 0
  PROVE  (100 * a) \div (a + b) + (100 * b) \div (a + b) \in {99, 100}
<1> DEFINE p == a + b
           x == (100 * a) \div p
           y == (100 * b) \div p
<1>1. p \in Int /\ p > 0 /\ 100 * a \in Int /\ 100 * b \in Int
  OBVIOUS
<1>2. 100 * a + 100 * b = 100 * p
  OBVIOUS
<1> HIDE DEF p
<1>3. /\ x \in Int /\ p * x <= 100 * a /\ 100 * a < p * x + p
      /\ y \in Int /\ p * y <= 100 * b /\ 100 * b < p * y + p
  BY <1>1, Quotient
<1> HIDE DEF x, y
<1>4. p * x \in Int /\ p * y \in Int /\ p * (x + y) = p * x + p * y
  BY <1>1, <1>3
<1>5. p * (x + y) <= p * 100
  BY <1>1, <1>2, <1>3, <1>4
<1>6. p * 98 < p * (x + y)
  BY <1>1, <1>2, <1>3, <1>4
<1>7. x + y <= 100 /\ 98 < x + y
  <2>1. x + y \in Int
    BY <1>3
  <2>2. x + y <= 100
    BY <1>1, <1>5, <2>1, Cancel
  <2>3. 98 < x + y
    BY <1>1, <1>6, <2>1, Cancel
  <2> QED
    BY <2>2, <2>3
<1>8. x + y \in {99, 100}
  BY <1>3, <1>7
<1> QED
  BY <1>8 DEF x, y, p

\* The percentages of the datasets of a pool add up, a cost is not negative, and
\* usages recorded twice cost the same.
LEMMA ChargesAreSound ==
  ASSUME case \in Advisor!ChargeCases
  PROVE  Advisor!AdviceIsSound
<1> DEFINE s == case.used
           t == case.other
           a == Advisor!Mean(s, 4)
           b == Advisor!Mean(t, 4)
<1>1. /\ case.about = "charges"
      /\ s \in Seq(Nat) /\ Len(s) >= 1 /\ t \in Seq(Nat) /\ Len(t) >= 1
      /\ case.snaps \in Nat /\ case.snapRate \in Nat /\ case.storageRate \in Nat
      /\ case.dedup \in {1, 2}
  <2>1. /\ case.about = "charges" /\ case.dedup \in {1, 2}
        /\ s \in Advisor!Upto(Prices, MaxUsages) /\ t \in Advisor!Upto(Prices, MaxUsages)
        /\ case.snaps \in Prices /\ case.snapRate \in Prices /\ case.storageRate \in Prices
    BY DEF Advisor!ChargeCases
  <2>2. Prices \subseteq Nat /\ MaxUsages \in Nat
    BY AnalysisAssumption DEF AnalysisAssumption, Advisor!AdvisorsAssumption
  <2>3. \A S, T : S \subseteq T => Seq(S) \subseteq Seq(T)
    OBVIOUS
  <2>4. \A e \in Advisor!Upto(Prices, MaxUsages) : e \in Seq(Nat) /\ Len(e) >= 1
    BY <2>2, <2>3, ListsOf
  <2> HIDE DEF s, t
  <2> QED
    BY <2>1, <2>2, <2>4
<1>2. a \in Nat /\ b \in Nat /\ Advisor!Mean(s \o s, 4) = a
  <2> HIDE DEF s, t
  <2> QED
    BY <1>1, MeanTyped
<1>3. Advisor!PctOfPool(case, s) + Advisor!PctOfPool(case, t) \in {0, 99, 100}
  <2>1. /\ Advisor!PctOfPool(case, s) = IF a + b = 0 THEN 0 ELSE (100 * a) \div (a + b)
        /\ Advisor!PctOfPool(case, t) = IF a + b = 0 THEN 0 ELSE (100 * b) \div (a + b)
    BY DEF Advisor!PctOfPool
  <2> HIDE DEF a, b
  <2>2. CASE a + b = 0
    BY <2>1, <2>2
  <2>3. CASE a + b # 0
    <3>1. (100 * a) \div (a + b) + (100 * b) \div (a + b) \in {99, 100}
      BY <1>2, <2>3, PercentagesOfPool
    <3>2. /\ Advisor!PctOfPool(case, s) = (100 * a) \div (a + b)
          /\ Advisor!PctOfPool(case, t) = (100 * b) \div (a + b)
      BY <2>1, <2>3
    <3> QED
      BY <3>1, <3>2, Zenon
  <2> QED
    BY <2>2, <2>3
<1>4. Advisor!TotalCost(case, s \o s) = Advisor!TotalCost(case, s)
  BY <1>2 DEF Advisor!TotalCost
<1>5. Advisor!TotalCost(case, s) >= 0
  <2> DEFINE x == a * case.storageRate
             k == case.snaps * case.snapRate
  <2>1. Advisor!TotalCost(case, s) = x + 4 * case.snaps * case.snapRate - (x - x \div case.dedup)
    BY DEF Advisor!TotalCost
  <2>2. x \in Nat /\ k \in Nat
    <3>1. \A v, w \in Nat : v * w \in Nat
      OBVIOUS
    <3> HIDE DEF a
    <3> QED
      BY <1>1, <1>2, <3>1
  <2>3. 4 * case.snaps * case.snapRate = 4 * k
    BY <1>1
  <2> HIDE DEF x, k
  <2>4. x \div case.dedup \in Nat
    BY <1>1, <2>2, QuotientNat
  <2>5. PICK y \in Nat : y = x \div case.dedup
    BY <2>4
  <2>6. Advisor!TotalCost(case, s) = x + 4 * k - (x - y)
    BY <2>1, <2>3, <2>5
  <2> QED
    BY <2>2, <2>6
<1> QED
  BY <1>1, <1>3, <1>4, <1>5 DEF Advisor!AdviceIsSound
----------------------------------------------------------------------------
\* A request is one of the four kinds of plans, a case one of the five of advice.
AnswersTyped ==
  /\ \/ plan = Planner!NoPlan
     \/ plan \in Planner!ForecastRequests
     \/ plan \in Planner!CapacityRequests
     \/ plan \in Planner!ExpansionRequests
     \/ plan \in Planner!RebalanceRequests
  /\ \/ case = Advisor!NoCase
     \/ case \in Advisor!SnapshotCases
     \/ case \in Advisor!RiskCases
     \/ case \in Advisor!TrendCases
     \/ case \in Advisor!LatencyCases
     \/ case \in Advisor!ChargeCases

\* Other units leave requests and cases alone, and the planners and advisors take
\* no others.
LEMMA TypedKept ==
  ASSUME AnswersTyped,
         [AnalysisNext]_<<unit, vars, incidentVars, hotspotVars, anomalyVars, heatVars,
                          answerVars>>
  PROVE  AnswersTyped'
<1>1. CASE UNCHANGED <<plan, case>>
  BY <1>1 DEF AnswersTyped
<1>2. CASE Planner!Next /\ UNCHANGED case
  <2>1. CASE Planner!Ask
    BY <1>2, <2>1 DEF AnswersTyped, Planner!Ask
  <2>2. CASE Planner!Answer
    BY <1>2, <2>2 DEF AnswersTyped, Planner!Answer
  <2> QED
    BY <1>2, <2>1, <2>2 DEF Planner!Next
<1>3. CASE Advisor!Next /\ UNCHANGED plan
  <2>1. CASE Advisor!Look
    BY <1>3, <2>1 DEF AnswersTyped, Advisor!Look
  <2>2. CASE Advisor!Done
    BY <1>3, <2>2 DEF AnswersTyped, Advisor!Done
  <2> QED
    BY <1>3, <2>1, <2>2 DEF Advisor!Next
<1>4. CASE AnswersMove
  BY <1>1, <1>2, <1>3, <1>4 DEF AnswersMove
<1>5. UNCHANGED answerVars => UNCHANGED <<plan, case>>
  BY DEF answerVars
<1>6. \/ AnswersMove
      \/ UNCHANGED answerVars
  BY DEF AnalysisNext, DeadLettersMove, IncidentsMove, HotspotsMove, AnomaliesMove, HeatMoves
<1> QED
  BY <1>1, <1>4, <1>5, <1>6

\* Whatever is asked, the answers agree.
LEMMA TypedAgree ==
  ASSUME AnswersTyped
  PROVE  ForecastsAgree /\ AdviceIsSound
<1>1. ForecastsAgree
  <2>1. CASE plan \in Planner!ForecastRequests
    BY <2>1, ForecastsOfRequest DEF ForecastsAgree
  <2>2. CASE plan \notin Planner!ForecastRequests
    <3>1. plan.about # "forecast"
      <4>1. plan = Planner!NoPlan => plan.about = "nothing"
        BY DEF Planner!NoPlan
      <4>2. plan \in Planner!CapacityRequests => plan.about = "capacity"
        BY DEF Planner!CapacityRequests
      <4>3. plan \in Planner!ExpansionRequests => plan.about = "expansion"
        BY DEF Planner!ExpansionRequests
      <4>4. plan \in Planner!RebalanceRequests => plan.about = "rebalance"
        BY RebalanceTyped
      <4> QED
        BY <2>2, <4>1, <4>2, <4>3, <4>4 DEF AnswersTyped
    <3> QED
      BY <3>1 DEF ForecastsAgree, Planner!ForecastsAgree
  <2> QED
    BY <2>1, <2>2
<1>2. Planner!PlansAreSound
  <2>1. CASE plan = Planner!NoPlan \/ plan \in Planner!ForecastRequests
    <3>1. plan.about \notin {"expansion", "capacity", "rebalance"}
      BY <2>1 DEF Planner!NoPlan, Planner!ForecastRequests
    <3> QED
      BY <3>1 DEF Planner!PlansAreSound
  <2> QED
    BY <2>1, ExpansionIsSound, CapacityIsSound, RebalanceIsSound DEF AnswersTyped
<1>3. Advisor!AdviceIsSound
  <2>1. CASE case = Advisor!NoCase
    <3>1. case.about \notin {"snapshots", "risk", "errors", "latency", "charges"}
      BY <2>1 DEF Advisor!NoCase
    <3> QED
      BY <3>1 DEF Advisor!AdviceIsSound
  <2> QED
    BY <2>1, SnapshotsAreSound, RiskIsSound, TrendIsSound, LatencyIsSound, ChargesAreSound
       DEF AnswersTyped
<1> QED
  BY <1>1, <1>2, <1>3 DEF AdviceIsSound

\* At all times.
THEOREM AnswersAlwaysTyped == AnalysisSpec => []AnswersTyped
<1>1. AnalysisInit => AnswersTyped
  BY DEF AnalysisInit, AnswersTyped, Planner!Init, Advisor!Init
<1>2. AnswersTyped
        /\ [AnalysisNext]_<<unit, vars, incidentVars, hotspotVars, anomalyVars, heatVars,
                            answerVars>>
      => AnswersTyped'
  BY TypedKept
<1> QED
  BY <1>1, <1>2, PTL DEF AnalysisSpec

\* Of a pool whose size stays, both forecasts tell the same day from readings on a
\* line that rises, however many there are, how far apart and how large the pool.
\* Neither makes one from readings that never rise while the pool never shrinks,
\* both do from readings that always rise while it never grows (capacity.go:76-94,
\* forecast.go:63-132).
THEOREM ForecastersAgree == AnalysisSpec => []ForecastsAgree
<1>1. AnswersTyped => ForecastsAgree
  BY TypedAgree
<1> QED
  BY <1>1, AnswersAlwaysTyped, PTL

\* What plans and advice promise adds up, for pools of any size and lists of any
\* length (expansion/planner.go:61-156, capacity/planner.go:96-220,
\* rebalance.go:150-237, health.go:166-250, snapshot_advisor.go:40-122,
\* vdev_latency.go:49-164, chargeback.go:151-177).
THEOREM PlansAndAdviceAreSound == AnalysisSpec => []AdviceIsSound
<1>1. AnswersTyped => AdviceIsSound
  BY TypedAgree
<1> QED
  BY <1>1, AnswersAlwaysTyped, PTL
=============================================================================
