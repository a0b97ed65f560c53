-------------------------- MODULE Comparison_proofs --------------------------
(***************************************************************************)
(* Proofs about the two halves of the compare page, for every document,    *)
(* any number of edits between two versions, and wordings of any length.   *)
(*                                                                         *)
(* Consolidation: its rows are a function of two well-formed documents, so *)
(* the invariant is that the edits keep the later version well-formed;     *)
(* what the rows show and leave out follows from the shape of a document   *)
(* alone.                                                                  *)
(*                                                                         *)
(* TextDiff: the loops keep both texts, by an invariant on what each has   *)
(* written so far.  That nothing shorter would do rests on two facts about *)
(* the table of the code: no order-keeping pairing of equal words is       *)
(* larger than its entry, and the walk keeps as many words as the first    *)
(* entry says.                                                             *)
(*                                                                         *)
(* What recursive functions compute is proved from the least number at     *)
(* which it would fail.                                                    *)
(***************************************************************************)
EXTENDS Consolidation, TextDiff, SequenceTheorems, FiniteSetTheorems, TLAPS

(***************************************************************************)
(* Induction.                                                              *)
(***************************************************************************)
\* Every set of natural numbers that is not empty has a least one.
LEMMA LeastOfSet ==
  ASSUME NEW T, T \subseteq Nat, T # {}
  PROVE  \E m \in T : \A k \in T : m <= k
<1> DEFINE R == StrictSubsetOrdering(Nat)
           F == {0..m : m \in T}
<1>1. F \subseteq FiniteSubsetsOf(Nat)
  <2>1. \A m \in T : IsFiniteSet(0..m) /\ 0..m \subseteq Nat
    BY FS_Interval
  <2> QED BY <2>1 DEF FiniteSubsetsOf
<1>2. F # {} OBVIOUS
<1>3. PICK X \in F : \A Y \in F : ~ (<<Y, X>> \in R)
  BY <1>1, <1>2, WFMin, FS_StrictSubsetOrderingWellFounded
<1>4. PICK m \in T : X = 0..m  OBVIOUS
<1>5. ASSUME NEW k \in T, k < m PROVE FALSE
  <2>1. 0..k \in F OBVIOUS
  <2>2. 0..k # 0..m /\ 0..k \subseteq 0..m BY <1>5
  <2>3. <<0..k, 0..m>> \in R BY <2>2 DEF StrictSubsetOrdering
  <2> QED BY <2>1, <2>3, <1>3, <1>4
<1> QED BY <1>5, <1>4

\* The places f names are in their order.
Increasing(f, n) == \A k, o \in 1..n : k < o => f[k] < f[o]

(***************************************************************************)
(* Filtered and extended sequences.                                        *)
(***************************************************************************)
\* f[n] is what is kept of the first n elements of s.
Filters(s, S, f) ==
  \A n \in 0..Len(s) :
    f[n] = IF n = 0 THEN <<>>
           ELSE IF s[n] \in S THEN Append(f[n - 1], s[n]) ELSE f[n - 1]

FilterEquation(s, S, f) ==
  f = [n \in 0..Len(s) |->
         IF n = 0 THEN <<>>
         ELSE IF s[n] \in S THEN Append(f[n - 1], s[n]) ELSE f[n - 1]]

LEMMA FiltersExists ==
  ASSUME NEW T, NEW s \in Seq(T), NEW S
  PROVE  \E f : FilterEquation(s, S, f)
<1> DEFINE Step(f, n) == IF n = 0 THEN <<>>
                         ELSE IF s[n] \in S THEN Append(f[n - 1], s[n]) ELSE f[n - 1]
           G(m) == \E f : /\ f = [n \in 0..m |-> f[n]]
                          /\ \A n \in 0..m : f[n] = Step(f, n)
           Bad == {m \in Nat : ~G(m)}
<1>1. Len(s) \in Nat OBVIOUS
<1>2. G(0)
  <2> DEFINE f == [n \in 0..0 |-> <<>>]
  <2>1. f = [n \in 0..0 |-> f[n]] /\ \A n \in 0..0 : f[n] = Step(f, n) OBVIOUS
  <2> HIDE DEF f, Step
  <2> QED BY <2>1
<1>3. ASSUME NEW m \in Nat, G(m) PROVE G(m + 1)
  <2>1. PICK f : f = [n \in 0..m |-> f[n]] /\ \A n \in 0..m : f[n] = Step(f, n)
    BY <1>3
  <2> DEFINE x == Step(f, m + 1)
             g == [n \in 0..(m + 1) |-> IF n = m + 1 THEN x ELSE f[n]]
  <2> HIDE DEF x
  <2>2. g = [n \in 0..(m + 1) |-> g[n]] OBVIOUS
  <2>3. \A n \in 0..m : g[n] = f[n] OBVIOUS
  <2>4. g[m + 1] = x OBVIOUS
  <2> HIDE DEF g
  <2>5. ASSUME NEW n \in 0..(m + 1) PROVE g[n] = Step(g, n)
    <3>1. n # 0 => g[n - 1] = f[n - 1] BY <2>3
    <3>2. Step(g, n) = Step(f, n) BY <3>1
    <3> HIDE DEF Step
    <3>3. CASE n = m + 1 BY <3>2, <3>3, <2>4 DEF x
    <3>4. CASE n # m + 1
      <4>1. n \in 0..m BY <3>4
      <4> QED BY <4>1, <3>2, <2>1, <2>3
    <3> QED BY <3>3, <3>4
  <2> HIDE DEF Step
  <2> QED BY <2>2, <2>5
<1> HIDE DEF G
<1>4. ASSUME NEW k \in Bad, \A x \in Bad : k <= x PROVE FALSE
  <2>1. k \in Nat /\ k # 0 BY <1>2
  <2>2. k - 1 \in Nat /\ k - 1 \notin Bad BY <2>1, <1>4
  <2>3. G(k - 1) BY <2>2
  <2>4. G((k - 1) + 1) BY <2>2, <2>3, <1>3
  <2>5. (k - 1) + 1 = k BY <2>1
  <2> QED BY <2>4, <2>5
<1>5. Bad = {}
  <2>1. Bad \subseteq Nat OBVIOUS
  <2> HIDE DEF Bad
  <2> QED BY <2>1, <1>4, LeastOfSet
<1>6. G(Len(s)) BY <1>1, <1>5
<1>7. PICK f : f = [n \in 0..Len(s) |-> f[n]] /\ \A n \in 0..Len(s) : f[n] = Step(f, n)
  BY <1>6 DEF G
<1>8. f = [n \in 0..Len(s) |-> Step(f, n)]
  <2> HIDE DEF Step
  <2> DEFINE g == [n \in 0..Len(s) |-> Step(f, n)]
             h == [n \in 0..Len(s) |-> f[n]]
  <2>1. g = h BY <1>7, Zenon
  <2>2. f = h BY <1>7, Zenon
  <2> HIDE DEF g, h
  <2>3. f = g BY <2>1, <2>2
  <2> QED BY <2>3, Zenon DEF g
<1> QED BY <1>8, Zenon DEF FilterEquation

LEMMA FilterIs ==
  ASSUME NEW T, NEW s \in Seq(T), NEW S
  PROVE  \E f : Filters(s, S, f) /\ Filter(s, S) = f[Len(s)]
<1> DEFINE f == CHOOSE f : FilterEquation(s, S, f)
<1>1. FilterEquation(s, S, f) BY FiltersExists, Zenon
<1>2. Filter(s, S) = f[Len(s)] BY Zenon DEF Filter, FilterEquation
<1> HIDE DEF f
<1>3. Filters(s, S, f)
  <2> DEFINE g == [n \in 0..Len(s) |->
                     IF n = 0 THEN <<>>
                     ELSE IF s[n] \in S THEN Append(f[n - 1], s[n]) ELSE f[n - 1]]
  <2>1. f = g BY <1>1, Zenon DEF FilterEquation
  <2>2. ASSUME NEW n \in 0..Len(s)
        PROVE  g[n] = IF n = 0 THEN <<>>
                      ELSE IF s[n] \in S THEN Append(f[n - 1], s[n]) ELSE f[n - 1]
    OBVIOUS
  <2> HIDE DEF g
  <2> QED BY <2>1, <2>2, Zenon DEF Filters
<1> QED BY <1>2, <1>3

\* f names the places among the first n of s whose elements are in S; they make up w.
Picks(w, s, S, n, f) ==
  /\ f \in [1..Len(w) -> 1..n]
  /\ Increasing(f, Len(w))
  /\ \A k \in 1..Len(w) : w[k] = s[f[k]] /\ s[f[k]] \in S
  /\ \A m \in 1..n : s[m] \in S => \E k \in 1..Len(w) : f[k] = m

LEMMA PicksNext ==
  ASSUME NEW T, NEW s \in Seq(T), NEW S, NEW n \in Nat, n < Len(s),
         NEW w \in Seq(T), NEW f, Picks(w, s, S, n, f)
  PROVE  LET v == IF s[n + 1] \in S THEN Append(w, s[n + 1]) ELSE w
         IN  v \in Seq(T) /\ \E g : Picks(v, s, S, n + 1, g)
<1>0. /\ Len(w) \in Nat /\ n + 1 \in 1..Len(s) /\ s[n + 1] \in T
      /\ f \in [1..Len(w) -> 1..n]
  BY DEF Picks
<1>1. CASE s[n + 1] \notin S
  <2>1. f \in [1..Len(w) -> 1..(n + 1)] BY <1>0
  <2>2. ASSUME NEW m \in 1..(n + 1), s[m] \in S PROVE \E k \in 1..Len(w) : f[k] = m
    <3>1. m \in 1..n BY <2>2, <1>1
    <3> QED BY <3>1, <2>2 DEF Picks
  <2>3. Picks(w, s, S, n + 1, f) BY <2>1, <2>2 DEF Picks
  <2> QED BY <2>3, <1>1
<1>2. CASE s[n + 1] \in S
  <2> DEFINE v == Append(w, s[n + 1])
             q == Len(w) + 1
             g == [k \in 1..q |-> IF k = q THEN n + 1 ELSE f[k]]
  <2>1. v \in Seq(T) /\ Len(v) = q BY <1>0
  <2>2. ASSUME NEW k \in 1..q PROVE IF k = q THEN v[k] = s[n + 1] ELSE v[k] = w[k]
    BY <1>0
  <2> HIDE DEF v
  <2>3. ASSUME NEW k \in 1..q, k # q
        PROVE  k \in 1..Len(w) /\ g[k] = f[k] /\ f[k] \in 1..n /\ v[k] = w[k]
    BY <2>2, <2>3, <1>0
  <2>4. q \in 1..q /\ g[q] = n + 1 /\ v[q] = s[n + 1] BY <2>2, <1>0
  <2>5. g \in [1..q -> 1..(n + 1)] BY <1>0
  <2> HIDE DEF g
  <2>6. Increasing(g, q)
    <3>1. ASSUME NEW k \in 1..q, NEW o \in 1..q, k < o PROVE g[k] < g[o]
      <4>1. k # q BY <3>1, <1>0
      <4>2. CASE o = q BY <4>1, <4>2, <2>3, <2>4
      <4>3. CASE o # q BY <4>1, <4>3, <3>1, <2>3 DEF Picks, Increasing
      <4> QED BY <4>2, <4>3
    <3> QED BY <3>1 DEF Increasing
  <2>7. ASSUME NEW k \in 1..q PROVE v[k] = s[g[k]] /\ s[g[k]] \in S
    <3>1. CASE k = q BY <3>1, <2>4, <1>2
    <3>2. CASE k # q BY <3>2, <2>3 DEF Picks
    <3> QED BY <3>1, <3>2
  <2>8. ASSUME NEW m \in 1..(n + 1), s[m] \in S PROVE \E k \in 1..q : g[k] = m
    <3>1. CASE m = n + 1 BY <3>1, <2>4
    <3>2. CASE m # n + 1
      <4>1. m \in 1..n BY <3>2
      <4>2. PICK k \in 1..Len(w) : f[k] = m BY <4>1, <2>8 DEF Picks
      <4>3. k \in 1..q /\ k # q BY <1>0
      <4> QED BY <4>2, <4>3, <2>3
    <3> QED BY <3>1, <3>2
  <2>9. Picks(v, s, S, n + 1, g) BY <2>1, <2>5, <2>6, <2>7, <2>8 DEF Picks
  <2> QED BY <2>1, <2>9, <1>2 DEF v
<1> QED BY <1>1, <1>2

LEMMA FilterPicks ==
  ASSUME NEW T, NEW s \in Seq(T), NEW S
  PROVE  Filter(s, S) \in Seq(T) /\ \E f : Picks(Filter(s, S), s, S, Len(s), f)
<1>1. PICK f : Filters(s, S, f) /\ Filter(s, S) = f[Len(s)] BY FilterIs
<1> DEFINE G(n) == f[n] \in Seq(T) /\ \E g : Picks(f[n], s, S, n, g)
           Bad == {n \in 0..Len(s) : ~G(n)}
<1>2. Len(s) \in Nat OBVIOUS
<1>3. G(0)
  <2>1. f[0] = <<>> BY <1>1, <1>2 DEF Filters
  <2>2. Picks(<<>>, s, S, 0, [k \in {} |-> 0])
    <3>1. [k \in {} |-> 0] \in [1..0 -> 1..0] /\ 1..0 = {} /\ Len(<<>>) = 0 OBVIOUS
    <3> QED BY <3>1 DEF Picks, Increasing
  <2> QED BY <2>1, <2>2
<1>4. ASSUME NEW n \in 0..Len(s), n # Len(s), G(n) PROVE G(n + 1)
  <2>1. n \in Nat /\ n < Len(s) /\ n + 1 \in 0..Len(s) /\ n + 1 # 0 /\ (n + 1) - 1 = n
    BY <1>2, <1>4
  <2>2. f[n + 1] = IF s[n + 1] \in S THEN Append(f[n], s[n + 1]) ELSE f[n]
    BY <1>1, <2>1 DEF Filters
  <2>3. PICK g : Picks(f[n], s, S, n, g) BY <1>4
  <2> QED BY <2>1, <2>2, <2>3, <1>4, PicksNext
<1> HIDE DEF G
<1>5. ASSUME NEW k \in Bad, \A x \in Bad : k <= x PROVE FALSE
  <2>1. k \in 0..Len(s) /\ k # 0 BY <1>3
  <2>2. k - 1 \in 0..Len(s) /\ k - 1 # Len(s) /\ k - 1 \notin Bad BY <2>1, <1>2, <1>5
  <2>3. G(k - 1) BY <2>2
  <2>4. G((k - 1) + 1) BY <2>2, <2>3, <1>4
  <2>5. (k - 1) + 1 = k BY <2>1, <1>2
  <2> QED BY <2>4, <2>5
<1>6. Bad = {}
  <2>1. Bad \subseteq Nat BY <1>2
  <2> HIDE DEF Bad
  <2> QED BY <2>1, <1>5, LeastOfSet
<1>7. G(Len(s)) BY <1>2, <1>6
<1> QED BY <1>1, <1>7 DEF G

\* A list without repetitions stays one.
LEMMA FilterKeeps ==
  ASSUME NEW T, NEW s \in Seq(T), IsInjective(s), NEW S
  PROVE  /\ Filter(s, S) \in Seq(T) /\ IsInjective(Filter(s, S))
         /\ ToSet(Filter(s, S)) = ToSet(s) \cap S
<1> DEFINE w == Filter(s, S)
<1>1. w \in Seq(T) /\ \E f : Picks(w, s, S, Len(s), f) BY FilterPicks
<1> HIDE DEF w
<1>2. PICK f : Picks(w, s, S, Len(s), f) BY <1>1
<1>3. /\ Len(w) \in Nat /\ Len(s) \in Nat /\ DOMAIN w = 1..Len(w) /\ DOMAIN s = 1..Len(s)
      /\ f \in [1..Len(w) -> 1..Len(s)]
  BY <1>1, <1>2 DEF Picks
<1>4. ASSUME NEW k \in 1..Len(w), NEW o \in 1..Len(w), w[k] = w[o] PROVE k = o
  <2>1. s[f[k]] = s[f[o]] /\ f[k] \in DOMAIN s /\ f[o] \in DOMAIN s
    BY <1>2, <1>3, <1>4 DEF Picks
  <2>2. f[k] = f[o] BY <2>1 DEF IsInjective
  <2>3. ~(k < o) /\ ~(o < k) BY <2>2, <1>2, <1>3 DEF Picks, Increasing
  <2> QED BY <2>3, <1>3
<1>5. IsInjective(w) BY <1>3, <1>4 DEF IsInjective
<1>6. ASSUME NEW x \in ToSet(w) PROVE x \in ToSet(s) \cap S
  BY <1>2, <1>3 DEF ToSet, Picks
<1>7. ASSUME NEW x \in ToSet(s) \cap S PROVE x \in ToSet(w)
  <2>1. PICK m \in 1..Len(s) : x = s[m] BY <1>3 DEF ToSet
  <2>2. PICK k \in 1..Len(w) : f[k] = m BY <2>1, <1>2 DEF Picks
  <2>3. w[k] = x BY <2>1, <2>2, <1>2 DEF Picks
  <2> QED BY <2>3, <1>3 DEF ToSet
<1>8. ToSet(w) = ToSet(s) \cap S BY <1>6, <1>7
<1> QED BY <1>1, <1>5, <1>8 DEF w

LEMMA InsertAtKeeps ==
  ASSUME NEW T, NEW s \in Seq(T), IsInjective(s), NEW x \in T, x \notin ToSet(s),
         NEW n \in 1..(Len(s) + 1)
  PROVE  /\ InsertAt(s, n, x) \in Seq(T) /\ IsInjective(InsertAt(s, n, x))
         /\ ToSet(InsertAt(s, n, x)) = ToSet(s) \cup {x}
<1> DEFINE w == InsertAt(s, n, x)
           m == Len(s)
<1>1. m \in Nat /\ DOMAIN s = 1..m OBVIOUS
<1>2. /\ w \in Seq(T) /\ Len(w) = m + 1
      /\ \A k \in 1..(m + 1) : w[k] = IF k < n THEN s[k] ELSE IF k = n THEN x ELSE s[k - 1]
  <2> DEFINE A == SubSeq(s, 1, n - 1)
             B == SubSeq(s, n, m)
  <2>1. /\ A \in Seq(T) /\ Len(A) = n - 1 /\ \A k \in 1..(n - 1) : A[k] = s[k]
        /\ B \in Seq(T) /\ Len(B) = m + 1 - n
        /\ \A k \in 1..(m + 1 - n) : B[k] = s[n - 1 + k]
    OBVIOUS
  <2>2. w = A \o <<x>> \o B BY DEF InsertAt
  <2> HIDE DEF A, B, m, w
  <2> DEFINE C == A \o <<x>>
  <2>3. /\ C \in Seq(T) /\ Len(C) = n
        /\ \A k \in 1..n : C[k] = IF k < n THEN s[k] ELSE x
    BY <2>1
  <2>4. w = C \o B BY <2>2
  <2> HIDE DEF C
  <2>5. w \in Seq(T) /\ Len(w) = m + 1 BY <1>1, <2>1, <2>3, <2>4
  <2>6. ASSUME NEW k \in 1..(m + 1)
        PROVE  w[k] = IF k < n THEN s[k] ELSE IF k = n THEN x ELSE s[k - 1]
    <3>1. CASE k <= n BY <3>1, <1>1, <2>1, <2>3, <2>4
    <3>2. CASE ~(k <= n)
      <4>1. w[k] = B[k - n] /\ k - n \in 1..(m + 1 - n) BY <3>2, <1>1, <2>1, <2>3, <2>4
      <4>2. n - 1 + (k - n) = k - 1 BY <1>1
      <4> QED BY <4>1, <4>2, <3>2, <2>1
    <3> QED BY <3>1, <3>2
  <2> QED BY <2>5, <2>6
<1> HIDE DEF w, m
<1>3. DOMAIN w = 1..(m + 1) /\ n \in 1..(m + 1) BY <1>1, <1>2 DEF m
<1>4. ASSUME NEW k \in 1..(m + 1)
      PROVE  /\ k < n => k \in 1..m
             /\ n < k => k - 1 \in 1..m
  BY <1>1, <1>3
<1>5. ASSUME NEW k \in 1..m PROVE s[k] # x
  BY <1>1 DEF ToSet
<1>6. ASSUME NEW k \in 1..(m + 1), NEW o \in 1..(m + 1), w[k] = w[o] PROVE k = o
  <2>1. \A a, b \in 1..m : s[a] = s[b] => a = b BY <1>1 DEF IsInjective
  <2>2. CASE k < n BY <2>1, <2>2, <1>1, <1>2, <1>3, <1>4, <1>5, <1>6
  <2>3. CASE k = n BY <2>1, <2>3, <1>1, <1>2, <1>3, <1>4, <1>5, <1>6
  <2>4. CASE n < k BY <2>1, <2>4, <1>1, <1>2, <1>3, <1>4, <1>5, <1>6
  <2> QED BY <2>2, <2>3, <2>4, <1>3, <1>1
<1>7. IsInjective(w) BY <1>3, <1>6 DEF IsInjective
<1>8. ASSUME NEW y \in ToSet(w) PROVE y \in ToSet(s) \cup {x}
  <2>1. PICK k \in 1..(m + 1) : y = w[k] BY <1>3 DEF ToSet
  <2>2. CASE k = n BY <2>1, <2>2, <1>2, <1>3
  <2>3. CASE k # n
    <3>1. PICK o \in 1..m : y = s[o] BY <2>1, <2>3, <1>1, <1>2, <1>3, <1>4
    <3> QED BY <3>1, <1>1 DEF ToSet
  <2> QED BY <2>2, <2>3
<1>9. ASSUME NEW y \in ToSet(s) \cup {x} PROVE y \in ToSet(w)
  <2>1. CASE y = x
    <3>1. w[n] = x BY <1>2, <1>3, <1>1
    <3> QED BY <2>1, <3>1, <1>3 DEF ToSet
  <2>2. CASE y # x
    <3>1. PICK k \in 1..m : y = s[k] BY <2>2, <1>1 DEF ToSet
    <3>2. CASE k < n
      <4>1. k \in 1..(m + 1) /\ w[k] = y BY <3>1, <3>2, <1>1, <1>2, <1>3
      <4> QED BY <4>1, <1>3 DEF ToSet
    <3>3. CASE ~(k < n)
      <4>1. k + 1 \in 1..(m + 1) /\ w[k + 1] = y BY <3>1, <3>3, <1>1, <1>2, <1>3
      <4> QED BY <4>1, <1>3 DEF ToSet
    <3> QED BY <3>2, <3>3
  <2> QED BY <2>1, <2>2
<1>10. ToSet(w) = ToSet(s) \cup {x} BY <1>8, <1>9
<1> QED BY <1>2, <1>7, <1>10 DEF w

(***************************************************************************)
(* Documents.                                                              *)
(***************************************************************************)
Sub == Article \cup Section

LEMMA DocumentHolds ==
  ASSUME NEW d \in Document, NEW h \in Holder
  PROVE  /\ d.order[h] \in Seq(Passage)
         /\ Held(d.order, h) \subseteq MayHold(h)
         /\ Held(d.order, h) \subseteq Index(d)
         /\ Held(d.order, h) \subseteq Passage
         /\ IsInjective(d.order[h])
<1>1. /\ d.order[h] \in Seq(Passage)
      /\ Held(d.order, h) \subseteq MayHold(h)
      /\ IsInjective(d.order[h])
  BY DEF Document
<1>2. Held(d.order, h) \subseteq Index(d) BY DEF Index
<1>3. MayHold(h) \subseteq Passage BY DEF MayHold, Passage
<1> QED BY <1>1, <1>2, <1>3

LEMMA OneHolder ==
  ASSUME NEW d \in Document, NEW g \in Holder, NEW h \in Holder, NEW p,
         p \in Held(d.order, g), p \in Held(d.order, h)
  PROVE  g = h
<1>1. g # h => Held(d.order, g) \cap Held(d.order, h) = {} BY DEF Document
<1> QED BY <1>1

LEMMA DocumentWords ==
  ASSUME NEW d \in Document, NEW p \in Passage
  PROVE  /\ p \in Index(d) <=> d.wording[p] # Missing
         /\ p \in Index(d) <=> \E h \in Holder : p \in Held(d.order, h)
         /\ p \notin Index(d) => Content(d, p) = <<>>
<1>1. p \in Index(d) <=> \E h \in Holder : p \in Held(d.order, h) BY DEF Index
<1>2. (\E h \in Holder : p \in Held(d.order, h)) <=> d.wording[p] # Missing
  BY DEF Document
<1>3. ~(\E h \in Holder : p \in Held(d.order, h)) /\ p \in Holder => d.order[p] = <<>>
  BY DEF Document
<1> QED BY <1>1, <1>2, <1>3 DEF Content

LEMMA ContentOfHolder ==
  ASSUME NEW d, NEW h \in Sub
  PROVE  h \in Holder /\ h \in Passage /\ ToSet(Content(d, h)) = Held(d.order, h)
BY DEF Sub, Holder, Passage, Content, Held

\* What may hold what.
LEMMA HoldersByKind ==
  ASSUME NEW d \in Document, NEW h \in Sub, NEW p, p \in Held(d.order, h)
  PROVE  /\ p \notin Article
         /\ p \in Section => h \in Article
         /\ p \in Passage
<1>1. h \in Holder /\ h # Root BY IdsAreDistinct DEF Sub, Holder, Passage
<1>2. p \in MayHold(h) BY <1>1, DocumentHolds
<1> QED BY <1>1, <1>2, IdsAreDistinct DEF MayHold, Sub, Passage

(***************************************************************************)
(* What encloses a passage.                                                *)
(***************************************************************************)
LEMMA ParentsOfHeld ==
  ASSUME NEW d \in Document, NEW h \in Sub, NEW p, p \in Held(d.order, h)
  PROVE  Parents(d, p) = {h} \cup Parents(d, h)
<1>1. {g \in Article \cup Section : p \in Held(d.order, g)} = {h}
  <2>1. ASSUME NEW g \in Article \cup Section, p \in Held(d.order, g) PROVE g = h
    BY <2>1, OneHolder, ContentOfHolder DEF Sub
  <2> QED BY <2>1 DEF Sub
<1>2. Parents(d, p) = {h} \cup {a \in Article : h \in Held(d.order, a)}
  BY <1>1, Zenon DEF Parents
<1>3. {g \in Article \cup Section : h \in Held(d.order, g)} = {a \in Article : h \in Held(d.order, a)}
  <2>1. ASSUME NEW g \in Section PROVE h \notin Held(d.order, g)
    <3>1. g \in Sub /\ g \notin Article BY IdsAreDistinct DEF Sub
    <3> QED BY <3>1, HoldersByKind DEF Sub
  <2> QED BY <2>1
<1>4. ASSUME NEW a \in Article, NEW b \in Article PROVE b \notin Held(d.order, a)
  BY HoldersByKind DEF Sub
<1>5. Parents(d, h) = {a \in Article : h \in Held(d.order, a)}
  BY <1>3, <1>4 DEF Parents
<1> QED BY <1>2, <1>5

LEMMA ParentsOfUnheld ==
  ASSUME NEW d \in Document, NEW p, \A h \in Sub : p \notin Held(d.order, h)
  PROVE  Parents(d, p) = {}
BY DEF Parents, Sub

LEMMA ParentsOfArticle ==
  ASSUME NEW d \in Document, NEW p \in Article
  PROVE  Parents(d, p) = {}
BY HoldersByKind, ParentsOfUnheld

\* A parent is a passage of the version that holds the passage or what holds it.
LEMMA ParentHolds ==
  ASSUME NEW d \in Document, NEW p, NEW q \in Parents(d, p)
  PROVE  /\ q \in Sub /\ q \in Passage /\ q \in Index(d)
         /\ p \in Within(d, q) /\ p \in Passage
         /\ \/ p \in Held(d.order, q)
            \/ \E h \in Sub : p \in Held(d.order, h) /\ h \in Held(d.order, q) /\ q \in Article
         /\ Parents(d, q) \subseteq Parents(d, p)
         /\ Parents(d, q) \subseteq Article
<1>1. PICK h \in Sub : p \in Held(d.order, h) BY ParentsOfUnheld
<1>2. q = h \/ q \in Parents(d, h) BY <1>1, ParentsOfHeld
<1>3. q = h \/ (q \in Article /\ h \in Held(d.order, q))
  <2>1. CASE q \in Parents(d, h)
    <3>1. PICK g \in Sub : h \in Held(d.order, g) BY <2>1, ParentsOfUnheld
    <3>2. g \in Article BY <3>1, <1>1, HoldersByKind DEF Sub
    <3>3. Parents(d, h) = {g} \cup Parents(d, g) /\ Parents(d, g) = {}
      BY <3>1, <3>2, ParentsOfHeld, ParentsOfArticle
    <3> QED BY <3>1, <3>2, <3>3, <2>1
  <2> QED BY <2>1, <1>2
<1>4. q \in Sub BY <1>1, <1>3 DEF Sub
<1>5. /\ h \in Holder /\ h \in Passage /\ ToSet(Content(d, h)) = Held(d.order, h)
      /\ q \in Holder /\ q \in Passage /\ ToSet(Content(d, q)) = Held(d.order, q)
  BY <1>1, <1>4, ContentOfHolder
<1>6. p \in Within(d, q) BY <1>1, <1>3, <1>5 DEF Within
<1>7. q \in Index(d)
  <2>1. Content(d, q) # <<>>
    <3>1. ToSet(Content(d, q)) # {} BY <1>1, <1>3, <1>5
    <3> QED BY <3>1 DEF ToSet
  <2> QED BY <2>1, <1>5, DocumentWords
<1>8. p \in Passage BY <1>1, HoldersByKind
<1>9. Parents(d, q) \subseteq Parents(d, p)
  <2>1. CASE q = h BY <2>1, <1>1, ParentsOfHeld
  <2>2. CASE q \in Article BY <2>2, ParentsOfArticle
  <2> QED BY <2>1, <2>2, <1>3
<1>10. Parents(d, q) \subseteq Article
  <2>1. ASSUME NEW a \in Parents(d, q) PROVE a \in Article
    <3>1. PICK g \in Sub : q \in Held(d.order, g) BY <2>1, ParentsOfUnheld
    <3>2. g \in Article BY <1>4, <3>1, HoldersByKind DEF Sub
    <3>3. Parents(d, q) = {g} \cup Parents(d, g) /\ Parents(d, g) = {}
      BY <3>1, <3>2, ParentsOfHeld, ParentsOfArticle
    <3> QED BY <3>2, <3>3, <2>1
  <2> QED BY <2>1
<1> QED BY <1>1, <1>3, <1>4, <1>5, <1>6, <1>7, <1>8, <1>9, <1>10

\* Around a passage in C there is one in C that nothing in C encloses.
LEMMA Outermost ==
  ASSUME NEW d \in Document, NEW C, NEW p \in C
  PROVE  \E r \in C : r \in {p} \cup Parents(d, p) /\ Parents(d, r) \cap C = {}
<1>1. CASE Parents(d, p) \cap C = {} BY <1>1
<1>2. CASE Parents(d, p) \cap C # {}
  <2>1. PICK q \in C : q \in Parents(d, p) BY <1>2
  <2>2. CASE Parents(d, q) \cap C = {} BY <2>1, <2>2
  <2>3. CASE Parents(d, q) \cap C # {}
    <3>1. PICK a \in C : a \in Parents(d, q) BY <2>3
    <3>2. a \in Article /\ a \in Parents(d, p) BY <2>1, <3>1, ParentHolds
    <3>3. Parents(d, a) = {} BY <3>2, ParentsOfArticle
    <3> QED BY <3>1, <3>2, <3>3
  <2> QED BY <2>2, <2>3
<1> QED BY <1>1, <1>2

(***************************************************************************)
(* The rows.                                                               *)
(***************************************************************************)
\* Nothing in a passage that is the same differs or is elsewhere.
LEMMA SameInside ==
  ASSUME before \in Document, after \in Document, NEW p, NEW r \in Parents(after, p),
         samePassage(r)
  PROVE  before.wording[p] = after.wording[p] /\ Parents(before, p) = Parents(after, p)
<1>1. /\ r \in Sub /\ p \in Within(after, r)
      /\ \/ p \in Held(after.order, r)
         \/ \E h \in Sub : p \in Held(after.order, h) /\ h \in Held(after.order, r) /\ r \in Article
  BY ParentHolds
<1>2. /\ SameSignature(r) /\ Parents(before, r) = Parents(after, r)
  BY DEF samePassage
<1>3. ASSUME NEW q \in Within(after, r)
      PROVE  before.wording[q] = after.wording[q] /\ Content(before, q) = Content(after, q)
  BY <1>2 DEF SameSignature
<1>4. before.wording[p] = after.wording[p] BY <1>1, <1>3
<1>5. r \in Within(after, r) BY DEF Within
<1>6. ASSUME NEW h \in Sub, h \in Within(after, r)
      PROVE  Held(before.order, h) = Held(after.order, h)
  BY <1>6, <1>3, ContentOfHolder
<1>7. CASE p \in Held(after.order, r)
  <2>1. p \in Held(before.order, r) BY <1>1, <1>5, <1>6, <1>7
  <2> QED BY <2>1, <1>1, <1>2, <1>4, <1>7, ParentsOfHeld
<1>8. ASSUME NEW h \in Sub, p \in Held(after.order, h), h \in Held(after.order, r)
      PROVE  Parents(before, p) = Parents(after, p)
  <2>1. h \in Within(after, r) BY <1>1, <1>8, ContentOfHolder DEF Within
  <2>2. p \in Held(before.order, h) /\ h \in Held(before.order, r)
    BY <1>1, <1>5, <1>6, <1>8, <2>1
  <2>3. /\ Parents(before, p) = {h} \cup Parents(before, h)
        /\ Parents(before, h) = {r} \cup Parents(before, r)
    BY <2>2, <1>1, ParentsOfHeld
  <2>4. /\ Parents(after, p) = {h} \cup Parents(after, h)
        /\ Parents(after, h) = {r} \cup Parents(after, r)
    BY <1>8, <1>1, ParentsOfHeld
  <2> QED BY <2>3, <2>4, <1>2
<1> QED BY <1>1, <1>4, <1>7, <1>8

Candidates == {p \in Passage : Candidate(p)}

LEMMA RowOf ==
  ASSUME NEW p \in Candidates, ParentsOf(p) \cap Candidates = {},
         ~(samePassage(p) /\ p \notin reorderedRoots)
  PROVE  p \in {r.id : r \in NetRows}
<1> DEFINE R == [id |-> p, kind |-> Kind(p), provenance |-> Provenance(p)]
<1>1. Kind(p) # "reversed" BY DEF Kind
<1>2. R \in Rows BY <1>1, Zenon DEF Rows, Candidates
<1>3. R.kind = Kind(p) /\ R.id = p OBVIOUS
<1> HIDE DEF R
<1>4. R \in NetRows BY <1>1, <1>2, <1>3 DEF NetRows
<1> QED BY <1>3, <1>4

\* A candidate that differs in its wording or its place is shown, itself or in a row
\* around it.
LEMMA DifferenceIsShown ==
  ASSUME before \in Document, after \in Document, NEW p \in Candidates, p \in Index(after),
         before.wording[p] # after.wording[p] \/ Moved(p)
  PROVE  \E r \in {r.id : r \in NetRows} : r \in {p} \cup Parents(after, p)
<1>1. PICK r \in Candidates :
        r \in {p} \cup Parents(after, p) /\ Parents(after, r) \cap Candidates = {}
  BY Outermost
<1>2. r \in Index(after) BY <1>1, ParentHolds
<1>3. ParentsOf(r) = Parents(after, r) BY <1>2 DEF ParentsOf
<1>4. ~samePassage(r)
  <2>1. CASE r = p
    <3>1. p \in Within(after, p) BY DEF Within
    <3> QED BY <2>1, <3>1 DEF samePassage, SameSignature, Moved
  <2>2. CASE r \in Parents(after, p) BY <2>2, SameInside DEF Moved
  <2> QED BY <2>1, <2>2, <1>1
<1> QED BY <1>1, <1>3, <1>4, RowOf

LEMMA ShownChanges ==
  ASSUME before \in Document, after \in Document PROVE ChangesAreShown
<1> DEFINE rows == {r.id : r \in NetRows}
<1>1. ASSUME NEW p \in Passage, p \in Index(after), before.wording[p] # after.wording[p]
      PROVE  \E r \in rows : p \in Within(after, r)
  <2>1. ~samePassage(p)
    <3>1. p \in Within(after, p) BY DEF Within
    <3> QED BY <1>1, <3>1 DEF samePassage, SameSignature
  <2>2. p \in Candidates BY <1>1, <2>1 DEF Candidates, Candidate
  <2>3. PICK r \in rows : r \in {p} \cup Parents(after, p) BY <1>1, <2>2, DifferenceIsShown
  <2>4. p \in Within(after, r)
    <3>1. CASE r = p BY <3>1 DEF Within
    <3>2. CASE r \in Parents(after, p) BY <3>2, ParentHolds
    <3> QED BY <3>1, <3>2, <2>3
  <2> QED BY <2>4
<1>2. ASSUME NEW p \in Passage, p \in Index(after), Moved(p)
      PROVE  \E r \in rows : p \in Within(after, r) \/ r \in Within(after, p)
  <2>1. CASE p \in Candidates
    <3>1. PICK r \in rows : r \in {p} \cup Parents(after, p)
      BY <1>2, <2>1, DifferenceIsShown
    <3>2. CASE r = p BY <3>2 DEF Within
    <3>3. CASE r \in Parents(after, p) BY <3>3, ParentHolds
    <3> QED BY <3>1, <3>2, <3>3
  <2>2. CASE p \notin Candidates
    <3>1. ~samePassage(p) BY <1>2 DEF samePassage, Moved
    <3>2. hasChildren(p) BY <2>2, <3>1 DEF Candidates, Candidate
    <3>3. Content(after, p) # <<>> BY <1>2, <3>2 DEF hasChildren
    <3>4. p \in Holder BY <3>3 DEF Content
    <3>5. p \in Sub BY <3>4, IdsAreDistinct DEF Holder, Sub
    <3>6. p \in Section
      <4>1. ASSUME p \in Article PROVE FALSE
        BY <4>1, <1>2, ParentsOfArticle DEF Moved
      <4> QED BY <4>1, <3>5 DEF Sub
    <3>7. PICK q : q \in Held(after.order, p)
      <4>1. after.order[p] \in Seq(Passage) /\ after.order[p] # <<>>
        BY <3>3, <3>4, DocumentHolds DEF Content
      <4>2. 1 \in DOMAIN after.order[p] BY <4>1
      <4> QED BY <4>2 DEF Held, ToSet
    <3>8. q \in Text /\ q \in Index(after) /\ q \in Passage /\ q \notin Holder
      <4>1. q \in MayHold(p) /\ q \in Index(after) /\ q \in Passage
        BY <3>4, <3>7, DocumentHolds
      <4>2. q \in Text BY <4>1, <3>6, IdsAreDistinct DEF MayHold, Passage
      <4> QED BY <4>1, <4>2, IdsAreDistinct DEF Holder, Passage
    <3>9. Moved(q)
      <4>1. Parents(after, q) = {p} \cup Parents(after, p) BY <3>5, <3>7, ParentsOfHeld
      <4>2. /\ p \notin Parents(after, p) /\ p \notin Parents(before, p)
        <5>1. ASSUME NEW d \in Document, p \in Parents(d, p) PROVE FALSE
          <6>1. Parents(d, p) \subseteq Article BY <5>1, ParentHolds
          <6> QED BY <5>1, <6>1, <3>6, IdsAreDistinct
        <5> QED BY <5>1
      <4>3. CASE q \in Held(before.order, p)
        <5>1. Parents(before, q) = {p} \cup Parents(before, p) BY <4>3, <3>5, ParentsOfHeld
        <5> QED BY <5>1, <4>1, <4>2, <1>2 DEF Moved
      <4>4. CASE q \notin Held(before.order, p)
        <5>1. p \notin Parents(before, q)
          <6>1. ASSUME p \in Parents(before, q) PROVE FALSE
            <7>1. p \in Article BY <6>1, <4>4, ParentHolds
            <7> QED BY <7>1, <3>6, IdsAreDistinct
          <6> QED BY <6>1
        <5> QED BY <5>1, <4>1 DEF Moved
      <4> QED BY <4>3, <4>4
    <3>10. q \in Candidates
      <4>1. ~samePassage(q) BY <3>9 DEF samePassage, Moved
      <4>2. ~hasChildren(q) BY <3>8 DEF hasChildren, Content
      <4> QED BY <3>8, <4>1, <4>2 DEF Candidates, Candidate
    <3>11. PICK r \in rows : r \in {q} \cup Parents(after, q)
      BY <3>8, <3>9, <3>10, DifferenceIsShown
    <3>12. Parents(after, q) = {p} \cup Parents(after, p) BY <3>5, <3>7, ParentsOfHeld
    <3>13. CASE r = q BY <3>13, <3>5, <3>7, ContentOfHolder DEF Within
    <3>14. CASE r = p BY <3>14 DEF Within
    <3>15. CASE r \in Parents(after, p) BY <3>15, ParentHolds
    <3> QED BY <3>11, <3>12, <3>13, <3>14, <3>15
  <2> QED BY <2>1, <2>2
<1>3. ASSUME NEW p \in Passage, p \in Index(before), p \notin Index(after),
             ~\E q \in Parents(before, p) : q \in Index(after) /\ Moved(q)
      PROVE  \E r \in rows : p \in Within(before, r)
  <2>1. ~samePassage(p) BY <1>3 DEF samePassage
  <2>2. p \in Candidates BY <1>3, <2>1 DEF Candidates, Candidate
  <2>3. PICK r \in Candidates :
          r \in {p} \cup Parents(before, p) /\ Parents(before, r) \cap Candidates = {}
    BY <2>2, Outermost
  <2>4. ParentsOf(r) = Parents(before, r)
    BY <1>3, <2>3 DEF ParentsOf, Moved
  <2>5. p \in Within(before, r)
    <3>1. CASE r = p BY <3>1 DEF Within
    <3>2. CASE r \in Parents(before, p) BY <3>2, ParentHolds
    <3> QED BY <3>1, <3>2, <2>3
  <2>6. before.wording[p] # after.wording[p] BY <1>3, DocumentWords
  <2>7. ~samePassage(r) BY <2>5, <2>6 DEF samePassage, SameSignature
  <2>8. r \in rows BY <2>3, <2>4, <2>7, RowOf
  <2> QED BY <2>5, <2>8
<1> HIDE DEF rows
<1>4. \A p \in Passage :
          /\ p \in Index(after) /\ before.wording[p] # after.wording[p] =>
               \E r \in rows : p \in Within(after, r)
          /\ p \in Index(after) /\ Moved(p) =>
               \E r \in rows : p \in Within(after, r) \/ r \in Within(after, p)
          /\ p \in Index(before) \ Index(after) =>
               \/ \E r \in rows : p \in Within(before, r)
               \/ \E q \in Parents(before, p) : q \in Index(after) /\ Moved(q)
  BY <1>1, <1>2, <1>3
<1> QED BY <1>4, Zenon DEF rows, ChangesAreShown

(***************************************************************************)
(* The edits keep the later version a document.                            *)
(***************************************************************************)
Ordered(o) ==
  /\ o \in [Holder -> Seq(Passage)]
  /\ \A h \in Holder : Held(o, h) \subseteq MayHold(h) /\ IsInjective(o[h])
  /\ \A g, h \in Holder : g # h => Held(o, g) \cap Held(o, h) = {}

There(o, p) == \E h \in Holder : p \in Held(o, h)

Worded(o, wording) ==
  /\ wording \in [Passage -> Word \cup {Missing}]
  /\ \A p \in Passage : /\ There(o, p) <=> wording[p] # Missing
                        /\ ~There(o, p) /\ p \in Holder => o[p] = <<>>

LEMMA DocumentIs ==
  /\ \A o, wording : Ordered(o) /\ Worded(o, wording)
                       => [order |-> o, wording |-> wording] \in Document
  /\ \A d \in Document : Ordered(d.order) /\ Worded(d.order, d.wording)
  /\ \A d \in Document : d = [order |-> d.order, wording |-> d.wording]
<1>1. ASSUME NEW o, NEW wording, Ordered(o), Worded(o, wording)
      PROVE  [order |-> o, wording |-> wording] \in Document
  <2> DEFINE d == [order |-> o, wording |-> wording]
  <2>1. d.order = o /\ d.wording = wording OBVIOUS
  <2>2. d \in [order: [Holder -> Seq(Passage)], wording: [Passage -> Word \cup {Missing}]]
    BY <1>1 DEF Ordered, Worded
  <2> HIDE DEF d
  <2>3. d \in Document BY <1>1, <2>1, <2>2 DEF Document, Ordered, Worded, There
  <2> QED BY <2>3 DEF d
<1>2. ASSUME NEW d \in Document
      PROVE  /\ Ordered(d.order) /\ Worded(d.order, d.wording)
             /\ d = [order |-> d.order, wording |-> d.wording]
  BY DEF Document, Ordered, Worded, There
<1> QED BY <1>1, <1>2

LEMMA TakeOrdered ==
  ASSUME NEW d \in Document, NEW p \in Passage
  PROVE  /\ Ordered(Take(d, p))
         /\ \A h \in Holder : /\ Held(Take(d, p), h) = Held(d.order, h) \ {p}
                              /\ d.order[h] = <<>> => Take(d, p)[h] = <<>>
<1> DEFINE o == Take(d, p)
<1>1. ASSUME NEW h \in Holder
      PROVE  /\ o[h] \in Seq(Passage) /\ IsInjective(o[h])
             /\ Held(o, h) = Held(d.order, h) \ {p}
             /\ d.order[h] = <<>> => o[h] = <<>>
  <2>1. d.order[h] \in Seq(Passage) /\ IsInjective(d.order[h]) BY DocumentHolds
  <2>2. o[h] = Filter(d.order[h], Passage \ {p}) BY DEF Take
  <2> HIDE DEF o
  <2>3. /\ o[h] \in Seq(Passage) /\ IsInjective(o[h])
        /\ ToSet(o[h]) = ToSet(d.order[h]) \cap (Passage \ {p})
    BY <2>1, <2>2, FilterKeeps
  <2>4. Held(o, h) = Held(d.order, h) \ {p}
    BY <2>3, DocumentHolds DEF Held
  <2>5. ASSUME d.order[h] = <<>> PROVE o[h] = <<>>
    <3>0. ToSet(<<>>) = {} BY DEF ToSet
    <3>1. ToSet(o[h]) = {} BY <2>3, <2>5, <3>0
    <3>2. Len(o[h]) = 0
      <4>1. 1 \notin DOMAIN o[h] BY <3>1 DEF ToSet
      <4> QED BY <4>1, <2>3
    <3> QED BY <3>2, <2>3
  <2> QED BY <2>3, <2>4, <2>5
<1>2. o = [h \in Holder |-> o[h]] BY DEF Take
<1> HIDE DEF o
<1>3. o \in [Holder -> Seq(Passage)] BY <1>1, <1>2
<1>4. Ordered(o)
  <2>1. ASSUME NEW h \in Holder PROVE Held(o, h) \subseteq MayHold(h)
    BY <1>1, DocumentHolds
  <2>2. ASSUME NEW g \in Holder, NEW h \in Holder, g # h PROVE Held(o, g) \cap Held(o, h) = {}
    BY <1>1, <2>2, OneHolder
  <2> QED BY <1>1, <1>3, <2>1, <2>2 DEF Ordered
<1> QED BY <1>1, <1>4 DEF o

LEMMA PutOrdered ==
  ASSUME NEW o, Ordered(o), NEW h \in Holder, NEW p \in Passage, p \in MayHold(h),
         ~There(o, p), NEW n \in 1..(Len(o[h]) + 1)
  PROVE  /\ Ordered(Put(o, p, h, n))
         /\ \A g \in Holder : /\ Held(Put(o, p, h, n), g)
                                   = IF g = h THEN Held(o, h) \cup {p} ELSE Held(o, g)
                              /\ g # h => Put(o, p, h, n)[g] = o[g]
<1> DEFINE q == Put(o, p, h, n)
<1>1. /\ o \in [Holder -> Seq(Passage)] /\ o[h] \in Seq(Passage) /\ IsInjective(o[h])
      /\ p \notin ToSet(o[h])
  BY DEF Ordered, There, Held
<1>2. /\ q[h] = InsertAt(o[h], n, p) /\ q = [q EXCEPT ![h] = q[h]]
      /\ \A g \in Holder : g # h => q[g] = o[g]
      /\ DOMAIN q = Holder /\ q = [g \in Holder |-> q[g]]
  BY <1>1 DEF Put
<1> HIDE DEF q
<1>3. /\ q[h] \in Seq(Passage) /\ IsInjective(q[h]) /\ ToSet(q[h]) = ToSet(o[h]) \cup {p}
  BY <1>1, <1>2, InsertAtKeeps
<1>4. ASSUME NEW g \in Holder
      PROVE  /\ q[g] \in Seq(Passage) /\ IsInjective(q[g])
             /\ Held(q, g) = IF g = h THEN Held(o, h) \cup {p} ELSE Held(o, g)
  BY <1>1, <1>2, <1>3 DEF Ordered, Held
<1>5. q \in [Holder -> Seq(Passage)] BY <1>2, <1>4
<1>6. ASSUME NEW g \in Holder PROVE Held(q, g) \subseteq MayHold(g)
  BY <1>4 DEF Ordered
<1>7. ASSUME NEW f \in Holder, NEW g \in Holder, f # g PROVE Held(q, f) \cap Held(q, g) = {}
  <2>1. Held(o, f) \cap Held(o, g) = {} /\ p \notin Held(o, f) /\ p \notin Held(o, g)
    BY <1>7 DEF Ordered, There
  <2> QED BY <2>1, <1>4, <1>7
<1>8. Ordered(q) BY <1>4, <1>5, <1>6, <1>7 DEF Ordered
<1> QED BY <1>2, <1>4, <1>8 DEF q

\* A holder to which something is put is there itself.
LEMMA PutWhere ==
  ASSUME NEW d \in Document, NEW h \in Holder \cap (Index(d) \cup {Root}), h \in Passage
  PROVE  There(d.order, h)
<1>1. h \in Index(d) BY IdsAreDistinct
<1> QED BY <1>1, DocumentWords DEF There

LEMMA RewordKeeps ==
  ASSUME after \in Document, NEW p \in Passage, Reword(p) PROVE after' \in Document
<1>1. PICK w \in Word \ {after.wording[p]} : after' = [after EXCEPT !.wording[p] = w]
  BY DEF Reword, Amend
<1> DEFINE o == after.order
           v == [after.wording EXCEPT ![p] = w]
<1>2. p \in Index(after) BY DEF Reword
<1>3. Ordered(o) /\ Worded(o, after.wording) BY DocumentIs
<1>4. after' = [order |-> o, wording |-> v]
  <2>1. after = [order |-> after.order, wording |-> after.wording] BY DocumentIs
  <2> QED BY <1>1, <2>1
<1>5. There(o, p) BY <1>2, DocumentWords DEF There
<1>6. v \in [Passage -> Word \cup {Missing}] /\ v[p] = w /\ w # Missing
      /\ \A q \in Passage : q # p => v[q] = after.wording[q]
  BY <1>1, <1>3, IdsAreDistinct DEF Worded
<1> HIDE DEF o, v
<1>7. Worded(o, v) BY <1>3, <1>5, <1>6 DEF Worded
<1> QED BY <1>3, <1>4, <1>7, DocumentIs

LEMMA InsertKeeps ==
  ASSUME after \in Document, NEW p \in Passage, Insert(p) PROVE after' \in Document
<1>1. PICK h \in {h \in Holder \cap (Index(after) \cup {Root}) : p \in MayHold(h)}, w \in Word :
        \E n \in 1..(Len(after.order[h]) + 1) :
          Amend(p, [order |-> Put(after.order, p, h, n),
                    wording |-> [after.wording EXCEPT ![p] = w]])
  BY DEF Insert
<1>2. PICK n \in 1..(Len(after.order[h]) + 1) :
        after' = [order |-> Put(after.order, p, h, n),
                  wording |-> [after.wording EXCEPT ![p] = w]]
  BY <1>1 DEF Amend
<1> DEFINE o == Put(after.order, p, h, n)
           v == [after.wording EXCEPT ![p] = w]
<1>3. h \in Holder /\ p \in MayHold(h) OBVIOUS
<1>4. Ordered(after.order) /\ Worded(after.order, after.wording) BY DocumentIs
<1>5. ~There(after.order, p)
  <2>1. p \notin Index(after) BY DEF Insert
  <2> QED BY <2>1, DocumentWords DEF There
<1>6. /\ Ordered(o)
      /\ \A g \in Holder : /\ Held(o, g) = IF g = h THEN Held(after.order, h) \cup {p}
                                           ELSE Held(after.order, g)
                           /\ g # h => o[g] = after.order[g]
  BY <1>3, <1>4, <1>5, PutOrdered
<1>7. v \in [Passage -> Word \cup {Missing}] /\ v[p] # Missing
      /\ \A q \in Passage : q # p => v[q] = after.wording[q]
  BY <1>1, <1>4, IdsAreDistinct DEF Worded
<1> HIDE DEF o, v
<1>8. There(o, p) BY <1>3, <1>6 DEF There
<1>9. ASSUME NEW q \in Passage, q # p PROVE There(o, q) <=> There(after.order, q)
  BY <1>6, <1>9 DEF There
<1>10. ASSUME NEW q \in Passage, ~There(o, q), q \in Holder PROVE o[q] = <<>>
  <2>1. q # p /\ ~There(after.order, q) BY <1>8, <1>9, <1>10
  <2>2. q # h BY <2>1, PutWhere
  <2> QED BY <2>1, <2>2, <1>4, <1>6, <1>10 DEF Worded
<1>11. Worded(o, v)
  <2>1. ASSUME NEW q \in Passage PROVE There(o, q) <=> v[q] # Missing
    <3>1. CASE q = p BY <3>1, <1>7, <1>8
    <3>2. CASE q # p BY <3>2, <1>4, <1>7, <1>9 DEF Worded
    <3> QED BY <3>1, <3>2
  <2> QED BY <2>1, <1>7, <1>10 DEF Worded
<1>12. after' = [order |-> o, wording |-> v] BY <1>2 DEF o, v
<1> QED BY <1>6, <1>11, <1>12, DocumentIs

LEMMA MoveKeeps ==
  ASSUME after \in Document, NEW p \in Passage, Move(p) PROVE after' \in Document
<1> DEFINE t == Take(after, p)
<1>1. PICK h \in {h \in Holder \cap (Index(after) \cup {Root}) : p \in MayHold(h)} :
        \E n \in 1..(Len(t[h]) + 1) : Amend(p, [after EXCEPT !.order = Put(t, p, h, n)])
  BY DEF Move
<1>2. PICK n \in 1..(Len(t[h]) + 1) : after' = [after EXCEPT !.order = Put(t, p, h, n)]
  BY <1>1 DEF Amend
<1> DEFINE o == Put(t, p, h, n)
           v == after.wording
<1>3. h \in Holder /\ p \in MayHold(h) OBVIOUS
<1>4. Ordered(after.order) /\ Worded(after.order, v) BY DocumentIs
<1>5. /\ Ordered(t)
      /\ \A g \in Holder : /\ Held(t, g) = Held(after.order, g) \ {p}
                           /\ after.order[g] = <<>> => t[g] = <<>>
  BY TakeOrdered
<1>6. There(after.order, p)
  <2>1. p \in Index(after) BY DEF Move
  <2> QED BY <2>1, DocumentWords DEF There
<1>7. after' = [order |-> o, wording |-> v]
  <2>1. after = [order |-> after.order, wording |-> after.wording] BY DocumentIs
  <2> QED BY <1>2, <2>1
<1>8. n \in 1..(Len(t[h]) + 1) OBVIOUS
<1> HIDE DEF t
<1>9. ~There(t, p) BY <1>5 DEF There
<1>10. /\ Ordered(o)
       /\ \A g \in Holder : /\ Held(o, g) = IF g = h THEN Held(t, h) \cup {p} ELSE Held(t, g)
                            /\ g # h => o[g] = t[g]
  BY <1>3, <1>5, <1>8, <1>9, PutOrdered
<1> HIDE DEF o, v
<1>11. There(o, p) BY <1>3, <1>10 DEF There
<1>12. ASSUME NEW q \in Passage, q # p PROVE There(o, q) <=> There(after.order, q)
  BY <1>5, <1>10, <1>12 DEF There
<1>13. ASSUME NEW q \in Passage, ~There(o, q), q \in Holder PROVE o[q] = <<>>
  <2>1. q # p /\ ~There(after.order, q) BY <1>11, <1>12, <1>13
  <2>2. q # h BY <2>1, PutWhere
  <2> QED BY <2>1, <2>2, <1>4, <1>5, <1>10, <1>13 DEF Worded
<1>14. Worded(o, v)
  <2>1. ASSUME NEW q \in Passage PROVE There(o, q) <=> v[q] # Missing
    <3>1. CASE q = p BY <3>1, <1>4, <1>6, <1>11 DEF Worded
    <3>2. CASE q # p BY <3>2, <1>4, <1>12 DEF Worded
    <3> QED BY <3>1, <3>2
  <2> QED BY <2>1, <1>4, <1>13 DEF Worded
<1> QED BY <1>7, <1>10, <1>14, DocumentIs

\* What is in what a passage holds is in the passage, and only there.
LEMMA WithinHolds ==
  ASSUME NEW d \in Document, NEW p \in Passage, NEW h \in Holder, NEW q \in Held(d.order, h)
  PROVE  q \in Within(d, p) <=> q = p \/ h \in Within(d, p)
<1>0. q \in Passage BY DocumentHolds
<1>1. ASSUME NEW x \in Passage
      PROVE  q \in ToSet(Content(d, x)) <=> x = h
  <2>1. CASE x \in Holder
    <3>1. ToSet(Content(d, x)) = Held(d.order, x) BY <2>1 DEF Content, Held
    <3> QED BY <3>1, <2>1, OneHolder
  <2>2. CASE x \notin Holder BY <2>2 DEF Content, ToSet
  <2> QED BY <2>1, <2>2
<1>2. ASSUME NEW x \in Passage, NEW y \in ToSet(Content(d, x)) PROVE y \in Passage
  <2>1. x \in Holder /\ y \in Held(d.order, x) BY <1>2 DEF Content, ToSet, Held
  <2> QED BY <2>1, DocumentHolds
<1>3. ASSUME q \in Within(d, p), q # p PROVE h \in Within(d, p)
  <2>1. CASE q \in ToSet(Content(d, p)) BY <2>1, <1>1 DEF Within
  <2>2. CASE \E x \in ToSet(Content(d, p)) : q \in ToSet(Content(d, x))
    BY <2>2, <1>1, <1>2 DEF Within
  <2> QED BY <2>1, <2>2, <1>3 DEF Within
<1>4. ASSUME h \in Within(d, p) PROVE q \in Within(d, p)
  <2>1. CASE h = p BY <2>1, <1>1 DEF Within
  <2>2. CASE h \in ToSet(Content(d, p)) BY <2>2, <1>1, <1>2 DEF Within
  <2>3. CASE \E x \in ToSet(Content(d, p)) : h \in ToSet(Content(d, x))
    <3>1. PICK x \in ToSet(Content(d, p)) : h \in ToSet(Content(d, x)) BY <2>3
    <3>2. /\ p \in Holder /\ x \in Held(d.order, p) /\ x \in Passage
          /\ x \in Holder /\ h \in Held(d.order, x)
      BY <3>1, <1>2 DEF Content, ToSet, Held
    <3>3. h \in Passage /\ h \in Sub
      <4>1. h \in Passage BY <3>2, DocumentHolds
      <4> QED BY <4>1, IdsAreDistinct DEF Sub, Holder
    <3>4. p \in Sub /\ x \in Sub BY <3>2, IdsAreDistinct DEF Sub, Holder
    <3>5. x \in Section /\ h \in Section
      BY <3>2, <3>3, <3>4, HoldersByKind DEF Sub
    <3>6. x \in Article BY <3>2, <3>4, <3>5, HoldersByKind
    <3> QED BY <3>5, <3>6, IdsAreDistinct
  <2> QED BY <2>1, <2>2, <2>3, <1>4 DEF Within
<1>5. p \in Within(d, p) BY DEF Within
<1> QED BY <1>3, <1>4, <1>5

LEMMA DeleteKeeps ==
  ASSUME after \in Document, NEW p \in Passage, Delete(p) PROVE after' \in Document
<1> DEFINE t == Take(after, p)
           gone == Within(after, p)
           o == [h \in Holder |-> IF h \in gone THEN <<>> ELSE t[h]]
           v == [q \in Passage |-> IF q \in gone THEN Missing ELSE after.wording[q]]
<1>1. after' = [order |-> o, wording |-> v] BY DEF Delete, Amend
<1>2. Ordered(after.order) /\ Worded(after.order, after.wording) BY DocumentIs
<1>3. /\ Ordered(t)
      /\ \A g \in Holder : /\ Held(t, g) = Held(after.order, g) \ {p}
                           /\ after.order[g] = <<>> => t[g] = <<>>
  BY TakeOrdered
<1>4. p \in gone BY DEF Within
<1>5. ASSUME NEW h \in Holder, NEW q \in Held(after.order, h)
      PROVE  q \in gone <=> q = p \/ h \in gone
  BY WithinHolds
<1> HIDE DEF t, gone
<1>6. /\ o = [h \in Holder |-> o[h]]
      /\ \A h \in Holder : o[h] = IF h \in gone THEN <<>> ELSE t[h]
      /\ \A q \in Passage : v[q] = IF q \in gone THEN Missing ELSE after.wording[q]
      /\ v \in [Passage -> Word \cup {Missing}]
  BY <1>2 DEF Worded
<1> HIDE DEF o, v
<1>7. ASSUME NEW h \in Holder
      PROVE  /\ o[h] \in Seq(Passage) /\ IsInjective(o[h])
             /\ Held(o, h) = IF h \in gone THEN {} ELSE Held(after.order, h) \ {p}
  <2>1. CASE h \in gone
    <3>1. o[h] = <<>> BY <2>1, <1>6
    <3>2. IsInjective(<<>>) /\ ToSet(<<>>) = {} BY DEF IsInjective, ToSet
    <3> QED BY <3>1, <3>2, <2>1 DEF Held
  <2>2. CASE h \notin gone
    <3>1. o[h] = t[h] BY <2>2, <1>6
    <3> QED BY <3>1, <2>2, <1>3 DEF Ordered, Held
  <2> QED BY <2>1, <2>2
<1>8. o \in [Holder -> Seq(Passage)] BY <1>6, <1>7
<1>9. Ordered(o) BY <1>2, <1>7, <1>8 DEF Ordered
<1>10. ASSUME NEW q \in Passage
       PROVE  There(o, q) <=> There(after.order, q) /\ q \notin gone
  <2>1. ASSUME There(o, q) PROVE There(after.order, q) /\ q \notin gone
    <3>1. PICK h \in Holder : q \in Held(o, h) BY <2>1 DEF There
    <3>2. h \notin gone /\ q \in Held(after.order, h) /\ q # p BY <3>1, <1>7
    <3> QED BY <3>2, <1>5 DEF There
  <2>2. ASSUME There(after.order, q), q \notin gone PROVE There(o, q)
    <3>1. PICK h \in Holder : q \in Held(after.order, h) BY <2>2 DEF There
    <3>2. h \notin gone /\ q # p BY <2>2, <3>1, <1>4, <1>5
    <3> QED BY <3>1, <3>2, <1>7 DEF There
  <2> QED BY <2>1, <2>2
<1>11. ASSUME NEW q \in Passage PROVE There(o, q) <=> v[q] # Missing
  BY <1>2, <1>6, <1>10 DEF Worded
<1>12. ASSUME NEW q \in Passage, ~There(o, q), q \in Holder PROVE o[q] = <<>>
  <2>1. CASE q \in gone BY <2>1, <1>6, <1>12
  <2>2. CASE q \notin gone
    <3>1. after.order[q] = <<>> BY <2>2, <1>2, <1>10, <1>12 DEF Worded
    <3> QED BY <3>1, <2>2, <1>3, <1>6, <1>12
  <2> QED BY <2>1, <2>2
<1>13. Worded(o, v) BY <1>6, <1>11, <1>12 DEF Worded
<1> QED BY <1>1, <1>9, <1>13, DocumentIs

LEMMA BeforeIsDocument == before \in Document
BY DocumentAssumption DEF before

\* Every edit, wherever it adds, moves or removes a passage, leaves a document: each passage
\* that has a wording is in one place, and what is gone is gone with all it held.
THEOREM LaterVersionIsADocument == Spec => [](after \in Document)
<1>1. Init => after \in Document BY DocumentAssumption DEF Init
<1>2. after \in Document /\ [Next]_vars => (after \in Document)'
  <2> SUFFICES ASSUME after \in Document, [Next]_vars PROVE (after \in Document)' OBVIOUS
  <2>1. CASE UNCHANGED vars BY <2>1 DEF vars
  <2>2. CASE Next
    <3>1. PICK p \in Passage : Reword(p) \/ Insert(p) \/ Delete(p) \/ Move(p) BY <2>2 DEF Next
    <3> QED BY <3>1, RewordKeeps, InsertKeeps, DeleteKeeps, MoveKeeps
  <2> QED BY <2>1, <2>2
<1> QED BY <1>1, <1>2, PTL DEF Spec

\* Every passage that differs is shown by a row of its own or of a passage around it, for all
\* documents and however they were amended, recorded or not.  Exempt, as in ChangesAreShown,
\* is what disappeared from a passage that moved: where the move is recorded and its new
\* holder is a row, consolidated-comparison.ts:214-219 hides what is left behind.  Passages
\* that were only put in another order are OnlyChangesAreShown's.
THEOREM AllChangesAreShown == Spec => []ChangesAreShown
<1>1. after \in Document => ChangesAreShown BY BeforeIsDocument, ShownChanges
<1> QED BY <1>1, LaterVersionIsADocument, PTL

(***************************************************************************)
(* Articles that are out of order.                                         *)
(***************************************************************************)
LEMMA FirstOnes ==
  ASSUME NEW T, NEW s \in Seq(T), IsInjective(s), NEW n \in 0..Len(s)
  PROVE  Cardinality({s[m] : m \in 1..n}) = n
<1> DEFINE S == {s[m] : m \in 1..n}
           f == [m \in 1..n |-> s[m]]
<1>1. n \in Nat /\ \A m \in 1..n : m \in DOMAIN s OBVIOUS
<1>2. f \in [1..n -> S] OBVIOUS
<1>3. \A a, b \in 1..n : f[a] = f[b] => a = b BY <1>1 DEF IsInjective
<1>4. \A x \in S : \E m \in 1..n : f[m] = x OBVIOUS
<1> HIDE DEF f, S
<1>5. DOMAIN f = 1..n BY <1>2
<1>6. f \in Bijection(1..n, S)
  BY <1>2, <1>3, <1>4, <1>5 DEF Bijection, Injection, Surjection, IsInjective
<1>7. ExistsBijection(1..n, S) BY <1>6 DEF ExistsBijection
<1>8. Cardinality(S) = n BY <1>1, <1>7, FS_CountingElements
<1> QED BY <1>8 DEF S

OrderDiffers(a, b, c) ==
  \E o \in 1..Len(a), k \in 1..Len(a), m \in 1..Len(b) :
    a[o] = b[c] /\ a[k] = b[m] /\ (c < m) # (o < k)

\* Two lists of the same elements that differ at c order the element at c and some other
\* one differently.
LEMMA OutOfOrder ==
  ASSUME NEW T, NEW a \in Seq(T), NEW b \in Seq(T), IsInjective(a), IsInjective(b),
         ToSet(a) = ToSet(b), NEW c \in 1..Len(b), b[c] # a[c]
  PROVE  OrderDiffers(a, b, c)
<1>1. /\ Len(a) \in Nat /\ Len(b) \in Nat
      /\ DOMAIN a = 1..Len(a) /\ DOMAIN b = 1..Len(b)
  OBVIOUS
<1>2. PICK o \in 1..Len(a) : a[o] = b[c] BY <1>1 DEF ToSet
<1>3. SUFFICES ASSUME \A k \in 1..Len(a), m \in 1..Len(b) :
                        a[k] = b[m] => ((c < m) <=> (o < k))
               PROVE  FALSE
  BY <1>2 DEF OrderDiffers
<1>4. ASSUME NEW k \in 1..Len(a), NEW m \in 1..Len(b), a[k] = b[m]
      PROVE  m < c <=> k < o
  <2>1. m = c <=> k = o BY <1>1, <1>2, <1>4 DEF IsInjective
  <2>2. c < m <=> o < k BY <1>3, <1>4
  <2> QED BY <2>1, <2>2, <1>1
<1> DEFINE p == c - 1
           q == o - 1
           A == {a[k] : k \in 1..q}
           B == {b[m] : m \in 1..p}
<1>5. /\ p \in 0..Len(b) /\ q \in 0..Len(a)
      /\ \A m \in 1..Len(b) : m < c <=> m \in 1..p
      /\ \A k \in 1..Len(a) : k < o <=> k \in 1..q
  BY <1>1
<1>6. \A x \in 1..p : x \in 1..Len(b) BY <1>5
<1>7. \A x \in 1..q : x \in 1..Len(a) BY <1>5
<1> HIDE DEF p, q
<1>8. ASSUME NEW x \in A PROVE x \in B
  <2>1. PICK k \in 1..q : x = a[k] OBVIOUS
  <2>2. PICK m \in 1..Len(b) : b[m] = a[k] BY <2>1, <1>1, <1>7 DEF ToSet
  <2> QED BY <2>1, <2>2, <1>4, <1>5, <1>7
<1>9. ASSUME NEW x \in B PROVE x \in A
  <2>1. PICK m \in 1..p : x = b[m] OBVIOUS
  <2>2. PICK k \in 1..Len(a) : b[m] = a[k] BY <2>1, <1>1, <1>6 DEF ToSet
  <2> QED BY <2>1, <2>2, <1>4, <1>5, <1>6
<1>10. A = B BY <1>8, <1>9
<1>11. Cardinality(A) = q BY <1>5, FirstOnes
<1>12. Cardinality(B) = p BY <1>5, FirstOnes
<1>13. p = q BY <1>10, <1>11, <1>12
<1>14. c = o BY <1>1, <1>13 DEF p, q
<1> QED BY <1>2, <1>3, <1>14

PlaceIn(s, x) == CHOOSE n \in DOMAIN s : s[n] = x

LEMMA FilterOrder ==
  ASSUME NEW T, NEW s \in Seq(T), IsInjective(s), NEW S,
         NEW k \in 1..Len(Filter(s, S)), NEW m \in 1..Len(Filter(s, S))
  PROVE  PlaceIn(s, Filter(s, S)[k]) < PlaceIn(s, Filter(s, S)[m]) <=> k < m
<1> DEFINE w == Filter(s, S)
<1>1. w \in Seq(T) /\ \E f : Picks(w, s, S, Len(s), f) BY FilterPicks
<1>2. k \in 1..Len(w) /\ m \in 1..Len(w) OBVIOUS
<1> HIDE DEF w
<1>3. PICK f : Picks(w, s, S, Len(s), f) BY <1>1
<1>4. ASSUME NEW n \in 1..Len(w) PROVE PlaceIn(s, w[n]) = f[n] /\ f[n] \in Nat
  <2>1. f[n] \in DOMAIN s /\ s[f[n]] = w[n] /\ f[n] \in Nat BY <1>3 DEF Picks
  <2>2. \A x \in DOMAIN s : s[x] = w[n] => x = f[n] BY <2>1 DEF IsInjective
  <2> QED BY <2>1, <2>2 DEF PlaceIn
<1>5. f[k] < f[m] <=> k < m
  <2>1. Len(w) \in Nat BY <1>1
  <2>2. CASE k < m BY <2>2, <1>2, <1>3 DEF Picks, Increasing
  <2>3. CASE k = m BY <2>3, <1>2, <1>4
  <2>4. CASE m < k
    <3>1. f[m] < f[k] BY <2>4, <1>2, <1>3 DEF Picks, Increasing
    <3> QED BY <3>1, <2>4, <1>2, <1>4, <2>1
  <2> QED BY <2>1, <2>2, <2>3, <2>4, <1>2
<1>6. PlaceIn(s, w[k]) < PlaceIn(s, w[m]) <=> k < m BY <1>2, <1>4, <1>5
<1> QED BY <1>6 DEF w

LEMMA ReorderedIsSwapped ==
  ASSUME before \in Document, after \in Document, NEW p \in reorderedRoots
  PROVE  \E q \in Passage : Swapped(p, q)
<1> DEFINE X == Index(before) \cap Index(after)
           s == before.order[Root]
           t == after.order[Root]
           b == Filter(s, X)
           a == Filter(t, X)
<1>1. Root \in Holder BY DEF Holder
<1>2. /\ s \in Seq(Passage) /\ t \in Seq(Passage) /\ IsInjective(s) /\ IsInjective(t)
      /\ ToSet(s) = Held(before.order, Root) /\ ToSet(t) = Held(after.order, Root)
  BY <1>1, DocumentHolds DEF Held
<1>3. PICK c \in DOMAIN b : p = b[c] /\ b[c] # a[c]
  BY Zenon DEF reorderedRoots
<1> HIDE DEF X, s, t
<1>4. /\ b \in Seq(Passage) /\ IsInjective(b) /\ ToSet(b) = ToSet(s) \cap X
      /\ a \in Seq(Passage) /\ IsInjective(a) /\ ToSet(a) = ToSet(t) \cap X
  BY <1>2, FilterKeeps
<1> HIDE DEF a, b
<1>5. ASSUME NEW d \in Document, NEW e \in Document, NEW q \in Held(d.order, Root),
             q \in Index(e)
      PROVE  q \in Held(e.order, Root)
  <2>1. q \in Article BY <1>1, DocumentHolds DEF MayHold
  <2>2. q \in Passage BY <2>1 DEF Passage
  <2>3. PICK h \in Holder : q \in Held(e.order, h) BY <1>5, <2>2, DocumentWords
  <2>4. h \notin Sub BY <2>1, <2>3, HoldersByKind
  <2>5. h = Root BY <2>3, <2>4 DEF Holder, Sub
  <2> QED BY <2>3, <2>5
<1>6. ToSet(a) = ToSet(b)
  <2>1. ASSUME NEW q \in ToSet(a) PROVE q \in ToSet(b) BY <1>2, <1>4, <1>5 DEF X
  <2>2. ASSUME NEW q \in ToSet(b) PROVE q \in ToSet(a) BY <1>2, <1>4, <1>5 DEF X
  <2> QED BY <2>1, <2>2
<1>7. PICK o \in 1..Len(a), k \in 1..Len(a), m \in 1..Len(b) :
        a[o] = b[c] /\ a[k] = b[m] /\ (c < m) # (o < k)
  <2>1. c \in 1..Len(b) BY <1>3, <1>4
  <2>2. OrderDiffers(a, b, c) BY <2>1, <1>3, <1>4, <1>6, OutOfOrder
  <2> QED BY <2>2 DEF OrderDiffers
<1> DEFINE q == b[m]
<1>8. c \in 1..Len(b) BY <1>3, <1>4
<1>9. /\ PlaceIn(s, p) < PlaceIn(s, q) <=> c < m
      /\ PlaceIn(t, p) < PlaceIn(t, q) <=> o < k
  <2>1. /\ PlaceIn(s, b[c]) < PlaceIn(s, b[m]) <=> c < m
        /\ PlaceIn(t, a[o]) < PlaceIn(t, a[k]) <=> o < k
    BY <1>2, <1>7, <1>8, FilterOrder DEF a, b
  <2> QED BY <2>1, <1>3, <1>7
<1>10. p \in ToSet(b) /\ q \in ToSet(b)
  BY <1>3, <1>4, <1>7, <1>8 DEF ToSet
<1> HIDE DEF q
<1>11. {p, q} \subseteq Held(before.order, Root) \cap Held(after.order, Root)
  BY <1>10, <1>2, <1>4, <1>6
<1>12. q \in Passage BY <1>1, <1>11, DocumentHolds
<1>13. Swapped(p, q)
  <2>1. (PlaceIn(s, p) < PlaceIn(s, q)) # (PlaceIn(t, p) < PlaceIn(t, q)) BY <1>9, <1>7
  <2>2. (PlaceIn(before.order[Root], p) < PlaceIn(before.order[Root], q))
          # (PlaceIn(after.order[Root], p) < PlaceIn(after.order[Root], q))
    BY <2>1 DEF s, t
  <2> QED BY <2>2, <1>1, <1>11, Zenon DEF Swapped, PlaceIn
<1> QED BY <1>12, <1>13

LEMMA RowsAreChanges ==
  ASSUME before \in Document, after \in Document PROVE OnlyChangesAreShown
<1> SUFFICES ASSUME NEW r \in NetRows
             PROVE  \/ \E q \in Within(before, r.id) \cup Within(after, r.id) :
                         \/ before.wording[q] # after.wording[q]
                         \/ Moved(q)
                         \/ Content(before, q) # Content(after, q)
                    \/ \E q \in Passage : Swapped(r.id, q)
  BY Zenon DEF OnlyChangesAreShown
<1>1. PICK p \in Passage : r = [id |-> p, kind |-> Kind(p), provenance |-> Provenance(p)]
  BY DEF NetRows, Rows
<1>2. r.id = p /\ r.kind = Kind(p) /\ r.kind # "reversed" BY <1>1 DEF NetRows
<1>3. ~samePassage(p) \/ p \in reorderedRoots BY <1>2 DEF Kind
<1>4. CASE p \in reorderedRoots BY <1>4, <1>2, ReorderedIsSwapped
<1>5. CASE ~samePassage(p)
  <2>1. p \in Within(before, p) BY DEF Within
  <2>2. CASE ~(p \in Index(before) <=> p \in Index(after))
    BY <2>1, <2>2, <1>2, DocumentWords
  <2>3. CASE ~SameSignature(p) BY <2>3, <1>2 DEF SameSignature
  <2>4. CASE Parents(before, p) # Parents(after, p) BY <2>1, <2>4, <1>2 DEF Moved
  <2> QED BY <2>2, <2>3, <2>4, <1>5 DEF samePassage
<1> QED BY <1>3, <1>4, <1>5

\* A row that is not hidden names a passage that differs, holds what differs or is in
\* another order among the articles of both versions.
THEOREM NothingElseIsShown == Spec => []OnlyChangesAreShown
<1>1. after \in Document => OnlyChangesAreShown BY BeforeIsDocument, RowsAreChanges
<1> QED BY <1>1, LaterVersionIsADocument, PTL

(***************************************************************************)
(* Texts in parts.                                                         *)
(***************************************************************************)
\* f[p] is what the first p parts of s make.
Flattens(s, f) ==
  \A p \in 1..Len(s) : f[p] = IF p = 1 THEN s[p] ELSE f[p - 1] \o s[p]

\* The equation by which FlattenSeq chooses it.
FlattenEquation(s, f) ==
  f = [p \in 1..Len(s) |-> IF p = 1 THEN s[p] ELSE f[p - 1] \o s[p]]

LEMMA EquationFlattens ==
  ASSUME NEW s, NEW f, FlattenEquation(s, f)
  PROVE  /\ Flattens(s, f)
         /\ DOMAIN f = 1..Len(s)
         /\ f = [k \in DOMAIN f |-> f[k]]
<1> DEFINE g == [k \in 1..Len(s) |-> IF k = 1 THEN s[k] ELSE f[k - 1] \o s[k]]
<1>1. f = g BY Zenon DEF FlattenEquation
<1>2. DOMAIN g = 1..Len(s) /\ g = [k \in DOMAIN g |-> g[k]] BY Zenon
<1>3. ASSUME NEW p \in 1..Len(s)
      PROVE  g[p] = IF p = 1 THEN s[p] ELSE f[p - 1] \o s[p]
  OBVIOUS
<1> HIDE DEF g
<1> QED BY <1>1, <1>2, <1>3, Zenon DEF Flattens

LEMMA FlattensEquation ==
  ASSUME NEW s, NEW S, NEW f \in [1..Len(s) -> S], Flattens(s, f)
  PROVE  FlattenEquation(s, f)
<1> DEFINE g == [k \in 1..Len(s) |-> IF k = 1 THEN s[k] ELSE f[k - 1] \o s[k]]
<1>1. ASSUME NEW k \in 1..Len(s) PROVE f[k] = g[k] BY DEF Flattens
<1>2. DOMAIN g = 1..Len(s) /\ g = [k \in DOMAIN g |-> g[k]] BY Zenon
<1> HIDE DEF g
<1>3. f = g BY <1>1, <1>2
<1> QED BY <1>3, Zenon DEF FlattenEquation, g

LEMMA FlattensExists ==
  ASSUME NEW S, NEW s \in Seq(Seq(S))
  PROVE  \E f \in [1..Len(s) -> Seq(S)] : Flattens(s, f)
<1> DEFINE G(m) == \E f \in [1..m -> Seq(S)] :
                     \A p \in 1..m : f[p] = IF p = 1 THEN s[p] ELSE f[p - 1] \o s[p]
<1>1. Len(s) \in Nat OBVIOUS
<1>2. ASSUME NEW m \in 0..Len(s), ~G(m), \A k \in 0..Len(s) : ~G(k) => m <= k
      PROVE  FALSE
  <2>1. m # 0
    <3>1. [p \in 1..0 |-> <<>>] \in [1..0 -> Seq(S)] OBVIOUS
    <3>2. \A p \in 1..0 : FALSE OBVIOUS
    <3>3. G(0) BY <3>1, <3>2
    <3> HIDE DEF G
    <3> QED BY <3>3, <1>2
  <2>2. G(m - 1)
    <3> HIDE DEF G
    <3> QED BY <2>1, <1>2, <1>1
  <2>3. PICK f \in [1..(m - 1) -> Seq(S)] :
           \A p \in 1..(m - 1) : f[p] = IF p = 1 THEN s[p] ELSE f[p - 1] \o s[p]
    BY <2>2
  <2> DEFINE g == [p \in 1..m |-> IF p < m THEN f[p] ELSE IF p = 1 THEN s[p] ELSE f[p - 1] \o s[p]]
  <2>4. m \in 1..Len(s) BY <2>1, <1>1
  <2>a. s[m] \in Seq(S) BY <2>4, ElementOfSeq
  <2>b. ASSUME NEW p \in 1..m PROVE g[p] \in Seq(S)
    <3>1. CASE p < m BY <3>1, <2>3, <1>1
    <3>2. CASE p = m /\ p = 1 BY <3>2, <2>a
    <3>3. CASE p = m /\ p # 1 
      <4>1. f[p - 1] \in Seq(S) BY <3>3, <2>3, <1>1
      <4> QED BY <4>1, <3>3, <2>a
    <3> QED BY <3>1, <3>2, <3>3, <1>1
  <2>5. g \in [1..m -> Seq(S)] BY <2>b
  <2>6. ASSUME NEW p \in 1..m PROVE g[p] = IF p = 1 THEN s[p] ELSE g[p - 1] \o s[p]
    <3>1. p # 1 => g[p - 1] = f[p - 1] BY <1>1
    <3>2. CASE p < m
      <4>1. p \in 1..(m - 1) BY <3>2, <1>1
      <4>2. g[p] = f[p] BY <3>2
      <4> HIDE DEF g
      <4> QED BY <4>1, <4>2, <3>1, <2>3
    <3>3. CASE p = m BY <3>1, <3>3
    <3> QED BY <3>2, <3>3, <1>1
  <2> HIDE DEF g
  <2>7. G(m) BY <2>5, <2>6
  <2> HIDE DEF G
  <2> QED BY <2>7, <1>2
<1>3. \A m \in 0..Len(s) : G(m)
  <2> HIDE DEF G
  <2> DEFINE Bad == {m \in 0..Len(s) : ~G(m)}
  <2>1. Bad \subseteq Nat OBVIOUS
  <2>2. Bad = {} BY <2>1, <1>2, LeastOfSet
  <2> QED BY <2>2
<1>4. G(Len(s))
  <2> HIDE DEF G
  <2> QED BY <1>3, <1>1
<1> QED BY <1>4 DEF Flattens

LEMMA FlattensUnique ==
  ASSUME NEW S, NEW s \in Seq(Seq(S)), NEW f, NEW g, Flattens(s, f), Flattens(s, g)
  PROVE  \A p \in 1..Len(s) : f[p] = g[p]
<1> DEFINE Bad == {p \in 1..Len(s) : f[p] # g[p]}
<1>1. Len(s) \in Nat OBVIOUS
<1>2. ASSUME NEW m \in Bad, \A k \in Bad : m <= k
      PROVE  FALSE
  <2>1. CASE m = 1 BY <2>1, <1>1 DEF Flattens
  <2>2. CASE m # 1
    <3>1. m \in 1..Len(s) /\ m - 1 \in 1..Len(s) BY <2>2, <1>1
    <3>2. m - 1 \notin Bad BY <1>2, <3>1
    <3>3. f[m - 1] = g[m - 1] BY <3>1, <3>2
    <3> QED BY <3>1, <3>3, <2>2, <1>1 DEF Flattens
  <2> QED BY <2>1, <2>2
<1>3. Bad = {}
  <2>1. Bad \subseteq Nat BY <1>1
  <2> HIDE DEF Bad
  <2> QED BY <2>1, <1>2, LeastOfSet
<1> QED BY <1>3

LEMMA FlattenSeqIs ==
  ASSUME NEW S, NEW s \in Seq(Seq(S)), s # <<>>,
         NEW f \in [1..Len(s) -> Seq(S)], Flattens(s, f)
  PROVE  FlattenSeq(s) = f[Len(s)]
<1> DEFINE g == CHOOSE g : FlattenEquation(s, g)
<1>1. Len(s) # 0 /\ Len(s) \in 1..Len(s) OBVIOUS
<1>2. FlattenEquation(s, g) BY FlattensEquation, Zenon
<1>3. Flattens(s, g) BY <1>2, EquationFlattens
<1>4. g = CHOOSE h : h = [p \in 1..Len(s) |-> IF p = 1 THEN s[p] ELSE h[p - 1] \o s[p]]
  BY Zenon DEF FlattenEquation
<1>5. FlattenSeq(s)
        = (CHOOSE h : h = [p \in 1..Len(s) |->
                             IF p = 1 THEN s[p] ELSE h[p - 1] \o s[p]])[Len(s)]
  BY <1>1, Zenon DEF FlattenSeq
<1>6. FlattenSeq(s) = g[Len(s)] BY <1>4, <1>5, Zenon
<1> HIDE DEF g
<1>7. g[Len(s)] = f[Len(s)] BY <1>1, <1>3, FlattensUnique
<1> QED BY <1>6, <1>7

LEMMA FlattenSeqEmpty == FlattenSeq(<<>>) = <<>>
BY DEF FlattenSeq

LEMMA FlattenSeqAppend ==
  ASSUME NEW S, NEW s \in Seq(Seq(S)), NEW e \in Seq(S)
  PROVE  /\ FlattenSeq(s) \in Seq(S)
         /\ FlattenSeq(Append(s, e)) = FlattenSeq(s) \o e
<1>0. PICK f \in [1..Len(s) -> Seq(S)] : Flattens(s, f) BY FlattensExists
<1>1. CASE s = <<>>
  <2>1. Append(s, e) = <<e>> BY <1>1
  <2>2. Flattens(<<e>>, <<e>>) BY DEF Flattens
  <2>3. FlattenSeq(<<e>>) = e
    <3>1. <<e>> \in Seq(Seq(S)) /\ <<e>> # <<>> /\ Len(<<e>>) = 1 OBVIOUS
    <3>2. <<e>> \in [1..Len(<<e>>) -> Seq(S)] OBVIOUS
    <3>3. FlattenSeq(<<e>>) = <<e>>[Len(<<e>>)] BY <2>2, <3>1, <3>2, FlattenSeqIs
    <3> QED BY <3>1, <3>3
  <2>4. FlattenSeq(s) \in Seq(S) /\ FlattenSeq(s) \o e = e
    <3>1. FlattenSeq(s) = <<>> BY <1>1, FlattenSeqEmpty
    <3> QED BY <3>1
  <2> QED BY <2>1, <2>3, <2>4
<1>2. CASE s # <<>>
  <2>1. FlattenSeq(s) = f[Len(s)] /\ Len(s) \in Nat \ {0} BY <1>0, <1>2, FlattenSeqIs
  <2> DEFINE n == Len(s)
             t == Append(s, e)
             g == [p \in 1..(n + 1) |-> IF p = n + 1 THEN f[n] \o e ELSE f[p]]
  <2>2. t \in Seq(Seq(S)) /\ t # <<>> /\ Len(t) = n + 1 OBVIOUS
  <2>3. \A p \in 1..n : t[p] = s[p] BY <2>1
  <2>4. t[n + 1] = e OBVIOUS
  <2>5. \A p \in 1..n : f[p] = IF p = 1 THEN s[p] ELSE f[p - 1] \o s[p] BY <1>0 DEF Flattens
  <2>6. \A p \in 1..(n + 1) : g[p] = IF p = 1 THEN t[p] ELSE g[p - 1] \o t[p]
    <3> TAKE p \in 1..(n + 1)
    <3>1. CASE p = n + 1 
      <4>1. p # 1 /\ p - 1 = n BY <3>1, <2>1
      <4>2. g[p] = f[n] \o e BY <3>1, <2>1
      <4>3. g[p-1] = f[n] BY <4>1, <2>1
      <4> QED BY <4>1, <4>2, <4>3, <2>4, <3>1
    <3>2. CASE p # n + 1
      <4>1. p \in 1..n /\ (p # 1 => p - 1 \in 1..n) BY <3>2, <2>1
      <4>2. g[p] = f[p] /\ (p # 1 => g[p - 1] = f[p - 1]) BY <4>1, <2>1
      <4> HIDE DEF g, t, n
      <4> QED BY <4>1, <4>2, <2>3, <2>5
    <3> QED BY <3>1, <3>2
  <2>7. g[n + 1] = f[n] \o e /\ f[n] \in Seq(S) BY <2>1, n + 1 \in 1..(n + 1), n \in 1..n
  <2>8. g \in [1..(n + 1) -> Seq(S)]
    <3>1. f[n] \o e \in Seq(S) BY <2>7, ConcatProperties
    <3>2. ASSUME NEW p \in 1..(n + 1) PROVE g[p] \in Seq(S)
      <4>1. CASE p = n + 1 BY <4>1, <3>1
      <4>2. CASE p # n + 1
        <5>1. p \in 1..n BY <4>2, <2>1
        <5> QED BY <5>1, <4>2, <2>1
      <4> QED BY <4>1, <4>2
    <3> QED BY <3>2
  <2> HIDE DEF g, t
  <2>9. Flattens(t, g) BY <2>6, <2>2 DEF Flattens
  <2>10. FlattenSeq(t) = g[n + 1] BY <2>9, <2>8, <2>2, FlattenSeqIs
  <2> QED BY <2>10, <2>7, <2>1 DEF t
<1> QED BY <1>1, <1>2

(***************************************************************************)
(* Segments.                                                               *)
(***************************************************************************)
Segment == [type : {"equal", "remove", "add"}, text : Seq(Token)]

\* The texts of the segments of these types, and what they make together.
Parts(w, types) ==
  [n \in DOMAIN w |-> IF w[n].type \in types THEN w[n].text ELSE <<>>]

Chosen(w, types) == FlattenSeq(Parts(w, types))

Alternating(w) ==
  /\ \A n \in DOMAIN w : w[n].text # <<>>
  /\ \A n \in 2..Len(w) : w[n].type # w[n - 1].type

LEMMA PartsOfSegments ==
  ASSUME NEW w \in Seq(Segment), NEW types
  PROVE  Parts(w, types) \in Seq(Seq(Token)) /\ Len(Parts(w, types)) = Len(w)
<1>1. ASSUME NEW n \in 1..Len(w)
      PROVE  (IF w[n].type \in types THEN w[n].text ELSE <<>>) \in Seq(Token)
  <2>1. w[n] \in Segment BY ElementOfSeq
  <2>2. w[n].text \in Seq(Token) BY <2>1 DEF Segment
  <2> QED BY <2>2
<1>2. Parts(w, types) \in [1..Len(w) -> Seq(Token)] /\ Len(w) \in Nat BY <1>1 DEF Parts
<1> QED BY <1>2

LEMMA PartsAppend ==
  ASSUME NEW w \in Seq(Segment), NEW e \in Segment, NEW types
  PROVE  Parts(Append(w, e), types)
           = Append(Parts(w, types), IF e.type \in types THEN e.text ELSE <<>>)
<1> DEFINE x == IF e.type \in types THEN e.text ELSE <<>>
           a == Parts(Append(w, e), types)
           b == Append(Parts(w, types), x)
<1>1. x \in Seq(Token) BY DEF Segment
<1>2. Append(w, e) \in Seq(Segment) /\ Len(Append(w, e)) = Len(w) + 1 OBVIOUS
<1>3. a \in Seq(Seq(Token)) /\ Len(a) = Len(w) + 1 BY <1>2, PartsOfSegments
<1>4. b \in Seq(Seq(Token)) /\ Len(b) = Len(w) + 1 BY <1>1, PartsOfSegments
<1>5. ASSUME NEW n \in 1..(Len(w) + 1) PROVE a[n] = b[n]
  <2>1. CASE n = Len(w) + 1
    <3>1. b[n] = x BY <2>1, <1>1, PartsOfSegments, AppendProperties
    <3>2. Append(w, e)[n] = e BY <2>1
    <3>3. a[n] = x BY <3>2, <1>2 DEF Parts
    <3> QED BY <3>1, <3>3
  <2>2. CASE n # Len(w) + 1
    <3>1. n \in 1..Len(w) BY <2>2
    <3>2. b[n] = Parts(w, types)[n] BY <3>1, <1>1, PartsOfSegments, AppendProperties
    <3>3. Append(w, e)[n] = w[n] BY <3>1
    <3>4. a[n] = Parts(w, types)[n] BY <3>1, <3>3, <1>2 DEF Parts
    <3> QED BY <3>2, <3>4
  <2> QED BY <2>1, <2>2
<1> HIDE DEF a, b
<1>6. a = b BY <1>3, <1>4, <1>5, SeqEqual
<1> QED BY <1>6 DEF a, b

LEMMA ChosenAppend ==
  ASSUME NEW w \in Seq(Segment), NEW e \in Segment, NEW types
  PROVE  /\ Chosen(w, types) \in Seq(Token)
         /\ Chosen(Append(w, e), types)
              = Chosen(w, types) \o (IF e.type \in types THEN e.text ELSE <<>>)
<1>1. (IF e.type \in types THEN e.text ELSE <<>>) \in Seq(Token) BY DEF Segment
<1>2. Parts(w, types) \in Seq(Seq(Token)) BY PartsOfSegments
<1>3. Parts(Append(w, e), types)
           = Append(Parts(w, types), IF e.type \in types THEN e.text ELSE <<>>)
  BY PartsAppend
<1> QED BY <1>1, <1>2, <1>3, FlattenSeqAppend DEF Chosen

LEMMA FrontAndLast ==
  ASSUME NEW S, NEW s \in Seq(S), s # <<>>
  PROVE  /\ Front(s) \in Seq(S) /\ Last(s) \in S /\ Last(s) = s[Len(s)]
         /\ Len(Front(s)) = Len(s) - 1
         /\ \A n \in 1..(Len(s) - 1) : Front(s)[n] = s[n]
         /\ s = Append(Front(s), Last(s))
<1>1. Len(s) \in Nat \ {0} OBVIOUS
<1>2. /\ Front(s) \in Seq(S) /\ Last(s) \in S /\ Last(s) = s[Len(s)]
      /\ Len(Front(s)) = Len(s) - 1
      /\ \A n \in 1..(Len(s) - 1) : Front(s)[n] = s[n]
  BY <1>1 DEF Front, Last
<1>3. s = Append(Front(s), Last(s)) BY <1>1, <1>2
<1> QED BY <1>2, <1>3

LEMMA ChosenEmpty == ASSUME NEW types PROVE Chosen(<<>>, types) = <<>>
<1>1. Parts(<<>>, types) = <<>> BY DEF Parts
<1> QED BY <1>1, FlattenSeqEmpty DEF Chosen

\* w is v with this text more in the segments of its type.
Adds(w, v, type, text) ==
  \A types : Chosen(w, types) = Chosen(v, types) \o (IF type \in types THEN text ELSE <<>>)

LEMMA PushSegChosen ==
  ASSUME NEW w \in Seq(Segment), Alternating(w), NEW text \in Seq(Token),
         NEW type \in {"equal", "remove", "add"}
  PROVE  /\ pushSeg(w, type, text) \in Seq(Segment)
         /\ Alternating(pushSeg(w, type, text))
         /\ Adds(pushSeg(w, type, text), w, type, text)
<1> USE DEF Adds
<1>0. \A types : Chosen(w, types) \in Seq(Token)
  <2>1. [type |-> "add", text |-> <<>>] \in Segment BY DEF Segment
  <2> QED BY <2>1, ChosenAppend
<1>1. CASE text = <<>>
  <2>1. pushSeg(w, type, text) = w BY <1>1 DEF pushSeg
  <2>2. \A types : Chosen(w, types) \o <<>> = Chosen(w, types) BY <1>0
  <2> QED BY <2>1, <2>2, <1>1
<1>2. CASE text # <<>> /\ w # <<>> /\ Last(w).type = type
  <2> DEFINE f == Front(w)
             e == [type |-> type, text |-> Last(w).text \o text]
  <2>1. /\ f \in Seq(Segment) /\ Last(w) \in Segment /\ w = Append(f, Last(w))
        /\ Last(w) = w[Len(w)] /\ Len(f) = Len(w) - 1
        /\ \A n \in 1..(Len(w) - 1) : f[n] = w[n]
    BY <1>2, FrontAndLast
  <2>2. Last(w).text \in Seq(Token) BY <2>1 DEF Segment
  <2>3. e \in Segment /\ e.text = Last(w).text \o text /\ e.type = type /\ e.text # <<>>
    BY <2>2, <1>2 DEF Segment
  <2>4. pushSeg(w, type, text) = Append(f, e) BY <1>2 DEF pushSeg
  <2> HIDE DEF f, e
  <2>5. Append(f, e) \in Seq(Segment) BY <2>1, <2>3
  <2>6. Alternating(Append(f, e))
    <3>1. Len(Append(f, e)) = Len(w) /\ Len(w) \in Nat \ {0} BY <2>1, <1>2
    <3>2. \A n \in 1..(Len(w) - 1) : Append(f, e)[n] = w[n] BY <2>1, <3>1
    <3>3. Append(f, e)[Len(w)] = e BY <2>1, <3>1
    <3>4. ASSUME NEW n \in DOMAIN Append(f, e) PROVE Append(f, e)[n].text # <<>>
      BY <3>1, <3>2, <3>3, <2>3, <2>5 DEF Alternating
    <3>5. ASSUME NEW n \in 2..Len(Append(f, e))
          PROVE  Append(f, e)[n].type # Append(f, e)[n - 1].type
      <4>1. w[n].type # w[n - 1].type BY <3>1 DEF Alternating
      <4>2. Append(f, e)[n - 1] = w[n - 1] BY <3>1, <3>2
      <4>3. Append(f, e)[n].type = w[n].type BY <3>1, <3>2, <3>3, <2>1, <2>3, <1>2
      <4> QED BY <4>1, <4>2, <4>3
    <3> QED BY <3>4, <3>5 DEF Alternating
  <2>7. ASSUME NEW types
        PROVE  Chosen(Append(f, e), types)
                 = Chosen(w, types) \o (IF type \in types THEN text ELSE <<>>)
    <3>1. Chosen(f, types) \in Seq(Token) BY <2>1, ChosenAppend
    <3>2. Chosen(w, types)
            = Chosen(f, types) \o (IF type \in types THEN Last(w).text ELSE <<>>)
      BY <2>1, <1>2, ChosenAppend
    <3>3. Chosen(Append(f, e), types)
            = Chosen(f, types) \o (IF type \in types THEN Last(w).text \o text ELSE <<>>)
      BY <2>1, <2>3, ChosenAppend
    <3>4. CASE type \in types
      <4>1. Chosen(f, types) \o (Last(w).text \o text) = (Chosen(f, types) \o Last(w).text) \o text
        <5>1. \A a, b, c \in Seq(Token) : a \o (b \o c) = (a \o b) \o c
          BY ConcatAssociative
        <5> QED BY <5>1, <3>1, <2>2
      <4> QED BY <4>1, <3>2, <3>3, <3>4
    <3>5. CASE type \notin types
      <4>1. Chosen(f, types) \o <<>> = Chosen(f, types) BY <3>1
      <4> QED BY <4>1, <3>1, <3>2, <3>3, <3>5
    <3> QED BY <3>4, <3>5
  <2> QED BY <2>4, <2>5, <2>6, <2>7
<1>3. CASE text # <<>> /\ ~(w # <<>> /\ Last(w).type = type)
  <2> DEFINE e == [type |-> type, text |-> text]
  <2>1. e \in Segment /\ e.type = type /\ e.text = text BY DEF Segment
  <2>2. pushSeg(w, type, text) = Append(w, e) BY <1>3 DEF pushSeg
  <2> HIDE DEF e
  <2>3. Alternating(Append(w, e))
    <3>1. Len(Append(w, e)) = Len(w) + 1 /\ Len(w) \in Nat BY <2>1
    <3>2. \A n \in 1..Len(w) : Append(w, e)[n] = w[n] BY <2>1
    <3>3. Append(w, e)[Len(w) + 1] = e BY <2>1
    <3>4. ASSUME NEW n \in DOMAIN Append(w, e) PROVE Append(w, e)[n].text # <<>>
      <4>1. n \in 1..(Len(w) + 1) BY <3>1, <2>1
      <4> QED BY <4>1, <3>1, <3>2, <3>3, <2>1, <1>3 DEF Alternating
    <3>5. ASSUME NEW n \in 2..Len(Append(w, e))
          PROVE  Append(w, e)[n].type # Append(w, e)[n - 1].type
      <4>1. Append(w, e)[n - 1] = w[n - 1] BY <3>1, <3>2
      <4>2. CASE n = Len(w) + 1
        <5>1. w # <<>> /\ Last(w) = w[n - 1] BY <4>2, <3>1 DEF Last
        <5> QED BY <5>1, <4>1, <4>2, <3>3, <2>1, <1>3
      <4>3. CASE n # Len(w) + 1 BY <4>3, <4>1, <3>1, <3>2 DEF Alternating
      <4> QED BY <4>2, <4>3
    <3> QED BY <3>4, <3>5 DEF Alternating
  <2>4. \A types : Chosen(Append(w, e), types)
                     = Chosen(w, types) \o (IF type \in types THEN text ELSE <<>>)
    BY <2>1, ChosenAppend
  <2>5. Append(w, e) \in Seq(Segment) BY <2>1
  <2> QED BY <2>2, <2>3, <2>4, <2>5
<1> QED BY <1>1, <1>2, <1>3

\* What a segment adds to either side, and to what is unchanged.
LEMMA PushSegSides ==
  ASSUME NEW w \in Seq(Segment), Alternating(w), NEW text \in Seq(Token),
         NEW type \in {"equal", "remove", "add"}
  PROVE  /\ pushSeg(w, type, text) \in Seq(Segment)
         /\ Alternating(pushSeg(w, type, text))
         /\ Chosen(pushSeg(w, type, text), {"equal", "remove"})
              = IF type = "add" THEN Chosen(w, {"equal", "remove"})
                ELSE Chosen(w, {"equal", "remove"}) \o text
         /\ Chosen(pushSeg(w, type, text), {"equal", "add"})
              = IF type = "remove" THEN Chosen(w, {"equal", "add"})
                ELSE Chosen(w, {"equal", "add"}) \o text
         /\ Chosen(pushSeg(w, type, text), {"equal"})
              = IF type = "equal" THEN Chosen(w, {"equal"}) \o text
                ELSE Chosen(w, {"equal"})
         /\ \A types : Chosen(w, types) \in Seq(Token)
<1>1. \A types : Chosen(w, types) \in Seq(Token)
  <2>1. [type |-> "add", text |-> <<>>] \in Segment BY DEF Segment
  <2> QED BY <2>1, ChosenAppend
<1>2. \A types : Chosen(w, types) \o <<>> = Chosen(w, types) BY <1>1
<1>a. Adds(pushSeg(w, type, text), w, type, text) BY PushSegChosen
<1>3. ASSUME NEW types
      PROVE  Chosen(pushSeg(w, type, text), types)
               = IF type \in types THEN Chosen(w, types) \o text ELSE Chosen(w, types)
  <2>2. CASE type \in types BY <1>a, <2>2 DEF Adds
  <2>3. CASE type \notin types BY <1>a, <2>3, <1>2 DEF Adds
  <2> QED BY <2>2, <2>3
<1>4. /\ type \in {"equal", "remove"} <=> type # "add"
      /\ type \in {"equal", "add"} <=> type # "remove"
      /\ type \in {"equal"} <=> type = "equal"
  OBVIOUS
<1>5. Chosen(pushSeg(w, type, text), {"equal", "remove"})
        = IF type = "add" THEN Chosen(w, {"equal", "remove"})
          ELSE Chosen(w, {"equal", "remove"}) \o text
  BY <1>3, <1>4, Zenon
<1>6. Chosen(pushSeg(w, type, text), {"equal", "add"})
        = IF type = "remove" THEN Chosen(w, {"equal", "add"})
          ELSE Chosen(w, {"equal", "add"}) \o text
  BY <1>3, <1>4, Zenon
<1>7. Chosen(pushSeg(w, type, text), {"equal"})
        = IF type = "equal" THEN Chosen(w, {"equal"}) \o text
          ELSE Chosen(w, {"equal"})
  BY <1>3, <1>4, Zenon
<1> QED BY <1>1, <1>5, <1>6, <1>7, PushSegChosen

(***************************************************************************)
(* The loops keep both texts.                                              *)
(***************************************************************************)
DiffTyped ==
  /\ left \in Seq(Token) /\ right \in Seq(Token)
  /\ start \in Nat /\ leftEnd \in Nat /\ rightEnd \in Nat /\ i \in Nat /\ j \in Nat
  /\ segs \in Seq(Segment)
  /\ loop \in {"start", "end", "between", "walk", "done"}

\* What is set aside is equal on both sides and does not overlap.
SetAside ==
  /\ start <= leftEnd /\ leftEnd <= Len(left)
  /\ start <= rightEnd /\ rightEnd <= Len(right)
  /\ Len(left) - leftEnd = Len(right) - rightEnd
  /\ \A k \in 1..start : left[k] = right[k]
  /\ \A k \in 1..(Len(left) - leftEnd) : left[leftEnd + k] = right[rightEnd + k]

Position ==
  /\ loop = "start" => leftEnd = Len(left) /\ rightEnd = Len(right)
  /\ loop \in {"start", "end", "between"} => segs = <<>>
  /\ loop = "walk" => /\ start <= i /\ i <= leftEnd
                      /\ start <= j /\ j <= rightEnd
  /\ loop = "done" => i = Len(left) /\ j = Len(right)

Written ==
  loop \in {"walk", "done"} =>
    /\ Chosen(segs, {"equal", "remove"}) = Slice(left, 0, i)
    /\ Chosen(segs, {"equal", "add"}) = Slice(right, 0, j)
    /\ Alternating(segs)

DiffInv == DiffTyped /\ SetAside /\ Position /\ Written

LEMMA WordingType ==
  ASSUME NEW w \in Wording
  PROVE  w \in Seq(Token)
BY DiffConstants DEF Wording, SeqOf

LEMMA SliceType ==
  ASSUME NEW t \in Seq(Token), NEW a \in Nat, NEW b \in Nat, a <= b, b <= Len(t)
  PROVE  /\ Slice(t, a, b) \in Seq(Token)
         /\ Len(Slice(t, a, b)) = b - a
         /\ \A k \in 1..(b - a) : Slice(t, a, b)[k] = t[a + k]
BY DEF Slice

LEMMA SliceJoin ==
  ASSUME NEW t \in Seq(Token), NEW a \in Nat, NEW b \in Nat, NEW c \in Nat,
         a <= b, b <= c, c <= Len(t)
  PROVE  Slice(t, a, b) \o Slice(t, b, c) = Slice(t, a, c)
<1>1. a + 1 \in 1..(Len(t) + 1) /\ b \in (a + 1) - 1..Len(t) /\ c \in b..Len(t)
  OBVIOUS
<1> QED BY <1>1, ConcatAdjacentSubSeq DEF Slice

\* The slice up to the next token.
LEMMA SliceNext ==
  ASSUME NEW t \in Seq(Token), NEW b \in Nat, b < Len(t)
  PROVE  /\ <<t[b + 1]>> \in Seq(Token)
         /\ Slice(t, 0, b) \o <<t[b + 1]>> = Slice(t, 0, b + 1)
<1>1. b + 1 \in 1..Len(t) /\ b + 1 \in Nat /\ 0 <= b /\ b <= b + 1 /\ b + 1 <= Len(t)
  OBVIOUS
<1>2. t[b + 1] \in Token BY <1>1, ElementOfSeq
<1> DEFINE c == b + 1
           x == <<t[b + 1]>>
<1>3. c \in Nat /\ b <= c /\ c <= Len(t) /\ 0 \in Nat /\ 0 <= b /\ c - b = 1 BY <1>1
<1>4. x \in Seq(Token) /\ Len(x) = 1 /\ x[1] = t[b + 1] BY <1>2
<1> HIDE DEF c, x
<1>5. Slice(t, b, c) \in Seq(Token) /\ Len(Slice(t, b, c)) = 1
  BY <1>3, SliceType
<1>6. Slice(t, b, c)[1] = t[b + 1]
  <2>1. \A k \in 1..(c - b) : Slice(t, b, c)[k] = t[b + k] BY <1>3, SliceType
  <2>2. 1 \in 1..(c - b) BY <1>3
  <2> QED BY <2>1, <2>2
<1>7. Slice(t, b, c) = x BY <1>4, <1>5, <1>6, SeqEqual
<1>8. Slice(t, 0, b) \o Slice(t, b, c) = Slice(t, 0, c) BY <1>3, SliceJoin
<1> QED BY <1>4, <1>7, <1>8 DEF c, x

\* t after a and u after b agree in this many tokens.
Agree(t, a, u, b, n) == \A k \in 1..n : t[a + k] = u[b + k]

LEMMA EqualSlices ==
  ASSUME NEW t \in Seq(Token), NEW u \in Seq(Token),
         NEW a \in Nat, NEW b \in Nat, NEW c \in Nat, NEW d \in Nat,
         a <= c, c <= Len(t), b <= d, d <= Len(u),
         NEW n \in Nat, c - a = n, d - b = n, Agree(t, a, u, b, n)
  PROVE  Slice(t, a, c) = Slice(u, b, d)
<1> USE DEF Agree
<1> DEFINE x == Slice(t, a, c)
           y == Slice(u, b, d)
<1>1. x \in Seq(Token) /\ Len(x) = c - a /\ \A k \in 1..(c - a) : x[k] = t[a + k]
  BY SliceType
<1>2. y \in Seq(Token) /\ Len(y) = d - b /\ \A k \in 1..(d - b) : y[k] = u[b + k]
  BY SliceType
<1> HIDE DEF x, y
<1>3. \A k \in 1..Len(x) : x[k] = y[k] BY <1>1, <1>2
<1>4. x = y BY <1>1, <1>2, <1>3, SeqEqual
<1> QED BY <1>4 DEF x, y

LEMMA DiffInvInit == DiffInit => DiffInv
<1> SUFFICES ASSUME DiffInit PROVE DiffInv OBVIOUS
<1>1. DiffTyped BY WordingType DEF DiffInit, DiffTyped
<1>2. SetAside /\ Position /\ Written
  BY <1>1 DEF DiffInit, DiffTyped, SetAside, Position, Written
<1> QED BY <1>1, <1>2 DEF DiffInv

LEMMA TrimStartKeeps == ASSUME DiffInv, TrimStart PROVE DiffInv'
<1> USE DEF DiffInv, TrimStart
<1>1. DiffTyped' BY DEF DiffTyped
<1>2. SetAside' BY DEF DiffTyped, SetAside, Position
<1>3. Position' /\ Written' BY DEF DiffTyped, Position, Written
<1> QED BY <1>1, <1>2, <1>3

LEMMA TrimEndKeeps == ASSUME DiffInv, TrimEnd PROVE DiffInv'
<1> USE DEF DiffInv, TrimEnd
<1>1. DiffTyped' BY DEF DiffTyped, SetAside
<1>2. SetAside'
  <2>1. CASE UNCHANGED <<leftEnd, rightEnd>> BY <2>1 DEF SetAside
  <2>2. CASE /\ leftEnd > start /\ rightEnd > start /\ left[leftEnd] = right[rightEnd]
             /\ leftEnd' = leftEnd - 1 /\ rightEnd' = rightEnd - 1
    <3>1. ASSUME NEW k \in 1..(Len(left) - leftEnd')
          PROVE  left[leftEnd' + k] = right[rightEnd' + k]
      <4>1. CASE k = 1 BY <4>1, <2>2 DEF DiffTyped
      <4>2. CASE k # 1
        <5>1. k - 1 \in 1..(Len(left) - leftEnd) BY <4>2, <2>2 DEF DiffTyped
        <5>2. left[leftEnd + (k - 1)] = right[rightEnd + (k - 1)] BY <5>1 DEF SetAside
        <5> QED BY <5>2, <2>2, <4>2 DEF DiffTyped
      <4> QED BY <4>1, <4>2
    <3> QED BY <3>1, <2>2 DEF DiffTyped, SetAside
  <2> QED BY <2>1, <2>2
<1>3. Position' /\ Written' BY DEF DiffTyped, Position, Written
<1> QED BY <1>1, <1>2, <1>3

LEMMA BetweenKeeps == ASSUME DiffInv, Between PROVE DiffInv'
<1> DEFINE begun == pushSeg(segs, "equal", Slice(left, 0, start))
           taken == pushSeg(begun, "remove", Slice(left, start, leftEnd))
           both == pushSeg(taken, "add", Slice(right, start, rightEnd))
<1>1. /\ DiffTyped /\ SetAside /\ segs = <<>> /\ loop' = "walk"
      /\ UNCHANGED <<left, right, start, leftEnd, rightEnd>>
  BY DEF DiffInv, Between, Position
<1>2. \/ segs' = both /\ i' = leftEnd /\ j' = rightEnd
      \/ segs' = begun /\ i' = start /\ j' = start
  BY DEF Between
<1>3. /\ Slice(left, 0, start) \in Seq(Token)
      /\ Slice(left, start, leftEnd) \in Seq(Token)
      /\ Slice(right, start, rightEnd) \in Seq(Token)
      /\ Slice(left, 0, start) \o Slice(left, start, leftEnd) = Slice(left, 0, leftEnd)
      /\ Slice(right, 0, start) \o Slice(right, start, rightEnd) = Slice(right, 0, rightEnd)
  <2>1. /\ left \in Seq(Token) /\ right \in Seq(Token)
        /\ start \in Nat /\ leftEnd \in Nat /\ rightEnd \in Nat
        /\ 0 <= start /\ start <= leftEnd /\ leftEnd <= Len(left)
        /\ start <= rightEnd /\ rightEnd <= Len(right) /\ start <= Len(left)
    BY <1>1 DEF DiffTyped, SetAside
  <2> QED BY <2>1, SliceType, SliceJoin
<1>4. Slice(left, 0, start) = Slice(right, 0, start)
  <2>1. Agree(left, 0, right, 0, start)
    BY <1>1 DEF DiffTyped, SetAside, Agree
  <2>2. /\ start \in Nat /\ 0 <= start /\ start <= Len(left) /\ start <= Len(right)
        /\ left \in Seq(Token) /\ right \in Seq(Token) /\ 0 \in Nat
        /\ start - 0 = start
    BY <1>1 DEF DiffTyped, SetAside
  <2> QED BY <2>1, <2>2, EqualSlices
<1>5. /\ segs \in Seq(Segment) /\ Alternating(segs)
      /\ \A types : Chosen(segs, types) = <<>>
  BY <1>1, ChosenEmpty DEF Alternating
<1>6. /\ begun \in Seq(Segment) /\ Alternating(begun)
      /\ Chosen(begun, {"equal", "remove"})
           = Chosen(segs, {"equal", "remove"}) \o Slice(left, 0, start)
      /\ Chosen(begun, {"equal", "add"})
           = Chosen(segs, {"equal", "add"}) \o Slice(left, 0, start)
      /\ Chosen(begun, {"equal"}) = Chosen(segs, {"equal"}) \o Slice(left, 0, start)
  BY <1>5, <1>3, PushSegSides
<1> HIDE DEF begun
<1>7. /\ taken \in Seq(Segment) /\ Alternating(taken)
      /\ Chosen(taken, {"equal", "remove"})
           = Chosen(begun, {"equal", "remove"}) \o Slice(left, start, leftEnd)
      /\ Chosen(taken, {"equal", "add"}) = Chosen(begun, {"equal", "add"})
  BY <1>6, <1>3, PushSegSides
<1> HIDE DEF taken
<1>8. /\ both \in Seq(Segment) /\ Alternating(both)
      /\ Chosen(both, {"equal", "remove"}) = Chosen(taken, {"equal", "remove"})
      /\ Chosen(both, {"equal", "add"})
           = Chosen(taken, {"equal", "add"}) \o Slice(right, start, rightEnd)
  BY <1>7, <1>3, PushSegSides
<1> HIDE DEF both
<1>9. DiffTyped' BY <1>1, <1>2, <1>6, <1>8 DEF DiffTyped
<1>10. SetAside' BY <1>1 DEF SetAside
<1>11. Position' BY <1>1, <1>2 DEF Position, SetAside, DiffTyped
<1>12. /\ Chosen(begun, {"equal", "remove"}) = Slice(left, 0, start)
       /\ Chosen(begun, {"equal", "add"}) = Slice(right, 0, start)
  <2>1. /\ Chosen(segs, {"equal", "remove"}) = <<>>
        /\ Chosen(segs, {"equal", "add"}) = <<>>
    BY <1>5
  <2>2. <<>> \o Slice(left, 0, start) = Slice(left, 0, start) BY <1>3
  <2> QED BY <2>1, <2>2, <1>4, <1>6
<1>13. /\ Chosen(both, {"equal", "remove"}) = Slice(left, 0, leftEnd)
       /\ Chosen(both, {"equal", "add"}) = Slice(right, 0, rightEnd)
  BY <1>3, <1>4, <1>7, <1>8, <1>12
<1>14. Written' BY <1>1, <1>2, <1>6, <1>8, <1>12, <1>13 DEF Written
<1> QED BY <1>9, <1>10, <1>11, <1>14 DEF DiffInv

LEMMA KeepTokenKeeps == ASSUME DiffInv, KeepToken PROVE DiffInv'
<1>1. /\ DiffTyped /\ SetAside /\ loop = "walk" /\ loop' = "walk"
      /\ start <= i /\ i < leftEnd /\ start <= j /\ j < rightEnd
      /\ left[i + 1] = right[j + 1] /\ i' = i + 1 /\ j' = j + 1
      /\ segs' = pushSeg(segs, "equal", <<left[i + 1]>>)
      /\ UNCHANGED <<left, right, start, leftEnd, rightEnd>>
      /\ Alternating(segs)
      /\ Chosen(segs, {"equal", "remove"}) = Slice(left, 0, i)
      /\ Chosen(segs, {"equal", "add"}) = Slice(right, 0, j)
  BY DEF DiffInv, KeepToken, Both, Position, Written
<1>2. i < Len(left) /\ j < Len(right) BY <1>1 DEF DiffTyped, SetAside
<1>3. /\ <<left[i + 1]>> \in Seq(Token)
      /\ Slice(left, 0, i) \o <<left[i + 1]>> = Slice(left, 0, i + 1)
  BY <1>1, <1>2, SliceNext DEF DiffTyped
<1>4. Slice(right, 0, j) \o <<right[j + 1]>> = Slice(right, 0, j + 1)
  BY <1>1, <1>2, SliceNext DEF DiffTyped
<1>5. /\ segs' \in Seq(Segment) /\ Alternating(segs')
      /\ Chosen(segs', {"equal", "remove"}) = Chosen(segs, {"equal", "remove"}) \o <<left[i + 1]>>
      /\ Chosen(segs', {"equal", "add"}) = Chosen(segs, {"equal", "add"}) \o <<left[i + 1]>>
  BY <1>1, <1>3, PushSegSides DEF DiffTyped
<1>6. DiffTyped' BY <1>1, <1>5 DEF DiffTyped
<1>7. SetAside' BY <1>1 DEF SetAside
<1>8. Position' BY <1>1 DEF Position, DiffTyped
<1>9. Written' BY <1>1, <1>3, <1>4, <1>5 DEF Written
<1> QED BY <1>6, <1>7, <1>8, <1>9 DEF DiffInv

LEMMA RemoveTokenKeeps == ASSUME DiffInv, RemoveToken PROVE DiffInv'
<1>1. /\ DiffTyped /\ SetAside /\ loop = "walk" /\ loop' = "walk"
      /\ start <= i /\ i < leftEnd /\ start <= j /\ j <= rightEnd
      /\ i' = i + 1 /\ j' = j
      /\ segs' = pushSeg(segs, "remove", <<left[i + 1]>>)
      /\ UNCHANGED <<left, right, start, leftEnd, rightEnd>>
      /\ Alternating(segs)
      /\ Chosen(segs, {"equal", "remove"}) = Slice(left, 0, i)
      /\ Chosen(segs, {"equal", "add"}) = Slice(right, 0, j)
  BY DEF DiffInv, RemoveToken, Position, Written
<1>2. i < Len(left) BY <1>1 DEF DiffTyped, SetAside
<1>3. /\ <<left[i + 1]>> \in Seq(Token)
      /\ Slice(left, 0, i) \o <<left[i + 1]>> = Slice(left, 0, i + 1)
  BY <1>1, <1>2, SliceNext DEF DiffTyped
<1>5. /\ segs' \in Seq(Segment) /\ Alternating(segs')
      /\ Chosen(segs', {"equal", "remove"}) = Chosen(segs, {"equal", "remove"}) \o <<left[i + 1]>>
      /\ Chosen(segs', {"equal", "add"}) = Chosen(segs, {"equal", "add"})
  BY <1>1, <1>3, PushSegSides DEF DiffTyped
<1>6. DiffTyped' BY <1>1, <1>5 DEF DiffTyped
<1>7. SetAside' BY <1>1 DEF SetAside
<1>8. Position' BY <1>1 DEF Position, DiffTyped
<1>9. Written' BY <1>1, <1>3, <1>5 DEF Written
<1> QED BY <1>6, <1>7, <1>8, <1>9 DEF DiffInv

LEMMA AddTokenKeeps == ASSUME DiffInv, AddToken PROVE DiffInv'
<1>1. /\ DiffTyped /\ SetAside /\ loop = "walk" /\ loop' = "walk"
      /\ start <= i /\ i <= leftEnd /\ start <= j /\ j < rightEnd
      /\ i' = i /\ j' = j + 1
      /\ segs' = pushSeg(segs, "add", <<right[j + 1]>>)
      /\ UNCHANGED <<left, right, start, leftEnd, rightEnd>>
      /\ Alternating(segs)
      /\ Chosen(segs, {"equal", "remove"}) = Slice(left, 0, i)
      /\ Chosen(segs, {"equal", "add"}) = Slice(right, 0, j)
  BY DEF DiffInv, AddToken, Position, Written
<1>2. j < Len(right) BY <1>1 DEF DiffTyped, SetAside
<1>3. /\ <<right[j + 1]>> \in Seq(Token)
      /\ Slice(right, 0, j) \o <<right[j + 1]>> = Slice(right, 0, j + 1)
  BY <1>1, <1>2, SliceNext DEF DiffTyped
<1>5. /\ segs' \in Seq(Segment) /\ Alternating(segs')
      /\ Chosen(segs', {"equal", "remove"}) = Chosen(segs, {"equal", "remove"})
      /\ Chosen(segs', {"equal", "add"}) = Chosen(segs, {"equal", "add"}) \o <<right[j + 1]>>
  BY <1>1, <1>3, PushSegSides DEF DiffTyped
<1>6. DiffTyped' BY <1>1, <1>5 DEF DiffTyped
<1>7. SetAside' BY <1>1 DEF SetAside
<1>8. Position' BY <1>1 DEF Position, DiffTyped
<1>9. Written' BY <1>1, <1>3, <1>5 DEF Written
<1> QED BY <1>6, <1>7, <1>8, <1>9 DEF DiffInv

LEMMA FinishKeeps == ASSUME DiffInv, Finish PROVE DiffInv'
<1> DEFINE rest == Slice(left, leftEnd, Len(left))
<1>1. /\ DiffTyped /\ SetAside /\ loop = "walk" /\ loop' = "done"
      /\ i = leftEnd /\ j = rightEnd /\ i' = Len(left) /\ j' = Len(right)
      /\ segs' = pushSeg(segs, "equal", rest)
      /\ UNCHANGED <<left, right, start, leftEnd, rightEnd>>
      /\ Alternating(segs)
      /\ Chosen(segs, {"equal", "remove"}) = Slice(left, 0, leftEnd)
      /\ Chosen(segs, {"equal", "add"}) = Slice(right, 0, rightEnd)
  BY DEF DiffInv, Finish, Position, Written
<1>2. /\ Len(left) \in Nat /\ Len(right) \in Nat /\ 0 <= leftEnd /\ 0 <= rightEnd
      /\ leftEnd <= Len(left) /\ rightEnd <= Len(right)
  BY <1>1 DEF DiffTyped, SetAside
<1>3. /\ rest \in Seq(Token)
      /\ Slice(left, 0, leftEnd) \o rest = Slice(left, 0, Len(left))
      /\ Slice(right, 0, rightEnd) \o Slice(right, rightEnd, Len(right))
           = Slice(right, 0, Len(right))
  <2>1. left \in Seq(Token) /\ right \in Seq(Token) /\ leftEnd \in Nat /\ rightEnd \in Nat
    BY <1>1 DEF DiffTyped
  <2>2. Len(left) <= Len(left) /\ Len(right) <= Len(right) BY <1>2
  <2>3. rest \in Seq(Token) BY <1>2, <2>1, <2>2, SliceType
  <2> HIDE DEF rest
  <2>4. Slice(left, 0, leftEnd) \o rest = Slice(left, 0, Len(left))
    BY <1>2, <2>1, <2>2, SliceJoin DEF rest
  <2> QED BY <1>2, <2>1, <2>2, <2>3, <2>4, SliceJoin
<1>4. rest = Slice(right, rightEnd, Len(right))
  <2> DEFINE m == Len(left)
             n == Len(right)
             x == m - leftEnd
  <2>1. /\ left \in Seq(Token) /\ right \in Seq(Token) /\ leftEnd \in Nat /\ rightEnd \in Nat
        /\ m \in Nat /\ n \in Nat /\ m <= Len(left) /\ n <= Len(right)
        /\ leftEnd <= m /\ rightEnd <= n
    BY <1>1, <1>2 DEF DiffTyped
  <2>2. /\ x \in Nat /\ m - leftEnd = x /\ n - rightEnd = x
        /\ Agree(left, leftEnd, right, rightEnd, x)
    BY <2>1, <1>1 DEF SetAside, Agree
  <2> HIDE DEF m, n, x
  <2>3. Slice(left, leftEnd, m) = Slice(right, rightEnd, n) BY <2>1, <2>2, EqualSlices
  <2> QED BY <2>3 DEF m, n
<1> HIDE DEF rest
<1>5. /\ segs' \in Seq(Segment) /\ Alternating(segs')
      /\ Chosen(segs', {"equal", "remove"}) = Chosen(segs, {"equal", "remove"}) \o rest
      /\ Chosen(segs', {"equal", "add"}) = Chosen(segs, {"equal", "add"}) \o rest
  BY <1>1, <1>3, PushSegSides DEF DiffTyped
<1>6. DiffTyped' BY <1>1, <1>2, <1>5 DEF DiffTyped
<1>7. SetAside' BY <1>1 DEF SetAside
<1>8. Position' BY <1>1 DEF Position, DiffTyped
<1>9. Written' BY <1>1, <1>3, <1>4, <1>5 DEF Written
<1> QED BY <1>6, <1>7, <1>8, <1>9 DEF DiffInv

LEMMA DiffInvStep == DiffInv /\ [DiffNext]_diffVars => DiffInv'
<1> SUFFICES ASSUME DiffInv, [DiffNext]_diffVars PROVE DiffInv' OBVIOUS
<1>1. CASE UNCHANGED diffVars
  BY <1>1 DEF diffVars, DiffInv, DiffTyped, SetAside, Position, Written
<1>2. CASE DiffNext
  BY <1>2, TrimStartKeeps, TrimEndKeeps, BetweenKeeps, KeepTokenKeeps, RemoveTokenKeeps,
     AddTokenKeeps, FinishKeeps DEF DiffNext
<1> QED BY <1>1, <1>2

LEMMA WrittenIsSide == ASSUME NEW type PROVE Side(type) = Chosen(segs, {"equal", type})
BY DEF Side, Chosen, Parts

LEMMA DiffInvAlways == DiffSpec => []DiffInv
BY DiffInvInit, DiffInvStep, PTL DEF DiffSpec

\* Whatever the two wordings are, what diffText has written is, on either side, the text
\* as far as the loops have come, in segments that are not empty and alternate.
THEOREM TextsArePreserved == DiffSpec => []BothTextsArePreserved
<1>1. DiffInv => BothTextsArePreserved
  BY WrittenIsSide, Zenon DEF DiffInv, Written, BothTextsArePreserved, Alternating
<1> QED BY <1>1, DiffInvAlways, PTL

(***************************************************************************)
(* The table counts the longest common subsequences.                       *)
(***************************************************************************)
Cells(s, m, n) == (s..m) \X (s..n)

\* What the code writes in the cell at row a and column b of the table T.
Entry(T, l, r, m, n, a, b) ==
  IF a = m \/ b = n THEN 0
  ELSE LET below == T[<<a + 1, b>>]
           beside == T[<<a, b + 1>>]
       IN  IF l[a + 1] = r[b + 1] THEN T[<<a + 1, b + 1>>] + 1
           ELSE IF below >= beside THEN below ELSE beside

TableEquation(T, l, r, s, m, n) ==
  T = [p \in Cells(s, m, n) |-> Entry(T, l, r, m, n, p[1], p[2])]

TableOf(l, r, s, m, n) == CHOOSE T : TableEquation(T, l, r, s, m, n)

\* T obeys the code's recursion in the cells nearer than k to the last one.
FilledTo(T, l, r, s, m, n, k) ==
  \A a \in s..m, b \in s..n :
    (m - a) + (n - b) < k => T[<<a, b>>] = Entry(T, l, r, m, n, a, b)

LEMMA EntryType ==
  ASSUME NEW l, NEW r, NEW s \in Nat, NEW m \in Nat, NEW n \in Nat,
         NEW T \in [Cells(s, m, n) -> Nat], NEW a \in s..m, NEW b \in s..n
  PROVE  Entry(T, l, r, m, n, a, b) \in Nat
<1>1. CASE a = m \/ b = n BY <1>1 DEF Entry
<1>2. CASE a # m /\ b # n
  <2>1. a + 1 \in s..m /\ b + 1 \in s..n BY <1>2
  <2>2. T[<<a + 1, b>>] \in Nat /\ T[<<a, b + 1>>] \in Nat /\ T[<<a + 1, b + 1>>] \in Nat
    BY <2>1 DEF Cells
  <2> QED BY <2>2, <1>2 DEF Entry
<1> QED BY <1>1, <1>2

AgreeNearer(T, U, s, m, n, a, b) ==
  \A c \in s..m, d \in s..n :
    (m - c) + (n - d) < (m - a) + (n - b) => T[<<c, d>>] = U[<<c, d>>]

\* An entry looks at cells nearer to the last one only.
LEMMA EntryReads ==
  ASSUME NEW l, NEW r, NEW s \in Nat, NEW m \in Nat, NEW n \in Nat,
         NEW T, NEW U, NEW a \in s..m, NEW b \in s..n,
         AgreeNearer(T, U, s, m, n, a, b)
  PROVE  Entry(T, l, r, m, n, a, b) = Entry(U, l, r, m, n, a, b)
<1>1. CASE a = m \/ b = n BY <1>1 DEF Entry
<1>2. CASE a # m /\ b # n
  <2>1. a + 1 \in s..m /\ b + 1 \in s..n BY <1>2
  <2>2. /\ T[<<a + 1, b>>] = U[<<a + 1, b>>]
        /\ T[<<a, b + 1>>] = U[<<a, b + 1>>]
        /\ T[<<a + 1, b + 1>>] = U[<<a + 1, b + 1>>]
    BY <2>1 DEF AgreeNearer
  <2> QED BY <2>2, <1>2 DEF Entry
<1> QED BY <1>1, <1>2

LEMMA TableExists ==
  ASSUME NEW l, NEW r, NEW s \in Nat, NEW m \in Nat, NEW n \in Nat
  PROVE  \A k \in Nat : \E T \in [Cells(s, m, n) -> Nat] : FilledTo(T, l, r, s, m, n, k)
<1> DEFINE G(k) == \E T \in [Cells(s, m, n) -> Nat] : FilledTo(T, l, r, s, m, n, k)
           Bad == {k \in Nat : ~G(k)}
<1>1. G(0)
  <2> DEFINE T == [p \in Cells(s, m, n) |-> 0]
  <2>1. T \in [Cells(s, m, n) -> Nat] OBVIOUS
  <2> HIDE DEF T
  <2>2. FilledTo(T, l, r, s, m, n, 0) BY DEF FilledTo
  <2> QED BY <2>1, <2>2
<1>2. ASSUME NEW k \in Nat, G(k) PROVE G(k + 1)
  <2>1. PICK T \in [Cells(s, m, n) -> Nat] : FilledTo(T, l, r, s, m, n, k) BY <1>2
  <2> DEFINE U == [p \in Cells(s, m, n) |-> Entry(T, l, r, m, n, p[1], p[2])]
  <2>2. ASSUME NEW a \in s..m, NEW b \in s..n
        PROVE  <<a, b>> \in Cells(s, m, n) /\ U[<<a, b>>] = Entry(T, l, r, m, n, a, b)
    BY DEF Cells
  <2>3. U \in [Cells(s, m, n) -> Nat]
    <3>1. ASSUME NEW p \in Cells(s, m, n) PROVE Entry(T, l, r, m, n, p[1], p[2]) \in Nat
      <4>1. p[1] \in s..m /\ p[2] \in s..n BY DEF Cells
      <4> QED BY <4>1, EntryType
    <3> QED BY <3>1
  <2> HIDE DEF U
  <2>4. ASSUME NEW a \in s..m, NEW b \in s..n, (m - a) + (n - b) < k + 1
        PROVE  U[<<a, b>>] = Entry(U, l, r, m, n, a, b)
    <3>1. ASSUME NEW c \in s..m, NEW d \in s..n, (m - c) + (n - d) < (m - a) + (n - b)
          PROVE  T[<<c, d>>] = U[<<c, d>>]
      <4>1. (m - c) + (n - d) < k BY <3>1, <2>4
      <4> QED BY <4>1, <2>1, <2>2 DEF FilledTo
    <3>2. AgreeNearer(T, U, s, m, n, a, b) BY <3>1 DEF AgreeNearer
    <3>3. Entry(T, l, r, m, n, a, b) = Entry(U, l, r, m, n, a, b) BY <3>2, EntryReads
    <3> QED BY <3>3, <2>2
  <2>5. FilledTo(U, l, r, s, m, n, k + 1) BY <2>4 DEF FilledTo
  <2> QED BY <2>3, <2>5
<1> HIDE DEF G
<1>3. ASSUME NEW k \in Bad, \A x \in Bad : k <= x PROVE FALSE
  <2>1. k \in Nat /\ k # 0 BY <1>1
  <2>2. k - 1 \in Nat /\ k - 1 \notin Bad BY <2>1, <1>3
  <2>3. G(k - 1) BY <2>2
  <2>4. G((k - 1) + 1) BY <2>2, <2>3, <1>2
  <2>5. (k - 1) + 1 = k BY <2>1
  <2> QED BY <2>4, <2>5
<1>4. Bad = {}
  <2>1. Bad \subseteq Nat OBVIOUS
  <2> HIDE DEF Bad
  <2> QED BY <2>1, <1>3, LeastOfSet
<1>5. \A k \in Nat : G(k) BY <1>4
<1> QED BY <1>5 DEF G

TableIsFilled(T, l, r, s, m, n) ==
  /\ T \in [Cells(s, m, n) -> Nat]
  /\ \A a \in s..m, b \in s..n : T[<<a, b>>] = Entry(T, l, r, m, n, a, b)

LEMMA TableIs ==
  ASSUME NEW l, NEW r, NEW s \in Nat, NEW m \in Nat, NEW n \in Nat
  PROVE  TableIsFilled(TableOf(l, r, s, m, n), l, r, s, m, n)
<1> DEFINE D == Cells(s, m, n)
           W == TableOf(l, r, s, m, n)
           far == m + n + 1
<1>1. PICK T \in [D -> Nat] : FilledTo(T, l, r, s, m, n, far)
  BY TableExists, far \in Nat
<1>2. ASSUME NEW a \in s..m, NEW b \in s..n
      PROVE  T[<<a, b>>] = Entry(T, l, r, m, n, a, b)
  <2>1. (m - a) + (n - b) < far OBVIOUS
  <2> QED BY <2>1, <1>1 DEF FilledTo
<1>3. TableEquation(T, l, r, s, m, n)
  <2> DEFINE U == [p \in D |-> Entry(T, l, r, m, n, p[1], p[2])]
  <2>1. ASSUME NEW p \in D PROVE T[p] = U[p]
    <3>1. p[1] \in s..m /\ p[2] \in s..n /\ p = <<p[1], p[2]>> BY DEF Cells
    <3>2. T[<<p[1], p[2]>>] = Entry(T, l, r, m, n, p[1], p[2]) BY <3>1, <1>2
    <3> QED BY <3>1, <3>2, Zenon
  <2>2. U = [p \in D |-> U[p]] BY Zenon
  <2> HIDE DEF U
  <2>3. T = [p \in D |-> T[p]] BY <1>1
  <2>4. T = U BY <2>1, <2>2, <2>3
  <2> QED BY <2>4, Zenon DEF U, TableEquation
<1>4. TableEquation(W, l, r, s, m, n) BY <1>3, Zenon DEF TableOf
<1>5. ASSUME NEW a \in s..m, NEW b \in s..n
      PROVE  W[<<a, b>>] = Entry(W, l, r, m, n, a, b)
  <2> DEFINE U == [p \in D |-> Entry(W, l, r, m, n, p[1], p[2])]
  <2>1. W = U BY <1>4, Zenon DEF TableEquation
  <2>2. U[<<a, b>>] = Entry(W, l, r, m, n, a, b) BY DEF Cells
  <2> HIDE DEF U, W
  <2> QED BY <2>1, <2>2
<1>6. W = [p \in D |-> W[p]]
  <2> DEFINE U == [p \in D |-> Entry(W, l, r, m, n, p[1], p[2])]
  <2>1. W = U BY <1>4, Zenon DEF TableEquation
  <2>2. DOMAIN U = D /\ U = [p \in D |-> U[p]] BY Zenon
  <2> HIDE DEF U, W
  <2> QED BY <2>1, <2>2
<1> HIDE DEF W
<1>7. \A a \in s..m, b \in s..n : W[<<a, b>>] = T[<<a, b>>]
  <2> DEFINE Bad == {k \in Nat : \E a \in s..m, b \in s..n :
                        k = (m - a) + (n - b) /\ W[<<a, b>>] # T[<<a, b>>]}
  <2>1. ASSUME NEW k \in Bad, \A x \in Bad : k <= x PROVE FALSE
    <3>1. PICK a \in s..m, b \in s..n : k = (m - a) + (n - b) /\ W[<<a, b>>] # T[<<a, b>>]
      OBVIOUS
    <3>2. ASSUME NEW c \in s..m, NEW d \in s..n, (m - c) + (n - d) < (m - a) + (n - b)
          PROVE  W[<<c, d>>] = T[<<c, d>>]
      <4> DEFINE x == (m - c) + (n - d)
      <4>1. x \in Nat /\ k \in Nat /\ x < k BY <3>1, <3>2
      <4>2. x \notin Bad
        <5> HIDE DEF Bad, x
        <5> QED BY <4>1, <2>1
      <4>3. \A e \in s..m, f \in s..n :
              x = (m - e) + (n - f) => W[<<e, f>>] = T[<<e, f>>]
        <5> HIDE DEF x
        <5> QED BY <4>1, <4>2
      <4> QED BY <4>3
    <3>3. AgreeNearer(W, T, s, m, n, a, b) BY <3>2 DEF AgreeNearer
    <3>4. Entry(W, l, r, m, n, a, b) = Entry(T, l, r, m, n, a, b) BY <3>3, EntryReads
    <3> QED BY <3>1, <3>4, <1>2, <1>5
  <2>2. Bad = {}
    <3>1. Bad \subseteq Nat OBVIOUS
    <3> HIDE DEF Bad
    <3> QED BY <3>1, <2>1, LeastOfSet
  <2>3. ASSUME NEW a \in s..m, NEW b \in s..n PROVE W[<<a, b>>] = T[<<a, b>>]
    <3>1. (m - a) + (n - b) \in Nat OBVIOUS
    <3> QED BY <3>1, <2>2
  <2> QED BY <2>3
<1>8. ASSUME NEW p \in D PROVE W[p] \in Nat
  <2>1. p[1] \in s..m /\ p[2] \in s..n /\ p = <<p[1], p[2]>> BY DEF Cells
  <2>2. W[<<p[1], p[2]>>] = T[<<p[1], p[2]>>] BY <2>1, <1>7
  <2>3. W[p] = T[p] BY <2>1, <2>2, Zenon
  <2> QED BY <2>3, <1>1
<1>9. W \in [D -> Nat] BY <1>6, <1>8
<1>10. TableIsFilled(W, l, r, s, m, n) BY <1>5, <1>9 DEF TableIsFilled
<1> QED BY <1>10 DEF W

LEMMA TableIsTableOf == table = TableOf(left, right, start, leftEnd, rightEnd)
BY Zenon DEF table, TableOf, TableEquation, Entry, Cells

(***************************************************************************)
(* A matching pairs n tokens of l with n equal tokens of r, in order.      *)
(***************************************************************************)
Matching(l, r, f, g, n, a, m, b, o) ==
  /\ f \in [1..n -> (a + 1)..m] /\ g \in [1..n -> (b + 1)..o]
  /\ Increasing(f, n) /\ Increasing(g, n)
  /\ \A k \in 1..n : l[f[k]] = r[g[k]]

LEMMA MatchingTail ==
  ASSUME NEW l, NEW r, NEW f, NEW g, NEW n \in Nat \ {0},
         NEW a \in Nat, NEW m \in Nat, NEW b \in Nat, NEW o \in Nat,
         Matching(l, r, f, g, n, a, m, b, o)
  PROVE  Matching(l, r, [k \in 1..(n - 1) |-> f[k + 1]], [k \in 1..(n - 1) |-> g[k + 1]],
                  n - 1, a + 1, m, b + 1, o)
<1> DEFINE F == [k \in 1..(n - 1) |-> f[k + 1]]
           G == [k \in 1..(n - 1) |-> g[k + 1]]
<1>1. ASSUME NEW k \in 1..(n - 1)
      PROVE  /\ k + 1 \in 1..n /\ 1 \in 1..n /\ 1 < k + 1
             /\ F[k] = f[k + 1] /\ G[k] = g[k + 1]
  OBVIOUS
<1>2. ASSUME NEW k \in 1..(n - 1)
      PROVE  F[k] \in ((a + 1) + 1)..m /\ G[k] \in ((b + 1) + 1)..o
  <2>1. f[1] < f[k + 1] /\ g[1] < g[k + 1] BY <1>1 DEF Matching, Increasing
  <2>2. /\ f[1] \in (a + 1)..m /\ f[k + 1] \in (a + 1)..m
        /\ g[1] \in (b + 1)..o /\ g[k + 1] \in (b + 1)..o
    BY <1>1 DEF Matching
  <2> QED BY <2>1, <2>2, <1>1
<1>3. F \in [1..(n - 1) -> ((a + 1) + 1)..m] /\ G \in [1..(n - 1) -> ((b + 1) + 1)..o]
  BY <1>2
<1>4. Increasing(F, n - 1) /\ Increasing(G, n - 1)
  BY <1>1 DEF Matching, Increasing
<1>5. \A k \in 1..(n - 1) : l[F[k]] = r[G[k]]
  BY <1>1 DEF Matching
<1> HIDE DEF F, G
<1>6. Matching(l, r, F, G, n - 1, a + 1, m, b + 1, o)
  BY <1>3, <1>4, <1>5 DEF Matching
<1> QED BY <1>6 DEF F, G

\* No matching of what is below and right of a cell is larger than its entry.
Bounds(T, l, r, m, o, a, b) ==
  \A n \in Nat : \A f, g : Matching(l, r, f, g, n, a, m, b, o) => n <= T[<<a, b>>]

LEMMA EntryBounds ==
  ASSUME NEW l, NEW r, NEW s \in Nat, NEW m \in Nat, NEW o \in Nat,
         NEW T \in [Cells(s, m, o) -> Nat], NEW a \in s..m, NEW b \in s..o,
         T[<<a, b>>] = Entry(T, l, r, m, o, a, b),
         a < m => Bounds(T, l, r, m, o, a + 1, b),
         b < o => Bounds(T, l, r, m, o, a, b + 1),
         a < m /\ b < o => Bounds(T, l, r, m, o, a + 1, b + 1)
  PROVE  Bounds(T, l, r, m, o, a, b)
<1> SUFFICES ASSUME NEW n \in Nat, NEW f, NEW g, Matching(l, r, f, g, n, a, m, b, o)
             PROVE  n <= T[<<a, b>>]
  BY DEF Bounds
<1>1. T[<<a, b>>] \in Nat BY DEF Cells
<1>2. CASE n = 0 BY <1>1, <1>2
<1>3. CASE n # 0
  <2>0. a \in Nat /\ b \in Nat /\ 1 \in 1..n /\ n \in Nat \ {0} BY <1>3
  <2>1. /\ f[1] \in (a + 1)..m /\ g[1] \in (b + 1)..o /\ l[f[1]] = r[g[1]]
    BY <2>0 DEF Matching
  <2>2. a < m /\ b < o BY <2>0, <2>1
  <2>3. a + 1 \in s..m /\ b + 1 \in s..o BY <2>0, <2>2
  <2>4. /\ T[<<a + 1, b>>] \in Nat /\ T[<<a, b + 1>>] \in Nat
        /\ T[<<a + 1, b + 1>>] \in Nat
    BY <2>3 DEF Cells
  <2>5. CASE l[a + 1] = r[b + 1]
    <3>1. T[<<a, b>>] = T[<<a + 1, b + 1>>] + 1 BY <2>2, <2>5 DEF Entry
    <3>2. \E F, G : Matching(l, r, F, G, n - 1, a + 1, m, b + 1, o)
      BY <2>0, MatchingTail
    <3>3. n - 1 \in Nat BY <2>0
    <3>4. n - 1 <= T[<<a + 1, b + 1>>] BY <2>2, <3>2, <3>3 DEF Bounds
    <3> QED BY <3>1, <3>4, <2>4
  <2>6. CASE l[a + 1] # r[b + 1]
    <3>1. T[<<a, b>>] >= T[<<a + 1, b>>] /\ T[<<a, b>>] >= T[<<a, b + 1>>]
      BY <2>2, <2>4, <2>6 DEF Entry
    <3>2. ASSUME NEW k \in 1..n
          PROVE  f[k] >= f[1] /\ g[k] >= g[1] /\ f[k] \in (a + 1)..m /\ g[k] \in (b + 1)..o
      <4>1. f[k] \in (a + 1)..m /\ g[k] \in (b + 1)..o BY DEF Matching
      <4>2. CASE k = 1 BY <4>1, <4>2
      <4>3. CASE k # 1
        <5>1. 1 < k BY <4>3
        <5>2. f[1] < f[k] /\ g[1] < g[k] BY <2>0, <5>1 DEF Matching, Increasing
        <5> QED BY <5>2, <4>1, <2>1
      <4> QED BY <4>2, <4>3
    <3>3. CASE f[1] # a + 1
      <4>1. ASSUME NEW k \in 1..n PROVE f[k] \in ((a + 1) + 1)..m
        BY <3>2, <3>3, <2>1, <2>0
      <4>2. Matching(l, r, f, g, n, a + 1, m, b, o) BY <4>1 DEF Matching
      <4>3. n <= T[<<a + 1, b>>] BY <4>2, <2>2 DEF Bounds
      <4> QED BY <4>3, <3>1, <2>4, <1>1
    <3>4. CASE g[1] # b + 1
      <4>1. ASSUME NEW k \in 1..n PROVE g[k] \in ((b + 1) + 1)..o
        BY <3>2, <3>4, <2>1, <2>0
      <4>2. Matching(l, r, f, g, n, a, m, b + 1, o) BY <4>1 DEF Matching
      <4>3. n <= T[<<a, b + 1>>] BY <4>2, <2>2 DEF Bounds
      <4> QED BY <4>3, <3>1, <2>4, <1>1
    <3> QED BY <3>3, <3>4, <2>1, <2>6
  <2> QED BY <2>5, <2>6
<1> QED BY <1>2, <1>3

LEMMA TableBounds ==
  ASSUME NEW l, NEW r, NEW s \in Nat, NEW m \in Nat, NEW o \in Nat,
         NEW a \in s..m, NEW b \in s..o
  PROVE  Bounds(TableOf(l, r, s, m, o), l, r, m, o, a, b)
<1> DEFINE T == TableOf(l, r, s, m, o)
<1>0. TableIsFilled(T, l, r, s, m, o) BY TableIs
<1> HIDE DEF T
<1>1. /\ T \in [Cells(s, m, o) -> Nat]
      /\ \A c \in s..m, d \in s..o : T[<<c, d>>] = Entry(T, l, r, m, o, c, d)
  BY <1>0 DEF TableIsFilled
<1> DEFINE Bad == {k \in Nat : \E c \in s..m, d \in s..o :
                      k = (m - c) + (o - d) /\ ~Bounds(T, l, r, m, o, c, d)}
<1>2. ASSUME NEW k \in Bad, \A x \in Bad : k <= x PROVE FALSE
  <2>1. PICK c \in s..m, d \in s..o :
          k = (m - c) + (o - d) /\ ~Bounds(T, l, r, m, o, c, d)
    OBVIOUS
  <2>2. ASSUME NEW e \in s..m, NEW f \in s..o, (m - e) + (o - f) < k
        PROVE  Bounds(T, l, r, m, o, e, f)
    <3> DEFINE x == (m - e) + (o - f)
    <3>1. x \in Nat /\ k \in Nat /\ x < k BY <2>1, <2>2
    <3>2. x \notin Bad
      <4> HIDE DEF Bad, x
      <4> QED BY <3>1, <1>2
    <3>3. \A y \in s..m, z \in s..o :
            x = (m - y) + (o - z) => Bounds(T, l, r, m, o, y, z)
      <4> HIDE DEF x
      <4> QED BY <3>1, <3>2
    <3> QED BY <3>3
  <2>3. c < m => Bounds(T, l, r, m, o, c + 1, d) BY <2>1, <2>2
  <2>4. d < o => Bounds(T, l, r, m, o, c, d + 1) BY <2>1, <2>2
  <2>5. c < m /\ d < o => Bounds(T, l, r, m, o, c + 1, d + 1) BY <2>1, <2>2
  <2>6. T[<<c, d>>] = Entry(T, l, r, m, o, c, d) BY <1>1
  <2>7. Bounds(T, l, r, m, o, c, d) BY <1>1, <2>3, <2>4, <2>5, <2>6, EntryBounds
  <2> QED BY <2>1, <2>7
<1>3. Bad = {}
  <2>1. Bad \subseteq Nat OBVIOUS
  <2> HIDE DEF Bad
  <2> QED BY <2>1, <1>2, LeastOfSet
<1>4. (m - a) + (o - b) \in Nat OBVIOUS
<1>5. Bounds(T, l, r, m, o, a, b) BY <1>3, <1>4
<1> QED BY <1>5 DEF T

(***************************************************************************)
(* What the walk keeps and what is still in common make up the first entry *)
(* of the table.                                                           *)
(***************************************************************************)
Grid == TableOf(left, right, start, leftEnd, rightEnd)

Kept == Len(Chosen(segs, {"equal"}))

Counted ==
  ~Coarse =>
    /\ loop = "walk" => Kept + Grid[<<i, j>>] = start + Grid[<<start, start>>]
    /\ loop = "done" => Kept = start + Grid[<<start, start>>] + (Len(left) - leftEnd)

\* The entries of the table of a state, and the number of words kept in it.
GridFilled ==
  /\ TableIsFilled(Grid, left, right, start, leftEnd, rightEnd)
  /\ \A a \in start..leftEnd, b \in start..rightEnd : Grid[<<a, b>>] \in Nat

LEMMA GridIsFilled == ASSUME DiffTyped PROVE GridFilled
<1>1. TableIsFilled(Grid, left, right, start, leftEnd, rightEnd)
  BY TableIs DEF Grid, DiffTyped
<1>2. \A a \in start..leftEnd, b \in start..rightEnd : Grid[<<a, b>>] \in Nat
  <2>1. Grid \in [Cells(start, leftEnd, rightEnd) -> Nat] BY <1>1 DEF TableIsFilled
  <2> HIDE DEF Grid
  <2> QED BY <2>1 DEF Cells
<1> QED BY <1>1, <1>2 DEF GridFilled

LEMMA EntryOfGrid ==
  ASSUME GridFilled, NEW a \in start..leftEnd, NEW b \in start..rightEnd
  PROVE  Grid[<<a, b>>] = Entry(Grid, left, right, leftEnd, rightEnd, a, b)
BY DEF GridFilled, TableIsFilled

LEMMA GridStays ==
  ASSUME UNCHANGED <<left, right, start, leftEnd, rightEnd>>
  PROVE  Grid' = Grid /\ Coarse' = Coarse
BY Zenon DEF Grid, Coarse

LEMMA LengthOfSum ==
  ASSUME NEW v \in Seq(Token), NEW w \in Seq(Token)
  PROVE  Len(v \o w) = Len(v) + Len(w)
OBVIOUS

LEMMA BetweenCounts == ASSUME DiffInv, Between PROVE Counted'
<1> DEFINE lead == Slice(left, 0, start)
<1>1. /\ DiffTyped /\ SetAside /\ segs = <<>> /\ loop' = "walk"
      /\ UNCHANGED <<left, right, start, leftEnd, rightEnd>>
      /\ ~Coarse => segs' = pushSeg(segs, "equal", lead) /\ i' = start /\ j' = start
  BY DEF DiffInv, Between, Position
<1>2. SUFFICES ASSUME ~Coarse PROVE Kept' + Grid'[<<i', j'>>] = start + Grid[<<start, start>>]
  BY <1>1, GridStays DEF Counted
<1>3. lead \in Seq(Token) /\ Len(lead) = start
  <2>1. /\ left \in Seq(Token) /\ 0 \in Nat /\ start \in Nat /\ 0 <= start /\ start <= Len(left)
        /\ start - 0 = start
    BY <1>1 DEF DiffTyped, SetAside
  <2> QED BY <2>1, SliceType
<1> HIDE DEF lead
<1>4. segs \in Seq(Segment) /\ Alternating(segs) /\ Chosen(segs, {"equal"}) = <<>>
  BY <1>1, ChosenEmpty DEF Alternating
<1>5. Chosen(segs', {"equal"}) = <<>> \o lead
  BY <1>1, <1>2, <1>3, <1>4, PushSegSides
<1>6. Kept' = start BY <1>3, <1>5 DEF Kept
<1>7. Grid' = Grid /\ i' = start /\ j' = start BY <1>1, <1>2, GridStays
<1> QED BY <1>6, <1>7

LEMMA KeepTokenCounts == ASSUME DiffInv, Counted, KeepToken PROVE Counted'
<1>1. /\ DiffTyped /\ SetAside /\ Alternating(segs) /\ loop = "walk" /\ loop' = "walk"
      /\ start <= i /\ i < leftEnd /\ start <= j /\ j < rightEnd
      /\ left[i + 1] = right[j + 1] /\ i' = i + 1 /\ j' = j + 1
      /\ segs' = pushSeg(segs, "equal", <<left[i + 1]>>)
      /\ UNCHANGED <<left, right, start, leftEnd, rightEnd>>
  BY DEF DiffInv, KeepToken, Both, Position, Written
<1>2. SUFFICES ASSUME ~Coarse PROVE Kept' + Grid'[<<i', j'>>] = start + Grid[<<start, start>>]
  BY <1>1, GridStays DEF Counted
<1>3. <<left[i + 1]>> \in Seq(Token) /\ Len(<<left[i + 1]>>) = 1
  BY <1>1, SliceNext DEF DiffTyped, SetAside
<1>4. /\ Chosen(segs', {"equal"}) = Chosen(segs, {"equal"}) \o <<left[i + 1]>>
      /\ Chosen(segs, {"equal"}) \in Seq(Token)
  BY <1>1, <1>3, PushSegSides DEF DiffTyped
<1>5. Kept' = Kept + 1 /\ Kept \in Nat BY <1>3, <1>4, LengthOfSum DEF Kept
<1>6. GridFilled BY <1>1, GridIsFilled
<1>7. /\ i \in start..leftEnd /\ j \in start..rightEnd
      /\ i + 1 \in start..leftEnd /\ j + 1 \in start..rightEnd
      /\ i # leftEnd /\ j # rightEnd
  BY <1>1 DEF DiffTyped
<1>8. Grid[<<i, j>>] = Grid[<<i + 1, j + 1>>] + 1
  BY <1>1, <1>6, <1>7, EntryOfGrid DEF Entry
<1>9. Grid[<<i + 1, j + 1>>] \in Nat BY <1>6, <1>7 DEF GridFilled
<1>10. Kept + Grid[<<i, j>>] = start + Grid[<<start, start>>] BY <1>1, <1>2 DEF Counted
<1>11. Grid' = Grid BY <1>1, GridStays
<1>12. Grid'[<<i', j'>>] = Grid[<<i + 1, j + 1>>] BY <1>1, <1>11
<1> QED BY <1>5, <1>8, <1>9, <1>10, <1>12

LEMMA RemoveTokenCounts == ASSUME DiffInv, Counted, RemoveToken PROVE Counted'
<1>1. /\ DiffTyped /\ SetAside /\ Alternating(segs) /\ loop = "walk" /\ loop' = "walk"
      /\ start <= i /\ i < leftEnd /\ start <= j /\ j <= rightEnd
      /\ i' = i + 1 /\ j' = j
      /\ segs' = pushSeg(segs, "remove", <<left[i + 1]>>)
      /\ UNCHANGED <<left, right, start, leftEnd, rightEnd>>
      /\ j < rightEnd => /\ left[i + 1] # right[j + 1]
                         /\ Grid[<<i + 1, j>>] >= Grid[<<i, j + 1>>]
  BY TableIsTableOf DEF DiffInv, RemoveToken, Both, Position, Written, Grid
<1>2. SUFFICES ASSUME ~Coarse PROVE Kept' + Grid'[<<i', j'>>] = start + Grid[<<start, start>>]
  BY <1>1, GridStays DEF Counted
<1>3. <<left[i + 1]>> \in Seq(Token)
  BY <1>1, SliceNext DEF DiffTyped, SetAside
<1>4. Chosen(segs', {"equal"}) = Chosen(segs, {"equal"})
  BY <1>1, <1>3, PushSegSides DEF DiffTyped
<1>5. Kept' = Kept BY <1>4 DEF Kept
<1>6. GridFilled BY <1>1, GridIsFilled
<1>7. /\ i \in start..leftEnd /\ j \in start..rightEnd /\ i + 1 \in start..leftEnd
      /\ i # leftEnd
  BY <1>1 DEF DiffTyped
<1>8. Grid[<<i, j>>] = Grid[<<i + 1, j>>]
  <2>1. CASE j < rightEnd
    <3>1. j # rightEnd BY <2>1, <1>1 DEF DiffTyped
    <3> QED BY <3>1, <2>1, <1>1, <1>6, <1>7, EntryOfGrid DEF Entry
  <2>2. CASE ~(j < rightEnd)
    <3>1. j = rightEnd BY <2>2, <1>1 DEF DiffTyped
    <3>2. Grid[<<i, j>>] = 0 BY <3>1, <1>6, <1>7, EntryOfGrid DEF Entry
    <3>3. Grid[<<i + 1, j>>] = 0 BY <3>1, <1>6, <1>7, EntryOfGrid DEF Entry
    <3> QED BY <3>2, <3>3
  <2> QED BY <2>1, <2>2
<1>9. Kept + Grid[<<i, j>>] = start + Grid[<<start, start>>] BY <1>1, <1>2 DEF Counted
<1>10. Grid' = Grid BY <1>1, GridStays
<1>11. Grid'[<<i', j'>>] = Grid[<<i + 1, j>>] BY <1>1, <1>10
<1> QED BY <1>5, <1>8, <1>9, <1>11

LEMMA AddTokenCounts == ASSUME DiffInv, Counted, AddToken PROVE Counted'
<1>1. /\ DiffTyped /\ SetAside /\ Alternating(segs) /\ loop = "walk" /\ loop' = "walk"
      /\ start <= i /\ i <= leftEnd /\ start <= j /\ j < rightEnd
      /\ i' = i /\ j' = j + 1
      /\ segs' = pushSeg(segs, "add", <<right[j + 1]>>)
      /\ UNCHANGED <<left, right, start, leftEnd, rightEnd>>
      /\ i < leftEnd => /\ left[i + 1] # right[j + 1]
                        /\ Grid[<<i + 1, j>>] < Grid[<<i, j + 1>>]
  BY TableIsTableOf DEF DiffInv, AddToken, Both, Position, Written, Grid
<1>2. SUFFICES ASSUME ~Coarse PROVE Kept' + Grid'[<<i', j'>>] = start + Grid[<<start, start>>]
  BY <1>1, GridStays DEF Counted
<1>3. <<right[j + 1]>> \in Seq(Token)
  BY <1>1, SliceNext DEF DiffTyped, SetAside
<1>4. Chosen(segs', {"equal"}) = Chosen(segs, {"equal"})
  BY <1>1, <1>3, PushSegSides DEF DiffTyped
<1>5. Kept' = Kept BY <1>4 DEF Kept
<1>6. GridFilled BY <1>1, GridIsFilled
<1>7. /\ i \in start..leftEnd /\ j \in start..rightEnd /\ j + 1 \in start..rightEnd
      /\ j # rightEnd
  BY <1>1 DEF DiffTyped
<1>8. Grid[<<i, j>>] = Grid[<<i, j + 1>>]
  <2>1. CASE i < leftEnd
    <3>1. i # leftEnd BY <2>1, <1>1 DEF DiffTyped
    <3>a. i + 1 \in start..leftEnd BY <2>1, <1>1 DEF DiffTyped
    <3>2. Grid[<<i + 1, j>>] \in Nat /\ Grid[<<i, j + 1>>] \in Nat
      BY <3>a, <1>6, <1>7 DEF GridFilled
    <3>3. ~(Grid[<<i + 1, j>>] >= Grid[<<i, j + 1>>]) BY <2>1, <1>1, <3>2
    <3> QED BY <3>1, <3>3, <2>1, <1>1, <1>6, <1>7, EntryOfGrid DEF Entry
  <2>2. CASE ~(i < leftEnd)
    <3>1. i = leftEnd BY <2>2, <1>1 DEF DiffTyped
    <3>2. Grid[<<i, j>>] = 0 BY <3>1, <1>6, <1>7, EntryOfGrid DEF Entry
    <3>3. Grid[<<i, j + 1>>] = 0 BY <3>1, <1>6, <1>7, EntryOfGrid DEF Entry
    <3> QED BY <3>2, <3>3
  <2> QED BY <2>1, <2>2
<1>9. Kept + Grid[<<i, j>>] = start + Grid[<<start, start>>] BY <1>1, <1>2 DEF Counted
<1>10. Grid' = Grid BY <1>1, GridStays
<1>11. Grid'[<<i', j'>>] = Grid[<<i, j + 1>>] BY <1>1, <1>10
<1> QED BY <1>5, <1>8, <1>9, <1>11

LEMMA FinishCounts == ASSUME DiffInv, Counted, Finish PROVE Counted'
<1> DEFINE rest == Slice(left, leftEnd, Len(left))
<1>1. /\ DiffTyped /\ SetAside /\ Alternating(segs) /\ loop = "walk" /\ loop' = "done"
      /\ i = leftEnd /\ j = rightEnd
      /\ segs' = pushSeg(segs, "equal", rest)
      /\ UNCHANGED <<left, right, start, leftEnd, rightEnd>>
  BY DEF DiffInv, Finish, Written
<1>2. SUFFICES ASSUME ~Coarse
               PROVE  Kept' = start + Grid[<<start, start>>] + (Len(left) - leftEnd)
  BY <1>1, GridStays DEF Counted
<1>3. rest \in Seq(Token) /\ Len(rest) = Len(left) - leftEnd
  <2> DEFINE m == Len(left)
  <2>1. /\ left \in Seq(Token) /\ leftEnd \in Nat /\ m \in Nat /\ leftEnd <= m /\ m <= Len(left)
    BY <1>1 DEF DiffTyped, SetAside
  <2> QED BY <2>1, SliceType
<1> HIDE DEF rest
<1>4. /\ Chosen(segs', {"equal"}) = Chosen(segs, {"equal"}) \o rest
      /\ Chosen(segs, {"equal"}) \in Seq(Token)
  BY <1>1, <1>3, PushSegSides DEF DiffTyped
<1>5. Kept' = Kept + (Len(left) - leftEnd) /\ Kept \in Nat
  BY <1>3, <1>4, LengthOfSum DEF Kept
<1>6. GridFilled BY <1>1, GridIsFilled
<1>7. i \in start..leftEnd /\ j \in start..rightEnd BY <1>1 DEF DiffTyped, SetAside
<1>8. Grid[<<i, j>>] = 0 BY <1>1, <1>6, <1>7, EntryOfGrid DEF Entry
<1>9. Kept + Grid[<<i, j>>] = start + Grid[<<start, start>>] BY <1>1, <1>2 DEF Counted
<1>10. Kept = start + Grid[<<start, start>>] BY <1>5, <1>8, <1>9
<1> QED BY <1>5, <1>10

LEMMA CountedStep == DiffInv /\ Counted /\ [DiffNext]_diffVars => Counted'
<1> SUFFICES ASSUME DiffInv, Counted, [DiffNext]_diffVars PROVE Counted' OBVIOUS
<1>1. CASE UNCHANGED diffVars
  BY <1>1, GridStays DEF diffVars, Counted, Kept
<1>2. CASE TrimStart \/ TrimEnd BY <1>2 DEF TrimStart, TrimEnd, Counted
<1>3. CASE Between BY <1>3, BetweenCounts
<1>4. CASE KeepToken BY <1>4, KeepTokenCounts
<1>5. CASE RemoveToken BY <1>5, RemoveTokenCounts
<1>6. CASE AddToken BY <1>6, AddTokenCounts
<1>7. CASE Finish BY <1>7, FinishCounts
<1> QED BY <1>1, <1>2, <1>3, <1>4, <1>5, <1>6, <1>7 DEF DiffNext

LEMMA CountedAlways == DiffSpec => []Counted
<1>1. DiffInit => Counted BY DEF DiffInit, Counted
<1> QED BY <1>1, CountedStep, DiffInvAlways, PTL DEF DiffSpec

(***************************************************************************)
(* The order-keeping choices of words of a text.                           *)
(***************************************************************************)
LEMMA IncreasingSteps ==
  ASSUME NEW n \in Nat, NEW m \in Nat, NEW f \in [1..n -> 1..m], Increasing(f, n),
         NEW k \in 1..n, NEW o \in k..n
  PROVE  f[k] + (o - k) <= f[o]
<1> DEFINE Bad == {p \in Nat : p \in k..n /\ ~(f[k] + (p - k) <= f[p])}
<1>1. ASSUME NEW p \in Bad, \A x \in Bad : p <= x PROVE FALSE
  <2>1. p \in 1..n /\ p \in k..n /\ ~(f[k] + (p - k) <= f[p]) /\ f[k] \in Nat /\ f[p] \in Nat
    OBVIOUS
  <2>2. p # k BY <2>1
  <2>3. p - 1 \in Nat /\ p - 1 \in k..n /\ p - 1 \in 1..n /\ p - 1 < p BY <2>1, <2>2
  <2>4. p - 1 \notin Bad
    <3> DEFINE q == p - 1
    <3>1. q \in Nat /\ q < p /\ p \in Nat BY <2>1, <2>3
    <3> HIDE DEF Bad, q
    <3>2. q \notin Bad BY <3>1, <1>1
    <3> QED BY <3>2 DEF q
  <2>5. f[k] + ((p - 1) - k) <= f[p - 1] BY <2>3, <2>4
  <2>6. f[p - 1] < f[p] BY <2>1, <2>3 DEF Increasing
  <2>7. f[p - 1] \in Nat BY <2>3
  <2> QED BY <2>1, <2>5, <2>6, <2>7
<1>2. Bad = {}
  <2>1. Bad \subseteq Nat OBVIOUS
  <2> HIDE DEF Bad
  <2> QED BY <2>1, <1>1, LeastOfSet
<1>3. o \in Nat /\ o \in k..n OBVIOUS
<1> QED BY <1>2, <1>3

\* What of a matching of two texts is left between s words at either beginning and u
\* words at either end.
LEMMA MatchingBetween ==
  ASSUME NEW l, NEW r, NEW f, NEW g, NEW n \in Nat, NEW m \in Nat, NEW o \in Nat,
         Matching(l, r, f, g, n, 0, m, 0, o),
         NEW s \in Nat, NEW u \in Nat, s + u < n
  PROVE  Matching(l, r, [k \in 1..(n - s - u) |-> f[k + s]], [k \in 1..(n - s - u) |-> g[k + s]],
                  n - s - u, s, m - u, s, o - u)
<1> DEFINE N == n - s - u
           F == [k \in 1..N |-> f[k + s]]
           G == [k \in 1..N |-> g[k + s]]
<1>1. /\ f \in [1..n -> 1..m] /\ g \in [1..n -> 1..o]
      /\ Increasing(f, n) /\ Increasing(g, n)
  BY DEF Matching
<1>2. ASSUME NEW k \in 1..N
      PROVE  k + s \in 1..n /\ F[k] = f[k + s] /\ G[k] = g[k + s]
  OBVIOUS
<1>3. ASSUME NEW h, NEW w \in Nat, h \in [1..n -> 1..w], Increasing(h, n), NEW k \in 1..N
      PROVE  h[k + s] \in (s + 1)..(w - u)
  <2> DEFINE q == k + s
  <2>1. q \in 1..n /\ 1 \in 1..n /\ n \in 1..n /\ q \in 1..n /\ n \in q..n OBVIOUS
  <2>2. h[1] \in 1..w /\ h[q] \in 1..w /\ h[n] \in 1..w BY <2>1, <1>3
  <2>3. q - 1 >= s /\ n - q >= u OBVIOUS
  <2> HIDE DEF q
  <2>4. h[1] + (q - 1) <= h[q] BY <2>1, <1>3, IncreasingSteps
  <2>5. h[q] + (n - q) <= h[n] BY <2>1, <1>3, IncreasingSteps
  <2>6. h[q] \in (s + 1)..(w - u) BY <2>1, <2>2, <2>3, <2>4, <2>5
  <2> QED BY <2>6 DEF q
<1>4. F \in [1..N -> (s + 1)..(m - u)] /\ G \in [1..N -> (s + 1)..(o - u)]
  BY <1>1, <1>2, <1>3
<1>5. Increasing(F, N) /\ Increasing(G, N)
  BY <1>1, <1>2 DEF Increasing
<1>6. \A k \in 1..N : l[F[k]] = r[G[k]]
  BY <1>2 DEF Matching
<1> HIDE DEF F, G
<1>7. Matching(l, r, F, G, N, s, m - u, s, o - u)
  BY <1>4, <1>5, <1>6 DEF Matching
<1> QED BY <1>7 DEF F, G

UpTo(chosen, k) == {m \in chosen : m <= k}

\* f names the places of a text that make up common, in their order.
Places(common, text, f) ==
  /\ f \in [1..Len(common) -> 1..Len(text)]
  /\ Increasing(f, Len(common))
  /\ \A k \in 1..Len(common) : common[k] = text[f[k]]

LEMMA UpToCounts ==
  ASSUME NEW m \in Nat, NEW chosen \in SUBSET (1..m)
  PROVE  /\ IsFiniteSet(chosen) /\ Cardinality(chosen) \in Nat
         /\ \A k \in Nat : /\ Cardinality(UpTo(chosen, k)) \in Nat
                           /\ IsFiniteSet(UpTo(chosen, k))
         /\ \A n \in 1..Cardinality(chosen) :
              \E k \in chosen : Cardinality(UpTo(chosen, k)) = n
<1>1. IsFiniteSet(chosen) /\ Cardinality(chosen) \in Nat
  <2>1. IsFiniteSet(1..m) BY FS_Interval
  <2> QED BY <2>1, FS_Subset, FS_CardinalityType
<1>2. ASSUME NEW k \in Nat
      PROVE  IsFiniteSet(UpTo(chosen, k)) /\ Cardinality(UpTo(chosen, k)) \in Nat
  <2>1. UpTo(chosen, k) \subseteq chosen BY DEF UpTo
  <2> QED BY <2>1, <1>1, FS_Subset, FS_CardinalityType
<1>3. ASSUME NEW n \in 1..Cardinality(chosen)
      PROVE  \E k \in chosen : Cardinality(UpTo(chosen, k)) = n
  <2>0. \A x \in chosen : x \in Nat /\ 1 <= x /\ x <= m OBVIOUS
  <2> DEFINE far == {k \in Nat : Cardinality(UpTo(chosen, k)) >= n}
  <2>1. m \in far
    <3>1. UpTo(chosen, m) = chosen BY <2>0 DEF UpTo
    <3> QED BY <3>1, <1>1
  <2>2. PICK p \in far : \A x \in far : p <= x
    <3>1. far \subseteq Nat OBVIOUS
    <3> HIDE DEF far
    <3> QED BY <3>1, <2>1, LeastOfSet
  <2>3. p \in Nat /\ Cardinality(UpTo(chosen, p)) >= n OBVIOUS
  <2>4. p # 0
    <3>1. ASSUME NEW x \in UpTo(chosen, 0) PROVE FALSE BY <2>0 DEF UpTo
    <3>1a. UpTo(chosen, 0) = {} BY <3>1
    <3>2. Cardinality(UpTo(chosen, 0)) = 0 BY <3>1a, FS_EmptySet
    <3> QED BY <3>2, <2>3
  <2> DEFINE q == p - 1
  <2>5. q \in Nat /\ q < p BY <2>3, <2>4
  <2>6. q \notin far
    <3> HIDE DEF far, q
    <3> QED BY <2>2, <2>3, <2>5
  <2>7. ~(Cardinality(UpTo(chosen, q)) >= n) BY <2>5, <2>6
  <2>8. UpTo(chosen, p) = IF p \in chosen THEN UpTo(chosen, q) \cup {p} ELSE UpTo(chosen, q)
    <3>1. ASSUME NEW x \in chosen PROVE x <= p <=> x <= q \/ x = p BY <2>0, <2>3
    <3> HIDE DEF q
    <3> QED BY <3>1, Zenon DEF UpTo
  <2>9. p \notin UpTo(chosen, q) BY <2>3, <2>5 DEF UpTo
  <2>10. IsFiniteSet(UpTo(chosen, q)) /\ Cardinality(UpTo(chosen, q)) \in Nat BY <2>5, <1>2
  <2> HIDE DEF q, far
  <2>11. p \in chosen BY <2>3, <2>7, <2>8
  <2>12. Cardinality(UpTo(chosen, p)) = Cardinality(UpTo(chosen, q)) + 1
    BY <2>8, <2>9, <2>10, <2>11, FS_AddElement
  <2>13. n \in Nat BY <1>1
  <2> QED BY <2>3, <2>7, <2>10, <2>11, <2>12, <2>13
<1> QED BY <1>1, <1>2, <1>3

LEMMA SubsequencePlaces ==
  ASSUME NEW text \in Seq(Token), NEW common \in Subsequences(text)
  PROVE  Len(common) \in Nat /\ \E f : Places(common, text, f)
<1>1. PICK chosen \in SUBSET DOMAIN text :
        common = [n \in 1..Cardinality(chosen) |->
                    text[CHOOSE k \in chosen : Cardinality({m \in chosen : m <= k}) = n]]
  BY DEF Subsequences
<1> DEFINE N == Cardinality(chosen)
           place(n) == CHOOSE k \in chosen : Cardinality({m \in chosen : m <= k}) = n
           f == [n \in 1..N |-> place(n)]
<1>2. Len(text) \in Nat /\ chosen \in SUBSET (1..Len(text)) OBVIOUS
<1>3. /\ N \in Nat
      /\ \A k \in Nat : Cardinality(UpTo(chosen, k)) \in Nat /\ IsFiniteSet(UpTo(chosen, k))
      /\ \A n \in 1..N : \E k \in chosen : Cardinality(UpTo(chosen, k)) = n
  BY <1>2, UpToCounts
<1>4. ASSUME NEW n \in 1..N
      PROVE  place(n) \in chosen /\ Cardinality(UpTo(chosen, place(n))) = n
  BY <1>3, Zenon DEF UpTo
<1>5. common = [n \in 1..N |-> text[place(n)]] BY <1>1, Zenon
<1> HIDE DEF place
<1>6. /\ f \in [1..N -> 1..Len(text)]
  <2>1. \A n \in 1..N : place(n) \in 1..Len(text) BY <1>2, <1>4
  <2> QED BY <2>1
<1>5a. common = [n \in 1..N |-> text[f[n]]] BY <1>5
<1>4a. ASSUME NEW n \in 1..N
      PROVE  f[n] \in chosen /\ Cardinality(UpTo(chosen, f[n])) = n
  BY <1>4
<1> HIDE DEF f
<1>7. common \in [1..N -> Token]
  <2>1. \A n \in 1..N : text[f[n]] \in Token BY <1>6, ElementOfSeq
  <2> QED BY <2>1, <1>5a
<1>8. Len(common) = N
  <2> HIDE DEF N
  <2>1. common \in Seq(Token) /\ DOMAIN common = 1..N BY <1>3, <1>7
  <2> QED BY <2>1, <1>3
<1>9. Increasing(f, N)
  <2>1. ASSUME NEW k \in 1..N, NEW o \in 1..N, k < o PROVE f[k] < f[o]
    <3>1. f[k] \in Nat /\ f[o] \in Nat BY <1>2, <1>4a
    <3>2. SUFFICES ASSUME f[o] <= f[k] PROVE FALSE BY <3>1
    <3>3. UpTo(chosen, f[o]) \subseteq UpTo(chosen, f[k])
      BY <3>1, <3>2, <1>2 DEF UpTo
    <3>4. Cardinality(UpTo(chosen, f[o])) <= Cardinality(UpTo(chosen, f[k]))
      BY <3>1, <3>3, <1>3, FS_Subset
    <3> QED BY <3>4, <2>1, <1>3, <1>4a
  <2> QED BY <2>1 DEF Increasing
<1>10. \A k \in 1..N : common[k] = text[f[k]] BY <1>5a
<1>11. Places(common, text, f) BY <1>6, <1>8, <1>9, <1>10 DEF Places
<1> QED BY <1>3, <1>8, <1>11

LEMMA UnchangedIsKept == Unchanged = Kept
<1>1. ASSUME NEW n \in DOMAIN segs
      PROVE  (IF segs[n].type = "equal" THEN segs[n].text ELSE <<>>)
               = (IF segs[n].type \in {"equal"} THEN segs[n].text ELSE <<>>)
  OBVIOUS
<1>2. [n \in DOMAIN segs |-> IF segs[n].type = "equal" THEN segs[n].text ELSE <<>>]
        = [n \in DOMAIN segs |-> IF segs[n].type \in {"equal"} THEN segs[n].text ELSE <<>>]
  BY <1>1
<1> QED BY <1>2, Zenon DEF Unchanged, Kept, Chosen, Parts

\* diffText shows as many words unchanged as any order-keeping choice of words that both
\* texts have, in wordings of any length, unless their table is too large to be filled.
THEOREM ComparisonIsMinimal == DiffSpec => []DiffIsMinimal
<1>1. ASSUME DiffInv, Counted PROVE DiffIsMinimal
  <2>1. SUFFICES ASSUME loop = "done", ~Coarse,
                        NEW common \in Subsequences(left) \cap Subsequences(right)
                 PROVE  Len(common) <= Kept
    BY UnchangedIsKept DEF DiffIsMinimal
  <2> DEFINE n == Len(common)
             u == Len(left) - leftEnd
             N == n - start - u
  <2>2. /\ DiffTyped /\ SetAside BY <1>1 DEF DiffInv
  <2>3. left \in Seq(Token) /\ right \in Seq(Token) BY <2>2 DEF DiffTyped
  <2>4. PICK f : Places(common, left, f) BY <2>3, SubsequencePlaces
  <2>5. PICK g : Places(common, right, g) BY <2>3, SubsequencePlaces
  <2>6. n \in Nat BY <2>3, SubsequencePlaces
  <2>7. /\ u \in Nat /\ start \in Nat /\ leftEnd \in Nat /\ rightEnd \in Nat
        /\ Len(left) \in Nat /\ Len(right) \in Nat
        /\ Len(left) - u = leftEnd /\ Len(right) - u = rightEnd
        /\ start <= leftEnd /\ start <= rightEnd
    BY <2>2, <2>3 DEF DiffTyped, SetAside
  <2>8. Kept = start + Grid[<<start, start>>] + u BY <1>1, <2>1 DEF Counted
  <2>9. start \in start..leftEnd /\ start \in start..rightEnd BY <2>7
  <2>10. Grid[<<start, start>>] \in Nat BY <2>2, <2>9, GridIsFilled DEF GridFilled
  <2>11. Matching(left, right, f, g, n, 0, Len(left), 0, Len(right))
    BY <2>4, <2>5 DEF Places, Matching
  <2>12. CASE n <= start + u BY <2>12, <2>6, <2>7, <2>8, <2>10
  <2>13. CASE ~(n <= start + u)
    <3>1. start + u < n BY <2>13, <2>6, <2>7
    <3> HIDE DEF n, u
    <3>2. \E F, G : Matching(left, right, F, G, N, start, Len(left) - u, start, Len(right) - u)
      BY <3>1, <2>6, <2>7, <2>11, MatchingBetween
    <3>3. N \in Nat BY <3>1, <2>6, <2>7
    <3>4. Bounds(Grid, left, right, leftEnd, rightEnd, start, start)
      BY <2>7, <2>9, TableBounds DEF Grid
    <3> HIDE DEF N
    <3>5. N <= Grid[<<start, start>>] BY <3>2, <3>3, <3>4, <2>7 DEF Bounds
    <3> QED BY <3>5, <2>6, <2>7, <2>8, <2>10 DEF N, n
  <2> QED BY <2>12, <2>13
<1> QED BY <1>1, DiffInvAlways, CountedAlways, PTL
=============================================================================
