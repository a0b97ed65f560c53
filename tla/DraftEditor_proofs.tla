-------------------------- MODULE DraftEditor_proofs --------------------------
(***************************************************************************)
(* Proofs about DraftEditor for every draft, any number of pages, commands,*)
(* saves and reads.                                                        *)
(*                                                                         *)
(* A page and the service compute the same tree twice: the page applies    *)
(* every operation to its canvas, on which most nodes are stubs, and the   *)
(* service replays the list from the stored tree. What relates the two is  *)
(* Faith: if the service takes the list, the canvas Matches its replay in  *)
(* every loaded node, and every other node is the stored one with the      *)
(* remappings of the list made up for. Faith is kept by an operation that  *)
(* touches loaded units only (FaithAppended), by one that replaces its     *)
(* predecessor (FaithReplaced) and by a node that arrives (FaithHydrated). *)
(* EditInv states it of every state a page can be in and of every save in  *)
(* flight; GenerationInv says on which tree a save will be replayed.       *)
(*                                                                         *)
(* The recursive functions replay and hydrate are unfolded once, in        *)
(* ReplayMore and HydrateMore; every fact about their values for a whole   *)
(* list is proved with the least counterexample.                           *)
(***************************************************************************)
EXTENDS DraftEditor, SequenceTheorems, FiniteSetTheorems, TLAPS

(***************************************************************************)
(* Sequences over whatever they hold.                                      *)
(***************************************************************************)
IsSeq(s) == s \in Seq(ToSet(s))

LEMMA SeqOver ==
    ASSUME NEW S, NEW s \in Seq(S)
    PROVE  /\ IsSeq(s)
           /\ Len(s) \in Nat
           /\ DOMAIN s = 1..Len(s)
<1>1. Len(s) \in Nat /\ s \in [1..Len(s) -> S] /\ DOMAIN s = 1..Len(s)
  BY LenProperties
<1>2. s \in [1..Len(s) -> ToSet(s)]
  BY <1>1 DEF ToSet
<1>3. s \in Seq(ToSet(s))
  BY <1>1, <1>2, SeqDef
<1> QED  BY <1>1, <1>3 DEF IsSeq

LEMMA SeqParts ==
    ASSUME NEW s, IsSeq(s)
    PROVE  /\ s \in Seq(ToSet(s))
           /\ Len(s) \in Nat
           /\ DOMAIN s = 1..Len(s)
           /\ \A k \in DOMAIN s : s[k] \in ToSet(s)
<1>1. s \in Seq(ToSet(s))
  BY DEF IsSeq
<1>2. Len(s) \in Nat /\ DOMAIN s = 1..Len(s)
  BY <1>1, LenProperties
<1> QED  BY <1>1, <1>2 DEF ToSet

LEMMA EmptyIsSeq == IsSeq(<<>>) /\ DOMAIN <<>> = {}
<1>1. <<>> \in Seq({}) /\ Len(<<>>) = 0
  BY EmptySeq
<1>2. IsSeq(<<>>) /\ DOMAIN <<>> = 1..Len(<<>>)
  BY <1>1, SeqOver
<1> QED  BY <1>1, <1>2

LEMMA Appended ==
    ASSUME NEW s, IsSeq(s), NEW e
    PROVE  /\ IsSeq(Append(s, e))
           /\ \A k \in DOMAIN Append(s, e) : \/ Append(s, e)[k] = e
                                             \/ \E j \in DOMAIN s : Append(s, e)[k] = s[j]
<1> DEFINE S == ToSet(s) \cup {e}
<1>1. s \in Seq(S)
  <2>1. s \in Seq(ToSet(s))
    BY SeqParts
  <2> QED  BY <2>1, SeqMonotonic
<1>2. /\ Append(s, e) \in Seq(S)
      /\ Len(Append(s, e)) = Len(s) + 1
      /\ \A k \in 1..Len(s) : Append(s, e)[k] = s[k]
      /\ Append(s, e)[Len(s) + 1] = e
  BY <1>1, AppendProperties
<1>3. IsSeq(Append(s, e)) /\ DOMAIN Append(s, e) = 1..Len(Append(s, e))
  BY <1>2, SeqOver
<1>4. Len(s) \in Nat /\ DOMAIN s = 1..Len(s)
  BY SeqParts
<1> QED  BY <1>2, <1>3, <1>4

\* What the sequence t holds is in s.
Within(t, s) == \A k \in DOMAIN t : \E j \in DOMAIN s : t[k] = s[j]

\* A part of a sequence is one, and holds nothing else.
LEMMA Part ==
    ASSUME NEW s, IsSeq(s), NEW m \in Nat \ {0}, NEW n \in Nat, n <= Len(s)
    PROVE  /\ IsSeq(SubSeq(s, m, n))
           /\ Within(SubSeq(s, m, n), s)
<1>1. /\ Len(s) \in Nat
      /\ DOMAIN s = 1..Len(s)
      /\ \A k \in DOMAIN s : s[k] \in ToSet(s)
  BY SeqParts
<1>2. m \in Int /\ n \in Int /\ \A k \in m..n : k \in DOMAIN s
  BY <1>1
<1>3. /\ SubSeq(s, m, n) \in Seq(ToSet(s))
      /\ Len(SubSeq(s, m, n)) = IF m <= n THEN n - m + 1 ELSE 0
      /\ \A k \in 1..n - m + 1 : SubSeq(s, m, n)[k] = s[m + k - 1]
  BY <1>1, <1>2, SubSeqProperties
<1>4. IsSeq(SubSeq(s, m, n)) /\ DOMAIN SubSeq(s, m, n) = 1..Len(SubSeq(s, m, n))
  BY <1>3, SeqOver
<1>5. ASSUME NEW k \in DOMAIN SubSeq(s, m, n)
      PROVE  SubSeq(s, m, n)[k] = s[m + k - 1] /\ m + k - 1 \in DOMAIN s
  BY <1>1, <1>3, <1>4
<1> QED  BY <1>4, <1>5 DEF Within

LEMMA FrontAndLast ==
    ASSUME NEW s, IsSeq(s), s # <<>>
    PROVE  /\ IsSeq(Front(s))
           /\ Within(Front(s), s)
           /\ \E j \in DOMAIN s : Last(s) = s[j]
<1>1. Len(s) \in Nat /\ DOMAIN s = 1..Len(s) /\ s \in Seq(ToSet(s))
  BY SeqParts
<1>2. Len(s) \in Nat \ {0}
  BY <1>1, EmptySeq
<1>3. 1 \in Nat \ {0} /\ Len(s) - 1 \in Nat /\ Len(s) - 1 <= Len(s)
  BY <1>2
<1>4. /\ IsSeq(SubSeq(s, 1, Len(s) - 1))
      /\ Within(SubSeq(s, 1, Len(s) - 1), s)
  BY <1>3, Part
<1> QED  BY <1>1, <1>2, <1>4 DEF Front, Last

LEMMA LastOfIsPart ==
    ASSUME NEW s, IsSeq(s), NEW n \in Nat
    PROVE  /\ IsSeq(LastOf(s, n))
           /\ Within(LastOf(s, n), s)
<1>1. PICK end \in Nat : end = Len(s)
  BY SeqParts
<1>2. PICK m \in Nat \ {0} : m = IF end > n THEN end - n + 1 ELSE 1
  <2>1. CASE end > n
    <3>1. end - n + 1 \in Nat \ {0}
      BY <2>1
    <3> QED  BY <2>1, <3>1
  <2>2. CASE ~(end > n)
    BY <2>2
  <2> QED  BY <2>1, <2>2
<1>3. end <= Len(s)
  BY <1>1
<1>4. IsSeq(SubSeq(s, m, end)) /\ Within(SubSeq(s, m, end), s)
  BY <1>1, <1>2, <1>3, Part
<1>5. LastOf(s, n) = SubSeq(s, m, end)
  BY <1>1, <1>2 DEF LastOf
<1> QED  BY <1>4, <1>5
LEMMA SeqFrom ==
    ASSUME NEW n \in Nat, NEW s, s = [k \in 1..n |-> s[k]]
    PROVE  IsSeq(s) /\ Len(s) = n /\ DOMAIN s = 1..n
<1>1. DOMAIN s = 1..n
  OBVIOUS
<1>2. s \in [1..n -> ToSet(s)]
  BY <1>1 DEF ToSet
<1>3. s \in Seq(ToSet(s))
  BY <1>2, SeqDef
<1> QED  BY <1>1, <1>3, LenProperties DEF IsSeq

LEMMA SameSeq ==
    ASSUME NEW s, NEW t, IsSeq(s), IsSeq(t), Len(s) = Len(t), \A k \in 1..Len(s) : s[k] = t[k]
    PROVE  s = t
<1> DEFINE S == ToSet(s) \cup ToSet(t)
<1>1. s \in Seq(ToSet(s)) /\ t \in Seq(ToSet(t))
  BY DEF IsSeq
<1>2. s \in Seq(S) /\ t \in Seq(S)
  BY <1>1, SeqMonotonic
<1> HIDE DEF S
<1> QED  BY <1>2, SeqEqual

LEMMA EachIs == ASSUME NEW s, IsSeq(s) PROVE Each(s) = s
BY SubSeqFull DEF Each, IsSeq

\* A concatenation of sequences over whatever they hold.
IsJoin(w, s, t, m, n) ==
    /\ IsSeq(w)
    /\ Len(w) = m + n
    /\ \A k \in 1..m + n : w[k] = IF k <= m THEN s[k] ELSE t[k - m]

LEMMA Joined ==
    ASSUME NEW s, NEW t, IsSeq(s), IsSeq(t), NEW m, NEW n, Len(s) = m, Len(t) = n
    PROVE  IsJoin(s \o t, s, t, m, n)
<1> DEFINE S == ToSet(s) \cup ToSet(t)
<1>1. s \in Seq(ToSet(s)) /\ t \in Seq(ToSet(t))
  BY DEF IsSeq
<1>2. s \in Seq(S) /\ t \in Seq(S)
  BY <1>1, SeqMonotonic
<1> HIDE DEF S
<1>3. s \o t \in Seq(S)
  BY <1>2, ConcatProperties
<1> QED  BY <1>2, <1>3, ConcatProperties, SeqOver DEF IsJoin

IsCut(w, s, m, n) ==
    /\ IsSeq(w)
    /\ Len(w) = n - m + 1
    /\ \A k \in 1..n - m + 1 : w[k] = s[m + k - 1]

LEMMA Cut ==
    ASSUME NEW s, IsSeq(s), NEW m \in Nat \ {0}, NEW n \in Nat, n <= Len(s), m <= n + 1
    PROVE  IsCut(SubSeq(s, m, n), s, m, n)
<1>1. /\ Len(s) \in Nat
      /\ DOMAIN s = 1..Len(s)
      /\ \A k \in DOMAIN s : s[k] \in ToSet(s)
  BY SeqParts
<1>2. m \in Int /\ n \in Int /\ \A k \in m..n : k \in DOMAIN s
  BY <1>1
<1>3. /\ SubSeq(s, m, n) \in Seq(ToSet(s))
      /\ Len(SubSeq(s, m, n)) = IF m <= n THEN n - m + 1 ELSE 0
      /\ \A k \in 1..n - m + 1 : SubSeq(s, m, n)[k] = s[m + k - 1]
  BY <1>1, <1>2, SubSeqProperties
<1>4. (IF m <= n THEN n - m + 1 ELSE 0) = n - m + 1
  OBVIOUS
<1> QED  BY <1>3, <1>4, SeqOver DEF IsCut

LEMMA Upto ==
    ASSUME NEW s, IsSeq(s), NEW n \in Nat, n <= Len(s)
    PROVE  /\ IsSeq(SubSeq(s, 1, n))
           /\ Len(SubSeq(s, 1, n)) = n
           /\ \A k \in 1..n : SubSeq(s, 1, n)[k] = s[k]
<1>1. 1 <= n + 1 /\ 1 \in Nat \ {0}
  OBVIOUS
<1>2. IsCut(SubSeq(s, 1, n), s, 1, n)
  BY <1>1, Cut
<1> QED  BY <1>2 DEF IsCut

LEMMA Single == ASSUME NEW e PROVE IsSeq(<<e>>) /\ Len(<<e>>) = 1 /\ <<e>>[1] = e
<1>1. <<e>> \in Seq({e})
  OBVIOUS
<1> QED  BY <1>1, SeqOver

LEMMA InsertedAt ==
    ASSUME NEW s, IsSeq(s), NEW p \in 1..Len(s) + 1, NEW e
    PROVE  LET w == InsertAt(s, p, e)
           IN  /\ IsSeq(w) /\ Len(w) = Len(s) + 1 /\ DOMAIN w = 1..Len(s) + 1
               /\ \A k \in 1..Len(s) + 1 :
                    w[k] = IF k < p THEN s[k] ELSE IF k = p THEN e ELSE s[k - 1]
<1> DEFINE n == Len(s)
           A == SubSeq(s, 1, p - 1)
           B == SubSeq(s, p, n)
           C == A \o <<e>>
           w == InsertAt(s, p, e)
<1>1. n \in Nat /\ p \in Nat \ {0} /\ p - 1 \in Nat
  BY SeqParts
<1>2. /\ IsSeq(A) /\ Len(A) = p - 1 /\ \A k \in 1..p - 1 : A[k] = s[k]
  <2>1. p - 1 <= Len(s)
    BY <1>1
  <2> QED  BY <2>1, <1>1, Upto
<1>3. /\ IsSeq(B) /\ Len(B) = n - p + 1 /\ \A k \in 1..n - p + 1 : B[k] = s[p + k - 1]
  <2>1. IsCut(B, s, p, n)
    BY <1>1, Cut
  <2> QED  BY <2>1 DEF IsCut
<1>4. w = C \o B
  BY DEF InsertAt
<1> HIDE DEF A, B, w, n
<1>5. /\ IsSeq(C) /\ Len(C) = p /\ \A k \in 1..p : C[k] = IF k < p THEN s[k] ELSE e
  <2>1. IsSeq(<<e>>) /\ Len(<<e>>) = 1 /\ <<e>>[1] = e
    BY Single
  <2>0. IsJoin(C, A, <<e>>, p - 1, 1)
    BY <1>2, <2>1, Joined
  <2>2. /\ IsSeq(C) /\ Len(C) = p - 1 + 1
        /\ \A k \in 1..p - 1 + 1 : C[k] = IF k <= p - 1 THEN A[k] ELSE <<e>>[k - (p - 1)]
    BY <2>0 DEF IsJoin
  <2>3. p - 1 + 1 = p /\ \A k \in 1..p : k # p => k \in 1..p - 1
    BY <1>1
  <2>4. p - (p - 1) = 1 /\ ~(p <= p - 1) /\ p \in 1..p
    BY <1>1
  <2>5. C[p] = e
    BY <2>1, <2>2, <2>3, <2>4
  <2>6. ASSUME NEW k \in 1..p, k # p PROVE C[k] = s[k] /\ k < p
    BY <2>2, <2>3, <2>6, <1>2
  <2>7. IsSeq(C) /\ Len(C) = p
    BY <2>2, <2>3
  <2> HIDE DEF C
  <2>8. ASSUME NEW k \in 1..p PROVE C[k] = IF k < p THEN s[k] ELSE e
    <3>1. CASE k = p
      <4>1. ~(p < p)
        BY <1>1
      <4> QED  BY <2>5, <3>1, <4>1
    <3>2. CASE k # p
      BY <2>6, <3>2
    <3> QED  BY <3>1, <3>2
  <2> QED  BY <2>7, <2>8
<1> HIDE DEF C
<1>6. /\ IsSeq(w) /\ Len(w) = p + (n - p + 1)
      /\ \A k \in 1..p + (n - p + 1) : w[k] = IF k <= p THEN C[k] ELSE B[k - p]
  <2>1. IsJoin(w, C, B, p, n - p + 1)
    BY <1>3, <1>4, <1>5, Joined
  <2> QED  BY <2>1 DEF IsJoin
<1>7. p + (n - p + 1) = n + 1
  BY <1>1
<1>8. ASSUME NEW k \in 1..n + 1
      PROVE  w[k] = IF k < p THEN s[k] ELSE IF k = p THEN e ELSE s[k - 1]
  <2>1. CASE k <= p
    BY <2>1, <1>5, <1>6, <1>7, <1>1
  <2>2. CASE ~(k <= p)
    <3>1. k - p \in 1..n - p + 1 /\ p + (k - p) - 1 = k - 1
      BY <2>2, <1>1
    <3>2. w[k] = B[k - p]
      BY <2>2, <1>6, <1>7
    <3>3. B[k - p] = s[p + (k - p) - 1]
      BY <3>1, <1>3
    <3>4. ~(k < p) /\ k # p
      BY <2>2, <1>1
    <3> QED  BY <3>1, <3>2, <3>3, <3>4
  <2> QED  BY <2>1, <2>2
<1>9. IsSeq(w) /\ Len(w) = n + 1
  BY <1>6, <1>7
<1>10. DOMAIN w = 1..n + 1
  BY <1>9, SeqParts
<1> QED  BY <1>8, <1>9, <1>10 DEF w, n

LEMMA RemovedAt ==
    ASSUME NEW s, IsSeq(s), NEW p \in 1..Len(s)
    PROVE  LET w == RemoveAt(s, p)
           IN  /\ IsSeq(w) /\ Len(w) = Len(s) - 1 /\ DOMAIN w = 1..Len(s) - 1
               /\ \A k \in 1..Len(s) - 1 : w[k] = IF k < p THEN s[k] ELSE s[k + 1]
<1> DEFINE n == Len(s)
           A == SubSeq(s, 1, p - 1)
           B == SubSeq(s, p + 1, n)
           w == RemoveAt(s, p)
<1>1. n \in Nat /\ p \in Nat \ {0} /\ p - 1 \in Nat
  BY SeqParts
<1>2. /\ IsSeq(A) /\ Len(A) = p - 1 /\ \A k \in 1..p - 1 : A[k] = s[k]
  <2>1. p - 1 <= Len(s)
    BY <1>1
  <2> QED  BY <2>1, <1>1, Upto
<1>3. /\ IsSeq(B) /\ Len(B) = n - p /\ \A k \in 1..n - p : B[k] = s[p + k]
  <2>1. p + 1 \in Nat \ {0} /\ p + 1 <= n + 1 /\ n <= Len(s)
    BY <1>1
  <2>2. IsCut(B, s, p + 1, n)
    BY <2>1, <1>1, Cut
  <2>3. IsSeq(B) /\ Len(B) = n - p
    BY <2>2, <1>1 DEF IsCut
  <2>4. ASSUME NEW k \in 1..n - p PROVE B[k] = s[p + k]
    <3>1. k \in 1..n - (p + 1) + 1 /\ (p + 1) + k - 1 = p + k
      BY <1>1
    <3> QED  BY <2>2, <3>1 DEF IsCut
  <2> QED  BY <2>3, <2>4
<1>4. w = A \o B
  BY DEF RemoveAt
<1> HIDE DEF A, B, w, n
<1>5. /\ IsSeq(w) /\ Len(w) = p - 1 + (n - p)
      /\ \A k \in 1..p - 1 + (n - p) : w[k] = IF k <= p - 1 THEN A[k] ELSE B[k - (p - 1)]
  <2>1. IsJoin(w, A, B, p - 1, n - p)
    BY <1>2, <1>3, <1>4, Joined
  <2> QED  BY <2>1 DEF IsJoin
<1>6. p - 1 + (n - p) = n - 1
  BY <1>1
<1>7. ASSUME NEW k \in 1..n - 1
      PROVE  w[k] = IF k < p THEN s[k] ELSE s[k + 1]
  <2>1. CASE k < p
    <3>1. k <= p - 1 /\ k \in 1..p - 1
      BY <2>1, <1>1
    <3> QED  BY <2>1, <3>1, <1>2, <1>5, <1>6
  <2>2. CASE ~(k < p)
    <3>1. ~(k <= p - 1) /\ k - (p - 1) \in 1..n - p /\ p + (k - (p - 1)) = k + 1
      BY <2>2, <1>1
    <3> QED  BY <2>2, <3>1, <1>3, <1>5, <1>6
  <2> QED  BY <2>1, <2>2
<1>8. IsSeq(w) /\ Len(w) = n - 1
  BY <1>5, <1>6
<1>9. DOMAIN w = 1..n - 1
  BY <1>8, SeqParts
<1> QED  BY <1>7, <1>8, <1>9 DEF w, n

LEMMA ReplacedAt ==
    ASSUME NEW s, IsSeq(s), NEW p, NEW e
    PROVE  LET w == ReplaceAt(s, p, e)
           IN  /\ IsSeq(w) /\ Len(w) = Len(s) /\ DOMAIN w = 1..Len(s)
               /\ \A k \in 1..Len(s) : w[k] = IF k = p THEN e ELSE s[k]
<1> DEFINE w == ReplaceAt(s, p, e)
<1>1. Len(s) \in Nat /\ DOMAIN s = 1..Len(s)
  BY SeqParts
<1>2. /\ DOMAIN w = 1..Len(s)
      /\ \A k \in 1..Len(s) : w[k] = IF k = p THEN e ELSE s[k]
      /\ w = [k \in 1..Len(s) |-> w[k]]
  BY <1>1 DEF ReplaceAt
<1> HIDE DEF w
<1>3. IsSeq(w) /\ Len(w) = Len(s)
  BY <1>1, <1>2, SeqFrom
<1> QED  BY <1>2, <1>3 DEF w

\* A list that is not empty is its front with its last element appended.
LEMMA FrontThenLast ==
    ASSUME NEW s, IsSeq(s), s # <<>>
    PROVE  /\ IsSeq(Front(s)) /\ Len(Front(s)) = Len(s) - 1
           /\ Len(s) \in Nat \ {0} /\ Last(s) = s[Len(s)]
           /\ \A k \in 1..Len(s) - 1 : Front(s)[k] = s[k]
           /\ s = Append(Front(s), Last(s))
<1>1. Len(s) \in Nat /\ DOMAIN s = 1..Len(s) /\ s \in Seq(ToSet(s))
  BY SeqParts
<1>2. Len(s) \in Nat \ {0}
  BY <1>1, EmptySeq
<1> DEFINE n == Len(s)
           A == SubSeq(s, 1, n - 1)
<1>3. /\ IsSeq(A) /\ Len(A) = n - 1 /\ \A k \in 1..n - 1 : A[k] = s[k]
  <2>1. n - 1 \in Nat /\ n - 1 <= Len(s)
    BY <1>2
  <2> QED  BY <2>1, Upto
<1>4. A = Front(s) /\ s[n] = Last(s)
  BY DEF Front, Last
<1>5. s[n] \in ToSet(s) /\ A \in Seq(ToSet(s))
  <2>1. \A k \in 1..n : s[k] \in ToSet(s)
    BY <1>1 DEF ToSet
  <2>2. A \in Seq(ToSet(s))
    BY <2>1, <1>2, SubSeqProperties
  <2> QED  BY <2>1, <2>2, <1>2
<1> HIDE DEF A
<1>6. s = Append(A, s[n])
  <2>1. /\ Append(A, s[n]) \in Seq(ToSet(s)) /\ Len(Append(A, s[n])) = n - 1 + 1
        /\ \A k \in 1..n - 1 : Append(A, s[n])[k] = s[k]
        /\ Append(A, s[n])[n - 1 + 1] = s[n]
    BY <1>3, <1>5, AppendProperties
  <2>2. n - 1 + 1 = n /\ \A k \in 1..n : k = n \/ k \in 1..n - 1
    BY <1>2
  <2>3. \A k \in 1..Len(s) : s[k] = Append(A, s[n])[k]
    BY <2>1, <2>2
  <2> QED  BY <2>1, <2>2, <2>3, <1>1, SeqEqual
<1> QED  BY <1>2, <1>3, <1>4, <1>6

LEMMA AppendedAt ==
    ASSUME NEW s, IsSeq(s), NEW e
    PROVE  /\ IsSeq(Append(s, e)) /\ Len(Append(s, e)) = Len(s) + 1
           /\ DOMAIN Append(s, e) = 1..Len(s) + 1
           /\ \A k \in 1..Len(s) : Append(s, e)[k] = s[k]
           /\ Append(s, e)[Len(s) + 1] = e
<1> DEFINE S == ToSet(s) \cup {e}
<1>1. s \in Seq(S)
  <2>1. s \in Seq(ToSet(s))
    BY SeqParts
  <2> QED  BY <2>1, SeqMonotonic
<1>2. /\ Append(s, e) \in Seq(S)
      /\ Len(Append(s, e)) = Len(s) + 1
      /\ \A k \in 1..Len(s) : Append(s, e)[k] = s[k]
      /\ Append(s, e)[Len(s) + 1] = e
  BY <1>1, AppendProperties
<1> QED  BY <1>2, SeqOver
(***************************************************************************)
(* Induction.                                                              *)
(***************************************************************************)
\* Every set of natural numbers that is not empty has a least one.
LEMMA LeastOfSet ==
    ASSUME NEW T, T \subseteq Nat, T # {}
    PROVE  \E m \in T : \A k \in T : m <= k
<1> DEFINE R == StrictSubsetOrdering(Nat)
           F == {0..m : m \in T}
<1>1. F \subseteq FiniteSubsetsOf(Nat)
  <2>1. \A m \in T : IsFiniteSet(0..m) /\ 0..m \subseteq Nat
    BY FS_Interval
  <2> QED BY <2>1 DEF FiniteSubsetsOf
<1>2. F # {} OBVIOUS
<1>3. PICK X \in F : \A Y \in F : ~ (<<Y, X>> \in R)
  BY <1>1, <1>2, WFMin, FS_StrictSubsetOrderingWellFounded
<1>4. PICK m \in T : X = 0..m  OBVIOUS
<1>5. ASSUME NEW k \in T, k < m PROVE FALSE
  <2>1. 0..k \in F OBVIOUS
  <2>2. 0..k # 0..m /\ 0..k \subseteq 0..m BY <1>5
  <2>3. <<0..k, 0..m>> \in R BY <2>2 DEF StrictSubsetOrdering
  <2> QED BY <2>1, <2>3, <1>3, <1>4
<1> QED BY <1>5, <1>4

(***************************************************************************)
(* The replay of a list, operation by operation.                           *)
(***************************************************************************)
ReplayNext(roots, ops, f, n) ==
    IF n = 0 THEN [accepted |-> TRUE, roots |-> roots] ELSE replayStep(f[n - 1], ops[n])

ReplayUpto(roots, ops, f, m) == \A n \in 0..m : f[n] = ReplayNext(roots, ops, f, n)

ReplayEquation(roots, ops, f) ==
    f = [n \in 0..Len(ops) |->
           IF n = 0 THEN [accepted |-> TRUE, roots |-> roots] ELSE replayStep(f[n - 1], ops[n])]

LEMMA ReplayExists ==
    ASSUME NEW roots, NEW ops, IsSeq(ops)
    PROVE  \E f : ReplayEquation(roots, ops, f)
<1> DEFINE G(m) == \E f : f = [n \in 0..m |-> f[n]] /\ ReplayUpto(roots, ops, f, m)
           Bad == {m \in Nat : ~G(m)}
<1>1. Len(ops) \in Nat
  BY SeqParts
<1>2. G(0)
  <2> DEFINE x == [accepted |-> TRUE, roots |-> roots]
             f == [n \in 0..0 |-> x]
  <2> HIDE DEF x
  <2>1. f = [n \in 0..0 |-> f[n]] /\ \A n \in 0..0 : n = 0 /\ f[n] = x
    OBVIOUS
  <2> HIDE DEF f
  <2> QED  BY <2>1 DEF ReplayUpto, ReplayNext, x
<1>3. ASSUME NEW m \in Nat, G(m) PROVE G(m + 1)
  <2>1. PICK f : f = [n \in 0..m |-> f[n]] /\ ReplayUpto(roots, ops, f, m)
    BY <1>3
  <2> DEFINE x == ReplayNext(roots, ops, f, m + 1)
             g == [n \in 0..m + 1 |-> IF n = m + 1 THEN x ELSE f[n]]
  <2> HIDE DEF x
  <2>2. g = [n \in 0..m + 1 |-> g[n]]
    OBVIOUS
  <2>3. \A n \in 0..m : g[n] = f[n]
    OBVIOUS
  <2>4. g[m + 1] = x
    OBVIOUS
  <2> HIDE DEF g
  <2>5. ASSUME NEW n \in 0..m + 1 PROVE g[n] = ReplayNext(roots, ops, g, n)
    <3>1. n # 0 => g[n - 1] = f[n - 1]
      BY <2>3
    <3>2. ReplayNext(roots, ops, g, n) = ReplayNext(roots, ops, f, n)
      BY <3>1 DEF ReplayNext
    <3>3. CASE n = m + 1
      BY <3>2, <3>3, <2>4 DEF x
    <3>4. CASE n # m + 1
      <4>1. n \in 0..m
        BY <3>4
      <4> QED  BY <4>1, <3>2, <2>1, <2>3 DEF ReplayUpto
    <3> QED  BY <3>3, <3>4
  <2> QED  BY <2>2, <2>5 DEF ReplayUpto
<1> HIDE DEF G
<1>4. ASSUME NEW k \in Bad, \A x \in Bad : k <= x PROVE FALSE
  <2>1. k \in Nat /\ k # 0
    BY <1>2
  <2>2. k - 1 \in Nat /\ k - 1 \notin Bad
    BY <2>1, <1>4
  <2>3. G((k - 1) + 1)
    BY <2>2, <1>3
  <2>4. (k - 1) + 1 = k
    BY <2>1
  <2> QED  BY <2>3, <2>4
<1>5. Bad = {}
  <2>1. Bad \subseteq Nat
    OBVIOUS
  <2> HIDE DEF Bad
  <2> QED  BY <2>1, <1>4, LeastOfSet
<1>6. G(Len(ops))
  BY <1>1, <1>5
<1>7. PICK f : f = [n \in 0..Len(ops) |-> f[n]] /\ ReplayUpto(roots, ops, f, Len(ops))
  BY <1>6 DEF G
<1> DEFINE g == [n \in 0..Len(ops) |-> ReplayNext(roots, ops, f, n)]
           h == [n \in 0..Len(ops) |-> f[n]]
<1>8. g = h
  BY <1>7, Zenon DEF ReplayUpto
<1>9. f = h
  BY <1>7, Zenon
<1> HIDE DEF g, h
<1>10. f = g
  BY <1>8, <1>9
<1> QED  BY <1>10, Zenon DEF g, ReplayEquation, ReplayNext

LEMMA ReplayIs ==
    ASSUME NEW roots, NEW ops, IsSeq(ops)
    PROVE  \E f : ReplayUpto(roots, ops, f, Len(ops)) /\ replay(roots, ops) = f[Len(ops)]
<1> DEFINE f == CHOOSE f : ReplayEquation(roots, ops, f)
<1>1. ReplayEquation(roots, ops, f)
  BY ReplayExists, Zenon
<1>2. replay(roots, ops) = f[Len(ops)]
  BY Zenon DEF replay, ReplayEquation
<1> HIDE DEF f
<1>3. ReplayUpto(roots, ops, f, Len(ops))
  <2> DEFINE g == [n \in 0..Len(ops) |-> ReplayNext(roots, ops, f, n)]
  <2>1. f = g
    BY <1>1, Zenon DEF ReplayEquation, ReplayNext
  <2>2. \A n \in 0..Len(ops) : g[n] = ReplayNext(roots, ops, f, n)
    OBVIOUS
  <2> HIDE DEF g
  <2> QED  BY <2>1, <2>2, Zenon DEF ReplayUpto
<1> QED  BY <1>2, <1>3

\* Two lists that begin alike agree that far.
LEMMA ReplayAlike ==
    ASSUME NEW roots, NEW ops, NEW more, NEW f, NEW g, NEW m \in Nat,
           ReplayUpto(roots, ops, f, m), ReplayUpto(roots, more, g, m),
           \A k \in 1..m : ops[k] = more[k]
    PROVE  f[m] = g[m]
<1> DEFINE Bad == {n \in 0..m : f[n] # g[n]}
<1>1. ASSUME NEW k \in Bad, \A x \in Bad : k <= x PROVE FALSE
  <2>1. f[k] = ReplayNext(roots, ops, f, k) /\ g[k] = ReplayNext(roots, more, g, k)
    BY DEF ReplayUpto
  <2>2. CASE k = 0
    BY <2>1, <2>2 DEF ReplayNext
  <2>3. CASE k # 0
    <3>1. k - 1 \in 0..m /\ k \in 1..m /\ ~(k <= k - 1)
      BY <2>3
    <3>2. f[k - 1] = g[k - 1]
      BY <3>1, <1>1
    <3>3. ops[k] = more[k]
      BY <3>1
    <3> QED  BY <2>1, <2>3, <3>2, <3>3 DEF ReplayNext
  <2> QED  BY <2>2, <2>3
<1>2. Bad \subseteq Nat
  OBVIOUS
<1>3. Bad = {}
  <2> HIDE DEF Bad
  <2> QED  BY <1>1, <1>2, LeastOfSet
<1> QED  BY <1>3

LEMMA ReplayNothing == ASSUME NEW roots PROVE replay(roots, <<>>) = [accepted |-> TRUE, roots |-> roots]
<1>1. IsSeq(<<>>) /\ Len(<<>>) = 0
  BY EmptyIsSeq, EmptySeq
<1>2. PICK f : ReplayUpto(roots, <<>>, f, 0) /\ replay(roots, <<>>) = f[0]
  BY <1>1, ReplayIs
<1> QED  BY <1>2 DEF ReplayUpto, ReplayNext

LEMMA ReplayMore ==
    ASSUME NEW roots, NEW ops, IsSeq(ops), NEW op
    PROVE  replay(roots, Append(ops, op)) = replayStep(replay(roots, ops), op)
<1> DEFINE more == Append(ops, op)
           m == Len(ops)
<1>1. /\ m \in Nat /\ IsSeq(more) /\ Len(more) = m + 1
      /\ \A k \in 1..m : more[k] = ops[k]
      /\ more[m + 1] = op
  BY AppendedAt, SeqParts
<1>2. PICK f : ReplayUpto(roots, ops, f, m) /\ replay(roots, ops) = f[m]
  BY ReplayIs
<1> HIDE DEF more, m
<1>3. PICK g : ReplayUpto(roots, more, g, m + 1) /\ replay(roots, more) = g[m + 1]
  BY <1>1, ReplayIs
<1>4. ReplayUpto(roots, more, g, m)
  BY <1>1, <1>3 DEF ReplayUpto
<1>5. f[m] = g[m]
  BY <1>1, <1>2, <1>4, ReplayAlike
<1>6. g[m + 1] = ReplayNext(roots, more, g, m + 1) /\ (m + 1) - 1 = m /\ m + 1 # 0
  BY <1>1, <1>3 DEF ReplayUpto
<1> QED  BY <1>1, <1>2, <1>3, <1>5, <1>6 DEF ReplayNext, more

(***************************************************************************)
(* What becomes of a node that arrives late.                               *)
(***************************************************************************)
HydrateNext(root, ops, f, n) ==
    IF n = 0 THEN root ELSE RemapNode(f[n - 1], ops[n])

HydrateUpto(root, ops, f, m) == \A n \in 0..m : f[n] = HydrateNext(root, ops, f, n)

HydrateEquation(root, ops, f) ==
    f = [n \in 0..Len(ops) |->
           IF n = 0 THEN root ELSE RemapNode(f[n - 1], ops[n])]

LEMMA HydrateExists ==
    ASSUME NEW root, NEW ops, IsSeq(ops)
    PROVE  \E f : HydrateEquation(root, ops, f)
<1> DEFINE G(m) == \E f : f = [n \in 0..m |-> f[n]] /\ HydrateUpto(root, ops, f, m)
           Bad == {m \in Nat : ~G(m)}
<1>1. Len(ops) \in Nat
  BY SeqParts
<1>2. G(0)
  <2> DEFINE x == root
             f == [n \in 0..0 |-> x]
  <2> HIDE DEF x
  <2>1. f = [n \in 0..0 |-> f[n]] /\ \A n \in 0..0 : n = 0 /\ f[n] = x
    OBVIOUS
  <2> HIDE DEF f
  <2> QED  BY <2>1 DEF HydrateUpto, HydrateNext, x
<1>3. ASSUME NEW m \in Nat, G(m) PROVE G(m + 1)
  <2>1. PICK f : f = [n \in 0..m |-> f[n]] /\ HydrateUpto(root, ops, f, m)
    BY <1>3
  <2> DEFINE x == HydrateNext(root, ops, f, m + 1)
             g == [n \in 0..m + 1 |-> IF n = m + 1 THEN x ELSE f[n]]
  <2> HIDE DEF x
  <2>2. g = [n \in 0..m + 1 |-> g[n]]
    OBVIOUS
  <2>3. \A n \in 0..m : g[n] = f[n]
    OBVIOUS
  <2>4. g[m + 1] = x
    OBVIOUS
  <2> HIDE DEF g
  <2>5. ASSUME NEW n \in 0..m + 1 PROVE g[n] = HydrateNext(root, ops, g, n)
    <3>1. n # 0 => g[n - 1] = f[n - 1]
      BY <2>3
    <3>2. HydrateNext(root, ops, g, n) = HydrateNext(root, ops, f, n)
      BY <3>1 DEF HydrateNext
    <3>3. CASE n = m + 1
      BY <3>2, <3>3, <2>4 DEF x
    <3>4. CASE n # m + 1
      <4>1. n \in 0..m
        BY <3>4
      <4> QED  BY <4>1, <3>2, <2>1, <2>3 DEF HydrateUpto
    <3> QED  BY <3>3, <3>4
  <2> QED  BY <2>2, <2>5 DEF HydrateUpto
<1> HIDE DEF G
<1>4. ASSUME NEW k \in Bad, \A x \in Bad : k <= x PROVE FALSE
  <2>1. k \in Nat /\ k # 0
    BY <1>2
  <2>2. k - 1 \in Nat /\ k - 1 \notin Bad
    BY <2>1, <1>4
  <2>3. G((k - 1) + 1)
    BY <2>2, <1>3
  <2>4. (k - 1) + 1 = k
    BY <2>1
  <2> QED  BY <2>3, <2>4
<1>5. Bad = {}
  <2>1. Bad \subseteq Nat
    OBVIOUS
  <2> HIDE DEF Bad
  <2> QED  BY <2>1, <1>4, LeastOfSet
<1>6. G(Len(ops))
  BY <1>1, <1>5
<1>7. PICK f : f = [n \in 0..Len(ops) |-> f[n]] /\ HydrateUpto(root, ops, f, Len(ops))
  BY <1>6 DEF G
<1> DEFINE g == [n \in 0..Len(ops) |-> HydrateNext(root, ops, f, n)]
           h == [n \in 0..Len(ops) |-> f[n]]
<1>8. g = h
  BY <1>7, Zenon DEF HydrateUpto
<1>9. f = h
  BY <1>7, Zenon
<1> HIDE DEF g, h
<1>10. f = g
  BY <1>8, <1>9
<1> QED  BY <1>10, Zenon DEF g, HydrateEquation, HydrateNext

LEMMA HydrateIs ==
    ASSUME NEW root, NEW ops, IsSeq(ops)
    PROVE  \E f : HydrateUpto(root, ops, f, Len(ops)) /\ hydrate(root, ops) = f[Len(ops)]
<1> DEFINE f == CHOOSE f : HydrateEquation(root, ops, f)
<1>1. HydrateEquation(root, ops, f)
  BY HydrateExists, Zenon
<1>2. hydrate(root, ops) = f[Len(ops)]
  BY Zenon DEF hydrate, HydrateEquation
<1> HIDE DEF f
<1>3. HydrateUpto(root, ops, f, Len(ops))
  <2> DEFINE g == [n \in 0..Len(ops) |-> HydrateNext(root, ops, f, n)]
  <2>1. f = g
    BY <1>1, Zenon DEF HydrateEquation, HydrateNext
  <2>2. \A n \in 0..Len(ops) : g[n] = HydrateNext(root, ops, f, n)
    OBVIOUS
  <2> HIDE DEF g
  <2> QED  BY <2>1, <2>2, Zenon DEF HydrateUpto
<1> QED  BY <1>2, <1>3

\* Two lists that begin alike agree that far.
LEMMA HydrateAlike ==
    ASSUME NEW root, NEW ops, NEW more, NEW f, NEW g, NEW m \in Nat,
           HydrateUpto(root, ops, f, m), HydrateUpto(root, more, g, m),
           \A k \in 1..m : ops[k] = more[k]
    PROVE  f[m] = g[m]
<1> DEFINE Bad == {n \in 0..m : f[n] # g[n]}
<1>1. ASSUME NEW k \in Bad, \A x \in Bad : k <= x PROVE FALSE
  <2>1. f[k] = HydrateNext(root, ops, f, k) /\ g[k] = HydrateNext(root, more, g, k)
    BY DEF HydrateUpto
  <2>2. CASE k = 0
    BY <2>1, <2>2 DEF HydrateNext
  <2>3. CASE k # 0
    <3>1. k - 1 \in 0..m /\ k \in 1..m /\ ~(k <= k - 1)
      BY <2>3
    <3>2. f[k - 1] = g[k - 1]
      BY <3>1, <1>1
    <3>3. ops[k] = more[k]
      BY <3>1
    <3> QED  BY <2>1, <2>3, <3>2, <3>3 DEF HydrateNext
  <2> QED  BY <2>2, <2>3
<1>2. Bad \subseteq Nat
  OBVIOUS
<1>3. Bad = {}
  <2> HIDE DEF Bad
  <2> QED  BY <1>1, <1>2, LeastOfSet
<1> QED  BY <1>3

LEMMA HydrateNothing == ASSUME NEW root PROVE hydrate(root, <<>>) = root
<1>1. IsSeq(<<>>) /\ Len(<<>>) = 0
  BY EmptyIsSeq, EmptySeq
<1>2. PICK f : HydrateUpto(root, <<>>, f, 0) /\ hydrate(root, <<>>) = f[0]
  BY <1>1, HydrateIs
<1> QED  BY <1>2 DEF HydrateUpto, HydrateNext

LEMMA HydrateMore ==
    ASSUME NEW root, NEW ops, IsSeq(ops), NEW op
    PROVE  hydrate(root, Append(ops, op)) = RemapNode(hydrate(root, ops), op)
<1> DEFINE more == Append(ops, op)
           m == Len(ops)
<1>1. /\ m \in Nat /\ IsSeq(more) /\ Len(more) = m + 1
      /\ \A k \in 1..m : more[k] = ops[k]
      /\ more[m + 1] = op
  BY AppendedAt, SeqParts
<1>2. PICK f : HydrateUpto(root, ops, f, m) /\ hydrate(root, ops) = f[m]
  BY HydrateIs
<1> HIDE DEF more, m
<1>3. PICK g : HydrateUpto(root, more, g, m + 1) /\ hydrate(root, more) = g[m + 1]
  BY <1>1, HydrateIs
<1>4. HydrateUpto(root, more, g, m)
  BY <1>1, <1>3 DEF HydrateUpto
<1>5. f[m] = g[m]
  BY <1>1, <1>2, <1>4, HydrateAlike
<1>6. g[m + 1] = HydrateNext(root, more, g, m + 1) /\ (m + 1) - 1 = m /\ m + 1 # 0
  BY <1>1, <1>3 DEF HydrateUpto
<1> QED  BY <1>1, <1>2, <1>3, <1>5, <1>6 DEF HydrateNext, more
(***************************************************************************)
(* Drafts: the list of the nodes, and the texts they hold.                 *)
(***************************************************************************)
NodeRec(n) == n = [id |-> n.id, tok |-> n.tok, val |-> n.val, content |-> n.content]
TextRec(t) == t = [id |-> t.id, tok |-> t.tok, val |-> t.val, refs |-> t.refs]

TextsOf(s) == {s[j].id : j \in DOMAIN s}
NodeIds(roots) == {roots[i].id : i \in DOMAIN roots}

Content(s) ==
    /\ IsSeq(s)
    /\ \A j \in DOMAIN s : TextRec(s[j])
    /\ \A j, m \in DOMAIN s : s[j].id = s[m].id => j = m

\* The nodes alone: records, and no two with the same id.
Spine(roots) ==
    /\ IsSeq(roots)
    /\ \A i \in DOMAIN roots : NodeRec(roots[i])
    /\ \A i, k \in DOMAIN roots : roots[i].id = roots[k].id => i = k

\* What the nodes hold.
Bodies(roots) ==
    /\ \A i \in DOMAIN roots : Content(roots[i].content)
    /\ \A i, k \in DOMAIN roots : roots[k].id \notin TextsOf(roots[i].content)
    /\ \A i, k \in DOMAIN roots :
         i # k => TextsOf(roots[i].content) \cap TextsOf(roots[k].content) = {}

LEMMA DraftParts == ASSUME NEW roots PROVE IsDraft(roots) <=> Spine(roots) /\ Bodies(roots)
<1>1. ASSUME IsDraft(roots) PROVE Spine(roots)
  BY <1>1 DEF IsDraft, Spine, IsSeq, NodeRec
<1>2. ASSUME IsDraft(roots), NEW i \in DOMAIN roots PROVE Content(roots[i].content)
  BY <1>2 DEF IsDraft, Content, IsSeq, TextRec
<1>3. ASSUME IsDraft(roots), NEW i \in DOMAIN roots, NEW k \in DOMAIN roots
      PROVE  /\ roots[k].id \notin TextsOf(roots[i].content)
             /\ i # k => TextsOf(roots[i].content) \cap TextsOf(roots[k].content) = {}
  <2>1. /\ roots[k].id \notin Texts(roots[i])
        /\ i # k => Texts(roots[i]) \cap Texts(roots[k]) = {}
    BY <1>3, Zenon DEF IsDraft
  <2> QED  BY <2>1 DEF Texts, TextsOf
<1>4. ASSUME Spine(roots), Bodies(roots) PROVE IsDraft(roots)
  <2>1. roots \in Seq(ToSet(roots))
    BY <1>4 DEF Spine, IsSeq
  <2>2. ASSUME NEW i \in DOMAIN roots
        PROVE  /\ roots[i] = [id |-> roots[i].id, tok |-> roots[i].tok, val |-> roots[i].val,
                              content |-> roots[i].content]
               /\ roots[i].content \in Seq(ToSet(roots[i].content))
               /\ \A j \in DOMAIN roots[i].content :
                    LET t == roots[i].content[j]
                    IN  /\ t = [id |-> t.id, tok |-> t.tok, val |-> t.val, refs |-> t.refs]
                        /\ \A m \in DOMAIN roots[i].content : t.id = roots[i].content[m].id => j = m
    <3>1. Content(roots[i].content) /\ NodeRec(roots[i])
      BY <1>4 DEF Spine, Bodies
    <3> QED  BY <3>1 DEF Content, IsSeq, TextRec, NodeRec
  <2>3. ASSUME NEW i \in DOMAIN roots, NEW k \in DOMAIN roots
        PROVE  /\ roots[k].id \notin Texts(roots[i])
               /\ i # k => roots[i].id # roots[k].id /\ Texts(roots[i]) \cap Texts(roots[k]) = {}
    BY <1>4 DEF Spine, Bodies, Texts, TextsOf
  <2> HIDE DEF Spine, Bodies
  <2> QED  BY <2>1, <2>2, <2>3, Zenon DEF IsDraft
<1> QED  BY <1>1, <1>2, <1>3, <1>4 DEF Bodies

LEMMA UnitsAre ==
    ASSUME NEW roots, NEW u
    PROVE  u \in Units(roots) <=> \/ u \in NodeIds(roots)
                                  \/ \E i \in DOMAIN roots : u \in TextsOf(roots[i].content)
BY DEF Units, NodeIds, Texts, TextsOf

LEMMA Places ==
    ASSUME NEW s, IsSeq(s)
    PROVE  Len(s) \in Nat /\ DOMAIN s = 1..Len(s) /\ \A k \in DOMAIN s : k \in Nat \ {0}
BY SeqParts

LEMMA IndexIs == ASSUME NEW i, NEW S, S = {i} PROVE Index(S) = i
BY DEF Index

LEMMA IndexIn == ASSUME NEW S, Index(S) # 0 PROVE Index(S) \in S
BY DEF Index

\* Where a unit is in a list in which ids are distinct.
LEMMA AtIs ==
    ASSUME NEW s, \A i, k \in DOMAIN s : s[i].id = s[k].id => i = k, NEW i \in DOMAIN s
    PROVE  At(s, s[i].id) = i
<1>1. {k \in DOMAIN s : s[k].id = s[i].id} = {i}
  OBVIOUS
<1> QED  BY <1>1, IndexIs DEF At

LEMMA AtPlace ==
    ASSUME NEW s, NEW u, At(s, u) # 0
    PROVE  At(s, u) \in DOMAIN s /\ s[At(s, u)].id = u
<1>1. At(s, u) \in {k \in DOMAIN s : s[k].id = u}
  BY IndexIn DEF At
<1> QED  BY <1>1

LEMMA AtNone ==
    ASSUME NEW s, NEW u, \A k \in DOMAIN s : s[k].id # u
    PROVE  At(s, u) = 0
<1>1. {k \in DOMAIN s : s[k].id = u} = {}
  OBVIOUS
<1> QED  BY <1>1 DEF At, Index

LEMMA NodeAt ==
    ASSUME NEW roots, Spine(roots), NEW i \in DOMAIN roots
    PROVE  /\ At(roots, roots[i].id) = i
           /\ IsNode(roots, roots[i].id)
           /\ NodeOf(roots, roots[i].id) = roots[i]
<1>1. At(roots, roots[i].id) = i
  BY AtIs DEF Spine
<1>2. i # 0
  BY Places DEF Spine
<1> QED  BY <1>1, <1>2 DEF IsNode, NodeOf

LEMMA NodePlace ==
    ASSUME NEW roots, NEW u, IsNode(roots, u)
    PROVE  At(roots, u) \in DOMAIN roots /\ roots[At(roots, u)].id = u /\ u \in NodeIds(roots)
BY AtPlace DEF IsNode, NodeIds

LEMMA TextPlace ==
    ASSUME NEW roots, NEW t, Holder(roots, t) # 0
    PROVE  /\ Holder(roots, t) \in DOMAIN roots
           /\ \E j \in DOMAIN roots[Holder(roots, t)].content :
                roots[Holder(roots, t)].content[j].id = t
<1>1. Holder(roots, t) \in {i \in DOMAIN roots :
                              \E j \in DOMAIN roots[i].content : roots[i].content[j].id = t}
  BY IndexIn DEF Holder
<1> QED  BY <1>1

LEMMA TextAt ==
    ASSUME NEW roots, Spine(roots), Bodies(roots), NEW i \in DOMAIN roots,
           NEW j \in DOMAIN roots[i].content
    PROVE  LET t == roots[i].content[j].id
           IN  /\ Holder(roots, t) = i
               /\ At(roots[i].content, t) = j
               /\ TextOf(roots, t) = roots[i].content[j]
               /\ ~IsNode(roots, t)
               /\ i # 0
<1> DEFINE t == roots[i].content[j].id
<1>1. t \in TextsOf(roots[i].content)
  BY DEF TextsOf
<1>2. ASSUME NEW k \in DOMAIN roots, NEW m \in DOMAIN roots[k].content,
             roots[k].content[m].id = t
      PROVE  k = i
  <2>1. t \in TextsOf(roots[k].content)
    BY <1>2 DEF TextsOf
  <2> QED  BY <1>1, <2>1 DEF Bodies
<1>3. {k \in DOMAIN roots : \E m \in DOMAIN roots[k].content : roots[k].content[m].id = t} = {i}
  BY <1>2
<1>4. Holder(roots, t) = i
  BY <1>3, IndexIs DEF Holder
<1>5. At(roots[i].content, t) = j
  <2>1. \A a, b \in DOMAIN roots[i].content :
          roots[i].content[a].id = roots[i].content[b].id => a = b
    BY DEF Bodies, Content
  <2> QED  BY <2>1, AtIs
<1>6. ~IsNode(roots, t)
  <2>1. \A k \in DOMAIN roots : roots[k].id # t
    BY <1>1 DEF Bodies
  <2> QED  BY <2>1, AtNone DEF IsNode
<1>7. i # 0
  BY Places DEF Spine
<1>8. TextOf(roots, t) = roots[i].content[j]
  BY <1>4, <1>5 DEF TextOf
<1> QED  BY <1>4, <1>5, <1>6, <1>7, <1>8

(***************************************************************************)
(* The texts of one node: one is replaced, removed or inserted.            *)
(***************************************************************************)
LEMMA ContentReplaced ==
    ASSUME NEW s, Content(s), NEW j \in DOMAIN s, NEW t, TextRec(t), t.id = s[j].id
    PROVE  Content(ReplaceAt(s, j, t)) /\ TextsOf(ReplaceAt(s, j, t)) = TextsOf(s)
<1> DEFINE w == ReplaceAt(s, j, t)
<1>0. Len(s) \in Nat /\ DOMAIN s = 1..Len(s)
  BY Places DEF Content
<1>1. /\ IsSeq(w) /\ DOMAIN w = 1..Len(s)
      /\ \A k \in 1..Len(s) : w[k] = IF k = j THEN t ELSE s[k]
  BY ReplacedAt DEF Content
<1> HIDE DEF w
<1>2. \A k \in 1..Len(s) : w[k].id = s[k].id /\ TextRec(w[k])
  BY <1>0, <1>1 DEF Content
<1>3. Content(w)
  BY <1>0, <1>1, <1>2 DEF Content
<1>4. TextsOf(w) = TextsOf(s)
  BY <1>0, <1>1, <1>2 DEF TextsOf
<1> QED  BY <1>3, <1>4 DEF w

LEMMA ContentRemoved ==
    ASSUME NEW s, Content(s), NEW j \in DOMAIN s
    PROVE  Content(RemoveAt(s, j)) /\ TextsOf(RemoveAt(s, j)) = TextsOf(s) \ {s[j].id}
<1> DEFINE w == RemoveAt(s, j)
           at(k) == IF k < j THEN k ELSE k + 1
<1>0. Len(s) \in Nat /\ DOMAIN s = 1..Len(s)
  BY Places DEF Content
<1>1. /\ IsSeq(w) /\ DOMAIN w = 1..Len(s) - 1
      /\ \A k \in 1..Len(s) - 1 : w[k] = IF k < j THEN s[k] ELSE s[k + 1]
  BY <1>0, RemovedAt DEF Content
<1> HIDE DEF w
<1>2. ASSUME NEW k \in 1..Len(s) - 1
      PROVE  at(k) \in DOMAIN s /\ at(k) # j /\ w[k] = s[at(k)]
  BY <1>0, <1>1
<1>3. \A k, m \in 1..Len(s) - 1 : at(k) = at(m) => k = m
  BY <1>0
<1>4. \A k \in DOMAIN s : k # j => \E m \in 1..Len(s) - 1 : at(m) = k
  <2> TAKE k \in DOMAIN s
  <2> HAVE k # j
  <2>1. CASE k < j
    <3>1. k \in 1..Len(s) - 1 /\ at(k) = k
      BY <2>1, <1>0
    <3> QED  BY <3>1
  <2>2. CASE ~(k < j)
    <3>1. k - 1 \in 1..Len(s) - 1 /\ at(k - 1) = k
      BY <2>2, <1>0
    <3> QED  BY <3>1
  <2> QED  BY <2>1, <2>2
<1> HIDE DEF at
<1>5. Content(w)
  <2>1. ASSUME NEW k \in DOMAIN w PROVE TextRec(w[k])
    BY <1>1, <1>2 DEF Content
  <2>2. ASSUME NEW k \in DOMAIN w, NEW m \in DOMAIN w, w[k].id = w[m].id PROVE k = m
    <3>1. /\ at(k) \in DOMAIN s /\ w[k] = s[at(k)]
          /\ at(m) \in DOMAIN s /\ w[m] = s[at(m)]
      BY <1>1, <1>2
    <3>2. at(k) = at(m)
      BY <2>2, <3>1 DEF Content
    <3> QED  BY <1>1, <1>3, <3>2
  <2> QED  BY <1>1, <2>1, <2>2 DEF Content
<1>6. TextsOf(w) = TextsOf(s) \ {s[j].id}
  <2>1. ASSUME NEW x \in TextsOf(w) PROVE x \in TextsOf(s) \ {s[j].id}
    BY <1>1, <1>2 DEF TextsOf, Content
  <2>2. ASSUME NEW x \in TextsOf(s) \ {s[j].id} PROVE x \in TextsOf(w)
    <3>1. PICK k \in DOMAIN s : x = s[k].id /\ k # j
      BY <2>2 DEF TextsOf
    <3>2. PICK m \in 1..Len(s) - 1 : at(m) = k
      BY <3>1, <1>4
    <3> QED  BY <1>1, <1>2, <3>1, <3>2 DEF TextsOf
  <2> QED  BY <2>1, <2>2
<1> QED  BY <1>5, <1>6 DEF w

LEMMA ContentInserted ==
    ASSUME NEW s, Content(s), NEW p \in 1..Len(s) + 1, NEW t, TextRec(t), t.id \notin TextsOf(s)
    PROVE  Content(InsertAt(s, p, t)) /\ TextsOf(InsertAt(s, p, t)) = TextsOf(s) \cup {t.id}
<1> DEFINE w == InsertAt(s, p, t)
           at(k) == IF k < p THEN k ELSE k - 1
<1>0. Len(s) \in Nat /\ DOMAIN s = 1..Len(s)
  BY Places DEF Content
<1>1. /\ IsSeq(w) /\ DOMAIN w = 1..Len(s) + 1
      /\ \A k \in 1..Len(s) + 1 : w[k] = IF k < p THEN s[k] ELSE IF k = p THEN t ELSE s[k - 1]
  BY <1>0, InsertedAt DEF Content
<1> HIDE DEF w
<1>2. ASSUME NEW k \in 1..Len(s) + 1, k # p
      PROVE  at(k) \in DOMAIN s /\ w[k] = s[at(k)]
  BY <1>0, <1>1, <1>2
<1>3. \A k, m \in 1..Len(s) + 1 : k # p /\ m # p /\ at(k) = at(m) => k = m
  BY <1>0
<1>4. \A k \in DOMAIN s : \E m \in 1..Len(s) + 1 : m # p /\ at(m) = k
  <2> TAKE k \in DOMAIN s
  <2>1. CASE k < p
    <3>1. k \in 1..Len(s) + 1 /\ k # p /\ at(k) = k
      BY <2>1, <1>0
    <3> QED  BY <3>1
  <2>2. CASE ~(k < p)
    <3>1. k + 1 \in 1..Len(s) + 1 /\ k + 1 # p /\ at(k + 1) = k
      BY <2>2, <1>0
    <3> QED  BY <3>1
  <2> QED  BY <2>1, <2>2
<1>p. w[p] = t /\ p \in DOMAIN w
  BY <1>0, <1>1
<1> HIDE DEF at
<1>5. \A k \in DOMAIN w : TextRec(w[k])
  BY <1>1, <1>2, <1>p DEF Content
<1>6. ASSUME NEW k \in DOMAIN w, NEW m \in DOMAIN w, w[k].id = w[m].id PROVE k = m
  <2>1. \A n \in DOMAIN w : n # p => w[n].id # t.id
    BY <1>1, <1>2 DEF TextsOf
  <2>2. CASE k = p \/ m = p
    BY <2>1, <2>2, <1>6, <1>p
  <2>3. CASE k # p /\ m # p
    BY <2>3, <1>1, <1>2, <1>3, <1>6 DEF Content
  <2> QED  BY <2>2, <2>3
<1>7. Content(w)
  BY <1>1, <1>5, <1>6 DEF Content
<1>8. TextsOf(w) = TextsOf(s) \cup {t.id}
  <2>1. ASSUME NEW x \in TextsOf(w) PROVE x \in TextsOf(s) \cup {t.id}
    BY <1>1, <1>2, <1>p DEF TextsOf
  <2>2. ASSUME NEW x \in TextsOf(s) PROVE x \in TextsOf(w)
    <3>1. PICK k \in DOMAIN s : x = s[k].id
      BY DEF TextsOf
    <3>2. PICK m \in 1..Len(s) + 1 : m # p /\ at(m) = k
      BY <1>4
    <3> QED  BY <1>1, <1>2, <3>1, <3>2 DEF TextsOf
  <2>3. t.id \in TextsOf(w)
    BY <1>p DEF TextsOf
  <2> QED  BY <2>1, <2>2, <2>3
<1> QED  BY <1>7, <1>8 DEF w

(***************************************************************************)
(* The list of the nodes: one is removed, inserted or given new contents.  *)
(***************************************************************************)
\* The sequence w is s without its element i.
Without(w, s, i) ==
    /\ IsSeq(w)
    /\ \E a \in [DOMAIN w -> DOMAIN s] :
         /\ \A k \in DOMAIN w : a[k] # i /\ w[k] = s[a[k]]
         /\ \A k, m \in DOMAIN w : a[k] = a[m] => k = m
         /\ \A j \in DOMAIN s : j # i => \E k \in DOMAIN w : a[k] = j

\* The sequence w is s with e at place p.
With(w, s, p, e) ==
    /\ IsSeq(w) /\ p \in DOMAIN w /\ w[p] = e
    /\ \E a \in [DOMAIN w -> DOMAIN s \cup {0}] :
         /\ \A k \in DOMAIN w : k # p => a[k] \in DOMAIN s /\ w[k] = s[a[k]]
         /\ \A k, m \in DOMAIN w : k # p /\ m # p /\ a[k] = a[m] => k = m
         /\ \A j \in DOMAIN s : \E k \in DOMAIN w : k # p /\ a[k] = j

LEMMA RemovedIsWithout ==
    ASSUME NEW s, IsSeq(s), NEW i \in DOMAIN s
    PROVE  Without(RemoveAt(s, i), s, i) /\ DOMAIN RemoveAt(s, i) = 1..Len(s) - 1
<1> DEFINE w == RemoveAt(s, i)
           a == [k \in 1..Len(s) - 1 |-> IF k < i THEN k ELSE k + 1]
<1>0. Len(s) \in Nat /\ DOMAIN s = 1..Len(s)
  BY Places
<1>1. /\ IsSeq(w) /\ DOMAIN w = 1..Len(s) - 1
      /\ \A k \in 1..Len(s) - 1 : w[k] = IF k < i THEN s[k] ELSE s[k + 1]
  BY <1>0, RemovedAt
<1> HIDE DEF w
<1>2. \A k \in 1..Len(s) - 1 : a[k] \in 1..Len(s) /\ a[k] # i /\ w[k] = s[a[k]]
  BY <1>0, <1>1
<1>3. \A k, m \in 1..Len(s) - 1 : a[k] = a[m] => k = m
  BY <1>0
<1>4. ASSUME NEW j \in 1..Len(s), j # i PROVE \E k \in 1..Len(s) - 1 : a[k] = j
  <2>1. CASE j < i
    <3>1. j \in 1..Len(s) - 1 /\ a[j] = j
      BY <2>1, <1>0
    <3> QED  BY <3>1
  <2>2. CASE ~(j < i)
    <3>1. j - 1 \in 1..Len(s) - 1 /\ a[j - 1] = j
      BY <2>2, <1>0, <1>4
    <3> QED  BY <3>1
  <2> QED  BY <2>1, <2>2
<1>5. a \in [1..Len(s) - 1 -> 1..Len(s)]
  BY <1>2
<1> HIDE DEF a
<1>6. Without(w, s, i)
  <2>1. a \in [DOMAIN w -> DOMAIN s]
    BY <1>0, <1>1, <1>5
  <2>2. /\ \A k \in DOMAIN w : a[k] # i /\ w[k] = s[a[k]]
        /\ \A k, m \in DOMAIN w : a[k] = a[m] => k = m
        /\ \A j \in DOMAIN s : j # i => \E k \in DOMAIN w : a[k] = j
    BY <1>0, <1>1, <1>2, <1>3, <1>4
  <2> QED  BY <1>1, <2>1, <2>2 DEF Without
<1> QED  BY <1>1, <1>6 DEF w

LEMMA InsertedIsWith ==
    ASSUME NEW s, IsSeq(s), NEW p \in 1..Len(s) + 1, NEW e
    PROVE  With(InsertAt(s, p, e), s, p, e) /\ DOMAIN InsertAt(s, p, e) = 1..Len(s) + 1
<1> DEFINE w == InsertAt(s, p, e)
           a == [k \in 1..Len(s) + 1 |-> IF k < p THEN k ELSE k - 1]
<1>0. Len(s) \in Nat /\ DOMAIN s = 1..Len(s)
  BY Places
<1>1. /\ IsSeq(w) /\ DOMAIN w = 1..Len(s) + 1
      /\ \A k \in 1..Len(s) + 1 : w[k] = IF k < p THEN s[k] ELSE IF k = p THEN e ELSE s[k - 1]
  BY <1>0, InsertedAt
<1> HIDE DEF w
<1>2. \A k \in 1..Len(s) + 1 : k # p => a[k] \in 1..Len(s) /\ w[k] = s[a[k]]
  BY <1>0, <1>1
<1>3. \A k, m \in 1..Len(s) + 1 : k # p /\ m # p /\ a[k] = a[m] => k = m
  BY <1>0
<1>4. ASSUME NEW j \in 1..Len(s) PROVE \E k \in 1..Len(s) + 1 : k # p /\ a[k] = j
  <2>1. CASE j < p
    <3>1. j \in 1..Len(s) + 1 /\ j # p /\ a[j] = j
      BY <2>1, <1>0
    <3> QED  BY <3>1
  <2>2. CASE ~(j < p)
    <3>1. j + 1 \in 1..Len(s) + 1 /\ j + 1 # p /\ a[j + 1] = j
      BY <2>2, <1>0
    <3> QED  BY <3>1
  <2> QED  BY <2>1, <2>2
<1>5. a \in [1..Len(s) + 1 -> 1..Len(s) \cup {0}]
  BY <1>0
<1>p. w[p] = e /\ p \in DOMAIN w
  BY <1>0, <1>1
<1> HIDE DEF a
<1>6. With(w, s, p, e)
  <2>1. a \in [DOMAIN w -> DOMAIN s \cup {0}]
    BY <1>0, <1>1, <1>5
  <2>2. /\ \A k \in DOMAIN w : k # p => a[k] \in DOMAIN s /\ w[k] = s[a[k]]
        /\ \A k, m \in DOMAIN w : k # p /\ m # p /\ a[k] = a[m] => k = m
        /\ \A j \in DOMAIN s : \E k \in DOMAIN w : k # p /\ a[k] = j
    BY <1>0, <1>1, <1>2, <1>3, <1>4
  <2> QED  BY <1>1, <1>p, <2>1, <2>2 DEF With
<1> QED  BY <1>1, <1>6 DEF w

\* Every node of w is one of s, or has one of these ids.
Kept(w, s, ids) == \A k \in DOMAIN w : w[k].id \in ids \/ \E i \in DOMAIN s : w[k] = s[i]

LEMMA SpineRemoved ==
    ASSUME NEW roots, Spine(roots), NEW i \in DOMAIN roots
    PROVE  /\ Spine(RemoveAt(roots, i))
           /\ NodeIds(RemoveAt(roots, i)) = NodeIds(roots) \ {roots[i].id}
           /\ Kept(RemoveAt(roots, i), roots, {})
<1>1. PICK w : w = RemoveAt(roots, i)
  OBVIOUS
<1>2. Without(w, roots, i)
  BY <1>1, RemovedIsWithout DEF Spine
<1>3. PICK a \in [DOMAIN w -> DOMAIN roots] :
         /\ \A k \in DOMAIN w : a[k] # i /\ w[k] = roots[a[k]]
         /\ \A k, m \in DOMAIN w : a[k] = a[m] => k = m
         /\ \A j \in DOMAIN roots : j # i => \E k \in DOMAIN w : a[k] = j
  BY <1>2 DEF Without
<1>4. Spine(w)
  <2>1. \A k \in DOMAIN w : NodeRec(w[k])
    BY <1>3 DEF Spine
  <2>2. \A k, m \in DOMAIN w : w[k].id = w[m].id => k = m
    BY <1>3 DEF Spine
  <2> QED  BY <1>2, <2>1, <2>2 DEF Spine, Without
<1>5. NodeIds(w) = NodeIds(roots) \ {roots[i].id}
  BY <1>3 DEF NodeIds, Spine
<1>6. Kept(w, roots, {})
  BY <1>3 DEF Kept
<1> QED  BY <1>1, <1>4, <1>5, <1>6

LEMMA SpineInserted ==
    ASSUME NEW roots, Spine(roots), NEW p \in 1..Len(roots) + 1, NEW n, NodeRec(n),
           n.id \notin NodeIds(roots)
    PROVE  /\ Spine(InsertAt(roots, p, n))
           /\ NodeIds(InsertAt(roots, p, n)) = NodeIds(roots) \cup {n.id}
           /\ Kept(InsertAt(roots, p, n), roots, {n.id})
<1>1. PICK w : w = InsertAt(roots, p, n)
  OBVIOUS
<1>2. With(w, roots, p, n)
  BY <1>1, InsertedIsWith DEF Spine
<1>3. PICK a \in [DOMAIN w -> DOMAIN roots \cup {0}] :
         /\ \A k \in DOMAIN w : k # p => a[k] \in DOMAIN roots /\ w[k] = roots[a[k]]
         /\ \A k, m \in DOMAIN w : k # p /\ m # p /\ a[k] = a[m] => k = m
         /\ \A j \in DOMAIN roots : \E k \in DOMAIN w : k # p /\ a[k] = j
  BY <1>2 DEF With
<1>p. p \in DOMAIN w /\ w[p] = n /\ IsSeq(w)
  BY <1>2 DEF With
<1>4. Spine(w)
  <2>1. \A k \in DOMAIN w : NodeRec(w[k])
    BY <1>3, <1>p DEF Spine
  <2>2. ASSUME NEW k \in DOMAIN w, NEW m \in DOMAIN w, w[k].id = w[m].id
        PROVE  k = m
    <3>1. \A j \in DOMAIN w : j # p => w[j].id # n.id
      BY <1>3 DEF NodeIds
    <3>2. CASE k = p \/ m = p
      BY <2>2, <3>1, <3>2, <1>p
    <3>3. CASE k # p /\ m # p
      BY <2>2, <3>3, <1>3 DEF Spine
    <3> QED  BY <3>2, <3>3
  <2> QED  BY <1>p, <2>1, <2>2 DEF Spine
<1>5. NodeIds(w) = NodeIds(roots) \cup {n.id}
  <2>1. ASSUME NEW x \in NodeIds(w) PROVE x \in NodeIds(roots) \cup {n.id}
    BY <1>3, <1>p DEF NodeIds
  <2>2. NodeIds(roots) \cup {n.id} \subseteq NodeIds(w)
    BY <1>3, <1>p DEF NodeIds
  <2> QED  BY <2>1, <2>2
<1>6. Kept(w, roots, {n.id})
  BY <1>3, <1>p DEF Kept
<1> QED  BY <1>1, <1>4, <1>5, <1>6

\* What a node is after a text operation in it.
Rewritten(n, content, op) == [id |-> n.id, tok |-> op.id, val |-> n.val, content |-> content]

LEMMA ContentGiven ==
    ASSUME NEW roots, Spine(roots), NEW i, NEW content, NEW op
    PROVE  LET w == WithContent(roots, i, content, op)
           IN  /\ IsSeq(w) /\ Len(w) = Len(roots) /\ DOMAIN w = DOMAIN roots
               /\ \A k \in DOMAIN roots :
                    w[k] = IF k = i THEN Rewritten(roots[i], content, op) ELSE roots[k]
<1> DEFINE w == WithContent(roots, i, content, op)
<1>0. Len(roots) \in Nat /\ DOMAIN roots = 1..Len(roots)
  BY Places DEF Spine
<1>1. DOMAIN w = DOMAIN roots
  BY DEF WithContent
<1>2. \A k \in DOMAIN roots : k # i => w[k] = roots[k]
  BY DEF WithContent
<1>3. i \in DOMAIN roots => w[i] = Rewritten(roots[i], content, op)
  <2> SUFFICES ASSUME i \in DOMAIN roots PROVE w[i] = Rewritten(roots[i], content, op)
    OBVIOUS
  <2>1. roots[i] = [id |-> roots[i].id, tok |-> roots[i].tok, val |-> roots[i].val,
                    content |-> roots[i].content]
    BY DEF Spine, NodeRec
  <2> QED  BY <2>1 DEF WithContent, Rewritten
<1>4. w = [k \in 1..Len(roots) |-> w[k]]
  <2>1. w = [k \in DOMAIN roots |-> w[k]]
    BY DEF WithContent
  <2> HIDE DEF w
  <2> QED  BY <1>0, <2>1
<1> HIDE DEF w
<1>5. IsSeq(w) /\ Len(w) = Len(roots)
  BY <1>0, <1>4, SeqFrom
<1>6. \A k \in DOMAIN roots :
         w[k] = IF k = i THEN Rewritten(roots[i], content, op) ELSE roots[k]
  BY <1>2, <1>3
<1> QED  BY <1>1, <1>5, <1>6 DEF w

\* Lists of nodes with the same ids in the same places.
SameNodes(w, s) ==
    /\ IsSeq(w) /\ Len(w) = Len(s) /\ DOMAIN w = DOMAIN s
    /\ \A k \in DOMAIN s : NodeRec(w[k]) /\ w[k].id = s[k].id

LEMMA SpineSame ==
    ASSUME NEW roots, Spine(roots), NEW w, SameNodes(w, roots)
    PROVE  Spine(w) /\ NodeIds(w) = NodeIds(roots)
BY DEF Spine, SameNodes, NodeIds

LEMMA SpineRewritten ==
    ASSUME NEW roots, Spine(roots), NEW i, NEW content, NEW op
    PROVE  SameNodes(WithContent(roots, i, content, op), roots)
<1> DEFINE w == WithContent(roots, i, content, op)
<1>1. /\ IsSeq(w) /\ Len(w) = Len(roots) /\ DOMAIN w = DOMAIN roots
      /\ \A k \in DOMAIN roots :
           w[k] = IF k = i THEN Rewritten(roots[i], content, op) ELSE roots[k]
  BY ContentGiven
<1> HIDE DEF w
<1>2. NodeRec(Rewritten(roots[i], content, op))
      /\ Rewritten(roots[i], content, op).id = roots[i].id
  BY DEF Rewritten, NodeRec
<1>3. \A k \in DOMAIN roots : NodeRec(w[k]) /\ w[k].id = roots[k].id
  BY <1>1, <1>2 DEF Spine
<1> QED  BY <1>1, <1>3 DEF SameNodes, w

LEMMA MetadataSet ==
    ASSUME NEW roots, Spine(roots), NEW op
    PROVE  LET w == SetMetadata(roots, op)
               i == At(roots, op.targetId)
           IN  /\ SameNodes(w, roots)
               /\ \A k \in DOMAIN roots :
                    w[k] = IF k = i THEN [id |-> roots[i].id, tok |-> op.id, val |-> op.text,
                                          content |-> roots[i].content]
                           ELSE roots[k]
<1> DEFINE w == SetMetadata(roots, op)
<1>i. PICK i : i = At(roots, op.targetId)
  OBVIOUS
<1> DEFINE n == [id |-> roots[i].id, tok |-> op.id, val |-> op.text, content |-> roots[i].content]
<1>0. Len(roots) \in Nat /\ DOMAIN roots = 1..Len(roots)
  BY Places DEF Spine
<1>w. w = [roots EXCEPT ![i].val = op.text, ![i].tok = op.id]
  BY <1>i DEF SetMetadata
<1> HIDE DEF w
<1>1. DOMAIN w = DOMAIN roots
  BY <1>w
<1>2. \A k \in DOMAIN roots : k # i => w[k] = roots[k]
  BY <1>w
<1>3. i \in DOMAIN roots => w[i] = n
  <2> SUFFICES ASSUME i \in DOMAIN roots PROVE w[i] = n
    OBVIOUS
  <2>1. roots[i] = [id |-> roots[i].id, tok |-> roots[i].tok, val |-> roots[i].val,
                    content |-> roots[i].content]
    BY DEF Spine, NodeRec
  <2> QED  BY <2>1, <1>w
<1>4. w = [k \in 1..Len(roots) |-> w[k]]
  BY <1>0, <1>w
<1>5. IsSeq(w) /\ Len(w) = Len(roots)
  BY <1>0, <1>4, SeqFrom
<1>6. \A k \in DOMAIN roots : w[k] = IF k = i THEN n ELSE roots[k]
  BY <1>2, <1>3
<1>7. NodeRec(n) /\ n.id = roots[i].id
  BY DEF NodeRec
<1> HIDE DEF n
<1>8. \A k \in DOMAIN roots : NodeRec(w[k]) /\ w[k].id = roots[k].id
  BY <1>6, <1>7 DEF Spine
<1>9. SameNodes(w, roots)
  BY <1>1, <1>5, <1>8 DEF SameNodes
<1> QED  BY <1>6, <1>9, <1>i DEF n, w

(***************************************************************************)
(* One operation: what it does to the list of the nodes.                   *)
(***************************************************************************)
Types == {"replace_text", "set_metadata", "insert_text", "insert_root", "move_root", "move",
          "remove", "split_text", "merge_text"}

\* The tree before references follow the unit that is gone.
Edited(roots, op) ==
  CASE op.type = "replace_text" -> ReplaceText(roots, op)
    [] op.type = "set_metadata" -> SetMetadata(roots, op)
    [] op.type = "insert_text"  -> InsertText(roots, op)
    [] op.type = "insert_root"  -> InsertRoot(roots, op)
    [] op.type = "move_root"    -> MoveRoot(roots, op)
    [] op.type = "move"         -> MoveEntry(roots, op)
    [] op.type = "remove"       -> RemoveUnit(roots, op)
    [] op.type = "split_text"   -> splitEntry(roots, op)
    [] op.type = "merge_text"   -> mergeEntries(roots, op)

LEMMA ApplyIs ==
    ASSUME NEW roots, NEW op
    PROVE  applyOperation(roots, op) = remapDraftTargets(Edited(roots, op), op)
BY DEF applyOperation, Edited

LEMMA EditedIs ==
    ASSUME NEW roots, NEW op
    PROVE  /\ op.type = "replace_text" => Edited(roots, op) = ReplaceText(roots, op)
           /\ op.type = "set_metadata" => Edited(roots, op) = SetMetadata(roots, op)
           /\ op.type = "insert_text" => Edited(roots, op) = InsertText(roots, op)
           /\ op.type = "insert_root" => Edited(roots, op) = InsertRoot(roots, op)
           /\ op.type = "move_root" => Edited(roots, op) = MoveRoot(roots, op)
           /\ op.type = "move" => Edited(roots, op) = MoveEntry(roots, op)
           /\ op.type = "remove" => Edited(roots, op) = RemoveUnit(roots, op)
           /\ op.type = "split_text" => Edited(roots, op) = splitEntry(roots, op)
           /\ op.type = "merge_text" => Edited(roots, op) = mergeEntries(roots, op)
BY DEF Edited

LEMMA RemapTextIs ==
    ASSUME NEW t, TextRec(t), NEW op
    PROVE  TextRec(RemapText(t, op)) /\ RemapText(t, op).id = t.id
<1> DEFINE refs == {Successor(op, u) : u \in t.refs}
<1>1. RemapText(t, op) = IF refs = t.refs THEN t ELSE [t EXCEPT !.refs = refs, !.tok = op.id]
  BY DEF RemapText
<1> HIDE DEF refs
<1>2. t = [id |-> t.id, tok |-> t.tok, val |-> t.val, refs |-> t.refs]
  BY DEF TextRec
<1>3. [t EXCEPT !.refs = refs, !.tok = op.id]
        = [id |-> t.id, tok |-> op.id, val |-> t.val, refs |-> refs]
  <2>1. PICK w : w = [t EXCEPT !.refs = refs, !.tok = op.id]
    OBVIOUS
  <2>2. w = [id |-> t.id, tok |-> op.id, val |-> t.val, refs |-> refs]
    BY <1>2, <2>1
  <2> QED  BY <2>1, <2>2
<1> QED  BY <1>1, <1>3 DEF TextRec

\* The remapped texts of a node.
Remapped(s, op) == [j \in DOMAIN s |-> RemapText(s[j], op)]

LEMMA RemappedIs ==
    ASSUME NEW s, IsSeq(s), NEW op
    PROVE  /\ IsSeq(Remapped(s, op)) /\ Each(Remapped(s, op)) = Remapped(s, op)
           /\ DOMAIN Remapped(s, op) = DOMAIN s
           /\ \A j \in DOMAIN s : Remapped(s, op)[j] = RemapText(s[j], op)
<1> DEFINE w == Remapped(s, op)
<1>0. Len(s) \in Nat /\ DOMAIN s = 1..Len(s)
  BY Places
<1>1. DOMAIN w = DOMAIN s /\ \A j \in DOMAIN s : w[j] = RemapText(s[j], op)
  BY DEF Remapped
<1>2. w = [j \in 1..Len(s) |-> w[j]]
  <2>1. w = [j \in DOMAIN s |-> w[j]]
    BY Zenon DEF Remapped
  <2> HIDE DEF w
  <2> QED  BY <1>0, <2>1
<1> HIDE DEF w
<1>3. IsSeq(w)
  BY <1>0, <1>2, SeqFrom
<1>4. Each(w) = w
  BY <1>3, EachIs
<1> QED  BY <1>1, <1>3, <1>4 DEF w

LEMMA ContentRemapped ==
    ASSUME NEW s, Content(s), NEW op
    PROVE  Content(Remapped(s, op)) /\ TextsOf(Remapped(s, op)) = TextsOf(s)
<1>1. /\ IsSeq(Remapped(s, op))
      /\ DOMAIN Remapped(s, op) = DOMAIN s
      /\ \A j \in DOMAIN s : Remapped(s, op)[j] = RemapText(s[j], op)
  BY RemappedIs DEF Content
<1>2. \A j \in DOMAIN s : TextRec(RemapText(s[j], op)) /\ RemapText(s[j], op).id = s[j].id
  BY RemapTextIs DEF Content
<1> QED  BY <1>1, <1>2 DEF Content, TextsOf

LEMMA RemapNodeIs ==
    ASSUME NEW n, NodeRec(n), NEW op
    PROVE  LET m == RemapNode(n, op)
           IN  /\ NodeRec(m) /\ m.id = n.id /\ m.val = n.val
               /\ m.content = Each(Remapped(n.content, op))
               /\ m = n \/ m = [id |-> n.id, tok |-> op.id, val |-> n.val,
                                content |-> Each(Remapped(n.content, op))]
<1> DEFINE m == RemapNode(n, op)
<1>c. PICK content : content = Each(Remapped(n.content, op))
  OBVIOUS
<1>1. m = IF content = n.content THEN n ELSE [n EXCEPT !.content = content, !.tok = op.id]
  BY <1>c DEF RemapNode, Remapped
<1> HIDE DEF m
<1>2. n = [id |-> n.id, tok |-> n.tok, val |-> n.val, content |-> n.content]
  BY DEF NodeRec
<1>3. [n EXCEPT !.content = content, !.tok = op.id]
        = [id |-> n.id, tok |-> op.id, val |-> n.val, content |-> content]
  <2>1. PICK w : w = [n EXCEPT !.content = content, !.tok = op.id]
    OBVIOUS
  <2>2. w = [id |-> n.id, tok |-> op.id, val |-> n.val, content |-> content]
    BY <1>2, <2>1
  <2> QED  BY <2>1, <2>2
<1>4. CASE content = n.content
  <2>1. m = n
    BY <1>1, <1>4
  <2>2. NodeRec(m) /\ m.id = n.id /\ m.val = n.val /\ m.content = content
    BY <2>1, <1>4
  <2> QED  BY <2>1, <2>2, <1>c DEF m
<1>5. CASE content # n.content
  <2>1. m = [id |-> n.id, tok |-> op.id, val |-> n.val, content |-> content]
    BY <1>1, <1>3, <1>5
  <2>2. NodeRec(m) /\ m.id = n.id /\ m.val = n.val /\ m.content = content
    BY <2>1 DEF NodeRec
  <2> QED  BY <2>1, <2>2, <1>c DEF m
<1> QED  BY <1>4, <1>5

\* The tree itself, or every node of it remapped.
LEMMA RemapIs ==
    ASSUME NEW roots, Spine(roots), NEW op
    PROVE  LET w == remapDraftTargets(roots, op)
           IN  /\ SameNodes(w, roots)
               /\ op.type \notin {"remove", "merge_text"} => w = roots
               /\ op.type \in {"remove", "merge_text"} =>
                    \A k \in DOMAIN roots : w[k] = RemapNode(roots[k], op)
<1> DEFINE w == [i \in DOMAIN roots |-> RemapNode(roots[i], op)]
<1>0. Len(roots) \in Nat /\ DOMAIN roots = 1..Len(roots)
  BY Places DEF Spine
<1>1. DOMAIN w = DOMAIN roots /\ \A k \in DOMAIN roots : w[k] = RemapNode(roots[k], op)
  OBVIOUS
<1>d. remapDraftTargets(roots, op) = IF op.type \in {"remove", "merge_text"} THEN Each(w)
                                     ELSE roots
  BY DEF remapDraftTargets
<1>2. w = [k \in 1..Len(roots) |-> w[k]]
  <2>1. w = [k \in DOMAIN roots |-> w[k]]
    BY Zenon
  <2> HIDE DEF w
  <2> QED  BY <1>0, <2>1
<1> HIDE DEF w
<1>3. IsSeq(w) /\ Len(w) = Len(roots)
  BY <1>0, <1>2, SeqFrom
<1>4. Each(w) = w
  BY <1>3, EachIs
<1>5. \A k \in DOMAIN roots : NodeRec(w[k]) /\ w[k].id = roots[k].id
  BY <1>1, RemapNodeIs DEF Spine
<1>6. SameNodes(w, roots)
  BY <1>1, <1>3, <1>5 DEF SameNodes
<1>7. SameNodes(roots, roots)
  BY DEF SameNodes, Spine
<1> QED  BY <1>d, <1>1, <1>4, <1>6, <1>7

\* The operation brings in a node of a new id at a place that exists, or moves one there.
Placed(roots, op) ==
    /\ op.type \in Types
    /\ op.type = "insert_root" => /\ op.position \in 1..Len(roots) + 1
                                  /\ NewUnit(op.id) \notin NodeIds(roots)
    /\ op.type = "move_root" => /\ IsNode(roots, op.targetId)
                                /\ op.position \in 1..Len(roots)

NewNodes(op) == IF op.type = "insert_root" THEN {NewUnit(op.id)} ELSE {}

LEMMA EditedSpine ==
    ASSUME NEW roots, Spine(roots), NEW op, Placed(roots, op)
    PROVE  /\ Spine(Edited(roots, op))
           /\ NodeIds(Edited(roots, op)) \subseteq NodeIds(roots) \cup NewNodes(op)
<1> DEFINE w == Edited(roots, op)
<1>0. Len(roots) \in Nat /\ DOMAIN roots = 1..Len(roots)
  BY Places DEF Spine
<1>d. ASSUME NEW t, NEW o PROVE SameNodes(Detached(roots, t, o), roots)
  BY SpineRewritten DEF Detached
<1>1. CASE op.type \in {"replace_text", "set_metadata", "insert_text", "split_text", "merge_text"}
  <2>1. w = SetMetadata(roots, op) \/ \E i, content : w = WithContent(roots, i, content, op)
    <3>1. CASE op.type = "replace_text"
      BY <3>1, EditedIs DEF ReplaceText
    <3>2. CASE op.type = "set_metadata"
      BY <3>2, EditedIs
    <3>3. CASE op.type = "insert_text"
      BY <3>3, EditedIs DEF InsertText
    <3>4. CASE op.type = "split_text"
      BY <3>4, EditedIs DEF splitEntry
    <3>5. CASE op.type = "merge_text"
      BY <3>5, EditedIs DEF mergeEntries
    <3> QED  BY <1>1, <3>1, <3>2, <3>3, <3>4, <3>5
  <2>2. SameNodes(w, roots)
    BY <2>1, SpineRewritten, MetadataSet
  <2> QED  BY <2>2, SpineSame
<1>2. CASE op.type = "move"
  <2>1. Spine(Detached(roots, op.targetId, op))
        /\ NodeIds(Detached(roots, op.targetId, op)) = NodeIds(roots)
    BY <1>d, SpineSame
  <2>2. PICK i, content : w = WithContent(Detached(roots, op.targetId, op), i, content, op)
    BY <1>2, EditedIs DEF MoveEntry
  <2>3. SameNodes(w, Detached(roots, op.targetId, op))
    BY <2>1, <2>2, SpineRewritten
  <2> QED  BY <2>1, <2>3, SpineSame
<1>3. CASE op.type = "insert_root"
  <2>1. PICK n : n = [id |-> NewUnit(op.id), tok |-> op.id, val |-> <<>>, content |-> <<>>]
    OBVIOUS
  <2>2. NodeRec(n) /\ n.id = NewUnit(op.id)
    BY <2>1 DEF NodeRec
  <2>3. w = InsertAt(roots, op.position, n)
    BY <2>1, <1>3, EditedIs DEF InsertRoot
  <2>4. op.position \in 1..Len(roots) + 1 /\ n.id \notin NodeIds(roots)
    BY <1>3, <2>2 DEF Placed
  <2>p. PICK p : p = op.position
    OBVIOUS
  <2>q. p \in 1..Len(roots) + 1
    BY <2>4, <2>p
  <2>s. Spine(InsertAt(roots, p, n)) /\ NodeIds(InsertAt(roots, p, n)) = NodeIds(roots) \cup {n.id}
    BY <2>2, <2>4, <2>q, SpineInserted
  <2>5. Spine(w) /\ NodeIds(w) = NodeIds(roots) \cup {n.id}
    BY <2>p, <2>s, <2>3
  <2> QED  BY <1>3, <2>2, <2>5 DEF NewNodes
<1>4. CASE op.type = "move_root"
  <2>1. PICK i : i = At(roots, op.targetId)
    OBVIOUS
  <2>2. i \in DOMAIN roots /\ IsNode(roots, op.targetId) /\ op.position \in 1..Len(roots)
    BY <1>4, <2>1, NodePlace DEF Placed
  <2>3. PICK rest : rest = RemoveAt(roots, i)
    OBVIOUS
  <2>4. Spine(rest) /\ NodeIds(rest) = NodeIds(roots) \ {roots[i].id}
    BY <2>2, <2>3, SpineRemoved
  <2>5. Len(rest) = Len(roots) - 1
    BY <1>0, <2>2, <2>3, RemovedAt DEF Spine
  <2>6. op.position \in 1..Len(rest) + 1
    BY <1>0, <2>2, <2>5
  <2>7. w = InsertAt(rest, op.position, roots[i])
    BY <1>4, <2>1, <2>3, EditedIs DEF MoveRoot, NodeOf
  <2>8. NodeRec(roots[i]) /\ roots[i].id \in NodeIds(roots)
    BY <2>2 DEF Spine, NodeIds
  <2>a. roots[i].id \notin NodeIds(rest)
    BY <2>4
  <2>p. PICK p : p = op.position
    OBVIOUS
  <2>q. p \in 1..Len(rest) + 1
    BY <2>6, <2>p
  <2>s. /\ Spine(InsertAt(rest, p, roots[i]))
        /\ NodeIds(InsertAt(rest, p, roots[i])) = NodeIds(rest) \cup {roots[i].id}
    BY <2>a, <2>4, <2>8, <2>q, SpineInserted
  <2>9. Spine(w) /\ NodeIds(w) = NodeIds(rest) \cup {roots[i].id}
    BY <2>p, <2>s, <2>7
  <2> QED  BY <2>4, <2>8, <2>9
<1>5. CASE op.type = "remove"
  <2>1. CASE IsNode(roots, op.targetId)
    <3>1. w = RemoveAt(roots, At(roots, op.targetId))
      BY <1>5, <2>1, EditedIs DEF RemoveUnit
    <3>2. At(roots, op.targetId) \in DOMAIN roots
      BY <2>1, NodePlace
    <3> QED  BY <3>1, <3>2, SpineRemoved
  <2>2. CASE ~IsNode(roots, op.targetId)
    <3>1. w = Detached(roots, op.targetId, op)
      BY <1>5, <2>2, EditedIs DEF RemoveUnit
    <3> QED  BY <3>1, <1>d, SpineSame
  <2> QED  BY <2>1, <2>2
<1> QED  BY <1>1, <1>2, <1>3, <1>4, <1>5 DEF Placed, Types

LEMMA ApplySpine ==
    ASSUME NEW roots, Spine(roots), NEW op, Placed(roots, op)
    PROVE  /\ Spine(applyOperation(roots, op))
           /\ NodeIds(applyOperation(roots, op)) \subseteq NodeIds(roots) \cup NewNodes(op)
<1>1. /\ Spine(Edited(roots, op))
      /\ NodeIds(Edited(roots, op)) \subseteq NodeIds(roots) \cup NewNodes(op)
  BY EditedSpine
<1>2. SameNodes(applyOperation(roots, op), Edited(roots, op))
  BY <1>1, ApplyIs, RemapIs
<1> QED  BY <1>1, <1>2, SpineSame

(***************************************************************************)
(* One operation: it leaves a draft a draft.                               *)
(***************************************************************************)
Tree(roots) == Spine(roots) /\ Bodies(roots)

\* Nodes that hold the same texts, perhaps with other words, tokens and references.
SameTexts(w, s) ==
    /\ SameNodes(w, s)
    /\ \A k \in DOMAIN s : Content(w[k].content) /\ TextsOf(w[k].content) = TextsOf(s[k].content)

LEMMA TreeSame ==
    ASSUME NEW roots, Tree(roots), NEW w, SameTexts(w, roots)
    PROVE  Tree(w) /\ Units(w) = Units(roots)
<1>1. Spine(w) /\ NodeIds(w) = NodeIds(roots)
  BY SpineSame DEF Tree, SameTexts
<1>2. DOMAIN w = DOMAIN roots /\ \A k \in DOMAIN roots : w[k].id = roots[k].id
  BY DEF SameTexts, SameNodes
<1>3. Bodies(w)
  <2>1. \A k \in DOMAIN w : Content(w[k].content) /\ TextsOf(w[k].content) = TextsOf(roots[k].content)
    BY <1>2 DEF SameTexts
  <2> QED  BY <1>2, <2>1 DEF Tree, Bodies
<1>4. \A u : u \in Units(w) <=> u \in Units(roots)
  BY <1>1, <1>2, UnitsAre DEF SameTexts
<1> QED  BY <1>1, <1>3, <1>4 DEF Tree

LEMMA TreeRemoved ==
    ASSUME NEW roots, Tree(roots), NEW i \in DOMAIN roots
    PROVE  LET w == RemoveAt(roots, i)
           IN  /\ Tree(w)
               /\ Units(w) \subseteq Units(roots)
               /\ roots[i].id \notin Units(w)
               /\ TextsOf(roots[i].content) \cap Units(w) = {}
<1>1. PICK w : w = RemoveAt(roots, i)
  OBVIOUS
<1>2. Spine(w)
  BY <1>1, SpineRemoved DEF Tree
<1>3. PICK a \in [DOMAIN w -> DOMAIN roots] :
         /\ \A k \in DOMAIN w : a[k] # i /\ w[k] = roots[a[k]]
         /\ \A k, m \in DOMAIN w : a[k] = a[m] => k = m
  BY <1>1, RemovedIsWithout DEF Without, Tree, Spine
<1>4. Bodies(w)
  BY <1>3 DEF Bodies, Tree
<1>5. \A u : u \in Units(w) => \E k \in DOMAIN roots :
                                 k # i /\ (u = roots[k].id \/ u \in TextsOf(roots[k].content))
  <2> TAKE u
  <2>1. u \in Units(w) => \/ \E k \in DOMAIN w : u = w[k].id
                          \/ \E k \in DOMAIN w : u \in TextsOf(w[k].content)
    BY UnitsAre DEF NodeIds
  <2> QED  BY <1>3, <2>1
<1>6. Units(w) \subseteq Units(roots)
  BY <1>5, UnitsAre DEF NodeIds
<1>7. roots[i].id \notin Units(w)
  BY <1>5 DEF Tree, Bodies, Spine
<1>8. TextsOf(roots[i].content) \cap Units(w) = {}
  BY <1>5 DEF Tree, Bodies
<1> QED  BY <1>1, <1>2, <1>4, <1>6, <1>7, <1>8 DEF Tree

LEMMA TreeInserted ==
    ASSUME NEW roots, Tree(roots), NEW p \in 1..Len(roots) + 1, NEW n, NodeRec(n),
           Content(n.content), n.id \notin Units(roots), n.id \notin TextsOf(n.content),
           TextsOf(n.content) \cap Units(roots) = {}
    PROVE  LET w == InsertAt(roots, p, n)
           IN  Tree(w) /\ Units(w) \subseteq Units(roots) \cup {n.id} \cup TextsOf(n.content)
<1>1. PICK w : w = InsertAt(roots, p, n)
  OBVIOUS
<1>2. Spine(w)
  <2>1. n.id \notin NodeIds(roots)
    BY UnitsAre
  <2> QED  BY <1>1, <2>1, SpineInserted DEF Tree
<1>0. With(w, roots, p, n)
  BY <1>1, InsertedIsWith DEF Tree, Spine
<1>3. PICK a \in [DOMAIN w -> DOMAIN roots \cup {0}] :
         /\ \A k \in DOMAIN w : k # p => a[k] \in DOMAIN roots /\ w[k] = roots[a[k]]
         /\ \A k, m \in DOMAIN w : k # p /\ m # p /\ a[k] = a[m] => k = m
  BY <1>0 DEF With
<1>p. p \in DOMAIN w /\ w[p] = n
  BY <1>0 DEF With
<1>n. \A i \in DOMAIN roots :
        /\ roots[i].id # n.id /\ n.id \notin TextsOf(roots[i].content)
        /\ roots[i].id \notin TextsOf(n.content)
        /\ TextsOf(roots[i].content) \cap TextsOf(n.content) = {}
  BY UnitsAre DEF NodeIds
<1>4. Bodies(w)
  <2>1. \A k \in DOMAIN w : Content(w[k].content)
    BY <1>3, <1>p DEF Bodies, Tree
  <2>2. ASSUME NEW k \in DOMAIN w, NEW m \in DOMAIN w
        PROVE  /\ w[m].id \notin TextsOf(w[k].content)
               /\ k # m => TextsOf(w[k].content) \cap TextsOf(w[m].content) = {}
    <3>1. CASE k = p /\ m = p
      BY <3>1, <1>p
    <3>2. CASE k = p /\ m # p
      BY <3>2, <1>p, <1>3, <1>n
    <3>3. CASE k # p /\ m = p
      BY <3>3, <1>p, <1>3, <1>n
    <3>4. CASE k # p /\ m # p
      BY <3>4, <1>3 DEF Tree, Bodies
    <3> QED  BY <3>1, <3>2, <3>3, <3>4
  <2> QED  BY <2>1, <2>2 DEF Bodies
<1>5. \A u : u \in Units(w) => u \in Units(roots) \/ u = n.id \/ u \in TextsOf(n.content)
  <2> TAKE u
  <2>1. u \in Units(w) => \/ \E k \in DOMAIN w : u = w[k].id
                          \/ \E k \in DOMAIN w : u \in TextsOf(w[k].content)
    BY UnitsAre DEF NodeIds
  <2>2. \A i \in DOMAIN roots : roots[i].id \in Units(roots)
                                /\ TextsOf(roots[i].content) \subseteq Units(roots)
    BY UnitsAre DEF NodeIds
  <2> QED  BY <1>3, <1>p, <2>1, <2>2
<1> QED  BY <1>1, <1>2, <1>4, <1>5 DEF Tree

LEMMA TreeRewritten ==
    ASSUME NEW roots, Tree(roots), NEW i \in DOMAIN roots, NEW content, Content(content), NEW op,
           \A u \in TextsOf(content) : u \in TextsOf(roots[i].content) \/ u \notin Units(roots)
    PROVE  LET w == WithContent(roots, i, content, op)
           IN  /\ Tree(w)
               /\ \A u \in Units(w) : \/ u \in Units(roots) /\ u \notin TextsOf(roots[i].content)
                                      \/ u \in TextsOf(content)
<1>1. PICK w : w = WithContent(roots, i, content, op)
  OBVIOUS
<1>2. DOMAIN w = DOMAIN roots
      /\ \A k \in DOMAIN roots : w[k] = IF k = i THEN Rewritten(roots[i], content, op) ELSE roots[k]
  BY <1>1, ContentGiven DEF Tree
<1>3. Spine(w) /\ \A k \in DOMAIN roots : w[k].id = roots[k].id
  <2>1. SameNodes(w, roots)
    BY <1>1, SpineRewritten DEF Tree
  <2> QED  BY <2>1, SpineSame DEF Tree, SameNodes
<1>4. w[i].content = content /\ \A k \in DOMAIN roots : k # i => w[k].content = roots[k].content
  BY <1>2 DEF Rewritten
<1>u. \A k \in DOMAIN roots : roots[k].id \in Units(roots)
                              /\ TextsOf(roots[k].content) \subseteq Units(roots)
  BY UnitsAre DEF NodeIds
<1>5. Bodies(w)
  <2>1. \A k \in DOMAIN w : Content(w[k].content)
    BY <1>2, <1>4 DEF Tree, Bodies
  <2>2. ASSUME NEW k \in DOMAIN roots, NEW m \in DOMAIN roots
        PROVE  w[m].id \notin TextsOf(w[k].content)
    BY <1>3, <1>4, <1>u DEF Tree, Bodies
  <2>3. ASSUME NEW k \in DOMAIN roots, NEW m \in DOMAIN roots, k # m
        PROVE  TextsOf(w[k].content) \cap TextsOf(w[m].content) = {}
    <3>1. CASE k # i /\ m # i
      BY <3>1, <2>3, <1>4 DEF Tree, Bodies
    <3>2. CASE k = i
      BY <3>2, <2>3, <1>4, <1>u DEF Tree, Bodies
    <3>3. CASE m = i
      BY <3>3, <2>3, <1>4, <1>u DEF Tree, Bodies
    <3> QED  BY <3>1, <3>2, <3>3
  <2> QED  BY <1>2, <2>1, <2>2, <2>3 DEF Bodies
<1>6. ASSUME NEW u \in Units(w)
      PROVE  \/ u \in Units(roots) /\ u \notin TextsOf(roots[i].content)
             \/ u \in TextsOf(content)
  <2>1. \/ \E k \in DOMAIN roots : u = w[k].id
        \/ \E k \in DOMAIN roots : u \in TextsOf(w[k].content)
    BY <1>2, <1>6, UnitsAre DEF NodeIds
  <2>2. CASE \E k \in DOMAIN roots : u = w[k].id
    BY <2>2, <1>3, <1>u DEF Tree, Bodies
  <2>3. CASE \E k \in DOMAIN roots : u \in TextsOf(w[k].content)
    <3>1. PICK k \in DOMAIN roots : u \in TextsOf(w[k].content)
      BY <2>3
    <3>2. CASE k = i
      BY <3>1, <3>2, <1>4
    <3>3. CASE k # i
      BY <3>1, <3>3, <1>4, <1>u DEF Tree, Bodies
    <3> QED  BY <3>2, <3>3
  <2> QED  BY <2>1, <2>2, <2>3
<1> QED  BY <1>1, <1>3, <1>5, <1>6 DEF Tree

LEMMA TreeRemapped ==
    ASSUME NEW roots, Tree(roots), NEW op
    PROVE  /\ Tree(remapDraftTargets(roots, op))
           /\ Units(remapDraftTargets(roots, op)) = Units(roots)
<1>1. CASE op.type \notin {"remove", "merge_text"}
  BY <1>1, RemapIs DEF Tree
<1>2. CASE op.type \in {"remove", "merge_text"}
  <2>1. PICK w : w = remapDraftTargets(roots, op)
    OBVIOUS
  <2>2. SameNodes(w, roots) /\ \A k \in DOMAIN roots : w[k] = RemapNode(roots[k], op)
    BY <1>2, <2>1, RemapIs DEF Tree
  <2>3. ASSUME NEW k \in DOMAIN roots
        PROVE  Content(w[k].content) /\ TextsOf(w[k].content) = TextsOf(roots[k].content)
    <3>1. Content(roots[k].content) /\ NodeRec(roots[k])
      BY DEF Tree, Spine, Bodies
    <3>2. w[k].content = Each(Remapped(roots[k].content, op))
      BY <2>2, <3>1, RemapNodeIs
    <3>3. w[k].content = Remapped(roots[k].content, op)
      BY <3>1, <3>2, RemappedIs DEF Content
    <3> QED  BY <3>1, <3>3, ContentRemapped
  <2>4. SameTexts(w, roots)
    BY <2>2, <2>3 DEF SameTexts
  <2> QED  BY <2>1, <2>4, TreeSame
<1> QED  BY <1>1, <1>2

LEMMA HeldAt ==
    ASSUME NEW roots, Tree(roots), NEW t, Holder(roots, t) # 0
    PROVE  LET i == Holder(roots, t)
               j == At(roots[i].content, t)
           IN  /\ i \in DOMAIN roots /\ Content(roots[i].content)
               /\ j \in DOMAIN roots[i].content
               /\ roots[i].content[j].id = t
               /\ TextRec(roots[i].content[j])
               /\ t \in TextsOf(roots[i].content) /\ t \in Units(roots) /\ ~IsNode(roots, t)
               /\ TextOf(roots, t) = roots[i].content[j]
<1>1. PICK i : i = Holder(roots, t)
  OBVIOUS
<1>2. i \in DOMAIN roots /\ \E j \in DOMAIN roots[i].content : roots[i].content[j].id = t
  BY <1>1, TextPlace
<1>3. PICK j \in DOMAIN roots[i].content : roots[i].content[j].id = t
  BY <1>2
<1>4. At(roots[i].content, t) = j /\ ~IsNode(roots, t) /\ TextOf(roots, t) = roots[i].content[j]
  BY <1>2, <1>3, TextAt DEF Tree
<1>5. t \in TextsOf(roots[i].content)
  BY <1>3 DEF TextsOf
<1>6. Content(roots[i].content) /\ TextRec(roots[i].content[j])
  BY <1>2, <1>3 DEF Tree, Bodies, Content
<1>7. t \in Units(roots)
  BY <1>2, <1>5, UnitsAre
<1> QED  BY <1>1, <1>2, <1>3, <1>4, <1>5, <1>6, <1>7

LEMMA TreeDetached ==
    ASSUME NEW roots, Tree(roots), NEW t, Holder(roots, t) # 0, NEW op
    PROVE  /\ Tree(Detached(roots, t, op))
           /\ SameNodes(Detached(roots, t, op), roots)
           /\ Units(Detached(roots, t, op)) \subseteq Units(roots) \ {t}
<1>1. PICK i : i = Holder(roots, t)
  OBVIOUS
<1>2. PICK j : j = At(roots[i].content, t)
  OBVIOUS
<1>3. /\ i \in DOMAIN roots /\ Content(roots[i].content) /\ j \in DOMAIN roots[i].content
      /\ roots[i].content[j].id = t /\ t \in TextsOf(roots[i].content)
  BY <1>1, <1>2, HeldAt
<1>4. PICK content : content = RemoveAt(roots[i].content, j)
  OBVIOUS
<1>5. Content(content) /\ TextsOf(content) = TextsOf(roots[i].content) \ {t}
  BY <1>3, <1>4, ContentRemoved
<1>6. Detached(roots, t, op) = WithContent(roots, i, content, op)
  BY <1>1, <1>2, <1>4 DEF Detached
<1>7. /\ Tree(WithContent(roots, i, content, op))
      /\ \A u \in Units(WithContent(roots, i, content, op)) :
            \/ u \in Units(roots) /\ u \notin TextsOf(roots[i].content)
            \/ u \in TextsOf(content)
  BY <1>3, <1>5, TreeRewritten
<1>8. TextsOf(roots[i].content) \subseteq Units(roots)
  BY <1>3, UnitsAre
<1>9. SameNodes(WithContent(roots, i, content, op), roots)
  BY SpineRewritten DEF Tree
<1> QED  BY <1>3, <1>5, <1>6, <1>7, <1>8, <1>9

\* The operation is carried out on a draft, and brings in no unit but its own.
Grows(w, roots, op) == Tree(w) /\ \A u \in Units(w) : u \in Units(roots) \/ u = NewUnit(op.id)

LEMMA TreeTextReplaced ==
    ASSUME NEW roots, Tree(roots), NEW op, Holder(roots, op.targetId) # 0
    PROVE  Grows(ReplaceText(roots, op), roots, op)
<1>1. PICK i : i = Holder(roots, op.targetId)
  OBVIOUS
<1>2. PICK j : j = At(roots[i].content, op.targetId)
  OBVIOUS
<1>3. /\ i \in DOMAIN roots /\ Content(roots[i].content) /\ j \in DOMAIN roots[i].content
      /\ TextRec(roots[i].content[j])
  BY <1>1, <1>2, HeldAt
<1>4. PICK t : t = [roots[i].content[j] EXCEPT !.val = op.text, !.refs = op.references, !.tok = op.id]
  OBVIOUS
<1>5. TextRec(t) /\ t.id = roots[i].content[j].id
  <2>1. PICK x : x = roots[i].content[j]
    OBVIOUS
  <2>2. PICK a, b, c : a = op.text /\ b = op.references /\ c = op.id
    OBVIOUS
  <2>3. t = [x EXCEPT !.val = a, !.refs = b, !.tok = c]
    BY <1>4, <2>1, <2>2
  <2>4. TextRec(x)
    BY <1>3, <2>1
  <2>5. t = [id |-> x.id, tok |-> c, val |-> a, refs |-> b]
    BY <2>3, <2>4 DEF TextRec
  <2> QED  BY <2>1, <2>5 DEF TextRec
<1>6. PICK content : content = ReplaceAt(roots[i].content, j, t)
  OBVIOUS
<1>7. Content(content) /\ TextsOf(content) = TextsOf(roots[i].content)
  BY <1>3, <1>5, <1>6, ContentReplaced
<1>8. ReplaceText(roots, op) = WithContent(roots, i, content, op)
  BY <1>1, <1>2, <1>4, <1>6 DEF ReplaceText
<1>9. /\ Tree(WithContent(roots, i, content, op))
      /\ \A u \in Units(WithContent(roots, i, content, op)) :
            \/ u \in Units(roots) /\ u \notin TextsOf(roots[i].content)
            \/ u \in TextsOf(content)
  BY <1>3, <1>7, TreeRewritten
<1> QED  BY <1>3, <1>7, <1>8, <1>9, UnitsAre DEF Grows

LEMMA TreeTextInserted ==
    ASSUME NEW roots, Tree(roots), NEW op, IsNode(roots, op.targetId),
           op.position \in 1..Len(NodeOf(roots, op.targetId).content) + 1,
           NewUnit(op.id) \notin Units(roots)
    PROVE  Grows(InsertText(roots, op), roots, op)
<1>1. PICK i : i = At(roots, op.targetId)
  OBVIOUS
<1>2. i \in DOMAIN roots /\ NodeOf(roots, op.targetId) = roots[i]
  BY <1>1, NodePlace DEF NodeOf
<1>3. Content(roots[i].content) /\ TextsOf(roots[i].content) \subseteq Units(roots)
  BY <1>2, UnitsAre DEF Tree, Bodies
<1>4. PICK t : t = [id |-> NewUnit(op.id), tok |-> op.id, val |-> op.text, refs |-> {}]
  OBVIOUS
<1>5. TextRec(t) /\ t.id = NewUnit(op.id)
  BY <1>4 DEF TextRec
<1>p. PICK p : p = op.position
  OBVIOUS
<1>6. PICK content : content = InsertAt(roots[i].content, p, t)
  OBVIOUS
<1>q. p \in 1..Len(roots[i].content) + 1 /\ t.id \notin TextsOf(roots[i].content)
  BY <1>2, <1>3, <1>5, <1>p
<1>7. Content(content) /\ TextsOf(content) = TextsOf(roots[i].content) \cup {t.id}
  BY <1>3, <1>5, <1>6, <1>q, ContentInserted
<1>8. InsertText(roots, op) = WithContent(roots, i, content, op)
  BY <1>1, <1>4, <1>6, <1>p DEF InsertText
<1>u. \A u \in TextsOf(content) : u \in TextsOf(roots[i].content) \/ u \notin Units(roots)
  BY <1>5, <1>7
<1>9. /\ Tree(WithContent(roots, i, content, op))
      /\ \A u \in Units(WithContent(roots, i, content, op)) :
            \/ u \in Units(roots) /\ u \notin TextsOf(roots[i].content)
            \/ u \in TextsOf(content)
  BY <1>2, <1>7, <1>u, TreeRewritten
<1> QED  BY <1>3, <1>5, <1>7, <1>8, <1>9 DEF Grows

LEMMA TreeNodeInserted ==
    ASSUME NEW roots, Tree(roots), NEW op, op.position \in 1..Len(roots) + 1,
           NewUnit(op.id) \notin Units(roots)
    PROVE  Grows(InsertRoot(roots, op), roots, op)
<1>1. PICK n : n = [id |-> NewUnit(op.id), tok |-> op.id, val |-> <<>>, content |-> <<>>]
  OBVIOUS
<1>2. NodeRec(n) /\ n.id = NewUnit(op.id) /\ n.content = <<>>
  BY <1>1 DEF NodeRec
<1>3. Content(n.content) /\ TextsOf(n.content) = {}
  BY <1>2, EmptyIsSeq DEF Content, TextsOf
<1>p. PICK p : p = op.position
  OBVIOUS
<1>q. p \in 1..Len(roots) + 1
  BY <1>p
<1>4. InsertRoot(roots, op) = InsertAt(roots, p, n)
  BY <1>1, <1>p DEF InsertRoot
<1>5. /\ Tree(InsertAt(roots, p, n))
      /\ Units(InsertAt(roots, p, n)) \subseteq Units(roots) \cup {n.id} \cup TextsOf(n.content)
  BY <1>2, <1>3, <1>q, TreeInserted
<1> QED  BY <1>2, <1>3, <1>4, <1>5 DEF Grows

LEMMA TreeNodeMoved ==
    ASSUME NEW roots, Tree(roots), NEW op, IsNode(roots, op.targetId),
           op.position \in 1..Len(roots)
    PROVE  Grows(MoveRoot(roots, op), roots, op)
<1>0. Len(roots) \in Nat /\ DOMAIN roots = 1..Len(roots)
  BY Places DEF Tree, Spine
<1>1. PICK i : i = At(roots, op.targetId)
  OBVIOUS
<1>2. i \in DOMAIN roots /\ NodeOf(roots, op.targetId) = roots[i]
  BY <1>1, NodePlace DEF NodeOf
<1>3. PICK rest : rest = RemoveAt(roots, i)
  OBVIOUS
<1>4. /\ Tree(rest)
      /\ Units(rest) \subseteq Units(roots)
      /\ roots[i].id \notin Units(rest)
      /\ TextsOf(roots[i].content) \cap Units(rest) = {}
  BY <1>2, <1>3, TreeRemoved
<1>5. Len(rest) = Len(roots) - 1
  BY <1>0, <1>2, <1>3, RemovedAt DEF Tree, Spine
<1>p. PICK p : p = op.position
  OBVIOUS
<1>q. p \in 1..Len(rest) + 1
  BY <1>0, <1>5, <1>p
<1>6. MoveRoot(roots, op) = InsertAt(rest, p, roots[i])
  BY <1>1, <1>2, <1>3, <1>p DEF MoveRoot
<1>7. /\ NodeRec(roots[i]) /\ Content(roots[i].content)
      /\ roots[i].id \notin TextsOf(roots[i].content)
  BY <1>2 DEF Tree, Spine, Bodies
<1>8. /\ Tree(InsertAt(rest, p, roots[i]))
      /\ Units(InsertAt(rest, p, roots[i]))
           \subseteq Units(rest) \cup {roots[i].id} \cup TextsOf(roots[i].content)
  BY <1>4, <1>7, <1>q, TreeInserted
<1>9. roots[i].id \in Units(roots) /\ TextsOf(roots[i].content) \subseteq Units(roots)
  BY <1>2, UnitsAre DEF NodeIds
<1> QED  BY <1>4, <1>6, <1>8, <1>9 DEF Grows

LEMMA TreeTextMoved ==
    ASSUME NEW roots, Tree(roots), NEW op, Holder(roots, op.targetId) # 0,
           IsNode(roots, op.destinationParentId),
           op.position \in 1..Len(NodeOf(Detached(roots, op.targetId, op),
                                         op.destinationParentId).content) + 1
    PROVE  Grows(MoveEntry(roots, op), roots, op)
<1>1. PICK retained : retained = Detached(roots, op.targetId, op)
  OBVIOUS
<1>2. /\ Tree(retained) /\ SameNodes(retained, roots)
      /\ Units(retained) \subseteq Units(roots) \ {op.targetId}
  BY <1>1, TreeDetached
<1>3. PICK t : t = TextOf(roots, op.targetId)
  OBVIOUS
<1>4. TextRec(t) /\ t.id = op.targetId /\ op.targetId \in Units(roots)
  <2>1. PICK i : i = Holder(roots, op.targetId)
    OBVIOUS
  <2> QED  BY <1>3, <2>1, HeldAt
<1>5. PICK i : i = At(retained, op.destinationParentId)
  OBVIOUS
<1>6. i \in DOMAIN retained /\ NodeOf(retained, op.destinationParentId) = retained[i]
  <2>1. PICK k \in DOMAIN roots : roots[k].id = op.destinationParentId
    BY NodePlace
  <2>2. k \in DOMAIN retained /\ retained[k].id = op.destinationParentId
    BY <1>2, <2>1 DEF SameNodes
  <2>3. At(retained, retained[k].id) = k
    BY <1>2, <2>2, NodeAt DEF Tree
  <2> QED  BY <1>5, <2>2, <2>3 DEF NodeOf
<1>p. PICK p : p = op.position
  OBVIOUS
<1>7. PICK content : content = InsertAt(retained[i].content, p, t)
  OBVIOUS
<1>8. Content(retained[i].content) /\ TextsOf(retained[i].content) \subseteq Units(retained)
  BY <1>2, <1>6, UnitsAre DEF Tree, Bodies
<1>q. p \in 1..Len(retained[i].content) + 1 /\ t.id \notin TextsOf(retained[i].content)
  BY <1>1, <1>2, <1>4, <1>6, <1>8, <1>p
<1>9. Content(content) /\ TextsOf(content) = TextsOf(retained[i].content) \cup {t.id}
  BY <1>4, <1>7, <1>8, <1>q, ContentInserted
<1>10. MoveEntry(roots, op) = WithContent(retained, i, content, op)
  BY <1>1, <1>3, <1>5, <1>7, <1>p DEF MoveEntry
<1>u. \A u \in TextsOf(content) : u \in TextsOf(retained[i].content) \/ u \notin Units(retained)
  BY <1>2, <1>4, <1>9
<1>11. /\ Tree(WithContent(retained, i, content, op))
       /\ \A u \in Units(WithContent(retained, i, content, op)) :
            \/ u \in Units(retained) /\ u \notin TextsOf(retained[i].content)
            \/ u \in TextsOf(content)
  BY <1>2, <1>6, <1>9, <1>u, TreeRewritten
<1> QED  BY <1>2, <1>4, <1>8, <1>9, <1>10, <1>11 DEF Grows

LEMMA TreeUnitRemoved ==
    ASSUME NEW roots, Tree(roots), NEW op, Present(roots, op.targetId)
    PROVE  Grows(RemoveUnit(roots, op), roots, op)
<1>1. CASE IsNode(roots, op.targetId)
  <2>1. PICK i : i = At(roots, op.targetId)
    OBVIOUS
  <2>2. i \in DOMAIN roots /\ RemoveUnit(roots, op) = RemoveAt(roots, i)
    BY <1>1, <2>1, NodePlace DEF RemoveUnit
  <2>3. Tree(RemoveAt(roots, i)) /\ Units(RemoveAt(roots, i)) \subseteq Units(roots)
    BY <2>2, TreeRemoved
  <2> QED  BY <2>2, <2>3 DEF Grows
<1>2. CASE ~IsNode(roots, op.targetId)
  <2>1. Holder(roots, op.targetId) # 0 /\ RemoveUnit(roots, op) = Detached(roots, op.targetId, op)
    BY <1>2 DEF Present, RemoveUnit
  <2> QED  BY <2>1, TreeDetached DEF Grows
<1> QED  BY <1>1, <1>2

LEMMA TreeTextSplit ==
    ASSUME NEW roots, Tree(roots), NEW op, Holder(roots, op.targetId) # 0,
           NewUnit(op.id) \notin Units(roots)
    PROVE  Grows(splitEntry(roots, op), roots, op)
<1>1. PICK i : i = Holder(roots, op.targetId)
  OBVIOUS
<1>2. PICK j : j = At(roots[i].content, op.targetId)
  OBVIOUS
<1>3. /\ i \in DOMAIN roots /\ Content(roots[i].content) /\ j \in DOMAIN roots[i].content
      /\ TextRec(roots[i].content[j])
  BY <1>1, <1>2, HeldAt
<1>t. PICK t : t = roots[i].content[j]
  OBVIOUS
<1>4. PICK head : head = [t EXCEPT !.val = SubSeq(@, 1, op.parts), !.tok = op.id]
  OBVIOUS
<1>5. TextRec(head) /\ head.id = t.id
  <2>1. PICK a, c : a = SubSeq(t.val, 1, op.parts) /\ c = op.id
    OBVIOUS
  <2>2. head = [t EXCEPT !.val = a, !.tok = c]
    BY <1>4, <2>1
  <2>3. TextRec(t)
    BY <1>3, <1>t
  <2>4. head = [id |-> t.id, tok |-> c, val |-> a, refs |-> t.refs]
    BY <2>2, <2>3 DEF TextRec
  <2> QED  BY <2>4 DEF TextRec
<1>6. PICK tail : tail = [id |-> NewUnit(op.id), tok |-> op.id, refs |-> {},
                          val |-> SubSeq(t.val, op.parts + 1, Len(t.val))]
  OBVIOUS
<1>7. TextRec(tail) /\ tail.id = NewUnit(op.id)
  BY <1>6 DEF TextRec
<1>8. PICK cut : cut = ReplaceAt(roots[i].content, j, head)
  OBVIOUS
<1>9. Content(cut) /\ TextsOf(cut) = TextsOf(roots[i].content)
  BY <1>3, <1>5, <1>8, <1>t, ContentReplaced
<1>10. j + 1 \in 1..Len(cut) + 1
  <2>1. Len(roots[i].content) \in Nat /\ DOMAIN roots[i].content = 1..Len(roots[i].content)
    BY <1>3, Places DEF Content
  <2>2. Len(cut) = Len(roots[i].content)
    BY <1>3, <1>8, ReplacedAt DEF Content
  <2> QED  BY <1>3, <2>1, <2>2
<1>p. PICK p : p = j + 1
  OBVIOUS
<1>11. PICK content : content = InsertAt(cut, p, tail)
  OBVIOUS
<1>u. TextsOf(roots[i].content) \subseteq Units(roots)
  BY <1>3, UnitsAre
<1>q. p \in 1..Len(cut) + 1 /\ tail.id \notin TextsOf(cut)
  BY <1>7, <1>9, <1>10, <1>p, <1>u
<1>12. Content(content) /\ TextsOf(content) = TextsOf(cut) \cup {tail.id}
  BY <1>7, <1>9, <1>11, <1>q, ContentInserted
<1>13. splitEntry(roots, op) = WithContent(roots, i, content, op)
  BY <1>1, <1>2, <1>t, <1>4, <1>6, <1>8, <1>p, <1>11 DEF splitEntry
<1>14. \A u \in TextsOf(content) : u \in TextsOf(roots[i].content) \/ u \notin Units(roots)
  BY <1>7, <1>9, <1>12
<1>15. /\ Tree(WithContent(roots, i, content, op))
       /\ \A u \in Units(WithContent(roots, i, content, op)) :
            \/ u \in Units(roots) /\ u \notin TextsOf(roots[i].content)
            \/ u \in TextsOf(content)
  BY <1>3, <1>12, <1>14, TreeRewritten
<1> QED  BY <1>7, <1>9, <1>12, <1>13, <1>15, <1>u DEF Grows

LEMMA TreeTextsMerged ==
    ASSUME NEW roots, Tree(roots), NEW op, Holder(roots, op.targetId) # 0,
           LET content == roots[Holder(roots, op.targetId)].content
           IN  At(content, op.targetId) < Len(content)
    PROVE  Grows(mergeEntries(roots, op), roots, op)
<1>1. PICK i : i = Holder(roots, op.targetId)
  OBVIOUS
<1>2. PICK j : j = At(roots[i].content, op.targetId)
  OBVIOUS
<1>3. /\ i \in DOMAIN roots /\ Content(roots[i].content) /\ j \in DOMAIN roots[i].content
      /\ TextRec(roots[i].content[j])
  BY <1>1, <1>2, HeldAt
<1>t. PICK t : t = roots[i].content[j]
  OBVIOUS
<1>u. PICK u : u = roots[i].content[j + 1]
  OBVIOUS
<1>4. PICK merged : merged = [t EXCEPT !.val = @ \o u.val, !.refs = @ \cup u.refs, !.tok = op.id]
  OBVIOUS
<1>5. TextRec(merged) /\ merged.id = t.id
  <2>1. PICK a, b, c : a = t.val \o u.val /\ b = t.refs \cup u.refs /\ c = op.id
    OBVIOUS
  <2>2. merged = [t EXCEPT !.val = a, !.refs = b, !.tok = c]
    BY <1>4, <2>1
  <2>3. TextRec(t)
    BY <1>3, <1>t
  <2>4. merged = [id |-> t.id, tok |-> c, val |-> a, refs |-> b]
    BY <2>2, <2>3 DEF TextRec
  <2> QED  BY <2>4 DEF TextRec
<1>6. PICK joined : joined = ReplaceAt(roots[i].content, j, merged)
  OBVIOUS
<1>7. Content(joined) /\ TextsOf(joined) = TextsOf(roots[i].content)
  BY <1>3, <1>5, <1>6, <1>t, ContentReplaced
<1>8. j + 1 \in DOMAIN joined
  <2>1. Len(roots[i].content) \in Nat /\ DOMAIN roots[i].content = 1..Len(roots[i].content)
    BY <1>3, Places DEF Content
  <2>2. DOMAIN joined = 1..Len(roots[i].content)
    BY <1>3, <1>6, ReplacedAt DEF Content
  <2>3. j < Len(roots[i].content)
    BY <1>1, <1>2
  <2> QED  BY <1>3, <2>1, <2>2, <2>3
<1>p. PICK p : p = j + 1
  OBVIOUS
<1>9. PICK content : content = RemoveAt(joined, p)
  OBVIOUS
<1>10. Content(content) /\ TextsOf(content) \subseteq TextsOf(roots[i].content)
  BY <1>7, <1>8, <1>9, <1>p, ContentRemoved
<1>11. mergeEntries(roots, op) = WithContent(roots, i, content, op)
  BY <1>1, <1>2, <1>t, <1>u, <1>4, <1>6, <1>9, <1>p DEF mergeEntries
<1>12. /\ Tree(WithContent(roots, i, content, op))
       /\ \A x \in Units(WithContent(roots, i, content, op)) :
            \/ x \in Units(roots) /\ x \notin TextsOf(roots[i].content)
            \/ x \in TextsOf(content)
  BY <1>3, <1>10, TreeRewritten
<1>13. TextsOf(roots[i].content) \subseteq Units(roots)
  BY <1>3, UnitsAre
<1> QED  BY <1>10, <1>11, <1>12, <1>13 DEF Grows

\* Operations that make something of a draft for which the service would not refuse them.
LEMMA EditedTree ==
    ASSUME NEW roots, Tree(roots), NEW op, op.type \in Types, InPlace(roots, op),
           NewUnit(op.id) \notin Units(roots)
    PROVE  Grows(Edited(roots, op), roots, op)
<1>1. CASE op.type = "replace_text"
  BY <1>1, EditedIs, TreeTextReplaced DEF InPlace
<1>2. CASE op.type = "set_metadata"
  <2>1. PICK w : w = SetMetadata(roots, op)
    OBVIOUS
  <2>2. /\ SameNodes(w, roots)
        /\ \A k \in DOMAIN roots : w[k].content = roots[k].content
    <3>1. PICK i : i = At(roots, op.targetId)
      OBVIOUS
    <3>2. PICK n : n = [id |-> roots[i].id, tok |-> op.id, val |-> op.text,
                        content |-> roots[i].content]
      OBVIOUS
    <3>3. /\ SameNodes(w, roots)
          /\ \A k \in DOMAIN roots : w[k] = IF k = i THEN n ELSE roots[k]
      BY <2>1, <3>1, <3>2, MetadataSet DEF Tree
    <3> QED  BY <3>2, <3>3
  <2>3. SameTexts(w, roots)
    BY <2>2 DEF SameTexts, Tree, Bodies
  <2>4. Tree(w) /\ Units(w) = Units(roots)
    BY <2>3, TreeSame
  <2> QED  BY <1>2, <2>1, <2>4, EditedIs DEF Grows
<1>3. CASE op.type = "insert_text"
  BY <1>3, EditedIs, TreeTextInserted DEF InPlace
<1>4. CASE op.type = "insert_root"
  BY <1>4, EditedIs, TreeNodeInserted DEF InPlace
<1>5. CASE op.type = "move_root"
  BY <1>5, EditedIs, TreeNodeMoved DEF InPlace
<1>6. CASE op.type = "move"
  BY <1>6, EditedIs, TreeTextMoved DEF InPlace
<1>7. CASE op.type = "remove"
  BY <1>7, EditedIs, TreeUnitRemoved DEF InPlace
<1>8. CASE op.type = "split_text"
  BY <1>8, EditedIs, TreeTextSplit DEF InPlace
<1>9. CASE op.type = "merge_text"
  BY <1>9, EditedIs, TreeTextsMerged DEF InPlace
<1> QED  BY <1>1, <1>2, <1>3, <1>4, <1>5, <1>6, <1>7, <1>8, <1>9 DEF Types

LEMMA ApplyTree ==
    ASSUME NEW roots, Tree(roots), NEW op, op.type \in Types, InPlace(roots, op),
           NewUnit(op.id) \notin Units(roots)
    PROVE  Grows(applyOperation(roots, op), roots, op)
<1>1. Grows(Edited(roots, op), roots, op)
  BY EditedTree
<1> QED  BY <1>1, ApplyIs, TreeRemapped DEF Grows

(***************************************************************************)
(* Replaying a list: as long as no operation is refused the tree is a      *)
(* draft, and its new units are named by the operations of the list.       *)
(***************************************************************************)
Outcome(r) == r = [accepted |-> r.accepted, roots |-> r.roots]

LEMMA StepIs ==
    ASSUME NEW r, Outcome(r), NEW op
    PROVE  /\ Outcome(replayStep(r, op))
           /\ replayStep(r, op).accepted <=> r.accepted /\ Pinned(r.roots, op)
           /\ r.accepted /\ Pinned(r.roots, op) =>
                replayStep(r, op).roots = applyOperation(r.roots, op)
<1>1. PICK e : e = replayStep(r, op)
  OBVIOUS
<1>2. PICK a, b : r = [accepted |-> a, roots |-> b]
  BY DEF Outcome
<1>3. r.accepted = a /\ r.roots = b
  BY <1>2
<1>4. CASE r.accepted /\ Pinned(r.roots, op)
  <2>1. e = [r EXCEPT !.roots = applyOperation(@, op)]
    BY <1>1, <1>4 DEF replayStep
  <2>2. e = [accepted |-> a, roots |-> applyOperation(b, op)]
    BY <1>2, <2>1
  <2>3. Outcome(e) /\ e.accepted = a /\ e.roots = applyOperation(b, op)
    BY <2>2 DEF Outcome
  <2> QED  BY <1>1, <1>3, <1>4, <2>3
<1>5. CASE ~(r.accepted /\ Pinned(r.roots, op))
  <2>1. e = [r EXCEPT !.accepted = FALSE]
    BY <1>1, <1>5 DEF replayStep
  <2>2. e = [accepted |-> FALSE, roots |-> b]
    BY <1>2, <2>1
  <2>3. Outcome(e) /\ e.accepted = FALSE
    BY <2>2 DEF Outcome
  <2> QED  BY <1>1, <1>5, <2>3
<1> QED  BY <1>4, <1>5

\* The kinds of operations that reword a unit, and so replace each other when they follow.
Rewording == {"replace_text", "set_metadata"}

\* A list written on a draft: the ids are new to it, and each is used once.
Written(base, ops, d) ==
    /\ IsSeq(ops)
    /\ \A k \in DOMAIN ops :
         /\ ops[k].type \in Types
         /\ ops[k].id \in 1..d
         /\ NewUnit(ops[k].id) \notin Units(base)
         /\ ops[k].type \in Rewording => ops[k].replacementId = Nowhere
    /\ \A j, k \in DOMAIN ops : ops[j].id = ops[k].id => j = k

\* The units of a tree are those of the base and those that the first n operations name.
From(roots, base, ops, n) ==
    \A u \in Units(roots) : u \in Units(base) \/ \E k \in 1..n : u = NewUnit(ops[k].id)

LEMMA ReplayTree ==
    ASSUME NEW base, Tree(base), NEW ops, NEW d \in Nat, Written(base, ops, d)
    PROVE  LET r == replay(base, ops)
           IN  /\ Outcome(r)
               /\ r.accepted => Tree(r.roots) /\ From(r.roots, base, ops, Len(ops))
<1>0. IsSeq(ops) /\ Len(ops) \in Nat /\ DOMAIN ops = 1..Len(ops)
  BY Places DEF Written
<1>1. PICK f : ReplayUpto(base, ops, f, Len(ops)) /\ replay(base, ops) = f[Len(ops)]
  BY <1>0, ReplayIs
<1> DEFINE G(n) == /\ Outcome(f[n])
                   /\ f[n].accepted => Tree(f[n].roots) /\ From(f[n].roots, base, ops, n)
           Bad == {n \in 0..Len(ops) : ~G(n)}
<1>2. G(0)
  <2>1. f[0] = [accepted |-> TRUE, roots |-> base]
    <3>1. 0 \in 0..Len(ops)
      BY <1>0
    <3>2. f[0] = ReplayNext(base, ops, f, 0)
      BY <1>1, <3>1 DEF ReplayUpto
    <3> QED  BY <3>2 DEF ReplayNext
  <2> QED  BY <2>1 DEF Outcome, From
<1>3. ASSUME NEW n \in 1..Len(ops), G(n - 1) PROVE G(n)
  <2>m. PICK m : m = n - 1
    OBVIOUS
  <2>1. m \in Nat /\ n \in DOMAIN ops /\ 1..m \subseteq 1..n /\ n \in 1..n /\ n \notin 1..m
        /\ 1..m \subseteq DOMAIN ops
    BY <1>0, <2>m
  <2>2. f[n] = replayStep(f[m], ops[n])
    BY <1>0, <1>1, <2>m DEF ReplayUpto, ReplayNext
  <2>3. Outcome(f[m])
        /\ (f[m].accepted => Tree(f[m].roots) /\ From(f[m].roots, base, ops, m))
    BY <1>3, <2>m
  <2>4. Outcome(f[n])
    BY <2>2, <2>3, StepIs
  <2>5. ASSUME f[n].accepted
        PROVE  Tree(f[n].roots) /\ From(f[n].roots, base, ops, n)
    <3>r. PICK r : r = f[m]
      OBVIOUS
    <3>o. PICK op : op = ops[n]
      OBVIOUS
    <3>1. r.accepted /\ Pinned(r.roots, op)
          /\ f[n].roots = applyOperation(r.roots, op)
      BY <2>2, <2>3, <2>5, <3>r, <3>o, StepIs
    <3>2. Tree(r.roots) /\ From(r.roots, base, ops, m)
      BY <2>3, <3>1, <3>r
    <3>3. op.type \in Types /\ NewUnit(op.id) \notin Units(base)
      BY <2>1, <3>o DEF Written
    <3>4. \A k \in 1..m : ops[k].id \in Nat /\ ops[k].id # op.id
      BY <2>1, <3>o DEF Written
    <3>5. op.id \in Nat
      BY <2>1, <3>o DEF Written
    <3>6. NewUnit(op.id) \notin Units(r.roots)
      <4> SUFFICES ASSUME NewUnit(op.id) \in Units(r.roots) PROVE FALSE
        OBVIOUS
      <4>1. PICK k \in 1..m : NewUnit(op.id) = NewUnit(ops[k].id)
        BY <3>2, <3>3 DEF From
      <4> QED  BY <3>4, <3>5, <4>1 DEF NewUnit
    <3>7. InPlace(r.roots, op)
      BY <3>1 DEF Pinned
    <3>8. Grows(f[n].roots, r.roots, op)
      BY <3>1, <3>2, <3>3, <3>6, <3>7, ApplyTree
    <3> QED  BY <2>1, <3>2, <3>8, <3>o DEF Grows, From
  <2> QED  BY <2>4, <2>5
<1>4. Bad = {}
  <2>1. ASSUME NEW k \in Bad, \A x \in Bad : k <= x PROVE FALSE
    <3>1. k \in 0..Len(ops) /\ ~G(k)
      OBVIOUS
    <3>2. k # 0
      BY <1>2, <3>1
    <3>3. k \in 1..Len(ops) /\ k - 1 \in 0..Len(ops) /\ ~(k <= k - 1)
      BY <1>0, <3>1, <3>2
    <3>4. G(k - 1)
      <4> HIDE DEF G
      <4>1. k - 1 \notin Bad
        BY <2>1, <3>3
      <4> QED  BY <3>3, <4>1
    <3> HIDE DEF G
    <3> QED  BY <1>3, <3>1, <3>3, <3>4
  <2>2. Bad \subseteq Nat
    BY <1>0
  <2> HIDE DEF Bad
  <2> QED  BY <2>1, <2>2, LeastOfSet
<1>5. G(Len(ops))
  <2> HIDE DEF G
  <2>1. Len(ops) \in 0..Len(ops)
    BY <1>0
  <2> QED  BY <1>4, <2>1
<1> QED  BY <1>1, <1>5

(***************************************************************************)
(* A node that arrives keeps its id and its title.                         *)
(***************************************************************************)
LEMMA HydrateKeeps ==
    ASSUME NEW n, NodeRec(n), NEW ops, IsSeq(ops)
    PROVE  NodeRec(hydrate(n, ops)) /\ hydrate(n, ops).id = n.id
<1>0. Len(ops) \in Nat /\ DOMAIN ops = 1..Len(ops)
  BY Places
<1>1. PICK f : HydrateUpto(n, ops, f, Len(ops)) /\ hydrate(n, ops) = f[Len(ops)]
  BY HydrateIs
<1> DEFINE G(m) == NodeRec(f[m]) /\ f[m].id = n.id
           Bad == {m \in 0..Len(ops) : ~G(m)}
<1>2. G(0)
  BY <1>0, <1>1 DEF HydrateUpto, HydrateNext
<1>3. ASSUME NEW m \in 1..Len(ops), G(m - 1) PROVE G(m)
  <2>1. f[m] = RemapNode(f[m - 1], ops[m])
    BY <1>0, <1>1 DEF HydrateUpto, HydrateNext
  <2>2. PICK x : x = f[m - 1]
    OBVIOUS
  <2> QED  BY <1>3, <2>1, <2>2, RemapNodeIs
<1>4. Bad = {}
  <2>1. ASSUME NEW k \in Bad, \A x \in Bad : k <= x PROVE FALSE
    <3>1. k \in 0..Len(ops) /\ ~G(k)
      OBVIOUS
    <3>2. k # 0
      BY <1>2, <3>1
    <3>3. k \in 1..Len(ops) /\ k - 1 \in 0..Len(ops) /\ ~(k <= k - 1)
      BY <1>0, <3>1, <3>2
    <3>4. G(k - 1)
      <4> HIDE DEF G
      <4>1. k - 1 \notin Bad
        BY <2>1, <3>3
      <4> QED  BY <3>3, <4>1
    <3> HIDE DEF G
    <3> QED  BY <1>3, <3>1, <3>3, <3>4
  <2>2. Bad \subseteq Nat
    BY <1>0
  <2> HIDE DEF Bad
  <2> QED  BY <2>1, <2>2, LeastOfSet
<1>5. G(Len(ops))
  <2> HIDE DEF G
  <2>1. Len(ops) \in 0..Len(ops)
    BY <1>0
  <2> QED  BY <1>4, <2>1
<1> QED  BY <1>1, <1>5

(***************************************************************************)
(* The canvas and the tree it stands for: nodes that are loaded are the    *)
(* same in both, the others are stubs on the canvas.                       *)
(***************************************************************************)
Sees(c, n, loaded) ==
    /\ NodeRec(c) /\ c.id = n.id /\ c.val = n.val
    /\ IF n.id \in loaded THEN c = n ELSE c.content = <<>>

Match(canvas, roots, loaded) ==
    /\ IsSeq(canvas) /\ Len(canvas) = Len(roots) /\ DOMAIN canvas = DOMAIN roots
    /\ \A i \in DOMAIN roots : Sees(canvas[i], roots[i], loaded)

LEMMA MatchTree ==
    ASSUME NEW canvas, NEW roots, NEW loaded, Tree(roots), Match(canvas, roots, loaded)
    PROVE  Tree(canvas) /\ SameNodes(canvas, roots) /\ NodeIds(canvas) = NodeIds(roots)
<1>1. SameNodes(canvas, roots)
  BY DEF SameNodes, Match, Sees
<1>2. Spine(canvas) /\ NodeIds(canvas) = NodeIds(roots)
  BY <1>1, SpineSame DEF Tree
<1>3. Content(<<>>) /\ TextsOf(<<>>) = {}
  BY EmptyIsSeq DEF Content, TextsOf
<1>4. \A i \in DOMAIN roots : canvas[i].content = roots[i].content \/ canvas[i].content = <<>>
  BY DEF Match, Sees
<1>5. \A i \in DOMAIN roots : canvas[i].id = roots[i].id
  BY DEF Match, Sees
<1>6. Bodies(canvas)
  <2>1. \A i \in DOMAIN roots : Content(canvas[i].content)
    BY <1>3, <1>4 DEF Tree, Bodies
  <2>2. \A i \in DOMAIN roots : TextsOf(canvas[i].content) \subseteq TextsOf(roots[i].content)
    BY <1>3, <1>4
  <2>3. DOMAIN canvas = DOMAIN roots
    BY DEF Match
  <2> QED  BY <1>5, <2>1, <2>2, <2>3 DEF Tree, Bodies
<1> QED  BY <1>1, <1>2, <1>6 DEF Tree

LEMMA MatchIsKnown ==
    ASSUME NEW canvas, NEW roots, NEW loaded, Tree(roots), Match(canvas, roots, loaded)
    PROVE  Known(canvas, loaded) = Known(roots, loaded)
<1> DEFINE blank(n) == [n EXCEPT !.content = <<>>, !.tok = Revision]
<1>1. \A n : NodeRec(n) =>
        blank(n) = [id |-> n.id, tok |-> Revision, val |-> n.val, content |-> <<>>]
  <2> SUFFICES ASSUME NEW n, NodeRec(n)
               PROVE  blank(n) = [id |-> n.id, tok |-> Revision, val |-> n.val, content |-> <<>>]
    OBVIOUS
  <2>1. PICK w : w = blank(n)
    OBVIOUS
  <2>2. PICK e : e = <<>>
    OBVIOUS
  <2>3. w = [n EXCEPT !.content = e, !.tok = Revision]
    BY <2>1, <2>2
  <2>4. w = [id |-> n.id, tok |-> Revision, val |-> n.val, content |-> e]
    BY <2>3 DEF NodeRec
  <2> QED  BY <2>1, <2>2, <2>4
<1> HIDE DEF blank
<1>2. \A i \in DOMAIN roots : NodeRec(roots[i]) /\ Sees(canvas[i], roots[i], loaded)
  BY DEF Match, Tree, Spine
<1>3. \A i \in DOMAIN roots :
        (IF canvas[i].id \in loaded THEN canvas[i] ELSE blank(canvas[i]))
          = (IF roots[i].id \in loaded THEN roots[i] ELSE blank(roots[i]))
  BY <1>1, <1>2 DEF Sees
<1>4. DOMAIN canvas = DOMAIN roots
  BY DEF Match
<1> QED  BY <1>3, <1>4 DEF Known, blank

\* A loaded node gets a new list of texts.
LEMMA MatchRewritten ==
    ASSUME NEW canvas, NEW roots, NEW loaded, Tree(roots), Match(canvas, roots, loaded),
           NEW i \in DOMAIN roots, roots[i].id \in loaded, NEW content, NEW op
    PROVE  /\ Match(WithContent(canvas, i, content, op), WithContent(roots, i, content, op), loaded)
           /\ Kept(WithContent(roots, i, content, op), roots, loaded)
<1>c. PICK c : c = WithContent(canvas, i, content, op)
  OBVIOUS
<1>r. PICK r : r = WithContent(roots, i, content, op)
  OBVIOUS
<1>0. Spine(canvas) /\ Spine(roots) /\ canvas[i] = roots[i]
      /\ DOMAIN canvas = DOMAIN roots /\ Len(canvas) = Len(roots)
  BY MatchTree DEF Tree, Match, Sees
<1>n. PICK n : n = Rewritten(roots[i], content, op)
  OBVIOUS
<1>1. /\ IsSeq(c) /\ Len(c) = Len(roots) /\ DOMAIN c = DOMAIN roots
      /\ \A k \in DOMAIN roots : c[k] = IF k = i THEN n ELSE canvas[k]
  BY <1>0, <1>c, <1>n, ContentGiven
<1>2. /\ Len(r) = Len(roots) /\ DOMAIN r = DOMAIN roots
      /\ \A k \in DOMAIN roots : r[k] = IF k = i THEN n ELSE roots[k]
  BY <1>0, <1>r, <1>n, ContentGiven
<1>3. NodeRec(n) /\ n.id = roots[i].id
  BY <1>n DEF Rewritten, NodeRec
<1>4. Sees(n, n, loaded)
  BY <1>3 DEF Sees
<1>5. Match(c, r, loaded)
  BY <1>1, <1>2, <1>4 DEF Match
<1>6. Kept(r, roots, loaded)
  BY <1>2, <1>3 DEF Kept
<1> QED  BY <1>c, <1>r, <1>5, <1>6

LEMMA MatchRetitled ==
    ASSUME NEW canvas, NEW roots, NEW loaded, Tree(roots), Match(canvas, roots, loaded),
           NEW op, op.targetId \in NodeIds(roots), op.targetId \in loaded
    PROVE  /\ Match(SetMetadata(canvas, op), SetMetadata(roots, op), loaded)
           /\ Kept(SetMetadata(roots, op), roots, loaded)
<1>c. PICK c : c = SetMetadata(canvas, op)
  OBVIOUS
<1>r. PICK r : r = SetMetadata(roots, op)
  OBVIOUS
<1>0. Spine(canvas) /\ Spine(roots)
      /\ DOMAIN canvas = DOMAIN roots /\ Len(canvas) = Len(roots)
  BY MatchTree DEF Tree, Match
<1>i. PICK i \in DOMAIN roots : roots[i].id = op.targetId
  BY DEF NodeIds
<1>a. canvas[i] = roots[i] /\ At(roots, op.targetId) = i /\ At(canvas, op.targetId) = i
  <2>1. canvas[i] = roots[i]
    BY <1>i DEF Match, Sees
  <2> QED  BY <1>0, <1>i, <2>1, NodeAt
<1>n. PICK n : n = [id |-> roots[i].id, tok |-> op.id, val |-> op.text, content |-> roots[i].content]
  OBVIOUS
<1>1. /\ SameNodes(c, canvas)
      /\ \A k \in DOMAIN canvas : c[k] = IF k = i THEN n ELSE canvas[k]
  BY <1>0, <1>c, <1>n, <1>a, MetadataSet
<1>2. /\ SameNodes(r, roots)
      /\ \A k \in DOMAIN roots : r[k] = IF k = i THEN n ELSE roots[k]
  BY <1>0, <1>r, <1>n, <1>a, MetadataSet
<1>3. NodeRec(n) /\ n.id = roots[i].id
  BY <1>n DEF NodeRec
<1>4. Sees(n, n, loaded)
  BY <1>3, <1>i DEF Sees
<1>5. Match(c, r, loaded)
  BY <1>0, <1>1, <1>2, <1>4 DEF Match, SameNodes
<1>6. Kept(r, roots, loaded)
  BY <1>2, <1>3, <1>i DEF Kept, SameNodes
<1> QED  BY <1>c, <1>r, <1>5, <1>6

LEMMA MatchRemoved ==
    ASSUME NEW canvas, NEW roots, NEW loaded, Tree(roots), Match(canvas, roots, loaded),
           NEW i \in DOMAIN roots
    PROVE  /\ Match(RemoveAt(canvas, i), RemoveAt(roots, i), loaded)
           /\ Len(RemoveAt(roots, i)) = Len(roots) - 1
<1>0. IsSeq(canvas) /\ IsSeq(roots) /\ Len(roots) \in Nat /\ DOMAIN roots = 1..Len(roots)
      /\ Len(canvas) = Len(roots)
  BY Places DEF Tree, Spine, Match
<1>c. PICK c : c = RemoveAt(canvas, i)
  OBVIOUS
<1>r. PICK r : r = RemoveAt(roots, i)
  OBVIOUS
<1>1. /\ IsSeq(c) /\ Len(c) = Len(roots) - 1 /\ DOMAIN c = 1..Len(roots) - 1
      /\ \A k \in 1..Len(roots) - 1 : c[k] = IF k < i THEN canvas[k] ELSE canvas[k + 1]
  BY <1>0, <1>c, RemovedAt
<1>2. /\ Len(r) = Len(roots) - 1 /\ DOMAIN r = 1..Len(roots) - 1
      /\ \A k \in 1..Len(roots) - 1 : r[k] = IF k < i THEN roots[k] ELSE roots[k + 1]
  BY <1>0, <1>r, RemovedAt
<1>3. ASSUME NEW k \in 1..Len(roots) - 1 PROVE Sees(c[k], r[k], loaded)
  <2>1. k \in DOMAIN roots /\ k + 1 \in DOMAIN roots
    BY <1>0
  <2>2. Sees(canvas[k], roots[k], loaded) /\ Sees(canvas[k + 1], roots[k + 1], loaded)
    BY <2>1 DEF Match
  <2> QED  BY <1>1, <1>2, <2>2
<1>4. Match(c, r, loaded)
  BY <1>1, <1>2, <1>3 DEF Match
<1> QED  BY <1>2, <1>4, <1>c, <1>r

LEMMA MatchInserted ==
    ASSUME NEW canvas, NEW roots, NEW loaded, Spine(roots), Match(canvas, roots, loaded),
           NEW p \in 1..Len(roots) + 1, NEW c, NEW n, Sees(c, n, loaded)
    PROVE  Match(InsertAt(canvas, p, c), InsertAt(roots, p, n), loaded)
<1>0. IsSeq(canvas) /\ IsSeq(roots) /\ Len(roots) \in Nat /\ DOMAIN roots = 1..Len(roots)
      /\ Len(canvas) = Len(roots)
  BY Places DEF Spine, Match
<1>v. PICK v : v = InsertAt(canvas, p, c)
  OBVIOUS
<1>w. PICK w : w = InsertAt(roots, p, n)
  OBVIOUS
<1>1. /\ IsSeq(v) /\ Len(v) = Len(roots) + 1 /\ DOMAIN v = 1..Len(roots) + 1
      /\ \A k \in 1..Len(roots) + 1 :
           v[k] = IF k < p THEN canvas[k] ELSE IF k = p THEN c ELSE canvas[k - 1]
  <2>1. p \in 1..Len(canvas) + 1
    BY <1>0
  <2> QED  BY <1>0, <1>v, <2>1, InsertedAt
<1>2. /\ Len(w) = Len(roots) + 1 /\ DOMAIN w = 1..Len(roots) + 1
      /\ \A k \in 1..Len(roots) + 1 :
           w[k] = IF k < p THEN roots[k] ELSE IF k = p THEN n ELSE roots[k - 1]
  BY <1>0, <1>w, InsertedAt
<1>3. ASSUME NEW k \in 1..Len(roots) + 1 PROVE Sees(v[k], w[k], loaded)
  <2>1. CASE k < p
    <3>1. k \in DOMAIN roots
      BY <1>0, <2>1
    <3>2. Sees(canvas[k], roots[k], loaded)
      BY <3>1 DEF Match
    <3> QED  BY <1>1, <1>2, <2>1, <3>2
  <2>2. CASE k = p
    BY <1>1, <1>2, <2>2, <1>0
  <2>3. CASE k > p
    <3>1. k - 1 \in DOMAIN roots /\ ~(k < p) /\ k # p
      BY <1>0, <2>3
    <3>2. Sees(canvas[k - 1], roots[k - 1], loaded)
      BY <3>1 DEF Match
    <3> QED  BY <1>1, <1>2, <3>1, <3>2
  <2> QED  BY <1>0, <2>1, <2>2, <2>3
<1>4. Match(v, w, loaded)
  BY <1>1, <1>2, <1>3 DEF Match
<1> QED  BY <1>4, <1>v, <1>w

\* Remappings do not reach what is not loaded; they will be made up for when it arrives.
LEMMA MatchRemapped ==
    ASSUME NEW canvas, NEW roots, NEW loaded, Spine(roots), Match(canvas, roots, loaded), NEW op
    PROVE  Match(remapDraftTargets(canvas, op), remapDraftTargets(roots, op), loaded)
<1>0. SameNodes(canvas, roots) /\ Spine(canvas)
  BY SpineSame DEF Match, Sees, SameNodes
<1>1. CASE op.type \notin {"remove", "merge_text"}
  BY <1>0, <1>1, RemapIs
<1>2. CASE op.type \in {"remove", "merge_text"}
  <2>c. PICK c : c = remapDraftTargets(canvas, op)
    OBVIOUS
  <2>r. PICK r : r = remapDraftTargets(roots, op)
    OBVIOUS
  <2>1. SameNodes(c, canvas) /\ \A k \in DOMAIN canvas : c[k] = RemapNode(canvas[k], op)
    BY <1>0, <1>2, <2>c, RemapIs
  <2>2. SameNodes(r, roots) /\ \A k \in DOMAIN roots : r[k] = RemapNode(roots[k], op)
    BY <1>2, <2>r, RemapIs
  <2>3. ASSUME NEW k \in DOMAIN roots PROVE Sees(c[k], r[k], loaded)
    <3>1. Sees(canvas[k], roots[k], loaded) /\ NodeRec(roots[k])
      BY DEF Match, Spine
    <3>2. c[k] = RemapNode(canvas[k], op) /\ r[k] = RemapNode(roots[k], op)
      BY <2>1, <2>2 DEF Match
    <3>x. PICK x : x = canvas[k]
      OBVIOUS
    <3>y. PICK y : y = roots[k]
      OBVIOUS
    <3>3. /\ NodeRec(x) /\ NodeRec(y) /\ x.id = y.id /\ x.val = y.val
          /\ IF y.id \in loaded THEN x = y ELSE x.content = <<>>
      BY <3>1, <3>x, <3>y DEF Sees
    <3>4. /\ NodeRec(RemapNode(x, op)) /\ RemapNode(x, op).id = x.id
          /\ RemapNode(x, op).val = x.val
          /\ RemapNode(x, op).content = Each(Remapped(x.content, op))
      BY <3>3, RemapNodeIs
    <3>5. RemapNode(y, op).id = y.id /\ RemapNode(y, op).val = y.val
      BY <3>3, RemapNodeIs
    <3>6. x.content = <<>> => Each(Remapped(x.content, op)) = <<>>
      <4>1. IsSeq(<<>>)
        BY EmptyIsSeq
      <4>2. IsSeq(Remapped(<<>>, op)) /\ Each(Remapped(<<>>, op)) = Remapped(<<>>, op)
            /\ DOMAIN Remapped(<<>>, op) = {}
        BY <4>1, EmptyIsSeq, RemappedIs
      <4>3. Remapped(<<>>, op) = <<>>
        BY <4>2, EmptyIsSeq DEF Remapped
      <4> QED  BY <4>2, <4>3
    <3> QED  BY <3>2, <3>3, <3>4, <3>5, <3>6, <3>x, <3>y DEF Sees
  <2>4. IsSeq(c) /\ Len(c) = Len(r) /\ DOMAIN c = DOMAIN r /\ DOMAIN r = DOMAIN roots
    BY <2>1, <2>2 DEF SameNodes, Match
  <2> QED  BY <2>3, <2>4, <2>c, <2>r DEF Match
<1> QED  BY <1>1, <1>2

(***************************************************************************)
(* One operation on the canvas and on the tree it stands for.              *)
(***************************************************************************)
\* The text is in a node that is loaded.
Held(roots, loaded, t) ==
    \E i \in DOMAIN roots : roots[i].id \in loaded /\ t \in TextsOf(roots[i].content)

\* The operation changes nothing of a node that is not loaded, apart from its references.
Fits(roots, loaded, op) ==
    /\ op.type \in {"replace_text", "split_text", "merge_text", "move"} =>
         Held(roots, loaded, op.targetId)
    /\ op.type \in {"set_metadata", "insert_text"} =>
         op.targetId \in NodeIds(roots) /\ op.targetId \in loaded
    /\ op.type = "move" =>
         op.destinationParentId \in NodeIds(roots) /\ op.destinationParentId \in loaded
    /\ op.type = "remove" =>
         op.targetId \in NodeIds(roots) \/ Held(roots, loaded, op.targetId)
    /\ NewNodes(op) \subseteq loaded

LEMMA HeldInBoth ==
    ASSUME NEW canvas, NEW roots, NEW loaded, Tree(roots), Match(canvas, roots, loaded),
           NEW t, Held(canvas, loaded, t)
    PROVE  LET i == Holder(roots, t)
           IN  /\ i # 0 /\ i \in DOMAIN roots /\ roots[i].id \in loaded
               /\ canvas[i] = roots[i] /\ Holder(canvas, t) = i
               /\ TextOf(canvas, t) = TextOf(roots, t)
               /\ ~IsNode(roots, t) /\ ~IsNode(canvas, t)
<1>1. PICK i \in DOMAIN canvas : canvas[i].id \in loaded /\ t \in TextsOf(canvas[i].content)
  BY DEF Held
<1>2. i \in DOMAIN roots /\ roots[i].id \in loaded /\ canvas[i] = roots[i]
  BY <1>1 DEF Match, Sees
<1>3. PICK j \in DOMAIN canvas[i].content : canvas[i].content[j].id = t
  BY <1>1 DEF TextsOf
<1>4. /\ Holder(canvas, t) = i /\ TextOf(canvas, t) = canvas[i].content[j] /\ i # 0
      /\ ~IsNode(canvas, t)
  BY <1>1, <1>3, MatchTree, TextAt DEF Tree
<1>5. j \in DOMAIN roots[i].content /\ roots[i].content[j].id = t
  BY <1>2, <1>3
<1>6. /\ Holder(roots, t) = i /\ TextOf(roots, t) = roots[i].content[j]
      /\ ~IsNode(roots, t)
  BY <1>2, <1>5, TextAt DEF Tree
<1> QED  BY <1>2, <1>4, <1>6

LEMMA NodeInBoth ==
    ASSUME NEW canvas, NEW roots, NEW loaded, Tree(roots), Match(canvas, roots, loaded),
           NEW u \in NodeIds(roots)
    PROVE  LET i == At(roots, u)
           IN  /\ i \in DOMAIN roots /\ i # 0 /\ At(canvas, u) = i
               /\ roots[i].id = u /\ canvas[i].id = u
               /\ IsNode(roots, u) /\ IsNode(canvas, u)
               /\ NodeOf(roots, u) = roots[i] /\ NodeOf(canvas, u) = canvas[i]
               /\ u \in loaded => canvas[i] = roots[i]
<1>1. PICK i \in DOMAIN roots : roots[i].id = u
  BY DEF NodeIds
<1>2. /\ canvas[i].id = u /\ i \in DOMAIN canvas
      /\ u \in loaded => canvas[i] = roots[i]
  BY <1>1 DEF Match, Sees
<1>3. At(roots, u) = i /\ IsNode(roots, u) /\ NodeOf(roots, u) = roots[i]
  BY <1>1, NodeAt DEF Tree
<1>4. At(canvas, u) = i /\ IsNode(canvas, u) /\ NodeOf(canvas, u) = canvas[i]
  BY <1>2, MatchTree, NodeAt DEF Tree
<1>5. i # 0
  BY <1>3 DEF IsNode
<1> QED  BY <1>1, <1>2, <1>3, <1>4, <1>5

Alike(c, r, roots, loaded) == Match(c, r, loaded) /\ Kept(r, roots, loaded)

LEMMA MatchDetached ==
    ASSUME NEW canvas, NEW roots, NEW loaded, Tree(roots), Match(canvas, roots, loaded),
           NEW t, Held(canvas, loaded, t), NEW op
    PROVE  Alike(Detached(canvas, t, op), Detached(roots, t, op), roots, loaded)
<1>i. PICK i : i = Holder(roots, t)
  OBVIOUS
<1>1. i \in DOMAIN roots /\ roots[i].id \in loaded /\ canvas[i] = roots[i]
      /\ Holder(canvas, t) = i
  BY <1>i, HeldInBoth
<1>2. PICK content : content = RemoveAt(roots[i].content, At(roots[i].content, t))
  OBVIOUS
<1>3. Detached(canvas, t, op) = WithContent(canvas, i, content, op)
      /\ Detached(roots, t, op) = WithContent(roots, i, content, op)
  BY <1>i, <1>1, <1>2 DEF Detached
<1> QED  BY <1>1, <1>3, MatchRewritten DEF Alike

LEMMA EditedMatch ==
    ASSUME NEW canvas, NEW roots, NEW loaded, Tree(roots), Match(canvas, roots, loaded),
           NEW op, Placed(canvas, op), Fits(canvas, loaded, op)
    PROVE  Alike(Edited(canvas, op), Edited(roots, op), roots, loaded)
<1> DEFINE c == Edited(canvas, op)
           r == Edited(roots, op)
<1>0. Tree(canvas) /\ NodeIds(canvas) = NodeIds(roots) /\ Len(canvas) = Len(roots)
      /\ DOMAIN canvas = DOMAIN roots /\ Len(roots) \in Nat /\ DOMAIN roots = 1..Len(roots)
  BY MatchTree, Places DEF Match, Tree, Spine
<1>1. CASE op.type \in {"replace_text", "split_text", "merge_text"}
  <2>i. PICK i : i = Holder(roots, op.targetId)
    OBVIOUS
  <2>1. i \in DOMAIN roots /\ roots[i].id \in loaded /\ canvas[i] = roots[i]
        /\ Holder(canvas, op.targetId) = i
    BY <1>1, <2>i, HeldInBoth DEF Fits
  <2>2. PICK content : c = WithContent(canvas, i, content, op)
                       /\ r = WithContent(roots, i, content, op)
    <3>1. CASE op.type = "replace_text"
      <4>1. c = ReplaceText(canvas, op) /\ r = ReplaceText(roots, op)
        BY <3>1, EditedIs
      <4> QED  BY <2>i, <2>1, <4>1 DEF ReplaceText
    <3>2. CASE op.type = "split_text"
      <4>1. c = splitEntry(canvas, op) /\ r = splitEntry(roots, op)
        BY <3>2, EditedIs
      <4> QED  BY <2>i, <2>1, <4>1 DEF splitEntry
    <3>3. CASE op.type = "merge_text"
      <4>1. c = mergeEntries(canvas, op) /\ r = mergeEntries(roots, op)
        BY <3>3, EditedIs
      <4> QED  BY <2>i, <2>1, <4>1 DEF mergeEntries
    <3> QED  BY <1>1, <3>1, <3>2, <3>3
  <2> QED  BY <2>1, <2>2, MatchRewritten DEF Alike
<1>2. CASE op.type = "set_metadata"
  <2>1. c = SetMetadata(canvas, op) /\ r = SetMetadata(roots, op)
    BY <1>2, EditedIs
  <2>2. op.targetId \in NodeIds(roots) /\ op.targetId \in loaded
    BY <1>0, <1>2 DEF Fits
  <2> QED  BY <2>1, <2>2, MatchRetitled DEF Alike
<1>3. CASE op.type = "insert_text"
  <2>1. c = InsertText(canvas, op) /\ r = InsertText(roots, op)
    BY <1>3, EditedIs
  <2>i. PICK i : i = At(roots, op.targetId)
    OBVIOUS
  <2>2. i \in DOMAIN roots /\ At(canvas, op.targetId) = i /\ roots[i].id \in loaded
        /\ canvas[i] = roots[i]
    BY <1>0, <1>3, <2>i, NodeInBoth DEF Fits
  <2>3. PICK content : c = WithContent(canvas, i, content, op)
                       /\ r = WithContent(roots, i, content, op)
    BY <2>i, <2>1, <2>2 DEF InsertText
  <2> QED  BY <2>2, <2>3, MatchRewritten DEF Alike
<1>4. CASE op.type = "insert_root"
  <2>n. PICK n : n = [id |-> NewUnit(op.id), tok |-> op.id, val |-> <<>>, content |-> <<>>]
    OBVIOUS
  <2>p. PICK p : p = op.position
    OBVIOUS
  <2>1. c = InsertAt(canvas, p, n) /\ r = InsertAt(roots, p, n)
    BY <1>4, <2>n, <2>p, EditedIs DEF InsertRoot
  <2>2. NodeRec(n) /\ n.id = NewUnit(op.id) /\ n.content = <<>>
    BY <2>n DEF NodeRec
  <2>3. Sees(n, n, loaded)
    BY <2>2 DEF Sees
  <2>4. p \in 1..Len(roots) + 1 /\ n.id \notin NodeIds(roots) /\ n.id \in loaded
    BY <1>0, <1>4, <2>2, <2>p DEF Placed, Fits, NewNodes
  <2>5. Match(c, r, loaded)
    BY <2>1, <2>3, <2>4, MatchInserted DEF Tree
  <2>6. Kept(r, roots, {n.id})
    BY <2>1, <2>2, <2>4, SpineInserted DEF Tree
  <2>7. Kept(r, roots, loaded)
    BY <2>4, <2>6 DEF Kept
  <2> QED  BY <2>5, <2>7 DEF Alike
<1>5. CASE op.type = "move_root"
  <2>i. PICK i : i = At(roots, op.targetId)
    OBVIOUS
  <2>p. PICK p : p = op.position
    OBVIOUS
  <2>1. op.targetId \in NodeIds(canvas) /\ p \in 1..Len(roots)
    BY <1>0, <1>5, <2>p, NodePlace DEF Placed
  <2>2. i \in DOMAIN roots /\ At(canvas, op.targetId) = i
        /\ NodeOf(roots, op.targetId) = roots[i] /\ NodeOf(canvas, op.targetId) = canvas[i]
    BY <1>0, <2>1, <2>i, NodeInBoth
  <2>3. PICK rest : rest = RemoveAt(roots, i)
    OBVIOUS
  <2>4. PICK left : left = RemoveAt(canvas, i)
    OBVIOUS
  <2>5. Match(left, rest, loaded) /\ Len(rest) = Len(roots) - 1
    BY <2>2, <2>3, <2>4, MatchRemoved
  <2>6. Spine(rest) /\ NodeIds(rest) = NodeIds(roots) \ {roots[i].id} /\ Kept(rest, roots, {})
    BY <2>2, <2>3, SpineRemoved DEF Tree
  <2>7. p \in 1..Len(rest) + 1
    BY <1>0, <2>1, <2>5
  <2>8. c = InsertAt(left, p, canvas[i]) /\ r = InsertAt(rest, p, roots[i])
    BY <1>5, <2>i, <2>p, <2>2, <2>3, <2>4, EditedIs DEF MoveRoot
  <2>9. Sees(canvas[i], roots[i], loaded) /\ NodeRec(roots[i])
    BY <2>2 DEF Match, Tree, Spine
  <2>10. Match(c, r, loaded)
    BY <2>5, <2>6, <2>7, <2>8, <2>9, MatchInserted
  <2>11. With(r, rest, p, roots[i])
    BY <2>6, <2>7, <2>8, InsertedIsWith DEF Spine
  <2>12. \A k \in DOMAIN r : r[k] = roots[i] \/ \E m \in DOMAIN rest : r[k] = rest[m]
    BY <2>11 DEF With
  <2>13. Kept(r, roots, loaded)
    BY <2>2, <2>6, <2>12 DEF Kept
  <2> QED  BY <2>10, <2>13 DEF Alike
<1>6. CASE op.type = "move"
  <2>c. PICK left : left = Detached(canvas, op.targetId, op)
    OBVIOUS
  <2>r. PICK rest : rest = Detached(roots, op.targetId, op)
    OBVIOUS
  <2>1. Held(canvas, loaded, op.targetId)
        /\ op.destinationParentId \in NodeIds(roots) /\ op.destinationParentId \in loaded
    BY <1>0, <1>6 DEF Fits
  <2>2. Alike(left, rest, roots, loaded)
    BY <2>c, <2>r, <2>1, MatchDetached
  <2>3. Tree(rest) /\ SameNodes(rest, roots)
    <3>1. Holder(roots, op.targetId) # 0
      BY <2>1, HeldInBoth
    <3> QED  BY <3>1, <2>r, TreeDetached
  <2>4. op.destinationParentId \in NodeIds(rest)
    BY <2>1, <2>3, SpineSame DEF Tree
  <2>i. PICK i : i = At(rest, op.destinationParentId)
    OBVIOUS
  <2>5. i \in DOMAIN rest /\ At(left, op.destinationParentId) = i /\ rest[i].id \in loaded
        /\ left[i] = rest[i]
    BY <2>1, <2>2, <2>3, <2>4, <2>i, NodeInBoth DEF Alike
  <2>6. TextOf(canvas, op.targetId) = TextOf(roots, op.targetId)
    BY <2>1, HeldInBoth
  <2>7. PICK content : content = InsertAt(rest[i].content, op.position, TextOf(roots, op.targetId))
    OBVIOUS
  <2>8. c = WithContent(left, i, content, op) /\ r = WithContent(rest, i, content, op)
    BY <1>6, <2>c, <2>r, <2>i, <2>5, <2>6, <2>7, EditedIs DEF MoveEntry
  <2>9. Match(c, r, loaded) /\ Kept(r, rest, loaded)
    BY <2>2, <2>3, <2>5, <2>8, MatchRewritten DEF Alike
  <2>10. Kept(r, roots, loaded)
    <3>1. ASSUME NEW k \in DOMAIN r, r[k].id \notin loaded
          PROVE  \E m \in DOMAIN roots : r[k] = roots[m]
      <4>1. PICK m \in DOMAIN rest : r[k] = rest[m]
        BY <2>9, <3>1 DEF Kept
      <4> QED  BY <2>2, <3>1, <4>1 DEF Alike, Kept
    <3> QED  BY <3>1 DEF Kept
  <2> QED  BY <2>9, <2>10 DEF Alike
<1>7. CASE op.type = "remove"
  <2>0. c = RemoveUnit(canvas, op) /\ r = RemoveUnit(roots, op)
    BY <1>7, EditedIs
  <2>1. CASE op.targetId \in NodeIds(roots)
    <3>i. PICK i : i = At(roots, op.targetId)
      OBVIOUS
    <3>1. i \in DOMAIN roots /\ At(canvas, op.targetId) = i
          /\ IsNode(roots, op.targetId) /\ IsNode(canvas, op.targetId)
      BY <2>1, <3>i, NodeInBoth
    <3>2. c = RemoveAt(canvas, i) /\ r = RemoveAt(roots, i)
      BY <2>0, <3>i, <3>1 DEF RemoveUnit
    <3>3. Match(c, r, loaded) /\ Kept(r, roots, {})
      BY <3>1, <3>2, MatchRemoved, SpineRemoved DEF Tree
    <3> QED  BY <3>3 DEF Alike, Kept
  <2>2. CASE op.targetId \notin NodeIds(roots)
    <3>1. Held(canvas, loaded, op.targetId)
      BY <1>0, <1>7, <2>2 DEF Fits
    <3>2. ~IsNode(roots, op.targetId) /\ ~IsNode(canvas, op.targetId)
      BY <3>1, HeldInBoth
    <3>3. c = Detached(canvas, op.targetId, op) /\ r = Detached(roots, op.targetId, op)
      BY <2>0, <3>2 DEF RemoveUnit
    <3> QED  BY <3>1, <3>3, MatchDetached
  <2> QED  BY <2>1, <2>2
<1> QED  BY <1>1, <1>2, <1>3, <1>4, <1>5, <1>6, <1>7 DEF Placed, Types

LEMMA RemapNothing ==
    ASSUME NEW n, NodeRec(n), Content(n.content), NEW op, op.type \notin {"remove", "merge_text"}
    PROVE  RemapNode(n, op) = n
<1>1. \A u : Successor(op, u) = u
  BY DEF Successor
<1>2. \A t : RemapText(t, op) = t
  <2> TAKE t
  <2>1. {Successor(op, u) : u \in t.refs} = t.refs
    BY <1>1
  <2> QED  BY <2>1 DEF RemapText
<1>3. PICK s : s = n.content
  OBVIOUS
<1>4. IsSeq(s) /\ Len(s) \in Nat /\ DOMAIN s = 1..Len(s)
  BY <1>3, Places DEF Content
<1>5. /\ IsSeq(Remapped(s, op)) /\ Each(Remapped(s, op)) = Remapped(s, op)
      /\ DOMAIN Remapped(s, op) = DOMAIN s
      /\ \A j \in DOMAIN s : Remapped(s, op)[j] = s[j]
  BY <1>2, <1>4, RemappedIs
<1>6. Remapped(s, op) = s
  <2>1. Len(Remapped(s, op)) = Len(s)
    <3>1. Len(Remapped(s, op)) \in Nat /\ 1..Len(Remapped(s, op)) = 1..Len(s)
      BY <1>4, <1>5, Places
    <3> QED  BY <1>4, <3>1
  <2>2. \A k \in 1..Len(Remapped(s, op)) : Remapped(s, op)[k] = s[k]
    BY <1>4, <1>5, <2>1
  <2> QED  BY <1>4, <1>5, <2>1, <2>2, SameSeq
<1>7. RemapNode(n, op) = IF Each(Remapped(n.content, op)) = n.content THEN n
                         ELSE [n EXCEPT !.content = Each(Remapped(n.content, op)), !.tok = op.id]
  BY DEF RemapNode, Remapped
<1> QED  BY <1>3, <1>5, <1>6, <1>7

LEMMA RemapSame ==
    ASSUME NEW n, NEW op, NEW cmd, op.type \in Rewording, cmd.type = op.type, cmd.id = op.id
    PROVE  RemapNode(n, cmd) = RemapNode(n, op)
<1>1. \A u : Successor(op, u) = u /\ Successor(cmd, u) = u
  BY DEF Successor, Rewording
<1>2. \A t : RemapText(t, op) = t /\ RemapText(t, cmd) = t
  <2> TAKE t
  <2>1. {Successor(op, u) : u \in t.refs} = t.refs /\ {Successor(cmd, u) : u \in t.refs} = t.refs
    BY <1>1
  <2> QED  BY <2>1 DEF RemapText
<1>3. Remapped(n.content, cmd) = Remapped(n.content, op)
  BY <1>2 DEF Remapped
<1>4. PICK e : e = Each(Remapped(n.content, op))
  OBVIOUS
<1>5. \A o : o \in {op, cmd} =>
         RemapNode(n, o) = IF e = n.content THEN n ELSE [n EXCEPT !.content = e, !.tok = op.id]
  BY <1>3, <1>4 DEF RemapNode, Remapped
<1> QED  BY <1>5

\* Where a node of the new tree that is not loaded comes from.
Elsewhere(w, roots, loaded, op) ==
    \A k \in DOMAIN w : w[k].id \notin loaded =>
        \E i \in DOMAIN roots : w[k].id = roots[i].id /\ w[k] = RemapNode(roots[i], op)

LEMMA ApplyMatch ==
    ASSUME NEW canvas, NEW roots, NEW loaded, Tree(roots), Match(canvas, roots, loaded),
           NEW op, Placed(canvas, op), Fits(canvas, loaded, op)
    PROVE  /\ Match(applyOperation(canvas, op), applyOperation(roots, op), loaded)
           /\ Elsewhere(applyOperation(roots, op), roots, loaded, op)
<1>c. PICK c : c = Edited(canvas, op)
  OBVIOUS
<1>r. PICK r : r = Edited(roots, op)
  OBVIOUS
<1>1. Alike(c, r, roots, loaded)
  BY <1>c, <1>r, EditedMatch
<1>2. Spine(r)
  <2>1. Placed(roots, op)
    <3>1. Len(canvas) = Len(roots) /\ NodeIds(canvas) = NodeIds(roots)
      BY MatchTree DEF Match
    <3>2. IsNode(canvas, op.targetId) => IsNode(roots, op.targetId)
      BY <3>1, NodePlace, NodeInBoth
    <3> QED  BY <3>1, <3>2 DEF Placed
  <2> QED  BY <2>1, <1>r, EditedSpine DEF Tree
<1>w. PICK w : w = remapDraftTargets(r, op)
  OBVIOUS
<1>3. Match(remapDraftTargets(c, op), w, loaded)
  BY <1>1, <1>2, <1>w, MatchRemapped DEF Alike
<1>4. SameNodes(w, r)
      /\ (op.type \notin {"remove", "merge_text"} => w = r)
      /\ (op.type \in {"remove", "merge_text"} =>
            \A k \in DOMAIN r : w[k] = RemapNode(r[k], op))
  BY <1>2, <1>w, RemapIs
<1>5. ASSUME NEW k \in DOMAIN w, w[k].id \notin loaded
      PROVE  \E i \in DOMAIN roots : w[k].id = roots[i].id /\ w[k] = RemapNode(roots[i], op)
  <2>1. k \in DOMAIN r /\ r[k].id = w[k].id
    BY <1>4 DEF SameNodes
  <2>2. PICK i \in DOMAIN roots : r[k] = roots[i]
    BY <1>1, <1>5, <2>1 DEF Alike, Kept
  <2>3. NodeRec(roots[i]) /\ Content(roots[i].content)
    BY DEF Tree, Spine, Bodies
  <2>4. w[k] = RemapNode(roots[i], op)
    <3>1. CASE op.type \notin {"remove", "merge_text"}
      BY <1>4, <2>2, <2>3, <3>1, RemapNothing
    <3>2. CASE op.type \in {"remove", "merge_text"}
      BY <1>4, <2>1, <2>2, <3>2
    <3> QED  BY <3>1, <3>2
  <2> QED  BY <2>1, <2>2, <2>4
<1> QED  BY <1>c, <1>r, <1>w, <1>3, <1>5, ApplyIs DEF Elsewhere

(***************************************************************************)
(* A page expects the revisions that the service finds.                    *)
(***************************************************************************)
\* The page has the unit the operation is about.
Aware(canvas, loaded, op) ==
    \/ op.targetId \in NodeIds(canvas) /\ op.targetId \in loaded
    \/ Held(canvas, loaded, op.targetId)

LEMMA SameToken ==
    ASSUME NEW canvas, NEW roots, NEW loaded, Tree(roots), Match(canvas, roots, loaded),
           NEW u, (u \in NodeIds(canvas) /\ u \in loaded) \/ Held(canvas, loaded, u)
    PROVE  token(canvas, u) = token(roots, u)
<1>1. CASE u \in NodeIds(canvas) /\ u \in loaded
  <2>1. u \in NodeIds(roots)
    BY <1>1, MatchTree
  <2>2. PICK i : i = At(roots, u)
    OBVIOUS
  <2>3. /\ IsNode(roots, u) /\ IsNode(canvas, u)
        /\ NodeOf(roots, u) = roots[i] /\ NodeOf(canvas, u) = canvas[i]
        /\ canvas[i] = roots[i]
    BY <1>1, <2>1, <2>2, NodeInBoth
  <2> QED  BY <2>3 DEF token
<1>2. CASE Held(canvas, loaded, u)
  <2>1. ~IsNode(roots, u) /\ ~IsNode(canvas, u) /\ TextOf(canvas, u) = TextOf(roots, u)
    BY <1>2, HeldInBoth
  <2> QED  BY <2>1 DEF token
<1> QED  BY <1>1, <1>2

LEMMA PinnedAlike ==
    ASSUME NEW canvas, NEW roots, NEW loaded, Tree(roots), Match(canvas, roots, loaded),
           NEW op, Fits(canvas, loaded, op), Aware(canvas, loaded, op), Pinned(canvas, op)
    PROVE  Pinned(roots, op)
<1>0. NodeIds(canvas) = NodeIds(roots) /\ Len(canvas) = Len(roots)
  BY MatchTree DEF Match
<1>1. \A u : IsNode(canvas, u) => IsNode(roots, u)
  BY <1>0, NodePlace, NodeInBoth
<1>2. \A t : Held(canvas, loaded, t) => Holder(roots, t) # 0
  BY HeldInBoth
<1>3. InPlace(canvas, op)
  BY DEF Pinned
<1>4. Present(roots, op.targetId)
  <2>1. CASE op.targetId \in NodeIds(canvas)
    BY <1>0, <2>1, NodeInBoth DEF Present
  <2>2. CASE Held(canvas, loaded, op.targetId)
    BY <1>2, <2>2 DEF Present
  <2> QED  BY <2>1, <2>2 DEF Aware
<1>5. op.type = "insert_text" =>
        op.position \in 1..Len(NodeOf(roots, op.targetId).content) + 1
  <2> SUFFICES ASSUME op.type = "insert_text"
               PROVE  op.position \in 1..Len(NodeOf(roots, op.targetId).content) + 1
    OBVIOUS
  <2>1. op.targetId \in NodeIds(roots) /\ op.targetId \in loaded
    BY <1>0 DEF Fits
  <2>2. PICK i : i = At(roots, op.targetId)
    OBVIOUS
  <2>3. NodeOf(roots, op.targetId) = NodeOf(canvas, op.targetId)
    BY <2>1, <2>2, NodeInBoth
  <2> QED  BY <1>3, <2>3 DEF InPlace
<1>6. op.type = "move" =>
        /\ IsNode(roots, op.destinationParentId)
        /\ LET retained == Detached(roots, op.targetId, op)
           IN  op.position \in 1..Len(NodeOf(retained, op.destinationParentId).content) + 1
  <2> SUFFICES ASSUME op.type = "move"
               PROVE  /\ IsNode(roots, op.destinationParentId)
                      /\ LET retained == Detached(roots, op.targetId, op)
                         IN  op.position \in 1..Len(NodeOf(retained, op.destinationParentId).content) + 1
    OBVIOUS
  <2>1. Held(canvas, loaded, op.targetId)
        /\ op.destinationParentId \in NodeIds(roots) /\ op.destinationParentId \in loaded
    BY <1>0 DEF Fits
  <2>c. PICK left : left = Detached(canvas, op.targetId, op)
    OBVIOUS
  <2>r. PICK rest : rest = Detached(roots, op.targetId, op)
    OBVIOUS
  <2>2. Match(left, rest, loaded)
    BY <2>c, <2>r, <2>1, MatchDetached DEF Alike
  <2>3. Tree(rest) /\ SameNodes(rest, roots)
    <3>1. Holder(roots, op.targetId) # 0
      BY <2>1, HeldInBoth
    <3> QED  BY <3>1, <2>r, TreeDetached
  <2>4. op.destinationParentId \in NodeIds(rest)
    BY <2>1, <2>3, SpineSame DEF Tree
  <2>i. PICK i : i = At(rest, op.destinationParentId)
    OBVIOUS
  <2>5. NodeOf(rest, op.destinationParentId) = NodeOf(left, op.destinationParentId)
    BY <2>1, <2>2, <2>3, <2>4, <2>i, NodeInBoth
  <2>6. op.position \in 1..Len(NodeOf(left, op.destinationParentId).content) + 1
    BY <1>3, <2>c DEF InPlace
  <2>7. IsNode(roots, op.destinationParentId)
    BY <2>1, NodeInBoth
  <2> QED  BY <2>5, <2>6, <2>7, <2>r
<1>7. op.type = "merge_text" =>
        LET content == roots[Holder(roots, op.targetId)].content
            j == At(content, op.targetId)
        IN  j < Len(content) /\ op.mergeIds = <<content[j].id, content[j + 1].id>>
  <2> SUFFICES ASSUME op.type = "merge_text"
               PROVE  LET content == roots[Holder(roots, op.targetId)].content
                          j == At(content, op.targetId)
                      IN  j < Len(content) /\ op.mergeIds = <<content[j].id, content[j + 1].id>>
    OBVIOUS
  <2>1. Held(canvas, loaded, op.targetId)
    BY DEF Fits
  <2>2. canvas[Holder(canvas, op.targetId)] = roots[Holder(roots, op.targetId)]
    BY <2>1, HeldInBoth
  <2>3. PICK content : content = roots[Holder(roots, op.targetId)].content
    OBVIOUS
  <2>4. LET j == At(content, op.targetId)
        IN  j < Len(content) /\ op.mergeIds = <<content[j].id, content[j + 1].id>>
    BY <1>3, <2>2, <2>3 DEF InPlace
  <2> QED  BY <2>3, <2>4
<1>8. op.type \in {"replace_text", "split_text", "merge_text", "move"} =>
         Holder(roots, op.targetId) # 0
  BY <1>2 DEF Fits
<1>9. InPlace(roots, op)
  BY <1>0, <1>1, <1>3, <1>4, <1>5, <1>6, <1>7, <1>8 DEF InPlace
<1>10. token(roots, op.targetId) = token(canvas, op.targetId)
  BY SameToken DEF Aware
<1>11. op.type = "move" =>
         token(roots, op.destinationParentId) = token(canvas, op.destinationParentId)
  BY SameToken DEF Fits
<1> QED  BY <1>9, <1>10, <1>11 DEF Pinned

(***************************************************************************)
(* Coalescing: rewording a unit twice is rewording it once.                *)
(***************************************************************************)
LEMMA WrittenTwice ==
    ASSUME NEW roots, Spine(roots), NEW i, NEW a, NEW b, NEW op, NEW cmd
    PROVE  WithContent(WithContent(roots, i, a, op), i, b, cmd) = WithContent(roots, i, b, cmd)
<1>x. PICK x : x = WithContent(roots, i, a, op)
  OBVIOUS
<1>y. PICK y : y = WithContent(x, i, b, cmd)
  OBVIOUS
<1>z. PICK z : z = WithContent(roots, i, b, cmd)
  OBVIOUS
<1>0. Len(roots) \in Nat /\ DOMAIN roots = 1..Len(roots)
  BY Places DEF Spine
<1>1. Spine(x)
  BY <1>x, SpineRewritten, SpineSame
<1>2. /\ IsSeq(x) /\ Len(x) = Len(roots) /\ DOMAIN x = DOMAIN roots
      /\ \A k \in DOMAIN roots : x[k] = IF k = i THEN Rewritten(roots[i], a, op) ELSE roots[k]
  BY <1>x, ContentGiven
<1>3. /\ IsSeq(y) /\ Len(y) = Len(x) /\ DOMAIN y = DOMAIN x
      /\ \A k \in DOMAIN x : y[k] = IF k = i THEN Rewritten(x[i], b, cmd) ELSE x[k]
  BY <1>1, <1>y, ContentGiven
<1>4. /\ IsSeq(z) /\ Len(z) = Len(roots) /\ DOMAIN z = DOMAIN roots
      /\ \A k \in DOMAIN roots : z[k] = IF k = i THEN Rewritten(roots[i], b, cmd) ELSE roots[k]
  BY <1>z, ContentGiven
<1>5. i \in DOMAIN roots => Rewritten(x[i], b, cmd) = Rewritten(roots[i], b, cmd)
  BY <1>2 DEF Rewritten
<1>6. \A k \in 1..Len(y) : y[k] = z[k]
  BY <1>0, <1>2, <1>3, <1>4, <1>5
<1>7. y = z
  BY <1>2, <1>3, <1>4, <1>6, SameSeq
<1> QED  BY <1>x, <1>y, <1>z, <1>7

LEMMA ReplacedTwice ==
    ASSUME NEW s, IsSeq(s), NEW j, NEW a, NEW b
    PROVE  ReplaceAt(ReplaceAt(s, j, a), j, b) = ReplaceAt(s, j, b)
<1>x. PICK x : x = ReplaceAt(s, j, a)
  OBVIOUS
<1>y. PICK y : y = ReplaceAt(x, j, b)
  OBVIOUS
<1>z. PICK z : z = ReplaceAt(s, j, b)
  OBVIOUS
<1>1. IsSeq(x) /\ Len(x) = Len(s) /\ \A k \in 1..Len(s) : x[k] = IF k = j THEN a ELSE s[k]
  BY <1>x, ReplacedAt
<1>2. IsSeq(y) /\ Len(y) = Len(x) /\ \A k \in 1..Len(x) : y[k] = IF k = j THEN b ELSE x[k]
  BY <1>1, <1>y, ReplacedAt
<1>3. IsSeq(z) /\ Len(z) = Len(s) /\ \A k \in 1..Len(s) : z[k] = IF k = j THEN b ELSE s[k]
  BY <1>z, ReplacedAt
<1>4. \A k \in 1..Len(y) : y[k] = z[k]
  BY <1>1, <1>2, <1>3
<1>5. y = z
  BY <1>1, <1>2, <1>3, <1>4, SameSeq
<1> QED  BY <1>x, <1>y, <1>z, <1>5

LEMMA RewordedTwice ==
    ASSUME NEW roots, Tree(roots), NEW op, NEW cmd, op.type = "replace_text",
           cmd.targetId = op.targetId, Holder(roots, op.targetId) # 0
    PROVE  ReplaceText(ReplaceText(roots, op), cmd) = ReplaceText(roots, cmd)
<1>u. PICK u : u = op.targetId /\ u = cmd.targetId
  OBVIOUS
<1>i. PICK i : i = Holder(roots, u)
  OBVIOUS
<1>s. PICK s : s = roots[i].content
  OBVIOUS
<1>j. PICK j : j = At(s, u)
  OBVIOUS
<1>1. i \in DOMAIN roots /\ Content(s) /\ j \in DOMAIN s /\ TextRec(s[j]) /\ s[j].id = u
  BY <1>u, <1>i, <1>s, <1>j, HeldAt
<1>a. PICK a : a = [s[j] EXCEPT !.val = op.text, !.refs = op.references, !.tok = op.id]
  OBVIOUS
<1>b. PICK b : b = [s[j] EXCEPT !.val = cmd.text, !.refs = cmd.references, !.tok = cmd.id]
  OBVIOUS
<1>2. a = [id |-> u, tok |-> op.id, val |-> op.text, refs |-> op.references]
  <2>1. PICK x : x = s[j]
    OBVIOUS
  <2>2. x = [id |-> x.id, tok |-> x.tok, val |-> x.val, refs |-> x.refs] /\ x.id = u
    BY <1>1, <2>1 DEF TextRec
  <2>3. PICK e, f, g : e = op.text /\ f = op.references /\ g = op.id
    OBVIOUS
  <2>4. a = [x EXCEPT !.val = e, !.refs = f, !.tok = g]
    BY <1>a, <2>1, <2>3
  <2>5. a = [id |-> x.id, tok |-> g, val |-> e, refs |-> f]
    BY <2>2, <2>4
  <2> QED  BY <2>2, <2>3, <2>5
<1>3. b = [id |-> u, tok |-> cmd.id, val |-> cmd.text, refs |-> cmd.references]
  <2>1. PICK x : x = s[j]
    OBVIOUS
  <2>2. x = [id |-> x.id, tok |-> x.tok, val |-> x.val, refs |-> x.refs] /\ x.id = u
    BY <1>1, <2>1 DEF TextRec
  <2>3. PICK e, f, g : e = cmd.text /\ f = cmd.references /\ g = cmd.id
    OBVIOUS
  <2>4. b = [x EXCEPT !.val = e, !.refs = f, !.tok = g]
    BY <1>b, <2>1, <2>3
  <2>5. b = [id |-> x.id, tok |-> g, val |-> e, refs |-> f]
    BY <2>2, <2>4
  <2> QED  BY <2>2, <2>3, <2>5
<1>4. [a EXCEPT !.val = cmd.text, !.refs = cmd.references, !.tok = cmd.id] = b
  <2>1. PICK w : w = [a EXCEPT !.val = cmd.text, !.refs = cmd.references, !.tok = cmd.id]
    OBVIOUS
  <2>2. w = [id |-> u, tok |-> cmd.id, val |-> cmd.text, refs |-> cmd.references]
    BY <1>2, <2>1
  <2> QED  BY <1>3, <2>1, <2>2
<1>t. PICK t : t = ReplaceAt(s, j, a)
  OBVIOUS
<1>y. PICK y : y = WithContent(roots, i, t, op)
  OBVIOUS
<1>5. y = ReplaceText(roots, op)
  BY <1>u, <1>i, <1>s, <1>j, <1>a, <1>t, <1>y DEF ReplaceText
<1>6. TextRec(a) /\ a.id = s[j].id
  BY <1>1, <1>2 DEF TextRec
<1>7. Content(t) /\ TextsOf(t) = TextsOf(s) /\ DOMAIN t = DOMAIN s /\ t[j] = a
  <2>1. Content(t) /\ TextsOf(t) = TextsOf(s)
    BY <1>1, <1>6, <1>t, ContentReplaced
  <2>2. DOMAIN s = 1..Len(s)
    BY <1>1, Places DEF Content
  <2>3. DOMAIN t = 1..Len(s) /\ \A k \in 1..Len(s) : t[k] = IF k = j THEN a ELSE s[k]
    BY <1>1, <1>t, ReplacedAt DEF Content
  <2> QED  BY <1>1, <2>1, <2>2, <2>3
<1>8. Tree(y)
  BY <1>1, <1>7, <1>s, <1>y, TreeRewritten
<1>9. i \in DOMAIN y /\ y[i].content = t
  <2>1. DOMAIN y = DOMAIN roots
        /\ \A k \in DOMAIN roots : y[k] = IF k = i THEN Rewritten(roots[i], t, op) ELSE roots[k]
    BY <1>y, ContentGiven DEF Tree
  <2> QED  BY <1>1, <2>1 DEF Rewritten
<1>10. Holder(y, u) = i /\ At(t, u) = j
  <2>1. j \in DOMAIN y[i].content /\ y[i].content[j].id = u
    BY <1>1, <1>6, <1>7, <1>9
  <2> QED  BY <1>8, <1>9, <2>1, TextAt DEF Tree
<1>11. ReplaceText(y, cmd) = WithContent(y, i, ReplaceAt(t, j, b), cmd)
  BY <1>u, <1>4, <1>7, <1>9, <1>10 DEF ReplaceText
<1>12. ReplaceAt(t, j, b) = ReplaceAt(s, j, b)
  BY <1>1, <1>t, ReplacedTwice DEF Content
<1>13. ReplaceText(roots, cmd) = WithContent(roots, i, ReplaceAt(s, j, b), cmd)
  BY <1>u, <1>i, <1>s, <1>j, <1>b DEF ReplaceText
<1>14. WithContent(y, i, ReplaceAt(s, j, b), cmd) = WithContent(roots, i, ReplaceAt(s, j, b), cmd)
  BY <1>y, WrittenTwice DEF Tree
<1> QED  BY <1>5, <1>11, <1>12, <1>13, <1>14

LEMMA RetitledTwice ==
    ASSUME NEW roots, Tree(roots), NEW op, NEW cmd, cmd.targetId = op.targetId,
           IsNode(roots, op.targetId)
    PROVE  SetMetadata(SetMetadata(roots, op), cmd) = SetMetadata(roots, cmd)
<1>i. PICK i : i = At(roots, op.targetId)
  OBVIOUS
<1>0. Len(roots) \in Nat /\ DOMAIN roots = 1..Len(roots) /\ Spine(roots)
  BY Places DEF Tree, Spine
<1>y. PICK y : y = SetMetadata(roots, op)
  OBVIOUS
<1>x. PICK x : x = SetMetadata(y, cmd)
  OBVIOUS
<1>z. PICK z : z = SetMetadata(roots, cmd)
  OBVIOUS
<1>a. PICK a : a = [id |-> roots[i].id, tok |-> op.id, val |-> op.text, content |-> roots[i].content]
  OBVIOUS
<1>b. PICK b : b = [id |-> roots[i].id, tok |-> cmd.id, val |-> cmd.text, content |-> roots[i].content]
  OBVIOUS
<1>1. SameNodes(y, roots) /\ \A k \in DOMAIN roots : y[k] = IF k = i THEN a ELSE roots[k]
  BY <1>0, <1>i, <1>y, <1>a, MetadataSet
<1>2. SameNodes(z, roots) /\ \A k \in DOMAIN roots : z[k] = IF k = i THEN b ELSE roots[k]
  BY <1>0, <1>i, <1>z, <1>b, MetadataSet
<1>3. i \in DOMAIN roots /\ roots[i].id = op.targetId
  BY <1>i, NodePlace
<1>4. Spine(y) /\ i \in DOMAIN y /\ y[i] = a /\ y[i].id = op.targetId
  BY <1>0, <1>1, <1>3, SpineSame DEF SameNodes
<1>5. At(y, cmd.targetId) = i
  BY <1>4, NodeAt
<1>6. b = [id |-> y[i].id, tok |-> cmd.id, val |-> cmd.text, content |-> y[i].content]
  BY <1>3, <1>4, <1>a, <1>b
<1>7. SameNodes(x, y) /\ \A k \in DOMAIN y : x[k] = IF k = i THEN b ELSE y[k]
  BY <1>4, <1>5, <1>6, <1>x, MetadataSet
<1>8. IsSeq(x) /\ IsSeq(z) /\ Len(x) = Len(roots) /\ Len(z) = Len(roots) /\ DOMAIN y = DOMAIN roots
  BY <1>1, <1>2, <1>7 DEF SameNodes
<1>9. \A k \in 1..Len(x) : x[k] = z[k]
  BY <1>0, <1>1, <1>2, <1>7, <1>8
<1>10. x = z
  BY <1>8, <1>9, SameSeq
<1> QED  BY <1>x, <1>y, <1>z, <1>10

\* The second of two operations that would follow each other, in the place of the first.
Replaces(cmd, op) ==
    /\ op.type \in Rewording /\ cmd.type = op.type /\ cmd.targetId = op.targetId
    /\ cmd.id = op.id /\ cmd.expectedRevisionId = op.expectedRevisionId
    /\ op.replacementId = Nowhere /\ cmd.replacementId = Nowhere

LEMMA ReplacingIsPinned ==
    ASSUME NEW roots, NEW op, NEW cmd, Replaces(cmd, op)
    PROVE  Pinned(roots, cmd) <=> Pinned(roots, op)
BY DEF Replaces, Rewording, Pinned, InPlace

LEMMA ReplacingApplies ==
    ASSUME NEW roots, Tree(roots), NEW op, NEW cmd, Replaces(cmd, op), InPlace(roots, op),
           NewUnit(op.id) \notin Units(roots)
    PROVE  applyOperation(roots, cmd) = applyOperation(applyOperation(roots, op), cmd)
<1>y. PICK y : y = applyOperation(roots, op)
  OBVIOUS
<1>0. op.type \in Types /\ op.type \notin {"remove", "merge_text"} /\ cmd.type = op.type
  BY DEF Replaces, Rewording, Types
<1>1. Grows(Edited(roots, op), roots, op)
  BY <1>0, EditedTree
<1>2. \A o : o \in {op, cmd} => o.type \notin {"remove", "merge_text"}
  BY <1>0
<1>3. \A o : o \in {op, cmd} => \A t : applyOperation(t, o) = Edited(t, o)
  BY <1>2, ApplyIs DEF remapDraftTargets
<1>4. y = Edited(roots, op)
  BY <1>y, <1>3
<1>5. Edited(y, cmd) = Edited(roots, cmd)
  <2>1. CASE op.type = "replace_text"
    <3>1. cmd.type = "replace_text"
      BY <2>1, <1>0
    <3>2. Holder(roots, op.targetId) # 0 /\ cmd.targetId = op.targetId
      BY <2>1 DEF InPlace, Replaces
    <3> QED  BY <2>1, <3>1, <3>2, <1>4, EditedIs, RewordedTwice
  <2>2. CASE op.type = "set_metadata"
    <3>1. cmd.type = "set_metadata"
      BY <2>2, <1>0
    <3>2. IsNode(roots, op.targetId) /\ cmd.targetId = op.targetId
      BY <2>2 DEF InPlace, Replaces
    <3> QED  BY <2>2, <3>1, <3>2, <1>4, EditedIs, RetitledTwice
  <2> QED  BY <2>1, <2>2 DEF Replaces, Rewording
<1> QED  BY <1>3, <1>4, <1>5, <1>y

(***************************************************************************)
(* A list grows by an operation, or its last one is replaced.              *)
(***************************************************************************)
LEMMA WrittenAppended ==
    ASSUME NEW base, NEW ops, NEW d \in Nat, NEW e \in Nat, d <= e, Written(base, ops, d),
           NEW op, op.type \in Types, op.id \in 1..e, op.id \notin Ids(ops),
           NewUnit(op.id) \notin Units(base),
           op.type \in Rewording => op.replacementId = Nowhere
    PROVE  Written(base, Append(ops, op), e)
<1>0. IsSeq(ops) /\ Len(ops) \in Nat /\ DOMAIN ops = 1..Len(ops)
  BY Places DEF Written
<1>m. PICK more : more = Append(ops, op)
  OBVIOUS
<1>1. /\ IsSeq(more) /\ DOMAIN more = 1..Len(ops) + 1
      /\ \A k \in 1..Len(ops) : more[k] = ops[k]
      /\ more[Len(ops) + 1] = op
  BY <1>0, <1>m, AppendedAt
<1>2. \A k \in 1..Len(ops) + 1 : k \in DOMAIN ops \/ k = Len(ops) + 1
  BY <1>0
<1>3. \A k \in DOMAIN ops : ops[k].id \in 1..e /\ ops[k].id # op.id
  BY DEF Written, Ids
<1>4. \A k \in DOMAIN more :
         /\ more[k].type \in Types
         /\ more[k].id \in 1..e
         /\ NewUnit(more[k].id) \notin Units(base)
         /\ more[k].type \in Rewording => more[k].replacementId = Nowhere
  BY <1>0, <1>1, <1>2, <1>3 DEF Written
<1>5. \A j, k \in DOMAIN more : more[j].id = more[k].id => j = k
  BY <1>0, <1>1, <1>2, <1>3 DEF Written
<1> QED  BY <1>1, <1>4, <1>5, <1>m DEF Written

LEMMA WrittenFront ==
    ASSUME NEW base, NEW ops, NEW d \in Nat, Written(base, ops, d), ops # <<>>
    PROVE  /\ Written(base, Front(ops), d)
           /\ Last(ops).id \in 1..d /\ Last(ops).type \in Types
           /\ NewUnit(Last(ops).id) \notin Units(base)
           /\ Last(ops).type \in Rewording => Last(ops).replacementId = Nowhere
           /\ Last(ops).id \notin Ids(Front(ops))
<1>f. PICK f : f = Front(ops)
  OBVIOUS
<1>l. PICK l : l = Last(ops)
  OBVIOUS
<1>0. IsSeq(ops) /\ DOMAIN ops = 1..Len(ops)
  BY Places DEF Written
<1>1. /\ IsSeq(f) /\ Len(f) = Len(ops) - 1
      /\ Len(ops) \in Nat \ {0} /\ l = ops[Len(ops)]
      /\ \A k \in 1..Len(ops) - 1 : f[k] = ops[k]
  BY <1>0, <1>f, <1>l, FrontThenLast
<1>2. DOMAIN f = 1..Len(ops) - 1
  BY <1>1, Places
<1>3. \A k \in DOMAIN f : k \in DOMAIN ops /\ k # Len(ops) /\ f[k] = ops[k]
  BY <1>0, <1>1, <1>2
<1>4. Len(ops) \in DOMAIN ops
  BY <1>0, <1>1
<1>5. Written(base, f, d)
  BY <1>1, <1>3 DEF Written
<1>6. l.id \notin Ids(f)
  BY <1>1, <1>3, <1>4 DEF Written, Ids
<1>7. /\ l.id \in 1..d /\ l.type \in Types
      /\ NewUnit(l.id) \notin Units(base)
      /\ l.type \in Rewording => l.replacementId = Nowhere
  BY <1>1, <1>4 DEF Written
<1> QED  BY <1>5, <1>6, <1>7, <1>f, <1>l

(***************************************************************************)
(* What a page shows is the replay of its list, and what it has not loaded *)
(* will be right when it arrives.                                          *)
(***************************************************************************)
Late(base, roots, ops, loaded) ==
    \A i \in DOMAIN roots : roots[i].id \notin loaded =>
        /\ IsNode(base, roots[i].id)
        /\ roots[i] = hydrate(NodeOf(base, roots[i].id), ops)

Faith(base, loaded, canvas, ops) ==
    LET r == replay(base, ops)
    IN  r.accepted => Match(canvas, r.roots, loaded) /\ Late(base, r.roots, ops, loaded)

LEMMA FaithAppended ==
    ASSUME NEW base, NEW loaded, NEW canvas, NEW ops, NEW d \in Nat, Tree(base),
           Written(base, ops, d), Faith(base, loaded, canvas, ops),
           NEW op, Placed(canvas, op), replay(base, ops).accepted => Fits(canvas, loaded, op)
    PROVE  /\ Faith(base, loaded, applyOperation(canvas, op), Append(ops, op))
           /\ replay(base, ops).accepted /\ Pinned(canvas, op) /\ Aware(canvas, loaded, op)
                => replay(base, Append(ops, op)).accepted
<1>0. IsSeq(ops)
  BY DEF Written
<1>r. PICK r : r = replay(base, ops)
  OBVIOUS
<1>m. PICK more : more = Append(ops, op)
  OBVIOUS
<1>w. PICK w : w = replay(base, more)
  OBVIOUS
<1>1. Outcome(r) /\ (r.accepted => Tree(r.roots))
  BY <1>r, ReplayTree
<1>2. w = replayStep(r, op)
  BY <1>0, <1>r, <1>m, <1>w, ReplayMore
<1>3. /\ w.accepted <=> r.accepted /\ Pinned(r.roots, op)
      /\ w.accepted => w.roots = applyOperation(r.roots, op)
  BY <1>1, <1>2, StepIs
<1>4. ASSUME w.accepted
      PROVE  /\ Match(applyOperation(canvas, op), w.roots, loaded)
             /\ Late(base, w.roots, more, loaded)
  <2>1. /\ Tree(r.roots) /\ Match(canvas, r.roots, loaded) /\ Late(base, r.roots, ops, loaded)
        /\ Fits(canvas, loaded, op)
    BY <1>1, <1>3, <1>4, <1>r DEF Faith
  <2>2. /\ Match(applyOperation(canvas, op), w.roots, loaded)
        /\ Elsewhere(w.roots, r.roots, loaded, op)
    BY <1>3, <1>4, <2>1, ApplyMatch
  <2>3. ASSUME NEW k \in DOMAIN w.roots, w.roots[k].id \notin loaded
        PROVE  /\ IsNode(base, w.roots[k].id)
               /\ w.roots[k] = hydrate(NodeOf(base, w.roots[k].id), more)
    <3>1. PICK i \in DOMAIN r.roots : /\ w.roots[k].id = r.roots[i].id
                                      /\ w.roots[k] = RemapNode(r.roots[i], op)
      BY <2>2, <2>3 DEF Elsewhere
    <3>2. /\ IsNode(base, r.roots[i].id)
          /\ r.roots[i] = hydrate(NodeOf(base, r.roots[i].id), ops)
      BY <2>1, <2>3, <3>1 DEF Late
    <3>3. hydrate(NodeOf(base, r.roots[i].id), more)
            = RemapNode(hydrate(NodeOf(base, r.roots[i].id), ops), op)
      BY <1>0, <1>m, HydrateMore
    <3> QED  BY <3>1, <3>2, <3>3
  <2> QED  BY <2>2, <2>3 DEF Late
<1>5. r.accepted /\ Pinned(canvas, op) /\ Aware(canvas, loaded, op) => w.accepted
  <2> SUFFICES ASSUME r.accepted, Pinned(canvas, op), Aware(canvas, loaded, op) PROVE w.accepted
    OBVIOUS
  <2>1. Tree(r.roots) /\ Match(canvas, r.roots, loaded) /\ Fits(canvas, loaded, op)
    BY <1>1, <1>r DEF Faith
  <2>2. Pinned(r.roots, op)
    BY <2>1, PinnedAlike
  <2> QED  BY <1>3, <2>2
<1> QED  BY <1>4, <1>5, <1>r, <1>m, <1>w DEF Faith

LEMMA FaithReplaced ==
    ASSUME NEW base, NEW loaded, NEW canvas, NEW ops, NEW d \in Nat, Tree(base),
           Written(base, ops, d), ops # <<>>, Faith(base, loaded, canvas, ops),
           NEW op, Replaces(op, Last(ops)), Placed(canvas, op),
           replay(base, ops).accepted => Fits(canvas, loaded, op)
    PROVE  /\ Faith(base, loaded, applyOperation(canvas, op), Append(Front(ops), op))
           /\ replay(base, ops).accepted => replay(base, Append(Front(ops), op)).accepted
<1>f. PICK f : f = Front(ops)
  OBVIOUS
<1>l. PICK l : l = Last(ops)
  OBVIOUS
<1>m. PICK more : more = Append(f, op)
  OBVIOUS
<1>0. IsSeq(ops) /\ IsSeq(f) /\ ops = Append(f, l)
  BY <1>f, <1>l, FrontThenLast DEF Written
<1>1. /\ Written(base, f, d) /\ l.id \in 1..d
      /\ NewUnit(l.id) \notin Units(base) /\ l.id \notin Ids(f)
  BY <1>f, <1>l, WrittenFront
<1>x. PICK x : x = replay(base, f)
  OBVIOUS
<1>r. PICK r : r = replay(base, ops)
  OBVIOUS
<1>w. PICK w : w = replay(base, more)
  OBVIOUS
<1>2. Outcome(x) /\ (x.accepted => Tree(x.roots) /\ From(x.roots, base, f, Len(f)))
  BY <1>x, <1>1, ReplayTree
<1>3. r = replayStep(x, l) /\ w = replayStep(x, op)
  <2>1. replay(base, Append(f, l)) = replayStep(replay(base, f), l)
    BY <1>0, ReplayMore
  <2>2. replay(base, Append(f, op)) = replayStep(replay(base, f), op)
    BY <1>0, ReplayMore
  <2> QED  BY <1>0, <1>x, <1>r, <1>w, <1>m, <2>1, <2>2
<1>4. /\ r.accepted <=> x.accepted /\ Pinned(x.roots, l)
      /\ r.accepted => r.roots = applyOperation(x.roots, l)
      /\ w.accepted <=> x.accepted /\ Pinned(x.roots, op)
      /\ w.accepted => w.roots = applyOperation(x.roots, op)
  BY <1>2, <1>3, StepIs
<1>5. Pinned(x.roots, op) <=> Pinned(x.roots, l)
  BY <1>l, ReplacingIsPinned
<1>6. ASSUME w.accepted
      PROVE  /\ Match(applyOperation(canvas, op), w.roots, loaded)
             /\ Late(base, w.roots, more, loaded)
  <2>1. r.accepted /\ x.accepted /\ Pinned(x.roots, l) /\ Tree(x.roots)
    BY <1>2, <1>4, <1>5, <1>6
  <2>2. Tree(r.roots)
    BY <1>r, <2>1, ReplayTree
  <2>3. NewUnit(l.id) \notin Units(x.roots)
    <3> SUFFICES ASSUME NewUnit(l.id) \in Units(x.roots) PROVE FALSE
      OBVIOUS
    <3>1. PICK k \in 1..Len(f) : NewUnit(l.id) = NewUnit(f[k].id)
      BY <1>1, <1>2, <2>1 DEF From
    <3>2. k \in DOMAIN f
      BY <1>0, Places
    <3>3. f[k].id \in 1..d /\ f[k].id # l.id
      BY <1>1, <3>2 DEF Written, Ids
    <3> QED  BY <1>1, <3>1, <3>3 DEF NewUnit
  <2>4. w.roots = applyOperation(r.roots, op)
    <3>1. InPlace(x.roots, l)
      BY <2>1 DEF Pinned
    <3>2. applyOperation(x.roots, op) = applyOperation(applyOperation(x.roots, l), op)
      BY <1>l, <2>1, <2>3, <3>1, ReplacingApplies
    <3> QED  BY <1>4, <1>6, <2>1, <3>2
  <2>5. /\ Match(canvas, r.roots, loaded) /\ Late(base, r.roots, ops, loaded)
        /\ Fits(canvas, loaded, op)
    BY <2>1, <1>r DEF Faith
  <2>6. /\ Match(applyOperation(canvas, op), w.roots, loaded)
        /\ Elsewhere(w.roots, r.roots, loaded, op)
    BY <2>2, <2>4, <2>5, ApplyMatch
  <2>7. ASSUME NEW k \in DOMAIN w.roots, w.roots[k].id \notin loaded
        PROVE  /\ IsNode(base, w.roots[k].id)
               /\ w.roots[k] = hydrate(NodeOf(base, w.roots[k].id), more)
    <3>1. PICK i \in DOMAIN r.roots : /\ w.roots[k].id = r.roots[i].id
                                      /\ w.roots[k] = RemapNode(r.roots[i], op)
      BY <2>6, <2>7 DEF Elsewhere
    <3>n. PICK n : n = NodeOf(base, r.roots[i].id)
      OBVIOUS
    <3>2. IsNode(base, r.roots[i].id) /\ r.roots[i] = hydrate(n, ops)
      BY <2>5, <2>7, <3>1, <3>n DEF Late
    <3>3. hydrate(n, ops) = RemapNode(hydrate(n, f), l)
      BY <1>0, HydrateMore
    <3>4. hydrate(n, more) = RemapNode(hydrate(n, f), op)
      BY <1>0, <1>m, HydrateMore
    <3>5. RemapNode(hydrate(n, f), op) = RemapNode(hydrate(n, f), l)
      BY <1>l, RemapSame DEF Replaces
    <3>6. RemapNode(r.roots[i], op) = r.roots[i]
      <4>1. NodeRec(r.roots[i]) /\ Content(r.roots[i].content)
        BY <2>2 DEF Tree, Spine, Bodies
      <4>2. op.type \notin {"remove", "merge_text"}
        BY DEF Replaces, Rewording
      <4> QED  BY <4>1, <4>2, RemapNothing
    <3> QED  BY <3>1, <3>2, <3>3, <3>4, <3>5, <3>6, <3>n
  <2> QED  BY <2>6, <2>7 DEF Late
<1>7. r.accepted => w.accepted
  BY <1>4, <1>5
<1> QED  BY <1>6, <1>7, <1>f, <1>m, <1>r, <1>w DEF Faith

(***************************************************************************)
(* A state of a page: a canvas and the list of operations that led to it.  *)
(***************************************************************************)
\* The nodes that a list brings into the draft.
InsertedNodes(ops) ==
    {NewUnit(ops[k].id) : k \in {k \in DOMAIN ops : ops[k].type = "insert_root"}}

Snap(base, loaded, d, roots, ops) ==
    /\ Written(base, ops, d)
    /\ Spine(roots)
    /\ NodeIds(roots) \subseteq NodeIds(base) \cup InsertedNodes(ops)
    /\ InsertedNodes(ops) \subseteq loaded
    /\ ~Overlapping => Faith(base, loaded, roots, ops)

LEMMA InsertedMore ==
    ASSUME NEW ops, IsSeq(ops), NEW op
    PROVE  InsertedNodes(Append(ops, op)) = InsertedNodes(ops) \cup NewNodes(op)
<1>m. PICK more : more = Append(ops, op)
  OBVIOUS
<1>0. Len(ops) \in Nat /\ DOMAIN ops = 1..Len(ops)
  BY Places
<1>n. PICK n : n = Len(ops) + 1
  OBVIOUS
<1>1. /\ DOMAIN more = 1..n /\ more[n] = op
      /\ \A k \in 1..Len(ops) : more[k] = ops[k]
  BY <1>m, <1>n, AppendedAt
<1>2. /\ \A k \in DOMAIN more : k \in DOMAIN ops \/ k = n
      /\ \A k \in DOMAIN ops : k \in DOMAIN more /\ more[k] = ops[k]
      /\ n \in DOMAIN more
  BY <1>0, <1>1, <1>n
<1>3. ASSUME NEW u \in InsertedNodes(more) PROVE u \in InsertedNodes(ops) \cup NewNodes(op)
  <2>1. PICK k \in DOMAIN more : more[k].type = "insert_root" /\ u = NewUnit(more[k].id)
    BY DEF InsertedNodes
  <2> QED  BY <1>1, <1>2, <2>1 DEF InsertedNodes, NewNodes
<1>4. ASSUME NEW u \in InsertedNodes(ops) PROVE u \in InsertedNodes(more)
  <2>1. PICK k \in DOMAIN ops : ops[k].type = "insert_root" /\ u = NewUnit(ops[k].id)
    BY DEF InsertedNodes
  <2> QED  BY <1>2, <2>1 DEF InsertedNodes
<1>5. ASSUME NEW u \in NewNodes(op) PROVE u \in InsertedNodes(more)
  <2>1. op.type = "insert_root" /\ u = NewUnit(op.id)
    BY DEF NewNodes
  <2> QED  BY <1>1, <1>2, <2>1 DEF InsertedNodes
<1>6. InsertedNodes(more) = InsertedNodes(ops) \cup NewNodes(op)
  BY <1>3, <1>4, <1>5
<1> QED  BY <1>6, <1>m

LEMMA InsertedAreNew ==
    ASSUME NEW base, NEW ops, NEW d \in Nat, Written(base, ops, d), NEW u \in InsertedNodes(ops)
    PROVE  u \notin Units(base) /\ \E n \in 1..d : n \in Ids(ops) /\ u = NewUnit(n)
<1>1. PICK k \in DOMAIN ops : u = NewUnit(ops[k].id)
  BY DEF InsertedNodes
<1> QED  BY <1>1 DEF Written, Ids

\* What a page has loaded matters for the nodes that are there.
LEMMA FaithOther ==
    ASSUME NEW base, NEW loaded, NEW more, NEW roots, NEW ops, Faith(base, loaded, roots, ops),
           \A u \in NodeIds(roots) : u \in loaded <=> u \in more
    PROVE  Faith(base, more, roots, ops)
<1>r. PICK r : r = replay(base, ops)
  OBVIOUS
<1> SUFFICES ASSUME r.accepted
             PROVE  Match(roots, r.roots, more) /\ Late(base, r.roots, ops, more)
  BY <1>r DEF Faith
<1>1. Match(roots, r.roots, loaded) /\ Late(base, r.roots, ops, loaded)
  BY <1>r DEF Faith
<1>2. \A i \in DOMAIN r.roots : r.roots[i].id \in loaded <=> r.roots[i].id \in more
  BY <1>1 DEF Match, Sees, NodeIds
<1> QED  BY <1>1, <1>2 DEF Match, Sees, Late

LEMMA WrittenLater ==
    ASSUME NEW base, NEW ops, NEW d \in Nat, NEW e \in Nat, d <= e, Written(base, ops, d)
    PROVE  Written(base, ops, e)
<1>1. \A x \in 1..d : x \in 1..e
  OBVIOUS
<1> QED  BY <1>1 DEF Written

LEMMA SnapLater ==
    ASSUME NEW base, NEW loaded, NEW more, NEW d \in Nat, NEW e \in Nat, d <= e, NEW roots, NEW ops,
           Snap(base, loaded, d, roots, ops), InsertedNodes(ops) \subseteq more,
           \A u \in NodeIds(roots) : u \in loaded <=> u \in more
    PROVE  Snap(base, more, e, roots, ops)
BY WrittenLater, FaithOther DEF Snap

\* The place an operation names is there.
Positioned(roots, op) ==
    /\ op.type = "insert_root" => op.position \in 1..Len(roots) + 1
    /\ op.type = "move_root" => IsNode(roots, op.targetId) /\ op.position \in 1..Len(roots)

\* What Fits asks of the units an operation names.
Reaches(roots, loaded, op) ==
    /\ op.type \in {"replace_text", "split_text", "merge_text", "move"} =>
         Held(roots, loaded, op.targetId)
    /\ op.type \in {"set_metadata", "insert_text"} =>
         op.targetId \in NodeIds(roots) /\ op.targetId \in loaded
    /\ op.type = "move" =>
         op.destinationParentId \in NodeIds(roots) /\ op.destinationParentId \in loaded
    /\ op.type = "remove" =>
         op.targetId \in NodeIds(roots) \/ Held(roots, loaded, op.targetId)

LEMMA SnapAppended ==
    ASSUME NEW base, NEW loaded, NEW d \in Nat, NEW e \in Nat, e = d + 1, NEW roots, NEW ops,
           Tree(base), Snap(base, loaded, d, roots, ops),
           NEW op, op.type \in Types, op.id = e, NewUnit(e) \in loaded, NewUnit(e) \notin Units(base),
           op.type \in Rewording => op.replacementId = Nowhere, Positioned(roots, op),
           ~Overlapping /\ replay(base, ops).accepted => Reaches(roots, loaded, op)
    PROVE  /\ Snap(base, loaded, e, applyOperation(roots, op), Append(ops, op))
           /\ ~Overlapping /\ replay(base, ops).accepted /\ Pinned(roots, op)
              /\ Aware(roots, loaded, op)
                => replay(base, Append(ops, op)).accepted
<1>1. IsSeq(ops) /\ Written(base, ops, d)
  BY DEF Snap, Written
<1>2. op.id \notin Ids(ops) /\ op.id \in 1..e /\ d <= e
  <2>1. \A x \in Ids(ops) : x \in 1..d
    BY <1>1 DEF Written, Ids
  <2> QED  BY <2>1
<1>3. Written(base, Append(ops, op), e)
  BY <1>1, <1>2, WrittenAppended
<1>4. NewUnit(op.id) \notin NodeIds(roots)
  <2> SUFFICES ASSUME NewUnit(e) \in NodeIds(roots) PROVE FALSE
    OBVIOUS
  <2>1. NewUnit(e) \notin NodeIds(base)
    BY UnitsAre
  <2>2. NewUnit(e) \in InsertedNodes(ops)
    BY <2>1 DEF Snap
  <2>3. PICK n \in 1..d : NewUnit(e) = NewUnit(n)
    BY <1>1, <2>2, InsertedAreNew
  <2> QED  BY <2>3 DEF NewUnit
<1>5. Placed(roots, op)
  BY <1>4 DEF Placed, Positioned
<1>6. Spine(roots)
  BY DEF Snap
<1>7. /\ Spine(applyOperation(roots, op))
      /\ NodeIds(applyOperation(roots, op)) \subseteq NodeIds(roots) \cup NewNodes(op)
  BY <1>5, <1>6, ApplySpine
<1>8. NewNodes(op) \subseteq loaded
  BY DEF NewNodes
<1>9. InsertedNodes(Append(ops, op)) = InsertedNodes(ops) \cup NewNodes(op)
  BY <1>1, InsertedMore
<1>10. ~Overlapping /\ replay(base, ops).accepted => Fits(roots, loaded, op)
  BY <1>8 DEF Fits, Reaches
<1>11. ~Overlapping =>
         /\ Faith(base, loaded, applyOperation(roots, op), Append(ops, op))
         /\ replay(base, ops).accepted /\ Pinned(roots, op) /\ Aware(roots, loaded, op)
              => replay(base, Append(ops, op)).accepted
  <2> SUFFICES ASSUME ~Overlapping
               PROVE  /\ Faith(base, loaded, applyOperation(roots, op), Append(ops, op))
                      /\ replay(base, ops).accepted /\ Pinned(roots, op)
                         /\ Aware(roots, loaded, op)
                           => replay(base, Append(ops, op)).accepted
    OBVIOUS
  <2>1. Faith(base, loaded, roots, ops)
    BY DEF Snap
  <2> QED  BY <1>1, <1>5, <1>10, <2>1, FaithAppended
<1> QED  BY <1>3, <1>7, <1>8, <1>9, <1>11 DEF Snap

LEMMA SnapReplaced ==
    ASSUME NEW base, NEW loaded, NEW d \in Nat, NEW roots, NEW ops,
           Tree(base), Snap(base, loaded, d, roots, ops), ops # <<>>,
           NEW op, Replaces(op, Last(ops)),
           ~Overlapping /\ replay(base, ops).accepted => Reaches(roots, loaded, op)
    PROVE  /\ Snap(base, loaded, d, applyOperation(roots, op), Append(Front(ops), op))
           /\ ~Overlapping /\ replay(base, ops).accepted
                => replay(base, Append(Front(ops), op)).accepted
<1>f. PICK f : f = Front(ops)
  OBVIOUS
<1>l. PICK l : l = Last(ops)
  OBVIOUS
<1>1. IsSeq(ops) /\ Written(base, ops, d)
  BY DEF Snap, Written
<1>2. /\ Written(base, f, d)
      /\ l.id \in 1..d /\ l.type \in Types
      /\ NewUnit(l.id) \notin Units(base)
      /\ l.id \notin Ids(f)
  BY <1>1, <1>f, <1>l, WrittenFront
<1>3. op.id = l.id /\ op.type = l.type /\ op.replacementId = Nowhere /\ op.type \in Rewording
  BY <1>l DEF Replaces
<1>4. Written(base, Append(f, op), d)
  BY <1>2, <1>3, WrittenAppended
<1>5. IsSeq(f) /\ ops = Append(f, l)
  BY <1>1, <1>f, <1>l, FrontThenLast
<1>6. NewNodes(op) = {} /\ NewNodes(l) = {}
  BY <1>3 DEF NewNodes, Rewording
<1>7. InsertedNodes(Append(f, op)) = InsertedNodes(ops)
  BY <1>5, <1>6, InsertedMore
<1>8. Placed(roots, op)
  BY <1>2, <1>3 DEF Placed, Rewording
<1>9. Spine(roots)
  BY DEF Snap
<1>10. /\ Spine(applyOperation(roots, op))
       /\ NodeIds(applyOperation(roots, op)) \subseteq NodeIds(roots)
  BY <1>6, <1>8, <1>9, ApplySpine
<1>11. ~Overlapping /\ replay(base, ops).accepted => Fits(roots, loaded, op)
  BY <1>6 DEF Fits, Reaches
<1>12. ~Overlapping =>
         /\ Faith(base, loaded, applyOperation(roots, op), Append(f, op))
         /\ replay(base, ops).accepted => replay(base, Append(f, op)).accepted
  <2> SUFFICES ASSUME ~Overlapping
               PROVE  /\ Faith(base, loaded, applyOperation(roots, op), Append(f, op))
                      /\ replay(base, ops).accepted => replay(base, Append(f, op)).accepted
    OBVIOUS
  <2>1. Faith(base, loaded, roots, ops)
    BY DEF Snap
  <2> QED  BY <1>1, <1>8, <1>11, <1>f, <2>1, FaithReplaced
<1> QED  BY <1>4, <1>7, <1>10, <1>12, <1>f DEF Snap

(***************************************************************************)
(* Emitting an operation.                                                  *)
(***************************************************************************)
OpRec(op) ==
    op = [id |-> op.id, type |-> op.type, targetId |-> op.targetId,
          expectedRevisionId |-> op.expectedRevisionId, text |-> op.text,
          references |-> op.references, position |-> op.position, parts |-> op.parts,
          mergeIds |-> op.mergeIds, destinationParentId |-> op.destinationParentId,
          destinationRevisionId |-> op.destinationRevisionId,
          replacementId |-> op.replacementId]

\* The same but for the id and the revision that is expected.
Same(c, op) ==
    /\ c.type = op.type /\ c.targetId = op.targetId /\ c.text = op.text
    /\ c.references = op.references /\ c.position = op.position /\ c.parts = op.parts
    /\ c.mergeIds = op.mergeIds /\ c.destinationParentId = op.destinationParentId
    /\ c.destinationRevisionId = op.destinationRevisionId
    /\ c.replacementId = op.replacementId

LEMMA OperationIs ==
    ASSUME NEW type, NEW target, NEW expected
    PROVE  LET op == Operation(type, target, expected)
           IN  /\ OpRec(op) /\ op.type = type /\ op.targetId = target
               /\ op.expectedRevisionId = expected /\ op.replacementId = Nowhere
BY DEF Operation, OpRec

Renumbered(c, op, id, expected) == Same(c, op) /\ c.id = id /\ c.expectedRevisionId = expected

LEMMA Renumbering ==
    ASSUME NEW op, OpRec(op), NEW id, NEW expected
    PROVE  /\ \E c : c = [op EXCEPT !.id = id, !.expectedRevisionId = expected]
                     /\ Renumbered(c, op, id, expected)
           /\ \E c : c = [op EXCEPT !.id = id] /\ Renumbered(c, op, id, op.expectedRevisionId)
<1>1. PICK a : a = [op EXCEPT !.id = id, !.expectedRevisionId = expected]
  OBVIOUS
<1>2. PICK b : b = [op EXCEPT !.id = id]
  OBVIOUS
<1>3. a = [id |-> id, type |-> op.type, targetId |-> op.targetId,
           expectedRevisionId |-> expected, text |-> op.text,
           references |-> op.references, position |-> op.position, parts |-> op.parts,
           mergeIds |-> op.mergeIds, destinationParentId |-> op.destinationParentId,
           destinationRevisionId |-> op.destinationRevisionId,
           replacementId |-> op.replacementId]
  BY <1>1 DEF OpRec
<1>4. b = [id |-> id, type |-> op.type, targetId |-> op.targetId,
           expectedRevisionId |-> op.expectedRevisionId, text |-> op.text,
           references |-> op.references, position |-> op.position, parts |-> op.parts,
           mergeIds |-> op.mergeIds, destinationParentId |-> op.destinationParentId,
           destinationRevisionId |-> op.destinationRevisionId,
           replacementId |-> op.replacementId]
  BY <1>2 DEF OpRec
<1>5. Renumbered(a, op, id, expected)
  BY <1>3 DEF Renumbered, Same
<1>6. Renumbered(b, op, id, op.expectedRevisionId)
  BY <1>4 DEF Renumbered, Same
<1> QED  BY <1>1, <1>2, <1>5, <1>6

\* What emit makes of an operation, which is replaced or appended.
Emits(e, work, c, kept, n) ==
    /\ e.roots = applyOperation(work.roots, c)
    /\ e.operations = Append(kept, c)
    /\ e.drawn = n

LEMMA EmitIs ==
    ASSUME NEW work, NEW op, OpRec(op)
    PROVE  /\ Coalesces(work, op) =>
                \E c : /\ Renumbered(c, op, Last(work.operations).id,
                                     Last(work.operations).expectedRevisionId)
                       /\ Emits(emit(work, op), work, c, Front(work.operations), work.drawn)
           /\ ~Coalesces(work, op) =>
                \E c : /\ Renumbered(c, op, work.drawn + 1, op.expectedRevisionId)
                       /\ Emits(emit(work, op), work, c, work.operations, work.drawn + 1)
<1>1. ASSUME Coalesces(work, op)
      PROVE  \E c : /\ Renumbered(c, op, Last(work.operations).id,
                                  Last(work.operations).expectedRevisionId)
                    /\ Emits(emit(work, op), work, c, Front(work.operations), work.drawn)
  <2>1. PICK id, expected : /\ id = Last(work.operations).id
                            /\ expected = Last(work.operations).expectedRevisionId
    OBVIOUS
  <2>2. PICK c : /\ c = [op EXCEPT !.id = id, !.expectedRevisionId = expected]
                 /\ Renumbered(c, op, id, expected)
    BY Renumbering
  <2>3. PICK e : e = emit(work, op)
    OBVIOUS
  <2>4. e = [roots |-> applyOperation(work.roots, c),
             operations |-> Append(Front(work.operations), c), drawn |-> work.drawn]
    BY <1>1, <2>1, <2>2, <2>3 DEF emit
  <2>5. Emits(e, work, c, Front(work.operations), work.drawn)
    BY <2>4 DEF Emits
  <2> QED  BY <2>1, <2>2, <2>3, <2>5
<1>2. ASSUME ~Coalesces(work, op)
      PROVE  \E c : /\ Renumbered(c, op, work.drawn + 1, op.expectedRevisionId)
                    /\ Emits(emit(work, op), work, c, work.operations, work.drawn + 1)
  <2>1. PICK id : id = work.drawn + 1
    OBVIOUS
  <2>2. PICK c : c = [op EXCEPT !.id = id] /\ Renumbered(c, op, id, op.expectedRevisionId)
    BY Renumbering
  <2>3. PICK e : e = emit(work, op)
    OBVIOUS
  <2>4. e = [roots |-> applyOperation(work.roots, c),
             operations |-> Append(work.operations, c), drawn |-> id]
    BY <1>2, <2>1, <2>2, <2>3 DEF emit
  <2>5. Emits(e, work, c, work.operations, id)
    BY <2>4 DEF Emits
  <2> QED  BY <2>1, <2>2, <2>3, <2>5
<1> QED  BY <1>1, <1>2

(***************************************************************************)
(* A command at work keeps a state of its page.                            *)
(***************************************************************************)
\* The ids a unit can have when d operation ids are drawn.
Old(d) == {x \in Int : x # 0 /\ x >= -d}

\* The page's base, and a set of loaded nodes wide enough for those a command inserts.
Ground(base, loaded) ==
    /\ drawn \in Nat
    /\ Tree(base) /\ Units(base) \subseteq Old(drawn)
    /\ \A n \in Nat : n > drawn => NewUnit(n) \in loaded

Work(base, loaded, w) ==
    /\ w.drawn \in Nat /\ drawn <= w.drawn
    /\ Snap(base, loaded, w.drawn, w.roots, w.operations)

\* Accepted(base, ops): the service would take the list, and the page reads no node twice.
Accepted(base, ops) == ~Overlapping /\ replay(base, ops).accepted

\* The service would take the operation, whatever its id is.
PinnedAs(roots, op) ==
    \A c : Same(c, op) /\ c.expectedRevisionId = op.expectedRevisionId => Pinned(roots, c)

LEMMA PinnedStill ==
    ASSUME NEW roots, NEW op, op.type # "move", Pinned(roots, op)
    PROVE  PinnedAs(roots, op)
BY DEF PinnedAs, Same, Pinned, InPlace

LEMMA ReachesStill ==
    ASSUME NEW roots, NEW loaded, NEW op, NEW c, Same(c, op)
    PROVE  /\ Reaches(roots, loaded, op) => Reaches(roots, loaded, c)
           /\ Positioned(roots, op) => Positioned(roots, c)
           /\ Aware(roots, loaded, op) => Aware(roots, loaded, c)
BY DEF Reaches, Positioned, Aware, Same

\* An operation a command may write at this point of its work.
Writes(base, loaded, w, op) ==
    /\ OpRec(op) /\ op.type \in Types
    /\ op.type \in Rewording => op.replacementId = Nowhere
    /\ Positioned(w.roots, op)
    /\ Accepted(base, w.operations) => Reaches(w.roots, loaded, op)

\* It keeps a list that is accepted one that is.
Expects(base, loaded, w, op) ==
    Accepted(base, w.operations) => PinnedAs(w.roots, op) /\ Aware(w.roots, loaded, op)

\* What is known of the work afterwards.
Goes(base, loaded, w, op, e) ==
    /\ Work(base, loaded, e)
    /\ Expects(base, loaded, w, op) /\ Accepted(base, w.operations) =>
         Accepted(base, e.operations)

LEMMA EmitReplaces ==
    ASSUME NEW base, NEW loaded, Ground(base, loaded), NEW w, Work(base, loaded, w),
           NEW op, Writes(base, loaded, w, op), Coalesces(w, op)
    PROVE  Goes(base, loaded, w, op, emit(w, op))
<1>e. PICK e : e = emit(w, op)
  OBVIOUS
<1>l. PICK l : l = Last(w.operations)
  OBVIOUS
<1>1. PICK c : /\ Renumbered(c, op, l.id, l.expectedRevisionId)
               /\ Emits(e, w, c, Front(w.operations), w.drawn)
  BY <1>e, <1>l, EmitIs DEF Writes
<1>2. /\ w.operations # <<>> /\ op.type \in Rewording
      /\ l.targetId = op.targetId /\ l.type = op.type
  BY <1>l DEF Coalesces, Rewording
<1>3. /\ w.drawn \in Nat /\ drawn <= w.drawn /\ Tree(base)
      /\ Snap(base, loaded, w.drawn, w.roots, w.operations)
      /\ Written(base, w.operations, w.drawn)
  BY DEF Work, Ground, Snap
<1>4. l.type \in Rewording => l.replacementId = Nowhere
  BY <1>2, <1>3, <1>l, WrittenFront
<1>5. Replaces(c, l)
  BY <1>1, <1>2, <1>4 DEF Replaces, Renumbered, Same, Writes
<1>6. Accepted(base, w.operations) => Reaches(w.roots, loaded, c)
  BY <1>1, ReachesStill DEF Writes, Renumbered
<1>7. /\ Snap(base, loaded, w.drawn, applyOperation(w.roots, c), Append(Front(w.operations), c))
      /\ Accepted(base, w.operations) => Accepted(base, Append(Front(w.operations), c))
  BY <1>2, <1>3, <1>5, <1>6, <1>l, SnapReplaced DEF Accepted
<1> QED  BY <1>1, <1>3, <1>7, <1>e DEF Goes, Work, Emits

\* An operation that is appended gets the next id.
Follows(base, loaded, w, op, c, e) ==
    /\ Renumbered(c, op, w.drawn + 1, op.expectedRevisionId)
    /\ Emits(e, w, c, w.operations, w.drawn + 1)
    /\ Accepted(base, e.operations) => Accepted(base, w.operations)
    /\ Goes(base, loaded, w, op, e)

LEMMA EmitAppends ==
    ASSUME NEW base, NEW loaded, Ground(base, loaded), NEW w, Work(base, loaded, w),
           NEW op, Writes(base, loaded, w, op), ~Coalesces(w, op)
    PROVE  \E c : Follows(base, loaded, w, op, c, emit(w, op))
<1>e. PICK e : e = emit(w, op)
  OBVIOUS
<1>n. PICK n : n = w.drawn + 1
  OBVIOUS
<1>1. PICK c : Renumbered(c, op, n, op.expectedRevisionId) /\ Emits(e, w, c, w.operations, n)
  BY <1>e, <1>n, EmitIs DEF Writes
<1>2. /\ w.drawn \in Nat /\ n \in Nat /\ drawn < n /\ drawn <= n /\ drawn \in Nat /\ Tree(base)
      /\ Snap(base, loaded, w.drawn, w.roots, w.operations)
  BY <1>n DEF Work, Ground
<1>3. NewUnit(n) \in loaded /\ NewUnit(n) \notin Units(base)
  BY <1>2 DEF Ground, Old, NewUnit
<1>4. /\ Same(c, op) /\ c.id = n /\ c.expectedRevisionId = op.expectedRevisionId
  BY <1>1 DEF Renumbered
<1>5. /\ c.type \in Types /\ (c.type \in Rewording => c.replacementId = Nowhere)
      /\ Positioned(w.roots, c)
      /\ Accepted(base, w.operations) => Reaches(w.roots, loaded, c)
      /\ Aware(w.roots, loaded, op) => Aware(w.roots, loaded, c)
      /\ PinnedAs(w.roots, op) => Pinned(w.roots, c)
  <2>1. c.type = op.type /\ c.replacementId = op.replacementId
    BY <1>4 DEF Same
  <2> QED  BY <1>4, <2>1, ReachesStill DEF Writes, PinnedAs
<1>6. /\ Snap(base, loaded, n, applyOperation(w.roots, c), Append(w.operations, c))
      /\ Accepted(base, w.operations) /\ Pinned(w.roots, c) /\ Aware(w.roots, loaded, c)
           => Accepted(base, Append(w.operations, c))
  BY <1>2, <1>3, <1>4, <1>5, <1>n, SnapAppended DEF Accepted
<1>7. Goes(base, loaded, w, op, e)
  BY <1>1, <1>2, <1>5, <1>6 DEF Goes, Work, Emits, Expects
<1>8. Accepted(base, e.operations) => Accepted(base, w.operations)
  <2>1. IsSeq(w.operations) /\ Outcome(replay(base, w.operations))
    BY <1>2, ReplayTree DEF Snap, Written
  <2>2. replay(base, e.operations) = replayStep(replay(base, w.operations), c)
    BY <1>1, <2>1, ReplayMore DEF Emits
  <2>3. replay(base, e.operations).accepted => replay(base, w.operations).accepted
    BY <2>1, <2>2, StepIs
  <2> QED  BY <2>3 DEF Accepted
<1> QED  BY <1>1, <1>7, <1>8, <1>e, <1>n DEF Follows

LEMMA Emit ==
    ASSUME NEW base, NEW loaded, Ground(base, loaded), NEW w, Work(base, loaded, w),
           NEW op, Writes(base, loaded, w, op)
    PROVE  Goes(base, loaded, w, op, emit(w, op))
BY EmitReplaces, EmitAppends DEF Follows

(***************************************************************************)
(* The operations that commands write.                                     *)
(***************************************************************************)
\* An operation of this type about this unit, pinned to this revision.
Kin(x, o) ==
    /\ OpRec(x) /\ x.type = o.type /\ x.targetId = o.targetId
    /\ x.expectedRevisionId = o.expectedRevisionId

Worded(x, o) == Kin(x, o) /\ x.replacementId = o.replacementId
PlacedAt(x, o, v) == Kin(x, o) /\ x.replacementId = o.replacementId /\ x.position = v
Given(o, text, refs, position, parts, mergeIds, parent, revision, replacement) ==
    [id |-> o.id, type |-> o.type, targetId |-> o.targetId,
     expectedRevisionId |-> o.expectedRevisionId, text |-> text, references |-> refs,
     position |-> position, parts |-> parts, mergeIds |-> mergeIds,
     destinationParentId |-> parent, destinationRevisionId |-> revision,
     replacementId |-> replacement]

LEMMA GivenIs ==
    ASSUME NEW o, NEW a, NEW b, NEW c, NEW d, NEW e, NEW f, NEW g, NEW h, NEW x,
           x = Given(o, a, b, c, d, e, f, g, h)
    PROVE  /\ Kin(x, o) /\ x.text = a /\ x.references = b /\ x.position = c /\ x.parts = d
           /\ x.mergeIds = e /\ x.destinationParentId = f /\ x.destinationRevisionId = g
           /\ x.replacementId = h
<1>1. x = [id |-> o.id, type |-> o.type, targetId |-> o.targetId,
           expectedRevisionId |-> o.expectedRevisionId, text |-> a, references |-> b,
           position |-> c, parts |-> d, mergeIds |-> e,
           destinationParentId |-> f, destinationRevisionId |-> g, replacementId |-> h]
  BY DEF Given
<1>2. /\ x.id = o.id /\ x.type = o.type /\ x.targetId = o.targetId
      /\ x.expectedRevisionId = o.expectedRevisionId
      /\ x.text = a /\ x.references = b /\ x.position = c /\ x.parts = d
      /\ x.mergeIds = e /\ x.destinationParentId = f /\ x.destinationRevisionId = g
      /\ x.replacementId = h
  BY <1>1
<1>3. OpRec(x)
  BY <1>1, <1>2 DEF OpRec
<1> QED  BY <1>2, <1>3 DEF Kin

LEMMA WithText ==
    ASSUME NEW o, OpRec(o), NEW v, NEW w
    PROVE  /\ \E x : x = [o EXCEPT !.text = v] /\ Worded(x, o)
           /\ \E x : x = [o EXCEPT !.text = v, !.references = w] /\ Worded(x, o)
<1>1. PICK x : x = [o EXCEPT !.text = v]
  OBVIOUS
<1>2. PICK y : y = [o EXCEPT !.text = v, !.references = w]
  OBVIOUS
<1>3. x = Given(o, v, o.references, o.position, o.parts, o.mergeIds, o.destinationParentId,
                o.destinationRevisionId, o.replacementId)
  BY <1>1 DEF OpRec, Given
<1>4. y = Given(o, v, w, o.position, o.parts, o.mergeIds, o.destinationParentId,
                o.destinationRevisionId, o.replacementId)
  BY <1>2 DEF OpRec, Given
<1>5. Worded(x, o) /\ Worded(y, o)
  BY <1>3, <1>4, GivenIs DEF Worded
<1> QED  BY <1>1, <1>2, <1>5

LEMMA WithPosition ==
    ASSUME NEW o, OpRec(o), NEW v, NEW w
    PROVE  /\ \E x : x = [o EXCEPT !.position = v] /\ PlacedAt(x, o, v)
           /\ \E x : x = [o EXCEPT !.position = v, !.text = w] /\ PlacedAt(x, o, v)
<1>1. PICK x : x = [o EXCEPT !.position = v]
  OBVIOUS
<1>2. PICK y : y = [o EXCEPT !.position = v, !.text = w]
  OBVIOUS
<1>3. x = Given(o, o.text, o.references, v, o.parts, o.mergeIds, o.destinationParentId,
                o.destinationRevisionId, o.replacementId)
  BY <1>1 DEF OpRec, Given
<1>4. y = Given(o, w, o.references, v, o.parts, o.mergeIds, o.destinationParentId,
                o.destinationRevisionId, o.replacementId)
  BY <1>2 DEF OpRec, Given
<1>5. PlacedAt(x, o, v) /\ PlacedAt(y, o, v)
  BY <1>3, <1>4, GivenIs DEF PlacedAt
<1> QED  BY <1>1, <1>2, <1>5

LEMMA WithOthers ==
    ASSUME NEW o, OpRec(o), NEW v
    PROVE  /\ \E x : /\ x = [o EXCEPT !.parts = v] /\ Kin(x, o)
                     /\ x.replacementId = o.replacementId /\ x.parts = v
           /\ \E x : /\ x = [o EXCEPT !.mergeIds = v] /\ Kin(x, o)
                     /\ x.replacementId = o.replacementId /\ x.mergeIds = v
           /\ \E x : /\ x = [o EXCEPT !.replacementId = v] /\ Kin(x, o)
                     /\ x.replacementId = v
<1>1. PICK x : x = [o EXCEPT !.parts = v]
  OBVIOUS
<1>2. PICK y : y = [o EXCEPT !.mergeIds = v]
  OBVIOUS
<1>3. PICK z : z = [o EXCEPT !.replacementId = v]
  OBVIOUS
<1>4. x = Given(o, o.text, o.references, o.position, v, o.mergeIds, o.destinationParentId,
                o.destinationRevisionId, o.replacementId)
  BY <1>1 DEF OpRec, Given
<1>5. y = Given(o, o.text, o.references, o.position, o.parts, v, o.destinationParentId,
                o.destinationRevisionId, o.replacementId)
  BY <1>2 DEF OpRec, Given
<1>6. z = Given(o, o.text, o.references, o.position, o.parts, o.mergeIds,
                o.destinationParentId, o.destinationRevisionId, v)
  BY <1>3 DEF OpRec, Given
<1> QED  BY <1>1, <1>2, <1>3, <1>4, <1>5, <1>6, GivenIs

(***************************************************************************)
(* What is true of a page, and of what a command builds on it.             *)
(***************************************************************************)
Keeps(q, roots, ops) == Snap(q.base, q.loaded, drawn, roots, ops)

\* The reads under way: of nodes of the base, and where they may not overlap, one at a time.
Reading(q) ==
    /\ \A r \in q.reads : r.root = Nowhere \/ r.root \in NodeIds(q.base)
    /\ ~Overlapping =>
         /\ \A r \in q.reads : r.root # Nowhere => r.root \notin q.loaded
         /\ \A r, s \in q.reads : r.root = s.root \/ r.root = Nowhere => r = s

EditPage(q) ==
    /\ Tree(q.base) /\ Units(q.base) \subseteq Old(drawn)
    /\ Keeps(q, q.roots, q.operations)
    /\ \A k \in DOMAIN q.history : Keeps(q, q.history[k].roots, q.history[k].operations)
    /\ \A k \in DOMAIN q.future : Keeps(q, q.future[k].roots, q.future[k].operations)
    /\ Len(q.history) + Len(q.future) <= HistoryLimit
    /\ Reading(q)

\* The nodes a page has loaded, and every one that it may yet insert.
Wide(p) == page[p].loaded \cup {NewUnit(n) : n \in {n \in Nat : n > drawn}}

Undrawn(u) == \E n \in Nat : n > drawn /\ u = NewUnit(n)

LEMMA WideIs ==
    ASSUME NEW p, NEW u
    PROVE  u \in Wide(p) <=> u \in page[p].loaded \/ Undrawn(u)
BY DEF Wide, Undrawn

LEMMA UndrawnIsNew ==
    ASSUME drawn \in Nat, NEW u, Undrawn(u)
    PROVE  u \notin Old(drawn)
BY DEF Undrawn, Old, NewUnit

LEMMA WorkingHere ==
    ASSUME drawn \in Nat, NEW p, EditPage(page[p])
    PROVE  /\ Ground(page[p].base, Wide(p))
           /\ Work(page[p].base, Wide(p), Working(p))
           /\ Working(p).roots = page[p].roots
           /\ Working(p).operations = page[p].operations
           /\ Working(p).drawn = drawn
<1>1. /\ Working(p).roots = page[p].roots
      /\ Working(p).operations = page[p].operations
      /\ Working(p).drawn = drawn
  BY DEF Working
<1>2. Ground(page[p].base, Wide(p))
  <2>1. ASSUME NEW n \in Nat, n > drawn PROVE NewUnit(n) \in Wide(p)
    BY <2>1 DEF Wide
  <2> QED  BY <2>1 DEF Ground, EditPage
<1>3. Snap(page[p].base, page[p].loaded, drawn, page[p].roots, page[p].operations)
  BY DEF EditPage, Keeps
<1>4. ASSUME NEW u \in NodeIds(page[p].roots), Undrawn(u) PROVE u \in page[p].loaded
  <2>1. u \notin NodeIds(page[p].base)
    BY <1>4, UndrawnIsNew, UnitsAre DEF EditPage
  <2> QED  BY <1>3, <2>1 DEF Snap
<1>5. Snap(page[p].base, Wide(p), drawn, page[p].roots, page[p].operations)
  <2>1. InsertedNodes(page[p].operations) \subseteq Wide(p)
    BY <1>3, WideIs DEF Snap
  <2>2. \A u \in NodeIds(page[p].roots) : u \in page[p].loaded <=> u \in Wide(p)
    BY <1>4, WideIs
  <2>3. drawn <= drawn
    OBVIOUS
  <2> QED  BY <1>3, <2>1, <2>2, <2>3, SnapLater
<1> QED  BY <1>1, <1>2, <1>5 DEF Work

LEMMA AcceptedTree ==
    ASSUME NEW base, NEW loaded, Ground(base, loaded), NEW w, Work(base, loaded, w),
           Accepted(base, w.operations)
    PROVE  Tree(w.roots)
<1>1. Tree(replay(base, w.operations).roots)
  BY ReplayTree DEF Ground, Work, Snap, Accepted
<1>2. Match(w.roots, replay(base, w.operations).roots, loaded)
  BY DEF Work, Snap, Faith, Accepted
<1> QED  BY <1>1, <1>2, MatchTree

LEMMA WorkSpine ==
    ASSUME NEW base, NEW loaded, NEW w, Work(base, loaded, w)
    PROVE  Spine(w.roots) /\ Len(w.roots) \in Nat /\ DOMAIN w.roots = 1..Len(w.roots)
BY Places DEF Work, Snap, Spine

\* A command has built this, and it replays to its end if what was there did.
Built(p, work, sound) ==
    /\ Work(page[p].base, Wide(p), work)
    /\ sound /\ Accepted(page[p].base, page[p].operations) =>
         Accepted(page[p].base, work.operations)

Builds(p, sound) ==
    \E work, typing : \E grouped \in BOOLEAN :
      transaction(p, work, grouped, typing) /\ Built(p, work, sound)

LEMMA ChangeBuilds ==
    ASSUME drawn \in Nat, NEW p, EditPage(page[p]), NEW op, NEW grouped \in BOOLEAN, NEW typing,
           change(p, op, grouped, typing),
           Writes(page[p].base, Wide(p), Working(p), op),
           Expects(page[p].base, Wide(p), Working(p), op)
    PROVE  Builds(p, TRUE)
<1>w. PICK work : work = emit(Working(p), op)
  OBVIOUS
<1>1. transaction(p, work, grouped, typing)
  BY <1>w DEF change
<1>2. Goes(page[p].base, Wide(p), Working(p), op, work)
  BY <1>w, WorkingHere, Emit
<1>3. Built(p, work, TRUE)
  BY <1>2, WorkingHere DEF Goes, Built
<1> QED  BY <1>1, <1>3 DEF Builds

LEMMA ShownIsHeld ==
    ASSUME NEW p, NEW t \in ShownTexts(p)
    PROVE  Held(page[p].roots, Wide(p), t)
<1>1. PICK i \in Shown(p) : t \in {page[p].roots[i].content[j].id : j \in DOMAIN page[p].roots[i].content}
  BY DEF ShownTexts
<1>2. i \in DOMAIN page[p].roots /\ page[p].roots[i].id \in Wide(p)
  BY WideIs DEF Shown
<1> QED  BY <1>1, <1>2 DEF Held, TextsOf

\* A text that a page shows has its token, and a place that can be looked up.
LEMMA HeldIsPinned ==
    ASSUME NEW roots, Tree(roots), NEW loaded, NEW t, Held(roots, loaded, t)
    PROVE  /\ Holder(roots, t) # 0 /\ Present(roots, t)
           /\ ~IsNode(roots, t)
           /\ token(roots, t) = TextOf(roots, t).tok
<1>1. PICK i \in DOMAIN roots : t \in TextsOf(roots[i].content)
  BY DEF Held
<1>2. PICK j \in DOMAIN roots[i].content : t = roots[i].content[j].id
  BY <1>1 DEF TextsOf
<1>3. Holder(roots, t) = i /\ ~IsNode(roots, t) /\ i # 0
  BY <1>2, TextAt DEF Tree
<1> QED  BY <1>3 DEF token, Present

LEMMA NodeIsPinned ==
    ASSUME NEW roots, Spine(roots), NEW i \in DOMAIN roots
    PROVE  /\ IsNode(roots, roots[i].id) /\ Present(roots, roots[i].id)
           /\ NodeOf(roots, roots[i].id) = roots[i]
           /\ token(roots, roots[i].id) = roots[i].tok
           /\ roots[i].id \in NodeIds(roots)
BY NodeAt DEF token, Present, NodeIds

LEMMA TypeBuilds ==
    ASSUME drawn \in Nat, NEW p, EditPage(page[p]), Type(p)
    PROVE  Builds(p, TRUE)
<1>b. PICK base, wide, w, roots : /\ base = page[p].base /\ wide = Wide(p) /\ w = Working(p)
                                  /\ roots = page[p].roots
  OBVIOUS
<1>0. PICK t \in ShownTexts(p), text \in Wording, grouped \in BOOLEAN, typing \in Keys(p) :
        change(p, [Operation("replace_text", t, TextOf(roots, t).tok) EXCEPT
                     !.text = text, !.references = TextOf(roots, t).refs],
               grouped, typing)
  BY <1>b DEF Type
<1>o. PICK o, refs : /\ o = Operation("replace_text", t, TextOf(roots, t).tok)
                     /\ refs = TextOf(roots, t).refs
  OBVIOUS
<1>1. OpRec(o) /\ o.type = "replace_text" /\ o.targetId = t
      /\ o.expectedRevisionId = TextOf(roots, t).tok /\ o.replacementId = Nowhere
  BY <1>o, OperationIs
<1>2. PICK op : op = [o EXCEPT !.text = text, !.references = refs] /\ Worded(op, o)
  BY <1>1, WithText
<1>3. change(p, op, grouped, typing)
  BY <1>0, <1>2, <1>o
<1>4. /\ OpRec(op) /\ op.type = "replace_text" /\ op.targetId = t
      /\ op.expectedRevisionId = TextOf(roots, t).tok /\ op.replacementId = Nowhere
  BY <1>1, <1>2 DEF Worded, Kin
<1>5. Ground(base, wide) /\ Work(base, wide, w) /\ w.roots = roots
  BY <1>b, WorkingHere
<1>6. Held(roots, wide, t)
  BY <1>b, ShownIsHeld
<1>7. Writes(base, wide, w, op)
  BY <1>4, <1>6, <1>5 DEF Writes, Types, Rewording, Positioned, Reaches
<1>8. Expects(base, wide, w, op)
  <2> SUFFICES ASSUME Accepted(base, w.operations) PROVE PinnedAs(roots, op) /\ Aware(roots, wide, op)
    BY <1>5 DEF Expects
  <2>1. Tree(roots)
    BY <1>5, AcceptedTree
  <2>2. Holder(roots, t) # 0 /\ Present(roots, t) /\ token(roots, t) = TextOf(roots, t).tok
    BY <1>6, <2>1, HeldIsPinned
  <2>3. Pinned(roots, op)
    BY <1>4, <2>2 DEF Pinned, InPlace
  <2> QED  BY <1>4, <1>6, <2>3, PinnedStill DEF Aware
<1> QED  BY <1>3, <1>7, <1>8, <1>b, ChangeBuilds

LEMMA ShownIsLoaded ==
    ASSUME NEW p, NEW i \in Shown(p)
    PROVE  i \in DOMAIN page[p].roots /\ page[p].roots[i].id \in Wide(p)
BY WideIs DEF Shown

LEMMA RetitleBuilds ==
    ASSUME drawn \in Nat, NEW p, EditPage(page[p]), Retitle(p)
    PROVE  Builds(p, TRUE)
<1>b. PICK base, wide, w, roots : /\ base = page[p].base /\ wide = Wide(p) /\ w = Working(p)
                                  /\ roots = page[p].roots
  OBVIOUS
<1>0. PICK i \in Shown(p), title \in Wording \cup {<<>>} :
        change(p, [Operation("set_metadata", roots[i].id, roots[i].tok) EXCEPT !.text = title],
               FALSE, Nowhere)
  BY <1>b DEF Retitle
<1>o. PICK o : o = Operation("set_metadata", roots[i].id, roots[i].tok)
  OBVIOUS
<1>1. OpRec(o) /\ o.type = "set_metadata" /\ o.targetId = roots[i].id
      /\ o.expectedRevisionId = roots[i].tok /\ o.replacementId = Nowhere
  BY <1>o, OperationIs
<1>2. PICK op : op = [o EXCEPT !.text = title] /\ Worded(op, o)
  BY <1>1, WithText
<1>3. change(p, op, FALSE, Nowhere)
  BY <1>0, <1>2, <1>o
<1>4. /\ OpRec(op) /\ op.type = "set_metadata" /\ op.targetId = roots[i].id
      /\ op.expectedRevisionId = roots[i].tok /\ op.replacementId = Nowhere
  BY <1>1, <1>2 DEF Worded, Kin
<1>5. Ground(base, wide) /\ Work(base, wide, w) /\ w.roots = roots /\ Spine(roots)
  BY <1>b, WorkingHere, WorkSpine
<1>6. i \in DOMAIN roots /\ roots[i].id \in wide
  BY <1>b, ShownIsLoaded
<1>7. /\ IsNode(roots, roots[i].id) /\ Present(roots, roots[i].id)
      /\ token(roots, roots[i].id) = roots[i].tok
      /\ roots[i].id \in NodeIds(roots)
  BY <1>5, <1>6, NodeIsPinned
<1>8. Writes(base, wide, w, op)
  BY <1>4, <1>5, <1>6, <1>7 DEF Writes, Types, Rewording, Positioned, Reaches
<1>9. Pinned(roots, op)
  BY <1>4, <1>7 DEF Pinned, InPlace
<1>10. Expects(base, wide, w, op)
  BY <1>4, <1>5, <1>6, <1>7, <1>9, PinnedStill DEF Expects, Aware
<1> QED  BY <1>3, <1>8, <1>10, <1>b, ChangeBuilds

LEMMA InsertBuilds ==
    ASSUME drawn \in Nat, NEW p, EditPage(page[p]), Insert(p)
    PROVE  Builds(p, TRUE)
<1>b. PICK base, wide, w, roots : /\ base = page[p].base /\ wide = Wide(p) /\ w = Working(p)
                                  /\ roots = page[p].roots
  OBVIOUS
<1>0. PICK i \in Shown(p) :
        change(p, [Operation("insert_text", roots[i].id, roots[i].tok) EXCEPT
                     !.position = Len(roots[i].content) + 1, !.text = <<"x">>],
               FALSE, Nowhere)
  BY <1>b DEF Insert
<1>o. PICK o, v, x : /\ o = Operation("insert_text", roots[i].id, roots[i].tok)
                     /\ v = Len(roots[i].content) + 1 /\ x = <<"x">>
  OBVIOUS
<1>1. OpRec(o) /\ o.type = "insert_text" /\ o.targetId = roots[i].id
      /\ o.expectedRevisionId = roots[i].tok /\ o.replacementId = Nowhere
  BY <1>o, OperationIs
<1>2. PICK op : op = [o EXCEPT !.position = v, !.text = x] /\ PlacedAt(op, o, v)
  BY <1>1, WithPosition
<1>3. change(p, op, FALSE, Nowhere)
  BY <1>0, <1>2, <1>o
<1>4. /\ OpRec(op) /\ op.type = "insert_text" /\ op.targetId = roots[i].id
      /\ op.expectedRevisionId = roots[i].tok /\ op.replacementId = Nowhere
      /\ op.position = v
  BY <1>1, <1>2 DEF PlacedAt, Kin
<1>5. Ground(base, wide) /\ Work(base, wide, w) /\ w.roots = roots /\ Spine(roots)
  BY <1>b, WorkingHere, WorkSpine
<1>6. i \in DOMAIN roots /\ roots[i].id \in wide
  BY <1>b, ShownIsLoaded
<1>7. /\ IsNode(roots, roots[i].id) /\ Present(roots, roots[i].id)
      /\ NodeOf(roots, roots[i].id) = roots[i]
      /\ token(roots, roots[i].id) = roots[i].tok
      /\ roots[i].id \in NodeIds(roots)
  BY <1>5, <1>6, NodeIsPinned
<1>8. Writes(base, wide, w, op)
  BY <1>4, <1>5, <1>6, <1>7 DEF Writes, Types, Rewording, Positioned, Reaches
<1>9. Expects(base, wide, w, op)
  <2> SUFFICES ASSUME Accepted(base, w.operations) PROVE PinnedAs(roots, op) /\ Aware(roots, wide, op)
    BY <1>5 DEF Expects
  <2>1. Tree(roots)
    BY <1>5, AcceptedTree
  <2>2. Len(roots[i].content) \in Nat
    BY <1>6, <2>1, Places DEF Tree, Bodies, Content
  <2>3. v \in 1..Len(NodeOf(roots, roots[i].id).content) + 1
    BY <1>7, <1>o, <2>2
  <2>4. Pinned(roots, op)
    BY <1>4, <1>7, <2>3 DEF Pinned, InPlace
  <2> QED  BY <1>4, <1>6, <1>7, <2>4, PinnedStill DEF Aware
<1> QED  BY <1>3, <1>8, <1>9, <1>b, ChangeBuilds

LEMMA MoveBuilds ==
    ASSUME drawn \in Nat, NEW p, EditPage(page[p]), moveSelected(p)
    PROVE  Builds(p, TRUE)
<1>b. PICK base, wide, w, roots : /\ base = page[p].base /\ wide = Wide(p) /\ w = Working(p)
                                  /\ roots = page[p].roots
  OBVIOUS
<1>0. PICK i \in Shown(p), delta \in {-1, 1} :
        /\ i + delta \in DOMAIN roots
        /\ change(p, [Operation("move_root", roots[i].id, roots[i].tok) EXCEPT
                        !.position = i + delta], FALSE, Nowhere)
  BY <1>b DEF moveSelected
<1>o. PICK o, v : o = Operation("move_root", roots[i].id, roots[i].tok) /\ v = i + delta
  OBVIOUS
<1>1. OpRec(o) /\ o.type = "move_root" /\ o.targetId = roots[i].id
      /\ o.expectedRevisionId = roots[i].tok /\ o.replacementId = Nowhere
  BY <1>o, OperationIs
<1>2. PICK op : op = [o EXCEPT !.position = v] /\ PlacedAt(op, o, v)
  BY <1>1, WithPosition
<1>3. change(p, op, FALSE, Nowhere)
  BY <1>0, <1>2, <1>o
<1>4. /\ OpRec(op) /\ op.type = "move_root" /\ op.targetId = roots[i].id
      /\ op.expectedRevisionId = roots[i].tok /\ op.replacementId = Nowhere
      /\ op.position = v
  BY <1>1, <1>2 DEF PlacedAt, Kin
<1>5. /\ Ground(base, wide) /\ Work(base, wide, w) /\ w.roots = roots /\ Spine(roots)
      /\ DOMAIN roots = 1..Len(roots)
  BY <1>b, WorkingHere, WorkSpine
<1>6. i \in DOMAIN roots /\ roots[i].id \in wide /\ v \in 1..Len(roots)
  BY <1>0, <1>5, <1>b, <1>o, ShownIsLoaded
<1>7. /\ IsNode(roots, roots[i].id) /\ Present(roots, roots[i].id)
      /\ token(roots, roots[i].id) = roots[i].tok
      /\ roots[i].id \in NodeIds(roots)
  BY <1>5, <1>6, NodeIsPinned
<1>8. Writes(base, wide, w, op)
  BY <1>4, <1>5, <1>6, <1>7 DEF Writes, Types, Rewording, Positioned, Reaches
<1>9. Pinned(roots, op)
  BY <1>4, <1>6, <1>7 DEF Pinned, InPlace
<1>10. Expects(base, wide, w, op)
  BY <1>4, <1>5, <1>6, <1>7, <1>9, PinnedStill DEF Expects, Aware
<1> QED  BY <1>3, <1>8, <1>10, <1>b, ChangeBuilds

LEMMA DiscardBuilds ==
    ASSUME drawn \in Nat, NEW p, EditPage(page[p]), Discard(p)
    PROVE  Builds(p, TRUE)
<1>b. PICK base, wide, w, roots : /\ base = page[p].base /\ wide = Wide(p) /\ w = Working(p)
                                  /\ roots = page[p].roots
  OBVIOUS
<1>0. PICK u \in ShownTexts(p) \cup {roots[i].id : i \in Shown(p)} :
        change(p, Operation("remove", u, token(roots, u)), FALSE, Nowhere)
  BY <1>b DEF Discard
<1>o. PICK op : op = Operation("remove", u, token(roots, u))
  OBVIOUS
<1>1. OpRec(op) /\ op.type = "remove" /\ op.targetId = u
      /\ op.expectedRevisionId = token(roots, u) /\ op.replacementId = Nowhere
  BY <1>o, OperationIs
<1>2. Ground(base, wide) /\ Work(base, wide, w) /\ w.roots = roots /\ Spine(roots)
  BY <1>b, WorkingHere, WorkSpine
<1>3. Held(roots, wide, u) \/ \E i \in DOMAIN roots : u = roots[i].id /\ u \in wide
  <2>1. ASSUME u \in ShownTexts(p) PROVE Held(roots, wide, u)
    BY <1>b, <2>1, ShownIsHeld
  <2>2. ASSUME NEW i \in Shown(p), u = roots[i].id PROVE i \in DOMAIN roots /\ u \in wide
    BY <1>b, <2>2, ShownIsLoaded
  <2> QED  BY <2>1, <2>2
<1>4. Aware(roots, wide, op) /\ Reaches(roots, wide, op)
  BY <1>1, <1>3 DEF Aware, Reaches, NodeIds
<1>5. Writes(base, wide, w, op)
  BY <1>1, <1>2, <1>4 DEF Writes, Types, Rewording, Positioned
<1>6. Expects(base, wide, w, op)
  <2> SUFFICES ASSUME Accepted(base, w.operations) PROVE PinnedAs(roots, op) /\ Aware(roots, wide, op)
    BY <1>2 DEF Expects
  <2>1. Tree(roots)
    BY <1>2, AcceptedTree
  <2>2. Present(roots, u)
    BY <1>2, <1>3, <2>1, HeldIsPinned, NodeIsPinned
  <2>3. Pinned(roots, op)
    BY <1>1, <2>2 DEF Pinned, InPlace
  <2> QED  BY <1>1, <1>4, <2>3, PinnedStill
<1> QED  BY <1>0, <1>5, <1>6, <1>b, <1>o, ChangeBuilds

(***************************************************************************)
(* Joining two sentences.                                                  *)
(***************************************************************************)
LEMMA SameNodesOn ==
    ASSUME NEW a, NEW b, NEW c, SameNodes(a, b), SameNodes(b, c)
    PROVE  SameNodes(a, c)
BY DEF SameNodes

\* The text of one node that holds no other is taken to the end of another such node.
Behind(roots, i, k, c) ==
    /\ i \in DOMAIN roots /\ k \in DOMAIN roots /\ i # k
    /\ Len(roots[i].content) = 1 /\ Len(roots[k].content) = 1
    /\ c.targetId = roots[k].content[1].id /\ c.destinationParentId = roots[i].id
    /\ c.position = 2

LEMMA TakenBehind ==
    ASSUME NEW roots, Tree(roots), NEW i, NEW k, NEW c, Behind(roots, i, k, c)
    PROVE  /\ LET retained == Detached(roots, c.targetId, c)
              IN  /\ Spine(retained) /\ i \in DOMAIN retained
                  /\ retained[i] = roots[i]
                  /\ NodeOf(retained, c.destinationParentId) = roots[i]
                  /\ At(retained, c.destinationParentId) = i
           /\ TextOf(roots, c.targetId) = roots[k].content[1]
           /\ Holder(roots, c.targetId) = k
           /\ 1 \in DOMAIN roots[i].content /\ 1 \in DOMAIN roots[k].content
<1>1. /\ i \in DOMAIN roots /\ k \in DOMAIN roots /\ i # k
      /\ Spine(roots) /\ Bodies(roots)
      /\ c.destinationParentId = roots[i].id
  BY DEF Behind, Tree
<1>2. 1 \in DOMAIN roots[i].content /\ 1 \in DOMAIN roots[k].content
  <2>1. IsSeq(roots[i].content) /\ IsSeq(roots[k].content)
    BY <1>1 DEF Bodies, Content
  <2>2. DOMAIN roots[i].content = 1..1 /\ DOMAIN roots[k].content = 1..1
    BY <2>1, Places DEF Behind
  <2> QED  BY <2>2
<1>t. PICK t : t = c.targetId
  OBVIOUS
<1>3. Holder(roots, t) = k /\ TextOf(roots, t) = roots[k].content[1]
  BY <1>1, <1>2, <1>t, TextAt DEF Behind
<1>s. PICK s : s = RemoveAt(roots[k].content, At(roots[k].content, t))
  OBVIOUS
<1>r. PICK retained : retained = Detached(roots, t, c)
  OBVIOUS
<1>4. retained = WithContent(roots, k, s, c)
  BY <1>3, <1>s, <1>r DEF Detached
<1>5. /\ SameNodes(retained, roots)
      /\ DOMAIN retained = DOMAIN roots
      /\ retained[i] = roots[i]
  BY <1>1, <1>4, SpineRewritten, ContentGiven
<1>6. Spine(retained)
  BY <1>1, <1>5, SpineSame
<1>7. At(retained, retained[i].id) = i /\ NodeOf(retained, retained[i].id) = retained[i]
  BY <1>1, <1>5, <1>6, NodeAt
<1> QED  BY <1>1, <1>2, <1>3, <1>5, <1>6, <1>7, <1>t, <1>r

LEMMA MovedBehind ==
    ASSUME NEW roots, Tree(roots), NEW i, NEW k, NEW c, Behind(roots, i, k, c)
    PROVE  LET w == MoveEntry(roots, c)
           IN  /\ SameNodes(w, roots)
               /\ IsSeq(w[i].content) /\ Len(w[i].content) = 2
               /\ w[i].content[1] = roots[i].content[1]
               /\ w[i].content[2] = roots[k].content[1]
<1>t. PICK t : t = c.targetId
  OBVIOUS
<1>r. PICK retained : retained = Detached(roots, t, c)
  OBVIOUS
<1>u. PICK u : u = roots[k].content[1]
  OBVIOUS
<1>1. /\ Spine(retained) /\ i \in DOMAIN retained
      /\ retained[i] = roots[i]
      /\ At(retained, c.destinationParentId) = i
      /\ TextOf(roots, t) = u
      /\ Holder(roots, t) = k
  BY <1>t, <1>r, <1>u, TakenBehind
<1>s. PICK s : s = InsertAt(roots[i].content, 2, u)
  OBVIOUS
<1>w. PICK w : w = MoveEntry(roots, c)
  OBVIOUS
<1>2. w = WithContent(retained, i, s, c)
  BY <1>1, <1>t, <1>r, <1>s, <1>w DEF MoveEntry, Behind
<1>3. IsSeq(roots[i].content) /\ Len(roots[i].content) = 1 /\ 2 \in 1..Len(roots[i].content) + 1
  BY DEF Behind, Tree, Bodies, Content
<1>4. IsSeq(s) /\ Len(s) = 2 /\ s[1] = roots[i].content[1] /\ s[2] = u
  <2>1. /\ IsSeq(s) /\ Len(s) = Len(roots[i].content) + 1
        /\ \A m \in 1..Len(roots[i].content) + 1 :
             s[m] = IF m < 2 THEN roots[i].content[m]
                    ELSE IF m = 2 THEN u ELSE roots[i].content[m - 1]
    <3>1. PICK held, two : held = roots[i].content /\ two = 2 /\ s = InsertAt(held, two, u)
      BY <1>s
    <3>2. IsSeq(held) /\ two \in 1..Len(held) + 1
      BY <1>3, <3>1
    <3>3. /\ IsSeq(s) /\ Len(s) = Len(held) + 1
          /\ \A m \in 1..Len(held) + 1 :
               s[m] = IF m < two THEN held[m] ELSE IF m = two THEN u ELSE held[m - 1]
      BY <3>1, <3>2, InsertedAt
    <3> QED  BY <3>1, <3>3
  <2> QED  BY <1>3, <2>1
<1>5. SameNodes(w, retained) /\ w[i].content = s
  <2>1. w[i] = Rewritten(retained[i], s, c)
    BY <1>1, <1>2, ContentGiven
  <2>2. SameNodes(w, retained)
    BY <1>1, <1>2, SpineRewritten
  <2> QED  BY <2>1, <2>2 DEF Rewritten
<1>6. SameNodes(retained, roots)
  BY <1>r, SpineRewritten DEF Detached, Tree
<1> QED  BY <1>4, <1>5, <1>6, <1>u, <1>w, SameNodesOn

\* The moved text may be taken: nothing depends on the id the operation gets.
LEMMA BehindIsPinned ==
    ASSUME NEW roots, Tree(roots), NEW i, NEW k, NEW op, op.type = "move", Behind(roots, i, k, op),
           op.expectedRevisionId = roots[k].content[1].tok,
           op.destinationRevisionId = roots[i].tok, op.replacementId = Nowhere
    PROVE  PinnedAs(roots, op)
<1> SUFFICES ASSUME NEW c, Same(c, op), c.expectedRevisionId = op.expectedRevisionId
             PROVE  Pinned(roots, c)
  BY DEF PinnedAs
<1>1. Behind(roots, i, k, c)
  BY DEF Behind, Same
<1>2. /\ c.type = "move" /\ c.replacementId = Nowhere
      /\ c.expectedRevisionId = roots[k].content[1].tok
      /\ c.destinationRevisionId = roots[i].tok
      /\ c.position = 2 /\ c.destinationParentId = roots[i].id
      /\ Len(roots[i].content) = 1
      /\ i \in DOMAIN roots /\ k \in DOMAIN roots /\ c.targetId = roots[k].content[1].id
  BY <1>1 DEF Same, Behind
<1>3. /\ NodeOf(Detached(roots, c.targetId, c), c.destinationParentId) = roots[i]
      /\ TextOf(roots, c.targetId) = roots[k].content[1]
      /\ 1 \in DOMAIN roots[k].content
  BY <1>1, TakenBehind
<1>4. /\ Holder(roots, c.targetId) # 0 /\ ~IsNode(roots, c.targetId)
  BY <1>2, <1>3, TextAt DEF Tree
<1>5. IsNode(roots, c.destinationParentId) /\ token(roots, c.destinationParentId) = roots[i].tok
  BY <1>2, NodeIsPinned DEF Tree
<1>6. Present(roots, c.targetId) /\ token(roots, c.targetId) = roots[k].content[1].tok
  BY <1>3, <1>4 DEF Present, token
<1>7. c.position \in 1..Len(NodeOf(Detached(roots, c.targetId, c),
                                   c.destinationParentId).content) + 1
  <2>1. PICK n : n = NodeOf(Detached(roots, c.targetId, c), c.destinationParentId)
    OBVIOUS
  <2>2. Len(n.content) = 1
    BY <1>2, <1>3, <2>1
  <2>3. c.position \in 1..Len(n.content) + 1
    BY <1>2, <2>2
  <2> QED  BY <2>1, <2>3
<1>8. InPlace(roots, c)
  BY <1>2, <1>4, <1>5, <1>6, <1>7 DEF InPlace
<1> QED  BY <1>2, <1>5, <1>6, <1>8 DEF Pinned

\* Two texts in a row may be merged, and the nodes stay.
LEMMA MergeIsPinned ==
    ASSUME NEW roots, Tree(roots), NEW i \in DOMAIN roots, Len(roots[i].content) = 2, NEW op,
           op.type = "merge_text", op.targetId = roots[i].content[1].id,
           op.mergeIds = <<roots[i].content[1].id, roots[i].content[2].id>>,
           op.expectedRevisionId = token(roots, op.targetId), op.replacementId = Nowhere
    PROVE  PinnedAs(roots, op)
<1>1. 1 \in DOMAIN roots[i].content
  BY Places DEF Tree, Bodies, Content
<1>t. PICK t : t = roots[i].content[1].id
  OBVIOUS
<1>2. Holder(roots, t) = i /\ At(roots[i].content, t) = 1 /\ i # 0
  BY <1>1, <1>t, TextAt DEF Tree
<1>3. Present(roots, t)
  BY <1>2 DEF Present
<1>4. InPlace(roots, op)
  BY <1>2, <1>3, <1>t DEF InPlace
<1>5. Pinned(roots, op)
  BY <1>4 DEF Pinned
<1> QED  BY <1>5, PinnedStill

LEMMA MergeKeepsNodes ==
    ASSUME NEW roots, Spine(roots), NEW op, op.type = "merge_text"
    PROVE  SameNodes(applyOperation(roots, op), roots)
<1>w. PICK w : w = mergeEntries(roots, op)
  OBVIOUS
<1>1. applyOperation(roots, op) = remapDraftTargets(w, op)
  BY <1>w, ApplyIs, EditedIs
<1>2. SameNodes(w, roots)
  BY <1>w, SpineRewritten DEF mergeEntries
<1>3. Spine(w)
  BY <1>2, SpineSame
<1>4. SameNodes(remapDraftTargets(w, op), w)
  BY <1>3, RemapIs
<1> QED  BY <1>1, <1>2, <1>4, SameNodesOn

LEMMA Appends ==
    ASSUME NEW base, NEW loaded, Ground(base, loaded), NEW w, Work(base, loaded, w),
           NEW op, Writes(base, loaded, w, op), op.type \notin Rewording
    PROVE  \E c : Follows(base, loaded, w, op, c, emit(w, op))
BY EmitAppends DEF Coalesces, Rewording

LEMMA JoinBuilds ==
    ASSUME drawn \in Nat, NEW p, EditPage(page[p]), Join(p)
    PROVE  Builds(p, TRUE)
<1>b. PICK base, wide, w, roots : /\ base = page[p].base /\ wide = Wide(p) /\ w = Working(p)
                                  /\ roots = page[p].roots
  OBVIOUS
<1>z. PICK i \in Shown(p), grouped \in BOOLEAN, typing \in Keys(p) :
        /\ i + 1 \in Shown(p)
        /\ simpleUnit(page[p].roots[i]) /\ simpleUnit(page[p].roots[i + 1])
        /\ LET old == page[p].roots[i]
               removed == page[p].roots[i + 1]
               t == old.content[1]
               u == removed.content[1]
           IN  \E moved \in {emit(Working(p), [Operation("move", u.id, u.tok) EXCEPT !.position = 2,
                                !.destinationParentId = old.id, !.destinationRevisionId = old.tok])} :
               \E merged \in {emit(moved, [Operation("merge_text", t.id, token(moved.roots, t.id)) EXCEPT
                                 !.mergeIds = <<t.id, u.id>>])} :
               \E gone \in {emit(merged, [Operation("remove", removed.id,
                                                  token(merged.roots, removed.id)) EXCEPT
                               !.replacementId = old.id])} :
                 transaction(p, gone, grouped, typing)
  BY DEF Join
<1>0. i + 1 \in Shown(p) /\ simpleUnit(roots[i]) /\ simpleUnit(roots[i + 1])
  BY <1>b, <1>z
<1>k. PICK k, old, removed, t, u, ids, two, parent, revision :
        /\ parent = roots[i].id /\ revision = roots[i].tok
        /\ k = i + 1 /\ old = roots[i] /\ removed = roots[k]
        /\ t = old.content[1] /\ u = removed.content[1] /\ ids = <<t.id, u.id>> /\ two = 2
  OBVIOUS
<1>oa. PICK oa : oa = Operation("move", u.id, u.tok)
  OBVIOUS
<1>a. PICK a : /\ a = [oa EXCEPT !.position = two, !.destinationParentId = parent,
                                 !.destinationRevisionId = revision]
               /\ PlacedAt(a, oa, two)
               /\ a.destinationParentId = parent /\ a.destinationRevisionId = revision
  <2>1. OpRec(oa)
    BY <1>oa, OperationIs
  <2>2. PICK x : x = [oa EXCEPT !.position = two, !.destinationParentId = parent,
                                !.destinationRevisionId = revision]
    OBVIOUS
  <2>3. x = Given(oa, oa.text, oa.references, two, oa.parts, oa.mergeIds, parent, revision,
                  oa.replacementId)
    BY <2>1, <2>2 DEF OpRec, Given
  <2>4. PlacedAt(x, oa, two) /\ x.destinationParentId = parent
        /\ x.destinationRevisionId = revision
    BY <2>3, GivenIs DEF PlacedAt
  <2> QED  BY <2>2, <2>4
<1>1. /\ OpRec(a) /\ a.type = "move" /\ a.targetId = u.id /\ a.expectedRevisionId = u.tok
      /\ a.replacementId = Nowhere /\ a.position = two
      /\ a.destinationParentId = old.id /\ a.destinationRevisionId = old.tok
  BY <1>a, <1>k, <1>oa, OperationIs DEF PlacedAt, Kin
<1>m. PICK moved : moved = emit(w, a)
  OBVIOUS
<1>ob. PICK ob : ob = Operation("merge_text", t.id, token(moved.roots, t.id))
  OBVIOUS
<1>c. PICK b : b = [ob EXCEPT !.mergeIds = ids] /\ Kin(b, ob)
               /\ b.replacementId = ob.replacementId /\ b.mergeIds = ids
  <2>1. OpRec(ob)
    BY <1>ob, OperationIs
  <2>2. PICK x : /\ x = [ob EXCEPT !.mergeIds = ids] /\ Kin(x, ob)
                 /\ x.replacementId = ob.replacementId /\ x.mergeIds = ids
    BY <2>1, WithOthers, Zenon
  <2> QED  BY <2>2
<1>2. /\ OpRec(b) /\ b.type = "merge_text" /\ b.targetId = t.id
      /\ b.expectedRevisionId = token(moved.roots, t.id)
      /\ b.replacementId = Nowhere /\ b.mergeIds = ids
  BY <1>c, <1>ob, OperationIs DEF Kin
<1>n. PICK merged : merged = emit(moved, b)
  OBVIOUS
<1>oc. PICK oc : oc = Operation("remove", removed.id, token(merged.roots, removed.id))
  OBVIOUS
<1>d. PICK c : /\ c = [oc EXCEPT !.replacementId = old.id] /\ Kin(c, oc)
               /\ c.replacementId = old.id
  <2>1. OpRec(oc)
    BY <1>oc, OperationIs
  <2> QED  BY <2>1, WithOthers
<1>3. /\ OpRec(c) /\ c.type = "remove" /\ c.targetId = removed.id
      /\ c.expectedRevisionId = token(merged.roots, removed.id)
      /\ c.replacementId = old.id
  BY <1>d, <1>oc, OperationIs DEF Kin
<1>g. PICK gone : gone = emit(merged, c)
  OBVIOUS
<1>4. transaction(p, gone, grouped, typing)
  <2>1. moved = emit(Working(p), [Operation("move", page[p].roots[i + 1].content[1].id,
                                            page[p].roots[i + 1].content[1].tok)
                      EXCEPT !.position = 2, !.destinationParentId = page[p].roots[i].id,
                             !.destinationRevisionId = page[p].roots[i].tok])
    BY <1>a, <1>b, <1>k, <1>m, <1>oa
  <2>2. merged = emit(moved, [Operation("merge_text", page[p].roots[i].content[1].id,
                                        token(moved.roots, page[p].roots[i].content[1].id))
                      EXCEPT !.mergeIds = <<page[p].roots[i].content[1].id,
                                            page[p].roots[i + 1].content[1].id>>])
    BY <1>b, <1>c, <1>k, <1>n, <1>ob
  <2>3. gone = emit(merged, [Operation("remove", page[p].roots[i + 1].id,
                                       token(merged.roots, page[p].roots[i + 1].id))
                      EXCEPT !.replacementId = page[p].roots[i].id])
    BY <1>b, <1>d, <1>g, <1>k, <1>oc
  <2> QED  BY <1>z, <2>1, <2>2, <2>3
<1>5. Ground(base, wide) /\ Work(base, wide, w) /\ w.roots = roots /\ Spine(roots)
  BY <1>b, WorkingHere, WorkSpine
<1>6. /\ i \in DOMAIN roots /\ k \in DOMAIN roots
      /\ old.id \in wide /\ removed.id \in wide
      /\ Len(old.content) = 1 /\ Len(removed.content) = 1
  BY <1>0, <1>b, <1>k, ShownIsLoaded DEF simpleUnit
<1>7. i # k /\ old.id # removed.id
  <2>1. i \in Nat
    BY <1>5, <1>6, Places DEF Spine
  <2>2. i # k
    BY <1>k, <2>1
  <2> QED  BY <1>5, <1>6, <1>k, <2>2 DEF Spine
<1>8. ASSUME NEW x, x.targetId = u.id, x.destinationParentId = old.id, x.position = two
      PROVE  Behind(roots, i, k, x)
  BY <1>6, <1>7, <1>8, <1>k DEF Behind
\* The text moves behind the one of its neighbour.
<1>9. Accepted(base, w.operations) =>
        /\ Tree(roots) /\ Held(roots, wide, u.id) /\ old.id \in NodeIds(roots)
        /\ PinnedAs(roots, a)
  <2> SUFFICES ASSUME Accepted(base, w.operations)
               PROVE  /\ Tree(roots) /\ Held(roots, wide, u.id) /\ old.id \in NodeIds(roots)
                      /\ PinnedAs(roots, a)
    OBVIOUS
  <2>1. Tree(roots)
    BY <1>5, AcceptedTree
  <2>2. Behind(roots, i, k, a)
    BY <1>1, <1>8, <1>a
  <2>3. 1 \in DOMAIN removed.content
    BY <1>k, <2>1, <2>2, TakenBehind
  <2>4. Held(roots, wide, u.id)
    BY <1>6, <1>k, <2>3 DEF Held, TextsOf
  <2>5. PinnedAs(roots, a)
    BY <1>1, <1>a, <1>k, <2>1, <2>2, BehindIsPinned
  <2> QED  BY <1>6, <1>k, <2>1, <2>4, <2>5 DEF NodeIds
<1>10. Writes(base, wide, w, a) /\ Expects(base, wide, w, a)
  BY <1>1, <1>5, <1>6, <1>9, <1>a
     DEF Writes, Expects, Types, Rewording, Positioned, Reaches, Aware
<1>11. PICK a1 : Follows(base, wide, w, a, a1, moved)
  BY <1>1, <1>5, <1>10, <1>m, Appends DEF Rewording
<1>12. /\ Work(base, wide, moved)
       /\ moved.roots = applyOperation(roots, a1)
       /\ Same(a1, a)
       /\ Accepted(base, moved.operations) => Accepted(base, w.operations)
       /\ Accepted(base, w.operations) => Accepted(base, moved.operations)
  BY <1>5, <1>10, <1>11 DEF Follows, Goes, Emits, Renumbered
<1>13. Accepted(base, moved.operations) =>
         /\ Tree(moved.roots)
         /\ SameNodes(moved.roots, roots)
         /\ Len(moved.roots[i].content) = 2
         /\ moved.roots[i].content[1] = t /\ moved.roots[i].content[2] = u
  <2> SUFFICES ASSUME Accepted(base, moved.operations)
               PROVE  /\ Tree(moved.roots)
                      /\ SameNodes(moved.roots, roots)
                      /\ Len(moved.roots[i].content) = 2
                      /\ moved.roots[i].content[1] = t /\ moved.roots[i].content[2] = u
    OBVIOUS
  <2>1. Tree(roots) /\ Tree(moved.roots)
    BY <1>5, <1>9, <1>12, AcceptedTree
  <2>2. Behind(roots, i, k, a1)
    BY <1>1, <1>8, <1>12, <1>a DEF Same
  <2>3. moved.roots = MoveEntry(roots, a1)
    <3>1. a1.type = "move"
      BY <1>1, <1>12 DEF Same
    <3>2. moved.roots = remapDraftTargets(MoveEntry(roots, a1), a1)
      BY <1>12, <3>1, ApplyIs, EditedIs
    <3> QED  BY <3>1, <3>2 DEF remapDraftTargets
  <2> QED  BY <1>k, <2>1, <2>2, <2>3, MovedBehind
\* The two are merged.
<1>14. Accepted(base, moved.operations) =>
         Held(moved.roots, wide, t.id) /\ PinnedAs(moved.roots, b)
  <2> SUFFICES ASSUME Accepted(base, moved.operations)
               PROVE  Held(moved.roots, wide, t.id) /\ PinnedAs(moved.roots, b)
    OBVIOUS
  <2>1. i \in DOMAIN moved.roots /\ moved.roots[i].id = old.id
    BY <1>6, <1>13, <1>k DEF SameNodes
  <2>2. 1 \in DOMAIN moved.roots[i].content
    BY <1>13, <2>1, Places DEF Tree, Bodies, Content
  <2>3. Held(moved.roots, wide, t.id)
    BY <1>6, <1>13, <2>1, <2>2 DEF Held, TextsOf
  <2>4. PinnedAs(moved.roots, b)
    BY <1>2, <1>13, <1>k, <2>1, MergeIsPinned
  <2> QED  BY <2>3, <2>4
<1>15. Writes(base, wide, moved, b) /\ Expects(base, wide, moved, b)
  BY <1>2, <1>14 DEF Writes, Expects, Types, Rewording, Positioned, Reaches, Aware
<1>16. PICK b1 : Follows(base, wide, moved, b, b1, merged)
  BY <1>2, <1>5, <1>12, <1>15, <1>n, Appends DEF Rewording
<1>17. /\ Work(base, wide, merged)
       /\ merged.roots = applyOperation(moved.roots, b1)
       /\ Same(b1, b)
       /\ Accepted(base, merged.operations) => Accepted(base, moved.operations)
       /\ Accepted(base, moved.operations) => Accepted(base, merged.operations)
  BY <1>15, <1>16 DEF Follows, Goes, Emits, Renumbered
<1>18. Accepted(base, merged.operations) =>
         /\ IsNode(merged.roots, old.id) /\ IsNode(merged.roots, removed.id)
         /\ removed.id \in NodeIds(merged.roots)
  <2> SUFFICES ASSUME Accepted(base, merged.operations)
               PROVE  /\ IsNode(merged.roots, old.id) /\ IsNode(merged.roots, removed.id)
                      /\ removed.id \in NodeIds(merged.roots)
    OBVIOUS
  <2>1. b1.type = "merge_text"
    BY <1>2, <1>17 DEF Same
  <2>2. SameNodes(merged.roots, moved.roots)
    BY <1>13, <1>17, <2>1, MergeKeepsNodes DEF Tree
  <2>3. SameNodes(merged.roots, roots)
    BY <1>13, <1>17, <2>2, SameNodesOn
  <2>4. Spine(merged.roots)
    BY <1>17, WorkSpine
  <2>5. /\ i \in DOMAIN merged.roots /\ merged.roots[i].id = old.id
        /\ k \in DOMAIN merged.roots /\ merged.roots[k].id = removed.id
    BY <1>6, <1>k, <2>3 DEF SameNodes
  <2> QED  BY <2>4, <2>5, NodeIsPinned
\* The node that is left without a text goes.
<1>19. Accepted(base, merged.operations) => PinnedAs(merged.roots, c)
  <2> SUFFICES ASSUME Accepted(base, merged.operations) PROVE PinnedAs(merged.roots, c)
    OBVIOUS
  <2>1. InPlace(merged.roots, c)
    BY <1>3, <1>7, <1>18 DEF InPlace, Present
  <2>2. Pinned(merged.roots, c)
    BY <1>3, <2>1 DEF Pinned
  <2> QED  BY <1>3, <2>2, PinnedStill
<1>20. Writes(base, wide, merged, c) /\ Expects(base, wide, merged, c)
  BY <1>3, <1>6, <1>18, <1>19 DEF Writes, Expects, Types, Rewording, Positioned, Reaches, Aware
<1>21. PICK c1 : Follows(base, wide, merged, c, c1, gone)
  BY <1>3, <1>5, <1>17, <1>20, <1>g, Appends DEF Rewording
<1>22. Work(base, wide, gone)
       /\ (Accepted(base, merged.operations) => Accepted(base, gone.operations))
  BY <1>20, <1>21 DEF Follows, Goes
<1>23. Built(p, gone, TRUE)
  <2>1. w.operations = page[p].operations
    BY <1>b, WorkingHere
  <2> QED  BY <1>12, <1>17, <1>22, <1>b, <2>1 DEF Built
<1> QED  BY <1>4, <1>23 DEF Builds

(***************************************************************************)
(* Dividing a sentence.                                                    *)
(***************************************************************************)
LEMMA SplitKeepsNodes ==
    ASSUME NEW roots, Spine(roots), NEW op, op.type = "split_text"
    PROVE  /\ applyOperation(roots, op) = splitEntry(roots, op)
           /\ SameNodes(applyOperation(roots, op), roots)
<1>w. PICK w : w = splitEntry(roots, op)
  OBVIOUS
<1>1. applyOperation(roots, op) = remapDraftTargets(w, op)
  BY <1>w, ApplyIs, EditedIs
<1>2. remapDraftTargets(w, op) = w
  BY DEF remapDraftTargets
<1>3. SameNodes(w, roots)
  BY <1>w, SpineRewritten DEF splitEntry
<1> QED  BY <1>1, <1>2, <1>3, <1>w

\* The second part of a text that was the only one of its node.
LEMMA SplitMakes ==
    ASSUME NEW roots, Tree(roots), NEW i \in DOMAIN roots, Len(roots[i].content) = 1, NEW op,
           op.targetId = roots[i].content[1].id
    PROVE  LET w == splitEntry(roots, op)
           IN  /\ 2 \in DOMAIN w[i].content
               /\ w[i].content[2].id = NewUnit(op.id) /\ w[i].content[2].tok = op.id
<1>s. PICK s, u, one, two : /\ s = roots[i].content /\ u = op.targetId /\ one = 1 /\ two = one + 1
  OBVIOUS
<1>1. IsSeq(s) /\ Len(s) = 1 /\ one \in DOMAIN s /\ u = s[one].id
  <2>1. IsSeq(s) /\ Len(s) = 1
    BY <1>s DEF Tree, Bodies, Content
  <2> QED  BY <1>s, <2>1, Places
<1>2. Holder(roots, u) = i /\ At(s, u) = one
  BY <1>1, <1>s, TextAt DEF Tree
<1>h. PICK head, tail :
        /\ head = [s[one] EXCEPT !.val = SubSeq(@, 1, op.parts), !.tok = op.id]
        /\ tail = [id |-> NewUnit(op.id), tok |-> op.id, refs |-> {},
                   val |-> SubSeq(s[one].val, op.parts + 1, Len(s[one].val))]
  OBVIOUS
<1>r. PICK r : r = ReplaceAt(s, one, head)
  OBVIOUS
<1>c. PICK c : c = InsertAt(r, two, tail)
  OBVIOUS
<1>3. splitEntry(roots, op) = WithContent(roots, i, c, op)
  BY <1>2, <1>s, <1>h, <1>r, <1>c DEF splitEntry
<1>4. IsSeq(r) /\ Len(r) = Len(s)
  BY <1>1, <1>r, ReplacedAt
<1>5. two \in 1..Len(r) + 1
  BY <1>1, <1>4, <1>s
<1>6. /\ DOMAIN c = 1..Len(r) + 1
      /\ \A m \in 1..Len(r) + 1 :
           c[m] = IF m < two THEN r[m] ELSE IF m = two THEN tail ELSE r[m - 1]
  BY <1>4, <1>5, <1>c, InsertedAt
<1>7. two \in DOMAIN c /\ c[two] = tail /\ two = 2
  <2>1. two \in Int /\ ~(two < two)
    BY <1>5
  <2> QED  BY <1>5, <1>6, <2>1, <1>s
<1>8. splitEntry(roots, op)[i] = Rewritten(roots[i], c, op)
  BY <1>3, ContentGiven DEF Tree
<1>9. tail.id = NewUnit(op.id) /\ tail.tok = op.id
  BY <1>h
<1> QED  BY <1>7, <1>8, <1>9 DEF Rewritten

\* A text may be taken to the front of another node.
LEMMA FreedIsPinned ==
    ASSUME NEW roots, Tree(roots), NEW i \in DOMAIN roots, NEW j \in DOMAIN roots[i].content,
           NEW k \in DOMAIN roots, NEW op, op.type = "move", op.replacementId = Nowhere,
           op.targetId = roots[i].content[j].id,
           op.expectedRevisionId = roots[i].content[j].tok,
           op.destinationParentId = roots[k].id, op.position = 1,
           op.destinationRevisionId = token(roots, op.destinationParentId)
    PROVE  PinnedAs(roots, op)
<1> SUFFICES ASSUME NEW c, Same(c, op), c.expectedRevisionId = op.expectedRevisionId
             PROVE  Pinned(roots, c)
  BY DEF PinnedAs
<1>1. /\ c.type = "move" /\ c.replacementId = Nowhere
      /\ c.targetId = roots[i].content[j].id
      /\ c.expectedRevisionId = roots[i].content[j].tok
      /\ c.destinationParentId = roots[k].id /\ c.position = 1
      /\ c.destinationRevisionId = token(roots, c.destinationParentId)
  BY DEF Same
<1>2. /\ Holder(roots, c.targetId) # 0 /\ ~IsNode(roots, c.targetId)
      /\ TextOf(roots, c.targetId) = roots[i].content[j]
  BY <1>1, TextAt DEF Tree
<1>3. IsNode(roots, c.destinationParentId)
  BY <1>1, NodeIsPinned DEF Tree
<1>4. Present(roots, c.targetId) /\ token(roots, c.targetId) = c.expectedRevisionId
  BY <1>1, <1>2 DEF Present, token
<1>r. PICK retained : retained = Detached(roots, c.targetId, c)
  OBVIOUS
<1>5. Tree(retained) /\ SameNodes(retained, roots)
  BY <1>2, <1>r, TreeDetached
<1>6. k \in DOMAIN retained /\ retained[k].id = c.destinationParentId
  BY <1>1, <1>5 DEF SameNodes
<1>n. PICK n : n = NodeOf(retained, c.destinationParentId)
  OBVIOUS
<1>7. n = retained[k]
  BY <1>5, <1>6, <1>n, NodeIsPinned DEF Tree
<1>8. Len(n.content) \in Nat
  BY <1>5, <1>6, <1>7, Places DEF Tree, Bodies, Content
<1>9. c.position \in 1..Len(n.content) + 1
  BY <1>1, <1>8
<1>10. InPlace(roots, c)
  BY <1>1, <1>2, <1>3, <1>4, <1>9, <1>n, <1>r DEF InPlace
<1> QED  BY <1>1, <1>4, <1>10 DEF Pinned

\* A node is inserted behind node i: the nodes before it stay where they are.
LEMMA InsertsBehind ==
    ASSUME NEW roots, Spine(roots), NEW i \in DOMAIN roots, NEW op, op.type = "insert_root",
           op.position = i + 1
    PROVE  LET w == applyOperation(roots, op)
           IN  /\ i \in DOMAIN w /\ w[i] = roots[i]
               /\ op.position \in DOMAIN w /\ w[op.position].id = NewUnit(op.id)
<1>0. IsSeq(roots) /\ DOMAIN roots = 1..Len(roots) /\ Len(roots) \in Nat
  BY Places DEF Spine
<1>n. PICK n, p : /\ n = [id |-> NewUnit(op.id), tok |-> op.id, val |-> <<>>, content |-> <<>>]
                  /\ p = op.position
  OBVIOUS
<1>w. PICK w : w = InsertAt(roots, p, n)
  OBVIOUS
<1>1. applyOperation(roots, op) = w
  <2>1. applyOperation(roots, op) = remapDraftTargets(InsertRoot(roots, op), op)
    BY ApplyIs, EditedIs
  <2>2. remapDraftTargets(InsertRoot(roots, op), op) = InsertRoot(roots, op)
    BY DEF remapDraftTargets
  <2> QED  BY <2>1, <2>2, <1>n, <1>w DEF InsertRoot
<1>2. p \in 1..Len(roots) + 1 /\ i \in 1..Len(roots) + 1 /\ i < p /\ ~(p < p)
  BY <1>0, <1>n
<1>3. /\ DOMAIN w = 1..Len(roots) + 1
      /\ \A k \in 1..Len(roots) + 1 :
           w[k] = IF k < p THEN roots[k] ELSE IF k = p THEN n ELSE roots[k - 1]
  BY <1>0, <1>2, <1>w, InsertedAt
<1>4. w[i] = roots[i] /\ w[p] = n /\ i \in DOMAIN w /\ p \in DOMAIN w
  BY <1>2, <1>3
<1>5. n.id = NewUnit(op.id)
  BY <1>n
<1> QED  BY <1>1, <1>4, <1>5, <1>n

\* Dividing a sentence names the first node of the draft, and expects its token.
FirstIsLoaded(p) == page[p].roots[1].id \in page[p].loaded

LEMMA DivideBuilds ==
    ASSUME drawn \in Nat, NEW p, EditPage(page[p]), Divide(p)
    PROVE  Builds(p, FirstIsLoaded(p))
<1>b. PICK base, wide, w, roots : /\ base = page[p].base /\ wide = Wide(p) /\ w = Working(p)
                                  /\ roots = page[p].roots
  OBVIOUS
<1>z. PICK i \in Shown(p), grouped \in BOOLEAN, typing \in Keys(p) :
        /\ simpleUnit(page[p].roots[i])
        /\ LET t == page[p].roots[i].content[1]
           IN  \E split \in {emit(Working(p), [Operation("split_text", t.id, t.tok) EXCEPT !.parts = 1])} :
               \E sibling \in {emit(split, [Operation("insert_root", split.roots[1].id,
                                                  split.roots[1].tok) EXCEPT !.position = i + 1])} :
               \E moved \in {emit(sibling, [Operation("move", NewUnit(split.drawn), split.drawn) EXCEPT
                                !.position = 1, !.destinationParentId = NewUnit(sibling.drawn),
                                !.destinationRevisionId = token(sibling.roots, NewUnit(sibling.drawn))])} :
                 transaction(p, moved, grouped, typing)
  BY DEF Divide
<1>k. PICK old, t, one, next : old = roots[i] /\ t = old.content[1] /\ one = 1 /\ next = i + 1
  OBVIOUS
<1>oa. PICK oa : oa = Operation("split_text", t.id, t.tok)
  OBVIOUS
<1>a. PICK a : a = [oa EXCEPT !.parts = one] /\ Kin(a, oa)
               /\ a.replacementId = oa.replacementId /\ a.parts = one
  <2>1. OpRec(oa)
    BY <1>oa, OperationIs
  <2>2. PICK x : /\ x = [oa EXCEPT !.parts = one] /\ Kin(x, oa)
                 /\ x.replacementId = oa.replacementId /\ x.parts = one
    BY <2>1, WithOthers, Zenon
  <2> QED  BY <2>2
<1>1. /\ OpRec(a) /\ a.type = "split_text" /\ a.targetId = t.id /\ a.expectedRevisionId = t.tok
      /\ a.replacementId = Nowhere
  BY <1>a, <1>oa, OperationIs DEF Kin
<1>s. PICK split : split = emit(w, a)
  OBVIOUS
<1>f. PICK first : first = split.roots[1]
  OBVIOUS
<1>ob. PICK ob : ob = Operation("insert_root", first.id, first.tok)
  OBVIOUS
<1>c. PICK b : b = [ob EXCEPT !.position = next] /\ PlacedAt(b, ob, next)
  <2>1. OpRec(ob)
    BY <1>ob, OperationIs
  <2> QED  BY <2>1, WithPosition
<1>2. /\ OpRec(b) /\ b.type = "insert_root" /\ b.targetId = first.id
      /\ b.expectedRevisionId = first.tok
      /\ b.replacementId = Nowhere /\ b.position = next
  BY <1>c, <1>ob, OperationIs DEF PlacedAt, Kin
<1>n. PICK sibling : sibling = emit(split, b)
  OBVIOUS
<1>u. PICK part, parent, revision :
        /\ part = NewUnit(split.drawn) /\ parent = NewUnit(sibling.drawn)
        /\ revision = token(sibling.roots, parent)
  OBVIOUS
<1>oc. PICK oc : oc = Operation("move", part, split.drawn)
  OBVIOUS
<1>d. PICK c : /\ c = [oc EXCEPT !.position = one, !.destinationParentId = parent,
                                 !.destinationRevisionId = revision]
               /\ PlacedAt(c, oc, one)
               /\ c.destinationParentId = parent /\ c.destinationRevisionId = revision
  <2>1. OpRec(oc)
    BY <1>oc, OperationIs
  <2>2. PICK x : x = [oc EXCEPT !.position = one, !.destinationParentId = parent,
                                !.destinationRevisionId = revision]
    OBVIOUS
  <2>3. x = Given(oc, oc.text, oc.references, one, oc.parts, oc.mergeIds, parent, revision,
                  oc.replacementId)
    BY <2>1, <2>2 DEF OpRec, Given
  <2>4. PlacedAt(x, oc, one) /\ x.destinationParentId = parent
        /\ x.destinationRevisionId = revision
    BY <2>3, GivenIs DEF PlacedAt
  <2> QED  BY <2>2, <2>4
<1>3. /\ OpRec(c) /\ c.type = "move" /\ c.targetId = part /\ c.expectedRevisionId = split.drawn
      /\ c.replacementId = Nowhere /\ c.position = one
      /\ c.destinationParentId = parent /\ c.destinationRevisionId = revision
  BY <1>d, <1>oc, OperationIs DEF PlacedAt, Kin
<1>g. PICK moved : moved = emit(sibling, c)
  OBVIOUS
<1>4. transaction(p, moved, grouped, typing)
  <2>1. split = emit(Working(p), [Operation("split_text", page[p].roots[i].content[1].id,
                                            page[p].roots[i].content[1].tok) EXCEPT !.parts = 1])
    BY <1>a, <1>b, <1>k, <1>s, <1>oa
  <2>2. sibling = emit(split, [Operation("insert_root", split.roots[1].id, split.roots[1].tok)
                         EXCEPT !.position = i + 1])
    BY <1>c, <1>f, <1>k, <1>n, <1>ob
  <2>3. moved = emit(sibling, [Operation("move", NewUnit(split.drawn), split.drawn) EXCEPT
                       !.position = 1, !.destinationParentId = NewUnit(sibling.drawn),
                       !.destinationRevisionId = token(sibling.roots, NewUnit(sibling.drawn))])
    BY <1>d, <1>g, <1>k, <1>u, <1>oc
  <2> QED  BY <1>z, <2>1, <2>2, <2>3
<1>5. /\ Ground(base, wide) /\ Work(base, wide, w) /\ w.roots = roots /\ Spine(roots)
      /\ w.operations = page[p].operations
      /\ Len(roots) \in Nat /\ DOMAIN roots = 1..Len(roots)
  BY <1>b, WorkingHere, WorkSpine
<1>6. /\ i \in DOMAIN roots /\ old.id \in wide /\ Len(old.content) = 1
  BY <1>z, <1>b, <1>k, ShownIsLoaded DEF simpleUnit
\* The text is cut.
<1>7. Accepted(base, w.operations) =>
        Tree(roots) /\ Held(roots, wide, t.id) /\ PinnedAs(roots, a)
  <2> SUFFICES ASSUME Accepted(base, w.operations)
               PROVE  Tree(roots) /\ Held(roots, wide, t.id) /\ PinnedAs(roots, a)
    OBVIOUS
  <2>1. Tree(roots)
    BY <1>5, AcceptedTree
  <2>2. 1 \in DOMAIN old.content
    BY <1>6, <1>k, <2>1, Places DEF Tree, Bodies, Content
  <2>3. Held(roots, wide, t.id)
    BY <1>6, <1>k, <2>2 DEF Held, TextsOf
  <2>4. TextOf(roots, t.id) = t
    BY <1>6, <1>k, <2>1, <2>2, TextAt DEF Tree
  <2>5. Holder(roots, t.id) # 0 /\ Present(roots, t.id) /\ token(roots, t.id) = t.tok
    BY <2>1, <2>3, <2>4, HeldIsPinned
  <2>6. Pinned(roots, a)
    BY <1>1, <2>5 DEF Pinned, InPlace
  <2> QED  BY <1>1, <2>1, <2>3, <2>6, PinnedStill
<1>8. Writes(base, wide, w, a) /\ Expects(base, wide, w, a)
  BY <1>1, <1>5, <1>7 DEF Writes, Expects, Types, Rewording, Positioned, Reaches, Aware
<1>9. PICK a1 : Follows(base, wide, w, a, a1, split)
  BY <1>1, <1>5, <1>8, <1>s, Appends DEF Rewording
<1>10. /\ Work(base, wide, split)
       /\ split.roots = applyOperation(roots, a1)
       /\ Same(a1, a) /\ a1.id = split.drawn
       /\ Accepted(base, split.operations) => Accepted(base, w.operations)
       /\ Accepted(base, w.operations) => Accepted(base, split.operations)
  BY <1>5, <1>8, <1>9 DEF Follows, Goes, Emits, Renumbered
<1>11. SameNodes(split.roots, roots) /\ split.roots = splitEntry(roots, a1)
  <2>1. a1.type = "split_text"
    BY <1>1, <1>10 DEF Same
  <2> QED  BY <1>5, <1>10, <2>1, SplitKeepsNodes
<1>12. /\ Spine(split.roots) /\ i \in DOMAIN split.roots /\ split.roots[i].id = old.id
       /\ 1 \in DOMAIN split.roots /\ first.id = roots[1].id
       /\ next \in 1..Len(split.roots) + 1
  BY <1>5, <1>6, <1>10, <1>11, <1>f, <1>k, WorkSpine DEF SameNodes
<1>13. Accepted(base, split.operations) =>
         /\ 2 \in DOMAIN split.roots[i].content
         /\ split.roots[i].content[2].id = part /\ split.roots[i].content[2].tok = split.drawn
  <2> SUFFICES ASSUME Accepted(base, split.operations)
               PROVE  /\ 2 \in DOMAIN split.roots[i].content
                      /\ split.roots[i].content[2].id = part
                      /\ split.roots[i].content[2].tok = split.drawn
    OBVIOUS
  <2>1. Tree(roots) /\ a1.targetId = roots[i].content[1].id
    BY <1>1, <1>7, <1>10, <1>k DEF Same
  <2> QED  BY <1>6, <1>10, <1>11, <1>k, <1>u, <2>1, SplitMakes
\* A sibling is inserted, as long as the first node is known.
<1>14. Writes(base, wide, split, b)
  BY <1>2, <1>12 DEF Writes, Types, Rewording, Positioned, Reaches
<1>15. FirstIsLoaded(p) => Expects(base, wide, split, b)
  <2> SUFFICES ASSUME FirstIsLoaded(p)
               PROVE  PinnedAs(split.roots, b) /\ Aware(split.roots, wide, b)
    BY DEF Expects
  <2>1. /\ IsNode(split.roots, first.id) /\ Present(split.roots, first.id)
        /\ token(split.roots, first.id) = first.tok /\ first.id \in NodeIds(split.roots)
    BY <1>12, <1>f, NodeIsPinned
  <2>2. first.id \in wide
    BY <1>12, <1>b, WideIs DEF FirstIsLoaded
  <2>3. Pinned(split.roots, b)
    BY <1>2, <1>12, <2>1 DEF Pinned, InPlace
  <2> QED  BY <1>2, <2>1, <2>2, <2>3, PinnedStill DEF Aware
<1>16. PICK b1 : Follows(base, wide, split, b, b1, sibling)
  BY <1>2, <1>5, <1>10, <1>14, <1>n, Appends DEF Rewording
<1>17. /\ Work(base, wide, sibling)
       /\ sibling.roots = applyOperation(split.roots, b1)
       /\ Same(b1, b) /\ b1.id = sibling.drawn
       /\ Accepted(base, sibling.operations) => Accepted(base, split.operations)
       /\ FirstIsLoaded(p) /\ Accepted(base, split.operations) =>
            Accepted(base, sibling.operations)
       /\ sibling.drawn = split.drawn + 1
  BY <1>15, <1>16 DEF Follows, Goes, Emits, Renumbered
<1>18. /\ i \in DOMAIN sibling.roots /\ sibling.roots[i] = split.roots[i]
       /\ next \in DOMAIN sibling.roots /\ sibling.roots[next].id = parent
  <2>1. b1.type = "insert_root" /\ b1.position = next
    BY <1>2, <1>17 DEF Same
  <2> QED  BY <1>12, <1>17, <1>k, <1>u, <2>1, InsertsBehind
<1>19. parent \in wide
  <2>1. sibling.drawn \in Nat /\ sibling.drawn > drawn
    BY <1>5, <1>10, <1>17 DEF Work
  <2> QED  BY <1>u, <2>1, <1>5 DEF Ground
\* The second part moves there.
<1>20. Accepted(base, sibling.operations) =>
         /\ Held(sibling.roots, wide, part) /\ parent \in NodeIds(sibling.roots)
         /\ PinnedAs(sibling.roots, c)
  <2> SUFFICES ASSUME Accepted(base, sibling.operations)
               PROVE  /\ Held(sibling.roots, wide, part) /\ parent \in NodeIds(sibling.roots)
                      /\ PinnedAs(sibling.roots, c)
    OBVIOUS
  <2>1. Tree(sibling.roots)
    BY <1>5, <1>17, AcceptedTree
  <2>2. /\ 2 \in DOMAIN sibling.roots[i].content
        /\ sibling.roots[i].content[2].id = part
        /\ sibling.roots[i].content[2].tok = split.drawn
    BY <1>13, <1>17, <1>18
  <2>3. Held(sibling.roots, wide, part)
    BY <1>6, <1>12, <1>18, <2>2 DEF Held, TextsOf
  <2>4. PinnedAs(sibling.roots, c)
    BY <1>3, <1>18, <1>k, <1>u, <2>1, <2>2, FreedIsPinned
  <2> QED  BY <1>18, <2>3, <2>4 DEF NodeIds
<1>21. Writes(base, wide, sibling, c) /\ Expects(base, wide, sibling, c)
  BY <1>3, <1>19, <1>20 DEF Writes, Expects, Types, Rewording, Positioned, Reaches, Aware
<1>22. PICK c1 : Follows(base, wide, sibling, c, c1, moved)
  BY <1>3, <1>5, <1>17, <1>21, <1>g, Appends DEF Rewording
<1>23. Work(base, wide, moved)
       /\ (Accepted(base, sibling.operations) => Accepted(base, moved.operations))
  BY <1>21, <1>22 DEF Follows, Goes
<1>24. Built(p, moved, FirstIsLoaded(p))
  BY <1>5, <1>10, <1>17, <1>23, <1>b DEF Built
<1> QED  BY <1>4, <1>24 DEF Builds

(***************************************************************************)
(* Operations and snapshots whose ids the service has not seen.            *)
(***************************************************************************)
\* The list of a page, a snapshot or a save, drawn from these ids.
Listed(operations, ids) == IsSeq(operations) /\ Ids(operations) \subseteq ids

Snapshot(sn, ids) ==
    /\ sn \in [roots : {sn.roots}, operations : {sn.operations}]
    /\ Listed(sn.operations, ids)

Stack(s, ids) == IsSeq(s) /\ \A k \in DOMAIN s : Snapshot(s[k], ids)

LEMMA StackWider ==
    ASSUME NEW s, NEW ids, NEW more, ids \subseteq more, Stack(s, ids)
    PROVE  Stack(s, more)
BY DEF Stack, Snapshot, Listed

LEMMA StackEmpty == \A ids : Stack(<<>>, ids) /\ Listed(<<>>, ids)
BY EmptyIsSeq DEF Stack, Listed, Ids

LEMMA StackPushed ==
    ASSUME NEW s, NEW ids, Stack(s, ids), NEW sn, Snapshot(sn, ids)
    PROVE  Stack(Append(s, sn), ids)
<1>1. /\ IsSeq(Append(s, sn))
      /\ \A k \in DOMAIN Append(s, sn) : \/ Append(s, sn)[k] = sn
                                         \/ \E j \in DOMAIN s : Append(s, sn)[k] = s[j]
  BY Appended DEF Stack
<1> QED  BY <1>1 DEF Stack

LEMMA StackPopped ==
    ASSUME NEW s, NEW ids, Stack(s, ids), s # <<>>
    PROVE  Stack(Front(s), ids) /\ Snapshot(Last(s), ids)
<1>1. /\ IsSeq(Front(s))
      /\ Within(Front(s), s)
      /\ \E j \in DOMAIN s : Last(s) = s[j]
  BY FrontAndLast DEF Stack
<1> QED  BY <1>1 DEF Stack, Within

LEMMA StackLimited ==
    ASSUME NEW s, NEW ids, Stack(s, ids), NEW n \in Nat
    PROVE  Stack(LastOf(s, n), ids)
<1>1. /\ IsSeq(LastOf(s, n))
      /\ Within(LastOf(s, n), s)
  BY LastOfIsPart DEF Stack
<1> QED  BY <1>1 DEF Stack, Within

LEMMA StackHydrated ==
    ASSUME NEW s, NEW ids, Stack(s, ids), NEW base, NEW arriving
    PROVE  Stack([k \in DOMAIN s |-> Hydrated(s[k], base, arriving)], ids)
<1> DEFINE t == [k \in DOMAIN s |-> Hydrated(s[k], base, arriving)]
<1>1. Len(s) \in Nat /\ DOMAIN s = 1..Len(s)
  BY SeqParts DEF Stack
<1>2. t \in Seq(ToSet(t))
  <2>1. t \in [1..Len(s) -> ToSet(t)]
    BY <1>1 DEF ToSet
  <2> QED  BY <1>1, <2>1, SeqDef
<1>3. ASSUME NEW k \in DOMAIN s
      PROVE  Snapshot(Hydrated(s[k], base, arriving), ids)
  <2>1. Snapshot(s[k], ids)
    BY DEF Stack
  <2> DEFINE roots == Hydrated(s[k], base, arriving).roots
  <2>2. /\ Hydrated(s[k], base, arriving) \in [roots : {roots}, operations : {s[k].operations}]
        /\ Hydrated(s[k], base, arriving).operations = s[k].operations
    BY <2>1 DEF Hydrated, Snapshot
  <2> QED  BY <2>1, <2>2 DEF Snapshot
<1> QED  BY <1>2, <1>3 DEF Stack, IsSeq

(***************************************************************************)
(* A command draws the ids of its operations; a coalesced one keeps an id. *)
(***************************************************************************)
\* A command at work: its ids are drawn and none is among the taken ones.
WorkOK(work, taken) ==
    /\ work.drawn \in Nat
    /\ drawn <= work.drawn
    /\ taken \subseteq 1..drawn
    /\ Listed(work.operations, (1..work.drawn) \ taken)

LEMMA Emitted ==
    ASSUME drawn \in Nat, NEW work, NEW taken, WorkOK(work, taken),
           NEW op, "id" \in DOMAIN op
    PROVE  WorkOK(emit(work, op), taken)
<1> DEFINE again == Coalesces(work, op)
           id == IF again THEN Last(work.operations).id ELSE work.drawn + 1
           n == IF again THEN work.drawn ELSE work.drawn + 1
           kept == IF again THEN Front(work.operations) ELSE work.operations
           ids == (1..n) \ taken
           command == IF again THEN [op EXCEPT !.id = Last(work.operations).id,
                                !.expectedRevisionId = Last(work.operations).expectedRevisionId]
                      ELSE [op EXCEPT !.id = work.drawn + 1]
<1>1. work.drawn \in Nat /\ n \in Nat /\ drawn <= n /\ work.drawn <= n
  BY DEF WorkOK
<1>2. Listed(work.operations, ids)
  BY <1>1 DEF WorkOK, Listed
<1>3. id \in ids /\ Listed(kept, ids)
  <2>1. CASE again
    <3>1. /\ IsSeq(Front(work.operations))
          /\ Within(Front(work.operations), work.operations)
          /\ \E j \in DOMAIN work.operations : Last(work.operations) = work.operations[j]
      BY <1>2, <2>1, FrontAndLast DEF Coalesces, Listed
    <3> QED  BY <1>2, <2>1, <3>1 DEF Listed, Ids, Within
  <2>2. CASE ~again
    <3>1. work.drawn + 1 \in 1..n /\ work.drawn + 1 \notin taken
      BY <1>1, <2>2 DEF WorkOK
    <3> QED  BY <1>2, <2>2, <3>1
  <2> QED  BY <2>1, <2>2
<1>4. command.id = id
  OBVIOUS
<1> HIDE DEF command
<1>5. Listed(Append(kept, command), ids)
  <2>1. /\ IsSeq(Append(kept, command))
        /\ \A k \in DOMAIN Append(kept, command) :
             \/ Append(kept, command)[k] = command
             \/ \E j \in DOMAIN kept : Append(kept, command)[k] = kept[j]
    BY <1>3, Appended DEF Listed
  <2> QED  BY <1>3, <1>4, <2>1 DEF Listed, Ids
<1>6. /\ emit(work, op).operations = Append(kept, command)
      /\ emit(work, op).drawn = n
  BY DEF emit, command
<1> QED  BY <1>1, <1>5, <1>6 DEF WorkOK

(***************************************************************************)
(* The invariant. A page of the draft's generation was rendered from the   *)
(* stored tree and lists operations the service has not accepted; a save   *)
(* likewise.                                                               *)
(***************************************************************************)
Taken(generation) == IF generation = draft.generation THEN draft.ids ELSE {}
Free(generation) == (1..drawn) \ Taken(generation)

PageRecord(q) ==
    q \in [base : {q.base}, generation : {q.generation}, roots : {q.roots},
           operations : {q.operations}, history : {q.history}, future : {q.future},
           loaded : {q.loaded}, typing : {q.typing}, reads : {q.reads},
           loading : {q.loading}, submitted : {q.submitted}]

PageInv(q) ==
    /\ PageRecord(q)
    /\ q.generation \in 0..draft.generation
    /\ q.generation = draft.generation => q.base = draft.roots
    /\ Listed(q.operations, Free(q.generation))
    /\ Stack(q.history, Free(q.generation))
    /\ Stack(q.future, Free(q.generation))

SaveInv(save) ==
    /\ save.expectedGeneration \in 0..draft.generation
    /\ Listed(save.operations, Free(save.expectedGeneration))

GenerationInv ==
    /\ drawn \in Nat
    /\ draft.generation \in Nat
    /\ draft.ids \subseteq 1..drawn
    /\ page \in [Tab -> {page[p] : p \in Tab}]
    /\ \A p \in Tab : PageInv(page[p])
    /\ \A s \in saves : SaveInv(s.save)

LEMMA OpenedPage ==
    ASSUME drawn \in Nat, draft.generation \in Nat
    PROVE  PageInv(Opened)
<1>1. PageRecord(Opened)
  BY DEF Opened, PageRecord
<1>2. /\ Opened.generation = draft.generation
      /\ Opened.base = draft.roots
      /\ Opened.operations = <<>>
      /\ Opened.history = <<>>
      /\ Opened.future = <<>>
  BY DEF Opened
<1> QED  BY <1>1, <1>2, StackEmpty DEF PageInv

LEMMA GenerationInit == Init => GenerationInv
<1> SUFFICES ASSUME Init PROVE GenerationInv
  OBVIOUS
<1>1. /\ draft = [roots |-> Source, generation |-> 0, ids |-> {}, open |-> TRUE]
      /\ saves = {} /\ drawn = 0
      /\ page = [p \in Tab |-> Opened]
  BY DEF Init
<1>2. draft.generation = 0 /\ draft.ids = {}
  BY <1>1
<1>3. PageInv(Opened)
  BY <1>1, <1>2, OpenedPage
<1> QED  BY <1>1, <1>2, <1>3 DEF GenerationInv

\* One page is replaced, with ids drawn for it; the draft and the saves stay.
LEMMA PageReplaced ==
    ASSUME GenerationInv, NEW p \in Tab, NEW q, page' = [page EXCEPT ![p] = q],
           UNCHANGED <<draft, saves>>, drawn' \in Nat, drawn <= drawn', PageInv(q)'
    PROVE  GenerationInv'
<1>1. \A t \in Tab : page'[t] = IF t = p THEN q ELSE page[t]
  BY DEF GenerationInv
<1>2. \A g : Free(g) \subseteq Free(g)'
  BY DEF GenerationInv, Free, Taken
<1>3. ASSUME NEW t \in Tab, t # p
      PROVE  PageInv(page[t])'
  <2>1. PageInv(page[t]) /\ page'[t] = page[t]
    BY <1>1, <1>3 DEF GenerationInv
  <2> QED  BY <2>1, <1>2, StackWider DEF PageInv, Listed
<1>4. \A s \in saves' : SaveInv(s.save)'
  BY <1>2 DEF GenerationInv, SaveInv, Listed
<1>5. page' \in [Tab -> {page'[t] : t \in Tab}]
  BY DEF GenerationInv
<1>6. /\ draft'.generation \in Nat
      /\ draft'.ids \subseteq 1..drawn'
  BY DEF GenerationInv
<1>7. \A t \in Tab : PageInv(page[t])'
  BY <1>1, <1>3
<1> QED  BY <1>4, <1>5, <1>6, <1>7 DEF GenerationInv

(***************************************************************************)
(* The steps of a page.                                                    *)
(***************************************************************************)
LEMMA WorkingPage ==
    ASSUME GenerationInv, NEW p \in Tab
    PROVE  /\ WorkOK(Working(p), Taken(page[p].generation))
           /\ Working(p).drawn = drawn
BY DEF GenerationInv, PageInv, WorkOK, Working, Taken, Free

LEMMA TransactionStep ==
    ASSUME GenerationInv, NEW p \in Tab, NEW work, WorkOK(work, Taken(page[p].generation)),
           NEW grouped \in BOOLEAN, NEW typing, transaction(p, work, grouped, typing)
    PROVE  GenerationInv'
<1>g. PICK g : g = page[p].generation
  OBVIOUS
<1> DEFINE before == [roots |-> page[p].roots, operations |-> page[p].operations]
<1>h. PICK history : history = IF grouped THEN page[p].history
                               ELSE LastOf(Append(page[p].history, before), HistoryLimit)
  OBVIOUS
<1>0. PICK loaded : page' = [page EXCEPT ![p] =
                      [page[p] EXCEPT !.roots = work.roots, !.operations = work.operations,
                                      !.history = history, !.future = <<>>,
                                      !.typing = typing, !.loaded = loaded]]
  BY <1>h DEF transaction
<1>q. PICK q : q = [page[p] EXCEPT !.roots = work.roots, !.operations = work.operations,
                                   !.history = history, !.future = <<>>,
                                   !.typing = typing, !.loaded = loaded]
  OBVIOUS
<1>1. /\ page' = [page EXCEPT ![p] = q]
      /\ UNCHANGED <<draft, saves>>
      /\ drawn' = work.drawn
  BY <1>0, <1>q DEF transaction
<1>2. PageInv(page[p])
  BY DEF GenerationInv
<1>3. drawn' \in Nat /\ drawn <= drawn'
  BY <1>1 DEF WorkOK
<1>4. Taken(g)' = Taken(g) /\ Free(g)' = (1..work.drawn) \ Taken(g) /\ Free(g) \subseteq Free(g)'
  BY <1>1, <1>3 DEF Taken, Free, GenerationInv
<1>5. Stack(history, Free(g)')
  <2>1. Stack(page[p].history, Free(g)') /\ Listed(page[p].operations, Free(g)')
    BY <1>g, <1>2, <1>4, StackWider DEF PageInv, Listed
  <2>2. Snapshot(before, Free(g)')
    BY <2>1 DEF Snapshot
  <2>3. Stack(Append(page[p].history, before), Free(g)')
    BY <2>1, <2>2, StackPushed
  <2>4. HistoryLimit \in Nat
    BY EditorConstants
  <2>5. Stack(LastOf(Append(page[p].history, before), HistoryLimit), Free(g)')
    BY <2>3, <2>4, StackLimited
  <2> QED  BY <2>1, <2>5, <1>h
<1>6. Listed(work.operations, Free(g)') /\ Stack(<<>>, Free(g)')
  BY <1>4, <1>g, StackEmpty DEF WorkOK
<1>7. /\ PageRecord(q)
      /\ q.generation = g
      /\ q.base = page[p].base
      /\ q.operations = work.operations
      /\ q.history = history
      /\ q.future = <<>>
  BY <1>2, <1>q, <1>g DEF PageInv, PageRecord
<1>8. PageInv(q)'
  BY <1>1, <1>2, <1>5, <1>6, <1>7, <1>g DEF PageInv
<1> QED  BY <1>1, <1>3, <1>8, PageReplaced

\* Every operation a command writes has an id to be drawn.
LEMMA OperationId ==
    ASSUME NEW type, NEW target, NEW expected
    PROVE  LET op == Operation(type, target, expected)
           IN  /\ "id" \in DOMAIN op
               /\ \A v : "id" \in DOMAIN [op EXCEPT !.text = v]
               /\ \A v, w : "id" \in DOMAIN [op EXCEPT !.text = v, !.references = w]
               /\ \A v, w : "id" \in DOMAIN [op EXCEPT !.position = v, !.text = w]
               /\ \A v : "id" \in DOMAIN [op EXCEPT !.position = v]
               /\ \A v : "id" \in DOMAIN [op EXCEPT !.parts = v]
               /\ \A v : "id" \in DOMAIN [op EXCEPT !.mergeIds = v]
               /\ \A v : "id" \in DOMAIN [op EXCEPT !.replacementId = v]
               /\ \A v, w, x : "id" \in DOMAIN [op EXCEPT !.position = v,
                                 !.destinationParentId = w, !.destinationRevisionId = x]
BY DEF Operation

LEMMA ChangeStep ==
    ASSUME GenerationInv, NEW p \in Tab, NEW op, "id" \in DOMAIN op,
           NEW grouped \in BOOLEAN, NEW typing, change(p, op, grouped, typing)
    PROVE  GenerationInv'
<1>1. WorkOK(Working(p), Taken(page[p].generation)) /\ drawn \in Nat
  BY WorkingPage DEF GenerationInv
<1>2. WorkOK(emit(Working(p), op), Taken(page[p].generation))
  BY <1>1, Emitted
<1>3. transaction(p, emit(Working(p), op), grouped, typing)
  BY DEF change
<1> QED  BY <1>2, <1>3, TransactionStep

LEMMA JoinStep ==
    ASSUME GenerationInv, NEW p \in Tab, Join(p)
    PROVE  GenerationInv'
<1>0. PICK i \in Shown(p), grouped \in BOOLEAN, typing \in Keys(p) :
        LET old == page[p].roots[i]
            removed == page[p].roots[i + 1]
            t == old.content[1]
            u == removed.content[1]
        IN  \E moved \in {emit(Working(p), [Operation("move", u.id, u.tok) EXCEPT !.position = 2,
                             !.destinationParentId = old.id, !.destinationRevisionId = old.tok])} :
            \E merged \in {emit(moved, [Operation("merge_text", t.id, token(moved.roots, t.id)) EXCEPT
                              !.mergeIds = <<t.id, u.id>>])} :
            \E gone \in {emit(merged, [Operation("remove", removed.id,
                                               token(merged.roots, removed.id)) EXCEPT
                            !.replacementId = old.id])} :
              transaction(p, gone, grouped, typing)
  BY DEF Join
<1>1. PICK a, b, c, moved, merged, gone :
        /\ "id" \in DOMAIN a /\ "id" \in DOMAIN b /\ "id" \in DOMAIN c
        /\ moved = emit(Working(p), a)
        /\ merged = emit(moved, b)
        /\ gone = emit(merged, c)
        /\ transaction(p, gone, grouped, typing)
  <2> DEFINE old == page[p].roots[i]
             removed == page[p].roots[i + 1]
             t == old.content[1]
             u == removed.content[1]
             a == [Operation("move", u.id, u.tok) EXCEPT !.position = 2,
                     !.destinationParentId = old.id, !.destinationRevisionId = old.tok]
             b(roots) == [Operation("merge_text", t.id, token(roots, t.id)) EXCEPT
                            !.mergeIds = <<t.id, u.id>>]
             c(roots) == [Operation("remove", removed.id, token(roots, removed.id)) EXCEPT
                            !.replacementId = old.id]
  <2>1. "id" \in DOMAIN a /\ \A roots : "id" \in DOMAIN b(roots) /\ "id" \in DOMAIN c(roots)
    BY OperationId
  <2>2. transaction(p, emit(emit(emit(Working(p), a), b(emit(Working(p), a).roots)),
                          c(emit(emit(Working(p), a), b(emit(Working(p), a).roots)).roots)),
                    grouped, typing)
    BY <1>0
  <2> HIDE DEF a, b, c
  <2> QED  BY <2>1, <2>2
<1>2. WorkOK(Working(p), Taken(page[p].generation)) /\ drawn \in Nat
  BY WorkingPage DEF GenerationInv
<1>3. WorkOK(moved, Taken(page[p].generation))
  BY <1>1, <1>2, Emitted
<1>4. WorkOK(merged, Taken(page[p].generation))
  BY <1>1, <1>2, <1>3, Emitted
<1>5. WorkOK(gone, Taken(page[p].generation))
  BY <1>1, <1>2, <1>4, Emitted
<1> QED  BY <1>1, <1>5, TransactionStep

LEMMA DivideStep ==
    ASSUME GenerationInv, NEW p \in Tab, Divide(p)
    PROVE  GenerationInv'
<1>0. PICK i \in Shown(p), grouped \in BOOLEAN, typing \in Keys(p) :
        LET t == page[p].roots[i].content[1]
        IN  \E split \in {emit(Working(p), [Operation("split_text", t.id, t.tok) EXCEPT !.parts = 1])} :
            \E sibling \in {emit(split, [Operation("insert_root", split.roots[1].id,
                                               split.roots[1].tok) EXCEPT !.position = i + 1])} :
            \E moved \in {emit(sibling, [Operation("move", NewUnit(split.drawn), split.drawn) EXCEPT
                             !.position = 1, !.destinationParentId = NewUnit(sibling.drawn),
                             !.destinationRevisionId = token(sibling.roots, NewUnit(sibling.drawn))])} :
              transaction(p, moved, grouped, typing)
  BY DEF Divide
<1>1. PICK a, b, c, split, sibling, moved :
        /\ "id" \in DOMAIN a /\ "id" \in DOMAIN b /\ "id" \in DOMAIN c
        /\ split = emit(Working(p), a)
        /\ sibling = emit(split, b)
        /\ moved = emit(sibling, c)
        /\ transaction(p, moved, grouped, typing)
  <2> DEFINE t == page[p].roots[i].content[1]
             a == [Operation("split_text", t.id, t.tok) EXCEPT !.parts = 1]
             b(split) == [Operation("insert_root", split.roots[1].id, split.roots[1].tok) EXCEPT
                            !.position = i + 1]
             c(split, sibling) == [Operation("move", NewUnit(split.drawn), split.drawn) EXCEPT
                            !.position = 1, !.destinationParentId = NewUnit(sibling.drawn),
                            !.destinationRevisionId = token(sibling.roots, NewUnit(sibling.drawn))]
  <2>1. /\ "id" \in DOMAIN a
        /\ \A split : "id" \in DOMAIN b(split)
        /\ \A split, sibling : "id" \in DOMAIN c(split, sibling)
    BY OperationId
  <2>2. PICK split : split = emit(Working(p), a)
    OBVIOUS
  <2>3. PICK sibling : sibling = emit(split, b(split))
    OBVIOUS
  <2>4. transaction(p, emit(sibling, c(split, sibling)), grouped, typing)
    BY <1>0, <2>2, <2>3
  <2> HIDE DEF a, b, c
  <2> QED  BY <2>1, <2>2, <2>3, <2>4
<1>2. WorkOK(Working(p), Taken(page[p].generation)) /\ drawn \in Nat
  BY WorkingPage DEF GenerationInv
<1>3. WorkOK(split, Taken(page[p].generation))
  BY <1>1, <1>2, Emitted
<1>4. WorkOK(sibling, Taken(page[p].generation))
  BY <1>1, <1>2, <1>3, Emitted
<1>5. WorkOK(moved, Taken(page[p].generation))
  BY <1>1, <1>2, <1>4, Emitted
<1> QED  BY <1>1, <1>5, TransactionStep

LEMMA CommandStep ==
    ASSUME GenerationInv, NEW p \in Tab, Command(p)
    PROVE  GenerationInv'
<1>1. CASE Type(p)
  <2>1. PICK op, grouped, typing :
          grouped \in BOOLEAN /\ "id" \in DOMAIN op /\ change(p, op, grouped, typing)
    BY <1>1, OperationId DEF Type
  <2> QED  BY <2>1, ChangeStep
<1>2. CASE Retitle(p)
  <2>1. PICK op : "id" \in DOMAIN op /\ change(p, op, FALSE, Nowhere)
    BY <1>2, OperationId DEF Retitle
  <2> QED  BY <2>1, ChangeStep
<1>3. CASE Insert(p)
  <2>1. PICK op : "id" \in DOMAIN op /\ change(p, op, FALSE, Nowhere)
    BY <1>3, OperationId DEF Insert
  <2> QED  BY <2>1, ChangeStep
<1>4. CASE Discard(p)
  <2>1. PICK op : "id" \in DOMAIN op /\ change(p, op, FALSE, Nowhere)
    BY <1>4, OperationId DEF Discard
  <2> QED  BY <2>1, ChangeStep
<1>5. CASE moveSelected(p)
  <2>1. PICK op : "id" \in DOMAIN op /\ change(p, op, FALSE, Nowhere)
    BY <1>5, OperationId DEF moveSelected
  <2> QED  BY <2>1, ChangeStep
<1> QED  BY <1>1, <1>2, <1>3, <1>4, <1>5, JoinStep, DivideStep DEF Command

LEMMA TravelStep ==
    ASSUME GenerationInv, NEW p \in Tab, travel(p)
    PROVE  GenerationInv'
<1> DEFINE now == [roots |-> page[p].roots, operations |-> page[p].operations]
<1>i. PICK ids : ids = Free(page[p].generation)
  OBVIOUS
<1>1. PageInv(page[p]) /\ drawn \in Nat
  BY DEF GenerationInv
<1>2. Snapshot(now, ids)
  BY <1>1, <1>i DEF PageInv, Snapshot
<1>3. ASSUME NEW taken, NEW left, NEW right, Snapshot(taken, ids), Stack(left, ids),
             Stack(right, ids),
             page' = [page EXCEPT ![p] =
               [page[p] EXCEPT !.roots = taken.roots, !.operations = taken.operations,
                               !.history = left, !.future = right, !.typing = Nowhere]]
      PROVE  GenerationInv'
  <2>1. PICK q : q = [page[p] EXCEPT !.roots = taken.roots, !.operations = taken.operations,
                                     !.history = left, !.future = right, !.typing = Nowhere]
    OBVIOUS
  <2>2. /\ PageRecord(q)
        /\ q.generation = page[p].generation
        /\ q.base = page[p].base
        /\ q.operations = taken.operations
        /\ q.history = left
        /\ q.future = right
    BY <1>1, <2>1 DEF PageInv, PageRecord
  <2>3. UNCHANGED <<draft, saves, drawn>>
    BY DEF travel
  <2>4. Free(q.generation)' = ids
    BY <1>i, <2>2, <2>3 DEF Free, Taken
  <2>5. PageInv(q)'
    BY <1>1, <1>3, <2>2, <2>3, <2>4 DEF PageInv, Snapshot
  <2>6. page' = [page EXCEPT ![p] = q] /\ drawn <= drawn'
    BY <1>1, <1>3, <2>1, <2>3
  <2> QED  BY <1>1, <2>3, <2>5, <2>6, PageReplaced
<1>4. CASE /\ page[p].history # <<>>
           /\ page' = [page EXCEPT ![p] =
                [page[p] EXCEPT !.roots = Last(page[p].history).roots,
                                !.operations = Last(page[p].history).operations,
                                !.history = Front(page[p].history),
                                !.future = Append(page[p].future, now), !.typing = Nowhere]]
  <2>1. Stack(Front(page[p].history), ids) /\ Snapshot(Last(page[p].history), ids)
    BY <1>1, <1>4, <1>i, StackPopped DEF PageInv
  <2>2. Stack(Append(page[p].future, now), ids)
    BY <1>1, <1>2, <1>i, StackPushed DEF PageInv
  <2>3. PICK taken, left, right : /\ taken = Last(page[p].history)
                                  /\ left = Front(page[p].history)
                                  /\ right = Append(page[p].future, now)
    OBVIOUS
  <2> HIDE DEF now
  <2> QED  BY <1>3, <1>4, <2>1, <2>2, <2>3
<1>5. CASE /\ page[p].future # <<>>
           /\ page' = [page EXCEPT ![p] =
                [page[p] EXCEPT !.roots = Last(page[p].future).roots,
                                !.operations = Last(page[p].future).operations,
                                !.future = Front(page[p].future),
                                !.history = Append(page[p].history, now), !.typing = Nowhere]]
  <2>1. Stack(Front(page[p].future), ids) /\ Snapshot(Last(page[p].future), ids)
    BY <1>1, <1>5, <1>i, StackPopped DEF PageInv
  <2>2. Stack(Append(page[p].history, now), ids)
    BY <1>1, <1>2, <1>i, StackPushed DEF PageInv
  <2>3. PICK taken, left, right : /\ taken = Last(page[p].future)
                                  /\ left = Append(page[p].history, now)
                                  /\ right = Front(page[p].future)
    OBVIOUS
  <2>4. page' = [page EXCEPT ![p] =
               [page[p] EXCEPT !.roots = taken.roots, !.operations = taken.operations,
                               !.history = left, !.future = right, !.typing = Nowhere]]
    BY <1>1, <1>5, <2>3 DEF PageInv, PageRecord
  <2> HIDE DEF now
  <2> QED  BY <1>3, <2>1, <2>2, <2>3, <2>4
<1> QED  BY <1>4, <1>5 DEF travel

\* A step that leaves the operations of a page alone.
LEMMA OtherFields ==
    ASSUME GenerationInv, NEW p \in Tab, NEW q, page' = [page EXCEPT ![p] = q],
           UNCHANGED <<draft, drawn, saves>>,
           PageRecord(q), q.generation = page[p].generation, q.base = page[p].base,
           q.operations = page[p].operations,
           Stack(q.history, Free(q.generation)), Stack(q.future, Free(q.generation))
    PROVE  GenerationInv'
<1>1. PageInv(page[p]) /\ drawn \in Nat
  BY DEF GenerationInv
<1>2. PageInv(q)
  BY <1>1 DEF PageInv
<1>3. PageInv(q)'
  BY <1>2 DEF PageInv, Free, Taken
<1>4. UNCHANGED <<draft, saves>> /\ drawn' \in Nat /\ drawn <= drawn'
  BY <1>1
<1> QED  BY <1>3, <1>4, PageReplaced

LEMMA RequestStep ==
    ASSUME GenerationInv, NEW p \in Tab, AskRoot(p) \/ AskPreview(p)
    PROVE  GenerationInv'
<1>1. PICK root : Request(p, root)
  BY DEF AskRoot, AskPreview
<1>2. PICK q, reads : /\ q = [page[p] EXCEPT !.loading = TRUE, !.reads = reads]
                      /\ page' = [page EXCEPT ![p] = q]
  BY <1>1 DEF Request
<1>3. PageInv(page[p])
  BY DEF GenerationInv
<1>4. /\ PageRecord(q)
      /\ q.generation = page[p].generation
      /\ q.base = page[p].base
      /\ q.operations = page[p].operations
      /\ q.history = page[p].history
      /\ q.future = page[p].future
  BY <1>2, <1>3 DEF PageInv, PageRecord
<1>5. UNCHANGED <<draft, drawn, saves>>
  BY <1>1 DEF Request
<1> QED  BY <1>2, <1>3, <1>4, <1>5, OtherFields DEF PageInv

LEMMA ReadStep ==
    ASSUME GenerationInv, NEW p \in Tab, Read(p)
    PROVE  GenerationInv'
<1>1. PICK r : ReadArrives(p, r) \/ ReadFails(p, r)
  BY DEF Read
<1>2. PageInv(page[p])
  BY DEF GenerationInv
<1>3. UNCHANGED <<draft, drawn, saves>>
  BY <1>1 DEF ReadArrives, ReadFails
<1>4. CASE ReadArrives(p, r)
  <2> DEFINE all == {page[p].base[i].id : i \in DOMAIN page[p].base}
  <2>a. PICK arriving : arriving = IF r.root = Nowhere THEN all \ page[p].loaded ELSE {r.root}
    OBVIOUS
  <2>r. PICK roots : roots = Hydrated([roots |-> page[p].roots, operations |-> page[p].operations],
                                      page[p].base, arriving).roots
    OBVIOUS
  <2>l. PICK loaded : loaded = page[p].loaded \cup (IF r.root = Nowhere THEN all ELSE {r.root})
    OBVIOUS
  <2>h. PICK history : history = [k \in DOMAIN page[p].history |->
                                    Hydrated(page[p].history[k], page[p].base, arriving)]
    OBVIOUS
  <2>f. PICK future : future = [k \in DOMAIN page[p].future |->
                                  Hydrated(page[p].future[k], page[p].base, arriving)]
    OBVIOUS
  <2>1. page' = [page EXCEPT ![p] =
               [page[p] EXCEPT !.roots = roots, !.history = history, !.future = future,
                               !.loaded = loaded, !.reads = page[p].reads \ {r},
                               !.loading = FALSE]]
    BY <1>4, <2>a, <2>r, <2>l, <2>h, <2>f DEF ReadArrives
  <2>2. PICK q : q = [page[p] EXCEPT !.roots = roots, !.history = history, !.future = future,
                                     !.loaded = loaded, !.reads = page[p].reads \ {r},
                                     !.loading = FALSE]
    OBVIOUS
  <2>3. /\ PageRecord(q)
        /\ q.generation = page[p].generation
        /\ q.base = page[p].base
        /\ q.operations = page[p].operations
        /\ q.history = history
        /\ q.future = future
    BY <1>2, <2>2 DEF PageInv, PageRecord
  <2>4. Stack(history, Free(q.generation)) /\ Stack(future, Free(q.generation))
    BY <1>2, <2>h, <2>f, <2>3, StackHydrated DEF PageInv
  <2> QED  BY <1>3, <2>1, <2>2, <2>3, <2>4, OtherFields
<1>5. CASE ReadFails(p, r)
  <2>1. PICK q : /\ q = [page[p] EXCEPT !.reads = page[p].reads \ {r}, !.loading = FALSE]
                 /\ page' = [page EXCEPT ![p] = q]
    BY <1>5 DEF ReadFails
  <2>2. /\ PageRecord(q)
        /\ q.generation = page[p].generation
        /\ q.base = page[p].base
        /\ q.operations = page[p].operations
        /\ q.history = page[p].history
        /\ q.future = page[p].future
    BY <1>2, <2>1 DEF PageInv, PageRecord
  <2> QED  BY <1>2, <1>3, <2>1, <2>2, OtherFields DEF PageInv
<1> QED  BY <1>1, <1>4, <1>5

LEMMA ReloadStep ==
    ASSUME GenerationInv, NEW p \in Tab, Reload(p)
    PROVE  GenerationInv'
<1>1. PICK q : q = Opened
  OBVIOUS
<1>2. page' = [page EXCEPT ![p] = q] /\ UNCHANGED <<draft, drawn, saves>> /\ drawn \in Nat
  BY <1>1 DEF Reload, GenerationInv
<1>3. PageInv(q)
  BY <1>1, OpenedPage DEF GenerationInv
<1>4. PageInv(q)'
  BY <1>2, <1>3 DEF PageInv, Free, Taken
<1>5. UNCHANGED <<draft, saves>> /\ drawn' \in Nat /\ drawn <= drawn'
  BY <1>2
<1> QED  BY <1>2, <1>4, <1>5, PageReplaced

LEMMA SubmitStep ==
    ASSUME GenerationInv, NEW p \in Tab, Submit(p)
    PROVE  GenerationInv'
<1>1. PICK save, nth :
        /\ save = [expectedGeneration |-> page[p].generation, operations |-> page[p].operations,
                   shown |-> page[p].roots, loaded |-> page[p].loaded]
        /\ saves' = saves \cup {[save |-> save, nth |-> nth]}
  BY DEF Submit
<1>2. PICK q : /\ q = [page[p] EXCEPT !.submitted = TRUE]
               /\ page' = [page EXCEPT ![p] = q]
  BY DEF Submit
<1>3. UNCHANGED <<draft, drawn>>
  BY DEF Submit
<1>4. PageInv(page[p])
  BY DEF GenerationInv
<1>5. /\ PageRecord(q)
      /\ q.generation = page[p].generation
      /\ q.base = page[p].base
      /\ q.operations = page[p].operations
      /\ q.history = page[p].history
      /\ q.future = page[p].future
  BY <1>2, <1>4 DEF PageInv, PageRecord
<1>6. PageInv(q)
  BY <1>4, <1>5 DEF PageInv
<1>7. SaveInv(save)
  BY <1>1, <1>4 DEF SaveInv, PageInv
<1>8. \A s \in saves' : SaveInv(s.save)
  BY <1>1, <1>7 DEF GenerationInv
<1>9. \A x : SaveInv(x)' <=> SaveInv(x)
  BY <1>3 DEF SaveInv, Free, Taken
<1>10. \A x : PageInv(x)' <=> PageInv(x)
  BY <1>3 DEF PageInv, Free, Taken
<1>11. /\ page' \in [Tab -> {page'[t] : t \in Tab}]
       /\ \A t \in Tab : PageInv(page'[t])
  BY <1>2, <1>6 DEF GenerationInv
<1> QED  BY <1>3, <1>8, <1>9, <1>10, <1>11 DEF GenerationInv

(***************************************************************************)
(* The service. An accepted save overtakes every page and every other save *)
(* of its generation.                                                      *)
(***************************************************************************)
LEMMA AcceptStep ==
    ASSUME GenerationInv, NEW s \in saves, Accept(s)
    PROVE  GenerationInv'
<1>1. /\ saves' = saves \ {s}
      /\ UNCHANGED <<page, drawn>>
      /\ draft'.generation = draft.generation + 1
      /\ draft'.ids = draft.ids \cup Ids(s.save.operations)
  BY DEF Accept
<1>2. drawn \in Nat /\ draft.generation \in Nat /\ draft'.generation \in Nat
  BY <1>1 DEF GenerationInv
<1>3. draft'.ids \subseteq 1..drawn'
  BY <1>1 DEF GenerationInv, SaveInv, Listed, Free
<1>4. \A g \in 0..draft.generation : /\ g \in 0..draft'.generation
                                     /\ g # draft'.generation
                                     /\ Free(g) \subseteq Free(g)'
  BY <1>1, <1>2 DEF Free, Taken
<1>5. ASSUME NEW p \in Tab
      PROVE  PageInv(page[p])'
  <2>1. PageInv(page[p])
    BY DEF GenerationInv
  <2> QED  BY <1>1, <1>4, <2>1, StackWider DEF PageInv, Listed
<1>6. ASSUME NEW x \in saves'
      PROVE  SaveInv(x.save)'
  <2>1. SaveInv(x.save)
    BY <1>1 DEF GenerationInv
  <2> QED  BY <1>1, <1>4, <2>1 DEF SaveInv, Listed
<1> QED  BY <1>1, <1>2, <1>3, <1>5, <1>6 DEF GenerationInv

\* Closing leaves the tree, its generation and its operations.
LEMMA CloseKeeps ==
    ASSUME Close
    PROVE  /\ draft'.roots = draft.roots /\ draft'.generation = draft.generation
           /\ draft'.ids = draft.ids
           /\ UNCHANGED <<page, saves, drawn, commands>>
BY DEF Close

LEMMA GenerationStep == GenerationInv /\ [Next]_vars => GenerationInv'
<1> SUFFICES ASSUME GenerationInv, [Next]_vars PROVE GenerationInv'
  OBVIOUS
<1>1. ASSUME NEW p \in Tab,
             \/ Command(p) \/ travel(p) \/ AskRoot(p) \/ AskPreview(p) \/ Read(p)
             \/ Submit(p) \/ Reload(p)
      PROVE  GenerationInv'
  BY <1>1, CommandStep, TravelStep, RequestStep, ReadStep, SubmitStep, ReloadStep
<1>2. ASSUME NEW s \in saves, Accept(s) PROVE GenerationInv'
  BY <1>2, AcceptStep
<1>3. ASSUME NEW s \in saves, Refuse(s) PROVE GenerationInv'
  BY <1>3 DEF Refuse, GenerationInv, PageInv, SaveInv, Free, Taken
<1>4. CASE UNCHANGED vars
  BY <1>4 DEF vars, GenerationInv, PageInv, SaveInv, Free, Taken
<1>5. CASE Close
  BY <1>5, CloseKeeps DEF GenerationInv, PageInv, SaveInv, Free, Taken
<1> QED  BY <1>1, <1>2, <1>3, <1>4, <1>5 DEF Next

\* A page of the stored generation was rendered from the stored tree, and neither it nor a
\* save that carries this generation lists an operation the service has accepted.
THEOREM GenerationInvariant == Spec => []GenerationInv
BY GenerationInit, GenerationStep, PTL DEF Spec

(***************************************************************************)
(* From the pages to the saves.                                            *)
(***************************************************************************)
\* How a step changes the saves in flight: only an accepted one changes the draft, unless the
\* session closes or opens.
LEMMA SavesKeep ==
    ASSUME [Next]_vars
    PROVE  \/ UNCHANGED draft /\ saves' \subseteq saves
           \/ /\ UNCHANGED draft
              /\ \E p \in Tab : \E nth :
                   saves' = saves \cup {[nth |-> nth, save |->
                     [expectedGeneration |-> page[p].generation,
                      operations |-> page[p].operations, shown |-> page[p].roots,
                      loaded |-> page[p].loaded]]}
           \/ \E s \in saves : /\ Accept(s)
                               /\ saves' = saves \ {s}
           \/ Close
<1>1. ASSUME NEW p \in Tab, Command(p)
      PROVE  UNCHANGED <<draft, saves>>
  <2>1. \A work, grouped, typing : transaction(p, work, grouped, typing) => UNCHANGED <<draft, saves>>
    BY DEF transaction
  <2>2. \A op, grouped, typing : change(p, op, grouped, typing) => UNCHANGED <<draft, saves>>
    BY <2>1 DEF change
  <2>3. CASE Join(p)
    BY <2>1, <2>3 DEF Join
  <2>4. CASE Divide(p)
    BY <2>1, <2>4 DEF Divide
  <2>5. CASE Type(p)
    BY <2>2, <2>5 DEF Type
  <2>6. CASE Retitle(p) \/ Insert(p) \/ Discard(p) \/ moveSelected(p)
    BY <2>2, <2>6 DEF Retitle, Insert, Discard, moveSelected
  <2> QED  BY <1>1, <2>3, <2>4, <2>5, <2>6 DEF Command
<1>2. ASSUME NEW p \in Tab,
             travel(p) \/ AskRoot(p) \/ AskPreview(p) \/ Read(p) \/ Reload(p)
      PROVE  UNCHANGED <<draft, saves>>
  BY <1>2 DEF travel, AskRoot, AskPreview, Request, Read, ReadArrives, ReadFails, Reload
<1>3. ASSUME NEW p \in Tab, Submit(p)
      PROVE  /\ UNCHANGED draft
             /\ \E nth :
                   saves' = saves \cup {[nth |-> nth, save |->
                     [expectedGeneration |-> page[p].generation,
                      operations |-> page[p].operations, shown |-> page[p].roots,
                      loaded |-> page[p].loaded]]}
  BY <1>3 DEF Submit
<1>4. ASSUME NEW s \in saves, Accept(s)
      PROVE  saves' = saves \ {s}
  BY <1>4 DEF Accept
<1>5. ASSUME NEW s \in saves, Refuse(s)
      PROVE  UNCHANGED draft /\ saves' \subseteq saves
  BY <1>5 DEF Refuse
<1>6. CASE UNCHANGED vars
  BY <1>6 DEF vars
<1> QED  BY <1>1, <1>2, <1>3, <1>4, <1>5, <1>6 DEF Next

\* What each page, for itself, keeps true of the list it will submit.
ListIsPinned == \A p \in Tab : replay(page[p].base, page[p].operations).accepted

PinnedSaves ==
    \A s \in saves : s.save.expectedGeneration = draft.generation =>
                       replay(draft.roots, s.save.operations).accepted

\* If every page writes its operations against its own tree, then whatever the pages of the
\* session save, and however often, a save of an open session that carries the stored
\* generation is accepted, unless its tree fails the final validation.
LEMMA PinnedSavesAreAccepted == Spec /\ []ListIsPinned => []SaveRefusedOnlyWhenOvertaken
<1>1. Init => PinnedSaves
  BY DEF Init, PinnedSaves
<1>2. GenerationInv /\ ListIsPinned /\ PinnedSaves /\ [Next]_vars => PinnedSaves'
  <2> SUFFICES ASSUME GenerationInv, ListIsPinned, PinnedSaves, [Next]_vars
               PROVE  PinnedSaves'
    OBVIOUS
  <2>1. CASE UNCHANGED draft /\ saves' \subseteq saves
    BY <2>1 DEF PinnedSaves
  <2>2. ASSUME UNCHANGED draft, NEW p \in Tab, NEW nth,
               saves' = saves \cup {[nth |-> nth, save |->
                          [expectedGeneration |-> page[p].generation,
                           operations |-> page[p].operations, shown |-> page[p].roots,
                           loaded |-> page[p].loaded]]}
        PROVE  PinnedSaves'
    <3>1. page[p].generation = draft.generation => page[p].base = draft.roots
      BY DEF GenerationInv, PageInv
    <3>2. replay(page[p].base, page[p].operations).accepted
      BY DEF ListIsPinned
    <3> QED  BY <2>2, <3>1, <3>2 DEF PinnedSaves
  <2>3. ASSUME NEW s \in saves, Accept(s), saves' = saves \ {s}
        PROVE  PinnedSaves'
    <3>1. draft'.generation = draft.generation + 1 /\ draft.generation \in Nat
      BY <2>3 DEF Accept, GenerationInv
    <3>2. \A x \in saves : x.save.expectedGeneration \in 0..draft.generation
      BY DEF GenerationInv, SaveInv
    <3> QED  BY <2>3, <3>1, <3>2 DEF PinnedSaves
  <2>4. CASE Close
    BY <2>4, CloseKeeps DEF PinnedSaves
  <2> QED  BY <2>1, <2>2, <2>3, <2>4, SavesKeep
<1>3. GenerationInv /\ ListIsPinned /\ PinnedSaves => SaveRefusedOnlyWhenOvertaken
  <2> SUFFICES ASSUME GenerationInv, ListIsPinned, PinnedSaves
               PROVE  SaveRefusedOnlyWhenOvertaken
    OBVIOUS
  <2>1. ASSUME NEW s \in saves, draft.open, s.save.expectedGeneration = draft.generation,
               validate(replay(draft.roots, s.save.operations).roots)
        PROVE  Acceptable(s.save)
    <3>1. Ids(s.save.operations) \cap draft.ids = {}
      BY <2>1 DEF GenerationInv, SaveInv, Listed, Free, Taken
    <3>2. replay(draft.roots, s.save.operations).accepted
      BY <2>1 DEF PinnedSaves
    <3> QED  BY <2>1, <3>1, <3>2 DEF Acceptable
  <2> QED  BY <2>1 DEF SaveRefusedOnlyWhenOvertaken, ListIsPinned
<1> QED  BY <1>1, <1>2, <1>3, GenerationInvariant, PTL DEF Spec

(***************************************************************************)
(* The invariant: a page keeps states of itself, and every save in flight  *)
(* shows the replay of its list.                                           *)
(***************************************************************************)
StoredInv ==
    /\ commands \in 0..MaxCommands
    /\ draft.generation \in 0..MaxSaves
    /\ Tree(draft.roots) /\ Units(draft.roots) \subseteq Old(drawn)

ShownInv(save) ==
    save.expectedGeneration = draft.generation =>
      /\ Written(draft.roots, save.operations, drawn)
      /\ Accepted(draft.roots, save.operations) =>
           Match(save.shown, replay(draft.roots, save.operations).roots, save.loaded)

EditInv ==
    /\ StoredInv
    /\ \A p \in Tab : EditPage(page[p])
    /\ \A s \in saves : ShownInv(s.save)

LEMMA OldLater == ASSUME NEW d \in Nat, NEW e \in Nat, d <= e PROVE Old(d) \subseteq Old(e)
BY DEF Old

LEMMA EditPageLater ==
    ASSUME drawn \in Nat, drawn' \in Nat, drawn <= drawn', NEW q, EditPage(q)
    PROVE  EditPage(q)'
<1>1. ASSUME NEW roots, NEW ops, Keeps(q, roots, ops) PROVE Keeps(q, roots, ops)'
  <2>1. Snap(q.base, q.loaded, drawn, roots, ops)
    BY <1>1 DEF Keeps
  <2>2. InsertedNodes(ops) \subseteq q.loaded
    BY <2>1 DEF Snap
  <2>3. Snap(q.base, q.loaded, drawn', roots, ops)
    BY <2>1, <2>2, SnapLater
  <2> QED  BY <2>3 DEF Keeps
<1>2. Units(q.base) \subseteq Old(drawn')
  BY OldLater DEF EditPage
<1> QED  BY <1>1, <1>2 DEF EditPage, Reading

LEMMA EditReplaced ==
    ASSUME GenerationInv, EditInv, NEW p \in Tab, NEW q, page' = [page EXCEPT ![p] = q],
           UNCHANGED <<draft, saves>>, drawn' \in Nat, drawn <= drawn',
           commands' \in 0..MaxCommands, EditPage(q)'
    PROVE  EditInv'
<1>1. drawn \in Nat /\ \A t \in Tab : page'[t] = IF t = p THEN q ELSE page[t]
  BY DEF GenerationInv
<1>2. ASSUME NEW t \in Tab PROVE EditPage(page[t])'
  <2>1. CASE t = p
    BY <1>1, <2>1
  <2>2. CASE t # p
    <3>1. EditPage(page[t]) /\ page'[t] = page[t]
      BY <1>1, <2>2 DEF EditInv
    <3> QED  BY <1>1, <3>1, EditPageLater
  <2> QED  BY <2>1, <2>2
<1>3. ASSUME NEW s \in saves' PROVE ShownInv(s.save)'
  <2>1. ShownInv(s.save)
    BY DEF EditInv
  <2>2. \A base, ops : Written(base, ops, drawn) => Written(base, ops, drawn')
    BY <1>1, WrittenLater
  <2> QED  BY <2>1, <2>2 DEF ShownInv
<1>4. StoredInv'
  BY <1>1, OldLater DEF EditInv, StoredInv
<1> QED  BY <1>2, <1>3, <1>4 DEF EditInv

LEMMA LastOfLength ==
    ASSUME NEW s, IsSeq(s), NEW n \in Nat
    PROVE  Len(LastOf(s, n)) \in Nat /\ Len(LastOf(s, n)) <= n
<1>0. Len(s) \in Nat
  BY Places
<1>1. CASE Len(s) > n
  <2>1. PICK m, k : m = Len(s) - n + 1 /\ k = Len(s)
    OBVIOUS
  <2>2. m \in Nat \ {0} /\ k \in Nat /\ k <= Len(s) /\ m <= k + 1
    BY <1>0, <1>1, <2>1
  <2>3. IsCut(SubSeq(s, m, k), s, m, k)
    BY <2>2, Cut
  <2>4. LastOf(s, n) = SubSeq(s, m, k)
    BY <1>1, <2>1 DEF LastOf
  <2>5. Len(LastOf(s, n)) = k - m + 1
    BY <2>3, <2>4 DEF IsCut
  <2> QED  BY <1>0, <1>1, <2>1, <2>5
<1>2. CASE ~(Len(s) > n)
  <2>1. LastOf(s, n) = SubSeq(s, 1, Len(s))
    BY <1>2 DEF LastOf
  <2>2. Len(SubSeq(s, 1, Len(s))) = Len(s)
    BY <1>0, Upto
  <2> QED  BY <1>0, <1>2, <2>1, <2>2
<1> QED  BY <1>1, <1>2

\* The states of a stack are kept by one that has loaded the nodes a command inserted.
LEMMA KeptByInserted ==
    ASSUME drawn \in Nat, NEW e \in Nat, drawn <= e, NEW base, NEW loaded, NEW more, NEW ops,
           Written(base, ops, e), more = loaded \cup InsertedNodes(ops),
           NEW roots, NEW list, Snap(base, loaded, drawn, roots, list)
    PROVE  Snap(base, more, e, roots, list)
<1>1. ASSUME NEW u \in NodeIds(roots), u \in InsertedNodes(ops) PROVE u \in loaded
  <2>1. u \notin NodeIds(base)
    BY <1>1, InsertedAreNew, UnitsAre
  <2> QED  BY <2>1 DEF Snap
<1>2. InsertedNodes(list) \subseteq more
  BY DEF Snap
<1>3. \A u \in NodeIds(roots) : u \in loaded <=> u \in more
  BY <1>1
<1> QED  BY <1>2, <1>3, SnapLater

\* What a command has built is a state of the page that has loaded what it inserted.
LEMMA WorkIsKept ==
    ASSUME drawn \in Nat, NEW p, EditPage(page[p]), NEW work,
           Work(page[p].base, Wide(p), work), NEW more,
           more = page[p].loaded \cup InsertedNodes(work.operations)
    PROVE  Snap(page[p].base, more, work.drawn, work.roots, work.operations)
<1>1. Snap(page[p].base, Wide(p), work.drawn, work.roots, work.operations)
      /\ work.drawn \in Nat /\ work.drawn <= work.drawn
  BY DEF Work
<1>2. InsertedNodes(work.operations) \subseteq Wide(p)
  BY <1>1 DEF Snap
<1>3. ASSUME NEW u \in NodeIds(work.roots), Undrawn(u) PROVE u \in more
  <2>1. u \notin NodeIds(page[p].base)
    BY <1>3, UndrawnIsNew, UnitsAre DEF EditPage
  <2> QED  BY <1>1, <2>1 DEF Snap
<1>4. \A u \in NodeIds(work.roots) : u \in Wide(p) <=> u \in more
  BY <1>2, <1>3, WideIs
<1> QED  BY <1>1, <1>4, SnapLater

LEMMA ReadingStill ==
    ASSUME NEW held, EditPage(held), NEW ops, NEW e \in Nat, Written(held.base, ops, e), NEW q,
           q.base = held.base, q.loaded = held.loaded \cup InsertedNodes(ops), q.reads = held.reads
    PROVE  Reading(q)
<1>1. Reading(held)
  BY DEF EditPage
<1>2. \A u \in NodeIds(held.base) : u \notin InsertedNodes(ops)
  BY InsertedAreNew, UnitsAre
<1> QED  BY <1>1, <1>2 DEF Reading

(***************************************************************************)
(* The steps of a page.                                                    *)
(***************************************************************************)
\* The lists of a page, of now and of every state it can go back or forth to.
AllAccepted(q) ==
    /\ replay(q.base, q.operations).accepted
    /\ \A k \in DOMAIN q.history : replay(q.base, q.history[k].operations).accepted
    /\ \A k \in DOMAIN q.future : replay(q.base, q.future[k].operations).accepted

\* A step that replaces page p by one of its own kind.
Replaced(p, q) ==
    /\ page' = [page EXCEPT ![p] = q]
    /\ UNCHANGED <<draft, saves>>
    /\ drawn' \in Nat /\ drawn <= drawn'
    /\ commands' \in 0..MaxCommands
    /\ EditPage(q)'

\* What a transaction leaves of its page.
Installed(q, held, work, history) ==
    /\ q.base = held.base /\ q.roots = work.roots /\ q.operations = work.operations
    /\ q.history = history /\ q.future = <<>> /\ q.reads = held.reads
    /\ q.loaded = held.loaded \cup InsertedNodes(work.operations)

LEMMA TransactionInstalls ==
    ASSUME GenerationInv, NEW p \in Tab, NEW work, NEW grouped \in BOOLEAN, NEW typing,
           transaction(p, work, grouped, typing)
    PROVE  \E q, before, history :
             /\ before = [roots |-> page[p].roots, operations |-> page[p].operations]
             /\ history = IF grouped THEN page[p].history
                          ELSE LastOf(Append(page[p].history, before), HistoryLimit)
             /\ page' = [page EXCEPT ![p] = q]
             /\ Installed(q, page[p], work, history)
<1>0. PICK before, history, loaded :
        /\ before = [roots |-> page[p].roots, operations |-> page[p].operations]
        /\ history = IF grouped THEN page[p].history
                     ELSE LastOf(Append(page[p].history, before), HistoryLimit)
        /\ loaded = page[p].loaded \cup InsertedNodes(work.operations)
  OBVIOUS
<1>1. page' = [page EXCEPT ![p] =
                 [page[p] EXCEPT !.roots = work.roots, !.operations = work.operations,
                                 !.history = history, !.future = <<>>,
                                 !.typing = typing, !.loaded = loaded]]
  BY <1>0 DEF transaction, InsertedNodes
<1>q. PICK q : q = [page[p] EXCEPT !.roots = work.roots, !.operations = work.operations,
                                   !.history = history, !.future = <<>>,
                                   !.typing = typing, !.loaded = loaded]
  OBVIOUS
<1>2. PageRecord(page[p])
  BY DEF GenerationInv, PageInv
<1>3. /\ q.base = page[p].base /\ q.roots = work.roots /\ q.operations = work.operations
      /\ q.history = history /\ q.future = <<>> /\ q.reads = page[p].reads
      /\ q.loaded = loaded
  BY <1>2, <1>q DEF PageRecord
<1>4. Installed(q, page[p], work, history)
  BY <1>0, <1>3 DEF Installed
<1> QED  BY <1>0, <1>1, <1>q, <1>4

LEMMA TransactionKeeps ==
    ASSUME GenerationInv, EditInv, NEW p \in Tab, NEW sound, Builds(p, sound)
    PROVE  \E q : /\ Replaced(p, q)
                  /\ sound /\ ~Overlapping /\ AllAccepted(page[p]) => AllAccepted(q)
<1>h. PICK held : held = page[p]
  OBVIOUS
<1>0. PICK work, typing : \E grouped \in BOOLEAN :
        transaction(p, work, grouped, typing) /\ Built(p, work, sound)
  BY DEF Builds
<1>g. PICK grouped \in BOOLEAN : transaction(p, work, grouped, typing) /\ Built(p, work, sound)
  BY <1>0
<1>1. PICK q, before, history :
             /\ before = [roots |-> page[p].roots, operations |-> page[p].operations]
             /\ history = IF grouped THEN page[p].history
                          ELSE LastOf(Append(page[p].history, before), HistoryLimit)
             /\ page' = [page EXCEPT ![p] = q]
             /\ Installed(q, page[p], work, history)
  BY <1>g, TransactionInstalls
<1>2. EditPage(held) /\ drawn \in Nat /\ HistoryLimit \in Nat /\ MaxCommands \in Nat
      /\ IsSeq(held.history) /\ IsSeq(held.future)
  BY <1>h, EditorConstants DEF EditInv, GenerationInv, PageInv, Stack
<1>3. /\ work.drawn \in Nat /\ drawn <= work.drawn /\ drawn' = work.drawn
      /\ Snap(held.base, Wide(p), work.drawn, work.roots, work.operations)
  BY <1>g, <1>h DEF Built, Work, transaction
<1>4. commands' \in 0..MaxCommands
  <2>1. commands \in 0..MaxCommands
    BY DEF EditInv, StoredInv
  <2>2. commands' = (IF work.drawn = drawn THEN commands ELSE commands + 1)
        /\ commands' <= MaxCommands
    BY <1>g DEF transaction
  <2> QED  BY <1>2, <2>1, <2>2
<1>5. Snap(held.base, q.loaded, drawn', work.roots, work.operations)
  BY <1>1, <1>2, <1>3, <1>g, <1>h, WorkIsKept DEF Installed, Built
<1>6. ASSUME NEW roots, NEW list, Keeps(held, roots, list) PROVE Keeps(q, roots, list)'
  <2>1. Snap(held.base, held.loaded, drawn, roots, list)
    BY <1>6 DEF Keeps
  <2>2. q.base = held.base /\ q.loaded = held.loaded \cup InsertedNodes(work.operations)
    BY <1>1, <1>h DEF Installed
  <2>3. Written(held.base, work.operations, drawn')
    BY <1>3 DEF Snap
  <2>4. Snap(held.base, q.loaded, drawn', roots, list)
    BY <1>2, <1>3, <2>1, <2>2, <2>3, KeptByInserted
  <2> QED  BY <2>2, <2>4 DEF Keeps
\* A snapshot of the new stack is one of the old stack, or of the state the command has left.
<1>7. /\ IsSeq(history) /\ Len(history) \in Nat /\ Len(history) <= HistoryLimit
      /\ \A k \in DOMAIN history : history[k] = before \/ \E j \in DOMAIN held.history :
                                                           history[k] = held.history[j]
  <2>1. CASE grouped
    <3>1. history = held.history
      BY <1>1, <1>h, <2>1
    <3>2. Len(held.history) \in Nat /\ Len(held.future) \in Nat
      BY <1>2, Places
    <3>3. Len(held.history) + Len(held.future) <= HistoryLimit
      BY <1>2 DEF EditPage
    <3>4. Len(held.history) <= HistoryLimit
      <4>1. PICK m, n : m = Len(held.history) /\ n = Len(held.future)
        OBVIOUS
      <4>2. m \in Nat /\ n \in Nat /\ m + n <= HistoryLimit
        BY <3>2, <3>3, <4>1
      <4>3. PICK limit \in Nat : limit = HistoryLimit
        BY <1>2
      <4>4. m <= limit
        BY <4>2, <4>3
      <4> QED  BY <4>1, <4>3, <4>4
    <3>5. \A k \in DOMAIN history : history[k] = held.history[k] /\ k \in DOMAIN held.history
      BY <3>1
    <3> QED  BY <1>2, <3>1, <3>2, <3>4, <3>5
  <2>2. CASE ~grouped
    <3>1. PICK more : more = Append(held.history, before)
      OBVIOUS
    <3>2. history = LastOf(more, HistoryLimit)
      BY <1>1, <1>h, <2>2, <3>1
    <3>3. /\ IsSeq(more)
          /\ \A k \in DOMAIN more : more[k] = before \/ \E j \in DOMAIN held.history :
                                                         more[k] = held.history[j]
      BY <1>2, <3>1, Appended
    <3>4. IsSeq(history) /\ Within(history, more)
      BY <1>2, <3>2, <3>3, LastOfIsPart
    <3>5. Len(history) \in Nat /\ Len(history) <= HistoryLimit
      BY <1>2, <3>2, <3>3, LastOfLength
    <3> QED  BY <3>3, <3>4, <3>5 DEF Within
  <2> QED  BY <2>1, <2>2
<1>8. before.roots = held.roots /\ before.operations = held.operations
  BY <1>1, <1>h
<1>9. /\ q.base = held.base /\ q.roots = work.roots /\ q.operations = work.operations
      /\ q.history = history /\ q.future = <<>>
  BY <1>1, <1>h DEF Installed
<1>10. EditPage(q)'
  <2>1. Tree(q.base) /\ Units(q.base) \subseteq Old(drawn')
    <3>1. Units(q.base) \subseteq Old(drawn) /\ Tree(q.base)
      BY <1>2, <1>9 DEF EditPage
    <3> QED  BY <1>2, <1>3, <3>1, OldLater
  <2>2. Keeps(q, q.roots, q.operations)'
    BY <1>5, <1>9 DEF Keeps
  <2>3. ASSUME NEW k \in DOMAIN history
        PROVE  Keeps(q, history[k].roots, history[k].operations)'
    <3>1. \/ history[k].roots = held.roots /\ history[k].operations = held.operations
          \/ \E j \in DOMAIN held.history : history[k] = held.history[j]
      BY <1>7, <1>8
    <3>2. /\ Keeps(held, held.roots, held.operations)
          /\ \A j \in DOMAIN held.history :
               Keeps(held, held.history[j].roots, held.history[j].operations)
      BY <1>2 DEF EditPage
    <3> QED  BY <1>6, <3>1, <3>2
  <2>4. Len(q.history) + Len(q.future) <= HistoryLimit /\ DOMAIN q.future = {}
    BY <1>2, <1>7, <1>9, EmptyIsSeq
  <2>5. Reading(q)
    <3>1. Written(held.base, work.operations, work.drawn)
      BY <1>3 DEF Snap
    <3> QED  BY <1>1, <1>2, <1>3, <1>h, <3>1, ReadingStill DEF Installed
  <2>6. Reading(q)'
    BY <2>5 DEF Reading
  <2> QED  BY <1>9, <2>1, <2>2, <2>3, <2>4, <2>6 DEF EditPage
<1>11. Replaced(p, q)
  <2>1. UNCHANGED <<draft, saves>>
    BY <1>g DEF transaction
  <2> QED  BY <1>1, <1>3, <1>4, <1>10, <2>1 DEF Replaced
<1>12. sound /\ ~Overlapping /\ AllAccepted(page[p]) => AllAccepted(q)
  <2> SUFFICES ASSUME sound, ~Overlapping, AllAccepted(held) PROVE AllAccepted(q)
    BY <1>h
  <2>1. replay(held.base, work.operations).accepted
    BY <1>g, <1>h DEF Built, Accepted, AllAccepted
  <2>2. ASSUME NEW k \in DOMAIN history
        PROVE  replay(held.base, history[k].operations).accepted
    BY <1>7, <1>8 DEF AllAccepted
  <2> QED  BY <1>9, <2>1, <2>2, EmptyIsSeq DEF AllAccepted
<1> QED  BY <1>11, <1>12

\* One of the states of a page.
StateOf(q, roots, ops) ==
    \/ roots = q.roots /\ ops = q.operations
    \/ \E k \in DOMAIN q.history : roots = q.history[k].roots /\ ops = q.history[k].operations
    \/ \E k \in DOMAIN q.future : roots = q.future[k].roots /\ ops = q.future[k].operations

LEMMA SameStates ==
    ASSUME NEW held, EditPage(held), NEW q, q.base = held.base, q.loaded = held.loaded,
           \A roots, ops : StateOf(q, roots, ops) => StateOf(held, roots, ops),
           Len(q.history) + Len(q.future) <= HistoryLimit, Reading(q)
    PROVE  /\ EditPage(q)
           /\ AllAccepted(held) => AllAccepted(q)
<1>1. ASSUME NEW roots, NEW ops, StateOf(q, roots, ops) PROVE Keeps(q, roots, ops)
  <2>1. StateOf(held, roots, ops)
    BY <1>1
  <2>2. Keeps(held, roots, ops)
    BY <2>1 DEF StateOf, EditPage
  <2> QED  BY <2>2 DEF Keeps
<1>2. ASSUME NEW roots, NEW ops, StateOf(q, roots, ops), AllAccepted(held)
      PROVE  replay(q.base, ops).accepted
  <2>1. StateOf(held, roots, ops)
    BY <1>2
  <2> QED  BY <1>2, <2>1 DEF StateOf, AllAccepted
<1>3. /\ StateOf(q, q.roots, q.operations)
      /\ \A k \in DOMAIN q.history : StateOf(q, q.history[k].roots, q.history[k].operations)
      /\ \A k \in DOMAIN q.future : StateOf(q, q.future[k].roots, q.future[k].operations)
  BY DEF StateOf
<1>4. EditPage(q)
  BY <1>1, <1>3 DEF EditPage
<1> QED  BY <1>2, <1>3, <1>4 DEF AllAccepted

\* The top of one stack becomes the state, which goes onto the other stack.
LEMMA TopTaken ==
    ASSUME NEW from, IsSeq(from), from # <<>>, NEW onto, IsSeq(onto), NEW now,
           NEW n \in Nat, Len(from) + Len(onto) <= n
    PROVE  /\ Len(Front(from)) + Len(Append(onto, now)) <= n
           /\ Len(Append(onto, now)) + Len(Front(from)) <= n
           /\ \E j \in DOMAIN from : Last(from) = from[j]
           /\ \A k \in DOMAIN Front(from) : \E j \in DOMAIN from : Front(from)[k] = from[j]
           /\ \A k \in DOMAIN Append(onto, now) :
                \/ Append(onto, now)[k] = now
                \/ \E j \in DOMAIN onto : Append(onto, now)[k] = onto[j]
<1>1. Len(from) \in Nat /\ Len(onto) \in Nat
  BY Places
<1>2. Len(Front(from)) = Len(from) - 1
  BY FrontThenLast
<1>3. Len(Append(onto, now)) = Len(onto) + 1
  BY AppendedAt
<1>4. Within(Front(from), from) /\ \E j \in DOMAIN from : Last(from) = from[j]
  BY FrontAndLast
<1>5. \A k \in DOMAIN Append(onto, now) :
        \/ Append(onto, now)[k] = now
        \/ \E j \in DOMAIN onto : Append(onto, now)[k] = onto[j]
  BY Appended
<1>6. PICK a, b, c, d : /\ a = Len(from) /\ b = Len(onto)
                        /\ c = Len(Front(from)) /\ d = Len(Append(onto, now))
  OBVIOUS
<1>7. c + d <= n /\ d + c <= n
  BY <1>1, <1>2, <1>3, <1>6
<1> QED  BY <1>4, <1>5, <1>6, <1>7 DEF Within

LEMMA TravelKeeps ==
    ASSUME GenerationInv, EditInv, NEW p \in Tab, travel(p)
    PROVE  \E q : /\ Replaced(p, q)
                  /\ AllAccepted(page[p]) => AllAccepted(q)
<1>h. PICK held, now : /\ held = page[p]
                       /\ now = [roots |-> page[p].roots, operations |-> page[p].operations]
  OBVIOUS
<1>1. /\ EditPage(held) /\ PageRecord(held) /\ drawn \in Nat /\ HistoryLimit \in Nat
      /\ IsSeq(held.history) /\ IsSeq(held.future)
      /\ now.roots = held.roots /\ now.operations = held.operations
      /\ UNCHANGED <<draft, saves, drawn, commands>>
  BY <1>h, EditorConstants DEF EditInv, GenerationInv, PageInv, Stack, travel
<1>2. ASSUME NEW taken, NEW left, NEW right,
             page' = [page EXCEPT ![p] =
               [page[p] EXCEPT !.roots = taken.roots, !.operations = taken.operations,
                               !.history = left, !.future = right, !.typing = Nowhere]],
             StateOf(held, taken.roots, taken.operations),
             \A k \in DOMAIN left : StateOf(held, left[k].roots, left[k].operations),
             \A k \in DOMAIN right : StateOf(held, right[k].roots, right[k].operations),
             Len(left) + Len(right) <= HistoryLimit
      PROVE  \E q : Replaced(p, q) /\ (AllAccepted(page[p]) => AllAccepted(q))
  <2>1. PICK q : q = [page[p] EXCEPT !.roots = taken.roots, !.operations = taken.operations,
                                     !.history = left, !.future = right, !.typing = Nowhere]
    OBVIOUS
  <2>2. /\ q.base = held.base /\ q.loaded = held.loaded /\ q.reads = held.reads
        /\ q.roots = taken.roots /\ q.operations = taken.operations
        /\ q.history = left /\ q.future = right
    BY <1>1, <1>h, <2>1 DEF PageRecord
  <2>3. \A roots, ops : StateOf(q, roots, ops) => StateOf(held, roots, ops)
    <3> SUFFICES ASSUME NEW roots, NEW ops, StateOf(q, roots, ops)
                 PROVE  StateOf(held, roots, ops)
      OBVIOUS
    <3>1. \/ roots = taken.roots /\ ops = taken.operations
          \/ \E k \in DOMAIN left : roots = left[k].roots /\ ops = left[k].operations
          \/ \E k \in DOMAIN right : roots = right[k].roots /\ ops = right[k].operations
      BY <2>2 DEF StateOf
    <3> QED  BY <1>2, <3>1
  <2>4. Reading(q) /\ Len(q.history) + Len(q.future) <= HistoryLimit
    BY <1>1, <1>2, <2>2 DEF EditPage, Reading
  <2>5. EditPage(q) /\ (AllAccepted(held) => AllAccepted(q))
    BY <1>1, <2>2, <2>3, <2>4, SameStates
  <2>6. EditPage(q)'
    BY <1>1, <2>5, EditPageLater
  <2>7. drawn <= drawn' /\ commands' \in 0..MaxCommands
    BY <1>1 DEF EditInv, StoredInv
  <2>8. Replaced(p, q)
    BY <1>1, <1>2, <2>1, <2>6, <2>7 DEF Replaced
  <2> QED  BY <1>h, <2>5, <2>8
<1>3. CASE /\ page[p].history # <<>>
           /\ page' = [page EXCEPT ![p] =
                [page[p] EXCEPT !.roots = Last(page[p].history).roots,
                                !.operations = Last(page[p].history).operations,
                                !.history = Front(page[p].history),
                                !.future = Append(page[p].future, now), !.typing = Nowhere]]
  <2>1. PICK taken, left, right : /\ taken = Last(held.history)
                                  /\ left = Front(held.history)
                                  /\ right = Append(held.future, now)
    OBVIOUS
  <2>2. /\ Len(left) + Len(right) <= HistoryLimit
        /\ \E j \in DOMAIN held.history : taken = held.history[j]
        /\ \A k \in DOMAIN left : \E j \in DOMAIN held.history : left[k] = held.history[j]
        /\ \A k \in DOMAIN right : right[k] = now \/ \E j \in DOMAIN held.future :
                                                       right[k] = held.future[j]
    <3>1. PICK from, onto, n : from = held.history /\ onto = held.future /\ n = HistoryLimit
      OBVIOUS
    <3>2. IsSeq(from) /\ IsSeq(onto) /\ from # <<>> /\ n \in Nat
      BY <1>1, <1>3, <1>h, <3>1
    <3>3. Len(from) + Len(onto) <= n
      BY <1>1, <3>1 DEF EditPage
    <3>4. taken = Last(from) /\ left = Front(from) /\ right = Append(onto, now)
      BY <2>1, <3>1
    <3>5. /\ Len(left) + Len(right) <= n
          /\ \E j \in DOMAIN from : taken = from[j]
          /\ \A k \in DOMAIN left : \E j \in DOMAIN from : left[k] = from[j]
          /\ \A k \in DOMAIN right : right[k] = now \/ \E j \in DOMAIN onto : right[k] = onto[j]
      <4>1. PICK top, rest, more : /\ top = Last(from) /\ rest = Front(from)
                                   /\ more = Append(onto, now)
        OBVIOUS
      <4>2. Len(rest) + Len(more) <= n
        BY <3>2, <3>3, <4>1, TopTaken
      <4>3. Within(rest, from) /\ \E j \in DOMAIN from : top = from[j]
        BY <3>2, <4>1, FrontAndLast
      <4>4. \A k \in DOMAIN more : more[k] = now \/ \E j \in DOMAIN onto : more[k] = onto[j]
        BY <3>2, <4>1, Appended
      <4> QED  BY <3>4, <4>1, <4>2, <4>3, <4>4 DEF Within
    <3> QED  BY <3>1, <3>5
  <2>3. /\ StateOf(held, taken.roots, taken.operations)
        /\ \A k \in DOMAIN left : StateOf(held, left[k].roots, left[k].operations)
        /\ \A k \in DOMAIN right : StateOf(held, right[k].roots, right[k].operations)
    BY <1>1, <2>2 DEF StateOf
  <2>4. page' = [page EXCEPT ![p] =
               [page[p] EXCEPT !.roots = taken.roots, !.operations = taken.operations,
                               !.history = left, !.future = right, !.typing = Nowhere]]
    BY <1>3, <1>h, <2>1
  <2> QED  BY <1>2, <2>2, <2>3, <2>4
<1>4. CASE /\ page[p].future # <<>>
           /\ page' = [page EXCEPT ![p] =
                [page[p] EXCEPT !.roots = Last(page[p].future).roots,
                                !.operations = Last(page[p].future).operations,
                                !.future = Front(page[p].future),
                                !.history = Append(page[p].history, now), !.typing = Nowhere]]
  <2>1. PICK taken, left, right : /\ taken = Last(held.future)
                                  /\ left = Append(held.history, now)
                                  /\ right = Front(held.future)
    OBVIOUS
  <2>2. /\ Len(left) + Len(right) <= HistoryLimit
        /\ \E j \in DOMAIN held.future : taken = held.future[j]
        /\ \A k \in DOMAIN right : \E j \in DOMAIN held.future : right[k] = held.future[j]
        /\ \A k \in DOMAIN left : left[k] = now \/ \E j \in DOMAIN held.history :
                                                     left[k] = held.history[j]
    <3>1. PICK from, onto, n : from = held.future /\ onto = held.history /\ n = HistoryLimit
      OBVIOUS
    <3>2. IsSeq(from) /\ IsSeq(onto) /\ from # <<>> /\ n \in Nat
      BY <1>1, <1>4, <1>h, <3>1
    <3>3. Len(from) + Len(onto) <= n
      <4>1. PICK a, b : a = Len(from) /\ b = Len(onto)
        OBVIOUS
      <4>2. a \in Nat /\ b \in Nat
        BY <3>2, <4>1, Places
      <4>3. b + a <= n
        BY <1>1, <3>1, <4>1 DEF EditPage
      <4>4. a + b <= n
        BY <3>2, <4>2, <4>3
      <4> QED  BY <4>1, <4>4
    <3>4. taken = Last(from) /\ right = Front(from) /\ left = Append(onto, now)
      BY <2>1, <3>1
    <3>5. /\ Len(left) + Len(right) <= n
          /\ \E j \in DOMAIN from : taken = from[j]
          /\ \A k \in DOMAIN right : \E j \in DOMAIN from : right[k] = from[j]
          /\ \A k \in DOMAIN left : left[k] = now \/ \E j \in DOMAIN onto : left[k] = onto[j]
      BY <3>2, <3>3, <3>4, TopTaken
    <3> QED  BY <3>1, <3>5
  <2>3. /\ StateOf(held, taken.roots, taken.operations)
        /\ \A k \in DOMAIN left : StateOf(held, left[k].roots, left[k].operations)
        /\ \A k \in DOMAIN right : StateOf(held, right[k].roots, right[k].operations)
    BY <1>1, <2>2 DEF StateOf
  <2>4. page' = [page EXCEPT ![p] =
               [page[p] EXCEPT !.roots = taken.roots, !.operations = taken.operations,
                               !.history = left, !.future = right, !.typing = Nowhere]]
    BY <1>1, <1>4, <1>h, <2>1 DEF PageRecord
  <2> QED  BY <1>2, <2>2, <2>3, <2>4
<1> QED  BY <1>3, <1>4, <1>h DEF travel

LEMMA RequestKeeps ==
    ASSUME GenerationInv, EditInv, NEW p \in Tab, AskRoot(p) \/ AskPreview(p)
    PROVE  \E q : /\ Replaced(p, q)
                  /\ AllAccepted(page[p]) => AllAccepted(q)
<1>h. PICK held : held = page[p]
  OBVIOUS
<1>1. /\ EditPage(held) /\ PageRecord(held) /\ drawn \in Nat
  BY <1>h DEF EditInv, GenerationInv, PageInv
<1>2. PICK root :
        /\ Request(p, root)
        /\ root = Nowhere \/ root \in NodeIds(held.base)
        /\ ~Overlapping => /\ root # Nowhere => root \notin held.loaded
                           /\ \A r \in held.reads : r.root # root /\ r.root # Nowhere
                           /\ root = Nowhere => held.reads = {}
  <2>1. CASE AskRoot(p)
    <3>1. PICK i \in DOMAIN held.roots :
            /\ held.roots[i].id \notin held.loaded
            /\ ~Overlapping => {r \in held.reads : r.root \in {held.roots[i].id, Nowhere}} = {}
            /\ Request(p, held.roots[i].id)
      BY <1>h, <2>1 DEF AskRoot
    <3>2. held.roots[i].id \in NodeIds(held.base)
      <4>1. /\ NodeIds(held.roots) \subseteq NodeIds(held.base) \cup InsertedNodes(held.operations)
            /\ InsertedNodes(held.operations) \subseteq held.loaded
        BY <1>1 DEF EditPage, Keeps, Snap
      <4>2. held.roots[i].id \in NodeIds(held.roots)
        BY DEF NodeIds
      <4> QED  BY <3>1, <4>1, <4>2
    <3>3. held.roots[i].id # Nowhere
      BY <1>1, <3>2, UnitsAre DEF EditPage, Old, Nowhere
    <3> QED  BY <3>1, <3>2, <3>3
  <2>2. CASE AskPreview(p)
    BY <1>h, <2>2 DEF AskPreview
  <2> QED  BY <2>1, <2>2
<1>3. PICK reads, current, r0 :
        /\ r0 = [root |-> root, current |-> current]
        /\ reads = held.reads \cup {r0}
        /\ page' = [page EXCEPT ![p] = [page[p] EXCEPT !.loading = TRUE, !.reads = reads]]
  BY <1>2, <1>h DEF Request
<1>4. PICK q : q = [page[p] EXCEPT !.loading = TRUE, !.reads = reads]
  OBVIOUS
<1>5. /\ q.base = held.base /\ q.loaded = held.loaded /\ q.reads = reads
      /\ q.roots = held.roots /\ q.operations = held.operations
      /\ q.history = held.history /\ q.future = held.future
  BY <1>1, <1>h, <1>4 DEF PageRecord
<1>6. Reading(q)
  <2>1. Reading(held)
    BY <1>1 DEF EditPage
  <2>2. r0.root = root /\ \A r \in reads : r \in held.reads \/ r = r0
    BY <1>3
  <2> QED  BY <1>2, <1>5, <2>1, <2>2 DEF Reading
<1>7. EditPage(q) /\ (AllAccepted(held) => AllAccepted(q))
  <2>1. \A roots, ops : StateOf(q, roots, ops) => StateOf(held, roots, ops)
    BY <1>5 DEF StateOf
  <2>2. Len(q.history) + Len(q.future) <= HistoryLimit
    BY <1>1, <1>5 DEF EditPage
  <2> QED  BY <1>1, <1>5, <1>6, <2>1, <2>2, SameStates
<1>8. UNCHANGED <<draft, saves, drawn, commands>>
  BY <1>2 DEF Request
<1>9. EditPage(q)' /\ drawn' \in Nat /\ drawn <= drawn' /\ commands' \in 0..MaxCommands
  BY <1>1, <1>7, <1>8, EditPageLater DEF EditInv, StoredInv
<1>10. Replaced(p, q)
  BY <1>3, <1>4, <1>8, <1>9 DEF Replaced
<1> QED  BY <1>7, <1>10, <1>h

(***************************************************************************)
(* Nodes that arrive.                                                      *)
(***************************************************************************)
LEMMA HydratedIs ==
    ASSUME NEW sn, sn = [roots |-> sn.roots, operations |-> sn.operations],
           IsSeq(sn.operations), Spine(sn.roots),
           NEW base, Tree(base), NEW arriving, arriving \subseteq NodeIds(base)
    PROVE  LET h == Hydrated(sn, base, arriving)
           IN  /\ h.operations = sn.operations
               /\ SameNodes(h.roots, sn.roots)
               /\ \A i \in DOMAIN sn.roots :
                    h.roots[i] = IF sn.roots[i].id \in arriving
                                 THEN hydrate(NodeOf(base, sn.roots[i].id), sn.operations)
                                 ELSE sn.roots[i]
<1>r. PICK roots, ops : roots = sn.roots /\ ops = sn.operations
  OBVIOUS
<1> DEFINE w == [i \in DOMAIN roots |-> IF roots[i].id \in arriving
                                        THEN hydrate(NodeOf(base, roots[i].id), ops)
                                        ELSE roots[i]]
<1>0. Len(roots) \in Nat /\ DOMAIN roots = 1..Len(roots) /\ Spine(roots) /\ IsSeq(ops)
  BY <1>r, Places DEF Spine
<1>1. /\ DOMAIN w = DOMAIN roots
      /\ \A i \in DOMAIN roots : w[i] = IF roots[i].id \in arriving
                                        THEN hydrate(NodeOf(base, roots[i].id), ops)
                                        ELSE roots[i]
  OBVIOUS
<1>d. Hydrated(sn, base, arriving) = [sn EXCEPT !.roots = Each(w)]
  BY <1>r DEF Hydrated
<1>2. w = [k \in 1..Len(roots) |-> w[k]]
  <2>1. w = [k \in DOMAIN roots |-> w[k]]
    BY Zenon
  <2> HIDE DEF w
  <2> QED  BY <1>0, <2>1
<1> HIDE DEF w
<1>3. IsSeq(w) /\ Len(w) = Len(roots)
  BY <1>0, <1>2, SeqFrom
<1>4. Each(w) = w
  BY <1>3, EachIs
<1>5. ASSUME NEW k \in DOMAIN roots PROVE NodeRec(w[k]) /\ w[k].id = roots[k].id
  <2>1. CASE roots[k].id \in arriving
    <3>1. PICK i \in DOMAIN base : base[i].id = roots[k].id
      BY <2>1 DEF NodeIds
    <3>n. PICK n : n = NodeOf(base, roots[k].id)
      OBVIOUS
    <3>2. n = base[i] /\ NodeRec(n) /\ n.id = roots[k].id
      <4>1. NodeOf(base, base[i].id) = base[i]
        BY NodeAt DEF Tree
      <4> QED  BY <3>1, <3>n, <4>1 DEF Tree, Spine
    <3>3. w[k] = hydrate(n, ops)
      BY <1>1, <2>1, <3>n
    <3> QED  BY <1>0, <3>2, <3>3, HydrateKeeps
  <2>2. CASE roots[k].id \notin arriving
    BY <1>0, <1>1, <2>2 DEF Spine
  <2> QED  BY <2>1, <2>2
<1>6. SameNodes(w, roots)
  BY <1>1, <1>3, <1>5 DEF SameNodes
<1>7. PICK h : h = Hydrated(sn, base, arriving)
  OBVIOUS
<1>8. h.roots = w /\ h.operations = sn.operations
  <2>1. PICK a, b : sn = [roots |-> a, operations |-> b]
    OBVIOUS
  <2>2. h = [roots |-> w, operations |-> b]
    BY <1>4, <1>7, <1>d, <2>1
  <2> QED  BY <2>1, <2>2
<1> QED  BY <1>1, <1>6, <1>7, <1>8, <1>r

\* A node that arrives is what the replay has made of it.
LEMMA FaithHydrated ==
    ASSUME NEW base, NEW loaded, NEW roots, NEW ops, Faith(base, loaded, roots, ops),
           NEW arriving, arriving \cap loaded = {}, NEW c, SameNodes(c, roots),
           \A i \in DOMAIN roots :
             c[i] = IF roots[i].id \in arriving THEN hydrate(NodeOf(base, roots[i].id), ops)
                    ELSE roots[i]
    PROVE  Faith(base, loaded \cup arriving, c, ops)
<1>r. PICK r : r = replay(base, ops)
  OBVIOUS
<1>m. PICK more : more = loaded \cup arriving
  OBVIOUS
<1> SUFFICES ASSUME r.accepted
             PROVE  Match(c, r.roots, more) /\ Late(base, r.roots, ops, more)
  BY <1>r, <1>m DEF Faith
<1>1. Match(roots, r.roots, loaded) /\ Late(base, r.roots, ops, loaded)
  BY <1>r DEF Faith
<1>2. ASSUME NEW i \in DOMAIN r.roots PROVE Sees(c[i], r.roots[i], more)
  <2>1. /\ Sees(roots[i], r.roots[i], loaded) /\ i \in DOMAIN roots
        /\ roots[i].id = r.roots[i].id
        /\ NodeRec(c[i])
    BY <1>1 DEF Match, Sees, SameNodes
  <2>2. CASE roots[i].id \in arriving
    <3>1. r.roots[i].id \notin loaded
      BY <2>1, <2>2
    <3>2. c[i] = r.roots[i]
      BY <1>1, <2>1, <2>2, <3>1 DEF Late
    <3> QED  BY <1>m, <2>1, <2>2, <3>2 DEF Sees
  <2>3. CASE roots[i].id \notin arriving
    <3>1. c[i] = roots[i] /\ (r.roots[i].id \in more <=> r.roots[i].id \in loaded)
      BY <1>m, <2>1, <2>3
    <3> QED  BY <2>1, <3>1 DEF Sees
  <2> QED  BY <2>2, <2>3
<1>3. Match(c, r.roots, more)
  BY <1>1, <1>2 DEF Match, SameNodes
<1>4. Late(base, r.roots, ops, more)
  BY <1>1, <1>m DEF Late
<1> QED  BY <1>3, <1>4

LEMMA SnapHydrated ==
    ASSUME NEW base, Tree(base), NEW loaded, NEW d, NEW sn,
           sn = [roots |-> sn.roots, operations |-> sn.operations],
           Snap(base, loaded, d, sn.roots, sn.operations),
           NEW arriving, arriving \subseteq NodeIds(base),
           ~Overlapping => arriving \cap loaded = {},
           NEW h, h = Hydrated(sn, base, arriving)
    PROVE  /\ h.operations = sn.operations
           /\ Snap(base, loaded \cup arriving, d, h.roots, h.operations)
<1>1. IsSeq(sn.operations) /\ Spine(sn.roots)
  BY DEF Snap, Written
<1>2. /\ h.operations = sn.operations
      /\ SameNodes(h.roots, sn.roots)
      /\ \A i \in DOMAIN sn.roots :
           h.roots[i] = IF sn.roots[i].id \in arriving
                        THEN hydrate(NodeOf(base, sn.roots[i].id), sn.operations)
                        ELSE sn.roots[i]
  BY <1>1, HydratedIs
<1>3. Spine(h.roots) /\ NodeIds(h.roots) = NodeIds(sn.roots)
  BY <1>1, <1>2, SpineSame
<1>4. ASSUME ~Overlapping PROVE Faith(base, loaded \cup arriving, h.roots, h.operations)
  <2>1. PICK roots, ops, c : roots = sn.roots /\ ops = sn.operations /\ c = h.roots
    OBVIOUS
  <2>2. Faith(base, loaded, roots, ops) /\ arriving \cap loaded = {}
    BY <1>4, <2>1 DEF Snap
  <2>3. /\ SameNodes(c, roots)
        /\ \A i \in DOMAIN roots :
             c[i] = IF roots[i].id \in arriving THEN hydrate(NodeOf(base, roots[i].id), ops)
                    ELSE roots[i]
    BY <1>2, <2>1
  <2>4. Faith(base, loaded \cup arriving, c, ops)
    BY <2>2, <2>3, FaithHydrated
  <2> QED  BY <1>2, <2>1, <2>4
<1> QED  BY <1>2, <1>3, <1>4 DEF Snap

LEMMA ReadKeeps ==
    ASSUME GenerationInv, EditInv, NEW p \in Tab, Read(p)
    PROVE  \E q : /\ Replaced(p, q)
                  /\ AllAccepted(page[p]) => AllAccepted(q)
<1>h. PICK held : held = page[p]
  OBVIOUS
<1>1. /\ EditPage(held) /\ PageRecord(held) /\ drawn \in Nat
      /\ Stack(held.history, Free(held.generation)) /\ Stack(held.future, Free(held.generation))
  BY <1>h DEF EditInv, GenerationInv, PageInv
<1>0. PICK r \in held.reads : ReadArrives(p, r) \/ ReadFails(p, r)
  BY <1>h DEF Read
<1>u. UNCHANGED <<draft, drawn, saves, commands>>
  BY <1>0 DEF ReadArrives, ReadFails
<1>2. ASSUME NEW q, page' = [page EXCEPT ![p] = q], EditPage(q), AllAccepted(held) => AllAccepted(q)
      PROVE  \E x : Replaced(p, x) /\ (AllAccepted(page[p]) => AllAccepted(x))
  <2>1. EditPage(q)'
    BY <1>1, <1>2, <1>u, EditPageLater
  <2>2. drawn <= drawn' /\ drawn' \in Nat /\ commands' \in 0..MaxCommands
    BY <1>1, <1>u DEF EditInv, StoredInv
  <2>3. Replaced(p, q)
    BY <1>2, <1>u, <2>1, <2>2 DEF Replaced
  <2> QED  BY <1>2, <1>h, <2>3
<1>reads. PICK reads : reads = held.reads \ {r}
  OBVIOUS
<1>3. CASE ReadFails(p, r)
  <2>1. PICK q : /\ q = [held EXCEPT !.reads = reads, !.loading = FALSE]
                 /\ page' = [page EXCEPT ![p] = q]
    BY <1>3, <1>h, <1>reads DEF ReadFails
  <2>2. /\ q.base = held.base /\ q.loaded = held.loaded /\ q.reads = reads
        /\ q.roots = held.roots /\ q.operations = held.operations
        /\ q.history = held.history /\ q.future = held.future
    BY <1>1, <2>1 DEF PageRecord
  <2>3. Reading(q)
    <3>1. Reading(held) /\ \A s \in q.reads : s \in held.reads
      BY <1>1, <1>reads, <2>2 DEF EditPage
    <3> QED  BY <2>2, <3>1 DEF Reading
  <2>4. EditPage(q) /\ (AllAccepted(held) => AllAccepted(q))
    <3>1. \A roots, ops : StateOf(q, roots, ops) => StateOf(held, roots, ops)
      BY <2>2 DEF StateOf
    <3>2. Len(q.history) + Len(q.future) <= HistoryLimit
      BY <1>1, <2>2 DEF EditPage
    <3> QED  BY <1>1, <2>2, <2>3, <3>1, <3>2, SameStates
  <2> QED  BY <1>2, <2>1, <2>4
<1>4. CASE ReadArrives(p, r)
  <2>b. NodeIds(held.base) = {held.base[i].id : i \in DOMAIN held.base}
    BY DEF NodeIds
  <2>a. PICK arriving : arriving = IF r.root = Nowhere THEN NodeIds(held.base) \ held.loaded
                                   ELSE {r.root}
    OBVIOUS
  <2>s. PICK sn, now : /\ sn = [roots |-> held.roots, operations |-> held.operations]
                       /\ now = Hydrated(sn, held.base, arriving)
    OBVIOUS
  <2>l. PICK loaded : loaded = held.loaded \cup (IF r.root = Nowhere THEN NodeIds(held.base)
                                                 ELSE {r.root})
    OBVIOUS
  <2>h. PICK history, future :
          /\ history = [k \in DOMAIN held.history |->
                          Hydrated(held.history[k], held.base, arriving)]
          /\ future = [k \in DOMAIN held.future |->
                         Hydrated(held.future[k], held.base, arriving)]
    OBVIOUS
  <2>q. PICK q : q = [page[p] EXCEPT !.roots = now.roots, !.history = history, !.future = future,
                                     !.loaded = loaded, !.reads = reads, !.loading = FALSE]
    OBVIOUS
  <2>1. /\ q = [held EXCEPT !.roots = now.roots, !.history = history, !.future = future,
                            !.loaded = loaded, !.reads = reads, !.loading = FALSE]
        /\ page' = [page EXCEPT ![p] = q]
    <3> DEFINE all == {page[p].base[i].id : i \in DOMAIN page[p].base}
    <3>1. arriving = IF r.root = Nowhere THEN all \ page[p].loaded ELSE {r.root}
      BY <1>h, <2>a, <2>b
    <3>2. now.roots = Hydrated([roots |-> page[p].roots, operations |-> page[p].operations],
                               page[p].base, arriving).roots
      BY <1>h, <2>s
    <3>3. loaded = page[p].loaded \cup (IF r.root = Nowhere THEN all ELSE {r.root})
      BY <1>h, <2>l, <2>b
    <3>4. /\ history = [k \in DOMAIN page[p].history |->
                          Hydrated(page[p].history[k], page[p].base, arriving)]
          /\ future = [k \in DOMAIN page[p].future |->
                         Hydrated(page[p].future[k], page[p].base, arriving)]
      BY <1>h, <2>h
    <3>5. reads = page[p].reads \ {r}
      BY <1>h, <1>reads
    <3>6. page' = [page EXCEPT ![p] =
            [page[p] EXCEPT !.roots = now.roots, !.history = history, !.future = future,
                            !.loaded = loaded, !.reads = reads, !.loading = FALSE]]
      BY <1>4, <3>1, <3>2, <3>3, <3>4, <3>5 DEF ReadArrives
    <3> QED  BY <1>h, <2>q, <3>6
  <2>2. /\ q.base = held.base /\ q.loaded = loaded /\ q.reads = reads
        /\ q.roots = now.roots /\ q.operations = held.operations
        /\ q.history = history /\ q.future = future
    BY <1>1, <2>1 DEF PageRecord
  <2>3. /\ loaded = held.loaded \cup arriving
        /\ arriving \subseteq NodeIds(held.base)
        /\ ~Overlapping => arriving \cap held.loaded = {}
    <3>1. Reading(held)
      BY <1>1 DEF EditPage
    <3>2. /\ r.root # Nowhere => r.root \in NodeIds(held.base)
          /\ ~Overlapping /\ r.root # Nowhere => r.root \notin held.loaded
      BY <3>1 DEF Reading
    <3> QED  BY <2>a, <2>l, <3>2
  <2>4. Reading(q)
    <3>1. Reading(held)
      BY <1>1 DEF EditPage
    <3>2. ASSUME NEW s \in reads PROVE s \in held.reads /\ s # r
      BY <1>reads
    <3>3. \A s \in reads : s.root = Nowhere \/ s.root \in NodeIds(held.base)
      BY <3>1, <3>2 DEF Reading
    <3>4. ASSUME ~Overlapping, NEW s \in reads, s.root # Nowhere PROVE s.root \notin loaded
      <4>1. s.root \notin held.loaded
        BY <3>1, <3>2, <3>4 DEF Reading
      <4>2. r.root # Nowhere
        BY <3>1, <3>2, <3>4 DEF Reading
      <4>3. s.root # r.root
        BY <3>1, <3>2, <3>4 DEF Reading
      <4> QED  BY <2>l, <4>1, <4>2, <4>3
    <3>5. ASSUME ~Overlapping, NEW s \in reads, NEW t \in reads,
                 s.root = t.root \/ s.root = Nowhere
          PROVE  s = t
      BY <3>1, <3>2, <3>5 DEF Reading
    <3> QED  BY <2>2, <3>3, <3>4, <3>5 DEF Reading
  <2>5. ASSUME NEW x, x = [roots |-> x.roots, operations |-> x.operations],
               Keeps(held, x.roots, x.operations), NEW y, y = Hydrated(x, held.base, arriving)
        PROVE  y.operations = x.operations /\ Keeps(q, y.roots, y.operations)
    <3>1. Tree(held.base)
      BY <1>1 DEF EditPage
    <3>2. Snap(held.base, held.loaded, drawn, x.roots, x.operations)
      BY <2>5 DEF Keeps
    <3>b. PICK base, known : base = held.base /\ known = held.loaded
      OBVIOUS
    <3>3. /\ y.operations = x.operations
          /\ Snap(base, known \cup arriving, drawn, y.roots, y.operations)
      <4>1. /\ Tree(base) /\ arriving \subseteq NodeIds(base)
            /\ Snap(base, known, drawn, x.roots, x.operations)
            /\ y = Hydrated(x, base, arriving)
            /\ ~Overlapping => arriving \cap known = {}
        BY <2>3, <2>5, <3>1, <3>2, <3>b
      <4> QED  BY <2>5, <4>1, SnapHydrated
    <3> QED  BY <2>2, <2>3, <3>3, <3>b DEF Keeps
  <2>6. ASSUME NEW x, NEW ids, Snapshot(x, ids)
        PROVE  x = [roots |-> x.roots, operations |-> x.operations]
    BY <2>6 DEF Snapshot
  <2>7. now.operations = held.operations /\ Keeps(q, now.roots, now.operations)
    <3>1. /\ sn.roots = held.roots /\ sn.operations = held.operations
          /\ sn = [roots |-> sn.roots, operations |-> sn.operations]
      BY <2>s
    <3>2. Keeps(held, sn.roots, sn.operations)
      BY <1>1, <3>1 DEF EditPage
    <3> QED  BY <2>s, <2>5, <3>1, <3>2
  <2>8. /\ DOMAIN history = DOMAIN held.history /\ Len(history) = Len(held.history)
        /\ DOMAIN future = DOMAIN held.future /\ Len(future) = Len(held.future)
    <3>1. ASSUME NEW s, IsSeq(s), NEW t, t = [k \in DOMAIN s |-> Hydrated(s[k], held.base, arriving)]
          PROVE  DOMAIN t = DOMAIN s /\ Len(t) = Len(s)
      <4>1. Len(s) \in Nat /\ DOMAIN s = 1..Len(s)
        BY <3>1, Places
      <4>2. t = [k \in 1..Len(s) |-> Hydrated(s[k], held.base, arriving)]
        BY <3>1, <4>1
      <4>3. Len(t) = Len(s)
        BY <4>1, <4>2, SeqFrom
      <4> QED  BY <3>1, <4>3
    <3>2. IsSeq(held.history) /\ IsSeq(held.future)
      BY <1>1 DEF Stack
    <3> QED  BY <2>h, <3>1, <3>2
  <2>9. ASSUME NEW k \in DOMAIN history
        PROVE  /\ history[k].operations = held.history[k].operations
               /\ Keeps(q, history[k].roots, history[k].operations)
    <3>1. PICK x, y : x = held.history[k] /\ y = history[k]
      OBVIOUS
    <3>2. k \in DOMAIN held.history /\ y = Hydrated(x, held.base, arriving)
      BY <2>8, <2>h, <3>1
    <3>3. Keeps(held, x.roots, x.operations) /\ Snapshot(x, Free(held.generation))
      BY <1>1, <3>1, <3>2 DEF EditPage, Stack
    <3> QED  BY <2>5, <2>6, <3>1, <3>2, <3>3
  <2>10. ASSUME NEW k \in DOMAIN future
         PROVE  /\ future[k].operations = held.future[k].operations
                /\ Keeps(q, future[k].roots, future[k].operations)
    <3>1. PICK x, y : x = held.future[k] /\ y = future[k]
      OBVIOUS
    <3>2. k \in DOMAIN held.future /\ y = Hydrated(x, held.base, arriving)
      BY <2>8, <2>h, <3>1
    <3>3. Keeps(held, x.roots, x.operations) /\ Snapshot(x, Free(held.generation))
      BY <1>1, <3>1, <3>2 DEF EditPage, Stack
    <3> QED  BY <2>5, <2>6, <3>1, <3>2, <3>3
  <2>11. EditPage(q)
    <3>1. Len(q.history) + Len(q.future) <= HistoryLimit
      BY <1>1, <2>2, <2>8 DEF EditPage
    <3>2. Tree(q.base) /\ Units(q.base) \subseteq Old(drawn)
      BY <1>1, <2>2 DEF EditPage
    <3> QED  BY <2>2, <2>4, <2>7, <2>9, <2>10, <3>1, <3>2 DEF EditPage
  <2>12. AllAccepted(held) => AllAccepted(q)
    BY <2>2, <2>8, <2>9, <2>10 DEF AllAccepted
  <2> QED  BY <1>2, <2>1, <2>11, <2>12
<1> QED  BY <1>0, <1>3, <1>4

(***************************************************************************)
(* A page as the service renders it, and the steps of saving.              *)
(***************************************************************************)
LEMMA ProjectionIs ==
    ASSUME NEW roots, Tree(roots), NEW loaded
    PROVE  /\ Match(Projection(roots, loaded), roots, loaded)
           /\ Spine(Projection(roots, loaded))
           /\ NodeIds(Projection(roots, loaded)) = NodeIds(roots)
<1>c. PICK c : c = Projection(roots, loaded)
  OBVIOUS
<1>e. PICK e : e = <<>>
  OBVIOUS
<1>0. Len(roots) \in Nat /\ DOMAIN roots = 1..Len(roots) /\ Spine(roots)
  BY Places DEF Tree, Spine
<1>1. /\ DOMAIN c = DOMAIN roots
      /\ \A i \in DOMAIN roots : c[i] = IF roots[i].id \in loaded THEN roots[i]
                                        ELSE [roots[i] EXCEPT !.content = e]
  BY <1>c, <1>e DEF Projection
<1>2. IsSeq(c) /\ Len(c) = Len(roots)
  <2>1. c = [i \in 1..Len(roots) |-> c[i]]
    <3>1. c = [i \in DOMAIN c |-> c[i]]
      BY <1>c DEF Projection
    <3> QED  BY <1>0, <1>1, <3>1
  <2> QED  BY <1>0, <2>1, SeqFrom
<1>3. ASSUME NEW i \in DOMAIN roots PROVE Sees(c[i], roots[i], loaded)
  <2>1. PICK n, x : n = roots[i] /\ x = c[i]
    OBVIOUS
  <2>2. n = [id |-> n.id, tok |-> n.tok, val |-> n.val, content |-> n.content]
    BY <1>0, <2>1 DEF Spine, NodeRec
  <2>3. CASE n.id \in loaded
    <3>1. x = n
      BY <1>1, <2>1, <2>3
    <3> QED  BY <2>1, <2>2, <2>3, <3>1 DEF Sees, NodeRec
  <2>4. CASE n.id \notin loaded
    <3>1. x = [n EXCEPT !.content = e]
      BY <1>1, <2>1, <2>4
    <3>2. x = [id |-> n.id, tok |-> n.tok, val |-> n.val, content |-> e]
      BY <2>2, <3>1
    <3>3. NodeRec(x) /\ x.id = n.id /\ x.val = n.val /\ x.content = e
      BY <3>2 DEF NodeRec
    <3> QED  BY <1>e, <2>1, <2>4, <3>3 DEF Sees
  <2> QED  BY <2>3, <2>4
<1>4. Match(c, roots, loaded)
  BY <1>1, <1>2, <1>3 DEF Match
<1>5. Tree(c) /\ NodeIds(c) = NodeIds(roots)
  BY <1>4, MatchTree
<1> QED  BY <1>4, <1>5, <1>c DEF Tree

LEMMA OpenedEdit ==
    ASSUME drawn \in Nat, Tree(draft.roots), Units(draft.roots) \subseteq Old(drawn)
    PROVE  EditPage(Opened) /\ AllAccepted(Opened)
<1>q. PICK q, first :
        q = [base |-> draft.roots, generation |-> draft.generation,
             roots |-> Projection(draft.roots, {first}), operations |-> <<>>,
             history |-> <<>>, future |-> <<>>, loaded |-> {first},
             typing |-> Nowhere, reads |-> {}, loading |-> FALSE, submitted |-> FALSE]
        /\ q = Opened
  BY DEF Opened
<1>b. PICK base, loaded, roots, ops : /\ base = draft.roots /\ loaded = {first}
                                      /\ roots = Projection(base, loaded) /\ ops = <<>>
  OBVIOUS
<1>1. /\ q.base = base /\ q.loaded = loaded /\ q.roots = roots /\ q.operations = ops
      /\ q.history = ops /\ q.future = ops /\ q.reads = {}
  BY <1>q, <1>b
<1>2. IsSeq(ops) /\ DOMAIN ops = {} /\ Len(ops) = 0
  BY <1>b, EmptyIsSeq, EmptySeq
<1>3. Written(base, ops, drawn) /\ InsertedNodes(ops) = {}
  BY <1>2 DEF Written, InsertedNodes
<1>4. Match(roots, base, loaded) /\ Spine(roots) /\ NodeIds(roots) = NodeIds(base)
  BY <1>b, ProjectionIs
<1>5. replay(base, ops) = [accepted |-> TRUE, roots |-> base]
  BY <1>b, ReplayNothing
<1>6. Late(base, base, ops, loaded)
  <2>1. \A i \in DOMAIN base : IsNode(base, base[i].id) /\ NodeOf(base, base[i].id) = base[i]
    BY <1>b, NodeAt DEF Tree
  <2>2. \A n : hydrate(n, ops) = n
    BY <1>b, HydrateNothing
  <2> QED  BY <2>1, <2>2 DEF Late
<1>7. Faith(base, loaded, roots, ops)
  BY <1>4, <1>5, <1>6 DEF Faith
<1>8. Keeps(q, q.roots, q.operations)
  <2>1. Snap(base, loaded, drawn, roots, ops)
    BY <1>3, <1>4, <1>7 DEF Snap
  <2> QED  BY <1>1, <2>1 DEF Keeps
<1>9. Reading(q)
  BY <1>1 DEF Reading
<1>10. Len(q.history) + Len(q.future) <= HistoryLimit
  <2>1. PICK limit \in Nat : limit = HistoryLimit
    BY EditorConstants
  <2>2. 0 + 0 <= limit
    BY <2>1
  <2> QED  BY <1>1, <1>2, <2>1, <2>2
<1>11. EditPage(q)
  BY <1>1, <1>2, <1>8, <1>9, <1>10, <1>b DEF EditPage
<1>12. AllAccepted(q)
  BY <1>1, <1>2, <1>5 DEF AllAccepted
<1> QED  BY <1>11, <1>12, <1>q

LEMMA ReloadKeeps ==
    ASSUME GenerationInv, EditInv, NEW p \in Tab, Reload(p)
    PROVE  \E q : Replaced(p, q) /\ AllAccepted(q)
<1>1. PICK q : q = Opened
  OBVIOUS
<1>2. page' = [page EXCEPT ![p] = q] /\ UNCHANGED <<draft, saves, drawn, commands>>
  BY <1>1 DEF Reload
<1>3. drawn \in Nat /\ commands \in 0..MaxCommands
  BY DEF GenerationInv, EditInv, StoredInv
<1>4. EditPage(q) /\ AllAccepted(q)
  BY <1>1, <1>3, OpenedEdit DEF EditInv, StoredInv
<1>5. drawn' \in Nat /\ drawn <= drawn' /\ commands' \in 0..MaxCommands
  BY <1>2, <1>3
<1>6. EditPage(q)'
  BY <1>3, <1>4, <1>5, EditPageLater
<1>7. Replaced(p, q)
  BY <1>2, <1>5, <1>6 DEF Replaced
<1> QED  BY <1>4, <1>7

LEMMA EditInit ==
    ASSUME Init
    PROVE  EditInv /\ \A p \in Tab : AllAccepted(page[p])
<1>1. /\ draft = [roots |-> Source, generation |-> 0, ids |-> {}, open |-> TRUE]
      /\ saves = {} /\ drawn = 0 /\ commands = 0
      /\ page = [p \in Tab |-> Opened]
  BY DEF Init
<1>2. draft.roots = Source /\ draft.generation = 0
  BY <1>1
<1>3. Tree(draft.roots)
  BY <1>2, SourceIsADraft, DraftParts DEF Tree
<1>4. Units(draft.roots) \subseteq Old(drawn)
  <2>1. ASSUME NEW u \in Units(Source) PROVE u \in Old(0)
    <3>1. u \in Nat \ {0}
      BY SourceIsADraft
    <3> QED  BY <3>1 DEF Old
  <2> QED  BY <1>1, <1>2, <2>1
<1>5. StoredInv
  <2>1. MaxCommands \in Nat /\ MaxSaves \in Nat
    BY EditorConstants
  <2> QED  BY <1>1, <1>2, <1>3, <1>4, <2>1 DEF StoredInv
<1>6. EditPage(Opened) /\ AllAccepted(Opened)
  BY <1>1, <1>3, <1>4, OpenedEdit
<1>7. \A p \in Tab : page[p] = Opened
  BY <1>1
<1> QED  BY <1>1, <1>5, <1>6, <1>7 DEF EditInv

LEMMA SubmitKeeps ==
    ASSUME GenerationInv, EditInv, NEW p \in Tab, Submit(p)
    PROVE  /\ EditInv'
           /\ \A t \in Tab : AllAccepted(page[t]) => AllAccepted(page'[t])
<1>h. PICK held : held = page[p]
  OBVIOUS
<1>1. PICK save, nth :
        /\ save = [expectedGeneration |-> held.generation, operations |-> held.operations,
                   shown |-> held.roots, loaded |-> held.loaded]
        /\ saves' = saves \cup {[save |-> save, nth |-> nth]}
  BY <1>h DEF Submit
<1>2. PICK q : /\ q = [held EXCEPT !.submitted = TRUE]
               /\ page' = [page EXCEPT ![p] = q]
  BY <1>h DEF Submit
<1>3. UNCHANGED <<draft, drawn, commands>>
  BY DEF Submit
<1>4. EditPage(held) /\ PageInv(held) /\ drawn \in Nat
  BY <1>h DEF GenerationInv, EditInv
<1>5. /\ q.base = held.base /\ q.loaded = held.loaded /\ q.reads = held.reads
      /\ q.roots = held.roots /\ q.operations = held.operations
      /\ q.history = held.history /\ q.future = held.future
  BY <1>2, <1>4 DEF PageInv, PageRecord
<1>6. EditPage(q) /\ (AllAccepted(held) => AllAccepted(q))
  <2>1. Reading(q)
    BY <1>4, <1>5 DEF EditPage, Reading
  <2>2. \A roots, ops : StateOf(q, roots, ops) => StateOf(held, roots, ops)
    BY <1>5 DEF StateOf
  <2>3. Len(q.history) + Len(q.future) <= HistoryLimit
    BY <1>4, <1>5 DEF EditPage
  <2> QED  BY <1>4, <1>5, <2>1, <2>2, <2>3, SameStates
<1>7. ShownInv(save)
  <2>1. /\ save.expectedGeneration = held.generation /\ save.operations = held.operations
        /\ save.shown = held.roots /\ save.loaded = held.loaded
    BY <1>1
  <2> SUFFICES ASSUME held.generation = draft.generation
               PROVE  /\ Written(draft.roots, held.operations, drawn)
                      /\ Accepted(draft.roots, held.operations) =>
                           Match(held.roots, replay(draft.roots, held.operations).roots, held.loaded)
    BY <2>1 DEF ShownInv
  <2>2. held.base = draft.roots
    BY <1>4 DEF PageInv
  <2>3. Snap(draft.roots, held.loaded, drawn, held.roots, held.operations)
    BY <1>4, <2>2 DEF EditPage, Keeps
  <2> QED  BY <2>3 DEF Snap, Accepted, Faith
<1>8. \A t \in Tab : page'[t] = IF t = p THEN q ELSE page[t]
  BY <1>2 DEF GenerationInv
<1>9. \A x : (EditPage(x) => EditPage(x)') /\ (ShownInv(x) => ShownInv(x)')
  <2>1. drawn' \in Nat /\ drawn <= drawn'
    BY <1>3, <1>4
  <2>2. \A x : EditPage(x) => EditPage(x)'
    BY <1>4, <2>1, EditPageLater
  <2> QED  BY <1>3, <2>2 DEF ShownInv
<1>10. ASSUME NEW t \in Tab PROVE EditPage(page[t])'
  <2>1. EditPage(page'[t])
    BY <1>6, <1>8 DEF EditInv
  <2> QED  BY <1>9, <2>1
<1>11. ASSUME NEW s \in saves' PROVE ShownInv(s.save)'
  <2>1. ShownInv(s.save)
    BY <1>1, <1>7 DEF EditInv
  <2> QED  BY <1>9, <2>1
<1>12. StoredInv'
  BY <1>3 DEF EditInv, StoredInv
<1>13. EditInv'
  BY <1>10, <1>11, <1>12 DEF EditInv
<1> QED  BY <1>6, <1>8, <1>13, <1>h

LEMMA AcceptKeeps ==
    ASSUME GenerationInv, EditInv, NEW s \in saves, Accept(s)
    PROVE  EditInv'
<1>1. PICK save : save = s.save
  OBVIOUS
<1>2. /\ save.expectedGeneration = draft.generation
      /\ replay(draft.roots, save.operations).accepted
      /\ draft.generation < MaxSaves
      /\ draft' = [roots |-> replay(draft.roots, save.operations).roots,
                   generation |-> draft.generation + 1,
                   ids |-> draft.ids \cup Ids(save.operations), open |-> TRUE]
      /\ saves' = saves \ {s}
      /\ UNCHANGED <<page, drawn, commands>>
  BY <1>1 DEF Accept, Acceptable
<1>3. /\ draft'.roots = replay(draft.roots, save.operations).roots
      /\ draft'.generation = draft.generation + 1
  BY <1>2
<1>4. drawn \in Nat /\ draft.generation \in Nat
  BY DEF GenerationInv
<1>5. Written(draft.roots, save.operations, drawn) /\ Tree(draft.roots)
      /\ Units(draft.roots) \subseteq Old(drawn)
  BY <1>1, <1>2 DEF EditInv, StoredInv, ShownInv
<1>6. PICK roots, ops : roots = draft.roots /\ ops = save.operations
  OBVIOUS
<1>7. Tree(draft'.roots) /\ From(draft'.roots, roots, ops, Len(ops))
  <2>1. PICK r : r = replay(roots, ops)
    OBVIOUS
  <2>2. r.accepted /\ draft'.roots = r.roots
    BY <1>2, <1>3, <1>6, <2>1
  <2>3. Tree(r.roots) /\ From(r.roots, roots, ops, Len(ops))
    BY <1>4, <1>5, <1>6, <2>1, <2>2, ReplayTree
  <2> QED  BY <2>2, <2>3
<1>8. ASSUME NEW u \in Units(draft'.roots) PROVE u \in Old(drawn)
  <2>1. CASE u \in Units(roots)
    BY <1>5, <1>6, <2>1
  <2>2. CASE \E k \in 1..Len(ops) : u = NewUnit(ops[k].id)
    <3>1. PICK k \in 1..Len(ops) : u = NewUnit(ops[k].id)
      BY <2>2
    <3>2. ops[k].id \in 1..drawn
      <4>1. IsSeq(ops)
        BY <1>5, <1>6 DEF Written
      <4>2. k \in DOMAIN ops
        BY <4>1, Places
      <4> QED  BY <1>5, <1>6, <4>2 DEF Written
    <3>3. PICK n \in 1..drawn : n = ops[k].id
      BY <3>2
    <3> QED  BY <1>4, <3>1, <3>3 DEF NewUnit, Old
  <2> QED  BY <1>7, <2>1, <2>2 DEF From
<1>9. StoredInv'
  <2>1. draft'.generation \in 0..MaxSaves
    <3>1. MaxSaves \in Nat
      BY EditorConstants
    <3> QED  BY <1>2, <1>3, <1>4, <3>1
  <2> QED  BY <1>2, <1>7, <1>8, <2>1 DEF EditInv, StoredInv
<1>10. ASSUME NEW x \in saves' PROVE ShownInv(x.save)'
  <2>1. x.save.expectedGeneration \in 0..draft.generation
    BY <1>2 DEF GenerationInv, SaveInv
  <2>2. x.save.expectedGeneration # draft'.generation
    BY <1>3, <1>4, <2>1
  <2> QED  BY <2>2 DEF ShownInv
<1>11. ASSUME NEW t \in Tab PROVE EditPage(page[t])'
  <2>1. EditPage(page[t]) /\ drawn' \in Nat /\ drawn <= drawn' /\ page' = page
    BY <1>2, <1>4 DEF EditInv
  <2> QED  BY <1>4, <2>1, EditPageLater
<1> QED  BY <1>9, <1>10, <1>11 DEF EditInv

LEMMA CommandKeeps ==
    ASSUME GenerationInv, EditInv, NEW p \in Tab, Command(p)
    PROVE  \E q : /\ Replaced(p, q)
                  /\ ~Overlapping /\ (Divide(p) => FirstIsLoaded(p)) /\ AllAccepted(page[p])
                       => AllAccepted(q)
<1>1. drawn \in Nat /\ EditPage(page[p])
  BY DEF GenerationInv, EditInv
<1>2. CASE Type(p) \/ Retitle(p) \/ Join(p) \/ Insert(p) \/ Discard(p) \/ moveSelected(p)
  <2>1. Builds(p, TRUE)
    BY <1>1, <1>2, TypeBuilds, RetitleBuilds, JoinBuilds, InsertBuilds, DiscardBuilds, MoveBuilds
  <2> QED  BY <2>1, TransactionKeeps
<1>3. CASE Divide(p)
  <2>1. PICK sound : sound = FirstIsLoaded(p)
    OBVIOUS
  <2>2. Builds(p, sound)
    BY <1>1, <1>3, <2>1, DivideBuilds
  <2>3. PICK q : Replaced(p, q) /\ (sound /\ ~Overlapping /\ AllAccepted(page[p]) => AllAccepted(q))
    BY <2>2, TransactionKeeps
  <2> QED  BY <1>3, <2>1, <2>3
<1> QED  BY <1>2, <1>3 DEF Command

\* No page divides a sentence while the first node of the draft is a stub.
FirstIsKnown == \A p \in Tab : Divide(p) => FirstIsLoaded(p)

ListsAreAccepted == \A p \in Tab : AllAccepted(page[p])

LEMMA EditStep ==
    ASSUME GenerationInv, EditInv, [Next]_vars
    PROVE  /\ EditInv'
           /\ ~Overlapping /\ FirstIsKnown /\ ListsAreAccepted => ListsAreAccepted'
<1>1. ASSUME NEW p \in Tab, NEW q, Replaced(p, q),
             ~Overlapping /\ (Divide(p) => FirstIsLoaded(p)) /\ AllAccepted(page[p])
               => AllAccepted(q)
      PROVE  /\ EditInv'
             /\ ~Overlapping /\ FirstIsKnown /\ ListsAreAccepted => ListsAreAccepted'
  <2>1. EditInv'
    BY <1>1, EditReplaced DEF Replaced
  <2>2. \A t \in Tab : page'[t] = IF t = p THEN q ELSE page[t]
    BY <1>1 DEF Replaced, GenerationInv
  <2>3. ASSUME ~Overlapping, FirstIsKnown, ListsAreAccepted, NEW t \in Tab
        PROVE  AllAccepted(page'[t])
    <3>1. AllAccepted(q) /\ AllAccepted(page[t])
      BY <1>1, <2>3 DEF FirstIsKnown, ListsAreAccepted
    <3> QED  BY <2>2, <3>1
  <2> QED  BY <2>1, <2>3 DEF ListsAreAccepted
<1>2. ASSUME NEW p \in Tab, Command(p)
      PROVE  /\ EditInv'
             /\ ~Overlapping /\ FirstIsKnown /\ ListsAreAccepted => ListsAreAccepted'
  BY <1>1, <1>2, CommandKeeps
<1>3. ASSUME NEW p \in Tab, travel(p) \/ AskRoot(p) \/ AskPreview(p) \/ Read(p) \/ Reload(p)
      PROVE  /\ EditInv'
             /\ ~Overlapping /\ FirstIsKnown /\ ListsAreAccepted => ListsAreAccepted'
  BY <1>1, <1>3, TravelKeeps, RequestKeeps, ReadKeeps, ReloadKeeps
<1>4. ASSUME NEW p \in Tab, Submit(p)
      PROVE  EditInv' /\ (ListsAreAccepted => ListsAreAccepted')
  BY <1>4, SubmitKeeps DEF ListsAreAccepted
<1>5. ASSUME NEW s \in saves, Accept(s)
      PROVE  EditInv' /\ (ListsAreAccepted => ListsAreAccepted')
  <2>1. page' = page
    BY <1>5 DEF Accept
  <2> QED  BY <1>5, <2>1, AcceptKeeps DEF ListsAreAccepted
<1>6. ASSUME UNCHANGED <<page, drawn, commands>>, saves' \subseteq saves,
             draft'.roots = draft.roots, draft'.generation = draft.generation
      PROVE  EditInv' /\ (ListsAreAccepted => ListsAreAccepted')
  <2>1. drawn \in Nat /\ drawn' \in Nat /\ drawn <= drawn'
    BY <1>6 DEF GenerationInv
  <2>2. ASSUME NEW t \in Tab PROVE EditPage(page[t])'
    BY <1>6, <2>1, EditPageLater DEF EditInv
  <2>3. ASSUME NEW s \in saves' PROVE ShownInv(s.save)'
    BY <1>6 DEF EditInv, ShownInv
  <2>4. StoredInv'
    BY <1>6 DEF EditInv, StoredInv
  <2> QED  BY <1>6, <2>2, <2>3, <2>4 DEF EditInv, ListsAreAccepted
<1>7. ASSUME NEW s \in saves, Refuse(s)
      PROVE  UNCHANGED <<page, draft, drawn, commands>> /\ saves' \subseteq saves
  BY <1>7 DEF Refuse
<1>8. CASE Close
  BY <1>6, <1>8, CloseKeeps
<1>9. CASE UNCHANGED vars
  BY <1>6, <1>9 DEF vars
<1> QED  BY <1>2, <1>3, <1>4, <1>5, <1>6, <1>7, <1>8, <1>9 DEF Next

(***************************************************************************)
(* The theorems.                                                           *)
(***************************************************************************)
\* The pages, their snapshots and the saves in flight are what the stored draft and their
\* lists of operations make of them.
THEOREM EditInvariant == Spec => []EditInv
<1>1. Init => EditInv
  BY EditInit
<1>2. GenerationInv /\ EditInv /\ [Next]_vars => EditInv'
  BY EditStep
<1> QED  BY <1>1, <1>2, GenerationInvariant, PTL DEF Spec

\* The state of the pages and of the draft is well formed: the nodes of a page have distinct
\* ids, its operations were drawn, and its two stacks hold no more than the limit.
THEOREM TypeCorrect == Spec => []TypeOK
<1>1. GenerationInv /\ EditInv => TypeOK
  <2> SUFFICES ASSUME GenerationInv, EditInv PROVE TypeOK
    OBVIOUS
  <2>1. /\ commands \in 0..MaxCommands /\ drawn \in Nat
        /\ draft.generation \in 0..MaxSaves /\ draft.ids \subseteq 1..drawn
    BY DEF GenerationInv, EditInv, StoredInv
  <2>2. ASSUME NEW p \in Tab
        PROVE  /\ page[p].generation <= draft.generation
               /\ Len(page[p].history) <= HistoryLimit + Len(page[p].future)
               /\ \A i, j \in DOMAIN page[p].roots :
                    page[p].roots[i].id = page[p].roots[j].id => i = j
               /\ Ids(page[p].operations) \subseteq 1..drawn
    <3>1. PageInv(page[p]) /\ EditPage(page[p])
      BY DEF GenerationInv, EditInv
    <3>2. page[p].generation <= draft.generation
      BY <2>1, <3>1 DEF PageInv
    <3>3. Len(page[p].history) <= HistoryLimit + Len(page[p].future)
      <4>1. PICK m, n : m = Len(page[p].history) /\ n = Len(page[p].future)
        OBVIOUS
      <4>2. m \in Nat /\ n \in Nat
        BY <3>1, <4>1, Places DEF PageInv, Stack
      <4>3. PICK limit \in Nat : limit = HistoryLimit
        BY EditorConstants
      <4>4. m + n <= limit
        BY <3>1, <4>1, <4>3 DEF EditPage
      <4>5. m <= limit + n
        BY <4>2, <4>4
      <4> QED  BY <4>1, <4>3, <4>5
    <3>4. \A i, j \in DOMAIN page[p].roots : page[p].roots[i].id = page[p].roots[j].id => i = j
      BY <3>1 DEF EditPage, Keeps, Snap, Spine
    <3>5. Ids(page[p].operations) \subseteq 1..drawn
      BY <3>1 DEF PageInv, Listed, Free
    <3> QED  BY <3>2, <3>3, <3>4, <3>5
  <2> QED  BY <2>1, <2>2 DEF TypeOK
<1> QED  BY <1>1, GenerationInvariant, EditInvariant, PTL

\* An accepted save stores what its author saw when the form was sent, in every node the page
\* had loaded: by whatever commands, undone or redone or not, on whichever page, before or
\* after however many late reads, and whatever else was saved or sent again in between.
THEOREM SavedAsShown == ASSUME ~Overlapping PROVE Spec => SavedIsWhatWasShown
<1> DEFINE Stored == draft' # draft => \A s \in saves \ saves' :
                       Known(draft'.roots, s.save.loaded) = Known(s.save.shown, s.save.loaded)
<1>1. GenerationInv /\ EditInv /\ [Next]_vars => Stored
  <2> SUFFICES ASSUME GenerationInv, EditInv, [Next]_vars, draft' # draft PROVE Stored
    OBVIOUS
  <2>a. SUFFICES ASSUME ~Close PROVE Stored
    BY CloseKeeps
  <2>1. PICK s \in saves : Accept(s) /\ saves' = saves \ {s}
    BY <2>a, SavesKeep
  <2>2. PICK save, r : save = s.save /\ r = replay(draft.roots, save.operations)
    OBVIOUS
  <2>3. /\ save.expectedGeneration = draft.generation
        /\ r.accepted /\ draft'.roots = r.roots
    BY <2>1, <2>2 DEF Accept, Acceptable
  <2>4. /\ Written(draft.roots, save.operations, drawn)
        /\ Match(save.shown, r.roots, save.loaded)
    BY <2>2, <2>3 DEF EditInv, ShownInv, Accepted
  <2>5. Tree(r.roots)
    BY <2>2, <2>3, <2>4, ReplayTree DEF EditInv, StoredInv, GenerationInv
  <2>6. Known(draft'.roots, save.loaded) = Known(save.shown, save.loaded)
    <3>1. PICK shown, loaded : shown = save.shown /\ loaded = save.loaded
      OBVIOUS
    <3>2. Known(shown, loaded) = Known(r.roots, loaded)
      BY <2>4, <2>5, <3>1, MatchIsKnown
    <3> QED  BY <2>3, <3>1, <3>2
  <2>7. saves \ saves' = {s}
    BY <2>1
  <2> QED  BY <2>2, <2>6, <2>7
<1>2. Spec => [][Stored]_vars
  BY <1>1, GenerationInvariant, EditInvariant, PTL DEF Spec
<1> QED  BY <1>2 DEF SavedIsWhatWasShown

\* As long as the first node of the draft is loaded whenever a sentence is divided, every
\* operation of a page, and of every state it can go back or forth to, is pinned to the
\* tree that the service will replay it on: no list fails at one of its operations. The tree
\* the whole list gives may still be refused, for a reference to a unit it has removed.
THEOREM EveryListIsAccepted ==
    ASSUME ~Overlapping PROVE Spec /\ [][FirstIsKnown]_vars => []ListsAreAccepted
<1>1. Init => ListsAreAccepted
  BY EditInit DEF ListsAreAccepted
<1>2. GenerationInv /\ EditInv /\ ListsAreAccepted /\ [Next]_vars /\ [FirstIsKnown]_vars
        => ListsAreAccepted'
  <2> SUFFICES ASSUME GenerationInv, EditInv, ListsAreAccepted, [Next]_vars, [FirstIsKnown]_vars
               PROVE  ListsAreAccepted'
    OBVIOUS
  <2>1. CASE FirstIsKnown
    BY <2>1, EditStep
  <2>2. CASE UNCHANGED vars
    BY <2>2 DEF vars, ListsAreAccepted
  <2> QED  BY <2>1, <2>2
<1> QED  BY <1>1, <1>2, GenerationInvariant, EditInvariant, PTL DEF Spec

\* What the author sees in a state whose list replays to its end.
TakenIsShown ==
    \A p \in Tab : \A roots, ops :
      StateOf(page[p], roots, ops) /\ replay(page[p].base, ops).accepted =>
        Known(roots, page[p].loaded)
          = Known(replay(page[p].base, ops).roots, page[p].loaded)

\* Whatever its author does, a page shows, in every node it has loaded and in every state
\* that undo and redo can bring back, the replay of each list that replays to its end.
THEOREM CanvasShowsWhatIsTaken == ASSUME ~Overlapping PROVE Spec => []TakenIsShown
<1>1. GenerationInv /\ EditInv => TakenIsShown
  <2> SUFFICES ASSUME GenerationInv, EditInv, NEW p \in Tab, NEW roots, NEW ops,
                      StateOf(page[p], roots, ops), replay(page[p].base, ops).accepted
               PROVE  Known(roots, page[p].loaded)
                        = Known(replay(page[p].base, ops).roots, page[p].loaded)
    BY DEF TakenIsShown
  <2>1. EditPage(page[p]) /\ drawn \in Nat
    BY DEF GenerationInv, EditInv
  <2>2. Keeps(page[p], roots, ops)
    BY <2>1 DEF EditPage, StateOf
  <2>3. PICK base, loaded, r : /\ base = page[p].base /\ loaded = page[p].loaded
                               /\ r = replay(base, ops)
    OBVIOUS
  <2>4. Written(base, ops, drawn) /\ Faith(base, loaded, roots, ops) /\ r.accepted /\ Tree(base)
    BY <2>1, <2>2, <2>3 DEF Keeps, Snap, EditPage
  <2>5. Tree(r.roots) /\ Match(roots, r.roots, loaded)
    BY <2>1, <2>3, <2>4, ReplayTree DEF Faith
  <2>6. Known(roots, loaded) = Known(r.roots, loaded)
    BY <2>5, MatchIsKnown
  <2> QED  BY <2>3, <2>6
<1> QED  BY <1>1, GenerationInvariant, EditInvariant, PTL

\* As long as the first node is loaded whenever a sentence is divided, what the author sees
\* is what the service will make of the operations, in every node the page has loaded, now
\* and in every state that undo and redo can bring back.
THEOREM CanvasShowsTheReplay ==
    ASSUME ~Overlapping PROVE Spec /\ [][FirstIsKnown]_vars => []CanvasIsTheReplay
<1>1. TakenIsShown /\ ListsAreAccepted => CanvasIsTheReplay
  <2> SUFFICES ASSUME TakenIsShown, ListsAreAccepted, NEW p \in Tab
               PROVE  /\ IsReplayOf(p, page[p])
                      /\ \A k \in DOMAIN page[p].history : IsReplayOf(p, page[p].history[k])
                      /\ \A k \in DOMAIN page[p].future : IsReplayOf(p, page[p].future[k])
    BY DEF CanvasIsTheReplay
  <2>1. AllAccepted(page[p])
    BY DEF ListsAreAccepted
  <2>2. ASSUME NEW sn, StateOf(page[p], sn.roots, sn.operations),
               replay(page[p].base, sn.operations).accepted
        PROVE  IsReplayOf(p, sn)
    BY <2>2 DEF IsReplayOf, TakenIsShown
  <2>3. /\ StateOf(page[p], page[p].roots, page[p].operations)
        /\ \A k \in DOMAIN page[p].history :
             StateOf(page[p], page[p].history[k].roots, page[p].history[k].operations)
        /\ \A k \in DOMAIN page[p].future :
             StateOf(page[p], page[p].future[k].roots, page[p].future[k].operations)
    BY DEF StateOf
  <2> QED  BY <2>1, <2>2, <2>3 DEF AllAccepted
<1> QED  BY <1>1, CanvasShowsWhatIsTaken, EveryListIsAccepted, PTL

\* As long as the first node is loaded whenever a sentence is divided, an open session
\* refuses a save only after it has accepted another one, or because the tree the list gives
\* refers to a unit it has not: whatever the pages of the session save, and however often
\* (StructuredDraftService.save: generation, operation ids, expected revisions, final tree).
THEOREM RefusedOnlyWhenOvertaken ==
    ASSUME ~Overlapping PROVE Spec /\ [][FirstIsKnown]_vars => []SaveRefusedOnlyWhenOvertaken
<1>1. ListsAreAccepted => ListIsPinned
  BY DEF ListsAreAccepted, AllAccepted, ListIsPinned
<1> QED  BY <1>1, EveryListIsAccepted, PinnedSavesAreAccepted, PTL
=============================================================================
