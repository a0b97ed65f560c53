------------------------ MODULE ChangeRecords_proofs ------------------------
(***************************************************************************)
(* Proofs about ChangeRecords for every set of records, legal versions,    *)
(* snapshots and concurrent requests, and every bound on revisions.        *)
(*                                                                         *)
(* Every step keeps the quote a record shows its readers or publishes it   *)
(* anew (QuoteStep).  From that: the flags the unique indexes are over     *)
(* agree with published_revision_id (PinInv); the correction that overtook *)
(* a quote is in the outbox, and a refresh under way has read enough to    *)
(* flag it (FlagInv); and what a diff review passed is still the tip of    *)
(* the locked record when it is published (LockInv).                       *)
(***************************************************************************)
EXTENDS ChangeRecords, SequenceTheorems, TLAPS

(***************************************************************************)
(* The chain of one record.                                                *)
(***************************************************************************)
\* Setting flags keeps a chain a chain, and every quote in it.
LEMMA MarkPublishedFacts ==
    ASSUME NEW revs \in Seq(Revision), NEW n
    PROVE  /\ MarkPublished(revs, n) \in Seq(Revision)
           /\ Len(MarkPublished(revs, n)) = Len(revs)
           /\ \A i \in 1..Len(revs) :
                /\ SamePins(MarkPublished(revs, n)[i], revs[i])
                /\ MarkPublished(revs, n)[i].publishedTip = (i = n)
<1> DEFINE m == MarkPublished(revs, n)
<1>1. Len(revs) \in Nat /\ DOMAIN revs = 1..Len(revs)
  BY LenProperties
<1>2. ASSUME NEW i \in 1..Len(revs)
      PROVE  /\ m[i] \in Revision
             /\ SamePins(m[i], revs[i])
             /\ m[i].publishedTip = (i = n)
  <2> DEFINE e == revs[i]
  <2>1. e \in Revision
    BY ElementOfSeq
  <2>2. m[i] = [e EXCEPT !.publishedTip = (i = n)]
    BY <1>1 DEF MarkPublished
  <2> HIDE DEF e, m
  <2>3. m[i] \in Revision /\ m[i].source = e.source /\ m[i].target = e.target
    BY <2>1, <2>2 DEF Revision
  <2>4. m[i].publishedTip = (i = n)
    BY <2>1, <2>2 DEF Revision
  <2> QED  BY <2>3, <2>4 DEF SamePins, e
<1>3. m \in [1..Len(revs) -> Revision]
  BY <1>1, <1>2 DEF MarkPublished
<1>4. m \in Seq(Revision)
  BY <1>1, <1>3, SeqDef
<1>5. Len(m) = Len(revs)
  BY <1>1, <1>3, <1>4, LenProperties
<1> QED  BY <1>2, <1>4, <1>5

LEMMA WithdrawnFacts ==
    ASSUME NEW revs \in Seq(Revision)
    PROVE  /\ Withdrawn(revs) \in Seq(Revision)
           /\ Len(Withdrawn(revs)) = Len(revs)
           /\ \A i \in 1..Len(revs) : /\ SamePins(Withdrawn(revs)[i], revs[i])
                                      /\ ~Withdrawn(revs)[i].publishedTip
<1>1. Len(revs) \in Nat /\ DOMAIN revs = 1..Len(revs)
  BY LenProperties
<1>2. \A i \in 1..Len(revs) : (i = 0) = FALSE
  BY <1>1
<1>3. Withdrawn(revs) = MarkPublished(revs, 0)
  BY <1>1, <1>2 DEF Withdrawn, MarkPublished
<1>4. /\ Withdrawn(revs) \in Seq(Revision)
      /\ Len(Withdrawn(revs)) = Len(revs)
      /\ \A i \in 1..Len(revs) : /\ SamePins(Withdrawn(revs)[i], revs[i])
                                 /\ Withdrawn(revs)[i].publishedTip = (i = 0)
  BY <1>3, MarkPublishedFacts
<1>5. \A i \in 1..Len(revs) : ~Withdrawn(revs)[i].publishedTip
  BY <1>2, <1>4, Zenon
<1> QED  BY <1>4, <1>5

LEMMA AppendedFacts ==
    ASSUME NEW r \in Record,
           revisions[r] \in Seq(Revision), revisions[r] # <<>>,
           NEW s \in Opt(Version), NEW t \in Opt(Version), NEW n \in 1..MaxRevisions
    PROVE  /\ Appended(r, s, t, n) \in Seq(Revision)
           /\ Len(Appended(r, s, t, n)) = Len(revisions[r]) + 1
           /\ \A i \in 1..Len(revisions[r]) : Appended(r, s, t, n)[i] = revisions[r][i]
           /\ ~Appended(r, s, t, n)[Len(revisions[r]) + 1].publishedTip
<1> DEFINE e == [source |-> Coalesce(s, TipOf(r).source), target |-> Coalesce(t, TipOf(r).target),
                 wording |-> n, publishedTip |-> FALSE]
<1>1. Len(revisions[r]) \in 1..Len(revisions[r])
  BY EmptySeq, LenProperties
<1>2. TipOf(r) \in Revision
  BY <1>1, ElementOfSeq DEF TipOf
<1>3. e \in Revision
  BY <1>2 DEF Revision, Coalesce, Opt
<1>4. Appended(r, s, t, n) = Append(revisions[r], e)
  BY DEF Appended
<1>5. ~e.publishedTip
  OBVIOUS
<1> HIDE DEF e
<1> QED  BY <1>3, <1>4, <1>5, LenProperties

(***************************************************************************)
(* Types.                                                                  *)
(***************************************************************************)
\* A request that names a record names one that exists.
NamesRecord(q) == q.phase \in {"linking", "confirming", "publishing"}

RecordsExist ==
    /\ \A r \in Record : status[r] = None => revisions[r] = <<>>
    /\ \A w \in Worker : request[w] # None /\ NamesRecord(request[w]) =>
                            status[request[w].record] # None

TInv == TypeOK /\ RecordsExist

LEMMA TypeInit == Init => TInv
BY BoundAssumption DEF Init, TInv, TypeOK, RecordsExist, Opt

LEMMA ChainType ==
    ASSUME TypeOK, NEW r \in Record
    PROVE  /\ revisions[r] \in Seq(Revision)
           /\ Len(revisions[r]) \in Nat
           /\ \A i \in 1..Len(revisions[r]) : revisions[r][i] \in Revision
           /\ publishedRevision[r] \in 0..Len(revisions[r])
           /\ status[r] # None => TipOf(r) \in Revision
           /\ publishedRevision[r] # 0 => PublishedOf(r) \in Revision /\ revisions[r] # <<>>
<1>1. revisions[r] \in Seq(Revision) /\ publishedRevision[r] \in Nat
      /\ publishedRevision[r] <= Len(revisions[r])
  BY DEF TypeOK
<1>2. Len(revisions[r]) \in Nat /\ \A i \in 1..Len(revisions[r]) : revisions[r][i] \in Revision
  BY <1>1, ElementOfSeq, LenProperties
<1>3. revisions[r] # <<>> => Len(revisions[r]) \in 1..Len(revisions[r])
  BY <1>1, <1>2, EmptySeq
<1>4. status[r] # None => revisions[r] # <<>>
  BY DEF TypeOK
<1>5. publishedRevision[r] # 0 => revisions[r] # <<>>
  <2> SUFFICES ASSUME revisions[r] = <<>> PROVE publishedRevision[r] = 0
    OBVIOUS
  <2>1. Len(revisions[r]) = 0
    BY EmptySeq
  <2> QED  BY <1>1, <2>1
<1> QED  BY <1>1, <1>2, <1>3, <1>4, <1>5 DEF TipOf, PublishedOf

LEMMA LiveTipType ==
    ASSUME TypeOK, NEW v \in Opt(Version)
    PROVE  LiveTip(v) \in Opt(Version)
BY LawAssumption DEF TypeOK, LiveTip, Opt

\* Requests keep their type when one of them begins, goes on or ends.
LEMMA RequestType ==
    ASSUME TypeOK, NEW w \in Worker, NEW q \in Opt(Request),
           request' = [request EXCEPT ![w] = q]
    PROVE  request' \in [Worker -> Opt(Request)]
BY DEF TypeOK

LEMMA RequestFields ==
    ASSUME TypeOK, NEW w \in Worker, request[w] # None
    PROVE  /\ request[w] \in Request
           /\ NamesRecord(request[w]) => request[w].record \in Record
           /\ request[w].phase \in {"linking", "confirming"} =>
                /\ request[w].source \in Opt(Version)
                /\ request[w].target \in Opt(Version)
                /\ request[w].wording \in 1..MaxRevisions
           /\ request[w].phase \in {"refreshing", "marking"} => request[w].event \in Version
           /\ request[w].phase = "refreshing" => request[w].live \in Version
           /\ request[w].phase = "marking" => request[w].flagged \subseteq Record
<1>1. request[w] \in Request
  BY DEF TypeOK, Opt
<1> QED  BY <1>1 DEF Request, NamesRecord

\* Nothing but its own row changes when one record is published.
LEMMA PublishType ==
    ASSUME TInv, NEW r \in Record, NEW revs \in Seq(Revision), revs # <<>>,
           Len(revs) <= MaxRevisions, Publish(r, revs)
    PROVE  /\ revisions' \in [Record -> Seq(Revision)]
           /\ publishedRevision' \in [Record -> Nat]
           /\ status' \in [Record -> Opt({"draft", "published", "withdrawn"})]
           /\ review' \in [Record -> {"ok", "needs_review"}]
           /\ quotedTips' \in [Record -> BOOLEAN]
           /\ \A q \in Record : /\ publishedRevision'[q] <= Len(revisions'[q])
                                /\ Len(revisions'[q]) <= MaxRevisions
                                /\ revisions'[q] = <<>> => status'[q] = None
                                /\ status'[q] = None => revisions'[q] = <<>>
                                /\ status[q] # None => status'[q] # None
<1> DEFINE m == MarkPublished(revs, Len(revs))
<1>1. m \in Seq(Revision) /\ Len(m) = Len(revs)
  BY MarkPublishedFacts
<1>2. Len(revs) \in Nat /\ m # <<>>
  BY <1>1, EmptySeq
<1>3. revisions' = [revisions EXCEPT ![r] = m]
  BY DEF Publish
<1>4. publishedRevision' = [publishedRevision EXCEPT ![r] = Len(revs)]
  BY DEF Publish
<1>5. status' = [status EXCEPT ![r] = "published"]
  BY DEF Publish
<1>6. review' = [review EXCEPT ![r] = ReviewAfter(r, revs[Len(revs)])]
      /\ ReviewAfter(r, revs[Len(revs)]) \in {"ok", "needs_review"}
  BY DEF Publish, ReviewAfter, TInv, TypeOK
<1>7. quotedTips' \in [Record -> BOOLEAN]
  <2>1. QuotesTips(revs[Len(revs)]) \in BOOLEAN
    BY DEF QuotesTips, IsLiveTip
  <2>2. quotedTips[r] \in BOOLEAN /\ quotedTips \in [Record -> BOOLEAN]
    BY DEF TInv, TypeOK
  <2>3. PICK b \in BOOLEAN : quotedTips' = [quotedTips EXCEPT ![r] = b]
    <3>1. CASE Public(r) /\ SamePins(PublishedOf(r), revs[Len(revs)])
      BY <2>2, <3>1 DEF Publish
    <3>2. CASE ~(Public(r) /\ SamePins(PublishedOf(r), revs[Len(revs)]))
      BY <2>1, <3>2 DEF Publish
    <3> QED  BY <3>1, <3>2
  <2> QED  BY <2>2, <2>3
<1> HIDE DEF m
<1>8. "published" # None
  BY NoneAssumption
<1>9. /\ revisions \in [Record -> Seq(Revision)]
      /\ publishedRevision \in [Record -> Nat]
      /\ status \in [Record -> Opt({"draft", "published", "withdrawn"})]
      /\ review \in [Record -> {"ok", "needs_review"}]
  BY DEF TInv, TypeOK
<1>10. /\ revisions' \in [Record -> Seq(Revision)]
       /\ publishedRevision' \in [Record -> Nat]
       /\ status' \in [Record -> Opt({"draft", "published", "withdrawn"})]
       /\ review' \in [Record -> {"ok", "needs_review"}]
  BY <1>1, <1>2, <1>3, <1>4, <1>5, <1>6, <1>9 DEF Opt
<1>11. ASSUME NEW q \in Record
       PROVE  /\ publishedRevision'[q] <= Len(revisions'[q])
              /\ Len(revisions'[q]) <= MaxRevisions
              /\ revisions'[q] = <<>> => status'[q] = None
              /\ status'[q] = None => revisions'[q] = <<>>
              /\ status[q] # None => status'[q] # None
  <2>1. CASE q = r
    BY <1>1, <1>2, <1>3, <1>4, <1>5, <1>8, <1>9, <2>1
  <2>2. CASE q # r
    BY <1>3, <1>4, <1>5, <1>9, <2>2 DEF TInv, TypeOK, RecordsExist
  <2> QED  BY <2>1, <2>2
<1> QED  BY <1>7, <1>10, <1>11

\* What a step has to establish, when it changes one request at most.
LEMMA RequestStep ==
    ASSUME TInv, NEW w \in Worker, NEW q \in Opt(Request),
           request' = [request EXCEPT ![w] = q],
           q # None /\ NamesRecord(q) => status[q.record] # None,
           \A r \in Record : status[r] # None => status'[r] # None
    PROVE  /\ request' \in [Worker -> Opt(Request)]
           /\ \A x \in Worker : request'[x] # None /\ NamesRecord(request'[x]) =>
                                   status'[request'[x].record] # None
<1>1. request' \in [Worker -> Opt(Request)]
  BY RequestType DEF TInv
<1>2. ASSUME NEW x \in Worker, request'[x] # None, NamesRecord(request'[x])
      PROVE  status'[request'[x].record] # None
  <2>1. status[request'[x].record] # None
    BY <1>2 DEF TInv, TypeOK, RecordsExist
  <2>2. request'[x] \in Request
    BY <1>1, <1>2 DEF Opt
  <2>3. request'[x].record \in Record
    BY <1>2, <2>2 DEF Request, NamesRecord
  <2> QED  BY <2>1, <2>3
<1> QED  BY <1>1, <1>2

LEMMA FinishStep ==
    ASSUME TInv, NEW w \in Worker, Finish(w),
           \A r \in Record : status[r] # None => status'[r] # None
    PROVE  /\ request' \in [Worker -> Opt(Request)]
           /\ \A x \in Worker : request'[x] # None /\ NamesRecord(request'[x]) =>
                                   status'[request'[x].record] # None
BY RequestStep DEF Finish, Opt

LEMMA TypeStep == TInv /\ [Next]_vars => TInv'
<1> SUFFICES ASSUME TInv, [Next]_vars PROVE TInv'
  OBVIOUS
<1>t. TypeOK /\ RecordsExist
  BY DEF TInv
<1>1. ASSUME NEW v \in Version, PublishVersion(v)
      PROVE  TInv'
  <2>1. tip' \in [Law -> Opt(Version)] /\ published' \subseteq Version /\ events' \subseteq published'
    BY <1>t, <1>1 DEF PublishVersion, TypeOK, Opt
  <2> QED  BY <1>t, <1>1, <2>1 DEF PublishVersion, amendments, TInv, TypeOK, RecordsExist
<1>2. ASSUME NEW r \in Record, NEW source \in Opt(Version), NEW target \in Opt(Version),
             NEW exactLinks \in BOOLEAN, CreateAmendment(r, source, target, exactLinks)
      PROVE  TInv'
  <2> DEFINE e == [source |-> source, target |-> target, wording |-> 1, publishedTip |-> FALSE]
  <2>1. e \in Revision
    BY BoundAssumption DEF Revision
  <2>2. /\ revisions' = [revisions EXCEPT ![r] = <<e>>]
        /\ status' = [status EXCEPT ![r] = "draft"]
        /\ publishedRevision[r] = 0
    <3>1. revisions[r] = <<>>
      BY <1>t, <1>2 DEF CreateAmendment, RecordsExist
    <3>2. Len(revisions[r]) = 0
      BY <3>1, EmptySeq
    <3> QED  BY <1>t, <1>2, <3>2, ChainType DEF CreateAmendment
  <2> HIDE DEF e
  <2>3. /\ <<e>> \in Seq(Revision) /\ Len(<<e>>) = 1 /\ <<e>> # <<>>
    BY <2>1
  <2>4. /\ revisions' \in [Record -> Seq(Revision)]
        /\ status' \in [Record -> Opt({"draft", "published", "withdrawn"})]
    BY <1>t, <2>2, <2>3 DEF TypeOK, Opt
  <2>5. "draft" # None /\ 1 <= MaxRevisions
    BY NoneAssumption, BoundAssumption
  <2>6. ASSUME NEW q \in Record
        PROVE  /\ publishedRevision[q] <= Len(revisions'[q])
               /\ Len(revisions'[q]) <= MaxRevisions
               /\ status'[q] # None => revisions'[q] # <<>>
               /\ status'[q] = None => revisions'[q] = <<>>
               /\ status[q] # None => status'[q] # None
    BY <1>t, <2>2, <2>3, <2>5 DEF TypeOK, RecordsExist
  <2>7. snapshotReview' \in [Record -> BOOLEAN]
    <3>1. (target # None \/ exactLinks) \in BOOLEAN
      OBVIOUS
    <3> QED  BY <1>t, <1>2, <3>1 DEF CreateAmendment, TypeOK
  <2>8. RecordsExist'
    <3>1. ASSUME NEW w \in Worker, request[w] # None, NamesRecord(request[w])
          PROVE  status'[request[w].record] # None
      BY <1>t, <2>6, <3>1, RequestFields DEF RecordsExist
    <3> QED  BY <1>2, <2>6, <3>1 DEF CreateAmendment, RecordsExist, NamesRecord
  <2> QED  BY <1>t, <1>2, <2>4, <2>6, <2>7, <2>8 DEF CreateAmendment, catalog, TInv, TypeOK
<1>a. ASSUME NEW r \in Record, NEW a \in Seq(Revision),
             Len(a) = Len(revisions[r]) + 1, Len(revisions[r]) < MaxRevisions,
             status[r] # None, revisions' = [revisions EXCEPT ![r] = a],
             UNCHANGED <<catalog, amendments>>
      PROVE  TypeOK' <=> request' \in [Worker -> Opt(Request)]
  <2>1. Len(revisions[r]) \in Nat /\ publishedRevision[r] \in 0..Len(revisions[r])
    BY <1>t, ChainType
  <2>2. a # <<>> /\ Len(a) <= MaxRevisions /\ publishedRevision[r] <= Len(a)
    BY <1>a, <2>1, BoundAssumption, EmptySeq
  <2>3. revisions' \in [Record -> Seq(Revision)]
    BY <1>t, <1>a DEF TypeOK
  <2>4. ASSUME NEW q \in Record
        PROVE  /\ publishedRevision[q] <= Len(revisions'[q])
               /\ Len(revisions'[q]) <= MaxRevisions
               /\ status[q] # None => revisions'[q] # <<>>
    BY <1>t, <1>a, <2>2 DEF TypeOK
  <2> QED  BY <1>t, <1>a, <2>3, <2>4 DEF catalog, amendments, TypeOK
<1>b. ASSUME NEW r \in Record, NEW a, status[r] # None, revisions' = [revisions EXCEPT ![r] = a],
             status' = status
      PROVE  \A q \in Record : status'[q] = None => revisions'[q] = <<>>
  BY <1>t, <1>b DEF TypeOK, RecordsExist
<1>3. ASSUME NEW r \in Record, NEW source \in Opt(Version), NEW target \in Opt(Version),
             AppendRevision(r, source, target)
      PROVE  TInv'
  <2> DEFINE n == Len(revisions[r]) + 1
             a == Appended(r, source, target, n)
  <2>1. n \in 1..MaxRevisions /\ revisions[r] \in Seq(Revision) /\ revisions[r] # <<>>
    BY <1>t, <1>3, ChainType, BoundAssumption DEF AppendRevision, TypeOK
  <2>2. a \in Seq(Revision) /\ Len(a) = Len(revisions[r]) + 1
    BY <2>1, AppendedFacts
  <2>3. revisions' = [revisions EXCEPT ![r] = a]
    BY <1>3 DEF AppendRevision
  <2>4. TypeOK'
    BY <1>t, <1>3, <1>a, <2>2, <2>3 DEF AppendRevision, TypeOK
  <2>5. RecordsExist'
    BY <1>t, <1>3, <1>b, <2>3 DEF AppendRevision, amendments, RecordsExist, NamesRecord
  <2> QED  BY <2>4, <2>5 DEF TInv
<1>c. ASSUME NEW w \in Worker, NEW q \in Opt(Request), request' = [request EXCEPT ![w] = q],
             q # None /\ NamesRecord(q) => status[q.record] # None,
             UNCHANGED <<catalog, amendments, revisions>>
      PROVE  TInv'
  <2>1. /\ request' \in [Worker -> Opt(Request)]
        /\ \A x \in Worker : request'[x] # None /\ NamesRecord(request'[x]) =>
                                status'[request'[x].record] # None
    BY <1>c, RequestStep DEF amendments
  <2> QED  BY <1>t, <1>c, <2>1 DEF catalog, amendments, TInv, TypeOK, RecordsExist, NamesRecord
<1>4. ASSUME NEW w \in Worker, NEW r \in Record, NEW source \in Opt(Version), NEW target \in Version,
             BeginLink(w, r, source, target)
      PROVE  TInv'
  <2> DEFINE q == [phase |-> "linking", record |-> r, source |-> Coalesce(source, TipOf(r).source),
                   target |-> target, wording |-> TipOf(r).wording]
  <2>1. status[r] # None /\ TipOf(r) \in Revision
    BY <1>t, <1>4, ChainType, NoneAssumption DEF BeginLink
  <2>2. q \in Request /\ q.record = r
    BY <2>1 DEF Request, Revision, Coalesce, Opt
  <2>3. request' = [request EXCEPT ![w] = q] /\ UNCHANGED <<catalog, amendments, revisions>>
    BY <1>4 DEF BeginLink, Begin
  <2> HIDE DEF q
  <2> QED  BY <1>c, <2>1, <2>2, <2>3 DEF Opt
<1>5. ASSUME NEW w \in Worker, NEW r \in Record, BeginPublish(w, r)
      PROVE  TInv'
  <2> DEFINE q == [phase |-> "publishing", record |-> r]
  <2>1. q \in Request /\ q.record = r
    BY DEF Request
  <2>2. /\ request' = [request EXCEPT ![w] = q] /\ UNCHANGED <<catalog, amendments, revisions>>
        /\ status[r] # None
    BY <1>5 DEF BeginPublish, Begin
  <2> HIDE DEF q
  <2> QED  BY <1>c, <2>1, <2>2 DEF Opt
<1>6. ASSUME NEW w \in Worker, NEW r \in Record, BeginConfirm(w, r)
      PROVE  TInv'
  <2> DEFINE q == [phase |-> "confirming", record |-> r, source |-> LiveTip(PublishedOf(r).source),
                   target |-> LiveTip(PublishedOf(r).target), wording |-> PublishedOf(r).wording]
  <2>1. PublishedOf(r) \in Revision /\ revisions[r] # <<>>
    BY <1>t, <1>6, ChainType DEF BeginConfirm
  <2>2. status[r] # None
    BY <1>t, <2>1 DEF RecordsExist
  <2>3. /\ LiveTip(PublishedOf(r).source) \in Opt(Version)
        /\ LiveTip(PublishedOf(r).target) \in Opt(Version)
        /\ PublishedOf(r).wording \in 1..MaxRevisions
    BY <1>t, <2>1, LiveTipType DEF Revision
  <2>4. q \in Request /\ q.record = r
    BY <2>3 DEF Request
  <2>5. request' = [request EXCEPT ![w] = q] /\ UNCHANGED <<catalog, amendments, revisions>>
    BY <1>6 DEF BeginConfirm, Begin
  <2> HIDE DEF q
  <2> QED  BY <1>c, <2>2, <2>4, <2>5 DEF Opt
<1>7. ASSUME NEW w \in Worker, CommitLink(w)
      PROVE  TInv'
  <2> DEFINE q == request[w]
             r == q.record
             a == Appended(r, q.source, q.target, q.wording)
  <2>1. /\ r \in Record /\ status[r] # None /\ q.wording \in 1..MaxRevisions
        /\ q.source \in Opt(Version) /\ q.target \in Opt(Version)
    BY <1>t, <1>7, RequestFields DEF CommitLink, RecordsExist, NamesRecord
  <2>2. revisions[r] \in Seq(Revision) /\ revisions[r] # <<>>
    BY <1>t, <2>1, ChainType DEF TypeOK
  <2>3. a \in Seq(Revision) /\ Len(a) = Len(revisions[r]) + 1
    BY <2>1, <2>2, AppendedFacts
  <2>4. /\ revisions' = [revisions EXCEPT ![r] = a] /\ Len(revisions[r]) < MaxRevisions
        /\ UNCHANGED <<catalog, amendments>> /\ Finish(w)
    BY <1>7 DEF CommitLink
  <2>5. /\ request' \in [Worker -> Opt(Request)]
        /\ \A x \in Worker : request'[x] # None /\ NamesRecord(request'[x]) =>
                                status'[request'[x].record] # None
    BY <2>4, FinishStep DEF amendments
  <2> HIDE DEF a, q
  <2>6. TypeOK'
    BY <1>a, <2>1, <2>3, <2>4, <2>5
  <2>7. RecordsExist'
    BY <1>b, <2>1, <2>4, <2>5 DEF amendments, RecordsExist, NamesRecord
  <2> QED  BY <2>6, <2>7 DEF TInv
<1>8. ASSUME NEW w \in Worker, EndRequest(w)
      PROVE  TInv'
  BY <1>8, <1>c DEF EndRequest, Finish, Opt
<1>d. ASSUME NEW w \in Worker, NEW r \in Record, NEW revs \in Seq(Revision), revs # <<>>,
             Len(revs) <= MaxRevisions, Publish(r, revs), Finish(w),
             UNCHANGED <<catalog, snapshotReview>>
      PROVE  TInv'
  <2>1. /\ revisions' \in [Record -> Seq(Revision)]
        /\ publishedRevision' \in [Record -> Nat]
        /\ status' \in [Record -> Opt({"draft", "published", "withdrawn"})]
        /\ review' \in [Record -> {"ok", "needs_review"}]
        /\ quotedTips' \in [Record -> BOOLEAN]
        /\ \A q \in Record : /\ publishedRevision'[q] <= Len(revisions'[q])
                             /\ Len(revisions'[q]) <= MaxRevisions
                             /\ revisions'[q] = <<>> => status'[q] = None
                             /\ status'[q] = None => revisions'[q] = <<>>
                             /\ status[q] # None => status'[q] # None
    BY <1>d, PublishType
  <2>2. /\ request' \in [Worker -> Opt(Request)]
        /\ \A x \in Worker : request'[x] # None /\ NamesRecord(request'[x]) =>
                                status'[request'[x].record] # None
    BY <1>d, <2>1, FinishStep
  <2> QED  BY <1>t, <1>d, <2>1, <2>2 DEF catalog, TInv, TypeOK, RecordsExist, NamesRecord
<1>9. ASSUME NEW w \in Worker, CommitPublish(w)
      PROVE  TInv'
  <2> DEFINE r == request[w].record
  <2>1. r \in Record /\ status[r] # None
    BY <1>t, <1>9, RequestFields DEF CommitPublish, RecordsExist, NamesRecord
  <2>2. revisions[r] \in Seq(Revision) /\ revisions[r] # <<>> /\ Len(revisions[r]) <= MaxRevisions
    BY <1>t, <2>1, ChainType DEF TypeOK
  <2>3. Publish(r, revisions[r]) /\ Finish(w) /\ UNCHANGED <<catalog, snapshotReview>>
    BY <1>9 DEF CommitPublish
  <2> HIDE DEF r
  <2> QED  BY <1>d, <2>1, <2>2, <2>3
<1>10. ASSUME NEW w \in Worker, CommitConfirm(w)
       PROVE  TInv'
  <2> DEFINE q == request[w]
             r == q.record
             a == Appended(r, q.source, q.target, q.wording)
  <2>1. /\ r \in Record /\ status[r] # None /\ q.wording \in 1..MaxRevisions
        /\ q.source \in Opt(Version) /\ q.target \in Opt(Version)
    BY <1>t, <1>10, RequestFields DEF CommitConfirm, RecordsExist, NamesRecord
  <2>2. revisions[r] \in Seq(Revision) /\ revisions[r] # <<>> /\ Len(revisions[r]) \in Nat
    BY <1>t, <2>1, ChainType DEF TypeOK
  <2>3. a \in Seq(Revision) /\ Len(a) = Len(revisions[r]) + 1
    BY <2>1, <2>2, AppendedFacts
  <2>4. /\ Len(revisions[r]) < MaxRevisions /\ Publish(r, a)
        /\ Finish(w) /\ UNCHANGED <<catalog, snapshotReview>>
    BY <1>10 DEF CommitConfirm
  <2>5. a # <<>> /\ Len(a) <= MaxRevisions
    BY <2>2, <2>3, <2>4, BoundAssumption, EmptySeq
  <2> HIDE DEF a, q
  <2> QED  BY <1>d, <2>1, <2>3, <2>4, <2>5
<1>11. ASSUME NEW r \in Record, WithdrawAmendment(r)
       PROVE  TInv'
  <2> DEFINE a == Withdrawn(revisions[r])
  <2>1. revisions[r] \in Seq(Revision) /\ revisions[r] # <<>> /\ status[r] # None
    BY <1>t, <1>11 DEF WithdrawAmendment, TypeOK
  <2>2. a \in Seq(Revision) /\ Len(a) = Len(revisions[r]) /\ a # <<>>
    BY <2>1, WithdrawnFacts, EmptySeq
  <2>3. revisions' = [revisions EXCEPT ![r] = a] /\ status' = [status EXCEPT ![r] = "withdrawn"]
    BY <1>t, <1>11 DEF WithdrawAmendment, TypeOK
  <2> HIDE DEF a
  <2>4. "withdrawn" # None
    BY NoneAssumption
  <2>5. /\ revisions' \in [Record -> Seq(Revision)]
        /\ status' \in [Record -> Opt({"draft", "published", "withdrawn"})]
    BY <1>t, <2>2, <2>3 DEF TypeOK, Opt
  <2>6. ASSUME NEW q \in Record
        PROVE  /\ publishedRevision[q] <= Len(revisions'[q])
               /\ Len(revisions'[q]) <= MaxRevisions
               /\ status'[q] # None => revisions'[q] # <<>>
               /\ status'[q] = None => revisions'[q] = <<>>
               /\ status[q] # None => status'[q] # None
    BY <1>t, <2>2, <2>3, <2>4 DEF TypeOK, RecordsExist
  <2>7. RecordsExist'
    <3>1. ASSUME NEW w \in Worker, request[w] # None, NamesRecord(request[w])
          PROVE  status'[request[w].record] # None
      BY <1>t, <2>6, <3>1, RequestFields DEF RecordsExist
    <3> QED  BY <1>11, <2>6, <3>1 DEF WithdrawAmendment, RecordsExist, NamesRecord
  <2> QED  BY <1>t, <1>11, <2>5, <2>6, <2>7 DEF WithdrawAmendment, catalog, TInv, TypeOK
<1>12. ASSUME NEW w \in Worker, NEW v \in Version, BeginRefresh(w, v)
       PROVE  TInv'
  <2> DEFINE q == [phase |-> "refreshing", event |-> v, live |-> LiveTip(v)]
  <2>1. LiveTip(v) \in Version
    BY <1>t, LawAssumption DEF LiveTip, TypeOK, Opt
  <2>2. q \in Request /\ ~NamesRecord(q)
    BY <2>1 DEF Request, NamesRecord
  <2>3. request' = [request EXCEPT ![w] = q] /\ UNCHANGED <<catalog, amendments, revisions>>
    BY <1>12 DEF BeginRefresh, Begin
  <2> HIDE DEF q
  <2> QED  BY <1>c, <2>2, <2>3 DEF Opt
<1>13. ASSUME NEW w \in Worker, ListRefresh(w)
       PROVE  TInv'
  <2> DEFINE q == [phase |-> "marking", event |-> request[w].event,
                   flagged |-> {r \in Record : status[r] = "published" /\
                                  PinStale(PublishedOf(r), request[w].event, request[w].live)}]
  <2>1. request[w].event \in Version
    BY <1>t, <1>13, RequestFields DEF ListRefresh
  <2>2. q \in Request /\ ~NamesRecord(q)
    BY <2>1 DEF Request, NamesRecord
  <2>3. request' = [request EXCEPT ![w] = q] /\ UNCHANGED <<catalog, amendments, revisions>>
    BY <1>t, <1>13 DEF ListRefresh, TypeOK
  <2> HIDE DEF q
  <2> QED  BY <1>c, <2>2, <2>3 DEF Opt
<1>14. ASSUME NEW w \in Worker, NEW heard \in BOOLEAN, MarkNeedsReview(w, heard)
       PROVE  TInv'
  <2>1. review' \in [Record -> {"ok", "needs_review"}] /\ events' \subseteq published
    BY <1>t, <1>14 DEF MarkNeedsReview, TypeOK
  <2>2. /\ request' \in [Worker -> Opt(Request)]
        /\ \A x \in Worker : request'[x] # None /\ NamesRecord(request'[x]) =>
                                status'[request'[x].record] # None
    BY <1>14, FinishStep DEF MarkNeedsReview
  <2> QED  BY <1>t, <1>14, <2>1, <2>2 DEF MarkNeedsReview, TInv, TypeOK, RecordsExist, NamesRecord
<1>15. CASE UNCHANGED vars
  BY <1>t, <1>15 DEF vars, TInv, TypeOK, RecordsExist, NamesRecord
<1> QED
  BY <1>1, <1>2, <1>3, <1>4, <1>5, <1>6, <1>7, <1>8, <1>9, <1>10, <1>11, <1>12, <1>13, <1>14,
     <1>15 DEF Next

\* Type correctness, for every number of records, snapshots and requests in flight.
THEOREM TypeCorrect == Spec => []TypeOK
<1>1. TInv => TypeOK
  BY DEF TInv
<1> QED  BY TypeInit, TypeStep, <1>1, PTL DEF Spec


(***************************************************************************)
(* The published revision.                                                 *)
(***************************************************************************)
\* The flags the unique indexes are over say what published_revision_id says.
FlagsAgree(r) ==
    /\ Public(r) => publishedRevision[r] # 0
    /\ \A i \in 1..Len(revisions[r]) :
         revisions[r][i].publishedTip <=> Public(r) /\ i = publishedRevision[r]

PinInv == (\A r \in Record : FlagsAgree(r)) /\ OneRecordPerSnapshot

\* What a step can do to what a record publicly quotes: nothing, or publish it anew.
KeepsQuote(r) ==
    (Public(r))' => /\ Public(r)
                    /\ SamePins((PublishedOf(r))', PublishedOf(r))
                    /\ quotedTips'[r] = quotedTips[r]
                    /\ review'[r] = "ok" => review[r] = "ok"

Requotes(r) ==
    /\ \A q \in Record \ {r} : Public(q) =>
         /\ (PublishedOf(r))'.source # None => PublishedOf(q).source # (PublishedOf(r))'.source
         /\ (PublishedOf(r))'.target # None => PublishedOf(q).target # (PublishedOf(r))'.target
    /\ KeepsQuote(r) \/ (quotedTips'[r] => QuotesTips((PublishedOf(r))'))
    /\ UNCHANGED catalog

LEMMA PublishQuotes ==
    ASSUME TInv, \A q \in Record : FlagsAgree(q),
           NEW r \in Record, NEW revs \in Seq(Revision), revs # <<>>,
           Publish(r, revs), UNCHANGED catalog
    PROVE  /\ (FlagsAgree(r))'
           /\ Requotes(r)
           /\ SamePins((PublishedOf(r))', revs[Len(revs)])
           /\ (PublishedOf(r))' \in Revision
           /\ \A q \in Record \ {r} : KeepsQuote(q) /\ (FlagsAgree(q) => (FlagsAgree(q))')
<1> DEFINE n == Len(revs)
           m == MarkPublished(revs, n)
<1>1. n \in 1..n /\ n \in Nat
  BY EmptySeq, LenProperties
<1>2. /\ m \in Seq(Revision) /\ Len(m) = n
      /\ \A i \in 1..n : SamePins(m[i], revs[i]) /\ m[i].publishedTip = (i = n)
  BY MarkPublishedFacts
<1>3. m[n] \in Revision /\ revs[n] \in Revision
  BY <1>1, <1>2, ElementOfSeq
<1>4. /\ revisions'[r] = m /\ publishedRevision'[r] = n /\ status'[r] = "published"
      /\ review'[r] = ReviewAfter(r, revs[n])
      /\ quotedTips'[r] = IF Public(r) /\ SamePins(PublishedOf(r), revs[n])
                          THEN quotedTips[r] ELSE QuotesTips(revs[n])
      /\ PinsFree(r, revs[n])
  BY DEF Publish, TInv, TypeOK
<1>5. \A q \in Record \ {r} :
         /\ revisions'[q] = revisions[q] /\ publishedRevision'[q] = publishedRevision[q]
         /\ status'[q] = status[q] /\ review'[q] = review[q] /\ quotedTips'[q] = quotedTips[q]
  BY DEF Publish, TInv, TypeOK
<1> HIDE DEF m, n
<1>6. (PublishedOf(r))' = m[n] /\ (Public(r))'
  BY <1>4 DEF PublishedOf, Public
<1>7. SamePins(m[n], revs[n])
  BY <1>1, <1>2
<1>8. (FlagsAgree(r))'
  <2>1. publishedRevision'[r] # 0 /\ Len(revisions'[r]) = n
    BY <1>1, <1>2, <1>4
  <2>2. ASSUME NEW i \in 1..n
        PROVE  revisions'[r][i].publishedTip <=> (Public(r))' /\ i = publishedRevision'[r]
    <3>1. revisions'[r][i].publishedTip = (i = n)
      BY <1>2, <1>4
    <3> QED  BY <1>4, <1>6, <3>1
  <2> QED  BY <2>1, <2>2 DEF FlagsAgree
<1>9. ASSUME NEW q \in Record \ {r}, Public(q)
      PROVE  /\ revs[n].source # None => PublishedOf(q).source # revs[n].source
             /\ revs[n].target # None => PublishedOf(q).target # revs[n].target
  <2>1. publishedRevision[q] \in 1..Len(revisions[q]) /\ DOMAIN revisions[q] = 1..Len(revisions[q])
    BY <1>9, ChainType, LenProperties DEF FlagsAgree, TInv
  <2>2. revisions[q][publishedRevision[q]].publishedTip
    BY <1>9, <2>1 DEF FlagsAgree
  <2> QED  BY <1>4, <2>1, <2>2 DEF PinsFree, PublishedOf
<1>10. KeepsQuote(r) \/ (quotedTips'[r] => QuotesTips((PublishedOf(r))'))
  <2>1. CASE Public(r) /\ SamePins(PublishedOf(r), revs[n])
    <3>1. publishedRevision[r] # 0
      BY <2>1 DEF FlagsAgree
    <3>2. review'[r] = review[r] /\ quotedTips'[r] = quotedTips[r]
      BY <1>4, <2>1, <3>1 DEF ReviewAfter
    <3> QED  BY <1>6, <1>7, <2>1, <3>2 DEF KeepsQuote, SamePins
  <2>2. CASE ~(Public(r) /\ SamePins(PublishedOf(r), revs[n]))
    <3>1. quotedTips'[r] = QuotesTips(revs[n])
      BY <1>4, <2>2
    <3>2. QuotesTips(m[n]) = QuotesTips(revs[n])
      BY <1>7 DEF QuotesTips, SamePins
    <3>3. quotedTips'[r] => QuotesTips((PublishedOf(r))')
      BY <1>6, <3>1, <3>2
    <3> QED  BY <3>3
  <2> QED  BY <2>1, <2>2
<1>11. Requotes(r)
  BY <1>6, <1>7, <1>9, <1>10 DEF Requotes, SamePins
<1>12. ASSUME NEW q \in Record \ {r}
       PROVE  KeepsQuote(q) /\ (FlagsAgree(q) => (FlagsAgree(q))')
  BY <1>5 DEF KeepsQuote, FlagsAgree, PublishedOf, Public, SamePins
<1> QED  BY <1>3, <1>6, <1>7, <1>8, <1>11, <1>12 DEF n

\* A record that an action leaves alone.
LEMMA RowKept ==
    ASSUME NEW q \in Record, revisions'[q] = revisions[q],
           publishedRevision'[q] = publishedRevision[q], status'[q] = status[q],
           quotedTips'[q] = quotedTips[q], review'[q] = "ok" => review[q] = "ok"
    PROVE  KeepsQuote(q) /\ (FlagsAgree(q) => (FlagsAgree(q))')
BY DEF KeepsQuote, FlagsAgree, PublishedOf, Public, SamePins

\* Appending behind the published revision changes nothing a reader sees.
LEMMA AppendKeeps ==
    ASSUME TInv, NEW r \in Record, NEW a \in Seq(Revision), Len(a) = Len(revisions[r]) + 1,
           \A i \in 1..Len(revisions[r]) : a[i] = revisions[r][i],
           ~a[Len(revisions[r]) + 1].publishedTip,
           revisions' = [revisions EXCEPT ![r] = a], UNCHANGED amendments, FlagsAgree(r)
    PROVE  \A q \in Record : KeepsQuote(q) /\ (FlagsAgree(q) => (FlagsAgree(q))')
<1>1. /\ Len(revisions[r]) \in Nat /\ publishedRevision[r] \in 0..Len(revisions[r])
      /\ revisions'[r] = a /\ \A q \in Record \ {r} : revisions'[q] = revisions[q]
  BY ChainType DEF TInv, TypeOK
<1>2. /\ publishedRevision' = publishedRevision /\ status' = status
      /\ quotedTips' = quotedTips /\ review' = review
  BY DEF amendments
<1>3. Public(r) => (PublishedOf(r))' = PublishedOf(r)
  BY <1>1, <1>2 DEF PublishedOf, FlagsAgree
<1>4. KeepsQuote(r)
  BY <1>2, <1>3 DEF KeepsQuote, Public, SamePins
<1>5. (FlagsAgree(r))'
  <2>1. ASSUME NEW i \in 1..Len(a)
        PROVE  a[i].publishedTip <=> Public(r) /\ i = publishedRevision[r]
    <3>1. CASE i \in 1..Len(revisions[r])
      BY <3>1 DEF FlagsAgree
    <3>2. CASE i = Len(revisions[r]) + 1
      BY <1>1, <3>2
    <3> QED  BY <1>1, <3>1, <3>2
  <2> QED  BY <1>1, <1>2, <2>1 DEF FlagsAgree, Public
<1> QED  BY <1>1, <1>2, <1>4, <1>5, RowKept

\* Every step keeps the public quote of every record, or requotes one of them.
LEMMA QuoteStep ==
    ASSUME TInv, [Next]_vars, \A q \in Record : FlagsAgree(q)
    PROVE  /\ \A q \in Record : (FlagsAgree(q))'
           /\ \/ \A q \in Record : KeepsQuote(q)
              \/ \E r \in Record : Requotes(r) /\ \A q \in Record \ {r} : KeepsQuote(q)
<1>t. TypeOK /\ RecordsExist
  BY DEF TInv
<1>k. ASSUME revisions' = revisions, publishedRevision' = publishedRevision, status' = status,
             quotedTips' = quotedTips,
             \A q \in Record : review'[q] = "ok" => review[q] = "ok"
      PROVE  \A q \in Record : KeepsQuote(q) /\ (FlagsAgree(q))'
  BY <1>k, RowKept
<1>1. ASSUME NEW v \in Version, PublishVersion(v)
      PROVE  \A q \in Record : KeepsQuote(q) /\ (FlagsAgree(q))'
  BY <1>1, <1>k DEF PublishVersion, amendments
<1>2. ASSUME NEW r \in Record, NEW source \in Opt(Version), NEW target \in Opt(Version),
             NEW exactLinks \in BOOLEAN, CreateAmendment(r, source, target, exactLinks)
      PROVE  \A q \in Record : KeepsQuote(q) /\ (FlagsAgree(q))'
  <2> DEFINE e == [source |-> source, target |-> target, wording |-> 1, publishedTip |-> FALSE]
  <2>1. /\ revisions'[r] = <<e>> /\ status'[r] = "draft"
        /\ \A q \in Record \ {r} : revisions'[q] = revisions[q] /\ status'[q] = status[q]
        /\ publishedRevision' = publishedRevision /\ review' = review /\ quotedTips' = quotedTips
    BY <1>t, <1>2 DEF CreateAmendment, TypeOK
  <2>2. ~e.publishedTip
    OBVIOUS
  <2> HIDE DEF e
  <2>3. KeepsQuote(r) /\ (FlagsAgree(r))'
    <3>1. ~(Public(r))'
      BY <2>1 DEF Public
    <3>2. \A i \in 1..Len(<<e>>) : ~<<e>>[i].publishedTip
      BY <2>2
    <3> QED  BY <2>1, <3>1, <3>2 DEF KeepsQuote, FlagsAgree
  <2> QED  BY <2>1, <2>3, RowKept
<1>3. ASSUME NEW r \in Record, NEW source \in Opt(Version), NEW target \in Opt(Version),
             AppendRevision(r, source, target)
      PROVE  \A q \in Record : KeepsQuote(q) /\ (FlagsAgree(q))'
  <2> DEFINE n == Len(revisions[r]) + 1
             a == Appended(r, source, target, n)
  <2>1. n \in 1..MaxRevisions /\ revisions[r] \in Seq(Revision) /\ revisions[r] # <<>>
    BY <1>t, <1>3, ChainType, BoundAssumption DEF AppendRevision, TypeOK
  <2>2. /\ a \in Seq(Revision) /\ Len(a) = Len(revisions[r]) + 1
        /\ \A i \in 1..Len(revisions[r]) : a[i] = revisions[r][i]
        /\ ~a[Len(revisions[r]) + 1].publishedTip
    BY <2>1, AppendedFacts
  <2>3. revisions' = [revisions EXCEPT ![r] = a] /\ UNCHANGED amendments
    BY <1>3 DEF AppendRevision
  <2> HIDE DEF a
  <2> QED  BY <2>2, <2>3, AppendKeeps
<1>4. ASSUME NEW w \in Worker, CommitLink(w)
      PROVE  \A q \in Record : KeepsQuote(q) /\ (FlagsAgree(q))'
  <2> DEFINE r == request[w].record
             a == Appended(r, request[w].source, request[w].target, request[w].wording)
  <2>1. /\ r \in Record /\ status[r] # None /\ request[w].wording \in 1..MaxRevisions
        /\ request[w].source \in Opt(Version) /\ request[w].target \in Opt(Version)
    BY <1>t, <1>4, RequestFields DEF CommitLink, RecordsExist, NamesRecord
  <2>2. revisions[r] \in Seq(Revision) /\ revisions[r] # <<>>
    BY <1>t, <2>1, ChainType DEF TypeOK
  <2>3. /\ a \in Seq(Revision) /\ Len(a) = Len(revisions[r]) + 1
        /\ \A i \in 1..Len(revisions[r]) : a[i] = revisions[r][i]
        /\ ~a[Len(revisions[r]) + 1].publishedTip
    BY <2>1, <2>2, AppendedFacts
  <2>4. revisions' = [revisions EXCEPT ![r] = a] /\ UNCHANGED amendments
    BY <1>4 DEF CommitLink
  <2> HIDE DEF a
  <2> QED  BY <2>1, <2>3, <2>4, AppendKeeps
<1>5. ASSUME NEW r \in Record, WithdrawAmendment(r)
      PROVE  \A q \in Record : KeepsQuote(q) /\ (FlagsAgree(q))'
  <2> DEFINE a == Withdrawn(revisions[r])
  <2>1. Len(a) = Len(revisions[r]) /\ \A i \in 1..Len(revisions[r]) : ~a[i].publishedTip
    BY <1>t, WithdrawnFacts DEF TypeOK
  <2>2. /\ revisions'[r] = a /\ status'[r] = "withdrawn"
        /\ \A q \in Record \ {r} : revisions'[q] = revisions[q] /\ status'[q] = status[q]
        /\ publishedRevision' = publishedRevision /\ review' = review /\ quotedTips' = quotedTips
    BY <1>t, <1>5 DEF WithdrawAmendment, TypeOK
  <2>3. KeepsQuote(r) /\ (FlagsAgree(r))'
    <3>1. ~(Public(r))'
      BY <2>2 DEF Public
    <3> QED  BY <2>1, <2>2, <3>1 DEF KeepsQuote, FlagsAgree
  <2> QED  BY <2>2, <2>3, RowKept
<1>6. ASSUME NEW w \in Worker, NEW heard \in BOOLEAN, MarkNeedsReview(w, heard)
      PROVE  \A q \in Record : KeepsQuote(q) /\ (FlagsAgree(q))'
  <2>1. \A q \in Record : review'[q] = "ok" => review[q] = "ok"
    BY <1>6 DEF MarkNeedsReview
  <2> QED  BY <1>6, <1>k, <2>1 DEF MarkNeedsReview
<1>7. ASSUME UNCHANGED <<amendments, revisions>>
      PROVE  \A q \in Record : KeepsQuote(q) /\ (FlagsAgree(q))'
  BY <1>7, <1>k DEF amendments
<1>8. ASSUME NEW w \in Worker, CommitPublish(w)
      PROVE  \E r \in Record : /\ Requotes(r) /\ (FlagsAgree(r))'
                               /\ \A q \in Record \ {r} : KeepsQuote(q) /\ (FlagsAgree(q))'
  <2> DEFINE r == request[w].record
  <2>1. r \in Record /\ status[r] # None
    BY <1>t, <1>8, RequestFields DEF CommitPublish, RecordsExist, NamesRecord
  <2>2. revisions[r] \in Seq(Revision) /\ revisions[r] # <<>>
    BY <1>t, <2>1 DEF TypeOK
  <2>3. Publish(r, revisions[r]) /\ UNCHANGED catalog
    BY <1>8 DEF CommitPublish
  <2> HIDE DEF r
  <2> QED  BY <2>1, <2>2, <2>3, PublishQuotes
<1>9. ASSUME NEW w \in Worker, CommitConfirm(w)
      PROVE  \E r \in Record : /\ Requotes(r) /\ (FlagsAgree(r))'
                               /\ \A q \in Record \ {r} : KeepsQuote(q) /\ (FlagsAgree(q))'
  <2> DEFINE r == request[w].record
             a == Appended(r, request[w].source, request[w].target, request[w].wording)
  <2>1. /\ r \in Record /\ status[r] # None /\ request[w].wording \in 1..MaxRevisions
        /\ request[w].source \in Opt(Version) /\ request[w].target \in Opt(Version)
    BY <1>t, <1>9, RequestFields DEF CommitConfirm, RecordsExist, NamesRecord
  <2>2. revisions[r] \in Seq(Revision) /\ revisions[r] # <<>> /\ Len(revisions[r]) \in Nat
    BY <1>t, <2>1, ChainType DEF TypeOK
  <2>3. a \in Seq(Revision) /\ Len(a) = Len(revisions[r]) + 1
    BY <2>1, <2>2, AppendedFacts
  <2>4. a # <<>> /\ Publish(r, a) /\ UNCHANGED catalog
    BY <1>9, <2>2, <2>3, EmptySeq DEF CommitConfirm
  <2> HIDE DEF r, a
  <2> QED  BY <2>1, <2>3, <2>4, PublishQuotes
<1>10. CASE UNCHANGED vars
  BY <1>7, <1>10 DEF vars, amendments
<1>11. CASE Next
  <2> USE DEF Next
  <2>1. CASE \E v \in Version : PublishVersion(v)
    BY <1>1, <2>1
  <2>2. CASE \E r \in Record, source, target \in Opt(Version), exactLinks \in BOOLEAN :
               CreateAmendment(r, source, target, exactLinks)
    BY <1>2, <2>2
  <2>3. CASE \E r \in Record, source, target \in Opt(Version) : AppendRevision(r, source, target)
    BY <1>3, <2>3
  <2>4. CASE \E w \in Worker : CommitLink(w)
    BY <1>4, <2>4
  <2>5. CASE \E r \in Record : WithdrawAmendment(r)
    BY <1>5, <2>5
  <2>6. CASE \E w \in Worker, heard \in BOOLEAN : MarkNeedsReview(w, heard)
    BY <1>6, <2>6
  <2>7. CASE \E w \in Worker : CommitPublish(w)
    BY <1>8, <2>7
  <2>8. CASE \E w \in Worker : CommitConfirm(w)
    BY <1>9, <2>8
  <2>9. CASE UNCHANGED <<catalog, amendments, revisions>>
    BY <1>7, <2>9
  <2>10. CASE \/ \E w \in Worker, r \in Record, source \in Opt(Version), target \in Version :
                   BeginLink(w, r, source, target)
              \/ \E w \in Worker, r \in Record : BeginPublish(w, r) \/ BeginConfirm(w, r)
              \/ \E w \in Worker : EndRequest(w)
              \/ \E w \in Worker, v \in Version : BeginRefresh(w, v)
              \/ \E w \in Worker : ListRefresh(w)
    BY <2>9, <2>10 DEF BeginLink, BeginPublish, BeginConfirm, EndRequest, BeginRefresh, ListRefresh
  <2> QED  BY <1>11, <2>1, <2>2, <2>3, <2>4, <2>5, <2>6, <2>7, <2>8, <2>10
<1> QED  BY <1>10, <1>11


LEMMA PinsInit == Init => PinInv
<1> SUFFICES ASSUME Init PROVE PinInv
  OBVIOUS
<1>1. ASSUME NEW r \in Record
      PROVE  ~Public(r) /\ Len(revisions[r]) = 0
  BY NoneAssumption DEF Init, Public
<1> QED  BY <1>1 DEF PinInv, FlagsAgree, OneRecordPerSnapshot

LEMMA PinsStep == TInv /\ PinInv /\ [Next]_vars => PinInv'
<1> SUFFICES ASSUME TInv, PinInv, [Next]_vars PROVE PinInv'
  OBVIOUS
<1>1. \A q \in Record : FlagsAgree(q)
  BY DEF PinInv
<1>2. /\ \A q \in Record : (FlagsAgree(q))'
      /\ \/ \A q \in Record : KeepsQuote(q)
         \/ \E r \in Record : Requotes(r) /\ \A q \in Record \ {r} : KeepsQuote(q)
  BY <1>1, QuoteStep
<1> DEFINE Apart(a, b) == /\ a.source # None => a.source # b.source
                          /\ a.target # None => a.target # b.target
<1>3. ASSUME NEW p \in Record, NEW q \in Record, p # q, (Public(p))', (Public(q))'
      PROVE  Apart((PublishedOf(p))', (PublishedOf(q))')
  <2>1. CASE KeepsQuote(p) /\ KeepsQuote(q)
    <3>1. Public(p) /\ Public(q)
      BY <1>3, <2>1 DEF KeepsQuote
    <3>2. Apart(PublishedOf(p), PublishedOf(q))
      BY <1>3, <3>1 DEF PinInv, OneRecordPerSnapshot
    <3> QED  BY <1>3, <2>1, <3>2 DEF KeepsQuote, SamePins
  <2>2. CASE Requotes(p) /\ KeepsQuote(q)
    <3>1. Public(q) /\ SamePins((PublishedOf(q))', PublishedOf(q))
      BY <1>3, <2>2 DEF KeepsQuote
    <3> QED  BY <1>3, <2>2, <3>1 DEF Requotes, SamePins
  <2>3. CASE Requotes(q) /\ KeepsQuote(p)
    <3>1. Public(p) /\ SamePins((PublishedOf(p))', PublishedOf(p))
      BY <1>3, <2>3 DEF KeepsQuote
    <3> QED  BY <1>3, <2>3, <3>1 DEF Requotes, SamePins
  <2> QED  BY <1>2, <1>3, <2>1, <2>2, <2>3
<1> QED  BY <1>2, <1>3 DEF PinInv, OneRecordPerSnapshot

\* ADR 0005 (5), for every number of records: withdrawals, confirmations and crossing
\* publications included, no snapshot is publicly quoted twice on one side.
THEOREM SnapshotsQuotedOnce == Spec => []OneRecordPerSnapshot
<1>1. TInv /\ PinInv => OneRecordPerSnapshot
  BY DEF PinInv
<1> QED  BY TypeInit, TypeStep, PinsInit, PinsStep, <1>1, PTL DEF Spec

(***************************************************************************)
(* The refresh.                                                            *)
(***************************************************************************)
\* A pin that a correction of its legal version has overtaken.
Overtaken(r) ==
    {pin \in {PublishedOf(r).source, PublishedOf(r).target} :
        pin # None /\ tip[LawOf[pin]] # pin}

OkAndLive(r) == Public(r) /\ quotedTips[r] /\ review[r] = "ok"

\* The outbox holds the correction that overtook a quote.
Owed == \A r \in Record : OkAndLive(r) => \A pin \in Overtaken(r) : tip[LawOf[pin]] \in events

TipsTranscribe ==
    \A l \in Law : tip[l] # None => tip[l] \in published /\ LawOf[tip[l]] = l

\* What a refresh has read is right unless a later correction has its own refresh.
RefreshReads(w) ==
    LET q == request[w]
    IN  q # None =>
          /\ q.phase = "refreshing" =>
               q.event \in published /\ (tip[LawOf[q.event]] = q.event => q.live = q.event)
          /\ q.phase = "marking" =>
               /\ q.event \in published
               /\ tip[LawOf[q.event]] = q.event =>
                    \A r \in Record : OkAndLive(r) =>
                      \A pin \in Overtaken(r) : LawOf[pin] = LawOf[q.event] => r \in q.flagged

FlagInv == Owed /\ TipsTranscribe /\ \A w \in Worker : RefreshReads(w)

LEMMA FlagInit == Init => FlagInv
<1> SUFFICES ASSUME Init PROVE FlagInv
  OBVIOUS
<1>1. \A r \in Record : ~Public(r)
  BY NoneAssumption DEF Init, Public
<1> QED  BY <1>1 DEF Init, FlagInv, Owed, OkAndLive, TipsTranscribe, RefreshReads

\* What becomes of the quotes when the catalog stands still.
LEMMA OvertakenStep ==
    ASSUME TInv, [Next]_vars, \A q \in Record : FlagsAgree(q), tip' = tip,
           NEW r \in Record, (OkAndLive(r))', NEW pin \in (Overtaken(r))'
    PROVE  OkAndLive(r) /\ pin \in Overtaken(r)
<1>1. pin # None /\ tip[LawOf[pin]] # pin
      /\ pin \in {(PublishedOf(r))'.source, (PublishedOf(r))'.target}
  BY DEF Overtaken
<1>2. ~QuotesTips((PublishedOf(r))')
  BY <1>1 DEF QuotesTips, IsLiveTip
<1>3. KeepsQuote(r)
  <2>1. KeepsQuote(r) \/ Requotes(r)
    BY QuoteStep
  <2> QED  BY <1>2, <2>1 DEF Requotes, OkAndLive
<1> QED  BY <1>1, <1>3 DEF KeepsQuote, OkAndLive, Overtaken, SamePins

LEMMA FlagStep == TInv /\ PinInv /\ FlagInv /\ [Next]_vars => FlagInv'
<1> SUFFICES ASSUME TInv, PinInv, FlagInv, [Next]_vars PROVE FlagInv'
  OBVIOUS
<1>t. TypeOK /\ \A q \in Record : FlagsAgree(q)
  BY DEF TInv, PinInv
<1>f. Owed /\ TipsTranscribe /\ \A w \in Worker : RefreshReads(w)
  BY DEF FlagInv
<1>1. ASSUME NEW v \in Version, PublishVersion(v)
      PROVE  FlagInv'
  <2> DEFINE l == LawOf[v]
  <2>1. /\ l \in Law /\ tip'[l] = v /\ \A k \in Law \ {l} : tip'[k] = tip[k]
        /\ published' = published \cup {v} /\ v \notin published /\ v # None
        /\ events' = IF tip[l] = None THEN events ELSE events \cup {v}
        /\ request' = request
    BY <1>t, <1>1, LawAssumption, NoneAssumption DEF PublishVersion, TypeOK
  <2>2. ASSUME NEW r \in Record
        PROVE  /\ (OkAndLive(r))' = OkAndLive(r)
               /\ (PublishedOf(r))' = PublishedOf(r)
    BY <1>1 DEF PublishVersion, amendments, OkAndLive, Public, PublishedOf
  <2>p. ASSUME NEW r \in Record, OkAndLive(r), NEW pin \in (Overtaken(r))'
        PROVE  /\ pin \in Version /\ LawOf[pin] \in Law
               /\ LawOf[pin] # l => pin \in Overtaken(r)
               /\ pin # tip'[LawOf[pin]]
               /\ tip[l] = None => LawOf[pin] # l
    <3>1. pin # None /\ tip'[LawOf[pin]] # pin
          /\ pin \in {PublishedOf(r).source, PublishedOf(r).target}
      BY <2>2, <2>p DEF Overtaken
    <3>2. PublishedOf(r) \in Revision
      BY <1>t, <2>p, ChainType DEF OkAndLive, FlagsAgree
    <3>3. pin \in Version /\ LawOf[pin] \in Law
      BY <3>1, <3>2, LawAssumption DEF Revision, Opt
    <3>4. LawOf[pin] # l => pin \in Overtaken(r)
      BY <2>1, <3>1, <3>3 DEF Overtaken
    <3>5. ASSUME tip[l] = None, LawOf[pin] = l PROVE FALSE
      <4>1. pin \in Overtaken(r)
        BY <3>1, <3>5 DEF Overtaken
      <4>2. tip[l] \in events
        BY <1>f, <2>p, <3>5, <4>1 DEF Owed
      <4> QED  BY <1>t, <3>5, <4>2, NoneAssumption DEF TypeOK
    <3> QED  BY <3>1, <3>3, <3>4, <3>5
  <2>3. Owed'
    <3>1. ASSUME NEW r \in Record, (OkAndLive(r))', NEW pin \in (Overtaken(r))'
          PROVE  tip'[LawOf[pin]] \in events'
      <4>0. OkAndLive(r)
        BY <2>2, <3>1
      <4>1. CASE LawOf[pin] = l
        BY <2>1, <2>p, <3>1, <4>0, <4>1
      <4>2. CASE LawOf[pin] # l
        BY <1>f, <2>1, <2>p, <3>1, <4>0, <4>2 DEF Owed
      <4> QED  BY <4>1, <4>2
    <3> QED  BY <3>1 DEF Owed
  <2>4. TipsTranscribe'
    BY <1>f, <2>1 DEF TipsTranscribe
  <2>5. ASSUME NEW w \in Worker, request[w] # None,
               request[w].phase \in {"refreshing", "marking"}
        PROVE  (RefreshReads(w))'
    <3> DEFINE e == request[w].event
    <3>1. e \in published /\ e # v /\ e \in Version /\ LawOf[e] \in Law
      BY <1>f, <1>t, <2>1, <2>5, LawAssumption DEF RefreshReads, TypeOK
    <3>2. CASE LawOf[e] = l
      BY <2>1, <2>5, <3>1, <3>2 DEF RefreshReads
    <3>3. CASE LawOf[e] # l
      <4>1. tip'[LawOf[e]] = tip[LawOf[e]]
        BY <2>1, <3>1, <3>3
      <4>2. ASSUME request[w].phase = "marking", tip[LawOf[e]] = e,
                   NEW r \in Record, (OkAndLive(r))', NEW pin \in (Overtaken(r))',
                   LawOf[pin] = LawOf[e]
            PROVE  r \in request[w].flagged
        <5>1. OkAndLive(r) /\ pin \in Overtaken(r)
          BY <2>2, <2>p, <3>3, <4>2
        <5> QED  BY <1>f, <2>5, <4>2, <5>1 DEF RefreshReads
      <4> QED  BY <1>f, <2>1, <2>5, <3>1, <4>1, <4>2 DEF RefreshReads
    <3> QED  BY <3>2, <3>3
  <2>6. \A w \in Worker : (RefreshReads(w))'
    <3> SUFFICES ASSUME NEW w \in Worker PROVE (RefreshReads(w))'
      OBVIOUS
    <3>1. CASE request[w] # None /\ request[w].phase \in {"refreshing", "marking"}
      BY <2>5, <3>1
    <3>2. CASE ~(request[w] # None /\ request[w].phase \in {"refreshing", "marking"})
      BY <2>1, <3>2 DEF RefreshReads
    <3> QED  BY <3>1, <3>2
  <2> QED  BY <2>3, <2>4, <2>6 DEF FlagInv
\* Elsewhere the tips stand, and quotes can only cease to be owed a flag.
<1>s. ASSUME tip' = tip, published' = published
      PROVE  /\ TipsTranscribe'
             /\ events' = events => Owed'
             /\ \A w \in Worker : request'[w] \in {request[w], None} => (RefreshReads(w))'
  <2>1. TipsTranscribe'
    BY <1>f, <1>s DEF TipsTranscribe
  <2>2. \A r \in Record : (OkAndLive(r))' =>
           \A pin \in (Overtaken(r))' : OkAndLive(r) /\ pin \in Overtaken(r)
    BY <1>s, <1>t, OvertakenStep
  <2>3. events' = events => Owed'
    BY <1>f, <1>s, <2>2 DEF Owed
  <2>4. ASSUME NEW w \in Worker, request'[w] = request[w]
        PROVE  (RefreshReads(w))'
    BY <1>f, <1>s, <2>2, <2>4 DEF RefreshReads
  <2>5. ASSUME NEW w \in Worker, request'[w] = None
        PROVE  (RefreshReads(w))'
    BY <2>5 DEF RefreshReads
  <2> QED  BY <2>1, <2>3, <2>4, <2>5
<1>2. ASSUME UNCHANGED <<catalog, request>>
      PROVE  FlagInv'
  BY <1>2, <1>s DEF catalog, FlagInv
<1>3. ASSUME NEW w \in Worker, Finish(w), UNCHANGED catalog
      PROVE  FlagInv'
  <2>1. \A x \in Worker : request'[x] \in {request[x], None}
    BY <1>t, <1>3 DEF Finish, TypeOK
  <2> QED  BY <1>3, <1>s, <2>1 DEF catalog, FlagInv
<1>4. ASSUME NEW w \in Worker, NEW q, Begin(w, q),
             q.phase \notin {"refreshing", "marking"}, UNCHANGED catalog
      PROVE  FlagInv'
  <2>1. request'[w] = q /\ \A x \in Worker \ {w} : request'[x] = request[x]
    BY <1>t, <1>4 DEF Begin, TypeOK
  <2>2. (RefreshReads(w))'
    BY <1>4, <2>1 DEF RefreshReads
  <2> QED  BY <1>4, <1>s, <2>1, <2>2 DEF catalog, FlagInv
<1>5. ASSUME NEW w \in Worker, NEW v \in Version, BeginRefresh(w, v)
      PROVE  FlagInv'
  <2> DEFINE q == [phase |-> "refreshing", event |-> v, live |-> LiveTip(v)]
  <2>1. /\ request'[w] = q /\ \A x \in Worker \ {w} : request'[x] = request[x]
        /\ UNCHANGED catalog /\ v \in events
    BY <1>t, <1>5 DEF BeginRefresh, Begin, TypeOK
  <2>2. v \in published /\ (tip[LawOf[v]] = v => LiveTip(v) = v)
    BY <1>t, <2>1 DEF TypeOK, LiveTip
  <2>3. q.phase = "refreshing" /\ q.event = v /\ q.live = LiveTip(v)
    OBVIOUS
  <2> HIDE DEF q
  <2>4. (RefreshReads(w))'
    BY <2>1, <2>2, <2>3 DEF RefreshReads, catalog
  <2> QED  BY <1>s, <2>1, <2>4 DEF catalog, FlagInv
<1>6. ASSUME NEW w \in Worker, ListRefresh(w)
      PROVE  FlagInv'
  <2> DEFINE e == request[w].event
             live == request[w].live
             flagged == {r \in Record : status[r] = "published" /\ PinStale(PublishedOf(r), e, live)}
             q == [phase |-> "marking", event |-> e, flagged |-> flagged]
  <2>1. /\ request'[w] = q /\ \A x \in Worker \ {w} : request'[x] = request[x]
        /\ UNCHANGED <<catalog, amendments, revisions>>
    BY <1>t, <1>6 DEF ListRefresh, TypeOK
  <2>2. e \in published /\ (tip[LawOf[e]] = e => live = e)
    BY <1>f, <1>6 DEF ListRefresh, RefreshReads
  <2>3. ASSUME NEW r \in Record, (OkAndLive(r))', NEW pin \in (Overtaken(r))',
               LawOf[pin] = LawOf[e], tip[LawOf[e]] = e
        PROVE  r \in flagged
    <3>1. OkAndLive(r) /\ pin \in Overtaken(r)
      BY <1>t, <2>1, <2>3, OvertakenStep DEF catalog
    <3>2. pin # None /\ pin # live /\ pin \in {PublishedOf(r).source, PublishedOf(r).target}
      BY <2>2, <2>3, <3>1 DEF Overtaken
    <3> QED  BY <2>3, <3>1, <3>2 DEF PinStale, OkAndLive, Public
  <2>4. q.phase = "marking" /\ q.event = e /\ q.flagged = flagged
    OBVIOUS
  <2> HIDE DEF q, flagged
  <2>5. (RefreshReads(w))'
    BY <2>1, <2>2, <2>3, <2>4 DEF RefreshReads, catalog
  <2> QED  BY <1>s, <2>1, <2>5 DEF catalog, FlagInv
<1>7. ASSUME NEW w \in Worker, NEW heard \in BOOLEAN, MarkNeedsReview(w, heard)
      PROVE  FlagInv'
  <2> DEFINE e == request[w].event
  <2>1. /\ UNCHANGED <<tip, published>> /\ Finish(w)
        /\ events' \in {events, events \ {e}}
        /\ \A r \in Record : r \in request[w].flagged => review'[r] = "needs_review"
    BY <1>7 DEF MarkNeedsReview
  <2>2. \A x \in Worker : request'[x] \in {request[x], None}
    BY <1>t, <2>1 DEF Finish, TypeOK
  <2>3. ASSUME NEW r \in Record, (OkAndLive(r))', NEW pin \in (Overtaken(r))'
        PROVE  tip[LawOf[pin]] \in events'
    <3>1. OkAndLive(r) /\ pin \in Overtaken(r)
      BY <1>t, <2>1, <2>3, OvertakenStep
    <3>2. tip[LawOf[pin]] \in events
      BY <1>f, <3>1 DEF Owed
    <3>3. r \notin request[w].flagged
      BY <2>1, <2>3 DEF OkAndLive
    <3>4. tip[LawOf[pin]] # e
      <4> SUFFICES ASSUME tip[LawOf[pin]] = e PROVE FALSE
        OBVIOUS
      <4>1. PublishedOf(r) \in Revision
        BY <1>t, <3>1, ChainType DEF OkAndLive, FlagsAgree
      <4>2. LawOf[pin] \in Law /\ e # None
        BY <1>t, <3>1, <3>2, <4>1, LawAssumption, NoneAssumption DEF Overtaken, Revision, Opt, TypeOK
      <4>3. LawOf[e] = LawOf[pin] /\ tip[LawOf[e]] = e
        BY <1>f, <4>2 DEF TipsTranscribe
      <4> QED  BY <1>f, <1>7, <3>1, <3>3, <4>3 DEF RefreshReads, MarkNeedsReview
    <3> QED  BY <2>1, <3>2, <3>4
  <2>4. Owed'
    BY <2>1, <2>3 DEF Owed
  <2> QED  BY <1>s, <2>1, <2>2, <2>4 DEF FlagInv
<1>8. ASSUME NEW w \in Worker, NEW r \in Record, NEW source \in Opt(Version), NEW target \in Version,
             BeginLink(w, r, source, target)
      PROVE  FlagInv'
  <2> DEFINE q == [phase |-> "linking", record |-> r, source |-> Coalesce(source, TipOf(r).source),
                   target |-> target, wording |-> TipOf(r).wording]
  <2>1. Begin(w, q) /\ q.phase = "linking" /\ UNCHANGED catalog
    BY <1>8 DEF BeginLink
  <2> HIDE DEF q
  <2> QED  BY <1>4, <2>1
<1>a. ASSUME NEW w \in Worker, NEW r \in Record, BeginPublish(w, r)
      PROVE  FlagInv'
  <2> DEFINE q == [phase |-> "publishing", record |-> r]
  <2>1. Begin(w, q) /\ q.phase = "publishing" /\ UNCHANGED catalog
    BY <1>a DEF BeginPublish
  <2> HIDE DEF q
  <2> QED  BY <1>4, <2>1
<1>b. ASSUME NEW w \in Worker, NEW r \in Record, BeginConfirm(w, r)
      PROVE  FlagInv'
  <2> DEFINE q == [phase |-> "confirming", record |-> r, source |-> LiveTip(PublishedOf(r).source),
                   target |-> LiveTip(PublishedOf(r).target), wording |-> PublishedOf(r).wording]
  <2>1. Begin(w, q) /\ q.phase = "confirming" /\ UNCHANGED catalog
    BY <1>b DEF BeginConfirm
  <2> HIDE DEF q
  <2> QED  BY <1>4, <2>1
<1>9. ASSUME NEW w \in Worker,
             CommitLink(w) \/ CommitPublish(w) \/ CommitConfirm(w) \/ EndRequest(w)
      PROVE  FlagInv'
  <2>1. Finish(w) /\ UNCHANGED catalog
    BY <1>9 DEF CommitLink, CommitPublish, CommitConfirm, EndRequest
  <2> QED  BY <1>3, <2>1
<1>10. CASE UNCHANGED vars
  BY <1>2, <1>10 DEF vars, catalog
<1>11. CASE Next
  <2>1. CASE \E v \in Version : PublishVersion(v)
    BY <1>1, <2>1
  <2>2. CASE \/ \E r \in Record, source, target \in Opt(Version), exactLinks \in BOOLEAN :
                  CreateAmendment(r, source, target, exactLinks)
             \/ \E r \in Record, source, target \in Opt(Version) : AppendRevision(r, source, target)
             \/ \E r \in Record : WithdrawAmendment(r)
    <3>1. UNCHANGED <<catalog, request>>
      BY <2>2 DEF CreateAmendment, AppendRevision, WithdrawAmendment
    <3> QED  BY <1>2, <3>1
  <2>3. CASE \E w \in Worker, r \in Record, source \in Opt(Version), target \in Version :
               BeginLink(w, r, source, target)
    BY <1>8, <2>3
  <2>4. CASE \E w \in Worker, r \in Record : BeginPublish(w, r) \/ BeginConfirm(w, r)
    BY <1>a, <1>b, <2>4
  <2>5. CASE \E w \in Worker : CommitLink(w) \/ CommitPublish(w) \/ CommitConfirm(w) \/ EndRequest(w)
    BY <1>9, <2>5
  <2>6. CASE \E w \in Worker, v \in Version : BeginRefresh(w, v)
    BY <1>5, <2>6
  <2>7. CASE \E w \in Worker : ListRefresh(w)
    BY <1>6, <2>7
  <2>8. CASE \E w \in Worker, heard \in BOOLEAN : MarkNeedsReview(w, heard)
    BY <1>7, <2>8
  <2> QED  BY <1>11, <2>1, <2>2, <2>3, <2>4, <2>5, <2>6, <2>7, <2>8 DEF Next
<1> QED  BY <1>10, <1>11

\* No overtaken quote is forgotten: it is flagged, or the outbox still owes the refresh,
\* however corrections, refreshes, confirmations and publications interleave.
THEOREM FlagsAreOwed == Spec => []OvertakenQuotesAreOwedAFlag
<1>1. TInv /\ PinInv /\ FlagInv => OvertakenQuotesAreOwedAFlag
  <2> SUFFICES ASSUME TInv, PinInv, FlagInv, NEW r \in Record, Stale(r), review[r] = "ok"
               PROVE  \E v \in events, pin \in {PublishedOf(r).source, PublishedOf(r).target} :
                        pin # None /\ LawOf[pin] = LawOf[v]
    BY DEF OvertakenQuotesAreOwedAFlag
  <2>1. OkAndLive(r) /\ ~QuotesTips(PublishedOf(r))
    BY DEF Stale, OkAndLive
  <2>2. PICK pin \in {PublishedOf(r).source, PublishedOf(r).target} :
            pin # None /\ tip[LawOf[pin]] # pin
    BY <2>1 DEF QuotesTips, IsLiveTip
  <2>3. tip[LawOf[pin]] \in events
    BY <2>1, <2>2 DEF FlagInv, Owed, Overtaken
  <2>4. PublishedOf(r) \in Revision
    BY <2>1, ChainType DEF OkAndLive, PinInv, FlagsAgree, TInv
  <2>5. LawOf[pin] \in Law /\ tip[LawOf[pin]] # None
    BY <2>2, <2>3, <2>4, LawAssumption, NoneAssumption DEF Revision, Opt, TInv, TypeOK
  <2>6. LawOf[tip[LawOf[pin]]] = LawOf[pin]
    BY <2>5 DEF FlagInv, TipsTranscribe
  <2> QED  BY <2>2, <2>3, <2>6
<1> QED  BY TypeInit, TypeStep, PinsInit, PinsStep, FlagInit, FlagStep, <1>1, PTL DEF Spec


(***************************************************************************)
(* The record lock.                                                        *)
(***************************************************************************)
Publishing(w) == request[w] # None /\ request[w].phase = "publishing"

\* A record has one publication at a time, and what the diff review passed is still its
\* tip: the lock keeps it.
LockInv ==
    /\ \A w, x \in Worker : /\ Publishing(w) /\ Publishing(x)
                            /\ request[w].record = request[x].record
                            => w = x
    /\ \A w \in Worker : Publishing(w) /\ NeedsDiffReview(request[w].record) =>
         {TipOf(request[w].record).source, TipOf(request[w].record).target} \subseteq published

Stands(r) == revisions'[r] = revisions[r] /\ snapshotReview'[r] = snapshotReview[r]

LEMMA LockInit == Init => LockInv
BY DEF Init, LockInv, Publishing

LEMMA PublishStands ==
    ASSUME NEW r \in Record, NEW revs, Publish(r, revs), TInv, snapshotReview' = snapshotReview
    PROVE  \A q \in Record \ {r} : Stands(q)
BY DEF Publish, Stands, TInv, TypeOK

\* Nobody touches a record while another request is publishing it.
LEMMA LockedStands ==
    ASSUME TInv, LockInv, [Next]_vars, NEW w \in Worker, Publishing(w), request'[w] = request[w]
    PROVE  Stands(request[w].record)
<1> DEFINE p == request[w].record
<1>t. TypeOK /\ RecordsExist
  BY DEF TInv
<1>p. p \in Record /\ Locked(p) /\ status[p] # None
  BY <1>t, RequestFields DEF Publishing, Locked, NamesRecord, RecordsExist
<1>1. CASE UNCHANGED <<revisions, snapshotReview>>
  BY <1>1 DEF Stands
<1>2. ASSUME NEW r \in Record, NEW source \in Opt(Version), NEW target \in Opt(Version),
             NEW exactLinks \in BOOLEAN, CreateAmendment(r, source, target, exactLinks)
      PROVE  Stands(p)
  <2>1. r # p
    BY <1>2, <1>p DEF CreateAmendment
  <2> QED  BY <1>2, <1>p, <1>t, <2>1 DEF CreateAmendment, Stands, TypeOK
<1>3. ASSUME NEW r \in Record, NEW source \in Opt(Version), NEW target \in Opt(Version),
             AppendRevision(r, source, target)
      PROVE  Stands(p)
  <2>1. r # p
    BY <1>3, <1>p DEF AppendRevision
  <2> QED  BY <1>3, <1>p, <1>t, <2>1 DEF AppendRevision, amendments, Stands, TypeOK
<1>4. ASSUME NEW x \in Worker, CommitLink(x)
      PROVE  Stands(p)
  <2>1. request[x].record # p
    BY <1>4, <1>p DEF CommitLink
  <2> QED  BY <1>4, <1>p, <1>t, <2>1 DEF CommitLink, amendments, Stands, TypeOK
<1>5. ASSUME NEW x \in Worker, CommitPublish(x)
      PROVE  Stands(p)
  <2>1. Publishing(x) /\ request'[x] = None
    BY <1>5, <1>t DEF CommitPublish, Publishing, Finish, TypeOK
  <2>2. x # w
    BY <2>1 DEF Publishing
  <2>3. request[x].record # p /\ request[x].record \in Record
    BY <1>t, <2>1, <2>2, RequestFields DEF LockInv, Publishing, NamesRecord
  <2>4. Publish(request[x].record, revisions[request[x].record]) /\ snapshotReview' = snapshotReview
    BY <1>5 DEF CommitPublish
  <2> QED  BY <1>p, <2>3, <2>4, PublishStands
<1>6. ASSUME NEW x \in Worker, CommitConfirm(x)
      PROVE  Stands(p)
  <2> DEFINE r == request[x].record
             a == Appended(r, request[x].source, request[x].target, request[x].wording)
  <2>1. r \in Record /\ r # p
    BY <1>6, <1>t, <1>p, RequestFields DEF CommitConfirm, NamesRecord
  <2>2. Publish(r, a) /\ snapshotReview' = snapshotReview
    BY <1>6 DEF CommitConfirm
  <2> HIDE DEF r, a
  <2> QED  BY <1>p, <2>1, <2>2, PublishStands
<1>7. ASSUME NEW r \in Record, WithdrawAmendment(r)
      PROVE  Stands(p)
  <2>1. r # p
    BY <1>7, <1>p DEF WithdrawAmendment
  <2> QED  BY <1>7, <1>p, <1>t, <2>1 DEF WithdrawAmendment, Stands, TypeOK
<1>8. CASE UNCHANGED vars
  BY <1>1, <1>8 DEF vars
<1>9. CASE Next
  <2>1. CASE \/ \E v \in Version : PublishVersion(v)
             \/ \E x \in Worker, r \in Record, source \in Opt(Version), target \in Version :
                  BeginLink(x, r, source, target)
             \/ \E x \in Worker, r \in Record : BeginPublish(x, r) \/ BeginConfirm(x, r)
             \/ \E x \in Worker : EndRequest(x) \/ ListRefresh(x)
             \/ \E x \in Worker, v \in Version : BeginRefresh(x, v)
             \/ \E x \in Worker, heard \in BOOLEAN : MarkNeedsReview(x, heard)
    <3>1. UNCHANGED <<revisions, snapshotReview>>
      BY <2>1 DEF PublishVersion, BeginLink, BeginPublish, BeginConfirm, EndRequest, ListRefresh,
                  BeginRefresh, MarkNeedsReview, amendments
    <3> QED  BY <1>1, <3>1
  <2> QED  BY <1>2, <1>3, <1>4, <1>5, <1>6, <1>7, <1>9, <2>1 DEF Next
<1> QED  BY <1>8, <1>9

\* A publication is new, and then passed its review, or goes on.
LEMMA PublishingStep ==
    ASSUME TInv, [Next]_vars
    PROVE  \/ \E w \in Worker, r \in Record : BeginPublish(w, r)
           \/ \A w \in Worker : (Publishing(w))' => Publishing(w) /\ request'[w] = request[w]
<1>t. TypeOK
  BY DEF TInv
<1>1. CASE request' = request
  BY <1>1 DEF Publishing
<1>2. ASSUME NEW x \in Worker, NEW q, q # None => q.phase # "publishing",
             request' = [request EXCEPT ![x] = q]
      PROVE  \A w \in Worker : (Publishing(w))' => Publishing(w) /\ request'[w] = request[w]
  BY <1>2, <1>t DEF Publishing, TypeOK
<1>3. ASSUME NEW x \in Worker, Finish(x)
      PROVE  \A w \in Worker : (Publishing(w))' => Publishing(w) /\ request'[w] = request[w]
  BY <1>2, <1>3 DEF Finish
<1>4. ASSUME NEW x \in Worker, NEW r \in Record, NEW source \in Opt(Version), NEW target \in Version,
             BeginLink(x, r, source, target)
      PROVE  \A w \in Worker : (Publishing(w))' => Publishing(w) /\ request'[w] = request[w]
  <2> DEFINE q == [phase |-> "linking", record |-> r, source |-> Coalesce(source, TipOf(r).source),
                   target |-> target, wording |-> TipOf(r).wording]
  <2>1. q.phase # "publishing" /\ request' = [request EXCEPT ![x] = q]
    BY <1>4 DEF BeginLink, Begin
  <2> HIDE DEF q
  <2> QED  BY <1>2, <2>1
<1>5. ASSUME NEW x \in Worker, NEW r \in Record, BeginConfirm(x, r)
      PROVE  \A w \in Worker : (Publishing(w))' => Publishing(w) /\ request'[w] = request[w]
  <2> DEFINE q == [phase |-> "confirming", record |-> r, source |-> LiveTip(PublishedOf(r).source),
                   target |-> LiveTip(PublishedOf(r).target), wording |-> PublishedOf(r).wording]
  <2>1. q.phase # "publishing" /\ request' = [request EXCEPT ![x] = q]
    BY <1>5 DEF BeginConfirm, Begin
  <2> HIDE DEF q
  <2> QED  BY <1>2, <2>1
<1>6. ASSUME NEW x \in Worker, NEW v \in Version, BeginRefresh(x, v)
      PROVE  \A w \in Worker : (Publishing(w))' => Publishing(w) /\ request'[w] = request[w]
  <2> DEFINE q == [phase |-> "refreshing", event |-> v, live |-> LiveTip(v)]
  <2>1. q.phase # "publishing" /\ request' = [request EXCEPT ![x] = q]
    BY <1>6 DEF BeginRefresh, Begin
  <2> HIDE DEF q
  <2> QED  BY <1>2, <2>1
<1>7. ASSUME NEW x \in Worker, ListRefresh(x)
      PROVE  \A w \in Worker : (Publishing(w))' => Publishing(w) /\ request'[w] = request[w]
  <2> DEFINE q == [phase |-> "marking", event |-> request[x].event,
                   flagged |-> {r \in Record : status[r] = "published" /\
                                  PinStale(PublishedOf(r), request[x].event, request[x].live)}]
  <2>1. q.phase # "publishing" /\ request' = [request EXCEPT ![x] = q]
    BY <1>7, <1>t DEF ListRefresh, TypeOK
  <2> HIDE DEF q
  <2> QED  BY <1>2, <2>1
<1>8. CASE \/ \E v \in Version : PublishVersion(v)
           \/ \E r \in Record, source, target \in Opt(Version), exactLinks \in BOOLEAN :
                CreateAmendment(r, source, target, exactLinks)
           \/ \E r \in Record, source, target \in Opt(Version) : AppendRevision(r, source, target)
           \/ \E r \in Record : WithdrawAmendment(r)
           \/ UNCHANGED vars
  <2>1. request' = request
    BY <1>8 DEF PublishVersion, CreateAmendment, AppendRevision, WithdrawAmendment, vars
  <2> QED  BY <1>1, <2>1
<1>9. CASE \/ \E w \in Worker : CommitLink(w) \/ CommitPublish(w) \/ CommitConfirm(w) \/ EndRequest(w)
           \/ \E w \in Worker, heard \in BOOLEAN : MarkNeedsReview(w, heard)
  <2>1. PICK w \in Worker : Finish(w)
    BY <1>9 DEF CommitLink, CommitPublish, CommitConfirm, EndRequest, MarkNeedsReview
  <2> QED  BY <1>3, <2>1
<1> QED  BY <1>4, <1>5, <1>6, <1>7, <1>8, <1>9 DEF Next

LEMMA LockStep == TInv /\ LockInv /\ [Next]_vars => LockInv'
<1> SUFFICES ASSUME TInv, LockInv, [Next]_vars PROVE LockInv'
  OBVIOUS
<1>1. ASSUME NEW x \in Worker, NEW r \in Record, BeginPublish(x, r)
      PROVE  LockInv'
  <2> DEFINE q == [phase |-> "publishing", record |-> r]
  <2>1. /\ request'[x] = q /\ \A w \in Worker \ {x} : request'[w] = request[w]
        /\ UNCHANGED <<catalog, amendments, revisions>>
        /\ request[x] = None /\ ~Locked(r) /\ (NeedsDiffReview(r) => DiffReviewComplete(r))
    BY <1>1 DEF BeginPublish, Begin, TInv, TypeOK
  <2>2. q.phase = "publishing" /\ q.record = r
    OBVIOUS
  <2> HIDE DEF q
  <2>3. \A w \in Worker : Publishing(w) => request[w].record # r /\ w # x
    BY <2>1 DEF Publishing, Locked
  <2>4. \A w \in Worker \ {x} : (Publishing(w))' = Publishing(w)
    BY <2>1 DEF Publishing
  <2>5. ASSUME NEW w \in Worker, NEW y \in Worker, (Publishing(w))', (Publishing(y))',
               request'[w].record = request'[y].record
        PROVE  w = y
    <3>1. CASE w = x \/ y = x
      BY <2>1, <2>2, <2>3, <2>4, <2>5, <3>1
    <3>2. CASE w # x /\ y # x
      BY <2>1, <2>4, <2>5, <3>2 DEF LockInv
    <3> QED  BY <3>1, <3>2
  <2>6. ASSUME NEW w \in Worker, (Publishing(w))', (NeedsDiffReview(request[w].record))'
        PROVE  {(TipOf(request[w].record))'.source, (TipOf(request[w].record))'.target}
                  \subseteq published'
    <3>1. CASE w = x
      BY <2>1, <2>2, <2>6, <3>1
         DEF NeedsDiffReview, DiffReviewComplete, TipOf, catalog, amendments
    <3>2. CASE w # x
      BY <2>1, <2>4, <2>6, <3>2 DEF LockInv, NeedsDiffReview, TipOf, catalog, amendments
    <3> QED  BY <3>1, <3>2
  <2> QED  BY <2>5, <2>6 DEF LockInv
<1>2. ASSUME \A w \in Worker : (Publishing(w))' => Publishing(w) /\ request'[w] = request[w]
      PROVE  LockInv'
  <2>1. published \subseteq published'
    <3>1. published' = published \/ \E v \in Version : published' = published \cup {v}
      BY DEF Next, vars, catalog, PublishVersion, CreateAmendment, AppendRevision, BeginLink,
             CommitLink, EndRequest, BeginPublish, CommitPublish, BeginConfirm, CommitConfirm,
             WithdrawAmendment, BeginRefresh, ListRefresh, MarkNeedsReview
    <3> QED  BY <3>1
  <2>2. ASSUME NEW w \in Worker, (Publishing(w))', (NeedsDiffReview(request[w].record))'
        PROVE  {(TipOf(request[w].record))'.source, (TipOf(request[w].record))'.target}
                  \subseteq published'
    <3>1. Publishing(w) /\ request'[w] = request[w]
      BY <1>2, <2>2
    <3>2. Stands(request[w].record)
      BY <3>1, LockedStands
    <3>3. NeedsDiffReview(request[w].record)
          /\ (TipOf(request[w].record))' = TipOf(request[w].record)
      BY <2>2, <3>1, <3>2 DEF NeedsDiffReview, TipOf, Stands
    <3> QED  BY <2>1, <3>1, <3>3 DEF LockInv
  <2> QED  BY <1>2, <2>2 DEF LockInv
<1> QED  BY <1>1, <1>2, PublishingStep

\* What a diff review passed is what is published, however many revisions, links and
\* confirmations are under way on the same record.
THEOREM ReviewedPinsArePublished == Spec => ReviewCoversWhatIsPublished
<1> DEFINE Covered ==
      \A w \in Worker : CommitPublish(w) /\ NeedsDiffReview(request[w].record) =>
          LET r == request[w].record
              rev == revisions'[r][publishedRevision'[r]]
          IN  {rev.source, rev.target} \subseteq published
<1>1. ASSUME TInv, PinInv, LockInv, NEW w \in Worker, CommitPublish(w), NEW r, r = request[w].record,
             NeedsDiffReview(r)
      PROVE  {revisions'[r][publishedRevision'[r]].source, revisions'[r][publishedRevision'[r]].target}
                \subseteq published
  <2>1. r \in Record /\ status[r] # None /\ Publishing(w)
    BY <1>1, RequestFields DEF CommitPublish, RecordsExist, NamesRecord, TInv, Publishing
  <2>2. revisions[r] \in Seq(Revision) /\ revisions[r] # <<>>
    BY <1>1, <2>1 DEF TInv, TypeOK
  <2>3. Publish(r, revisions[r]) /\ UNCHANGED catalog
    BY <1>1 DEF CommitPublish
  <2>4. {TipOf(r).source, TipOf(r).target} \subseteq published
    BY <1>1, <2>1 DEF LockInv
  <2>5. SamePins((PublishedOf(r))', revisions[r][Len(revisions[r])])
    BY <1>1, <2>1, <2>2, <2>3, PublishQuotes DEF PinInv
  <2> QED  BY <2>4, <2>5 DEF SamePins, TipOf, PublishedOf
<1>2. TInv /\ PinInv /\ LockInv /\ [Next]_vars => [Covered]_vars
  BY <1>1
<1>3. ReviewCoversWhatIsPublished <=> [][Covered]_vars
  BY DEF ReviewCoversWhatIsPublished
<1> HIDE DEF Covered
<1> QED
  BY TypeInit, TypeStep, PinsInit, PinsStep, LockInit, LockStep, <1>2, <1>3, PTL DEF Spec


=============================================================================
