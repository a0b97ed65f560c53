--------------------------- MODULE ChangeRecords ---------------------------
(***************************************************************************)
(* Amendment-service: change records, their revisions, the catalog         *)
(* snapshots a published revision quotes, and the needs_review flag that   *)
(* says a quote has been overtaken by an editorial correction.             *)
(*                                                                         *)
(* A record is locked by publishing it and by appending to it, not by      *)
(* reading it: linkTarget, confirmQuotes and refreshReviewStatus read      *)
(* first, ask the catalog over HTTP, and write later.                      *)
(***************************************************************************)
EXTENDS Naturals, Sequences

CONSTANTS
    Record,        \* amendments
    Law,           \* legal versions
    Version,       \* catalog snapshots
    LawOf,         \* the legal version each snapshot transcribes
    Worker,        \* requests in flight
    MaxRevisions,  \* bound on the revisions of one record
    None           \* the absent value (NULL)

ASSUME LawAssumption == LawOf \in [Version -> Law]
ASSUME BoundAssumption == MaxRevisions \in Nat \ {0}
ASSUME NoneAssumption ==
    None \notin Record \cup Version \cup Worker \cup {"draft", "published", "withdrawn"}

VARIABLES
    tip,                \* catalog: the live editorial tip of each legal version
    published,          \* catalog: the published snapshots
    events,             \* editor outbox: corrections whose refresh is not delivered yet
    status,             \* amendments.status, None for a record that does not exist
    revisions,          \* amendment_revisions, in chain order
    publishedRevision,  \* amendments.published_revision_id, 0 for NULL
    review,             \* amendments.review_status
    snapshotReview,     \* what initialRevisionUsesSnapshotReview answers
    request,            \* what each worker has read so far
    quotedTips          \* history: the pins were live tips when they became public

vars == <<tip, published, events, status, revisions, publishedRevision, review,
          snapshotReview, request, quotedTips>>
catalog == <<tip, published, events>>
amendments == <<status, publishedRevision, review, snapshotReview, quotedTips>>

Opt(S) == S \cup {None}

\* wording names the revision that authored the text, however often it was copied since.
\* insertRevision and markRevisionPublished both set reviewed_*_tip_id to these pins.
Revision == [source: Opt(Version), target: Opt(Version), wording: 1..MaxRevisions,
             publishedTip: BOOLEAN]

Request ==
    [phase: {"linking", "confirming"}, record: Record, source: Opt(Version),
     target: Opt(Version), wording: 1..MaxRevisions] \cup
    [phase: {"publishing"}, record: Record] \cup
    [phase: {"refreshing"}, event: Version, live: Version] \cup
    [phase: {"marking"}, event: Version, flagged: SUBSET Record]

TypeOK ==
    /\ tip \in [Law -> Opt(Version)]
    /\ published \subseteq Version
    /\ events \subseteq published
    /\ status \in [Record -> Opt({"draft", "published", "withdrawn"})]
    /\ revisions \in [Record -> Seq(Revision)]
    /\ publishedRevision \in [Record -> Nat]
    /\ \A r \in Record : /\ publishedRevision[r] <= Len(revisions[r])
                         /\ Len(revisions[r]) <= MaxRevisions
                         /\ status[r] # None => revisions[r] # <<>>
    /\ review \in [Record -> {"ok", "needs_review"}]
    /\ snapshotReview \in [Record -> BOOLEAN]
    /\ request \in [Worker -> Opt(Request)]
    /\ quotedTips \in [Record -> BOOLEAN]

Init ==
    /\ tip = [l \in Law |-> None]
    /\ published = {}
    /\ events = {}
    /\ status = [r \in Record |-> None]
    /\ revisions = [r \in Record |-> <<>>]
    /\ publishedRevision = [r \in Record |-> 0]
    /\ review = [r \in Record |-> "ok"]
    /\ snapshotReview = [r \in Record |-> FALSE]
    /\ request = [w \in Worker |-> None]
    /\ quotedTips = [r \in Record |-> FALSE]

(***************************************************************************)
(* The catalog, as amendment-service asks for it.                          *)
(***************************************************************************)
\* currentVersionId ?: id
LiveTip(v) == IF v = None \/ tip[LawOf[v]] = None THEN v ELSE tip[LawOf[v]]

IsLiveTip(pin) == pin = None \/ tip[LawOf[pin]] = pin
QuotesTips(rev) == IsLiveTip(rev.source) /\ IsLiveTip(rev.target)

\* A correction moves the tip and leaves a refresh in the editor's outbox; the first
\* transcription of a legal version does not.
PublishVersion(v) ==
    /\ v \notin published
    /\ published' = published \cup {v}
    /\ tip' = [tip EXCEPT ![LawOf[v]] = v]
    /\ events' = IF tip[LawOf[v]] = None THEN events ELSE events \cup {v}
    /\ UNCHANGED <<revisions, request, amendments>>

(***************************************************************************)
(* Drafting.                                                               *)
(***************************************************************************)
PublishedOf(r) == revisions[r][publishedRevision[r]]
TipOf(r) == revisions[r][Len(revisions[r])]

Locked_Never(r) == FALSE   \* mutant: publishing does not lock the record

\* SELECT ... FOR UPDATE: held while a publication asks for diffs and live tips.
Locked(r) == \E w \in Worker : /\ request[w] # None
                               /\ request[w].phase = "publishing"
                               /\ request[w].record = r

Coalesce(a, b) == IF a # None THEN a ELSE b

\* A new tip; pins that are not given are inherited from the tip under the lock.
Appended(r, source, target, wording) ==
    Append(revisions[r], [source |-> Coalesce(source, TipOf(r).source),
                          target |-> Coalesce(target, TipOf(r).target),
                          wording |-> wording, publishedTip |-> FALSE])

CreateAmendment(r, source, target, exactLinks) ==
    /\ status[r] = None
    /\ status' = [status EXCEPT ![r] = "draft"]
    /\ revisions' = [revisions EXCEPT ![r] =
         <<[source |-> source, target |-> target, wording |-> 1, publishedTip |-> FALSE]>>]
    /\ snapshotReview' = [snapshotReview EXCEPT ![r] = target # None \/ exactLinks]
    /\ UNCHANGED <<catalog, publishedRevision, review, request, quotedTips>>

AppendRevision(r, source, target) ==
    /\ status[r] # None /\ ~Locked(r)
    /\ Len(revisions[r]) < MaxRevisions
    /\ revisions' = [revisions EXCEPT ![r] = Appended(r, source, target, Len(@) + 1)]
    /\ UNCHANGED <<catalog, amendments, request>>

Begin(w, r) == request[w] = None /\ request' = [request EXCEPT ![w] = r]
Finish(w) == request' = [request EXCEPT ![w] = None]

\* The tip is read without the lock; the units of both snapshots are then asked for.
BeginLink(w, r, source, target) ==
    /\ status[r] \in {"draft", "published"}
    /\ Begin(w, [phase |-> "linking", record |-> r, source |-> Coalesce(source, TipOf(r).source),
                 target |-> target, wording |-> TipOf(r).wording])
    /\ UNCHANGED <<catalog, amendments, revisions>>

CommitLink(w) ==
    /\ request[w] # None /\ request[w].phase = "linking"
    /\ LET q == request[w]
       IN  /\ ~Locked(q.record)
           /\ Len(revisions[q.record]) < MaxRevisions
           /\ revisions' = [revisions EXCEPT ![q.record] =
                              Appended(q.record, q.source, q.target, q.wording)]
    /\ Finish(w)
    /\ UNCHANGED <<catalog, amendments>>

\* Every refusal rolls its transaction back; a lost caller or a timeout ends the same way.
EndRequest(w) ==
    /\ request[w] # None
    /\ Finish(w)
    /\ UNCHANGED <<catalog, amendments, revisions>>

(***************************************************************************)
(* Publication.                                                            *)
(***************************************************************************)
PinsFree_SourceOnly(r, rev) ==   \* mutant: no unique index on the target pin
    \A q \in Record \ {r} : \A i \in DOMAIN revisions[q] :
        LET other == revisions[q][i]
        IN  other.publishedTip => (rev.source # None => other.source # rev.source)

\* The partial unique indexes over is_published_tip.
PinsFree(r, rev) ==
    \A q \in Record \ {r} : \A i \in DOMAIN revisions[q] :
        LET other == revisions[q][i]
        IN  other.publishedTip =>
              /\ rev.source # None => other.source # rev.source
              /\ rev.target # None => other.target # rev.target

MarkPublished(revs, n) == [i \in DOMAIN revs |-> [revs[i] EXCEPT !.publishedTip = (i = n)]]

Public(r) == status[r] = "published"
SamePins(a, b) == a.source = b.source /\ a.target = b.target

ReviewAfter_AlwaysOk(r, rev) == "ok"   \* mutant: every publication clears the flag

\* A first publication is "ok", and so is one that changes the pins.
ReviewAfter(r, rev) ==
    IF publishedRevision[r] # 0 /\ SamePins(PublishedOf(r), rev) THEN review[r] ELSE "ok"

Publish(r, revs) ==
    LET n == Len(revs)
        rev == revs[n]
    IN  /\ PinsFree(r, rev)
        /\ revisions' = [revisions EXCEPT ![r] = MarkPublished(revs, n)]
        /\ status' = [status EXCEPT ![r] = "published"]
        /\ publishedRevision' = [publishedRevision EXCEPT ![r] = n]
        /\ review' = [review EXCEPT ![r] = ReviewAfter(r, rev)]
        /\ quotedTips' = [quotedTips EXCEPT ![r] =
                            IF Public(r) /\ SamePins(PublishedOf(r), rev) THEN @ ELSE QuotesTips(rev)]

AtPublishedTip(r) == status[r] = "published" /\ publishedRevision[r] = Len(revisions[r])

NeedsDiffReview(r) ==
    snapshotReview[r] /\ TipOf(r).source # None /\ TipOf(r).target # None

\* requireComplete; whether every candidate has been decided is left to the reviewers.
DiffReviewComplete(r) ==
    /\ status[r] \in {"draft", "published"}
    /\ \A pin \in {TipOf(r).source, TipOf(r).target} : pin \in published /\ LiveTip(pin) = pin

BeginPublish(w, r) ==
    /\ status[r] # None /\ ~Locked(r)
    /\ ~AtPublishedTip(r)
    /\ NeedsDiffReview(r) => DiffReviewComplete(r)
    /\ Begin(w, [phase |-> "publishing", record |-> r])
    /\ UNCHANGED <<catalog, amendments, revisions>>

CommitPublish(w) ==
    /\ request[w] # None /\ request[w].phase = "publishing"
    /\ Publish(request[w].record, revisions[request[w].record])
    /\ Finish(w)
    /\ UNCHANGED <<catalog, snapshotReview>>

\* The published revision and the live tips of what it quotes, before any lock.
BeginConfirm(w, r) ==
    /\ publishedRevision[r] # 0
    /\ Begin(w, [phase |-> "confirming", record |-> r, source |-> LiveTip(PublishedOf(r).source),
                 target |-> LiveTip(PublishedOf(r).target), wording |-> PublishedOf(r).wording])
    /\ UNCHANGED <<catalog, amendments, revisions>>

CommitConfirm(w) ==
    /\ request[w] # None /\ request[w].phase = "confirming"
    /\ LET q == request[w]
       IN  /\ ~Locked(q.record)
           /\ Len(revisions[q.record]) < MaxRevisions
           /\ Publish(q.record, Appended(q.record, q.source, q.target, q.wording))
    /\ Finish(w)
    /\ UNCHANGED <<catalog, snapshotReview>>

Withdrawn(revs) == [i \in DOMAIN revs |-> [revs[i] EXCEPT !.publishedTip = FALSE]]

\* Whatever the status; published_revision_id stays.  Two statements, the flags and then the
\* status, without a lock before them.  They are one step here: both a publication and the
\* first statement write every revision, so a publication comes before both or after both.
WithdrawAmendment(r) ==
    /\ status[r] # None /\ ~Locked(r)
    /\ revisions' = [revisions EXCEPT ![r] = Withdrawn(@)]
    /\ status' = [status EXCEPT ![r] = "withdrawn"]
    /\ UNCHANGED <<catalog, publishedRevision, review, snapshotReview, request, quotedTips>>

(***************************************************************************)
(* refreshReviewStatus, called for the editor's outbox.                    *)
(***************************************************************************)
BeginRefresh(w, v) ==
    /\ v \in events
    /\ Begin(w, [phase |-> "refreshing", event |-> v, live |-> LiveTip(v)])
    /\ UNCHANGED <<catalog, amendments, revisions>>

PinStale_SourceOnly(rev, v, live) ==   \* mutant: the target pin is not looked at
    rev.source # None /\ rev.source # live /\ LawOf[rev.source] = LawOf[v]

PinStale(rev, v, live) ==
    \E pin \in {rev.source, rev.target} : pin # None /\ pin # live /\ LawOf[pin] = LawOf[v]

ListRefresh(w) ==
    /\ request[w] # None /\ request[w].phase = "refreshing"
    /\ request' = [request EXCEPT ![w] =
         [phase |-> "marking", event |-> @.event,
          flagged |-> {r \in Record : status[r] = "published" /\
                                      PinStale(PublishedOf(r), @.event, @.live)}]]
    /\ UNCHANGED <<catalog, amendments, revisions>>

\* The outbox may not hear of it and call again.
MarkNeedsReview(w, heard) ==
    /\ request[w] # None /\ request[w].phase = "marking"
    /\ \A r \in request[w].flagged : ~Locked(r)
    /\ review' = [r \in Record |-> IF r \in request[w].flagged THEN "needs_review" ELSE review[r]]
    /\ events' = IF heard THEN events \ {request[w].event} ELSE events
    /\ Finish(w)
    /\ UNCHANGED <<tip, published, status, revisions, publishedRevision, snapshotReview, quotedTips>>

Next ==
    \/ \E v \in Version : PublishVersion(v)
    \/ \E r \in Record, source, target \in Opt(Version), exactLinks \in BOOLEAN :
         CreateAmendment(r, source, target, exactLinks)
    \/ \E r \in Record, source, target \in Opt(Version) : AppendRevision(r, source, target)
    \/ \E w \in Worker, r \in Record, source \in Opt(Version), target \in Version :
         BeginLink(w, r, source, target)
    \/ \E w \in Worker, r \in Record : BeginPublish(w, r) \/ BeginConfirm(w, r)
    \/ \E w \in Worker : CommitLink(w) \/ CommitPublish(w) \/ CommitConfirm(w) \/ EndRequest(w)
    \/ \E r \in Record : WithdrawAmendment(r)
    \/ \E w \in Worker, v \in Version : BeginRefresh(w, v)
    \/ \E w \in Worker : ListRefresh(w)
    \/ \E w \in Worker, heard \in BOOLEAN : MarkNeedsReview(w, heard)

Spec == Init /\ [][Next]_vars

\* The outbox polls for ever, a call to the catalog or to amendment-service does not
\* fail for ever, and no request hangs: every client has a timeout.
Delivery ==
    /\ \A v \in Version : SF_vars(\E w \in Worker : BeginRefresh(w, v))
    /\ \A w \in Worker : /\ SF_vars(ListRefresh(w))
                         /\ SF_vars(MarkNeedsReview(w, TRUE))
                         /\ WF_vars(EndRequest(w))

LiveSpec == Spec /\ Delivery

(***************************************************************************)
(* Properties.                                                             *)
(***************************************************************************)
\* ADR 0005 (5): a snapshot is quoted by at most one public record forward and one
\* backward.  The indexes are over is_published_tip, readers follow
\* published_revision_id: the two have to agree through withdrawals and republications.
OneRecordPerSnapshot ==
    \A r, q \in Record : r # q /\ Public(r) /\ Public(q) =>
        /\ PublishedOf(r).source # None => PublishedOf(r).source # PublishedOf(q).source
        /\ PublishedOf(r).target # None => PublishedOf(r).target # PublishedOf(q).target

\* A record that needs a diff review is never published with a pin that is no published
\* snapshot, whatever is appended to it between the review, which saw the live tips, and the
\* commit: the record's lock spans both.
ReviewCoversWhatIsPublished ==
    [][\A w \in Worker : CommitPublish(w) /\ NeedsDiffReview(request[w].record) =>
          LET r == request[w].record
              rev == revisions'[r][publishedRevision'[r]]
          IN  {rev.source, rev.target} \subseteq published]_vars

Stale(r) == Public(r) /\ quotedTips[r] /\ ~QuotesTips(PublishedOf(r))

\* A public record whose quotes were live when it was published and no longer are is
\* flagged, or the outbox still owes the refresh that will flag it.
OvertakenQuotesAreOwedAFlag ==
    \A r \in Record : Stale(r) /\ review[r] = "ok" =>
        \E v \in events, pin \in {PublishedOf(r).source, PublishedOf(r).target} :
            pin # None /\ LawOf[pin] = LawOf[v]

\* And the flag arrives, unless the record is withdrawn or its quotes change first.
OvertakenQuotesAreFlagged ==
    \A r \in Record : Stale(r) ~> (review[r] = "needs_review" \/ ~Stale(r))

=============================================================================
