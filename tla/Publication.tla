---------------------------- MODULE Publication ----------------------------
(***************************************************************************)
(* Publishing an approved edit session, across four databases.             *)
(*                                                                         *)
(* EditorService.publish is one editor transaction that holds the session  *)
(* row and calls the catalog, the content-service and amendment-service in *)
(* turn.  What those calls did stays when the transaction rolls back, and  *)
(* a call that timed out may still be carried out later.  Structured       *)
(* sessions survive that: their request is pinned, their change record and *)
(* their successor are found again by the session id.  Legacy sessions     *)
(* copy the source article by article and have nothing to go back to.      *)
(*                                                                         *)
(* The catalog is the module CatalogVersions, for one constitution; change *)
(* records and content keep only what publication reads and writes.        *)
(***************************************************************************)
EXTENDS Naturals, FiniteSets

CONSTANTS
    Session,        \* edit sessions; a structured session's id is its publish attempt
    Structured,     \* the sessions with an ordered draft
    Version,        \* version ids
    Base,           \* the published version the history starts with
    Record,         \* change record ids
    StaffRecord,    \* records the staff drafted beforehand, which a request may name
    StaffSource,    \* what those drafts quote, the base (with exact unit links) or None
    Label,          \* version labels
    AttemptLabel,   \* "<source label>-<first digits of the attempt>"
    BaseLabel,
    Constitution,
    Settings,       \* the one structural settings revision in force
    MaxFailures,    \* bound on timeouts, crashes and failed calls
    MaxRevisions,   \* bound on what staff write and decide on change records by hand
    None            \* the absent value (NULL)

ASSUME SessionAssumption == Structured \subseteq Session
ASSUME BaseAssumption == Base \in Version
ASSUME RecordAssumption == StaffRecord \subseteq Record /\ StaffSource \in {Base, None}
ASSUME LabelAssumption ==
    /\ Label \subseteq Nat
    /\ BaseLabel \in Label
    /\ AttemptLabel \in [Structured -> Label \ {BaseLabel}]
    /\ \A s, t \in Structured : AttemptLabel[s] = AttemptLabel[t] => s = t
ASSUME FailureAssumption == MaxFailures \in Nat /\ MaxRevisions \in Nat
ASSUME NoneAssumption ==
    None \notin Session \cup Version \cup Record \cup Label \cup {Constitution, Settings}

VARIABLES
    row, reservation,   \* catalog, see CatalogVersions
    content,            \* content-service: how far a version's text is written
    record,             \* amendment-service
    session,            \* edit_sessions and the VERSION_PUBLISHED event
    reviewed,           \* every finding of the session's diff review is decided
    pinned,             \* structured_publish_jobs.request_hash
    recorded,           \* structured_publish_jobs.amendment_id
    publishing,         \* the open publish transaction of each session
    outbox,             \* undelivered AMENDMENT_LINK_REQUESTED events, by session
    delivery,           \* what completeLink does next for a session
    late,               \* calls given up by their caller that may yet be carried out
    failures,
    revisions           \* how often staff wrote or decided on a record by hand

remote == <<row, reservation, content, record>>
editor == <<session, reviewed, pinned, recorded, publishing, outbox, delivery>>
bounds == <<failures, revisions>>
vars == <<row, reservation, content, record, editor, late, bounds>>

Catalog == INSTANCE CatalogVersions WITH
    Constitution <- {Constitution}, Attempt <- Session, Evidence <- {}, Settings <- {Settings},
    HopWord <- {"legal", "editorial_correction"},
    settingsOwner <- [s \in {Settings} |-> Constitution],
    currentSettings <- [c \in {Constitution} |-> Settings]

Opt(S) == S \cup {None}
Hops == {"legal", "editorial_correction"}

\* A request names an existing record, or None: the record reviewed with the session,
\* or no record at all for a correction.
Payload == Opt(StaffRecord)

NoSession == [status |-> "none", source |-> None, hop |-> "none", successor |-> None]
NoRecord == [status |-> "absent", source |-> None, target |-> None, newer |-> TRUE,
             quoted |-> None, shown |-> None, exact |-> FALSE, decided |-> FALSE,
             attempt |-> None, once |-> FALSE, takenOver |-> FALSE]

\* source and target are the pins of the newest revision, decided: its snapshot review is
\* complete; newer: it is not the published one, whose pins are quoted and shown; once:
\* there is a published one; exact: the record began with exact unit links.  takenOver is
\* history: staff gave the record other rows or pins, or published it without a target.
RecordRow == [status: {"absent", "draft", "published", "withdrawn"}, source: Opt(Version),
              target: Opt(Version), newer: BOOLEAN, quoted: Opt(Version), shown: Opt(Version),
              exact: BOOLEAN, decided: BOOLEAN, attempt: Opt(Structured), once: BOOLEAN,
              takenOver: BOOLEAN]

Phases == {"source", "record", "reserve", "write", "edit", "publish", "deliver"}
Calls == {"create", "reserve", "write", "edit", "publish", "link", "show"}

Transaction == [phase: Phases, payload: Payload, reserved: BOOLEAN, record: Opt(Record),
                successor: Opt(Version)]
OwedLink == [record: Record, target: Version]
LateCall == [op: Calls, session: Session, record: Opt(Record), version: Opt(Version)]

\* NULL is no row: an open transaction, an owed event and a reservation differ from None.
ASSUME RowAssumption ==
    None \notin Transaction /\ None \notin OwedLink /\ None \notin Catalog!Reservation

TypeOK ==
    /\ Catalog!TypeOK
    /\ content \in [Version -> {"empty", "copied", "edited", "sealed"}]
    /\ record \in [Record -> RecordRow]
    /\ session \in [Session -> [status: {"none", "approved", "published"}, source: Opt(Version),
                                hop: Hops \cup {"none"}, successor: Opt(Version)]]
    /\ reviewed \in [Structured -> BOOLEAN]
    /\ pinned \in [Structured -> [set: BOOLEAN, payload: Payload]]
    /\ recorded \in [Structured -> Opt(Record)]
    /\ publishing \in [Session -> Opt(Transaction)]
    /\ outbox \in [Session -> Opt(OwedLink)]
    /\ delivery \in [Session -> {"read", "link", "review", "show"}]
    /\ late \subseteq LateCall
    /\ failures \in 0..MaxFailures
    /\ revisions \in 0..MaxRevisions

Init ==
    /\ row = [v \in Version |->
                IF v = Base THEN [status |-> "published", constitution |-> Constitution,
                                  label |-> BaseLabel, hop |-> "initial", pred |-> None,
                                  legal |-> Base, evidence |-> None, settings |-> Settings,
                                  hold |-> None]
                ELSE Catalog!AbsentRow]
    /\ reservation = [s \in Session |-> None]
    /\ content = [v \in Version |-> IF v = Base THEN "sealed" ELSE "empty"]
    /\ record = [r \in Record |->
                   IF r \in StaffRecord
                   THEN [NoRecord EXCEPT !.status = "draft", !.source = StaffSource,
                                         !.exact = StaffSource # None]
                   ELSE NoRecord]
    /\ session = [s \in Session |-> NoSession]
    /\ reviewed = [s \in Structured |-> FALSE]
    /\ pinned = [s \in Structured |-> [set |-> FALSE, payload |-> None]]
    /\ recorded = [s \in Structured |-> None]
    /\ publishing = [s \in Session |-> None]
    /\ outbox = [s \in Session |-> None]
    /\ delivery = [s \in Session |-> "read"]
    /\ late = {}
    /\ failures = 0
    /\ revisions = 0

(***************************************************************************)
(* What the other services do when they are called.                        *)
(***************************************************************************)
AttemptOf_Always(s) == s   \* mutant: legacy sessions send their id as well

AttemptOf(s) == IF s \in Structured THEN s ELSE None

Fresh(S) == CHOOSE x \in S : TRUE   \* ids are random: any unused one will do

\* POST /constitutions/{c}/amendments: the attempt finds its record again.
RecordOf(s) == {r \in Record : s \in Structured /\ record[r].attempt = s}
Unused == {r \in Record : record[r].status = "absent"}
CreatedRecord(s) == IF RecordOf(s) # {} THEN Fresh(RecordOf(s)) ELSE Fresh(Unused)

CreateRecord(s) ==
    /\ RecordOf(s) \cup Unused # {}   \* bound: as many records as the constant has
    /\ record' = IF RecordOf(s) # {} THEN record
                 ELSE [record EXCEPT ![CreatedRecord(s)] =
                         [NoRecord EXCEPT !.status = "draft", !.source = session[s].source,
                                          !.exact = s \in Structured, !.attempt = AttemptOf(s)]]

\* Existing records must be unlinked drafts for this source (requireAmendmentForHop).
UnlinkedDraft(s, r) ==
    /\ record[r].status = "draft"
    /\ record[r].target = None
    /\ record[r].source \in {None, session[s].source}

\* POST /constitutions/{c}/versions.  The legacy caller tries "-1", "-2", ... until a
\* label is free; the label of an attempt is its own.
LegacyLabel == Label \ {AttemptLabel[s] : s \in Structured}
FreeLabels == {n \in LegacyLabel : ~Catalog!LabelTaken(Constitution, n)}
SuccessorRequest(s) ==
    [label |-> IF s \in Structured THEN AttemptLabel[s] ELSE Fresh(FreeLabels),
     pred |-> session[s].source, hop |-> session[s].hop, evidence |-> None,
     settings |-> IF s \in Structured THEN Settings ELSE None, job |-> None]
NewVersion == Fresh(Version \ Catalog!Present)

Replayed(s) == Catalog!Replays(Constitution, SuccessorRequest(s), AttemptOf(s))
CatalogAccepts(s) ==
    /\ s \notin Structured => FreeLabels # {}   \* bound: as many labels as the constant has
    /\ ~Replayed(s) =>
        /\ Catalog!Present # Version   \* bound: as many versions as the constant has
        /\ ~Catalog!LabelTaken(Constitution, SuccessorRequest(s).label)
        /\ \E legal \in Version :
             Catalog!ChainAllows(Constitution, NewVersion, SuccessorRequest(s), session[s].hop,
                                 legal)
Successor(s) == IF Replayed(s) THEN reservation[s].version ELSE NewVersion
CreateSuccessor(s) ==
    IF Replayed(s) THEN UNCHANGED <<row, reservation>>
    ELSE Catalog!CreateDraftVersion(Constitution, NewVersion, SuccessorRequest(s), AttemptOf(s))

\* PUT /versions/{v}/content under the attempt; a sealed version answers a repeat.
MaySeal(v) == content[v] = "sealed" \/ (row[v].status = "draft" /\ content[v] = "empty")
\* replaceArticles, then updateArticle for each draft: only while the version is a draft.
MayCopy(v) == row[v].status = "draft"
MayEdit(v) == row[v].status = "draft" /\ content[v] # "empty"

Ready_ValidContent(v) == TRUE   \* mutant: a reserved version is published without its receipt

\* requireReady for a reserved version, requireValidContent for any other.
Ready(v) ==
    IF \E s \in Session : reservation[s] # None /\ reservation[s].version = v
    THEN content[v] = "sealed" ELSE content[v] # "empty"

PublishCatalogRow(v) ==
    /\ Ready(v)
    /\ Catalog!PublishVersion(v, [publisher |-> TRUE, importer |-> FALSE], None)

\* link-target and the staff pages append a revision, which nobody has decided on yet;
\* link-target takes drafts and published records only.
Appended(r, source, target) ==
    [record[r] EXCEPT !.source = source, !.target = target, !.newer = TRUE, !.decided = FALSE]
MayLink(r) == record[r].status \in {"draft", "published"}
LinkTarget(s, r, v) == record' = [record EXCEPT ![r] = Appended(r, session[s].source, v)]

LiveTip(v) == v # None => v = Catalog!FindEditorialTip(row[v].legal, Catalog!Published)

\* Decisions are taken on a revision that is not public yet.
Reviewable(r) == MayLink(r) /\ (record[r].status = "published" => record[r].newer)

\* A record with exact links and both pins is compared with the live snapshots again.
ReviewStands(r) ==
    record[r].exact /\ record[r].source # None /\ record[r].target # None =>
        /\ Reviewable(r) /\ record[r].decided
        /\ LiveTip(record[r].source) /\ LiveTip(record[r].target)

\* At most one public record for a source, and at most one for a target.
PinsFree(r, source, target) ==
    \A q \in Record \ {r} : record[q].status = "published" =>
        /\ source # None => record[q].quoted # source
        /\ target # None => record[q].shown # target

\* Publishing shows the newest pins, whatever the status was.
MayShow(r) ==
    /\ record[r].status = "published" => record[r].newer
    /\ ReviewStands(r)
    /\ PinsFree(r, record[r].source, record[r].target)
Shown(q) == [q EXCEPT !.status = "published", !.newer = FALSE, !.quoted = q.source,
                      !.shown = q.target, !.once = TRUE, !.takenOver = @ \/ q.target = None]
ShowRecord(r) == record' = [record EXCEPT ![r] = Shown(@)]

(***************************************************************************)
(* The publish transaction.  Any refusal rolls the editor back.            *)
(***************************************************************************)
At(s, phase) == publishing[s] # None /\ publishing[s].phase = phase
Advance(s, phase) == publishing' = [publishing EXCEPT ![s].phase = phase]
Abort(s) ==
    /\ publishing' = [publishing EXCEPT ![s] = None]
    /\ delivery' = [delivery EXCEPT ![s] = "read"]
Legal(s) == session[s].hop = "legal"

\* A session drafted, reviewed and approved on any version of the catalog.
OpenSession(s, source, hop) ==
    /\ session[s].status = "none"
    /\ source \in Catalog!Present
    /\ session' = [session EXCEPT ![s] = [status |-> "approved", source |-> source, hop |-> hop,
                                          successor |-> None]]
    /\ reviewed' = IF s \in Structured THEN [reviewed EXCEPT ![s] = hop = "legal"] ELSE reviewed
    /\ UNCHANGED <<remote, pinned, recorded, publishing, outbox, delivery, late, bounds>>

\* requireComplete of the session's own diff review, on the first request and on every retry.
FindingsDecided(s) == Legal(s) => reviewed[s]

BeginPublish_Repins(s, payload) ==   \* mutant: the newest request replaces the pinned one
    /\ session[s].status = "approved" /\ publishing[s] = None
    /\ ~Legal(s) => payload = None
    /\ s \in Structured => session[s].source \in Catalog!Published /\ FindingsDecided(s)
    /\ pinned' = IF s \in Structured
                 THEN [pinned EXCEPT ![s] = [set |-> TRUE, payload |-> payload]] ELSE pinned
    /\ publishing' = [publishing EXCEPT ![s] =
         [phase |-> "source", payload |-> payload, reserved |-> reservation[s] # None,
          record |-> None, successor |-> None]]
    /\ UNCHANGED <<remote, session, reviewed, recorded, outbox, delivery, late, bounds>>

\* The row lock, prepare and requireComplete, the reservation lookup and the pin, which is
\* committed at once.
BeginPublish(s, payload) ==
    /\ session[s].status = "approved" /\ publishing[s] = None
    /\ ~Legal(s) => payload = None
    /\ s \in Structured =>
         /\ session[s].source \in Catalog!Published
         /\ FindingsDecided(s)
         /\ pinned[s].set => pinned[s].payload = payload
    /\ pinned' = IF s \in Structured
                 THEN [pinned EXCEPT ![s] = [set |-> TRUE, payload |-> payload]] ELSE pinned
    /\ publishing' = [publishing EXCEPT ![s] =
         [phase |-> "source", payload |-> payload, reserved |-> reservation[s] # None,
          record |-> None, successor |-> None]]
    /\ UNCHANGED <<remote, session, reviewed, recorded, outbox, delivery, late, bounds>>

\* requireTips: a correction looks at published rows only, a legal hop at drafts too.
AtTips(s) ==
    LET source == session[s].source
        legal == row[source].legal
    IN  /\ Catalog!FindEditorialTip(legal, Catalog!Published) \in {None, source}
        /\ Legal(s) => /\ Catalog!EditorialSuccessors(source, Catalog!Present) = {}
                       /\ legal \in Catalog!LegalTips(Constitution, Catalog!Present)

CheckSource_Again(s) ==   \* mutant: a retry has to pass the tip checks again
    /\ At(s, "source")
    /\ IF AtTips(s)
       THEN Advance(s, IF Legal(s) THEN "record" ELSE "reserve") /\ UNCHANGED delivery
       ELSE Abort(s)
    /\ UNCHANGED <<remote, session, reviewed, pinned, recorded, outbox, late, bounds>>

CheckSource(s) ==
    /\ At(s, "source")
    /\ IF publishing[s].reserved \/ AtTips(s)
       THEN Advance(s, IF Legal(s) THEN "record" ELSE "reserve") /\ UNCHANGED delivery
       ELSE Abort(s)
    /\ UNCHANGED <<remote, session, reviewed, pinned, recorded, outbox, late, bounds>>

HasRecorded(s) == s \in Structured /\ recorded[s] # None

\* recordAmendment is committed at once.
UseRecord(s, r) ==
    /\ publishing' = [publishing EXCEPT ![s].record = r, ![s].phase = "reserve"]
    /\ recorded' = IF s \in Structured THEN [recorded EXCEPT ![s] = r] ELSE recorded
    /\ UNCHANGED delivery

ResolveRecord(s) ==
    /\ At(s, "record")
    /\ LET named == publishing[s].payload
       IN  \/ HasRecorded(s) /\ UseRecord(s, recorded[s]) /\ UNCHANGED record
           \/ /\ ~HasRecorded(s) /\ named # None
              /\ IF UnlinkedDraft(s, named) THEN UseRecord(s, named)
                 ELSE Abort(s) /\ UNCHANGED recorded
              /\ UNCHANGED record
           \/ ~HasRecorded(s) /\ named = None /\ CreateRecord(s) /\ UseRecord(s, CreatedRecord(s))
    /\ UNCHANGED <<row, reservation, content, session, reviewed, pinned, outbox, late, bounds>>

Reserve(s) ==
    /\ At(s, "reserve")
    /\ IF CatalogAccepts(s)
       THEN /\ CreateSuccessor(s)
            /\ publishing' = [publishing EXCEPT ![s].phase = "write",
                                                ![s].successor = Successor(s)]
            /\ UNCHANGED delivery
       ELSE Abort(s) /\ UNCHANGED <<row, reservation>>
    /\ UNCHANGED <<content, record, session, reviewed, pinned, recorded, outbox, late, bounds>>

\* The text as a call leaves it: sealed under the attempt, or copied and then edited.
Stored(s, phase, v) ==
    content' = [content EXCEPT ![v] = IF s \in Structured THEN "sealed"
                                      ELSE IF phase = "edit" THEN "edited" ELSE "copied"]
Storable(s, phase, v) ==
    IF phase = "edit" THEN MayEdit(v) ELSE IF s \in Structured THEN MaySeal(v) ELSE MayCopy(v)

Write(s, phase) ==
    /\ At(s, phase)
    /\ LET v == publishing[s].successor
       IN  IF Storable(s, phase, v)
           THEN /\ Stored(s, phase, v)
                /\ Advance(s, IF phase = "edit" \/ s \in Structured THEN "publish" ELSE "edit")
                /\ UNCHANGED delivery
           ELSE Abort(s) /\ UNCHANGED content
    /\ UNCHANGED <<row, reservation, record, session, reviewed, pinned, recorded, outbox, late, bounds>>

\* Status, VERSION_PUBLISHED and the link event of an undelivered link, in one commit.
Commit(s, owed) ==
    /\ session' = [session EXCEPT ![s].status = "published",
                                  ![s].successor = publishing[s].successor]
    /\ outbox' = [outbox EXCEPT ![s] = owed]
    /\ Abort(s)

PublishVersion(s) ==
    /\ At(s, "publish")
    /\ IF Ready(publishing[s].successor)
       THEN /\ PublishCatalogRow(publishing[s].successor)
            /\ Advance(s, "deliver") /\ UNCHANGED delivery
       ELSE Abort(s) /\ UNCHANGED <<row, reservation>>
    /\ UNCHANGED <<content, record, session, reviewed, pinned, recorded, outbox, late, bounds>>

\* A correction asks for the refresh of review flags, made or left to the outbox (see
\* ChangeRecords), and commits.
Refresh(s) ==
    /\ At(s, "deliver") /\ ~Legal(s)
    /\ Commit(s, None)
    /\ UNCHANGED <<remote, reviewed, pinned, recorded, late, bounds>>

(***************************************************************************)
(* completeLink, called inside the transaction and by the outbox poller.   *)
(***************************************************************************)
Delivering(s) == (At(s, "deliver") /\ Legal(s)) \/ outbox[s] # None
Link(s) ==
    IF At(s, "deliver")
    THEN [record |-> publishing[s].record, target |-> publishing[s].successor]
    ELSE outbox[s]

Delivered(s) ==
    IF At(s, "deliver") THEN Commit(s, None)
    ELSE /\ outbox' = [outbox EXCEPT ![s] = None]
         /\ delivery' = [delivery EXCEPT ![s] = "read"]
         /\ UNCHANGED <<session, publishing>>

Undelivered_Forgets(s) ==   \* mutant: the failed link is marked as published
    IF At(s, "deliver") THEN Commit(s, None)
    ELSE /\ delivery' = [delivery EXCEPT ![s] = "read"]
         /\ UNCHANGED <<session, publishing, outbox>>

\* The transaction commits all the same; the event stays in the outbox.
Undelivered(s) ==
    IF At(s, "deliver") THEN Commit(s, Link(s))
    ELSE /\ delivery' = [delivery EXCEPT ![s] = "read"]
         /\ UNCHANGED <<session, publishing, outbox>>

Continue(s, step) ==
    delivery' = [delivery EXCEPT ![s] = step] /\ UNCHANGED <<session, publishing, outbox>>

\* A structured session carries its decisions over before the record is published.
AfterLink(s) == IF s \in Structured THEN "review" ELSE "show"

ReadRecord_NotResumed(s) ==   \* mutant: a record that has a target cannot be linked
    /\ Delivering(s) /\ delivery[s] = "read"
    /\ LET seen == record[Link(s).record]
       IN  IF seen.status = "published" /\ seen.target = Link(s).target THEN Delivered(s)
           ELSE IF seen.target # None THEN Undelivered(s)
           ELSE Continue(s, "link")
    /\ UNCHANGED <<remote, reviewed, pinned, recorded, late, bounds>>

ReadRecord(s) ==
    /\ Delivering(s) /\ delivery[s] = "read"
    /\ LET seen == record[Link(s).record]
           there == seen.target = Link(s).target
       IN  IF seen.status = "published"
           THEN IF there THEN Delivered(s) ELSE Undelivered(s)
           ELSE Continue(s, IF there THEN AfterLink(s) ELSE "link")
    /\ UNCHANGED <<remote, reviewed, pinned, recorded, late, bounds>>

SetTarget(s) ==
    /\ Delivering(s) /\ delivery[s] = "link"
    /\ IF MayLink(Link(s).record)
       THEN LinkTarget(s, Link(s).record, Link(s).target) /\ Continue(s, AfterLink(s))
       ELSE Undelivered(s) /\ UNCHANGED record
    /\ UNCHANGED <<row, reservation, content, reviewed, pinned, recorded, late, bounds>>

\* transferReview: the record's findings get the session's decisions, an exclusion nobody
\* acknowledged too.  Rows that staff rewrote may be found again, or not.
TransferReview(s) ==
    /\ Delivering(s) /\ delivery[s] = "review"
    /\ LET r == Link(s).record
       IN  \/ /\ Reviewable(r)
              /\ \E b \in BOOLEAN :
                   /\ b = reviewed[s] \/ record[r].takenOver
                   /\ record' = [record EXCEPT ![r].decided = b]
              /\ Continue(s, "show")
           \/ /\ ~Reviewable(r) \/ record[r].takenOver
              /\ Undelivered(s) /\ UNCHANGED record
    /\ UNCHANGED <<row, reservation, content, reviewed, pinned, recorded, late, bounds>>

PublishRecord(s) ==
    /\ Delivering(s) /\ delivery[s] = "show"
    /\ IF MayShow(Link(s).record)
       THEN ShowRecord(Link(s).record) /\ Delivered(s)
       ELSE Undelivered(s) /\ UNCHANGED record
    /\ UNCHANGED <<row, reservation, content, reviewed, pinned, recorded, late, bounds>>

(***************************************************************************)
(* Failures: a crash or a timeout ends the caller; the call it was making  *)
(* was never received, or is carried out at some later time.  A decision   *)
(* names the revision it is about: one still on its way is as good as lost *)
(* or done, and done is the failure of the call that follows it.           *)
(***************************************************************************)
Call(op, s) ==
    {[op |-> op, session |-> s, record |-> publishing[s].record,
      version |-> publishing[s].successor]}

LinkCall(s) ==
    IF delivery[s] \in {"read", "review"} THEN {}
    ELSE {[op |-> delivery[s], session |-> s, record |-> Link(s).record,
           version |-> Link(s).target]}

OpenCalls(s) ==
    IF Delivering(s) THEN LinkCall(s)
    ELSE IF At(s, "record")
    THEN IF HasRecorded(s) \/ publishing[s].payload # None THEN {} ELSE Call("create", s)
    ELSE IF publishing[s].phase \in {"reserve", "write", "edit", "publish"}
    THEN Call(publishing[s].phase, s)
    ELSE {}

Fail_Swallowed(s) ==   \* mutant: a timeout of the catalog publication is caught as well
    /\ failures < MaxFailures
    /\ failures' = failures + 1
    /\ publishing[s] # None /\ At(s, "publish")
    /\ late' \in {late, late \cup OpenCalls(s)}
    /\ Advance(s, "deliver")
    /\ UNCHANGED <<remote, session, reviewed, pinned, recorded, outbox, delivery, revisions>>

Fail(s) ==
    /\ failures < MaxFailures
    /\ failures' = failures + 1
    /\ publishing[s] # None \/ outbox[s] # None
    /\ late' \in {late, late \cup OpenCalls(s)}
    /\ IF Delivering(s)
       THEN Undelivered(s) \/ (At(s, "deliver") /\ Abort(s) /\ UNCHANGED <<session, outbox>>)
       ELSE Abort(s) /\ UNCHANGED <<session, outbox>>
    /\ UNCHANGED <<remote, reviewed, pinned, recorded, revisions>>

Effect(c) ==
    LET s == c.session
        v == c.version
        r == c.record
    IN  \/ /\ \/ c.op = "create" /\ CreateRecord(s)
              \/ c.op = "link" /\ MayLink(r) /\ LinkTarget(s, r, v)
              \/ c.op = "show" /\ MayShow(r) /\ ShowRecord(r)
           /\ UNCHANGED <<row, reservation, content>>
        \/ /\ c.op \in {"write", "edit"} /\ Storable(s, c.op, v) /\ Stored(s, c.op, v)
           /\ UNCHANGED <<row, reservation, record>>
        \/ /\ \/ c.op = "reserve" /\ CatalogAccepts(s) /\ CreateSuccessor(s)
              \/ c.op = "publish" /\ PublishCatalogRow(v)
           /\ UNCHANGED <<content, record>>

\* A call that is refused when it is carried out has no effect: it is as good as lost.
CarryOut(c) ==
    /\ late' = late \ {c}
    /\ Effect(c) \/ UNCHANGED remote
    /\ UNCHANGED <<editor, bounds>>

(***************************************************************************)
(* Staff, through the other services' own pages, and a page of the         *)
(* session's review that was left open.                                    *)
(***************************************************************************)
\* decide checks the draft's generation, not the session's status; it needs the row lock.
DecideFinding(s) ==
    /\ session[s].status # "none" /\ Legal(s) /\ publishing[s] = None
    /\ reviewed' = [reviewed EXCEPT ![s] = ~@]
    /\ UNCHANGED <<remote, session, pinned, recorded, publishing, outbox, delivery, late, bounds>>

WithdrawRecord(r) ==
    /\ record[r].status # "absent"
    /\ record' = [record EXCEPT ![r].status = "withdrawn"]
    /\ UNCHANGED <<row, reservation, content, editor, late, bounds>>

\* A revision by hand.  A pin that is not given is inherited.
Revised(r, source, target, sameRows) ==
    [Appended(r, source, target) EXCEPT
        !.takenOver = @ \/ ~sameRows \/ source # record[r].source \/ target # record[r].target]

ReviseRecord(r, source, target, sameRows) ==
    /\ record[r].status # "absent" /\ revisions < MaxRevisions
    /\ source \in Catalog!Present \cup {record[r].source}
    /\ target \in Catalog!Present \cup {record[r].target}
    /\ record' = [record EXCEPT ![r] = Revised(r, source, target, sameRows)]
    /\ revisions' = revisions + 1
    /\ UNCHANGED <<row, reservation, content, editor, late, failures>>

\* The record's own review page.
DecideRecord(r) ==
    /\ Reviewable(r) /\ revisions < MaxRevisions
    /\ record[r].source # None /\ record[r].target # None
    /\ record' = [record EXCEPT ![r].decided = ~@]
    /\ revisions' = revisions + 1
    /\ UNCHANGED <<row, reservation, content, editor, late, failures>>

PublishRecordByHand(r) ==
    /\ record[r].status # "absent"
    /\ MayShow(r) /\ ShowRecord(r)
    /\ UNCHANGED <<row, reservation, content, editor, late, bounds>>

\* confirmQuotes: what is public, again, with the live tips of its pins, and no review.
Confirmed(pin, newest) ==
    IF pin = None THEN newest
    ELSE LET live == Catalog!FindEditorialTip(row[pin].legal, Catalog!Published)
         IN  IF live \in Catalog!Published THEN live ELSE pin

ConfirmQuotes(r) ==
    /\ record[r].status # "absent" /\ record[r].once
    /\ LET source == Confirmed(record[r].quoted, record[r].source)
           target == Confirmed(record[r].shown, record[r].target)
       IN  /\ PinsFree(r, source, target)
           /\ record' = [record EXCEPT ![r] = Shown(Revised(r, source, target, TRUE))]
    /\ UNCHANGED <<row, reservation, content, editor, late, bounds>>

PublishByHand(v) ==
    /\ row[v].status = "draft"
    /\ PublishCatalogRow(v)
    /\ UNCHANGED <<content, record, editor, late, bounds>>

Step(s) ==
    \/ CheckSource(s) \/ ResolveRecord(s) \/ Reserve(s) \/ Write(s, "write") \/ Write(s, "edit")
    \/ PublishVersion(s) \/ Refresh(s) \/ ReadRecord(s) \/ SetTarget(s)
    \/ TransferReview(s) \/ PublishRecord(s)

\* What staff do to change records on the pages of amendment-service.
ByHand ==
    \/ \E r \in Record : DecideRecord(r) \/ PublishRecordByHand(r) \/ ConfirmQuotes(r)
    \/ \E r \in Record, source, target \in Opt(Version), sameRows \in BOOLEAN :
         ReviseRecord(r, source, target, sameRows)

Others ==
    \/ \E s \in Session, source \in Version, hop \in Hops : OpenSession(s, source, hop)
    \/ \E s \in Session : Fail(s)
    \/ \E c \in late : CarryOut(c)
    \/ \E s \in Structured : DecideFinding(s)
    \/ \E r \in Record : WithdrawRecord(r)
    \/ \E v \in Version : PublishByHand(v)

Begin == \E s \in Session, payload \in Payload : BeginPublish(s, payload)
Next == Begin \/ (\E s \in Session : Step(s)) \/ Others \/ ByHand

Spec == Init /\ [][Next]_vars

(***************************************************************************)
(* Fairness.  Requests and polls end: every client has a timeout, and the  *)
(* failures are bounded.  The outbox polls for ever, and a publisher       *)
(* repeats the request of a structured session until it is published; the  *)
(* two never run for one session, so that one condition says both.         *)
(***************************************************************************)
GoOn(s) == Step(s) \/ \E payload \in Payload : BeginPublish(s, payload)
LiveSpec == Spec /\ \A s \in Structured : WF_vars(GoOn(s))

(***************************************************************************)
(* Properties.                                                             *)
(***************************************************************************)
IsPublished(s) == session[s].status = "published"

\* A session that reads as published published a successor of its own: public, of the
\* session's hop and source, with the reviewed text in it and not just the copied one.
SuccessorIsOwn ==
    /\ \A s \in Session : IsPublished(s) =>
         LET v == session[s].successor
         IN  /\ row[v].status = "published"
             /\ row[v].pred = session[s].source
             /\ row[v].hop = session[s].hop
             /\ content[v] = IF s \in Structured THEN "sealed" ELSE "edited"
    /\ \A s, t \in Session : s # t /\ IsPublished(s) /\ IsPublished(t)
                               => session[s].successor # session[t].successor

\* However often an attempt is retried, it acts on one request: it never creates a second
\* change record, nor one besides the existing record its request names.
AttemptKeepsItsRequest ==
    \A s \in Structured :
        /\ Cardinality(RecordOf(s)) <= 1
        /\ RecordOf(s) # {} => pinned[s] = [set |-> TRUE, payload |-> None]
        /\ recorded[s] # None => recorded[s] \in RecordOf(s) \cup {pinned[s].payload}

\* Once nothing is owed any more, the record a legal attempt created has been published
\* with the hop the attempt published, though staff may have withdrawn it since.  Records
\* that staff took over are theirs.
DeliveredMeansLinked ==
    \A s \in Structured : \A r \in RecordOf(s) :
        IsPublished(s) /\ outbox[s] = None /\ ~record[r].takenOver =>
            /\ record[r].status \in {"published", "withdrawn"}
            /\ record[r].quoted = session[s].source
            /\ record[r].shown = session[s].successor

\* Stages of an attempt, for PublishAttempt.
StageOf(s) ==
    IF IsPublished(s) THEN "closed"
    ELSE IF reservation[s] = None THEN "open"
    ELSE IF row[reservation[s].version].status = "published" THEN "public"
    ELSE IF content[reservation[s].version] = "sealed" THEN "written"
    ELSE "reserved"

Workflow == INSTANCE PublishAttempt WITH
    Attempt <- Structured,
    stage <- [s \in Structured |-> StageOf(s)],
    successor <- [s \in Structured |->
                    IF reservation[s] = None THEN None ELSE reservation[s].version]

\* The distributed publication implements the retryable workflow of ADR 0006.
ImplementsWorkflow == Workflow!Spec

\* ADR 0006: a failure leaves a recoverable draft, and retries reuse it.  Repeating the
\* request ends in a published session, whatever was done before the failure, unless the
\* session's own review stays unfinished.  (From every state on: a review that was
\* unfinished once excuses nothing that comes after it.)
ReservedAttemptsClose ==
    \A s \in Structured : reservation[s] # None ~> IsPublished(s) \/ ~FindingsDecided(s)

Withdrawn(r) == record[r].status = "withdrawn"
Overtaken(r) == record[r].exact /\ ~(LiveTip(record[r].source) /\ LiveTip(record[r].target))

\* Staff stand in the way of a delivery: they withdrew or took over the record, published
\* another one with its pins, or left the review it is to carry over unfinished.
Blocked(s, r) ==
    \/ Withdrawn(r) \/ record[r].takenOver \/ ~FindingsDecided(s)
    \/ ~PinsFree(r, session[s].source, session[s].successor)

\* A link that was left to the outbox is made, unless staff stand in its way, or a
\* correction overtakes one of the snapshots it was reviewed against.
OwedLinksAreMade ==
    \A s \in Structured : \A r \in Record :
        outbox[s] # None /\ r \in RecordOf(s)
            ~> outbox[s] = None \/ Blocked(s, r) \/ Overtaken(r)

\* ADR 0006: "A failure after catalog publication resumes outbox delivery and amendment
\* linking": whatever versions are published in the meantime.
LinkingResumes ==
    \A s \in Structured : \A r \in Record :
        outbox[s] # None /\ r \in RecordOf(s) ~> outbox[s] = None \/ Blocked(s, r)

=============================================================================
