# Constitution Atlas, verified

TLA+ specifications of Constitution Atlas: the publication core of its services, the editor
and the review that lead to a publication, and what the gateway makes of published versions and
of anonymous requests. They are model-checked with TLC and, for the safety properties that
carry them, proved with TLAPS for any number of versions, sessions, pages and requests. The
reference is the Kotlin code under `src/services` and the TypeScript under
`src/apps/gateway-web`; documents are quoted only where the code and a document disagree.

Contents: [the system](#the-system), [the modules](#the-modules), [the runs](#the-runs),
[fairness](#fairness), [the proofs](#the-proofs), [what the code does
differently](#where-code-and-documents-disagree), [not modelled](#not-modelled),
[the plan](#the-plan).

## The system

Ten Spring services, each with a PostgreSQL database of its own, call each other over HTTP.
There is no broker and no distributed transaction: `@Transactional` is one local transaction,
and an HTTP call made inside one is not undone when it rolls back. Every client has a timeout
(`TimedRestClients.kt`), so a caller may give up on a call that is carried out later. What must
happen after a commit is written to an outbox table in the same transaction and polled.

    Caddy --> gateway (pages, admission, quota)      MCP server
          |       |
          |       +--> identity-service (setup, policy, sessions)
          |
    editor-service ----> catalog-service <---- ingestion-service
     |  outbox            |  ^    ^                |  outbox
     |                    v  |    |                |
     +-------------> content-service <-------------+
     |                            |
     +-------------> amendment-service
     +-------------> search-service, audit-service (from the outboxes)

| Component | State it keeps | Operations | What is hard | What makes it correct |
|---|---|---|---|---|
| **Catalog versions** (catalog-service) | version rows with two link axes, hop, label, evidence, settings pin; publish-attempt reservations; import holds | create draft, publish, public list, latest | two axes in one table; drafts published in any order; retries with other settings in force; readiness read over HTTP before the commit | both axes linear; one tip per question; a retry gets its own version; rows never rewritten |
| **Content snapshots** (content-service) | a snapshot per version (generation, roots, canonical), the legacy node tables, publish receipts | ordered save, legacy writes, import seal, refresh on read, readiness | every write asks the catalog first and commits later; a read writes | a receipt goes on describing its roots; published roots stand; no save is lost |
| **Change records** (amendment-service) | records, append-only revisions, published pointer, review flag | create, append, link, publish, confirm, withdraw, refresh | reads before locks; flags set from lists read earlier; two records of one law that hold the unique indexes | a snapshot is quoted by one public record; an overtaken quote is flagged in the end; what was reviewed is published |
| **Publication of edit sessions** (editor-service) | session status, `structured_publish_jobs`, the outbox | publish, retry, link delivery | one handler over four databases, with timeouts, crashes and late calls at any point | an attempt has one request, one record, one successor; a reserved attempt closes once its review is complete; what is owed is delivered unless staff or a correction stand in its way |
| **Structural settings revisions** (catalog-service) | numbered revisions, current pointer, pins | save, impact | usage read over HTTP under a lock that content writes ignore | a pin is never reinterpreted |
| **Editor outbox** | undelivered events | poll the ten oldest, deliver, mark | no backoff: ten failing events hold up the rest | every event is delivered, in an order that does no harm |
| **Edit sessions and review** (editor-service) | sessions, draft operations with generations, source evidence, stored findings and decisions | open, edit, review, approve, discard | the generation and the operations read in two statements without a lock; decisions whose rows are edited under them | an approved session was reviewed as it stands |
| **Review queue** (gateway) | what each page shows, and its request | show, decide, acknowledge | pages opened before a save, a review or an approval | what is acknowledged was shown; no decision is lost |
| **Draft replay** (editor-service), **structured editor pages** (gateway) | the stored draft; a page's tree, operations, undo and redo stacks, loaded nodes | replay; type, join, divide, move, undo, save, reload | two programs that never exchange the tree they both compute; late reads of parts of it | the page shows what the service will make of its operations |
| **Gateway admission and anonymous quota** | token buckets in memory; requests in flight | setup gate, rate limit, page admission | several questions per request, each of which may fail, over state that changes between them, asked by handlers that read different credentials; one bucket all share | served and refused for a reason; both budgets hold in every interval |
| **Version line and compare page** (gateway) | none: functions of the public list and of two snapshots | order, latest, path, rows, word diff | predecessors that are no longer listed; amendments that were not recorded or have been undone | readers follow the law; net changes are shown, and nothing else |
| **Import jobs**, **uploads**, **delivery** (ingestion-service) | jobs with status, attempt and claim; upload chunks; outbox | stage, confirm, prepare, review, publish, reconcile | leases taken over while the first owner still writes; a draft created before its id is recorded | one version per job; a claim ends by its owner; a job always ends |
| **Setup proposals**, **constitution registry** | proposals with revision and lease; constitutions with receipts | edit, confirm, replayed creation | a lease that runs out during confirmation | a constitution is created once |
| **Migration runs** | numbered attempts over a dependency graph | claim, prepare, finish | dependencies read before the claim | a result rests on finished dependencies |
| **Identity** (sessions, second factors, keys, tokens, OAuth clients, security audit outbox) | user rows, sessions, challenges, grants | sign in, change, revoke, audit | a credential change between check and issue | a revoked credential issues nothing; audit at least once |
| **Annotations**, **documents**, **legal pages**, **BibTeX**, **translation** | revision chains, caches | append, publish | optimistic revisions | independent of publication |
| **Search index**, **audit log** | derived index; deduplicated log | rebuild; append | a rebuild mixes answers of different moments | an event is kept once; the last reindex event wins |
| **Ordered content rules and diff** | none | validate, diff | pure tree algorithms | a diff applied to its source gives its target |
| **MCP server**, **other gateway pages**, **edge and deployment scripts** | none of the domain's | forward, render | none | none |

The rows from catalog versions to publication, and from edit sessions to the compare page, are
modelled; the reasons for the others are under [not modelled](#not-modelled). The core was
chosen first because publication is what the system is for. Then came the way an author's text
takes to it (editor page, replay, review), what visitors see of it (line of versions,
comparison), and what decides whether they see it (admission, quota).

## The modules

Each component is one module with one action per operation. An operation that reads over HTTP
or without a lock and commits later is split where it stops seeing what others do; what it does
under a row lock, in one transaction, is one action. Identifiers, texts and trees are model
values; a list of tips ordered by a timestamp is a set from which any member may be taken.

| Module | Models | Composes |
|---|---|---|
| `CatalogVersions` | `catalog-service`: version creation, publication, the public reads, settings pins | |
| `ContentSnapshots` | `content-service`: snapshots, receipts, and the requests in flight around them | |
| `ChangeRecords` | `amendment-service`: records, revisions, review flags, the refresh owed by the outbox | |
| `Publication` | `editor-service`: publishing an approved session, retries, late calls, link delivery | `Catalog == INSTANCE CatalogVersions` for one constitution |
| `PublishAttempt` | the abstract workflow: open, reserved, written, public, closed | implemented by `Publication` |
| `VersionLine` | gateway: the line of versions, the latest, the paths between two | extends `CatalogVersions`, whose public list it reads |
| `DiffReview` | editor-service and the review queue: findings, decisions, submission, approval | |
| `DraftReplay` | the replay of operations over a tree, in the page and in the service | |
| `DraftEditor` | gateway and editor-service: the pages of a session and its stored draft | extends `DraftReplay`, which both sides apply |
| `AnonymousLimit` | gateway: the token buckets | |
| `Admission` | gateway and identity-service: the questions a request meets on its way | extends `AnonymousLimit`, whose answer it asks for |
| `Consolidation` | gateway: the rows of the comparison of two versions | |
| `TextDiff` | gateway: the marking of words in a row | |
| `MC*` | constants, symmetry and instances of the small models | |
| `*_proofs` | the theorems | |

**CatalogVersions.** `row[v]` is a `constitution_versions` row, `reservation[a]` the attempt's
version with the request it described, `settingsOwner` and `currentSettings` the settings
revisions. `CreateDraftVersion` is the whole of `CatalogVersionCreation.create`: the replay of
a reserved request, the label check, the hop word's canonical form, the tip guards, the insert
and the reservation, all under the constitution's row lock and so one action. `PublishVersion`
takes no such lock: it has the import hold, the actor and the partial unique indexes as guards,
and the readiness check, which belongs to the content-service, is modelled in
`ContentSnapshots` and `Publication`. `SaveSettings` adds a revision and moves the pointer.
Drafts may be published in any order, because the code never looks at the predecessor's status.

**ContentSnapshots.** `snapshot[v]` has the generation, the resolved roots, and the `canonical`
and `dirty` flags; `nodes[v]` is the legacy write model that the next reader folds into a new
generation (`Refreshed`); `receipt[a]` is the ordered publish receipt; `request[w]` is what a
request in flight has read. Saves (`ReadToEdit`, `BeginSave`, `CommitSave`), legacy writes
(`BeginLegacyWrite`, `CommitLegacyWrite`) and publication (`BeginPublish`, `CommitPublish`) are
split at the HTTP call; `SealImport` and the catalog's `CreateDraft` are single steps;
`EndRequest` is any refusal, timeout or lost caller. An attempt that repeats a save it already
has a receipt for changes nothing, so it has no action.

**ChangeRecords.** `revisions[r]` is the append-only chain with the pins of each revision and
its `is_published_tip` flag, `publishedRevision[r]` the pointer readers follow, `review[r]` the
flag, `events` the corrections whose refresh is still in the editor's outbox. The unique indexes
stand over the flags of the revisions and the readers over the pointer, which is why the module
keeps both. `BeginLink`/`CommitLink`, `BeginConfirm`/`CommitConfirm` and
`BeginRefresh`/`ListRefresh`/`MarkNeedsReview` are split at the read, the catalog call and the
write. `BeginPublish` takes the row lock (`Locked`) and holds it until `CommitPublish`.
`quotedTips` is a history variable: whether the pins were the live tips when they became public.

**Publication.** Sessions start approved: drafting and review are another component, an approved
session can neither be discarded nor edited, and `OpenSession` puts one on any version.
`BeginPublish` takes the session row, requires the session's own review to be complete
(`FindingsDecided`), on the first request and on every retry, and pins the request, which `pin()`
commits by itself (`REQUIRES_NEW`), as `recordAmendment()` does in `ResolveRecord`. Then come, in the handler's
order, `CheckSource`, `ResolveRecord` for a legal hop, `Reserve`, `Write` (a legacy session copies and then
edits), `PublishVersion`, and the delivery: `Refresh` for a correction, `ReadRecord`,
`SetTarget`, `TransferReview` (the session's decisions are carried over to the record's findings)
and `PublishRecord` for a link. A refusal anywhere rolls the editor back and leaves
the other services as they are. `Fail` is a crash or a timeout: it ends the caller, and the call
it was making may stay in `late`, from where `CarryOut` performs it at any later time, if its
guard still admits it. A failed delivery commits the session and leaves the link in `outbox`,
where the same steps are retried. A page of the session's review that was left open decides after
the approval, and after the reservation too (`DecideFinding`): `decide` does not look at the
session's status. Staff use the pages of the other services at any time: they publish a version
(`PublishByHand`) and withdraw, revise, decide on, publish and confirm any change record, the
attempt's own included (`WithdrawRecord`, `ReviseRecord`, `DecideRecord`, `PublishRecordByHand`,
`ConfirmQuotes`). The catalog part is `CatalogVersions` itself, with its tip guards and its replay;
the content is reduced to how far a version's text is written, and a record to its newest pins,
its public pins, and whether the findings of its newest revision are decided. `takenOver` is
history: staff gave the record other rows or pins than the attempt had, or published it before it
had a target. What such a record does to its delivery is staff's doing: one published without a
target is refused for ever as pointing to *another target* (`AmendmentActions.kt:18`), one whose
rows are gone has nothing the decisions could be mapped to. Three things are simpler than the
code: the refusals that depend on the request's text alone (`requests.resolve`, no drafts in a
legacy session) are those of requests that are never pinned; the findings of the record are those
of the session, as long as its rows are; and the checks of exact unit links are left out.

**PublishAttempt** has five stages and no failures. `StageOf` in `Publication` derives an
attempt's stage from four services' states; the run checks that every step of the distributed
program is a step of the abstract one or changes nothing it sees.

**VersionLine** adds no variable: `versions(c)` is what the catalog lists (one row per legal
version, under its newest published correction), `orderVersions` the chain the pages walk or the
order of dates when there is none, `versionPath` the trail of predecessors, and `ComparePage` what
is shown for two ids. A path is followed through the ids that are listed, which is where a
predecessor that has been corrected since goes missing.

**DiffReview.** `drafts[n]` is what the draft differs in after its n-th save, `run` the stored
findings, `decisions[f]` the decision on a finding with the fingerprint it was made on, and
`pages[p]` what a page shows with its request. `Ask` and `ReadOperations` are the two reads of the
first transaction, which takes no lock: the generation comes from one, the operations from the
other. `Answer` and `Refuse` are the second, under the session's row lock, which compares the
generation it was given with the session's, refreshes what is stored, and takes the decision; a
refusal takes its refresh back. It never looks at the session's status. `submitReview`,
`approve` and `publish` prepare and refresh under the lock. Reasons of exclusion are left out,
and a draft is a law's; `shown`, `author`, `approved` and `overruled` are history.

**DraftReplay and DraftEditor.** A tree is a sequence of top-level nodes, each with a list of
texts; every unit has an id and a token, the id of the operation that wrote it last.
`applyOperation` is what the page does to its tree and `replay` what the service does with the
list, which also refuses: an operation names the token it expects. The tree that the last
operation leaves is validated once more (`validate`): of what `StructuredDraftEngine.validate`
looks at, the data of the model tells one thing apart, that every reference names a unit of the
tree, and nothing on the page looks for it. In `DraftEditor`, a command
(`Type`, `Join`, `Divide`, ...) is a transaction that emits one to three operations; rewording
a unit twice replaces the operation instead (`Coalesces`), and what is typed, joined and divided in
one `Canvas` within 900 ms is one entry of the undo stack (`Groups`; what is pasted or cut by
command is taken as typed after and before a pause). `travel` is undo and redo. Reads
(`AskRoot`, `AskPreview`) are answered later (`ReadArrives`) and merged into the tree and into
every snapshot of both stacks. `Submit` leaves the page as it is until `Reload`; `Accept` and
`Refuse` are `StructuredDraftService.save` under the session's lock. `Close` is whatever keeps
a session from being saved or lets it be saved again: submission for review, changes the reviewer
asks for, a plain-body draft, a source or settings that are not the pinned ones. A page of a closed
session can still be edited in the model; what it saves is refused. That a source which is a draft
itself changes before the first save pins it is left out.

**AnonymousLimit and Admission.** A bucket's tokens are counted in units of 1/window, so that
all amounts are integers; the code's tolerance of 1e-9 for binary fractions is then not needed. `anonymousApiLimit`
refills, decides, charges and evicts in one step, as the code does without an await. `Tick` may
jump, `SetBack` moves the wall clock back, `Restart` forgets the buckets, and `Observe` starts a
new interval for the history counters. `Admission` follows a request through Caddy's two
questions to the gateway and the gateway's own; `facts`, `worths` and `policies` are history: what was true
at some time since the request arrived. A request carries a session `cookie`, a `bearer`, both or
neither, and the three handlers read them differently: the setup gate takes the administrator's
word from either (`GateCookie`, `GateBearer`), the rate-limit route verifies the bearer only when
there is no cookie (`Checked`), the proxy knows nothing but cookies (`ProxyAdministrator`,
`ProxySession`). So a client with a valid bearer is let through to `/api/reader` by the edge of a
closed site and refused by the proxy. A call tried out from the documentation counts
for the rate-limit route as the call it stands for (`originalUri`): a closed site serves
`/api/docs/identity/...` as it serves `/api/identity/...`, while the setup gate looks at the path
as it is.

**Consolidation and TextDiff.** `Rows` is the list of the compare page, a function of the two
documents and of the passages that recorded amendments name; the actions edit the later document
in every way that keeps it well formed. `TextDiff` has an action for each loop of `diffText`.

## The runs

A run may hold several *instances*: the initial states are those of each, and the variable
`instance` of the MC module keeps a behavior in its own, so that questions that need different
small worlds share one run. The specifications themselves do not know of it.

| Run | Instances | Distinct states | What it shows |
|---|---|---|---|
| `catalog_versions` | *axes*: one constitution, 4 versions, no attempts; *history*: 1 or 2 constitutions, 2 versions, 2 attempts, 3 settings, one evidence set | 133,299 | both axes stay linear however drafts interleave; published in the order of the law there is one latest version; the gateway's line, latest version and paths are those of the law; a replay is answered with the version it describes; no row is withdrawn or rewritten |
| `version_comparison` | as `catalog_versions` | violation | see below |
| `content_snapshots` | *races*: one version, 2 requests; *successor*: 2 reserved drafts, one request; one valid and one invalid tree, generations to 3 | 734,263 | seals stand, a reserved version is published complete, from a published source, and never changes; no save is lost |
| `change_records` | *pins*: 2 records, one version, one request; *flags*: one record, two versions of one law, 2 requests; *pages*: one ambiguous finding, the pages of the owner and of a reviewer, 2 records of disjoint rows; *findings*: two findings, the reviewer's page, 3 records; 2 saves | 1,684,959 | no snapshot is publicly quoted twice; an overtaken quote is flagged or owed; what a diff review passed is published; what is in review is decided as it reads, what is acknowledged was shown, no decision is lost without a cause |
| `change_record_delivery` | *flags* with one request and fair delivery | 66,993 | an overtaken quote is flagged in the end |
| `review_after_approval` | as `change_records`, no ambiguous finding | violation | see below |
| `publication` | *sessions*: a structured and a legacy session, 3 versions, a staff draft and a free record, one failure; *staff*: the same with a legal attempt, a correction beside it, and what staff do to records by hand, a failure and one revision or decision, or one of them if the correction is made | 344,104 | the distributed publication implements `PublishAttempt`; an attempt keeps its request, record and successor; a reserved attempt closes, if its review is complete; an owed link is made, if nobody stands in its way |
| `publication_link` | both without the staff draft, and without revisions or decisions by hand | violation | see below |
| `draft_editor` | *editing*: one page, three nodes, 2 commands, undo, redo and late reads; *removing*: one page that joins or removes one of two sentences, of which the second refers to the first, and saves, while the session closes and opens again; *saving*: two pages, one node, one command between two reloads, 2 saves, 2 forms in flight, and a session that may close before the first save | 176,534 | the canvas is what replaying the operations gives, in every snapshot; a save of an open session is refused only when overtaken or when it leaves a reference dangling, and stores what was shown |
| `draft_overlap` | one page, one command, overlapping reads | violation | see below |
| `admission` | *rules*: one request for anything, with any credentials, at most seven facts, worths and policies observed while it runs, and after an answer of the quota an anonymous sign-in from the documentation; *requests*: two anonymous requests, revised policies; *quota*: three clients, two buckets, clock to 1 second in half seconds | 425,959 | a request is served and refused for a reason; both budgets hold in every interval; who waits as told is served; the buckets are bounded |
| `comparison` | *rows*: three edits, recorded or not, of two articles, a section and two texts, with an article and a text to add; *words*: all pairs of wordings of up to 4 words out of 3 | 66,252 | net changes are shown, but for what disappears from a passage that moved, and nothing else is; both wordings are shown whole, and as little as can be is marked |

**Why the bounds are enough to be interesting.** Four versions are the least with two legal
versions and a correction on each, and with three legal versions in a row; the path that is
broken needs a law drafted on a correction and a second correction. Two constitutions and two
attempts are the least with a replay for the wrong constitution and for another attempt's
version. In the content-service, two requests race at the window one leaves open; generation 3
leaves room for two writes before the one that loses. Two records and one version suffice for a
conflict of pins. A record with two revisions can be public while a newer draft exists. In the
review, two saves are the least that let a page show, read or decide on a generation that has
passed; the findings read differently or disappear between them; the records cover them, cover
one, or leave a row out. In `publication` three versions are the base and a successor for each
session; one failure reaches every prefix of the handler, each followed by a complete retry, and
each call it leaves behind can arrive before, during or after that retry. What staff do by hand
needs one revision or decision beside a failure that leaves the link to the outbox; publishing,
confirming and withdrawing are not counted. For admission, two credentials are of different worth
in *rules*, since of two equal ones it does not matter which is read, a credential that is not sent
stays worthless, and the documentation is switched only while a call to it runs, because no other
question reads the switch. In the editor,  three
nodes have two boundaries, so a join can take away what the third node refers to while that node
is not loaded; a second command edits, undoes, moves or divides what the first left. The pages of these instances are opened on the
first node; what happens on another is told under
[disagreements](#where-code-and-documents-disagree). Two clients fill the
two buckets and the third evicts one; the clock passes a window boundary, is set back and passes
it again. Three edits reword, move and undo: the third can restore what the first two changed.
Wordings of four words out of three repeat words at both ends, and reach both sides of the
limit `MAX_DIFF_CELLS`, which is lowered to 12 cells. `MaxGeneration`, `MaxRevisions`,
`MaxFailures`, `MaxCommands`, `MaxSaves`, `MaxPending`, `MaxEdits`, `MaxLength`, `MaxTime`,
`MaxIssued`, `MaxRun`, `MaxFacts` and the sizes of the sets are the only bounds, and each is a guard of the
actions that allocate or of the instance; the proofs hold for every value of those the
specifications declare.

**Deadlock.** `publication` and `admission` are checked for deadlock. In the first staff may
always withdraw a record, so the question of interest there, whether a *session* stops, is asked
by its liveness properties. The other configurations say `CHECK_DEADLOCK FALSE`, because a
catalog in which every id is used, a snapshot at its generation bound, a published draft, an
outbox with nothing to deliver or a finished comparison really stops.

**Symmetry** is declared only in runs of safety properties, over ids that the code compares for
equality alone; the labels and generations, which are compared as numbers, are not permuted,
nor is anything in the liveness runs.

Each property of a passing run has a mutant beside the definition it changes: a guard dropped, a
check made too early, a lock not taken, a failure swallowed. TLC finds the property violated
under each, in the same instance.

## Fairness

*Safety needs none*, and the specifications `Spec` have none.

`ChangeRecords!LiveSpec` says that the outbox polls for ever and that the calls it makes do not
fail for ever. It is **strong** fairness on starting a refresh, listing and marking, since a
request may fail and free the worker any number of times, so that each is enabled again and
again and not continuously; and **weak** fairness on ending a request, because every client has
a timeout. Nothing is assumed of authors, publishers or of the catalog. `MCLiveSpec` takes the
same conjuncts (`Delivery`) to the instance of one record.

`Publication!LiveSpec` is weak fairness of `GoOn(s)` for structured sessions: a transaction goes
on to its next call or aborts (a timeout ends every call), a publisher repeats the request of a session
that is not published yet, and the outbox polls for ever. A review that is unfinished stops both, and
nothing says that staff finish it: `ReservedAttemptsClose` and `OwedLinksAreMade` name it among
their ends (at any later moment, not just at the first). The three never compete for one
session: the poller has work only after the session is published. `BeginPublish` may be repeated
with another request: pinning refuses it, and the fairness does not say which request is sent.
Legacy sessions have no fairness: nothing is promised of them.

## The proofs

TLAPS checks the following for every value of the constants that the named `ASSUME`s admit. These
say only that the absent value is no id and no row, that labels and bounds are natural numbers,
that the labels attempts reserve are distinct and not the base version's, that a valid tree is a
tree, that every snapshot transcribes one law, that rates are positive, that findings have units,
that no two passages of a document share an id,
that the tree a session starts from has distinct units, and that an editor page is opened on a node
of the draft. A bound is a constant like
any other here, so the theorems hold for any number of failures, generations and commands.

| Module | Theorem | Property |
|---|---|---|
| `CatalogVersions_proofs` | `TypeCorrect` | `TypeOK` |
| | `AxesLinear` | `LinearAxes` |
| | `TipsUnique` | `UniqueTips` |
| | `AppendOnly` | `HistoryIsAppendOnly` |
| | `RetriesAreFaithful` | `ReservationFaithful` |
| | `IndexNeverRejects` | the publication of an admitted draft never fails at a unique index |
| | `OrderedHistoryEnds` | `OrderedHistoryHasOneLatest` |
| | `ReadersAreFollowing` | `ReadersFollowTheLaw` |
| | `LineEndsAlways` | `LineEndsInLatest` |
| `ContentSnapshots_proofs` | `TypeCorrect` | `TypeOK` |
| | `SealsStand` | `SealedRootsStand` |
| | `CompleteWhenPublished` | `PublishedReservationIsComplete` |
| | `PublishedRootsAreImmutable` | `ReservedVersionsAreImmutable` |
| | `SourcesStand` | `SuccessorSourceStands` |
| | `NoLostUpdate` | `SavesReplaceWhatWasRead` |
| `ChangeRecords_proofs` | `TypeCorrect` | `TypeOK` |
| | `SnapshotsQuotedOnce` | `OneRecordPerSnapshot` |
| | `FlagsAreOwed` | `OvertakenQuotesAreOwedAFlag` |
| | `ReviewedPinsArePublished` | `ReviewCoversWhatIsPublished` |
| `Publication_proofs` | `Invariant` | the inductive invariant |
| | `TypeCorrect` | `TypeOK` |
| | `PublishedSuccessorIsOwn` | `SuccessorIsOwn` |
| | `RequestIsKept` | `AttemptKeepsItsRequest` |
| | `DeliveryIsComplete` | `DeliveredMeansLinked` |
| | `AttemptIsRetryable` | `ImplementsWorkflow`: `Publication` refines `PublishAttempt` |
| `DiffReview_proofs` | `ReviewInvariant` | `ReviewTypeOK` and the inductive invariant |
| | `SubmittedDecisionsStand` | `SubmittedFindingsStand` |
| | `AcknowledgementsAreInformed` | `AcknowledgedWasShown` |
| | `DecisionsStay` | `DecisionsAreKept` |
| `Admission_proofs` | `LimitTypeCorrect` | `LimitTypeOK` |
| | `TotalBudgetHolds` | `TotalWithinBudget` |
| | `ClientBudgetHolds` | `ClientWithinBudget` |
| | `RetrySuffices` | `RetryIsEnough` |
| | `MemoryStaysBounded` | `MemoryIsBounded` |
| | `AdmissionTypeCorrect` | `TypeOK` |
| | `ServiceIsJustified` | `ServedIsJustified` |
| | `RefusalIsJustified` | `RefusedIsJustified` |
| | `AdmissionKeepsQuota` | every step of `Admission` is a step of `AnonymousLimit` or leaves it alone |
| | `AdmissionWithinBudget` | both budgets, in `Admission` |
| `DraftEditor_proofs` | `GenerationInvariant` | the stored generation stands for the stored tree and for operations that are new to it |
| | `EditInvariant` | the inductive invariant |
| | `TypeCorrect` | `TypeOK` |
| | `SavedAsShown` | `SavedIsWhatWasShown` |
| | `CanvasShowsWhatIsTaken` | a state whose list the service takes shows the replay of that list |
| | `EveryListIsAccepted` | no list a page keeps fails at one of its operations when the service replays it, if no sentence is divided while the first node is a stub; the validation of the tree it leaves is outside |
| | `CanvasShowsTheReplay` | `CanvasIsTheReplay`, on the same condition |
| | `RefusedOnlyWhenOvertaken` | `SaveRefusedOnlyWhenOvertaken`, on the same condition |
| `Comparison_proofs` | `LaterVersionIsADocument` | the edits keep the later version well formed |
| | `AllChangesAreShown` | `ChangesAreShown` |
| | `NothingElseIsShown` | `OnlyChangesAreShown` |
| | `TextsArePreserved` | `BothTextsArePreserved` |
| | `ComparisonIsMinimal` | `DiffIsMinimal` |

**The catalog.** `ChainInv == TypeOK /\ Shape /\ UniqueTips /\ LinearAxes`. Linearity alone is
not inductive: that the guard takes *the* tip makes a new row fork nothing, and that tips are
unique follows only if rows have the shape the insert gives them (an editorial row belongs to its
predecessor's legal version, a legal row to itself, a link leads to a row of the same
constitution). Each kind of new row, the first, a legal one and an editorial one, has its
lemmas (`JoinShape`, `JoinTips`, `JoinAxes`); publication changes only the status and is one lemma,
`PublishFrame`. `ReservedRows` ties each reservation to the row it describes; the
replay comparison then identifies the request.

What readers see is the published part of the chain, of which nothing is said so far. `PrefixInv`
says of *every* set of rows that holds its rows' predecessors that it has one editorial tip per
legal version and one legal tip per constitution. It is inductive because a new row is appended
to the tip of the whole chain: in a set that holds the row, and so its predecessor, that tip was
the only one too. The published rows are such a set exactly when they were published in
order, which is the premise of `OrderedHistoryHasOneLatest`.

**The readers' line.** `orderVersions` and `versionPath` walk along predecessors. That a walk
ends, and where, rests on `Grown`: rows are finite in number, each is younger than the row it names
and than its legal version, and labels differ within a constitution. So no two rows of a
list follow the same row, nor one row two, and following goes with age (`RowsLinked`). After each
round the line is a chain that has as many rows as rounds or is followed by none (`WalkGoesOn`). If
every predecessor is listed, the oldest row a line left out would follow a row of it, which the line has
gone beyond; so it holds all (`LineHoldsAll`), and the trail of a row is the line up to that row
(`TrailIs`). A line that holds every row ends in the one row no legal version succeeds
(`WholeLineEnds`). Where the pages fall back on the order of dates, a history dated in order
has its legal tip last, because a correction is dated after what it corrects
(`CorrectionsAreLater`) and a successor after the text it was drafted on (`DatesEndInTip`); that the tip
is unique there is `PrefixInv`.

**The content-service.** `IInv` has a part per hazard. `SealInv`: a version has
at most one receipt, and valid roots at its generation that no refresh will move. `ReadyInv`: what a publication in flight read as ready is still ready
when it commits: a reserved version still has the receipt of its own attempt over some roots,
because a receipt is never moved nor what it seals. `PublishedInv` carries that past the commit. `ReadInv`: the generation a save
expects is one the snapshot has not passed, and at that generation the roots are those read; this
is why comparing generations suffices against lost updates.

**Change records.** `PinInv` says that the flags of the revisions and the published pointer name the
same revision of each public record, which is what makes the unique indexes a law about what
readers see. `FlagInv` is the three-part argument that no flag is lost: a quote that is `ok` and
overtaken has an undelivered event (`Owed`); tips transcribe their own law; and a refresh that is
under way has listed every record its correction overtook, unless a later correction, with an event of its
own, overtook the correction itself (`RefreshReads`). `LockInv`: a record has one publication at
a time, and the reviewed pins it is publishing are published snapshots.

**Publication.** A call that outlives its caller can be carried out at any later time, so nothing
can be said of a session without knowing what the calls of all others may still do. The answer is
ownership. A session *uses* the versions and *names* the records in its transaction, its row, its
reservation, its outbox and its late calls; `Apart` and `NamesInv` say that no two sessions use
one version, and that a record one of them created is named by no other. Hence a step of one
session leaves the clauses about another alone, and what is left is one session against its own
past: `StepInv` says how far the successor's text and row have come in each phase, `ReservedInv`
what a reservation describes, `LateInv` what each late call repeats, `PinInv` that the request and
the record of an attempt do not change, `LinkInv` and `DoneInv` how far linking has come. An attempt's record has the pins its session
gave it as long as staff have not taken it over (`Faithful`): their decisions, their publications
and confirmations and those of its own late calls leave source, target and public pins what they
are, and what does not sets `takenOver`, for good. A late
call repeats something the reservation, the pin or the attempt's record already says, so it
finds its work done or does it in the attempt's name. `CatalogAccepts` is where the composition
with `CatalogVersions` enters: what its tip guards and its replay let through in this use of it.

The refinement follows from the same invariant. Only four kinds of step are visible through
`StageOf`: a reservation that appends a row, by the handler or late; a structured write; a
publication; and a commit. Each is matched with its step of `PublishAttempt`, and the others
leave every stage as it is.

**The review.** A request that is accepted has read the operations of the generation it pinned:
generations only grow, its reads come in the order generation, operations, answer, and the last compares
the first with the present. So a refresh is always one of the current draft, although no lock is held
while it is prepared. A decision is therefore refreshed against the draft as it is; one on a finding
that reads the same is kept, one that is acknowledged was made on a fingerprint
a reviewer's page had shown, and after the submission nothing moves the draft or the record.

**The quota.** The accounts: what was issued since the observation began, what is left
in the bucket, and what the clock has added since add up to no more than a full bucket and the
interval, in the integer units of the model. It survives a set-back clock because a
refill never counts a negative time and the bucket keeps the time it was last written. The
wait a refused client is told is the missing tokens divided by the rate, rounded up, and nothing
that happens without an acceptance takes tokens away.

**Admission.** `AdmissionInv` states, for each phase, which of the facts have been seen since the
request arrived; a fact, once witnessed, stays. `BlameInv` adds, for each question, why it was
asked: a page is asked about the administrator because the setup was seen unfinished, the quota
because the credential that the rate-limit route reads was seen worthless. So each way of being refused has its reason among
the facts. `AdmissionKeepsQuota` carries the theorems about the quota alone to the whole.

**The editor.** `GenerationInv` says that the pages and the saves of the stored generation, and
only these, are about the stored tree, and that the ids in their lists, in both stacks as well, are
drawn and not yet accepted: an accepted save raises the generation and thereby leaves all others
behind. What is left is one page against the service, two programs that apply the same operations
to different trees. `Faith` relates the two: *if* the service takes the list, the canvas
`Match`es the replay, node by node in what is loaded and in id and title elsewhere, and every node that
is not loaded is in the replay what `hydrate` will make of the stored one (`Late`). Three
lemmas keep it: an operation that touches loaded units does the same to both trees, because a unit
in a loaded node is found, has its token and changes alike in both, and what it remaps elsewhere is
made up for later (`FaithAppended`); a rewording that replaces the one before it leaves a
list whose replay is the same (`FaithReplaced`); and a node that arrives is what the replay
has made of it (`FaithHydrated`). They need the trees to stay trees, of distinct units, new ones
named by the operation that brings them (`ReplayTree`). `EditInv` says this of every state a page
can be in, now or by undo and redo, and of every save in flight; a transaction of
one to three operations keeps it step by step (`Builds`).

That an operation is *taken* is a second invariant, `ListsAreAccepted`, because it is not always true. Each
command reads its tokens off loaded nodes, where the canvas and the replay agree (`Expects`), with
one exception: dividing a sentence expects the token of the draft's first node, loaded or not. So
`EveryListIsAccepted` and the two properties that follow from it assume `FirstIsKnown`, that no sentence
is divided while the first node is a stub, as a property of the behaviour; without it they
are false (see *Where code and documents disagree*). A list that is taken operation by operation
may still leave a tree that `validate` refuses, which `SaveRefusedOnlyWhenOvertaken` names as the
other cause of a refusal: the page would have to look for it, and does not. `SavedAsShown` does not need it: a list that is not
taken stores nothing. All of them assume that a page does not read one node twice at a time
(`~Overlapping`), which `draft_overlap` shows to be necessary.

**The compare page.** The rows are a function of two documents, so the invariant is that the edits
keep the later one well formed (`LaterVersionIsADocument`), and the rest is about any two documents. A
passage that changed is shown (but for the exemption in `ChangesAreShown`, see below): either it or what it holds is a row, or a passage around it is, and
`Outermost` finds the outermost one of these, around which the two versions agree
(`SameInside`). The converse needs one count: if the common articles stand in two orders, there is
a first place at which the two lists differ, and the article that stands there in one of them is
behind it in the other, hence reordered in the reader's sense (`OutOfOrder`).

In `TextDiff` the loops keep an invariant on what each has written so far: the equal and removed
segments are the slice of the left text that was passed, the equal and added ones that of the right
(`DiffInv`). `pushSeg` joins neighbours of one type, which changes the segments but not their words.
Minimality is two facts about the table. No pairing of equal words that keeps their order is larger
than the entry of its corner (`TableBounds`, from the far corner towards it); and the walk
keeps as many words as the first entry says, because what is kept so far plus the
entry it stands at never changes (`Counted`). What is trimmed at both ends is in every longest pairing.

**Recursive functions.** Rows, segments and the table are computed by recursive functions. The
library's induction rules cannot be instantiated by the installed provers, and are not needed: a
set of naturals that is not empty has a least element (`LeastOfSet`, from the
well-foundedness of strict inclusion of finite sets), so that what fails somewhere fails first
somewhere, and there the recursive equation contradicts it. The same argument shows that a
function satisfying the equation exists, which is what the definition by `CHOOSE` needs.

**Only model-checked.** Every safety invariant and action property that a passing run checks has its
theorem. Liveness has not: `OvertakenQuotesAreFlagged`, `ReservedAttemptsClose` and
`OwedLinksAreMade` need fairness and `ENABLED`, which are out of the prover's reach.

## Where code and documents disagree

Four runs end in a counterexample; each is listed with its quotation in `PROJECT.json`.

- **`publication_link`.** A link left to the outbox repeats the pins that were reviewed. Once a
  correction of one of them is published, the review check refuses every delivery. ADR 0006
  says linking resumes after a failure.
- **`draft_overlap`.** `ensureRoot` (`structured-editor-model.tsx:638`) checks that a node is not
  loaded before it asks and not when the answer is there. Of two reads that overlap the second
  takes an edit off the canvas that was typed after the first, while its operation stays on the
  list and is saved. The comment two lines above promises that local edits are retained.
- **`version_comparison`.** `versionPath` (`compare.ts:94`) follows predecessors through the ids
  that are listed. A law drafted on a correction that was corrected again has a predecessor that
  is none, and the compare page finds no path from any earlier version.
- **`review_after_approval`.** `decide` (`StructuredDiffReviewService.kt:77`) compares the
  generation but not the session's status. A page opened while the session was open decides after
  the approval, and that decision is what is published.

Met while modelling and not made into runs of their own, in the services:

- An approved import whose draft has changed since cannot be reviewed again: approval requires the
  status `pending_review`, and carries no generation. The editor's message
  (`messages.ts:470`) says that the changed draft must be reviewed again.
- Legacy writes ask the catalog whether a version is a draft and commit later, without a lock
  (`ArticleQueryService.kt:80`). A publication in between is followed by a commit that changes
  published text. ADR 0002 says the tree of a published version is never rewritten. Reserved
  versions are safe, which is a theorem: their seal is looked up again under the row lock.
- A first publication sets the flag to `ok` whatever its pins are (`AmendmentRepository.kt:462`).
  If the refresh of a correction listed the public records just before, the quote is stale, reads
  `ok`, and nothing will flag it. ADR 0005 says such a record is `needs_review`. The invariant that
  is checked and proved holds of quotes that were live when they became public (`quotedTips`).
- `confirmQuotes` (`AmendmentService.kt:233`) asks only for a published revision id, which
  withdrawing keeps, and reads before it locks: it can make a withdrawn record public again, or
  publish pins of a staff draft. The comment above it says that it republishes the currently
  published record.
- The catalog publishes a legal version whose source is a draft (`CatalogWriteService.kt:143`).
  `OrderedHistoryHasOneLatest` and `LineEndsInLatest` therefore have publication in link order as
  their premise.
- The content-service accepts legacy writes to a version the catalog does not know
  (`CatalogAccess.kt:119`).
- A legacy session that fails after its draft was created cannot be retried: its own draft holds
  the tip, and nothing discards a draft.
- Two sessions may name one source-less staff draft. Both pass `requireAmendmentForHop`; the
  second link finds the record pointing elsewhere for ever, and its hop has no record.
- A delivery that set the target before it failed publishes a record that staff have withdrawn
  since, if the record has no exact links.
- Staff can publish an attempt's record before it has its target: nothing is compared then, and the
  delivery of the link is refused at every poll (`AmendmentActions.kt:20`), unless they set the target
  themselves. If they publish it with the target of the attempt but other rows, the delivery
  takes it for done.
- A decision taken after the reservation keeps the attempt from being repeated until it is
  acknowledged, with the version drafted and its text sealed (`EditorPublication.kt:26`, and
  `review_after_approval`).
- A withdrawal that waits for a confirmation of quotes does not see the revision the confirmation
  appended (`AmendmentRepository.kt:497` updates the revisions it saw when it began): the record is
  withdrawn and that revision keeps its flag, which keeps other records from quoting the snapshot.
  `WithdrawAmendment` clears all flags; a flag that stays only narrows what the index admits.
- An approved session whose source is overtaken stays approved for ever, and a session in review
  can only go on to its approval.
- Decisions on a finding carry no version of their own: of two pages of one generation the later
  decision replaces the other's. `DecisionsAreKept` counts that as a cause.

In the gateway:

- `docs/mcp-operations.md:7` says that the edge applies the anonymous quota when identity-service
  is unavailable. The route does so for a credential it cannot verify, but the setup and the policy
  are asked of the same service, and without them it answers 503.
- The quota counts from nothing after a restart and after each saved policy; an answer read before
  a policy was saved and applied after it takes the buckets back to the old policy once more.
- The comparison does not show a removed passage whose article was retitled while an amendment
  records a section that moved into it (`consolidated-comparison.ts:214`); a reordering together with an
  insertion or removal in the same holder (`reordered` wants equal lengths); or the former place
  of a passage that moved into an added one. The properties of `Consolidation` are
  stated so that these are outside.
- Dividing a sentence expects the token of the first node even when that one is not loaded; if
  a join has remapped it on the service's side alone, the save is refused as `stale_draft_unit`. TLC
  confirms it when the page of *editing* is opened on the second node:
  `SaveRefusedOnlyWhenOvertaken` is then violated. A page opened on the first node needs three
  commands for it, one more than the instance has: a join that remaps a stub, a move of
  the first node behind this stub, and the division.
- Removing a unit that another text refers to leaves a draft the service refuses as
  `UNIT_REFERENCE_TARGET` (`OrderedContentRules.kt:174`). The page's `validateDraft` does not look for
  it, so the author learns of it only from the refused save. A join does not do this: it remaps
  the references to the node and the text it takes away.
- A bearer that the rate-limit route has verified is nothing to the proxy (`proxy.ts:93`): a client
  without a cookie is refused `/api/reader` on a closed site although the edge let it in.
- A save that is refused or times out loses the operations the page had not saved: the answer is a
  page rendered anew.

## Not modelled

`PROJECT.json` gives the reason for each component. In the modelled ones these are left out:

- *Versions:* dates, translations and gazette references; null dates and the links to the
  neighbours in `VersionLine`.
- *Trees:* of the validation after the replay, everything but the targets of references; the inside of an article in the content-service, with occurrence ids, lineage and node
  revisions (one value per tree); tables, footnotes and their markers, nested children, notes and
  their anchors and `validateDraft` in the editor; legacy articles, labels, row order and the
  alignment of sentences in the comparison, whose documents are always articles with sections of
  texts although `consolidated-comparison.ts:94` recurses to any depth.
- *Change records:* the prose, quotations and unit links, but for the units that findings need.
- *Publication:* the request bodies but for the record they name; HTTP status codes and wording.
- *The review:* reasons, legacy and correction drafts, a change of the source's pin or of the
  algorithm's version, and the copy of the review after publication.
- *Admission:* the classification of paths by text, redirect targets, headers, the content
  security policy, the body of a refusal, malformed paths, the reverse proxy's own refusals, and the MCP server's own limit.

The database is taken to do what its documentation says of row locks, unique indexes and commits.
PostgreSQL's deadlock detection is not modelled: a deadlocked request is one that fails, which
the models allow at every point.

The components without a module are of three kinds. Some are presentation: most of the lines of
the gateway draw pages, translate messages and wrap HTTP calls in types, and have no protocol that
a state machine would tell apart; they are also most of the repository's TypeScript, which is why
the models cover a small share of its lines although they cover its protocols. Some are rows
written once or under one lock with nothing reading them on the way (annotations, documents,
registry, audit log, keys). The others have protocols of their own that no module describes
yet: import jobs with their leases and claims, setup proposals, migration runs, sign-in
challenges, and the batches of the outboxes. What import jobs do to the modelled services, seals
and holds, is in `ContentSnapshots` and `CatalogVersions`.

## The plan

What a continuation would take up, in this order; modules that will be proved about declare no
`RECURSIVE` operator.

1. `ImportJobs` with uploads: staging, attempts and their two-minute leases, publication claims,
   reconciliation; over `ContentSnapshots`' import seals. Liveness: a claimed job ends. That a
   job repeated after a crash (`ImportService.kt:279`) gets the draft it had reserved is already
   `ReservationFaithful`: the job's id is its publish attempt.
2. `Outbox`: one module for the editor's, the importer's and the security audit's outbox, with
   batches, order, backoff and the deduplicating audit log; the search rebuild as its consumer.
3. `SetupProposals` with the constitution registry: revisions, leases, replayed creation.
4. `Settings`: expected revisions, usage and impact against concurrent content writes.
5. `Sessions` (identity): sign-in challenges, credential changes, revocation.
6. `TreeDiff`: the diff that yields the findings `DiffReview` takes as given.

Runs are merged where two questions can share one, so that the list stays short enough to read.
