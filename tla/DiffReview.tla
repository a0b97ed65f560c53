----------------------------- MODULE DiffReview -----------------------------
(***************************************************************************)
(* Editor-service and the review queue of its pages: what becomes of the   *)
(* differences between a draft law and its source.                         *)
(*                                                                         *)
(* Each difference (a finding) needs a decision: it is linked to rows of   *)
(* the saved change record that name its exact units, or excluded with a   *)
(* reason, which a reviewer must acknowledge; an ambiguous one is linked   *)
(* to several rows and acknowledged too.  A finding's key pins what it     *)
(* compares, its fingerprint also how that reads now.                      *)
(*                                                                         *)
(* A page asks for the queue, or decides, in two transactions: the first   *)
(* reads the draft's generation and then its operations, without a lock,   *)
(* the second locks the session and checks the generation it was given.    *)
(* Every other command reads and writes under that lock, in one step here. *)
(* The draft is a law's: corrections and plain article drafts have no      *)
(* findings to decide.                                                     *)
(***************************************************************************)
EXTENDS Integers, Sequences

CONSTANTS
    Finding,        \* keys of findings
    Fingerprint,    \* how a finding may read
    Unit,           \* units of the source or the draft, by side
    units,          \* the units a finding compares
    Ambiguous,      \* findings that match several units on a side
    Row,            \* row ids of the change record
    Page,           \* pages of the session in a browser
    Reviewer,       \* those opened by a reviewer; the owner of the session has the others
    Difference,     \* what a draft may differ in: fingerprints by finding, or Absent
    ChangeRecord,   \* what the change record may hold: units by row
    Absent,
    MaxGeneration   \* bound on the saves of a draft

Settled == {"linked", "excluded_with_reason"}

Decision == [fingerprint : Fingerprint, status : Settled \cup {"open", "needs_recheck"},
             rows : SUBSET Row, acknowledged : BOOLEAN]

Generation == 0..MaxGeneration

\* What a page sends with the generation it shows; a page that only asks sends Absent.
Write == [key : Finding, decision : Decision, expected : Generation]

Review == [generation : Generation, operations : Generation]

Asked == [generation : Generation, operations : Generation \cup {Absent}, write : Write \cup {Absent}]

ASSUME ReviewAssumption ==
    /\ MaxGeneration \in Nat
    /\ units \in [Finding -> SUBSET Unit]
    /\ Ambiguous \subseteq Finding
    /\ Reviewer \subseteq Page
    /\ Difference \subseteq [Finding -> Fingerprint \cup {Absent}]
    /\ ChangeRecord \subseteq UNION {[rows -> SUBSET Unit] : rows \in SUBSET Row}
    /\ Absent \notin Fingerprint \cup Generation \cup Write \cup Asked \cup Review
    /\ Absent \notin Decision \cup ChangeRecord \cup [Finding -> Decision \cup {Absent}]

VARIABLES
    session,    \* its status: open, reviewing, approved, published or discarded
    drafts,     \* the differences of the draft after each save
    record,     \* the saved change record, or Absent
    run,        \* the operations whose findings are stored, or Absent before the first
    decisions,  \* by finding, or Absent
    pages,      \* the queue each page shows, whether it may decide, its request
    shown,      \* history: the findings that reviewers' pages have shown, as they read
    author,     \* history: the page that last decided a finding, or Absent
    approved,   \* history: the decisions at approval, or Absent
    overruled   \* history: findings published on a decision of the owner's, not the approved one

reviewVars == <<session, drafts, record, run, decisions, pages, shown, author, approved, overruled>>

generation == Len(drafts)

\* The findings after the first n saves; the source does not differ from itself.
candidates(n) == IF n = 0 THEN [f \in Finding |-> Absent] ELSE drafts[n]

ReviewTypeOK ==
    /\ session \in {"open", "reviewing", "approved", "published", "discarded"}
    /\ drafts \in Seq(Difference) /\ generation <= MaxGeneration
    /\ record \in ChangeRecord \cup {Absent}
    /\ run \in Generation \cup {Absent}
    /\ decisions \in [Finding -> Decision \cup {Absent}]
    /\ pages \in [Page -> [review : Review \cup {Absent}, editable : BOOLEAN,
                           request : Asked \cup {Absent}]]
    /\ shown \subseteq Finding \X Fingerprint
    /\ author \in [Finding -> Page \cup {Absent}]
    /\ approved \in [Finding -> Decision \cup {Absent}] \cup {Absent}
    /\ overruled \subseteq Finding

(***************************************************************************)
(* What the decisions must be.                                             *)
(***************************************************************************)
Covers(saved, rows, f) ==
    /\ rows # {}
    /\ saved # Absent
    /\ rows \subseteq DOMAIN saved
    /\ units[f] \subseteq UNION {saved[row] : row \in rows}

AtLeastTwo(rows) == \E row, other \in rows : row # other

\* validateRows rejects the command; an ambiguous finding takes several rows.
Ready(saved, f, decision) ==
    /\ decision.status \in Settled
    /\ decision.status = "linked" => /\ Covers(saved, decision.rows, f)
                                     /\ f \in Ambiguous => AtLeastTwo(decision.rows)

Resolved(saved, f, decision) ==
    /\ Ready(saved, f, decision)
    /\ decision.status = "excluded_with_reason" \/ f \in Ambiguous => decision.acknowledged

AllReady(found, decided) ==
    \A f \in Finding : found[f] # Absent => Ready(record, f, decided[f])

AllResolved(found, decided) ==
    \A f \in Finding : found[f] # Absent => Resolved(record, f, decided[f])

(***************************************************************************)
(* Refreshing the decisions.                                               *)
(***************************************************************************)
Unsettled(fingerprint, why) ==
    [fingerprint |-> fingerprint, status |-> why, rows |-> {}, acknowledged |-> FALSE]

markRecheck_Adopted(decision, fingerprint) ==   \* mutant: it stands as it reads now
    [decision EXCEPT !.fingerprint = fingerprint]

markRecheck(decision, fingerprint) == Unsettled(fingerprint, "needs_recheck")

Refreshed_ByGeneration(found) ==   \* mutant: a save has every decision checked again
    [f \in Finding |->
        IF found[f] = Absent THEN Absent
        ELSE IF decisions[f] = Absent THEN Unsettled(found[f], "open")
        ELSE IF run # generation THEN markRecheck(decisions[f], found[f])
        ELSE decisions[f]]

Refreshed(found) ==
    [f \in Finding |->
        IF found[f] = Absent THEN Absent
        ELSE IF decisions[f] = Absent THEN Unsettled(found[f], "open")
        ELSE IF decisions[f].fingerprint # found[f] THEN markRecheck(decisions[f], found[f])
        ELSE decisions[f]]

\* Links that the new change record breaks, of the findings stored last.
recheckInvalidLinks(saved) ==
    [f \in Finding |->
        IF /\ run # Absent /\ decisions[f] # Absent
           /\ candidates(run)[f] # Absent
           /\ decisions[f].status = "linked" /\ ~Covers(saved, decisions[f].rows, f)
        THEN markRecheck(decisions[f], candidates(run)[f]) ELSE decisions[f]]

(***************************************************************************)
(* The session's commands.                                                 *)
(***************************************************************************)
ReviewInit ==
    /\ session = "open"
    /\ drafts = <<>>
    /\ record = Absent
    /\ run = Absent
    /\ decisions = [f \in Finding |-> Absent]
    /\ pages = [p \in Page |-> [review |-> Absent, editable |-> FALSE, request |-> Absent]]
    /\ shown = {}
    /\ author = [f \in Finding |-> Absent]
    /\ approved = Absent
    /\ overruled = {}

SaveDraft(differences) ==
    /\ session = "open"
    /\ generation < MaxGeneration
    /\ drafts' = Append(drafts, differences)
    /\ UNCHANGED <<session, record, run, decisions, pages, shown, author, approved, overruled>>

savePublishDetails_Anytime(saved) ==   \* mutant: the record can be saved in review
    /\ session \in {"open", "reviewing"}
    /\ record' = saved
    /\ decisions' = IF generation > 0 THEN recheckInvalidLinks(saved) ELSE decisions
    /\ UNCHANGED <<session, drafts, run, pages, shown, author, approved, overruled>>

savePublishDetails(saved) ==
    /\ session = "open"
    /\ record' = saved
    /\ decisions' = IF generation > 0 THEN recheckInvalidLinks(saved) ELSE decisions
    /\ UNCHANGED <<session, drafts, run, pages, shown, author, approved, overruled>>

\* The draft as it is, under the lock: prepare and refresh.
refresh ==
    /\ generation > 0
    /\ decisions' = Refreshed(candidates(generation))
    /\ run' = generation

submitReview ==
    /\ session = "open"
    /\ record # Absent
    /\ refresh
    /\ AllReady(candidates(generation), decisions')
    /\ session' = "reviewing"
    /\ UNCHANGED <<drafts, record, pages, shown, author, approved, overruled>>

approve ==
    /\ session = "reviewing"
    /\ refresh
    /\ AllResolved(candidates(generation), decisions')
    /\ session' = "approved"
    /\ approved' = decisions'
    /\ UNCHANGED <<drafts, record, pages, shown, author, overruled>>

publish ==
    /\ session = "approved"
    /\ refresh
    /\ AllResolved(candidates(generation), decisions')
    /\ session' = "published"
    /\ overruled' = {f \in Finding : decisions'[f] # approved[f] /\ author[f] \notin Reviewer}
    /\ UNCHANGED <<drafts, record, pages, shown, author, approved>>

discard ==
    /\ session = "open"
    /\ session' = "discarded"
    /\ UNCHANGED <<drafts, record, run, decisions, pages, shown, author, approved, overruled>>

(***************************************************************************)
(* The pages and their requests.                                           *)
(***************************************************************************)

\* The decisions page p can make on what it shows.  An exclusion carries the mark of an
\* earlier acknowledgement on any page; a link's is offered to reviewers alone.
Offered(p) ==
    LET found == candidates(pages[p].review.operations) IN
    IF pages[p].review = Absent \/ ~(pages[p].editable \/ p \in Reviewer) THEN {}
    ELSE {w \in [key : {f \in Finding : found[f] # Absent}, decision : Decision,
                 expected : {pages[p].review.generation}] :
            /\ w.decision.fingerprint = found[w.key]
            /\ \/ /\ w.decision.status = "linked"
                  /\ w.decision.rows # {}
                  /\ w.key \in Ambiguous => AtLeastTwo(w.decision.rows)
                  /\ w.decision.acknowledged => w.key \in Ambiguous /\ p \in Reviewer
               \/ w.decision.status = "excluded_with_reason" /\ w.decision.rows = {}}

\* The first transaction starts with the draft's generation.
Ask(p) ==
    /\ session # "discarded"
    /\ pages[p].request = Absent
    /\ \E write \in Offered(p) \cup {Absent} :
         pages' = [pages EXCEPT ![p].request =
                     [generation |-> generation, operations |-> Absent, write |-> write]]
    /\ UNCHANGED <<session, drafts, record, run, decisions, shown, author, approved, overruled>>

ReadOperations(p) ==
    /\ pages[p].request # Absent
    /\ pages[p].request.operations = Absent
    /\ pages' = [pages EXCEPT ![p].request.operations = generation]
    /\ UNCHANGED <<session, drafts, record, run, decisions, shown, author, approved, overruled>>

\* The checks of decide.
Acceptable(p, write, found) ==
    /\ write.expected = generation
    /\ found[write.key] = write.decision.fingerprint
    /\ Ready(record, write.key, write.decision)
    /\ write.decision.acknowledged => p \in Reviewer

Accepted(p) ==
    LET asked == pages[p].request IN
    /\ asked.generation = generation
    /\ asked.write # Absent => Acceptable(p, asked.write, candidates(asked.operations))

\* The second transaction; the session's status plays no part.
Answer(p) ==
    LET asked == pages[p].request
        found == candidates(asked.operations)
        fresh == Refreshed(found)
    IN  /\ asked # Absent
        /\ asked.operations # Absent
        /\ Accepted(p)
        /\ run' = asked.operations
        /\ IF asked.write = Absent THEN UNCHANGED author /\ decisions' = fresh
           ELSE /\ decisions' = [fresh EXCEPT ![asked.write.key] = asked.write.decision]
                /\ author' = [author EXCEPT ![asked.write.key] = p]
        /\ pages' = [pages EXCEPT ![p] =
             [review |-> [generation |-> asked.generation, operations |-> asked.operations],
              editable |-> session = "open",
              request |-> Absent]]
        /\ shown' = IF p \in Reviewer
                    THEN shown \cup {<<f, found[f]>> : f \in {g \in Finding : found[g] # Absent}}
                    ELSE shown
        /\ UNCHANGED <<session, drafts, record, approved, overruled>>

\* A refusal takes the refresh back with it.
Refuse(p) ==
    /\ pages[p].request # Absent
    /\ pages[p].request.operations # Absent
    /\ ~Accepted(p)
    /\ pages' = [pages EXCEPT ![p].request = Absent]
    /\ UNCHANGED <<session, drafts, record, run, decisions, shown, author, approved, overruled>>

ReviewNext ==
    \/ \E differences \in Difference : SaveDraft(differences)
    \/ \E saved \in ChangeRecord : savePublishDetails(saved)
    \/ submitReview
    \/ approve
    \/ publish
    \/ discard
    \/ \E p \in Page : Ask(p) \/ ReadOperations(p) \/ Answer(p) \/ Refuse(p)

ReviewSpec == ReviewInit /\ [][ReviewNext]_reviewVars

(***************************************************************************)
(* Properties                                                              *)
(***************************************************************************)

\* A law in review, approved or published has a decision on each difference of its draft,
\* made on the difference as it reads, and linked to rows that are still saved and cover
\* it, whatever the pages opened earlier have asked meanwhile.
SubmittedFindingsStand ==
    session \in {"reviewing", "approved", "published"} =>
        \A f \in Finding : candidates(generation)[f] # Absent =>
            /\ decisions[f] # Absent
            /\ decisions[f].fingerprint = candidates(generation)[f]
            /\ Ready(record, f, decisions[f])

\* What counts as acknowledged, a reviewer's page has shown as it reads in the decision:
\* an acknowledgement does not outlive a later save, or a request that was under way.
AcknowledgedWasShown ==
    \A f \in Finding : decisions[f] # Absent /\ decisions[f].acknowledged =>
        <<f, decisions[f].fingerprint>> \in shown

\* A decision once made is lost only to another decision on the finding, to a draft in
\* which the finding reads differently, or to a change record that breaks its link.
DecisionsAreKept ==
    [][\A f \in Finding : decisions[f] # Absent /\ decisions'[f] # decisions[f] =>
         \/ decisions[f].status \notin Settled
         \/ candidates(generation)[f] # decisions[f].fingerprint
         \/ ~Ready(record', f, decisions[f])
         \/ \E p \in Page : /\ pages[p].request # Absent /\ pages'[p].request = Absent
                            /\ pages[p].request.write # Absent
                            /\ pages[p].request.write.key = f]_reviewVars

\* What is published was approved, or decided by a reviewer after the approval.  The code
\* breaks this: a page that the owner opened before the review can still decide.
ApprovedWorkStands == overruled = {}
=============================================================================
