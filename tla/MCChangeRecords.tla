--------------------------- MODULE MCChangeRecords ---------------------------
(* Small instances of ChangeRecords, and of the review of the differences  *)
(* that the rows of a change record must account for.                      *)
EXTENDS ChangeRecords, DiffReview, FiniteSets, TLC

CONSTANTS v1, v2, lawA, f1, f2, u1, u2, a, b, r1, r2, owner, reviewer

VARIABLE instance  \* the part of the instance a behavior stays in

\* Two transcriptions of one legal version.
OneLaw == (v1 :> lawA) @@ (v2 :> lawA)

AllSymmetry == Permutations(Record) \cup Permutations(Worker)

Pending == {w \in Worker : request[w] # None}

\* Two records about one version, one request at a time.
TwoRecords ==
    /\ Cardinality(Pending) <= 1
    /\ v2 \notin published
    /\ \A r \in Record : \A k \in DOMAIN revisions[r] :
         v2 \notin {revisions[r][k].source, revisions[r][k].target}
    /\ \A w \in Pending : request[w].phase \in {"linking", "confirming"} =>
         v2 \notin {request[w].source, request[w].target}

\* One record and a version that is corrected, two requests at a time.
OneRecord == Cardinality({r \in Record : status[r] # None}) <= 1

(***************************************************************************)
(* The review: f1 compares one unit, f2 two, and is ambiguous.             *)
(***************************************************************************)
MCUnits == [f \in {f1, f2} |-> IF f = f1 THEN {u1} ELSE {u1, u2}]

Reads(one, other) == [f \in {f1, f2} |-> IF f = f1 THEN one ELSE other]

\* The ambiguous finding and two pages, or both findings and the reviewer's page.
OneFinding == {Reads(Absent, a), Reads(Absent, b)}
BothFindings == {Reads(a, a), Reads(b, a), Reads(a, Absent)}

MCDifference == OneFinding \cup BothFindings

\* The rows name a unit each, one names both, or only the second is saved.
MCChangeRecord == {[r \in {r1, r2} |-> IF r = r1 THEN {u1} ELSE {u2}],
                   [r \in {r1, r2} |-> IF r = r1 THEN {u1} ELSE {u1, u2}],
                   [r \in {r2} |-> {u1, u2}]}

OneFindingReviewed ==
    /\ \A k \in DOMAIN drafts : drafts[k] \in OneFinding
    /\ record # Absent => \A r, q \in DOMAIN record : r # q => record[r] \cap record[q] = {}

OnePageReviews ==
    /\ \A k \in DOMAIN drafts : drafts[k] \in BothFindings
    /\ pages[owner].request = Absent

MCInit == Init /\ ReviewInit /\ instance \in {"pins", "flags", "pages", "findings"}

MCNext ==
    /\ UNCHANGED instance
    /\ \/ /\ instance \in {"pins", "flags"}
          /\ Next
          /\ UNCHANGED reviewVars
          /\ IF instance = "pins" THEN TwoRecords' ELSE OneRecord'
       \/ /\ instance \in {"pages", "findings"}
          /\ ReviewNext
          /\ UNCHANGED vars
          /\ IF instance = "pages" THEN OneFindingReviewed' ELSE OnePageReviews'

MCLiveInit == MCInit /\ instance = "flags"

MCSpec == MCInit /\ [][MCNext]_<<vars, reviewVars, instance>>
\* Fairness is about requests that have begun, and the instance only restricts which begin.
MCLiveSpec == MCLiveInit /\ [][MCNext]_<<vars, reviewVars, instance>> /\ Delivery
=============================================================================
