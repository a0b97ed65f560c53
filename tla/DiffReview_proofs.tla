-------------------------- MODULE DiffReview_proofs --------------------------
(***************************************************************************)
(* What the review of a law's differences keeps, for every value of the    *)
(* constants.                                                              *)
(*                                                                         *)
(* A request that is answered has read the operations of the generation it *)
(* pinned: it read them later, and the generation has not moved since.  So *)
(* a refresh is always that of the draft as it is, and leaves alone what   *)
(* was decided on findings that still read the same.                       *)
(***************************************************************************)
EXTENDS DiffReview, TLAPS

\* A request pins a generation of the draft and reads its operations afterwards.
RequestsReadLater ==
    \A p \in Page :
        LET asked == pages[p].request IN
        asked # Absent =>
            /\ asked.generation <= generation
            /\ asked.operations # Absent => /\ asked.generation <= asked.operations
                                            /\ asked.operations <= generation

RunIsOfADraft == run # Absent => run <= generation

ReviewInv ==
    /\ ReviewTypeOK
    /\ RequestsReadLater
    /\ RunIsOfADraft
    /\ SubmittedFindingsStand
    /\ AcknowledgedWasShown

LEMMA FindingsTyped ==
    ASSUME ReviewTypeOK, NEW n \in Nat, n <= generation
    PROVE  candidates(n) \in [Finding -> Fingerprint \cup {Absent}]
<1>1. CASE n = 0
  BY <1>1 DEF candidates
<1>2. CASE n # 0
  <2>1. drafts[n] \in Difference
    BY <1>2 DEF ReviewTypeOK, generation
  <2> QED BY <1>2, <2>1, ReviewAssumption DEF candidates
<1> QED BY <1>1, <1>2

\* The request that is accepted has read the draft as it is.
LEMMA AcceptedReadsTheDraft ==
    ASSUME ReviewTypeOK, RequestsReadLater, NEW p \in Page,
           pages[p].request # Absent, pages[p].request.operations # Absent, Accepted(p)
    PROVE  pages[p].request.operations = generation
<1>1. pages[p].request \in Asked
  BY DEF ReviewTypeOK
<1>2. pages[p].request.operations \in Generation /\ pages[p].request.generation \in Generation
  BY <1>1 DEF Asked
<1>3. generation \in Nat
  BY DEF ReviewTypeOK, generation
<1> QED BY <1>2, <1>3, ReviewAssumption DEF RequestsReadLater, Accepted, Generation

\* A refresh keeps the decisions on findings that read the same, and settles none.
LEMMA RefreshedKeeps ==
    ASSUME ReviewTypeOK, NEW found \in [Finding -> Fingerprint \cup {Absent}]
    PROVE  /\ Refreshed(found) \in [Finding -> Decision \cup {Absent}]
           /\ \A f \in Finding : found[f] # Absent =>
                /\ Refreshed(found)[f] # Absent
                /\ Refreshed(found)[f].fingerprint = found[f]
           /\ \A f \in Finding : Refreshed(found)[f] # Absent =>
                \/ Refreshed(found)[f] = decisions[f]
                \/ Refreshed(found)[f].acknowledged = FALSE
           /\ \A f \in Finding :
                found[f] # Absent /\ decisions[f] # Absent /\ decisions[f].fingerprint = found[f]
                => Refreshed(found)[f] = decisions[f]
<1>1. \A fp \in Fingerprint : \A why \in {"open", "needs_recheck"} :
        /\ Unsettled(fp, why) \in Decision /\ Unsettled(fp, why) # Absent
        /\ Unsettled(fp, why).fingerprint = fp /\ Unsettled(fp, why).acknowledged = FALSE
  <2> TAKE fp \in Fingerprint
  <2> TAKE why \in {"open", "needs_recheck"}
  <2>1. Unsettled(fp, why) \in Decision
    BY DEF Unsettled, Decision
  <2>2. Absent \notin Decision
    BY ReviewAssumption
  <2> QED BY <2>1, <2>2 DEF Unsettled
<1>2. ASSUME NEW f \in Finding
      PROVE  /\ Refreshed(found)[f] \in Decision \cup {Absent}
             /\ found[f] # Absent =>
                  /\ Refreshed(found)[f] # Absent
                  /\ Refreshed(found)[f].fingerprint = found[f]
             /\ Refreshed(found)[f] # Absent =>
                  \/ Refreshed(found)[f] = decisions[f]
                  \/ Refreshed(found)[f].acknowledged = FALSE
             /\ found[f] # Absent /\ decisions[f] # Absent /\ decisions[f].fingerprint = found[f]
                => Refreshed(found)[f] = decisions[f]
  <2>1. decisions[f] \in Decision \cup {Absent} /\ found[f] \in Fingerprint \cup {Absent}
    BY DEF ReviewTypeOK
  <2>2. Refreshed(found)[f] =
          IF found[f] = Absent THEN Absent
          ELSE IF decisions[f] = Absent THEN Unsettled(found[f], "open")
          ELSE IF decisions[f].fingerprint # found[f] THEN Unsettled(found[f], "needs_recheck")
          ELSE decisions[f]
    BY DEF Refreshed, markRecheck
  <2>3. CASE found[f] = Absent
    BY <2>2, <2>3
  <2>4. CASE found[f] # Absent /\ decisions[f] = Absent
    BY <1>1, <2>1, <2>2, <2>4
  <2>5. CASE found[f] # Absent /\ decisions[f] # Absent /\ decisions[f].fingerprint # found[f]
    BY <1>1, <2>1, <2>2, <2>5
  <2>6. CASE found[f] # Absent /\ decisions[f] # Absent /\ decisions[f].fingerprint = found[f]
    BY <2>1, <2>2, <2>6
  <2> QED BY <2>3, <2>4, <2>5, <2>6
<1>3. Refreshed(found) = [f \in Finding |-> Refreshed(found)[f]]
  BY DEF Refreshed
<1> QED BY <1>2, <1>3

LEMMA RefreshKeepsTypes ==
    ASSUME ReviewTypeOK, refresh
    PROVE  /\ generation \in Generation
           /\ candidates(generation) \in [Finding -> Fingerprint \cup {Absent}]
           /\ decisions' \in [Finding -> Decision \cup {Absent}]
           /\ run' = generation
<1>1. generation \in Nat /\ generation \in Generation
  BY ReviewAssumption DEF ReviewTypeOK, generation, Generation
<1>2. candidates(generation) \in [Finding -> Fingerprint \cup {Absent}]
  BY <1>1, FindingsTyped
<1>3. decisions' = Refreshed(candidates(generation)) /\ run' = generation
  BY DEF refresh
<1> QED BY <1>1, <1>2, <1>3, RefreshedKeeps

LEMMA RecheckKeeps ==
    ASSUME ReviewTypeOK, RunIsOfADraft, NEW saved \in ChangeRecord
    PROVE  /\ recheckInvalidLinks(saved) \in [Finding -> Decision \cup {Absent}]
           /\ \A f \in Finding :
                \/ recheckInvalidLinks(saved)[f] = decisions[f]
                \/ /\ recheckInvalidLinks(saved)[f].acknowledged = FALSE
                   /\ decisions[f].status = "linked"
                   /\ ~Covers(saved, decisions[f].rows, f)
<1>1. ASSUME NEW f \in Finding
      PROVE  /\ recheckInvalidLinks(saved)[f] \in Decision \cup {Absent}
             /\ \/ recheckInvalidLinks(saved)[f] = decisions[f]
                \/ /\ recheckInvalidLinks(saved)[f].acknowledged = FALSE
                   /\ decisions[f].status = "linked"
                   /\ ~Covers(saved, decisions[f].rows, f)
  <2>1. decisions[f] \in Decision \cup {Absent}
    BY DEF ReviewTypeOK
  <2>2. CASE recheckInvalidLinks(saved)[f] = decisions[f]
    BY <2>1, <2>2
  <2>3. CASE recheckInvalidLinks(saved)[f] # decisions[f]
    <3>1. /\ run # Absent /\ candidates(run)[f] # Absent
          /\ decisions[f].status = "linked" /\ ~Covers(saved, decisions[f].rows, f)
          /\ recheckInvalidLinks(saved)[f] = Unsettled(candidates(run)[f], "needs_recheck")
      BY <2>3 DEF recheckInvalidLinks, markRecheck
    <3>2. run \in Nat /\ run <= generation
      BY <3>1 DEF ReviewTypeOK, RunIsOfADraft, Generation
    <3>3. candidates(run)[f] \in Fingerprint
      BY <3>1, <3>2, FindingsTyped
    <3> QED BY <3>1, <3>3 DEF Unsettled, Decision
  <2> QED BY <2>2, <2>3
<1>2. recheckInvalidLinks(saved) = [f \in Finding |-> recheckInvalidLinks(saved)[f]]
  BY DEF recheckInvalidLinks
<1> QED BY <1>1, <1>2

(***************************************************************************)
(* The steps.                                                              *)
(***************************************************************************)
LEMMA InitKeeps == ReviewInit => ReviewInv
<1> SUFFICES ASSUME ReviewInit PROVE ReviewInv
  OBVIOUS
<1> USE DEF ReviewInit
<1>1. drafts \in Seq(Difference) /\ generation = 0
  BY DEF generation
<1>2. ReviewTypeOK
  BY <1>1, ReviewAssumption DEF ReviewTypeOK
<1> QED BY <1>2 DEF ReviewInv, RequestsReadLater, RunIsOfADraft, SubmittedFindingsStand,
                    AcknowledgedWasShown

LEMMA SaveDraftKeeps ==
    ASSUME ReviewInv, NEW differences \in Difference, SaveDraft(differences)
    PROVE  ReviewInv'
<1> USE DEF ReviewInv, SaveDraft
<1>1. /\ drafts \in Seq(Difference)
      /\ drafts' \in Seq(Difference) /\ Len(drafts') = Len(drafts) + 1
      /\ Len(drafts') <= MaxGeneration
  BY ReviewAssumption DEF ReviewTypeOK, generation
<1>2. ReviewTypeOK'
  BY <1>1 DEF ReviewTypeOK, generation
<1>3. RequestsReadLater'
  <2> SUFFICES ASSUME NEW p \in Page, pages[p].request # Absent
               PROVE  LET asked == pages[p].request IN
                      /\ asked.generation <= generation'
                      /\ asked.operations # Absent => /\ asked.generation <= asked.operations
                                                      /\ asked.operations <= generation'
    BY DEF RequestsReadLater
  <2>1. pages[p].request \in Asked
    BY DEF ReviewTypeOK
  <2>2. /\ pages[p].request.generation \in Nat
        /\ pages[p].request.operations # Absent => pages[p].request.operations \in Nat
    BY <2>1 DEF Asked, Generation
  <2>3. generation \in Nat /\ generation' = generation + 1
    BY <1>1 DEF generation
  <2> QED BY <2>2, <2>3 DEF RequestsReadLater
<1>4. RunIsOfADraft'
  BY <1>1 DEF RunIsOfADraft, ReviewTypeOK, generation, Generation
<1>5. SubmittedFindingsStand'
  BY DEF SubmittedFindingsStand
<1>6. AcknowledgedWasShown'
  BY DEF AcknowledgedWasShown
<1> QED BY <1>2, <1>3, <1>4, <1>5, <1>6

LEMMA SaveDetailsKeeps ==
    ASSUME ReviewInv, NEW saved \in ChangeRecord, savePublishDetails(saved)
    PROVE  ReviewInv'
<1> USE DEF ReviewInv, savePublishDetails
<1>1. /\ decisions' \in [Finding -> Decision \cup {Absent}]
      /\ \A f \in Finding : decisions'[f] = decisions[f] \/ decisions'[f].acknowledged = FALSE
  BY RecheckKeeps DEF ReviewTypeOK
<1>2. generation' = generation
  BY DEF generation
<1>3. ReviewTypeOK'
  BY <1>1, <1>2 DEF ReviewTypeOK
<1>4. RequestsReadLater' /\ RunIsOfADraft'
  BY <1>2 DEF RequestsReadLater, RunIsOfADraft
<1>5. SubmittedFindingsStand'
  BY DEF SubmittedFindingsStand
<1>6. AcknowledgedWasShown'
  BY <1>1 DEF AcknowledgedWasShown
<1> QED BY <1>3, <1>4, <1>5, <1>6

\* Submitting, approving and publishing check the refreshed decisions.
LEMMA CheckedRefreshStands ==
    ASSUME ReviewInv, refresh, AllReady(candidates(generation), decisions'),
           UNCHANGED <<drafts, record, pages, shown>>
    PROVE  /\ RequestsReadLater' /\ RunIsOfADraft'
           /\ SubmittedFindingsStand' /\ AcknowledgedWasShown'
<1> USE DEF ReviewInv
<1>1. /\ generation' = generation /\ generation \in Nat
      /\ candidates(generation)' = candidates(generation)
  BY DEF generation, candidates, ReviewTypeOK
<1>2. /\ decisions' = Refreshed(candidates(generation)) /\ run' = generation
      /\ candidates(generation) \in [Finding -> Fingerprint \cup {Absent}]
  BY RefreshKeepsTypes DEF refresh
<1>3. RequestsReadLater' /\ RunIsOfADraft'
  BY <1>1, <1>2 DEF RequestsReadLater, RunIsOfADraft
<1>4. SubmittedFindingsStand'
  <2> SUFFICES ASSUME NEW f \in Finding, candidates(generation)[f] # Absent
               PROVE  /\ decisions'[f] # Absent
                      /\ decisions'[f].fingerprint = candidates(generation)[f]
                      /\ Ready(record, f, decisions'[f])
    BY <1>1 DEF SubmittedFindingsStand, Ready, Covers
  <2> QED BY <1>2, RefreshedKeeps DEF AllReady
<1>5. AcknowledgedWasShown'
  <2> SUFFICES ASSUME NEW f \in Finding, decisions'[f] # Absent, decisions'[f].acknowledged
               PROVE  <<f, decisions'[f].fingerprint>> \in shown
    BY DEF AcknowledgedWasShown
  <2>1. decisions'[f] = decisions[f]
    BY <1>2, RefreshedKeeps
  <2> QED BY <2>1 DEF AcknowledgedWasShown
<1> QED BY <1>3, <1>4, <1>5

LEMMA ResolvedIsReady ==
    ASSUME NEW found, NEW decided, AllResolved(found, decided) PROVE AllReady(found, decided)
BY DEF AllResolved, AllReady, Resolved

LEMMA SubmitKeeps == ASSUME ReviewInv, submitReview PROVE ReviewInv'
<1>1. ReviewTypeOK'
  BY RefreshKeepsTypes DEF ReviewInv, submitReview, ReviewTypeOK, generation
<1> QED BY <1>1, CheckedRefreshStands DEF ReviewInv, submitReview

LEMMA ApproveKeeps == ASSUME ReviewInv, approve PROVE ReviewInv'
<1>1. ReviewTypeOK'
  BY RefreshKeepsTypes DEF ReviewInv, approve, ReviewTypeOK, generation
<1>2. AllReady(candidates(generation), decisions')
  BY ResolvedIsReady DEF approve
<1> QED BY <1>1, <1>2, CheckedRefreshStands DEF ReviewInv, approve

LEMMA PublishKeeps == ASSUME ReviewInv, publish PROVE ReviewInv'
<1>1. ReviewTypeOK'
  BY RefreshKeepsTypes DEF ReviewInv, publish, ReviewTypeOK, generation
<1>2. AllReady(candidates(generation), decisions')
  BY ResolvedIsReady DEF publish
<1> QED BY <1>1, <1>2, CheckedRefreshStands DEF ReviewInv, publish

LEMMA DiscardKeeps == ASSUME ReviewInv, discard PROVE ReviewInv'
BY DEF ReviewInv, discard, ReviewTypeOK, RequestsReadLater, RunIsOfADraft,
       SubmittedFindingsStand, AcknowledgedWasShown, generation

(***************************************************************************)
(* The pages' steps.                                                       *)
(***************************************************************************)

\* A step of the pages alone.
LEMMA PagesOnlyKeep ==
    ASSUME ReviewInv, ReviewTypeOK', RequestsReadLater',
           UNCHANGED <<session, drafts, record, run, decisions, shown, author, approved, overruled>>
    PROVE  ReviewInv'
BY DEF ReviewInv, RunIsOfADraft, SubmittedFindingsStand, AcknowledgedWasShown, generation,
       candidates, Ready, Covers

LEMMA OfferedTyped ==
    ASSUME ReviewTypeOK, NEW p \in Page, NEW write \in Offered(p)
    PROVE  write \in Write
<1>1. pages[p].review # Absent
  BY DEF Offered
<1>2. pages[p].review.generation \in Generation
  BY <1>1 DEF ReviewTypeOK, Review
<1> QED BY <1>1, <1>2 DEF Offered, Write

LEMMA AskKeeps == ASSUME ReviewInv, NEW p \in Page, Ask(p) PROVE ReviewInv'
<1> USE DEF ReviewInv
<1> PICK write \in Offered(p) \cup {Absent} :
      pages' = [pages EXCEPT ![p].request =
                  [generation |-> generation, operations |-> Absent, write |-> write]]
  BY DEF Ask
<1>1. UNCHANGED <<session, drafts, record, run, decisions, shown, author, approved, overruled>>
  BY DEF Ask
<1>2. generation \in Nat /\ generation \in Generation /\ generation' = generation
  BY <1>1, ReviewAssumption DEF ReviewTypeOK, generation, Generation
<1>3. [generation |-> generation, operations |-> Absent, write |-> write] \in Asked
  BY <1>2, OfferedTyped DEF Asked
<1>4. ReviewTypeOK'
  BY <1>1, <1>2, <1>3 DEF ReviewTypeOK
<1>5. RequestsReadLater'
  BY <1>2 DEF RequestsReadLater, ReviewTypeOK
<1> QED BY <1>1, <1>4, <1>5, PagesOnlyKeep

LEMMA ReadKeeps == ASSUME ReviewInv, NEW p \in Page, ReadOperations(p) PROVE ReviewInv'
<1> USE DEF ReviewInv
<1>1. /\ UNCHANGED <<session, drafts, record, run, decisions, shown, author, approved, overruled>>
      /\ pages' = [pages EXCEPT ![p].request.operations = generation]
      /\ pages[p].request \in Asked
  BY DEF ReadOperations, ReviewTypeOK
<1>2. generation \in Nat /\ generation \in Generation /\ generation' = generation
  BY <1>1, ReviewAssumption DEF ReviewTypeOK, generation, Generation
<1>3. [pages[p].request EXCEPT !.operations = generation] \in Asked
  BY <1>1, <1>2 DEF Asked
<1>4. ReviewTypeOK'
  <2>1. pages[p] \in [review : Review \cup {Absent}, editable : BOOLEAN, request : Asked \cup {Absent}]
    BY DEF ReviewTypeOK
  <2>2. [pages[p] EXCEPT !.request = [pages[p].request EXCEPT !.operations = generation]]
          \in [review : Review \cup {Absent}, editable : BOOLEAN, request : Asked \cup {Absent}]
    BY <1>3, <2>1
  <2> QED BY <1>1, <1>2, <2>2 DEF ReviewTypeOK
<1>5. RequestsReadLater'
  <2> SUFFICES ASSUME NEW q \in Page, pages'[q].request # Absent
               PROVE  LET asked == pages'[q].request IN
                      /\ asked.generation <= generation
                      /\ asked.operations # Absent => /\ asked.generation <= asked.operations
                                                      /\ asked.operations <= generation
    BY <1>2 DEF RequestsReadLater
  <2>1. CASE q = p
    <3>1. pages'[p].request = [pages[p].request EXCEPT !.operations = generation]
      BY <1>1 DEF ReviewTypeOK
    <3>2. pages[p].request.generation <= generation
      BY DEF RequestsReadLater, ReadOperations
    <3> QED BY <1>1, <1>2, <2>1, <3>1, <3>2 DEF Asked
  <2>2. CASE q # p
    BY <1>1, <2>2 DEF RequestsReadLater, ReviewTypeOK
  <2> QED BY <2>1, <2>2
<1> QED BY <1>1, <1>4, <1>5, PagesOnlyKeep

LEMMA RefuseKeeps == ASSUME ReviewInv, NEW p \in Page, Refuse(p) PROVE ReviewInv'
<1> USE DEF ReviewInv
<1>1. /\ UNCHANGED <<session, drafts, record, run, decisions, shown, author, approved, overruled>>
      /\ pages' = [pages EXCEPT ![p].request = Absent]
  BY DEF Refuse
<1>2. generation' = generation
  BY <1>1 DEF generation
<1>3. ReviewTypeOK'
  BY <1>1, <1>2 DEF ReviewTypeOK
<1>4. RequestsReadLater'
  BY <1>1, <1>2 DEF RequestsReadLater, ReviewTypeOK
<1> QED BY <1>1, <1>3, <1>4, PagesOnlyKeep

LEMMA AnswerKeeps == ASSUME ReviewInv, NEW p \in Page, Answer(p) PROVE ReviewInv'
<1> USE DEF ReviewInv
<1> DEFINE asked == pages[p].request
           found == candidates(generation)
<1>1. /\ asked # Absent /\ asked.operations # Absent /\ asked \in Asked
      /\ asked.operations = generation /\ asked.generation = generation
  BY AcceptedReadsTheDraft DEF Answer, ReviewTypeOK, Accepted
<1>2. /\ UNCHANGED <<session, drafts, record, approved, overruled>>
      /\ run' = generation
      /\ pages' = [pages EXCEPT ![p] =
           [review |-> [generation |-> generation, operations |-> generation],
            editable |-> session = "open", request |-> Absent]]
      /\ shown' = IF p \in Reviewer
                  THEN shown \cup {<<f, found[f]>> : f \in {g \in Finding : found[g] # Absent}}
                  ELSE shown
      /\ asked.write = Absent => decisions' = Refreshed(found) /\ author' = author
      /\ asked.write # Absent =>
           /\ decisions' = [Refreshed(found) EXCEPT ![asked.write.key] = asked.write.decision]
           /\ author' = [author EXCEPT ![asked.write.key] = p]
  BY <1>1 DEF Answer
<1>3. generation \in Nat /\ generation \in Generation /\ generation' = generation
  BY <1>2, ReviewAssumption DEF ReviewTypeOK, generation, Generation
<1>4. found \in [Finding -> Fingerprint \cup {Absent}] /\ candidates(generation)' = found
  BY <1>2, <1>3, FindingsTyped DEF candidates, generation
<1>5. asked.write # Absent =>
        /\ asked.write \in Write
        /\ Acceptable(p, asked.write, found)
        /\ asked.write.key \in Finding /\ asked.write.decision \in Decision
        /\ asked.write.decision # Absent
        /\ found[asked.write.key] # Absent
  <2> HAVE asked.write # Absent
  <2>1. asked.write \in Write /\ Acceptable(p, asked.write, found)
    BY <1>1 DEF Answer, Accepted, Asked
  <2>2. asked.write.key \in Finding /\ asked.write.decision \in Decision
    BY <2>1 DEF Write
  <2>3. Absent \notin Decision /\ Absent \notin Fingerprint
    BY ReviewAssumption
  <2>4. found[asked.write.key] = asked.write.decision.fingerprint
    BY <2>1 DEF Acceptable
  <2>5. asked.write.decision.fingerprint \in Fingerprint
    BY <2>2 DEF Decision
  <2> HIDE DEF asked, found
  <2> QED BY <2>1, <2>2, <2>3, <2>4, <2>5
<1> HIDE DEF asked, found
<1>6. ASSUME NEW f \in Finding
      PROVE  \/ asked.write # Absent /\ f = asked.write.key /\ decisions'[f] = asked.write.decision
             \/ decisions'[f] = Refreshed(found)[f]
  BY <1>2, <1>4, <1>5, RefreshedKeeps
<1>7. ReviewTypeOK'
  <2>1. decisions' \in [Finding -> Decision \cup {Absent}]
    BY <1>2, <1>4, <1>5, RefreshedKeeps
  <2>2. author' \in [Finding -> Page \cup {Absent}]
    BY <1>2, <1>5 DEF ReviewTypeOK
  <2>3. [review |-> [generation |-> generation, operations |-> generation],
         editable |-> session = "open", request |-> Absent]
          \in [review : Review \cup {Absent}, editable : BOOLEAN, request : Asked \cup {Absent}]
    BY <1>3 DEF Review
  <2>4. pages' \in [Page -> [review : Review \cup {Absent}, editable : BOOLEAN,
                             request : Asked \cup {Absent}]]
    BY <1>2, <2>3 DEF ReviewTypeOK
  <2>5. shown' \subseteq Finding \X Fingerprint
    BY <1>2, <1>4 DEF ReviewTypeOK
  <2> QED BY <1>2, <1>3, <2>1, <2>2, <2>4, <2>5 DEF ReviewTypeOK
<1>8. RequestsReadLater' /\ RunIsOfADraft'
  <2>1. RequestsReadLater'
    BY <1>2, <1>3 DEF RequestsReadLater, ReviewTypeOK
  <2> QED BY <1>2, <1>3, <2>1 DEF RunIsOfADraft
<1>9. SubmittedFindingsStand'
  <2> SUFFICES ASSUME session \in {"reviewing", "approved", "published"},
                      NEW f \in Finding, found[f] # Absent
               PROVE  /\ decisions'[f] # Absent
                      /\ decisions'[f].fingerprint = found[f]
                      /\ Ready(record, f, decisions'[f])
    BY <1>2, <1>4 DEF SubmittedFindingsStand, Ready, Covers
  <2>1. CASE decisions'[f] = Refreshed(found)[f]
    <3>1. decisions[f] # Absent /\ decisions[f].fingerprint = found[f] /\ Ready(record, f, decisions[f])
      BY DEF SubmittedFindingsStand, found
    <3> QED BY <1>4, <2>1, <3>1, RefreshedKeeps
  <2>2. CASE asked.write # Absent /\ f = asked.write.key /\ decisions'[f] = asked.write.decision
    BY <1>5, <2>2 DEF Acceptable
  <2> QED BY <1>6, <2>1, <2>2
<1>10. AcknowledgedWasShown'
  <2> SUFFICES ASSUME NEW f \in Finding, decisions'[f] # Absent, decisions'[f].acknowledged
               PROVE  <<f, decisions'[f].fingerprint>> \in shown'
    BY DEF AcknowledgedWasShown
  <2>1. CASE decisions'[f] = Refreshed(found)[f]
    <3>1. decisions'[f] = decisions[f]
      BY <1>4, <2>1, RefreshedKeeps
    <3> QED BY <1>2, <3>1 DEF AcknowledgedWasShown
  <2>2. CASE asked.write # Absent /\ f = asked.write.key /\ decisions'[f] = asked.write.decision
    <3>1. p \in Reviewer /\ decisions'[f].fingerprint = found[f] /\ found[f] # Absent
      BY <1>5, <2>2 DEF Acceptable
    <3> QED BY <1>2, <3>1
  <2> QED BY <1>6, <2>1, <2>2
<1> QED BY <1>7, <1>8, <1>9, <1>10

(***************************************************************************)
(* The theorems.                                                           *)
(***************************************************************************)

\* In every reachable state: types, what the requests have read, and the two
\* properties of the decisions.
THEOREM ReviewInvariant == ReviewSpec => []ReviewInv
<1>1. ReviewInv /\ [ReviewNext]_reviewVars => ReviewInv'
  <2> SUFFICES ASSUME ReviewInv, [ReviewNext]_reviewVars PROVE ReviewInv'
    OBVIOUS
  <2>1. CASE UNCHANGED reviewVars
    BY <2>1, PagesOnlyKeep DEF reviewVars, ReviewInv, ReviewTypeOK, RequestsReadLater, generation
  <2>2. ASSUME NEW differences \in Difference, SaveDraft(differences) PROVE ReviewInv'
    BY <2>2, SaveDraftKeeps
  <2>3. ASSUME NEW saved \in ChangeRecord, savePublishDetails(saved) PROVE ReviewInv'
    BY <2>3, SaveDetailsKeeps
  <2>4. CASE submitReview
    BY <2>4, SubmitKeeps
  <2>5. CASE approve
    BY <2>5, ApproveKeeps
  <2>6. CASE publish
    BY <2>6, PublishKeeps
  <2>7. CASE discard
    BY <2>7, DiscardKeeps
  <2>8. ASSUME NEW p \in Page, Ask(p) PROVE ReviewInv'
    BY <2>8, AskKeeps
  <2>9. ASSUME NEW p \in Page, ReadOperations(p) PROVE ReviewInv'
    BY <2>9, ReadKeeps
  <2>10. ASSUME NEW p \in Page, Answer(p) PROVE ReviewInv'
    BY <2>10, AnswerKeeps
  <2>11. ASSUME NEW p \in Page, Refuse(p) PROVE ReviewInv'
    BY <2>11, RefuseKeeps
  <2> QED BY <2>1, <2>2, <2>3, <2>4, <2>5, <2>6, <2>7, <2>8, <2>9, <2>10, <2>11 DEF ReviewNext
<1> QED BY InitKeeps, <1>1, PTL DEF ReviewSpec

\* From the submission on, every difference of the draft keeps a decision that is about it
\* as it reads and is linked to rows that cover it.
THEOREM SubmittedDecisionsStand == ReviewSpec => []SubmittedFindingsStand
BY ReviewInvariant, PTL DEF ReviewInv

\* An acknowledged decision has been shown on a reviewer's page, as it reads.
THEOREM AcknowledgementsAreInformed == ReviewSpec => []AcknowledgedWasShown
BY ReviewInvariant, PTL DEF ReviewInv

\* A step may take a decision back only for one of the reasons of DecisionsAreKept.
LEMMA StepKeepsDecisions ==
    ASSUME ReviewInv, ReviewNext, NEW f \in Finding,
           decisions[f] # Absent, decisions'[f] # decisions[f]
    PROVE  \/ decisions[f].status \notin Settled
           \/ candidates(generation)[f] # decisions[f].fingerprint
           \/ ~Ready(record', f, decisions[f])
           \/ \E p \in Page : /\ pages[p].request # Absent /\ pages'[p].request = Absent
                              /\ pages[p].request.write # Absent
                              /\ pages[p].request.write.key = f
<1> USE DEF ReviewInv
<1>1. generation \in Nat
  BY DEF ReviewTypeOK, generation
<1>2. candidates(generation) \in [Finding -> Fingerprint \cup {Absent}]
  BY <1>1, FindingsTyped
<1>3. Absent \notin Fingerprint /\ decisions[f].fingerprint \in Fingerprint
  BY ReviewAssumption DEF ReviewTypeOK, Decision
<1>4. Refreshed(candidates(generation))[f] # decisions[f]
        => candidates(generation)[f] # decisions[f].fingerprint
  BY <1>2, <1>3, RefreshedKeeps
<1>5. CASE refresh
  BY <1>4, <1>5 DEF refresh
<1>6. ASSUME NEW saved \in ChangeRecord, savePublishDetails(saved)
      PROVE  ~Ready(record', f, decisions[f])
  BY <1>6, RecheckKeeps DEF savePublishDetails, Ready
<1>7. ASSUME NEW p \in Page, Answer(p)
      PROVE  \/ candidates(generation)[f] # decisions[f].fingerprint
             \/ /\ pages[p].request # Absent /\ pages'[p].request = Absent
                /\ pages[p].request.write # Absent
                /\ pages[p].request.write.key = f
  <2> DEFINE asked == pages[p].request
  <2>1. /\ asked # Absent /\ asked \in Asked /\ asked.operations = generation
        /\ pages'[p].request = Absent
    BY <1>7, AcceptedReadsTheDraft DEF Answer, ReviewTypeOK
  <2>2. /\ asked.write = Absent => decisions' = Refreshed(candidates(generation))
        /\ asked.write # Absent =>
             decisions' = [Refreshed(candidates(generation)) EXCEPT
                             ![asked.write.key] = asked.write.decision]
    BY <1>7, <2>1 DEF Answer
  <2>3. CASE asked.write = Absent \/ asked.write.key # f
    <3>1. decisions'[f] = Refreshed(candidates(generation))[f]
      BY <1>2, <2>2, <2>3, RefreshedKeeps
    <3> QED BY <1>4, <3>1
  <2> QED BY <2>1, <2>3
<1> QED BY <1>5, <1>6, <1>7
        DEF ReviewNext, SaveDraft, submitReview, approve, publish, discard, Ask, ReadOperations,
            Refuse

\* A decision is lost only to another one, to a draft that reads differently, or to a
\* change record that breaks its link.
THEOREM DecisionsStay == ReviewSpec => DecisionsAreKept
<1>1. ReviewInv /\ [ReviewNext]_reviewVars =>
        [\A f \in Finding : decisions[f] # Absent /\ decisions'[f] # decisions[f] =>
          \/ decisions[f].status \notin Settled
          \/ candidates(generation)[f] # decisions[f].fingerprint
          \/ ~Ready(record', f, decisions[f])
          \/ \E p \in Page : /\ pages[p].request # Absent /\ pages'[p].request = Absent
                             /\ pages[p].request.write # Absent
                             /\ pages[p].request.write.key = f]_reviewVars
  BY StepKeepsDecisions
<1> QED BY <1>1, ReviewInvariant, PTL DEF ReviewSpec, DecisionsAreKept
=============================================================================
