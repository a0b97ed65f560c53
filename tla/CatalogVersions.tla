-------------------------- MODULE CatalogVersions --------------------------
(***************************************************************************)
(* Catalog-service: the two-axis history of a constitution's versions.     *)
(*                                                                         *)
(* A version is a catalog row.  Legal versions form one chain per          *)
(* constitution; each legal version carries a chain of editorial           *)
(* corrections.  Rows are appended as drafts and published later.  A       *)
(* publisher that must survive a lost answer appends under an attempt id,  *)
(* which the catalog remembers as a reservation.                           *)
(*                                                                         *)
(* Every action is one database transaction of CatalogWriteService.        *)
(* createDraftVersion holds the constitution row FOR UPDATE, so creators   *)
(* of one constitution are serial; publishVersion takes no such lock.      *)
(***************************************************************************)
EXTENDS Naturals, FiniteSets

CONSTANTS
    Constitution,   \* existing constitutions
    Version,        \* version ids a creator can draw
    Attempt,        \* publish attempt ids: editor sessions and import jobs
    Label,          \* version labels, ranked as (effective_date, label) sorts them
    Evidence,       \* source evidence values
    Settings,       \* structural settings revision ids
    HopWord,        \* words a request may use for hopKind
    None            \* the absent value (NULL)

HopWords == {"legal", "legal_amendment", "official_errata", "editorial_correction"}

ASSUME LabelAssumption == Label \subseteq Nat
ASSUME HopAssumption == HopWord \subseteq HopWords
ASSUME NoneAssumption ==
    None \notin Constitution \cup Version \cup Attempt \cup Label \cup Evidence \cup Settings

VARIABLES
    row,             \* constitution_versions, joined with import_publication_holds
    reservation,     \* successor_publish_attempts
    settingsOwner,   \* constitution_settings_revisions: which constitution owns a revision
    currentSettings  \* constitutions.settings_revision_id

vars == <<row, reservation, settingsOwner, currentSettings>>

Opt(S) == S \cup {None}

(***************************************************************************)
(* Rows, requests and reservations.                                        *)
(***************************************************************************)
Hop == {"none", "initial", "legal", "editorial_correction"}
Status == {"absent", "draft", "published"}

Row == [status: Status, constitution: Opt(Constitution), label: Opt(Label), hop: Hop,
        pred: Opt(Version), legal: Opt(Version), evidence: Opt(Evidence),
        settings: Opt(Settings), hold: Opt(Attempt)]

AbsentRow == [status |-> "absent", constitution |-> None, label |-> None, hop |-> "none",
              pred |-> None, legal |-> None, evidence |-> None, settings |-> None,
              hold |-> None]

Request == [label: Label, pred: Opt(Version), hop: HopWord, evidence: Opt(Evidence),
            settings: Opt(Settings), job: Opt(Attempt)]

\* The stored request stands for its SHA-256: equal hashes mean equal requests.
Reservation == [version: Version, constitution: Constitution, request: Request]

TypeOK ==
    /\ row \in [Version -> Row]
    /\ reservation \in [Attempt -> Opt(Reservation)]
    /\ settingsOwner \in [Settings -> Opt(Constitution)]
    /\ currentSettings \in [Constitution -> Settings]

Init ==
    /\ row = [v \in Version |-> AbsentRow]
    /\ reservation = [a \in Attempt |-> None]
    /\ settingsOwner \in [Settings -> Opt(Constitution)]
    /\ currentSettings \in [Constitution -> Settings]
    /\ \A c \in Constitution : settingsOwner[currentSettings[c]] = c
    /\ \A s \in Settings :
         settingsOwner[s] # None => s = currentSettings[settingsOwner[s]]

(***************************************************************************)
(* The chain as the repository's queries read it.  S is the set of rows a  *)
(* query looks at: all of them, or the published ones only.                *)
(***************************************************************************)
Present == {v \in Version : row[v].status # "absent"}
Published == {v \in Version : row[v].status = "published"}
VersionsOf(c) == {v \in Present : row[v].constitution = c}

LegalRow(v) == row[v].hop \in {"initial", "legal"}

EditorialSuccessors(v, S) ==
    {w \in S : /\ row[w].hop = "editorial_correction"
               /\ row[w].pred = v
               /\ row[w].legal = row[v].legal}

LegalSuccessors(l, S) ==
    {w \in S : row[w].hop = "legal" /\ row[row[w].pred].legal = l}

EditorialTips(l, S) ==
    {v \in S : row[v].legal = l /\ EditorialSuccessors(v, S) = {}}

LegalTips(c, S) ==
    {l \in S : row[l].constitution = c /\ LegalRow(l) /\ LegalSuccessors(l, S) = {}}

\* ORDER BY effective_date DESC NULLS LAST, version_label DESC LIMIT 1
First(T) ==
    IF T = {} THEN None
    ELSE CHOOSE v \in T : \A w \in T : row[w].label <= row[v].label

FindEditorialTip_PublishedOnly(l, S) ==   \* mutant: drafts do not hold the tip
    First(EditorialTips(l, S \cap Published))

FindEditorialTip(l, S) == First(EditorialTips(l, S))

FindLegalTip_PublishedOnly(c, S) ==   \* mutant: drafts do not hold the legal tip
    First(LegalTips(c, S \cap Published))

FindLegalTip(c, S) == First(LegalTips(c, S))
FindLegalTipEditorialTip(c, S) ==
    LET l == FindLegalTip(c, S)
    IN  IF l = None THEN None ELSE FindEditorialTip(l, S)

(***************************************************************************)
(* POST /constitutions/{c}/versions                                        *)
(***************************************************************************)
CanonicalHop(word) ==
    IF word = "editorial_correction" THEN "editorial_correction" ELSE "legal"

SameRequest_AnyEvidence(stored, req) ==   \* mutant: evidence left out of the hash
    [stored EXCEPT !.evidence = None] = [req EXCEPT !.evidence = None]

\* The receipt accepts the request it was written for, and a correction that
\* now spells out the evidence the catalog had inherited for it.
SameRequest(stored, req) ==
    \/ stored = req
    \/ /\ req.evidence # None
       /\ req.hop = "editorial_correction"
       /\ req.pred # None
       /\ row[req.pred].status = "published"
       /\ row[req.pred].evidence = req.evidence
       /\ stored = [req EXCEPT !.evidence = None]

Replays(c, req, a) ==
    /\ a # None
    /\ reservation[a] # None
    /\ reservation[a].constitution = c
    /\ SameRequest(reservation[a].request, req)

LabelTaken(c, label) == \E v \in VersionsOf(c) : row[v].label = label

NewRow(c, req, hop, legal) ==
    [status |-> "draft", constitution |-> c, label |-> req.label, hop |-> hop,
     pred |-> req.pred, legal |-> legal,
     evidence |-> IF req.evidence = None /\ hop = "editorial_correction"
                  THEN row[req.pred].evidence ELSE req.evidence,
     settings |-> IF req.settings # None THEN req.settings
                  ELSE IF req.pred # None THEN row[req.pred].settings
                  ELSE currentSettings[c],
     hold |-> req.job]

\* The link a request asks for, as <<hop, legal identity>>, when the chain allows it.
ChainAllows(c, id, req, hop, legal) ==
    \/ /\ req.pred = None
       /\ VersionsOf(c) = {}
       /\ hop = "initial" /\ legal = id
    \/ /\ req.pred \in VersionsOf(c)
       /\ hop = CanonicalHop(req.hop)
       /\ \/ /\ hop = "editorial_correction"
             /\ legal = row[req.pred].legal
             /\ req.pred = FindEditorialTip(legal, Present)
          \/ /\ hop = "legal"
             /\ legal = id
             /\ req.pred = FindLegalTipEditorialTip(c, Present)

CreateDraftVersion(c, id, req, a) ==
    /\ row[id].status = "absent"
    /\ a # None => reservation[a] = None
    /\ ~LabelTaken(c, req.label)
    /\ req.settings # None => settingsOwner[req.settings] = c
    /\ req.job # None => \A v \in Present : row[v].hold # req.job
    /\ \E hop \in {"initial", CanonicalHop(req.hop)}, legal \in Version :
         /\ ChainAllows(c, id, req, hop, legal)
         /\ row' = [row EXCEPT ![id] = NewRow(c, req, hop, legal)]
    /\ reservation' =
         IF a = None THEN reservation
         ELSE [reservation EXCEPT ![a] = [version |-> id, constitution |-> c, request |-> req]]
    /\ UNCHANGED <<settingsOwner, currentSettings>>

(***************************************************************************)
(* POST /versions/{v}/publish                                              *)
(***************************************************************************)
\* What requireVersionPublisher let through: a publisher, an import token, or both.
Actor == [publisher: BOOLEAN, importer: BOOLEAN]

HoldAllows(v, actor, job) ==
    IF row[v].hold # None
    THEN row[v].hold = job /\ actor.importer
    ELSE actor.importer => actor.publisher

\* The two partial unique indexes constitution_versions_{legal,editorial}_predecessor_uniq.
UniqueAmongPublished(v) ==
    \A w \in Published \ {v} :
        /\ row[w].hop = row[v].hop
        /\ row[w].pred = row[v].pred
        => \/ row[v].hop = "initial"
           \/ row[v].hop = "editorial_correction" /\ row[w].legal # row[v].legal

PublishVersion_Repins(v, actor, job) ==   \* mutant: publication re-reads the settings
    /\ actor.publisher \/ actor.importer
    /\ row[v].status # "absent"
    /\ HoldAllows(v, actor, job)
    /\ UniqueAmongPublished(v)
    /\ row' = [row EXCEPT ![v].status = "published",
                         ![v].settings = currentSettings[row[v].constitution]]
    /\ UNCHANGED <<reservation, settingsOwner, currentSettings>>

\* The content-service's answer to requireReady or requireValidContent is an input
\* here: this action is the answer "ready"; any other answer changes nothing.
PublishVersion(v, actor, job) ==
    /\ actor.publisher \/ actor.importer
    /\ row[v].status # "absent"
    /\ HoldAllows(v, actor, job)
    /\ UniqueAmongPublished(v)
    /\ row' = [row EXCEPT ![v].status = "published"]
    /\ UNCHANGED <<reservation, settingsOwner, currentSettings>>

(***************************************************************************)
(* PUT /constitutions/{c}/settings: optimistic append under the same lock. *)
(***************************************************************************)
SaveSettings(c, expected, s) ==
    /\ currentSettings[c] = expected
    /\ settingsOwner[s] = None
    /\ settingsOwner' = [settingsOwner EXCEPT ![s] = c]
    /\ currentSettings' = [currentSettings EXCEPT ![c] = s]
    /\ UNCHANGED <<row, reservation>>

Next ==
    \/ \E c \in Constitution, id \in Version, req \in Request, a \in Opt(Attempt) :
         CreateDraftVersion(c, id, req, a)
    \/ \E v \in Version, actor \in Actor, job \in Opt(Attempt) : PublishVersion(v, actor, job)
    \/ \E c \in Constitution, expected, s \in Settings : SaveSettings(c, expected, s)

Spec == Init /\ [][Next]_vars

(***************************************************************************)
(* What a reader of the catalog sees.                                      *)
(***************************************************************************)
\* One row per published legal version, resolved to its published editorial tip.
PublicRows(c) ==
    {[legal |-> l, current |-> FindEditorialTip(l, Published)] :
        l \in {v \in Published : row[v].constitution = c /\ LegalRow(v)}}

Latest(c) == FindLegalTipEditorialTip(c, Published)

(***************************************************************************)
(* Safety.                                                                 *)
(***************************************************************************)
\* Both axes are linear (ADR 0005): a snapshot has at most one correction of its
\* own legal version, and a legal version at most one legal successor, drafts included.
LinearAxes ==
    \A v, w \in Present :
        v # w =>
        /\ row[v].hop = "editorial_correction" /\ row[w].hop = "editorial_correction"
             => row[v].pred # row[w].pred
        /\ row[v].hop = "legal" /\ row[w].hop = "legal"
             => row[row[v].pred].legal # row[row[w].pred].legal
        /\ row[v].hop = "initial" /\ row[w].hop = "initial"
             => row[v].constitution # row[w].constitution

\* The LIMIT 1 of the two tip queries never has to choose: every legal version has
\* exactly one editorial tip and every non-empty constitution exactly one legal tip.
UniqueTips ==
    /\ \A l \in Present : row[l].legal = l => \E t \in Present : EditorialTips(l, Present) = {t}
    /\ \A c \in Constitution :
         VersionsOf(c) # {} => \E t \in Present : LegalTips(c, Present) = {t}

\* A publish attempt is answered with the snapshot it reserved and no other: attempts
\* own distinct versions, and whatever request a replay accepts describes that version.
ReservationFaithful ==
    /\ \A a, b \in Attempt :
         a # b /\ reservation[a] # None /\ reservation[b] # None
           => reservation[a].version # reservation[b].version
    /\ \A a \in Attempt : reservation[a] # None =>
         LET v == reservation[a].version
         IN  \A req \in Request : Replays(reservation[a].constitution, req, a) =>
               /\ row[v].status # "absent"
               /\ row[v].constitution = reservation[a].constitution
               /\ row[v].label = req.label
               /\ row[v].pred = req.pred
               /\ row[v].hold = req.job
               /\ req.evidence # None => row[v].evidence = req.evidence

\* Every predecessor of a published snapshot is published.
PublishedInOrder ==
    \A v \in Published : row[v].pred # None => row[v].pred \in Published

\* While a constitution is published in order, its public history has one end: no
\* published tip query depends on how dates and labels happen to sort.
OrderedHistoryHasOneLatest ==
    PublishedInOrder =>
        \A c \in Constitution :
            /\ Cardinality(LegalTips(c, Published)) <= 1
            /\ \A l \in Published : Cardinality(EditorialTips(l, Published)) <= 1

\* No step withdraws a published snapshot or rewrites the links, the label or the
\* evidence of a row that exists.
HistoryIsAppendOnly ==
    [][\A v \in Version : row[v].status # "absent" =>
          /\ row'[v] = [row[v] EXCEPT !.status = row'[v].status]
          /\ row'[v].status \in {row[v].status, "published"}]_vars

=============================================================================
