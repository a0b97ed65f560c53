-------------------------- MODULE ContentSnapshots --------------------------
(***************************************************************************)
(* Content-service: the roots of each version's snapshot, and the window   *)
(* between a writer's catalog lookup and its commit.                       *)
(*                                                                         *)
(* Every write asks the catalog over HTTP whether the version is still a   *)
(* draft, and only then locks the snapshot row and commits.  Publication   *)
(* asks content-service whether the roots are ready, and only then commits *)
(* in the catalog.  Each of these is two actions here, and anything may    *)
(* happen between them; what is done under the row lock is one action.     *)
(***************************************************************************)
EXTENDS Naturals

CONSTANTS
    Version,        \* catalog versions of one constitution
    Attempt,        \* publish attempts
    Tree,           \* non-empty content trees
    ValidTree,      \* those OrderedContentRules accepts (a save may refuse more)
    Worker,         \* requests in flight
    MaxGeneration,  \* bound on snapshot generations
    Empty,          \* no roots at all
    None            \* the absent value (NULL)

ASSUME TreeAssumption == ValidTree \subseteq Tree /\ Empty \notin Tree
ASSUME BoundAssumption == MaxGeneration \in Nat
ASSUME NoneAssumption == None \notin Version \cup Attempt \cup Worker

VARIABLES
    status,     \* catalog: constitution_versions.publication_status
    attemptOf,  \* catalog: the publish attempt a version was reserved for
    held,       \* catalog: import_publication_holds
    snapshot,   \* content_snapshots with the trees content_snapshot_roots resolve to
    nodes,      \* content_nodes: the legacy write model
    receipt,    \* ordered_publish_receipts
    request     \* what each worker has read so far

vars == <<status, attemptOf, held, snapshot, nodes, receipt, request>>

Opt(S) == S \cup {None}
Roots == Tree \cup {Empty}
Valid(roots) == roots \in ValidTree \cup {Empty}

Snapshot == [generation: Nat, roots: Roots, canonical: BOOLEAN, dirty: BOOLEAN]

\* OrderedSnapshotWrite; the receipt keeps it whole where the code keeps its SHA-256.
Write == [roots: Roots, expected: Nat, source: Opt(Version), sourceGeneration: Nat,
          attempt: Opt(Attempt)]

\* sealImport issues a receipt without a write: it seals what is there.
Receipt == [version: Version, write: Opt(Write), generation: Nat]

Request ==
    [phase: {"editing", "saving"}, version: Version, base: Roots, write: Write] \cup
    [phase: {"legacy", "publishing"}, version: Version, base: Roots, write: {None}]

TypeOK ==
    /\ status \in [Version -> {"unknown", "draft", "published"}]
    /\ attemptOf \in [Version -> Opt(Attempt)]
    /\ held \in [Version -> BOOLEAN]
    /\ snapshot \in [Version -> Snapshot]
    /\ nodes \in [Version -> Roots]
    /\ receipt \in [Attempt -> Opt(Receipt)]
    /\ request \in [Worker -> Opt(Request)]

\* lock() inserts a missing row as dirty, so a version nobody touched looks like this.
Untouched == [generation |-> 0, roots |-> Empty, canonical |-> FALSE, dirty |-> TRUE]

Init ==
    /\ status = [v \in Version |-> "unknown"]
    /\ attemptOf = [v \in Version |-> None]
    /\ held = [v \in Version |-> FALSE]
    /\ snapshot = [v \in Version |-> Untouched]
    /\ nodes = [v \in Version |-> Empty]
    /\ receipt = [a \in Attempt |-> None]
    /\ request = [w \in Worker |-> None]

(***************************************************************************)
(* The snapshot row.                                                       *)
(***************************************************************************)
SealedFor(v) == {a \in Attempt : receipt[a] # None /\ receipt[a].version = v}
Sealed(v) == SealedFor(v) # {}

\* Every read first folds the legacy nodes into a new generation of roots.
Refreshed(v) ==
    LET s == snapshot[v]
    IN  IF ~s.dirty \/ s.canonical THEN s
        ELSE IF nodes[v] = Empty /\ s.generation = 0 THEN [s EXCEPT !.dirty = FALSE]
        ELSE [generation |-> s.generation + 1, roots |-> nodes[v],
              canonical |-> FALSE, dirty |-> FALSE]

Replaced(s, roots) ==
    [generation |-> s.generation + 1, roots |-> roots, canonical |-> TRUE, dirty |-> FALSE]

RefreshAll(S) == [v \in Version |-> IF v \in S THEN Refreshed(v) ELSE snapshot[v]]

(***************************************************************************)
(* Catalog: a draft appears, reserved for an attempt or not, and held for  *)
(* an import or not.                                                       *)
(***************************************************************************)
CreateDraft(v, a, hold) ==
    /\ status[v] = "unknown"
    /\ a # None => \A u \in Version : attemptOf[u] # a
    /\ hold => a # None
    /\ status' = [status EXCEPT ![v] = "draft"]
    /\ attemptOf' = [attemptOf EXCEPT ![v] = a]
    /\ held' = [held EXCEPT ![v] = hold]
    /\ UNCHANGED <<snapshot, nodes, receipt, request>>

(***************************************************************************)
(* PUT /versions/{v}/content                                               *)
(***************************************************************************)
Begin(w, r) == request[w] = None /\ request' = [request EXCEPT ![w] = r]
Finish(w) == request' = [request EXCEPT ![w] = None]

\* GET /versions/{v}/content, by an author who will save on top of what it answers.
ReadToEdit(w, v) ==
    /\ status[v] # "unknown"
    /\ snapshot' = RefreshAll({v})
    /\ Begin(w, [phase |-> "editing", version |-> v, base |-> Refreshed(v).roots,
                 write |-> [roots |-> Refreshed(v).roots, expected |-> Refreshed(v).generation,
                            source |-> None, sourceGeneration |-> 0, attempt |-> None]])
    /\ UNCHANGED <<status, attemptOf, held, nodes, receipt>>

\* Up to the catalog lookup.  An attempt that already has its receipt is answered from
\* it and changes nothing (initialReceipt), so it has no action.
BeginSave(w, roots, source, sourceGeneration, a) ==
    /\ request[w] # None /\ request[w].phase = "editing"
    /\ source = None => sourceGeneration = 0    \* no source, nothing to pin
    /\ a # None => receipt[a] = None
    /\ ~Sealed(request[w].version)
    /\ status[request[w].version] = "draft"
    /\ request' = [request EXCEPT
         ![w].phase = "saving",
         ![w].write = [roots |-> roots, expected |-> @.expected, source |-> source,
                       sourceGeneration |-> sourceGeneration, attempt |-> a]]
    /\ UNCHANGED <<status, attemptOf, held, snapshot, nodes, receipt>>

SourceReady_AnyStatus(write) ==   \* mutant: a successor may stand on a draft
    write.source # None =>
        /\ status[write.source] # "unknown"
        /\ Refreshed(write.source).generation = write.sourceGeneration

SourceReady(write) ==
    write.source # None =>
        /\ status[write.source] # "unknown"
        /\ write.attempt # None => status[write.source] = "published"
        /\ Refreshed(write.source).generation = write.sourceGeneration

MaySave_StaleGeneration(v, write) ==   \* mutant: generation compared before legacy edits are folded in
    /\ write.attempt # None => receipt[write.attempt] = None
    /\ ~Sealed(v)
    /\ snapshot[v].generation = write.expected
    /\ SourceReady(write)
    /\ Valid(write.roots)

MaySave_SealCheckedEarly(v, write) ==   \* mutant: requireUnsealed is not repeated under the lock
    /\ write.attempt # None => receipt[write.attempt] = None
    /\ Refreshed(v).generation = write.expected
    /\ SourceReady(write)
    /\ Valid(write.roots)

MaySave(v, write) ==
    /\ write.attempt # None => receipt[write.attempt] = None
    /\ ~Sealed(v)
    /\ Refreshed(v).generation = write.expected
    /\ SourceReady(write)
    /\ Valid(write.roots)

\* Under the row lock.  If the attempt got its receipt meanwhile, currentReceipt answers
\* from it and changes nothing: that is EndRequest.
CommitSave(w) ==
    /\ request[w] # None /\ request[w].phase = "saving"
    /\ LET v == request[w].version
           write == request[w].write
           generation == Refreshed(v).generation + 1
       IN  /\ MaySave(v, write)
           /\ generation <= MaxGeneration
           /\ snapshot' = [RefreshAll({v, write.source}) EXCEPT ![v] = Replaced(@, write.roots)]
           /\ receipt' =
                IF write.attempt = None THEN receipt
                ELSE [receipt EXCEPT ![write.attempt] =
                        [version |-> v, write |-> write, generation |-> generation]]
    /\ Finish(w)
    /\ UNCHANGED <<status, attemptOf, held, nodes>>

\* Every refusal rolls its transaction back; a lost caller or a timeout ends the same way.
EndRequest(w) ==
    /\ request[w] # None
    /\ Finish(w)
    /\ UNCHANGED <<status, attemptOf, held, snapshot, nodes, receipt>>

(***************************************************************************)
(* PUT /versions/{v}/articles, PATCH /articles, PATCH /nodes, POST         *)
(* /versions/{v}/restructure: one check, then any new tree of nodes.       *)
(***************************************************************************)
BeginLegacyWrite(w, v) ==
    /\ status[v] # "published"      \* requireWritable lets an unknown version through
    /\ Begin(w, [phase |-> "legacy", version |-> v, base |-> Empty, write |-> None])
    /\ UNCHANGED <<status, attemptOf, held, snapshot, nodes, receipt>>

RequireLegacy_Unsealed(v) ==   \* mutant: the seal is not asked for
    ~snapshot[v].canonical

RequireLegacy(v) == ~Sealed(v) /\ ~snapshot[v].canonical

CommitLegacyWrite(w, tree) ==
    /\ request[w] # None /\ request[w].phase = "legacy"
    /\ LET v == request[w].version
       IN  /\ RequireLegacy(v)
           /\ Refreshed(v).generation < MaxGeneration
           /\ nodes' = [nodes EXCEPT ![v] = tree]
           /\ snapshot' = [snapshot EXCEPT ![v].dirty = TRUE]
    /\ Finish(w)
    /\ UNCHANGED <<status, attemptOf, held, receipt>>

(***************************************************************************)
(* POST /versions/{v}/seal-import                                          *)
(***************************************************************************)
SealImport(v, a, generation) ==
    /\ held[v] /\ attemptOf[v] = a
    /\ Refreshed(v).generation = generation
    /\ Refreshed(v).roots # Empty /\ Valid(Refreshed(v).roots)
    /\ receipt[a] = None            \* otherwise the receipt answers, or refuses
    /\ ~Sealed(v)
    /\ status[v] = "draft"
    /\ snapshot' = RefreshAll({v})
    /\ receipt' = [receipt EXCEPT ![a] =
                     [version |-> v, write |-> None, generation |-> generation]]
    /\ UNCHANGED <<status, attemptOf, held, nodes, request>>

(***************************************************************************)
(* POST /versions/{v}/publish in the catalog: readiness, then the update.  *)
(***************************************************************************)
\* GET publish-receipt for a reserved version, GET content for any other.
Ready_ValidContent(v) ==   \* mutant: the reservation is not looked up
    Valid(Refreshed(v).roots)

Ready(v) ==
    /\ Valid(Refreshed(v).roots)
    /\ attemptOf[v] # None =>
         /\ receipt[attemptOf[v]] # None
         /\ receipt[attemptOf[v]].version = v
         /\ receipt[attemptOf[v]].generation = Refreshed(v).generation
         /\ Refreshed(v).roots # Empty

BeginPublish(w, v) ==
    /\ status[v] # "unknown"
    /\ Ready(v)
    /\ snapshot' = RefreshAll({v})
    /\ Begin(w, [phase |-> "publishing", version |-> v, base |-> Refreshed(v).roots,
                 write |-> None])
    /\ UNCHANGED <<status, attemptOf, held, nodes, receipt>>

CommitPublish(w) ==
    /\ request[w] # None /\ request[w].phase = "publishing"
    /\ status' = [status EXCEPT ![request[w].version] = "published"]
    /\ Finish(w)
    /\ UNCHANGED <<attemptOf, held, snapshot, nodes, receipt>>

Next ==
    \/ \E v \in Version, a \in Opt(Attempt), hold \in BOOLEAN : CreateDraft(v, a, hold)
    \/ \E w \in Worker, v \in Version :
         ReadToEdit(w, v) \/ BeginLegacyWrite(w, v) \/ BeginPublish(w, v)
    \/ \E w \in Worker, roots \in Roots, source \in Opt(Version),
          sourceGeneration \in 0..MaxGeneration, a \in Opt(Attempt) :
         BeginSave(w, roots, source, sourceGeneration, a)
    \/ \E w \in Worker, tree \in Roots : CommitLegacyWrite(w, tree)
    \/ \E w \in Worker : CommitSave(w) \/ CommitPublish(w) \/ EndRequest(w)
    \/ \E v \in Version, a \in Attempt, generation \in 0..MaxGeneration :
         SealImport(v, a, generation)

Spec == Init /\ [][Next]_vars

(***************************************************************************)
(* Safety.                                                                 *)
(***************************************************************************)
\* A receipt goes on describing the roots it sealed: no writer that passed its checks
\* before the seal moves them, so publishReceipt never answers "Reserved roots changed".
SealedRootsStand ==
    \A a \in Attempt : receipt[a] # None =>
        LET v == receipt[a].version
        IN  /\ Refreshed(v) = snapshot[v]
            /\ snapshot[v].generation = receipt[a].generation
            /\ receipt[a].write # None => snapshot[v].roots = receipt[a].write.roots
            /\ Valid(snapshot[v].roots)

\* "Catalog publication must require the completed content pins" (ADR 0006): a published
\* reserved version has the receipt of its own attempt, and valid roots.
PublishedReservationIsComplete ==
    \A v \in Version : status[v] = "published" /\ attemptOf[v] # None =>
        /\ SealedFor(v) = {attemptOf[v]}
        /\ snapshot[v].roots \in ValidTree

\* Readers of a reserved version see the same roots for ever once it is published,
\* whatever saves, legacy writes, refreshes and publications were under way.
ReservedVersionsAreImmutable ==
    [][\A v \in Version : status[v] = "published" /\ attemptOf[v] # None =>
          snapshot'[v] = snapshot[v] /\ nodes'[v] = nodes[v]]_vars

\* A reserved successor stands on the source its author pinned: the source is published,
\* and if it is reserved too, at the very generation the successor was written from.
SuccessorSourceStands ==
    \A a \in Attempt : receipt[a] # None =>
        LET write == receipt[a].write
        IN  write # None /\ write.source # None =>
              /\ status[write.source] = "published"
              /\ attemptOf[write.source] # None =>
                   snapshot[write.source].generation = write.sourceGeneration

\* An ordered save replaces what its author read: neither another save nor a legacy
\* edit in between is lost.
SavesReplaceWhatWasRead ==
    [][\A w \in Worker :
          LET r == request[w]
          IN  /\ r # None /\ r.phase = "saving" /\ request'[w] = None
              /\ snapshot'[r.version] # snapshot[r.version]
              => Refreshed(r.version).roots = r.base]_vars

=============================================================================
