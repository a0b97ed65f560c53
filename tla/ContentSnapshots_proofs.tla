---------------------- MODULE ContentSnapshots_proofs ----------------------
(***************************************************************************)
(* Proofs about ContentSnapshots for every set of versions, attempts,      *)
(* trees and concurrent requests, and every bound on generations.          *)
(*                                                                         *)
(* The seal is decided under the row lock, so what a receipt says of its   *)
(* version is stable (SealInv); publication reads the receipt before it    *)
(* commits, and because the receipt is stable the answer is still true     *)
(* when it does (ReadyInv, PublishedInv).                                  *)
(***************************************************************************)
EXTENDS ContentSnapshots, TLAPS

(***************************************************************************)
(* Types.                                                                  *)
(***************************************************************************)
LEMMA RefreshType ==
    ASSUME TypeOK, NEW v \in Version
    PROVE  Refreshed(v) \in Snapshot
<1>1. snapshot[v] \in Snapshot /\ nodes[v] \in Roots
  BY DEF TypeOK
<1> DEFINE s == snapshot[v]
<1>2. [s EXCEPT !.dirty = FALSE] \in Snapshot
  BY <1>1 DEF Snapshot
<1>3. [generation |-> s.generation + 1, roots |-> nodes[v], canonical |-> FALSE, dirty |-> FALSE]
        \in Snapshot
  BY <1>1 DEF Snapshot
<1> QED  BY <1>1, <1>2, <1>3 DEF Refreshed

LEMMA RefreshAllType ==
    ASSUME TypeOK, NEW S
    PROVE  RefreshAll(S) \in [Version -> Snapshot]
BY RefreshType DEF RefreshAll, TypeOK

LEMMA TypeInit == Init => TypeOK
BY DEF Init, TypeOK, Untouched, Snapshot, Roots, Opt

LEMMA TypeStep == TypeOK /\ [Next]_vars => TypeOK'
<1> SUFFICES ASSUME TypeOK, [Next]_vars PROVE TypeOK'
  OBVIOUS
<1>t. /\ \A w \in Worker : request[w] # None => request[w] \in Request
      /\ Empty \in Roots
  BY DEF TypeOK, Opt, Roots
<1>f. ASSUME NEW w \in Worker, Finish(w)
      PROVE  request' \in [Worker -> Opt(Request)]
  BY <1>f DEF Finish, TypeOK, Opt
<1>1. ASSUME NEW v \in Version, NEW a \in Opt(Attempt), NEW hold \in BOOLEAN,
             CreateDraft(v, a, hold)
      PROVE  TypeOK'
  BY <1>1 DEF CreateDraft, TypeOK
<1>2. ASSUME NEW w \in Worker, NEW v \in Version, ReadToEdit(w, v)
      PROVE  TypeOK'
  <2>1. snapshot' \in [Version -> Snapshot]
    BY <1>2, RefreshAllType DEF ReadToEdit
  <2>2. Refreshed(v).roots \in Roots /\ Refreshed(v).generation \in Nat
    BY RefreshType DEF Snapshot
  <2>3. [roots |-> Refreshed(v).roots, expected |-> Refreshed(v).generation,
         source |-> None, sourceGeneration |-> 0, attempt |-> None] \in Write
    BY <2>2 DEF Write, Opt
  <2>4. request' \in [Worker -> Opt(Request)]
    BY <1>2, <2>2, <2>3 DEF ReadToEdit, Begin, TypeOK, Opt, Request
  <2> QED  BY <1>2, <2>1, <2>4 DEF ReadToEdit, TypeOK
<1>3. ASSUME NEW w \in Worker, NEW v \in Version, BeginLegacyWrite(w, v)
      PROVE  TypeOK'
  <2>1. request' \in [Worker -> Opt(Request)]
    BY <1>3, <1>t DEF BeginLegacyWrite, Begin, TypeOK, Opt, Request
  <2> QED  BY <1>3, <2>1 DEF BeginLegacyWrite, TypeOK
<1>4. ASSUME NEW w \in Worker, NEW v \in Version, BeginPublish(w, v)
      PROVE  TypeOK'
  <2>1. snapshot' \in [Version -> Snapshot]
    BY <1>4, RefreshAllType DEF BeginPublish
  <2>2. Refreshed(v).roots \in Roots
    BY RefreshType DEF Snapshot
  <2>3. request' \in [Worker -> Opt(Request)]
    BY <1>4, <2>2 DEF BeginPublish, Begin, TypeOK, Opt, Request
  <2> QED  BY <1>4, <2>1, <2>3 DEF BeginPublish, TypeOK
<1>5. ASSUME NEW w \in Worker, NEW roots \in Roots, NEW source \in Opt(Version),
             NEW sourceGeneration \in 0..MaxGeneration, NEW a \in Opt(Attempt),
             BeginSave(w, roots, source, sourceGeneration, a)
      PROVE  TypeOK'
  <2>1. /\ request[w] \in Request
        /\ request[w].write \in Write
    BY <1>5, <1>t DEF BeginSave, Request
  <2> DEFINE saved == [roots |-> roots, expected |-> request[w].write.expected,
                       source |-> source, sourceGeneration |-> sourceGeneration, attempt |-> a]
  <2>3. saved \in Write
    BY <2>1, BoundAssumption DEF Write
  <2>4. [request[w] EXCEPT !.phase = "saving", !.write = saved] \in Request
    BY <2>1, <2>3, <1>5 DEF Request, BeginSave
  <2>5. request' = [request EXCEPT ![w] = [request[w] EXCEPT !.phase = "saving", !.write = saved]]
    BY <1>5 DEF BeginSave, TypeOK
  <2>6. request' \in [Worker -> Opt(Request)]
    BY <2>4, <2>5 DEF TypeOK, Opt
  <2> QED  BY <1>5, <2>6 DEF BeginSave, TypeOK
<1>6. ASSUME NEW w \in Worker, NEW tree \in Roots, CommitLegacyWrite(w, tree)
      PROVE  TypeOK'
  <2>1. snapshot' \in [Version -> Snapshot]
    BY <1>6 DEF CommitLegacyWrite, TypeOK, Snapshot
  <2>2. nodes' \in [Version -> Roots]
    BY <1>6 DEF CommitLegacyWrite, TypeOK
  <2> QED  BY <1>6, <1>f, <2>1, <2>2 DEF CommitLegacyWrite, TypeOK
<1>7. ASSUME NEW w \in Worker, CommitSave(w)
      PROVE  TypeOK'
  <2> DEFINE v == request[w].version
             write == request[w].write
  <2>1. v \in Version /\ write \in Write
    BY <1>7, <1>t DEF CommitSave, Request
  <2>2. snapshot' \in [Version -> Snapshot]
    <3>1. RefreshAll({v, write.source}) \in [Version -> Snapshot]
      BY RefreshAllType
    <3>2. \A s \in Snapshot : Replaced(s, write.roots) \in Snapshot
      BY <2>1 DEF Replaced, Snapshot, Write
    <3>3. snapshot' = [RefreshAll({v, write.source}) EXCEPT ![v] = Replaced(@, write.roots)]
      BY <1>7 DEF CommitSave
    <3> HIDE DEF v, write
    <3> QED  BY <2>1, <3>1, <3>2, <3>3
  <2>3. receipt' \in [Attempt -> Opt(Receipt)]
    <3>1. Refreshed(v).generation \in Nat
      BY <2>1, RefreshType DEF Snapshot
    <3>2. [version |-> v, write |-> write, generation |-> Refreshed(v).generation + 1]
            \in Opt(Receipt)
      BY <2>1, <3>1 DEF Receipt, Opt
    <3> QED  BY <1>7, <3>2 DEF CommitSave, TypeOK
  <2> QED  BY <1>7, <1>f, <2>2, <2>3 DEF CommitSave, TypeOK
<1>8. ASSUME NEW w \in Worker, CommitPublish(w)
      PROVE  TypeOK'
  BY <1>8, <1>f DEF CommitPublish, TypeOK
<1>9. ASSUME NEW w \in Worker, EndRequest(w)
      PROVE  TypeOK'
  BY <1>9, <1>f DEF EndRequest, TypeOK
<1>10. ASSUME NEW v \in Version, NEW a \in Attempt, NEW generation \in 0..MaxGeneration,
              SealImport(v, a, generation)
       PROVE  TypeOK'
  <2>1. snapshot' \in [Version -> Snapshot]
    BY <1>10, RefreshAllType DEF SealImport
  <2>2. [version |-> v, write |-> None, generation |-> generation] \in Opt(Receipt)
    BY BoundAssumption DEF Receipt, Opt
  <2> QED  BY <1>10, <2>1, <2>2 DEF SealImport, TypeOK
<1>11. CASE UNCHANGED vars
  BY <1>11 DEF vars, TypeOK
<1> QED  BY <1>1, <1>2, <1>3, <1>4, <1>5, <1>6, <1>7, <1>8, <1>9, <1>10, <1>11 DEF Next

\* Rows, receipts and requests in flight keep their types.
THEOREM TypeCorrect == Spec => []TypeOK
BY TypeInit, TypeStep, PTL DEF Spec

(***************************************************************************)
(* What a receipt says of its version.                                     *)
(***************************************************************************)
SealInv ==
    /\ \A a, b \in Attempt : a # b /\ receipt[a] # None /\ receipt[b] # None
         => receipt[a].version # receipt[b].version
    /\ \A a \in Attempt : receipt[a] # None =>
         LET v == receipt[a].version
         IN  /\ snapshot[v].canonical \/ ~snapshot[v].dirty
             /\ snapshot[v].generation = receipt[a].generation
             /\ receipt[a].write # None => snapshot[v].roots = receipt[a].write.roots
             /\ Valid(snapshot[v].roots)

\* The catalog has its own attempt's receipt, for this version, over some roots.
Complete(v) ==
    /\ attemptOf[v] \in Attempt
    /\ receipt[attemptOf[v]] # None
    /\ receipt[attemptOf[v]].version = v
    /\ snapshot[v].roots # Empty

ReadyInv ==
    \A w \in Worker : request[w] # None /\ request[w].phase = "publishing" =>
        /\ status[request[w].version] # "unknown"
        /\ attemptOf[request[w].version] # None => Complete(request[w].version)

PublishedInv ==
    \A v \in Version : status[v] = "published" /\ attemptOf[v] # None => Complete(v)

\* The row lock and the second look at the receipts: nothing moves a sealed version.
LEMMA SealedFrame ==
    ASSUME TypeOK, SealInv, [Next]_vars
    PROVE  /\ \A v \in Version : Sealed(v) => snapshot'[v] = snapshot[v] /\ nodes'[v] = nodes[v]
           /\ \A a \in Attempt : receipt[a] # None => receipt'[a] = receipt[a]
           /\ \A v \in Version : status[v] # "unknown" =>
                attemptOf'[v] = attemptOf[v] /\ status'[v] \in {status[v], "published"}
<1> DEFINE Frame ==
             /\ \A v \in Version : Sealed(v) => snapshot'[v] = snapshot[v] /\ nodes'[v] = nodes[v]
             /\ \A a \in Attempt : receipt[a] # None => receipt'[a] = receipt[a]
             /\ \A v \in Version : status[v] # "unknown" =>
                  attemptOf'[v] = attemptOf[v] /\ status'[v] \in {status[v], "published"}
<1>r. \A v \in Version : Sealed(v) => Refreshed(v) = snapshot[v]
  BY DEF Sealed, SealedFor, SealInv, Refreshed
<1>s. ASSUME NEW S, NEW v \in Version, Sealed(v)
      PROVE  RefreshAll(S)[v] = snapshot[v]
  BY <1>r, <1>s DEF RefreshAll
<1>1. ASSUME NEW v \in Version, NEW a \in Opt(Attempt), NEW hold \in BOOLEAN,
             CreateDraft(v, a, hold)
      PROVE  Frame
  BY <1>1 DEF CreateDraft, TypeOK
<1>2. ASSUME NEW w \in Worker, NEW v \in Version,
             ReadToEdit(w, v) \/ BeginLegacyWrite(w, v) \/ BeginPublish(w, v)
      PROVE  Frame
  BY <1>2, <1>s DEF ReadToEdit, BeginLegacyWrite, BeginPublish
<1>3. ASSUME NEW w \in Worker, NEW roots \in Roots, NEW source \in Opt(Version),
             NEW sourceGeneration \in 0..MaxGeneration, NEW a \in Opt(Attempt),
             BeginSave(w, roots, source, sourceGeneration, a)
      PROVE  Frame
  BY <1>3 DEF BeginSave
<1>4. ASSUME NEW w \in Worker, NEW tree \in Roots, CommitLegacyWrite(w, tree)
      PROVE  Frame
  <2> DEFINE u == request[w].version
  <2>1. /\ ~Sealed(u)
        /\ nodes' = [nodes EXCEPT ![u] = tree]
        /\ snapshot' = [snapshot EXCEPT ![u].dirty = TRUE]
        /\ UNCHANGED <<status, attemptOf, receipt>>
    BY <1>4 DEF CommitLegacyWrite, RequireLegacy
  <2> QED  BY <2>1 DEF TypeOK
<1>5. ASSUME NEW w \in Worker, CommitSave(w)
      PROVE  Frame
  <2> DEFINE u == request[w].version
             write == request[w].write
  <2>1. /\ ~Sealed(u)
        /\ write.attempt # None => receipt[write.attempt] = None
        /\ snapshot' = [RefreshAll({u, write.source}) EXCEPT ![u] = Replaced(@, write.roots)]
        /\ UNCHANGED <<status, attemptOf, nodes>>
    BY <1>5 DEF CommitSave, MaySave
  <2>2. \A a \in Attempt : receipt[a] # None => receipt'[a] = receipt[a]
    BY <1>5, <2>1 DEF CommitSave, TypeOK
  <2>3. \A v \in Version : v # u => snapshot'[v] = RefreshAll({u, write.source})[v]
    BY <2>1 DEF RefreshAll
  <2> QED  BY <2>1, <2>2, <2>3, <1>s
<1>6. ASSUME NEW w \in Worker, CommitPublish(w)
      PROVE  Frame
  BY <1>6 DEF CommitPublish, TypeOK
<1>7. ASSUME NEW w \in Worker, EndRequest(w)
      PROVE  Frame
  BY <1>7 DEF EndRequest
<1>8. ASSUME NEW v \in Version, NEW a \in Attempt, NEW generation \in 0..MaxGeneration,
             SealImport(v, a, generation)
      PROVE  Frame
  BY <1>8, <1>s DEF SealImport, TypeOK
<1>9. CASE UNCHANGED vars
  BY <1>9 DEF vars
<1> QED  BY <1>1, <1>2, <1>3, <1>4, <1>5, <1>6, <1>7, <1>8, <1>9 DEF Next

\* A new receipt seals a version nobody had sealed, at the generation it then has.
LEMMA SealStep ==
    ASSUME TypeOK, SealInv, [Next]_vars
    PROVE  SealInv'
<1> DEFINE Sealing(a) ==
             /\ receipt[a] = None
             /\ receipt'[a].version \in Version
             /\ ~Sealed(receipt'[a].version)
             /\ LET s == snapshot'[receipt'[a].version]
                IN  /\ s.canonical \/ ~s.dirty
                    /\ s.generation = receipt'[a].generation
                    /\ receipt'[a].write # None => s.roots = receipt'[a].write.roots
                    /\ Valid(s.roots)
<1>f. /\ \A v \in Version : Sealed(v) => snapshot'[v] = snapshot[v]
      /\ \A a \in Attempt : receipt[a] # None => receipt'[a] = receipt[a]
  BY SealedFrame
<1>o. \A a \in Attempt : receipt[a] # None =>
        receipt[a].version \in Version /\ Sealed(receipt[a].version)
  BY DEF TypeOK, Opt, Receipt, Sealed, SealedFor
<1>n. ASSUME NEW a \in Attempt,
             \A b \in Attempt \ {a} : receipt'[b] = receipt[b],
             receipt'[a] # receipt[a] => Sealing(a)
      PROVE  SealInv'
  <2>1. ASSUME NEW b \in Attempt, receipt'[b] # None
        PROVE  LET v == receipt'[b].version
               IN  /\ snapshot'[v].canonical \/ ~snapshot'[v].dirty
                   /\ snapshot'[v].generation = receipt'[b].generation
                   /\ receipt'[b].write # None => snapshot'[v].roots = receipt'[b].write.roots
                   /\ Valid(snapshot'[v].roots)
    <3>1. CASE receipt'[b] = receipt[b]
      BY <3>1, <2>1, <1>f, <1>o DEF SealInv
    <3>2. CASE receipt'[b] # receipt[b]
      BY <3>2, <1>n
    <3> QED  BY <3>1, <3>2
  <2>2. ASSUME NEW b \in Attempt, NEW c \in Attempt, b # c, receipt'[b] # None, receipt'[c] # None
        PROVE  receipt'[b].version # receipt'[c].version
    <3>1. CASE receipt'[b] = receipt[b] /\ receipt'[c] = receipt[c]
      BY <3>1, <2>2 DEF SealInv
    <3>2. CASE receipt'[b] # receipt[b]
      <4>1. b = a /\ receipt'[c] = receipt[c]
        BY <3>2, <1>n, <2>2
      <4> QED  BY <4>1, <3>2, <1>n, <1>o, <2>2
    <3>3. CASE receipt'[c] # receipt[c]
      <4>1. c = a /\ receipt'[b] = receipt[b]
        BY <3>3, <1>n, <2>2
      <4> QED  BY <4>1, <3>3, <1>n, <1>o, <2>2
    <3> QED  BY <3>1, <3>2, <3>3
  <2> QED  BY <2>1, <2>2 DEF SealInv, Valid
<1>1. CASE UNCHANGED receipt
  <2>1. ASSUME NEW b \in Attempt, receipt[b] # None
        PROVE  snapshot'[receipt[b].version] = snapshot[receipt[b].version]
    BY <2>1, <1>f, <1>o
  <2> QED  BY <1>1, <2>1 DEF SealInv, Valid
<1>2. ASSUME NEW w \in Worker, CommitSave(w)
      PROVE  SealInv'
  <2> DEFINE u == request[w].version
             write == request[w].write
  <2>1. /\ ~Sealed(u)
        /\ write.attempt # None => receipt[write.attempt] = None
        /\ Valid(write.roots)
        /\ snapshot' = [RefreshAll({u, write.source}) EXCEPT ![u] = Replaced(@, write.roots)]
        /\ u \in Version
        /\ write.attempt \in Opt(Attempt)
    BY <1>2 DEF CommitSave, MaySave, TypeOK, Opt, Request, Write
  <2>2. CASE write.attempt = None
    BY <1>2, <2>2, <1>1 DEF CommitSave
  <2>3. CASE write.attempt # None
    <3> DEFINE a == write.attempt
    <3>1. a \in Attempt
      BY <2>1, <2>3 DEF Opt
    <3>2. /\ receipt'[a] = [version |-> u, write |-> write, generation |-> Refreshed(u).generation + 1]
          /\ \A b \in Attempt \ {a} : receipt'[b] = receipt[b]
      BY <1>2, <2>3, <3>1 DEF CommitSave, TypeOK
    <3>3. snapshot'[u] = Replaced(Refreshed(u), write.roots)
      BY <2>1 DEF RefreshAll
    <3>4. /\ snapshot'[u].canonical
          /\ snapshot'[u].generation = Refreshed(u).generation + 1
          /\ snapshot'[u].roots = write.roots
      BY <3>3 DEF Replaced
    <3>5. Sealing(a)
      BY <2>1, <2>3, <3>2, <3>4
    <3> QED  BY <3>1, <3>2, <3>5, <1>n
  <2> QED  BY <2>2, <2>3
<1>3. ASSUME NEW v \in Version, NEW a \in Attempt, NEW generation \in 0..MaxGeneration,
             SealImport(v, a, generation)
      PROVE  SealInv'
  <2>1. /\ receipt'[a] = [version |-> v, write |-> None, generation |-> generation]
        /\ \A b \in Attempt \ {a} : receipt'[b] = receipt[b]
        /\ receipt[a] = None
        /\ ~Sealed(v)
        /\ snapshot'[v] = Refreshed(v)
        /\ Refreshed(v).generation = generation
        /\ Valid(Refreshed(v).roots)
    BY <1>3 DEF SealImport, TypeOK, RefreshAll
  <2>2. Refreshed(v).canonical \/ ~Refreshed(v).dirty
    <3>1. snapshot[v] \in Snapshot
      BY DEF TypeOK
    <3> QED  BY <3>1 DEF Refreshed, Snapshot
  <2>3. Sealing(a)
    BY <2>1, <2>2
  <2> QED  BY <2>1, <2>3, <1>n
<1> QED
  BY <1>1, <1>2, <1>3 DEF Next, CreateDraft, ReadToEdit, BeginLegacyWrite, BeginPublish,
     BeginSave, CommitLegacyWrite, CommitPublish, EndRequest, vars

\* What sealing means for a reader: a sealed version has nothing left to refresh.
LEMMA SealedRefreshed ==
    ASSUME SealInv, NEW v \in Version, Sealed(v)
    PROVE  Refreshed(v) = snapshot[v]
BY DEF Sealed, SealedFor, SealInv, Refreshed

(***************************************************************************)
(* From readiness to publication.                                          *)
(***************************************************************************)
LEMMA CompleteSealed ==
    ASSUME NEW v \in Version, Complete(v)
    PROVE  Sealed(v)
BY DEF Complete, Sealed, SealedFor

LEMMA CompleteStable ==
    ASSUME TypeOK, SealInv, [Next]_vars,
           NEW v \in Version, Complete(v), status[v] # "unknown"
    PROVE  Complete(v)' /\ attemptOf'[v] = attemptOf[v] /\ status'[v] # "unknown"
<1>1. Sealed(v)
  BY CompleteSealed
<1>2. /\ snapshot'[v] = snapshot[v]
      /\ receipt'[attemptOf[v]] = receipt[attemptOf[v]]
      /\ attemptOf'[v] = attemptOf[v]
      /\ status'[v] \in {status[v], "published"}
  BY <1>1, SealedFrame DEF Complete
<1> QED  BY <1>2 DEF Complete

\* Only a publication that was found ready publishes.
LEMMA PublicationComesFromReadiness ==
    ASSUME TypeOK, [Next]_vars, NEW v \in Version,
           status'[v] = "published", status[v] # "published"
    PROVE  \E w \in Worker : /\ request[w] # None
                             /\ request[w].phase = "publishing"
                             /\ request[w].version = v
<1>1. ASSUME NEW w \in Worker, CommitPublish(w)
      PROVE  request[w] # None /\ request[w].phase = "publishing" /\ request[w].version = v
  BY <1>1 DEF CommitPublish, TypeOK
<1>2. ASSUME NEW u \in Version, NEW a \in Opt(Attempt), NEW hold \in BOOLEAN,
             CreateDraft(u, a, hold)
      PROVE  FALSE
  BY <1>2 DEF CreateDraft, TypeOK
<1> QED
  BY <1>1, <1>2 DEF Next, ReadToEdit, BeginLegacyWrite, BeginPublish, BeginSave,
     CommitLegacyWrite, CommitSave, EndRequest, SealImport, vars

LEMMA RequestInType ==
    ASSUME TypeOK, NEW w \in Worker, request[w] # None
    PROVE  request[w].version \in Version
BY DEF TypeOK, Opt, Request

\* Requests only become "publishing" in BeginPublish.
LEMMA ReadinessComesFromBegin ==
    ASSUME TypeOK, [Next]_vars, NEW w \in Worker,
           request'[w] # None, request'[w].phase = "publishing", request'[w] # request[w]
    PROVE  BeginPublish(w, request'[w].version) /\ request'[w].version \in Version
<1>1. ASSUME NEW x \in Worker, NEW v \in Version, ReadToEdit(x, v)
      PROVE  FALSE
  BY <1>1 DEF ReadToEdit, Begin, TypeOK
<1>2. ASSUME NEW x \in Worker, NEW v \in Version, BeginLegacyWrite(x, v)
      PROVE  FALSE
  BY <1>2 DEF BeginLegacyWrite, Begin, TypeOK
<1>3. ASSUME NEW x \in Worker, NEW v \in Version, BeginPublish(x, v)
      PROVE  x = w /\ request'[w].version = v
  BY <1>3 DEF BeginPublish, Begin, TypeOK
<1>4. ASSUME NEW x \in Worker, NEW roots \in Roots, NEW source \in Opt(Version),
             NEW sourceGeneration \in 0..MaxGeneration, NEW a \in Opt(Attempt),
             BeginSave(x, roots, source, sourceGeneration, a)
      PROVE  FALSE
  <2>1. request[x] \in Request
    BY <1>4 DEF BeginSave, TypeOK, Opt
  <2> DEFINE saved == [roots |-> roots, expected |-> request[x].write.expected,
                       source |-> source, sourceGeneration |-> sourceGeneration, attempt |-> a]
  <2>2. request' = [request EXCEPT ![x] = [request[x] EXCEPT !.phase = "saving", !.write = saved]]
    BY <1>4 DEF BeginSave, TypeOK
  <2>3. [request[x] EXCEPT !.phase = "saving", !.write = saved].phase = "saving"
    BY <2>1 DEF Request
  <2>4. x = w
    BY <2>2 DEF TypeOK
  <2>5. request'[w].phase = "saving"
    BY <2>2, <2>3, <2>4 DEF TypeOK
  <2> QED  BY <2>5
<1>5. ASSUME NEW x \in Worker, Finish(x)
      PROVE  FALSE
  BY <1>5 DEF Finish, TypeOK
<1> QED
  BY <1>1, <1>2, <1>3, <1>4, <1>5 DEF Next, CreateDraft, CommitLegacyWrite, CommitSave,
     CommitPublish, EndRequest, SealImport, vars

LEMMA PublishStep ==
    ASSUME TypeOK, SealInv, ReadyInv, PublishedInv, [Next]_vars
    PROVE  ReadyInv' /\ PublishedInv'
<1>1. ASSUME NEW v \in Version, status'[v] = "published", attemptOf'[v] # None
      PROVE  Complete(v)'
  <2>1. status[v] # "unknown" /\ (attemptOf[v] # None => Complete(v))
    <3>1. CASE status[v] = "published"
      BY <3>1 DEF PublishedInv
    <3>2. CASE status[v] # "published"
      BY <3>2, <1>1, PublicationComesFromReadiness DEF ReadyInv
    <3> QED  BY <3>1, <3>2
  <2>2. attemptOf'[v] = attemptOf[v]
    BY <2>1, SealedFrame
  <2> QED  BY <1>1, <2>1, <2>2, CompleteStable
<1>2. ASSUME NEW w \in Worker, NEW v \in Version, request'[w] # None,
             request'[w].phase = "publishing", request'[w].version = v
      PROVE  status'[v] # "unknown" /\ (attemptOf'[v] # None => Complete(v)')
  <2>1. CASE request'[w] = request[w]
    <3>1. status[v] # "unknown" /\ (attemptOf[v] # None => Complete(v))
      BY <2>1, <1>2 DEF ReadyInv
    <3>2. attemptOf'[v] = attemptOf[v] /\ status'[v] # "unknown"
      BY <3>1, SealedFrame
    <3> QED  BY <3>1, <3>2, CompleteStable
  <2>2. CASE request'[w] # request[w]
    <3>1. BeginPublish(w, v)
      BY <2>2, <1>2, ReadinessComesFromBegin
    <3>2. /\ status[v] # "unknown" /\ Ready(v)
          /\ snapshot' = RefreshAll({v})
          /\ UNCHANGED <<status, attemptOf, receipt>>
      BY <3>1 DEF BeginPublish
    <3>3. snapshot'[v] = Refreshed(v)
      BY <3>2 DEF RefreshAll
    <3>4. ASSUME attemptOf[v] # None
          PROVE  Complete(v)'
      <4>1. attemptOf[v] \in Attempt
        BY <3>4 DEF TypeOK, Opt
      <4> QED  BY <4>1, <3>2, <3>3, <3>4 DEF Complete, Ready
    <3> QED  BY <3>2, <3>4
  <2> QED  BY <2>1, <2>2
<1>3. \A w \in Worker : request'[w] # None => request'[w].version \in Version
  BY TypeStep DEF TypeOK, Opt, Request
<1>4. ReadyInv'
  <2> SUFFICES ASSUME NEW w \in Worker, request'[w] # None, request'[w].phase = "publishing"
               PROVE  (/\ status[request[w].version] # "unknown"
                       /\ attemptOf[request[w].version] # None => Complete(request[w].version))'
    BY DEF ReadyInv
  <2>1. PICK v \in Version : request'[w].version = v
    BY <1>3
  <2> QED  BY <2>1, <1>2 DEF Complete
<1>5. PublishedInv'
  BY <1>1 DEF PublishedInv
<1> QED  BY <1>4, <1>5

(***************************************************************************)
(* A request in flight and the snapshot it read.                           *)
(***************************************************************************)
ReadInv ==
    \A w \in Worker : request[w] # None /\ request[w].phase \in {"editing", "saving"} =>
        LET r == request[w]
            s == snapshot[r.version]
        IN  /\ r.write.expected <= s.generation
            /\ r.write.expected = s.generation => s.roots = r.base

\* The roots of a version change only together with its generation, which only grows.
Advances(s, t) == t.generation > s.generation \/ (t.generation = s.generation /\ t.roots = s.roots)

LEMMA RefreshAdvances ==
    ASSUME TypeOK, NEW v \in Version
    PROVE  Advances(snapshot[v], Refreshed(v))
<1>1. snapshot[v] \in Snapshot
  BY DEF TypeOK
<1> QED  BY <1>1 DEF Advances, Refreshed, Snapshot

LEMMA SnapshotsAdvance ==
    ASSUME TypeOK, [Next]_vars, NEW v \in Version
    PROVE  Advances(snapshot[v], snapshot'[v])
<1>s. snapshot[v] \in Snapshot
  BY DEF TypeOK
<1>i. Advances(snapshot[v], snapshot[v])
  BY <1>s DEF Advances
<1>r. ASSUME NEW S
      PROVE  Advances(snapshot[v], RefreshAll(S)[v])
  BY <1>i, RefreshAdvances DEF RefreshAll
<1>1. ASSUME NEW w \in Worker, NEW tree \in Roots, CommitLegacyWrite(w, tree)
      PROVE  Advances(snapshot[v], snapshot'[v])
  <2>1. \/ snapshot'[v] = snapshot[v]
        \/ snapshot'[v] = [snapshot[v] EXCEPT !.dirty = TRUE]
    BY <1>1 DEF CommitLegacyWrite, TypeOK
  <2>2. Advances(snapshot[v], [snapshot[v] EXCEPT !.dirty = TRUE])
    BY <1>s DEF Advances, Snapshot
  <2> QED  BY <2>1, <2>2, <1>i
<1>2. ASSUME NEW w \in Worker, CommitSave(w)
      PROVE  Advances(snapshot[v], snapshot'[v])
  <2> DEFINE u == request[w].version
             write == request[w].write
  <2>1. snapshot' = [RefreshAll({u, write.source}) EXCEPT ![u] = Replaced(@, write.roots)]
    BY <1>2 DEF CommitSave
  <2>2. CASE v = u
    <3>1. snapshot'[v] = Replaced(Refreshed(v), write.roots)
      BY <2>1, <2>2 DEF RefreshAll
    <3>2. Refreshed(v).generation \in Nat /\ Refreshed(v).generation >= snapshot[v].generation
      BY <1>s, RefreshType, RefreshAdvances DEF Advances, Snapshot
    <3>3. snapshot'[v].generation = Refreshed(v).generation + 1
      BY <3>1 DEF Replaced
    <3>4. snapshot[v].generation \in Nat
      BY <1>s DEF Snapshot
    <3> QED  BY <3>2, <3>3, <3>4 DEF Advances
  <2>3. CASE v # u
    BY <2>1, <2>3, <1>r DEF RefreshAll
  <2> QED  BY <2>2, <2>3
<1>3. ASSUME NEW S, snapshot' = RefreshAll(S)
      PROVE  Advances(snapshot[v], snapshot'[v])
  BY <1>3, <1>r
<1>4. CASE UNCHANGED snapshot
  BY <1>4, <1>i
<1> QED
  BY <1>1, <1>2, <1>3, <1>4 DEF Next, CreateDraft, ReadToEdit, BeginLegacyWrite, BeginPublish,
     BeginSave, CommitPublish, EndRequest, SealImport, vars

LEMMA ReadStep ==
    ASSUME TypeOK, ReadInv, [Next]_vars
    PROVE  ReadInv'
<1> SUFFICES ASSUME NEW w \in Worker, request'[w] # None,
                    request'[w].phase \in {"editing", "saving"}
             PROVE  LET r == request'[w]
                        s == snapshot'[r.version]
                    IN  /\ r.write.expected <= s.generation
                        /\ r.write.expected = s.generation => s.roots = r.base
  BY DEF ReadInv
<1> DEFINE Kept == /\ request[w] # None /\ request[w].phase \in {"editing", "saving"}
                   /\ request'[w].version = request[w].version
                   /\ request'[w].base = request[w].base
                   /\ request'[w].write.expected = request[w].write.expected
           Read == LET v == request'[w].version
                   IN  /\ v \in Version
                       /\ request'[w].write.expected = snapshot'[v].generation
                       /\ request'[w].base = snapshot'[v].roots
                       /\ snapshot'[v] \in Snapshot
<1>1. Kept \/ Read
  <2>1. CASE UNCHANGED request
    BY <2>1
  <2>2. ASSUME NEW x \in Worker, Finish(x)
        PROVE  Kept
    BY <2>2 DEF Finish, TypeOK
  <2>3. ASSUME NEW x \in Worker, NEW v \in Version, ReadToEdit(x, v)
        PROVE  Kept \/ Read
    <3>1. snapshot'[v] = Refreshed(v) /\ Refreshed(v) \in Snapshot
      BY <2>3, RefreshType DEF ReadToEdit, RefreshAll
    <3> QED  BY <2>3, <3>1 DEF ReadToEdit, Begin, TypeOK
  <2>4. ASSUME NEW x \in Worker, NEW v \in Version,
               BeginLegacyWrite(x, v) \/ BeginPublish(x, v)
        PROVE  Kept
    BY <2>4 DEF BeginLegacyWrite, BeginPublish, Begin, TypeOK
  <2>5. ASSUME NEW x \in Worker, NEW roots \in Roots, NEW source \in Opt(Version),
               NEW sourceGeneration \in 0..MaxGeneration, NEW a \in Opt(Attempt),
               BeginSave(x, roots, source, sourceGeneration, a)
        PROVE  Kept
    <3>1. request[x] \in Request /\ request[x].phase = "editing" /\ request[x] # None
      BY <2>5 DEF BeginSave, TypeOK, Opt
    <3> DEFINE saved == [roots |-> roots, expected |-> request[x].write.expected,
                         source |-> source, sourceGeneration |-> sourceGeneration, attempt |-> a]
               t == [request[x] EXCEPT !.phase = "saving", !.write = saved]
    <3>2. request' = [request EXCEPT ![x] = t]
      BY <2>5 DEF BeginSave, TypeOK
    <3>3. /\ t.version = request[x].version
          /\ t.base = request[x].base
          /\ t.write.expected = request[x].write.expected
      BY <3>1 DEF Request
    <3> HIDE DEF t
    <3>4. CASE x = w
      BY <3>1, <3>2, <3>3, <3>4 DEF TypeOK
    <3>5. CASE x # w
      BY <3>2, <3>5 DEF TypeOK
    <3> QED  BY <3>4, <3>5
  <2> QED
    BY <2>1, <2>2, <2>3, <2>4, <2>5 DEF Next, CreateDraft, CommitLegacyWrite, CommitSave,
       CommitPublish, EndRequest, SealImport, vars
<1>2. CASE Kept
  <2> DEFINE v == request[w].version
  <2>1. v \in Version /\ request[w].write.expected \in Nat
    BY <1>2 DEF TypeOK, Opt, Request, Write
  <2>2. snapshot[v] \in Snapshot /\ snapshot'[v] \in Snapshot
    BY <2>1, TypeStep DEF TypeOK
  <2>3. Advances(snapshot[v], snapshot'[v])
    BY <2>1, SnapshotsAdvance
  <2>4. /\ request[w].write.expected <= snapshot[v].generation
        /\ request[w].write.expected = snapshot[v].generation => snapshot[v].roots = request[w].base
    BY <1>2 DEF ReadInv
  <2> QED  BY <1>2, <2>1, <2>2, <2>3, <2>4 DEF Advances, Snapshot
<1>3. CASE Read
  BY <1>3 DEF Snapshot
<1> QED  BY <1>1, <1>2, <1>3

(***************************************************************************)
(* The inductive invariant and the theorems.                               *)
(***************************************************************************)
LEMMA SourceStep ==
    ASSUME TypeOK, SealInv, PublishedInv, SuccessorSourceStands, [Next]_vars
    PROVE  SuccessorSourceStands'
<1> SUFFICES ASSUME NEW a \in Attempt, NEW write, write = receipt'[a].write,
                    receipt'[a] # None, write # None, write.source # None
             PROVE  /\ status'[write.source] = "published"
                    /\ attemptOf'[write.source] # None =>
                         snapshot'[write.source].generation = write.sourceGeneration
  BY DEF SuccessorSourceStands
<1> DEFINE u == write.source
<1>0. u \in Version
  BY TypeStep DEF TypeOK, Opt, Receipt, Write
<1>1. /\ status[u] = "published"
      /\ attemptOf[u] # None => snapshot[u].generation = write.sourceGeneration
  <2>1. CASE receipt'[a] = receipt[a]
    BY <2>1 DEF SuccessorSourceStands
  <2>2. CASE receipt'[a] # receipt[a]
    <3>1. ASSUME NEW w \in Worker, CommitSave(w)
          PROVE  SourceReady(write) /\ write.attempt # None
      <4>1. /\ SourceReady(request[w].write)
            /\ receipt' = IF request[w].write.attempt = None THEN receipt
                          ELSE [receipt EXCEPT ![request[w].write.attempt] =
                                  [version |-> request[w].version, write |-> request[w].write,
                                   generation |-> Refreshed(request[w].version).generation + 1]]
        BY <3>1 DEF CommitSave, MaySave
      <4>2. request[w].write.attempt # None /\ write = request[w].write
        BY <4>1, <2>2 DEF TypeOK
      <4> QED  BY <4>1, <4>2
    <3>2. ASSUME NEW v \in Version, NEW b \in Attempt, NEW generation \in 0..MaxGeneration,
                 SealImport(v, b, generation)
          PROVE  write = None
      BY <3>2, <2>2 DEF SealImport, TypeOK
    <3>3. SourceReady(write) /\ write.attempt # None
      BY <2>2, <3>1, <3>2 DEF Next, CreateDraft, ReadToEdit, BeginLegacyWrite, BeginPublish,
         BeginSave, CommitLegacyWrite, CommitPublish, EndRequest, vars
    <3>4. /\ status[u] = "published"
          /\ Refreshed(u).generation = write.sourceGeneration
      BY <3>3 DEF SourceReady
    <3>5. attemptOf[u] # None => Refreshed(u) = snapshot[u]
      BY <1>0, <3>4, CompleteSealed, SealedRefreshed DEF PublishedInv
    <3> QED  BY <3>4, <3>5
  <2> QED  BY <2>1, <2>2
<1>2. /\ status'[u] = "published"
      /\ attemptOf'[u] = attemptOf[u]
  BY <1>0, <1>1, SealedFrame
<1>3. attemptOf[u] # None => snapshot'[u] = snapshot[u]
  BY <1>0, <1>1, CompleteSealed, SealedFrame DEF PublishedInv
<1> QED  BY <1>1, <1>2, <1>3

IInv == TypeOK /\ SealInv /\ ReadyInv /\ PublishedInv /\ ReadInv /\ SuccessorSourceStands

LEMMA InvInit == Init => IInv
BY TypeInit DEF Init, IInv, SealInv, ReadyInv, PublishedInv, ReadInv, SuccessorSourceStands

LEMMA InvStep == IInv /\ [Next]_vars => IInv'
BY TypeStep, SealStep, PublishStep, ReadStep, SourceStep DEF IInv

THEOREM ContentInvariant == Spec => []IInv
BY InvInit, InvStep, PTL DEF Spec

\* publishReceipt never answers "Reserved roots changed": a receipt goes on describing
\* the roots of its version.
THEOREM SealsStand == Spec => []SealedRootsStand
<1>1. IInv => SealedRootsStand
  <2> SUFFICES ASSUME IInv, NEW a \in Attempt, receipt[a] # None
               PROVE  LET v == receipt[a].version
                      IN  /\ Refreshed(v) = snapshot[v]
                          /\ snapshot[v].generation = receipt[a].generation
                          /\ receipt[a].write # None => snapshot[v].roots = receipt[a].write.roots
                          /\ Valid(snapshot[v].roots)
    BY DEF SealedRootsStand
  <2>1. receipt[a].version \in Version /\ Sealed(receipt[a].version)
    BY DEF IInv, TypeOK, Opt, Receipt, Sealed, SealedFor
  <2> QED  BY <2>1, SealedRefreshed DEF IInv, SealInv
<1> QED  BY <1>1, ContentInvariant, PTL

\* ADR 0006, "catalog publication must require the completed content pins": a reserved
\* version is published only with its own attempt's receipt, over valid roots.
THEOREM CompleteWhenPublished == Spec => []PublishedReservationIsComplete
<1>1. IInv => PublishedReservationIsComplete
  <2> SUFFICES ASSUME IInv, NEW v \in Version, status[v] = "published", attemptOf[v] # None
               PROVE  SealedFor(v) = {attemptOf[v]} /\ snapshot[v].roots \in ValidTree
    BY DEF PublishedReservationIsComplete
  <2>1. Complete(v)
    BY DEF IInv, PublishedInv
  <2>2. SealedFor(v) = {attemptOf[v]}
    BY <2>1 DEF IInv, SealInv, SealedFor, Complete
  <2>3. Valid(snapshot[v].roots) /\ snapshot[v].roots # Empty
    BY <2>1 DEF IInv, SealInv, Complete
  <2> QED  BY <2>2, <2>3 DEF Valid
<1> QED  BY <1>1, ContentInvariant, PTL

\* Nothing under way at publication moves the roots of a published reserved version.
THEOREM PublishedRootsAreImmutable == Spec => ReservedVersionsAreImmutable
<1>1. IInv /\ [Next]_vars =>
        [\A v \in Version : status[v] = "published" /\ attemptOf[v] # None =>
            snapshot'[v] = snapshot[v] /\ nodes'[v] = nodes[v]]_vars
  <2> SUFFICES ASSUME IInv, [Next]_vars, NEW v \in Version,
                      status[v] = "published", attemptOf[v] # None
               PROVE  snapshot'[v] = snapshot[v] /\ nodes'[v] = nodes[v]
    OBVIOUS
  <2> QED  BY CompleteSealed, SealedFrame DEF IInv, PublishedInv
<1> QED  BY <1>1, ContentInvariant, PTL DEF Spec, ReservedVersionsAreImmutable

\* A reserved successor's source is published, and sealed at the pinned generation.
THEOREM SourcesStand == Spec => []SuccessorSourceStands
BY ContentInvariant, PTL DEF IInv

\* The optimistic generation check loses no update: a save that changes the roots
\* replaces exactly the roots its author read.
THEOREM NoLostUpdate == Spec => SavesReplaceWhatWasRead
<1> DEFINE Replaces ==
      \A w \in Worker :
         LET r == request[w]
         IN  /\ r # None /\ r.phase = "saving" /\ request'[w] = None
             /\ snapshot'[r.version] # snapshot[r.version]
             => Refreshed(r.version).roots = r.base
<1>1. IInv /\ [Next]_vars => [Replaces]_vars
  <2> SUFFICES ASSUME IInv, [Next]_vars, NEW w \in Worker, request[w] # None,
                      request[w].phase = "saving", request'[w] = None,
                      snapshot'[request[w].version] # snapshot[request[w].version]
               PROVE  Refreshed(request[w].version).roots = request[w].base
    OBVIOUS
  <2> DEFINE v == request[w].version
  <2>1. v \in Version /\ snapshot[v] \in Snapshot /\ request[w].write.expected \in Nat
    BY DEF IInv, TypeOK, Opt, Request, Write
  <2>2. CommitSave(w)
    <3>1. ASSUME NEW x \in Worker, NEW r, Begin(x, r)
          PROVE  FALSE
      BY <3>1 DEF Begin, IInv, TypeOK
    <3>2. ASSUME NEW x \in Worker, Finish(x)
          PROVE  x = w
      BY <3>2 DEF Finish, IInv, TypeOK
    <3>3. ASSUME NEW x \in Worker, NEW tree \in Roots, CommitLegacyWrite(x, tree)
          PROVE  FALSE
      BY <3>2, <3>3 DEF CommitLegacyWrite
    <3>4. ASSUME NEW x \in Worker, NEW roots \in Roots, NEW source \in Opt(Version),
                 NEW sourceGeneration \in 0..MaxGeneration, NEW a \in Opt(Attempt),
                 BeginSave(x, roots, source, sourceGeneration, a)
          PROVE  FALSE
      <4>1. x # w /\ \E r : request' = [request EXCEPT ![x] = r]
        BY <3>4 DEF BeginSave
      <4> QED  BY <4>1 DEF IInv, TypeOK
    <3>5. ASSUME NEW x \in Worker, CommitPublish(x) \/ EndRequest(x)
          PROVE  FALSE
      BY <3>2, <3>5 DEF CommitPublish, EndRequest
    <3>6. ASSUME request' = request
          PROVE  FALSE
      BY <3>6
    <3> QED
      BY <3>1, <3>2, <3>3, <3>4, <3>5, <3>6 DEF Next, CreateDraft, ReadToEdit,
         BeginLegacyWrite, BeginPublish, CommitSave, SealImport, vars
  <2>3. Refreshed(v).generation = request[w].write.expected
    BY <2>2 DEF CommitSave, MaySave
  <2>4. /\ request[w].write.expected <= snapshot[v].generation
        /\ request[w].write.expected = snapshot[v].generation => snapshot[v].roots = request[w].base
    BY DEF IInv, ReadInv
  <2>5. Advances(snapshot[v], Refreshed(v))
    BY <2>1, RefreshAdvances DEF IInv
  <2> QED  BY <2>1, <2>3, <2>4, <2>5 DEF Advances, Snapshot
<1> QED  BY <1>1, ContentInvariant, PTL DEF Spec, SavesReplaceWhatWasRead

=============================================================================
