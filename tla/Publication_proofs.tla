------------------------- MODULE Publication_proofs -------------------------
(***************************************************************************)
(* Proofs about Publication, for every set of sessions, versions, records  *)
(* and labels and for any number of failures.                              *)
(*                                                                         *)
(* What makes publication hard is the calls that outlive their caller.     *)
(* The argument is about ownership: a version or a record that a session   *)
(* names anywhere, in its open transaction, its row, its reservation, its  *)
(* outbox or a call still under way, is named by no other session.  So a   *)
(* late call can only disturb the session that made it, and there the      *)
(* reservation, the pin and the attempt's record say what it repeats.      *)
(***************************************************************************)
EXTENDS Publication, FiniteSetTheorems, TLAPS

(***************************************************************************)
(* The inductive invariant: versions.                                      *)
(***************************************************************************)
Present == {v \in Version : row[v].status # "absent"}
Opened(s) == session[s].status # "none"
Text(s) == IF s \in Structured THEN "sealed" ELSE "edited"

\* The successor of s: a row with the link s asked for, and for an attempt the reserved one.
Owns(s, v) ==
    /\ v \in Present
    /\ row[v].pred = session[s].source
    /\ row[v].hop = session[s].hop
    /\ s \in Structured => reservation[s] # None /\ reservation[s].version = v

Finished(s, v) == Owns(s, v) /\ content[v] = Text(s) /\ row[v].status = "published"

SessionInv(s) ==
    /\ Opened(s) => session[s].source \in Version /\ session[s].hop \in Hops
    /\ ~IsPublished(s) => session[s].successor = None /\ outbox[s] = None
    /\ IsPublished(s) => Finished(s, session[s].successor)
    /\ publishing[s] # None => session[s].status = "approved"
    /\ outbox[s] # None => outbox[s].target = session[s].successor

StepInv(s) ==
    publishing[s] # None =>
        LET p == publishing[s]
        IN  /\ p.phase \in {"source", "record", "reserve"} => p.successor = None
            /\ p.phase \in {"write", "edit", "publish"} => Owns(s, p.successor)
            /\ p.phase = "edit" => s \notin Structured
            /\ p.phase = "publish" => content[p.successor] = Text(s)
            /\ p.phase = "deliver" => Finished(s, p.successor)

ReservedInv(s) ==
    reservation[s] # None =>
        LET v == reservation[s].version
        IN  /\ s \in Structured
            /\ Opened(s)
            /\ Owns(s, v)
            /\ content[v] \in {"empty", "sealed"}
            /\ row[v].status = "published" => content[v] = "sealed"

\* A call still under way is about the reserved version, or, of a legacy session, about
\* one that the session gave up.
LateInv(s) ==
    \A c \in late : c.session = s =>
        /\ Opened(s)
        /\ c.op \notin {"create", "reserve"} => c.version \in Version
        /\ c.op = "edit" => s \notin Structured
        /\ s \in Structured /\ c.version # None =>
             reservation[s] # None /\ reservation[s].version = c.version
        /\ s \notin Structured /\ c.op \in {"write", "edit"} =>
             /\ publishing[s] # None => publishing[s].successor # c.version
             /\ session[s].successor # c.version

Uses(s, v) ==
    \/ publishing[s] # None /\ publishing[s].successor = v
    \/ session[s].successor = v
    \/ reservation[s] # None /\ reservation[s].version = v
    \/ \E c \in late : c.session = s /\ c.version = v

UsesInv == \A s \in Session, v \in Version : Uses(s, v) => v \in Present
Apart == \A s, t \in Session, v \in Version : Uses(s, v) /\ Uses(t, v) => s = t
ContentInv == \A v \in Version : content[v] # "empty" => v \in Present

VersionInv ==
    /\ UsesInv
    /\ Apart
    /\ ContentInv
    /\ \A s \in Session : SessionInv(s) /\ StepInv(s) /\ ReservedInv(s) /\ LateInv(s)

(***************************************************************************)
(* The inductive invariant: records.                                       *)
(***************************************************************************)
\* The records a session's transaction, event, job or late calls name.
Names(s, r) ==
    \/ publishing[s] # None /\ publishing[s].record = r
    \/ outbox[s] # None /\ outbox[s].record = r
    \/ s \in Structured /\ recorded[s] = r
    \/ \E c \in late : c.session = s /\ c.record = r

NamesInv == \A s \in Session, r \in Record :
    Names(s, r) => record[r].status # "absent" /\ record[r].attempt \in {None, s}

RowInv == \A r \in Record :
    /\ record[r].status = "absent" => record[r].attempt = None
    /\ r \in StaffRecord => record[r].status # "absent" /\ record[r].attempt = None

OneRecord == \A r, q \in Record :
    record[r].attempt # None /\ record[r].attempt = record[q].attempt => r = q

\* The record an attempt created, as long as staff leave it to the attempt.
Faithful(s, r) ==
    /\ record[r].source = session[s].source
    /\ \A v \in {record[r].target, record[r].shown} :
         v # None => reservation[s] # None /\ reservation[s].version = v
    /\ record[r].shown # None => record[r].quoted = session[s].source
    /\ record[r].status = "published" => record[r].shown # None

CreatedInv(s) ==
    \A r \in RecordOf(s) :
        /\ Opened(s) /\ Legal(s)
        /\ pinned[s] = [set |-> TRUE, payload |-> None]
        /\ ~record[r].takenOver => Faithful(s, r)

\* The request an attempt pinned, and the record it settled on.
PinInv(s) ==
    /\ pinned[s].set \/ pinned[s].payload = None
    /\ recorded[s] # None => /\ pinned[s].set
                             /\ recorded[s] \in RecordOf(s) \cup {pinned[s].payload}
    /\ publishing[s] # None => pinned[s] = [set |-> TRUE, payload |-> publishing[s].payload]
    /\ Legal(s) =>
         /\ publishing[s] # None /\ publishing[s].phase \notin {"source", "record"} =>
              publishing[s].record = recorded[s]
         /\ IsPublished(s) => recorded[s] # None
    /\ outbox[s] # None => outbox[s].record = recorded[s]
    /\ \A c \in late : c.session = s /\ c.op = "create" =>
         pinned[s] = [set |-> TRUE, payload |-> None]

\* Where linking has got to.
LinkInv(s) ==
    /\ publishing[s] # None =>
         /\ publishing[s].phase = "record" => Legal(s)
         /\ Legal(s) /\ publishing[s].phase \notin {"source", "record"} =>
              publishing[s].record # None
    /\ outbox[s] # None => Legal(s)
    /\ ~Delivering(s) => delivery[s] = "read"
    /\ delivery[s] \in {"review", "show"} /\ s \in Structured =>
         record[Link(s).record].target # None
    /\ \A c \in late : c.session = s =>
         /\ c.op = "create" => Legal(s)
         /\ c.op \in {"link", "show"} => c.record # None
         /\ c.op = "show" /\ s \in Structured => record[c.record].target # None

DoneInv(s) ==
    IsPublished(s) /\ outbox[s] = None =>
        \A r \in RecordOf(s) : ~record[r].takenOver =>
            record[r].status \in {"published", "withdrawn"} /\ record[r].shown # None

RecordInv ==
    /\ NamesInv /\ RowInv /\ OneRecord
    /\ \A s \in Session : CreatedInv(s) /\ LinkInv(s) /\ DoneInv(s)
    /\ \A s \in Structured : PinInv(s)

IInv == TypeOK /\ VersionInv /\ RecordInv

(***************************************************************************)
(* Types.                                                                  *)
(***************************************************************************)
SessionRow == [status: {"none", "approved", "published"}, source: Opt(Version),
               hop: Hops \cup {"none"}, successor: Opt(Version)]
Pin == [set: BOOLEAN, payload: Payload]

\* The parts of the type invariant, by name.
LEMMA Types ==
    ASSUME TypeOK
    PROVE  /\ row \in [Version -> Catalog!Row]
           /\ reservation \in [Session -> Catalog!Opt(Catalog!Reservation)]
           /\ content \in [Version -> {"empty", "copied", "edited", "sealed"}]
           /\ record \in [Record -> RecordRow]
           /\ session \in [Session -> SessionRow]
           /\ reviewed \in [Structured -> BOOLEAN]
           /\ pinned \in [Structured -> Pin]
           /\ recorded \in [Structured -> Opt(Record)]
           /\ publishing \in [Session -> Opt(Transaction)]
           /\ outbox \in [Session -> Opt(OwedLink)]
           /\ delivery \in [Session -> {"read", "link", "review", "show"}]
           /\ late \in SUBSET LateCall
           /\ failures \in 0..MaxFailures
           /\ revisions \in 0..MaxRevisions
BY DEF TypeOK, Catalog!TypeOK, SessionRow, Pin

LEMMA TypesBack ==
    ASSUME row \in [Version -> Catalog!Row],
           reservation \in [Session -> Catalog!Opt(Catalog!Reservation)],
           content \in [Version -> {"empty", "copied", "edited", "sealed"}],
           record \in [Record -> RecordRow],
           session \in [Session -> SessionRow],
           reviewed \in [Structured -> BOOLEAN],
           pinned \in [Structured -> Pin],
           recorded \in [Structured -> Opt(Record)],
           publishing \in [Session -> Opt(Transaction)],
           outbox \in [Session -> Opt(OwedLink)],
           delivery \in [Session -> {"read", "link", "review", "show"}],
           late \in SUBSET LateCall,
           failures \in 0..MaxFailures,
           revisions \in 0..MaxRevisions
    PROVE  TypeOK
<1>1. Catalog!TypeOK
  BY DEF Catalog!TypeOK, Catalog!Opt
<1> QED  BY <1>1 DEF TypeOK, SessionRow, Pin

LEMMA FreshIsMember == ASSUME NEW S, S # {} PROVE Fresh(S) \in S
BY DEF Fresh

(***************************************************************************)
(* What the catalog does: append the row a session asks for, or publish.   *)
(***************************************************************************)
\* The appended row n of session s.
Appends(s, n) ==
    /\ n \in Version /\ n \notin Present
    /\ row'[n].status = "draft"
    /\ row'[n].pred = session[s].source
    /\ row'[n].hop = session[s].hop
    /\ row' \in [Version -> Catalog!Row]
    /\ \A v \in Version : v # n => row'[v] = row[v]
    /\ reservation' \in [Session -> Catalog!Opt(Catalog!Reservation)]
    /\ \A t \in Session : t # s \/ s \notin Structured => reservation'[t] = reservation[t]
    /\ s \in Structured => /\ reservation[s] = None
                           /\ reservation'[s] # None
                           /\ reservation'[s].version = n

LEMMA RequestType ==
    ASSUME TypeOK, NEW s \in Session, session[s].source \in Version, session[s].hop \in Hops,
           s \notin Structured => FreeLabels # {}
    PROVE  /\ SuccessorRequest(s) \in Catalog!Request
           /\ SuccessorRequest(s).pred = session[s].source
           /\ SuccessorRequest(s).hop = session[s].hop
           /\ SuccessorRequest(s).evidence = None
           /\ SuccessorRequest(s).settings \in {Settings, None}
           /\ SuccessorRequest(s).job = None
<1>1. (IF s \in Structured THEN AttemptLabel[s] ELSE Fresh(FreeLabels)) \in Label
  <2>1. CASE s \in Structured
    BY <2>1, LabelAssumption
  <2>2. CASE s \notin Structured
    BY <2>2, FreshIsMember DEF FreeLabels, LegacyLabel
  <2> QED  BY <2>1, <2>2
<1> QED  BY <1>1 DEF SuccessorRequest, Catalog!Request, Catalog!Opt, Hops

LEMMA Appending ==
    ASSUME TypeOK, NEW s \in Session, session[s].source \in Version, session[s].hop \in Hops,
           CatalogAccepts(s), ~Replayed(s), CreateSuccessor(s)
    PROVE  Appends(s, NewVersion) /\ Successor(s) = NewVersion
<1> DEFINE req == SuccessorRequest(s)
<1> DEFINE n == NewVersion
<1>r. /\ req \in Catalog!Request
      /\ req.pred = session[s].source
      /\ req.hop = session[s].hop
      /\ req.evidence = None
      /\ req.settings \in {Settings, None}
      /\ req.job = None
  BY RequestType DEF CatalogAccepts
<1>n. n \in Version /\ n \notin Catalog!Present
  <2>1. Version \ Catalog!Present # {}
    BY DEF CatalogAccepts, Catalog!Present
  <2> QED  BY <2>1, FreshIsMember DEF NewVersion
<1>p. req.pred \in Version /\ req.pred # None
  BY <1>r, NoneAssumption
<1>1. /\ AttemptOf(s) # None => reservation[AttemptOf(s)] = None
      /\ reservation' = IF AttemptOf(s) = None THEN reservation
                        ELSE [reservation EXCEPT ![AttemptOf(s)] =
                                [version |-> n, constitution |-> Constitution, request |-> req]]
      /\ \E hop \in {"initial", Catalog!CanonicalHop(req.hop)}, legal \in Version :
           /\ Catalog!ChainAllows(Constitution, n, req, hop, legal)
           /\ row' = [row EXCEPT ![n] = Catalog!NewRow(Constitution, req, hop, legal)]
  BY DEF CreateSuccessor, Catalog!CreateDraftVersion
<1>2. PICK hop \in {"initial", Catalog!CanonicalHop(req.hop)}, legal \in Version :
           /\ Catalog!ChainAllows(Constitution, n, req, hop, legal)
           /\ row' = [row EXCEPT ![n] = Catalog!NewRow(Constitution, req, hop, legal)]
  BY <1>1
<1>3. hop = session[s].hop
  BY <1>r, <1>p, <1>2 DEF Catalog!ChainAllows, Catalog!CanonicalHop, Hops
<1>4. /\ Catalog!NewRow(Constitution, req, hop, legal) \in Catalog!Row
      /\ Catalog!NewRow(Constitution, req, hop, legal).status = "draft"
      /\ Catalog!NewRow(Constitution, req, hop, legal).pred = session[s].source
      /\ Catalog!NewRow(Constitution, req, hop, legal).hop = session[s].hop
  <2> DEFINE new == Catalog!NewRow(Constitution, req, hop, legal)
  <2>1. row[req.pred] \in Catalog!Row
    BY <1>p, Types
  <2>2. new.evidence \in Catalog!Opt({})
    BY <1>r, <2>1 DEF Catalog!NewRow, Catalog!Row, Catalog!Opt
  <2>3. new.settings \in Catalog!Opt({Settings})
    BY <1>r, <1>p, <2>1 DEF Catalog!NewRow, Catalog!Row, Catalog!Opt
  <2>4. new = [status |-> "draft", constitution |-> Constitution, label |-> req.label,
               hop |-> hop, pred |-> req.pred, legal |-> legal, evidence |-> new.evidence,
               settings |-> new.settings, hold |-> req.job]
    BY DEF Catalog!NewRow
  <2>5. hop \in Catalog!Hop
    BY <1>3 DEF Hops, Catalog!Hop
  <2>6. /\ req.label \in Catalog!Opt(Label)
        /\ req.job \in Catalog!Opt(Session)
        /\ req.pred \in Catalog!Opt(Version)
        /\ legal \in Catalog!Opt(Version)
        /\ Constitution \in Catalog!Opt({Constitution})
    BY <1>r, <1>p DEF Catalog!Request, Catalog!Opt
  <2> HIDE DEF new
  <2>7. new \in Catalog!Row
    BY <2>2, <2>3, <2>4, <2>5, <2>6 DEF Catalog!Row, Catalog!Status
  <2> QED  BY <2>4, <2>7, <1>3, <1>r DEF new
<1>5. row' \in [Version -> Catalog!Row] /\ row'[n] = Catalog!NewRow(Constitution, req, hop, legal)
      /\ \A v \in Version : v # n => row'[v] = row[v]
  BY <1>2, <1>4, <1>n, Types
<1>6. ASSUME s \in Structured
      PROVE  /\ reservation[s] = None
             /\ reservation'[s] = [version |-> n, constitution |-> Constitution, request |-> req]
             /\ reservation'[s] \in Catalog!Reservation
             /\ \A t \in Session : t # s => reservation'[t] = reservation[t]
             /\ reservation' \in [Session -> Catalog!Opt(Catalog!Reservation)]
  <2>1. [version |-> n, constitution |-> Constitution, request |-> req]
          \in Catalog!Reservation
    BY <1>n, <1>r DEF Catalog!Reservation
  <2>2. AttemptOf(s) = s /\ s # None
    BY <1>6, NoneAssumption DEF AttemptOf
  <2> QED  BY <2>1, <2>2, <1>1, Types DEF Catalog!Opt
<1>7. s \notin Structured => reservation' = reservation
  BY <1>1 DEF AttemptOf
<1>8. Appends(s, n)
  BY <1>n, <1>4, <1>5, <1>6, <1>7, RowAssumption, Types
     DEF Appends, Present, Catalog!Present
<1> QED  BY <1>8 DEF Successor

\* Publication of one row: its text must be ready.
Publishes(v) ==
    /\ v \in Present
    /\ Ready(v)
    /\ row' \in [Version -> Catalog!Row]
    /\ row'[v] = [row[v] EXCEPT !.status = "published"]
    /\ \A w \in Version : w # v => row'[w] = row[w]
    /\ reservation' = reservation

LEMMA Publishing ==
    ASSUME TypeOK, NEW v \in Version, PublishCatalogRow(v)
    PROVE  Publishes(v)
<1>1. [row[v] EXCEPT !.status = "published"] \in Catalog!Row
  BY Types DEF Catalog!Row, Catalog!Status
<1> QED  BY <1>1, Types DEF PublishCatalogRow, Catalog!PublishVersion, Publishes, Present

(***************************************************************************)
(* Catalog rows only grow: a present row keeps its links, and only a ready *)
(* one becomes public.                                                     *)
(***************************************************************************)
RowsKept ==
    /\ row' \in [Version -> Catalog!Row]
    /\ \A v \in Present : /\ row'[v].status \in {row[v].status, "published"}
                          /\ row'[v].pred = row[v].pred
                          /\ row'[v].hop = row[v].hop
                          /\ row'[v].status = row[v].status \/ Ready(v)

LEMMA AppendKeepsRows ==
    ASSUME TypeOK, NEW s \in Session, NEW n, Appends(s, n)
    PROVE  RowsKept /\ n \in Present' /\ (\A v \in Present : v \in Present')
BY Types DEF Appends, RowsKept, Present

LEMMA PublishKeepsRows ==
    ASSUME TypeOK, NEW v, Publishes(v)
    PROVE  RowsKept /\ (\A w \in Present : w \in Present')
<1>1. row[v] \in Catalog!Row
  BY Types DEF Publishes, Present
<1>2. /\ row'[v].status = "published"
      /\ row'[v].pred = row[v].pred
      /\ row'[v].hop = row[v].hop
  BY <1>1 DEF Publishes, Catalog!Row
<1> QED  BY <1>2 DEF Publishes, RowsKept, Present

LEMMA SameKeepsRows ==
    ASSUME TypeOK, row' = row
    PROVE  RowsKept /\ (\A w \in Present : w \in Present')
BY Types DEF RowsKept, Present

\* A reserved version is ready only when it is sealed.
LEMMA ReadyIsSealed ==
    ASSUME NEW s \in Session, reservation[s] # None, Ready(reservation[s].version)
    PROVE  content[reservation[s].version] = "sealed"
BY DEF Ready

(***************************************************************************)
(* Versions of a session that a step leaves alone.                         *)
(***************************************************************************)
Orderly(s) == SessionInv(s) /\ StepInv(s) /\ ReservedInv(s) /\ LateInv(s)

LEMMA VersionsLeftAlone ==
    ASSUME TypeOK, NEW s \in Session, Orderly(s), UsesInv,
           RowsKept,
           session'[s] = session[s],
           publishing'[s] = publishing[s],
           outbox'[s] = outbox[s],
           reservation'[s] = reservation[s],
           \A c \in late' : c.session = s => c \in late,
           \A v \in Version : Uses(s, v) => content'[v] = content[v]
    PROVE  Orderly(s)'
<1>1. \A v : Owns(s, v) => Owns(s, v)'
  BY DEF Owns, RowsKept, Present
<1>2. \A v : Finished(s, v) /\ content'[v] = content[v] => Finished(s, v)'
  BY <1>1 DEF Finished, RowsKept, Text, Owns, Present
<1>3. SessionInv(s)'
  <2>1. IsPublished(s) => Uses(s, session[s].successor) /\ session[s].successor \in Version
    BY DEF Orderly, SessionInv, Finished, Owns, Uses, Present
  <2> QED  BY <1>2, <2>1 DEF Orderly, SessionInv, Opened, IsPublished
<1>4. StepInv(s)'
  <2>1. publishing[s] # None => Uses(s, publishing[s].successor)
    BY DEF Uses
  <2>2. publishing[s] # None /\ publishing[s].phase \in {"publish", "deliver"} =>
          publishing[s].successor \in Version
    BY DEF Orderly, StepInv, Finished, Owns, Present
  <2> QED  BY <1>1, <1>2, <2>1, <2>2 DEF Orderly, StepInv, Text
<1>5. ReservedInv(s)'
  <2>1. ASSUME reservation[s] # None
        PROVE  /\ content'[reservation[s].version] = content[reservation[s].version]
               /\ reservation[s].version \in Present
    BY <2>1 DEF Orderly, ReservedInv, Owns, Uses, Present
  <2> QED  BY <1>1, <2>1, ReadyIsSealed DEF Orderly, ReservedInv, RowsKept, Opened
<1>6. LateInv(s)'
  BY DEF Orderly, LateInv, Opened
<1> QED  BY <1>3, <1>4, <1>5, <1>6 DEF Orderly

(***************************************************************************)
(* A step of one session keeps the versions apart: it uses what it used, a *)
(* row it appends itself, and writes nobody else's text.                   *)
(***************************************************************************)
RestKept(s) ==
    /\ \A t \in Session : t # s => /\ session'[t] = session[t]
                                   /\ publishing'[t] = publishing[t]
                                   /\ outbox'[t] = outbox[t]
                                   /\ reservation'[t] = reservation[t]
    /\ \A c \in late' : c.session # s => c \in late

LEMMA VersionStep ==
    ASSUME TypeOK, VersionInv, NEW s \in Session, NEW new, RowsKept, RestKept(s),
           \A v \in Present : v \in Present',
           new \in Version => new \notin Present /\ new \in Present',
           \A v \in Version : Uses(s, v)' => Uses(s, v) \/ v = new,
           \A v \in Version : content'[v] # content[v] => Uses(s, v),
           Orderly(s)'
    PROVE  VersionInv'
<1>1. \A t \in Session, v \in Version : t # s /\ Uses(t, v)' => Uses(t, v)
  BY DEF RestKept, Uses
<1>2. UsesInv'
  BY <1>1 DEF VersionInv, UsesInv
<1>3. Apart'
  <2> SUFFICES ASSUME NEW t \in Session, NEW u \in Session, NEW v \in Version,
                      Uses(t, v)', Uses(u, v)', t # u
               PROVE  FALSE
    BY DEF Apart
  <2>1. CASE v = new
    BY <1>1, <2>1 DEF VersionInv, UsesInv
  <2>2. CASE v # new
    BY <1>1, <2>2 DEF VersionInv, Apart
  <2> QED  BY <2>1, <2>2
<1>4. ContentInv'
  BY DEF VersionInv, ContentInv, UsesInv
<1>5. ASSUME NEW t \in Session, t # s
      PROVE  Orderly(t)'
  <2>1. \A v \in Version : Uses(t, v) => content'[v] = content[v]
    BY <1>5 DEF VersionInv, Apart
  <2>2. Orderly(t)
    BY DEF VersionInv, Orderly
  <2> QED  BY <1>5, <2>1, <2>2, VersionsLeftAlone DEF RestKept, VersionInv
<1>6. \A t \in Session : Orderly(t)'
  BY <1>5
<1> QED  BY <1>2, <1>3, <1>4, <1>6 DEF VersionInv, Orderly

\* A step that no session takes, and one that only records or deliveries notice.
LEMMA VersionsIdle ==
    ASSUME TypeOK, VersionInv, RowsKept,
           \A v \in Present : v \in Present',
           content' = content, session' = session, publishing' = publishing,
           outbox' = outbox, reservation' = reservation,
           \A c \in late' : c \in late
    PROVE  VersionInv'
<1>1. \A t \in Session, v \in Version : Uses(t, v)' => Uses(t, v)
  BY DEF Uses
<1>2. UsesInv' /\ Apart' /\ ContentInv'
  BY <1>1 DEF VersionInv, UsesInv, Apart, ContentInv
<1>3. ASSUME NEW t \in Session PROVE Orderly(t)'
  BY VersionsLeftAlone DEF VersionInv, Orderly
<1> QED  BY <1>2, <1>3 DEF VersionInv, Orderly

\* A step that moves only the transaction of s, without another version.
LEMMA Moving ==
    ASSUME TypeOK, VersionInv, NEW s \in Session,
           UNCHANGED <<row, reservation, content, session, outbox, late>>,
           \A t \in Session : t # s => publishing'[t] = publishing[t],
           publishing'[s] # None =>
             /\ session[s].status = "approved"
             /\ publishing'[s].successor # None =>
                  publishing[s] # None /\ publishing'[s].successor = publishing[s].successor,
           StepInv(s)'
    PROVE  VersionInv'
<1>1. RowsKept /\ (\A w \in Present : w \in Present')
  BY SameKeepsRows
<1>2. RestKept(s)
  BY DEF RestKept
<1>3. \A v \in Version : Uses(s, v)' => Uses(s, v)
  BY NoneAssumption DEF Uses
<1>4. SessionInv(s)'
  BY DEF VersionInv, SessionInv, Opened, IsPublished, Finished, Owns, Text, Present
<1>5. ReservedInv(s)'
  BY DEF VersionInv, ReservedInv, Opened, Owns, Present
<1>6. LateInv(s)'
  <2> SUFFICES ASSUME NEW c \in late, c.session = s,
                      s \notin Structured, c.op \in {"write", "edit"},
                      publishing'[s] # None
               PROVE  publishing'[s].successor # c.version
    BY DEF VersionInv, LateInv, Opened
  <2>1. c.version \in Version /\ (publishing[s] # None => publishing[s].successor # c.version)
    BY DEF VersionInv, LateInv
  <2> QED  BY <2>1, NoneAssumption
<1>7. Orderly(s)'
  BY <1>4, <1>5, <1>6 DEF Orderly
<1> QED  BY <1>1, <1>2, <1>3, <1>7, VersionStep, NoneAssumption

LEMMA PublishingOne ==
    ASSUME TypeOK, NEW s \in Session
    PROVE  publishing[s] # None => publishing[s] \in Transaction
BY Types DEF Opt

LEMMA Aborting ==
    ASSUME TypeOK, VersionInv, NEW s \in Session, Abort(s),
           UNCHANGED <<row, reservation, content, session, outbox, late>>
    PROVE  VersionInv'
<1>1. publishing'[s] = None /\ (\A t \in Session : t # s => publishing'[t] = publishing[t])
  BY Types DEF Abort
<1> QED  BY <1>1, Moving DEF StepInv

LEMMA OpenVersions ==
    ASSUME TypeOK, VersionInv, NEW s \in Session, NEW source \in Version, NEW hop \in Hops,
           OpenSession(s, source, hop)
    PROVE  VersionInv'
<1>1. /\ session[s].status = "none"
      /\ session'[s] = [status |-> "approved", source |-> source, hop |-> hop,
                        successor |-> None]
      /\ \A t \in Session : t # s => session'[t] = session[t]
      /\ UNCHANGED <<row, reservation, content, publishing, outbox, late>>
  BY Types DEF OpenSession, remote
<1>2. /\ publishing[s] = None
      /\ reservation[s] = None
      /\ outbox[s] = None
      /\ \A c \in late : c.session # s
  BY <1>1 DEF VersionInv, SessionInv, ReservedInv, LateInv, Opened, IsPublished
<1>3. RowsKept /\ (\A w \in Present : w \in Present')
  BY <1>1, SameKeepsRows
<1>4. Orderly(s)'
  BY <1>1, <1>2 DEF Orderly, SessionInv, StepInv, ReservedInv, LateInv, Opened, IsPublished
<1>5. \A v \in Version : Uses(s, v)' => Uses(s, v)
  BY <1>1, <1>2, NoneAssumption DEF Uses
<1>6. RestKept(s)
  BY <1>1 DEF RestKept
<1> QED  BY <1>1, <1>3, <1>4, <1>5, <1>6, VersionStep, NoneAssumption

LEMMA BeginVersions ==
    ASSUME TypeOK, VersionInv, NEW s \in Session, NEW payload \in Payload,
           BeginPublish(s, payload)
    PROVE  VersionInv'
<1>1. /\ session[s].status = "approved"
      /\ publishing'[s] = [phase |-> "source", payload |-> payload,
                           reserved |-> reservation[s] # None,
                           record |-> None, successor |-> None]
      /\ \A t \in Session : t # s => publishing'[t] = publishing[t]
      /\ UNCHANGED <<row, reservation, content, session, outbox, late>>
  BY Types DEF BeginPublish, remote
<1>2. StepInv(s)'
  BY <1>1 DEF StepInv
<1> QED  BY <1>1, <1>2, Moving

LEMMA SourceVersions ==
    ASSUME TypeOK, VersionInv, NEW s \in Session, CheckSource(s)
    PROVE  VersionInv'
<1>1. UNCHANGED <<row, reservation, content, session, outbox, late>>
  BY DEF CheckSource, remote
<1>2. CASE Abort(s)
  BY <1>1, <1>2, Aborting
<1>3. CASE Advance(s, IF Legal(s) THEN "record" ELSE "reserve")
  <2>1. publishing[s] \in Transaction /\ publishing[s].phase = "source" /\ publishing[s] # None
    BY PublishingOne DEF CheckSource, At
  <2>2. /\ publishing'[s].phase \in {"record", "reserve"}
        /\ publishing'[s].successor = publishing[s].successor
        /\ \A t \in Session : t # s => publishing'[t] = publishing[t]
    BY <1>3, <2>1, Types DEF Advance, Transaction
  <2>3. publishing[s].successor = None /\ session[s].status = "approved"
    BY <2>1 DEF VersionInv, StepInv, SessionInv
  <2>4. StepInv(s)'
    BY <2>2, <2>3 DEF StepInv
  <2> QED  BY <1>1, <2>1, <2>2, <2>3, <2>4, Moving
<1> QED  BY <1>2, <1>3 DEF CheckSource

LEMMA RecordVersions ==
    ASSUME TypeOK, VersionInv, NEW s \in Session, ResolveRecord(s)
    PROVE  VersionInv'
<1>1. UNCHANGED <<row, reservation, content, session, outbox, late>>
  BY DEF ResolveRecord
<1>2. CASE Abort(s)
  BY <1>1, <1>2, Aborting
<1>3. ASSUME NEW r, UseRecord(s, r)
      PROVE  VersionInv'
  <2>1. publishing[s] \in Transaction /\ publishing[s].phase = "record" /\ publishing[s] # None
    BY PublishingOne DEF ResolveRecord, At
  <2>2. /\ publishing'[s].phase = "reserve"
        /\ publishing'[s].successor = publishing[s].successor
        /\ \A t \in Session : t # s => publishing'[t] = publishing[t]
    BY <1>3, <2>1, Types DEF UseRecord, Transaction
  <2>3. publishing[s].successor = None /\ session[s].status = "approved"
    BY <2>1 DEF VersionInv, StepInv, SessionInv
  <2>4. StepInv(s)'
    BY <2>2, <2>3 DEF StepInv
  <2> QED  BY <1>1, <2>1, <2>2, <2>3, <2>4, Moving
<1> QED  BY <1>2, <1>3 DEF ResolveRecord

(***************************************************************************)
(* The catalog's answer to s, when it comes in time and when it comes late.*)
(***************************************************************************)
LEMMA AppendVersions ==
    ASSUME TypeOK, VersionInv, NEW s \in Session, NEW n, Appends(s, n), Opened(s),
           UNCHANGED <<content, session, outbox>>,
           late' \subseteq late,
           \A t \in Session : t # s => publishing'[t] = publishing[t],
           \/ publishing'[s] = publishing[s]
           \/ /\ publishing[s] # None
              /\ publishing'[s].phase = "write"
              /\ publishing'[s].successor = n
    PROVE  VersionInv'
<1>1. /\ RowsKept /\ n \in Present' /\ (\A v \in Present : v \in Present')
      /\ n \in Version /\ n \notin Present /\ n # None
  BY AppendKeepsRows, NoneAssumption DEF Appends
<1>2. RestKept(s)
  BY <1>1 DEF RestKept, Appends
<1>3. \A v \in Version : Uses(s, v)' => Uses(s, v) \/ v = n
  BY DEF Uses, Appends
<1>4. \A v : Owns(s, v) => Owns(s, v)'
  BY <1>1 DEF Owns, RowsKept, Appends
<1>5. Owns(s, n)'
  BY <1>1 DEF Owns, Appends
<1>6. \A v : Finished(s, v) => Finished(s, v)'
  BY <1>1, <1>4 DEF Finished, Owns, RowsKept, Text
<1>7. SessionInv(s)'
  BY <1>6 DEF VersionInv, SessionInv, Opened, IsPublished
<1>8. StepInv(s)'
  BY <1>4, <1>5, <1>6 DEF VersionInv, StepInv, Text
<1>9. ReservedInv(s)'
  <2>1. CASE s \in Structured
    <3>1. content[n] = "empty"
      BY <1>1 DEF VersionInv, ContentInv
    <3> QED  BY <2>1, <3>1, <1>5 DEF Appends, ReservedInv, Opened
  <2>2. CASE s \notin Structured
    BY <2>2 DEF Appends, VersionInv, ReservedInv
  <2> QED  BY <2>1, <2>2
<1>10. LateInv(s)'
  <2> SUFFICES ASSUME NEW c \in late, c.session = s
               PROVE  /\ s \in Structured /\ c.version # None =>
                           reservation'[s] # None /\ reservation'[s].version = c.version
                      /\ s \notin Structured /\ c.op \in {"write", "edit"}
                           /\ publishing'[s] # None => publishing'[s].successor # c.version
    BY DEF VersionInv, LateInv, Opened
  <2>1. /\ s \in Structured => c.version = None
        /\ c.op \in {"write", "edit"} => c.version \in Present
    BY DEF VersionInv, LateInv, Appends, UsesInv, Uses
  <2> QED  BY <2>1, <1>1 DEF VersionInv, LateInv
<1>11. Orderly(s)'
  BY <1>7, <1>8, <1>9, <1>10 DEF Orderly
<1> QED  BY <1>1, <1>2, <1>3, <1>11, VersionStep

\* Either the catalog remembers the attempt or it appends a row.
LEMMA Creating ==
    ASSUME TypeOK, VersionInv, NEW s \in Session, Opened(s),
           CatalogAccepts(s), CreateSuccessor(s)
    PROVE  \/ /\ UNCHANGED <<row, reservation>>
              /\ s \in Structured
              /\ reservation[s] # None
              /\ Successor(s) = reservation[s].version
           \/ Appends(s, Successor(s))
<1>1. CASE Replayed(s)
  <2>1. AttemptOf(s) # None /\ reservation[AttemptOf(s)] # None
    BY <1>1 DEF Replayed, Catalog!Replays
  <2> QED  BY <1>1, <2>1 DEF AttemptOf, CreateSuccessor, Successor
<1>2. CASE ~Replayed(s)
  <2>1. session[s].source \in Version /\ session[s].hop \in Hops
    BY DEF VersionInv, SessionInv
  <2> QED  BY <1>2, <2>1, Appending
<1> QED  BY <1>1, <1>2

LEMMA ReserveVersions ==
    ASSUME TypeOK, VersionInv, NEW s \in Session, Reserve(s)
    PROVE  VersionInv'
<1>1. /\ UNCHANGED <<content, session, outbox, late>>
      /\ publishing[s] # None /\ publishing[s] \in Transaction /\ publishing[s].phase = "reserve"
  BY PublishingOne DEF Reserve, At
<1>2. session[s].status = "approved"
  BY <1>1 DEF VersionInv, SessionInv
<1>3. CASE ~CatalogAccepts(s)
  BY <1>1, <1>3, Aborting DEF Reserve
<1>4. CASE CatalogAccepts(s)
  <2>1. /\ CreateSuccessor(s)
        /\ publishing'[s].phase = "write"
        /\ publishing'[s].successor = Successor(s)
        /\ \A t \in Session : t # s => publishing'[t] = publishing[t]
    BY <1>1, <1>4, Types DEF Reserve, Transaction
  <2>2. CASE /\ UNCHANGED <<row, reservation>>
             /\ s \in Structured
             /\ reservation[s] # None
             /\ Successor(s) = reservation[s].version
    <3>1. Owns(s, reservation[s].version)
      BY <2>2 DEF VersionInv, ReservedInv
    <3>2. RowsKept /\ (\A w \in Present : w \in Present')
      BY <2>2, SameKeepsRows
    <3>3. RestKept(s)
      BY <1>1, <2>1, <2>2 DEF RestKept
    <3>4. \A v \in Version : Uses(s, v)' => Uses(s, v)
      BY <1>1, <2>1, <2>2 DEF Uses
    <3>5. Orderly(s)'
      <4>1. StepInv(s)'
        BY <1>1, <2>1, <2>2, <3>1 DEF StepInv, Owns, Present
      <4>2. SessionInv(s)'
        BY <1>1, <1>2, <2>2 DEF VersionInv, SessionInv, Opened, IsPublished, Finished, Owns, Text,
             Present
      <4>3. ReservedInv(s)' /\ LateInv(s)'
        BY <1>1, <2>2 DEF VersionInv, ReservedInv, LateInv, Opened, Owns, Present
      <4> QED  BY <4>1, <4>2, <4>3 DEF Orderly
    <3> QED  BY <1>1, <3>2, <3>3, <3>4, <3>5, VersionStep, NoneAssumption
  <2>3. CASE Appends(s, Successor(s))
    BY <1>1, <1>2, <2>1, <2>3, AppendVersions DEF Opened
  <2> QED  BY <1>2, <1>4, <2>1, <2>2, <2>3, Creating DEF Opened
<1> QED  BY <1>3, <1>4

(***************************************************************************)
(* Writing the text.                                                       *)
(***************************************************************************)
LEMMA Storing ==
    ASSUME TypeOK, NEW s \in Session, NEW phase, NEW v \in Version, Stored(s, phase, v)
    PROVE  /\ content'[v] = IF s \in Structured THEN "sealed"
                            ELSE IF phase = "edit" THEN "edited" ELSE "copied"
           /\ \A w \in Version : w # v => content'[w] = content[w]
           /\ content' \in [Version -> {"empty", "copied", "edited", "sealed"}]
BY Types DEF Stored

LEMMA WriteVersions ==
    ASSUME TypeOK, VersionInv, NEW s \in Session, NEW phase \in {"write", "edit"},
           Write(s, phase)
    PROVE  VersionInv'
<1>v. PICK v : v = publishing[s].successor
  OBVIOUS
<1>1. /\ UNCHANGED <<row, reservation, session, outbox, late>>
      /\ publishing[s] # None /\ publishing[s] \in Transaction /\ publishing[s].phase = phase
  BY PublishingOne DEF Write, At
<1>2. session[s].status = "approved"
  BY <1>1 DEF VersionInv, SessionInv
<1>3. Owns(s, v)
  BY <1>1, <1>v DEF VersionInv, StepInv
<1>4. CASE ~Storable(s, phase, v)
  BY <1>1, <1>4, <1>v, Aborting DEF Write
<1>5. CASE Storable(s, phase, v)
  <2>1. /\ Stored(s, phase, v)
        /\ publishing'[s].phase = IF phase = "edit" \/ s \in Structured THEN "publish" ELSE "edit"
        /\ publishing'[s].successor = v
        /\ \A t \in Session : t # s => publishing'[t] = publishing[t]
    BY <1>1, <1>5, <1>v, Types DEF Write, Advance, Transaction
  <2>2. v \in Version
    BY <1>3 DEF Owns, Present
  <2>3. /\ content'[v] = IF s \in Structured THEN "sealed"
                         ELSE IF phase = "edit" THEN "edited" ELSE "copied"
        /\ \A w \in Version : w # v => content'[w] = content[w]
    BY <2>1, <2>2, Storing
  <2>4. RowsKept /\ (\A w \in Present : w \in Present') /\ RestKept(s)
    BY <1>1, <2>1, SameKeepsRows DEF RestKept
  <2>5. Uses(s, v) /\ \A w \in Version : Uses(s, w)' => Uses(s, w)
    BY <1>1, <2>1, <1>v DEF Uses
  <2>6. StepInv(s)'
    <3>1. Owns(s, v)'
      BY <1>1, <1>3 DEF Owns, Present
    <3> QED  BY <1>1, <2>1, <2>3, <3>1 DEF StepInv, Text
  <2>7. SessionInv(s)'
    BY <1>1, <1>2 DEF VersionInv, SessionInv, Opened, IsPublished
  <2>8. ReservedInv(s)'
    <3>1. reservation[s] # None => reservation[s].version = v
      BY <1>3 DEF Owns, VersionInv, ReservedInv
    <3> QED  BY <1>1, <2>3, <3>1 DEF VersionInv, ReservedInv, Opened, Owns, Present
  <2>9. LateInv(s)'
    BY <1>1, <2>1, <1>v DEF VersionInv, LateInv, Opened
  <2>10. Orderly(s)'
    BY <2>6, <2>7, <2>8, <2>9 DEF Orderly
  <2> QED  BY <2>3, <2>4, <2>5, <2>10, VersionStep, NoneAssumption
<1> QED  BY <1>4, <1>5

\* A late write repeats the text of an attempt, or lands on a version its session gave up.
LEMMA LateWriteVersions ==
    ASSUME TypeOK, VersionInv, NEW c \in late, c.op \in {"write", "edit"},
           Stored(c.session, c.op, c.version),
           UNCHANGED <<row, reservation, session, publishing, outbox>>,
           late' \subseteq late
    PROVE  VersionInv'
<1> DEFINE s == c.session
<1> DEFINE v == c.version
<1>1. s \in Session
  BY Types DEF LateCall
<1>2. /\ v \in Version
      /\ s \in Structured => reservation[s] # None /\ reservation[s].version = v
      /\ s \notin Structured =>
           /\ publishing[s] # None => publishing[s].successor # v
           /\ session[s].successor # v
  BY <1>1, NoneAssumption DEF VersionInv, LateInv
<1>3. /\ s \in Structured => content'[v] = "sealed"
      /\ \A w \in Version : w # v => content'[w] = content[w]
  BY <1>1, <1>2, Storing
<1>4. RowsKept /\ (\A w \in Present : w \in Present') /\ RestKept(s)
  BY SameKeepsRows DEF RestKept
<1>5. Uses(s, v) /\ \A w \in Version : Uses(s, w)' => Uses(s, w)
  BY DEF Uses
<1>6. \A w : Finished(s, w) /\ (s \in Structured \/ w # v) => Finished(s, w)'
  BY <1>3 DEF Finished, Owns, Present, Text
<1>7. SessionInv(s)'
  BY <1>1, <1>2, <1>6 DEF VersionInv, SessionInv, Opened, IsPublished
<1>8. StepInv(s)'
  <2>1. \A w : Owns(s, w) => Owns(s, w)' /\ w \in Version /\ (s \in Structured => w = v)
    BY <1>2 DEF Owns, Present
  <2> QED  BY <1>1, <1>2, <1>3, <1>6, <2>1 DEF VersionInv, StepInv, Text
<1>9. ReservedInv(s)'
  BY <1>1, <1>2, <1>3 DEF VersionInv, ReservedInv, Opened, Owns, Present
<1>10. LateInv(s)'
  BY <1>1 DEF VersionInv, LateInv, Opened
<1>11. Orderly(s)'
  BY <1>7, <1>8, <1>9, <1>10 DEF Orderly
<1> HIDE DEF s, v
<1> QED  BY <1>1, <1>3, <1>4, <1>5, <1>11, VersionStep, NoneAssumption

LEMMA PublishVersions ==
    ASSUME TypeOK, VersionInv, NEW s \in Session, PublishVersion(s)
    PROVE  VersionInv'
<1>v. PICK v : v = publishing[s].successor
  OBVIOUS
<1>1. /\ UNCHANGED <<content, session, outbox, late>>
      /\ publishing[s] # None /\ publishing[s] \in Transaction /\ publishing[s].phase = "publish"
  BY PublishingOne DEF PublishVersion, At
<1>2. session[s].status = "approved" /\ Owns(s, v) /\ content[v] = Text(s)
  BY <1>1, <1>v DEF VersionInv, SessionInv, StepInv
<1>3. CASE ~Ready(v)
  BY <1>1, <1>3, <1>v, Aborting DEF PublishVersion
<1>4. CASE Ready(v)
  <2>1. v \in Version
    BY <1>2 DEF Owns, Present
  <2>2. /\ PublishCatalogRow(v)
        /\ publishing'[s].phase = "deliver"
        /\ publishing'[s].successor = v
        /\ \A t \in Session : t # s => publishing'[t] = publishing[t]
    BY <1>1, <1>4, <1>v, Types DEF PublishVersion, Advance, Transaction
  <2>3. Publishes(v)
    BY <2>1, <2>2, Publishing
  <2>4. RowsKept /\ (\A w \in Present : w \in Present') /\ RestKept(s) /\ reservation' = reservation
    BY <1>1, <2>2, <2>3, PublishKeepsRows DEF RestKept, Publishes
  <2>5. \A w \in Version : Uses(s, w)' => Uses(s, w)
    BY <1>1, <2>2, <2>4, <1>v DEF Uses
  <2>6. \A w : Owns(s, w) => Owns(s, w)'
    BY <1>1, <2>4 DEF Owns, RowsKept, Present
  <2>7. StepInv(s)'
    <3>1. Finished(s, v)'
      <4>1. row[v] \in Catalog!Row
        BY <2>1, Types
      <4>2. row'[v].status = "published"
        BY <2>3, <4>1 DEF Publishes, Catalog!Row
      <4> QED  BY <1>1, <1>2, <2>6, <4>2 DEF Finished, Text
    <3> QED  BY <2>2, <3>1 DEF StepInv
  <2>8. SessionInv(s)'
    BY <1>1, <1>2 DEF VersionInv, SessionInv, Opened, IsPublished
  <2>9. ReservedInv(s)'
    BY <1>1, <2>4, <2>6, ReadyIsSealed DEF VersionInv, ReservedInv, Opened, RowsKept, Owns
  <2>10. LateInv(s)'
    BY <1>1, <2>2, <2>4, <1>v DEF VersionInv, LateInv, Opened
  <2>11. Orderly(s)'
    BY <2>7, <2>8, <2>9, <2>10 DEF Orderly
  <2> QED  BY <1>1, <2>4, <2>5, <2>11, VersionStep, NoneAssumption
<1> QED  BY <1>3, <1>4

(***************************************************************************)
(* The end of a transaction, in whatever way, and the calls it leaves.     *)
(***************************************************************************)
\* A call that s leaves behind: about a version it owns, and no write of one it keeps.
Leaves(s, c) ==
    /\ c.session = s
    /\ Opened(s)
    /\ c.version # None => Owns(s, c.version) /\ Uses(s, c.version)
    /\ c.op \notin {"create", "reserve"} => c.version # None
    /\ c.op = "edit" => s \notin Structured
    /\ c.op \in {"write", "edit"} => publishing'[s] = None /\ session'[s].successor = None

Committed(s) ==
    /\ publishing[s] # None /\ publishing[s].phase = "deliver"
    /\ publishing'[s] = None
    /\ session'[s] = [session[s] EXCEPT !.status = "published",
                                        !.successor = publishing[s].successor]
    /\ outbox'[s] # None => outbox'[s].target = publishing[s].successor

Dropped(s) == publishing'[s] = None /\ session'[s] = session[s] /\ outbox'[s] = outbox[s]

Polled(s) ==
    publishing'[s] = publishing[s] /\ session'[s] = session[s] /\ outbox'[s] \in {outbox[s], None}

LEMMA Ending ==
    ASSUME TypeOK, VersionInv, NEW s \in Session,
           UNCHANGED <<row, reservation, content>>,
           \A t \in Session : t # s => /\ session'[t] = session[t]
                                       /\ publishing'[t] = publishing[t]
                                       /\ outbox'[t] = outbox[t],
           Committed(s) \/ Dropped(s) \/ Polled(s),
           \A c \in late' : c \in late \/ Leaves(s, c)
    PROVE  VersionInv'
<1>1. RowsKept /\ (\A w \in Present : w \in Present')
  BY SameKeepsRows
<1>2. RestKept(s)
  BY DEF RestKept, Leaves
<1>3. session[s] \in SessionRow
  BY Types
<1>4. \A v \in Version : Uses(s, v)' => Uses(s, v)
  <2>1. \/ session'[s].successor = session[s].successor
        \/ publishing[s] # None /\ session'[s].successor = publishing[s].successor
    BY <1>3 DEF Committed, Dropped, Polled, SessionRow
  <2>2. publishing'[s] # None => publishing'[s] = publishing[s]
    BY DEF Committed, Dropped, Polled
  <2> SUFFICES ASSUME NEW v \in Version, Uses(s, v)' PROVE Uses(s, v)
    OBVIOUS
  <2>3. ASSUME NEW c \in late', c.session = s, c.version = v
        PROVE  Uses(s, v)
    BY <2>3, NoneAssumption DEF Uses, Leaves
  <2> QED  BY <2>1, <2>2, <2>3 DEF Uses
<1>5. session'[s].source = session[s].source /\ session'[s].hop = session[s].hop
  BY <1>3 DEF Committed, Dropped, Polled, SessionRow
<1>6. \A v : Owns(s, v) => Owns(s, v)'
  BY <1>5 DEF Owns, Present
<1>7. \A v : Finished(s, v) => Finished(s, v)'
  BY <1>6 DEF Finished, Text
<1>8. Opened(s) => Opened(s)'
  BY <1>3 DEF Opened, Committed, Dropped, Polled, SessionRow
<1>9. Committed(s) => session[s].status = "approved" /\ Finished(s, publishing[s].successor)
  BY DEF Committed, VersionInv, SessionInv, StepInv
<1>10. SessionInv(s)'
  <2>1. CASE Committed(s)
    <3>1. /\ session'[s].status = "published"
          /\ session'[s].successor = publishing[s].successor
      BY <1>3, <2>1 DEF Committed, SessionRow
    <3>2. PICK v : v = publishing[s].successor
      OBVIOUS
    <3>3. Finished(s, v)'
      BY <1>7, <1>9, <2>1, <3>2
    <3>4. Opened(s) /\ SessionInv(s)
      BY <1>9, <2>1 DEF Opened, VersionInv
    <3> QED
      BY <1>5, <2>1, <3>1, <3>2, <3>3, <3>4 DEF SessionInv, Committed, IsPublished
  <2>2. CASE Dropped(s) \/ Polled(s)
    <3>1. PICK v : v = session[s].successor
      OBVIOUS
    <3> QED
      BY <1>7, <2>2, <3>1 DEF VersionInv, SessionInv, Dropped, Polled, Opened, IsPublished
  <2> QED  BY <2>1, <2>2
<1>11. StepInv(s)'
  <2>1. PICK v : v = publishing[s].successor
    OBVIOUS
  <2> QED
    BY <1>6, <1>7, <2>1 DEF VersionInv, StepInv, Committed, Dropped, Polled, Text
<1>12. ReservedInv(s)'
  <2>1. PICK v : reservation[s] # None => v = reservation[s].version
    OBVIOUS
  <2> QED  BY <1>6, <1>8, <2>1 DEF VersionInv, ReservedInv
<1>13. LateInv(s)'
  <2> SUFFICES ASSUME NEW c \in late', c.session = s
               PROVE  /\ Opened(s)'
                      /\ c.op \notin {"create", "reserve"} => c.version \in Version
                      /\ c.op = "edit" => s \notin Structured
                      /\ s \in Structured /\ c.version # None =>
                           reservation[s] # None /\ reservation[s].version = c.version
                      /\ s \notin Structured /\ c.op \in {"write", "edit"} =>
                           /\ publishing'[s] # None => publishing'[s].successor # c.version
                           /\ session'[s].successor # c.version
    BY DEF LateInv
  <2>1. CASE c \in late
    <3>1. /\ Opened(s)
          /\ c.op \notin {"create", "reserve"} => c.version \in Version
          /\ c.op = "edit" => s \notin Structured
          /\ s \in Structured /\ c.version # None =>
               reservation[s] # None /\ reservation[s].version = c.version
          /\ s \notin Structured /\ c.op \in {"write", "edit"} =>
               /\ publishing[s] # None => publishing[s].successor # c.version
               /\ session[s].successor # c.version
      BY <2>1 DEF VersionInv, LateInv
    <3>2. /\ publishing'[s] # None => publishing'[s] = publishing[s]
          /\ session'[s].successor \in {session[s].successor}
                \cup (IF publishing[s] # None THEN {publishing[s].successor} ELSE {})
      BY <1>3 DEF Committed, Dropped, Polled, SessionRow
    <3> QED  BY <1>8, <3>1, <3>2
  <2>2. CASE Leaves(s, c)
    BY <1>8, <2>2, NoneAssumption DEF Leaves, Owns, Present
  <2> QED  BY <2>1, <2>2
<1>14. Orderly(s)'
  BY <1>10, <1>11, <1>12, <1>13 DEF Orderly
<1> QED  BY <1>1, <1>2, <1>4, <1>14, VersionStep, NoneAssumption

(***************************************************************************)
(* Delivery, failures, late calls and staff.                               *)
(***************************************************************************)
OnlyOf(s) ==
    \A t \in Session : t # s => /\ session'[t] = session[t]
                                /\ publishing'[t] = publishing[t]
                                /\ outbox'[t] = outbox[t]

LEMMA Commits ==
    ASSUME TypeOK, NEW s \in Session, At(s, "deliver"), NEW owed, Commit(s, owed),
           owed # None => owed.target = publishing[s].successor
    PROVE  Committed(s) /\ OnlyOf(s)
<1>1. session[s] \in SessionRow /\ publishing[s] \in Transaction
  BY Types, PublishingOne DEF At
<1>2. /\ publishing' = [publishing EXCEPT ![s] = None]
      /\ outbox' = [outbox EXCEPT ![s] = owed]
      /\ session' = [session EXCEPT ![s].status = "published",
                                    ![s].successor = publishing[s].successor]
  BY DEF Commit, Abort
<1>3. /\ session'[s] = [session[s] EXCEPT !.status = "published",
                                          !.successor = publishing[s].successor]
      /\ \A t \in Session : t # s => session'[t] = session[t]
  BY <1>1, <1>2, Types
<1> QED  BY <1>1, <1>2, <1>3, Types DEF At, Committed, OnlyOf

LEMMA DeliveryEnds ==
    ASSUME TypeOK, NEW s \in Session, Delivering(s), NEW step,
           Delivered(s) \/ Undelivered(s) \/ Continue(s, step)
    PROVE  (Committed(s) \/ Polled(s)) /\ OnlyOf(s)
<1>1. CASE At(s, "deliver") /\ (Delivered(s) \/ Undelivered(s))
  <2>1. PICK owed : Commit(s, owed) /\ (owed # None => owed.target = publishing[s].successor)
    BY <1>1 DEF Delivered, Undelivered, Link
  <2> QED  BY <1>1, <2>1, Commits
<1>2. CASE ~At(s, "deliver") /\ (Delivered(s) \/ Undelivered(s))
  BY <1>2, Types DEF Delivered, Undelivered, Polled, OnlyOf
<1>3. CASE Continue(s, step)
  BY <1>3, Types DEF Continue, Polled, OnlyOf
<1> QED  BY <1>1, <1>2, <1>3

\* The steps of completeLink.
Completes(s) == ReadRecord(s) \/ SetTarget(s) \/ TransferReview(s) \/ PublishRecord(s)

LEMMA CompletingEnds ==
    ASSUME NEW s \in Session, Completes(s)
    PROVE  /\ Delivering(s)
           /\ \E step : Delivered(s) \/ Undelivered(s) \/ Continue(s, step)
           /\ UNCHANGED <<row, reservation, content, reviewed, late>>
<1>1. CASE ReadRecord(s)
  BY <1>1 DEF ReadRecord, remote
<1>2. CASE SetTarget(s)
  BY <1>2 DEF SetTarget
<1>3. CASE TransferReview(s)
  BY <1>3 DEF TransferReview
<1>4. CASE PublishRecord(s)
  BY <1>4 DEF PublishRecord
<1> QED  BY <1>1, <1>2, <1>3, <1>4 DEF Completes

LEMMA DeliveryVersions ==
    ASSUME TypeOK, VersionInv, NEW s \in Session,
           Refresh(s) \/ Completes(s)
    PROVE  VersionInv'
<1>1. CASE Refresh(s)
  <2>1. Committed(s) /\ OnlyOf(s)
    BY <1>1, Commits DEF Refresh
  <2> QED  BY <1>1, <2>1, Ending DEF Refresh, remote, OnlyOf
<1>2. CASE Completes(s)
  <2>1. /\ Delivering(s)
        /\ \E step : Delivered(s) \/ Undelivered(s) \/ Continue(s, step)
        /\ UNCHANGED <<row, reservation, content, late>>
    BY <1>2, CompletingEnds
  <2>2. (Committed(s) \/ Polled(s)) /\ OnlyOf(s)
    BY <2>1, DeliveryEnds
  <2> QED  BY <2>1, <2>2, Ending DEF OnlyOf
<1> QED  BY <1>1, <1>2

\* The link being delivered is to the successor of the session.
LEMMA LinkIsOwn ==
    ASSUME TypeOK, VersionInv, NEW s \in Session, Delivering(s)
    PROVE  Owns(s, Link(s).target) /\ Uses(s, Link(s).target) /\ Opened(s)
<1>1. CASE At(s, "deliver")
  BY <1>1 DEF At, Link, VersionInv, SessionInv, StepInv, Finished, Uses, Opened
<1>2. CASE ~At(s, "deliver")
  <2>1. outbox[s] # None
    BY <1>2 DEF Delivering
  <2>2. IsPublished(s) /\ outbox[s].target = session[s].successor
    BY <2>1 DEF VersionInv, SessionInv
  <2> QED  BY <1>2, <2>2 DEF Link, VersionInv, SessionInv, Finished, Uses, Opened, IsPublished
<1> QED  BY <1>1, <1>2

LEMMA FailVersions ==
    ASSUME TypeOK, VersionInv, NEW s \in Session, Fail(s)
    PROVE  VersionInv'
<1>1. UNCHANGED <<row, reservation, content>> /\ (\A c \in late' : c \in late \/ c \in OpenCalls(s))
  BY DEF Fail, remote
<1>2. CASE Delivering(s)
  <2>1. (Committed(s) \/ Dropped(s) \/ Polled(s)) /\ OnlyOf(s)
    <3>1. CASE Undelivered(s)
      BY <1>2, <3>1, DeliveryEnds
    <3>2. CASE Abort(s) /\ UNCHANGED <<session, outbox>>
      BY <3>2, Types DEF Abort, Dropped, OnlyOf
    <3> QED  BY <1>2, <3>1, <3>2 DEF Fail
  <2>2. ASSUME NEW c \in OpenCalls(s)
        PROVE  Leaves(s, c)
    <3>1. /\ c = [op |-> delivery[s], session |-> s, record |-> Link(s).record,
                  version |-> Link(s).target]
          /\ delivery[s] \in {"link", "show"}
      BY <1>2, Types DEF OpenCalls, LinkCall
    <3>2. /\ c.op \in {"link", "show"} /\ c.session = s /\ c.version = Link(s).target
      BY <3>1
    <3> QED  BY <1>2, <3>2, LinkIsOwn, NoneAssumption DEF Leaves, Owns, Present
  <2> QED  BY <1>1, <2>1, <2>2, Ending DEF OnlyOf
<1>3. CASE ~Delivering(s)
  <2>1. Abort(s) /\ UNCHANGED <<session, outbox>> /\ publishing[s] # None
    BY <1>3 DEF Fail, Delivering
  <2>2. Dropped(s) /\ OnlyOf(s)
    BY <2>1, Types DEF Abort, Dropped, OnlyOf
  <2>3. session[s].status = "approved" /\ session[s].successor = None
    BY <2>1 DEF VersionInv, SessionInv, IsPublished
  <2>4. ASSUME NEW c \in OpenCalls(s)
        PROVE  Leaves(s, c)
    <3>1. PICK op : /\ c = [op |-> op, session |-> s, record |-> publishing[s].record,
                            version |-> publishing[s].successor]
                    /\ \/ op = "create" /\ publishing[s].phase = "record"
                       \/ /\ op = publishing[s].phase
                          /\ publishing[s].phase \in {"reserve", "write", "edit", "publish"}
      BY <1>3 DEF OpenCalls, Call, At
    <3>2. c.op = op /\ c.session = s /\ c.version = publishing[s].successor
      BY <3>1
    <3>3. /\ op \in {"create", "reserve"} => c.version = None
          /\ op \notin {"create", "reserve"} => Owns(s, c.version) /\ Uses(s, c.version)
          /\ op = "edit" => s \notin Structured
      BY <2>1, <3>1, <3>2 DEF VersionInv, StepInv, Uses
    <3> QED  BY <2>2, <2>3, <3>2, <3>3, NoneAssumption DEF Leaves, Owns, Present, Dropped, Opened
  <2> QED  BY <1>1, <2>2, <2>4, Ending DEF OnlyOf
<1> QED  BY <1>2, <1>3

LEMMA LateVersions ==
    ASSUME TypeOK, VersionInv, NEW c \in late, CarryOut(c)
    PROVE  VersionInv'
<1>1. UNCHANGED <<session, publishing, outbox>> /\ late' \subseteq late
  BY DEF CarryOut, editor
<1>2. c.session \in Session /\ Opened(c.session)
  BY Types DEF LateCall, VersionInv, LateInv
<1>3. CASE UNCHANGED <<row, reservation, content>>
  BY <1>1, <1>3, VersionsIdle, SameKeepsRows
<1>4. CASE c.op \in {"write", "edit"} /\ Stored(c.session, c.op, c.version)
           /\ UNCHANGED <<row, reservation>>
  BY <1>1, <1>4, LateWriteVersions
<1>5. CASE CatalogAccepts(c.session) /\ CreateSuccessor(c.session) /\ UNCHANGED content
  <2>1. PICK s \in Session : s = c.session
    BY <1>2
  <2>2. CASE UNCHANGED <<row, reservation>>
    BY <1>1, <1>5, <2>2, VersionsIdle, SameKeepsRows
  <2>3. CASE Appends(s, Successor(s))
    BY <1>1, <1>2, <1>5, <2>1, <2>3, AppendVersions
  <2> QED  BY <1>2, <1>5, <2>1, <2>2, <2>3, Creating
<1>6. CASE c.op = "publish" /\ PublishCatalogRow(c.version) /\ UNCHANGED content
  <2>1. c.version \in Version
    BY <1>2, <1>6 DEF VersionInv, LateInv
  <2>2. Publishes(c.version)
    BY <1>6, <2>1, Publishing
  <2> QED  BY <1>1, <1>6, <2>2, PublishKeepsRows, VersionsIdle DEF Publishes
<1> QED  BY <1>3, <1>4, <1>5, <1>6 DEF CarryOut, Effect, remote

LEMMA StaffVersions ==
    ASSUME TypeOK, VersionInv,
           \/ \E s \in Structured : DecideFinding(s)
           \/ \E r \in Record : WithdrawRecord(r)
           \/ \E v \in Version : PublishByHand(v)
           \/ ByHand
    PROVE  VersionInv'
<1>1. UNCHANGED <<content, session, publishing, outbox, late>>
  BY DEF DecideFinding, WithdrawRecord, PublishByHand, ByHand, DecideRecord,
         PublishRecordByHand, ConfirmQuotes, ReviseRecord, editor, remote
<1>2. CASE UNCHANGED <<row, reservation>>
  BY <1>1, <1>2, SameKeepsRows, VersionsIdle
<1>3. ASSUME NEW v \in Version, PublishByHand(v)
      PROVE  VersionInv'
  <2>1. Publishes(v)
    BY <1>3, Publishing DEF PublishByHand
  <2> QED  BY <1>1, <2>1, PublishKeepsRows, VersionsIdle DEF Publishes
<1> QED
  BY <1>2, <1>3 DEF DecideFinding, WithdrawRecord, ByHand, DecideRecord, PublishRecordByHand,
                    ConfirmQuotes, ReviseRecord, remote

(***************************************************************************)
(* Records of a session that a step leaves alone.                          *)
(***************************************************************************)
Settled(s) ==
    CreatedInv(s) /\ LinkInv(s) /\ DoneInv(s) /\ (s \in Structured => PinInv(s))

\* A present record stays, with its attempt, and is never unlinked.
RecordsKept ==
    /\ record' \in [Record -> RecordRow]
    /\ \A r \in Record : record[r].status # "absent" =>
         /\ record'[r].status # "absent"
         /\ record'[r].attempt = record[r].attempt
         /\ record[r].target # None => record'[r].target # None

\* The record says what it said, or less after a withdrawal, or now in public.
Stays(r) ==
    /\ ~record[r].takenOver
    /\ record'[r].source = record[r].source
    /\ record'[r].target = record[r].target
    /\ \/ /\ record'[r].status \in {record[r].status, "withdrawn"}
          /\ record'[r].quoted = record[r].quoted
          /\ record'[r].shown = record[r].shown
       \/ /\ record'[r].status = "published"
          /\ record'[r].quoted = record[r].source
          /\ record'[r].shown = record[r].target
          /\ record[r].target # None

\* So do the records t created, but for those that staff take over.
Undisturbed(t) ==
    \A r \in Record : t \in Structured =>
        /\ record'[r].attempt = t <=> record[r].attempt = t
        /\ record[r].attempt = t => record'[r].takenOver \/ Stays(r)

SameRecordState(t) ==
    /\ session'[t] = session[t]
    /\ publishing'[t] = publishing[t]
    /\ outbox'[t] = outbox[t]
    /\ delivery'[t] = delivery[t]
    /\ t \in Structured => pinned'[t] = pinned[t] /\ recorded'[t] = recorded[t]
    /\ reservation[t] # None => reservation'[t] = reservation[t]

\* The record being linked, or named by a late call to link or show it, is present.
LEMMA LinkRecordIsPresent ==
    ASSUME TypeOK, RecordInv, NEW s \in Session
    PROVE  /\ Delivering(s) => /\ Link(s).record \in Record
                               /\ record[Link(s).record].status # "absent"
                               /\ record[Link(s).record].attempt \in {None, s}
           /\ \A c \in late : c.session = s /\ c.op \in {"link", "show"} =>
                /\ c.record \in Record
                /\ record[c.record].status # "absent"
                /\ record[c.record].attempt \in {None, s}
<1>1. ASSUME Delivering(s)
      PROVE  Link(s).record \in Record /\ Names(s, Link(s).record)
  <2>1. CASE At(s, "deliver")
    <3>1. outbox[s] # None => Legal(s)
      BY DEF RecordInv, LinkInv
    <3>2. publishing[s] \in Transaction /\ publishing[s].record # None
      BY <1>1, <2>1, <3>1, PublishingOne DEF Delivering, At, RecordInv, LinkInv
    <3>3. Link(s).record = publishing[s].record
      BY <2>1 DEF Link
    <3> QED  BY <2>1, <3>2, <3>3 DEF Transaction, Opt, Names, At
  <2>2. CASE ~At(s, "deliver")
    <3>1. outbox[s] \in OwedLink /\ Link(s) = outbox[s] /\ outbox[s] # None
      BY <1>1, <2>2, Types DEF Delivering, Link, Opt
    <3> QED  BY <3>1 DEF OwedLink, Names
  <2> QED  BY <2>1, <2>2
<1>2. ASSUME NEW c \in late, c.session = s, c.op \in {"link", "show"}
      PROVE  c.record \in Record /\ Names(s, c.record)
  <2>1. c.record \in Opt(Record) /\ c.record # None
    BY <1>2, Types DEF LateCall, RecordInv, LinkInv
  <2> QED  BY <1>2, <2>1 DEF Opt, Names
<1> QED  BY <1>1, <1>2 DEF RecordInv, NamesInv

LEMMA CreatedLeftAlone ==
    ASSUME NEW t \in Session, CreatedInv(t), Undisturbed(t),
           session'[t].source = session[t].source, Opened(t) => Opened(t)', Legal(t) => Legal(t)',
           t \in Structured => pinned'[t] = pinned[t],
           reservation[t] # None => reservation'[t] = reservation[t]
    PROVE  CreatedInv(t)'
<1> SUFFICES ASSUME NEW r \in Record, t \in Structured, record'[r].attempt = t
             PROVE  /\ Opened(t)' /\ Legal(t)'
                    /\ pinned'[t] = [set |-> TRUE, payload |-> None]
                    /\ ~record'[r].takenOver => Faithful(t, r)'
  BY DEF CreatedInv, RecordOf
<1>1. record[r].attempt = t /\ (record'[r].takenOver \/ Stays(r))
  BY DEF Undisturbed
<1>2. /\ Opened(t) /\ Legal(t)
      /\ pinned[t] = [set |-> TRUE, payload |-> None]
      /\ ~record[r].takenOver => Faithful(t, r)
  BY <1>1 DEF CreatedInv, RecordOf
<1>3. ASSUME Stays(r) PROVE Faithful(t, r)'
  BY <1>2, <1>3 DEF Stays, Faithful
<1> QED  BY <1>1, <1>2, <1>3

LEMMA LinkLeftAlone ==
    ASSUME TypeOK, RecordInv, NEW t \in Session, RecordsKept, SameRecordState(t),
           \A c \in late' : c.session = t => c \in late
    PROVE  LinkInv(t)'
<1>1. (Delivering(t)' <=> Delivering(t)) /\ Link(t)' = Link(t)
  BY DEF SameRecordState, Delivering, Link, At, Legal
<1>2. LinkInv(t)
  BY DEF RecordInv
<1>3. ASSUME delivery[t] \in {"review", "show"}, t \in Structured
      PROVE  record'[Link(t).record].target # None
  BY <1>2, <1>3, LinkRecordIsPresent DEF LinkInv, RecordsKept
<1>4. ASSUME NEW c \in late', c.session = t, c.op = "show", t \in Structured
      PROVE  record'[c.record].target # None
  BY <1>2, <1>4, LinkRecordIsPresent DEF LinkInv, RecordsKept
<1> QED  BY <1>1, <1>2, <1>3, <1>4 DEF LinkInv, SameRecordState, Legal

LEMMA RecordsLeftAlone ==
    ASSUME TypeOK, RecordInv, NEW t \in Session, RecordsKept, Undisturbed(t),
           SameRecordState(t),
           \A c \in late' : c.session = t => c \in late
    PROVE  Settled(t)'
<1>1. RecordOf(t)' = RecordOf(t)
  BY DEF RecordOf, Undisturbed
<1>2. \A r \in RecordOf(t) : r \in Record /\ t \in Structured /\ record[r].attempt = t
  BY DEF RecordOf
<1>3. CreatedInv(t)'
  BY CreatedLeftAlone DEF RecordInv, SameRecordState, Opened, Legal
<1>4. DoneInv(t)'
  <2>1. DoneInv(t)
    BY DEF RecordInv
  <2> QED  BY <1>1, <1>2, <2>1 DEF DoneInv, Undisturbed, Stays, SameRecordState, IsPublished
<1>5. t \in Structured => PinInv(t)'
  BY <1>1 DEF RecordInv, PinInv, SameRecordState, IsPublished, Legal
<1>6. LinkInv(t)'
  BY LinkLeftAlone
<1> QED  BY <1>3, <1>4, <1>5, <1>6 DEF Settled

\* A step of s touches no record another attempt created, and makes at most one new one.
RecordOthers(s) ==
    /\ \A t \in Session : t # s => SameRecordState(t) /\ Undisturbed(t)
    /\ \A c \in late' : c.session # s => c \in late

LEMMA RecordStep ==
    ASSUME TypeOK, RecordInv, NEW s \in Session, NEW new, RecordsKept, RecordOthers(s),
           \A r \in Record : record[r].status = "absent" => record'[r] = record[r] \/ r = new,
           new \in Record => /\ record[new].status = "absent"
                             /\ record'[new].status # "absent"
                             /\ record'[new].attempt \in {None, s}
                             /\ record'[new].attempt # None => RecordOf(s) = {} /\ s \in Structured,
           \A r \in Record : Names(s, r)' => Names(s, r) \/ r = new
                               \/ (record[r].status # "absent" /\ record[r].attempt \in {None, s}),
           Settled(s)'
    PROVE  RecordInv'
<1>1. \A t \in Session, r \in Record : t # s /\ Names(t, r)' => Names(t, r)
  BY SessionAssumption DEF Names, RecordOthers, SameRecordState
<1>2. NamesInv'
  <2> SUFFICES ASSUME NEW t \in Session, NEW r \in Record, Names(t, r)'
               PROVE  record'[r].status # "absent" /\ record'[r].attempt \in {None, t}
    BY DEF NamesInv
  <2>1. CASE Names(t, r) \/ (record[r].status # "absent" /\ record[r].attempt \in {None, t})
    BY <2>1 DEF RecordsKept, RecordInv, NamesInv
  <2>2. CASE r = new /\ t = s
    BY <2>2
  <2> QED  BY <1>1, <2>1, <2>2
<1>3. RowInv'
  BY DEF RecordInv, RowInv, RecordsKept
<1>4. OneRecord'
  <2> SUFFICES ASSUME NEW r \in Record, NEW q \in Record, record'[r].attempt # None,
                      record'[r].attempt = record'[q].attempt, r # q
               PROVE  FALSE
    BY DEF OneRecord
  <2>1. \A p \in Record : p # new => record'[p].attempt = record[p].attempt
    BY DEF RecordsKept
  <2>2. CASE r # new /\ q # new
    BY <2>1, <2>2 DEF RecordInv, OneRecord
  <2>3. CASE r = new \/ q = new
    BY <2>1, <2>3 DEF RecordOf
  <2> QED  BY <2>2, <2>3
<1>5. ASSUME NEW t \in Session, t # s
      PROVE  Settled(t)'
  BY <1>5, RecordsLeftAlone DEF RecordOthers
<1>6. \A t \in Session : Settled(t)'
  BY <1>5
<1> QED  BY <1>2, <1>3, <1>4, <1>6, SessionAssumption DEF RecordInv, Settled

\* A step of s that creates no record.
LEMMA RecordStepSame ==
    ASSUME TypeOK, RecordInv, NEW s \in Session, RecordsKept, RecordOthers(s),
           \A r \in Record : record[r].status = "absent" => record'[r] = record[r],
           \A r \in Record : Names(s, r)' => Names(s, r)
                               \/ (record[r].status # "absent" /\ record[r].attempt \in {None, s}),
           Settled(s)'
    PROVE  RecordInv'
<1> DEFINE new == None
<1>1. \A r \in Record : record[r].status = "absent" => record'[r] = record[r] \/ r = new
  OBVIOUS
<1>2. new \in Record => FALSE
  BY NoneAssumption
<1>3. \A r \in Record : Names(s, r)' => Names(s, r) \/ r = new
                          \/ (record[r].status # "absent" /\ record[r].attempt \in {None, s})
  OBVIOUS
<1> HIDE DEF new
<1> QED  BY <1>1, <1>2, <1>3, RecordStep

\* A step no session takes, and the end of a late call that changed no record.
LEMMA RecordsIdle ==
    ASSUME TypeOK, RecordInv, RecordsKept,
           \A t \in Session : SameRecordState(t) /\ Undisturbed(t),
           \A r \in Record : record[r].status = "absent" => record'[r] = record[r],
           \A c \in late' : c \in late
    PROVE  RecordInv'
<1>1. \A t \in Session, r \in Record : Names(t, r)' => Names(t, r)
  BY SessionAssumption DEF Names, SameRecordState
<1>2. NamesInv'
  BY <1>1 DEF RecordsKept, RecordInv, NamesInv
<1>3. \A r \in Record : record'[r].attempt = record[r].attempt
  BY DEF RecordsKept
<1>4. RowInv' /\ OneRecord'
  BY <1>3 DEF RecordInv, RowInv, OneRecord, RecordsKept
<1>5. \A t \in Session : Settled(t)'
  BY RecordsLeftAlone
<1> QED  BY <1>2, <1>4, <1>5, SessionAssumption DEF RecordInv, Settled

LEMMA SameRecords ==
    ASSUME TypeOK, record' = record
    PROVE  RecordsKept /\ \A t \in Session : Undisturbed(t)
<1>1. RecordsKept
  BY Types DEF RecordsKept
<1>2. \A r \in Record : record'[r].takenOver \/ Stays(r)
  BY DEF Stays
<1> QED  BY <1>1, <1>2 DEF Undisturbed

(***************************************************************************)
(* The steps of a transaction before the delivery.                         *)
(***************************************************************************)
LEMMA NotDelivering ==
    ASSUME VersionInv, RecordInv, NEW s \in Session, ~IsPublished(s),
           publishing[s] # None => publishing[s].phase # "deliver"
    PROVE  outbox[s] = None /\ ~Delivering(s) /\ delivery[s] = "read"
<1>1. outbox[s] = None
  BY DEF VersionInv, SessionInv
<1>2. ~Delivering(s)
  BY <1>1 DEF Delivering, At
<1> QED  BY <1>1, <1>2 DEF RecordInv, LinkInv

\* A call left behind before the delivery.
LeavesEarly(s, c) ==
    /\ c.session = s
    /\ publishing[s] # None /\ c.record = publishing[s].record
    /\ c.op \notin {"link", "show"}
    /\ c.op = "create" => /\ Legal(s)
                          /\ s \in Structured => pinned[s] = [set |-> TRUE, payload |-> None]

\* Another phase with the same request and record, or the end of the transaction.
LEMMA RecordMoving ==
    ASSUME TypeOK, VersionInv, RecordInv, NEW s \in Session,
           UNCHANGED <<record, session, outbox, pinned, recorded>>,
           \A c \in late' : c \in late \/ LeavesEarly(s, c),
           ~IsPublished(s),
           publishing[s] # None /\ ~Delivering(s),
           \A t \in Session : t # s => /\ publishing'[t] = publishing[t]
                                       /\ delivery'[t] = delivery[t]
                                       /\ reservation'[t] = reservation[t],
           reservation[s] # None => reservation'[s] = reservation[s],
           delivery'[s] = "read",
           publishing'[s] # None =>
             /\ publishing'[s].payload = publishing[s].payload
             /\ publishing'[s].record = publishing[s].record
             /\ publishing'[s].phase = "record" => Legal(s)
             /\ publishing'[s].phase \in {"source", "record"}
                  \/ publishing[s].phase \notin {"source", "record"} \/ ~Legal(s)
    PROVE  RecordInv'
<1>1. RecordsKept /\ \A t \in Session : Undisturbed(t)
  BY SameRecords
<1>2. RecordOthers(s)
  BY <1>1 DEF RecordOthers, SameRecordState, LeavesEarly
<1>3. outbox[s] = None /\ ~Delivering(s) /\ delivery[s] = "read"
  BY DEF VersionInv, SessionInv, RecordInv, LinkInv
<1>4. CreatedInv(s)'
  BY <1>1, CreatedLeftAlone DEF RecordInv, Opened, Legal
<1>5. LinkInv(s)'
  BY <1>3 DEF RecordInv, LinkInv, Legal, LeavesEarly
<1>6. DoneInv(s)'
  BY DEF DoneInv, IsPublished
<1>7. s \in Structured => PinInv(s)'
  BY <1>3 DEF RecordInv, PinInv, RecordOf, Legal, IsPublished, LeavesEarly
<1>8. Settled(s)'
  BY <1>4, <1>5, <1>6, <1>7 DEF Settled
<1>9. \A r \in Record : Names(s, r)' => Names(s, r)
  BY DEF Names, LeavesEarly
<1> QED  BY <1>1, <1>2, <1>8, <1>9, RecordStepSame

LEMMA OpenRecords ==
    ASSUME TypeOK, VersionInv, RecordInv, NEW s \in Session, NEW source \in Version,
           NEW hop \in Hops, OpenSession(s, source, hop)
    PROVE  RecordInv'
<1>1. /\ session[s].status = "none"
      /\ session'[s].status = "approved"
      /\ \A t \in Session : t # s => session'[t] = session[t]
      /\ UNCHANGED <<record, reservation, publishing, outbox, delivery, pinned, recorded, late>>
  BY Types DEF OpenSession, remote
<1>2. RecordOf(s) = {}
  BY <1>1 DEF RecordInv, CreatedInv, Opened
<1>3. /\ publishing[s] = None
      /\ \A c \in late : c.session # s
      /\ ~IsPublished(s) /\ ~IsPublished(s)'
  BY <1>1 DEF VersionInv, SessionInv, LateInv, Opened, IsPublished
<1>4. outbox[s] = None /\ ~Delivering(s) /\ delivery[s] = "read"
  BY <1>3, NotDelivering
<1>5. RecordsKept /\ \A t \in Session : Undisturbed(t)
  BY <1>1, SameRecords
<1>6. RecordOthers(s)
  BY <1>1, <1>5 DEF RecordOthers, SameRecordState
<1>7. RecordOf(s)' = {}
  BY <1>1, <1>2 DEF RecordOf
<1>8. Settled(s)'
  <2>1. CreatedInv(s)' /\ DoneInv(s)'
    BY <1>7 DEF CreatedInv, DoneInv
  <2>2. LinkInv(s)'
    BY <1>1, <1>3, <1>4 DEF LinkInv
  <2>3. s \in Structured => PinInv(s)'
    <3>1. CASE s \in Structured
      <4>1. /\ pinned[s].set \/ pinned[s].payload = None
            /\ recorded[s] # None => /\ pinned[s].set
                                     /\ recorded[s] \in RecordOf(s) \cup {pinned[s].payload}
        BY <3>1 DEF RecordInv, PinInv
      <4> QED  BY <1>1, <1>2, <1>3, <1>4, <1>7, <4>1 DEF PinInv
    <3> QED  BY <3>1
  <2> QED  BY <2>1, <2>2, <2>3 DEF Settled
<1>9. \A r \in Record : Names(s, r)' => Names(s, r)
  BY <1>1 DEF Names
<1> QED  BY <1>1, <1>5, <1>6, <1>8, <1>9, RecordStepSame

LEMMA BeginRecords ==
    ASSUME TypeOK, VersionInv, RecordInv, NEW s \in Session, NEW payload \in Payload,
           BeginPublish(s, payload)
    PROVE  RecordInv'
<1>1. /\ session[s].status = "approved" /\ publishing[s] = None
      /\ publishing'[s] = [phase |-> "source", payload |-> payload,
                           reserved |-> reservation[s] # None,
                           record |-> None, successor |-> None]
      /\ \A t \in Session : t # s => publishing'[t] = publishing[t]
      /\ UNCHANGED <<record, reservation, session, outbox, delivery, recorded, late>>
  BY Types DEF BeginPublish, remote
<1>2. /\ s \in Structured =>
           /\ pinned'[s] = [set |-> TRUE, payload |-> payload]
           /\ pinned[s].set => pinned[s].payload = payload
      /\ \A t \in Structured : t # s => pinned'[t] = pinned[t]
  BY Types DEF BeginPublish
<1>3. ~IsPublished(s)
  BY <1>1 DEF IsPublished
<1>4. outbox[s] = None /\ ~Delivering(s) /\ delivery[s] = "read"
  BY <1>1, <1>3, NotDelivering
<1>5. RecordsKept /\ \A t \in Session : Undisturbed(t)
  BY <1>1, SameRecords
<1>6. RecordOthers(s)
  BY <1>1, <1>2, <1>5 DEF RecordOthers, SameRecordState
<1>7. ASSUME s \in Structured, pinned[s] = [set |-> TRUE, payload |-> None]
      PROVE  pinned'[s] = pinned[s]
  BY <1>2, <1>7
<1>8. CreatedInv(s)'
  <2>1. CASE RecordOf(s) = {}
    BY <1>1, <2>1 DEF CreatedInv, RecordOf
  <2>2. CASE RecordOf(s) # {}
    <3>1. s \in Structured /\ pinned[s] = [set |-> TRUE, payload |-> None]
      BY <2>2 DEF RecordInv, CreatedInv, RecordOf
    <3> QED  BY <1>1, <1>5, <1>7, <3>1, CreatedLeftAlone DEF RecordInv, Opened, Legal
  <2> QED  BY <2>1, <2>2
<1>9. LinkInv(s)'
  BY <1>1, <1>4 DEF RecordInv, LinkInv, Legal
<1>10. DoneInv(s)'
  BY <1>1, <1>3 DEF DoneInv, IsPublished
<1>11. ASSUME s \in Structured
       PROVE  PinInv(s)'
  <2>1. PinInv(s)
    BY <1>11 DEF RecordInv
  <2>2. pinned[s] \in Pin
    BY <1>11, Types
  <2>3. recorded[s] # None => recorded[s] \in RecordOf(s) \cup {payload}
    BY <1>2, <1>11, <2>1 DEF PinInv
  <2>4. \A c \in late : c.session = s /\ c.op = "create" =>
          pinned'[s] = [set |-> TRUE, payload |-> None]
    BY <1>7, <1>11, <2>1 DEF PinInv
  <2>5. pinned'[s].set /\ pinned'[s].payload = payload
    BY <1>2, <1>11
  <2>6. RecordOf(s)' = RecordOf(s)
    BY <1>1 DEF RecordOf
  <2>7. recorded'[s] = recorded[s] /\ late' = late
    BY <1>1
  <2>8. /\ publishing'[s] # None =>
             /\ pinned'[s] = [set |-> TRUE, payload |-> publishing'[s].payload]
             /\ publishing'[s].phase \in {"source", "record"}
    BY <1>1, <1>2, <1>11
  <2> QED
    BY <1>3, <1>1, <1>4, <2>3, <2>4, <2>5, <2>6, <2>7, <2>8 DEF PinInv, IsPublished
<1>12. Settled(s)'
  BY <1>8, <1>9, <1>10, <1>11 DEF Settled
<1>13. \A r \in Record : Names(s, r)' => Names(s, r)
  BY <1>1, NoneAssumption DEF Names
<1> QED  BY <1>1, <1>5, <1>6, <1>12, <1>13, RecordStepSame

LEMMA AbortDelivery ==
    ASSUME TypeOK, NEW s \in Session, Abort(s)
    PROVE  /\ publishing'[s] = None /\ delivery'[s] = "read"
           /\ \A t \in Session : t # s => publishing'[t] = publishing[t]
                                          /\ delivery'[t] = delivery[t]
BY Types DEF Abort

LEMMA EarlyRecords ==
    ASSUME TypeOK, VersionInv, RecordInv, NEW s \in Session,
           \/ CheckSource(s) \/ Reserve(s) \/ PublishVersion(s)
           \/ Write(s, "write") \/ Write(s, "edit")
    PROVE  RecordInv'
<1>1. /\ UNCHANGED <<record, session, outbox, pinned, recorded, late>>
      /\ publishing[s] # None /\ publishing[s] \in Transaction
      /\ publishing[s].phase \in {"source", "reserve", "write", "edit", "publish"}
  BY PublishingOne DEF CheckSource, Reserve, PublishVersion, Write, At, remote
<1>2. session[s].status = "approved" /\ ~IsPublished(s)
  BY <1>1 DEF VersionInv, SessionInv, IsPublished
<1>3. delivery[s] = "read" /\ ~Delivering(s)
  BY <1>1, <1>2, NotDelivering
<1>4. /\ \A t \in Session : t # s => reservation'[t] = reservation[t]
      /\ reservation[s] # None => reservation'[s] = reservation[s]
  <2>1. CASE UNCHANGED reservation
    BY <2>1
  <2>2. CASE Reserve(s) /\ CatalogAccepts(s)
    BY <1>2, <2>2, Creating DEF Reserve, Opened, Appends
  <2>3. CASE PublishVersion(s)
    BY <2>3 DEF PublishVersion, PublishCatalogRow, Catalog!PublishVersion
  <2> QED  BY <2>1, <2>2, <2>3 DEF CheckSource, Reserve, Write, remote
<1>5. CASE Abort(s)
  BY <1>1, <1>2, <1>3, <1>4, <1>5, AbortDelivery, RecordMoving
<1>6. CASE CheckSource(s) /\ Advance(s, IF Legal(s) THEN "record" ELSE "reserve")
           /\ UNCHANGED delivery
  <2>1. /\ publishing'[s].payload = publishing[s].payload
        /\ publishing'[s].record = publishing[s].record
        /\ publishing'[s].phase = IF Legal(s) THEN "record" ELSE "reserve"
        /\ \A t \in Session : t # s => publishing'[t] = publishing[t]
    BY <1>1, <1>6, Types DEF Advance, Transaction
  <2> QED  BY <1>1, <1>2, <1>3, <1>4, <1>6, <2>1, RecordMoving
<1>7. CASE /\ publishing[s].phase # "source"
           /\ \/ \E phase \in {"edit", "publish", "deliver"} : Advance(s, phase)
              \/ publishing' = [publishing EXCEPT ![s].phase = "write",
                                                  ![s].successor = Successor(s)]
           /\ UNCHANGED delivery
  <2>1. /\ publishing'[s].payload = publishing[s].payload
        /\ publishing'[s].record = publishing[s].record
        /\ publishing'[s].phase \notin {"source", "record"}
        /\ \A t \in Session : t # s => publishing'[t] = publishing[t]
    BY <1>1, <1>7, Types DEF Advance, Transaction
  <2> QED  BY <1>1, <1>2, <1>3, <1>4, <1>7, <2>1, RecordMoving
<1>8. CheckSource(s) \/ publishing[s].phase # "source"
  BY DEF Reserve, PublishVersion, Write, At
<1> QED
  <2>1. CASE CheckSource(s)
    BY <2>1, <1>5, <1>6 DEF CheckSource
  <2>2. CASE Reserve(s)
    BY <2>2, <1>5, <1>7 DEF Reserve, At
  <2>3. CASE PublishVersion(s)
    BY <2>3, <1>5, <1>7 DEF PublishVersion, At
  <2>4. CASE Write(s, "write") \/ Write(s, "edit")
    BY <2>4, <1>5, <1>7 DEF Write, At
  <2> QED  BY <2>1, <2>2, <2>3, <2>4

(***************************************************************************)
(* Creating a record, in time or late.                                     *)
(***************************************************************************)
CreatesNew(s, r) ==
    /\ r \in Record
    /\ RecordOf(s) = {}
    /\ record[r].status = "absent"
    /\ record' \in [Record -> RecordRow]
    /\ record'[r].status = "draft"
    /\ record'[r].source = session[s].source
    /\ record'[r].target = None
    /\ record'[r].shown = None
    /\ record'[r].attempt = AttemptOf(s)
    /\ \A q \in Record : q # r => record'[q] = record[q]

LEMMA NewRecordType ==
    \A exact \in BOOLEAN, source \in Opt(Version), attempt \in Opt(Structured) :
        [NoRecord EXCEPT !.status = "draft", !.source = source, !.exact = exact,
                         !.attempt = attempt] \in RecordRow
BY DEF NoRecord, RecordRow, Opt

LEMMA CreatingRecord ==
    ASSUME TypeOK, NEW s \in Session, CreateRecord(s)
    PROVE  \/ CreatedRecord(s) \in RecordOf(s) /\ record' = record
           \/ CreatesNew(s, CreatedRecord(s))
<1>1. CASE RecordOf(s) # {}
  BY <1>1, FreshIsMember DEF CreateRecord, CreatedRecord
<1>2. CASE RecordOf(s) = {}
  <2>1. PICK r : r = CreatedRecord(s)
    OBVIOUS
  <2>2. r \in Record /\ record[r].status = "absent"
    <3>1. Unused # {}
      BY <1>2 DEF CreateRecord
    <3> QED  BY <1>2, <2>1, <3>1, FreshIsMember DEF CreatedRecord, Unused
  <2> DEFINE new == [NoRecord EXCEPT !.status = "draft", !.source = session[s].source,
                                     !.exact = s \in Structured, !.attempt = AttemptOf(s)]
  <2>3. /\ new.status = "draft" /\ new.source = session[s].source /\ new.target = None
        /\ new.shown = None /\ new.attempt = AttemptOf(s)
    BY DEF NoRecord
  <2>4. new \in RecordRow
    <3>1. session[s].source \in Opt(Version)
      BY Types DEF SessionRow
    <3>2. AttemptOf(s) \in Opt(Structured)
      BY DEF AttemptOf, Opt
    <3>3. (s \in Structured) \in BOOLEAN
      OBVIOUS
    <3> QED  BY <3>1, <3>2, <3>3, NewRecordType, Zenon
  <2>5. record' = [record EXCEPT ![r] = new]
    BY <1>2, <2>1 DEF CreateRecord
  <2> HIDE DEF new
  <2>6. /\ record' \in [Record -> RecordRow]
        /\ record'[r] = new
        /\ \A q \in Record : q # r => record'[q] = record[q]
    BY <2>2, <2>4, <2>5, Types
  <2>7. CreatesNew(s, r)
    BY <1>2, <2>2, <2>3, <2>6 DEF CreatesNew
  <2> QED  BY <2>1, <2>7
<1> QED  BY <1>1, <1>2

LEMMA CreatesKeeps ==
    ASSUME TypeOK, RecordInv, NEW s \in Session, NEW r, CreatesNew(s, r)
    PROVE  /\ RecordsKept
           /\ \A t \in Session : t # s => Undisturbed(t)
           /\ s \notin Structured => Undisturbed(s)
           /\ record'[r].attempt \in {None, s}
           /\ record'[r].attempt # None => s \in Structured
           /\ s \in Structured => RecordOf(s)' = {r}
<1>1. /\ r \in Record /\ record[r].status = "absent" /\ record[r].attempt = None
      /\ record'[r].attempt = AttemptOf(s)
      /\ \A q \in Record : q # r => record'[q] = record[q]
      /\ record' \in [Record -> RecordRow]
  BY DEF CreatesNew, RecordInv, RowInv
<1>2. RecordsKept
  BY <1>1 DEF RecordsKept
<1>3. ASSUME NEW t \in Session, t # s  PROVE Undisturbed(t)
  <2>1. record[r].attempt # t /\ record'[r].attempt # t
    BY <1>1, <1>3, NoneAssumption DEF AttemptOf
  <2>2. ASSUME NEW q \in Record
        PROVE  /\ record'[q].attempt = t <=> record[q].attempt = t
               /\ record[q].attempt = t => record'[q].takenOver \/ Stays(q)
    <3>1. CASE q = r
      BY <2>1, <3>1
    <3>2. CASE q # r
      BY <1>1, <3>2 DEF Stays
    <3> QED  BY <3>1, <3>2
  <2> QED  BY <2>2 DEF Undisturbed
<1>4. s \notin Structured => Undisturbed(s)
  BY DEF Undisturbed
<1>5. s \in Structured => RecordOf(s)' = {r}
  BY <1>1 DEF RecordOf, AttemptOf, CreatesNew
<1> QED  BY <1>1, <1>2, <1>3, <1>4, <1>5 DEF AttemptOf

LEMMA NewRecordIsPinned ==
    ASSUME TypeOK, RecordInv, NEW s \in Session, NEW r, CreatesNew(s, r),
           Opened(s), Legal(s), s \in Structured => pinned[s] = [set |-> TRUE, payload |-> None],
           session' = session, pinned' = pinned, reservation' = reservation
    PROVE  CreatedInv(s)'
<1>1. CASE s \in Structured
  <2>1. RecordOf(s)' = {r}
    BY <1>1, CreatesKeeps
  <2> QED  BY <1>1, <2>1 DEF CreatesNew, CreatedInv, Faithful, Opened, Legal
<1>2. CASE s \notin Structured
  BY <1>2 DEF CreatedInv, RecordOf
<1> QED  BY <1>1, <1>2

LEMMA ResolveRecords ==
    ASSUME TypeOK, VersionInv, RecordInv, NEW s \in Session, ResolveRecord(s)
    PROVE  RecordInv'
<1>1. /\ UNCHANGED <<reservation, session, pinned, outbox, late>>
      /\ publishing[s] # None /\ publishing[s] \in Transaction
      /\ publishing[s].phase = "record"
  BY PublishingOne DEF ResolveRecord, At
<1>2. session[s].status = "approved" /\ ~IsPublished(s)
  BY <1>1 DEF VersionInv, SessionInv, IsPublished
<1>3. outbox[s] = None /\ ~Delivering(s) /\ delivery[s] = "read"
  BY <1>1, <1>2, NotDelivering
<1>4. Legal(s) /\ Opened(s)
  BY <1>1, <1>2 DEF RecordInv, LinkInv, Opened
<1>5. s \in Structured => /\ PinInv(s)
                          /\ pinned[s] = [set |-> TRUE, payload |-> publishing[s].payload]
  BY <1>1 DEF RecordInv, PinInv
<1>6. CASE Abort(s) /\ UNCHANGED <<record, recorded>>
  BY <1>1, <1>2, <1>3, <1>6, AbortDelivery, RecordMoving
<1>7. ASSUME NEW r \in Record, UseRecord(s, r)
      PROVE  /\ publishing'[s].record = r /\ publishing'[s].phase = "reserve"
             /\ publishing'[s].payload = publishing[s].payload
             /\ \A t \in Session : t # s => publishing'[t] = publishing[t]
             /\ s \in Structured => recorded'[s] = r
             /\ \A t \in Structured : t # s => recorded'[t] = recorded[t]
             /\ delivery' = delivery
  BY <1>1, <1>7, Types DEF UseRecord, Transaction
<1>8. ASSUME NEW r \in Record, UseRecord(s, r), RecordsKept,
             s \in Structured => r \in RecordOf(s)' \cup {publishing[s].payload}
      PROVE  LinkInv(s)' /\ DoneInv(s)' /\ (s \in Structured => PinInv(s)')
  <2>1. LinkInv(s)'
    <3>1. LinkInv(s)
      BY DEF RecordInv
    <3>2. \A c \in late : c.session = s /\ c.op = "show" /\ s \in Structured =>
            record'[c.record].target # None
      BY <1>8, <3>1, LinkRecordIsPresent DEF LinkInv, RecordsKept
    <3> QED
      BY <1>1, <1>3, <1>4, <1>7, <1>8, <3>1, <3>2, NoneAssumption DEF LinkInv, Legal
  <2>2. DoneInv(s)'
    BY <1>1, <1>2 DEF DoneInv, IsPublished
  <2>3. ASSUME s \in Structured
        PROVE  PinInv(s)'
    <3>1. /\ pinned'[s] = [set |-> TRUE, payload |-> publishing'[s].payload]
          /\ recorded'[s] = r
          /\ publishing'[s].record = r
      BY <1>1, <1>5, <1>7, <1>8, <2>3
    <3>2. pinned'[s].set /\ recorded'[s] \in RecordOf(s)' \cup {pinned'[s].payload}
      BY <1>7, <1>8, <2>3, <3>1
    <3>3. \A c \in late' : c.session = s /\ c.op = "create" =>
            pinned'[s] = [set |-> TRUE, payload |-> None]
      BY <1>1, <1>5, <2>3 DEF PinInv
    <3> QED  BY <1>1, <1>2, <1>3, <3>1, <3>2, <3>3 DEF PinInv, IsPublished
  <2> QED  BY <2>1, <2>2, <2>3
<1>9. ASSUME NEW r \in Record, UseRecord(s, r), record' = record,
             record[r].status # "absent" /\ record[r].attempt \in {None, s},
             s \in Structured => r \in RecordOf(s) \cup {publishing[s].payload}
      PROVE  RecordInv'
  <2>1. RecordsKept /\ \A t \in Session : Undisturbed(t)
    BY <1>9, SameRecords
  <2>2. RecordOthers(s)
    BY <1>1, <1>7, <1>9, <2>1 DEF RecordOthers, SameRecordState
  <2>3. RecordOf(s)' = RecordOf(s)
    BY <1>9 DEF RecordOf
  <2>4. CreatedInv(s)'
    BY <1>1, <2>1, CreatedLeftAlone DEF RecordInv, Opened, Legal
  <2>5. Settled(s)'
    BY <1>8, <1>9, <2>1, <2>3, <2>4 DEF Settled
  <2>6. \A q \in Record : Names(s, q)' => Names(s, q) \/ q = r
    BY <1>1, <1>7, <1>9 DEF Names
  <2> QED  BY <1>9, <2>1, <2>2, <2>5, <2>6, RecordStepSame
<1>10. CASE HasRecorded(s) /\ UseRecord(s, recorded[s]) /\ UNCHANGED record
  <2>1. recorded[s] \in Record /\ s \in Structured
    BY <1>10, Types DEF HasRecorded, Opt
  <2>2. Names(s, recorded[s])
    BY <2>1 DEF Names
  <2>3. recorded[s] \in RecordOf(s) \cup {publishing[s].payload}
    BY <1>5, <1>10, <2>1 DEF PinInv, HasRecorded
  <2> QED  BY <1>9, <1>10, <2>1, <2>2, <2>3 DEF RecordInv, NamesInv
<1>11. CASE /\ publishing[s].payload # None
            /\ UseRecord(s, publishing[s].payload)
            /\ UNCHANGED record
  <2>1. publishing[s].payload \in StaffRecord
    BY <1>1, <1>11 DEF Transaction, Payload, Opt
  <2>2. /\ publishing[s].payload \in Record
        /\ record[publishing[s].payload].status # "absent"
        /\ record[publishing[s].payload].attempt = None
    BY <2>1, RecordAssumption DEF RecordInv, RowInv
  <2> QED  BY <1>9, <1>11, <2>2
<1>12. CASE /\ publishing[s].payload = None
            /\ CreateRecord(s)
            /\ UseRecord(s, CreatedRecord(s))
  <2>1. PICK r : r = CreatedRecord(s)
    OBVIOUS
  <2>2. CASE r \in RecordOf(s) /\ record' = record
    <3>1. r \in Record /\ s \in Structured /\ record[r].attempt = s
      BY <2>2 DEF RecordOf
    <3>2. record[r].status # "absent"
      BY <3>1, NoneAssumption DEF RecordInv, RowInv
    <3> QED  BY <1>9, <1>12, <2>1, <2>2, <3>1, <3>2
  <2>3. CASE CreatesNew(s, r)
    <3>1. /\ RecordsKept
          /\ \A t \in Session : t # s => Undisturbed(t)
          /\ record'[r].attempt \in {None, s}
          /\ record'[r].attempt # None => s \in Structured
          /\ s \in Structured => RecordOf(s)' = {r}
      BY <2>3, CreatesKeeps
    <3>2. r \in Record /\ UseRecord(s, r)
      BY <1>12, <2>1, <2>3 DEF CreatesNew
    <3>3. RecordOthers(s)
      BY <1>1, <1>7, <3>1, <3>2 DEF RecordOthers, SameRecordState
    <3>4. CreatedInv(s)'
      BY <1>1, <1>4, <1>5, <1>12, <2>3, NewRecordIsPinned
    <3>5. Settled(s)'
      BY <1>8, <3>1, <3>2, <3>4 DEF Settled
    <3>6. \A q \in Record : Names(s, q)' => Names(s, q) \/ q = r
      BY <1>1, <1>7, <3>2 DEF Names
    <3>7. /\ record[r].status = "absent" /\ record'[r].status # "absent"
          /\ RecordOf(s) = {}
          /\ \A q \in Record : q # r => record'[q] = record[q]
      BY <2>3 DEF CreatesNew
    <3> QED  BY <3>1, <3>2, <3>3, <3>5, <3>6, <3>7, RecordStep
  <2> QED  BY <1>12, <2>1, <2>2, <2>3, CreatingRecord
<1> QED  BY <1>6, <1>10, <1>11, <1>12 DEF ResolveRecord

(***************************************************************************)
(* Delivery of the link.                                                   *)
(***************************************************************************)
\* An attempt links the record it settled on, which is the one it created if it did.
LEMMA LinkIsRecorded ==
    ASSUME TypeOK, RecordInv, NEW s \in Session, Delivering(s)
    PROVE  /\ Legal(s)
           /\ s \in Structured => Link(s).record = recorded[s] /\ recorded[s] # None
           /\ \A r \in RecordOf(s) : Link(s).record = r
<1>1. Legal(s)
  BY DEF Delivering, RecordInv, LinkInv
<1>2. ASSUME s \in Structured
      PROVE  Link(s).record = recorded[s] /\ recorded[s] # None
  <2>1. CASE At(s, "deliver")
    BY <1>1, <1>2, <2>1 DEF At, Link, RecordInv, LinkInv, PinInv
  <2>2. CASE ~At(s, "deliver")
    <3>1. outbox[s] \in OwedLink /\ Link(s) = outbox[s] /\ outbox[s] # None
      BY <2>2, Types DEF Delivering, Link, Opt
    <3>2. outbox[s].record = recorded[s]
      BY <1>2, <3>1 DEF RecordInv, PinInv
    <3> QED  BY <3>1, <3>2, NoneAssumption DEF OwedLink
  <2> QED  BY <2>1, <2>2
<1>3. ASSUME NEW r \in RecordOf(s)
      PROVE  Link(s).record = r
  <2>1. s \in Structured /\ r \in Record /\ record[r].attempt = s
    BY DEF RecordOf
  <2>2. pinned[s].payload = None
    BY DEF RecordInv, CreatedInv
  <2>3. recorded[s] \in RecordOf(s)
    BY <1>2, <2>1, <2>2 DEF RecordInv, PinInv
  <2> QED  BY <1>2, <2>1, <2>3, NoneAssumption, SessionAssumption DEF RecordOf, RecordInv, OneRecord
<1> QED  BY <1>1, <1>2, <1>3

\* Delivery goes on, or ends with the link owed or done.
GoesOn(s) ==
    /\ publishing'[s] = publishing[s]
    /\ session'[s] = session[s]
    /\ outbox'[s] = outbox[s]
    /\ delivery'[s] \in {"link", "review", "show"}
    /\ delivery'[s] \in {"review", "show"} /\ s \in Structured =>
         record'[Link(s).record].target # None

Ends(s) ==
    /\ publishing'[s] = None
    /\ session'[s].source = session[s].source
    /\ session'[s].hop = session[s].hop
    /\ Opened(s)'
    /\ outbox'[s] \in {None, Link(s)}
    /\ delivery'[s] = "read"
    /\ IsPublished(s)' /\ outbox'[s] = None =>
         \A r \in RecordOf(s)' : ~record'[r].takenOver =>
             record'[r].status \in {"published", "withdrawn"} /\ record'[r].shown # None

LEMMA DeliveryRecords ==
    ASSUME TypeOK, VersionInv, RecordInv, NEW s \in Session, Delivering(s),
           UNCHANGED <<pinned, recorded, reservation>>,
           \A t \in Session : t # s => /\ session'[t] = session[t]
                                       /\ publishing'[t] = publishing[t]
                                       /\ outbox'[t] = outbox[t]
                                       /\ delivery'[t] = delivery[t]
                                       /\ Undisturbed(t),
           RecordsKept,
           \A r \in Record : record[r].status = "absent" => record'[r] = record[r],
           \A c \in late' : c \in late \/ c \in LinkCall(s),
           CreatedInv(s)',
           RecordOf(s)' = RecordOf(s),
           GoesOn(s) \/ Ends(s)
    PROVE  RecordInv'
<1>1. /\ Legal(s)
      /\ s \in Structured => Link(s).record = recorded[s] /\ recorded[s] # None
  BY LinkIsRecorded
<1>2. /\ Link(s).record \in Record
      /\ record[Link(s).record].status # "absent"
      /\ record[Link(s).record].attempt \in {None, s}
  BY LinkRecordIsPresent
<1>3. ASSUME NEW c \in LinkCall(s)
      PROVE  /\ c.session = s /\ c.record = Link(s).record
             /\ c.op \in {"link", "show"} /\ c.op = delivery[s]
  <2>1. /\ c = [op |-> delivery[s], session |-> s, record |-> Link(s).record,
                version |-> Link(s).target]
        /\ delivery[s] \in {"link", "show"}
    BY Types DEF LinkCall
  <2> QED  BY <2>1
<1>4. RecordOthers(s)
  BY <1>3 DEF RecordOthers, SameRecordState
<1>5. session'[s].hop = session[s].hop
  BY DEF GoesOn, Ends
<1>6. \A c \in late' : c.session = s =>
        /\ c.op = "create" => c \in late
        /\ c.op \in {"link", "show"} => c.record # None
        /\ c.op = "show" /\ s \in Structured => record'[c.record].target # None
  <2> SUFFICES ASSUME NEW c \in late', c.session = s
               PROVE  /\ c.op = "create" => c \in late
                      /\ c.op \in {"link", "show"} => c.record # None
                      /\ c.op = "show" /\ s \in Structured => record'[c.record].target # None
    OBVIOUS
  <2>1. CASE c \in late
    BY <2>1, LinkRecordIsPresent DEF RecordInv, LinkInv, RecordsKept
  <2>2. CASE c \in LinkCall(s)
    BY <1>2, <1>3, <2>2, NoneAssumption DEF RecordInv, LinkInv, RecordsKept
  <2> QED  BY <2>1, <2>2
<1>7. LinkInv(s)'
  <2>1. CASE GoesOn(s)
    <3>1. (Delivering(s)' <=> Delivering(s)) /\ Link(s)' = Link(s)
      BY <2>1 DEF GoesOn, Delivering, Link, At, Legal
    <3> QED
      BY <1>1, <1>5, <1>6, <2>1, <3>1 DEF GoesOn, LinkInv, Legal, RecordInv
  <2>2. CASE Ends(s)
    BY <1>1, <1>5, <1>6, <2>2 DEF Ends, LinkInv, Legal, RecordInv
  <2> QED  BY <2>1, <2>2
<1>8. DoneInv(s)'
  <2>1. CASE GoesOn(s)
    <3>1. IsPublished(s) => outbox[s] # None
      BY DEF Delivering, At, VersionInv, SessionInv, IsPublished
    <3> QED  BY <2>1, <3>1 DEF GoesOn, DoneInv, IsPublished
  <2>2. CASE Ends(s)
    BY <2>2 DEF Ends, DoneInv
  <2> QED  BY <2>1, <2>2
<1>9. ASSUME s \in Structured
      PROVE  PinInv(s)'
  <2>1. PinInv(s)
    BY <1>9 DEF RecordInv
  <2>2. publishing'[s] # None => publishing'[s] = publishing[s]
    BY DEF GoesOn, Ends
  <2>3. outbox'[s] # None => outbox'[s].record = recorded[s]
    BY <1>1, <1>9, <2>1 DEF GoesOn, Ends, PinInv
  <2> QED
    BY <1>1, <1>5, <1>6, <1>9, <2>1, <2>2, <2>3 DEF PinInv, Legal
<1>10. Settled(s)'
  BY <1>7, <1>8, <1>9 DEF Settled
<1>11. \A r \in Record : Names(s, r)' => Names(s, r)
                            \/ (record[r].status # "absent" /\ record[r].attempt \in {None, s})
  <2> SUFFICES ASSUME NEW r \in Record, Names(s, r)'
               PROVE  Names(s, r) \/ r = Link(s).record
    BY <1>2
  <2>1. /\ publishing'[s] # None => publishing'[s] = publishing[s]
        /\ outbox'[s] # None => outbox'[s] = outbox[s] \/ outbox'[s] = Link(s)
    BY DEF GoesOn, Ends
  <2> QED  BY <1>3, <2>1 DEF Names
<1> QED  BY <1>4, <1>10, <1>11, RecordStepSame

LEMMA DeliveryOutcome ==
    ASSUME TypeOK, VersionInv, NEW s \in Session, Delivering(s), NEW step,
           Delivered(s) \/ Undelivered(s) \/ Continue(s, step)
    PROVE  /\ \A t \in Session : t # s => /\ session'[t] = session[t]
                                          /\ publishing'[t] = publishing[t]
                                          /\ outbox'[t] = outbox[t]
                                          /\ delivery'[t] = delivery[t]
           /\ Delivered(s) \/ Undelivered(s) =>
                /\ publishing'[s] = None
                /\ session'[s].source = session[s].source
                /\ session'[s].hop = session[s].hop
                /\ Opened(s)'
                /\ delivery'[s] = "read"
                /\ outbox'[s] \in {None, Link(s)}
                /\ Undelivered(s) => outbox'[s] = Link(s)
           /\ Continue(s, step) => /\ publishing'[s] = publishing[s]
                                   /\ session'[s] = session[s]
                                   /\ outbox'[s] = outbox[s]
                                   /\ delivery'[s] = step
<1>1. session[s] \in SessionRow
  BY Types
<1>2. CASE At(s, "deliver") /\ (Delivered(s) \/ Undelivered(s))
  <2>1. PICK owed \in {None, Link(s)} : Commit(s, owed) /\ (Undelivered(s) => owed = Link(s))
    BY <1>2 DEF Delivered, Undelivered
  <2>2. /\ publishing' = [publishing EXCEPT ![s] = None]
        /\ delivery' = [delivery EXCEPT ![s] = "read"]
        /\ outbox' = [outbox EXCEPT ![s] = owed]
        /\ session' = [session EXCEPT ![s].status = "published",
                                      ![s].successor = publishing[s].successor]
    BY <2>1 DEF Commit, Abort
  <2>3. /\ session'[s] = [session[s] EXCEPT !.status = "published",
                                            !.successor = publishing[s].successor]
        /\ \A t \in Session : t # s => session'[t] = session[t]
    BY <2>2, Types
  <2>4. /\ session'[s].source = session[s].source
        /\ session'[s].hop = session[s].hop
        /\ session'[s].status = "published"
    BY <1>1, <2>3 DEF SessionRow
  <2>5. ~Continue(s, step) \/ publishing[s] = None
    BY <2>2, Types DEF Continue
  <2> QED  BY <1>2, <2>1, <2>2, <2>3, <2>4, <2>5, Types DEF Opened, At
<1>3. CASE ~At(s, "deliver") /\ (Delivered(s) \/ Undelivered(s))
  <2>1. outbox[s] # None /\ Link(s) = outbox[s]
    BY <1>3 DEF Delivering, Link
  <2>2. IsPublished(s) /\ publishing[s] = None
    BY <2>1 DEF VersionInv, SessionInv, IsPublished
  <2>3. /\ UNCHANGED <<session, publishing>>
        /\ delivery' = [delivery EXCEPT ![s] = "read"]
        /\ outbox' = [outbox EXCEPT ![s] = None] \/ outbox' = outbox
        /\ Undelivered(s) => outbox' = outbox
    BY <1>3 DEF Delivered, Undelivered
  <2>4. /\ \A t \in Session : t # s => outbox'[t] = outbox[t] /\ delivery'[t] = delivery[t]
        /\ delivery'[s] = "read"
        /\ outbox'[s] \in {None, outbox[s]}
    BY <2>3, Types
  <2>5. Continue(s, step) => delivery'[s] = step /\ outbox'[s] = outbox[s]
    BY Types DEF Continue
  <2> QED  BY <2>1, <2>2, <2>3, <2>4, <2>5 DEF Opened, IsPublished
<1>4. CASE Continue(s, step) /\ ~Delivered(s) /\ ~Undelivered(s)
  BY <1>4, Types DEF Continue
<1> QED  BY <1>2, <1>3, <1>4

LEMMA LinkIsPresent ==
    ASSUME TypeOK, VersionInv, RecordInv, NEW s \in Session, Delivering(s)
    PROVE  Link(s) \in OwedLink /\ Link(s) # None
<1>1. Link(s).record \in Record /\ Link(s).target \in Version
  BY LinkRecordIsPresent, LinkIsOwn DEF Owns, Present
<1>2. Link(s) \in OwedLink
  <2>1. CASE At(s, "deliver")
    BY <1>1, <2>1 DEF Link, OwedLink
  <2>2. CASE ~At(s, "deliver")
    BY <2>2, Types DEF Link, Delivering, Opt
  <2> QED  BY <2>1, <2>2
<1> QED  BY <1>2, RowAssumption

LEMMA ReadRecords ==
    ASSUME TypeOK, VersionInv, RecordInv, NEW s \in Session, ReadRecord(s)
    PROVE  RecordInv'
<1> DEFINE seen == record[Link(s).record]
<1>1. Delivering(s) /\ UNCHANGED <<record, reservation, pinned, recorded, late>>
  BY DEF ReadRecord, remote
<1>2. RecordsKept /\ \A t \in Session : Undisturbed(t)
  BY <1>1, SameRecords
<1>3. RecordOf(s)' = RecordOf(s)
  BY <1>1 DEF RecordOf
<1>4. PICK step \in {"link", "review", "show"} :
        \/ Delivered(s) /\ seen.status = "published"
        \/ Undelivered(s)
        \/ Continue(s, step) /\ (step # "link" => seen.target = Link(s).target)
  BY DEF ReadRecord, AfterLink
<1>5. CASE (Delivered(s) /\ seen.status = "published") \/ Undelivered(s)
  <2>1. /\ publishing'[s] = None /\ session'[s].source = session[s].source
        /\ session'[s].hop = session[s].hop /\ Opened(s)' /\ delivery'[s] = "read"
        /\ outbox'[s] \in {None, Link(s)}
        /\ Undelivered(s) => outbox'[s] = Link(s)
    BY <1>1, <1>5, DeliveryOutcome
  <2>2. CreatedInv(s)'
    BY <1>1, <1>2, <2>1, CreatedLeftAlone DEF RecordInv, Legal
  <2>3. ASSUME seen.status = "published", NEW r \in RecordOf(s), ~record[r].takenOver
        PROVE  record[r].status = "published" /\ record[r].shown # None
    <3>1. Link(s).record = r
      BY <1>1, LinkIsRecorded
    <3> QED  BY <2>3, <3>1 DEF RecordInv, CreatedInv, Faithful
  <2>4. Link(s) # None
    BY <1>1, LinkIsPresent
  <2>5. Ends(s)
    <3>1. outbox'[s] = None => seen.status = "published" \/ ~IsPublished(s)'
      BY <1>4, <1>5, <2>1, <2>4
    <3> QED  BY <1>1, <1>3, <2>1, <2>3, <3>1 DEF Ends
  <2> QED  BY <1>1, <1>2, <1>3, <1>5, <2>2, <2>5, DeliveryOutcome, DeliveryRecords
<1>6. CASE Continue(s, step) /\ (step # "link" => seen.target = Link(s).target)
  <2>1. /\ publishing'[s] = publishing[s]
        /\ session'[s] = session[s]
        /\ outbox'[s] = outbox[s]
        /\ delivery'[s] = step
    BY <1>1, <1>6, DeliveryOutcome
  <2>2. CreatedInv(s)'
    BY <1>1, <1>2, <2>1, CreatedLeftAlone DEF RecordInv, Legal, Opened
  <2>3. Link(s).target # None
    BY <1>1, LinkIsOwn, NoneAssumption DEF Owns, Present
  <2>4. GoesOn(s)
    BY <1>1, <1>6, <2>1, <2>3 DEF GoesOn
  <2> QED  BY <1>1, <1>2, <1>3, <1>6, <2>2, <2>4, DeliveryOutcome, DeliveryRecords
<1> QED  BY <1>4, <1>5, <1>6

\* The rows that appending a revision and publishing make of a record.
LEMMA AppendedRow ==
    ASSUME TypeOK, NEW r \in Record, NEW source \in Opt(Version), NEW target \in Opt(Version)
    PROVE  LET q == Appended(r, source, target)
           IN  /\ q \in RecordRow
               /\ q.source = source /\ q.target = target
               /\ q.status = record[r].status
               /\ q.quoted = record[r].quoted
               /\ q.shown = record[r].shown
               /\ q.attempt = record[r].attempt
               /\ q.takenOver = record[r].takenOver
<1>1. record[r] \in RecordRow
  BY Types
<1> QED  BY <1>1 DEF Appended, RecordRow

LEMMA ShownRow ==
    ASSUME NEW q \in RecordRow
    PROVE  /\ Shown(q) \in RecordRow
           /\ Shown(q).status = "published"
           /\ Shown(q).source = q.source /\ Shown(q).target = q.target
           /\ Shown(q).quoted = q.source /\ Shown(q).shown = q.target
           /\ Shown(q).attempt = q.attempt
           /\ Shown(q).takenOver <=> q.takenOver \/ q.target = None
<1>1. (q.takenOver \/ q.target = None) \in BOOLEAN
  OBVIOUS
<1>2. PICK b \in BOOLEAN : b = (q.takenOver \/ q.target = None)
  BY <1>1
<1>3. Shown(q) = [q EXCEPT !.status = "published", !.newer = FALSE, !.quoted = q.source,
                           !.shown = q.target, !.once = TRUE, !.takenOver = b]
  BY <1>2, Zenon DEF Shown
<1> QED  BY <1>2, <1>3 DEF RecordRow

\* One record gets another row.
LEMMA OneRow ==
    ASSUME TypeOK, NEW r \in Record, NEW q \in RecordRow, record' = [record EXCEPT ![r] = q]
    PROVE  /\ record' \in [Record -> RecordRow]
           /\ record'[r] = q
           /\ \A p \in Record : p # r => record'[p] = record[p]
BY Types

LEMMA OneRowKept ==
    ASSUME TypeOK, NEW r \in Record, NEW q \in RecordRow, record' = [record EXCEPT ![r] = q],
           record[r].status # "absent", q.status # "absent", q.attempt = record[r].attempt,
           record[r].target # None => q.target # None
    PROVE  /\ RecordsKept
           /\ \A p \in Record : record[p].status = "absent" => record'[p] = record[p]
           /\ \A p \in Record : record'[p].attempt = record[p].attempt
           /\ \A p \in Record : p # r => record'[p] = record[p]
           /\ \A t \in Session : (t # record[r].attempt \/ record'[r].takenOver \/ Stays(r))
                => Undisturbed(t)
<1>1. /\ record' \in [Record -> RecordRow]
      /\ record'[r] = q
      /\ \A p \in Record : p # r => record'[p] = record[p]
  BY OneRow
<1>2. RecordsKept /\ \A p \in Record : record'[p].attempt = record[p].attempt
  BY <1>1 DEF RecordsKept
<1>3. \A p \in Record : p # r => record'[p].takenOver \/ Stays(p)
  BY <1>1 DEF Stays
<1> QED  BY <1>1, <1>2, <1>3 DEF Undisturbed

\* What a link to the target, or the publication of the record, does to the records.
LEMMA LinkingRecord ==
    ASSUME TypeOK, VersionInv, RecordInv, NEW s \in Session, NEW r \in Record,
           NEW v, Owns(s, v), Opened(s), record[r].status # "absent",
           record[r].attempt \in {None, s}, LinkTarget(s, r, v),
           UNCHANGED <<pinned, reservation>>,
           session'[s].source = session[s].source, session'[s].hop = session[s].hop, Opened(s)'
    PROVE  /\ RecordsKept
           /\ \A t \in Session : t # s => Undisturbed(t)
           /\ \A q \in Record : record[q].status = "absent" => record'[q] = record[q]
           /\ \A q \in Record : record'[q].attempt = record[q].attempt
           /\ \A q \in Record : /\ record'[q].status = record[q].status
                                /\ record'[q].shown = record[q].shown
                                /\ record'[q].takenOver = record[q].takenOver
           /\ record'[r].target = v /\ v # None
           /\ CreatedInv(s)'
<1>1. v \in Version /\ v # None /\ (s \in Structured => reservation[s] # None
                                                        /\ reservation[s].version = v)
  BY NoneAssumption DEF Owns, Present
<1>2. session[s].source \in Opt(Version) /\ v \in Opt(Version)
  BY <1>1, Types DEF SessionRow, Opt
<1>3. PICK q : q = Appended(r, session[s].source, v)
  OBVIOUS
<1>4. /\ q \in RecordRow
      /\ q.source = session[s].source /\ q.target = v
      /\ q.status = record[r].status
      /\ q.shown = record[r].shown
      /\ q.quoted = record[r].quoted
      /\ q.attempt = record[r].attempt
      /\ q.takenOver = record[r].takenOver
  BY <1>2, <1>3, AppendedRow
<1>5. record' = [record EXCEPT ![r] = q]
  BY <1>3 DEF LinkTarget
<1>6. record'[r] = q
  BY <1>4, <1>5, OneRow
<1>7. /\ RecordsKept
      /\ \A p \in Record : record[p].status = "absent" => record'[p] = record[p]
      /\ \A p \in Record : record'[p].attempt = record[p].attempt
      /\ \A p \in Record : p # r => record'[p] = record[p]
      /\ \A t \in Session : t # record[r].attempt => Undisturbed(t)
  BY <1>1, <1>4, <1>5, OneRowKept
<1>8. \A t \in Session : t # s => Undisturbed(t)
  BY <1>7, SessionAssumption, NoneAssumption
<1>9. CreatedInv(s)'
  <2> SUFFICES ASSUME NEW p \in Record, s \in Structured, record'[p].attempt = s
               PROVE  /\ Opened(s)' /\ Legal(s)'
                      /\ pinned'[s] = [set |-> TRUE, payload |-> None]
                      /\ ~record'[p].takenOver => Faithful(s, p)'
    BY DEF CreatedInv, RecordOf
  <2>1. record[p].attempt = s
    BY <1>7
  <2>2. /\ Legal(s)
        /\ pinned[s] = [set |-> TRUE, payload |-> None]
        /\ ~record[p].takenOver => Faithful(s, p)
    BY <2>1 DEF RecordInv, CreatedInv, RecordOf
  <2>3. CASE p = r
    <3>1. ~record[r].takenOver => Faithful(s, r)'
      BY <1>1, <1>4, <1>6, <2>2, <2>3 DEF Faithful
    <3> QED  BY <1>4, <1>6, <2>2, <2>3, <3>1 DEF Legal
  <2>4. CASE p # r
    BY <1>7, <2>2, <2>4 DEF Legal, Faithful
  <2> QED  BY <2>3, <2>4
<1> QED  BY <1>1, <1>4, <1>6, <1>7, <1>8, <1>9

LEMMA ShowingRecord ==
    ASSUME TypeOK, NEW r \in Record, record[r].status # "absent", ShowRecord(r)
    PROVE  /\ RecordsKept
           /\ \A t \in Session : Undisturbed(t)
           /\ \A q \in Record : record[q].status = "absent" => record'[q] = record[q]
           /\ \A q \in Record : record'[q].attempt = record[q].attempt
           /\ \A q \in Record : q # r => record'[q] = record[q]
           /\ record'[r].status = "published" /\ record'[r].shown = record[r].target
<1>1. record[r] \in RecordRow
  BY Types
<1>2. PICK q : q = Shown(record[r])
  OBVIOUS
<1>3. /\ q \in RecordRow
      /\ q.status = "published"
      /\ q.source = record[r].source /\ q.target = record[r].target
      /\ q.quoted = record[r].source /\ q.shown = record[r].target
      /\ q.attempt = record[r].attempt
      /\ q.takenOver <=> record[r].takenOver \/ record[r].target = None
  BY <1>1, <1>2, ShownRow
<1>4. record' = [record EXCEPT ![r] = q]
  BY <1>1, <1>2, Types DEF ShowRecord
<1>5. record'[r] = q
  BY <1>3, <1>4, OneRow
<1>6. record'[r].takenOver \/ Stays(r)
  BY <1>3, <1>5 DEF Stays
<1> QED  BY <1>3, <1>4, <1>5, <1>6, OneRowKept

LEMMA SetTargetRecords ==
    ASSUME TypeOK, VersionInv, RecordInv, NEW s \in Session, SetTarget(s)
    PROVE  RecordInv'
<1>1. Delivering(s) /\ UNCHANGED <<reservation, pinned, recorded, late>>
  BY DEF SetTarget
<1>2. PICK r \in Record : r = Link(s).record
  BY <1>1, LinkRecordIsPresent
<1>3. PICK v : v = Link(s).target
  OBVIOUS
<1>4. /\ record[r].status # "absent" /\ record[r].attempt \in {None, s}
      /\ Owns(s, v) /\ Opened(s)
  BY <1>1, <1>2, <1>3, LinkRecordIsPresent, LinkIsOwn
<1>5. CASE LinkTarget(s, r, v) /\ Continue(s, AfterLink(s))
  <2>1. /\ publishing'[s] = publishing[s]
        /\ session'[s] = session[s]
        /\ outbox'[s] = outbox[s]
        /\ delivery'[s] \in {"review", "show"}
    BY <1>1, <1>5, DeliveryOutcome DEF AfterLink
  <2>2. Opened(s)'
    BY <1>4, <2>1 DEF Opened
  <2>3. /\ RecordsKept
        /\ \A t \in Session : t # s => Undisturbed(t)
        /\ \A q \in Record : record[q].status = "absent" => record'[q] = record[q]
        /\ \A q \in Record : record'[q].attempt = record[q].attempt
        /\ record'[r].target = v /\ v # None
        /\ CreatedInv(s)'
    BY <1>1, <1>4, <1>5, <2>1, <2>2, LinkingRecord
  <2>4. GoesOn(s)
    BY <1>2, <2>1, <2>3 DEF GoesOn
  <2>5. RecordOf(s)' = RecordOf(s)
    BY <2>3 DEF RecordOf
  <2> QED  BY <1>1, <1>5, <2>3, <2>4, <2>5, DeliveryOutcome, DeliveryRecords
<1>6. CASE Undelivered(s) /\ UNCHANGED record
  <2>1. RecordsKept /\ \A t \in Session : Undisturbed(t)
    BY <1>6, SameRecords
  <2>2. RecordOf(s)' = RecordOf(s)
    BY <1>6 DEF RecordOf
  <2>3. /\ publishing'[s] = None /\ session'[s].source = session[s].source
        /\ session'[s].hop = session[s].hop /\ Opened(s)' /\ delivery'[s] = "read"
        /\ outbox'[s] = Link(s)
    BY <1>1, <1>6, DeliveryOutcome
  <2>4. CreatedInv(s)'
    BY <1>1, <2>1, <2>3, CreatedLeftAlone DEF RecordInv, Legal
  <2>5. Link(s) # None
    BY <1>1, LinkIsPresent
  <2>6. Ends(s)
    BY <2>3, <2>5 DEF Ends
  <2> QED  BY <1>1, <1>6, <2>1, <2>2, <2>4, <2>6, DeliveryOutcome, DeliveryRecords
<1> QED  BY <1>2, <1>3, <1>5, <1>6 DEF SetTarget

\* The decisions of the session become the record's: its pins and its status stay.
LEMMA TransferRecords ==
    ASSUME TypeOK, VersionInv, RecordInv, NEW s \in Session, TransferReview(s)
    PROVE  RecordInv'
<1>1. /\ Delivering(s) /\ delivery[s] = "review"
      /\ UNCHANGED <<reservation, pinned, recorded, late>>
  BY DEF TransferReview
<1>2. PICK r \in Record : r = Link(s).record /\ record[r].status # "absent"
  BY <1>1, LinkRecordIsPresent
<1>3. s \in Structured => record[r].target # None
  BY <1>1, <1>2 DEF RecordInv, LinkInv
<1>4. ASSUME NEW b \in BOOLEAN, record' = [record EXCEPT ![r].decided = b], Continue(s, "show")
      PROVE  RecordInv'
  <2>1. PICK q : q = [record[r] EXCEPT !.decided = b]
    OBVIOUS
  <2>2. record[r] \in RecordRow
    BY Types
  <2>3. /\ q \in RecordRow
        /\ q.status = record[r].status
        /\ q.source = record[r].source /\ q.target = record[r].target
        /\ q.quoted = record[r].quoted /\ q.shown = record[r].shown
        /\ q.attempt = record[r].attempt /\ q.takenOver = record[r].takenOver
    BY <2>1, <2>2 DEF RecordRow
  <2>4. record' = [record EXCEPT ![r] = q]
    BY <1>4, <2>1, Types
  <2>5. record'[r] = q
    BY <2>3, <2>4, OneRow
  <2>6. record'[r].takenOver \/ Stays(r)
    BY <2>3, <2>5 DEF Stays
  <2>7. /\ RecordsKept
        /\ \A p \in Record : record[p].status = "absent" => record'[p] = record[p]
        /\ \A p \in Record : record'[p].attempt = record[p].attempt
        /\ \A t \in Session : Undisturbed(t)
    BY <1>2, <2>3, <2>4, <2>6, OneRowKept
  <2>8. /\ publishing'[s] = publishing[s]
        /\ session'[s] = session[s]
        /\ outbox'[s] = outbox[s]
        /\ delivery'[s] = "show"
    BY <1>1, <1>4, DeliveryOutcome
  <2>9. CreatedInv(s)'
    BY <1>1, <2>7, <2>8, CreatedLeftAlone DEF RecordInv, Legal, Opened
  <2>10. GoesOn(s)
    BY <1>2, <1>3, <2>3, <2>5, <2>8 DEF GoesOn
  <2>11. RecordOf(s)' = RecordOf(s)
    BY <2>7 DEF RecordOf
  <2> QED  BY <1>1, <1>4, <2>7, <2>9, <2>10, <2>11, DeliveryOutcome, DeliveryRecords
<1>5. CASE Undelivered(s) /\ UNCHANGED record
  <2>1. RecordsKept /\ \A t \in Session : Undisturbed(t)
    BY <1>5, SameRecords
  <2>2. RecordOf(s)' = RecordOf(s)
    BY <1>5 DEF RecordOf
  <2>3. /\ publishing'[s] = None /\ session'[s].source = session[s].source
        /\ session'[s].hop = session[s].hop /\ Opened(s)' /\ delivery'[s] = "read"
        /\ outbox'[s] = Link(s)
    BY <1>1, <1>5, DeliveryOutcome
  <2>4. CreatedInv(s)'
    BY <1>1, <2>1, <2>3, CreatedLeftAlone DEF RecordInv, Legal
  <2>5. Link(s) # None
    BY <1>1, LinkIsPresent
  <2>6. Ends(s)
    BY <2>3, <2>5 DEF Ends
  <2> QED  BY <1>1, <1>5, <2>1, <2>2, <2>4, <2>6, DeliveryOutcome, DeliveryRecords
<1> QED  BY <1>2, <1>4, <1>5 DEF TransferReview

LEMMA PublishRecords ==
    ASSUME TypeOK, VersionInv, RecordInv, NEW s \in Session, PublishRecord(s)
    PROVE  RecordInv'
<1>1. Delivering(s) /\ UNCHANGED <<reservation, pinned, recorded, late>> /\ delivery[s] = "show"
  BY DEF PublishRecord
<1>2. PICK r \in Record : r = Link(s).record
  BY <1>1, LinkRecordIsPresent
<1>3. /\ record[r].status # "absent" /\ record[r].attempt \in {None, s}
      /\ s \in Structured => record[r].target # None
  BY <1>1, <1>2, LinkRecordIsPresent DEF RecordInv, LinkInv
<1>4. ASSUME Delivered(s) \/ Undelivered(s)
      PROVE  /\ publishing'[s] = None /\ session'[s].source = session[s].source
             /\ session'[s].hop = session[s].hop /\ Opened(s)' /\ delivery'[s] = "read"
             /\ outbox'[s] \in {None, Link(s)}
             /\ Undelivered(s) => outbox'[s] = Link(s)
  BY <1>1, <1>4, DeliveryOutcome
<1>5. CASE ShowRecord(r) /\ Delivered(s)
  <2>1. /\ RecordsKept
        /\ \A t \in Session : Undisturbed(t)
        /\ \A q \in Record : record[q].status = "absent" => record'[q] = record[q]
        /\ \A q \in Record : record'[q].attempt = record[q].attempt
        /\ record'[r].status = "published" /\ record'[r].shown = record[r].target
    BY <1>3, <1>5, ShowingRecord
  <2>2. RecordOf(s)' = RecordOf(s)
    BY <2>1 DEF RecordOf
  <2>3. \A q \in RecordOf(s) : q = r /\ s \in Structured
    BY <1>1, <1>2, LinkIsRecorded DEF RecordOf
  <2>4. Ends(s)
    BY <1>3, <1>4, <1>5, <2>1, <2>2, <2>3 DEF Ends
  <2>5. CreatedInv(s)'
    BY <1>1, <1>4, <1>5, <2>1, CreatedLeftAlone DEF RecordInv, Legal
  <2> QED  BY <1>1, <1>5, <2>1, <2>2, <2>4, <2>5, DeliveryOutcome, DeliveryRecords
<1>6. CASE Undelivered(s) /\ UNCHANGED record
  <2>1. RecordsKept /\ \A t \in Session : Undisturbed(t)
    BY <1>6, SameRecords
  <2>2. RecordOf(s)' = RecordOf(s)
    BY <1>6 DEF RecordOf
  <2>3. CreatedInv(s)'
    BY <1>1, <1>4, <1>6, <2>1, CreatedLeftAlone DEF RecordInv, Legal
  <2>4. Link(s) # None
    BY <1>1, LinkIsPresent
  <2>5. Ends(s)
    BY <1>4, <1>6, <2>4 DEF Ends
  <2> QED  BY <1>1, <1>6, <2>1, <2>2, <2>3, <2>5, DeliveryOutcome, DeliveryRecords
<1> QED  BY <1>2, <1>5, <1>6 DEF PublishRecord

\* A correction has no link to deliver.
LEMMA RefreshRecords ==
    ASSUME TypeOK, VersionInv, RecordInv, NEW s \in Session, Refresh(s)
    PROVE  RecordInv'
<1>1. /\ At(s, "deliver") /\ ~Legal(s)
      /\ UNCHANGED <<record, reservation, pinned, recorded, late>>
      /\ publishing' = [publishing EXCEPT ![s] = None]
      /\ delivery' = [delivery EXCEPT ![s] = "read"]
      /\ outbox' = [outbox EXCEPT ![s] = None]
      /\ session' = [session EXCEPT ![s].status = "published",
                                    ![s].successor = publishing[s].successor]
  BY DEF Refresh, Commit, Abort, remote
<1>2. session[s] \in SessionRow
  BY Types
<1>3. /\ session'[s] = [session[s] EXCEPT !.status = "published",
                                          !.successor = publishing[s].successor]
      /\ \A t \in Session : t # s => session'[t] = session[t]
  BY <1>1, <1>2, Types
<1>4. session'[s].source = session[s].source /\ session'[s].hop = session[s].hop
      /\ session'[s].status = "published"
  BY <1>2, <1>3 DEF SessionRow
<1>5. /\ publishing'[s] = None /\ delivery'[s] = "read" /\ outbox'[s] = None
      /\ \A t \in Session : t # s => /\ publishing'[t] = publishing[t]
                                     /\ delivery'[t] = delivery[t]
                                     /\ outbox'[t] = outbox[t]
  BY <1>1, Types
<1>6. RecordsKept /\ \A t \in Session : Undisturbed(t)
  BY <1>1, SameRecords
<1>7. RecordOthers(s)
  BY <1>1, <1>3, <1>5, <1>6 DEF RecordOthers, SameRecordState
<1>8. RecordOf(s) = {} /\ RecordOf(s)' = RecordOf(s)
  BY <1>1 DEF RecordInv, CreatedInv, RecordOf
<1>9. Settled(s)'
  <2>1. CreatedInv(s)' /\ DoneInv(s)'
    BY <1>8 DEF CreatedInv, DoneInv
  <2>2. LinkInv(s)'
    BY <1>1, <1>4, <1>5 DEF RecordInv, LinkInv, Legal
  <2>3. ASSUME s \in Structured
        PROVE  PinInv(s)'
    BY <1>1, <1>4, <1>5, <1>8, <2>3 DEF RecordInv, PinInv, Legal
  <2> QED  BY <2>1, <2>2, <2>3 DEF Settled
<1>10. \A r \in Record : Names(s, r)' => Names(s, r)
  BY <1>1, <1>5 DEF Names
<1> QED  BY <1>1, <1>6, <1>7, <1>9, <1>10, RecordStepSame

LEMMA FailRecords ==
    ASSUME TypeOK, VersionInv, RecordInv, NEW s \in Session, Fail(s)
    PROVE  RecordInv'
<1>1. /\ UNCHANGED <<record, reservation, pinned, recorded>>
      /\ \A c \in late' : c \in late \/ c \in OpenCalls(s)
  BY DEF Fail, remote
<1>2. RecordsKept /\ \A t \in Session : Undisturbed(t)
  BY <1>1, SameRecords
<1>3. RecordOf(s)' = RecordOf(s)
  BY <1>1 DEF RecordOf
<1>4. CASE Delivering(s)
  <2>1. \A c \in late' : c \in late \/ c \in LinkCall(s)
    BY <1>1, <1>4 DEF OpenCalls
  <2>2. CASE Undelivered(s)
    <3>1. /\ publishing'[s] = None /\ session'[s].source = session[s].source
          /\ session'[s].hop = session[s].hop /\ Opened(s)' /\ delivery'[s] = "read"
          /\ outbox'[s] = Link(s)
      BY <1>4, <2>2, DeliveryOutcome
    <3>2. CreatedInv(s)'
      BY <1>1, <1>2, <3>1, CreatedLeftAlone DEF RecordInv, Legal
    <3>3. Ends(s)
      BY <1>4, <3>1, LinkIsPresent DEF Ends
    <3> QED  BY <1>1, <1>2, <1>3, <1>4, <2>1, <2>2, <3>2, <3>3, DeliveryOutcome, DeliveryRecords
  <2>3. CASE At(s, "deliver") /\ Abort(s) /\ UNCHANGED <<session, outbox>>
    <3>1. session[s].status = "approved" /\ outbox[s] = None
      BY <2>3 DEF At, VersionInv, SessionInv, IsPublished
    <3>2. /\ publishing'[s] = None /\ delivery'[s] = "read"
          /\ \A t \in Session : t # s => /\ publishing'[t] = publishing[t]
                                         /\ delivery'[t] = delivery[t]
      BY <2>3, AbortDelivery
    <3>3. CreatedInv(s)'
      BY <1>1, <1>2, <2>3, CreatedLeftAlone DEF RecordInv, Legal, Opened
    <3>4. Ends(s)
      BY <2>3, <3>1, <3>2 DEF Ends, IsPublished, Opened
    <3> QED  BY <1>1, <1>2, <1>3, <1>4, <2>1, <2>3, <3>2, <3>3, <3>4, DeliveryRecords
  <2> QED  BY <1>4, <2>2, <2>3 DEF Fail
<1>5. CASE ~Delivering(s)
  <2>1. Abort(s) /\ UNCHANGED <<session, outbox>> /\ publishing[s] # None
    BY <1>5 DEF Fail, Delivering
  <2>2. ~IsPublished(s)
    BY <2>1 DEF VersionInv, SessionInv, IsPublished
  <2>3. ASSUME NEW c \in OpenCalls(s)
        PROVE  LeavesEarly(s, c)
    <3>1. PICK op : /\ c = [op |-> op, session |-> s, record |-> publishing[s].record,
                            version |-> publishing[s].successor]
                    /\ \/ /\ op = "create" /\ publishing[s].phase = "record"
                          /\ publishing[s].payload = None
                       \/ op \in {"reserve", "write", "edit", "publish"}
      BY <1>5 DEF OpenCalls, Call, At
    <3>2. c.op = op /\ c.session = s /\ c.record = publishing[s].record
      BY <3>1
    <3>3. op = "create" => /\ Legal(s)
                           /\ s \in Structured => pinned[s] = [set |-> TRUE, payload |-> None]
      BY <2>1, <3>1 DEF RecordInv, LinkInv, PinInv
    <3> QED  BY <2>1, <3>1, <3>2, <3>3 DEF LeavesEarly
  <2> QED  BY <1>1, <1>5, <2>1, <2>2, <2>3, AbortDelivery, RecordMoving
<1> QED  BY <1>4, <1>5

(***************************************************************************)
(* Late calls and staff.                                                   *)
(***************************************************************************)
LEMMA LateCreate ==
    ASSUME TypeOK, VersionInv, RecordInv, NEW s \in Session, NEW c \in late,
           c.session = s, c.op = "create", CreateRecord(s), late' \subseteq late,
           UNCHANGED <<editor, row, reservation>>
    PROVE  RecordInv'
<1>u. UNCHANGED <<session, publishing, outbox, delivery, pinned, recorded, reservation>>
  BY DEF editor
<1>1. \A t \in Session : SameRecordState(t)
  BY <1>u DEF SameRecordState
<1>2. CASE record' = record
  BY <1>1, <1>2, SameRecords, RecordsIdle
<1>3. CASE CreatesNew(s, CreatedRecord(s))
  <2>1. PICK r : r = CreatedRecord(s)
    OBVIOUS
  <2>2. /\ RecordsKept
        /\ \A t \in Session : t # s => Undisturbed(t)
        /\ s \notin Structured => Undisturbed(s)
        /\ record'[r].attempt \in {None, s}
        /\ record'[r].attempt # None => s \in Structured
        /\ s \in Structured => RecordOf(s)' = {r}
    BY <1>3, <2>1, CreatesKeeps
  <2>3. /\ r \in Record /\ record[r].status = "absent" /\ record'[r].status # "absent"
        /\ RecordOf(s) = {}
        /\ \A q \in Record : q # r => record'[q] = record[q]
    BY <1>3, <2>1 DEF CreatesNew
  <2>4. /\ Legal(s) /\ Opened(s)
        /\ s \in Structured => pinned[s] = [set |-> TRUE, payload |-> None]
    BY DEF RecordInv, LinkInv, PinInv, VersionInv, LateInv
  <2>5. ASSUME s \in Structured
        PROVE  recorded[s] = None /\ ~IsPublished(s)
    <3>1. PinInv(s)
      BY <2>5 DEF RecordInv
    <3>2. pinned[s].payload = None
      BY <2>4, <2>5
    <3>3. recorded[s] # None => recorded[s] \in RecordOf(s) \cup {pinned[s].payload}
      BY <3>1 DEF PinInv
    <3>4. recorded[s] = None
      BY <2>3, <3>2, <3>3
    <3> QED  BY <2>4, <3>1, <3>4 DEF PinInv
  <2>6. ASSUME s \in Structured
        PROVE  Settled(s)'
    <3>1. CreatedInv(s)'
      BY <1>u, <1>3, <2>4, <2>6, NewRecordIsPinned
    <3>2. LinkInv(s)'
      BY <1>1, <2>2, LinkLeftAlone
    <3>3. DoneInv(s)'
      BY <1>u, <2>5, <2>6 DEF DoneInv, IsPublished
    <3>4. PinInv(s)'
      <4>1. PinInv(s)
        BY <2>6 DEF RecordInv
      <4> QED  BY <1>u, <2>5, <2>6, <4>1 DEF PinInv, Legal, IsPublished
    <3> QED  BY <3>1, <3>2, <3>3, <3>4 DEF Settled
  <2>7. ASSUME s \notin Structured
        PROVE  Settled(s)'
    BY <1>1, <2>2, <2>7, RecordsLeftAlone
  <2>8. Settled(s)'
    BY <2>6, <2>7
  <2>9. RecordOthers(s)
    BY <1>1, <2>2 DEF RecordOthers
  <2>10. \A q \in Record : Names(s, q)' => Names(s, q)
    BY <1>u DEF Names
  <2> QED  BY <2>2, <2>3, <2>8, <2>9, <2>10, RecordStep
<1> QED  BY <1>2, <1>3, CreatingRecord

LEMMA LateLink ==
    ASSUME TypeOK, VersionInv, RecordInv, NEW s \in Session, NEW c \in late,
           c.session = s, c.op = "link", LinkTarget(s, c.record, c.version),
           late' \subseteq late, UNCHANGED <<editor, row, reservation>>
    PROVE  RecordInv'
<1>u. UNCHANGED <<session, publishing, outbox, delivery, pinned, recorded, reservation>>
  BY DEF editor
<1>1. \A t \in Session : SameRecordState(t)
  BY <1>u DEF SameRecordState
<1>2. /\ c.record \in Record /\ record[c.record].status # "absent"
      /\ record[c.record].attempt \in {None, s}
  BY LinkRecordIsPresent
<1>3. Opened(s) /\ c.version \in Version /\ c.version # None
  BY NoneAssumption DEF VersionInv, LateInv
<1>4. CASE s \in Structured
  <2>1. Owns(s, c.version)
    BY <1>3, <1>4 DEF VersionInv, LateInv, ReservedInv
  <2>2. /\ RecordsKept
        /\ \A t \in Session : t # s => Undisturbed(t)
        /\ \A q \in Record : record[q].status = "absent" => record'[q] = record[q]
        /\ \A q \in Record : record'[q].attempt = record[q].attempt
        /\ \A q \in Record : /\ record'[q].status = record[q].status
                             /\ record'[q].shown = record[q].shown
                             /\ record'[q].takenOver = record[q].takenOver
        /\ CreatedInv(s)'
    BY <1>u, <1>2, <1>3, <2>1, LinkingRecord DEF Opened
  <2>3. RecordOf(s)' = RecordOf(s)
    BY <2>2 DEF RecordOf
  <2>4. LinkInv(s)'
    BY <1>1, <2>2, LinkLeftAlone
  <2>5. DoneInv(s)'
    BY <1>u, <2>2, <2>3 DEF RecordInv, DoneInv, IsPublished, RecordOf
  <2>6. PinInv(s)'
    <3>1. PinInv(s)
      BY <1>4 DEF RecordInv
    <3> QED  BY <1>u, <2>3, <3>1 DEF PinInv, Legal, IsPublished
  <2>7. Settled(s)'
    BY <2>2, <2>4, <2>5, <2>6 DEF Settled
  <2>8. RecordOthers(s)
    BY <1>1, <2>2 DEF RecordOthers
  <2>9. \A q \in Record : Names(s, q)' => Names(s, q)
    BY <1>u DEF Names
  <2> QED  BY <2>2, <2>7, <2>8, <2>9, RecordStepSame
<1>5. CASE s \notin Structured
  <2>1. record[c.record].attempt = None
    <3>1. record[c.record].attempt \in Opt(Structured)
      BY <1>2, Types DEF RecordRow
    <3> QED  BY <1>2, <1>5, <3>1 DEF Opt
  <2>2. PICK q : q = Appended(c.record, session[s].source, c.version)
    OBVIOUS
  <2>3. /\ q \in RecordRow /\ q.target = c.version
        /\ q.status = record[c.record].status
        /\ q.attempt = record[c.record].attempt
    <3>1. session[s].source \in Opt(Version) /\ c.version \in Opt(Version)
      BY <1>3, Types DEF SessionRow, Opt
    <3> QED  BY <1>2, <2>2, <3>1, AppendedRow
  <2>4. record' = [record EXCEPT ![c.record] = q]
    BY <2>2 DEF LinkTarget
  <2>5. /\ RecordsKept
        /\ \A p \in Record : record[p].status = "absent" => record'[p] = record[p]
        /\ \A t \in Session : t # record[c.record].attempt => Undisturbed(t)
    BY <1>2, <1>3, <2>3, <2>4, OneRowKept
  <2>6. \A t \in Session : Undisturbed(t)
    BY <2>1, <2>5, NoneAssumption
  <2> QED  BY <1>1, <2>5, <2>6, RecordsIdle
<1> QED  BY <1>4, <1>5

LEMMA LateShow ==
    ASSUME TypeOK, VersionInv, RecordInv, NEW s \in Session, NEW c \in late,
           c.session = s, c.op = "show", ShowRecord(c.record),
           late' \subseteq late, UNCHANGED <<editor, row, reservation>>
    PROVE  RecordInv'
<1>1. \A t \in Session : SameRecordState(t)
  BY DEF editor, SameRecordState
<1>2. c.record \in Record /\ record[c.record].status # "absent"
  BY LinkRecordIsPresent
<1> QED  BY <1>1, <1>2, ShowingRecord, RecordsIdle

LEMMA LateRecords ==
    ASSUME TypeOK, VersionInv, RecordInv, NEW c \in late, CarryOut(c)
    PROVE  RecordInv'
<1>1. /\ UNCHANGED <<session, pinned, recorded, publishing, outbox, delivery>>
      /\ late' \subseteq late /\ UNCHANGED editor
  BY DEF CarryOut, editor
<1>2. PICK s \in Session : s = c.session /\ Opened(s)
  BY Types DEF LateCall, VersionInv, LateInv
<1>3. ASSUME record' = record, \A t \in Session : reservation[t] # None =>
                                    reservation'[t] = reservation[t]
      PROVE  RecordInv'
  <2>1. \A t \in Session : SameRecordState(t)
    BY <1>1, <1>3 DEF SameRecordState
  <2> QED  BY <1>1, <1>3, <2>1, SameRecords, RecordsIdle
<1>4. CASE UNCHANGED <<row, reservation, content>>
           /\ \/ c.op = "create" /\ CreateRecord(s)
              \/ c.op = "link" /\ LinkTarget(s, c.record, c.version)
              \/ c.op = "show" /\ ShowRecord(c.record)
  BY <1>1, <1>2, <1>4, LateCreate, LateLink, LateShow
<1>5. CASE CatalogAccepts(s) /\ CreateSuccessor(s) /\ UNCHANGED record
  <2>1. \A t \in Session : reservation[t] # None => reservation'[t] = reservation[t]
    <3>1. CASE UNCHANGED <<row, reservation>>
      BY <3>1
    <3>2. CASE Appends(s, Successor(s))
      BY <3>2 DEF Appends
    <3> QED  BY <1>2, <1>5, <3>1, <3>2, Creating
  <2> QED  BY <1>3, <1>5, <2>1
<1>6. CASE PublishCatalogRow(c.version) /\ UNCHANGED record
  BY <1>3, <1>6 DEF PublishCatalogRow, Catalog!PublishVersion
<1>7. CASE UNCHANGED <<row, reservation, record>>
  BY <1>3, <1>7
<1> QED  BY <1>2, <1>4, <1>5, <1>6, <1>7 DEF CarryOut, Effect, remote

\* A row that staff change by hand: withdrawn, revised, decided on, published or confirmed.
LEMMA HandRow ==
    ASSUME TypeOK, VersionInv, RecordInv, NEW r \in Record, NEW q \in RecordRow,
           record' = [record EXCEPT ![r] = q], UNCHANGED <<editor, reservation, late>>,
           record[r].status # "absent", q.status # "absent", q.attempt = record[r].attempt,
           record[r].target # None => q.target # None,
           \/ q.takenOver
           \/ /\ ~record[r].takenOver
              /\ q.source = record[r].source /\ q.target = record[r].target
              /\ \/ /\ q.status \in {record[r].status, "withdrawn"}
                    /\ q.quoted = record[r].quoted /\ q.shown = record[r].shown
                 \/ /\ q.status = "published" /\ record[r].target # None
                    /\ q.quoted = record[r].source /\ q.shown = record[r].target
    PROVE  RecordInv'
<1>1. \A t \in Session : SameRecordState(t)
  BY DEF editor, SameRecordState
<1>2. record'[r] = q
  BY OneRow
<1>3. record'[r].takenOver \/ Stays(r)
  BY <1>2 DEF Stays
<1>4. /\ RecordsKept
      /\ \A p \in Record : record[p].status = "absent" => record'[p] = record[p]
      /\ \A t \in Session : Undisturbed(t)
  BY <1>3, OneRowKept
<1> QED  BY <1>1, <1>4, RecordsIdle

LEMMA WithdrawRecords ==
    ASSUME TypeOK, VersionInv, RecordInv, NEW r \in Record, WithdrawRecord(r)
    PROVE  RecordInv'
<1>1. PICK q : q = [record[r] EXCEPT !.status = "withdrawn"]
  OBVIOUS
<1>2. record[r] \in RecordRow
  BY Types
<1>3. /\ q \in RecordRow
      /\ q.status = "withdrawn"
      /\ q.source = record[r].source /\ q.target = record[r].target
      /\ q.quoted = record[r].quoted /\ q.shown = record[r].shown
      /\ q.attempt = record[r].attempt /\ q.takenOver = record[r].takenOver
  BY <1>1, <1>2 DEF RecordRow
<1>4. /\ record' = [record EXCEPT ![r] = q] /\ record[r].status # "absent"
      /\ UNCHANGED <<editor, reservation, late>>
  BY <1>1, Types DEF WithdrawRecord
<1> QED  BY <1>3, <1>4, HandRow

LEMMA DecideRecords ==
    ASSUME TypeOK, VersionInv, RecordInv, NEW r \in Record, DecideRecord(r)
    PROVE  RecordInv'
<1>1. PICK b \in BOOLEAN : record' = [record EXCEPT ![r].decided = b]
  <2>1. (~record[r].decided) \in BOOLEAN
    OBVIOUS
  <2> QED  BY <2>1, Types DEF DecideRecord
<1>2. PICK q : q = [record[r] EXCEPT !.decided = b]
  OBVIOUS
<1>3. record[r] \in RecordRow
  BY Types
<1>4. /\ q \in RecordRow
      /\ q.status = record[r].status
      /\ q.source = record[r].source /\ q.target = record[r].target
      /\ q.quoted = record[r].quoted /\ q.shown = record[r].shown
      /\ q.attempt = record[r].attempt /\ q.takenOver = record[r].takenOver
  BY <1>2, <1>3 DEF RecordRow
<1>5. /\ record' = [record EXCEPT ![r] = q] /\ record[r].status # "absent"
      /\ UNCHANGED <<editor, reservation, late>>
  BY <1>1, <1>2, Types DEF DecideRecord, Reviewable, MayLink
<1> QED  BY <1>4, <1>5, HandRow

\* A revision by hand keeps what is public, and is the record's own only with the same pins.
LEMMA RevisedRow ==
    ASSUME TypeOK, NEW r \in Record, NEW source \in Opt(Version), NEW target \in Opt(Version),
           NEW sameRows \in BOOLEAN
    PROVE  LET q == Revised(r, source, target, sameRows)
           IN  /\ q \in RecordRow
               /\ q.source = source /\ q.target = target
               /\ q.status = record[r].status
               /\ q.quoted = record[r].quoted
               /\ q.shown = record[r].shown
               /\ q.attempt = record[r].attempt
               /\ q.takenOver <=> \/ record[r].takenOver \/ ~sameRows
                                  \/ source # record[r].source \/ target # record[r].target
<1>1. PICK p : p = Appended(r, source, target)
  OBVIOUS
<1>2. /\ p \in RecordRow
      /\ p.source = source /\ p.target = target
      /\ p.status = record[r].status
      /\ p.quoted = record[r].quoted
      /\ p.shown = record[r].shown
      /\ p.attempt = record[r].attempt
      /\ p.takenOver = record[r].takenOver
  BY <1>1, AppendedRow
<1>3. (p.takenOver \/ ~sameRows \/ source # record[r].source \/ target # record[r].target)
        \in BOOLEAN
  OBVIOUS
<1>4. PICK b \in BOOLEAN :
        b = (p.takenOver \/ ~sameRows \/ source # record[r].source \/ target # record[r].target)
  BY <1>3
<1>5. Revised(r, source, target, sameRows) = [p EXCEPT !.takenOver = b]
  BY <1>1, <1>4, Zenon DEF Revised
<1> QED  BY <1>2, <1>4, <1>5 DEF RecordRow

LEMMA ReviseRecords ==
    ASSUME TypeOK, VersionInv, RecordInv, NEW r \in Record,
           NEW source \in Opt(Version), NEW target \in Opt(Version), NEW sameRows \in BOOLEAN,
           ReviseRecord(r, source, target, sameRows)
    PROVE  RecordInv'
<1>1. PICK q : q = Revised(r, source, target, sameRows)
  OBVIOUS
<1>2. /\ q \in RecordRow
      /\ q.source = source /\ q.target = target
      /\ q.status = record[r].status
      /\ q.quoted = record[r].quoted
      /\ q.shown = record[r].shown
      /\ q.attempt = record[r].attempt
      /\ q.takenOver <=> \/ record[r].takenOver \/ ~sameRows
                         \/ source # record[r].source \/ target # record[r].target
  BY <1>1, RevisedRow
<1>3. /\ record' = [record EXCEPT ![r] = q] /\ record[r].status # "absent"
      /\ target \in Catalog!Present \cup {record[r].target}
      /\ UNCHANGED <<editor, reservation, late>>
  BY <1>1 DEF ReviseRecord
<1>4. record[r].target # None => target # None
  BY <1>3, NoneAssumption DEF Catalog!Present
<1> QED  BY <1>2, <1>3, <1>4, HandRow

LEMMA PublishedByHand ==
    ASSUME TypeOK, VersionInv, RecordInv, NEW r \in Record, PublishRecordByHand(r)
    PROVE  RecordInv'
<1>1. ShowRecord(r) /\ record[r].status # "absent" /\ UNCHANGED <<editor, reservation, late>>
  BY DEF PublishRecordByHand
<1>2. \A t \in Session : SameRecordState(t)
  BY <1>1 DEF editor, SameRecordState
<1> QED  BY <1>1, <1>2, ShowingRecord, RecordsIdle

\* The confirmed pins are pins, and none is lost.
LEMMA ConfirmedPin ==
    ASSUME TypeOK, NEW pin \in Opt(Version), NEW newest \in Opt(Version)
    PROVE  /\ Confirmed(pin, newest) \in Opt(Version)
           /\ pin # None => Confirmed(pin, newest) # None
           /\ pin = None => Confirmed(pin, newest) = newest
<1>1. CASE pin = None
  BY <1>1 DEF Confirmed
<1>2. CASE pin # None
  <2>1. PICK live : live = Catalog!FindEditorialTip(row[pin].legal, Catalog!Published)
    OBVIOUS
  <2>2. Confirmed(pin, newest) = IF live \in Catalog!Published THEN live ELSE pin
    BY <1>2, <2>1 DEF Confirmed
  <2> QED  BY <1>2, <2>2, NoneAssumption DEF Catalog!Published, Opt
<1> QED  BY <1>1, <1>2

LEMMA ConfirmedRow ==
    ASSUME TypeOK, NEW r \in Record, ConfirmQuotes(r)
    PROVE  \E q \in RecordRow :
             /\ record' = [record EXCEPT ![r] = q]
             /\ q.status = "published" /\ q.attempt = record[r].attempt
             /\ record[r].target # None => q.target # None
             /\ q.quoted = q.source /\ q.shown = q.target
             /\ q.takenOver \/ /\ ~record[r].takenOver
                               /\ q.source = record[r].source /\ q.target = record[r].target
                               /\ q.target # None
<1>1. record[r] \in RecordRow
  BY Types
<1>2. /\ record[r].quoted \in Opt(Version) /\ record[r].source \in Opt(Version)
      /\ record[r].shown \in Opt(Version) /\ record[r].target \in Opt(Version)
  BY <1>1 DEF RecordRow
<1>3. PICK source, target : /\ source = Confirmed(record[r].quoted, record[r].source)
                            /\ target = Confirmed(record[r].shown, record[r].target)
  OBVIOUS
<1>4. /\ source \in Opt(Version) /\ target \in Opt(Version)
      /\ record[r].target # None => target # None
  BY <1>2, <1>3, ConfirmedPin
<1>r. PICK same \in BOOLEAN : same = TRUE
  OBVIOUS
<1>5. PICK p : p = Revised(r, source, target, same)
  OBVIOUS
<1>6. /\ p \in RecordRow
      /\ p.source = source /\ p.target = target
      /\ p.attempt = record[r].attempt
      /\ p.takenOver <=> \/ record[r].takenOver
                         \/ source # record[r].source \/ target # record[r].target
  <2>1. /\ p \in RecordRow
        /\ p.source = source /\ p.target = target
        /\ p.attempt = record[r].attempt
    BY <1>4, <1>5, RevisedRow
  <2>2. p.takenOver <=> \/ record[r].takenOver \/ ~same
                        \/ source # record[r].source \/ target # record[r].target
    BY <1>4, <1>5, RevisedRow
  <2> QED  BY <1>r, <2>1, <2>2
<1>7. PICK q : q = Shown(p)
  OBVIOUS
<1>8. /\ q \in RecordRow
      /\ q.status = "published"
      /\ q.source = source /\ q.target = target
      /\ q.quoted = source /\ q.shown = target
      /\ q.attempt = record[r].attempt
      /\ q.takenOver <=> p.takenOver \/ target = None
  BY <1>6, <1>7, ShownRow
<1>9. record' = [record EXCEPT ![r] = q]
  BY <1>r, <1>3, <1>5, <1>7, Zenon DEF ConfirmQuotes
<1> QED  BY <1>4, <1>6, <1>8, <1>9

LEMMA ConfirmRecords ==
    ASSUME TypeOK, VersionInv, RecordInv, NEW r \in Record, ConfirmQuotes(r)
    PROVE  RecordInv'
<1>1. PICK q \in RecordRow :
        /\ record' = [record EXCEPT ![r] = q]
        /\ q.status = "published" /\ q.attempt = record[r].attempt
        /\ record[r].target # None => q.target # None
        /\ q.quoted = q.source /\ q.shown = q.target
        /\ q.takenOver \/ /\ ~record[r].takenOver
                          /\ q.source = record[r].source /\ q.target = record[r].target
                          /\ q.target # None
  BY ConfirmedRow
<1>2. UNCHANGED <<editor, reservation, late>> /\ record[r].status # "absent"
  BY DEF ConfirmQuotes
<1> QED  BY <1>1, <1>2, HandRow

LEMMA HandRecords ==
    ASSUME TypeOK, VersionInv, RecordInv, NEW v \in Version, PublishByHand(v)
    PROVE  RecordInv'
<1>1. UNCHANGED <<record, reservation, session, pinned, recorded, publishing, outbox, delivery,
                  late>>
  BY DEF PublishByHand, PublishCatalogRow, Catalog!PublishVersion, editor
<1>2. \A t \in Session : SameRecordState(t)
  BY <1>1 DEF SameRecordState
<1> QED  BY <1>1, <1>2, SameRecords, RecordsIdle

LEMMA DecisionRecords ==
    ASSUME TypeOK, VersionInv, RecordInv, NEW s \in Structured, DecideFinding(s)
    PROVE  RecordInv'
<1>1. UNCHANGED <<record, reservation, session, pinned, recorded, publishing, outbox, delivery,
                  late>>
  BY DEF DecideFinding, remote
<1>2. \A t \in Session : SameRecordState(t)
  BY <1>1 DEF SameRecordState
<1> QED  BY <1>1, <1>2, SameRecords, RecordsIdle

LEMMA ByHandRecords ==
    ASSUME TypeOK, VersionInv, RecordInv, ByHand
    PROVE  RecordInv'
<1>1. CASE \E r \in Record : DecideRecord(r) \/ PublishRecordByHand(r) \/ ConfirmQuotes(r)
  BY <1>1, DecideRecords, PublishedByHand, ConfirmRecords
<1>2. CASE \E r \in Record, source, target \in Opt(Version), sameRows \in BOOLEAN :
             ReviseRecord(r, source, target, sameRows)
  BY <1>2, ReviseRecords
<1> QED  BY <1>1, <1>2 DEF ByHand

(***************************************************************************)
(* The invariant holds.                                                    *)
(***************************************************************************)
LEMMA InitInvariant == Init => IInv
<1> SUFFICES ASSUME Init PROVE IInv
  OBVIOUS
<1>1. TypeOK
  <2>1. row \in [Version -> Catalog!Row]
    <3>1. [status |-> "published", constitution |-> Constitution, label |-> BaseLabel,
           hop |-> "initial", pred |-> None, legal |-> Base, evidence |-> None,
           settings |-> Settings, hold |-> None] \in Catalog!Row
      BY BaseAssumption, LabelAssumption
         DEF Catalog!Row, Catalog!Status, Catalog!Hop, Catalog!Opt
    <3>2. Catalog!AbsentRow \in Catalog!Row
      BY DEF Catalog!AbsentRow, Catalog!Row, Catalog!Status, Catalog!Hop, Catalog!Opt
    <3> QED  BY <3>1, <3>2 DEF Init
  <2>2. record \in [Record -> RecordRow]
    <3>1. NoRecord \in RecordRow
      BY DEF NoRecord, RecordRow, Opt
    <3>2. \A x \in BOOLEAN : [NoRecord EXCEPT !.status = "draft", !.source = StaffSource,
                                              !.exact = x] \in RecordRow
      BY RecordAssumption, BaseAssumption DEF NoRecord, RecordRow, Opt
    <3>3. (StaffSource # None) \in BOOLEAN
      OBVIOUS
    <3>4. [NoRecord EXCEPT !.status = "draft", !.source = StaffSource,
                           !.exact = StaffSource # None] \in RecordRow
      BY <3>2, <3>3, Zenon
    <3> QED  BY <3>1, <3>4 DEF Init
  <2>3. session \in [Session -> SessionRow]
    BY DEF Init, NoSession, SessionRow, Opt
  <2>4. pinned \in [Structured -> Pin]
    <3>1. [set |-> FALSE, payload |-> None] \in Pin
      BY DEF Pin, Payload, Opt
    <3> QED  BY <3>1 DEF Init
  <2>5. /\ reservation \in [Session -> Catalog!Opt(Catalog!Reservation)]
        /\ content \in [Version -> {"empty", "copied", "edited", "sealed"}]
        /\ recorded \in [Structured -> Opt(Record)]
        /\ publishing \in [Session -> Opt(Transaction)]
        /\ outbox \in [Session -> Opt(OwedLink)]
        /\ delivery \in [Session -> {"read", "link", "review", "show"}]
        /\ late \in SUBSET LateCall
        /\ failures \in 0..MaxFailures
        /\ revisions \in 0..MaxRevisions
        /\ reviewed \in [Structured -> BOOLEAN]
    BY FailureAssumption DEF Init, Opt, Catalog!Opt
  <2> QED  BY <2>1, <2>2, <2>3, <2>4, <2>5, TypesBack
<1>2. VersionInv
  <2>1. /\ \A s \in Session : /\ publishing[s] = None /\ reservation[s] = None
                              /\ outbox[s] = None /\ session[s].status = "none"
                              /\ session[s].successor = None
        /\ late = {}
    BY DEF Init, NoSession
  <2>2. UsesInv /\ Apart
    BY <2>1, NoneAssumption DEF UsesInv, Apart, Uses
  <2>3. ContentInv
    BY DEF Init, ContentInv, Present
  <2>4. ASSUME NEW s \in Session
        PROVE  SessionInv(s) /\ StepInv(s) /\ ReservedInv(s) /\ LateInv(s)
    BY <2>1 DEF SessionInv, StepInv, ReservedInv, LateInv, Opened, IsPublished
  <2> QED  BY <2>2, <2>3, <2>4 DEF VersionInv
<1>3. RecordInv
  <2>1. /\ \A s \in Session : /\ publishing[s] = None /\ outbox[s] = None
                              /\ session[s].status = "none" /\ delivery[s] = "read"
        /\ late = {}
        /\ \A s \in Structured : /\ recorded[s] = None
                                 /\ pinned[s] = [set |-> FALSE, payload |-> None]
    BY DEF Init, NoSession
  <2>2. \A r \in Record : /\ record[r].attempt = None
                          /\ r \in StaffRecord => record[r].status # "absent"
    BY DEF Init, NoRecord
  <2>3. NamesInv
    BY <2>1, NoneAssumption DEF NamesInv, Names
  <2>4. RowInv /\ OneRecord
    BY <2>2 DEF RowInv, OneRecord
  <2>5. \A s \in Session : RecordOf(s) = {}
    BY <2>2, NoneAssumption DEF RecordOf
  <2>6. ASSUME NEW s \in Session
        PROVE  CreatedInv(s) /\ LinkInv(s) /\ DoneInv(s)
    BY <2>1, <2>5 DEF CreatedInv, LinkInv, DoneInv
  <2>7. ASSUME NEW s \in Structured
        PROVE  PinInv(s)
    BY <2>1, SessionAssumption DEF PinInv, IsPublished
  <2> QED  BY <2>3, <2>4, <2>6, <2>7 DEF RecordInv
<1> QED  BY <1>1, <1>2, <1>3 DEF IInv

(***************************************************************************)
(* Every step keeps the two halves of the invariant.                       *)
(***************************************************************************)
LEMMA StepKeepsVersions ==
    ASSUME TypeOK, VersionInv, [Next]_vars
    PROVE  VersionInv'
<1>1. CASE \E s \in Session, source \in Version, hop \in Hops : OpenSession(s, source, hop)
  BY <1>1, OpenVersions
<1>2. CASE \E s \in Session, payload \in Payload : BeginPublish(s, payload)
  BY <1>2, BeginVersions
<1>3. ASSUME NEW s \in Session, Step(s)
      PROVE  VersionInv'
  <2>1. CASE CheckSource(s)
    BY <2>1, SourceVersions
  <2>2. CASE ResolveRecord(s)
    BY <2>2, RecordVersions
  <2>3. CASE Reserve(s)
    BY <2>3, ReserveVersions
  <2>4. CASE Write(s, "write") \/ Write(s, "edit")
    BY <2>4, WriteVersions
  <2>5. CASE PublishVersion(s)
    BY <2>5, PublishVersions
  <2>6. CASE Refresh(s) \/ Completes(s)
    BY <2>6, DeliveryVersions
  <2> QED  BY <1>3, <2>1, <2>2, <2>3, <2>4, <2>5, <2>6 DEF Step, Completes
<1>4. CASE \E s \in Session : Fail(s)
  BY <1>4, FailVersions
<1>5. CASE \E c \in late : CarryOut(c)
  BY <1>5, LateVersions
<1>6. CASE \/ \E s \in Structured : DecideFinding(s)
           \/ \E r \in Record : WithdrawRecord(r)
           \/ \E v \in Version : PublishByHand(v)
           \/ ByHand
  BY <1>6, StaffVersions
<1>7. CASE UNCHANGED vars
  <2>1. UNCHANGED <<row, reservation, content, session, publishing, outbox, late>>
    BY <1>7 DEF vars, editor
  <2> QED  BY <2>1, SameKeepsRows, VersionsIdle
<1> QED  BY <1>1, <1>2, <1>3, <1>4, <1>5, <1>6, <1>7 DEF Next, Begin, Others

LEMMA StepKeepsRecords ==
    ASSUME TypeOK, VersionInv, RecordInv, [Next]_vars
    PROVE  RecordInv'
<1>1. CASE \E s \in Session, source \in Version, hop \in Hops : OpenSession(s, source, hop)
  BY <1>1, OpenRecords
<1>2. CASE \E s \in Session, payload \in Payload : BeginPublish(s, payload)
  BY <1>2, BeginRecords
<1>3. ASSUME NEW s \in Session, Step(s)
      PROVE  RecordInv'
  <2>1. CASE \/ CheckSource(s) \/ Reserve(s) \/ PublishVersion(s)
             \/ Write(s, "write") \/ Write(s, "edit")
    BY <2>1, EarlyRecords
  <2>2. CASE ResolveRecord(s)
    BY <2>2, ResolveRecords
  <2>3. CASE Refresh(s)
    BY <2>3, RefreshRecords
  <2>4. CASE ReadRecord(s)
    BY <2>4, ReadRecords
  <2>5. CASE SetTarget(s)
    BY <2>5, SetTargetRecords
  <2>6. CASE TransferReview(s)
    BY <2>6, TransferRecords
  <2>7. CASE PublishRecord(s)
    BY <2>7, PublishRecords
  <2> QED  BY <1>3, <2>1, <2>2, <2>3, <2>4, <2>5, <2>6, <2>7 DEF Step
<1>4. CASE \E s \in Session : Fail(s)
  BY <1>4, FailRecords
<1>5. CASE \E c \in late : CarryOut(c)
  BY <1>5, LateRecords
<1>6. CASE \E r \in Record : WithdrawRecord(r)
  BY <1>6, WithdrawRecords
<1>7. CASE \E v \in Version : PublishByHand(v)
  BY <1>7, HandRecords
<1>8. CASE UNCHANGED vars
  <2>1. UNCHANGED <<record, reservation, session, pinned, recorded, publishing, outbox,
                    delivery, late>>
    BY <1>8 DEF vars, editor
  <2>2. \A t \in Session : SameRecordState(t)
    BY <2>1 DEF SameRecordState
  <2> QED  BY <2>1, <2>2, SameRecords, RecordsIdle
<1>9. CASE \E s \in Structured : DecideFinding(s)
  BY <1>9, DecisionRecords
<1>10. CASE ByHand
  BY <1>10, ByHandRecords
<1> QED
  BY <1>1, <1>2, <1>3, <1>4, <1>5, <1>6, <1>7, <1>8, <1>9, <1>10 DEF Next, Begin, Others

(***************************************************************************)
(* Every step keeps the types.                                             *)
(***************************************************************************)
LEMMA NewTransactionType ==
    \A payload \in Payload, reserved \in BOOLEAN :
        [phase |-> "source", payload |-> payload, reserved |-> reserved, record |-> None,
         successor |-> None] \in Transaction
BY DEF Transaction, Phases, Opt

LEMMA AdvanceType ==
    ASSUME TypeOK, NEW s \in Session, publishing[s] # None, NEW phase \in Phases,
           Advance(s, phase)
    PROVE  publishing' \in [Session -> Opt(Transaction)]
<1>1. [publishing[s] EXCEPT !.phase = phase] \in Transaction
  BY PublishingOne DEF Transaction
<1> QED  BY <1>1, Types DEF Advance, Opt

LEMMA AbortType ==
    ASSUME TypeOK, NEW s \in Session, Abort(s)
    PROVE  /\ publishing' \in [Session -> Opt(Transaction)]
           /\ delivery' \in [Session -> {"read", "link", "review", "show"}]
BY Types DEF Abort, Opt

LEMMA CommitType ==
    ASSUME TypeOK, NEW s \in Session, At(s, "deliver"), NEW owed \in Opt(OwedLink),
           Commit(s, owed)
    PROVE  /\ session' \in [Session -> SessionRow]
           /\ outbox' \in [Session -> Opt(OwedLink)]
           /\ publishing' \in [Session -> Opt(Transaction)]
           /\ delivery' \in [Session -> {"read", "link", "review", "show"}]
<1>1. publishing[s].successor \in Opt(Version) /\ session[s] \in SessionRow
  BY PublishingOne, Types DEF At, Transaction
<1>2. [session[s] EXCEPT !.status = "published", !.successor = publishing[s].successor]
        \in SessionRow
  BY <1>1 DEF SessionRow
<1>3. /\ publishing' = [publishing EXCEPT ![s] = None]
      /\ outbox' = [outbox EXCEPT ![s] = owed]
      /\ session' = [session EXCEPT ![s].status = "published",
                                    ![s].successor = publishing[s].successor]
  BY DEF Commit, Abort
<1>4. /\ session'[s] = [session[s] EXCEPT !.status = "published",
                                          !.successor = publishing[s].successor]
      /\ \A t \in Session : t # s => session'[t] = session[t]
  BY <1>3, Types
<1>5. session' \in [Session -> SessionRow]
  BY <1>2, <1>3, <1>4, Types
<1>6. outbox' \in [Session -> Opt(OwedLink)]
  BY <1>3, Types
<1> QED  BY <1>5, <1>6, AbortType DEF Commit

LEMMA DeliveryTypes ==
    ASSUME TypeOK, VersionInv, RecordInv, NEW s \in Session, Delivering(s),
           NEW step \in {"read", "link", "review", "show"},
           Delivered(s) \/ Undelivered(s) \/ Continue(s, step)
    PROVE  /\ session' \in [Session -> SessionRow]
           /\ outbox' \in [Session -> Opt(OwedLink)]
           /\ publishing' \in [Session -> Opt(Transaction)]
           /\ delivery' \in [Session -> {"read", "link", "review", "show"}]
<1>1. CASE At(s, "deliver") /\ (Delivered(s) \/ Undelivered(s))
  <2>1. PICK owed \in {None, Link(s)} : Commit(s, owed)
    BY <1>1 DEF Delivered, Undelivered
  <2>2. owed \in Opt(OwedLink)
    BY <2>1, LinkIsPresent DEF Opt
  <2> QED  BY <1>1, <2>1, <2>2, CommitType
<1>2. CASE ~At(s, "deliver") /\ (Delivered(s) \/ Undelivered(s))
  BY <1>2, Types DEF Delivered, Undelivered, Opt
<1>3. CASE Continue(s, step)
  BY <1>3, Types DEF Continue
<1> QED  BY <1>1, <1>2, <1>3

LEMMA RecordTypes ==
    ASSUME TypeOK, NEW s \in Session, NEW r \in Record
    PROVE  /\ ShowRecord(r) => record' \in [Record -> RecordRow]
           /\ \A v \in Version : LinkTarget(s, r, v) => record' \in [Record -> RecordRow]
<1>1. record[r] \in RecordRow /\ session[s].source \in Opt(Version)
  BY Types DEF SessionRow
<1>2. ASSUME ShowRecord(r)
      PROVE  record' \in [Record -> RecordRow]
  <2>1. PICK q : q = Shown(record[r])
    OBVIOUS
  <2>2. q \in RecordRow
    BY <1>1, <2>1, ShownRow
  <2>3. record' = [record EXCEPT ![r] = q]
    BY <1>2, <2>1, Types DEF ShowRecord
  <2> QED  BY <2>2, <2>3, OneRow
<1>3. ASSUME NEW v \in Version, LinkTarget(s, r, v)
      PROVE  record' \in [Record -> RecordRow]
  <2>1. PICK q : q = Appended(r, session[s].source, v)
    OBVIOUS
  <2>2. v \in Opt(Version)
    BY DEF Opt
  <2>3. q \in RecordRow
    BY <1>1, <2>1, <2>2, AppendedRow
  <2>4. record' = [record EXCEPT ![r] = q]
    BY <1>3, <2>1 DEF LinkTarget
  <2> QED  BY <2>3, <2>4, OneRow
<1> QED  BY <1>2, <1>3

LEMMA TypesNext ==
    ASSUME row' \in [Version -> Catalog!Row],
           reservation' \in [Session -> Catalog!Opt(Catalog!Reservation)],
           content' \in [Version -> {"empty", "copied", "edited", "sealed"}],
           record' \in [Record -> RecordRow],
           session' \in [Session -> SessionRow],
           reviewed' \in [Structured -> BOOLEAN],
           pinned' \in [Structured -> Pin],
           recorded' \in [Structured -> Opt(Record)],
           publishing' \in [Session -> Opt(Transaction)],
           outbox' \in [Session -> Opt(OwedLink)],
           delivery' \in [Session -> {"read", "link", "review", "show"}],
           late' \in SUBSET LateCall,
           failures' \in 0..MaxFailures,
           revisions' \in 0..MaxRevisions
    PROVE  TypeOK'
<1>1. Catalog!TypeOK'
  BY DEF Catalog!TypeOK, Catalog!Opt
<1> QED  BY <1>1 DEF TypeOK, SessionRow, Pin

LEMMA BeginningTypes ==
    ASSUME TypeOK, NEW s \in Session,
           \/ \E source \in Version, hop \in Hops : OpenSession(s, source, hop)
           \/ \E payload \in Payload : BeginPublish(s, payload)
    PROVE  TypeOK'
<1>1. ASSUME NEW source \in Version, NEW hop \in Hops, OpenSession(s, source, hop)
      PROVE  TypeOK'
  <2>1. [status |-> "approved", source |-> source, hop |-> hop, successor |-> None]
          \in SessionRow
    BY DEF SessionRow, Opt
  <2>2. session' \in [Session -> SessionRow]
    BY <1>1, <2>1, Types DEF OpenSession
  <2>3. reviewed' \in [Structured -> BOOLEAN]
    <3>1. (hop = "legal") \in BOOLEAN
      OBVIOUS
    <3>2. PICK b \in BOOLEAN : b = (hop = "legal")
      BY <3>1
    <3>3. reviewed' = IF s \in Structured THEN [reviewed EXCEPT ![s] = b] ELSE reviewed
      BY <1>1, <3>2, Zenon DEF OpenSession
    <3> QED  BY <3>3, Types
  <2> QED  BY <1>1, <2>2, <2>3, Types, TypesNext DEF bounds, OpenSession, remote
<1>2. ASSUME NEW payload \in Payload, BeginPublish(s, payload)
      PROVE  TypeOK'
  <2>1. pinned' \in [Structured -> Pin]
    <3>1. [set |-> TRUE, payload |-> payload] \in Pin
      BY DEF Pin
    <3> QED  BY <1>2, <3>1, Types DEF BeginPublish
  <2>2. publishing' \in [Session -> Opt(Transaction)]
    <3>1. (reservation[s] # None) \in BOOLEAN
      OBVIOUS
    <3>2. [phase |-> "source", payload |-> payload, reserved |-> reservation[s] # None,
           record |-> None, successor |-> None] \in Transaction
      BY <3>1, NewTransactionType, Zenon
    <3>3. PICK new \in Transaction : publishing' = [publishing EXCEPT ![s] = new]
      BY <1>2, <3>2, Zenon DEF BeginPublish
    <3> QED  BY <3>3, Types DEF Opt
  <2> QED  BY <1>2, <2>1, <2>2, Types, TypesNext DEF bounds, BeginPublish, remote
<1> QED  BY <1>1, <1>2

LEMMA EarlyTypes ==
    ASSUME TypeOK, VersionInv, RecordInv, NEW s \in Session,
           CheckSource(s) \/ ResolveRecord(s)
    PROVE  TypeOK'
<1>1. CASE CheckSource(s)
  <2>1. /\ publishing' \in [Session -> Opt(Transaction)]
        /\ delivery' \in [Session -> {"read", "link", "review", "show"}]
    <3>1. CASE Abort(s)
      BY <3>1, AbortType
    <3>2. CASE Advance(s, IF Legal(s) THEN "record" ELSE "reserve") /\ UNCHANGED delivery
      <4>1. (IF Legal(s) THEN "record" ELSE "reserve") \in Phases /\ publishing[s] # None
        BY <1>1 DEF Phases, CheckSource, At
      <4> QED  BY <3>2, <4>1, AdvanceType, Types
    <3> QED  BY <1>1, <3>1, <3>2 DEF CheckSource
  <2> QED  BY <1>1, <2>1, Types, TypesNext DEF bounds, CheckSource, remote
<1>2. CASE ResolveRecord(s)
  <2>1. publishing[s] # None /\ publishing[s] \in Transaction
    BY <1>2, PublishingOne DEF ResolveRecord, At
  <2>2. ASSUME NEW r \in Record, UseRecord(s, r)
        PROVE  /\ publishing' \in [Session -> Opt(Transaction)]
               /\ recorded' \in [Structured -> Opt(Record)]
    <3>1. [publishing[s] EXCEPT !.record = r, !.phase = "reserve"] \in Transaction
      BY <2>1 DEF Transaction, Opt, Phases
    <3>2. publishing' = [publishing EXCEPT ![s].record = r, ![s].phase = "reserve"]
      BY <2>2 DEF UseRecord
    <3>3. /\ publishing'[s] = [publishing[s] EXCEPT !.record = r, !.phase = "reserve"]
          /\ \A t \in Session : t # s => publishing'[t] = publishing[t]
      BY <3>2, Types
    <3>4. publishing' \in [Session -> Opt(Transaction)]
      BY <3>1, <3>2, <3>3, Types DEF Opt
    <3>5. recorded' \in [Structured -> Opt(Record)]
      BY <2>2, Types DEF UseRecord, Opt
    <3> QED  BY <3>4, <3>5
  <2>3. /\ publishing' \in [Session -> Opt(Transaction)]
        /\ recorded' \in [Structured -> Opt(Record)]
        /\ record' \in [Record -> RecordRow]
        /\ delivery' \in [Session -> {"read", "link", "review", "show"}]
    <3>1. CASE HasRecorded(s) /\ UseRecord(s, recorded[s]) /\ UNCHANGED record
      <4>1. recorded[s] \in Record
        BY <3>1, Types DEF HasRecorded, Opt
      <4> QED  BY <2>2, <3>1, <4>1, Types DEF UseRecord
    <3>2. CASE /\ publishing[s].payload # None
               /\ UseRecord(s, publishing[s].payload) /\ UNCHANGED record
      <4>1. publishing[s].payload \in Record
        BY <2>1, <3>2, RecordAssumption DEF Transaction, Payload, Opt
      <4> QED  BY <2>2, <3>2, <4>1, Types DEF UseRecord
    <3>3. CASE Abort(s) /\ UNCHANGED recorded /\ UNCHANGED record
      BY <3>3, AbortType, Types
    <3>4. CASE CreateRecord(s) /\ UseRecord(s, CreatedRecord(s))
      <4>1. CreatedRecord(s) \in Record /\ record' \in [Record -> RecordRow]
        BY <3>4, CreatingRecord, CreatesKeeps, Types DEF RecordsKept, CreatesNew, RecordOf
      <4> QED  BY <2>2, <3>4, <4>1, Types DEF UseRecord
    <3> QED  BY <1>2, <3>1, <3>2, <3>3, <3>4 DEF ResolveRecord
  <2> QED  BY <1>2, <2>3, Types, TypesNext DEF bounds, ResolveRecord
<1> QED  BY <1>1, <1>2

LEMMA ReserveTypes ==
    ASSUME TypeOK, VersionInv, NEW s \in Session, Reserve(s)
    PROVE  TypeOK'
<1>1. publishing[s] # None /\ publishing[s] \in Transaction /\ Opened(s)
  BY PublishingOne DEF Reserve, At, VersionInv, SessionInv, Opened
<1>2. CASE CatalogAccepts(s)
  <2>1. /\ CreateSuccessor(s) /\ UNCHANGED delivery
        /\ publishing' = [publishing EXCEPT ![s].phase = "write", ![s].successor = Successor(s)]
    BY <1>2 DEF Reserve
  <2>2. /\ row' \in [Version -> Catalog!Row]
        /\ reservation' \in [Session -> Catalog!Opt(Catalog!Reservation)]
        /\ Successor(s) \in Version
    <3>1. CASE /\ UNCHANGED <<row, reservation>>
               /\ reservation[s] # None
               /\ Successor(s) = reservation[s].version
      BY <3>1, Types DEF VersionInv, ReservedInv, Owns, Present
    <3>2. CASE Appends(s, Successor(s))
      BY <3>2 DEF Appends
    <3> QED  BY <1>1, <1>2, <2>1, <3>1, <3>2, Creating
  <2>3. [publishing[s] EXCEPT !.phase = "write", !.successor = Successor(s)] \in Transaction
    BY <1>1, <2>2 DEF Transaction, Opt, Phases
  <2>4. /\ publishing'[s] = [publishing[s] EXCEPT !.phase = "write", !.successor = Successor(s)]
        /\ \A t \in Session : t # s => publishing'[t] = publishing[t]
    BY <2>1, Types
  <2>5. publishing' \in [Session -> Opt(Transaction)]
    BY <2>1, <2>3, <2>4, Types DEF Opt
  <2> QED  BY <2>1, <2>2, <2>5, Types, TypesNext DEF bounds, Reserve
<1>3. CASE ~CatalogAccepts(s)
  BY <1>3, AbortType, Types, TypesNext DEF bounds, Reserve
<1> QED  BY <1>2, <1>3

LEMMA WriteTypes ==
    ASSUME TypeOK, VersionInv, NEW s \in Session, NEW phase \in {"write", "edit"},
           Write(s, phase)
    PROVE  TypeOK'
<1>1. publishing[s] # None /\ publishing[s].phase = phase
  BY DEF Write, At
<1>2. PICK v \in Version : v = publishing[s].successor
  BY <1>1 DEF VersionInv, StepInv, Owns, Present
<1>3. CASE Storable(s, phase, v)
  <2>1. content' \in [Version -> {"empty", "copied", "edited", "sealed"}]
    BY <1>2, <1>3, Storing DEF Write
  <2>2. PICK next \in Phases : Advance(s, next)
    BY <1>2, <1>3 DEF Write, Phases
  <2>3. publishing' \in [Session -> Opt(Transaction)]
    BY <1>1, <2>2, AdvanceType
  <2> QED  BY <1>2, <1>3, <2>1, <2>3, Types, TypesNext DEF bounds, Write
<1>4. CASE ~Storable(s, phase, v)
  BY <1>2, <1>4, AbortType, Types, TypesNext DEF bounds, Write
<1> QED  BY <1>3, <1>4

LEMMA PublishTypes ==
    ASSUME TypeOK, VersionInv, NEW s \in Session, PublishVersion(s)
    PROVE  TypeOK'
<1>1. publishing[s] # None /\ publishing[s].phase = "publish"
  BY DEF PublishVersion, At
<1>2. PICK v \in Version : v = publishing[s].successor
  BY <1>1 DEF VersionInv, StepInv, Owns, Present
<1>3. CASE Ready(v)
  <2>1. PublishCatalogRow(v) /\ Advance(s, "deliver") /\ UNCHANGED delivery
    BY <1>2, <1>3 DEF PublishVersion
  <2>2. Publishes(v)
    BY <2>1, Publishing
  <2>3. publishing' \in [Session -> Opt(Transaction)]
    BY <1>1, <2>1, AdvanceType DEF Phases
  <2> QED  BY <2>1, <2>2, <2>3, Types, TypesNext DEF bounds, PublishVersion, Publishes
<1>4. CASE ~Ready(v)
  BY <1>2, <1>4, AbortType, Types, TypesNext DEF bounds, PublishVersion
<1> QED  BY <1>3, <1>4

LEMMA CompletingTypes ==
    ASSUME TypeOK, VersionInv, RecordInv, NEW s \in Session,
           Refresh(s) \/ Completes(s)
    PROVE  TypeOK'
<1>1. CASE Refresh(s)
  <2>1. At(s, "deliver") /\ Commit(s, None) /\ None \in Opt(OwedLink)
    BY <1>1 DEF Refresh, Opt
  <2> QED  BY <1>1, <2>1, CommitType, Types, TypesNext DEF bounds, Refresh, remote
<1>2. CASE ReadRecord(s)
  <2>1. Delivering(s) /\ UNCHANGED <<row, reservation, content, record, reviewed, pinned,
                                    recorded, late, failures, revisions>>
    BY <1>2 DEF ReadRecord, remote, bounds
  <2>2. \/ Delivered(s) \/ Undelivered(s)
        \/ \E step \in {"read", "link", "review", "show"} : Continue(s, step)
    BY <1>2 DEF ReadRecord, AfterLink
  <2> QED  BY <2>1, <2>2, DeliveryTypes, Types, TypesNext
<1>3. CASE SetTarget(s)
  <2>1. Delivering(s) /\ UNCHANGED <<row, reservation, content, reviewed, pinned, recorded, late,
                                    failures, revisions>>
    BY <1>3 DEF SetTarget, bounds
  <2>2. Link(s).record \in Record /\ Link(s).target \in Version
    BY <2>1, LinkRecordIsPresent, LinkIsOwn DEF Owns, Present
  <2>3. record' \in [Record -> RecordRow]
    BY <1>3, <2>2, RecordTypes, Types DEF SetTarget
  <2>4. Undelivered(s) \/ \E step \in {"review", "show"} : Continue(s, step)
    BY <1>3 DEF SetTarget, AfterLink
  <2> QED  BY <2>1, <2>3, <2>4, DeliveryTypes, Types, TypesNext
<1>4. CASE PublishRecord(s)
  <2>1. Delivering(s) /\ UNCHANGED <<row, reservation, content, reviewed, pinned, recorded, late,
                                    failures, revisions>>
    BY <1>4 DEF PublishRecord, bounds
  <2>2. Link(s).record \in Record
    BY <2>1, LinkRecordIsPresent
  <2>3. record' \in [Record -> RecordRow]
    BY <1>4, <2>2, RecordTypes, Types DEF PublishRecord
  <2>4. Undelivered(s) \/ Delivered(s)
    BY <1>4 DEF PublishRecord
  <2> QED  BY <2>1, <2>3, <2>4, DeliveryTypes, Types, TypesNext
<1>5. CASE TransferReview(s)
  <2>1. Delivering(s) /\ UNCHANGED <<row, reservation, content, reviewed, pinned, recorded, late,
                                    failures, revisions>>
    BY <1>5 DEF TransferReview, bounds
  <2>2. Link(s).record \in Record
    BY <2>1, LinkRecordIsPresent
  <2>3. record' \in [Record -> RecordRow]
    <3>1. record[Link(s).record] \in RecordRow
      BY <2>2, Types
    <3>2. \A b \in BOOLEAN : [record[Link(s).record] EXCEPT !.decided = b] \in RecordRow
      BY <3>1 DEF RecordRow
    <3>3. UNCHANGED record \/ \E b \in BOOLEAN :
            record' = [record EXCEPT ![Link(s).record].decided = b]
      BY <1>5 DEF TransferReview
    <3> QED  BY <2>2, <3>2, <3>3, Types
  <2>4. Undelivered(s) \/ Continue(s, "show")
    BY <1>5 DEF TransferReview
  <2> QED  BY <2>1, <2>3, <2>4, DeliveryTypes, Types, TypesNext
<1> QED  BY <1>1, <1>2, <1>3, <1>4, <1>5 DEF Completes

LEMMA OpenCallsType ==
    ASSUME TypeOK, VersionInv, RecordInv, NEW s \in Session,
           publishing[s] # None \/ outbox[s] # None
    PROVE  OpenCalls(s) \subseteq LateCall
<1>1. CASE Delivering(s)
  <2>1. Link(s).record \in Opt(Record) /\ Link(s).target \in Opt(Version)
    BY <1>1, LinkRecordIsPresent, LinkIsOwn DEF Owns, Present, Opt
  <2>2. delivery[s] \notin {"read", "review"} => delivery[s] \in Calls
    BY Types DEF Calls
  <2> QED  BY <1>1, <2>1, <2>2 DEF OpenCalls, LinkCall, LateCall
<1>2. CASE ~Delivering(s)
  <2>1. publishing[s] \in Transaction
    BY <1>2, PublishingOne DEF Delivering
  <2>2. publishing[s].record \in Opt(Record) /\ publishing[s].successor \in Opt(Version)
    BY <2>1 DEF Transaction
  <2>3. \A op \in Calls : Call(op, s) \subseteq LateCall
    BY <2>2 DEF Call, LateCall
  <2>4. "create" \in Calls /\ {"reserve", "write", "edit", "publish"} \subseteq Calls
    BY DEF Calls
  <2> QED  BY <1>2, <2>3, <2>4 DEF OpenCalls
<1> QED  BY <1>1, <1>2

LEMMA FailTypes ==
    ASSUME TypeOK, VersionInv, RecordInv, NEW s \in Session, Fail(s)
    PROVE  TypeOK'
<1>1. late' \in SUBSET LateCall
  BY OpenCallsType, Types DEF Fail
<1>2. failures' \in 0..MaxFailures
  BY Types, FailureAssumption DEF Fail
<1>3. UNCHANGED <<row, reservation, content, record, reviewed, pinned, recorded, revisions>>
  BY DEF Fail, remote
<1>4. CASE Delivering(s) /\ Undelivered(s)
  BY <1>1, <1>2, <1>3, <1>4, DeliveryTypes, TypesNext, Types
<1>5. CASE Abort(s) /\ UNCHANGED <<session, outbox>>
  BY <1>1, <1>2, <1>3, <1>5, AbortType, TypesNext, Types
<1> QED  BY <1>4, <1>5 DEF Fail

LEMMA LateTypes ==
    ASSUME TypeOK, VersionInv, RecordInv, NEW c \in late, CarryOut(c)
    PROVE  TypeOK'
<1>1. UNCHANGED <<session, reviewed, pinned, recorded, publishing, outbox, delivery, failures,
                  revisions>>
      /\ late' \in SUBSET LateCall
  BY Types DEF CarryOut, editor, bounds
<1>2. PICK s \in Session : s = c.session /\ Opened(s)
  BY Types DEF LateCall, VersionInv, LateInv
<1>3. /\ row' \in [Version -> Catalog!Row]
      /\ reservation' \in [Session -> Catalog!Opt(Catalog!Reservation)]
      /\ content' \in [Version -> {"empty", "copied", "edited", "sealed"}]
      /\ record' \in [Record -> RecordRow]
  <2>1. CASE CreateRecord(s) /\ UNCHANGED <<row, reservation, content>>
    BY <1>2, <2>1, CreatingRecord, CreatesKeeps, Types DEF RecordsKept
  <2>2. CASE c.op = "link" /\ LinkTarget(s, c.record, c.version)
             /\ UNCHANGED <<row, reservation, content>>
    <3>1. c.record \in Record /\ c.version \in Version
      BY <1>2, <2>2, LinkRecordIsPresent DEF VersionInv, LateInv
    <3> QED  BY <2>2, <3>1, RecordTypes, Types
  <2>3. CASE c.op = "show" /\ ShowRecord(c.record) /\ UNCHANGED <<row, reservation, content>>
    <3>1. c.record \in Record
      BY <1>2, <2>3, LinkRecordIsPresent
    <3> QED  BY <1>2, <2>3, <3>1, RecordTypes, Types
  <2>4. CASE /\ c.op \in {"write", "edit"} /\ Stored(s, c.op, c.version)
             /\ UNCHANGED <<row, reservation, record>>
    <3>1. c.version \in Version
      BY <1>2, <2>4 DEF VersionInv, LateInv
    <3> QED  BY <2>4, <3>1, Storing, Types
  <2>5. CASE CatalogAccepts(s) /\ CreateSuccessor(s) /\ UNCHANGED <<content, record>>
    <3>1. CASE UNCHANGED <<row, reservation>>
      BY <2>5, <3>1, Types
    <3>2. CASE Appends(s, Successor(s))
      BY <2>5, <3>2, Types DEF Appends
    <3> QED  BY <1>2, <2>5, <3>1, <3>2, Creating
  <2>6. CASE c.op = "publish" /\ PublishCatalogRow(c.version) /\ UNCHANGED <<content, record>>
    <3>1. c.version \in Version
      BY <1>2, <2>6 DEF VersionInv, LateInv
    <3> QED  BY <2>6, <3>1, Publishing, Types DEF Publishes
  <2>7. CASE UNCHANGED remote
    BY <2>7, Types DEF remote
  <2> QED  BY <1>2, <2>1, <2>2, <2>3, <2>4, <2>5, <2>6, <2>7 DEF CarryOut, Effect
<1> QED  BY <1>1, <1>3, Types, TypesNext

LEMMA StaffTypes ==
    ASSUME TypeOK,
           \/ \E s \in Structured : DecideFinding(s)
           \/ \E r \in Record : WithdrawRecord(r)
           \/ \E v \in Version : PublishByHand(v)
    PROVE  TypeOK'
<1>1. ASSUME NEW r \in Record, WithdrawRecord(r)
      PROVE  TypeOK'
  <2>1. record[r] \in RecordRow
    BY Types
  <2>2. [record[r] EXCEPT !.status = "withdrawn"] \in RecordRow
    BY <2>1 DEF RecordRow
  <2>3. record' \in [Record -> RecordRow]
    BY <1>1, <2>1, <2>2, Types DEF WithdrawRecord
  <2> QED  BY <1>1, <2>3, Types, TypesNext DEF bounds, WithdrawRecord, editor
<1>2. ASSUME NEW v \in Version, PublishByHand(v)
      PROVE  TypeOK'
  <2>1. Publishes(v)
    BY <1>2, Publishing DEF PublishByHand
  <2> QED  BY <1>2, <2>1, Types, TypesNext DEF bounds, PublishByHand, Publishes, editor
<1>3. ASSUME NEW s \in Structured, DecideFinding(s)
      PROVE  TypeOK'
  <2>1. reviewed' \in [Structured -> BOOLEAN]
    <3>1. (~reviewed[s]) \in BOOLEAN
      OBVIOUS
    <3>2. PICK b \in BOOLEAN : reviewed' = [reviewed EXCEPT ![s] = b]
      BY <1>3, <3>1, Types, Zenon DEF DecideFinding
    <3> QED  BY <3>2, Types
  <2> QED  BY <1>3, <2>1, Types, TypesNext DEF bounds, DecideFinding, remote
<1> QED  BY <1>1, <1>2, <1>3

LEMMA ByHandTypes ==
    ASSUME TypeOK, ByHand
    PROVE  TypeOK'
<1>1. ASSUME NEW r \in Record, DecideRecord(r)
      PROVE  TypeOK'
  <2>1. PICK b \in BOOLEAN : record' = [record EXCEPT ![r].decided = b]
    <3>1. (~record[r].decided) \in BOOLEAN
      OBVIOUS
    <3> QED  BY <1>1, <3>1, Types DEF DecideRecord
  <2>2. [record[r] EXCEPT !.decided = b] \in RecordRow
    BY Types DEF RecordRow
  <2>3. record' \in [Record -> RecordRow]
    BY <2>1, <2>2, Types
  <2>4. revisions' \in 0..MaxRevisions
    BY <1>1, Types, FailureAssumption DEF DecideRecord
  <2> QED  BY <1>1, <2>3, <2>4, Types, TypesNext DEF DecideRecord, editor
<1>2. ASSUME NEW r \in Record, PublishRecordByHand(r)
      PROVE  TypeOK'
  <2>1. PICK q : q = Shown(record[r])
    OBVIOUS
  <2>2. record[r] \in RecordRow
    BY Types
  <2>3. q \in RecordRow
    BY <2>1, <2>2, ShownRow
  <2>4. record' = [record EXCEPT ![r] = q]
    BY <1>2, <2>1, Types DEF PublishRecordByHand, ShowRecord
  <2>5. record' \in [Record -> RecordRow]
    BY <2>3, <2>4, OneRow
  <2> QED  BY <1>2, <2>5, Types, TypesNext DEF bounds, PublishRecordByHand, editor
<1>3. ASSUME NEW r \in Record, ConfirmQuotes(r)
      PROVE  TypeOK'
  <2>1. PICK q \in RecordRow : record' = [record EXCEPT ![r] = q]
    BY <1>3, ConfirmedRow
  <2>2. record' \in [Record -> RecordRow]
    BY <2>1, OneRow
  <2> QED  BY <1>3, <2>2, Types, TypesNext DEF bounds, ConfirmQuotes, editor
<1>4. ASSUME NEW r \in Record, NEW source \in Opt(Version), NEW target \in Opt(Version),
             NEW sameRows \in BOOLEAN, ReviseRecord(r, source, target, sameRows)
      PROVE  TypeOK'
  <2>1. PICK q : q = Revised(r, source, target, sameRows)
    OBVIOUS
  <2>2. q \in RecordRow
    BY <2>1, RevisedRow
  <2>3. record' = [record EXCEPT ![r] = q]
    BY <1>4, <2>1 DEF ReviseRecord
  <2>4. record' \in [Record -> RecordRow]
    BY <2>2, <2>3, OneRow
  <2>5. revisions' \in 0..MaxRevisions
    BY <1>4, Types, FailureAssumption DEF ReviseRecord
  <2> QED  BY <1>4, <2>4, <2>5, Types, TypesNext DEF ReviseRecord, editor
<1> QED  BY <1>1, <1>2, <1>3, <1>4 DEF ByHand

LEMMA StepKeepsTypes ==
    ASSUME TypeOK, VersionInv, RecordInv, [Next]_vars
    PROVE  TypeOK'
<1>1. CASE \E s \in Session, source \in Version, hop \in Hops : OpenSession(s, source, hop)
  BY <1>1, BeginningTypes
<1>2. CASE \E s \in Session, payload \in Payload : BeginPublish(s, payload)
  BY <1>2, BeginningTypes
<1>3. ASSUME NEW s \in Session, Step(s)
      PROVE  TypeOK'
  <2>1. CASE CheckSource(s) \/ ResolveRecord(s)
    BY <2>1, EarlyTypes
  <2>2. CASE Reserve(s)
    BY <2>2, ReserveTypes
  <2>3. CASE Write(s, "write") \/ Write(s, "edit")
    BY <2>3, WriteTypes
  <2>4. CASE PublishVersion(s)
    BY <2>4, PublishTypes
  <2>5. CASE Refresh(s) \/ Completes(s)
    BY <2>5, CompletingTypes
  <2> QED  BY <1>3, <2>1, <2>2, <2>3, <2>4, <2>5 DEF Step, Completes
<1>4. CASE \E s \in Session : Fail(s)
  BY <1>4, FailTypes
<1>5. CASE \E c \in late : CarryOut(c)
  BY <1>5, LateTypes
<1>6. CASE \/ \E s \in Structured : DecideFinding(s)
           \/ \E r \in Record : WithdrawRecord(r)
           \/ \E v \in Version : PublishByHand(v)
  BY <1>6, StaffTypes
<1>7. CASE ByHand
  BY <1>7, ByHandTypes
<1>8. CASE UNCHANGED vars
  BY <1>8, Types, TypesNext DEF bounds, vars, editor
<1> QED  BY <1>1, <1>2, <1>3, <1>4, <1>5, <1>6, <1>7, <1>8 DEF Next, Begin, Others

(***************************************************************************)
(* The theorems.                                                           *)
(***************************************************************************)
\* The inductive invariant: what a session's transaction, row, reservation, outbox and
\* late calls name is its own, and stands as far along as its phase says.
THEOREM Invariant == Spec => []IInv
<1>1. IInv /\ [Next]_vars => IInv'
  BY StepKeepsTypes, StepKeepsVersions, StepKeepsRecords DEF IInv
<1> QED  BY <1>1, InitInvariant, PTL DEF Spec

\* Every variable keeps its type: of the calls that outlive their caller too, and of the
\* outbox, which owes nothing but a link of a present record.
THEOREM TypeCorrect == Spec => []TypeOK
<1>1. IInv => TypeOK
  BY DEF IInv
<1> QED  BY <1>1, Invariant, PTL

\* A published session published a successor of its own, with its own text in it and
\* the link it asked for, whatever failed and whatever was carried out late.
THEOREM PublishedSuccessorIsOwn == Spec => []SuccessorIsOwn
<1>1. ASSUME IInv
      PROVE  SuccessorIsOwn
  <2>1. \A s \in Session : IsPublished(s) => Finished(s, session[s].successor)
    BY <1>1 DEF IInv, VersionInv, SessionInv
  <2>2. \A s \in Session : IsPublished(s) =>
          LET v == session[s].successor
          IN  /\ row[v].status = "published"
              /\ row[v].pred = session[s].source
              /\ row[v].hop = session[s].hop
              /\ content[v] = IF s \in Structured THEN "sealed" ELSE "edited"
    BY <2>1 DEF Finished, Owns, Text
  <2>3. ASSUME NEW s \in Session, NEW t \in Session, IsPublished(s), IsPublished(t),
               session[s].successor = session[t].successor
        PROVE  s = t
    <3>1. session[s].successor \in Version
      BY <2>1, <2>3 DEF Finished, Owns, Present
    <3>2. Uses(s, session[s].successor) /\ Uses(t, session[s].successor)
      BY <2>3 DEF Uses
    <3> QED  BY <1>1, <3>1, <3>2 DEF IInv, VersionInv, Apart
  <2> QED  BY <2>2, <2>3 DEF SuccessorIsOwn
<1> QED  BY <1>1, Invariant, PTL

\* However often an attempt is retried and whenever its calls arrive, it creates at most
\* one change record, only when its pinned request names none, and settles on that one.
THEOREM RequestIsKept == Spec => []AttemptKeepsItsRequest
<1>1. ASSUME IInv
      PROVE  AttemptKeepsItsRequest
  <2>1. ASSUME NEW s \in Structured
        PROVE  Cardinality(RecordOf(s)) <= 1
    <3>1. CASE RecordOf(s) = {}
      BY <3>1, FS_EmptySet
    <3>2. CASE RecordOf(s) # {}
      <4>1. PICK r : r \in RecordOf(s)
        BY <3>2
      <4>2. \A q \in RecordOf(s) : q = r
        BY <1>1, <2>1, <4>1, SessionAssumption, NoneAssumption
           DEF IInv, RecordInv, OneRecord, RecordOf
      <4>3. RecordOf(s) = {r}
        BY <4>1, <4>2
      <4> QED  BY <4>3, FS_Singleton
    <3> QED  BY <3>1, <3>2
  <2>2. ASSUME NEW s \in Structured
        PROVE  /\ RecordOf(s) # {} => pinned[s] = [set |-> TRUE, payload |-> None]
               /\ recorded[s] # None => recorded[s] \in RecordOf(s) \cup {pinned[s].payload}
    BY <1>1, <2>2, SessionAssumption DEF IInv, RecordInv, CreatedInv, PinInv
  <2> QED  BY <2>1, <2>2 DEF AttemptKeepsItsRequest
<1> QED  BY <1>1, Invariant, PTL

\* Once a session is published and nothing is owed any more, the record it created is
\* public with the source it was reviewed on and the successor it published, or was
\* withdrawn after it had been, unless staff took the record over.
THEOREM DeliveryIsComplete == Spec => []DeliveredMeansLinked
<1>1. ASSUME IInv
      PROVE  DeliveredMeansLinked
  <2>1. ASSUME NEW s \in Structured, NEW r \in RecordOf(s), IsPublished(s), outbox[s] = None,
               ~record[r].takenOver
        PROVE  /\ record[r].status \in {"published", "withdrawn"}
               /\ record[r].quoted = session[s].source
               /\ record[r].shown = session[s].successor
    <3>1. record[r].status \in {"published", "withdrawn"} /\ record[r].shown # None
      BY <1>1, <2>1, SessionAssumption DEF IInv, RecordInv, DoneInv
    <3>2. Faithful(s, r)
      BY <1>1, <2>1, SessionAssumption DEF IInv, RecordInv, CreatedInv
    <3>3. /\ record[r].quoted = session[s].source
          /\ reservation[s] # None /\ reservation[s].version = record[r].shown
      BY <3>1, <3>2 DEF Faithful
    <3>4. reservation[s].version = session[s].successor
      BY <1>1, <2>1, SessionAssumption DEF IInv, VersionInv, SessionInv, Finished, Owns
    <3> QED  BY <3>1, <3>3, <3>4
  <2> QED  BY <2>1 DEF DeliveredMeansLinked
<1> QED  BY <1>1, Invariant, PTL

(***************************************************************************)
(* The refinement: what a reader sees of a structured session.             *)
(***************************************************************************)
Held(s) == IF reservation[s] = None THEN None ELSE reservation[s].version
SameStage(s) == StageOf(s)' = StageOf(s) /\ Held(s)' = Held(s)

LEMMA NothingIsSeen ==
    ASSUME \A s \in Structured : SameStage(s)
    PROVE  UNCHANGED Workflow!vars
BY DEF SameStage, Held, Workflow!vars

LEMMA OneStageIsEntered ==
    ASSUME NEW s \in Structured, \A t \in Structured : t # s => SameStage(t),
           Held(s)' = Held(s),
           \/ StageOf(s) = "reserved" /\ StageOf(s)' = "written"
           \/ StageOf(s) = "written" /\ StageOf(s)' = "public"
           \/ StageOf(s) = "public" /\ StageOf(s)' = "closed"
    PROVE  Workflow!Next
<1>1. ([t \in Structured |-> Held(t)])' = [t \in Structured |-> Held(t)]
  BY DEF SameStage
<1>2. ([t \in Structured |-> StageOf(t)])'
        = [[t \in Structured |-> StageOf(t)] EXCEPT ![s] = StageOf(s)']
  BY DEF SameStage
<1> QED  BY <1>1, <1>2 DEF Held, Workflow!Next, Workflow!Enter

LEMMA OneIsReserved ==
    ASSUME NEW s \in Structured, NEW v \in Version,
           \A t \in Structured : t # s => SameStage(t),
           \A t \in Structured : Held(t) # v,
           Held(s)' = v, StageOf(s) = "open", StageOf(s)' = "reserved"
    PROVE  Workflow!Next
<1>1. ([t \in Structured |-> Held(t)])' = [[t \in Structured |-> Held(t)] EXCEPT ![s] = v]
  BY DEF SameStage
<1>2. ([t \in Structured |-> StageOf(t)])'
        = [[t \in Structured |-> StageOf(t)] EXCEPT ![s] = "reserved"]
  BY DEF SameStage
<1>3. Workflow!Reserve(s, v)
  BY <1>1, <1>2 DEF Held, Workflow!Reserve
<1> QED  BY <1>3 DEF Workflow!Next

LEMMA StageStays ==
    ASSUME NEW s \in Structured, IsPublished(s)' = IsPublished(s),
           reservation'[s] = reservation[s],
           reservation[s] # None =>
             /\ row'[reservation[s].version].status = row[reservation[s].version].status
             /\ content'[reservation[s].version] = content[reservation[s].version]
    PROVE  SameStage(s)
BY DEF SameStage, StageOf, Held, IsPublished

LEMMA IdleStages ==
    ASSUME UNCHANGED <<row, reservation, content>>,
           \A s \in Structured : IsPublished(s)' = IsPublished(s)
    PROVE  UNCHANGED Workflow!vars
BY StageStays, NothingIsSeen

\* An open transaction of an attempt, or a late call of it, writes the reserved version.
LEMMA StoreStages ==
    ASSUME IInv, NEW s \in Session, NEW phase, NEW v \in Version, Stored(s, phase, v),
           Uses(s, v), s \in Structured => reservation[s] # None /\ reservation[s].version = v,
           UNCHANGED <<row, reservation, session>>
    PROVE  [Workflow!Next]_Workflow!vars
<1>1. /\ content'[v] = IF s \in Structured THEN "sealed"
                       ELSE IF phase = "edit" THEN "edited" ELSE "copied"
      /\ \A w \in Version : w # v => content'[w] = content[w]
  BY Storing DEF IInv
<1>2. ASSUME NEW t \in Structured, t # s
      PROVE  SameStage(t)
  <2>1. reservation[t] # None => reservation[t].version \in Version /\ reservation[t].version # v
    BY <1>2, SessionAssumption
       DEF IInv, VersionInv, Apart, Uses, ReservedInv, Owns, Present
  <2> QED  BY <1>1, <1>2, <2>1, StageStays DEF IsPublished
<1>3. CASE s \notin Structured
  BY <1>2, <1>3, NothingIsSeen
<1>4. CASE s \in Structured
  <2>1. Held(s)' = Held(s) /\ content'[v] = "sealed" /\ content[v] \in {"empty", "sealed"}
    BY <1>1, <1>4 DEF Held, IInv, VersionInv, ReservedInv
  <2>2. IsPublished(s)' = IsPublished(s)
    BY DEF IsPublished
  <2>3. CASE StageOf(s) = "reserved"
    <3>1. StageOf(s)' = "written"
      BY <1>4, <2>1, <2>3 DEF StageOf, IsPublished
    <3> QED  BY <1>2, <1>4, <2>1, <2>3, <3>1, OneStageIsEntered
  <2>4. CASE StageOf(s) # "reserved"
    <3>1. IsPublished(s) \/ content[v] = "sealed"
      BY <1>4, <2>4 DEF StageOf, IInv, VersionInv, ReservedInv
    <3>2. SameStage(s)
      BY <1>4, <2>1, <2>2, <3>1 DEF SameStage, StageOf
    <3> QED  BY <1>2, <3>2, NothingIsSeen
  <2> QED  BY <2>3, <2>4
<1> QED  BY <1>3, <1>4

\* A version becomes public: in the transaction, late, or through the catalog's own page.
LEMMA PublishStages ==
    ASSUME IInv, NEW v \in Version, Publishes(v), UNCHANGED <<content, session>>
    PROVE  [Workflow!Next]_Workflow!vars
<1>1. /\ reservation' = reservation
      /\ row'[v].status = "published"
      /\ \A w \in Version : w # v => row'[w] = row[w]
  <2>1. row[v] \in Catalog!Row
    BY Types DEF IInv
  <2> QED  BY <2>1 DEF Publishes, Catalog!Row
<1>2. \A t \in Structured : IsPublished(t)' = IsPublished(t)
  BY DEF IsPublished
<1>3. \A t \in Structured : reservation[t] # None => reservation[t].version \in Version
  BY SessionAssumption DEF IInv, VersionInv, ReservedInv, Owns, Present
<1>4. ASSUME NEW t \in Structured, reservation[t] = None \/ reservation[t].version # v
      PROVE  SameStage(t)
  BY <1>1, <1>2, <1>3, <1>4, StageStays
<1>5. ASSUME NEW s \in Structured, reservation[s] # None, reservation[s].version = v
      PROVE  [Workflow!Next]_Workflow!vars
  <2>1. content[v] = "sealed"
    BY <1>5, SessionAssumption, ReadyIsSealed DEF Publishes
  <2>2. \A t \in Structured : t # s => SameStage(t)
    BY <1>4, <1>5, SessionAssumption DEF IInv, VersionInv, Apart, Uses
  <2>3. CASE StageOf(s) = "written"
    <3>1. StageOf(s)' = "public" /\ Held(s)' = Held(s)
      BY <1>1, <1>5, <2>3 DEF StageOf, Held, IsPublished
    <3> QED  BY <2>2, <2>3, <3>1, OneStageIsEntered
  <2>4. CASE StageOf(s) # "written"
    <3>1. IsPublished(s) \/ row[v].status = "published"
      BY <1>5, <2>1, <2>4 DEF StageOf
    <3>2. SameStage(s)
      BY <1>1, <1>2, <1>5, <3>1 DEF SameStage, StageOf, Held
    <3> QED  BY <2>2, <3>2, NothingIsSeen
  <2> QED  BY <2>3, <2>4
<1> QED  BY <1>4, <1>5, NothingIsSeen

\* The catalog appends a row for s; what it appends for an attempt is its reservation.
LEMMA AppendStages ==
    ASSUME IInv, NEW s \in Session, NEW n, Appends(s, n), UNCHANGED <<content, session>>
    PROVE  [Workflow!Next]_Workflow!vars
<1>1. \A t \in Session : reservation[t] # None =>
        reservation[t].version \in Version /\ reservation[t].version \in Present
  BY DEF IInv, VersionInv, ReservedInv, Owns, Present
<1>2. ASSUME NEW t \in Structured, t # s \/ s \notin Structured
      PROVE  SameStage(t)
  <2>1. reservation'[t] = reservation[t] /\ IsPublished(t)' = IsPublished(t)
    BY <1>2, SessionAssumption DEF Appends, IsPublished
  <2>2. reservation[t] # None => reservation[t].version # n /\ reservation[t].version \in Version
    BY <1>1, SessionAssumption DEF Appends
  <2> QED  BY <2>1, <2>2, StageStays DEF Appends
<1>3. CASE s \notin Structured
  BY <1>2, <1>3, NothingIsSeen
<1>4. CASE s \in Structured
  <2>1. /\ reservation[s] = None /\ reservation'[s] # None /\ reservation'[s].version = n
        /\ n \in Version /\ n \notin Present /\ row'[n].status = "draft"
    BY <1>4 DEF Appends
  <2>2. ~IsPublished(s)
    BY <1>4, <2>1 DEF IInv, VersionInv, SessionInv, Finished, Owns
  <2>3. content[n] = "empty"
    BY <2>1 DEF IInv, VersionInv, ContentInv
  <2>4. StageOf(s) = "open"
    BY <2>1, <2>2 DEF StageOf
  <2>5. StageOf(s)' = "reserved" /\ Held(s)' = n
    BY <2>1, <2>2, <2>3 DEF StageOf, Held, IsPublished
  <2>6. \A t \in Structured : Held(t) # n
    BY <1>1, <2>1, SessionAssumption, NoneAssumption DEF Held
  <2> QED  BY <1>2, <1>4, <2>1, <2>4, <2>5, <2>6, OneIsReserved
<1> QED  BY <1>3, <1>4

\* The transaction ends: a commit closes an attempt whose successor is public.
LEMMA EndingStages ==
    ASSUME IInv, NEW s \in Session, UNCHANGED <<row, reservation, content>>,
           \A t \in Session : t # s => session'[t] = session[t],
           Committed(s) \/ Dropped(s) \/ Polled(s)
    PROVE  [Workflow!Next]_Workflow!vars
<1>1. \A t \in Structured : t # s => SameStage(t)
  BY StageStays, SessionAssumption DEF IsPublished
<1>2. CASE Dropped(s) \/ Polled(s)
  BY <1>1, <1>2, StageStays, NothingIsSeen DEF Dropped, Polled, IsPublished
<1>3. CASE Committed(s) /\ s \in Structured
  <2>1. Finished(s, publishing[s].successor) /\ ~IsPublished(s)
    BY <1>3 DEF Committed, IInv, VersionInv, StepInv, SessionInv, IsPublished
  <2>2. StageOf(s) = "public"
    BY <1>3, <2>1 DEF Finished, Owns, StageOf
  <2>3. StageOf(s)' = "closed" /\ Held(s)' = Held(s)
    <3>1. session[s] \in SessionRow
      BY Types DEF IInv
    <3>2. IsPublished(s)'
      BY <1>3, <3>1 DEF Committed, IsPublished, SessionRow
    <3> QED  BY <3>2 DEF StageOf, Held
  <2> QED  BY <1>1, <1>3, <2>2, <2>3, OneStageIsEntered
<1>4. CASE s \notin Structured
  BY <1>1, <1>4, NothingIsSeen
<1> QED  BY <1>2, <1>3, <1>4

LEMMA StepIsVisibleStep ==
    ASSUME IInv, [Next]_vars
    PROVE  [Workflow!Next]_Workflow!vars
<1> USE DEF IInv
<1>1. ASSUME NEW s \in Session, NEW source \in Version, NEW hop \in Hops,
             OpenSession(s, source, hop)
      PROVE  UNCHANGED Workflow!vars
  <2>1. \A t \in Session : IsPublished(t)' = IsPublished(t)
    BY <1>1, Types DEF OpenSession, IsPublished
  <2> QED  BY <1>1, <2>1, SessionAssumption, IdleStages DEF OpenSession, remote
<1>2. ASSUME UNCHANGED <<row, reservation, content, session>>
      PROVE  UNCHANGED Workflow!vars
  BY <1>2, IdleStages DEF IsPublished
<1>3. CASE \E s \in Session, payload \in Payload : BeginPublish(s, payload)
  BY <1>2, <1>3 DEF BeginPublish, remote
<1>4. ASSUME NEW s \in Session, Step(s)
      PROVE  [Workflow!Next]_Workflow!vars
  <2>1. CASE CheckSource(s) \/ ResolveRecord(s)
    BY <1>2, <2>1 DEF CheckSource, ResolveRecord, remote
  <2>2. CASE Reserve(s)
    <3>1. Opened(s) /\ UNCHANGED <<content, session>>
      BY <2>2 DEF Reserve, At, VersionInv, SessionInv, Opened
    <3>2. CASE UNCHANGED <<row, reservation>>
      BY <1>2, <3>1, <3>2
    <3>3. CASE Appends(s, Successor(s))
      BY <3>1, <3>3, AppendStages
    <3>4. UNCHANGED <<row, reservation>> \/ (CatalogAccepts(s) /\ CreateSuccessor(s))
      BY <2>2 DEF Reserve
    <3> QED  BY <3>1, <3>2, <3>3, <3>4, Creating
  <2>3. ASSUME NEW phase \in {"write", "edit"}, Write(s, phase)
        PROVE  [Workflow!Next]_Workflow!vars
    <3>1. /\ publishing[s] # None /\ publishing[s].phase = phase
          /\ UNCHANGED <<row, reservation, session>>
      BY <2>3 DEF Write, At
    <3>2. PICK v \in Version : v = publishing[s].successor /\ Owns(s, v)
      BY <3>1 DEF VersionInv, StepInv, Owns, Present
    <3>3. Uses(s, v) /\ (s \in Structured => reservation[s] # None /\ reservation[s].version = v)
      BY <3>1, <3>2 DEF Uses, Owns
    <3>4. CASE UNCHANGED content
      BY <1>2, <3>1, <3>4
    <3>5. CASE Stored(s, phase, v)
      BY <3>1, <3>3, <3>5, StoreStages
    <3> QED  BY <2>3, <3>2, <3>4, <3>5 DEF Write
  <2>4. CASE PublishVersion(s)
    <3>1. /\ publishing[s] # None /\ publishing[s].phase = "publish"
          /\ UNCHANGED <<content, session>>
      BY <2>4 DEF PublishVersion, At
    <3>2. PICK v \in Version : v = publishing[s].successor
      BY <3>1 DEF VersionInv, StepInv, Owns, Present
    <3>3. CASE UNCHANGED <<row, reservation>>
      BY <1>2, <3>1, <3>3
    <3>4. CASE PublishCatalogRow(v)
      BY <3>1, <3>4, Publishing, PublishStages
    <3> QED  BY <2>4, <3>2, <3>3, <3>4 DEF PublishVersion
  <2>5. CASE Refresh(s) \/ Completes(s)
    <3>1. UNCHANGED <<row, reservation, content>>
      BY <2>5, CompletingEnds DEF Refresh, remote
    <3>2. (Committed(s) \/ Polled(s)) /\ OnlyOf(s)
      <4>1. CASE Refresh(s)
        BY <4>1, Commits DEF Refresh
      <4>2. CASE Completes(s)
        BY <4>2, CompletingEnds, DeliveryEnds
      <4> QED  BY <2>5, <4>1, <4>2
    <3> QED  BY <3>1, <3>2, EndingStages DEF OnlyOf
  <2> QED  BY <1>4, <2>1, <2>2, <2>3, <2>4, <2>5 DEF Step, Completes
<1>5. ASSUME NEW s \in Session, Fail(s)
      PROVE  [Workflow!Next]_Workflow!vars
  <2>1. UNCHANGED <<row, reservation, content>>
    BY <1>5 DEF Fail, remote
  <2>2. CASE Delivering(s) /\ Undelivered(s)
    BY <2>1, <2>2, DeliveryEnds, EndingStages DEF OnlyOf
  <2>3. CASE UNCHANGED session
    BY <1>2, <2>1, <2>3
  <2> QED  BY <1>5, <2>2, <2>3 DEF Fail
<1>6. ASSUME NEW c \in late, CarryOut(c)
      PROVE  [Workflow!Next]_Workflow!vars
  <2>1. PICK s \in Session : s = c.session /\ Opened(s)
    BY Types DEF LateCall, VersionInv, LateInv
  <2>2. UNCHANGED session
    BY <1>6 DEF CarryOut, editor
  <2>3. CASE UNCHANGED <<row, reservation, content>>
    BY <1>2, <2>2, <2>3
  <2>4. CASE c.op \in {"write", "edit"} /\ Stored(s, c.op, c.version)
             /\ UNCHANGED <<row, reservation>>
    <3>1. c.version \in Version /\ Uses(s, c.version)
      BY <2>1, <2>4 DEF VersionInv, LateInv, Uses
    <3>2. s \in Structured => reservation[s] # None /\ reservation[s].version = c.version
      BY <2>1, <3>1, NoneAssumption DEF VersionInv, LateInv
    <3> QED  BY <2>2, <2>4, <3>1, <3>2, StoreStages
  <2>5. CASE CatalogAccepts(s) /\ CreateSuccessor(s) /\ UNCHANGED content
    <3>1. CASE UNCHANGED <<row, reservation>>
      BY <1>2, <2>2, <2>5, <3>1
    <3>2. CASE Appends(s, Successor(s))
      BY <2>2, <2>5, <3>2, AppendStages
    <3> QED  BY <2>1, <2>5, <3>1, <3>2, Creating
  <2>6. CASE c.op = "publish" /\ PublishCatalogRow(c.version) /\ UNCHANGED content
    <3>1. c.version \in Version
      BY <2>1, <2>6 DEF VersionInv, LateInv
    <3> QED  BY <2>2, <2>6, <3>1, Publishing, PublishStages
  <2> QED  BY <1>6, <2>1, <2>3, <2>4, <2>5, <2>6 DEF CarryOut, Effect, remote
<1>7. CASE \E r \in Record : WithdrawRecord(r)
  BY <1>2, <1>7 DEF WithdrawRecord, editor
<1>8. ASSUME NEW v \in Version, PublishByHand(v)
      PROVE  [Workflow!Next]_Workflow!vars
  BY <1>8, Publishing, PublishStages DEF PublishByHand, editor
<1>9. CASE UNCHANGED vars
  BY <1>2, <1>9 DEF vars, editor
<1>10. CASE (\E s \in Structured : DecideFinding(s)) \/ ByHand
  BY <1>2, <1>10 DEF DecideFinding, ByHand, DecideRecord, PublishRecordByHand, ConfirmQuotes,
                     ReviseRecord, editor, remote
<1> QED
  BY <1>1, <1>3, <1>4, <1>5, <1>6, <1>7, <1>8, <1>9, <1>10 DEF Next, Begin, Others

\* What ADR 0006 promises holds of every structured session at once, whatever fails and
\* whatever is carried out late: the attempt is reserved, written, made public and closed,
\* each once and in this order, about one successor that no other attempt is given.
THEOREM AttemptIsRetryable == Spec => ImplementsWorkflow
<1>1. Init => Workflow!Init
  <2>1. ASSUME Init
        PROVE  \A s \in Structured : StageOf(s) = "open" /\ Held(s) = None
    BY <2>1, SessionAssumption DEF Init, NoSession, StageOf, Held, IsPublished
  <2> QED  BY <2>1 DEF Workflow!Init, Held
<1>2. IInv /\ [Next]_vars => [Workflow!Next]_Workflow!vars
  BY StepIsVisibleStep
<1> QED  BY <1>1, <1>2, Invariant, PTL DEF Spec, ImplementsWorkflow, Workflow!Spec
=============================================================================
