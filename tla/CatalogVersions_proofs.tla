---------------------- MODULE CatalogVersions_proofs ----------------------
(***************************************************************************)
(* Proofs about CatalogVersions and VersionLine for every set of           *)
(* constitutions, versions, attempts and labels.                           *)
(*                                                                         *)
(* The tip guards keep the axes linear only because each legal version has *)
(* exactly one tip to append to, and each constitution exactly one legal   *)
(* tip: UniqueTips and LinearAxes are proved together, over the shape the  *)
(* creator gives a row.                                                    *)
(*                                                                         *)
(* The readers' walks come to an end, and reach every row, because a row   *)
(* is younger than the one it names: Grown keeps that order.  What a walk  *)
(* has after each round is proved from the first round at which it would   *)
(* be something else.                                                      *)
(***************************************************************************)
EXTENDS VersionLine, FiniteSetTheorems, SequenceTheorems, TLAPS

(***************************************************************************)
(* Types.                                                                  *)
(***************************************************************************)
LEMMA NewRowType ==
    ASSUME TypeOK, NEW c \in Constitution, NEW id \in Version, NEW req \in Request,
           NEW hop \in {"initial", CanonicalHop(req.hop)}, NEW legal \in Version,
           ChainAllows(c, id, req, hop, legal)
    PROVE  /\ NewRow(c, req, hop, legal) \in Row
           /\ NewRow(c, req, hop, legal).status = "draft"
           /\ hop \in {"initial", "legal", "editorial_correction"}
           /\ hop # "initial" => req.pred \in VersionsOf(c)
<1>1. hop \in {"initial", "legal", "editorial_correction"}
  BY DEF CanonicalHop
<1>2. hop # "initial" => req.pred \in VersionsOf(c)
  BY DEF ChainAllows
<1>3. req.pred # None => req.pred \in Version /\ row[req.pred] \in Row
  BY DEF TypeOK, Request, Opt
<1>4. VersionsOf(c) \subseteq Version
  BY DEF VersionsOf, Present
<1>5. NewRow(c, req, hop, legal).evidence \in Opt(Evidence)
  <2>1. CASE hop = "editorial_correction"
    <3>1. row[req.pred] \in Row
      BY <2>1, <1>2, <1>4 DEF TypeOK
    <3> QED  BY <3>1, <2>1 DEF NewRow, Row, Request
  <2>2. CASE hop # "editorial_correction"
    BY <2>2 DEF NewRow, Request
  <2> QED  BY <2>1, <2>2
<1>6. NewRow(c, req, hop, legal).settings \in Opt(Settings)
  <2>1. currentSettings[c] \in Settings
    BY DEF TypeOK
  <2> QED  BY <1>3, <2>1 DEF NewRow, Row, Request, Opt
<1>7. /\ req.label \in Opt(Label)
      /\ req.pred \in Opt(Version)
      /\ req.job \in Opt(Attempt)
      /\ c \in Opt(Constitution)
      /\ legal \in Opt(Version)
  BY DEF Request, Opt
<1>8. NewRow(c, req, hop, legal) =
        [status |-> "draft", constitution |-> c, label |-> req.label, hop |-> hop,
         pred |-> req.pred, legal |-> legal,
         evidence |-> NewRow(c, req, hop, legal).evidence,
         settings |-> NewRow(c, req, hop, legal).settings,
         hold |-> req.job]
  BY DEF NewRow
<1>9. NewRow(c, req, hop, legal).status = "draft"
  BY DEF NewRow
<1> QED  BY <1>1, <1>2, <1>5, <1>6, <1>7, <1>8, <1>9 DEF Row, Status, Hop

LEMMA TypeInit == Init => TypeOK
<1> SUFFICES ASSUME Init PROVE TypeOK
  OBVIOUS
<1>1. AbsentRow \in Row
  BY DEF AbsentRow, Row, Status, Hop, Opt
<1> QED  BY <1>1 DEF Init, TypeOK, Opt

LEMMA TypeStep == TypeOK /\ [Next]_vars => TypeOK'
<1> SUFFICES ASSUME TypeOK, [Next]_vars PROVE TypeOK'
  OBVIOUS
<1>1. ASSUME NEW c \in Constitution, NEW id \in Version, NEW req \in Request,
             NEW a \in Opt(Attempt), CreateDraftVersion(c, id, req, a)
      PROVE  TypeOK'
  <2>1. PICK hop \in {"initial", CanonicalHop(req.hop)}, legal \in Version :
           /\ ChainAllows(c, id, req, hop, legal)
           /\ row' = [row EXCEPT ![id] = NewRow(c, req, hop, legal)]
    BY <1>1 DEF CreateDraftVersion
  <2>2. row' \in [Version -> Row]
    BY <2>1, NewRowType DEF TypeOK
  <2>3. reservation' \in [Attempt -> Opt(Reservation)]
    <3>1. [version |-> id, constitution |-> c, request |-> req] \in Opt(Reservation)
      BY DEF Reservation, Opt
    <3> QED  BY <1>1, <3>1 DEF CreateDraftVersion, TypeOK
  <2> QED  BY <1>1, <2>2, <2>3 DEF CreateDraftVersion, TypeOK
<1>2. ASSUME NEW v \in Version, NEW actor \in Actor, NEW job \in Opt(Attempt),
             PublishVersion(v, actor, job)
      PROVE  TypeOK'
  <2>1. [row[v] EXCEPT !.status = "published"] \in Row
    BY DEF TypeOK, Row, Status
  <2> QED  BY <1>2, <2>1 DEF PublishVersion, TypeOK
<1>3. ASSUME NEW c \in Constitution, NEW expected \in Settings, NEW s \in Settings,
             SaveSettings(c, expected, s)
      PROVE  TypeOK'
  BY <1>3 DEF SaveSettings, TypeOK, Opt
<1>4. CASE UNCHANGED vars
  BY <1>4 DEF vars, TypeOK
<1> QED  BY <1>1, <1>2, <1>3, <1>4 DEF Next

\* Rows, reservations and settings pins keep their types in every reachable state.
THEOREM TypeCorrect == Spec => []TypeOK
BY TypeInit, TypeStep, PTL DEF Spec

(***************************************************************************)
(* The shape of the chain: where a row's predecessor and legal identity    *)
(* point.                                                                  *)
(***************************************************************************)
Shape ==
    \A v \in Present :
        /\ row[v].hop \in {"initial", "legal", "editorial_correction"}
        /\ row[v].constitution \in Constitution
        /\ row[v].label \in Label
        /\ row[v].hop # "initial" =>
             /\ row[v].pred \in Present
             /\ row[row[v].pred].constitution = row[v].constitution
        /\ row[v].hop = "editorial_correction" => row[v].legal = row[row[v].pred].legal
        /\ LegalRow(v) => row[v].legal = v
        /\ row[v].legal \in Present
        /\ LegalRow(row[v].legal)
        /\ row[row[v].legal].constitution = row[v].constitution

ChainInv == TypeOK /\ Shape /\ UniqueTips /\ LinearAxes

\* LIMIT 1 over a single row returns that row.
LEMMA FirstOfOne ==
    ASSUME NEW t, row[t].label \in Label
    PROVE  First({t}) = t
<1>n. \A n \in Nat : n <= n
  OBVIOUS
<1>1. row[t].label <= row[t].label
  BY <1>n, LabelAssumption, Zenon
<1>2. \E v \in {t} : \A w \in {t} : row[w].label <= row[v].label
  BY <1>1
<1>3. {t} # {}
  OBVIOUS
<1> QED  BY <1>2, <1>3 DEF First

\* The three ways a row joins the chain, as assumptions of the lemmas below.
Joins(c, id, r) ==
    /\ row' = [row EXCEPT ![id] = r]
    /\ id \notin Present
    /\ Present' = Present \cup {id}
    /\ r.constitution = c
    /\ r.label \in Label
    /\ ~LabelTaken(c, r.label)
    /\ \/ /\ r.hop = "initial"
          /\ r.pred = None
          /\ r.legal = id
          /\ VersionsOf(c) = {}
       \/ /\ r.hop = "editorial_correction"
          /\ r.pred \in VersionsOf(c)
          /\ r.legal = row[r.pred].legal
          /\ EditorialTips(r.legal, Present) = {r.pred}
       \/ /\ r.hop = "legal"
          /\ r.legal = id
          /\ r.pred \in VersionsOf(c)
          /\ LegalTips(c, Present) = {row[r.pred].legal}

\* A created row joins the chain in one of those ways: the guards let it in only at a tip.
LEMMA NewLink ==
    ASSUME ChainInv, NEW c \in Constitution, NEW id \in Version, NEW req \in Request,
           NEW a \in Opt(Attempt), CreateDraftVersion(c, id, req, a)
    PROVE  \E r \in Row : Joins(c, id, r)
<1>1. PICK hop \in {"initial", CanonicalHop(req.hop)}, legal \in Version :
         /\ ChainAllows(c, id, req, hop, legal)
         /\ row' = [row EXCEPT ![id] = NewRow(c, req, hop, legal)]
  BY DEF CreateDraftVersion
<1> DEFINE r == NewRow(c, req, hop, legal)
<1>2. /\ r \in Row
      /\ r.status = "draft"
      /\ hop \in {"initial", "legal", "editorial_correction"}
  BY <1>1, NewRowType DEF ChainInv
<1>3. id \notin Present
  BY DEF CreateDraftVersion, Present
<1>4. Present' = Present \cup {id}
  BY <1>1, <1>2 DEF Present, ChainInv, TypeOK
<1>5. /\ r.constitution = c
      /\ r.label \in Label
      /\ r.hop = hop
      /\ r.pred = req.pred
      /\ r.legal = legal
  BY DEF NewRow, Request
<1>l. ~LabelTaken(c, r.label)
  <2>1. ~LabelTaken(c, req.label) /\ r.label = req.label
    BY DEF CreateDraftVersion, NewRow
  <2> QED  BY <2>1
<1>6. CASE hop = "initial"
  <2>1. req.pred = None /\ VersionsOf(c) = {} /\ legal = id
    BY <1>1, <1>6 DEF ChainAllows, CanonicalHop
  <2> QED  BY <1>1, <1>2, <1>3, <1>4, <1>5, <1>l, <1>6, <2>1 DEF Joins
<1>7. CASE hop = "editorial_correction"
  <2>1. /\ req.pred \in VersionsOf(c)
        /\ legal = row[req.pred].legal
        /\ req.pred = First(EditorialTips(legal, Present))
    BY <1>1, <1>7 DEF ChainAllows, FindEditorialTip
  <2>2. legal \in Present /\ row[legal].legal = legal
    BY <2>1 DEF ChainInv, Shape, VersionsOf
  <2>3. PICK t \in Present : EditorialTips(legal, Present) = {t}
    BY <2>2 DEF ChainInv, UniqueTips
  <2>4. req.pred = t
    <3>1. row[t].label \in Label
      BY <2>3 DEF ChainInv, Shape
    <3>2. First({t}) = t
      BY <3>1, FirstOfOne
    <3> QED  BY <2>1, <2>3, <3>2
  <2> QED  BY <1>1, <1>2, <1>3, <1>4, <1>5, <1>l, <1>7, <2>1, <2>3, <2>4 DEF Joins
<1>8. CASE hop = "legal"
  <2>1. /\ req.pred \in VersionsOf(c)
        /\ legal = id
        /\ req.pred = FindLegalTipEditorialTip(c, Present)
    BY <1>1, <1>8 DEF ChainAllows
  <2>2. PICK l \in Present : LegalTips(c, Present) = {l}
    BY <2>1 DEF ChainInv, UniqueTips
  <2>3. FindLegalTip(c, Present) = l
    <3>1. row[l].label \in Label
      BY <2>2 DEF ChainInv, Shape
    <3>2. First({l}) = l
      BY <3>1, FirstOfOne
    <3> QED  BY <2>2, <3>2 DEF FindLegalTip
  <2>4. row[l].legal = l /\ l # None
    <3>1. l \in LegalTips(c, Present)
      BY <2>2
    <3>2. LegalRow(l)
      BY <3>1 DEF LegalTips
    <3>3. l # None
      BY NoneAssumption DEF Present
    <3> QED  BY <3>2, <3>3 DEF ChainInv, Shape
  <2>5. req.pred = First(EditorialTips(l, Present))
    BY <2>1, <2>3, <2>4 DEF FindLegalTipEditorialTip, FindEditorialTip
  <2>6. PICK t \in Present : EditorialTips(l, Present) = {t}
    BY <2>2, <2>4 DEF ChainInv, UniqueTips
  <2>7. req.pred = t
    <3>1. row[t].label \in Label
      BY <2>6 DEF ChainInv, Shape
    <3>2. First({t}) = t
      BY <3>1, FirstOfOne
    <3> QED  BY <2>5, <2>6, <3>2
  <2>8. row[req.pred].legal = l
    BY <2>6, <2>7 DEF EditorialTips
  <2> QED  BY <1>1, <1>2, <1>3, <1>4, <1>5, <1>l, <1>8, <2>1, <2>2, <2>8 DEF Joins
<1> QED  BY <1>2, <1>6, <1>7, <1>8

\* Rows already in the chain are untouched, and none of them points to the new one.
Framed(c, id, r) ==
    /\ row'[id] = r
    /\ r.hop # "initial" => r.pred \in Present /\ row[r.pred].constitution = c
    /\ r.legal \in Present \cup {id}
    /\ \A v \in Present :
         /\ v # id
         /\ row'[v] = row[v]
         /\ row[v].legal # id
         /\ row[v].hop # "initial" => row[v].pred # id /\ row[v].pred \in Present

LEMMA JoinFrame ==
    ASSUME ChainInv, NEW c \in Constitution, NEW id \in Version, NEW r \in Row, Joins(c, id, r)
    PROVE  Framed(c, id, r)
<1>1. row'[id] = r /\ \A v \in Present : v # id /\ row'[v] = row[v]
  BY DEF Joins, ChainInv, TypeOK, Present
<1>2. r.hop # "initial" => r.pred \in Present /\ row[r.pred].constitution = c
  BY DEF Joins, VersionsOf
<1>3. \A v \in Present :
        /\ row[v].legal # id
        /\ row[v].hop # "initial" => row[v].pred # id /\ row[v].pred \in Present
  BY DEF Joins, ChainInv, Shape
<1>4. r.legal \in Present \cup {id}
  BY <1>2 DEF Joins, ChainInv, Shape
<1> QED  BY <1>1, <1>2, <1>3, <1>4 DEF Framed

LEMMA JoinShape ==
    ASSUME ChainInv, NEW c \in Constitution, NEW id \in Version, NEW r \in Row, Joins(c, id, r)
    PROVE  Shape'
<1> Framed(c, id, r)
  BY JoinFrame
<1> USE DEF Framed
<1>1. \A v \in Present : (row[v].legal \in Present /\ row'[row[v].legal] = row[row[v].legal])
  BY DEF ChainInv, Shape
<1>2. ASSUME NEW v \in Present
      PROVE  /\ row'[v].hop \in {"initial", "legal", "editorial_correction"}
             /\ row'[v].constitution \in Constitution
             /\ row'[v].label \in Label
             /\ row'[v].hop # "initial" =>
                  /\ row'[v].pred \in Present'
                  /\ row'[row'[v].pred].constitution = row'[v].constitution
             /\ row'[v].hop = "editorial_correction" => row'[v].legal = row'[row'[v].pred].legal
             /\ LegalRow(v)' => row'[v].legal = v
             /\ row'[v].legal \in Present'
             /\ LegalRow(row[v].legal)'
             /\ row'[row'[v].legal].constitution = row'[v].constitution
  <2>1. Present' = Present \cup {id}
    BY DEF Joins
  <2>2. row'[v] = row[v]
    OBVIOUS
  <2>3. row[v].hop # "initial" => row'[row[v].pred] = row[row[v].pred]
    OBVIOUS
  <2> QED  BY <1>1, <2>1, <2>2, <2>3 DEF ChainInv, Shape, LegalRow
<1>3. /\ row'[id].hop \in {"initial", "legal", "editorial_correction"}
      /\ row'[id].constitution \in Constitution
      /\ row'[id].label \in Label
      /\ row'[id].hop # "initial" =>
           /\ row'[id].pred \in Present'
           /\ row'[row'[id].pred].constitution = row'[id].constitution
      /\ row'[id].hop = "editorial_correction" => row'[id].legal = row'[row'[id].pred].legal
      /\ LegalRow(id)' => row'[id].legal = id
      /\ row'[id].legal \in Present'
      /\ LegalRow(r.legal)'
      /\ row'[r.legal].constitution = row'[id].constitution
  <2>1. CASE r.hop = "editorial_correction"
    <3>1. r.legal = row[r.pred].legal /\ r.pred \in Present
      BY <2>1 DEF Joins
    <3>2. /\ r.legal \in Present
          /\ LegalRow(r.legal)
          /\ row[r.legal].constitution = c
      BY <3>1, <2>1 DEF ChainInv, Shape
    <3> QED  BY <3>1, <3>2, <2>1 DEF Joins, LegalRow
  <2>2. CASE r.hop # "editorial_correction"
    BY <2>2 DEF Joins, LegalRow
  <2> QED  BY <2>1, <2>2
<1> QED  BY <1>2, <1>3 DEF Shape, Joins

\* The successors of every row after the join.
Succeeded(id, r) ==
    /\ EditorialSuccessors(id, Present)' = {}
    /\ LegalSuccessors(id, Present)' = {}
    /\ \A v \in Present :
         /\ EditorialSuccessors(v, Present)' =
              EditorialSuccessors(v, Present) \cup
              (IF r.hop = "editorial_correction" /\ r.pred = v THEN {id} ELSE {})
         /\ LegalSuccessors(v, Present)' =
              LegalSuccessors(v, Present) \cup
              (IF r.hop = "legal" /\ row[r.pred].legal = v THEN {id} ELSE {})

LEMMA JoinSuccessors ==
    ASSUME ChainInv, NEW c \in Constitution, NEW id \in Version, NEW r \in Row, Joins(c, id, r)
    PROVE  Succeeded(id, r)
<1> Framed(c, id, r)
  BY JoinFrame
<1> USE DEF Framed
<1>1. Present' = Present \cup {id}
  BY DEF Joins
<1>2. r.hop = "editorial_correction" => r.legal = row[r.pred].legal
  BY DEF Joins
<1>3. r.hop = "legal" => row'[r.pred] = row[r.pred] /\ row[r.pred].legal # id
  OBVIOUS
<1>4. \A w \in Present : row[w].hop = "legal" => /\ row'[row[w].pred] = row[row[w].pred]
                                                /\ row[row[w].pred].legal # id
  OBVIOUS
<1>5. EditorialSuccessors(id, Present)' = {}
  BY <1>1 DEF EditorialSuccessors
<1>6. LegalSuccessors(id, Present)' = {}
  BY <1>1, <1>3, <1>4 DEF LegalSuccessors
<1>7. ASSUME NEW v \in Present
      PROVE  EditorialSuccessors(v, Present)' =
               EditorialSuccessors(v, Present) \cup
               (IF r.hop = "editorial_correction" /\ r.pred = v THEN {id} ELSE {})
  BY <1>1, <1>2 DEF EditorialSuccessors
<1>8. ASSUME NEW v \in Present
      PROVE  LegalSuccessors(v, Present)' =
               LegalSuccessors(v, Present) \cup
               (IF r.hop = "legal" /\ row[r.pred].legal = v THEN {id} ELSE {})
  BY <1>1, <1>3, <1>4 DEF LegalSuccessors
<1> QED  BY <1>5, <1>6, <1>7, <1>8 DEF Succeeded

LEMMA JoinTips ==
    ASSUME ChainInv, NEW c \in Constitution, NEW id \in Version, NEW r \in Row, Joins(c, id, r)
    PROVE  UniqueTips'
<1> Framed(c, id, r) /\ Succeeded(id, r)
  BY JoinFrame, JoinSuccessors
<1> USE DEF Framed, Succeeded
<1>1. Present' = Present \cup {id}
  BY DEF Joins
<1>2. ASSUME NEW l \in Present', row'[l].legal = l
      PROVE  \E t \in Present' : EditorialTips(l, Present)' = {t}
  <2>1. CASE l = id
    <3>1. r.hop # "editorial_correction"
      BY <2>1, <1>2 DEF Joins, ChainInv, Shape
    <3>2. EditorialTips(id, Present)' = {id}
      BY <1>1, <1>2, <2>1 DEF EditorialTips
    <3> QED  BY <3>2, <2>1, <1>1
  <2>2. CASE l \in Present
    <3>1. PICK t \in Present : EditorialTips(l, Present) = {t}
      BY <1>2, <2>2 DEF ChainInv, UniqueTips
    <3>2. CASE r.hop = "editorial_correction" /\ r.legal = l
      <4>1. t = r.pred
        BY <3>1, <3>2 DEF Joins
      <4>2. \A v \in Present : row[v].legal = l /\ v # t => EditorialSuccessors(v, Present) # {}
        BY <3>1 DEF EditorialTips
      <4>3. \A v \in Present : v \notin EditorialTips(l, Present)'
        BY <3>2, <4>1, <4>2 DEF EditorialTips
      <4>4. id \in EditorialTips(l, Present)'
        BY <1>1, <3>2 DEF EditorialTips
      <4>5. EditorialTips(l, Present)' \subseteq Present \cup {id}
        BY <1>1 DEF EditorialTips
      <4>6. EditorialTips(l, Present)' = {id}
        BY <4>3, <4>4, <4>5
      <4> QED  BY <4>6, <1>1
    <3>3. CASE ~(r.hop = "editorial_correction" /\ r.legal = l)
      <4>1. r.legal # l
        BY <3>3, <2>2 DEF Joins
      <4>2. r.hop = "editorial_correction" => row[r.pred].legal # l
        BY <4>1 DEF Joins
      <4>3. EditorialTips(l, Present)' = EditorialTips(l, Present)
        BY <1>1, <4>1, <4>2 DEF EditorialTips
      <4> QED  BY <4>3, <3>1, <1>1
    <3> QED  BY <3>2, <3>3
  <2> QED  BY <2>1, <2>2, <1>1
<1>3. ASSUME NEW d \in Constitution, VersionsOf(d)' # {}
      PROVE  \E t \in Present' : LegalTips(d, Present)' = {t}
  <2>1. CASE d = c /\ r.hop = "initial"
    <3>1. \A v \in Present : row[v].constitution # c
      BY <2>1 DEF Joins, VersionsOf
    <3>2. \A v \in Present : v \notin LegalTips(d, Present)'
      BY <2>1, <3>1 DEF LegalTips
    <3>3. id \in LegalTips(d, Present)'
      BY <1>1, <2>1 DEF LegalTips, LegalRow, Joins
    <3>4. LegalTips(d, Present)' \subseteq Present \cup {id}
      BY <1>1 DEF LegalTips
    <3>5. LegalTips(d, Present)' = {id}
      BY <3>2, <3>3, <3>4
    <3> QED  BY <3>5, <1>1
  <2>2. CASE ~(d = c /\ r.hop = "initial")
    <3>1. VersionsOf(d) # {}
      BY <1>1, <1>3, <2>2 DEF VersionsOf, Joins
    <3>2. PICK t \in Present : LegalTips(d, Present) = {t}
      BY <3>1 DEF ChainInv, UniqueTips
    <3>3. CASE d = c /\ r.hop = "legal"
      <4>1. t = row[r.pred].legal
        BY <3>2, <3>3 DEF Joins
      <4>2. \A v \in Present : row[v].constitution = d /\ LegalRow(v) /\ v # t
                                 => LegalSuccessors(v, Present) # {}
        BY <3>2 DEF LegalTips
      <4>3. \A v \in Present : v \notin LegalTips(d, Present)'
        BY <3>3, <4>1, <4>2 DEF LegalTips, LegalRow
      <4>4. id \in LegalTips(d, Present)'
        BY <1>1, <3>3 DEF LegalTips, LegalRow, Joins
      <4>5. LegalTips(d, Present)' \subseteq Present \cup {id}
        BY <1>1 DEF LegalTips
      <4>6. LegalTips(d, Present)' = {id}
        BY <4>3, <4>4, <4>5
      <4> QED  BY <4>6, <1>1
    <3>4. CASE ~(d = c /\ r.hop = "legal")
      <4>1. r.hop = "legal" => row[row[r.pred].legal].constitution = c
        BY DEF ChainInv, Shape
      <4>2. id \notin LegalTips(d, Present)'
        <5>1. d # c \/ r.hop = "editorial_correction"
          BY <2>2, <3>4 DEF Joins
        <5> QED  BY <5>1 DEF LegalTips, LegalRow, Joins
      <4>3. ASSUME NEW v \in Present
            PROVE  v \in LegalTips(d, Present)' <=> v \in LegalTips(d, Present)
        <5>1. row[v].constitution = d /\ r.hop = "legal" => row[r.pred].legal # v
          BY <3>4, <4>1
        <5> QED  BY <1>1, <5>1 DEF LegalTips, LegalRow
      <4>4. LegalTips(d, Present)' \subseteq Present \cup {id}
        BY <1>1 DEF LegalTips
      <4>5. LegalTips(d, Present) \subseteq Present
        BY DEF LegalTips
      <4>6. LegalTips(d, Present)' = LegalTips(d, Present)
        BY <4>2, <4>3, <4>4, <4>5
      <4> QED  BY <4>6, <3>2, <1>1
    <3> QED  BY <3>3, <3>4
  <2> QED  BY <2>1, <2>2
<1> QED  BY <1>2, <1>3 DEF UniqueTips

LEMMA JoinAxes ==
    ASSUME ChainInv, NEW c \in Constitution, NEW id \in Version, NEW r \in Row, Joins(c, id, r)
    PROVE  LinearAxes'
<1> Framed(c, id, r)
  BY JoinFrame
<1> USE DEF Framed
<1>1. Present' = Present \cup {id}
  BY DEF Joins
<1>2. ASSUME NEW w \in Present
      PROVE  /\ r.hop = "editorial_correction" /\ row[w].hop = "editorial_correction"
                  => r.pred # row[w].pred
             /\ r.hop = "legal" /\ row[w].hop = "legal"
                  => row[r.pred].legal # row[row[w].pred].legal
             /\ r.hop = "initial" /\ row[w].hop = "initial" => c # row[w].constitution
  <2>1. ASSUME r.hop = "editorial_correction", row[w].hop = "editorial_correction",
               r.pred = row[w].pred
        PROVE  FALSE
    <3>1. w \in EditorialSuccessors(r.pred, Present)
      BY <2>1 DEF EditorialSuccessors, ChainInv, Shape
    <3>2. r.pred \in EditorialTips(r.legal, Present)
      BY <2>1 DEF Joins
    <3> QED  BY <3>1, <3>2 DEF EditorialTips
  <2>2. ASSUME r.hop = "legal", row[w].hop = "legal",
               row[r.pred].legal = row[row[w].pred].legal
        PROVE  FALSE
    <3>1. w \in LegalSuccessors(row[r.pred].legal, Present)
      BY <2>2 DEF LegalSuccessors
    <3>2. row[r.pred].legal \in LegalTips(c, Present)
      BY <2>2 DEF Joins
    <3> QED  BY <3>1, <3>2 DEF LegalTips
  <2>3. r.hop = "initial" => c # row[w].constitution
    BY DEF Joins, VersionsOf
  <2> QED  BY <2>1, <2>2, <2>3
<1>3. \A v \in Present : row[v].hop = "legal" => row'[row[v].pred] = row[row[v].pred]
  OBVIOUS
<1>4. r.hop = "legal" => row'[r.pred] = row[r.pred]
  OBVIOUS
<1>5. r.constitution = c
  BY DEF Joins
<1>6. ASSUME NEW v \in Present', NEW w \in Present', v # w
      PROVE  /\ row'[v].hop = "editorial_correction" /\ row'[w].hop = "editorial_correction"
                  => row'[v].pred # row'[w].pred
             /\ row'[v].hop = "legal" /\ row'[w].hop = "legal"
                  => row'[row'[v].pred].legal # row'[row'[w].pred].legal
             /\ row'[v].hop = "initial" /\ row'[w].hop = "initial"
                  => row'[v].constitution # row'[w].constitution
  <2>1. CASE v \in Present /\ w \in Present
    BY <2>1, <1>3, <1>6 DEF ChainInv, LinearAxes
  <2>2. CASE v = id /\ w \in Present
    BY <2>2, <1>2, <1>3, <1>4, <1>5
  <2>3. CASE v \in Present /\ w = id
    BY <2>3, <1>2, <1>3, <1>4, <1>5
  <2> QED  BY <1>1, <1>6, <2>1, <2>2, <2>3
<1> QED  BY <1>6 DEF LinearAxes

LEMMA ChainInit == Init => ChainInv
<1> SUFFICES ASSUME Init PROVE ChainInv
  OBVIOUS
<1>1. Present = {}
  BY DEF Init, Present, AbsentRow
<1>2. \A c \in Constitution : VersionsOf(c) = {}
  BY <1>1 DEF VersionsOf
<1> QED  BY <1>1, <1>2, TypeInit DEF ChainInv, Shape, UniqueTips, LinearAxes

\* Publication changes nothing the chain is made of.
LEMMA PublishFrame ==
    ASSUME TypeOK, NEW v \in Version, NEW actor \in Actor, NEW job \in Opt(Attempt),
           PublishVersion(v, actor, job)
    PROVE  /\ Present' = Present
           /\ \A w \in Version :
                /\ row'[w] = [row[w] EXCEPT !.status = row'[w].status]
                /\ row'[w].status \in {row[w].status, "published"}
                /\ row'[w].constitution = row[w].constitution
                /\ row'[w].label = row[w].label
                /\ row'[w].hop = row[w].hop
                /\ row'[w].pred = row[w].pred
                /\ row'[w].legal = row[w].legal
                /\ row'[w].evidence = row[w].evidence
                /\ row'[w].hold = row[w].hold
<1>1. row' = [row EXCEPT ![v].status = "published"] /\ row[v].status # "absent"
  BY DEF PublishVersion
<1>2. \A w \in Version : row[w] \in Row
  BY DEF TypeOK
<1>3. row'[v] = [row[v] EXCEPT !.status = "published"] /\ \A w \in Version \ {v} : row'[w] = row[w]
  BY <1>1 DEF TypeOK
<1>4. row'[v].status = "published"
  BY <1>2, <1>3 DEF Row
<1>5. \A w \in Version :
        /\ row'[w] = [row[w] EXCEPT !.status = row'[w].status]
        /\ row'[w].status \in {row[w].status, "published"}
        /\ row'[w].status # "absent" <=> row[w].status # "absent"
  BY <1>1, <1>2, <1>3, <1>4 DEF Row
<1>6. \A w \in Version :
        /\ row'[w].constitution = row[w].constitution
        /\ row'[w].label = row[w].label
        /\ row'[w].hop = row[w].hop
        /\ row'[w].pred = row[w].pred
        /\ row'[w].legal = row[w].legal
        /\ row'[w].evidence = row[w].evidence
        /\ row'[w].hold = row[w].hold
  BY <1>2, <1>3 DEF Row
<1>7. Present' = Present
  BY <1>5 DEF Present
<1> QED  BY <1>5, <1>6, <1>7

LEMMA ChainStep == ChainInv /\ [Next]_vars => ChainInv'
<1> SUFFICES ASSUME ChainInv, [Next]_vars PROVE ChainInv'
  OBVIOUS
<1>t. TypeOK'
  BY TypeStep DEF ChainInv
<1>1. ASSUME NEW c \in Constitution, NEW id \in Version, NEW req \in Request,
             NEW a \in Opt(Attempt), CreateDraftVersion(c, id, req, a)
      PROVE  ChainInv'
  <2>1. PICK r \in Row : Joins(c, id, r)
    BY <1>1, NewLink
  <2> QED  BY <1>t, <2>1, JoinShape, JoinTips, JoinAxes DEF ChainInv
<1>2. ASSUME NEW v \in Version, NEW actor \in Actor, NEW job \in Opt(Attempt),
             PublishVersion(v, actor, job)
      PROVE  ChainInv'
  <2>1. /\ Present' = Present
        /\ \A w \in Version :
             /\ row'[w].constitution = row[w].constitution
             /\ row'[w].label = row[w].label
             /\ row'[w].hop = row[w].hop
             /\ row'[w].pred = row[w].pred
             /\ row'[w].legal = row[w].legal
    BY <1>2, PublishFrame DEF ChainInv
  <2>2. Present \subseteq Version
    BY DEF Present
  <2>3. \A w \in Version : LegalRow(w)' <=> LegalRow(w)
    BY <2>1 DEF LegalRow
  <2>4. Shape'
    BY <2>1, <2>2, <2>3 DEF ChainInv, Shape
  <2>5. \A w \in Version : EditorialSuccessors(w, Present)' = EditorialSuccessors(w, Present)
    BY <2>1, <2>2 DEF EditorialSuccessors
  <2>6. \A w \in Version : LegalSuccessors(w, Present)' = LegalSuccessors(w, Present)
    <3>1. \A x \in Present : row[x].hop = "legal" => row[x].pred \in Version
      BY <2>2 DEF ChainInv, Shape
    <3> QED  BY <3>1, <2>1, <2>2 DEF LegalSuccessors
  <2>7. \A l \in Version : EditorialTips(l, Present)' = EditorialTips(l, Present)
    BY <2>1, <2>2, <2>5 DEF EditorialTips
  <2>8. \A c \in Constitution : /\ LegalTips(c, Present)' = LegalTips(c, Present)
                                /\ VersionsOf(c)' = VersionsOf(c)
    BY <2>1, <2>2, <2>3, <2>6 DEF LegalTips, VersionsOf
  <2>9. UniqueTips'
    BY <2>1, <2>2, <2>7, <2>8 DEF ChainInv, UniqueTips
  <2>10. LinearAxes'
    <3>1. \A x \in Present : row[x].hop = "legal" => row[x].pred \in Version
      BY <2>2 DEF ChainInv, Shape
    <3> QED  BY <3>1, <2>1, <2>2 DEF ChainInv, LinearAxes
  <2> QED  BY <1>t, <2>4, <2>9, <2>10 DEF ChainInv
<1>3. CASE UNCHANGED row
  <2>1. Present' = Present
    BY <1>3 DEF Present
  <2>2. Shape'
    BY <1>3, <2>1 DEF ChainInv, Shape, LegalRow
  <2>3. UniqueTips'
    BY <1>3, <2>1 DEF ChainInv, UniqueTips, EditorialTips, EditorialSuccessors,
                      LegalTips, LegalSuccessors, LegalRow, VersionsOf
  <2>4. LinearAxes'
    BY <1>3, <2>1 DEF ChainInv, LinearAxes
  <2> QED  BY <1>t, <2>2, <2>3, <2>4 DEF ChainInv
<1> QED  BY <1>1, <1>2, <1>3 DEF Next, SaveSettings, vars

THEOREM ChainInvariant == Spec => []ChainInv
BY ChainInit, ChainStep, PTL DEF Spec

\* No two rows, drafts included, continue the same snapshot editorially, the same
\* legal version legally, or start the same constitution (VersionChain guards).
THEOREM AxesLinear == Spec => []LinearAxes
<1>1. ChainInv => LinearAxes
  BY DEF ChainInv
<1> QED  BY <1>1, ChainInvariant, PTL

\* The tip queries find exactly one row, so their ORDER BY never decides.
THEOREM TipsUnique == Spec => []UniqueTips
<1>1. ChainInv => UniqueTips
  BY DEF ChainInv
<1> QED  BY <1>1, ChainInvariant, PTL

(***************************************************************************)
(* Prefixes of the history.  The published rows are such a prefix while    *)
(* publication follows the chain.  What holds of all rows holds of every   *)
(* prefix, because a row joins only at the end of the whole chain.         *)
(***************************************************************************)
Closed(S) == \A v \in S : row[v].hop # "initial" => row[v].pred \in S

OneEnd(S) ==
    /\ \A v \in S : row[v].legal \in S
    /\ \A l \in Version : \A v, w \in EditorialTips(l, S) : v = w
    /\ \A c \in Constitution : \A v, w \in LegalTips(c, S) : v = w

PrefixInv == \A S \in SUBSET Present : Closed(S) => OneEnd(S)

\* Rows whose links stay the same have the same ends.
LEMMA SameLinks ==
    ASSUME Shape, NEW S \in SUBSET Present,
           \A v \in Present : /\ row'[v].constitution = row[v].constitution
                              /\ row'[v].hop = row[v].hop
                              /\ row'[v].pred = row[v].pred
                              /\ row'[v].legal = row[v].legal
    PROVE  /\ Closed(S)' => Closed(S)
           /\ OneEnd(S) => OneEnd(S)'
<1>1. \A v \in Present : row[v].hop # "initial" => row[v].pred \in Present
  BY DEF Shape
<1>2. \A v : EditorialSuccessors(v, S)' = EditorialSuccessors(v, S) \/ v \notin Present
  BY DEF EditorialSuccessors
<1>3. \A l : LegalSuccessors(l, S)' = LegalSuccessors(l, S)
  BY <1>1 DEF LegalSuccessors
<1>4. \A l : EditorialTips(l, S)' = EditorialTips(l, S)
  BY <1>2 DEF EditorialTips
<1>5. \A c : LegalTips(c, S)' = LegalTips(c, S)
  BY <1>3 DEF LegalTips, LegalRow
<1>6. Closed(S)' => Closed(S)
  BY DEF Closed
<1>7. OneEnd(S) => OneEnd(S)'
  BY <1>4, <1>5 DEF OneEnd
<1> QED  BY <1>6, <1>7

\* The successors inside a prefix once the new row stands behind the rows of T.
Continued(id, r, S, T) ==
    /\ EditorialSuccessors(id, S)' = {}
    /\ LegalSuccessors(id, S)' = {}
    /\ \A v \in T :
         /\ EditorialSuccessors(v, S)' =
              EditorialSuccessors(v, T) \cup
              (IF r.hop = "editorial_correction" /\ r.pred = v THEN {id} ELSE {})
         /\ LegalSuccessors(v, S)' =
              LegalSuccessors(v, T) \cup
              (IF r.hop = "legal" /\ row[r.pred].legal = v THEN {id} ELSE {})

LEMMA PrefixSuccessors ==
    ASSUME ChainInv, NEW c \in Constitution, NEW id \in Version, NEW r \in Row, Joins(c, id, r),
           NEW T \in SUBSET Present, NEW S, S = T \cup {id}
    PROVE  Continued(id, r, S, T)
<1> Framed(c, id, r)
  BY JoinFrame
<1> USE DEF Framed
<1>1. r.hop = "editorial_correction" => r.legal = row[r.pred].legal
  BY DEF Joins
<1>2. r.hop = "legal" => row'[r.pred] = row[r.pred] /\ row[r.pred].legal # id
  OBVIOUS
<1>3. \A w \in Present : row[w].hop = "legal" => /\ row'[row[w].pred] = row[row[w].pred]
                                                /\ row[row[w].pred].legal # id
  OBVIOUS
<1>4. EditorialSuccessors(id, S)' = {}
  BY DEF EditorialSuccessors
<1>5. LegalSuccessors(id, S)' = {}
  BY <1>2, <1>3 DEF LegalSuccessors
<1>6. ASSUME NEW v \in T
      PROVE  EditorialSuccessors(v, S)' =
               EditorialSuccessors(v, T) \cup
               (IF r.hop = "editorial_correction" /\ r.pred = v THEN {id} ELSE {})
  BY <1>1 DEF EditorialSuccessors
<1>7. ASSUME NEW v \in T
      PROVE  LegalSuccessors(v, S)' =
               LegalSuccessors(v, T) \cup
               (IF r.hop = "legal" /\ row[r.pred].legal = v THEN {id} ELSE {})
  BY <1>2, <1>3 DEF LegalSuccessors
<1> QED  BY <1>4, <1>5, <1>6, <1>7 DEF Continued

\* A prefix that holds the new row ended, without it, where the whole chain did.
LEMMA JoinPrefix ==
    ASSUME ChainInv, PrefixInv, NEW c \in Constitution, NEW id \in Version, NEW r \in Row,
           Joins(c, id, r)
    PROVE  PrefixInv'
<1> SUFFICES ASSUME NEW S \in SUBSET (Present'), Closed(S)' PROVE OneEnd(S)'
  BY DEF PrefixInv
<1>f. Framed(c, id, r)
  BY JoinFrame
<1>p. Present' = Present \cup {id}
  BY DEF Joins
<1>1. CASE id \notin S
  <2>1. S \in SUBSET Present
    BY <1>p, <1>1
  <2>2. /\ Closed(S)' => Closed(S)
        /\ OneEnd(S) => OneEnd(S)'
    BY <2>1, <1>f, SameLinks DEF ChainInv, Framed
  <2> QED  BY <2>1, <2>2 DEF PrefixInv
<1>2. CASE id \in S
  <2>0. PICK T \in SUBSET Present : S = T \cup {id}
    <3>1. S \ {id} \in SUBSET Present /\ S = (S \ {id}) \cup {id}
      BY <1>p, <1>2
    <3> QED  BY <3>1
  <2>1. \A v \in T : row'[v] = row[v]
    BY <2>0, <1>f DEF Framed
  <2>2. Closed(T)
    BY <2>0, <1>f DEF Closed, Framed
  <2>3. OneEnd(T)
    BY <2>0, <2>2 DEF PrefixInv
  <2>4. r.hop # "initial" => r.pred \in T
    BY <2>0, <1>2, <1>f DEF Closed, Framed
  <2>5. row'[id] = r
    BY <1>f DEF Framed
  <2>6. Continued(id, r, S, T)
    BY <2>0, PrefixSuccessors
  <2>7. \A v \in S : row'[v].legal \in S
    <3>1. r.legal \in S
      <4>1. r.hop = "editorial_correction" => r.legal = row[r.pred].legal
        BY DEF Joins
      <4>2. r.hop # "editorial_correction" => r.legal = id
        BY DEF Joins
      <4> QED  BY <4>1, <4>2, <2>0, <2>3, <2>4, <1>2 DEF OneEnd, Joins
    <3> QED  BY <3>1, <2>0, <2>1, <2>3, <2>5 DEF OneEnd
  <2>8. ASSUME NEW l \in Version, NEW v \in EditorialTips(l, S)', NEW w \in EditorialTips(l, S)'
        PROVE  v = w
    <3>1. CASE r.hop = "editorial_correction" /\ r.legal = l
      <4>1. r.pred \in T /\ row[r.pred].legal = l /\ EditorialTips(l, Present) = {r.pred}
        BY <3>1, <2>4 DEF Joins
      <4>2. r.pred \in EditorialTips(l, T)
        BY <4>1, <2>0 DEF EditorialTips, EditorialSuccessors
      <4>3. \A x \in T : x \notin EditorialTips(l, S)'
        <5> SUFFICES ASSUME NEW x \in T, x \in EditorialTips(l, S)' PROVE FALSE
          OBVIOUS
        <5>1. row[x].legal = l /\ EditorialSuccessors(x, S)' = {}
          BY <2>1 DEF EditorialTips
        <5>2. x # r.pred /\ EditorialSuccessors(x, T) = {}
          BY <5>1, <2>6, <3>1 DEF Continued
        <5>3. x \in EditorialTips(l, T)
          BY <5>1, <5>2 DEF EditorialTips
        <5> QED  BY <5>2, <5>3, <4>2, <2>3 DEF OneEnd
      <4> QED  BY <4>3, <2>0 DEF EditorialTips
    <3>2. CASE ~(r.hop = "editorial_correction" /\ r.legal = l)
      <4>1. ASSUME NEW x \in T, x \in EditorialTips(l, S)'
            PROVE  x \in EditorialTips(l, T) /\ l # id
        <5>1. row[x].legal = l /\ EditorialSuccessors(x, S)' = {}
          BY <4>1, <2>1 DEF EditorialTips
        <5>2. EditorialSuccessors(x, T) = {}
          BY <5>1, <2>6 DEF Continued
        <5>3. l # id
          BY <5>1, <2>0, <1>f DEF Framed
        <5> QED  BY <5>1, <5>2, <5>3 DEF EditorialTips
      <4>2. id \in EditorialTips(l, S)' => l = id
        BY <3>2, <2>5 DEF EditorialTips, Joins
      <4> QED  BY <4>1, <4>2, <2>0, <2>3 DEF EditorialTips, OneEnd
    <3> QED  BY <3>1, <3>2
  <2>9. ASSUME NEW d \in Constitution, NEW v \in LegalTips(d, S)', NEW w \in LegalTips(d, S)'
        PROVE  v = w
    <3>0. ASSUME NEW x \in T, x \in LegalTips(d, S)'
          PROVE  /\ x \in LegalTips(d, T)
                 /\ r.hop = "legal" => x # row[r.pred].legal
                 /\ row[x].constitution = d
      <4>1. row[x].constitution = d /\ LegalRow(x) /\ LegalSuccessors(x, S)' = {}
        BY <3>0, <2>1 DEF LegalTips, LegalRow
      <4> QED  BY <4>1, <2>6 DEF LegalTips, Continued
    <3>1. CASE d = c /\ r.hop = "legal"
      <4> DEFINE l == row[r.pred].legal
      <4>1. l \in T /\ LegalTips(c, Present) = {l}
        BY <3>1, <2>3, <2>4 DEF OneEnd, Joins
      <4>2. l \in LegalTips(c, T)
        BY <4>1, <2>0 DEF LegalTips, LegalSuccessors
      <4>3. \A x \in T : x \notin LegalTips(d, S)'
        BY <3>0, <3>1, <4>2, <2>3 DEF OneEnd
      <4> QED  BY <4>3, <2>0 DEF LegalTips
    <3>2. CASE d = c /\ r.hop = "initial"
      <4>1. \A x \in T : row[x].constitution # d
        BY <3>2, <2>0 DEF Joins, VersionsOf
      <4>2. \A x \in T : x \notin LegalTips(d, S)'
        BY <3>0, <4>1
      <4> QED  BY <4>2, <2>0 DEF LegalTips
    <3>3. CASE d # c \/ r.hop = "editorial_correction"
      <4>1. id \notin LegalTips(d, S)'
        BY <3>3, <2>5 DEF LegalTips, LegalRow, Joins
      <4>2. v \in T /\ w \in T
        BY <4>1, <2>0 DEF LegalTips
      <4> QED  BY <4>2, <3>0, <2>3 DEF OneEnd
    <3> QED  BY <3>1, <3>2, <3>3 DEF Joins
  <2> QED  BY <2>7, <2>8, <2>9 DEF OneEnd
<1> QED  BY <1>1, <1>2

LEMMA PrefixStep == ChainInv /\ PrefixInv /\ [Next]_vars => PrefixInv'
<1> SUFFICES ASSUME ChainInv, PrefixInv, [Next]_vars PROVE PrefixInv'
  OBVIOUS
<1>1. ASSUME NEW c \in Constitution, NEW id \in Version, NEW req \in Request,
             NEW a \in Opt(Attempt), CreateDraftVersion(c, id, req, a)
      PROVE  PrefixInv'
  BY <1>1, NewLink, JoinPrefix
<1>2. ASSUME Present' = Present,
             \A v \in Present : /\ row'[v].constitution = row[v].constitution
                                /\ row'[v].hop = row[v].hop
                                /\ row'[v].pred = row[v].pred
                                /\ row'[v].legal = row[v].legal
      PROVE  PrefixInv'
  <2> SUFFICES ASSUME NEW S \in SUBSET (Present'), Closed(S)' PROVE OneEnd(S)'
    BY DEF PrefixInv
  <2>1. /\ Closed(S)' => Closed(S)
        /\ OneEnd(S) => OneEnd(S)'
    BY <1>2, SameLinks DEF ChainInv
  <2> QED  BY <1>2, <2>1 DEF PrefixInv
<1>3. ASSUME NEW v \in Version, NEW actor \in Actor, NEW job \in Opt(Attempt),
             PublishVersion(v, actor, job)
      PROVE  PrefixInv'
  <2>1. Present \subseteq Version
    BY DEF Present
  <2> QED  BY <1>2, <1>3, <2>1, PublishFrame DEF ChainInv
<1>4. CASE UNCHANGED row
  <2>1. Present' = Present
    BY <1>4 DEF Present
  <2> QED  BY <1>2, <1>4, <2>1
<1> QED  BY <1>1, <1>3, <1>4 DEF Next, SaveSettings, vars

\* Every prefix of the history has one end per legal version and per constitution.
LEMMA PrefixAlways == Spec => []PrefixInv
<1>1. Init => PrefixInv
  BY DEF Init, AbsentRow, Present, PrefixInv, OneEnd, EditorialTips, LegalTips
<1> QED  BY <1>1, PrefixStep, ChainInvariant, PTL DEF Spec

LEMMA AtMostOne ==
    ASSUME NEW T, \A v, w \in T : v = w
    PROVE  Cardinality(T) <= 1
<1>1. CASE T = {}
  BY <1>1, FS_EmptySet
<1>2. CASE T # {}
  <2>1. PICK t : T = {t}
    BY <1>2
  <2> QED  BY <2>1, FS_Singleton
<1> QED  BY <1>1, <1>2

\* While every published row has its predecessor published, the readers' queries find one
\* latest legal version and one current text of each (findLegalTip, findEditorialTip).
THEOREM OrderedHistoryEnds == Spec => []OrderedHistoryHasOneLatest
<1>1. ChainInv /\ PrefixInv => OrderedHistoryHasOneLatest
  <2> SUFFICES ASSUME ChainInv, PrefixInv, PublishedInOrder
               PROVE  \A c \in Constitution :
                        /\ Cardinality(LegalTips(c, Published)) <= 1
                        /\ \A l \in Published : Cardinality(EditorialTips(l, Published)) <= 1
    BY DEF OrderedHistoryHasOneLatest
  <2>1. Published \in SUBSET Present /\ Present \subseteq Version
    BY DEF Published, Present
  <2>2. Closed(Published)
    BY <2>1, NoneAssumption DEF Closed, PublishedInOrder, ChainInv, Shape
  <2>3. OneEnd(Published)
    BY <2>1, <2>2 DEF PrefixInv
  <2>4. \A c \in Constitution : Cardinality(LegalTips(c, Published)) <= 1
    BY <2>3, AtMostOne DEF OneEnd
  <2>5. \A l \in Published : Cardinality(EditorialTips(l, Published)) <= 1
    BY <2>1, <2>3, AtMostOne DEF OneEnd
  <2> QED  BY <2>4, <2>5
<1> QED  BY <1>1, PrefixAlways, ChainInvariant, PTL

(***************************************************************************)
(* The rows are history.                                                   *)
(***************************************************************************)
\* A row that exists is only ever published: no step withdraws it or rewrites it.
THEOREM AppendOnly == Spec => HistoryIsAppendOnly
<1> DEFINE Kept == \A v \in Version : row[v].status # "absent" =>
                     /\ row'[v] = [row[v] EXCEPT !.status = row'[v].status]
                     /\ row'[v].status \in {row[v].status, "published"}
<1>1. TypeOK /\ [Next]_vars => Kept
  <2> SUFFICES ASSUME TypeOK, [Next]_vars PROVE Kept
    OBVIOUS
  <2>1. ASSUME NEW c \in Constitution, NEW id \in Version, NEW req \in Request,
               NEW a \in Opt(Attempt), CreateDraftVersion(c, id, req, a)
        PROVE  Kept
    <3>1. row[id].status = "absent" /\ \A v \in Version \ {id} : row'[v] = row[v]
      BY <2>1 DEF CreateDraftVersion, TypeOK
    <3>2. \A v \in Version : row[v] = [row[v] EXCEPT !.status = row[v].status]
      BY DEF TypeOK, Row
    <3> QED  BY <3>1, <3>2
  <2>2. ASSUME NEW v \in Version, NEW actor \in Actor, NEW job \in Opt(Attempt),
               PublishVersion(v, actor, job)
        PROVE  Kept
    BY <2>2, PublishFrame
  <2>3. CASE UNCHANGED row
    <3>1. \A v \in Version : row[v] = [row[v] EXCEPT !.status = row[v].status]
      BY DEF TypeOK, Row
    <3> QED  BY <2>3, <3>1
  <2> QED  BY <2>1, <2>2, <2>3 DEF Next, SaveSettings, vars
<1>2. Kept => Kept \/ UNCHANGED vars
  OBVIOUS
<1>3. Spec => [][Kept]_vars
  BY <1>1, TypeCorrect, PTL DEF Spec
<1> QED  BY <1>3 DEF HistoryIsAppendOnly

\* The partial unique indexes are a second line of defence: a draft the tip guards let
\* in is never refused by them at publication.
THEOREM IndexNeverRejects == Spec => [](\A v \in Present : UniqueAmongPublished(v))
<1>1. ChainInv => \A v \in Present : UniqueAmongPublished(v)
  <2> SUFFICES ASSUME ChainInv, NEW v \in Present PROVE UniqueAmongPublished(v)
    OBVIOUS
  <2>1. Published \subseteq Present
    BY DEF Published, Present
  <2>2. row[v].hop \in {"initial", "legal", "editorial_correction"}
    BY DEF ChainInv, Shape
  <2>3. ASSUME NEW w \in Published \ {v}, row[w].hop = row[v].hop, row[w].pred = row[v].pred
        PROVE  row[v].hop = "initial"
    BY <2>1, <2>2, <2>3 DEF ChainInv, LinearAxes
  <2> QED  BY <2>3 DEF UniqueAmongPublished
<1> QED  BY <1>1, ChainInvariant, PTL

(***************************************************************************)
(* Reservations.                                                           *)
(***************************************************************************)
\* What the row of a reservation shares with the request it was made for.  A request
\* without evidence, when it corrects a snapshot, took that snapshot's evidence.
Describes(v, c, q) ==
    /\ v \in Present
    /\ row[v].constitution = c
    /\ row[v].label = q.label
    /\ row[v].pred = q.pred
    /\ row[v].hold = q.job
    /\ q.evidence # None => row[v].evidence = q.evidence
    /\ q.evidence = None /\ q.hop = "editorial_correction" /\ q.pred # None =>
         q.pred \in Present /\ row[v].evidence = row[q.pred].evidence

ReservedRows ==
    /\ \A a, b \in Attempt :
         a # b /\ reservation[a] # None /\ reservation[b] # None
           => reservation[a].version # reservation[b].version
    /\ \A a \in Attempt : reservation[a] # None =>
         Describes(reservation[a].version, reservation[a].constitution, reservation[a].request)

LEMMA NewRowDescribed ==
    ASSUME TypeOK, NEW c \in Constitution, NEW id \in Version, NEW req \in Request,
           NEW a \in Opt(Attempt), CreateDraftVersion(c, id, req, a)
    PROVE  /\ id \notin Present
           /\ \A v \in Present : row'[v] = row[v]
           /\ Present' = Present \cup {id}
           /\ Describes(id, c, req)'
<1>1. PICK hop \in {"initial", CanonicalHop(req.hop)}, legal \in Version :
         /\ ChainAllows(c, id, req, hop, legal)
         /\ row' = [row EXCEPT ![id] = NewRow(c, req, hop, legal)]
  BY DEF CreateDraftVersion
<1> DEFINE r == NewRow(c, req, hop, legal)
<1>2. r \in Row /\ r.status = "draft"
  BY <1>1, NewRowType
<1>3. id \notin Present
  BY DEF CreateDraftVersion, Present
<1>4. row'[id] = r /\ \A v \in Version \ {id} : row'[v] = row[v]
  BY <1>1 DEF TypeOK
<1>5. Present' = Present \cup {id}
  BY <1>2, <1>4 DEF Present
<1>6. /\ r.constitution = c
      /\ r.label = req.label
      /\ r.pred = req.pred
      /\ r.hold = req.job
      /\ req.evidence # None => r.evidence = req.evidence
  BY DEF NewRow
<1>7. ASSUME req.evidence = None, req.hop = "editorial_correction", req.pred # None
      PROVE  req.pred \in Present /\ r.evidence = row[req.pred].evidence
  <2>1. req.pred \in VersionsOf(c) /\ hop = "editorial_correction"
    BY <1>1, <1>7 DEF ChainAllows, CanonicalHop
  <2> QED  BY <1>7, <2>1 DEF VersionsOf, NewRow
<1>8. req.pred \in Present => row'[req.pred] = row[req.pred]
  BY <1>3, <1>4 DEF Present
<1>9. id \in Present'
  BY <1>5
<1>10. Describes(id, c, req)'
  BY <1>4, <1>5, <1>6, <1>7, <1>8, <1>9 DEF Describes
<1>11. \A v \in Present : row'[v] = row[v]
  BY <1>3, <1>4 DEF Present
<1> QED  BY <1>3, <1>5, <1>10, <1>11

LEMMA ReservedStep == TypeOK /\ ReservedRows /\ [Next]_vars => ReservedRows'
<1> SUFFICES ASSUME TypeOK, ReservedRows, [Next]_vars PROVE ReservedRows'
  OBVIOUS
<1>1. ASSUME NEW c \in Constitution, NEW id \in Version, NEW req \in Request,
             NEW a \in Opt(Attempt), CreateDraftVersion(c, id, req, a)
      PROVE  ReservedRows'
  <2>1. /\ id \notin Present
        /\ \A v \in Present : row'[v] = row[v]
        /\ Present' = Present \cup {id}
        /\ Describes(id, c, req)'
    BY <1>1, NewRowDescribed
  <2>2. ASSUME NEW v, NEW d, NEW q, Describes(v, d, q) PROVE Describes(v, d, q)'
    BY <2>1, <2>2 DEF Describes
  <2>3. CASE a = None
    BY <1>1, <2>2, <2>3 DEF CreateDraftVersion, ReservedRows
  <2>4. CASE a # None
    <3>1. a \in Attempt
      BY <2>4 DEF Opt
    <3>2. /\ reservation'[a] = [version |-> id, constitution |-> c, request |-> req]
          /\ \A b \in Attempt \ {a} : reservation'[b] = reservation[b]
      BY <1>1, <2>4, <3>1 DEF CreateDraftVersion, TypeOK
    <3>3. \A b \in Attempt : reservation[b] # None => reservation[b].version # id
      BY <2>1 DEF ReservedRows, Describes
    <3>4. ASSUME NEW b \in Attempt, reservation'[b] # None
          PROVE  Describes(reservation[b].version, reservation[b].constitution,
                           reservation[b].request)'
      <4>1. CASE b = a
        BY <3>2, <4>1, <2>1 DEF Describes
      <4>2. CASE b # a
        <5>1. reservation'[b] = reservation[b]
          BY <3>2, <4>2
        <5>2. Describes(reservation[b].version, reservation[b].constitution,
                        reservation[b].request)
          BY <5>1, <3>4 DEF ReservedRows
        <5> QED  BY <5>1, <5>2, <2>1 DEF Describes
      <4> QED  BY <4>1, <4>2
    <3>5. ASSUME NEW x \in Attempt, NEW y \in Attempt, x # y,
                 reservation'[x] # None, reservation'[y] # None
          PROVE  reservation'[x].version # reservation'[y].version
      BY <3>2, <3>3, <3>5 DEF ReservedRows
    <3> QED  BY <3>4, <3>5 DEF ReservedRows
  <2> QED  BY <2>3, <2>4
<1>2. ASSUME NEW v \in Version, NEW actor \in Actor, NEW job \in Opt(Attempt),
             PublishVersion(v, actor, job)
      PROVE  ReservedRows'
  <2>1. Present \subseteq Version
    BY DEF Present
  <2>2. reservation' = reservation
    BY <1>2 DEF PublishVersion
  <2>3. /\ Present' = Present
        /\ \A w \in Version :
             /\ row'[w].constitution = row[w].constitution
             /\ row'[w].label = row[w].label
             /\ row'[w].pred = row[w].pred
             /\ row'[w].evidence = row[w].evidence
             /\ row'[w].hold = row[w].hold
    BY <1>2, PublishFrame
  <2>4. ASSUME NEW x, NEW c, NEW q, Describes(x, c, q) PROVE Describes(x, c, q)'
    BY <2>1, <2>3, <2>4 DEF Describes
  <2> QED  BY <2>2, <2>4 DEF ReservedRows
<1>3. CASE UNCHANGED <<row, reservation>>
  BY <1>3 DEF ReservedRows, Describes, Present
<1> QED  BY <1>1, <1>2, <1>3 DEF Next, SaveSettings, vars

\* Every retry of a publish attempt the catalog accepts is answered with the snapshot
\* that attempt reserved, and that snapshot is what the retry asked for.
THEOREM RetriesAreFaithful == Spec => []ReservationFaithful
<1>1. Init => ReservedRows
  BY DEF Init, ReservedRows
<1>2. TypeOK /\ ReservedRows => ReservationFaithful
  <2> SUFFICES ASSUME TypeOK, ReservedRows, NEW a \in Attempt, reservation[a] # None,
                      NEW req \in Request, Replays(reservation[a].constitution, req, a)
               PROVE  LET v == reservation[a].version
                      IN  /\ row[v].status # "absent"
                          /\ row[v].constitution = reservation[a].constitution
                          /\ row[v].label = req.label
                          /\ row[v].pred = req.pred
                          /\ row[v].hold = req.job
                          /\ req.evidence # None => row[v].evidence = req.evidence
    BY DEF ReservationFaithful, ReservedRows
  <2> DEFINE q == reservation[a].request
             v == reservation[a].version
  <2>1. Describes(v, reservation[a].constitution, q) /\ SameRequest(q, req)
    BY DEF ReservedRows, Replays
  <2>2. CASE q = req
    BY <2>1, <2>2 DEF Describes, Present
  <2>3. CASE q # req
    <3>1. /\ req.evidence # None
          /\ req.hop = "editorial_correction"
          /\ req.pred # None
          /\ row[req.pred].evidence = req.evidence
          /\ q = [req EXCEPT !.evidence = None]
      BY <2>1, <2>3 DEF SameRequest
    <3>2. /\ q.evidence = None
          /\ q.hop = req.hop
          /\ q.pred = req.pred
          /\ q.label = req.label
          /\ q.job = req.job
      BY <3>1 DEF Request
    <3> QED  BY <2>1, <3>1, <3>2 DEF Describes, Present
  <2> QED  BY <2>2, <2>3
<1> QED  BY <1>1, <1>2, ReservedStep, TypeCorrect, PTL DEF Spec

(***************************************************************************)
(* The age of a row.  Rows join one at a time and each names an older one: *)
(* the chain cannot turn back on itself, and it is finite.                 *)
(***************************************************************************)
\* age orders the rows by the time they joined; n bounds the ages and the labels.
Ages(n, age) ==
    \A v \in Present :
        /\ age[v] <= n
        /\ row[v].label <= n
        /\ row[v].hop # "initial" => age[row[v].pred] < age[v]
        /\ age[row[v].legal] <= age[v]

Aged == \E n \in Nat : \E age \in [Version -> Nat] : Ages(n, age)

UniqueLabels ==
    \A v, w \in Present :
        v # w /\ row[v].constitution = row[w].constitution => row[v].label # row[w].label

FirstIsAlone == \A v \in Present : row[v].hop = "initial" => row[v].pred = None

Grown == IsFiniteSet(Present) /\ Aged /\ UniqueLabels /\ FirstIsAlone

\* The new row is older than none, and its label bounds the labels if it is the greatest.
LEMMA JoinAges ==
    ASSUME ChainInv, Aged, NEW c \in Constitution, NEW id \in Version, NEW r \in Row,
           Joins(c, id, r)
    PROVE  Aged'
<1> Framed(c, id, r)
  BY JoinFrame
<1>p. Present' = Present \cup {id} /\ Present \subseteq Version
  BY DEF Joins, Present
<1>1. PICK n \in Nat, age \in [Version -> Nat] : Ages(n, age)
  BY DEF Aged
<1>2. PICK l \in Nat : l = r.label
  BY LabelAssumption DEF Joins
<1>3. PICK m \in Nat : m > n /\ l <= m
  <2>1. n + l + 1 \in Nat /\ n + l + 1 > n /\ l <= n + l + 1
    OBVIOUS
  <2> QED  BY <2>1
<1> DEFINE new == [age EXCEPT ![id] = m]
<1>4. new \in [Version -> Nat] /\ new[id] = m /\ \A v \in Present : new[v] = age[v]
  BY <1>p DEF Framed
<1> HIDE DEF new
<1>5. ASSUME NEW v \in Present
      PROVE  /\ new[v] <= m
             /\ row'[v].label <= m
             /\ row'[v].hop # "initial" => new[row'[v].pred] < new[v]
             /\ new[row'[v].legal] <= new[v]
  <2>1. row'[v] = row[v] /\ new[v] = age[v] /\ age[v] \in Nat
    BY <1>4, <1>p DEF Framed
  <2>2. row[v].label \in Nat /\ row[v].legal \in Present
    BY LabelAssumption DEF ChainInv, Shape
  <2>3. row[v].hop # "initial" => row[v].pred \in Present
    BY DEF ChainInv, Shape
  <2>4. /\ age[v] <= n
        /\ row[v].label <= n
        /\ row[v].hop # "initial" => age[row[v].pred] < age[v]
        /\ age[row[v].legal] <= age[v]
    BY <1>1 DEF Ages
  <2>5. age[v] <= m
    BY <2>1, <2>4, <1>3
  <2>6. PICK x \in Nat : x = row[v].label
    BY <2>2
  <2>7. x <= m
    BY <2>4, <2>6, <1>3
  <2> QED  BY <2>1, <2>2, <2>3, <2>4, <2>5, <2>6, <2>7, <1>4
<1>6. /\ new[id] <= m
      /\ row'[id].label <= m
      /\ row'[id].hop # "initial" => new[row'[id].pred] < new[id]
      /\ new[row'[id].legal] <= new[id]
  <2>1. row'[id] = r /\ new[id] = m
    BY <1>4 DEF Framed
  <2>2. ASSUME NEW v \in Present PROVE new[v] < m
    <3>1. age[v] \in Nat /\ age[v] <= n /\ new[v] = age[v]
      BY <1>1, <1>4, <1>p DEF Ages
    <3> QED  BY <3>1, <1>3
  <2>3. r.hop # "initial" => new[r.pred] < m
    BY <2>2 DEF Framed
  <2>4. new[r.legal] <= m
    <3>1. CASE r.legal = id  BY <3>1, <2>1
    <3>2. CASE r.legal \in Present
      <4>1. PICK x \in Nat : x = new[r.legal]
        BY <3>2, <1>p, <1>4
      <4> QED  BY <4>1, <2>2, <3>2
    <3> QED  BY <3>1, <3>2 DEF Framed
  <2>5. m <= m  OBVIOUS
  <2> QED  BY <2>1, <2>3, <2>4, <2>5, <1>2, <1>3
<1>7. Ages(m, new)'
  BY <1>5, <1>6, <1>p DEF Ages
<1> QED  BY <1>4, <1>7 DEF Aged

\* What a row joins with, and what stays when links and labels do.
LEMMA GrownStep == ChainInv /\ Grown /\ [Next]_vars => Grown'
<1> SUFFICES ASSUME ChainInv, Grown, [Next]_vars PROVE Grown'
  OBVIOUS
<1>p. Present \subseteq Version
  BY DEF Present
<1>1. ASSUME NEW c \in Constitution, NEW id \in Version, NEW req \in Request,
             NEW a \in Opt(Attempt), CreateDraftVersion(c, id, req, a)
      PROVE  Grown'
  <2>1. PICK r \in Row : Joins(c, id, r)
    BY <1>1, NewLink
  <2>2. Framed(c, id, r)
    BY <2>1, JoinFrame
  <2>3. Present' = Present \cup {id}
    BY <2>1 DEF Joins
  <2>4. IsFiniteSet(Present)'
    BY <2>3, FS_AddElement DEF Grown
  <2>5. Aged'
    BY <2>1, JoinAges DEF Grown
  <2>6. \A v \in Present : row[v].constitution = c => row[v].label # r.label
    BY <2>1 DEF Joins, LabelTaken, VersionsOf
  <2>7. UniqueLabels'
    <3> SUFFICES ASSUME NEW v \in Present', NEW w \in Present', v # w,
                        row'[v].constitution = row'[w].constitution
                 PROVE  row'[v].label # row'[w].label
      BY DEF UniqueLabels
    <3>1. row'[id] = r /\ r.constitution = c /\ \A x \in Present : row'[x] = row[x]
      BY <2>1, <2>2 DEF Joins, Framed
    <3>2. CASE v \in Present /\ w \in Present
      BY <3>1, <3>2 DEF Grown, UniqueLabels
    <3>3. CASE v = id \/ w = id
      BY <3>1, <3>3, <2>3, <2>6
    <3> QED  BY <3>2, <3>3, <2>3
  <2>8. FirstIsAlone'
    <3>1. r.hop = "initial" => r.pred = None
      BY <2>1 DEF Joins
    <3> QED  BY <3>1, <2>2, <2>3 DEF Framed, Grown, FirstIsAlone
  <2> QED  BY <2>4, <2>5, <2>7, <2>8 DEF Grown
<1>2. ASSUME Present' = Present,
             \A v \in Present : /\ row'[v].constitution = row[v].constitution
                                /\ row'[v].label = row[v].label
                                /\ row'[v].hop = row[v].hop
                                /\ row'[v].pred = row[v].pred
                                /\ row'[v].legal = row[v].legal
      PROVE  Grown'
  <2>1. Aged'
    <3>1. PICK n \in Nat, age \in [Version -> Nat] : Ages(n, age)
      BY DEF Grown, Aged
    <3>2. Ages(n, age)'
      BY <3>1, <1>2 DEF Ages
    <3> QED  BY <3>2 DEF Aged
  <2> QED  BY <2>1, <1>2 DEF Grown, UniqueLabels, FirstIsAlone
<1>3. ASSUME NEW v \in Version, NEW actor \in Actor, NEW job \in Opt(Attempt),
             PublishVersion(v, actor, job)
      PROVE  Grown'
  BY <1>2, <1>3, <1>p, PublishFrame DEF ChainInv
<1>4. CASE UNCHANGED row
  <2>1. Present' = Present
    BY <1>4 DEF Present
  <2> QED  BY <1>2, <1>4, <2>1
<1> QED  BY <1>1, <1>3, <1>4 DEF Next, SaveSettings, vars

LEMMA GrownInit == Init => Grown
<1> SUFFICES ASSUME Init PROVE Grown
  OBVIOUS
<1>1. Present = {}
  BY DEF Init, Present, AbsentRow
<1>2. Ages(0, [v \in Version |-> 0])
  BY <1>1 DEF Ages
<1>3. [v \in Version |-> 0] \in [Version -> Nat] /\ 0 \in Nat
  OBVIOUS
<1>4. Aged
  BY <1>2, <1>3 DEF Aged
<1> QED  BY <1>1, <1>4, FS_EmptySet DEF Grown, UniqueLabels, FirstIsAlone

\* Rows are finite in number, each is younger than its predecessor, and labels differ.
LEMMA GrownAlways == Spec => []Grown
BY GrownInit, GrownStep, ChainInvariant, PTL DEF Spec

(***************************************************************************)
(* The public rows of one constitution.                                    *)
(***************************************************************************)
\* Every set of natural numbers that is not empty has a least one.
LEMMA LeastOfSet ==
  ASSUME NEW T, T \subseteq Nat, T # {}
  PROVE  \E m \in T : \A k \in T : m <= k
<1> DEFINE R == StrictSubsetOrdering(Nat)
           F == {0..m : m \in T}
<1>1. F \subseteq FiniteSubsetsOf(Nat)
  <2>1. \A m \in T : IsFiniteSet(0..m) /\ 0..m \subseteq Nat
    BY FS_Interval
  <2> QED BY <2>1 DEF FiniteSubsetsOf
<1>2. F # {} OBVIOUS
<1>3. PICK X \in F : \A Y \in F : ~ (<<Y, X>> \in R)
  BY <1>1, <1>2, WFMin, FS_StrictSubsetOrderingWellFounded
<1>4. PICK m \in T : X = 0..m  OBVIOUS
<1>5. ASSUME NEW k \in T, k < m PROVE FALSE
  <2>1. 0..k \in F OBVIOUS
  <2>2. 0..k # 0..m /\ 0..k \subseteq 0..m BY <1>5
  <2>3. <<0..k, 0..m>> \in R BY <2>2 DEF StrictSubsetOrdering
  <2> QED BY <2>1, <2>3, <1>3, <1>4
<1> QED BY <1>5, <1>4

\* A number that is bounded on a set which is not empty has a greatest value there.
LEMMA GreatestValue ==
    ASSUME NEW T, T # {}, NEW f, NEW n \in Nat, \A v \in T : f[v] \in Nat /\ f[v] <= n
    PROVE  \E v \in T : \A w \in T : f[w] <= f[v]
<1> DEFINE D == {n - f[v] : v \in T}
<1>1. D \subseteq Nat /\ D # {}
  OBVIOUS
<1>2. PICK m \in D : \A k \in D : m <= k
  <2> HIDE DEF D
  <2> QED  BY <1>1, LeastOfSet
<1>3. PICK v \in T : m = n - f[v]
  OBVIOUS
<1>4. ASSUME NEW w \in T PROVE f[w] <= f[v]
  <2>1. n - f[w] \in D
    OBVIOUS
  <2>2. m <= n - f[w]
    BY <1>2, <2>1
  <2>3. PICK x \in Nat, y \in Nat : x = f[w] /\ y = f[v]
    OBVIOUS
  <2>4. n - y <= n - x
    BY <2>2, <2>3, <1>3
  <2>5. x <= y
    BY <2>4
  <2> QED  BY <2>3, <2>5
<1> QED  BY <1>4

\* LIMIT 1 returns a row if there is one, and it has the greatest label.
LEMMA FirstOfSome ==
    ASSUME ChainInv, Grown, NEW T, T \subseteq Present, T # {}
    PROVE  First(T) \in T
<1>1. PICK n \in Nat, age \in [Version -> Nat] : Ages(n, age)
  BY DEF Grown, Aged
<1> DEFINE f == [v \in Present |-> row[v].label]
<1>2. \A v \in T : f[v] = row[v].label /\ f[v] \in Nat /\ f[v] <= n
  BY <1>1, LabelAssumption DEF Ages, ChainInv, Shape
<1> HIDE DEF f
<1>3. PICK v \in T : \A w \in T : f[w] <= f[v]
  BY <1>2, GreatestValue
<1>4. \A w \in T : row[w].label <= row[v].label
  BY <1>2, <1>3
<1> QED  BY <1>4 DEF First

LegalPublished(c) == {l \in Published : row[l].constitution = c /\ LegalRow(l)}

Entry(l) ==
    [id |-> FindEditorialTip(l, Published), legalVersionId |-> l,
     predecessorVersionId |-> row[l].pred, label |-> row[l].label]

LEMMA EntriesOf ==
    ASSUME NEW c
    PROVE  versions(c) = {Entry(l) : l \in LegalPublished(c)}
<1>1. PublicRows(c) = {[legal |-> l, current |-> FindEditorialTip(l, Published)] :
                         l \in LegalPublished(c)}
  BY DEF PublicRows, LegalPublished
<1>2. ASSUME NEW v, v \in versions(c) PROVE \E l \in LegalPublished(c) : v = Entry(l)
  BY <1>1, <1>2 DEF versions, Entry
<1>3. ASSUME NEW l \in LegalPublished(c) PROVE Entry(l) \in versions(c)
  <2>1. PICK r \in PublicRows(c) : r = [legal |-> l, current |-> FindEditorialTip(l, Published)]
    BY <1>1
  <2>2. r.legal = l /\ r.current = FindEditorialTip(l, Published)
    BY <2>1
  <2>3. Entry(l) = [id |-> r.current, legalVersionId |-> r.legal,
                    predecessorVersionId |-> row[r.legal].pred, label |-> row[r.legal].label]
    BY <2>2 DEF Entry
  <2> QED  BY <2>3 DEF versions
<1> QED  BY <1>2, <1>3

\* A published legal version is listed under a published snapshot of its own.
LEMMA ListedUnderOwn ==
    ASSUME ChainInv, Grown, NEW c, NEW l \in LegalPublished(c)
    PROVE  /\ FindEditorialTip(l, Published) \in EditorialTips(l, Published)
           /\ FindEditorialTip(l, Published) \in Published
           /\ row[FindEditorialTip(l, Published)].legal = l
<1>1. PICK n \in Nat, age \in [Version -> Nat] : Ages(n, age)
  BY DEF Grown, Aged
<1>p. Published \subseteq Present /\ Present \subseteq Version
  BY DEF Published, Present
<1> DEFINE T == {v \in Published : row[v].legal = l}
<1>2. l \in T
  BY <1>p DEF LegalPublished, ChainInv, Shape
<1>3. \A v \in T : age[v] \in Nat /\ age[v] <= n
  BY <1>1, <1>p DEF Ages
<1>4. PICK v \in T : \A w \in T : age[w] <= age[v]
  <2> HIDE DEF T
  <2> QED  BY <1>2, <1>3, GreatestValue
<1>5. EditorialSuccessors(v, Published) = {}
  <2> SUFFICES ASSUME NEW w \in EditorialSuccessors(v, Published) PROVE FALSE
    OBVIOUS
  <2>1. w \in T /\ row[w].hop = "editorial_correction" /\ row[w].pred = v
    BY DEF EditorialSuccessors
  <2>2. age[v] < age[w] /\ age[w] <= age[v]
    BY <2>1, <1>1, <1>4, <1>p DEF Ages
  <2> QED  BY <2>1, <2>2, <1>3
<1>6. v \in EditorialTips(l, Published)
  BY <1>5 DEF EditorialTips
<1>7. EditorialTips(l, Published) \subseteq Present
  BY <1>p DEF EditorialTips
<1>8. First(EditorialTips(l, Published)) \in EditorialTips(l, Published)
  BY <1>6, <1>7, FirstOfSome
<1> QED  BY <1>8 DEF FindEditorialTip, EditorialTips

\* What a row of the list says, and what its predecessor names.
LEMMA EntryNames ==
    ASSUME ChainInv, Grown, NEW c, NEW l \in LegalPublished(c)
    PROVE  /\ l \in Present /\ row[l].constitution = c /\ row[l].legal = l
           /\ row[l].hop \in {"initial", "legal"}
           /\ row[l].pred = None <=> row[l].hop = "initial"
           /\ row[l].hop = "legal" => /\ row[l].pred \in Present
                                      /\ row[row[l].pred].constitution = c
           /\ Entry(l).legalVersionId = l
           /\ Entry(l).predecessorVersionId = row[l].pred
           /\ Entry(l).label = row[l].label
           /\ Entry(l).id \in Published
           /\ row[Entry(l).id].legal = l
<1>p. Published \subseteq Present /\ Present \subseteq Version
  BY DEF Published, Present
<1>1. l \in Present /\ row[l].constitution = c /\ row[l].legal = l
  BY <1>p DEF LegalPublished, ChainInv, Shape
<1>2. row[l].hop \in {"initial", "legal"}
  BY DEF LegalPublished, LegalRow
<1>3. row[l].hop = "legal" => row[l].pred \in Present /\ row[row[l].pred].constitution = c
  BY <1>1 DEF ChainInv, Shape
<1>4. row[l].pred = None <=> row[l].hop = "initial"
  BY <1>1, <1>2, <1>3, <1>p, NoneAssumption DEF Grown, FirstIsAlone
<1>5. Entry(l).id = FindEditorialTip(l, Published)
  BY DEF Entry
<1>6. /\ Entry(l).legalVersionId = l
      /\ Entry(l).predecessorVersionId = row[l].pred
      /\ Entry(l).label = row[l].label
  BY DEF Entry
<1> QED  BY <1>1, <1>2, <1>3, <1>4, <1>5, <1>6, ListedUnderOwn

\* A name leads to the row of the legal version it belongs to.
LEMMA NameLeads ==
    ASSUME ChainInv, Grown, NEW c, NEW v \in versions(c), NEW x, v \in Named(versions(c), x)
    PROVE  x \in Version /\ row[x].legal = v.legalVersionId
<1>1. PICK l \in LegalPublished(c) : v = Entry(l)
  BY EntriesOf
<1>2. x \in {v.id, v.legalVersionId}
  BY DEF Named
<1>p. Published \subseteq Version /\ Present \subseteq Version
  BY DEF Published, Present
<1> QED  BY <1>1, <1>2, <1>p, EntryNames

\* The rows that follow a row: at most one, and never an older one.
Linked(S) ==
    /\ \A u, v, w \in S : Follows(S, u, v) /\ Follows(S, w, v) => u = w
    /\ \A u, v, w \in S : Follows(S, u, v) /\ Follows(S, u, w) => v = w
    /\ \A u, w \in S : u.predecessorVersionId = None /\ w.predecessorVersionId = None => u = w
    /\ \A u, v \in S : Follows(S, u, v) => u.predecessorVersionId # None
    /\ Named(S, None) = {}

Ranked(S, rank) ==
    /\ rank \in [S -> Nat]
    /\ \A u, v \in S : Follows(S, u, v) => rank[v] < rank[u]

LEMMA FollowsNames ==
    ASSUME ChainInv, Grown, NEW c, NEW u \in versions(c), NEW v \in versions(c),
           Follows(versions(c), u, v)
    PROVE  /\ row[u.legalVersionId].hop = "legal"
           /\ u.predecessorVersionId = row[u.legalVersionId].pred
           /\ row[row[u.legalVersionId].pred].legal = v.legalVersionId
<1>1. PICK l \in LegalPublished(c) : u = Entry(l)
  BY EntriesOf
<1>2. u.predecessorVersionId \in Version /\ row[u.predecessorVersionId].legal = v.legalVersionId
  BY NameLeads DEF Follows
<1>3. u.predecessorVersionId # None
  BY <1>2, NoneAssumption
<1> QED  BY <1>1, <1>2, <1>3, EntryNames

LEMMA RowsLinked ==
    ASSUME ChainInv, Grown, NEW c \in Constitution
    PROVE  /\ IsFiniteSet(versions(c))
           /\ Linked(versions(c))
           /\ \E rank : Ranked(versions(c), rank)
<1> DEFINE S == versions(c)
<1>p. Published \subseteq Present /\ Present \subseteq Version
  BY DEF Published, Present
<1>1. IsFiniteSet(S)
  <2>1. LegalPublished(c) \subseteq Present
    BY <1>p DEF LegalPublished
  <2>2. IsFiniteSet(LegalPublished(c))
    BY <2>1, FS_Subset DEF Grown
  <2>3. IsFiniteSet({Entry(l) : l \in LegalPublished(c)})
    <3> DEFINE e == [l \in LegalPublished(c) |-> Entry(l)]
    <3>1. e \in Surjection(LegalPublished(c), {Entry(l) : l \in LegalPublished(c)})
      BY DEF Surjection
    <3> HIDE DEF e
    <3> QED  BY <3>1, <2>2, FS_Surjection
  <2> QED  BY <2>3, EntriesOf
<1>2. \A v \in S : /\ v.legalVersionId \in LegalPublished(c)
                   /\ v = Entry(v.legalVersionId)
  <2> SUFFICES ASSUME NEW v \in S
               PROVE  v.legalVersionId \in LegalPublished(c) /\ v = Entry(v.legalVersionId)
    OBVIOUS
  <2>1. PICK l \in LegalPublished(c) : v = Entry(l)
    BY EntriesOf
  <2>2. v.legalVersionId = l
    BY <2>1, EntryNames
  <2> QED  BY <2>1, <2>2
<1>3. \A u, v \in S : u.legalVersionId = v.legalVersionId => u = v
  BY <1>2
<1>4. ASSUME NEW u \in S, NEW v \in S, Follows(S, u, v)
      PROVE  /\ row[u.legalVersionId].hop = "legal"
             /\ u.predecessorVersionId = row[u.legalVersionId].pred
             /\ row[row[u.legalVersionId].pred].legal = v.legalVersionId
  BY <1>4, FollowsNames
<1>5. ASSUME NEW u \in S, NEW v \in S, NEW w \in S, Follows(S, u, v), Follows(S, w, v)
      PROVE  u = w
  <2> DEFINE a == u.legalVersionId
             b == w.legalVersionId
  <2>1. a \in Present /\ b \in Present
    BY <1>2, <1>p DEF LegalPublished
  <2>2. row[a].hop = "legal" /\ row[row[a].pred].legal = v.legalVersionId
    BY <1>4, <1>5
  <2>3. row[b].hop = "legal" /\ row[row[b].pred].legal = v.legalVersionId
    BY <1>4, <1>5
  <2>4. a = b
    BY <2>1, <2>2, <2>3 DEF ChainInv, LinearAxes
  <2> QED  BY <2>4, <1>3
<1>6. ASSUME NEW u \in S, NEW v \in S, NEW w \in S, Follows(S, u, v), Follows(S, u, w)
      PROVE  v = w
  BY <1>6, <1>4, <1>3
<1>7. ASSUME NEW u \in S, NEW w \in S,
             u.predecessorVersionId = None, w.predecessorVersionId = None
      PROVE  u = w
  <2> DEFINE a == u.legalVersionId
             b == w.legalVersionId
  <2>0. /\ a \in LegalPublished(c) /\ u = Entry(a)
        /\ b \in LegalPublished(c) /\ w = Entry(b)
    BY <1>2
  <2> HIDE DEF a, b
  <2>1. a \in Present /\ row[a].hop = "initial" /\ row[a].constitution = c
    BY <2>0, <1>7, EntryNames
  <2>2. b \in Present /\ row[b].hop = "initial" /\ row[b].constitution = c
    BY <2>0, <1>7, EntryNames
  <2>4. a = b
    BY <2>1, <2>2 DEF ChainInv, LinearAxes
  <2> QED  BY <2>4, <1>3 DEF a, b
<1>8. Named(S, None) = {}
  <2>1. \A v \in S : v \notin Named(S, None)
    BY NameLeads, NoneAssumption
  <2> QED  BY <2>1 DEF Named
<1>9. \A u, v \in S : Follows(S, u, v) => u.predecessorVersionId # None
  BY <1>8 DEF Follows
<1>10. Linked(S)
  BY <1>5, <1>6, <1>7, <1>8, <1>9 DEF Linked
<1>11. \E rank : Ranked(S, rank)
  <2>1. PICK n \in Nat, age \in [Version -> Nat] : Ages(n, age)
    BY DEF Grown, Aged
  <2> DEFINE rank == [v \in S |-> age[v.legalVersionId]]
  <2>2. rank \in [S -> Nat] /\ \A v \in S : rank[v] = age[v.legalVersionId]
    BY <1>2, <1>p DEF LegalPublished
  <2> HIDE DEF rank
  <2>3. ASSUME NEW u \in S, NEW v \in S, Follows(S, u, v) PROVE rank[v] < rank[u]
    <3> DEFINE a == u.legalVersionId
    <3>1. a \in Present
      BY <1>2, <1>p DEF LegalPublished
    <3>2. row[a].hop = "legal" /\ row[row[a].pred].legal = v.legalVersionId
      BY <2>3, <1>4
    <3>3. row[a].pred \in Present
      BY <3>1, <3>2 DEF ChainInv, Shape
    <3>4. age[row[a].pred] < age[a] /\ age[v.legalVersionId] <= age[row[a].pred]
      BY <2>1, <3>1, <3>2, <3>3 DEF Ages
    <3>5. PICK x \in Nat, y \in Nat, z \in Nat :
            x = age[v.legalVersionId] /\ y = age[row[a].pred] /\ z = age[a]
      BY <3>1, <3>3, <1>2, <1>p DEF LegalPublished
    <3>6. x < z
      BY <3>4, <3>5
    <3> QED  BY <3>5, <3>6, <2>2
  <2>4. Ranked(S, rank)
    BY <2>2, <2>3 DEF Ranked
  <2> QED  BY <2>4
<1> QED  BY <1>1, <1>10, <1>11

(***************************************************************************)
(* The line and the trail, of any finite set of rows that are linked so.   *)
(***************************************************************************)
After(S, line) == {w \in S : Follows(S, w, Last(line))}

\* A line that starts at a root and goes on with a follower of its last row each time.
Chain(S, line) ==
    /\ line \in Seq(S)
    /\ Len(line) # 0
    /\ line[1].predecessorVersionId = None
    /\ \A i \in 1..(Len(line) - 1) : Follows(S, line[i + 1], line[i])

LEMMA ChainRanks ==
    ASSUME NEW S, NEW rank, Ranked(S, rank), NEW line, Chain(S, line)
    PROVE  \A i, j \in 1..Len(line) : i < j => rank[line[i]] < rank[line[j]]
<1>1. PICK n \in Nat : n = Len(line)
  BY DEF Chain
<1>2. \A i \in 1..n : line[i] \in S /\ rank[line[i]] \in Nat
  BY <1>1 DEF Chain, Ranked
<1>3. ASSUME NEW i \in 1..n, i # n PROVE rank[line[i]] < rank[line[i + 1]]
  <2>1. i \in 1..(n - 1) /\ i + 1 \in 1..n
    BY <1>3
  <2>2. Follows(S, line[i + 1], line[i])
    BY <1>1, <2>1 DEF Chain
  <2> QED  BY <2>1, <2>2, <1>2 DEF Ranked
<1> SUFFICES ASSUME NEW i \in 1..n PROVE \A j \in 1..n : i < j => rank[line[i]] < rank[line[j]]
  BY <1>1
<1> DEFINE Bad == {j \in 1..n : i < j /\ ~(rank[line[i]] < rank[line[j]])}
<1>4. ASSUME NEW j \in Bad, \A k \in Bad : j <= k PROVE FALSE
  <2>1. j \in Nat /\ i < j /\ j \in 1..n
    OBVIOUS
  <2>2. j - 1 \in 1..n /\ j - 1 # n /\ (j - 1) + 1 = j /\ ~(j <= j - 1)
    BY <2>1
  <2>3. PICK x \in Nat, y \in Nat, z \in Nat :
          x = rank[line[i]] /\ y = rank[line[j - 1]] /\ z = rank[line[j]]
    BY <1>2, <2>1, <2>2
  <2>4. y < z
    BY <1>3, <2>2, <2>3
  <2>5. j - 1 \notin Bad
    BY <1>4, <2>2
  <2>6. CASE i = j - 1
    BY <2>6, <2>3, <2>4
  <2>7. CASE i # j - 1
    <3>1. i < j - 1
      BY <2>7, <2>1
    <3>2. x < y
      BY <2>5, <2>2, <2>3, <3>1
    <3>3. x < z
      BY <3>2, <2>4
    <3> QED  BY <3>3, <2>3
  <2> QED  BY <2>6, <2>7
<1>5. Bad = {}
  <2>1. Bad \subseteq Nat
    OBVIOUS
  <2> HIDE DEF Bad
  <2> QED  BY <2>1, <1>4, LeastOfSet
<1> QED  BY <1>5

LEMMA ChainDistinct ==
    ASSUME NEW S, NEW rank, Ranked(S, rank), NEW line, Chain(S, line)
    PROVE  \A i, j \in 1..Len(line) : line[i] = line[j] => i = j
<1>1. PICK n \in Nat : n = Len(line)
  BY DEF Chain
<1> SUFFICES ASSUME NEW i \in 1..n, NEW j \in 1..n, line[i] = line[j], i # j PROVE FALSE
  BY <1>1
<1>2. \A k \in 1..n : line[k] \in S /\ rank[line[k]] \in Nat
  BY <1>1 DEF Chain, Ranked
<1>3. PICK x \in Nat : x = rank[line[i]]
  BY <1>2
<1>4. \A k, o \in 1..n : k < o => rank[line[k]] < rank[line[o]]
  BY <1>1, ChainRanks
<1>5. i < j \/ j < i
  OBVIOUS
<1> QED  BY <1>3, <1>4, <1>5

\* A line is no longer than there are rows, and one as long holds every row.
LEMMA ChainCovers ==
    ASSUME NEW S, IsFiniteSet(S), NEW rank, Ranked(S, rank), NEW line, Chain(S, line)
    PROVE  /\ Len(line) <= Cardinality(S)
           /\ Len(line) = Cardinality(S) <=> ToSet(line) = S
<1>0. PICK n \in Nat : n = Len(line)
  BY DEF Chain
<1>1. PICK X : X = ToSet(line)
  OBVIOUS
<1>2. X = {line[i] : i \in 1..n} /\ X \subseteq S
  BY <1>0, <1>1 DEF Chain, ToSet
<1>3. \A i, j \in 1..n : line[i] = line[j] => i = j
  BY <1>0, ChainDistinct
<1>4. IsFiniteSet(X) /\ Cardinality(X) = n
  <2> DEFINE f == [i \in 1..n |-> line[i]]
  <2>1. f \in [1..n -> X] /\ \A x \in X : \E i \in 1..n : f[i] = x
    BY <1>2
  <2>2. \A i, j \in 1..n : f[i] = f[j] => i = j
    BY <1>3
  <2> HIDE DEF f
  <2>3. f \in Bijection(1..n, X)
    BY <2>1, <2>2 DEF Bijection, Injection, Surjection, IsInjective
  <2>4. IsFiniteSet(1..n) /\ Cardinality(1..n) = n
    <3>1. 1 \in Int /\ n \in Int /\ (IF 1 > n THEN 0 ELSE n - 1 + 1) = n
      OBVIOUS
    <3> QED  BY <3>1, FS_Interval, Zenon
  <2>5. ExistsBijection(1..n, X)
    BY <2>3 DEF ExistsBijection
  <2> QED  BY <2>4, <2>5, FS_Bijection
<1>5. Cardinality(X) <= Cardinality(S) /\ (Cardinality(X) = Cardinality(S) => X = S)
  BY <1>2, FS_Subset
<1> QED  BY <1>0, <1>1, <1>4, <1>5

\* One round of the walk of orderVersions.
Longer(S, line) ==
    IF Cardinality(After(S, line)) = 1 /\ After(S, line) \cap ToSet(line) = {}
    THEN Append(line, CHOOSE w \in After(S, line) : TRUE) ELSE line

Walked(S, line, n) ==
    /\ Chain(S, line)
    /\ Len(line) <= n
    /\ Len(line) = n \/ After(S, line) = {}

LEMMA WalkGoesOn ==
    ASSUME NEW S, Linked(S), NEW rank, Ranked(S, rank), NEW n \in Nat, NEW line,
           Walked(S, line, n)
    PROVE  Walked(S, Longer(S, line), n + 1)
<1>c. Chain(S, line)
  BY DEF Walked
<1>1. PICK m \in Nat : m = Len(line) /\ m # 0 /\ m <= n
  BY DEF Walked, Chain
<1>2. line \in Seq(S) /\ DOMAIN line = 1..m /\ m \in 1..m
  BY <1>1, <1>c DEF Chain
<1>3. Last(line) \in S /\ Last(line) = line[m]
  BY <1>1, <1>2 DEF Last
<1>4. CASE After(S, line) = {}
  <2>1. Cardinality(After(S, line)) = 0
    BY <1>4, FS_EmptySet
  <2>2. Longer(S, line) = line
    BY <2>1 DEF Longer
  <2>3. m <= n + 1
    BY <1>1
  <2> QED  BY <2>2, <2>3, <1>1, <1>4, <1>c DEF Walked
<1>5. CASE After(S, line) # {}
  <2>1. PICK w \in S : Follows(S, w, Last(line))
    BY <1>5 DEF After
  <2>2. After(S, line) = {w}
    BY <2>1, <1>3 DEF After, Linked
  <2>3. Cardinality(After(S, line)) = 1
    BY <2>2, FS_Singleton
  <2>4. w \notin ToSet(line)
    <3> SUFFICES ASSUME NEW i \in 1..m, w = line[i] PROVE FALSE
      BY <1>2 DEF ToSet
    <3>1. PICK x \in Nat, y \in Nat : x = rank[w] /\ y = rank[line[m]]
      BY <2>1, <1>3 DEF Ranked
    <3>2. y < x
      BY <2>1, <1>3, <3>1 DEF Ranked
    <3>3. i < m \/ i = m
      OBVIOUS
    <3>4. i < m => x < y
      <4>1. \A k, o \in 1..m : k < o => rank[line[k]] < rank[line[o]]
        BY <1>1, <1>c, ChainRanks
      <4> QED  BY <4>1, <1>2, <3>1
    <3> QED  BY <3>1, <3>2, <3>3, <3>4
  <2>5. Longer(S, line) = Append(line, w)
    <3>1. (CHOOSE x \in {w} : TRUE) = w
      OBVIOUS
    <3> QED  BY <3>1, <2>2, <2>3, <2>4 DEF Longer
  <2> DEFINE new == Append(line, w)
  <2>6. /\ new \in Seq(S) /\ Len(new) = m + 1 /\ new[m + 1] = w
        /\ \A i \in 1..m : new[i] = line[i]
    BY <1>1, <1>2, <2>1
  <2> HIDE DEF new
  <2>7. Len(line) = n
    BY <1>5 DEF Walked
  <2>8. ASSUME NEW i \in 1..m PROVE Follows(S, new[i + 1], new[i])
    <3>1. CASE i = m
      BY <3>1, <2>1, <2>6, <1>3
    <3>2. CASE i # m
      <4>1. i \in 1..(m - 1) /\ i + 1 \in 1..m
        BY <3>2
      <4>2. Follows(S, line[i + 1], line[i])
        BY <4>1, <1>1, <1>c DEF Chain
      <4> QED  BY <4>1, <4>2, <2>6
    <3> QED  BY <3>1, <3>2
  <2>9. new[1] = line[1]
    BY <2>6, <1>1
  <2>10. 1..(Len(new) - 1) = 1..m /\ Len(new) # 0
    BY <2>6
  <2>11. Chain(S, new)
    BY <2>6, <2>8, <2>9, <2>10, <1>c DEF Chain
  <2>12. Len(new) = n + 1 /\ Len(new) <= n + 1
    BY <2>6, <2>7, <1>1
  <2> QED  BY <2>5, <2>11, <2>12 DEF Walked, new
<1> QED  BY <1>4, <1>5

\* What a loop has after each of its first n rounds.
Rounds(f, n, first, step) ==
    \A k \in 1..n : f[k] = IF k = 1 THEN first ELSE step[f[k - 1]]

LEMMA RoundsExist ==
    ASSUME NEW X, NEW first \in X, NEW step \in [X -> X], NEW n \in Nat
    PROVE  \E f \in [1..n -> X] : Rounds(f, n, first, step)
<1> DEFINE G(m) == \E f \in [1..m -> X] : Rounds(f, m, first, step)
           Bad == {m \in Nat : ~G(m)}
<1>1. G(0)
  <2>1. [k \in 1..0 |-> first] \in [1..0 -> X]
    OBVIOUS
  <2>2. Rounds([k \in 1..0 |-> first], 0, first, step)
    BY DEF Rounds
  <2> QED  BY <2>1, <2>2
<1>2. ASSUME NEW m \in Nat, G(m) PROVE G(m + 1)
  <2>1. PICK f \in [1..m -> X] : Rounds(f, m, first, step)
    BY <1>2
  <2>2. PICK x \in X : x = IF m = 0 THEN first ELSE step[f[m]]
    <3>1. (IF m = 0 THEN first ELSE step[f[m]]) \in X
      <4>1. m # 0 => m \in 1..m
        OBVIOUS
      <4> QED  BY <4>1
    <3> QED  BY <3>1
  <2> DEFINE g == [k \in 1..(m + 1) |-> IF k = m + 1 THEN x ELSE f[k]]
  <2>3. /\ g \in [1..(m + 1) -> X]
        /\ g[m + 1] = x
        /\ \A k \in 1..m : g[k] = f[k]
    OBVIOUS
  <2> HIDE DEF g
  <2>4. ASSUME NEW k \in 1..(m + 1)
        PROVE  g[k] = IF k = 1 THEN first ELSE step[g[k - 1]]
    <3>1. CASE k = m + 1
      <4>1. k - 1 = m /\ (k = 1 <=> m = 0) /\ (m # 0 => m \in 1..m)
        BY <3>1
      <4> QED  BY <4>1, <3>1, <2>2, <2>3
    <3>2. CASE k # m + 1
      <4>1. k \in 1..m /\ (k # 1 => k - 1 \in 1..m)
        BY <3>2
      <4> QED  BY <4>1, <2>1, <2>3 DEF Rounds
    <3> QED  BY <3>1, <3>2
  <2> QED  BY <2>3, <2>4 DEF Rounds
<1> HIDE DEF G
<1>3. ASSUME NEW k \in Bad, \A x \in Bad : k <= x PROVE FALSE
  <2>1. k \in Nat /\ k # 0
    BY <1>1
  <2>2. k - 1 \in Nat /\ (k - 1) + 1 = k /\ ~(k <= k - 1)
    BY <2>1
  <2>3. G(k - 1)
    BY <1>3, <2>2
  <2> QED  BY <2>2, <2>3, <1>2
<1>4. Bad = {}
  <2>1. Bad \subseteq Nat
    OBVIOUS
  <2> HIDE DEF Bad
  <2> QED  BY <2>1, <1>3, LeastOfSet
<1> QED  BY <1>4 DEF G

Roots(S) == {v \in S : v.predecessorVersionId = None}

LineEquation(S, f) ==
    f = [n \in 1..Cardinality(S) |->
           IF n = 1 THEN <<CHOOSE v \in Roots(S) : TRUE>>
           ELSE LET line == f[n - 1]
                    next == {w \in S : Follows(S, w, Last(line))}
                IN  IF Cardinality(next) = 1 /\ next \cap ToSet(line) = {}
                    THEN Append(line, CHOOSE w \in next : TRUE) ELSE line]

LEMMA LineIsRounds ==
    ASSUME NEW S, Cardinality(Roots(S)) = 1
    PROVE  Line(S) = (CHOOSE f : LineEquation(S, f))[Cardinality(S)]
BY Zenon DEF Line, LineEquation, Roots

LEMMA LineEquationRounds ==
    ASSUME NEW S, NEW f, LineEquation(S, f), NEW n \in 1..Cardinality(S)
    PROVE  f[n] = IF n = 1 THEN <<CHOOSE v \in Roots(S) : TRUE>> ELSE Longer(S, f[n - 1])
<1> DEFINE g == [k \in 1..Cardinality(S) |->
                   IF k = 1 THEN <<CHOOSE v \in Roots(S) : TRUE>>
                   ELSE Longer(S, f[k - 1])]
<1>1. f = g
  BY Zenon DEF LineEquation, Longer, After
<1>2. g[n] = IF n = 1 THEN <<CHOOSE v \in Roots(S) : TRUE>> ELSE Longer(S, f[n - 1])
  OBVIOUS
<1> HIDE DEF g
<1> QED  BY <1>1, <1>2

LEMMA LineEquationHolds ==
    ASSUME NEW S, NEW r \in S, NEW n \in Nat, Cardinality(S) = n, Roots(S) # {}
    PROVE  \E f : LineEquation(S, f)
<1> DEFINE X == Seq(S)
           step == [line \in X |-> Longer(S, line)]
           first == <<CHOOSE v \in Roots(S) : TRUE>>
<1>1. (CHOOSE v \in Roots(S) : TRUE) \in S
  BY DEF Roots
<1>2. first \in X
  BY <1>1
<1>3. ASSUME NEW line \in X PROVE Longer(S, line) \in X
  <2>1. CASE After(S, line) = {}
    <3>1. Cardinality(After(S, line)) = 0
      BY <2>1, FS_EmptySet
    <3> QED  BY <3>1 DEF Longer
  <2>2. CASE After(S, line) # {}
    <3>1. (CHOOSE w \in After(S, line) : TRUE) \in S
      BY <2>2 DEF After
    <3> QED  BY <3>1 DEF Longer
  <2> QED  BY <2>1, <2>2
<1>4. step \in [X -> X] /\ \A line \in X : step[line] = Longer(S, line)
  BY <1>3
<1> HIDE DEF X, step, first
<1>5. PICK f \in [1..n -> X] : Rounds(f, n, first, step)
  BY <1>2, <1>4, RoundsExist
<1>6. ASSUME NEW k \in 1..n PROVE f[k] = IF k = 1 THEN first ELSE Longer(S, f[k - 1])
  <2>1. k # 1 => k - 1 \in 1..n
    OBVIOUS
  <2>2. k # 1 => f[k - 1] \in X
    BY <2>1, <1>5
  <2>3. f[k] = IF k = 1 THEN first ELSE step[f[k - 1]]
    BY <1>5 DEF Rounds
  <2> QED  BY <2>2, <2>3, <1>4
<1>7. f = [k \in 1..n |-> IF k = 1 THEN first ELSE Longer(S, f[k - 1])]
  <2> DEFINE g == [k \in 1..n |-> IF k = 1 THEN first ELSE Longer(S, f[k - 1])]
  <2>1. DOMAIN f = DOMAIN g /\ \A k \in 1..n : f[k] = g[k]
    BY <1>6
  <2>2. f = [k \in 1..n |-> f[k]] /\ g = [k \in 1..n |-> g[k]]
    BY <1>5
  <2> HIDE DEF g
  <2>3. f = g
    BY <2>1, <2>2
  <2> QED  BY <2>3 DEF g
<1>8. LineEquation(S, f)
  BY <1>7, Zenon DEF LineEquation, Longer, After, first
<1> QED  BY <1>8

\* The line starts at the root and ends where no row follows, or holds every row.
LEMMA LineIs ==
    ASSUME NEW S, IsFiniteSet(S), Linked(S), NEW rank, Ranked(S, rank), Roots(S) # {}
    PROVE  Walked(S, Line(S), Cardinality(S))
<1>1. PICK r \in S : r.predecessorVersionId = None /\ Roots(S) = {r}
  BY DEF Roots, Linked
<1>2. Cardinality(Roots(S)) = 1 /\ (CHOOSE v \in Roots(S) : TRUE) = r
  BY <1>1, FS_Singleton
<1>3. PICK n \in Nat : n = Cardinality(S) /\ n # 0
  BY <1>1, FS_CardinalityType, FS_EmptySet
<1>4. PICK f : f = CHOOSE g : LineEquation(S, g)
  OBVIOUS
<1>5. LineEquation(S, f)
  BY <1>1, <1>3, <1>4, LineEquationHolds
<1>6. Line(S) = f[n]
  BY <1>2, <1>3, <1>4, LineIsRounds
<1>7. \A k \in 1..n : f[k] = IF k = 1 THEN <<r>> ELSE Longer(S, f[k - 1])
  BY <1>2, <1>3, <1>5, LineEquationRounds
<1> DEFINE Bad == {k \in 1..n : ~Walked(S, f[k], k)}
<1>8. Walked(S, f[1], 1)
  <2>1. f[1] = <<r>>
    BY <1>7, <1>3
  <2>2. Chain(S, <<r>>) /\ Len(<<r>>) = 1
    BY <1>1 DEF Chain
  <2> QED  BY <2>1, <2>2 DEF Walked
<1>9. ASSUME NEW k \in Bad, \A x \in Bad : k <= x PROVE FALSE
  <2>1. k \in 1..n /\ k # 1
    BY <1>8
  <2>2. k - 1 \in 1..n /\ k - 1 \in Nat /\ (k - 1) + 1 = k /\ ~(k <= k - 1)
    BY <2>1
  <2>3. Walked(S, f[k - 1], k - 1)
    BY <1>9, <2>2
  <2>4. Walked(S, Longer(S, f[k - 1]), k)
    BY <2>2, <2>3, WalkGoesOn
  <2> QED  BY <2>1, <2>4, <1>7
<1>10. Bad = {}
  <2>1. Bad \subseteq Nat
    OBVIOUS
  <2> HIDE DEF Bad
  <2> QED  BY <2>1, <1>9, LeastOfSet
<1>11. Walked(S, f[n], n)
  BY <1>10, <1>3
<1> QED  BY <1>3, <1>6, <1>11

LEMMA NoRootNoLine ==
    ASSUME NEW S, Roots(S) = {}
    PROVE  Len(Line(S)) = 0
<1>1. Cardinality(Roots(S)) # 1
  BY FS_EmptySet
<1>2. Line(S) = <<>>
  BY <1>1, Zenon DEF Line, Roots
<1> QED  BY <1>2

\* The last row of a line that holds every row is followed by none, and no other is.
LEMMA LastIsEnd ==
    ASSUME NEW S, IsFiniteSet(S), Linked(S), NEW rank, Ranked(S, rank), NEW line,
           Chain(S, line), Len(line) = Cardinality(S)
    PROVE  /\ Last(line) \in S
           /\ \A w \in S : ~Follows(S, w, Last(line))
           /\ \A v \in S : (\A w \in S : ~Follows(S, w, v)) => v = Last(line)
<1>1. PICK n \in Nat : n = Len(line) /\ n # 0
  BY DEF Chain
<1>2. line \in Seq(S) /\ ToSet(line) = S /\ Last(line) = line[n] /\ n \in 1..n
  BY <1>1, ChainCovers DEF Chain, Last
<1>3. S = {line[i] : i \in 1..n}
  BY <1>1, <1>2 DEF ToSet
<1>4. \A i \in 1..(n - 1) : Follows(S, line[i + 1], line[i])
  BY <1>1 DEF Chain
<1>5. line[1].predecessorVersionId = None
  BY DEF Chain
<1>6. ASSUME NEW w \in S, Follows(S, w, Last(line)) PROVE FALSE
  <2>1. PICK i \in 1..n : w = line[i]
    BY <1>3
  <2>2. i # 1
    <3>1. w.predecessorVersionId # None
      BY <1>2, <1>3, <1>6 DEF Linked
    <3> QED  BY <3>1, <2>1, <1>5
  <2>3. i - 1 \in 1..(n - 1) /\ (i - 1) + 1 = i /\ i - 1 \in 1..n /\ i - 1 # n
    BY <2>2
  <2>4. Follows(S, w, line[i - 1])
    BY <2>1, <2>3, <1>4
  <2>5. line[i - 1] = line[n]
    BY <2>3, <2>4, <1>2, <1>3, <1>6 DEF Linked
  <2>6. i - 1 = n
    BY <2>3, <2>5, <1>1, <1>2, ChainDistinct
  <2> QED  BY <2>3, <2>6
<1>7. ASSUME NEW v \in S, \A w \in S : ~Follows(S, w, v) PROVE v = Last(line)
  <2>1. PICK i \in 1..n : v = line[i]
    BY <1>3
  <2>2. ASSUME i # n PROVE FALSE
    <3>1. i \in 1..(n - 1) /\ i + 1 \in 1..n
      BY <2>2
    <3>2. Follows(S, line[i + 1], v) /\ line[i + 1] \in S
      BY <3>1, <2>1, <1>3, <1>4
    <3> QED  BY <3>2, <1>7
  <2> QED  BY <2>1, <2>2, <1>2
<1> QED  BY <1>2, <1>3, <1>6, <1>7

\* If every row but the first follows a row, the line holds them all.
LEMMA LineHoldsAll ==
    ASSUME NEW S, IsFiniteSet(S), S # {}, Linked(S), NEW rank, Ranked(S, rank),
           \A w \in S : w.predecessorVersionId # None => \E v \in S : Follows(S, w, v)
    PROVE  Chain(S, Line(S)) /\ Len(Line(S)) = Cardinality(S)
<1> DEFINE Oldest(T) == \E w \in T : \A v \in T : ~Follows(S, w, v)
<1>1. ASSUME NEW T, T \subseteq S, T # {} PROVE Oldest(T)
  <2> DEFINE R == {rank[v] : v \in T}
  <2>1. R \subseteq Nat /\ R # {}
    BY <1>1 DEF Ranked
  <2>2. PICK m \in R : \A k \in R : m <= k
    <3> HIDE DEF R
    <3> QED  BY <2>1, LeastOfSet
  <2>3. PICK w \in T : m = rank[w]
    BY <2>2
  <2>4. ASSUME NEW v \in T, Follows(S, w, v) PROVE FALSE
    <3>0. rank[v] \in R
      OBVIOUS
    <3>1. rank[v] < rank[w]
      BY <2>4, <1>1 DEF Ranked
    <3>2. m <= rank[v]
      BY <3>0, <2>2
    <3>3. PICK x \in Nat, y \in Nat : x = rank[v] /\ y = rank[w]
      BY <1>1 DEF Ranked
    <3> QED  BY <3>1, <3>2, <3>3, <2>3
  <2> QED  BY <2>4
<1>2. Roots(S) # {}
  <2>1. PICK w \in S : \A v \in S : ~Follows(S, w, v)
    BY <1>1
  <2> QED  BY <2>1 DEF Roots
<1> HIDE DEF Oldest
<1>3. PICK line : line = Line(S)
  OBVIOUS
<1>4. Walked(S, line, Cardinality(S))
  BY <1>2, <1>3, LineIs
<1>5. Chain(S, line)
  BY <1>4 DEF Walked
<1>6. PICK n \in Nat : n = Len(line) /\ n # 0
  BY <1>5 DEF Chain
<1>7. line \in Seq(S) /\ ToSet(line) = {line[i] : i \in 1..n} /\ n \in 1..n /\ 1 \in 1..n
  BY <1>5, <1>6 DEF Chain, ToSet
<1>8. ASSUME ToSet(line) # S PROVE FALSE
  <2> DEFINE T == S \ ToSet(line)
  <2>1. T # {} /\ T \subseteq S
    <3>1. \A i \in 1..n : line[i] \in S
      BY <1>6, <1>7
    <3>2. ToSet(line) \subseteq S
      BY <3>1, <1>7
    <3> QED  BY <3>2, <1>8
  <2>2. PICK w \in T : \A v \in T : ~Follows(S, w, v)
    <3> HIDE DEF T
    <3> QED  BY <2>1, <1>1 DEF Oldest
  <2>3. w.predecessorVersionId # None
    <3>1. line[1].predecessorVersionId = None /\ line[1] \in S
      BY <1>5, <1>7 DEF Chain
    <3>2. w # line[1]
      BY <1>7
    <3> QED  BY <3>1, <3>2 DEF Linked
  <2>4. PICK i \in 1..n : Follows(S, w, line[i])
    <3>1. PICK v \in S : Follows(S, w, v)
      BY <2>3
    <3>2. v \notin T
      BY <2>2, <3>1
    <3> QED  BY <3>1, <3>2, <1>7
  <2>5. CASE i = n
    <3>1. w \in After(S, line)
      BY <2>4, <2>5, <1>6 DEF After, Last
    <3>2. Len(line) = Cardinality(S)
      BY <3>1, <1>4 DEF Walked
    <3> QED  BY <3>2, <1>5, <1>8, ChainCovers
  <2>6. CASE i # n
    <3>1. i \in 1..(n - 1) /\ i + 1 \in 1..n
      BY <2>6
    <3>2. Follows(S, line[i + 1], line[i]) /\ line[i + 1] \in S /\ line[i] \in S
      BY <3>1, <1>5, <1>6, <1>7 DEF Chain
    <3>3. w = line[i + 1]
      BY <3>2, <2>4 DEF Linked
    <3> QED  BY <3>1, <3>3, <1>7
  <2> QED  BY <2>5, <2>6
<1> QED  BY <1>3, <1>5, <1>8, ChainCovers

\* One round of the walk of versionPath.
Earlier(S, path) ==
    LET before == Named(S, Head(path).predecessorVersionId) \ ToSet(path)
    IN  IF before = {} THEN path ELSE <<CHOOSE v \in before : TRUE>> \o path

TrailEquation(S, to, f) ==
    f = [n \in 1..Cardinality(S) |->
           IF n = 1 THEN <<to>>
           ELSE LET path == f[n - 1]
                    before == Named(S, Head(path).predecessorVersionId) \ ToSet(path)
                IN  IF before = {} THEN path ELSE <<CHOOSE v \in before : TRUE>> \o path]

LEMMA TrailIsRounds ==
    ASSUME NEW S, NEW to
    PROVE  Trail(S, to) = (CHOOSE f : TrailEquation(S, to, f))[Cardinality(S)]
BY Zenon DEF Trail, TrailEquation

LEMMA TrailEquationRounds ==
    ASSUME NEW S, NEW to, NEW f, TrailEquation(S, to, f), NEW n \in 1..Cardinality(S)
    PROVE  f[n] = IF n = 1 THEN <<to>> ELSE Earlier(S, f[n - 1])
<1> DEFINE g == [k \in 1..Cardinality(S) |->
                   IF k = 1 THEN <<to>> ELSE Earlier(S, f[k - 1])]
<1>1. f = g
  BY Zenon DEF TrailEquation, Earlier
<1>2. g[n] = IF n = 1 THEN <<to>> ELSE Earlier(S, f[n - 1])
  OBVIOUS
<1> HIDE DEF g
<1> QED  BY <1>1, <1>2

LEMMA TrailEquationHolds ==
    ASSUME NEW S, NEW to \in S, NEW n \in Nat, Cardinality(S) = n
    PROVE  \E f : TrailEquation(S, to, f)
<1> DEFINE X == Seq(S)
           step == [path \in X |-> Earlier(S, path)]
           first == <<to>>
<1>2. first \in X
  OBVIOUS
<1>3. ASSUME NEW path \in X PROVE Earlier(S, path) \in X
  <2> DEFINE before == Named(S, Head(path).predecessorVersionId) \ ToSet(path)
  <2>1. CASE before = {}
    BY <2>1 DEF Earlier
  <2>2. CASE before # {}
    <3>1. before \subseteq S
      BY DEF Named
    <3>2. PICK x \in S : x = CHOOSE v \in before : TRUE
      BY <3>1, <2>2
    <3>3. <<x>> \o path \in Seq(S)
      <4>1. <<x>> \in Seq(S)
        OBVIOUS
      <4> QED  BY <4>1, ConcatProperties
    <3>4. Earlier(S, path) = <<x>> \o path
      BY <2>2, <3>2 DEF Earlier
    <3> QED  BY <3>3, <3>4
  <2> QED  BY <2>1, <2>2
<1>4. step \in [X -> X] /\ \A path \in X : step[path] = Earlier(S, path)
  BY <1>3
<1> HIDE DEF X, step, first
<1>5. PICK f \in [1..n -> X] : Rounds(f, n, first, step)
  BY <1>2, <1>4, RoundsExist
<1>6. ASSUME NEW k \in 1..n PROVE f[k] = IF k = 1 THEN first ELSE Earlier(S, f[k - 1])
  <2>1. k # 1 => k - 1 \in 1..n
    OBVIOUS
  <2>2. k # 1 => f[k - 1] \in X
    BY <2>1, <1>5
  <2>3. f[k] = IF k = 1 THEN first ELSE step[f[k - 1]]
    BY <1>5 DEF Rounds
  <2> QED  BY <2>2, <2>3, <1>4
<1>7. f = [k \in 1..n |-> IF k = 1 THEN first ELSE Earlier(S, f[k - 1])]
  <2> DEFINE g == [k \in 1..n |-> IF k = 1 THEN first ELSE Earlier(S, f[k - 1])]
  <2>1. DOMAIN f = DOMAIN g /\ \A k \in 1..n : f[k] = g[k]
    BY <1>6
  <2>2. f = [k \in 1..n |-> f[k]] /\ g = [k \in 1..n |-> g[k]]
    BY <1>5
  <2> HIDE DEF g
  <2>3. f = g
    BY <2>1, <2>2
  <2> QED  BY <2>3 DEF g
<1>8. TrailEquation(S, to, f)
  BY <1>7, Zenon DEF TrailEquation, Earlier, first
<1> QED  BY <1>8

LEMMA RowsOfPart ==
    ASSUME NEW S, NEW line \in Seq(S), NEW n \in Nat, n = Len(line), NEW a \in 1..n,
           NEW j \in a..n
    PROVE  ToSet(SubSeq(line, a, j)) = {line[i] : i \in a..j}
<1>1. \A i \in a..j : line[i] \in S
  OBVIOUS
<1>2. PICK s : s = SubSeq(line, a, j)
  OBVIOUS
<1>3. /\ s \in Seq(S)
      /\ Len(s) = j - a + 1
      /\ \A i \in 1..(j - a + 1) : s[i] = line[a + i - 1]
  BY <1>1, <1>2, SubSeqProperties
<1>4. ToSet(s) = {s[i] : i \in 1..(j - a + 1)}
  BY <1>3 DEF ToSet
<1>5. ASSUME NEW i \in a..j PROVE line[i] \in ToSet(s)
  <2>1. i - a + 1 \in 1..(j - a + 1) /\ a + (i - a + 1) - 1 = i
    OBVIOUS
  <2> QED  BY <2>1, <1>3, <1>4
<1>6. ASSUME NEW i \in 1..(j - a + 1) PROVE s[i] \in {line[k] : k \in a..j}
  <2>1. a + i - 1 \in a..j
    OBVIOUS
  <2> QED  BY <2>1, <1>3
<1> QED  BY <1>2, <1>4, <1>5, <1>6

\* The place in the line a round goes back to.
Back(a) == IF a = 1 THEN 1 ELSE a - 1

\* A round of the walk goes back by one row of the line, until the first.
LEMMA WalkGoesBack ==
    ASSUME NEW S, Linked(S), NEW rank, Ranked(S, rank), NEW line, Chain(S, line),
           NEW a \in 1..Len(line), NEW j \in a..Len(line),
           NEW b \in {Back(a)}
    PROVE  Earlier(S, SubSeq(line, a, j)) = SubSeq(line, b, j)
<1>n. PICK n \in Nat : n = Len(line)
  BY DEF Chain
<1>j. a \in 1..n /\ j \in a..n
  BY <1>n
<1>k. b = IF a = 1 THEN 1 ELSE a - 1
  BY DEF Back
<1>1. line \in Seq(S) /\ j \in 1..n /\ \A i \in 1..n : line[i] \in S
  BY <1>n, <1>j DEF Chain
<1>2. PICK path : path = SubSeq(line, a, j)
  OBVIOUS
<1>3. Head(path) = line[a]
  BY <1>1, <1>2, <1>n, <1>j, HeadTailOfSubSeq
<1>4. ToSet(path) = {line[i] : i \in a..j}
  BY <1>1, <1>2, <1>n, <1>j, RowsOfPart
<1> DEFINE before == Named(S, Head(path).predecessorVersionId) \ ToSet(path)
<1>5. Earlier(S, path) = IF before = {} THEN path ELSE <<CHOOSE v \in before : TRUE>> \o path
  BY Zenon DEF Earlier
<1>6. before = Named(S, line[a].predecessorVersionId) \ ToSet(path)
  BY <1>3
<1> HIDE DEF before
<1>7. CASE a = 1
  <2>1. before = {}
    BY <1>6, <1>7 DEF Chain, Linked
  <2> QED  BY <2>1, <1>2, <1>5, <1>7, <1>k
<1>8. CASE a # 1
  <2>1. a - 1 \in 1..(n - 1) /\ (a - 1) + 1 = a /\ a - 1 \in 1..n /\ j \in (a - 1)..n
    BY <1>8, <1>j
  <2>2. Follows(S, line[a], line[a - 1])
    BY <2>1, <1>n DEF Chain
  <2>3. line[a - 1] \in Named(S, line[a].predecessorVersionId)
    BY <2>2 DEF Follows
  <2>4. ASSUME NEW v \in Named(S, line[a].predecessorVersionId) PROVE v = line[a - 1]
    <3>1. v \in S /\ Follows(S, line[a], v)
      BY DEF Named, Follows
    <3> QED  BY <3>1, <2>1, <2>2, <1>1 DEF Linked
  <2>5. line[a - 1] \notin ToSet(path)
    <3> SUFFICES ASSUME NEW i \in a..j, line[a - 1] = line[i] PROVE FALSE
      BY <1>4
    <3>1. i \in 1..n /\ i # a - 1
      BY <1>1, <1>j
    <3> QED  BY <3>1, <2>1, <1>n, ChainDistinct
  <2>6. before = {line[a - 1]}
    BY <1>6, <2>3, <2>4, <2>5
  <2>7. Earlier(S, path) = <<line[a - 1]>> \o path
    <3>1. (CHOOSE v \in {line[a - 1]} : TRUE) = line[a - 1]
      OBVIOUS
    <3> QED  BY <3>1, <2>6, <1>5
  <2>8. SubSeq(line, a - 1, j) = <<line[a - 1]>> \o SubSeq(line, (a - 1) + 1, j)
    BY <2>1, <1>1, <1>n, SubSeqRecursiveFirst
  <2> QED  BY <2>1, <2>7, <2>8, <1>2, <1>8, <1>k
<1> QED  BY <1>2, <1>7, <1>8

LEMMA ChainRows ==
    ASSUME NEW S, NEW line, Chain(S, line), NEW n, n = Len(line)
    PROVE  line \in Seq(S) /\ n \in Nat /\ n # 0 /\ \A i \in 1..n : line[i] \in S
<1>1. line \in Seq(S) /\ Len(line) # 0
  BY DEF Chain
<1>2. Len(line) \in Nat /\ \A i \in 1..Len(line) : line[i] \in S
  BY <1>1
<1> QED  BY <1>1, <1>2

\* The trail of a row is the line up to it.
LEMMA TrailIs ==
    ASSUME NEW S, IsFiniteSet(S), Linked(S), NEW rank, Ranked(S, rank), NEW line,
           Chain(S, line), NEW n \in Nat, n = Len(line), n = Cardinality(S), NEW j \in 1..n
    PROVE  Trail(S, line[j]) = SubSeq(line, 1, j)
<1>1. line \in Seq(S) /\ line[j] \in S /\ n # 0
  BY ChainRows
<1>2. PICK f : f = CHOOSE g : TrailEquation(S, line[j], g)
  OBVIOUS
<1>3. TrailEquation(S, line[j], f)
  BY <1>1, <1>2, TrailEquationHolds
<1>4. Trail(S, line[j]) = f[n]
  BY <1>2, TrailIsRounds
<1>5. \A k \in 1..n : f[k] = IF k = 1 THEN <<line[j]>> ELSE Earlier(S, f[k - 1])
  BY <1>3, TrailEquationRounds
<1>b. ASSUME NEW a \in 1..n, j \in a..n, NEW b \in {Back(a)}
      PROVE  Earlier(S, SubSeq(line, a, j)) = SubSeq(line, b, j)
  <2>1. a \in 1..Len(line) /\ j \in a..Len(line)
    BY <1>b
  <2> QED  BY <1>b, <2>1, WalkGoesBack
<1> DEFINE from(k) == IF k < j THEN j - k + 1 ELSE 1
           Bad == {k \in 1..n : f[k] # SubSeq(line, from(k), j)}
<1>6. f[1] = SubSeq(line, from(1), j)
  <2>1. from(1) = j
    OBVIOUS
  <2>2. SubSeq(line, j, j) = <<line[j]>> \o SubSeq(line, j + 1, j)
    BY <1>1, SubSeqRecursiveFirst
  <2>3. SubSeq(line, j + 1, j) = <<>>
    BY SubSeqEmpty
  <2>4. SubSeq(line, j, j) = <<line[j]>>
    <3>1. <<line[j]>> \in Seq(S)
      BY <1>1
    <3> QED  BY <3>1, <2>2, <2>3, ConcatEmptySeq
  <2>5. f[1] = <<line[j]>>
    BY <1>1, <1>5
  <2> QED  BY <2>1, <2>4, <2>5
<1>7. ASSUME NEW k \in Bad, \A x \in Bad : k <= x PROVE FALSE
  <2>1. k \in 1..n /\ k # 1
    BY <1>6
  <2>2. k - 1 \in 1..n /\ (k - 1) + 1 = k /\ ~(k <= k - 1)
    BY <2>1
  <2>3. PICK a \in 1..n : a = from(k - 1) /\ j \in a..n
    <3>1. from(k - 1) \in 1..n /\ j \in from(k - 1)..n
      BY <2>1
    <3> QED  BY <3>1
  <2>4. from(k) = Back(a)
    BY <2>1, <2>3 DEF Back
  <2> HIDE DEF from
  <2>5. f[k - 1] = SubSeq(line, a, j)
    BY <1>7, <2>2, <2>3
  <2>6. f[k] = SubSeq(line, from(k), j)
    <3>0. f[k] = Earlier(S, f[k - 1])
      BY <2>1, <1>5
    <3>1. f[k] = Earlier(S, SubSeq(line, a, j))
      BY <3>0, <2>5, Zenon
    <3>2. Earlier(S, SubSeq(line, a, j)) = SubSeq(line, from(k), j)
      BY <2>3, <2>4, <1>b
    <3> QED  BY <3>1, <3>2
  <2> QED  BY <2>6
<1>8. Bad = {}
  <2>1. Bad \subseteq Nat
    OBVIOUS
  <2> HIDE DEF Bad
  <2> QED  BY <2>1, <1>7, LeastOfSet
<1>9. f[n] = SubSeq(line, from(n), j)
  BY <1>1, <1>8
<1>10. from(n) = 1
  OBVIOUS
<1> QED  BY <1>4, <1>9, <1>10

\* Two rows compare along the part of the line between them, in its direction only.
LEMMA PathIs ==
    ASSUME NEW S, IsFiniteSet(S), Linked(S), NEW rank, Ranked(S, rank), NEW line,
           Chain(S, line), NEW n \in Nat, n = Len(line), n = Cardinality(S),
           NEW i \in 1..n, NEW j \in 1..n
    PROVE  versionPath(S, line[i], line[j]) = IF i < j THEN SubSeq(line, i, j) ELSE None
<1>1. line \in Seq(S) /\ \A k \in 1..n : line[k] \in S
  BY ChainRows
<1>2. PICK trail : trail = SubSeq(line, 1, j)
  OBVIOUS
<1>3. Trail(S, line[j]) = trail
  BY <1>2, TrailIs
<1>4. /\ trail \in Seq(S) /\ Len(trail) = j
      /\ \A k \in 1..j : trail[k] = line[k]
  <2>1. \A k \in 1..j : line[k] \in S
    BY <1>1
  <2>2. 1 \in Int /\ j \in Int /\ 1 <= j /\ j - 1 + 1 = j
    OBVIOUS
  <2>3. /\ trail \in Seq(S) /\ Len(trail) = j
        /\ \A k \in 1..j : trail[k] = line[1 + k - 1]
    BY <2>1, <2>2, <1>2, SubSeqProperties
  <2>4. \A k \in 1..j : 1 + k - 1 = k
    OBVIOUS
  <2> QED  BY <2>3, <2>4
<1>5. \A k, o \in 1..n : line[k] = line[o] => k = o
  BY ChainDistinct
<1>6. DOMAIN trail = 1..j
  BY <1>4
<1>7. ToSet(trail) = {line[k] : k \in 1..j}
  BY <1>4, <1>6 DEF ToSet
<1>8. versionPath(S, line[i], line[j]) =
        IF line[i] = line[j] \/ line[i] \notin ToSet(trail) THEN None
        ELSE SubSeq(trail, CHOOSE k \in DOMAIN trail : trail[k] = line[i], Len(trail))
  BY <1>3 DEF versionPath
<1>9. CASE i < j
  <2>1. i \in 1..j /\ i # j
    BY <1>9
  <2>2. line[i] # line[j] /\ line[i] \in ToSet(trail)
    BY <2>1, <1>5, <1>7
  <2>3. \A k \in 1..j : trail[k] = line[i] => k = i
    <3>1. 1..j \subseteq 1..n
      OBVIOUS
    <3> QED  BY <3>1, <1>4, <1>5
  <2>4. trail[i] = line[i]
    BY <2>1, <1>4
  <2>5. (CHOOSE k \in DOMAIN trail : trail[k] = line[i]) = i
    BY <2>1, <2>3, <2>4, <1>6
  <2>6. versionPath(S, line[i], line[j]) = SubSeq(trail, i, j)
    BY <2>2, <2>5, <1>4, <1>8
  <2>7. SubSeq(trail, i, j) = SubSeq(line, i, j)
    <3>1. 1 \in 1..Len(line) /\ j \in 1..Len(line) /\ i \in 1..(j - 1 + 1)
          /\ j \in 1..(j - 1 + 1) /\ 1 + i - 1 = i /\ 1 + j - 1 = j
      BY <2>1
    <3>2. SubSeq(SubSeq(line, 1, j), i, j) = SubSeq(line, 1 + i - 1, 1 + j - 1)
      BY <3>1, <1>1, SubSeqOfSubSeq
    <3> QED  BY <3>1, <3>2, <1>2
  <2> QED  BY <2>6, <2>7, <1>9
<1>10. CASE ~(i < j)
  <2>1. line[i] = line[j] \/ line[i] \notin ToSet(trail)
    <3>1. CASE i = j
      BY <3>1
    <3>2. CASE i # j
      <4> SUFFICES ASSUME NEW k \in 1..j, line[i] = line[k] PROVE FALSE
        BY <1>7
      <4>1. k \in 1..n /\ k # i
        BY <3>2, <1>10
      <4> QED  BY <4>1, <1>5
    <3> QED  BY <3>1, <3>2
  <2> QED  BY <2>1, <1>8, <1>10
<1> QED  BY <1>9, <1>10

(***************************************************************************)
(* The order of dates.                                                     *)
(***************************************************************************)
Dated(S, top) ==
    /\ \A v \in S : v.label \in Nat /\ v.label <= top
    /\ \A v, w \in S : v # w => v.label # w.label

Sorted(line, n) == \A i, j \in 1..n : i < j => line[i].label < line[j].label

LEMMA SortedExists ==
    ASSUME NEW S, IsFiniteSet(S), NEW top \in Nat, Dated(S, top)
    PROVE  \E line \in [1..Cardinality(S) -> S] : Sorted(line, Cardinality(S))
<1> DEFINE G(m) == \A T \in SUBSET S :
                     Cardinality(T) = m => \E line \in [1..m -> T] : Sorted(line, m)
           Bad == {m \in Nat : ~G(m)}
<1>1. G(0)
  <2> SUFFICES ASSUME NEW T \in SUBSET S, Cardinality(T) = 0
               PROVE  \E line \in [1..0 -> T] : Sorted(line, 0)
    OBVIOUS
  <2>1. [i \in 1..0 |-> 0] \in [1..0 -> T]
    OBVIOUS
  <2>2. Sorted([i \in 1..0 |-> 0], 0)
    BY DEF Sorted
  <2> QED  BY <2>1, <2>2
<1>2. ASSUME NEW m \in Nat, G(m) PROVE G(m + 1)
  <2> SUFFICES ASSUME NEW T \in SUBSET S, Cardinality(T) = m + 1
               PROVE  \E line \in [1..(m + 1) -> T] : Sorted(line, m + 1)
    OBVIOUS
  <2>1. IsFiniteSet(T) /\ T # {}
    <3>1. IsFiniteSet(T)
      BY FS_Subset
    <3>2. m + 1 # 0
      OBVIOUS
    <3> QED  BY <3>1, <3>2, FS_EmptySet
  <2> DEFINE f == [v \in T |-> v.label]
  <2>2. \A v \in T : f[v] = v.label /\ f[v] \in Nat /\ f[v] <= top
    BY DEF Dated
  <2> HIDE DEF f
  <2>3. PICK v \in T : \A w \in T : f[w] <= f[v]
    BY <2>1, <2>2, GreatestValue
  <2>4. ASSUME NEW w \in T \ {v} PROVE w.label < v.label
    <3>1. PICK x \in Nat, y \in Nat : x = w.label /\ y = v.label
      BY <2>2
    <3>2. x <= y /\ x # y
      BY <3>1, <2>2, <2>3 DEF Dated
    <3>3. x < y
      BY <3>2
    <3> QED  BY <3>1, <3>3
  <2>5. Cardinality(T \ {v}) = m
    <3>1. Cardinality(T \ {v}) = Cardinality(T) - 1
      BY <2>1, FS_RemoveElement
    <3> QED  BY <3>1
  <2>6. PICK line \in [1..m -> T \ {v}] : Sorted(line, m)
    <3>1. T \ {v} \in SUBSET S
      OBVIOUS
    <3> QED  BY <3>1, <2>5, <1>2
  <2> DEFINE new == [i \in 1..(m + 1) |-> IF i = m + 1 THEN v ELSE line[i]]
  <2>7. /\ new \in [1..(m + 1) -> T]
        /\ new[m + 1] = v
        /\ \A i \in 1..m : new[i] = line[i] /\ line[i] \in T \ {v}
    OBVIOUS
  <2> HIDE DEF new, G
  <2>8. ASSUME NEW i \in 1..(m + 1), NEW j \in 1..(m + 1), i < j
        PROVE  new[i].label < new[j].label
    <3>1. i \in 1..m
      BY <2>8
    <3>2. CASE j = m + 1
      BY <3>1, <3>2, <2>4, <2>7
    <3>3. CASE j # m + 1
      <4>1. j \in 1..m
        BY <3>3
      <4> QED  BY <3>1, <4>1, <2>6, <2>7, <2>8 DEF Sorted
    <3> QED  BY <3>2, <3>3
  <2> QED  BY <2>7, <2>8 DEF Sorted
<1>3. ASSUME NEW k \in Bad, \A x \in Bad : k <= x PROVE FALSE
  <2>1. k \in Nat /\ k # 0
    BY <1>1
  <2>2. k - 1 \in Nat /\ (k - 1) + 1 = k /\ ~(k <= k - 1)
    BY <2>1
  <2> HIDE DEF G
  <2>3. G(k - 1)
    BY <1>3, <2>2
  <2> QED  BY <2>2, <2>3, <1>2
<1>4. Bad = {}
  <2>1. Bad \subseteq Nat
    OBVIOUS
  <2> HIDE DEF Bad
  <2> QED  BY <2>1, <1>3, LeastOfSet
<1>5. Cardinality(S) \in Nat
  BY FS_CardinalityType
<1>6. G(Cardinality(S))
  <2> HIDE DEF G
  <2> QED  BY <1>4, <1>5
<1> QED  BY <1>6

\* The last row by date has the greatest label of all.
LEMMA LastByDate ==
    ASSUME NEW S, IsFiniteSet(S), S # {}, NEW top \in Nat, Dated(S, top)
    PROVE  /\ Last(ByDate(S)) \in S
           /\ \A w \in S : w.label <= Last(ByDate(S)).label
<1>1. PICK n \in Nat : n = Cardinality(S) /\ n # 0
  BY FS_CardinalityType, FS_EmptySet
<1>2. PICK line : line = ByDate(S)
  OBVIOUS
<1>3. line \in [1..n -> S] /\ Sorted(line, n)
  <2>1. \E s \in [1..Cardinality(S) -> S] :
          \A i, j \in 1..Cardinality(S) : i < j => s[i].label < s[j].label
    BY SortedExists DEF Sorted
  <2> QED  BY <2>1, <1>1, <1>2 DEF ByDate, Sorted
<1>4. line \in Seq(S) /\ Len(line) = n /\ n \in 1..n
  BY <1>1, <1>3
<1>5. Last(line) = line[n] /\ line[n] \in S
  BY <1>3, <1>4 DEF Last
<1>6. \A i \in 1..n : line[i] \in S /\ line[i].label \in Nat
  BY <1>3 DEF Dated
<1>7. ASSUME NEW i \in 1..n, NEW j \in 1..n, line[i] = line[j] PROVE i = j
  <2>1. PICK x \in Nat : x = line[i].label
    BY <1>6
  <2>2. i < j => x < x
    BY <1>3, <1>7, <2>1 DEF Sorted
  <2>3. j < i => x < x
    BY <1>3, <1>7, <2>1 DEF Sorted
  <2> QED  BY <2>1, <2>2, <2>3
<1> DEFINE X == {line[i] : i \in 1..n}
<1>8. X = S
  <2>1. line \in [1..n -> X] /\ X \subseteq S /\ \A x \in X : \E i \in 1..n : line[i] = x
    BY <1>3
  <2> HIDE DEF X
  <2>2. line \in Bijection(1..n, X)
    BY <2>1, <1>7 DEF Bijection, Injection, Surjection, IsInjective
  <2>3. IsFiniteSet(1..n) /\ Cardinality(1..n) = n
    <3>1. 1 \in Int /\ n \in Int /\ (IF 1 > n THEN 0 ELSE n - 1 + 1) = n
      OBVIOUS
    <3> QED  BY <3>1, FS_Interval, Zenon
  <2>4. ExistsBijection(1..n, X)
    BY <2>2 DEF ExistsBijection
  <2>5. Cardinality(X) = n
    BY <2>3, <2>4, FS_Bijection
  <2> QED  BY <2>1, <2>5, <1>1, FS_Subset
<1>9. ASSUME NEW w \in S PROVE w.label <= line[n].label
  <2>1. PICK i \in 1..n : w = line[i]
    BY <1>8
  <2>2. PICK x \in Nat, y \in Nat : x = w.label /\ y = line[n].label
    BY <2>1, <1>4, <1>6
  <2>3. i < n \/ i = n
    OBVIOUS
  <2>4. i < n => x < y
    BY <2>1, <2>2, <1>3, <1>4 DEF Sorted
  <2>5. x <= y
    BY <2>1, <2>2, <2>3, <2>4
  <2> QED  BY <2>2, <2>5
<1> QED  BY <1>2, <1>5, <1>9

(***************************************************************************)
(* The end of the line.                                                    *)
(***************************************************************************)
\* Where one legal version ends the published history, the catalog flags its row.
LEMMA TipIsLatest ==
    ASSUME ChainInv, Grown, NEW c \in Constitution, NEW l \in LegalPublished(c),
           LegalTips(c, Published) = {l}
    PROVE  Entry(l).id = Latest(c) /\ latestVersion(c) = Entry(l)
<1>p. Published \subseteq Present /\ Present \subseteq Version
  BY DEF Published, Present
<1>1. l \in Present /\ l # None
  BY <1>p, NoneAssumption DEF LegalPublished
<1>2. First({l}) = l
  <2>1. row[l].label \in Label
    BY <1>1 DEF ChainInv, Shape
  <2> QED  BY <2>1, FirstOfOne
<1>3. FindLegalTip(c, Published) = l
  BY <1>2 DEF FindLegalTip
<1>4. Latest(c) = FindEditorialTip(l, Published)
  BY <1>1, <1>3 DEF Latest, FindLegalTipEditorialTip
<1>5. Entry(l).id = Latest(c)
  BY <1>4 DEF Entry
<1>6. Entry(l) \in versions(c)
  BY EntriesOf
<1>7. ASSUME NEW v \in versions(c), v.id = Latest(c) PROVE v = Entry(l)
  <2>1. PICK k \in LegalPublished(c) : v = Entry(k)
    BY EntriesOf
  <2>2. k = row[v.id].legal
    BY <2>1, EntryNames
  <2>3. l = row[Entry(l).id].legal
    BY EntryNames
  <2>4. k = l
    BY <2>2, <2>3, <1>5, <1>7
  <2> QED  BY <2>1, <2>4
<1>8. {v \in versions(c) : v.id = Latest(c)} = {Entry(l)}
  BY <1>5, <1>6, <1>7
<1>9. latestVersion(c) = Entry(l)
  <2> DEFINE flagged == {v \in versions(c) : v.id = Latest(c)}
  <2>2. latestVersion(c) =
          IF flagged # {} THEN CHOOSE v \in flagged : TRUE
          ELSE Last(orderVersions(versions(c)))
    BY Zenon DEF latestVersion
  <2>1. flagged = {Entry(l)}
    BY <1>8
  <2> HIDE DEF flagged
  <2>3. (CHOOSE v \in {Entry(l)} : TRUE) = Entry(l)
    OBVIOUS
  <2> QED  BY <2>1, <2>2, <2>3
<1> QED  BY <1>5, <1>9

\* A published legal version that succeeds one of this constitution is one of it, too.
LEMMA SuccessorIsListed ==
    ASSUME ChainInv, Grown, NEW c \in Constitution, NEW l \in LegalPublished(c),
           NEW w \in LegalSuccessors(l, Published)
    PROVE  /\ w \in LegalPublished(c)
           /\ Entry(w) \in versions(c)
           /\ Entry(w).predecessorVersionId # None
           /\ row[w].pred \in Present
           /\ row[row[w].pred].legal = l
<1>p. Published \subseteq Present /\ Present \subseteq Version
  BY DEF Published, Present
<1>1. w \in Published /\ row[w].hop = "legal" /\ row[row[w].pred].legal = l
  BY DEF LegalSuccessors
<1>2. row[w].pred \in Present /\ row[row[w].pred].constitution = row[w].constitution
  BY <1>1, <1>p DEF ChainInv, Shape
<1>3. row[l].constitution = row[row[w].pred].constitution /\ row[l].constitution = c
  BY <1>1, <1>2 DEF ChainInv, Shape, LegalPublished
<1>4. w \in LegalPublished(c)
  BY <1>1, <1>2, <1>3 DEF LegalPublished, LegalRow
<1>5. Entry(w) \in versions(c)
  BY <1>4, EntriesOf
<1>6. Entry(w).predecessorVersionId # None
  BY <1>1, <1>4, EntryNames
<1> QED  BY <1>1, <1>2, <1>4, <1>5, <1>6

\* A line that holds every row ends in the version the catalog flags.
LEMMA WholeLineEnds ==
    ASSUME ChainInv, Grown, NEW c \in Constitution, NEW line, Chain(versions(c), line),
           Len(line) = Cardinality(versions(c))
    PROVE  Last(line) = latestVersion(c) /\ latestVersion(c).id = Latest(c)
<1>1. PICK S : S = versions(c)
  OBVIOUS
<1>2. IsFiniteSet(S) /\ Linked(S)
  BY <1>1, RowsLinked
<1>3. PICK rank : Ranked(S, rank)
  BY <1>1, RowsLinked
<1>4. /\ Last(line) \in S
      /\ \A w \in S : ~Follows(S, w, Last(line))
      /\ \A v \in S : (\A w \in S : ~Follows(S, w, v)) => v = Last(line)
  BY <1>1, <1>2, <1>3, LastIsEnd
<1>5. PICK l \in LegalPublished(c) : Last(line) = Entry(l)
  BY <1>1, <1>4, EntriesOf
<1>6. ASSUME NEW w \in S, w.predecessorVersionId # None PROVE \E v \in S : Follows(S, w, v)
  <2>1. PICK n \in Nat : n = Len(line)
    BY DEF Chain
  <2>2. line \in Seq(S) /\ ToSet(line) = S
    BY <1>1, <1>2, <1>3, ChainCovers DEF Chain
  <2>3. S = {line[i] : i \in 1..n}
    BY <2>1, <2>2 DEF ToSet
  <2>4. PICK i \in 1..n : w = line[i]
    BY <2>3
  <2>5. i # 1
    BY <2>4, <1>6 DEF Chain
  <2>6. i - 1 \in 1..(n - 1) /\ (i - 1) + 1 = i /\ i - 1 \in 1..n
    BY <2>5
  <2>7. Follows(S, w, line[i - 1])
    BY <2>1, <2>4, <2>6, <1>1 DEF Chain
  <2> QED  BY <2>3, <2>6, <2>7
<1>7. ASSUME NEW w \in LegalSuccessors(l, Published) PROVE FALSE
  <2>1. Entry(w) \in S /\ Entry(w).predecessorVersionId # None /\ w \in LegalPublished(c)
        /\ row[row[w].pred].legal = l
    BY <1>1, SuccessorIsListed
  <2>2. PICK v \in S : Follows(S, Entry(w), v)
    BY <2>1, <1>6
  <2>3. row[row[w].pred].legal = v.legalVersionId
    BY <2>1, <2>2, <1>1, FollowsNames, EntryNames
  <2>4. PICK k \in LegalPublished(c) : v = Entry(k)
    BY <2>2, <1>1, EntriesOf
  <2>5. k = l
    BY <2>1, <2>3, <2>4, EntryNames
  <2> QED  BY <2>1, <2>2, <2>4, <2>5, <1>4, <1>5
<1>8. l \in LegalTips(c, Published)
  <2>1. LegalSuccessors(l, Published) = {}
    BY <1>7
  <2> QED  BY <2>1 DEF LegalTips, LegalPublished
<1>9. ASSUME NEW t \in LegalTips(c, Published) PROVE t = l
  <2>1. t \in LegalPublished(c) /\ LegalSuccessors(t, Published) = {}
    BY DEF LegalTips, LegalPublished
  <2>2. Entry(t) \in S
    BY <2>1, <1>1, EntriesOf
  <2>3. ASSUME NEW w \in S, Follows(S, w, Entry(t)) PROVE FALSE
    <3>1. PICK k \in LegalPublished(c) : w = Entry(k)
      BY <1>1, EntriesOf
    <3>2. row[k].hop = "legal" /\ row[row[k].pred].legal = t
      BY <3>1, <2>1, <2>2, <2>3, <1>1, FollowsNames, EntryNames
    <3>3. k \in LegalSuccessors(t, Published)
      BY <3>2 DEF LegalSuccessors, LegalPublished
    <3> QED  BY <3>3, <2>1
  <2>4. Entry(t) = Entry(l)
    BY <2>2, <2>3, <1>4, <1>5
  <2> QED  BY <2>1, <2>4, EntryNames
<1>10. LegalTips(c, Published) = {l}
  BY <1>8, <1>9
<1> QED  BY <1>5, <1>10, TipIsLatest

\* A row whose predecessor is listed follows the row that lists it.
LEMMA ListedIsFollowed ==
    ASSUME ChainInv, Grown, NEW c \in Constitution, Resolved(c), NEW w \in versions(c),
           w.predecessorVersionId # None
    PROVE  \E v \in versions(c) : Follows(versions(c), w, v)
<1>1. PICK pred : pred = w.predecessorVersionId
  OBVIOUS
<1>2. PICK r \in PublicRows(c) : r.legal = row[pred].legal /\ pred \in {r.legal, r.current}
  BY <1>1 DEF Resolved
<1>3. PICK l \in LegalPublished(c) :
        r = [legal |-> l, current |-> FindEditorialTip(l, Published)]
  BY <1>2 DEF PublicRows, LegalPublished
<1>4. r.legal = l /\ r.current = FindEditorialTip(l, Published)
  BY <1>3
<1>5. Entry(l).id = r.current /\ Entry(l).legalVersionId = r.legal
  BY <1>4 DEF Entry
<1>6. Entry(l) \in versions(c)
  BY EntriesOf
<1>7. pred \in {Entry(l).id, Entry(l).legalVersionId}
  BY <1>2, <1>5
<1>8. Follows(versions(c), w, Entry(l))
  BY <1>1, <1>6, <1>7 DEF Follows, Named
<1> QED  BY <1>6, <1>8

LEMMA ReadersFollow == ChainInv /\ Grown => ReadersFollowTheLaw
<1> SUFFICES ASSUME ChainInv, Grown, NEW c \in Constitution, versions(c) # {}, Resolved(c),
                    NEW line, line = orderVersions(versions(c))
             PROVE  /\ Last(line).id = Latest(c)
                    /\ \A i, j \in DOMAIN line :
                         /\ j = i + 1 =>
                              row[row[line[j].legalVersionId].pred].legal = line[i].legalVersionId
                         /\ versionPath(versions(c), line[i], line[j]) =
                              IF i < j THEN SubSeq(line, i, j) ELSE None
  BY Zenon DEF ReadersFollowTheLaw
<1>1. PICK S : S = versions(c)
  OBVIOUS
<1>2. IsFiniteSet(S) /\ S # {} /\ Linked(S)
  BY <1>1, RowsLinked
<1>3. PICK rank : Ranked(S, rank)
  BY <1>1, RowsLinked
<1>4. \A w \in S : w.predecessorVersionId # None => \E v \in S : Follows(S, w, v)
  BY <1>1, ListedIsFollowed
<1>5. Chain(S, Line(S)) /\ Len(Line(S)) = Cardinality(S)
  BY <1>2, <1>3, <1>4, LineHoldsAll
<1>6. line = Line(S)
  BY <1>1, <1>5 DEF orderVersions
<1>7. Chain(S, line) /\ Len(line) = Cardinality(S)
  BY <1>5, <1>6
<1>8. Last(line).id = Latest(c)
  <2>1. Chain(versions(c), line) /\ Len(line) = Cardinality(versions(c))
    BY <1>1, <1>7
  <2>2. Last(line) = latestVersion(c) /\ latestVersion(c).id = Latest(c)
    BY <2>1, WholeLineEnds
  <2> QED  BY <2>2
<1>9. PICK n \in Nat : n = Len(line)
  BY <1>7 DEF Chain
<1>10. line \in Seq(S) /\ DOMAIN line = 1..n /\ \A i \in 1..n : line[i] \in S
  <2>1. line \in Seq(S) /\ \A i \in 1..n : line[i] \in S
    BY <1>7, <1>9, ChainRows
  <2> QED  BY <2>1, <1>9
<1>11. n = Cardinality(S)
  BY <1>7, <1>9
<1>12. ASSUME NEW i \in 1..n, NEW j \in 1..n, j = i + 1
       PROVE  row[row[line[j].legalVersionId].pred].legal = line[i].legalVersionId
  <2>1. i \in 1..(n - 1)
    BY <1>12
  <2>2. Follows(S, line[i + 1], line[i])
    BY <2>1, <1>7, <1>9 DEF Chain
  <2>3. line[i] \in S /\ line[j] \in S /\ Follows(S, line[j], line[i])
    BY <2>2, <1>10, <1>12
  <2> QED  BY <2>3, <1>1, FollowsNames
<1>13. ASSUME NEW i \in 1..n, NEW j \in 1..n
       PROVE  versionPath(S, line[i], line[j]) = IF i < j THEN SubSeq(line, i, j) ELSE None
  BY <1>2, <1>3, <1>7, <1>9, <1>11, PathIs
<1> QED  BY <1>1, <1>8, <1>10, <1>12, <1>13

\* In a history dated in order, a correction is not dated before the version it corrects.
LEMMA CorrectionsAreLater ==
    ASSUME ChainInv, Grown, PublishedInOrder, Chronological, NEW p \in Published
    PROVE  row[row[p].legal].label <= row[p].label
<1>p. Published \subseteq Present /\ Present \subseteq Version
  BY DEF Published, Present
<1>1. PICK n \in Nat, age \in [Version -> Nat] : Ages(n, age)
  BY DEF Grown, Aged
<1>2. \A v \in Published : row[v].label \in Nat /\ row[row[v].legal].label \in Nat
  BY <1>p, LabelAssumption DEF ChainInv, Shape
<1> DEFINE Late == {v \in Published : ~(row[row[v].legal].label <= row[v].label)}
           D == {age[v] : v \in Late}
<1>3. ASSUME Late # {} PROVE FALSE
  <2>1. D \subseteq Nat /\ D # {}
    BY <1>3, <1>p
  <2>2. PICK m \in D : \A k \in D : m <= k
    <3> HIDE DEF D
    <3> QED  BY <2>1, LeastOfSet
  <2>3. PICK v \in Late : m = age[v]
    BY <2>2
  <2>4. v \in Published /\ v \in Present
    BY <1>p
  <2>5. PICK x \in Nat, y \in Nat : x = row[row[v].legal].label /\ y = row[v].label
    BY <1>2
  <2>6. ~(x <= y)
    BY <2>5
  <2>7. CASE row[v].hop # "editorial_correction"
    <3>1. row[v].legal = v
      BY <2>4, <2>7 DEF ChainInv, Shape, LegalRow
    <3>2. x = y
      BY <3>1, <2>5
    <3> QED  BY <3>2, <2>6
  <2>8. CASE row[v].hop = "editorial_correction"
    <3>1. PICK q : q = row[v].pred
      OBVIOUS
    <3>2. q \in Present /\ row[v].legal = row[q].legal
      BY <3>1, <2>4, <2>8 DEF ChainInv, Shape
    <3>3. q # None
      BY <3>2, <1>p, NoneAssumption
    <3>4. q \in Published /\ row[q].label < row[v].label
      BY <3>1, <3>3, <2>4 DEF PublishedInOrder, Chronological
    <3>5. age[q] < age[v] /\ age[q] \in Nat /\ age[v] \in Nat
      BY <3>1, <3>2, <2>4, <2>8, <1>1, <1>p DEF Ages
    <3>6. q \notin Late
      <4>1. q \in Late => age[q] \in D
        OBVIOUS
      <4>2. q \in Late => m <= age[q]
        BY <4>1, <2>2
      <4>3. PICK a \in Nat, b \in Nat : a = age[q] /\ b = age[v]
        BY <3>5
      <4> QED  BY <4>2, <4>3, <3>5, <2>3
    <3>7. PICK z \in Nat : z = row[q].label
      BY <3>4, <1>2
    <3>8. x <= z
      BY <3>2, <3>4, <3>6, <3>7, <2>5
    <3>9. z < y
      BY <3>4, <3>7, <2>5
    <3> QED  BY <3>8, <3>9, <2>6
  <2> QED  BY <2>7, <2>8
<1> QED  BY <1>3

\* Of rows in the order of dates the last is the end of the chain.
LEMMA DatesEndInTip ==
    ASSUME ChainInv, Grown, PrefixInv, PublishedInOrder, Chronological,
           NEW c \in Constitution, versions(c) # {}
    PROVE  Last(ByDate(versions(c))) = latestVersion(c) /\ latestVersion(c).id = Latest(c)
<1>p. Published \subseteq Present /\ Present \subseteq Version
  BY DEF Published, Present
<1>1. PICK S : S = versions(c)
  OBVIOUS
<1>2. IsFiniteSet(S) /\ S # {}
  BY <1>1, RowsLinked
<1>3. PICK top \in Nat : Dated(S, top)
  <2>1. PICK n \in Nat, age \in [Version -> Nat] : Ages(n, age)
    BY DEF Grown, Aged
  <2>2. ASSUME NEW v \in S PROVE v.label \in Nat /\ v.label <= n
    <3>1. PICK l \in LegalPublished(c) : v = Entry(l)
      BY <1>1, EntriesOf
    <3>2. l \in Present /\ v.label = row[l].label
      BY <3>1, EntryNames
    <3> QED  BY <3>2, <2>1, LabelAssumption DEF Ages, ChainInv, Shape
  <2>3. ASSUME NEW v \in S, NEW w \in S, v # w PROVE v.label # w.label
    <3>1. PICK l \in LegalPublished(c) : v = Entry(l)
      BY <1>1, EntriesOf
    <3>2. PICK k \in LegalPublished(c) : w = Entry(k)
      BY <1>1, EntriesOf
    <3>3. l # k
      BY <3>1, <3>2, <2>3
    <3>4. l \in Present /\ row[l].constitution = c /\ v.label = row[l].label
      BY <3>1, EntryNames
    <3>5. k \in Present /\ row[k].constitution = c /\ w.label = row[k].label
      BY <3>2, EntryNames
    <3> QED  BY <3>3, <3>4, <3>5 DEF Grown, UniqueLabels
  <2>4. Dated(S, n)
    BY <2>2, <2>3 DEF Dated
  <2> QED  BY <2>4
<1>4. PICK e \in S : e = Last(ByDate(S)) /\ \A w \in S : w.label <= e.label
  BY <1>2, <1>3, LastByDate
<1>5. PICK l \in LegalPublished(c) : e = Entry(l)
  BY <1>1, EntriesOf
<1>6. ASSUME NEW w \in LegalSuccessors(l, Published) PROVE FALSE
  <2>1. /\ w \in LegalPublished(c)
        /\ Entry(w) \in S
        /\ row[w].pred \in Present
        /\ row[row[w].pred].legal = l
    BY <1>1, SuccessorIsListed
  <2>2. PICK q : q = row[w].pred
    OBVIOUS
  <2>3. q # None
    BY <2>1, <2>2, <1>p, NoneAssumption
  <2>4. w \in Published
    BY <2>1 DEF LegalPublished
  <2>5. q \in Published /\ row[q].label < row[w].label
    BY <2>2, <2>3, <2>4 DEF PublishedInOrder, Chronological
  <2>6. row[l].label <= row[q].label
    BY <2>1, <2>2, <2>5, CorrectionsAreLater
  <2>7. row[w].label <= row[l].label
    BY <2>1, <1>4, <1>5, EntryNames
  <2>8. PICK x \in Nat, y \in Nat, z \in Nat :
          x = row[l].label /\ y = row[q].label /\ z = row[w].label
    <3>1. l \in Present /\ q \in Present /\ w \in Present
      BY <2>1, <2>2, <1>p DEF LegalPublished
    <3> QED  BY <3>1, LabelAssumption DEF ChainInv, Shape
  <2>9. x <= y /\ y < z /\ z <= x
    BY <2>5, <2>6, <2>7, <2>8
  <2> QED  BY <2>9
<1>7. l \in LegalTips(c, Published)
  <2>1. LegalSuccessors(l, Published) = {}
    BY <1>6
  <2> QED  BY <2>1 DEF LegalTips, LegalPublished
<1>8. OneEnd(Published)
  <2>1. Closed(Published)
    BY <1>p, NoneAssumption DEF Closed, PublishedInOrder, ChainInv, Shape
  <2> QED  BY <2>1, <1>p DEF PrefixInv
<1>9. LegalTips(c, Published) = {l}
  BY <1>7, <1>8 DEF OneEnd
<1> QED  BY <1>1, <1>4, <1>5, <1>9, TipIsLatest

LEMMA LineEnds == ChainInv /\ Grown /\ PrefixInv => LineEndsInLatest
<1> SUFFICES ASSUME ChainInv, Grown, PrefixInv, PublishedInOrder, Chronological,
                    NEW c \in Constitution, versions(c) # {}
             PROVE  /\ Last(orderVersions(versions(c))) = latestVersion(c)
                    /\ latestVersion(c).id = Latest(c)
  BY DEF LineEndsInLatest
<1>1. PICK S : S = versions(c)
  OBVIOUS
<1>2. IsFiniteSet(S) /\ S # {} /\ Linked(S)
  BY <1>1, RowsLinked
<1>3. PICK rank : Ranked(S, rank)
  BY <1>1, RowsLinked
<1>4. CASE Len(Line(S)) = Cardinality(S)
  <2>1. orderVersions(S) = Line(S)
    BY <1>4 DEF orderVersions
  <2>2. Roots(S) # {}
    <3>1. Cardinality(S) # 0
      BY <1>2, FS_EmptySet
    <3> QED  BY <3>1, <1>4, NoRootNoLine
  <2>3. Walked(S, Line(S), Cardinality(S))
    BY <2>2, <1>2, <1>3, LineIs
  <2>4. PICK line : line = Line(S)
    OBVIOUS
  <2>5. Chain(versions(c), line) /\ Len(line) = Cardinality(versions(c))
    BY <2>3, <2>4, <1>1, <1>4 DEF Walked
  <2>6. Last(line) = latestVersion(c) /\ latestVersion(c).id = Latest(c)
    BY <2>5, WholeLineEnds
  <2> QED  BY <2>1, <2>4, <2>6, <1>1
<1>5. CASE Len(Line(S)) # Cardinality(S)
  <2>1. orderVersions(S) = ByDate(S)
    BY <1>5 DEF orderVersions
  <2>2. Last(ByDate(versions(c))) = latestVersion(c) /\ latestVersion(c).id = Latest(c)
    BY DatesEndInTip
  <2> QED  BY <2>1, <2>2, <1>1
<1> QED  BY <1>4, <1>5

\* Where every row's predecessor is listed under its legal version or its newest
\* correction, the pages show the law's own order, from the initial version to the latest,
\* and compare any two versions along the part between them (orderVersions, versionPath).
THEOREM ReadersAreFollowing == Spec => []ReadersFollowTheLaw
BY ReadersFollow, ChainInvariant, GrownAlways, PTL

\* In a history published and dated in order, the last row is the version the catalog
\* flags as the latest, whether the rows are ordered by predecessor or by date.
THEOREM LineEndsAlways == Spec => []LineEndsInLatest
BY LineEnds, ChainInvariant, PrefixAlways, GrownAlways, PTL
=============================================================================
