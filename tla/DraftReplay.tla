----------------------------- MODULE DraftReplay -----------------------------
(***************************************************************************)
(* The tree of a structured draft and the operations over it, which the    *)
(* editor's page replays as its author works and the editor-service        *)
(* replays again when the author saves.                                    *)
(*                                                                         *)
(* A draft is a sequence of top-level nodes, each with an ordered list of  *)
(* texts. Every unit, node or text, has an id and a token: the id of the   *)
(* operation that wrote it last, or Revision while it is the stored one.   *)
(* Wording is a sequence of atoms, so that texts can be cut and joined;    *)
(* the inline references of a text are the ids of the units they name.     *)
(***************************************************************************)
EXTENDS Integers, Sequences, SequencesExt

Revision == 0
Nowhere  == 0

(* An operation that brings a unit into the draft names it by its own id.  *)
NewUnit(id) == -id

\* The one index in a set of them, 0 when there is none.
Index(S) == IF S = {} THEN 0 ELSE CHOOSE i \in S : TRUE

\* The position of a unit in a list of nodes or of texts.
At(units, u) == Index({i \in DOMAIN units : units[i].id = u})

\* The position of the node that holds text t.
Holder(roots, t) ==
  Index({i \in DOMAIN roots : \E j \in DOMAIN roots[i].content : roots[i].content[j].id = t})

IsNode(roots, u) == At(roots, u) # 0
Present(roots, u) == IsNode(roots, u) \/ Holder(roots, u) # 0

NodeOf(roots, u) == roots[At(roots, u)]
TextOf(roots, t) == LET n == roots[Holder(roots, t)] IN n.content[At(n.content, t)]

token(roots, u) == IF IsNode(roots, u) THEN NodeOf(roots, u).tok ELSE TextOf(roots, u).tok

Texts(n) == {n.content[j].id : j \in DOMAIN n.content}
Units(roots) == UNION {{roots[i].id} \cup Texts(roots[i]) : i \in DOMAIN roots}

\* A sequence of nodes that hold sequences of texts, and no two units have the same id.
IsDraft(roots) ==
  /\ roots \in Seq(ToSet(roots))
  /\ \A i \in DOMAIN roots :
       LET n == roots[i]
       IN  /\ n = [id |-> n.id, tok |-> n.tok, val |-> n.val, content |-> n.content]
           /\ n.content \in Seq(ToSet(n.content))
           /\ \A j \in DOMAIN n.content :
                LET t == n.content[j]
                IN  /\ t = [id |-> t.id, tok |-> t.tok, val |-> t.val, refs |-> t.refs]
                    /\ \A m \in DOMAIN n.content : t.id = n.content[m].id => j = m
           /\ \A k \in DOMAIN roots :
                /\ roots[k].id \notin Texts(n)
                /\ i # k => n.id # roots[k].id /\ Texts(n) \cap Texts(roots[k]) = {}

\* Every field of an operation; those a type does not use keep these values.
Operation(type, target, expected) ==
  [id |-> 0, type |-> type, targetId |-> target, expectedRevisionId |-> expected,
   text |-> <<>>, references |-> {}, position |-> 0, parts |-> 0, mergeIds |-> <<>>,
   destinationParentId |-> Nowhere, destinationRevisionId |-> Revision,
   replacementId |-> Nowhere]

----------------------------------------------------------------------------
(* References follow a unit that was merged or replaced into its successor *)
(* wherever they are; a text that is changed by this, and the node holding *)
(* it, take the operation's token.                                         *)

\* The sequence itself: written so, TLC computes its elements once and not at every use.
Each(s) == SubSeq(s, 1, Len(s))

Successor(op, u) ==
  CASE op.type = "remove" /\ op.replacementId # Nowhere /\ u = op.targetId -> op.replacementId
    [] op.type = "merge_text" /\ u \in ToSet(op.mergeIds) -> op.targetId
    [] OTHER -> u

RemapText(t, op) ==
  LET refs == {Successor(op, u) : u \in t.refs}
  IN  IF refs = t.refs THEN t ELSE [t EXCEPT !.refs = refs, !.tok = op.id]

RemapNode(n, op) ==
  LET content == Each([j \in DOMAIN n.content |-> RemapText(n.content[j], op)])
  IN  IF content = n.content THEN n ELSE [n EXCEPT !.content = content, !.tok = op.id]

remapDraftTargets(roots, op) ==
  IF op.type \in {"remove", "merge_text"}
  THEN Each([i \in DOMAIN roots |-> RemapNode(roots[i], op)])
  ELSE roots

----------------------------------------------------------------------------
\* Gives node number i a new list of texts, and the operation's token.
WithContent(roots, i, content, op) ==
  [roots EXCEPT ![i].content = content, ![i].tok = op.id]

\* Takes text t out of the node that holds it.
Detached(roots, t, op) ==
  LET i == Holder(roots, t)
  IN  WithContent(roots, i, RemoveAt(roots[i].content, At(roots[i].content, t)), op)

ReplaceText(roots, op) ==
  LET i == Holder(roots, op.targetId)
      j == At(roots[i].content, op.targetId)
      t == [roots[i].content[j] EXCEPT !.val = op.text, !.refs = op.references, !.tok = op.id]
  IN  WithContent(roots, i, ReplaceAt(roots[i].content, j, t), op)

SetMetadata(roots, op) ==
  [roots EXCEPT ![At(roots, op.targetId)].val = op.text, ![At(roots, op.targetId)].tok = op.id]

InsertText(roots, op) ==
  LET i == At(roots, op.targetId)
      t == [id |-> NewUnit(op.id), tok |-> op.id, val |-> op.text, refs |-> {}]
  IN  WithContent(roots, i, InsertAt(roots[i].content, op.position, t), op)

InsertRoot(roots, op) ==
  InsertAt(roots, op.position, [id |-> NewUnit(op.id), tok |-> op.id, val |-> <<>>, content |-> <<>>])

MoveRoot(roots, op) ==
  InsertAt(RemoveAt(roots, At(roots, op.targetId)), op.position, NodeOf(roots, op.targetId))

MoveEntry(roots, op) ==
  LET retained == Detached(roots, op.targetId, op)
      i == At(retained, op.destinationParentId)
  IN  WithContent(retained, i, InsertAt(retained[i].content, op.position, TextOf(roots, op.targetId)), op)

RemoveUnit(roots, op) ==
  IF IsNode(roots, op.targetId)
  THEN RemoveAt(roots, At(roots, op.targetId))
  ELSE Detached(roots, op.targetId, op)

\* The first part keeps the text's id; what the references point at stays in it.
splitEntry(roots, op) ==
  LET i == Holder(roots, op.targetId)
      j == At(roots[i].content, op.targetId)
      t == roots[i].content[j]
      head == [t EXCEPT !.val = SubSeq(@, 1, op.parts), !.tok = op.id]
      tail == [id |-> NewUnit(op.id), tok |-> op.id, refs |-> {},
               val |-> SubSeq(t.val, op.parts + 1, Len(t.val))]
  IN  WithContent(roots, i, InsertAt(ReplaceAt(roots[i].content, j, head), j + 1, tail), op)

mergeEntries(roots, op) ==
  LET i == Holder(roots, op.targetId)
      j == At(roots[i].content, op.targetId)
      t == roots[i].content[j]
      u == roots[i].content[j + 1]
      merged == [t EXCEPT !.val = @ \o u.val, !.refs = @ \cup u.refs, !.tok = op.id]
  IN  WithContent(roots, i, RemoveAt(ReplaceAt(roots[i].content, j, merged), j + 1), op)

applyOperation(roots, op) ==
  LET edited ==
        CASE op.type = "replace_text" -> ReplaceText(roots, op)
          [] op.type = "set_metadata" -> SetMetadata(roots, op)
          [] op.type = "insert_text"  -> InsertText(roots, op)
          [] op.type = "insert_root"  -> InsertRoot(roots, op)
          [] op.type = "move_root"    -> MoveRoot(roots, op)
          [] op.type = "move"         -> MoveEntry(roots, op)
          [] op.type = "remove"       -> RemoveUnit(roots, op)
          [] op.type = "split_text"   -> splitEntry(roots, op)
          [] op.type = "merge_text"   -> mergeEntries(roots, op)
  IN  remapDraftTargets(edited, op)

----------------------------------------------------------------------------
(* The service checks every operation against the tree as the operations   *)
(* before it have left it, and refuses the whole batch if one of them was  *)
(* not written against that tree. What replay accepts it still validates.  *)

\* The operation can be carried out on this tree: its units are there, its position exists.
InPlace(roots, op) ==
  /\ Present(roots, op.targetId)
  /\ op.type \in {"insert_root", "move_root", "set_metadata", "insert_text"} =>
       IsNode(roots, op.targetId)
  /\ op.type \in {"replace_text", "split_text", "merge_text", "move"} =>
       Holder(roots, op.targetId) # 0
  /\ op.type = "insert_root" => op.position \in 1..Len(roots) + 1
  /\ op.type = "move_root" => op.position \in 1..Len(roots)
  /\ op.type = "insert_text" => op.position \in 1..Len(NodeOf(roots, op.targetId).content) + 1
  /\ op.type = "move" =>
       /\ IsNode(roots, op.destinationParentId)
       /\ LET retained == Detached(roots, op.targetId, op)
          IN  op.position \in 1..Len(NodeOf(retained, op.destinationParentId).content) + 1
  /\ op.type = "merge_text" =>
       LET content == roots[Holder(roots, op.targetId)].content
           j == At(content, op.targetId)
       IN  j < Len(content) /\ op.mergeIds = <<content[j].id, content[j + 1].id>>
  /\ op.replacementId # Nowhere =>
       /\ IsNode(roots, op.targetId) /\ IsNode(roots, op.replacementId)
       /\ op.replacementId # op.targetId

Pinned(roots, op) ==
  /\ InPlace(roots, op)
  /\ op.expectedRevisionId = token(roots, op.targetId)
  /\ op.type = "move" => op.destinationRevisionId = token(roots, op.destinationParentId)

replayStep(draft, op) ==
  IF draft.accepted /\ Pinned(draft.roots, op)
  THEN [draft EXCEPT !.roots = applyOperation(@, op)]
  ELSE [draft EXCEPT !.accepted = FALSE]

replay(roots, operations) ==
  LET after[n \in 0..Len(operations)] ==
        IF n = 0 THEN [accepted |-> TRUE, roots |-> roots]
                 ELSE replayStep(after[n - 1], operations[n])
  IN  after[Len(operations)]

(* The tree that the last operation leaves is validated once more. Of what *)
(* is checked there, this data tells one thing apart: a reference names a  *)
(* unit of the tree. Nothing on the page looks for it.                     *)
validate(roots) ==
  \A i \in DOMAIN roots :
    \A j \in DOMAIN roots[i].content : roots[i].content[j].refs \subseteq Units(roots)
=============================================================================
