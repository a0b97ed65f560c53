----------------------------- MODULE DraftEditor -----------------------------
(***************************************************************************)
(* The structured editor: the pages in which the author of one edit        *)
(* session works, and the draft the editor-service keeps for it.           *)
(*                                                                         *)
(* A page starts with one top-level node loaded; the others are stubs      *)
(* whose content is read when it is needed. Every command is applied to    *)
(* the page's own tree and appended to a list of operations, which Save    *)
(* submits together. The service replays the list on the stored draft. The *)
(* two never exchange a tree after the page has been loaded, so the page   *)
(* is right only as long as its tree is what that replay will give.        *)
(***************************************************************************)
EXTENDS DraftReplay, FiniteSets

CONSTANTS Tab,           \* the pages in which the session is open
          Source,        \* the tree of the version that is edited
          Selected,      \* the node a page is opened on
          Wording,       \* what an author may type
          MaxCommands,   \* commands that draw operation ids (they are random UUIDs)
          MaxSaves,      \* drafts the service accepts; a page of the last one is not edited
          MaxPending,    \* submitted drafts in flight
          HistoryLimit,  \* snapshots a page keeps, 100 in the code
          Overlapping    \* whether a page may read one node twice at a time

ASSUME SourceIsADraft == IsDraft(Source) /\ Units(Source) \subseteq Nat \ {0}
ASSUME EditorConstants ==
  /\ IsNode(Source, Selected)
  /\ {MaxCommands, MaxSaves, MaxPending, HistoryLimit} \subseteq Nat
  /\ Overlapping \in BOOLEAN

VARIABLES page,       \* what each page holds
          draft,      \* the stored draft: what its operations make of Source, and whether
                      \* the session is open for more of them
          saves,      \* submitted drafts the service has not handled
          drawn,      \* operation ids drawn so far
          commands    \* commands that have drawn some

vars == <<page, draft, saves, drawn, commands>>

\* The part of a tree that a page knows which has loaded these nodes.
Projection(roots, loaded) ==
  [i \in DOMAIN roots |->
     IF roots[i].id \in loaded THEN roots[i] ELSE [roots[i] EXCEPT !.content = <<>>]]

(* A page as the service renders it: without operations of its own. Its    *)
(* field base is the tree of its generation, which every later read of     *)
(* that generation returns.                                                *)
Opened ==
  LET first == IF IsNode(draft.roots, Selected) THEN Selected ELSE draft.roots[1].id
  IN  [base |-> draft.roots, generation |-> draft.generation,
       roots |-> Projection(draft.roots, {first}), operations |-> <<>>,
       history |-> <<>>, future |-> <<>>, loaded |-> {first},
       typing |-> Nowhere, reads |-> {}, loading |-> FALSE, submitted |-> FALSE]

Init ==
  /\ draft = [roots |-> Source, generation |-> 0, ids |-> {}, open |-> TRUE]
  /\ saves = {} /\ drawn = 0 /\ commands = 0
  /\ page = [p \in Tab |-> Opened]

----------------------------------------------------------------------------
(* Transactions. A command emits operations one after the other, each      *)
(* written against the tree the one before has left.                       *)

Working(p) == [roots |-> page[p].roots, operations |-> page[p].operations, drawn |-> drawn]

\* Rewording the unit that the last operation reworded replaces that operation.
Coalesces(work, op) ==
  /\ work.operations # <<>>
  /\ op.type \in {"replace_text", "set_metadata"}
  /\ Last(work.operations).targetId = op.targetId
  /\ Last(work.operations).type = op.type

emit(work, op) ==
  LET again == Coalesces(work, op)
      command == IF again THEN [op EXCEPT !.id = Last(work.operations).id,
                                          !.expectedRevisionId = Last(work.operations).expectedRevisionId]
                 ELSE [op EXCEPT !.id = work.drawn + 1]
  IN  [roots      |-> applyOperation(work.roots, command),
       operations |-> Append(IF again THEN Front(work.operations) ELSE work.operations, command),
       drawn      |-> IF again THEN work.drawn ELSE work.drawn + 1]

LastOf_Unlimited(s, n) == s   \* mutant: snapshots are kept for ever

LastOf(s, n) == SubSeq(s, IF Len(s) > n THEN Len(s) - n + 1 ELSE 1, Len(s))

(* Installs what a command has built. A command that is grouped with the   *)
(* typing before it adds no snapshot of its own.                           *)
transaction(p, work, grouped, typing) ==
  LET held == page[p]
      before == [roots |-> held.roots, operations |-> held.operations]
      inserted == {NewUnit(work.operations[k].id) :
                     k \in {k \in DOMAIN work.operations : work.operations[k].type = "insert_root"}}
  IN  /\ work.roots # held.roots
      /\ held.generation < MaxSaves
      /\ drawn' = work.drawn
      /\ commands' = IF work.drawn = drawn THEN commands ELSE commands + 1
      /\ commands' <= MaxCommands
      /\ page' = [page EXCEPT ![p] =
           [held EXCEPT !.roots = work.roots, !.operations = work.operations,
                        !.history = IF grouped THEN held.history
                                    ELSE LastOf(Append(held.history, before), HistoryLimit),
                        !.future = <<>>, !.typing = typing,
                        !.loaded = held.loaded \cup inserted]]
      /\ UNCHANGED <<draft, saves>>

\* A command of one operation.  Here and below, \E names what emit has returned.
change(p, op, grouped, typing) ==
  \E work \in {emit(Working(p), op)} : transaction(p, work, grouped, typing)

\* The units of the nodes a page has loaded: what is on its canvases.
Shown(p) == {i \in DOMAIN page[p].roots : page[p].roots[i].id \in page[p].loaded}
ShownTexts(p) ==
  UNION {{page[p].roots[i].content[j].id : j \in DOMAIN page[p].roots[i].content} : i \in Shown(p)}

\* A node that holds one text: its boundaries are edited as text.
simpleUnit(n) == Len(n.content) = 1

(* Neighbours that hold one text each share a canvas, which is known by    *)
(* the first of them. Keystrokes in one canvas that follow each other      *)
(* within 900 ms belong together; the clock decides, so either may happen. *)
(* What is pasted, or cut and joined by command, is grouped with nothing:  *)
(* as if the clock had run before it and after it.                         *)
Canvas(p, i) ==
  LET simple == {k \in Shown(p) : simpleUnit(page[p].roots[k])}
  IN  page[p].roots[Min({k \in 1..i : k = i \/ k..i \subseteq simple})].id

Keys(p) == {Nowhere} \cup {page[p].roots[i].id : i \in Shown(p)}

Groups(p, i, grouped, typing) ==
  /\ typing = Canvas(p, i)
  /\ grouped => page[p].typing = typing

\* Typing in a text.
Type(p) ==
  \E t \in ShownTexts(p), text \in Wording, grouped \in BOOLEAN, typing \in Keys(p) :
    LET roots == page[p].roots
        worded == TextOf(roots, t)
        op == [Operation("replace_text", t, worded.tok) EXCEPT
                 !.text = text, !.references = worded.refs]
    IN  /\ Groups(p, Holder(roots, t), grouped, typing)
        /\ change(p, op, grouped, typing)

\* The title of the selected node, in the properties panel.
Retitle(p) ==
  \E i \in Shown(p), title \in Wording \cup {<<>>} :
    LET n == page[p].roots[i]
        op == [Operation("set_metadata", n.id, n.tok) EXCEPT !.text = title]
    IN  change(p, op, FALSE, Nowhere)

(* The boundary between two neighbouring sentences is deleted: the second  *)
(* text moves under the first node, is merged with its text, and its own   *)
(* node, which must have no title, is removed in favour of the first.      *)
Join(p) ==
  \E i \in Shown(p), grouped \in BOOLEAN, typing \in Keys(p) :
    /\ Groups(p, i, grouped, typing)
    /\ i + 1 \in Shown(p)
    /\ simpleUnit(page[p].roots[i]) /\ simpleUnit(page[p].roots[i + 1])
    /\ page[p].roots[i + 1].val = <<>>
    /\ LET old == page[p].roots[i]
           removed == page[p].roots[i + 1]
           t == old.content[1]
           u == removed.content[1]
       IN  \E moved \in {emit(Working(p), [Operation("move", u.id, u.tok) EXCEPT !.position = 2,
                            !.destinationParentId = old.id, !.destinationRevisionId = old.tok])} :
           \E merged \in {emit(moved, [Operation("merge_text", t.id, token(moved.roots, t.id)) EXCEPT
                             !.mergeIds = <<t.id, u.id>>])} :
           \E gone \in {emit(merged, [Operation("remove", removed.id,
                                              token(merged.roots, removed.id)) EXCEPT
                           !.replacementId = old.id])} :
             transaction(p, gone, grouped, typing)

(* A sentence is cut in two: its text is split, a sibling node is inserted *)
(* behind its own and the second part moves there. The insertion names the *)
(* first node of the draft, whichever that is.                             *)
Divide(p) ==
  \E i \in Shown(p), grouped \in BOOLEAN, typing \in Keys(p) :
    /\ Groups(p, i, grouped, typing)
    /\ simpleUnit(page[p].roots[i])
    /\ Len(page[p].roots[i].content[1].val) > 1
    /\ LET old == page[p].roots[i]
           t == old.content[1]
       IN  \E split \in {emit(Working(p), [Operation("split_text", t.id, t.tok) EXCEPT !.parts = 1])} :
           \E sibling \in {emit(split, [Operation("insert_root", split.roots[1].id,
                                              split.roots[1].tok) EXCEPT !.position = i + 1])} :
           \E moved \in {emit(sibling, [Operation("move", NewUnit(split.drawn), split.drawn) EXCEPT
                            !.position = 1, !.destinationParentId = NewUnit(sibling.drawn),
                            !.destinationRevisionId = token(sibling.roots, NewUnit(sibling.drawn))])} :
             transaction(p, moved, grouped, typing)

\* A text is inserted at the end of the selected node.
Insert(p) ==
  \E i \in Shown(p) :
    LET n == page[p].roots[i]
        op == [Operation("insert_text", n.id, n.tok) EXCEPT
                 !.position = Len(n.content) + 1, !.text = <<"x">>]
    IN  change(p, op, FALSE, Nowhere)

\* The selected text, or the selected node unless it is the only one, is removed.
Discard(p) ==
  \E u \in ShownTexts(p) \cup {page[p].roots[i].id : i \in Shown(p)} :
    LET roots == page[p].roots
    IN  /\ IsNode(roots, u) => Len(roots) > 1
        /\ change(p, Operation("remove", u, token(roots, u)), FALSE, Nowhere)

\* The selected node moves one place up or down.
moveSelected(p) ==
  \E i \in Shown(p), delta \in {-1, 1} :
    /\ i + delta \in DOMAIN page[p].roots
    /\ LET n == page[p].roots[i]
           op == [Operation("move_root", n.id, n.tok) EXCEPT !.position = i + delta]
       IN  change(p, op, FALSE, Nowhere)

(* Undo and redo move whole snapshots between the two stacks.              *)
travel(p) ==
  LET held == page[p]
      now == [roots |-> held.roots, operations |-> held.operations]
      Back == /\ held.history # <<>>
              /\ page' = [page EXCEPT ![p] = [held EXCEPT
                   !.roots = Last(held.history).roots,
                   !.operations = Last(held.history).operations,
                   !.history = Front(held.history), !.future = Append(held.future, now),
                   !.typing = Nowhere]]
      Forth == /\ held.future # <<>>
               /\ page' = [page EXCEPT ![p] = [held EXCEPT
                    !.roots = Last(held.future).roots,
                    !.operations = Last(held.future).operations,
                    !.future = Front(held.future), !.history = Append(held.history, now),
                    !.typing = Nowhere]]
  IN  (Back \/ Forth) /\ UNCHANGED <<draft, saves, drawn, commands>>

----------------------------------------------------------------------------
(* Reads. A page asks for one node, or for all of them when it shows the   *)
(* preview. The answer is used only if it is of the page's own generation; *)
(* it may still be so when the request leaves, and not any more later.     *)

Request(p, root) ==
  /\ page' = [page EXCEPT ![p] = [page[p] EXCEPT !.loading = TRUE,
       !.reads = page[p].reads \cup
                   {[root |-> root, current |-> page[p].generation = draft.generation]}]]
  /\ UNCHANGED <<draft, saves, drawn, commands>>

(* ensureRoot looks whether the node is loaded before it asks, and not     *)
(* again when the answer is there. The list of nodes is disabled while     *)
(* something is loading; the list of changes, which asks the same, is not. *)
AskRoot(p) ==
  \E i \in DOMAIN page[p].roots :
    LET root == page[p].roots[i].id
    IN  /\ root \notin page[p].loaded
        /\ ~Overlapping => {r \in page[p].reads : r.root \in {root, Nowhere}} = {}
        /\ Request(p, root)

AskPreview(p) ==
  /\ ~Overlapping => page[p].reads = {}
  /\ Request(p, Nowhere)

hydrate_AsStored(root, operations) == root   \* mutant: the remappings are not made up for

\* What the page makes of a node that arrives: the operations' remappings are made up for.
hydrate(root, operations) ==
  LET after[n \in 0..Len(operations)] ==
        IF n = 0 THEN root ELSE RemapNode(after[n - 1], operations[n])
  IN  after[Len(operations)]

Hydrated(snapshot, base, arriving) ==
  [snapshot EXCEPT !.roots =
     Each([i \in DOMAIN @ |-> IF @[i].id \in arriving
                              THEN hydrate(NodeOf(base, @[i].id), snapshot.operations)
                              ELSE @[i]])]

ReadArrives(p, r) ==
  LET held == page[p]
      all == {held.base[i].id : i \in DOMAIN held.base}
      arriving == IF r.root = Nowhere THEN all \ held.loaded ELSE {r.root}
      now == Hydrated([roots |-> held.roots, operations |-> held.operations], held.base, arriving)
      each(snapshots) == [k \in DOMAIN snapshots |-> Hydrated(snapshots[k], held.base, arriving)]
  IN  /\ r.current
      /\ page' = [page EXCEPT ![p] = [held EXCEPT
           !.roots = now.roots, !.history = each(held.history), !.future = each(held.future),
           !.loaded = held.loaded \cup (IF r.root = Nowhere THEN all ELSE {r.root}),
           !.reads = held.reads \ {r}, !.loading = FALSE]]
      /\ UNCHANGED <<draft, saves, drawn, commands>>

\* A timeout, a refusal, or an answer of another generation: a message and nothing else.
ReadFails(p, r) ==
  /\ page' = [page EXCEPT ![p] = [page[p] EXCEPT !.reads = page[p].reads \ {r},
                                                   !.loading = FALSE]]
  /\ UNCHANGED <<draft, saves, drawn, commands>>

Read(p) == \E r \in page[p].reads : ReadArrives(p, r) \/ ReadFails(p, r)

----------------------------------------------------------------------------
(* Saving is a form the browser submits: the answer is another page. Until *)
(* it comes the old one is still there, and nothing keeps its author from  *)
(* pressing Save once more.                                                *)

Submit(p) ==
  LET save == [expectedGeneration |-> page[p].generation, operations |-> page[p].operations,
               shown |-> page[p].roots, loaded |-> page[p].loaded]
      again == Cardinality({s \in saves : s.save = save})
  IN  /\ ~page[p].loading
      /\ page[p].operations # <<>>
      /\ Cardinality(saves) < MaxPending
      /\ saves' = saves \cup {[save |-> save, nth |-> again + 1]}
      /\ page' = [page EXCEPT ![p].submitted = TRUE]
      /\ UNCHANGED <<draft, drawn, commands>>

Ids(operations) == {operations[k].id : k \in DOMAIN operations}

Acceptable_AnyGeneration(save) ==   \* mutant: the revisions alone decide
  LET result == replay(draft.roots, save.operations)
  IN  /\ draft.open
      /\ Ids(save.operations) \cap draft.ids = {}
      /\ result.accepted /\ validate(result.roots)

Acceptable(save) ==
  LET result == replay(draft.roots, save.operations)
  IN  /\ draft.open
      /\ save.expectedGeneration = draft.generation
      /\ Ids(save.operations) \cap draft.ids = {}
      /\ result.accepted /\ validate(result.roots)

Accept_SameGeneration(s) ==   \* mutant: the generation stays when the draft changes
  /\ Acceptable(s.save)
  /\ draft' = [draft EXCEPT !.roots = replay(draft.roots, s.save.operations).roots,
                            !.ids = @ \cup Ids(s.save.operations)]
  /\ saves' = saves \ {s}
  /\ UNCHANGED <<page, drawn, commands>>

\* StructuredDraftService.save, which the session's row lock makes one step.
Accept(s) ==
  /\ Acceptable(s.save)
  /\ draft.generation < MaxSaves
  /\ draft' = [roots |-> replay(draft.roots, s.save.operations).roots,
               generation |-> draft.generation + 1,
               ids |-> draft.ids \cup Ids(s.save.operations), open |-> TRUE]
  /\ saves' = saves \ {s}
  /\ UNCHANGED <<page, drawn, commands>>

Refuse(s) ==
  /\ ~Acceptable(s.save)
  /\ saves' = saves \ {s}
  /\ UNCHANGED <<page, draft, drawn, commands>>

(* The session closes for structured saves: it is submitted for review,    *)
(* gets a plain-body draft, or its source or settings are not the pinned   *)
(* ones any more. It is open again when the reviewer asks for changes.     *)
Close ==
  /\ draft' = [roots |-> draft.roots, generation |-> draft.generation, ids |-> draft.ids,
               open |-> ~draft.open]
  /\ UNCHANGED <<page, saves, drawn, commands>>

(* The answer of either outcome, or of a request that timed out, is a page *)
(* rendered anew; what was not accepted by then is gone from it.           *)
Reload(p) ==
  /\ page[p].submitted
  /\ page' = [page EXCEPT ![p] = Opened]
  /\ UNCHANGED <<draft, saves, drawn, commands>>

Command(p) ==
  \/ Type(p) \/ Retitle(p) \/ Join(p) \/ Divide(p) \/ Insert(p) \/ Discard(p) \/ moveSelected(p)

Next ==
  \/ \E p \in Tab : Command(p) \/ travel(p) \/ AskRoot(p) \/ AskPreview(p) \/ Read(p)
                    \/ Submit(p) \/ Reload(p)
  \/ \E s \in saves : Accept(s) \/ Refuse(s)
  \/ Close

Spec == Init /\ [][Next]_vars
----------------------------------------------------------------------------
(* Properties *)

(* The ids of a page's nodes are distinct, its operations were drawn, its  *)
(* generation has existed, and it keeps no more snapshots than it may.     *)
TypeOK ==
  /\ commands \in 0..MaxCommands /\ drawn \in Nat
  /\ draft.generation \in 0..MaxSaves /\ draft.ids \subseteq 1..drawn
  /\ \A p \in Tab :
       /\ page[p].generation <= draft.generation
       /\ Len(page[p].history) <= HistoryLimit + Len(page[p].future)
       /\ \A i, j \in DOMAIN page[p].roots : page[p].roots[i].id = page[p].roots[j].id => i = j
       /\ Ids(page[p].operations) \subseteq 1..drawn

\* A tree as a page with these nodes loaded can know it.
Known(roots, loaded) ==
  [i \in DOMAIN roots |->
     IF roots[i].id \in loaded THEN roots[i] ELSE [roots[i] EXCEPT !.content = <<>>, !.tok = Revision]]

IsReplayOf(p, snapshot) ==
  Known(snapshot.roots, page[p].loaded)
    = Known(replay(page[p].base, snapshot.operations).roots, page[p].loaded)

(* What the author sees is what the service will make of the operations,   *)
(* in every node the page has loaded, whenever in the editing it was       *)
(* loaded, and in every state that undo and redo can bring back: an edit   *)
(* that is listed is on the canvas and an edit on the canvas is listed.    *)
(* The page never receives a tree again, so nothing would repair it.       *)
CanvasIsTheReplay ==
  \A p \in Tab :
    /\ IsReplayOf(p, page[p])
    /\ \A k \in DOMAIN page[p].history : IsReplayOf(p, page[p].history[k])
    /\ \A k \in DOMAIN page[p].future : IsReplayOf(p, page[p].future[k])

(* The service refuses a save of an open session only because another one  *)
(* was accepted in between, or because a reference is left whose unit the  *)
(* author has removed: the expected revisions that the page writes into    *)
(* its operations, through coalescing, undo, late reads and remappings,    *)
(* are the ones the service finds. A refused save loses the author's work. *)
(* Dividing a sentence expects the first node's token even while that      *)
(* node is a stub, which takes part in no remapping: such a save may be    *)
(* refused. The instance opens its pages on the first node and ends        *)
(* before a remapped stub can have taken its place.                        *)
SaveRefusedOnlyWhenOvertaken ==
  /\ \A s \in saves : draft.open /\ s.save.expectedGeneration = draft.generation =>
       Acceptable(s.save) \/ ~validate(replay(draft.roots, s.save.operations).roots)
  /\ \A p \in Tab : replay(page[p].base, page[p].operations).accepted

(* An accepted save turns the draft into what its author was looking at    *)
(* when the form was sent, whatever other pages of the session have saved  *)
(* and however often the form was sent.                                    *)
SavedIsWhatWasShown ==
  [][draft' # draft => \A s \in saves \ saves' :
       Known(draft'.roots, s.save.loaded) = Known(s.save.shown, s.save.loaded)]_vars

=============================================================================
