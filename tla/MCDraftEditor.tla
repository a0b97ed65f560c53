---------------------------- MODULE MCDraftEditor ----------------------------
(* Small instances of DraftEditor.                                         *)
EXTENDS DraftEditor, TLC

Node(id, text) == [id |-> id, tok |-> Revision, val |-> <<>>, content |-> <<text>>]
Text(id, val, refs) == [id |-> id, tok |-> Revision, val |-> val, refs |-> refs]

\* Three sentences, each in a node of its own: the last one refers to the second
\* and to its text, which are merged away while it is not loaded.
Sentences == << Node(1, Text(11, <<"a">>, {})),
                Node(2, Text(12, <<"b">>, {})),
                Node(3, Text(13, <<"c">>, {2, 12})) >>

\* One sentence that can be divided.
One == << Node(1, Text(11, <<"a", "b">>, {})) >>

\* Two sentences, of which the second refers to the first.
Pair == << Node(1, Text(11, <<"a">>, {})),
           Node(2, Text(12, <<"b">>, {1, 11})) >>

Words == {<<"a">>, <<"x">>}

Tabs == Permutations(Tab)

VARIABLE instance  \* the part of the instance a behavior stays in

Fresh(p) == page[p] = Opened

\* One page, in which everything can be edited, read late, undone and redone.
Editing ==
  /\ saves = {} /\ draft.open
  /\ Cardinality({p \in Tab : ~Fresh(p)}) <= 1

\* One page that saves what it has removed or joined.
Removing ==
  /\ Cardinality(saves) <= 1
  /\ Cardinality({p \in Tab : ~Fresh(p)}) <= 1
  /\ \A p \in Tab : /\ page[p].future = <<>>
                   /\ \A k \in DOMAIN page[p].operations :
                        page[p].operations[k].type \in {"move", "merge_text", "remove"}

\* Two pages that save every command, in a session that may close before the first save.
Saving ==
  /\ draft.open \/ draft.generation = 0
  /\ \A p \in Tab : /\ page[p].future = <<>>
                   /\ \A k \in DOMAIN page[p].operations : page[p].operations[k].text # <<"a">>

\* A page with operations gets no others before it is loaded anew.
OneCommand ==
  \A p \in Tab : page[p].operations = <<>> \/ page'[p].operations \in {<<>>, page[p].operations}

MCInit ==
  \/ instance = "editing" /\ Init
  \/ /\ \/ instance = "saving" /\ draft = [roots |-> One, generation |-> 0, ids |-> {}, open |-> TRUE]
        \/ instance = "removing" /\ draft = [roots |-> Pair, generation |-> 0, ids |-> {}, open |-> TRUE]
     /\ saves = {} /\ drawn = 0 /\ commands = 0
     /\ page = [p \in Tab |-> Opened]

MCNext ==
  /\ Next
  /\ UNCHANGED instance
  /\ CASE instance = "editing"  -> Editing'
       [] instance = "removing" -> Removing'
       [] instance = "saving"   -> Saving' /\ OneCommand

MCSpec == MCInit /\ [][MCNext]_<<vars, instance>>
=============================================================================
