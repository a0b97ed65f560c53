---------------------------- MODULE Consolidation ----------------------------
(***************************************************************************)
(* Gateway: the consolidated comparison of two versions of a constitution. *)
(*                                                                         *)
(* The page compares the two snapshots at its ends, never the steps        *)
(* between them, and lists each net change once: a changed passage where   *)
(* it is deepest, or the whole passage around it when that one was added,  *)
(* removed, retitled or reordered itself.  Recorded amendments name        *)
(* passages too; one whose ends agree is listed as reversed, and hidden    *)
(* unless the reader asks for it.                                          *)
(*                                                                         *)
(* A document is the order of what each holder holds and the wording of    *)
(* each passage: the text of a text, the label and title of an article or  *)
(* section.  Articles hold sections and texts, sections hold texts.  The   *)
(* steps amend the later version; the comparison is a function of its      *)
(* state.                                                                  *)
(***************************************************************************)
EXTENDS Integers, SequencesExt

CONSTANTS
    Article, Section, Text,  \* logical ids, which no two passages share
    Word,                    \* wordings
    Root,                    \* the holder of the articles
    Missing,                 \* the wording of a passage that is not there
    Original,                \* the document of the earlier version
    MaxEdits                 \* bound on the edits between the versions

Passage == Article \cup Section \cup Text
Holder == {Root} \cup Article \cup Section

MayHold(h) == IF h = Root THEN Article
              ELSE IF h \in Article THEN Section \cup Text ELSE Text

Held(order, h) == ToSet(order[h])

Document ==
    {d \in [order: [Holder -> Seq(Passage)], wording: [Passage -> Word \cup {Missing}]] :
        /\ \A h \in Holder : Held(d.order, h) \subseteq MayHold(h) /\ IsInjective(d.order[h])
        /\ \A g, h \in Holder : g # h => Held(d.order, g) \cap Held(d.order, h) = {}
        /\ \A p \in Passage :
             LET there == \E h \in Holder : p \in Held(d.order, h)
             IN  /\ there <=> d.wording[p] # Missing
                 /\ ~there /\ p \in Holder => d.order[p] = <<>>}

ASSUME DocumentAssumption == Original \in Document

\* No two passages share an id, and nothing is worded like a passage that is not there.
ASSUME IdsAreDistinct ==
    /\ Article \cap Section = {} /\ Article \cap Text = {} /\ Section \cap Text = {}
    /\ Root \notin Passage
    /\ Missing \notin Word

VARIABLES
    after,     \* the later version
    recorded,  \* the passages that the amendments between the two refer to
    edits      \* history: how many edits were made

vars == <<after, recorded, edits>>

before == Original

(***************************************************************************)
(* indexPassages: the passages of a version, and what encloses each.       *)
(***************************************************************************)
Index(d) == UNION {Held(d.order, h) : h \in Holder}

Parents(d, p) ==
    LET around == {h \in Article \cup Section : p \in Held(d.order, h)}
    IN  around \cup {a \in Article : around \cap Held(d.order, a) # {}}

Content(d, p) == IF p \in Holder THEN d.order[p] ELSE <<>>

\* A passage and everything in it.
Within(d, p) ==
    LET inside == ToSet(Content(d, p))
    IN  {p} \cup inside \cup UNION {ToSet(Content(d, q)) : q \in inside}

(***************************************************************************)
(* consolidatePassages                                                     *)
(***************************************************************************)
SameSignature(p) ==
    \A q \in Within(before, p) \cup Within(after, p) :
        /\ before.wording[q] = after.wording[q]
        /\ Content(before, q) = Content(after, q)

samePassage(p) ==
    /\ p \in Index(before) <=> p \in Index(after)
    /\ SameSignature(p)
    /\ Parents(before, p) = Parents(after, p)

reordered(p) ==
    LET b == Content(before, p)
        a == Content(after, p)
    IN  Len(b) = Len(a) /\ ToSet(b) = ToSet(a) /\ b # a

reorderedRoots_All ==   \* mutant: an article that is inserted moves all that follow it
    LET b == before.order[Root]
        a == after.order[Root]
    IN  {b[i] : i \in {i \in DOMAIN b : b[i] \in ToSet(a) /\ (i > Len(a) \/ a[i] # b[i])}}

\* The elements of s that are in S, in their order.
Filter(s, S) ==
    LET kept[n \in 0..Len(s)] ==
            IF n = 0 THEN <<>>
            ELSE IF s[n] \in S THEN Append(kept[n - 1], s[n]) ELSE kept[n - 1]
    IN  kept[Len(s)]

\* The articles in both versions that are not where they were among each other.
reorderedRoots ==
    LET Shared(d) == Filter(d.order[Root], Index(before) \cap Index(after))
        b == Shared(before)
    IN  {b[i] : i \in {i \in DOMAIN b : b[i] # Shared(after)[i]}}

\* The content of the passage as it is in the later version, or in the earlier one
\* if it is gone.
hasChildren(p) == Content(IF p \in Index(after) THEN after ELSE before, p) # <<>>

Candidate_LeafOnly(p) ==   \* mutant: what holds something is left to what it holds
    \/ p \in recorded \cup reorderedRoots
    \/ ~samePassage(p) /\ ~hasChildren(p)

Candidate(p) ==
    \/ p \in recorded \cup reorderedRoots
    \/ /\ ~samePassage(p)
       /\ \/ p \notin Index(before)
          \/ p \notin Index(after)
          \/ ~hasChildren(p)
          \/ before.wording[p] # after.wording[p]
          \/ reordered(p)

ParentsOf(p) == IF p \in Index(after) THEN Parents(after, p) ELSE Parents(before, p)

Kind(p) ==
    IF samePassage(p) /\ p \notin reorderedRoots THEN "reversed"
    ELSE IF p \notin Index(before) THEN "added"
    ELSE IF p \notin Index(after) THEN "removed" ELSE "changed"

\* The recorded changes a row is attributed to.
Provenance(p) ==
    {q \in recorded : \/ q = p
                      \/ p \in (IF q \in Index(before) THEN Parents(before, q)
                                ELSE Parents(after, q))}

\* A candidate inside another candidate is shown with it.
Rows ==
    LET candidates == {p \in Passage : Candidate(p)}
    IN  {[id |-> p, kind |-> Kind(p), provenance |-> Provenance(p)] :
            p \in {p \in candidates : /\ ParentsOf(p) \cap candidates = {}
                                      /\ Kind(p) = "reversed" => Provenance(p) # {}}}

(***************************************************************************)
(* The edits between the two versions, each recorded by an amendment or    *)
(* not.                                                                    *)
(***************************************************************************)
Take(d, p) == [h \in Holder |-> Filter(d.order[h], Passage \ {p})]

Put(order, p, h, i) == [order EXCEPT ![h] = InsertAt(@, i, p)]

Amend(p, document) ==
    /\ edits < MaxEdits
    /\ after' = document
    /\ recorded' \in {recorded, recorded \cup {p}}
    /\ edits' = edits + 1

Reword(p) ==
    /\ p \in Index(after)
    /\ \E w \in Word \ {after.wording[p]} : Amend(p, [after EXCEPT !.wording[p] = w])

\* A passage that is added is given an id of its own.
Insert(p) ==
    /\ p \notin Index(before) \cup Index(after)
    /\ \E h \in {h \in Holder \cap (Index(after) \cup {Root}) : p \in MayHold(h)}, w \in Word :
         \E i \in 1..(Len(after.order[h]) + 1) :
           Amend(p, [order |-> Put(after.order, p, h, i),
                     wording |-> [after.wording EXCEPT ![p] = w]])

Delete(p) ==
    /\ p \in Index(after)
    /\ Amend(p, [order |-> [h \in Holder |-> IF h \in Within(after, p) THEN <<>>
                                             ELSE Take(after, p)[h]],
                 wording |-> [q \in Passage |-> IF q \in Within(after, p) THEN Missing
                                                ELSE after.wording[q]]])

Move(p) ==
    /\ p \in Index(after)
    /\ \E h \in {h \in Holder \cap (Index(after) \cup {Root}) : p \in MayHold(h)} :
         \E i \in 1..(Len(Take(after, p)[h]) + 1) :
           /\ Put(Take(after, p), p, h, i) # after.order
           /\ Amend(p, [after EXCEPT !.order = Put(Take(after, p), p, h, i)])

Init == after = Original /\ recorded = {} /\ edits = 0

Next == \E p \in Passage : Reword(p) \/ Insert(p) \/ Delete(p) \/ Move(p)

Spec == Init /\ [][Next]_vars

(***************************************************************************)
(* Properties.                                                             *)
(***************************************************************************)
\* The rows the page shows without being asked.
NetRows == {r \in Rows : r.kind # "reversed"}

Moved(p) == Parents(before, p) # Parents(after, p)

\* Whatever the amendments on record say and whatever they leave out: a passage that is
\* new or worded anew is shown, as it is now, in a row that is not hidden, one that is in
\* another place too, itself or by what it holds, and one that is gone is shown as it was
\* if what was around it has stayed in its place.
ChangesAreShown ==
    LET rows == {r.id : r \in NetRows}
    IN  \A p \in Passage :
          /\ p \in Index(after) /\ before.wording[p] # after.wording[p] =>
               \E r \in rows : p \in Within(after, r)
          /\ p \in Index(after) /\ Moved(p) =>
               \E r \in rows : p \in Within(after, r) \/ r \in Within(after, p)
          /\ p \in Index(before) \ Index(after) =>
               \/ \E r \in rows : p \in Within(before, r)
               \/ \E q \in Parents(before, p) : q \in Index(after) /\ Moved(q)

\* p and q are in the same holder of both versions, and in another order.
Swapped(p, q) ==
    \E h \in Holder :
        /\ {p, q} \subseteq Held(before.order, h) \cap Held(after.order, h)
        /\ LET At(d, x) == CHOOSE i \in DOMAIN d.order[h] : d.order[h][i] = x
           IN  (At(before, p) < At(before, q)) # (At(after, p) < At(after, q))

\* No row without a change: where the versions agree in a passage, in all it holds and in
\* its place among the passages both have, whatever was added or removed around it, only
\* a reversed row may name it.
OnlyChangesAreShown ==
    \A r \in NetRows :
        \/ \E q \in Within(before, r.id) \cup Within(after, r.id) :
             \/ before.wording[q] # after.wording[q]
             \/ Moved(q)
             \/ Content(before, q) # Content(after, q)
        \/ \E q \in Passage : Swapped(r.id, q)
=============================================================================
