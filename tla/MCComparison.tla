---------------------------- MODULE MCComparison ----------------------------
(* Small instances of the two halves of the compare page: the rows of the  *)
(* consolidated comparison and the marking of the words in a row.          *)
EXTENDS Consolidation, TextDiff, TLC

CONSTANTS
    a1, a2, a3, s1, t1, t2, t3, w1, w2, x, y, z

VARIABLE instance  \* the part of the instance a behavior stays in

WordSymmetry == Permutations(Token)

\* a1 holds a section of one text and a text, a2 nothing; a3 and t2 are not there.
Holds(h) == CASE h = Root -> <<a1, a2>> [] h = a1 -> <<s1, t3>> [] h = s1 -> <<t1>>
              [] OTHER -> <<>>

MCOriginal ==
    [order |-> [h \in {Root, a1, a2, a3, s1} |-> Holds(h)],
     wording |-> [p \in {a1, a2, a3, s1, t1, t2, t3} |->
                    IF p \in {a3, t2} THEN Missing ELSE w1]]

MCInit ==
    /\ instance \in {"rows", "words"}
    /\ Init
    /\ DiffInit
    /\ instance = "rows" => left = <<>> /\ right = <<>>

MCNext ==
    /\ UNCHANGED instance
    /\ \/ instance = "rows" /\ Next /\ UNCHANGED diffVars
       \/ instance = "words" /\ DiffNext /\ UNCHANGED vars

MCSpec == MCInit /\ [][MCNext]_<<vars, diffVars, instance>>
=============================================================================
