------------------------------- MODULE TextDiff -------------------------------
(***************************************************************************)
(* Gateway: the words that are struck out and inserted when two wordings   *)
(* are shown side by side (diffText).                                      *)
(*                                                                         *)
(* The common words at both ends are set aside; what is between them is    *)
(* compared through the table of longest common subsequences, or, when     *)
(* that table would be too large, shown as one replacement.  Each loop of  *)
(* the code is an action, one turn of it a step.                           *)
(***************************************************************************)
EXTENDS Integers, SequencesExt

CONSTANTS
    Token,     \* words and the white space between them
    MaxLength, \* bound on the length of a wording
    MAX_DIFF_CELLS

ASSUME DiffConstants == MaxLength \in Nat /\ MAX_DIFF_CELLS \in Nat

VARIABLES
    left, right,        \* the wordings
    start,              \* the number of words set aside at the beginning
    leftEnd, rightEnd,  \* what is left of each before those set aside at the end
    i, j,               \* the position in what is between
    segs,               \* the segments written so far
    loop                \* the loop the code is in

diffVars == <<left, right, start, leftEnd, rightEnd, i, j, segs, loop>>

Wording == SeqOf(Token, MaxLength)

DiffInit ==
    /\ left \in Wording /\ right \in Wording
    /\ start = 0
    /\ leftEnd = Len(left) /\ rightEnd = Len(right)
    /\ i = 0 /\ j = 0
    /\ segs = <<>>
    /\ loop = "start"

\* pushSeg: nothing for no text, and a neighbour of the same type is extended.
pushSeg(written, type, text) ==
    IF text = <<>> THEN written
    ELSE IF written # <<>> /\ Last(written).type = type
    THEN Append(Front(written), [type |-> type, text |-> Last(written).text \o text])
    ELSE Append(written, [type |-> type, text |-> text])

Slice(text, from, to) == SubSeq(text, from + 1, to)

TrimStart ==
    /\ loop = "start"
    /\ IF start < Len(left) /\ start < Len(right) /\ left[start + 1] = right[start + 1]
       THEN start' = start + 1 /\ UNCHANGED loop
       ELSE loop' = "end" /\ UNCHANGED start
    /\ UNCHANGED <<left, right, leftEnd, rightEnd, i, j, segs>>

TrimEnd_Overlapping ==   \* mutant: the words set aside at the beginning are taken again
    /\ loop = "end"
    /\ IF leftEnd > 0 /\ rightEnd > 0 /\ left[leftEnd] = right[rightEnd]
       THEN leftEnd' = leftEnd - 1 /\ rightEnd' = rightEnd - 1 /\ UNCHANGED loop
       ELSE loop' = "between" /\ UNCHANGED <<leftEnd, rightEnd>>
    /\ UNCHANGED <<left, right, start, i, j, segs>>

TrimEnd ==
    /\ loop = "end"
    /\ IF leftEnd > start /\ rightEnd > start /\ left[leftEnd] = right[rightEnd]
       THEN leftEnd' = leftEnd - 1 /\ rightEnd' = rightEnd - 1 /\ UNCHANGED loop
       ELSE loop' = "between" /\ UNCHANGED <<leftEnd, rightEnd>>
    /\ UNCHANGED <<left, right, start, i, j, segs>>

Coarse ==
    \/ leftEnd = start \/ rightEnd = start
    \/ (leftEnd - start + 1) * (rightEnd - start + 1) > MAX_DIFF_CELLS

Between ==
    /\ loop = "between"
    /\ LET begun == pushSeg(segs, "equal", Slice(left, 0, start))
       IN  IF Coarse
           THEN /\ segs' = pushSeg(pushSeg(begun, "remove", Slice(left, start, leftEnd)),
                                   "add", Slice(right, start, rightEnd))
                /\ i' = leftEnd /\ j' = rightEnd
           ELSE segs' = begun /\ i' = start /\ j' = start
    /\ loop' = "walk"
    /\ UNCHANGED <<left, right, start, leftEnd, rightEnd>>

table_Forgetful ==   \* mutant: a match is worth no more than what follows it
    LET T[p \in (start..leftEnd) \X (start..rightEnd)] ==
            IF p[1] = leftEnd \/ p[2] = rightEnd THEN 0
            ELSE LET below == T[<<p[1] + 1, p[2]>>]
                     beside == T[<<p[1], p[2] + 1>>]
                 IN  IF left[p[1] + 1] = right[p[2] + 1] THEN T[<<p[1] + 1, p[2] + 1>>]
                     ELSE IF below >= beside THEN below ELSE beside
    IN  T

\* table[i][j]: how much the rest of left and the rest of right have in common.
table ==
    LET T[p \in (start..leftEnd) \X (start..rightEnd)] ==
            IF p[1] = leftEnd \/ p[2] = rightEnd THEN 0
            ELSE LET below == T[<<p[1] + 1, p[2]>>]
                     beside == T[<<p[1], p[2] + 1>>]
                 IN  IF left[p[1] + 1] = right[p[2] + 1] THEN T[<<p[1] + 1, p[2] + 1>>] + 1
                     ELSE IF below >= beside THEN below ELSE beside
    IN  T

Both == i < leftEnd /\ j < rightEnd

KeepToken ==
    /\ loop = "walk" /\ Both /\ left[i + 1] = right[j + 1]
    /\ segs' = pushSeg(segs, "equal", <<left[i + 1]>>)
    /\ i' = i + 1 /\ j' = j + 1
    /\ UNCHANGED <<left, right, start, leftEnd, rightEnd, loop>>

RemoveToken ==
    /\ loop = "walk"
    /\ i < leftEnd
    /\ Both => /\ left[i + 1] # right[j + 1]
               /\ table[<<i + 1, j>>] >= table[<<i, j + 1>>]
    /\ segs' = pushSeg(segs, "remove", <<left[i + 1]>>)
    /\ i' = i + 1
    /\ UNCHANGED <<left, right, start, leftEnd, rightEnd, j, loop>>

AddToken ==
    /\ loop = "walk"
    /\ j < rightEnd
    /\ Both => /\ left[i + 1] # right[j + 1]
               /\ table[<<i + 1, j>>] < table[<<i, j + 1>>]
    /\ segs' = pushSeg(segs, "add", <<right[j + 1]>>)
    /\ j' = j + 1
    /\ UNCHANGED <<left, right, start, leftEnd, rightEnd, i, loop>>

Finish ==
    /\ loop = "walk" /\ i = leftEnd /\ j = rightEnd
    /\ segs' = pushSeg(segs, "equal", Slice(left, leftEnd, Len(left)))
    /\ i' = Len(left) /\ j' = Len(right)
    /\ loop' = "done"
    /\ UNCHANGED <<left, right, start, leftEnd, rightEnd>>

DiffNext == TrimStart \/ TrimEnd \/ Between \/ KeepToken \/ RemoveToken \/ AddToken \/ Finish

DiffSpec == DiffInit /\ [][DiffNext]_diffVars

(***************************************************************************)
(* Properties.                                                             *)
(***************************************************************************)
\* segsForSide, as one text.
Side(type) ==
    FlattenSeq([n \in DOMAIN segs |-> IF segs[n].type \in {"equal", type}
                                      THEN segs[n].text ELSE <<>>])

Subsequences(text) ==
    {[n \in 1..Cardinality(chosen) |->
        text[CHOOSE k \in chosen : Cardinality({m \in chosen : m <= k}) = n]] :
       chosen \in SUBSET DOMAIN text}

\* The words that are shown as unchanged.
Unchanged == Len(FlattenSeq([n \in DOMAIN segs |-> IF segs[n].type = "equal"
                                                   THEN segs[n].text ELSE <<>>]))

\* Each side shows its own wording, whole and in order, at every step as far as it has
\* come, coarse or fine, with segments of alternating types.
BothTextsArePreserved ==
    loop \in {"walk", "done"} =>
        /\ Side("remove") = Slice(left, 0, i)
        /\ Side("add") = Slice(right, 0, j)
        /\ \A n \in DOMAIN segs : segs[n].text # <<>>
        /\ \A n \in 2..Len(segs) : segs[n].type # segs[n - 1].type

\* Unless it is coarse, no comparison shows less as changed: as many words are unchanged
\* as the two wordings have in common in any order-keeping choice of words.
DiffIsMinimal ==
    loop = "done" /\ ~Coarse =>
        \A common \in Subsequences(left) \cap Subsequences(right) : Len(common) <= Unchanged
=============================================================================
