--------------------------- MODULE PublishAttempt ---------------------------
(***************************************************************************)
(* What a structured publication promises (ADR 0006, "Publication, retry   *)
(* and retention"), as a reader of the catalog and of the editor sees it.  *)
(*                                                                         *)
(* An attempt reserves one successor, which no other attempt shares;       *)
(* writes its text; makes it public; and is closed in the editor.  Crashes,*)
(* retries and calls that arrive late are not visible here: no stage is    *)
(* entered twice, skipped or lost, and the successor is never another one. *)
(***************************************************************************)
CONSTANTS Attempt, Version, None

VARIABLES stage, successor

vars == <<stage, successor>>

Init ==
    /\ stage = [a \in Attempt |-> "open"]
    /\ successor = [a \in Attempt |-> None]

Reserve(a, v) ==
    /\ stage[a] = "open"
    /\ \A b \in Attempt : successor[b] # v
    /\ stage' = [stage EXCEPT ![a] = "reserved"]
    /\ successor' = [successor EXCEPT ![a] = v]

Enter(a, from, to) ==
    /\ stage[a] = from
    /\ stage' = [stage EXCEPT ![a] = to]
    /\ UNCHANGED successor

Next ==
    \E a \in Attempt :
        \/ \E v \in Version : Reserve(a, v)
        \/ Enter(a, "reserved", "written")
        \/ Enter(a, "written", "public")
        \/ Enter(a, "public", "closed")

Spec == Init /\ [][Next]_vars

=============================================================================
