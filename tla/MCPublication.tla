--------------------------- MODULE MCPublication ---------------------------
(* Small instances of Publication: the base, and as many successors as     *)
(* there are sessions.  The first session's successor sorts last.          *)
EXTENDS Publication

CONSTANTS s1, s2, v0, v1, v2, d, r1, c1, st

VARIABLE instance  \* the part of the instance a behavior stays in

MCAttemptLabel == [s \in Structured |-> 3]

MCInit == Init /\ instance \in {"sessions", "staff"}

\* A legal attempt and what staff do to its record, a correction beside it, and a staff
\* draft that may take its source.
OneRecord ==
    /\ \A s \in Session : session[s].hop = "legal" => s = s1 /\ session[s].source = Base
    /\ session[s1].hop # "editorial_correction"
    /\ pinned[s1].payload = None
    /\ failures + revisions <= IF session[s2].status = "none" THEN 2 ELSE 1
    /\ \A q \in StaffRecord :
         /\ record[q].target = None /\ record[q].status # "withdrawn"
         /\ record[q].source = IF record[q].takenOver THEN Base ELSE None

MCNext ==
    /\ UNCHANGED instance
    /\ \/ instance = "sessions" /\ (Begin \/ (\E s \in Session : Step(s)) \/ Others)
       \/ instance = "staff" /\ Next /\ OneRecord'

MCSpec == MCInit /\ [][MCNext]_<<vars, instance>> /\ \A s \in Structured : WF_vars(GoOn(s))
=============================================================================
