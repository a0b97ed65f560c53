------------------------ MODULE MCContentSnapshots ------------------------
(* Small instances of ContentSnapshots: workers, attempts and versions are *)
(* interchangeable.                                                        *)
EXTENDS ContentSnapshots, FiniteSets, TLC

CONSTANT bad

VARIABLE instance  \* the part of the instance a behavior stays in

AllSymmetry == Permutations(Worker) \cup Permutations(Attempt) \cup Permutations(Version)

\* Two requests in flight, about one version.
OneVersion ==
    \E u \in Version : \A v \in Version \ {u} :
        /\ status[v] = "unknown" /\ snapshot[v] = Untouched /\ nodes[v] = Empty
        /\ \A w \in Worker : request[w] # None =>
             /\ request[w].version # v
             /\ request[w].write # None => request[w].write.source # v

\* Two versions, one request at a time, and no invalid tree.
OneRequest ==
    /\ Cardinality({w \in Worker : request[w] # None}) <= 1
    /\ \A v \in Version : nodes[v] # bad /\ snapshot[v].roots # bad
    /\ \A w \in Worker : request[w] # None /\ request[w].write # None => request[w].write.roots # bad

\* Two requests race; or the catalog has created the drafts of a source and of its
\* successor for two attempts, and one request follows the other.
MCInit ==
    \/ instance = "races" /\ Init
    \/ /\ instance = "successor"
       /\ status = [v \in Version |-> "draft"]
       /\ attemptOf \in [Version -> Attempt]
       /\ \A u, v \in Version : u # v => attemptOf[u] # attemptOf[v]
       /\ held = [v \in Version |-> FALSE]
       /\ snapshot = [v \in Version |-> Untouched]
       /\ nodes = [v \in Version |-> Empty]
       /\ receipt = [a \in Attempt |-> None]
       /\ request = [w \in Worker |-> None]

MCNext ==
    /\ Next
    /\ UNCHANGED instance
    /\ IF instance = "races" THEN OneVersion' ELSE OneRequest'

MCSpec == MCInit /\ [][MCNext]_<<vars, instance>>
=============================================================================
