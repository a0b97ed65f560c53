----------------------------- MODULE MCAdmission -----------------------------
(* Small instances of Admission and of the quota alone.                    *)
EXTENDS Admission, FiniteSets, TLC

CONSTANTS
    c1, c2, c3, w1, w2,
    MaxIssued, MaxRun,  \* bounds on the history counters
    MaxFacts            \* and on what changes while a request is on its way

VARIABLE instance  \* the part of the instance a behavior stays in

Per(requests, window) == [requests |-> requests, window |-> window]

Revision(n, allowed, perIp, total) ==
    [revision |-> n, allowed |-> allowed, perIp |-> perIp, total |-> total]

\* An open site, one request a client and one for all, is closed, or opened further, and
\* opened again.
Revised == {Revision(0, TRUE, Per(1, 2), Per(1, 2)), Revision(0, FALSE, Per(1, 2), Per(1, 2)),
            Revision(1, FALSE, Per(1, 2), Per(1, 2)), Revision(1, TRUE, Per(1, 2), Per(2, 2))}

\* Two requests in three ticks for a client, three in four ticks for all, and a revision
\* that allows one request in five ticks.
Bursts == {Revision(2, TRUE, Per(2, 3), Per(3, 4)), Revision(3, TRUE, Per(1, 5), Per(2, 3))}

AllPolicies == Revised \cup Bursts

AllSymmetry == Permutations(Client)

Pending == {w \in Worker : request[w] # None}

\* The clients that have a session, a bucket or a request.
NoCredential == [k \in Credential |-> "none"]
Busy == {c \in Client : session[c] # NoCredential \/ perIpBuckets[c] # None}
            \cup {request[w].client : w \in Pending}

\* A request for anything, of one client, while everything identity-service knows may
\* change; and after an answer of the quota, another anonymous sign-in.
AnonymousLogin(r) == r.path = "docsLogin" /\ r.sent = {} /\ "failure" \notin r.facts
OneRequest ==
    /\ Busy \subseteq {c1} /\ now = 0 /\ policy \in Revised
    /\ \A w \in Pending :
         /\ Cardinality(request[w].facts) + Cardinality(request[w].worths)
              + Cardinality(request[w].policies) <= MaxFacts
         \* two credentials are of different worth; what no handler asks about stays as it is
         /\ request[w].sent = Credential =>
              session[request[w].client]["cookie"] # session[request[w].client]["bearer"]
         /\ \A k \in Credential \ request[w].sent : session[request[w].client][k] = "none"
         /\ isDocumentationRequest(request[w].path) \/ swagger

\* Several anonymous requests to an API, of a site whose policy is revised.
ManyRequests ==
    /\ setup /\ swagger
    /\ \A c \in Client : session[c] = NoCredential
    /\ Cardinality(Busy) <= 2 /\ now <= 1 /\ policy \in Revised
    /\ \A w \in Pending :
         request[w].path = "api" /\ request[w].sent = {} /\ "failure" \notin request[w].facts

\* The quota alone, of three clients for two buckets.
Quota == configuration \in {None} \cup {signature(p) : p \in Bursts}

\* The steps of Next for one client and one request.
OneAtATime ==
    \/ Handle(w1)
    \/ CompleteSetup \/ SavePolicy \/ SwitchDocumentation \/ ChangeSession(c1)
    \/ Surroundings /\ UNCHANGED <<identity, request>>

MCInit ==
    /\ Init
    /\ \/ instance = "rules" /\ OneRequest
       \/ instance = "requests" /\ ManyRequests
       \/ /\ instance = "quota"
          /\ setup /\ swagger
          /\ policy = Revision(0, FALSE, Per(1, 2), Per(1, 2))
          /\ \A c \in Client : session[c] = NoCredential

MCNext ==
    /\ UNCHANGED instance
    /\ \/ /\ IF instance = "rules" THEN OneAtATime ELSE instance = "requests" /\ Next
          /\ \/ /\ instance = "rules" /\ OneRequest'
                /\ IF Pending = {} \/ issued > 0 THEN UNCHANGED identity ELSE request' # request
                /\ Pending = {} => \A w \in Pending' :
                     IF issued = 0 THEN policy.revision = 0 ELSE AnonymousLogin(request'[w])
             \/ instance = "requests" /\ ManyRequests' /\ now' >= now
          /\ Pending' \subseteq Pending \/ issued + Cardinality(Pending') < MaxIssued
          /\ run' >= run \/ limit' # limit  \* the observer keeps watching
       \/ /\ instance = "quota"
          /\ LimitNext /\ UNCHANGED <<identity, request>>
          /\ Quota' /\ issued' <= MaxIssued /\ run' <= MaxRun

MCSpec == MCInit /\ [][MCNext]_<<vars, instance>>
=============================================================================
