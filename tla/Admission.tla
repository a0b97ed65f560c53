------------------------------ MODULE Admission ------------------------------
(***************************************************************************)
(* The way of a browser's or client's request to what it asks for: Caddy   *)
(* asks the setup gate about every request and the rate-limit route about  *)
(* those to an API, and the gateway's own proxy decides about its pages.   *)
(*                                                                         *)
(* Each of the three asks identity-service afresh, one question after the  *)
(* other, and each question may fail or time out.  Between two questions   *)
(* the administrator may finish the setup, save another policy or hide the *)
(* documentation, and sessions begin and end.  A question and what the     *)
(* handler does with the answer are one action where the answer decides    *)
(* about this request only; the policy is carried from one action to the   *)
(* next, because the quota it is applied to is shared by all requests.     *)
(*                                                                         *)
(* A request carries a session cookie, a bearer session, both or neither.  *)
(* The setup gate accepts either, the rate-limit route looks at the bearer *)
(* only when there is no cookie, and the proxy knows nothing but cookies.  *)
(***************************************************************************)
EXTENDS AnonymousLimit

CONSTANT Worker  \* requests in flight

ASSUME WorkerAssumption == None \notin Worker

VARIABLES
    setup,     \* identity: whether the setup is completed
    swagger,   \* identity: whether the API documentation is public
    policy,    \* identity: the saved anonymous browsing policy
    session,   \* identity: what each credential of each client is worth
    request    \* the requests in flight

identity == <<setup, swagger, policy, session>>
vars == <<limitVars, identity, request>>

(***************************************************************************)
(* What can be asked for, by the rules that tell it apart.                 *)
(***************************************************************************)
\* The APIs behind Caddy: any other, the health checks and legal texts a new deployment
\* already shows; sign-in, registration and settings of identity-service; a page of the API
\* documentation, a call tried out from one, such a call to the sign-in; and the reader API,
\* which is the gateway's own.
Api == {"api", "healthApi", "loginApi", "registerApi", "settingsApi", "docsPage", "docsCall",
        "docsLogin", "readerApi"}

\* The pages of the gateway: sign-in, setup, a constitution and the home page.
Page == {"loginPage", "setupPage", "reader", "home"}

\* setupPathAllowed, while the setup is not completed.
setupPathAllowed(path, administrator) ==
    \/ path \in {"healthApi", "loginApi", "loginPage"}
    \/ administrator /\ path \in {"settingsApi", "setupPage"}

isDocumentationRequest(path) == path \in {"docsPage", "docsCall", "docsLogin"}
requiresBrowsingAdmission(path) == path \in {"reader", "readerApi"}

\* The rate-limit route takes a call tried out from the documentation for the call itself.
originalUri(path) ==
    IF path = "docsLogin" THEN "loginApi" ELSE IF path = "docsCall" THEN "api" ELSE path
IdentityApi == {"loginApi", "registerApi", "settingsApi"}

Credential == {"cookie", "bearer"}
Worth == {"none", "user", "administrator"}

\* What a credential is worth to whoever reads it: nothing, if it was not sent.
WorthIn(sent, worths, credential) == IF credential \in sent THEN worths[credential] ELSE "none"

\* The first question after the setup gate, and after the rate-limit route.
FromGate(path) ==
    IF path \in Page THEN "proxySetup"
    ELSE IF isDocumentationRequest(path) THEN "docs" ELSE "edgeSetup"
FromEdge(path) == IF path = "readerApi" THEN "proxySetup" ELSE "served"

Phase == {"gate", "gateCookie", "gateBearer", "docs", "edgeSetup", "credential", "policy", "limit",
          "proxySetup", "proxyAdministrator", "browsing", "proxySession", "served", "refused"}

Fact == {"completed", "incomplete", "documented", "hidden", "failure"}

Request == [client: Client, path: Api \cup Page, sent: SUBSET Credential, phase: Phase,
            policy: Opt(Policy),   \* the policy that was read
            facts: SUBSET Fact,    \* history: what was true since the request arrived
            worths: SUBSET (Credential \X Worth),  \* history: what its credentials were worth
            policies: SUBSET Policy]  \* history: the policies saved since then

TypeOK ==
    /\ LimitTypeOK
    /\ setup \in BOOLEAN
    /\ swagger \in BOOLEAN
    /\ policy \in Policy
    /\ session \in [Client -> [Credential -> Worth]]
    /\ request \in [Worker -> Opt(Request)]

Init ==
    /\ LimitInit
    /\ setup \in BOOLEAN
    /\ swagger \in BOOLEAN
    /\ policy \in {p \in Policy : p.revision = 0}
    /\ session \in [Client -> [Credential -> Worth]]
    /\ request = [w \in Worker |-> None]

(***************************************************************************)
(* Identity-service.                                                       *)
(***************************************************************************)
FactsOf(completed, public) ==
    {IF completed THEN "completed" ELSE "incomplete", IF public THEN "documented" ELSE "hidden"}
WorthsOf(sent, worths) == {<<k, WorthIn(sent, worths, k)>> : k \in Credential}

\* Requests in flight may see what is true from now on.
Witness ==
    request' = [w \in Worker |->
        IF request[w] = None THEN None
        ELSE [request[w] EXCEPT
                !.facts = @ \cup FactsOf(setup', swagger'),
                !.worths = @ \cup WorthsOf(request[w].sent, session'[request[w].client]),
                !.policies = @ \cup {policy'}]]

CompleteSetup ==
    /\ ~setup
    /\ setup' = TRUE
    /\ UNCHANGED <<limitVars, swagger, policy, session>>
    /\ Witness

\* AnonymousBrowsingRepository.update raises the revision with every save.
SavePolicy ==
    /\ policy' \in {p \in Policy : p.revision = policy.revision + 1}
    /\ UNCHANGED <<limitVars, setup, swagger, session>>
    /\ Witness

SwitchDocumentation ==
    /\ swagger' = ~swagger
    /\ UNCHANGED <<limitVars, setup, policy, session>>
    /\ Witness

\* A session begins, ends or changes its role.
ChangeSession(c) ==
    /\ \E k \in Credential : \E worth \in Worth \ {session[c][k]} :
         session' = [session EXCEPT ![c][k] = worth]
    /\ UNCHANGED <<limitVars, setup, swagger, policy>>
    /\ Witness

(***************************************************************************)
(* The steps of a request.                                                 *)
(***************************************************************************)
Go(w, phase) == request' = [request EXCEPT ![w].phase = phase]

At(w, phase) == request[w] # None /\ request[w].phase = phase

\* A question to identity-service fails, or takes longer than it may.
Fails(w, phase) ==
    request' = [request EXCEPT ![w].phase = phase, ![w].facts = @ \cup {"failure"}]

Unmoved == UNCHANGED <<limitVars, identity>>

Arrive(w) ==
    /\ request[w] = None
    /\ \E c \in Client, path \in Api \cup Page, sent \in SUBSET Credential :
         request' = [request EXCEPT ![w] =
           [client |-> c, path |-> path, sent |-> sent, phase |-> "gate", policy |-> None,
            facts |-> FactsOf(setup, swagger), worths |-> WorthsOf(sent, session[c]),
            policies |-> {policy}]]
    /\ Unmoved

Leave(w) ==
    /\ request[w] # None /\ request[w].phase \in {"served", "refused"}
    /\ request' = [request EXCEPT ![w] = None]
    /\ Unmoved

Asked(w) == request[w].path
Sent(w) == request[w].sent
WorthNow(w, k) == WorthIn(Sent(w), session[request[w].client], k)
IsAdministrator(w, k) == WorthNow(w, k) = "administrator"
HasSession(w, k) == WorthNow(w, k) # "none"

\* api/setup-gate: nothing but the setup's own paths until the setup is completed.
GateSetup(w) ==
    /\ At(w, "gate")
    /\ \/ Go(w, IF setup THEN FromGate(Asked(w)) ELSE "gateCookie")
       \/ Fails(w, "refused")
    /\ Unmoved

GateAllows(w, administrator) ==
    IF setupPathAllowed(Asked(w), administrator) THEN FromGate(Asked(w)) ELSE "refused"

\* The cookie is looked at first, and the bearer if that is no administrator's.  An answer
\* that reports an error is one of no administrator; none at all refuses the request.
GateCookie(w) ==
    /\ At(w, "gateCookie")
    /\ \/ Go(w, IF IsAdministrator(w, "cookie") THEN GateAllows(w, TRUE) ELSE "gateBearer")
       \/ "cookie" \in Sent(w) /\ (Fails(w, "gateBearer") \/ Fails(w, "refused"))
    /\ Unmoved

GateBearer(w) ==
    /\ At(w, "gateBearer")
    /\ \/ Go(w, GateAllows(w, IsAdministrator(w, "bearer")))
       \/ "bearer" \in Sent(w) /\ (Fails(w, GateAllows(w, FALSE)) \/ Fails(w, "refused"))
    /\ Unmoved

\* api/edge-rate-limit: hidden documentation stays hidden, from everybody.
EdgeDocumentation(w) ==
    /\ At(w, "docs")
    /\ \/ Go(w, IF swagger THEN "edgeSetup" ELSE "refused")
       \/ Fails(w, "refused")
    /\ Unmoved

EdgeSetup(w) ==
    /\ At(w, "edgeSetup")
    /\ \/ Go(w, IF \/ ~setup /\ setupPathAllowed(originalUri(Asked(w)), FALSE)
                   \/ setup /\ Asked(w) = "docsPage"
                THEN FromEdge(Asked(w)) ELSE "credential")
       \/ Fails(w, "refused")
    /\ Unmoved

\* The one credential the rate-limit route verifies.
Checked(sent) == IF "cookie" \in sent THEN "cookie" ELSE "bearer"

EdgeCredential_Lenient(w) ==   \* mutant: a credential nobody could check counts
    /\ At(w, "credential")
    /\ \/ Go(w, IF HasSession(w, Checked(Sent(w))) THEN FromEdge(Asked(w)) ELSE "policy")
       \/ Sent(w) # {} /\ Fails(w, FromEdge(Asked(w)))
    /\ Unmoved

\* A credential that cannot be verified is none.
EdgeCredential(w) ==
    /\ At(w, "credential")
    /\ \/ Go(w, IF HasSession(w, Checked(Sent(w))) THEN FromEdge(Asked(w)) ELSE "policy")
       \/ Sent(w) # {} /\ Fails(w, "policy")
    /\ Unmoved

EdgePolicy(w) ==
    /\ At(w, "policy")
    /\ \/ request' = [request EXCEPT ![w].phase = "limit", ![w].policy = policy]
       \/ Fails(w, "refused")
    /\ Unmoved

\* The policy decides, and the quota if it allows anonymous browsing; on a closed site
\* identity-service stays within reach, of a call from its documentation as well.
EdgeDecide(w) ==
    /\ At(w, "limit")
    /\ LET p == request[w].policy
           c == request[w].client
       IN  IF p.allowed
           THEN /\ Go(w, IF Answer(p, c) = 0 THEN FromEdge(Asked(w)) ELSE "refused")
                /\ anonymousApiLimit(p, c)
           ELSE /\ Go(w, IF originalUri(Asked(w)) \in IdentityApi
                         THEN FromEdge(Asked(w)) ELSE "refused")
                /\ UNCHANGED limitVars
    /\ UNCHANGED identity

\* proxy.ts, setupAdmission: the same rule for pages, with redirects in place of refusals.
ProxySetup(w) ==
    /\ At(w, "proxySetup")
    /\ \/ Go(w, IF setup THEN "browsing" ELSE "proxyAdministrator")
       \/ Fails(w, "refused")
    /\ Unmoved

\* An administrator who cannot be verified is none, and a verified one who asks for the
\* sign-in page is sent to the setup.
ProxyAdministrator(w) ==
    /\ At(w, "proxyAdministrator")
    /\ \/ Go(w, IF /\ setupPathAllowed(Asked(w), IsAdministrator(w, "cookie"))
                   /\ ~(Asked(w) = "loginPage" /\ IsAdministrator(w, "cookie"))
                THEN "browsing" ELSE "refused")
       \/ /\ "cookie" \in Sent(w)
          /\ Fails(w, IF setupPathAllowed(Asked(w), FALSE) THEN "browsing" ELSE "refused")
    /\ Unmoved

ProxyBrowsing_Guarded(w) ==   \* mutant: a closed site refuses before it asks for a session
    /\ At(w, "browsing")
    /\ \/ Go(w, IF ~requiresBrowsingAdmission(Asked(w)) \/ policy.allowed
                THEN "served" ELSE "refused")
       \/ requiresBrowsingAdmission(Asked(w)) /\ Fails(w, "refused")
    /\ Unmoved

\* browsingAdmission: without a policy that allows browsing, a session is required.
ProxyBrowsing(w) ==
    /\ At(w, "browsing")
    /\ \/ Go(w, IF ~requiresBrowsingAdmission(Asked(w)) \/ policy.allowed
                THEN "served" ELSE "proxySession")
       \/ requiresBrowsingAdmission(Asked(w)) /\ Fails(w, "proxySession")
    /\ Unmoved

ProxySession(w) ==
    /\ At(w, "proxySession")
    /\ \/ Go(w, IF HasSession(w, "cookie") THEN "served" ELSE "refused")
       \/ "cookie" \in Sent(w) /\ Fails(w, "refused")
    /\ Unmoved

Handle(w) ==
    \/ Arrive(w) \/ Leave(w)
    \/ GateSetup(w) \/ GateCookie(w) \/ GateBearer(w)
    \/ EdgeDocumentation(w) \/ EdgeSetup(w) \/ EdgeCredential(w) \/ EdgePolicy(w)
    \/ EdgeDecide(w)
    \/ ProxySetup(w) \/ ProxyAdministrator(w) \/ ProxyBrowsing(w) \/ ProxySession(w)

Next ==
    \/ \E w \in Worker : Handle(w)
    \/ CompleteSetup \/ SavePolicy \/ SwitchDocumentation
    \/ \E c \in Client : ChangeSession(c)
    \/ Surroundings /\ UNCHANGED <<identity, request>>

Spec == Init /\ [][Next]_vars

(***************************************************************************)
(* Properties.                                                             *)
(***************************************************************************)
InPhase(phase) == {request[w] : w \in {v \in Worker : At(v, phase)}}

Was(r, k, worths) == \E worth \in worths : <<k, worth>> \in r.worths
HadSession(r, k) == Was(r, k, Worth \ {"none"})
WasAnonymous(r, k) == Was(r, k, {"none"})

\* A page is the proxy's to decide on; the setup gate alone decides about an API.
WasAdministrator(r) ==
    \E k \in IF r.path \in Page THEN {"cookie"} ELSE Credential : Was(r, k, {"administrator"})

SiteWas(r, allowed) == \E p \in r.policies : p.allowed = allowed

\* What is served was, by every rule that guards it, allowed at some moment of the
\* request: nothing is served on an answer older than the request, on an answer that did
\* not come, or because two handlers each trusted the other's question.  Outside an open
\* site an API asks for the credential the rate-limit route verifies, except for
\* identity-service (called from its documentation or not), the documentation's pages and
\* what an unfinished setup shows; a page or a call for readers asks for the cookie.
ServedIsJustified ==
    \A r \in InPhase("served") :
        /\ "completed" \in r.facts \/ setupPathAllowed(r.path, WasAdministrator(r))
        /\ isDocumentationRequest(r.path) => "documented" \in r.facts
        /\ r.path \in Api =>
             \/ SiteWas(r, TRUE) \/ HadSession(r, Checked(r.sent))
             \/ originalUri(r.path) \in IdentityApi \cup {"docsPage"}
             \/ "incomplete" \in r.facts /\ setupPathAllowed(r.path, FALSE)
        /\ requiresBrowsingAdmission(r.path) => SiteWas(r, TRUE) \/ HadSession(r, "cookie")

\* None of the three handlers turns a request away without a cause: a question failed, the
\* setup was unfinished, the documentation was hidden; or the credential the handler reads
\* was worth nothing at some moment, and the site was closed or, for an API, the quota of an
\* open one was used up.  A closed site never refuses a call to identity-service.
RefusedIsJustified ==
    \A r \in InPhase("refused") :
        \/ "failure" \in r.facts
        \/ "incomplete" \in r.facts
        \/ isDocumentationRequest(r.path) /\ "hidden" \in r.facts
        \/ /\ r.path \in Api \ {"docsPage"}
           /\ WasAnonymous(r, Checked(r.sent))
           /\ originalUri(r.path) \in IdentityApi => SiteWas(r, TRUE)
        \/ /\ requiresBrowsingAdmission(r.path)
           /\ WasAnonymous(r, "cookie") /\ SiteWas(r, FALSE)
=============================================================================
