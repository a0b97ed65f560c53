--------------------------- MODULE AnonymousLimit ---------------------------
(***************************************************************************)
(* Gateway: the anonymous API quota, token buckets in the memory of the    *)
(* one gateway process.                                                    *)
(*                                                                         *)
(* Every anonymous request draws one token from the bucket of its client   *)
(* and one from the bucket all clients share; a request that finds either  *)
(* empty is refused with a number of seconds to wait and draws nothing.    *)
(* The process keeps a bounded number of client buckets, forgets them all  *)
(* when the administrator's policy changes, and reads a wall clock that    *)
(* may be set back.                                                        *)
(*                                                                         *)
(* Tokens are counted in units of 1/window, so that a clock tick adds      *)
(* `requests' units, a request costs `window' units, and every amount is   *)
(* an integer; the code's tolerance of 1e-9 for binary fractions is not    *)
(* needed.                                                                 *)
(***************************************************************************)
EXTENDS Integers, Sequences

CONSTANTS
    Client,      \* client addresses
    Policy,      \* the policies the administrator may have saved
    MaxBuckets,  \* MAX_BUCKETS
    Second,      \* clock ticks in a second
    MaxTime,     \* bound on the clock
    None         \* the absent value (undefined)

\* AnonymousRate with the window in clock ticks.
Rate == [requests: Nat \ {0}, window: Nat \ {0}]

\* AnonymousBrowsingPolicy.
AnonymousBrowsingPolicy == [revision: Nat, allowed: BOOLEAN, perIp: Rate, total: Rate]

ASSUME PolicyAssumption == Policy \subseteq AnonymousBrowsingPolicy
ASSUME BoundAssumption == MaxBuckets \in Nat \ {0} /\ Second \in Nat \ {0} /\ MaxTime \in Nat
ASSUME NoneAssumption ==
    None \notin Client \cup Nat \cup [tokens: Nat, updatedAt: Nat]
                       \cup [revision: Nat, perIp: Rate, total: Rate]

VARIABLES
    now,            \* Date.now()
    perIpBuckets,   \* the buckets of the Map
    recency,        \* the keys of the Map in insertion order
    totalBucket,
    configuration,  \* the signature of the policy the buckets belong to
    run,            \* history: how far the clock has moved forward in the observed interval
    issued,         \* history: requests accepted in it
    spent,          \* history: those of each client since its bucket was made
    promised        \* history: when each refused client was told to come back

limit == <<perIpBuckets, recency, totalBucket, configuration>>
history == <<run, issued, spent, promised>>
limitVars == <<now, limit, history>>

Opt(S) == S \cup {None}
Bucket == [tokens: Nat, updatedAt: Nat]
Signature == [revision: Nat, perIp: Rate, total: Rate]

\* JSON.stringify([policy.revision, policy.perIp, policy.total])
signature(policy) ==
    [revision |-> policy.revision, perIp |-> policy.perIp, total |-> policy.total]

LimitTypeOK ==
    /\ now \in Nat
    /\ perIpBuckets \in [Client -> Opt(Bucket)]
    /\ recency \in Seq(Client)
    /\ totalBucket \in Opt(Bucket)
    /\ configuration \in Opt(Signature)
    /\ run \in Nat
    /\ issued \in Nat
    /\ spent \in [Client -> Nat]
    /\ promised \in [Client -> Opt(Nat)]

Fresh == [c \in Client |-> None]

LimitInit ==
    /\ now \in 0..MaxTime
    /\ perIpBuckets = Fresh
    /\ recency = <<>>
    /\ totalBucket = None
    /\ configuration = None
    /\ run = 0
    /\ issued = 0
    /\ spent = [c \in Client |-> 0]
    /\ promised = Fresh

(***************************************************************************)
(* The arithmetic of one bucket.                                           *)
(***************************************************************************)
AtLeast(a, b) == IF a >= b THEN a ELSE b
AtMost(a, b) == IF a <= b THEN a ELSE b

Capacity(rate) == rate.requests * rate.window

\* refill: a missing bucket is a full one, and a clock that was set back adds nothing.
Refilled(rate, bucket, time) ==
    IF bucket = None THEN Capacity(rate)
    ELSE AtMost(Capacity(rate),
                bucket.tokens + rate.requests * AtLeast(0, time - bucket.updatedAt))

CeilDiv(a, b) == (a + b - 1) \div b

retrySeconds_RoundedDown(rate, tokens) ==   \* mutant: Math.floor
    AtLeast(1, (rate.window - tokens) \div (rate.requests * Second))

\* retrySeconds, for a bucket that holds less than one request.
retrySeconds(rate, tokens) ==
    AtLeast(1, CeilDiv(rate.window - tokens, rate.requests * Second))

RetryOf(rate, tokens) == IF tokens < rate.window THEN retrySeconds(rate, tokens) ELSE 0

\* What is left of a bucket after the request.
Charged(rate, tokens, accepted) ==
    AtLeast(0, tokens - (IF accepted THEN rate.window ELSE 0))

(***************************************************************************)
(* anonymousApiLimit, which runs to its end between two awaits.  The       *)
(* answer is the number of seconds to wait, 0 when the request is served.  *)
(***************************************************************************)
SameSignature(policy) == signature(policy) = configuration

ClientBucket(policy, c) == IF SameSignature(policy) THEN perIpBuckets[c] ELSE None
SharedBucket(policy) == IF SameSignature(policy) THEN totalBucket ELSE None

Answer_ClientOnly(policy, c) ==   \* mutant: the shared bucket refuses nobody
    RetryOf(policy.perIp, Refilled(policy.perIp, ClientBucket(policy, c), now))

Answer_SharedOnly(policy, c) ==   \* mutant: the client's own bucket refuses nobody
    RetryOf(policy.total, Refilled(policy.total, SharedBucket(policy), now))

Answer(policy, c) ==
    AtLeast(RetryOf(policy.perIp, Refilled(policy.perIp, ClientBucket(policy, c), now)),
            RetryOf(policy.total, Refilled(policy.total, SharedBucket(policy), now)))

Without(keys, c) ==
    IF \E i \in DOMAIN keys : keys[i] = c
    THEN LET i == CHOOSE i \in DOMAIN keys : keys[i] = c
         IN  SubSeq(keys, 1, i - 1) \o SubSeq(keys, i + 1, Len(keys))
    ELSE keys

\* delete and set put the client last, and one key too many drops the first.
Touched(keys, c) == Append(Without(keys, c), c)

Evicted_Late(keys) == IF Len(keys) > MaxBuckets + 1 THEN {Head(keys)} ELSE {}   \* mutant

Evicted(keys) == IF Len(keys) > MaxBuckets THEN {Head(keys)} ELSE {}

\* The bucket that is written for c.
Written(policy, c, accepted) ==
    [tokens |-> Charged(policy.perIp, Refilled(policy.perIp, ClientBucket(policy, c), now),
                        accepted),
     updatedAt |-> now]

anonymousApiLimit(policy, c) ==
    LET accepted == Answer(policy, c) = 0
        same == SameSignature(policy)
        keys == Touched(IF same THEN recency ELSE <<>>, c)
    IN  /\ configuration' = signature(policy)
        /\ recency' = IF Evicted(keys) = {} THEN keys ELSE Tail(keys)
        /\ perIpBuckets' = [d \in Client |->
             IF d \in Evicted(keys) THEN None
             ELSE IF d = c THEN Written(policy, c, accepted)
             ELSE ClientBucket(policy, d)]
        /\ totalBucket' =
             [tokens |-> Charged(policy.total,
                                 Refilled(policy.total, SharedBucket(policy), now), accepted),
              updatedAt |-> now]
        /\ run' = IF same THEN run ELSE 0
        /\ issued' = (IF same THEN issued ELSE 0) + (IF accepted THEN 1 ELSE 0)
        /\ spent' = [d \in Client |->
             IF d \in Evicted(keys) THEN 0
             ELSE (IF same THEN spent[d] ELSE 0) + (IF d = c /\ accepted THEN 1 ELSE 0)]
        /\ promised' = [d \in Client |->
             IF accepted THEN None
             ELSE IF d = c THEN now + Second * Answer(policy, c)
             ELSE IF same THEN promised[d] ELSE None]
        /\ UNCHANGED now

(***************************************************************************)
(* The surroundings.                                                       *)
(***************************************************************************)
\* The wall clock moves on.
Tick ==
    \E t \in (now + 1)..MaxTime :
        now' = t /\ run' = run + (t - now) /\ UNCHANGED <<limit, issued, spent, promised>>

\* The wall clock is set back.
SetBack ==
    \E t \in 0..(now - 1) : now' = t /\ UNCHANGED <<limit, history>>

\* The gateway process restarts and forgets every bucket.
Restart ==
    /\ perIpBuckets' = Fresh
    /\ recency' = <<>>
    /\ totalBucket' = None
    /\ configuration' = None
    /\ run' = 0
    /\ issued' = 0
    /\ spent' = [c \in Client |-> 0]
    /\ promised' = Fresh
    /\ UNCHANGED now

\* An observer starts counting; the budgets hold in every interval it may choose.
Observe ==
    /\ run' = 0
    /\ issued' = 0
    /\ spent' = [c \in Client |-> 0]
    /\ UNCHANGED <<now, limit, promised>>

Surroundings == Tick \/ SetBack \/ Restart \/ Observe

LimitNext ==
    \/ \E policy \in Policy, c \in Client : policy.allowed /\ anonymousApiLimit(policy, c)
    \/ Surroundings

LimitSpec == LimitInit /\ [][LimitNext]_limitVars

(***************************************************************************)
(* Properties.                                                             *)
(***************************************************************************)
\* In any interval, under one policy, all clients together are served at most a full
\* bucket and what the clock has added since: whatever the clients, the refusals, the
\* evictions and a clock that is set back.
TotalWithinBudget ==
    configuration # None =>
        configuration.total.window * issued
            <= configuration.total.requests * (configuration.total.window + run)

\* The same of each client, for as long as its bucket is among the ones kept.
ClientWithinBudget ==
    configuration # None =>
        \A c \in Client :
            configuration.perIp.window * spent[c]
                <= configuration.perIp.requests * (configuration.perIp.window + run)

\* The process never keeps more buckets than it may, whoever asks.
MemoryIsBounded ==
    /\ Len(recency) <= MaxBuckets
    /\ \A c \in Client : perIpBuckets[c] # None => \E i \in DOMAIN recency : recency[i] = c

\* A client that comes back at the time it was told last is served, if nobody was in between:
\* the requests of others that are refused, evictions and a clock that is set back delay it no
\* further.  A request of its own that comes too early is told a time of its own, and nothing
\* is said of the one before.
RetryIsEnough ==
    configuration # None =>
        \A c \in Client : promised[c] # None =>
            /\ Refilled(configuration.perIp, perIpBuckets[c], promised[c])
                 >= configuration.perIp.window
            /\ Refilled(configuration.total, totalBucket, promised[c])
                 >= configuration.total.window
=============================================================================
