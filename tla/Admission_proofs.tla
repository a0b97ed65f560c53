-------------------------- MODULE Admission_proofs --------------------------
(***************************************************************************)
(* Proofs about the gateway's admission for every set of clients, requests *)
(* and policies, any number of buckets and any clock.                      *)
(*                                                                         *)
(* AnonymousLimit: the budgets follow from an account of each bucket: what *)
(* it would hold now, plus what has been served from it, is at most a full *)
(* bucket plus what the clock has added.  Everything about a bucket is     *)
(* derived from three facts about Refilled: it never exceeds the capacity, *)
(* it grows with time, and by no more than the rate.                       *)
(*                                                                         *)
(* Admission: a request in flight has witnessed what identity-service      *)
(* knows now; a request past a gate has witnessed what the gate asks for.  *)
(* With these, what is served is justified, and the quota is asked only as *)
(* AnonymousLimit assumes, so its budgets hold here too.  A request that   *)
(* is asked the next question has given a reason to be refused by it, so   *)
(* what is refused is justified as well.                                   *)
(***************************************************************************)
EXTENDS Admission, TLAPS

(***************************************************************************)
(* Multiplication, of which the provers know little.                       *)
(***************************************************************************)
LEMMA ProductType == \A a, b \in Nat : a * b \in Nat
  OBVIOUS

LEMMA ProductOfSum ==
    ASSUME NEW a \in Int, NEW b \in Int, NEW c \in Int
    PROVE  c * (a + b) = c * a + c * b
  OBVIOUS

LEMMA ProductGrows ==
    ASSUME NEW a \in Nat, NEW b \in Nat, NEW c \in Nat, a <= b
    PROVE  c * a <= c * b
<1>1. b - a \in Nat /\ b = a + (b - a)
  OBVIOUS
<1>2. c * b = c * a + c * (b - a)
  BY <1>1, ProductOfSum
<1>3. c * (b - a) \in Nat /\ c * a \in Nat /\ c * b \in Nat
  BY <1>1, ProductType
<1> QED  BY <1>2, <1>3

\* A quotient that is rounded up is enough.
LEMMA CeilDivIsEnough ==
    ASSUME NEW a \in Nat, NEW b \in Nat \ {0}
    PROVE  CeilDiv(a, b) \in Nat /\ a <= b * CeilDiv(a, b)
<1> DEFINE n == a + b - 1
           q == n \div b
<1>1. n \in Nat
  OBVIOUS
<1>2. q \in Nat /\ n = b * q + (n % b) /\ n % b \in 0..(b - 1)
  BY <1>1
<1>3. b * q \in Nat
  BY <1>2, ProductType
<1>4. a <= b * q
  BY <1>2, <1>3
<1> QED  BY <1>2, <1>4 DEF CeilDiv

(***************************************************************************)
(* One bucket.                                                             *)
(***************************************************************************)
LEMMA BucketIsNotNone == \A b \in Bucket : b # None
  BY NoneAssumption DEF Bucket

LEMMA CapacityType ==
    ASSUME NEW rate \in Rate
    PROVE  /\ rate.requests \in Nat \ {0} /\ rate.window \in Nat \ {0}
           /\ Capacity(rate) \in Nat
           /\ rate.window <= Capacity(rate)
<1>1. rate.requests \in Nat \ {0} /\ rate.window \in Nat \ {0}
  BY DEF Rate
<1>2. rate.window * 1 <= rate.window * rate.requests
  BY <1>1, ProductGrows
<1>3. rate.window * rate.requests = rate.requests * rate.window
  BY <1>1
<1>4. rate.requests * rate.window \in Nat
  BY <1>1, ProductType
<1> QED  BY <1>1, <1>2, <1>3, <1>4 DEF Capacity

\* What the clock adds from the last update to a moment.
Gain(rate, bucket, time) == rate.requests * AtLeast(0, time - bucket.updatedAt)

LEMMA GainType ==
    ASSUME NEW rate \in Rate, NEW b \in Bucket, NEW t \in Nat
    PROVE  Gain(rate, b, t) \in Nat
<1>1. AtLeast(0, t - b.updatedAt) \in Nat
  BY DEF AtLeast, Bucket
<1> QED  BY <1>1, CapacityType, ProductType DEF Gain

LEMMA RefilledOfBucket ==
    ASSUME NEW rate, NEW b \in Bucket, NEW t
    PROVE  Refilled(rate, b, t) = AtMost(Capacity(rate), b.tokens + Gain(rate, b, t))
  BY BucketIsNotNone DEF Refilled, Gain

LEMMA RefilledType ==
    ASSUME NEW rate \in Rate, NEW b \in Opt(Bucket), NEW t \in Nat
    PROVE  Refilled(rate, b, t) \in Nat /\ Refilled(rate, b, t) <= Capacity(rate)
<1>1. CASE b = None
  BY <1>1, CapacityType DEF Refilled
<1>2. CASE b \in Bucket
  <2>1. b.tokens + Gain(rate, b, t) \in Nat
    BY <1>2, GainType DEF Bucket
  <2> QED  BY <2>1, <1>2, CapacityType, RefilledOfBucket DEF AtMost
<1> QED  BY <1>1, <1>2 DEF Opt

\* A bucket fills as time passes.
LEMMA RefilledGrows ==
    ASSUME NEW rate \in Rate, NEW b \in Opt(Bucket), NEW t \in Nat, NEW u \in Nat, t <= u
    PROVE  Refilled(rate, b, t) <= Refilled(rate, b, u)
<1>1. CASE b = None
  BY <1>1, CapacityType DEF Refilled
<1>2. CASE b \in Bucket
  <2>1. /\ AtLeast(0, t - b.updatedAt) \in Nat
        /\ AtLeast(0, u - b.updatedAt) \in Nat
        /\ AtLeast(0, t - b.updatedAt) <= AtLeast(0, u - b.updatedAt)
    BY <1>2 DEF AtLeast, Bucket
  <2>2. Gain(rate, b, t) <= Gain(rate, b, u)
    BY <2>1, CapacityType, ProductGrows DEF Gain
  <2> QED  BY <2>2, <1>2, GainType, CapacityType, RefilledOfBucket DEF AtMost, Bucket
<1> QED  BY <1>1, <1>2 DEF Opt

\* It fills no faster than its rate.
LEMMA RefilledAtRate ==
    ASSUME NEW rate \in Rate, NEW b \in Opt(Bucket), NEW t \in Nat, NEW u \in Nat, t <= u
    PROVE  Refilled(rate, b, u) <= Refilled(rate, b, t) + rate.requests * (u - t)
<1> DEFINE more == rate.requests * (u - t)
<1>0. more \in Nat
  BY CapacityType, ProductType
<1>1. CASE b = None
  BY <1>0, <1>1, CapacityType DEF Refilled
<1>2. CASE b \in Bucket
  <2> DEFINE x == AtLeast(0, t - b.updatedAt)
             y == AtLeast(0, u - b.updatedAt)
  <2>1. x \in Nat /\ y \in Nat /\ u - t \in Nat /\ y <= x + (u - t)
    BY <1>2 DEF AtLeast, Bucket
  <2>2. rate.requests * y <= rate.requests * (x + (u - t))
    BY <2>1, CapacityType, ProductGrows
  <2>3. rate.requests * (x + (u - t)) = rate.requests * x + more
    BY <2>1, CapacityType, ProductOfSum
  <2>4. Gain(rate, b, u) <= Gain(rate, b, t) + more
    BY <2>2, <2>3 DEF Gain
  <2>5. b.tokens \in Nat /\ Gain(rate, b, t) \in Nat /\ Gain(rate, b, u) \in Nat
    BY <1>2, GainType DEF Bucket
  <2> QED  BY <1>0, <2>4, <2>5, <1>2, CapacityType, RefilledOfBucket DEF AtMost
<1> QED  BY <1>1, <1>2 DEF Opt

(***************************************************************************)
(* The bucket a request leaves behind.                                     *)
(***************************************************************************)
After(rate, b, t, cost) ==
    [tokens |-> AtLeast(0, Refilled(rate, b, t) - cost), updatedAt |-> t]

LEMMA AfterType ==
    ASSUME NEW rate \in Rate, NEW b \in Opt(Bucket), NEW t \in Nat, NEW cost \in Nat
    PROVE  After(rate, b, t, cost) \in Bucket
<1>1. Refilled(rate, b, t) \in Nat
  BY RefilledType
<1>2. AtLeast(0, Refilled(rate, b, t) - cost) \in Nat
  BY <1>1 DEF AtLeast
<1> QED  BY <1>2 DEF After, Bucket

\* It holds what was there, less the cost.
LEMMA AfterHolds ==
    ASSUME NEW rate \in Rate, NEW b \in Opt(Bucket), NEW t \in Nat, NEW cost \in Nat,
           cost <= Refilled(rate, b, t)
    PROVE  /\ After(rate, b, t, cost).tokens = Refilled(rate, b, t) - cost
           /\ Refilled(rate, After(rate, b, t, cost), t) = Refilled(rate, b, t) - cost
<1> DEFINE a == After(rate, b, t, cost)
           k == Refilled(rate, b, t)
<1>1. k \in Nat /\ k <= Capacity(rate) /\ Capacity(rate) \in Nat
  BY RefilledType, CapacityType
<1>2. a \in Bucket /\ a.updatedAt = t
  BY AfterType DEF After
<1>3. a.tokens = k - cost
  BY <1>1 DEF After, AtLeast
<1>4. AtLeast(0, t - a.updatedAt) = 0
  BY <1>2 DEF AtLeast
<1>5. Gain(rate, a, t) = 0
  BY <1>4, CapacityType DEF Gain
<1> QED  BY <1>1, <1>2, <1>3, <1>5, RefilledOfBucket DEF AtMost

\* A refused request takes nothing, of any later moment either.
LEMMA RefusalIsFree ==
    ASSUME NEW rate \in Rate, NEW b \in Opt(Bucket), NEW t \in Nat, NEW u \in Nat
    PROVE  Refilled(rate, b, u) <= Refilled(rate, After(rate, b, t, 0), u)
<1> DEFINE a == After(rate, b, t, 0)
           k == Refilled(rate, b, t)
<1>1. k \in Nat /\ k <= Capacity(rate) /\ a \in Bucket /\ a \in Opt(Bucket)
  BY RefilledType, AfterType DEF Opt
<1>2. Refilled(rate, a, t) = k
  BY <1>1, AfterHolds
<1>3. CASE u <= t
  <2>1. Refilled(rate, b, u) <= k
    BY <1>3, RefilledGrows
  <2>2. AtLeast(0, u - a.updatedAt) = 0 /\ a.tokens = k
    BY <1>1, <1>3, AfterHolds DEF After, AtLeast
  <2>3. Gain(rate, a, u) = 0
    BY <2>2, CapacityType DEF Gain
  <2>4. Refilled(rate, a, u) = k
    BY <1>1, <2>2, <2>3, CapacityType, RefilledOfBucket DEF AtMost
  <2> QED  BY <2>1, <2>4
<1>4. CASE t < u
  <2>1. Refilled(rate, b, u) <= k + rate.requests * (u - t)
    BY <1>4, RefilledAtRate
  <2>2. AtLeast(0, u - a.updatedAt) = u - t /\ a.tokens = k
    BY <1>1, <1>4, AfterHolds DEF After, AtLeast
  <2>3. Gain(rate, a, u) = rate.requests * (u - t)
    BY <2>2 DEF Gain
  <2>4. Refilled(rate, b, u) <= Capacity(rate) /\ Refilled(rate, b, u) \in Nat
    BY RefilledType
  <2>5. rate.requests * (u - t) \in Nat
    BY <1>4, CapacityType, ProductType
  <2> QED  BY <1>1, <2>1, <2>2, <2>3, <2>4, <2>5, CapacityType, RefilledOfBucket DEF AtMost
<1> QED  BY <1>3, <1>4

(***************************************************************************)
(* The account of a bucket: what it holds and what was served from it, in  *)
(* an interval in which the clock moved forward by r.                      *)
(***************************************************************************)
Account(rate, b, t, served, r) ==
    Refilled(rate, b, t) + rate.window * served <= Capacity(rate) + rate.requests * r

LEMMA AccountOfFull ==
    ASSUME NEW rate \in Rate, NEW b \in Opt(Bucket), NEW t \in Nat, NEW r \in Nat
    PROVE  Account(rate, b, t, 0, r)
<1>1. rate.window * 0 = 0 /\ rate.requests * r \in Nat
  BY CapacityType, ProductType
<1> QED  BY <1>1, RefilledType, CapacityType DEF Account

\* A request of which n = 0 or 1 is accepted.
LEMMA AccountAfter ==
    ASSUME NEW rate \in Rate, NEW b \in Opt(Bucket), NEW t \in Nat, NEW served \in Nat,
           NEW r \in Nat, NEW n \in {0, 1}, Account(rate, b, t, served, r),
           rate.window * n <= Refilled(rate, b, t)
    PROVE  Account(rate, After(rate, b, t, rate.window * n), t, served + n, r)
<1> DEFINE cost == rate.window * n
<1>1. cost \in Nat /\ rate.window * served \in Nat /\ rate.requests * r \in Nat
  BY CapacityType, ProductType
<1>2. Refilled(rate, After(rate, b, t, cost), t) = Refilled(rate, b, t) - cost
  BY <1>1, AfterHolds
<1>3. rate.window * (served + n) = rate.window * served + cost
  BY CapacityType, ProductOfSum
<1> QED  BY <1>1, <1>2, <1>3, RefilledType, CapacityType DEF Account

LEMMA AccountLater ==
    ASSUME NEW rate \in Rate, NEW b \in Opt(Bucket), NEW t \in Nat, NEW u \in Nat, t <= u,
           NEW served \in Nat, NEW r \in Nat, Account(rate, b, t, served, r)
    PROVE  Account(rate, b, u, served, r + (u - t))
<1>1. rate.requests * (r + (u - t)) = rate.requests * r + rate.requests * (u - t)
  BY CapacityType, ProductOfSum
<1>2. /\ rate.requests * r \in Nat /\ rate.requests * (u - t) \in Nat
      /\ rate.window * served \in Nat
  BY CapacityType, ProductType
<1>3. Refilled(rate, b, u) <= Refilled(rate, b, t) + rate.requests * (u - t)
  BY RefilledAtRate
<1> QED  BY <1>1, <1>2, <1>3, RefilledType, CapacityType DEF Account

LEMMA AccountEarlier ==
    ASSUME NEW rate \in Rate, NEW b \in Opt(Bucket), NEW t \in Nat, NEW u \in Nat, u <= t,
           NEW served \in Nat, NEW r \in Nat, Account(rate, b, t, served, r)
    PROVE  Account(rate, b, u, served, r)
<1>1. rate.requests * r \in Nat /\ rate.window * served \in Nat
  BY CapacityType, ProductType
<1>2. Refilled(rate, b, u) <= Refilled(rate, b, t)
  BY RefilledGrows
<1> QED  BY <1>1, <1>2, RefilledType, CapacityType DEF Account

\* The account keeps the budget.
LEMMA AccountIsBudget ==
    ASSUME NEW rate \in Rate, NEW b \in Opt(Bucket), NEW t \in Nat, NEW served \in Nat,
           NEW r \in Nat, Account(rate, b, t, served, r)
    PROVE  rate.window * served <= rate.requests * (rate.window + r)
<1>1. rate.requests * (rate.window + r) = Capacity(rate) + rate.requests * r
  BY CapacityType, ProductOfSum DEF Capacity
<1>2. rate.requests * r \in Nat /\ rate.window * served \in Nat
  BY CapacityType, ProductType
<1> QED  BY <1>1, <1>2, RefilledType, CapacityType DEF Account

(***************************************************************************)
(* The answer.                                                             *)
(***************************************************************************)
LEMMA RetryType ==
    ASSUME NEW rate \in Rate, NEW k \in Nat
    PROVE  /\ RetryOf(rate, k) \in Nat
           /\ RetryOf(rate, k) = 0 <=> k >= rate.window
<1>1. rate.window \in Nat /\ rate.requests * Second \in Nat \ {0}
  <2>1. rate.requests \in Nat \ {0} /\ Second \in Nat \ {0}
    BY CapacityType, BoundAssumption
  <2>2. rate.requests * 1 <= rate.requests * Second
    BY <2>1, ProductGrows
  <2>3. rate.requests * Second \in Nat
    BY <2>1, ProductType
  <2> QED  BY <2>1, <2>2, <2>3, CapacityType
<1>2. CASE k < rate.window
  <2>1. rate.window - k \in Nat
    BY <1>1, <1>2
  <2>2. CeilDiv(rate.window - k, rate.requests * Second) \in Nat
    BY <2>1, <1>1, CeilDivIsEnough
  <2>3. retrySeconds(rate, k) \in Nat \ {0}
    BY <2>2 DEF retrySeconds, AtLeast
  <2> QED  BY <1>1, <1>2, <2>3 DEF RetryOf
<1>3. CASE k >= rate.window
  BY <1>1, <1>3 DEF RetryOf
<1> QED  BY <1>1, <1>2, <1>3

\* After the announced wait, or a longer one, a bucket that was not drawn from has enough.
LEMMA WaitIsEnough ==
    ASSUME NEW rate \in Rate, NEW b \in Opt(Bucket), NEW t \in Nat, NEW wait \in Nat,
           RetryOf(rate, Refilled(rate, b, t)) <= wait
    PROVE  rate.window <= Refilled(rate, After(rate, b, t, 0), t + Second * wait)
<1> DEFINE a == After(rate, b, t, 0)
           k == Refilled(rate, b, t)
           u == t + Second * wait
<1>1. /\ k \in Nat /\ k <= Capacity(rate) /\ a \in Bucket /\ a \in Opt(Bucket)
      /\ rate.requests \in Nat \ {0} /\ Second \in Nat \ {0}
      /\ rate.window \in Nat /\ rate.window <= Capacity(rate)
  BY RefilledType, AfterType, CapacityType, BoundAssumption DEF Opt
<1>2. Second * wait \in Nat /\ u \in Nat
  BY <1>1, ProductType
<1>3. Refilled(rate, a, t) = k /\ a.tokens = k /\ a.updatedAt = t
  BY <1>1, AfterHolds DEF After
<1>4. CASE k >= rate.window
  BY <1>1, <1>2, <1>3, <1>4, RefilledGrows, RefilledType
<1>5. CASE k < rate.window
  <2> DEFINE need == rate.window - k
             per == rate.requests * Second
  <2>1. per \in Nat \ {0}
    <3>1. rate.requests * 1 <= per /\ per \in Nat
      BY <1>1, ProductGrows, ProductType
    <3> QED  BY <3>1, <1>1
  <2>2. need \in Nat
    BY <1>1, <1>5
  <2>3. CeilDiv(need, per) \in Nat /\ need <= per * CeilDiv(need, per)
    BY <2>1, <2>2, CeilDivIsEnough
  <2>4. CeilDiv(need, per) <= wait
    BY <1>5, <2>3 DEF RetryOf, retrySeconds, AtLeast
  <2>5. per * CeilDiv(need, per) <= per * wait
    BY <2>1, <2>3, <2>4, ProductGrows
  <2>6. per * wait = rate.requests * (Second * wait)
    BY <1>1
  <2>7. AtLeast(0, u - a.updatedAt) = Second * wait
    BY <1>2, <1>3 DEF AtLeast
  <2>8. Gain(rate, a, u) = per * wait
    BY <2>6, <2>7 DEF Gain
  <2>9. per * wait \in Nat /\ per * CeilDiv(need, per) \in Nat
    BY <2>1, <2>3, ProductType
  <2>10. rate.window <= a.tokens + Gain(rate, a, u)
    BY <1>1, <1>3, <2>2, <2>3, <2>5, <2>8, <2>9
  <2> QED  BY <1>1, <2>10, CapacityType, RefilledOfBucket DEF AtMost
<1> QED  BY <1>1, <1>4, <1>5

(***************************************************************************)
(* Types.                                                                  *)
(***************************************************************************)
LEMMA PolicyRates ==
    ASSUME NEW limits \in Policy
    PROVE  /\ limits.perIp \in Rate /\ limits.total \in Rate
           /\ signature(limits) \in Signature
           /\ signature(limits).perIp = limits.perIp
           /\ signature(limits).total = limits.total
  BY PolicyAssumption DEF AnonymousBrowsingPolicy, Signature, signature

LEMMA SignatureIsNotNone == \A s \in Signature : s # None /\ s.perIp \in Rate /\ s.total \in Rate
  BY NoneAssumption DEF Signature

\* What a request finds: the state of its policy's buckets, new ones if the policy is new.
LEMMA FoundType ==
    ASSUME LimitTypeOK, NEW limits \in Policy, NEW c \in Client
    PROVE  /\ ClientBucket(limits, c) \in Opt(Bucket)
           /\ SharedBucket(limits) \in Opt(Bucket)
           /\ Answer(limits, c) \in Nat
           /\ RetryOf(limits.perIp, Refilled(limits.perIp, ClientBucket(limits, c), now))
                <= Answer(limits, c)
           /\ RetryOf(limits.total, Refilled(limits.total, SharedBucket(limits), now))
                <= Answer(limits, c)
<1>1. ClientBucket(limits, c) \in Opt(Bucket) /\ SharedBucket(limits) \in Opt(Bucket)
  BY DEF LimitTypeOK, ClientBucket, SharedBucket, Opt
<1>2. now \in Nat /\ limits.perIp \in Rate /\ limits.total \in Rate
  BY PolicyRates DEF LimitTypeOK
<1>3. /\ RetryOf(limits.perIp, Refilled(limits.perIp, ClientBucket(limits, c), now)) \in Nat
      /\ RetryOf(limits.total, Refilled(limits.total, SharedBucket(limits), now)) \in Nat
  BY <1>1, <1>2, RefilledType, RetryType
<1> QED  BY <1>1, <1>3 DEF Answer, AtLeast

\* An accepted request finds enough in both buckets.
LEMMA AcceptedIsCovered ==
    ASSUME LimitTypeOK, NEW limits \in Policy, NEW c \in Client, Answer(limits, c) = 0
    PROVE  /\ limits.perIp.window <= Refilled(limits.perIp, ClientBucket(limits, c), now)
           /\ limits.total.window <= Refilled(limits.total, SharedBucket(limits), now)
<1> DEFINE ip == Refilled(limits.perIp, ClientBucket(limits, c), now)
           total == Refilled(limits.total, SharedBucket(limits), now)
<1>1. /\ now \in Nat /\ limits.perIp \in Rate /\ limits.total \in Rate
      /\ ClientBucket(limits, c) \in Opt(Bucket) /\ SharedBucket(limits) \in Opt(Bucket)
  BY PolicyRates, FoundType DEF LimitTypeOK
<1>2. ip \in Nat /\ total \in Nat
  BY <1>1, RefilledType
<1>3. /\ RetryOf(limits.perIp, ip) \in Nat /\ RetryOf(limits.total, total) \in Nat
      /\ RetryOf(limits.perIp, ip) <= 0 /\ RetryOf(limits.total, total) <= 0
  BY <1>1, <1>2, FoundType, RetryType
<1>4. RetryOf(limits.perIp, ip) = 0 /\ RetryOf(limits.total, total) = 0
  BY <1>3
<1> QED  BY <1>1, <1>2, <1>4, RetryType, CapacityType

\* The cost of a request, and the buckets it leaves.
Cost(rate, limits, c) == rate.window * (IF Answer(limits, c) = 0 THEN 1 ELSE 0)

LEMMA BucketsLeft ==
    ASSUME LimitTypeOK, NEW limits \in Policy, NEW c \in Client, anonymousApiLimit(limits, c)
    PROVE  /\ totalBucket' =
                After(limits.total, SharedBucket(limits), now, Cost(limits.total, limits, c))
           /\ \A d \in Client :
                \/ perIpBuckets'[d] = None /\ spent'[d] = 0
                \/ /\ d = c
                   /\ perIpBuckets'[d] =
                        After(limits.perIp, ClientBucket(limits, c), now,
                              Cost(limits.perIp, limits, c))
                   /\ spent'[d] = (IF SameSignature(limits) THEN spent[d] ELSE 0)
                                    + (IF Answer(limits, c) = 0 THEN 1 ELSE 0)
                \/ /\ d # c
                   /\ perIpBuckets'[d] = ClientBucket(limits, d)
                   /\ spent'[d] = IF SameSignature(limits) THEN spent[d] ELSE 0
<1> DEFINE accepted == Answer(limits, c) = 0
<1>1. \A rate \in Rate :
        (IF accepted THEN rate.window ELSE 0) = Cost(rate, limits, c)
  BY CapacityType DEF Cost
<1>2. \A rate \in Rate : \A tokens :
        Charged(rate, tokens, accepted) = AtLeast(0, tokens - Cost(rate, limits, c))
  BY <1>1 DEF Charged
<1>3. limits.perIp \in Rate /\ limits.total \in Rate
  BY PolicyRates
<1>4. totalBucket' =
        [tokens |-> Charged(limits.total, Refilled(limits.total, SharedBucket(limits), now),
                            accepted),
         updatedAt |-> now]
  BY DEF anonymousApiLimit
<1>5. Written(limits, c, accepted) =
        After(limits.perIp, ClientBucket(limits, c), now, Cost(limits.perIp, limits, c))
  BY <1>2, <1>3 DEF Written, After
<1>6. ASSUME NEW d \in Client
      PROVE  \/ perIpBuckets'[d] = None /\ spent'[d] = 0
             \/ d = c /\ perIpBuckets'[d] = Written(limits, c, accepted)
                      /\ spent'[d] = (IF SameSignature(limits) THEN spent[d] ELSE 0)
                                       + (IF accepted THEN 1 ELSE 0)
             \/ d # c /\ perIpBuckets'[d] = ClientBucket(limits, d)
                      /\ spent'[d] = (IF SameSignature(limits) THEN spent[d] ELSE 0) + 0
  BY DEF anonymousApiLimit
<1>7. \A d \in Client : (IF SameSignature(limits) THEN spent[d] ELSE 0) \in Nat
  BY DEF LimitTypeOK
<1> QED  BY <1>2, <1>3, <1>4, <1>5, <1>6, <1>7 DEF After

(***************************************************************************)
(* The keys of the Map.                                                    *)
(***************************************************************************)
LEMMA WithoutType ==
    ASSUME NEW keys \in Seq(Client), NEW c \in Client
    PROVE  /\ Without(keys, c) \in Seq(Client)
           /\ Len(Without(keys, c)) <= Len(keys)
           /\ \A i \in DOMAIN keys : keys[i] # c =>
                \E j \in DOMAIN Without(keys, c) : Without(keys, c)[j] = keys[i]
<1>1. CASE ~(\E i \in DOMAIN keys : keys[i] = c)
  BY <1>1 DEF Without
<1>2. CASE \E i \in DOMAIN keys : keys[i] = c
  <2> DEFINE k == CHOOSE i \in DOMAIN keys : keys[i] = c
             left == SubSeq(keys, 1, k - 1)
             right == SubSeq(keys, k + 1, Len(keys))
             w == left \o right
  <2>1. k \in 1..Len(keys) /\ keys[k] = c
    BY <1>2
  <2>2. Without(keys, c) = w
    BY <1>2 DEF Without
  <2> HIDE DEF k
  <2>3. /\ left \in Seq(Client) /\ Len(left) = k - 1
        /\ \A i \in 1..(k - 1) : left[i] = keys[i]
    BY <2>1
  <2>4. /\ right \in Seq(Client) /\ Len(right) = Len(keys) - k
        /\ \A i \in 1..(Len(keys) - k) : right[i] = keys[k + i]
    BY <2>1
  <2> HIDE DEF left, right
  <2>5. /\ w \in Seq(Client) /\ Len(w) = Len(keys) - 1
        /\ \A i \in 1..(k - 1) : w[i] = keys[i]
        /\ \A i \in k..(Len(keys) - 1) : w[i] = keys[i + 1]
    <3>1. w \in Seq(Client) /\ Len(w) = Len(keys) - 1
      BY <2>1, <2>3, <2>4
    <3>2. \A i \in 1..(k - 1) : w[i] = left[i]
      BY <2>1, <2>3, <2>4
    <3>3. \A i \in k..(Len(keys) - 1) : w[i] = right[i - (k - 1)]
      BY <2>1, <2>3, <2>4
    <3>4. ASSUME NEW i \in k..(Len(keys) - 1)
          PROVE  right[i - (k - 1)] = keys[i + 1]
      <4>1. i - (k - 1) \in 1..(Len(keys) - k) /\ k + (i - (k - 1)) = i + 1
        BY <2>1
      <4> QED  BY <4>1, <2>4
    <3> QED  BY <3>1, <3>2, <3>3, <3>4, <2>3
  <2> HIDE DEF w
  <2>6. ASSUME NEW i \in DOMAIN keys, keys[i] # c
        PROVE  \E j \in DOMAIN w : w[j] = keys[i]
    <3>1. i \in 1..Len(keys) /\ i # k
      BY <2>1, <2>6
    <3>2. CASE i < k
      <4>1. i \in DOMAIN w /\ w[i] = keys[i]
        BY <2>1, <2>5, <3>1, <3>2
      <4> QED  BY <4>1
    <3>3. CASE i > k
      <4>1. i - 1 \in DOMAIN w /\ w[i - 1] = keys[i]
        BY <2>1, <2>5, <3>1, <3>3
      <4> QED  BY <4>1
    <3> QED  BY <2>1, <3>1, <3>2, <3>3
  <2> QED  BY <2>1, <2>2, <2>5, <2>6
<1> QED  BY <1>1, <1>2

LEMMA TouchedType ==
    ASSUME NEW keys \in Seq(Client), NEW c \in Client
    PROVE  /\ Touched(keys, c) \in Seq(Client)
           /\ Len(Touched(keys, c)) \in 1..(Len(keys) + 1)
           /\ \E j \in DOMAIN Touched(keys, c) : Touched(keys, c)[j] = c
           /\ \A i \in DOMAIN keys :
                \E j \in DOMAIN Touched(keys, c) : Touched(keys, c)[j] = keys[i]
<1> DEFINE w == Without(keys, c)
           t == Append(w, c)
<1>1. w \in Seq(Client) /\ Len(w) <= Len(keys) /\ Len(w) \in Nat
  BY WithoutType
<1>2. t = Touched(keys, c)
  BY DEF Touched
<1>3. /\ t \in Seq(Client) /\ Len(t) = Len(w) + 1 /\ t[Len(w) + 1] = c
      /\ \A i \in 1..Len(w) : t[i] = w[i]
  BY <1>1
<1>4. \E j \in DOMAIN t : t[j] = c
  BY <1>1, <1>3
<1>5. ASSUME NEW i \in DOMAIN keys
      PROVE  \E j \in DOMAIN t : t[j] = keys[i]
  <2>1. CASE keys[i] = c
    BY <2>1, <1>4
  <2>2. CASE keys[i] # c
    <3>1. PICK j \in DOMAIN w : w[j] = keys[i]
      BY <2>2, WithoutType
    <3> QED  BY <3>1, <1>1, <1>3
  <2> QED  BY <2>1, <2>2
<1> QED  BY <1>1, <1>2, <1>3, <1>4, <1>5

(***************************************************************************)
(* The invariant.                                                          *)
(***************************************************************************)
AccountsHold ==
    configuration # None =>
        /\ Account(configuration.total, totalBucket, now, issued, run)
        /\ \A c \in Client :
             Account(configuration.perIp, perIpBuckets[c], now, spent[c], run)

IInv == LimitTypeOK /\ AccountsHold /\ RetryIsEnough /\ MemoryIsBounded

LEMMA InitEstablishes == LimitInit => IInv
<1> SUFFICES ASSUME LimitInit PROVE IInv
  OBVIOUS
<1>1. LimitTypeOK
  <2>1. <<>> \in Seq(Client)
    OBVIOUS
  <2> QED  BY <2>1, BoundAssumption DEF LimitInit, LimitTypeOK, Fresh, Opt
<1>2. AccountsHold /\ RetryIsEnough
  BY DEF LimitInit, AccountsHold, RetryIsEnough
<1>3. MemoryIsBounded
  BY BoundAssumption DEF LimitInit, MemoryIsBounded, Fresh
<1> QED  BY <1>1, <1>2, <1>3 DEF IInv

\* The keys a call works on.
Keys(limits) == IF SameSignature(limits) THEN recency ELSE <<>>

LEMMA CallType ==
    ASSUME LimitTypeOK, NEW limits \in Policy, NEW c \in Client, anonymousApiLimit(limits, c)
    PROVE  LimitTypeOK'
<1>1. /\ limits.perIp \in Rate /\ limits.total \in Rate /\ now \in Nat
      /\ signature(limits) \in Signature
  BY PolicyRates DEF LimitTypeOK
<1>2. totalBucket' \in Opt(Bucket)
  <2>1. Cost(limits.total, limits, c) \in Nat
    BY <1>1, CapacityType DEF Cost
  <2>2. After(limits.total, SharedBucket(limits), now, Cost(limits.total, limits, c))
          \in Bucket
    BY <1>1, <2>1, FoundType, AfterType
  <2> QED  BY <2>2, BucketsLeft DEF Opt
<1>3. perIpBuckets' \in [Client -> Opt(Bucket)]
  <2>1. Cost(limits.perIp, limits, c) \in Nat
    BY <1>1, CapacityType DEF Cost
  <2>2. After(limits.perIp, ClientBucket(limits, c), now, Cost(limits.perIp, limits, c))
          \in Opt(Bucket)
    BY <1>1, <2>1, FoundType, AfterType DEF Opt
  <2>3. ASSUME NEW d \in Client
        PROVE  perIpBuckets'[d] \in Opt(Bucket)
    BY <2>2, BucketsLeft, FoundType DEF Opt
  <2>4. perIpBuckets' = [d \in Client |-> perIpBuckets'[d]]
    BY DEF anonymousApiLimit
  <2> QED  BY <2>3, <2>4
<1>4. recency' \in Seq(Client)
  <2> DEFINE keys == Touched(Keys(limits), c)
  <2>1. Keys(limits) \in Seq(Client)
    BY DEF LimitTypeOK, Keys
  <2>2. keys \in Seq(Client) /\ Len(keys) \in 1..(Len(Keys(limits)) + 1)
    BY <2>1, TouchedType
  <2>3. Tail(keys) \in Seq(Client)
    BY <2>2
  <2>4. recency' \in {keys, Tail(keys)}
    BY DEF anonymousApiLimit, Keys
  <2> QED  BY <2>2, <2>3, <2>4
<1>5. run' \in Nat /\ issued' \in Nat
  BY DEF LimitTypeOK, anonymousApiLimit
<1>6. spent' \in [Client -> Nat]
  BY DEF LimitTypeOK, anonymousApiLimit
<1>7. promised' \in [Client -> Opt(Nat)]
  <2>1. now + Second * Answer(limits, c) \in Nat
    <3>1. Answer(limits, c) \in Nat
      BY FoundType
    <3>2. Second * Answer(limits, c) \in Nat
      BY <3>1, BoundAssumption, ProductType
    <3> QED  BY <1>1, <3>2
  <2> QED  BY <2>1 DEF LimitTypeOK, anonymousApiLimit, Opt
<1>8. configuration' \in Opt(Signature) /\ now' \in Nat
  BY <1>1 DEF anonymousApiLimit, Opt
<1> QED  BY <1>2, <1>3, <1>4, <1>5, <1>6, <1>7, <1>8 DEF LimitTypeOK

LEMMA CallKeepsAccounts ==
    ASSUME IInv, NEW limits \in Policy, NEW c \in Client, anonymousApiLimit(limits, c)
    PROVE  AccountsHold'
<1> DEFINE n == IF Answer(limits, c) = 0 THEN 1 ELSE 0
           same == SameSignature(limits)
           r == IF same THEN run ELSE 0
           total == IF same THEN issued ELSE 0
           own(d) == IF same THEN spent[d] ELSE 0
<1>1. /\ limits.perIp \in Rate /\ limits.total \in Rate /\ now \in Nat
      /\ LimitTypeOK /\ n \in {0, 1}
  BY PolicyRates DEF IInv, LimitTypeOK
<1>2. /\ configuration' = signature(limits) /\ now' = now /\ run' = r
      /\ issued' = total + n
  BY DEF anonymousApiLimit
<1>3. configuration'.perIp = limits.perIp /\ configuration'.total = limits.total
  BY <1>2, PolicyRates
<1>4. r \in Nat /\ total \in Nat /\ \A d \in Client : own(d) \in Nat
  BY <1>1 DEF LimitTypeOK
\* What is found satisfies the account under the policy that is applied.
<1>5. /\ Account(limits.total, SharedBucket(limits), now, total, r)
      /\ \A d \in Client : Account(limits.perIp, ClientBucket(limits, d), now, own(d), r)
  <2>1. CASE same
    <3>1. configuration = signature(limits) /\ configuration # None
      BY <2>1, PolicyRates, SignatureIsNotNone DEF SameSignature
    <3>2. configuration.perIp = limits.perIp /\ configuration.total = limits.total
      BY <3>1, PolicyRates
    <3> QED  BY <2>1, <3>1, <3>2 DEF IInv, AccountsHold, SharedBucket, ClientBucket
  <2>2. CASE ~same
    <3>1. /\ SharedBucket(limits) = None /\ total = 0 /\ r = 0
          /\ \A d \in Client : ClientBucket(limits, d) = None /\ own(d) = 0
      BY <2>2 DEF SharedBucket, ClientBucket
    <3>2. None \in Opt(Bucket)
      BY DEF Opt
    <3> QED  BY <1>1, <3>1, <3>2, AccountOfFull
  <2> QED  BY <2>1, <2>2
<1>6. Cost(limits.total, limits, c) = limits.total.window * n
      /\ Cost(limits.perIp, limits, c) = limits.perIp.window * n
  BY DEF Cost
<1>7. limits.total.window * n <= Refilled(limits.total, SharedBucket(limits), now)
      /\ limits.perIp.window * n <= Refilled(limits.perIp, ClientBucket(limits, c), now)
  <2>1. Refilled(limits.total, SharedBucket(limits), now) \in Nat
        /\ Refilled(limits.perIp, ClientBucket(limits, c), now) \in Nat
    BY <1>1, FoundType, RefilledType
  <2>2. CASE n = 0
    BY <2>1, <2>2, <1>1, CapacityType
  <2>3. CASE n = 1
    BY <2>3, <1>1, AcceptedIsCovered, CapacityType
  <2> QED  BY <1>1, <2>2, <2>3
<1>8. Account(limits.total, totalBucket', now, issued', r)
  BY <1>1, <1>2, <1>4, <1>5, <1>6, <1>7, FoundType, AccountAfter, BucketsLeft
<1>9. ASSUME NEW d \in Client
      PROVE  Account(limits.perIp, perIpBuckets'[d], now, spent'[d], r)
  <2>1. CASE perIpBuckets'[d] = None /\ spent'[d] = 0
    <3>1. None \in Opt(Bucket)
      BY DEF Opt
    <3> QED  BY <2>1, <3>1, <1>1, <1>4, AccountOfFull
  <2>2. CASE /\ d = c
             /\ perIpBuckets'[d] = After(limits.perIp, ClientBucket(limits, c), now,
                                         Cost(limits.perIp, limits, c))
             /\ spent'[d] = own(d) + n
    BY <2>2, <1>1, <1>4, <1>5, <1>6, <1>7, FoundType, AccountAfter
  <2>3. CASE perIpBuckets'[d] = ClientBucket(limits, d) /\ spent'[d] = own(d)
    BY <2>3, <1>5
  <2> QED  BY <1>1, <2>1, <2>2, <2>3, BucketsLeft
<1> QED  BY <1>2, <1>3, <1>8, <1>9 DEF AccountsHold

LEMMA CallKeepsPromises ==
    ASSUME IInv, NEW limits \in Policy, NEW c \in Client, anonymousApiLimit(limits, c)
    PROVE  RetryIsEnough'
<1> SUFFICES ASSUME NEW d \in Client, promised'[d] # None
             PROVE  /\ limits.perIp.window
                         <= Refilled(limits.perIp, perIpBuckets'[d], promised'[d])
                    /\ limits.total.window
                         <= Refilled(limits.total, totalBucket', promised'[d])
  <2>1. configuration'.perIp = limits.perIp /\ configuration'.total = limits.total
    BY PolicyRates DEF anonymousApiLimit
  <2>2. LimitTypeOK'
    BY CallType DEF IInv
  <2>3. \A d \in Client : promised'[d] # None =>
          /\ Refilled(limits.perIp, perIpBuckets'[d], promised'[d]) \in Nat
          /\ Refilled(limits.total, totalBucket', promised'[d]) \in Nat
    <3>1. limits.perIp \in Rate /\ limits.total \in Rate
      BY PolicyRates
    <3> QED  BY <2>2, <3>1, RefilledType DEF LimitTypeOK, Opt
  <2>4. limits.perIp.window \in Nat /\ limits.total.window \in Nat
    BY PolicyRates, CapacityType
  <2> QED  BY <2>1, <2>3, <2>4 DEF RetryIsEnough
<1> DEFINE same == SameSignature(limits)
<1>1. /\ limits.perIp \in Rate /\ limits.total \in Rate /\ now \in Nat /\ LimitTypeOK
      /\ ClientBucket(limits, c) \in Opt(Bucket) /\ ClientBucket(limits, d) \in Opt(Bucket)
      /\ SharedBucket(limits) \in Opt(Bucket) /\ Answer(limits, c) \in Nat
  BY PolicyRates, FoundType DEF IInv, LimitTypeOK
\* Only a refused request leaves promises, and it costs nothing.
<1>2. Answer(limits, c) # 0
  BY DEF anonymousApiLimit
<1>3. Cost(limits.total, limits, c) = 0 /\ Cost(limits.perIp, limits, c) = 0
  BY <1>1, <1>2, CapacityType DEF Cost
<1>4. totalBucket' = After(limits.total, SharedBucket(limits), now, 0)
  BY <1>1, <1>3, BucketsLeft
<1>5. limits.perIp.window <= Capacity(limits.perIp)
  BY <1>1, CapacityType
<1>6. CASE d = c
  <2>1. promised'[d] = now + Second * Answer(limits, c)
    BY <1>2, <1>6 DEF anonymousApiLimit
  <2>2. limits.total.window <= Refilled(limits.total, totalBucket', promised'[d])
    BY <1>1, <1>4, <2>1, FoundType, WaitIsEnough
  <2>3. CASE perIpBuckets'[d] = None
    BY <1>5, <2>2, <2>3 DEF Refilled
  <2>4. CASE perIpBuckets'[d] = After(limits.perIp, ClientBucket(limits, c), now, 0)
    BY <1>1, <2>1, <2>2, <2>4, FoundType, WaitIsEnough
  <2> QED  BY <1>1, <1>3, <1>6, <2>3, <2>4, BucketsLeft
<1>7. CASE d # c
  <2>1. same /\ promised'[d] = promised[d] /\ promised[d] # None
    BY <1>2, <1>7 DEF anonymousApiLimit
  <2>2. configuration = signature(limits) /\ configuration # None
    BY <2>1, PolicyRates, SignatureIsNotNone DEF SameSignature
  <2>3. configuration.perIp = limits.perIp /\ configuration.total = limits.total
    BY <2>2, PolicyRates
  <2>4. promised[d] \in Nat
    BY <1>1, <2>1 DEF LimitTypeOK, Opt
  <2>5. ClientBucket(limits, d) = perIpBuckets[d] /\ SharedBucket(limits) = totalBucket
    BY <2>1 DEF ClientBucket, SharedBucket
  <2>6. /\ limits.perIp.window <= Refilled(limits.perIp, perIpBuckets[d], promised[d])
        /\ limits.total.window <= Refilled(limits.total, totalBucket, promised[d])
    <3>1. /\ Refilled(limits.perIp, perIpBuckets[d], promised[d]) \in Nat
          /\ Refilled(limits.total, totalBucket, promised[d]) \in Nat
      BY <1>1, <2>4, <2>5, RefilledType
    <3> QED  BY <1>1, <2>1, <2>2, <2>3, <3>1, CapacityType DEF IInv, RetryIsEnough
  <2>7. Refilled(limits.total, totalBucket, promised[d])
          <= Refilled(limits.total, totalBucket', promised[d])
    BY <1>1, <1>4, <2>4, <2>5, RefusalIsFree
  <2>8. /\ Refilled(limits.total, totalBucket, promised[d]) \in Nat
        /\ Refilled(limits.total, totalBucket', promised[d]) \in Nat
        /\ limits.total.window \in Nat
    <3>1. totalBucket' \in Opt(Bucket)
      BY <1>1, CallType DEF LimitTypeOK
    <3> QED  BY <1>1, <2>4, <2>5, <3>1, RefilledType, CapacityType
  <2>9. perIpBuckets'[d] = None \/ perIpBuckets'[d] = perIpBuckets[d]
    BY <1>1, <1>7, <2>5, BucketsLeft
  <2>10. limits.perIp.window <= Refilled(limits.perIp, perIpBuckets'[d], promised[d])
    BY <1>5, <2>6, <2>9 DEF Refilled
  <2> QED  BY <2>1, <2>6, <2>7, <2>8, <2>10
<1> QED  BY <1>6, <1>7

LEMMA CallKeepsMemory ==
    ASSUME IInv, NEW limits \in Policy, NEW c \in Client, anonymousApiLimit(limits, c)
    PROVE  MemoryIsBounded'
<1> DEFINE before == Keys(limits)
           keys == Touched(before, c)
<1>1. before \in Seq(Client) /\ Len(before) \in Nat /\ Len(before) <= MaxBuckets
  <2>1. recency \in Seq(Client) /\ Len(recency) <= MaxBuckets
    BY DEF IInv, LimitTypeOK, MemoryIsBounded
  <2>2. <<>> \in Seq(Client) /\ Len(<<>>) = 0
    OBVIOUS
  <2> QED  BY <2>1, <2>2, BoundAssumption DEF Keys
<1>2. /\ keys \in Seq(Client) /\ Len(keys) \in 1..(Len(before) + 1)
      /\ \E j \in DOMAIN keys : keys[j] = c
      /\ \A i \in DOMAIN before : \E j \in DOMAIN keys : keys[j] = before[i]
  BY <1>1, TouchedType
\* A bucket that is kept has its key among those the call works on.
<1>3. ASSUME NEW d \in Client, perIpBuckets'[d] # None
      PROVE  d \notin Evicted(keys) /\ \E j \in DOMAIN keys : keys[j] = d
  <2>1. d \notin Evicted(keys)
    BY <1>3 DEF anonymousApiLimit, Keys
  <2>2. CASE d = c
    BY <1>2, <2>1, <2>2
  <2>3. CASE d # c
    <3>1. perIpBuckets'[d] = ClientBucket(limits, d)
      BY <2>1, <2>3 DEF anonymousApiLimit, Keys
    <3>2. SameSignature(limits) /\ perIpBuckets[d] # None
      BY <1>3, <3>1 DEF ClientBucket
    <3>3. before = recency
      BY <3>2 DEF Keys
    <3>4. \E i \in DOMAIN before : before[i] = d
      BY <3>2, <3>3 DEF IInv, MemoryIsBounded
    <3> QED  BY <1>2, <2>1, <3>4
  <2> QED  BY <2>2, <2>3
<1>4. CASE Len(keys) > MaxBuckets
  <2>1. Evicted(keys) = {Head(keys)} /\ recency' = Tail(keys)
    BY <1>4 DEF Evicted, anonymousApiLimit, Keys
  <2>2. /\ Len(Tail(keys)) = Len(keys) - 1
        /\ Head(keys) = keys[1]
        /\ \A i \in 1..(Len(keys) - 1) : Tail(keys)[i] = keys[i + 1]
    BY <1>2
  <2>3. Len(recency') <= MaxBuckets
    BY <1>1, <1>2, <2>1, <2>2, BoundAssumption
  <2>4. ASSUME NEW d \in Client, perIpBuckets'[d] # None
        PROVE  \E i \in DOMAIN recency' : recency'[i] = d
    <3>1. PICK j \in DOMAIN keys : keys[j] = d
      BY <1>3, <2>4
    <3>2. j # 1
      BY <1>3, <2>1, <2>2, <2>4, <3>1
    <3>3. j - 1 \in 1..(Len(keys) - 1)
      BY <1>2, <3>1, <3>2
    <3>4. Tail(keys)[j - 1] = d /\ j - 1 \in DOMAIN Tail(keys)
      BY <1>2, <2>2, <3>1, <3>3
    <3> QED  BY <2>1, <3>4
  <2> QED  BY <2>3, <2>4 DEF MemoryIsBounded
<1>5. CASE ~(Len(keys) > MaxBuckets)
  <2>1. recency' = keys
    BY <1>5 DEF Evicted, anonymousApiLimit, Keys
  <2> QED  BY <1>2, <1>3, <1>5, <2>1, BoundAssumption DEF MemoryIsBounded
<1> QED  BY <1>4, <1>5

(***************************************************************************)
(* The surroundings.                                                       *)
(***************************************************************************)
LEMMA SignatureRates ==
    ASSUME LimitTypeOK, configuration # None
    PROVE  configuration.perIp \in Rate /\ configuration.total \in Rate
  BY SignatureIsNotNone DEF LimitTypeOK, Opt

LEMMA TickKeeps == ASSUME IInv, Tick PROVE IInv'
<1> USE DEF limit
<1>1. PICK t \in (now + 1)..MaxTime :
        now' = t /\ run' = run + (t - now) /\ UNCHANGED <<limit, issued, spent, promised>>
  BY DEF Tick
<1>2. LimitTypeOK /\ now \in Nat /\ t \in Nat /\ now <= t /\ t - now \in Nat /\ run \in Nat
  BY <1>1, BoundAssumption DEF IInv, LimitTypeOK
<1>3. LimitTypeOK'
  <2>1. now' \in Nat /\ run' \in Nat
    BY <1>1, <1>2
  <2> QED  BY <1>1, <1>2, <2>1 DEF LimitTypeOK
<1>4. AccountsHold'
  <2> SUFFICES ASSUME configuration # None
               PROVE  /\ Account(configuration.total, totalBucket, t, issued, run + (t - now))
                      /\ \A c \in Client : Account(configuration.perIp, perIpBuckets[c], t,
                                                   spent[c], run + (t - now))
    BY <1>1 DEF AccountsHold
  <2>1. configuration.perIp \in Rate /\ configuration.total \in Rate
    BY <1>2, SignatureRates
  <2>2. /\ totalBucket \in Opt(Bucket) /\ issued \in Nat
        /\ \A c \in Client : perIpBuckets[c] \in Opt(Bucket) /\ spent[c] \in Nat
    BY <1>2 DEF LimitTypeOK
  <2> QED  BY <1>2, <2>1, <2>2, AccountLater DEF IInv, AccountsHold
<1>5. RetryIsEnough'
  BY <1>1 DEF IInv, RetryIsEnough
<1>6. MemoryIsBounded'
  BY <1>1 DEF IInv, MemoryIsBounded
<1> QED  BY <1>3, <1>4, <1>5, <1>6 DEF IInv

LEMMA SetBackKeeps == ASSUME IInv, SetBack PROVE IInv'
<1> USE DEF limit, history
<1>1. PICK t \in 0..(now - 1) : now' = t /\ UNCHANGED <<limit, history>>
  BY DEF SetBack
<1>2. LimitTypeOK /\ now \in Nat /\ t \in Nat /\ t <= now /\ run \in Nat
  BY <1>1 DEF IInv, LimitTypeOK
<1>3. LimitTypeOK'
  BY <1>1, <1>2 DEF LimitTypeOK
<1>4. AccountsHold'
  <2> SUFFICES ASSUME configuration # None
               PROVE  /\ Account(configuration.total, totalBucket, t, issued, run)
                      /\ \A c \in Client :
                           Account(configuration.perIp, perIpBuckets[c], t, spent[c], run)
    BY <1>1 DEF AccountsHold
  <2>1. configuration.perIp \in Rate /\ configuration.total \in Rate
    BY <1>2, SignatureRates
  <2>2. /\ totalBucket \in Opt(Bucket) /\ issued \in Nat
        /\ \A c \in Client : perIpBuckets[c] \in Opt(Bucket) /\ spent[c] \in Nat
    BY <1>2 DEF LimitTypeOK
  <2> QED  BY <1>2, <2>1, <2>2, AccountEarlier DEF IInv, AccountsHold
<1>5. RetryIsEnough'
  BY <1>1 DEF IInv, RetryIsEnough
<1>6. MemoryIsBounded'
  BY <1>1 DEF IInv, MemoryIsBounded
<1> QED  BY <1>3, <1>4, <1>5, <1>6 DEF IInv

LEMMA RestartKeeps == ASSUME IInv, Restart PROVE IInv'
<1>1. LimitTypeOK'
  <2>1. <<>> \in Seq(Client)
    OBVIOUS
  <2> QED  BY <2>1 DEF IInv, Restart, LimitTypeOK, Fresh, Opt
<1>2. AccountsHold' /\ RetryIsEnough'
  BY DEF Restart, AccountsHold, RetryIsEnough
<1>3. MemoryIsBounded'
  BY BoundAssumption DEF Restart, MemoryIsBounded, Fresh
<1> QED  BY <1>1, <1>2, <1>3 DEF IInv

LEMMA ObserveKeeps == ASSUME IInv, Observe PROVE IInv'
<1> USE DEF limit
<1>1. LimitTypeOK'
  BY DEF IInv, Observe, LimitTypeOK
<1>2. AccountsHold'
  <2> SUFFICES ASSUME configuration # None
               PROVE  /\ Account(configuration.total, totalBucket, now, 0, 0)
                      /\ \A c \in Client :
                           Account(configuration.perIp, perIpBuckets[c], now, 0, 0)
    BY DEF Observe, AccountsHold
  <2>1. configuration.perIp \in Rate /\ configuration.total \in Rate
    BY SignatureRates DEF IInv
  <2>2. /\ totalBucket \in Opt(Bucket) /\ now \in Nat
        /\ \A c \in Client : perIpBuckets[c] \in Opt(Bucket)
    BY DEF IInv, LimitTypeOK
  <2> QED  BY <2>1, <2>2, AccountOfFull
<1>3. RetryIsEnough'
  BY DEF IInv, Observe, RetryIsEnough
<1>4. MemoryIsBounded'
  BY DEF IInv, Observe, MemoryIsBounded
<1> QED  BY <1>1, <1>2, <1>3, <1>4 DEF IInv

LEMMA StutterKeeps == ASSUME IInv, UNCHANGED limitVars PROVE IInv'
<1> USE DEF limitVars, limit, history
<1>1. LimitTypeOK'
  BY DEF IInv, LimitTypeOK
<1>2. AccountsHold'
  BY DEF IInv, AccountsHold
<1>3. RetryIsEnough'
  BY DEF IInv, RetryIsEnough
<1>4. MemoryIsBounded'
  BY DEF IInv, MemoryIsBounded
<1> QED  BY <1>1, <1>2, <1>3, <1>4 DEF IInv

LEMMA NextKeeps == IInv /\ [LimitNext]_limitVars => IInv'
<1> SUFFICES ASSUME IInv, [LimitNext]_limitVars PROVE IInv'
  OBVIOUS
<1>1. ASSUME NEW limits \in Policy, NEW c \in Client, anonymousApiLimit(limits, c)
      PROVE  IInv'
  BY <1>1, CallType, CallKeepsAccounts, CallKeepsPromises, CallKeepsMemory DEF IInv
<1>2. CASE Surroundings
  BY <1>2, TickKeeps, SetBackKeeps, RestartKeeps, ObserveKeeps DEF Surroundings
<1>3. CASE UNCHANGED limitVars
  BY <1>3, StutterKeeps
<1> QED  BY <1>1, <1>2, <1>3 DEF LimitNext

\* The invariant the other theorems rest on: the accounts of the observer and of the buckets
\* balance.
THEOREM LimitInvariant == LimitSpec => []IInv
<1> QED  BY InitEstablishes, NextKeeps, PTL DEF LimitSpec

\* Type correctness: no bucket is ever overdrawn (refill and anonymousApiLimit).
THEOREM LimitTypeCorrect == LimitSpec => []LimitTypeOK
<1>1. IInv => LimitTypeOK
  BY DEF IInv
<1> QED  BY <1>1, LimitInvariant, PTL

\* In every interval under one policy all clients together are served at most a full bucket
\* and what the clock has added (anonymousApiLimit and refill).
THEOREM TotalBudgetHolds == LimitSpec => []TotalWithinBudget
<1>1. IInv => TotalWithinBudget
  <2> SUFFICES ASSUME IInv, configuration # None
               PROVE  configuration.total.window * issued
                        <= configuration.total.requests * (configuration.total.window + run)
    BY DEF TotalWithinBudget
  <2>1. configuration.total \in Rate
    BY SignatureRates DEF IInv
  <2>2. totalBucket \in Opt(Bucket) /\ now \in Nat /\ issued \in Nat /\ run \in Nat
    BY DEF IInv, LimitTypeOK
  <2> QED  BY <2>1, <2>2, AccountIsBudget DEF IInv, AccountsHold
<1> QED  BY <1>1, LimitInvariant, PTL

\* The same of every client whose bucket is kept.
THEOREM ClientBudgetHolds == LimitSpec => []ClientWithinBudget
<1>1. IInv => ClientWithinBudget
  <2> SUFFICES ASSUME IInv, configuration # None, NEW c \in Client
               PROVE  configuration.perIp.window * spent[c]
                        <= configuration.perIp.requests * (configuration.perIp.window + run)
    BY DEF ClientWithinBudget
  <2>1. configuration.perIp \in Rate
    BY SignatureRates DEF IInv
  <2>2. /\ perIpBuckets[c] \in Opt(Bucket) /\ now \in Nat /\ spent[c] \in Nat
        /\ run \in Nat
    BY DEF IInv, LimitTypeOK
  <2> QED  BY <2>1, <2>2, AccountIsBudget DEF IInv, AccountsHold
<1> QED  BY <1>1, LimitInvariant, PTL

\* The announced wait is enough, whatever refused requests, evictions and clock changes
\* come in between (retrySeconds).
THEOREM RetrySuffices == LimitSpec => []RetryIsEnough
<1>1. IInv => RetryIsEnough
  BY DEF IInv
<1> QED  BY <1>1, LimitInvariant, PTL

\* The Map of buckets never outgrows MAX_BUCKETS.
THEOREM MemoryStaysBounded == LimitSpec => []MemoryIsBounded
<1>1. IInv => MemoryIsBounded
  BY DEF IInv
<1> QED  BY <1>1, LimitInvariant, PTL

(***************************************************************************)
(* Admission.                                                              *)
(***************************************************************************)
\* What is true now has been witnessed.
Current(r) ==
    /\ FactsOf(setup, swagger) \subseteq r.facts
    /\ WorthsOf(r.sent, session[r.client]) \subseteq r.worths
    /\ policy \in r.policies

PastGate == Phase \ {"gate", "gateCookie", "gateBearer", "refused"}
PastDocumentation == PastGate \ {"docs"}
OnEdge == {"docs", "edgeSetup", "credential", "policy", "limit"}
OnProxy == {"proxySetup", "proxyAdministrator", "browsing", "proxySession"}
PastProxySetup == {"browsing", "proxySession", "served"}

GateJustified(r) ==
    \/ "completed" \in r.facts
    \/ setupPathAllowed(r.path, \E k \in Credential : Was(r, k, {"administrator"}))
SetupJustified(r) == "completed" \in r.facts \/ setupPathAllowed(r.path, WasAdministrator(r))
ApiJustified(r) ==
    \/ SiteWas(r, TRUE) \/ HadSession(r, Checked(r.sent))
    \/ originalUri(r.path) \in IdentityApi \cup {"docsPage"}
    \/ "incomplete" \in r.facts /\ setupPathAllowed(r.path, FALSE)
BrowsingJustified(r) == SiteWas(r, TRUE) \/ HadSession(r, "cookie")

\* What a request must have established to be in a phase.
Fit(r, phase) ==
    /\ phase \in PastGate => GateJustified(r)
    /\ phase \in PastDocumentation /\ isDocumentationRequest(r.path) => "documented" \in r.facts
    /\ phase \in OnEdge => r.path \in Api
    /\ phase \in OnProxy => r.path \in Page \cup {"readerApi"}
    /\ phase \in OnProxy \cup {"served"} /\ r.path \in Api => ApiJustified(r)
    /\ phase \in PastProxySetup => SetupJustified(r)
    /\ phase = "served" /\ requiresBrowsingAdmission(r.path) => BrowsingJustified(r)

Established(r) == Fit(r, r.phase) /\ (r.phase = "limit" => r.policy \in r.policies)

AdmissionInv ==
    /\ TypeOK
    /\ \A w \in Worker : request[w] # None => Current(request[w]) /\ Established(request[w])

(***************************************************************************)
(* What was witnessed stays so: every reason grows with the request.       *)
(***************************************************************************)
Extends(q, r) ==
    /\ q.path = r.path /\ q.sent = r.sent
    /\ r.facts \subseteq q.facts /\ r.worths \subseteq q.worths /\ r.policies \subseteq q.policies

LEMMA WitnessedFurther ==
    ASSUME NEW q, NEW r, Extends(q, r)
    PROVE  /\ \A k, W : Was(r, k, W) => Was(q, k, W)
           /\ \A a : SiteWas(r, a) => SiteWas(q, a)
           /\ WasAdministrator(r) => WasAdministrator(q)
  BY DEF Extends, Was, SiteWas, WasAdministrator

\* Whoever is allowed without being an administrator is allowed in any case.
LEMMA SetupPathMonotonic ==
    ASSUME NEW path, NEW a \in BOOLEAN, NEW b \in BOOLEAN, a => b, setupPathAllowed(path, a)
    PROVE  setupPathAllowed(path, b)
  BY DEF setupPathAllowed

LEMMA JustifiedFurther ==
    ASSUME NEW q, NEW r, Extends(q, r)
    PROVE  /\ GateJustified(r) => GateJustified(q)
           /\ SetupJustified(r) => SetupJustified(q)
           /\ ApiJustified(r) => ApiJustified(q)
           /\ BrowsingJustified(r) => BrowsingJustified(q)
<1>1. /\ q.path = r.path /\ q.sent = r.sent /\ r.facts \subseteq q.facts
  BY DEF Extends
<1>2. GateJustified(r) => GateJustified(q)
  <2> DEFINE a == \E k \in Credential : Was(r, k, {"administrator"})
             b == \E k \in Credential : Was(q, k, {"administrator"})
  <2>1. a => b
    BY WitnessedFurther
  <2>2. a \in BOOLEAN /\ b \in BOOLEAN
    OBVIOUS
  <2>3. GateJustified(r) = ("completed" \in r.facts \/ setupPathAllowed(r.path, a))
    BY DEF GateJustified
  <2>4. GateJustified(q) = ("completed" \in q.facts \/ setupPathAllowed(q.path, b))
    BY DEF GateJustified
  <2> HIDE DEF a, b
  <2>5. setupPathAllowed(r.path, a) => setupPathAllowed(r.path, b)
    BY <2>1, <2>2, SetupPathMonotonic
  <2> QED  BY <1>1, <2>3, <2>4, <2>5
<1>3. SetupJustified(r) => SetupJustified(q)
  <2>1. WasAdministrator(r) => WasAdministrator(q)
    BY WitnessedFurther
  <2>2. WasAdministrator(r) \in BOOLEAN /\ WasAdministrator(q) \in BOOLEAN
    BY DEF WasAdministrator
  <2>3. setupPathAllowed(r.path, WasAdministrator(r)) => setupPathAllowed(r.path, WasAdministrator(q))
    BY <2>1, <2>2, SetupPathMonotonic
  <2> QED  BY <1>1, <2>3 DEF SetupJustified
<1>4. ApiJustified(r) => ApiJustified(q)
  BY <1>1, WitnessedFurther DEF ApiJustified, HadSession
<1>5. BrowsingJustified(r) => BrowsingJustified(q)
  BY WitnessedFurther DEF BrowsingJustified, HadSession
<1> QED  BY <1>2, <1>3, <1>4, <1>5

LEMMA FitFurther ==
    ASSUME NEW q, NEW r, Extends(q, r), NEW phase, Fit(r, phase)
    PROVE  Fit(q, phase)
<1>1. q.path = r.path /\ r.facts \subseteq q.facts
  BY DEF Extends
<1> QED  BY <1>1, JustifiedFurther DEF Fit

(***************************************************************************)
(* A step of one request.                                                  *)
(***************************************************************************)
LEMMA RequestMoves ==
    ASSUME AdmissionInv, LimitTypeOK', UNCHANGED identity, NEW w \in Worker,
           NEW q \in Opt(Request), request' = [request EXCEPT ![w] = q],
           q # None => Current(q) /\ Established(q)
    PROVE  AdmissionInv'
<1>1. TypeOK'
  BY DEF AdmissionInv, TypeOK, identity
<1>2. ASSUME NEW v \in Worker, request'[v] # None
      PROVE  (Current(request[v]) /\ Established(request[v]))'
  <2>1. Current(request'[v]) /\ Established(request'[v])
    BY <1>2 DEF AdmissionInv, TypeOK
  <2>2. Current(request[v])'
    BY <2>1 DEF Current, identity
  <2>3. Established(request[v])'
    BY <2>1
       DEF Established, Fit, GateJustified, SetupJustified, ApiJustified, BrowsingJustified,
           Was, SiteWas, HadSession, WasAdministrator
  <2> QED  BY <2>2, <2>3
<1> QED  BY <1>1, <1>2 DEF AdmissionInv

\* The request of w, moved to another phase.
Moved(w, phase) == [request[w] EXCEPT !.phase = phase]
Failed(w, phase) == [request[w] EXCEPT !.phase = phase, !.facts = @ \cup {"failure"}]

LEMMA InFlight ==
    ASSUME AdmissionInv, NEW w \in Worker, request[w] # None
    PROVE  request[w] \in Request /\ Current(request[w]) /\ Established(request[w])
  BY DEF AdmissionInv, TypeOK, Opt

\* The fields of a moved request.
LEMMA MovedFields ==
    ASSUME NEW w, request[w] \in Request, NEW phase
    PROVE  /\ Moved(w, phase).phase = phase
           /\ Moved(w, phase).client = request[w].client
           /\ Moved(w, phase).policy = request[w].policy
           /\ Moved(w, phase).facts = request[w].facts
           /\ Failed(w, phase).phase = phase
           /\ Failed(w, phase).client = request[w].client
           /\ Failed(w, phase).policy = request[w].policy
           /\ Failed(w, phase).facts = request[w].facts \cup {"failure"}
           /\ Extends(Moved(w, phase), request[w])
           /\ Extends(Failed(w, phase), request[w])
  BY DEF Moved, Failed, Request, Extends

\* A request may enter a phase for which it is fit, after an answer or a failure.
LEMMA GoKeeps ==
    ASSUME AdmissionInv, LimitTypeOK', UNCHANGED identity, NEW w \in Worker,
           request[w] # None, NEW phase \in Phase \ {"limit"}, Go(w, phase) \/ Fails(w, phase),
           Fit(request[w], phase)
    PROVE  AdmissionInv'
<1>1. request[w] \in Request /\ Current(request[w])
  BY InFlight
<1>2. Moved(w, phase) \in Opt(Request) /\ Failed(w, phase) \in Opt(Request)
  BY <1>1 DEF Moved, Failed, Request, Opt, Fact
<1>3. /\ request[w].sent = Moved(w, phase).sent /\ request[w].sent = Failed(w, phase).sent
      /\ request[w].facts \subseteq Moved(w, phase).facts
      /\ request[w].worths \subseteq Moved(w, phase).worths
      /\ request[w].policies \subseteq Moved(w, phase).policies
      /\ request[w].facts \subseteq Failed(w, phase).facts
      /\ request[w].worths \subseteq Failed(w, phase).worths
      /\ request[w].policies \subseteq Failed(w, phase).policies
  BY <1>1, MovedFields DEF Extends
<1>4. Current(Moved(w, phase)) /\ Current(Failed(w, phase))
  BY <1>1, <1>3, MovedFields DEF Current
<1>5. Established(Moved(w, phase)) /\ Established(Failed(w, phase))
  BY <1>1, MovedFields, FitFurther DEF Established
<1>6. \/ request' = [request EXCEPT ![w] = Moved(w, phase)]
      \/ request' = [request EXCEPT ![w] = Failed(w, phase)]
  BY DEF Go, Fails, Moved, Failed
<1> QED  BY <1>2, <1>4, <1>5, <1>6, RequestMoves

\* A refusal has nothing to establish.
LEMMA AnybodyIsRefused ==
    ASSUME NEW r
    PROVE  "refused" \in Phase \ {"limit"} /\ Fit(r, "refused")
  BY DEF Fit, PastGate, PastDocumentation, OnEdge, OnProxy, PastProxySetup, Phase

\* What is true now, of a request that witnessed it.
LEMMA Witnessed ==
    ASSUME AdmissionInv, NEW w \in Worker, request[w] # None
    PROVE  /\ IF setup THEN "completed" \in request[w].facts ELSE "incomplete" \in request[w].facts
           /\ IF swagger THEN "documented" \in request[w].facts ELSE "hidden" \in request[w].facts
           /\ \A k \in Credential : <<k, WorthNow(w, k)>> \in request[w].worths
           /\ policy \in request[w].policies
<1>1. Current(request[w])
  BY InFlight
<1>2. (IF setup THEN "completed" ELSE "incomplete") \in request[w].facts
      /\ (IF swagger THEN "documented" ELSE "hidden") \in request[w].facts
  BY <1>1 DEF Current, FactsOf
<1>3. ASSUME NEW k \in Credential
      PROVE  <<k, WorthNow(w, k)>> \in request[w].worths
  BY <1>1 DEF Current, WorthsOf, WorthNow, Sent
<1> QED  BY <1>1, <1>2, <1>3 DEF Current

\* A credential is worth now what it once was.
LEMMA WitnessedWorth ==
    ASSUME AdmissionInv, NEW w \in Worker, request[w] # None, NEW k \in Credential
    PROVE  /\ IsAdministrator(w, k) => Was(request[w], k, {"administrator"})
           /\ HasSession(w, k) => HadSession(request[w], k)
           /\ ~HasSession(w, k) => WasAnonymous(request[w], k)
<1>1. <<k, WorthNow(w, k)>> \in request[w].worths
  BY Witnessed
<1>2. WorthNow(w, k) \in Worth
  <2>1. request[w] \in Request
    BY InFlight
  <2>2. session[request[w].client][k] \in Worth
    BY <2>1 DEF AdmissionInv, TypeOK, Request
  <2> QED  BY <2>2 DEF WorthNow, WorthIn, Worth
<1> QED  BY <1>1, <1>2 DEF IsAdministrator, HasSession, HadSession, WasAnonymous, Was

LEMMA WitnessedPolicy ==
    ASSUME AdmissionInv, NEW w \in Worker, request[w] # None
    PROVE  IF policy.allowed THEN SiteWas(request[w], TRUE) ELSE SiteWas(request[w], FALSE)
<1>1. policy \in request[w].policies /\ policy.allowed \in BOOLEAN
  BY Witnessed, PolicyAssumption DEF AdmissionInv, TypeOK, AnonymousBrowsingPolicy
<1> QED  BY <1>1 DEF SiteWas

(***************************************************************************)
(* The handlers.                                                           *)
(***************************************************************************)
LEMMA CheckedIsCredential == \A sent : Checked(sent) \in Credential
  BY DEF Checked, Credential

LEMMA FromGateIsFit ==
    ASSUME NEW r \in Request, GateJustified(r)
    PROVE  FromGate(r.path) \in Phase \ {"limit"} /\ Fit(r, FromGate(r.path))
<1>1. r.path \in Api \cup Page
  BY DEF Request
<1>2. FromGate(r.path) = IF r.path \in Page THEN "proxySetup"
                         ELSE IF isDocumentationRequest(r.path) THEN "docs" ELSE "edgeSetup"
  BY DEF FromGate
<1>3. r.path \in Page => ~isDocumentationRequest(r.path) /\ r.path \notin Api
  BY DEF isDocumentationRequest, Page, Api
<1> QED  BY <1>1, <1>2, <1>3
         DEF Fit, PastGate, PastDocumentation, OnEdge, OnProxy, PastProxySetup, Phase

LEMMA GateKeeps ==
    ASSUME AdmissionInv, NEW w \in Worker, GateSetup(w) \/ GateCookie(w) \/ GateBearer(w)
    PROVE  AdmissionInv'
<1>1. LimitTypeOK' /\ UNCHANGED identity /\ request[w] # None
  BY DEF AdmissionInv, TypeOK, GateSetup, GateCookie, GateBearer, Unmoved, limitVars, limit,
         history, LimitTypeOK, At
<1>2. request[w] \in Request
  BY <1>1, InFlight
<1>3. CASE Go(w, "refused") \/ Fails(w, "refused")
  BY <1>1, <1>3, GoKeeps, AnybodyIsRefused
<1>4. ASSUME NEW phase \in {"gateCookie", "gateBearer"}, Go(w, phase) \/ Fails(w, phase)
      PROVE  AdmissionInv'
  <2>1. phase \in Phase \ {"limit"} /\ Fit(request[w], phase)
    BY DEF Fit, PastGate, PastDocumentation, OnEdge, OnProxy, PastProxySetup, Phase
  <2> QED  BY <1>1, <1>4, <2>1, GoKeeps
<1>5. ASSUME GateJustified(request[w]),
             Go(w, FromGate(Asked(w))) \/ Fails(w, FromGate(Asked(w)))
      PROVE  AdmissionInv'
  BY <1>1, <1>2, <1>5, FromGateIsFit, GoKeeps DEF Asked
<1>6. ASSUME NEW k \in Credential, NEW a \in BOOLEAN, a => IsAdministrator(w, k),
             Go(w, GateAllows(w, a)) \/ Fails(w, GateAllows(w, a))
      PROVE  AdmissionInv'
  <2>1. CASE setupPathAllowed(Asked(w), a)
    <3> DEFINE b == \E c \in Credential : Was(request[w], c, {"administrator"})
    <3>1. a => b
      BY <1>1, <1>6, WitnessedWorth
    <3>2. b \in BOOLEAN
      OBVIOUS
    <3>3. "completed" \in request[w].facts \/ setupPathAllowed(request[w].path, b)
            => GateJustified(request[w])
      BY DEF GateJustified, WasAdministrator
    <3> HIDE DEF b
    <3>4. setupPathAllowed(request[w].path, b)
      BY <2>1, <3>1, <3>2, SetupPathMonotonic DEF Asked
    <3> QED  BY <1>5, <1>6, <2>1, <3>3, <3>4 DEF GateAllows
  <2>2. CASE ~setupPathAllowed(Asked(w), a)
    BY <1>3, <1>6, <2>2 DEF GateAllows
  <2> QED  BY <2>1, <2>2
<1>7. CASE GateSetup(w)
  <2>1. setup => GateJustified(request[w])
    BY <1>1, Witnessed DEF GateJustified
  <2> QED  BY <1>3, <1>4, <1>5, <1>7, <2>1 DEF GateSetup
<1>8. CASE GateCookie(w)
  <2>1. "cookie" \in Credential
    BY DEF Credential
  <2> QED  BY <1>3, <1>4, <1>6, <1>8, <2>1 DEF GateCookie
<1>9. CASE GateBearer(w)
  <2>1. "bearer" \in Credential /\ IsAdministrator(w, "bearer") \in BOOLEAN
    BY DEF Credential, IsAdministrator
  <2> QED  BY <1>3, <1>6, <1>9, <2>1 DEF GateBearer
<1> QED  BY <1>7, <1>8, <1>9

\* What the rate-limit route lets through.
LEMMA FromEdgeIsFit ==
    ASSUME NEW r \in Request, NEW phase \in OnEdge \ {"docs"}, Fit(r, phase), ApiJustified(r)
    PROVE  FromEdge(r.path) \in Phase \ {"limit"} /\ Fit(r, FromEdge(r.path))
<1>1. FromEdge(r.path) = IF r.path = "readerApi" THEN "proxySetup" ELSE "served"
  BY DEF FromEdge
<1>2. /\ phase \in PastDocumentation /\ phase \in PastGate
      /\ {"proxySetup", "served"} \subseteq Phase \ {"limit"}
  BY DEF OnEdge, PastDocumentation, PastGate, Phase
<1>3. /\ r.path \in Api /\ GateJustified(r)
      /\ isDocumentationRequest(r.path) => "documented" \in r.facts
  BY <1>2 DEF Fit
<1>4. r.path \notin Page
  BY <1>3 DEF Api, Page
<1>5. SetupJustified(r)
  <2>1. WasAdministrator(r) = \E k \in Credential : Was(r, k, {"administrator"})
    BY <1>4 DEF WasAdministrator
  <2> QED  BY <1>3, <2>1 DEF GateJustified, SetupJustified
<1>6. r.path # "readerApi" => ~requiresBrowsingAdmission(r.path)
  BY <1>4 DEF requiresBrowsingAdmission, Page
<1> QED  BY <1>1, <1>2, <1>3, <1>5, <1>6
         DEF Fit, OnEdge, OnProxy, PastProxySetup

\* A request on the edge stays there.
LEMMA EdgeStageIsFit ==
    ASSUME NEW r, NEW phase \in OnEdge, NEW next \in OnEdge \ {"docs", "limit"},
           Fit(r, phase), phase = "docs" => "documented" \in r.facts
    PROVE  next \in Phase \ {"limit"} /\ Fit(r, next)
<1>1. /\ next \in Phase \ {"limit"} /\ next \notin OnProxy \cup {"served"} \cup PastProxySetup
      /\ phase \in PastGate /\ (phase # "docs" => phase \in PastDocumentation)
  BY DEF OnEdge, OnProxy, Phase, PastGate, PastDocumentation, PastProxySetup
<1> QED  BY <1>1 DEF Fit

LEMMA EdgeKeeps ==
    ASSUME AdmissionInv, NEW w \in Worker,
           EdgeDocumentation(w) \/ EdgeSetup(w) \/ EdgeCredential(w)
    PROVE  AdmissionInv'
<1>1. LimitTypeOK' /\ UNCHANGED identity /\ request[w] # None
  BY DEF AdmissionInv, TypeOK, EdgeDocumentation, EdgeSetup, EdgeCredential, Unmoved,
         limitVars, limit, history, LimitTypeOK, At
<1>2. request[w] \in Request /\ Fit(request[w], request[w].phase)
  BY <1>1, InFlight DEF Established
<1>3. CASE Go(w, "refused") \/ Fails(w, "refused")
  BY <1>1, <1>3, GoKeeps, AnybodyIsRefused
<1>4. CASE At(w, "docs") /\ swagger /\ Go(w, "edgeSetup")
  <2>1. "edgeSetup" \in OnEdge \ {"docs", "limit"} /\ request[w].phase \in OnEdge
        /\ "documented" \in request[w].facts
    BY <1>1, <1>4, Witnessed DEF OnEdge, At
  <2> QED  BY <1>1, <1>2, <1>4, <2>1, EdgeStageIsFit, GoKeeps
<1>5. CASE At(w, "edgeSetup") /\ Go(w, "credential")
  <2>1. "credential" \in OnEdge \ {"docs", "limit"} /\ request[w].phase \in OnEdge
        /\ request[w].phase # "docs"
    BY <1>5 DEF OnEdge, At
  <2> QED  BY <1>1, <1>2, <1>5, <2>1, EdgeStageIsFit, GoKeeps
<1>6. CASE At(w, "credential") /\ (Go(w, "policy") \/ Fails(w, "policy"))
  <2>1. "policy" \in OnEdge \ {"docs", "limit"} /\ request[w].phase \in OnEdge
        /\ request[w].phase # "docs"
    BY <1>6 DEF OnEdge, At
  <2> QED  BY <1>1, <1>2, <1>6, <2>1, EdgeStageIsFit, GoKeeps
<1>7. ASSUME request[w].phase \in OnEdge \ {"docs"}, ApiJustified(request[w]),
             Go(w, FromEdge(Asked(w)))
      PROVE  AdmissionInv'
  BY <1>1, <1>2, <1>7, FromEdgeIsFit, GoKeeps DEF Asked
<1>8. CASE /\ At(w, "edgeSetup") /\ Go(w, FromEdge(Asked(w)))
           /\ \/ ~setup /\ setupPathAllowed(originalUri(Asked(w)), FALSE)
              \/ Asked(w) = "docsPage"
  <2>1. ~setup => "incomplete" \in request[w].facts
    BY <1>1, Witnessed
  <2>2. originalUri("docsPage") = "docsPage"
    BY DEF originalUri
  <2>3. setupPathAllowed(originalUri(request[w].path), FALSE) =>
          \/ originalUri(request[w].path) \in IdentityApi
          \/ setupPathAllowed(request[w].path, FALSE)
    BY DEF originalUri, setupPathAllowed, IdentityApi
  <2>4. ApiJustified(request[w])
    BY <1>8, <2>1, <2>2, <2>3 DEF Asked, ApiJustified
  <2>5. request[w].phase \in OnEdge \ {"docs"}
    BY <1>8 DEF At, OnEdge
  <2> QED  BY <1>7, <1>8, <2>4, <2>5
<1>9. CASE At(w, "credential") /\ HasSession(w, Checked(Sent(w))) /\ Go(w, FromEdge(Asked(w)))
  <2>1. HadSession(request[w], Checked(request[w].sent))
    BY <1>1, <1>9, CheckedIsCredential, WitnessedWorth DEF Sent
  <2>2. request[w].phase \in OnEdge \ {"docs"}
    BY <1>9 DEF At, OnEdge
  <2> QED  BY <1>7, <1>9, <2>1, <2>2 DEF ApiJustified
<1> QED  BY <1>3, <1>4, <1>5, <1>6, <1>8, <1>9
         DEF EdgeDocumentation, EdgeSetup, EdgeCredential

\* The policy that is carried to the quota.
LEMMA PolicyKeeps == ASSUME AdmissionInv, NEW w \in Worker, EdgePolicy(w) PROVE AdmissionInv'
<1>1. /\ LimitTypeOK' /\ UNCHANGED identity /\ request[w] # None
      /\ request[w].phase = "policy"
  BY DEF AdmissionInv, TypeOK, EdgePolicy, Unmoved, limitVars, limit, history, LimitTypeOK, At
<1>2. /\ request[w] \in Request /\ Fit(request[w], "policy") /\ Current(request[w])
  BY <1>1, InFlight DEF Established
<1>3. CASE Fails(w, "refused")
  BY <1>1, <1>3, GoKeeps, AnybodyIsRefused
<1>4. CASE request' = [request EXCEPT ![w].phase = "limit", ![w].policy = policy]
  <2> DEFINE q == [request[w] EXCEPT !.phase = "limit", !.policy = policy]
  <2>1. request' = [request EXCEPT ![w] = q]
    BY <1>4
  <2>2. policy \in Policy /\ policy \in request[w].policies
    BY <1>1, Witnessed DEF AdmissionInv, TypeOK
  <2>3. q \in Opt(Request)
    BY <1>2, <2>2 DEF Request, Opt, Phase
  <2>4. /\ q.phase = "limit" /\ q.policy = policy /\ q.policies = request[w].policies
        /\ q.client = request[w].client /\ q.sent = request[w].sent
        /\ q.facts = request[w].facts /\ q.worths = request[w].worths
        /\ q.path = request[w].path
    BY <1>2 DEF Request
  <2> HIDE DEF q
  <2>5. Current(q)
    BY <1>2, <2>4 DEF Current
  <2>6. Fit(request[w], "limit")
    BY <1>2 DEF Fit, PastGate, PastDocumentation, OnEdge, OnProxy, PastProxySetup, Phase
  <2>7. Established(q)
    BY <2>2, <2>4, <2>6, FitFurther DEF Established, Extends
  <2> QED  BY <1>1, <2>1, <2>3, <2>5, <2>7, RequestMoves
<1> QED  BY <1>3, <1>4 DEF EdgePolicy

\* The policy a request carries was saved by an administrator.
LEMMA CarriedPolicy ==
    ASSUME AdmissionInv, NEW w \in Worker, At(w, "limit")
    PROVE  request[w].policy \in Policy /\ request[w].client \in Client
           /\ request[w].policy \in request[w].policies
  BY InFlight DEF At, Request, Established

LEMMA DecideKeeps == ASSUME AdmissionInv, NEW w \in Worker, EdgeDecide(w) PROVE AdmissionInv'
<1> DEFINE p == request[w].policy
           c == request[w].client
<1>1. At(w, "limit") /\ UNCHANGED identity /\ request[w] # None
  BY DEF EdgeDecide, At
<1>2. p \in Policy /\ c \in Client /\ p \in request[w].policies
  BY <1>1, CarriedPolicy
<1>3. LimitTypeOK'
  <2>1. LimitTypeOK
    BY DEF AdmissionInv, TypeOK
  <2>2. CASE p.allowed
    BY <1>2, <2>1, <2>2, CallType DEF EdgeDecide
  <2>3. CASE ~p.allowed
    BY <2>1, <2>3 DEF EdgeDecide, limitVars, limit, history, LimitTypeOK
  <2> QED  BY <2>2, <2>3
<1>4. request[w] \in Request /\ Fit(request[w], "limit")
  BY <1>1, InFlight DEF At, Established
<1>5. CASE Go(w, "refused")
  BY <1>1, <1>3, <1>5, GoKeeps, AnybodyIsRefused
<1>6. CASE Go(w, FromEdge(Asked(w))) /\ (p.allowed \/ originalUri(Asked(w)) \in IdentityApi)
  <2>1. p.allowed => SiteWas(request[w], TRUE)
    <3>1. p.allowed \in BOOLEAN
      BY <1>2, PolicyAssumption DEF AnonymousBrowsingPolicy
    <3> QED  BY <1>2, <3>1 DEF SiteWas
  <2>2. ApiJustified(request[w])
    BY <1>6, <2>1 DEF ApiJustified, Asked
  <2>3. "limit" \in OnEdge \ {"docs"}
    BY DEF OnEdge
  <2> QED  BY <1>1, <1>3, <1>4, <1>6, <2>2, <2>3, FromEdgeIsFit, GoKeeps DEF Asked
<1>7. \/ Go(w, "refused")
      \/ Go(w, FromEdge(Asked(w))) /\ (p.allowed \/ originalUri(Asked(w)) \in IdentityApi)
  <2>1. CASE p.allowed
    BY <2>1 DEF EdgeDecide
  <2>2. CASE ~p.allowed
    BY <2>2 DEF EdgeDecide
  <2> QED  BY <2>1, <2>2
<1> QED  BY <1>5, <1>6, <1>7

LEMMA ProxyKeeps ==
    ASSUME AdmissionInv, NEW w \in Worker,
           ProxySetup(w) \/ ProxyAdministrator(w) \/ ProxyBrowsing(w) \/ ProxySession(w)
    PROVE  AdmissionInv'
<1>1. LimitTypeOK' /\ UNCHANGED identity /\ request[w] # None
  BY DEF AdmissionInv, TypeOK, ProxySetup, ProxyAdministrator, ProxyBrowsing, ProxySession,
         Unmoved, limitVars, limit, history, LimitTypeOK, At
<1> DEFINE r == request[w]
<1>2. r \in Request /\ r.phase \in OnProxy /\ Fit(r, r.phase)
  BY <1>1, InFlight
     DEF ProxySetup, ProxyAdministrator, ProxyBrowsing, ProxySession, At, OnProxy, Established
<1>3. /\ r.path \in Page \cup {"readerApi"} /\ GateJustified(r)
      /\ r.path \in Api => ApiJustified(r)
      /\ ~isDocumentationRequest(r.path)
  <2>1. r.phase \in PastGate
    BY <1>2 DEF OnProxy, PastGate, Phase
  <2>2. r.path \in Page \cup {"readerApi"}
    BY <1>2 DEF Fit
  <2>3. ~isDocumentationRequest(r.path)
    BY <2>2 DEF isDocumentationRequest, Page
  <2> QED  BY <1>2, <2>1, <2>2, <2>3 DEF Fit
<1>4. CASE Go(w, "refused") \/ Fails(w, "refused")
  BY <1>1, <1>4, GoKeeps, AnybodyIsRefused
<1>5. CASE Go(w, "proxyAdministrator")
  <2>1. "proxyAdministrator" \in Phase \ {"limit"} /\ Fit(r, "proxyAdministrator")
    BY <1>3 DEF Fit, PastGate, PastDocumentation, OnEdge, OnProxy, PastProxySetup, Phase
  <2> QED  BY <1>1, <1>5, <2>1, GoKeeps
<1>6. ASSUME SetupJustified(r), NEW phase \in {"browsing", "proxySession"},
             Go(w, phase) \/ Fails(w, phase)
      PROVE  AdmissionInv'
  <2>1. phase \in Phase \ {"limit"} /\ Fit(r, phase)
    BY <1>3, <1>6 DEF Fit, PastGate, PastDocumentation, OnEdge, OnProxy, PastProxySetup, Phase
  <2> QED  BY <1>1, <1>6, <2>1, GoKeeps
<1>7. ASSUME SetupJustified(r), requiresBrowsingAdmission(r.path) => BrowsingJustified(r),
             Go(w, "served")
      PROVE  AdmissionInv'
  <2>1. "served" \in Phase \ {"limit"} /\ Fit(r, "served")
    BY <1>3, <1>7 DEF Fit, OnEdge, OnProxy, Phase
  <2> QED  BY <1>1, <1>7, <2>1, GoKeeps
<1>8. CASE ProxySetup(w)
  <2>1. setup => SetupJustified(r)
    BY <1>1, Witnessed DEF SetupJustified
  <2> QED  BY <1>4, <1>5, <1>6, <1>8, <2>1 DEF ProxySetup
<1>9. CASE ProxyAdministrator(w)
  <2>1. ASSUME NEW a \in BOOLEAN, a => IsAdministrator(w, "cookie"), setupPathAllowed(Asked(w), a)
        PROVE  SetupJustified(r)
    <3>1. "cookie" \in Credential
      BY DEF Credential
    <3>2. a => Was(r, "cookie", {"administrator"})
      BY <1>1, <2>1, <3>1, WitnessedWorth
    <3>3. a => WasAdministrator(r)
      BY <3>1, <3>2 DEF WasAdministrator
    <3>4. WasAdministrator(r) \in BOOLEAN
      BY DEF WasAdministrator
    <3>5. setupPathAllowed(r.path, WasAdministrator(r))
      BY <2>1, <3>3, <3>4, SetupPathMonotonic DEF Asked
    <3> QED  BY <3>5 DEF SetupJustified
  <2>2. IsAdministrator(w, "cookie") \in BOOLEAN
    BY DEF IsAdministrator
  <2>3. \/ Go(w, "refused") \/ Fails(w, "refused")
        \/ setupPathAllowed(Asked(w), IsAdministrator(w, "cookie")) /\ Go(w, "browsing")
        \/ setupPathAllowed(Asked(w), FALSE) /\ Fails(w, "browsing")
    BY <1>9 DEF ProxyAdministrator
  <2> QED  BY <1>4, <1>6, <2>1, <2>2, <2>3
<1>10. CASE ProxyBrowsing(w)
  <2>1. SetupJustified(r)
    BY <1>2, <1>10 DEF ProxyBrowsing, At, Fit, PastProxySetup
  <2>2. policy.allowed => BrowsingJustified(r)
    BY <1>1, WitnessedPolicy DEF BrowsingJustified
  <2> QED  BY <1>6, <1>7, <1>10, <2>1, <2>2 DEF ProxyBrowsing, Asked
<1>11. CASE ProxySession(w)
  <2>1. SetupJustified(r)
    BY <1>2, <1>11 DEF ProxySession, At, Fit, PastProxySetup
  <2>2. HasSession(w, "cookie") => BrowsingJustified(r)
    BY <1>1, WitnessedWorth DEF BrowsingJustified, Credential
  <2> QED  BY <1>4, <1>7, <1>11, <2>1, <2>2 DEF ProxySession
<1> QED  BY <1>8, <1>9, <1>10, <1>11

LEMMA ArriveKeeps == ASSUME AdmissionInv, NEW w \in Worker, Arrive(w) PROVE AdmissionInv'
<1>1. LimitTypeOK' /\ UNCHANGED identity
  BY DEF AdmissionInv, TypeOK, Arrive, Unmoved, limitVars, limit, history, LimitTypeOK
<1>2. PICK c \in Client, path \in Api \cup Page, sent \in SUBSET Credential :
        request' = [request EXCEPT ![w] =
          [client |-> c, path |-> path, sent |-> sent, phase |-> "gate", policy |-> None,
           facts |-> FactsOf(setup, swagger), worths |-> WorthsOf(sent, session[c]),
           policies |-> {policy}]]
  BY DEF Arrive
<1> DEFINE q == [client |-> c, path |-> path, sent |-> sent, phase |-> "gate", policy |-> None,
                 facts |-> FactsOf(setup, swagger), worths |-> WorthsOf(sent, session[c]),
                 policies |-> {policy}]
<1>3. policy \in Policy /\ FactsOf(setup, swagger) \subseteq Fact
  BY DEF AdmissionInv, TypeOK, FactsOf, Fact
<1>4. WorthsOf(sent, session[c]) \subseteq Credential \X Worth
  <2>1. session[c] \in [Credential -> Worth]
    BY DEF AdmissionInv, TypeOK
  <2>2. \A k \in Credential : WorthIn(sent, session[c], k) \in Worth
    BY <2>1 DEF WorthIn, Worth
  <2> QED  BY <2>2 DEF WorthsOf
<1>5. q \in Opt(Request)
  BY <1>3, <1>4 DEF Request, Opt, Phase
<1>6. Current(q)
  BY DEF Current
<1>7. Established(q)
  BY DEF Established, Fit, PastGate, PastDocumentation, OnEdge, OnProxy, PastProxySetup
<1>8. request' = [request EXCEPT ![w] = q]
  BY <1>2
<1> HIDE DEF q
<1> QED  BY <1>1, <1>5, <1>6, <1>7, <1>8, RequestMoves

LEMMA LeaveKeeps == ASSUME AdmissionInv, NEW w \in Worker, Leave(w) PROVE AdmissionInv'
<1>1. LimitTypeOK' /\ UNCHANGED identity
  BY DEF AdmissionInv, TypeOK, Leave, Unmoved, limitVars, limit, history, LimitTypeOK
<1>2. None \in Opt(Request) /\ request' = [request EXCEPT ![w] = None]
  BY DEF Leave, Opt
<1> QED  BY <1>1, <1>2, RequestMoves

(***************************************************************************)
(* Identity-service, and the surroundings.                                 *)
(***************************************************************************)
Grown(r, facts, worths, p) ==
    [r EXCEPT !.facts = @ \cup facts, !.worths = @ \cup worths, !.policies = @ \cup {p}]

LEMMA GrownType ==
    ASSUME NEW r \in Request, NEW facts \in SUBSET Fact,
           NEW worths \in SUBSET (Credential \X Worth), NEW p \in Policy
    PROVE  /\ Grown(r, facts, worths, p) \in Request
           /\ Grown(r, facts, worths, p).client = r.client
           /\ Grown(r, facts, worths, p).phase = r.phase
           /\ Grown(r, facts, worths, p).sent = r.sent
           /\ Grown(r, facts, worths, p).policy = r.policy
           /\ Grown(r, facts, worths, p).facts = r.facts \cup facts
           /\ Grown(r, facts, worths, p).worths = r.worths \cup worths
           /\ Grown(r, facts, worths, p).policies = r.policies \cup {p}
           /\ Extends(Grown(r, facts, worths, p), r)
<1>1. /\ r.facts \cup facts \in SUBSET Fact /\ r.policies \cup {p} \in SUBSET Policy
      /\ r.worths \cup worths \in SUBSET (Credential \X Worth)
  BY DEF Request
<1> QED  BY <1>1 DEF Grown, Request, Extends

\* Every request in flight, and what it is told.
NewWorths(r) == WorthsOf(r.sent, session'[r.client])
Told(r) == Grown(r, FactsOf(setup', swagger'), NewWorths(r), policy')

LEMMA ToldType ==
    ASSUME setup' \in BOOLEAN, swagger' \in BOOLEAN, policy' \in Policy,
           session' \in [Client -> [Credential -> Worth]], NEW r \in Request
    PROVE  /\ FactsOf(setup', swagger') \in SUBSET Fact
           /\ NewWorths(r) \in SUBSET (Credential \X Worth)
<1>1. session'[r.client] \in [Credential -> Worth]
  BY DEF Request
<1>2. \A k \in Credential : WorthIn(r.sent, session'[r.client], k) \in Worth
  BY <1>1 DEF WorthIn, Worth
<1> QED  BY <1>2 DEF WorthsOf, NewWorths, FactsOf, Fact

LEMMA WitnessKeeps ==
    ASSUME AdmissionInv, UNCHANGED limitVars, setup' \in BOOLEAN, swagger' \in BOOLEAN,
           policy' \in Policy, session' \in [Client -> [Credential -> Worth]], Witness
    PROVE  AdmissionInv'
<1>1. LimitTypeOK'
  BY DEF AdmissionInv, TypeOK, limitVars, limit, history, LimitTypeOK
<1>2. request' = [w \in Worker |-> IF request[w] = None THEN None ELSE Told(request[w])]
  BY DEF Witness, Told, Grown, NewWorths
<1>3. ASSUME NEW w \in Worker, request[w] # None
      PROVE  /\ Told(request[w]) \in Request
             /\ Told(request[w]).client = request[w].client
             /\ Told(request[w]).phase = request[w].phase
             /\ Told(request[w]).sent = request[w].sent
             /\ Told(request[w]).policy = request[w].policy
             /\ FactsOf(setup', swagger') \subseteq Told(request[w]).facts
             /\ NewWorths(request[w]) \subseteq Told(request[w]).worths
             /\ policy' \in Told(request[w]).policies
             /\ Extends(Told(request[w]), request[w])
  <2>1. request[w] \in Request
    BY <1>3, InFlight
  <2> DEFINE f == FactsOf(setup', swagger')
             v == NewWorths(request[w])
  <2>2. f \in SUBSET Fact /\ v \in SUBSET (Credential \X Worth)
    BY <2>1, ToldType
  <2>3. Told(request[w]) = Grown(request[w], f, v, policy')
    BY DEF Told
  <2> HIDE DEF f, v
  <2>4. /\ Grown(request[w], f, v, policy') \in Request
        /\ Grown(request[w], f, v, policy').client = request[w].client
        /\ Grown(request[w], f, v, policy').phase = request[w].phase
        /\ Grown(request[w], f, v, policy').sent = request[w].sent
        /\ Grown(request[w], f, v, policy').policy = request[w].policy
        /\ Grown(request[w], f, v, policy').facts = request[w].facts \cup f
        /\ Grown(request[w], f, v, policy').worths = request[w].worths \cup v
        /\ Grown(request[w], f, v, policy').policies = request[w].policies \cup {policy'}
        /\ Extends(Grown(request[w], f, v, policy'), request[w])
    BY <2>1, <2>2, GrownType
  <2>5. /\ f \subseteq Told(request[w]).facts
        /\ v \subseteq Told(request[w]).worths
        /\ policy' \in Told(request[w]).policies
    BY <2>3, <2>4
  <2> QED  BY <2>3, <2>4, <2>5 DEF f, v
<1>4. ASSUME NEW w \in Worker, request[w] # None
      PROVE  Established(Told(request[w]))
  <2>1. Established(request[w])
    BY <1>4, InFlight
  <2>2. Fit(Told(request[w]), request[w].phase)
    BY <1>3, <1>4, <2>1, FitFurther DEF Established
  <2>3. request[w].policies \subseteq Told(request[w]).policies
    BY <1>3, <1>4 DEF Extends
  <2> QED  BY <1>3, <1>4, <2>1, <2>2, <2>3 DEF Established
<1>5. request' \in [Worker -> Opt(Request)]
  BY <1>2, <1>3 DEF Opt
<1>6. TypeOK'
  BY <1>1, <1>5 DEF TypeOK
<1>7. ASSUME NEW w \in Worker, request'[w] # None
      PROVE  (Current(request[w]) /\ Established(request[w]))'
  <2>1. request[w] # None /\ request'[w] = Told(request[w])
    BY <1>2, <1>7
  <2>2. Current(request[w])'
    BY <1>3, <2>1 DEF Current, NewWorths
  <2>3. Established(request'[w])
    BY <1>4, <2>1
  <2>4. Established(request[w])'
    BY <2>3 DEF Established, Fit, GateJustified, SetupJustified, ApiJustified,
                BrowsingJustified, Was, SiteWas, HadSession, WasAdministrator
  <2> QED  BY <2>2, <2>4
<1> QED  BY <1>6, <1>7 DEF AdmissionInv

LEMMA IdentityKeeps ==
    ASSUME AdmissionInv,
           \/ CompleteSetup \/ SavePolicy \/ SwitchDocumentation
           \/ \E c \in Client : ChangeSession(c)
    PROVE  AdmissionInv'
<1>1. /\ setup \in BOOLEAN /\ swagger \in BOOLEAN /\ policy \in Policy
      /\ session \in [Client -> [Credential -> Worth]]
  BY DEF AdmissionInv, TypeOK
<1>2. CASE CompleteSetup
  BY <1>1, <1>2, WitnessKeeps DEF CompleteSetup
<1>3. CASE SavePolicy
  BY <1>1, <1>3, WitnessKeeps DEF SavePolicy
<1>4. CASE SwitchDocumentation
  BY <1>1, <1>4, WitnessKeeps DEF SwitchDocumentation
<1>5. ASSUME NEW c \in Client, ChangeSession(c)
      PROVE  AdmissionInv'
  <2>1. PICK k \in Credential, worth \in Worth : session' = [session EXCEPT ![c][k] = worth]
    BY <1>5 DEF ChangeSession
  <2>2. [session[c] EXCEPT ![k] = worth] \in [Credential -> Worth]
    BY <1>1
  <2>3. session' \in [Client -> [Credential -> Worth]]
    BY <1>1, <2>1, <2>2
  <2> QED  BY <1>1, <1>5, <2>3, WitnessKeeps DEF ChangeSession
<1> QED  BY <1>2, <1>3, <1>4, <1>5

LEMMA SurroundingsKeep ==
    ASSUME AdmissionInv, LimitTypeOK', UNCHANGED <<identity, request>>
    PROVE  AdmissionInv'
  BY DEF AdmissionInv, TypeOK, identity, Current, Established, Fit, GateJustified,
         SetupJustified, ApiJustified, BrowsingJustified, Was, SiteWas, HadSession,
         WasAdministrator

\* The type invariant of the quota needs nothing but itself.
LEMMA SurroundingsType == ASSUME LimitTypeOK, Surroundings PROVE LimitTypeOK'
<1>1. CASE Tick
  BY <1>1 DEF LimitTypeOK, Tick, limit
<1>2. CASE SetBack
  BY <1>2 DEF LimitTypeOK, SetBack, limit, history
<1>3. CASE Restart
  <2>1. <<>> \in Seq(Client)
    OBVIOUS
  <2> QED  BY <1>3, <2>1 DEF LimitTypeOK, Restart, Fresh, Opt
<1>4. CASE Observe
  BY <1>4 DEF LimitTypeOK, Observe, limit
<1> QED  BY <1>1, <1>2, <1>3, <1>4 DEF Surroundings

LEMMA AdmissionInit == Init => AdmissionInv
<1> SUFFICES ASSUME Init PROVE AdmissionInv
  OBVIOUS
<1>1. LimitTypeOK
  BY InitEstablishes DEF Init, IInv
<1> QED  BY <1>1 DEF Init, AdmissionInv, TypeOK, Opt

LEMMA AdmissionNext == AdmissionInv /\ [Next]_vars => AdmissionInv'
<1> SUFFICES ASSUME AdmissionInv, [Next]_vars PROVE AdmissionInv'
  OBVIOUS
<1>1. ASSUME NEW w \in Worker, Handle(w)
      PROVE  AdmissionInv'
  BY <1>1, ArriveKeeps, LeaveKeeps, GateKeeps, EdgeKeeps, PolicyKeeps, DecideKeeps, ProxyKeeps
     DEF Handle
<1>2. CASE \/ CompleteSetup \/ SavePolicy \/ SwitchDocumentation
           \/ \E c \in Client : ChangeSession(c)
  BY <1>2, IdentityKeeps
<1>3. CASE Surroundings /\ UNCHANGED <<identity, request>>
  BY <1>3, SurroundingsType, SurroundingsKeep DEF AdmissionInv, TypeOK
<1>4. CASE UNCHANGED vars
  BY <1>4, SurroundingsKeep
     DEF AdmissionInv, TypeOK, vars, limitVars, limit, history, LimitTypeOK
<1> QED  BY <1>1, <1>2, <1>3, <1>4 DEF Next

(***************************************************************************)
(* Refusals.  The invariant above says what a request was let through for; *)
(* this one says what was held against it.                                 *)
(***************************************************************************)
Excused(r) == "failure" \in r.facts \/ "incomplete" \in r.facts

\* What is held against a request in a phase from which it may be refused.
Held(r, phase) ==
    /\ phase = "docs" => isDocumentationRequest(r.path)
    /\ phase \in {"gateCookie", "gateBearer", "proxyAdministrator"} => "incomplete" \in r.facts
    /\ phase = "credential" /\ r.path = "docsPage" => Excused(r)
    /\ phase \in {"policy", "limit"} =>
         Excused(r) \/ (WasAnonymous(r, Checked(r.sent)) /\ r.path # "docsPage")
    /\ phase = "proxySession" =>
         requiresBrowsingAdmission(r.path) /\ (Excused(r) \/ SiteWas(r, FALSE))
    /\ phase = "refused" =>
         \/ Excused(r)
         \/ isDocumentationRequest(r.path) /\ "hidden" \in r.facts
         \/ /\ r.path \in Api \ {"docsPage"}
            /\ WasAnonymous(r, Checked(r.sent))
            /\ originalUri(r.path) \in IdentityApi => SiteWas(r, TRUE)
         \/ /\ requiresBrowsingAdmission(r.path)
            /\ WasAnonymous(r, "cookie") /\ SiteWas(r, FALSE)

BlameInv == \A w \in Worker : request[w] # None => Held(request[w], request[w].phase)

LEMMA HeldFurther ==
    ASSUME NEW q, NEW r, Extends(q, r), NEW phase, Held(r, phase)
    PROVE  Held(q, phase)
<1>1. q.path = r.path /\ q.sent = r.sent /\ r.facts \subseteq q.facts
  BY DEF Extends
<1>2. /\ WasAnonymous(r, "cookie") => WasAnonymous(q, "cookie")
      /\ WasAnonymous(r, Checked(r.sent)) => WasAnonymous(q, Checked(q.sent))
      /\ SiteWas(r, TRUE) => SiteWas(q, TRUE)
      /\ SiteWas(r, FALSE) => SiteWas(q, FALSE)
  BY <1>1, WitnessedFurther DEF WasAnonymous
<1>3. Excused(r) => Excused(q)
  BY <1>1 DEF Excused
<1> QED  BY <1>1, <1>2, <1>3 DEF Held

LEMMA BlameMoves ==
    ASSUME AdmissionInv, BlameInv, NEW w \in Worker, NEW q,
           request' = [request EXCEPT ![w] = q], q # None => Held(q, q.phase)
    PROVE  BlameInv'
<1>1. ASSUME NEW v \in Worker, request'[v] # None
      PROVE  Held(request'[v], request'[v].phase)
  <2>1. request \in [Worker -> Opt(Request)]
    BY DEF AdmissionInv, TypeOK
  <2> QED  BY <1>1, <2>1 DEF BlameInv
<1> QED  BY <1>1 DEF BlameInv, Held, Excused, WasAnonymous, Was, SiteWas

LEMMA BlameGoes ==
    ASSUME AdmissionInv, BlameInv, NEW w \in Worker, request[w] # None, NEW phase,
           Go(w, phase) \/ Fails(w, phase), Held(request[w], phase)
    PROVE  BlameInv'
<1>1. request[w] \in Request
  BY InFlight
<1>2. Held(Moved(w, phase), phase) /\ Held(Failed(w, phase), phase)
  BY <1>1, MovedFields, HeldFurther
<1>3. Moved(w, phase).phase = phase /\ Failed(w, phase).phase = phase
  BY <1>1, MovedFields
<1>4. \/ request' = [request EXCEPT ![w] = Moved(w, phase)]
      \/ request' = [request EXCEPT ![w] = Failed(w, phase)]
  BY DEF Go, Fails, Moved, Failed
<1> QED  BY <1>2, <1>3, <1>4, BlameMoves

\* A failed question is a cause of its own.
LEMMA BlameFails ==
    ASSUME AdmissionInv, BlameInv, NEW w \in Worker, request[w] # None,
           NEW phase \in {"refused", "policy", "proxySession"}, Fails(w, phase),
           phase = "proxySession" => requiresBrowsingAdmission(request[w].path)
    PROVE  BlameInv'
<1>1. request[w] \in Request
  BY InFlight
<1>2. /\ Failed(w, phase).phase = phase /\ Excused(Failed(w, phase))
      /\ Failed(w, phase).path = request[w].path
  BY <1>1, MovedFields DEF Excused, Extends
<1>3. Held(Failed(w, phase), phase)
  BY <1>2 DEF Held
<1>4. request' = [request EXCEPT ![w] = Failed(w, phase)]
  BY DEF Fails, Failed
<1> QED  BY <1>2, <1>3, <1>4, BlameMoves

\* Nothing is held against who goes on.
LEMMA NothingHeld ==
    ASSUME NEW r, NEW phase \in {"gate", "edgeSetup", "proxySetup", "browsing", "served"}
    PROVE  Held(r, phase)
  BY DEF Held

LEMMA OnwardIsUnblamed ==
    ASSUME NEW r
    PROVE  Held(r, FromGate(r.path)) /\ Held(r, FromEdge(r.path))
<1>1. \/ FromGate(r.path) \in {"edgeSetup", "proxySetup"}
      \/ FromGate(r.path) = "docs" /\ isDocumentationRequest(r.path)
  BY DEF FromGate
<1>2. FromEdge(r.path) \in {"proxySetup", "served"}
  BY DEF FromEdge
<1>3. isDocumentationRequest(r.path) => Held(r, "docs")
  BY DEF Held
<1> QED  BY <1>1, <1>2, <1>3, NothingHeld

LEMMA BlamedAtTheGate ==
    ASSUME AdmissionInv, BlameInv, NEW w \in Worker,
           GateSetup(w) \/ GateCookie(w) \/ GateBearer(w)
    PROVE  BlameInv'
<1>1. request[w] # None /\ Held(request[w], request[w].phase)
  BY DEF GateSetup, GateCookie, GateBearer, At, BlameInv
<1>2. CASE Fails(w, "refused")
  BY <1>1, <1>2, BlameFails
<1>3. CASE Go(w, FromGate(Asked(w))) \/ Fails(w, FromGate(Asked(w)))
  BY <1>1, <1>3, OnwardIsUnblamed, BlameGoes DEF Asked
<1>4. CASE ~setup /\ Go(w, "gateCookie")
  <2>1. Held(request[w], "gateCookie")
    BY <1>1, <1>4, Witnessed DEF Held
  <2> QED  BY <1>1, <1>4, <2>1, BlameGoes
<1>5. CASE At(w, "gateCookie") /\ (Go(w, "gateBearer") \/ Fails(w, "gateBearer"))
  <2>1. Held(request[w], "gateBearer")
    BY <1>1, <1>5 DEF At, Held
  <2> QED  BY <1>1, <1>5, <2>1, BlameGoes
<1>6. CASE (At(w, "gateCookie") \/ At(w, "gateBearer")) /\ Go(w, "refused")
  <2>1. Held(request[w], "refused")
    BY <1>1, <1>6 DEF At, Held, Excused
  <2> QED  BY <1>1, <1>6, <2>1, BlameGoes
<1>7. CASE GateSetup(w)
  BY <1>2, <1>3, <1>4, <1>7 DEF GateSetup
<1>8. CASE GateCookie(w)
  BY <1>2, <1>3, <1>5, <1>6, <1>8 DEF GateCookie, GateAllows
<1>9. CASE GateBearer(w)
  BY <1>2, <1>3, <1>6, <1>9 DEF GateBearer, GateAllows
<1> QED  BY <1>7, <1>8, <1>9

LEMMA BlamedOnTheEdge ==
    ASSUME AdmissionInv, BlameInv, NEW w \in Worker,
           EdgeDocumentation(w) \/ EdgeSetup(w) \/ EdgeCredential(w)
    PROVE  BlameInv'
<1>1. request[w] # None /\ Held(request[w], request[w].phase)
  BY DEF EdgeDocumentation, EdgeSetup, EdgeCredential, At, BlameInv
<1>2. CASE Fails(w, "refused") \/ Fails(w, "policy")
  BY <1>1, <1>2, BlameFails
<1>3. CASE Go(w, FromEdge(Asked(w)))
  BY <1>1, <1>3, OnwardIsUnblamed, BlameGoes DEF Asked
<1>4. CASE Go(w, "edgeSetup")
  BY <1>1, <1>4, NothingHeld, BlameGoes
<1>5. CASE At(w, "docs") /\ ~swagger /\ Go(w, "refused")
  <2>1. Held(request[w], "refused")
    BY <1>1, <1>5, Witnessed DEF At, Held
  <2> QED  BY <1>1, <1>5, <2>1, BlameGoes
<1>6. CASE At(w, "edgeSetup") /\ (setup => Asked(w) # "docsPage") /\ Go(w, "credential")
  <2>1. Held(request[w], "credential")
    BY <1>1, <1>6, Witnessed DEF Asked, Excused, Held
  <2> QED  BY <1>1, <1>6, <2>1, BlameGoes
<1>7. CASE At(w, "credential") /\ ~HasSession(w, Checked(Sent(w))) /\ Go(w, "policy")
  <2>1. WasAnonymous(request[w], Checked(request[w].sent))
    BY <1>1, <1>7, CheckedIsCredential, WitnessedWorth DEF Sent
  <2>2. Held(request[w], "policy")
    BY <1>1, <1>7, <2>1 DEF At, Held
  <2> QED  BY <1>1, <1>7, <2>2, BlameGoes
<1> QED  BY <1>2, <1>3, <1>4, <1>5, <1>6, <1>7
         DEF EdgeDocumentation, EdgeSetup, EdgeCredential

LEMMA BlamedByThePolicy ==
    ASSUME AdmissionInv, BlameInv, NEW w \in Worker, EdgePolicy(w) \/ EdgeDecide(w)
    PROVE  BlameInv'
<1>1. /\ request[w] # None /\ request[w] \in Request /\ Held(request[w], request[w].phase)
      /\ request[w].phase \in {"policy", "limit"} /\ request[w].path \in Api
  BY InFlight DEF EdgePolicy, EdgeDecide, At, BlameInv, Established, Fit, OnEdge
<1>2. \/ Excused(request[w])
      \/ WasAnonymous(request[w], Checked(request[w].sent)) /\ request[w].path # "docsPage"
  BY <1>1 DEF Held
<1>3. CASE Fails(w, "refused")
  BY <1>1, <1>3, BlameFails
<1>4. CASE request' = [request EXCEPT ![w].phase = "limit", ![w].policy = policy]
  <2> DEFINE q == [request[w] EXCEPT !.phase = "limit", !.policy = policy]
  <2>1. request' = [request EXCEPT ![w] = q]
    BY <1>4
  <2>2. q.phase = "limit" /\ Extends(q, request[w])
    BY <1>1 DEF Request, Extends
  <2> HIDE DEF q
  <2>3. Held(request[w], "limit")
    BY <1>2 DEF Held
  <2> QED  BY <2>1, <2>2, <2>3, HeldFurther, BlameMoves
<1>5. CASE Go(w, FromEdge(Asked(w)))
  BY <1>1, <1>5, OnwardIsUnblamed, BlameGoes DEF Asked
<1>6. CASE /\ EdgeDecide(w) /\ Go(w, "refused")
           /\ ~request[w].policy.allowed => originalUri(Asked(w)) \notin IdentityApi
  <2>1. /\ request[w].policy \in request[w].policies
        /\ request[w].policy.allowed \in BOOLEAN
    BY <1>6, CarriedPolicy, PolicyAssumption DEF EdgeDecide, AnonymousBrowsingPolicy
  <2>2. originalUri(request[w].path) \in IdentityApi => SiteWas(request[w], TRUE)
    BY <1>6, <2>1 DEF SiteWas, Asked
  <2>3. Held(request[w], "refused")
    BY <1>1, <1>2, <2>2 DEF Held
  <2> QED  BY <1>1, <1>6, <2>3, BlameGoes
<1>7. CASE EdgeDecide(w)
  <2>1. \/ Go(w, FromEdge(Asked(w)))
        \/ /\ Go(w, "refused")
           /\ ~request[w].policy.allowed => originalUri(Asked(w)) \notin IdentityApi
    BY <1>7 DEF EdgeDecide
  <2> QED  BY <1>5, <1>6, <1>7, <2>1
<1> QED  BY <1>3, <1>4, <1>7 DEF EdgePolicy

LEMMA BlamedByTheProxy ==
    ASSUME AdmissionInv, BlameInv, NEW w \in Worker,
           ProxySetup(w) \/ ProxyAdministrator(w) \/ ProxyBrowsing(w) \/ ProxySession(w)
    PROVE  BlameInv'
<1>1. request[w] # None /\ Held(request[w], request[w].phase)
  BY DEF ProxySetup, ProxyAdministrator, ProxyBrowsing, ProxySession, At, BlameInv
<1>2. CASE Fails(w, "refused")
  BY <1>1, <1>2, BlameFails
<1>3. ASSUME NEW phase \in {"browsing", "served"}, Go(w, phase) \/ Fails(w, phase)
      PROVE  BlameInv'
  BY <1>1, <1>3, NothingHeld, BlameGoes
<1>4. CASE ~setup /\ Go(w, "proxyAdministrator")
  <2>1. Held(request[w], "proxyAdministrator")
    BY <1>1, <1>4, Witnessed DEF Held
  <2> QED  BY <1>1, <1>4, <2>1, BlameGoes
<1>5. CASE At(w, "proxyAdministrator") /\ Go(w, "refused")
  <2>1. Held(request[w], "refused")
    BY <1>1, <1>5 DEF At, Held, Excused
  <2> QED  BY <1>1, <1>5, <2>1, BlameGoes
<1>6. CASE requiresBrowsingAdmission(Asked(w)) /\ ~policy.allowed /\ Go(w, "proxySession")
  <2>1. SiteWas(request[w], FALSE)
    BY <1>1, <1>6, WitnessedPolicy
  <2>2. Held(request[w], "proxySession")
    BY <1>6, <2>1 DEF Held, Asked
  <2> QED  BY <1>1, <1>6, <2>2, BlameGoes
<1>7. CASE requiresBrowsingAdmission(Asked(w)) /\ Fails(w, "proxySession")
  BY <1>1, <1>7, BlameFails DEF Asked
<1>8. CASE At(w, "proxySession") /\ ~HasSession(w, "cookie") /\ Go(w, "refused")
  <2>1. WasAnonymous(request[w], "cookie")
    BY <1>1, <1>8, WitnessedWorth DEF Credential
  <2>2. Held(request[w], "refused")
    BY <1>1, <1>8, <2>1 DEF At, Held
  <2> QED  BY <1>1, <1>8, <2>2, BlameGoes
<1>9. CASE ProxySetup(w)
  BY <1>2, <1>3, <1>4, <1>9 DEF ProxySetup
<1>10. CASE ProxyAdministrator(w)
  BY <1>2, <1>3, <1>5, <1>10 DEF ProxyAdministrator
<1>11. CASE ProxyBrowsing(w)
  BY <1>3, <1>6, <1>7, <1>11 DEF ProxyBrowsing
<1>12. CASE ProxySession(w)
  BY <1>2, <1>3, <1>8, <1>12 DEF ProxySession
<1> QED  BY <1>9, <1>10, <1>11, <1>12

\* What was held against a request stays so, whatever else it witnesses.
LEMMA BlameStays ==
    ASSUME AdmissionInv, BlameInv, Witness
    PROVE  BlameInv'
<1> SUFFICES ASSUME NEW w \in Worker, request'[w] # None
             PROVE  Held(request'[w], request'[w].phase)
  BY DEF BlameInv, Held, Excused, WasAnonymous, Was, SiteWas
<1>1. request[w] # None /\ request'[w] = Told(request[w])
  BY DEF Witness, Told, Grown, NewWorths
<1>2. request[w] \in Request /\ Held(request[w], request[w].phase)
  BY <1>1, InFlight DEF BlameInv
<1>3. Told(request[w]).phase = request[w].phase /\ Extends(Told(request[w]), request[w])
  BY <1>2 DEF Request, Told, Grown, Extends
<1>4. Held(Told(request[w]), request[w].phase)
  BY <1>2, <1>3, HeldFurther
<1> QED  BY <1>1, <1>3, <1>4

LEMMA BlameNext == AdmissionInv /\ BlameInv /\ [Next]_vars => BlameInv'
<1> SUFFICES ASSUME AdmissionInv, BlameInv, [Next]_vars PROVE BlameInv'
  OBVIOUS
<1>1. ASSUME NEW w \in Worker, Arrive(w) \/ Leave(w)
      PROVE  BlameInv'
  <2>1. PICK q : /\ request' = [request EXCEPT ![w] = q]
                 /\ q # None => q.phase = "gate"
    BY <1>1 DEF Arrive, Leave
  <2> QED  BY <2>1, NothingHeld, BlameMoves
<1>2. ASSUME NEW w \in Worker, Handle(w)
      PROVE  BlameInv'
  BY <1>1, <1>2, BlamedAtTheGate, BlamedOnTheEdge, BlamedByThePolicy, BlamedByTheProxy
     DEF Handle
<1>3. CASE \/ CompleteSetup \/ SavePolicy \/ SwitchDocumentation
           \/ \E c \in Client : ChangeSession(c)
  BY <1>3, BlameStays DEF CompleteSetup, SavePolicy, SwitchDocumentation, ChangeSession
<1>4. CASE UNCHANGED request
  BY <1>4 DEF BlameInv, Held, Excused, WasAnonymous, Was, SiteWas
<1> QED  BY <1>2, <1>3, <1>4 DEF Next, vars

(***************************************************************************)
(* The theorems.                                                           *)
(***************************************************************************)
\* Of every request in flight: it was shown what is true now, and everything it relies on in
\* its phase was true at some moment since it arrived.
THEOREM AdmissionInvariant == Spec => []AdmissionInv
<1> QED  BY AdmissionInit, AdmissionNext, PTL DEF Spec

\* Type correctness.
THEOREM AdmissionTypeCorrect == Spec => []TypeOK
<1>1. AdmissionInv => TypeOK
  BY DEF AdmissionInv
<1> QED  BY <1>1, AdmissionInvariant, PTL

\* What the setup gate, the rate-limit route and the proxy let through together was, by
\* every rule, allowed at some moment of the request, by the credential each rule looks at.
THEOREM ServiceIsJustified == Spec => []ServedIsJustified
<1>1. AdmissionInv => ServedIsJustified
  <2> SUFFICES ASSUME AdmissionInv, NEW r \in InPhase("served")
               PROVE  /\ "completed" \in r.facts \/ setupPathAllowed(r.path, WasAdministrator(r))
                      /\ isDocumentationRequest(r.path) => "documented" \in r.facts
                      /\ r.path \in Api =>
                           \/ SiteWas(r, TRUE) \/ HadSession(r, Checked(r.sent))
                           \/ originalUri(r.path) \in IdentityApi \cup {"docsPage"}
                           \/ "incomplete" \in r.facts /\ setupPathAllowed(r.path, FALSE)
                      /\ requiresBrowsingAdmission(r.path) =>
                           SiteWas(r, TRUE) \/ HadSession(r, "cookie")
    BY DEF ServedIsJustified
  <2>1. Fit(r, "served")
    BY InFlight DEF InPhase, At, Established
  <2>2. "served" \in PastDocumentation /\ "served" \in PastProxySetup
    BY DEF PastGate, PastDocumentation, PastProxySetup, Phase
  <2> QED  BY <2>1, <2>2 DEF Fit, SetupJustified, ApiJustified, BrowsingJustified
<1> QED  BY <1>1, AdmissionInvariant, PTL

\* Nobody is turned away without a cause: whatever the handlers ask, and however the
\* answers change between them, a refusal follows a failed question, an unfinished setup,
\* hidden documentation, or a moment at which the credential that handler reads was worth
\* nothing; and a call to identity-service only the quota of an open site.
THEOREM RefusalIsJustified == Spec => []RefusedIsJustified
<1>1. Init => BlameInv
  BY DEF Init, BlameInv
<1>2. BlameInv => RefusedIsJustified
  <2> SUFFICES ASSUME BlameInv, NEW r \in InPhase("refused")
               PROVE  \/ "failure" \in r.facts
                      \/ "incomplete" \in r.facts
                      \/ isDocumentationRequest(r.path) /\ "hidden" \in r.facts
                      \/ /\ r.path \in Api \ {"docsPage"}
                         /\ WasAnonymous(r, Checked(r.sent))
                         /\ originalUri(r.path) \in IdentityApi => SiteWas(r, TRUE)
                      \/ /\ requiresBrowsingAdmission(r.path)
                         /\ WasAnonymous(r, "cookie") /\ SiteWas(r, FALSE)
    BY DEF RefusedIsJustified
  <2>1. Held(r, "refused")
    BY DEF InPhase, At, BlameInv
  <2> QED  BY <2>1 DEF Held, Excused
<1> QED  BY <1>1, <1>2, BlameNext, AdmissionInvariant, PTL DEF Spec

\* The requests use the quota as AnonymousLimit assumes: EdgeDecide asks it only under a
\* policy an administrator saved that allows anonymous browsing.
THEOREM AdmissionKeepsQuota == Spec => LimitSpec
<1>1. Init => LimitInit
  BY DEF Init
<1>2. AdmissionInv /\ [Next]_vars => [LimitNext]_limitVars
  <2> SUFFICES ASSUME AdmissionInv, [Next]_vars PROVE [LimitNext]_limitVars
    OBVIOUS
  <2>1. ASSUME NEW w \in Worker, Handle(w)
        PROVE  [LimitNext]_limitVars
    <3>1. CASE EdgeDecide(w)
      <4> DEFINE p == request[w].policy
                 c == request[w].client
      <4>1. p \in Policy /\ c \in Client
        BY <3>1, CarriedPolicy DEF EdgeDecide
      <4>2. CASE p.allowed
        BY <3>1, <4>1, <4>2 DEF EdgeDecide, LimitNext
      <4>3. CASE ~p.allowed
        BY <3>1, <4>3 DEF EdgeDecide
      <4> QED  BY <4>2, <4>3
    <3>2. CASE ~EdgeDecide(w)
      BY <2>1, <3>2 DEF Handle, Arrive, Leave, GateSetup, GateCookie, GateBearer,
         EdgeDocumentation, EdgeSetup, EdgeCredential, EdgePolicy, ProxySetup,
         ProxyAdministrator, ProxyBrowsing, ProxySession, Unmoved
    <3> QED  BY <3>1, <3>2
  <2>2. CASE \/ CompleteSetup \/ SavePolicy \/ SwitchDocumentation
             \/ \E c \in Client : ChangeSession(c)
    BY <2>2 DEF CompleteSetup, SavePolicy, SwitchDocumentation, ChangeSession
  <2>3. CASE Surroundings
    BY <2>3 DEF LimitNext
  <2>4. CASE UNCHANGED vars
    BY <2>4 DEF vars
  <2> QED  BY <2>1, <2>2, <2>3, <2>4 DEF Next
<1> QED  BY <1>1, <1>2, AdmissionInvariant, PTL DEF Spec, LimitSpec

\* So what holds of the quota alone holds of the requests that are served here: the budgets
\* of all visitors together and of each, the announced wait, and the bound on the buckets.
THEOREM AdmissionWithinBudget ==
    Spec => [](TotalWithinBudget /\ ClientWithinBudget /\ RetryIsEnough /\ MemoryIsBounded)
<1> QED  BY AdmissionKeepsQuota, TotalBudgetHolds, ClientBudgetHolds, RetrySuffices,
            MemoryStaysBounded, PTL
=============================================================================
