-------------------------- MODULE TokenBucketProofs --------------------------
(***************************************************************************)
(* Proofs about TokenBucket for any number of callers, any capacity and any *)
(* interval. The induction is on BucketInv: SinceGrant relates the grants   *)
(* made since any earlier one to the tokens left and to the last refill,    *)
(* which is what RateIsBounded follows from at the next grant.              *)
(***************************************************************************)
EXTENDS TokenBucket, TLAPS

(***************************************************************************)
(* Arithmetic                                                              *)
(***************************************************************************)

\* Whole intervals in a time.
LEMMA Quotient ==
    ASSUME NEW e \in Nat, NEW m \in Nat \ {0}
    PROVE  /\ e \div m \in Nat
           /\ m * (e \div m) <= e
           /\ e < m * (e \div m) + m
OBVIOUS

\* An interval is positive, so products with it keep the order.
LEMMA Monotone ==
    ASSUME NEW m \in Nat, NEW a \in Int, NEW b \in Int, a <= b
    PROVE  m * a <= m * b
<1>1. m * (b - a) >= 0
  OBVIOUS
<1>2. m * (b - a) = m * b - m * a
  OBVIOUS
<1> QED BY <1>1, <1>2

LEMMA Distribute ==
    ASSUME NEW m \in Int, NEW a \in Int, NEW b \in Int
    PROVE  m * (a + b) = m * a + m * b
OBVIOUS

(***************************************************************************)
(* The refill                                                              *)
(***************************************************************************)

\* A refill adds a token per whole interval at most, and after it less than an interval
\* has passed since the last one.
LEMMA RefillEffect ==
    ASSUME TypeOK
    PROVE  /\ Refilled \in 0 .. MaxTokens /\ tokens <= Refilled
           /\ RefillInstant \in lastRefill .. now
           /\ now - RefillInstant < Interval
           /\ Interval * (Refilled - tokens) <= RefillInstant - lastRefill
           /\ Refilled = 0 => tokens = 0 /\ RefillInstant = lastRefill
<1> USE TokenBucketAssumption
<1> DEFINE e == now - lastRefill
<1>1. e \in Nat /\ tokens \in 0 .. MaxTokens /\ MaxTokens \in Nat /\ now \in Nat /\ lastRefill \in 0 .. now
  BY DEF TypeOK
<1>2. ToAdd \in Nat /\ Interval * ToAdd <= e /\ e < Interval * ToAdd + Interval
  BY <1>1, Quotient DEF ToAdd
<1>3. CASE ToAdd > 0
  <2>1. RefillInstant = now /\ Refilled \in 0 .. MaxTokens /\ tokens <= Refilled /\ Refilled > 0
        /\ Refilled - tokens <= ToAdd
    BY <1>1, <1>2, <1>3 DEF RefillInstant, Refilled, Smaller
  <2>2. Interval * (Refilled - tokens) <= Interval * ToAdd
    BY <1>1, <1>2, <2>1, Monotone
  <2>3. Interval * (Refilled - tokens) \in Int /\ Interval * ToAdd \in Int
    BY <1>1, <1>2, <2>1
  <2>4. Interval * (Refilled - tokens) <= now - lastRefill
    BY <1>1, <1>2, <2>2, <2>3
  <2> HIDE DEF e
  <2> QED BY <1>1, <2>1, <2>4
<1>4. CASE ~(ToAdd > 0)
  <2>1. ToAdd = 0
    BY <1>2, <1>4
  <2>2. Interval * ToAdd = 0
    BY <2>1
  <2>3. e < Interval
    BY <1>1, <1>2, <2>2
  <2>4. RefillInstant = lastRefill /\ Refilled = tokens
    BY <1>4 DEF RefillInstant, Refilled
  <2>5. Interval * (Refilled - tokens) = 0
    BY <1>1, <2>4
  <2> QED BY <1>1, <2>3, <2>4, <2>5
<1> QED BY <1>3, <1>4

\* The time between two tries of a polling caller.
LEMMA PollIsNat == Poll \in Nat
BY TokenBucketAssumption DEF Poll

(***************************************************************************)
(* The invariant                                                           *)
(***************************************************************************)

\* The bucket starts full and nothing has been granted.
LEMMA InitInv == Init => BucketInv
BY TokenBucketAssumption DEF Init, BucketInv, TypeOK, RateIsBounded, RefusedAfterAGrant

\* Time, new calls and cancellations leave the bucket and the grants alone.
LEMMA CallerStep ==
    ASSUME BucketInv, Tick \/ \E c \in Callers : Wait(c) \/ Cancel(c)
    PROVE  BucketInv'
<1> USE TokenBucketAssumption DEF bucket
<1>1. UNCHANGED <<tokens, lastRefill, grants, wake>> /\ now' \in Nat /\ now <= now'
  BY DEF Tick, Wait, Cancel, BucketInv, TypeOK
<1>2. TypeOK'
  BY <1>1, SMTT(30) DEF Tick, Wait, Cancel, BucketInv, TypeOK
<1>3. \A d \in Callers : at'[d] = "polling" => at[d] = "polling"
  BY DEF Tick, Wait, Cancel, BucketInv, TypeOK
<1>4. \A i \in DOMAIN grants : grants[i] \in Nat
  BY DEF BucketInv, TypeOK
<1>5. (\A i \in DOMAIN grants : SinceGrant(i) /\ grants[i] <= now)'
  BY <1>1, <1>4 DEF BucketInv, SinceGrant, TypeOK
<1>6. RateIsBounded'
  BY <1>1 DEF BucketInv, RateIsBounded
<1>7. RefusedAfterAGrant'
  BY <1>1, <1>3 DEF BucketInv, RefusedAfterAGrant, GrantsBefore, RefusedAt
<1>8. (tokens = 0 => grants # <<>> /\ lastRefill <= grants[Len(grants)])'
  BY <1>1 DEF BucketInv
<1> QED BY <1>2, <1>5, <1>6, <1>7, <1>8 DEF BucketInv

\* A try that gets a token.
LEMMA GrantStep ==
    ASSUME BucketInv, NEW c \in Callers, Try(c), Refilled > 0
    PROVE  BucketInv'
<1> USE TokenBucketAssumption
<1> DEFINE n == Len(grants)
<1>1. /\ grants \in Seq(Nat) /\ now \in Nat /\ now' = now /\ tokens \in 0 .. MaxTokens
      /\ lastRefill \in 0 .. now
  BY DEF BucketInv, TypeOK, Try
<1>2. /\ Refilled \in 1 .. MaxTokens /\ RefillInstant \in lastRefill .. now
      /\ now - RefillInstant < Interval
      /\ Interval * (Refilled - tokens) <= RefillInstant - lastRefill
  BY RefillEffect, <1>1 DEF BucketInv
<1>3. /\ tokens' = Refilled - 1 /\ lastRefill' = RefillInstant /\ grants' = Append(grants, now)
      /\ at' = [at EXCEPT ![c] = "idle"] /\ UNCHANGED wake
  BY DEF Try
<1>4. /\ n \in Nat /\ DOMAIN grants = 1 .. n /\ Len(grants') = n + 1 /\ DOMAIN grants' = 1 .. n + 1
      /\ grants' \in Seq(Nat)
      /\ \A i \in 1 .. n : grants'[i] = grants[i] /\ grants[i] \in Nat
      /\ grants'[n + 1] = now
  BY <1>1, <1>3
<1> HIDE DEF n
<1>5. TypeOK'
  BY <1>1, <1>2, <1>3, <1>4 DEF BucketInv, TypeOK
<1>6. ASSUME NEW i \in 1 .. n + 1 PROVE SinceGrant(i)' /\ grants'[i] <= now
  <2>1. SinceGrant(i)' <=> Interval * (n + 1 - i + (Refilled - 1) - MaxTokens) < RefillInstant - grants'[i]
    BY <1>3, <1>4 DEF SinceGrant
  <2>2. CASE i = n + 1
    <3> DEFINE left == n + 1 - i + (Refilled - 1) - MaxTokens
    <3>1. left \in Int /\ left <= -1
      BY <1>2, <1>4, <2>2
    <3>2. grants'[i] = now
      BY <1>4, <2>2
    <3> HIDE DEF left
    <3>3. Interval * left <= Interval * (-1) /\ Interval * left \in Int
      BY <3>1, Monotone
    <3>4. Interval * (-1) = -Interval
      OBVIOUS
    <3>5. Interval * left < RefillInstant - now
      BY <1>1, <1>2, <3>3, <3>4
    <3> QED BY <1>1, <2>1, <3>2, <3>5 DEF left
  <2>3. CASE i \in 1 .. n
    <3> DEFINE before == n - i + tokens - MaxTokens
               added  == Refilled - tokens
    <3>1. Interval * before < lastRefill - grants[i] /\ grants[i] <= now
      BY <1>4, <2>3 DEF BucketInv, SinceGrant, n
    <3>2. before \in Int /\ added \in Int
      BY <1>1, <1>2, <1>4
    <3>3. n + 1 - i + (Refilled - 1) - MaxTokens = before + added
      BY <1>1, <1>2, <1>4
    <3>4. Interval * added <= RefillInstant - lastRefill
      BY <1>2
    <3>5. grants'[i] = grants[i] /\ grants[i] \in Nat
      BY <1>4, <2>3
    <3> HIDE DEF before, added
    <3>6. Interval * (before + added) = Interval * before + Interval * added
      BY <3>2, Distribute
    <3>7. Interval * before \in Int /\ Interval * added \in Int
      BY <3>2
    <3>8. Interval * before + Interval * added < RefillInstant - grants[i]
      BY <1>1, <1>2, <3>1, <3>4, <3>5, <3>7, SMTT(30)
    <3> QED BY <2>1, <3>1, <3>3, <3>5, <3>6, <3>8
  <2> QED BY <2>2, <2>3, <1>4
<1>7. RateIsBounded'
  <2> SUFFICES ASSUME NEW i \in 1 .. n + 1, NEW j \in 1 .. n + 1, i <= j
               PROVE  Interval * (j - i - MaxTokens) < grants'[j] - grants'[i]
    BY <1>4 DEF RateIsBounded
  <2>1. CASE j \in 1 .. n
    <3>1. i \in 1 .. n /\ grants'[i] = grants[i] /\ grants'[j] = grants[j]
      BY <1>4, <2>1
    <3>2. Interval * (j - i - MaxTokens) < grants[j] - grants[i]
      BY <1>4, <2>1, <3>1 DEF BucketInv, RateIsBounded
    <3> QED BY <3>1, <3>2
  <2>2. CASE j = n + 1
    <3> DEFINE left == n + 1 - i + (Refilled - 1) - MaxTokens
               more == j - i - MaxTokens
    <3>0. SinceGrant(i)'
      BY <1>6
    <3>1. Interval * left < RefillInstant - grants'[i]
      BY <1>3, <1>4, <3>0 DEF SinceGrant
    <3>2. left \in Int /\ more \in Int /\ more <= left
      BY <1>2, <1>4, <2>2
    <3>3. grants'[j] = now /\ grants'[i] \in Nat
      BY <1>1, <1>4, <2>2
    <3> HIDE DEF left, more
    <3>4. Interval * more <= Interval * left
      BY <3>2, Monotone
    <3>5. Interval * more \in Int /\ Interval * left \in Int
      BY <3>2
    <3>6. Interval * more < now - grants'[i]
      BY <1>1, <1>2, <3>1, <3>3, <3>4, <3>5
    <3> QED BY <3>3, <3>6 DEF more
  <2> QED BY <2>1, <2>2, <1>4
<1>8. RefusedAfterAGrant'
  <2> SUFFICES ASSUME NEW d \in Callers, at'[d] = "polling"
               PROVE  GrantsBefore(RefusedAt(d))' # {}
    BY DEF RefusedAfterAGrant
  <2>1. at[d] = "polling"
    BY <1>3 DEF BucketInv, TypeOK
  <2>2. PICK i \in GrantsBefore(RefusedAt(d)) : TRUE
    BY <2>1 DEF BucketInv, RefusedAfterAGrant
  <2>3. i \in GrantsBefore(RefusedAt(d))'
    BY <1>3, <1>4, <2>2 DEF GrantsBefore, RefusedAt, Poll
  <2> QED BY <2>3
<1>9. (tokens = 0 => grants # <<>> /\ lastRefill <= grants[Len(grants)])'
  BY <1>2, <1>3, <1>4
<1> QED BY <1>1, <1>4, <1>5, <1>6, <1>7, <1>8, <1>9 DEF BucketInv

\* A try that is refused: nothing was due, and the last token went after the last refill.
LEMMA RefusalStep ==
    ASSUME BucketInv, NEW c \in Callers, Try(c), ~(Refilled > 0)
    PROVE  BucketInv'
<1> USE TokenBucketAssumption
<1>1. /\ grants \in Seq(Nat) /\ now \in Nat /\ now' = now /\ lastRefill \in 0 .. now
  BY DEF BucketInv, TypeOK, Try
<1>2. Refilled = 0 /\ tokens = 0 /\ RefillInstant = lastRefill /\ now - lastRefill < Interval
  BY RefillEffect DEF BucketInv
<1>3. /\ tokens' = tokens /\ lastRefill' = lastRefill /\ grants' = grants
      /\ at' = [at EXCEPT ![c] = "polling"] /\ wake' = [wake EXCEPT ![c] = now + Poll]
  BY <1>2 DEF Try
<1>4. TypeOK'
  BY <1>1, <1>3, PollIsNat DEF BucketInv, TypeOK
<1>5. (\A i \in DOMAIN grants : SinceGrant(i) /\ grants[i] <= now)'
  BY <1>1, <1>3 DEF BucketInv, SinceGrant
<1>6. RateIsBounded' /\ (tokens = 0 => grants # <<>> /\ lastRefill <= grants[Len(grants)])'
  BY <1>3 DEF BucketInv, RateIsBounded
<1>7. RefusedAfterAGrant'
  <2> SUFFICES ASSUME NEW d \in Callers, at'[d] = "polling"
               PROVE  GrantsBefore(RefusedAt(d))' # {}
    BY DEF RefusedAfterAGrant
  <2>1. CASE d = c
    <3>1. Len(grants) \in DOMAIN grants /\ lastRefill <= grants[Len(grants)] /\ grants[Len(grants)] <= now
          /\ grants[Len(grants)] \in Nat
      BY <1>1, <1>2 DEF BucketInv
    <3>2. RefusedAt(d)' = now
      BY <1>1, <1>3, <2>1, PollIsNat DEF RefusedAt, BucketInv, TypeOK, Poll
    <3>3. Len(grants) \in GrantsBefore(RefusedAt(d))'
      BY <1>1, <1>2, <1>3, <3>1, <3>2 DEF GrantsBefore
    <3> QED BY <3>3
  <2>2. CASE d # c
    <3>1. at[d] = "polling" /\ wake'[d] = wake[d]
      BY <1>3, <2>2 DEF BucketInv, TypeOK
    <3> QED BY <1>3, <3>1 DEF BucketInv, RefusedAfterAGrant, GrantsBefore, RefusedAt, Poll
  <2> QED BY <2>1, <2>2
<1> QED BY <1>4, <1>5, <1>6, <1>7 DEF BucketInv

\* Every step keeps the invariant.
LEMMA StepInv == BucketInv /\ [Next]_vars => BucketInv'
<1> SUFFICES ASSUME BucketInv, [Next]_vars PROVE BucketInv'
  OBVIOUS
<1>1. CASE Tick
  BY <1>1, CallerStep
<1>2. ASSUME NEW c \in Callers, Wait(c) \/ Try(c) \/ Cancel(c) PROVE BucketInv'
  BY <1>2, CallerStep, GrantStep, RefusalStep
<1>3. CASE UNCHANGED vars
  BY <1>3 DEF vars, bucket, BucketInv, TypeOK, SinceGrant, RateIsBounded, RefusedAfterAGrant,
              GrantsBefore, RefusedAt
<1> QED BY <1>1, <1>2, <1>3 DEF Next

\* The grants, the tokens left and the last refill stay in proportion in every reachable state.
THEOREM BucketInvariant == Spec => []BucketInv
BY InitInv, StepInv, PTL DEF Spec

\* The variables keep their types, and the bucket never holds more than its capacity.
THEOREM TypeCorrect == Spec => []TypeOK
<1>1. BucketInv => TypeOK
  BY DEF BucketInv
<1> QED BY <1>1, BucketInvariant, PTL

\* However many callers take tokens, no interval sees more than a full bucket and one.
THEOREM RateBounded == Spec => []RateIsBounded
<1>1. BucketInv => RateIsBounded
  BY DEF BucketInv
<1> QED BY <1>1, BucketInvariant, PTL

\* Nobody is refused by a bucket that has been idle for an interval.
THEOREM RefusalsFollowGrants == Spec => []RefusedAfterAGrant
<1>1. BucketInv => RefusedAfterAGrant
  BY DEF BucketInv
<1> QED BY <1>1, BucketInvariant, PTL

=============================================================================
