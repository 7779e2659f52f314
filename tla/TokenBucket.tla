---------------------------- MODULE TokenBucket ----------------------------
(***************************************************************************)
(* The rate limiter in front of an odds feed                                *)
(* (internal/odds/sportradar/ratelimiter.go): a bucket of tokens behind a   *)
(* mutex. Callers of Wait try to take a token and poll until they get one   *)
(* or their context is cancelled; a try is one step, timers may fire late.  *)
(***************************************************************************)
EXTENDS Integers, Sequences, FiniteSets

CONSTANTS
    Callers,
    MaxTokens,  \* RateLimit of the configuration
    Interval,   \* a minute, in units of time
    Horizon     \* bound: the last instant

ASSUME TokenBucketAssumption ==
    MaxTokens \in Nat \ {0} /\ Interval \in Nat \ {0} /\ Horizon \in Nat

VARIABLES
    now,
    tokens, lastRefill,
    at,     \* at[c]: "idle", "called" before the first try of Wait, "polling" after a refused one
    wake,   \* wake[c]: when the timer of a polling caller fires
    grants  \* the instants at which tokens were taken, in order

bucket == <<tokens, lastRefill>>
vars   == <<now, bucket, at, wake, grants>>

Poll == Interval \div MaxTokens

Init ==
    /\ now = 0
    /\ tokens = MaxTokens /\ lastRefill = 0
    /\ at = [c \in Callers |-> "idle"]
    /\ wake = [c \in Callers |-> 0]
    /\ grants = <<>>

-----------------------------------------------------------------------------

Tick ==
    /\ now < Horizon
    /\ now' = now + 1
    /\ UNCHANGED <<bucket, at, wake, grants>>

Wait(c) ==
    /\ at[c] = "idle"
    /\ at' = [at EXCEPT ![c] = "called"]
    /\ UNCHANGED <<now, bucket, wake, grants>>

ToAdd == (now - lastRefill) \div Interval

Smaller(a, b) == IF a <= b THEN a ELSE b

\* Mutation: there is no limit to the tokens that collect.
Uncapped == tokens + ToAdd

Refilled == IF ToAdd > 0 THEN Smaller(MaxTokens, tokens + ToAdd) ELSE tokens

\* Mutation: the instant of the refill is not noted.
KeptInstant == lastRefill

\* Mutation: every try starts the interval again.
EveryTry == now

\* The part of an interval that has passed as well is forgotten.
RefillInstant == IF ToAdd > 0 THEN now ELSE lastRefill

\* tryConsume, under the mutex, and what Wait does with its answer.
Try(c) ==
    /\ \/ at[c] = "called"
       \/ at[c] = "polling" /\ wake[c] <= now
    /\ lastRefill' = RefillInstant
    /\ IF Refilled > 0
       THEN /\ tokens' = Refilled - 1
            /\ grants' = Append(grants, now)
            /\ at' = [at EXCEPT ![c] = "idle"]
            /\ UNCHANGED wake
       ELSE /\ tokens' = Refilled
            /\ at' = [at EXCEPT ![c] = "polling"]
            /\ wake' = [wake EXCEPT ![c] = now + Poll]
            /\ UNCHANGED grants
    /\ UNCHANGED now

\* ctx.Done() while the timer runs.
Cancel(c) ==
    /\ at[c] = "polling"
    /\ at' = [at EXCEPT ![c] = "idle"]
    /\ UNCHANGED <<now, bucket, wake, grants>>

Next == Tick \/ \E c \in Callers : Wait(c) \/ Try(c) \/ Cancel(c)

Spec == Init /\ [][Next]_vars

-----------------------------------------------------------------------------
(* Properties *)

TypeOK ==
    /\ now \in Nat
    /\ tokens \in 0 .. MaxTokens
    /\ lastRefill \in 0 .. now
    /\ at \in [Callers -> {"idle", "called", "polling"}]
    /\ wake \in [Callers -> Nat]
    /\ grants \in Seq(Nat)

\* However many callers there are, n requests after each other take more than
\* n - MaxTokens - 1 intervals, so no stretch of one interval has more than MaxTokens + 1
\* of them (tryConsume).
RateIsBounded ==
    \A i, j \in DOMAIN grants :
        i <= j => Interval * (j - i - MaxTokens) < grants[j] - grants[i]

RefusedAt(c) == wake[c] - Poll

\* The tokens taken in the interval that ends at t.
GrantsBefore(t) == {i \in DOMAIN grants : t - Interval < grants[i] /\ grants[i] <= t}

\* A caller is refused only if a token was taken in the interval before: the callers that
\* poll, however many, do not hold up the refill of an empty bucket (tryConsume).
RefusedAfterAGrant ==
    \A c \in Callers : at[c] = "polling" => GrantsBefore(RefusedAt(c)) # {}

\* sportradar/types.go gives the limit as requests per minute: a caller is refused only
\* if that many were granted in the interval before.
RefusedAtFullRate ==
    \A c \in Callers : at[c] = "polling" => Cardinality(GrantsBefore(RefusedAt(c))) >= MaxTokens

-----------------------------------------------------------------------------
(* The inductive invariant behind them *)

\* From each grant on: the tokens taken since and those left are what was there at most,
\* and one more for each interval up to the last refill.
SinceGrant(i) ==
    Interval * (Len(grants) - i + tokens - MaxTokens) < lastRefill - grants[i]

BucketInv ==
    /\ TypeOK
    /\ \A i \in DOMAIN grants : SinceGrant(i) /\ grants[i] <= now
    /\ tokens = 0 => grants # <<>> /\ lastRefill <= grants[Len(grants)]
    /\ RateIsBounded
    /\ RefusedAfterAGrant

=============================================================================
