----------------------------- MODULE Compliance -----------------------------
(***************************************************************************)
(* The check of a bet against the rules of the Kenyan regulator             *)
(* (internal/compliance/bclb/service.go, helpers.go), for one user: the     *)
(* stakes of the day, the week and the month, verification, self-exclusion  *)
(* and cooling off, each a query of its own, and each query may fail. The   *)
(* caller places the bet after a check that found nothing.                  *)
(*                                                                         *)
(* The repositories are interfaces that nothing here implements: a stake    *)
(* query returns what was staked since the instant it is given. Time is in  *)
(* slots, a day has SlotsPerDay of them.                                   *)
(***************************************************************************)
EXTENDS Integers, Sequences, FiniteSets, FiniteSetsExt, Sums

CONSTANTS
    Calls,         \* calls of ValidateBetPlacement and GetUserComplianceStatus
    Amounts,       \* stakes
    MaxBetPerEvent, MaxDailyStake, MaxWeeklyStake, MaxMonthlyStake,
    SlotsPerDay,
    Offset,        \* local time is that many slots ahead of UTC
    FirstWeekday,  \* weekday of the local day 0, 0 is Sunday
    MonthStarts,   \* the slots in which a local month starts
    Horizon        \* bound: the last slot

ASSUME ComplianceAssumption ==
    /\ Amounts \subseteq Nat \ {0} /\ SlotsPerDay \in Nat \ {0} /\ Offset \in Nat
    /\ FirstWeekday \in 0 .. 6 /\ Horizon \in Nat /\ MonthStarts \subseteq Nat /\ 0 \in MonthStarts
    /\ {MaxBetPerEvent, MaxDailyStake, MaxWeeklyStake, MaxMonthlyStake} \subseteq Nat

VARIABLES
    now,
    bets,       \* the bets in the order they were placed, each [time, amount, by]
    exclusion,  \* the user's self-exclusion: whether it is active, and its end
    at,         \* at[c]: the next statement of call c
    read,       \* read[c]: the end of the active exclusion that call c has read
    amount,     \* amount[c]: the stake it checks
    clean,      \* clean[c]: no violation so far
    errors,     \* errors[c]: the stake and exclusion queries that failed, while c is clean
    met,        \* pairs of calls one of which was placing a bet while the other checked
    barred,     \* calls that found the user excluded all the while
    renewed     \* calls that had read the exclusion when it was renewed or extended

calls == <<at, read, amount, clean, errors>>
past  == <<met, barred, renewed>>
vars  == <<now, bets, exclusion, calls, past>>

Checks  == {"daily", "weekly", "monthly", "verification", "exclusion", "compare", "expire",
            "coolingOff"}
NoExclusion == [active |-> FALSE, end |-> 0]

Running == Checks \cup {"passed"}

Init ==
    /\ now = 0
    /\ bets = <<>>
    /\ exclusion \in [active : {TRUE}, end : 0 .. Horizon] \cup {NoExclusion}
    /\ at = [c \in Calls |-> "new"]
    /\ read = [c \in Calls |-> 0]
    /\ amount = [c \in Calls |-> 0]
    /\ clean = [c \in Calls |-> TRUE]
    /\ errors = [c \in Calls |-> {}]
    /\ met = {} /\ barred = {} /\ renewed = {}

-----------------------------------------------------------------------------
(* The calendar *)

\* time.Now().Truncate(24 * time.Hour): midnight UTC.
Today(t) == (t \div SlotsPerDay) * SlotsPerDay

LocalDay(t) == (t + Offset) \div SlotsPerDay

Weekday(t) == ((LocalDay(t) + FirstWeekday) % 7)

\* now.AddDate(0, 0, -weekday): the same time of day on Sunday.
WeekStart(t) == t - Weekday(t) * SlotsPerDay

\* The first of the month, at midnight.
MonthStart(t) == Max({s \in MonthStarts : s <= t})

StakedSince(placed, from) ==
    Total([i \in DOMAIN placed |-> placed[i].amount], {i \in DOMAIN placed : placed[i].time >= from})

-----------------------------------------------------------------------------
(* The user *)

Expired(e) == now > e.end

\* The exclusion is set, or extended, where the records are kept: SetSelfExclusion
\* publishes an event only.
Exclude ==
    /\ \E end \in now + 1 .. Horizon :
          /\ ~exclusion.active \/ Expired(exclusion) \/ end > exclusion.end
          /\ exclusion' = [active |-> TRUE, end |-> end]
    /\ renewed' = renewed \cup {c \in Calls : at[c] \in {"compare", "expire"}}
    /\ UNCHANGED <<now, bets, calls, met, barred>>

Tick ==
    /\ now < Horizon
    /\ now' = now + 1
    /\ barred' = IF now + 1 > exclusion.end THEN {} ELSE barred
    /\ UNCHANGED <<bets, exclusion, calls, met, renewed>>

-----------------------------------------------------------------------------
(* The check *)

\* The answer of one query of call c, or its failure, which counts as onError.
Query(c, label, violation, onError, next) ==
    /\ at[c] = label
    /\ at' = [at EXCEPT ![c] = next]
    /\ \E failed \in BOOLEAN :
          LET fine == clean[c] /\ ~(IF failed THEN onError ELSE violation)
          IN  /\ clean' = [clean EXCEPT ![c] = fine]
              /\ errors' = [errors EXCEPT ![c] = IF ~fine THEN {}
                                                 ELSE IF failed THEN @ \cup {label} ELSE @]
    /\ UNCHANGED <<now, bets, exclusion, read, amount, past>>

Barred == exclusion.active /\ ~Expired(exclusion)

\* getUserLimits has the same limits for all, and the size of the bet is checked first,
\* then the number of selections of an accumulator.
ValidateBetPlacement(c) ==
    /\ at[c] = "new"
    /\ \E a \in Amounts, tooManySelections \in BOOLEAN :
          /\ amount' = [amount EXCEPT ![c] = a]
          /\ clean' = [clean EXCEPT ![c] = a <= MaxBetPerEvent /\ ~tooManySelections]
    /\ at' = [at EXCEPT ![c] = "daily"]
    /\ barred' = IF Barred THEN barred \cup {c} ELSE barred
    /\ met' = met \cup {{c, d} : d \in {d \in Calls : at[d] \in Running /\ amount[d] # 0}}
    /\ UNCHANGED <<now, bets, exclusion, read, errors, renewed>>

\* Age, KYC and the exclusion, and then the stakes, of which it only reports: it enters
\* here where it asks for the exclusion, which is all it may change.
GetUserComplianceStatus(c) ==
    /\ at[c] = "new"
    /\ at' = [at EXCEPT ![c] = "exclusion"]
    /\ clean' = [clean EXCEPT ![c] = FALSE]
    /\ UNCHANGED <<now, bets, exclusion, read, amount, errors, past>>

\* Mutation: only the stakes so far are compared with the limit.
ExceededAlready(c, from, limit) == StakedSince(bets, from) > limit

WouldExceed(c, from, limit) == StakedSince(bets, from) + amount[c] > limit

\* A stake that cannot be read is zero.
CheckDaily(c)   == Query(c, "daily", WouldExceed(c, Today(now), MaxDailyStake),
                         amount[c] > MaxDailyStake, "weekly")
CheckWeekly(c)  == Query(c, "weekly", WouldExceed(c, WeekStart(now), MaxWeeklyStake),
                         amount[c] > MaxWeeklyStake, "monthly")
CheckMonthly(c) == Query(c, "monthly", WouldExceed(c, MonthStart(now), MaxMonthlyStake),
                         amount[c] > MaxMonthlyStake, "verification")

\* isKYCCompliant and isAgeVerified: what cannot be read is not verified.
CheckVerification(c) ==
    \E verified \in BOOLEAN : Query(c, "verification", ~verified, TRUE, "exclusion")

\* Mutation: an exclusion has expired in its last slot.
EndReached(end) == now >= end

EndPassed(end) == now > end

\* GetUserComplianceStatus, which checks no stake, is done with the exclusion.
AfterExclusion(c) == IF amount[c] = 0 THEN "blocked" ELSE "coolingOff"

\* isSelfExcluded asks for the exclusion: one that cannot be read, or is not active, is
\* none, and the end of any other is kept.
ReadExclusion(c) ==
    /\ at[c] = "exclusion"
    /\ \/ /\ exclusion.active
          /\ at' = [at EXCEPT ![c] = "compare"]
          /\ read' = [read EXCEPT ![c] = exclusion.end]
          /\ UNCHANGED errors
       \/ /\ at' = [at EXCEPT ![c] = AfterExclusion(c)]
          /\ \/ ~exclusion.active /\ UNCHANGED errors
             \/ errors' = [errors EXCEPT ![c] = IF clean[c] THEN @ \cup {"exclusion"} ELSE @]
          /\ UNCHANGED read
    /\ UNCHANGED <<now, bets, exclusion, amount, clean, past>>

\* What it has read is compared with the clock: an exclusion that has expired is no
\* violation and is written off by the next statement.
CompareExclusion(c) ==
    /\ at[c] = "compare"
    /\ \/ /\ EndPassed(read[c])
          /\ at' = [at EXCEPT ![c] = "expire"]
          /\ UNCHANGED <<clean, errors>>
       \/ /\ ~EndPassed(read[c])
          /\ at' = [at EXCEPT ![c] = AfterExclusion(c)]
          /\ clean' = [clean EXCEPT ![c] = FALSE]
          /\ errors' = [errors EXCEPT ![c] = {}]
    /\ read' = [read EXCEPT ![c] = 0]
    /\ UNCHANGED <<now, bets, exclusion, amount, past>>

\* UpdateSelfExclusion(user, zero, "expired"): whatever the record is by now.
Expire(c) ==
    /\ at[c] = "expire"
    /\ at' = [at EXCEPT ![c] = AfterExclusion(c)]
    /\ exclusion' \in {exclusion, NoExclusion}
    /\ barred' = IF exclusion'.active THEN barred ELSE {}
    /\ UNCHANGED <<now, bets, read, amount, clean, errors, met, renewed>>

\* Mutation: the violations found before are forgotten.
CoolingOffOnly(c) ==
    \E cooling \in BOOLEAN :
        Query(c, "coolingOff", cooling, FALSE, IF cooling THEN "blocked" ELSE "passed")

\* isInCoolingOffPeriod is the last, and the check is passed if nothing was found.
CheckCoolingOff(c) ==
    \E cooling \in BOOLEAN, verdict \in {"passed", "blocked"} :
        /\ Query(c, "coolingOff", cooling, FALSE, verdict)
        /\ (verdict = "passed") <=> clean'[c]

\* The caller of a check that was passed.
PlaceBet(c) ==
    /\ at[c] = "passed"
    /\ bets' = Append(bets, [time |-> now, amount |-> amount[c], by |-> c])
    /\ at' = [at EXCEPT ![c] = "placed"]
    /\ UNCHANGED <<now, exclusion, read, amount, clean, errors, past>>

-----------------------------------------------------------------------------

Check(c) ==
    \/ ValidateBetPlacement(c) \/ GetUserComplianceStatus(c)
    \/ CheckDaily(c) \/ CheckWeekly(c) \/ CheckMonthly(c) \/ CheckVerification(c)
    \/ ReadExclusion(c) \/ CompareExclusion(c) \/ Expire(c) \/ CheckCoolingOff(c)

Next == Exclude \/ Tick \/ \E c \in Calls : Check(c) \/ PlaceBet(c)

Spec == Init /\ [][Next]_vars

-----------------------------------------------------------------------------
(* Properties *)

Pairs  == {{c, d} : c, d \in Calls}
Passed == {c \in Calls : at[c] \in {"passed", "placed"}}

TypeOK ==
    /\ now \in 0 .. Horizon
    /\ bets \in Seq([time : 0 .. Horizon, amount : Amounts, by : Calls])
    /\ exclusion \in [active : BOOLEAN, end : 0 .. Horizon]
    /\ at \in [Calls -> Running \cup {"new", "blocked", "placed"}]
    /\ read \in [Calls -> 0 .. Horizon]
    /\ amount \in [Calls -> Amounts \cup {0}]
    /\ clean \in [Calls -> BOOLEAN]
    /\ errors \in [Calls -> SUBSET Checks]
    /\ met \subseteq Pairs
    /\ barred \subseteq Calls /\ renewed \subseteq Calls
    /\ \A c \in Passed : clean[c] /\ amount[c] <= MaxBetPerEvent

\* No other call placed a bet while c checked, or the other way round.
Alone(c) == \A d \in Calls \ {c} : {c, d} \notin met

\* The bet at place i was checked by a call that ran next to no other and read the
\* stakes of the period.
CheckedAlone(i, period) == period \notin errors[bets[i].by] /\ Alone(bets[i].by)

\* The stakes up to and including the bet at place i, since an instant.
StakedUpTo(i, from) == StakedSince(SubSeq(bets, 1, i), from)

Midnight(t) == LocalDay(t) * SlotsPerDay - Offset

\* All the bets of the same local day up to the one at place i were checked alone.
DayCheckedAlone(i) ==
    \A j \in 1 .. i : bets[j].time >= Midnight(bets[i].time) => CheckedAlone(j, "daily")

\* The stakes of a month stay within the limit, even when midnight passes between the
\* check and the bet, unless another check ran at the same time or the stakes could not
\* be read. Those of a day do so until it is midnight UTC, which getDailyStake takes for
\* the start of the day; by the end of the day they may reach twice the limit, no more
\* (ValidateBetPlacement).
DailyAndMonthlyLimits ==
    \A i \in DOMAIN bets :
        LET t == bets[i].time
        IN  /\ DayCheckedAlone(i) =>
                  StakedUpTo(i, Midnight(t)) <=
                      IF Today(t) <= Midnight(t) THEN MaxDailyStake ELSE 2 * MaxDailyStake
            /\ CheckedAlone(i, "monthly") => StakedUpTo(i, MonthStart(t)) <= MaxMonthlyStake

\* A comment of getWeeklyStake has the week start on Sunday, so the same holds of it.
WeeklyLimit ==
    \A i \in DOMAIN bets :
        LET t == bets[i].time
            sunday == Midnight(t) - Weekday(t) * SlotsPerDay
        IN  CheckedAlone(i, "weekly") => StakedUpTo(i, sunday) <= MaxWeeklyStake

\* A user who is excluded from the start of the check on passes it only if the query of
\* the exclusion failed, or if the exclusion was renewed after the check had read it and
\* before it was done with what it had read (isSelfExcluded).
ExcludedUsersAreBlocked ==
    \A c \in Passed \cap barred : "exclusion" \in errors[c] \/ c \in renewed

\* An exclusion ends before its time only by a check that has read an earlier one, finds
\* that expired and writes it off after it was renewed (isSelfExcluded, UpdateSelfExclusion).
ExclusionRunsItsTerm ==
    [][(Barred /\ ~exclusion'.active) => \E c \in renewed : at[c] = "expire"]_vars

-----------------------------------------------------------------------------
(* The inductive invariants: that of the limits rests on the other, which is behind the
   last two properties *)

\* The exclusion that c has read is still the user's, or it was renewed or written off.
ReadInForce(c) ==
    at[c] = "compare" => c \in renewed \/ ~exclusion.active \/ read[c] = exclusion.end

\* A call that is about to write an exclusion off has found it expired.
WritesOffExpired(c) == at[c] = "expire" => c \in renewed \/ ~Barred

\* A user excluded from the start of a call is found so, or the query failed, or the
\* exclusion that was read is not the last one.
FindsExclusion(c) ==
    (c \in barred /\ clean[c] /\ at[c] \in {"coolingOff", "passed", "placed"})
    => "exclusion" \in errors[c] \/ c \in renewed

ComplianceInv ==
    /\ TypeOK
    /\ barred # {} => Barred
    /\ \A c \in Calls :
          /\ at[c] = "new" => c \notin barred
          /\ at[c] # "new" /\ clean[c] => amount[c] \in Amounts /\ amount[c] <= MaxBetPerEvent
          /\ ReadInForce(c) /\ WritesOffExpired(c) /\ FindsExclusion(c)

\* Two calls that check a bet have met.
Overlapped ==
    \A c, d \in Calls :
        (c # d /\ at[c] \in Running /\ at[d] \in Running /\ amount[c] # 0 /\ amount[d] # 0)
        => {c, d} \in met

AfterMonthly == {"verification", "exclusion", "compare", "expire", "coolingOff", "passed"}
AfterDaily   == {"weekly", "monthly"} \cup AfterMonthly

\* The stake that c has checked alone still fits the limit of the period.
StillFits(c, period, after, from, limit) ==
    (at[c] \in after /\ clean[c] /\ period \notin errors[c] /\ Alone(c))
    => StakedSince(bets, from) + amount[c] <= limit

\* The stakes that the check counts: since midnight UTC, and in the month.
CountedLimits ==
    \A i \in DOMAIN bets :
        /\ CheckedAlone(i, "daily") => StakedUpTo(i, Today(bets[i].time)) <= MaxDailyStake
        /\ CheckedAlone(i, "monthly") =>
              StakedUpTo(i, MonthStart(bets[i].time)) <= MaxMonthlyStake

LimitsInv ==
    /\ CountedLimits
    /\ Overlapped
    /\ \A i \in DOMAIN bets : at[bets[i].by] = "placed"
    /\ \A c \in Calls :
          /\ at[c] = "new" => amount[c] = 0
          /\ StillFits(c, "daily", AfterDaily, Today(now), MaxDailyStake)
          /\ StillFits(c, "monthly", AfterMonthly, MonthStart(now), MaxMonthlyStake)

=============================================================================
