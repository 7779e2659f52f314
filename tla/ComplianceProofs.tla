-------------------------- MODULE ComplianceProofs --------------------------
(***************************************************************************)
(* Proofs about Compliance, for any calls, stakes, limits and calendar.     *)
(* Self-exclusion: what a call has read of the exclusion is what is in      *)
(* force, unless it was renewed since (ReadInForce), so that it is only     *)
(* written off when it has expired (WritesOffExpired), and a user who is    *)
(* excluded throughout is found so (FindsExclusion). The limits: what a     *)
(* call has compared still fits when it places the bet (StillFits).         *)
(***************************************************************************)
EXTENDS Compliance, FiniteSetTheorems, WellFoundedInduction, TLAPS

\* What every query of a call does, whatever it asks for.
Answered(c, label, next) ==
    /\ at[c] = label
    /\ at' = [at EXCEPT ![c] = next]
    /\ UNCHANGED <<now, bets, exclusion, read, amount, met, barred, renewed>>
    /\ clean' \in [Calls -> BOOLEAN] /\ errors' \in [Calls -> SUBSET Checks]
    /\ \A d \in Calls \ {c} : clean'[d] = clean[d] /\ errors'[d] = errors[d]
    /\ clean'[c] => clean[c] /\ errors[c] \subseteq errors'[c]

\* Answers that do not matter here.
LEMMA QueryAnswered ==
    ASSUME TypeOK, NEW c \in Calls, NEW label \in Checks, NEW next,
           NEW violation, NEW onError, Query(c, label, violation, onError, next)
    PROVE  Answered(c, label, next)
<1> DEFINE fine(failed) == clean[c] /\ ~(IF failed THEN onError ELSE violation)
<1>1. PICK failed \in BOOLEAN :
          /\ clean' = [clean EXCEPT ![c] = fine(failed)]
          /\ errors' = [errors EXCEPT ![c] = IF ~fine(failed) THEN {}
                                             ELSE IF failed THEN @ \cup {label} ELSE @]
  BY DEF Query
<1>2. fine(failed) \in BOOLEAN /\ (fine(failed) => clean[c])
  OBVIOUS
<1> HIDE DEF fine
<1>3. clean \in [Calls -> BOOLEAN] /\ errors \in [Calls -> SUBSET Checks]
  BY DEF TypeOK
<1>4. clean' \in [Calls -> BOOLEAN] /\ clean'[c] = fine(failed)
      /\ \A d \in Calls \ {c} : clean'[d] = clean[d]
  BY <1>1, <1>2, <1>3
<1>5. errors' \in [Calls -> SUBSET Checks] /\ (\A d \in Calls \ {c} : errors'[d] = errors[d])
      /\ (fine(failed) => errors[c] \subseteq errors'[c])
  BY <1>1, <1>3
<1>6. /\ at[c] = label /\ at' = [at EXCEPT ![c] = next]
      /\ UNCHANGED <<now, bets, exclusion, read, amount, met, barred, renewed>>
  BY DEF Query, past
<1> QED BY <1>2, <1>4, <1>5, <1>6 DEF Answered

\* Nobody has called anything yet.
LEMMA InitInv == Init => ComplianceInv
<1> SUFFICES ASSUME Init PROVE ComplianceInv
  OBVIOUS
<1>1. exclusion \in [active : BOOLEAN, end : 0 .. Horizon]
  <2>1. CASE exclusion = NoExclusion
    BY <2>1, ComplianceAssumption DEF NoExclusion
  <2>2. CASE exclusion \in [active : {TRUE}, end : 0 .. Horizon]
    BY <2>2
  <2> QED BY <2>1, <2>2 DEF Init
<1>2. TypeOK
  <2>1. bets \in Seq([time : 0 .. Horizon, amount : Amounts, by : Calls])
    BY DEF Init
  <2>2. Passed = {}
    BY DEF Init, Passed
  <2> QED BY <1>1, <2>1, <2>2, ComplianceAssumption DEF Init, TypeOK
<1> QED BY <1>2 DEF Init, ComplianceInv, ReadInForce, WritesOffExpired, FindsExclusion

\* A query whose answer lets the call go on.
LEMMA AnsweredStep ==
    ASSUME ComplianceInv, NEW c \in Calls, NEW label \in Checks,
           NEW next \in (Checks \ {"compare", "expire"}) \cup {"passed", "blocked"},
           Answered(c, label, next),
           next = "passed" => label = "coolingOff" /\ clean'[c],
           next = "coolingOff" => FindsExclusion(c)'
    PROVE  ComplianceInv'
<1>1. /\ at[c] = label /\ label # "new"
      /\ UNCHANGED <<now, bets, exclusion, read, amount, met, barred, renewed>>
      /\ \A d \in Calls : at'[d] = IF d = c THEN next ELSE at[d]
      /\ \A d \in Calls \ {c} : clean'[d] = clean[d] /\ errors'[d] = errors[d]
      /\ clean'[c] => clean[c] /\ errors[c] \subseteq errors'[c]
  BY DEF Answered, Checks, ComplianceInv, TypeOK
<1>2. TypeOK'
  <2>1. at' \in [Calls -> Running \cup {"new", "blocked", "placed"}]
    BY DEF Answered, Running, Checks, ComplianceInv, TypeOK
  <2>2. \A d \in Passed' : clean'[d] /\ amount[d] <= MaxBetPerEvent
    <3> SUFFICES ASSUME NEW d \in Passed' PROVE clean'[d] /\ amount[d] <= MaxBetPerEvent
      OBVIOUS
    <3>1. d \in Calls /\ at'[d] \in {"passed", "placed"}
      BY DEF Passed
    <3>2. CASE d = c
      <4>1. next = "passed" /\ clean'[c]
        BY <1>1, <3>1, <3>2 DEF Checks
      <4> QED BY <1>1, <3>2, <4>1 DEF ComplianceInv
    <3>3. CASE d # c
      <4>1. d \in Passed
        BY <1>1, <3>1, <3>3 DEF Passed
      <4>2. clean[d] /\ amount[d] <= MaxBetPerEvent
        BY <4>1 DEF ComplianceInv, TypeOK
      <4> QED BY <1>1, <3>1, <3>3, <4>2
    <3> QED BY <3>2, <3>3
  <2>3. clean' \in [Calls -> BOOLEAN] /\ errors' \in [Calls -> SUBSET Checks]
    BY DEF Answered
  <2> QED BY <1>1, <2>1, <2>2, <2>3 DEF ComplianceInv, TypeOK
<1>3. (barred # {} => Barred)'
  BY <1>1 DEF ComplianceInv, Barred, Expired
<1>4. ASSUME NEW d \in Calls
      PROVE  /\ (at[d] = "new" => d \notin barred)'
             /\ (at[d] # "new" /\ clean[d] => amount[d] \in Amounts /\ amount[d] <= MaxBetPerEvent)'
             /\ ReadInForce(d)' /\ WritesOffExpired(d)'
  BY <1>1 DEF ComplianceInv, ReadInForce, WritesOffExpired, Barred, Expired, Checks
<1>5. ASSUME NEW d \in Calls PROVE FindsExclusion(d)'
  <2>1. CASE d # c
    BY <1>1, <2>1 DEF ComplianceInv, FindsExclusion
  <2>2. CASE d = c
    BY <1>1, <2>2 DEF ComplianceInv, FindsExclusion, Checks
  <2> QED BY <2>1, <2>2
<1> QED BY <1>2, <1>3, <1>4, <1>5 DEF ComplianceInv

\* The queries but that of the exclusion.
LEMMA OtherChecks ==
    ASSUME ComplianceInv, NEW c \in Calls,
           CheckDaily(c) \/ CheckWeekly(c) \/ CheckMonthly(c) \/ CheckVerification(c) \/ CheckCoolingOff(c)
    PROVE  ComplianceInv'
<1> USE DEF ComplianceInv, Checks
<1>1. CASE CheckDaily(c)
  <2>1. Answered(c, "daily", "weekly")
    BY <1>1, QueryAnswered DEF CheckDaily
  <2> QED BY <2>1, AnsweredStep
<1>2. CASE CheckWeekly(c)
  <2>1. Answered(c, "weekly", "monthly")
    BY <1>2, QueryAnswered DEF CheckWeekly
  <2> QED BY <2>1, AnsweredStep
<1>3. CASE CheckMonthly(c)
  <2>1. Answered(c, "monthly", "verification")
    BY <1>3, QueryAnswered DEF CheckMonthly
  <2> QED BY <2>1, AnsweredStep
<1>4. CASE CheckVerification(c)
  <2>1. Answered(c, "verification", "exclusion")
    BY <1>4, QueryAnswered DEF CheckVerification
  <2> QED BY <2>1, AnsweredStep
<1>5. CASE CheckCoolingOff(c)
  <2>1. PICK cooling \in BOOLEAN, verdict \in {"passed", "blocked"} :
            /\ Query(c, "coolingOff", cooling, FALSE, verdict)
            /\ (verdict = "passed") <=> clean'[c]
    BY <1>5 DEF CheckCoolingOff
  <2>2. Answered(c, "coolingOff", verdict)
    BY <2>1, QueryAnswered
  <2> QED BY <2>1, <2>2, AnsweredStep
<1> QED BY <1>1, <1>2, <1>3, <1>4, <1>5

\* The exclusion is read, or there is none, or it cannot be read.
LEMMA ReadExclusionStep ==
    ASSUME ComplianceInv, NEW c \in Calls, ReadExclusion(c)
    PROVE  ComplianceInv'
<1> USE DEF ComplianceInv
<1>1. /\ at[c] = "exclusion"
      /\ UNCHANGED <<now, bets, exclusion, amount, clean, met, barred, renewed>>
      /\ \A d \in Calls \ {c} : at'[d] = at[d] /\ read'[d] = read[d] /\ errors'[d] = errors[d]
      /\ at' \in [Calls -> Running \cup {"new", "blocked", "placed"}]
      /\ read' \in [Calls -> 0 .. Horizon] /\ errors' \in [Calls -> SUBSET Checks]
      /\ \/ exclusion.active /\ at'[c] = "compare" /\ read'[c] = exclusion.end
         \/ /\ at'[c] = AfterExclusion(c)
            /\ ~exclusion.active \/ (clean[c] => "exclusion" \in errors'[c])
  <2>1. /\ at \in [Calls -> Running \cup {"new", "blocked", "placed"}]
        /\ read \in [Calls -> 0 .. Horizon] /\ errors \in [Calls -> SUBSET Checks]
        /\ exclusion.end \in 0 .. Horizon
    BY DEF TypeOK
  <2>2. AfterExclusion(c) \in Running \cup {"blocked"} /\ "compare" \in Running /\ "exclusion" \in Checks
    BY DEF AfterExclusion, Running, Checks
  <2>3. /\ at[c] = "exclusion"
        /\ UNCHANGED <<now, bets, exclusion, amount, clean, met, barred, renewed>>
    BY DEF ReadExclusion, past
  <2>4. CASE /\ exclusion.active /\ at' = [at EXCEPT ![c] = "compare"]
             /\ read' = [read EXCEPT ![c] = exclusion.end] /\ UNCHANGED errors
    BY <2>1, <2>2, <2>3, <2>4
  <2>5. CASE /\ at' = [at EXCEPT ![c] = AfterExclusion(c)] /\ UNCHANGED read
             /\ \/ ~exclusion.active /\ UNCHANGED errors
                \/ errors' = [errors EXCEPT ![c] = IF clean[c] THEN @ \cup {"exclusion"} ELSE @]
    <3>1. /\ errors' \in [Calls -> SUBSET Checks]
          /\ \A d \in Calls \ {c} : errors'[d] = errors[d]
          /\ ~exclusion.active \/ (clean[c] => "exclusion" \in errors'[c])
      BY <2>1, <2>2, <2>5
    <3> QED BY <2>1, <2>2, <2>3, <2>5, <3>1
  <2> QED BY <2>4, <2>5 DEF ReadExclusion
<1>2. at'[c] \in {"compare", "coolingOff", "blocked"}
  BY <1>1 DEF AfterExclusion
<1>3. TypeOK'
  <2>1. \A d \in Passed' : d \in Passed
    BY <1>1, <1>2 DEF Passed
  <2>2. \A d \in Passed' : clean[d] /\ amount[d] <= MaxBetPerEvent
    BY <2>1 DEF TypeOK
  <2> QED BY <1>1, <2>2 DEF TypeOK
<1>4. (barred # {} => Barred)'
  BY <1>1 DEF Barred, Expired
<1>5. ASSUME NEW d \in Calls
      PROVE  /\ (at[d] = "new" => d \notin barred)'
             /\ (at[d] # "new" /\ clean[d] => amount[d] \in Amounts /\ amount[d] <= MaxBetPerEvent)'
             /\ ReadInForce(d)' /\ WritesOffExpired(d)' /\ FindsExclusion(d)'
  <2>1. CASE d = c
    <3>1. (at[c] = "new" => c \notin barred)' /\ WritesOffExpired(c)'
      BY <1>2 DEF WritesOffExpired
    <3>2. (at[c] # "new" /\ clean[c] => amount[c] \in Amounts /\ amount[c] <= MaxBetPerEvent)'
      BY <1>1
    <3>3. ReadInForce(c)'
      BY <1>1 DEF ReadInForce, AfterExclusion
    <3>4. FindsExclusion(c)'
      <4> SUFFICES ASSUME c \in barred, clean[c], at'[c] # "compare" PROVE "exclusion" \in errors'[c]
        BY <1>1, <1>2 DEF FindsExclusion
      <4> QED BY <1>1 DEF Barred
    <3> QED BY <2>1, <3>1, <3>2, <3>3, <3>4
  <2>2. CASE d # c
    BY <1>1, <2>2 DEF ReadInForce, WritesOffExpired, FindsExclusion, Barred, Expired
  <2> QED BY <2>1, <2>2
<1> QED BY <1>3, <1>4, <1>5

\* What was read is in force still and ends the check, or has expired, or was renewed.
LEMMA CompareExclusionStep ==
    ASSUME ComplianceInv, NEW c \in Calls, CompareExclusion(c)
    PROVE  ComplianceInv'
<1> USE DEF ComplianceInv
<1>1. /\ at[c] = "compare"
      /\ UNCHANGED <<now, bets, exclusion, amount, met, barred, renewed>>
      /\ \A d \in Calls \ {c} : /\ at'[d] = at[d] /\ read'[d] = read[d]
                               /\ clean'[d] = clean[d] /\ errors'[d] = errors[d]
      /\ at' \in [Calls -> Running \cup {"new", "blocked", "placed"}]
      /\ read' \in [Calls -> 0 .. Horizon] /\ clean' \in [Calls -> BOOLEAN]
      /\ errors' \in [Calls -> SUBSET Checks]
      /\ \/ now > read[c] /\ at'[c] = "expire" /\ clean'[c] = clean[c]
         \/ at'[c] \in {"coolingOff", "blocked"} /\ ~clean'[c]
  <2>1. /\ at \in [Calls -> Running \cup {"new", "blocked", "placed"}]
        /\ read \in [Calls -> 0 .. Horizon] /\ errors \in [Calls -> SUBSET Checks]
        /\ clean \in [Calls -> BOOLEAN]
    BY DEF TypeOK
  <2>2. /\ AfterExclusion(c) \in {"coolingOff", "blocked"}
        /\ {"expire", "coolingOff"} \subseteq Running /\ 0 \in 0 .. Horizon
    BY ComplianceAssumption DEF AfterExclusion, Running, Checks
  <2>3. /\ at[c] = "compare" /\ read' = [read EXCEPT ![c] = 0]
        /\ UNCHANGED <<now, bets, exclusion, amount, met, barred, renewed>>
    BY DEF CompareExclusion, past
  <2>4. CASE EndPassed(read[c]) /\ at' = [at EXCEPT ![c] = "expire"] /\ UNCHANGED <<clean, errors>>
    BY <2>1, <2>2, <2>3, <2>4 DEF EndPassed
  <2>5. CASE /\ at' = [at EXCEPT ![c] = AfterExclusion(c)]
             /\ clean' = [clean EXCEPT ![c] = FALSE] /\ errors' = [errors EXCEPT ![c] = {}]
    BY <2>1, <2>2, <2>3, <2>5
  <2> QED BY <2>4, <2>5 DEF CompareExclusion
<1>2. TypeOK'
  <2>1. \A d \in Passed' : d # c /\ d \in Passed
    BY <1>1 DEF Passed
  <2>2. \A d \in Passed' : clean'[d] /\ amount[d] <= MaxBetPerEvent
    BY <1>1, <2>1 DEF TypeOK, Passed
  <2> QED BY <1>1, <2>2 DEF TypeOK
<1>3. (barred # {} => Barred)'
  BY <1>1 DEF Barred, Expired
<1>4. ASSUME NEW d \in Calls
      PROVE  /\ (at[d] = "new" => d \notin barred)'
             /\ (at[d] # "new" /\ clean[d] => amount[d] \in Amounts /\ amount[d] <= MaxBetPerEvent)'
             /\ ReadInForce(d)' /\ WritesOffExpired(d)' /\ FindsExclusion(d)'
  <2>1. CASE d = c
    BY <1>1, <2>1 DEF ReadInForce, WritesOffExpired, FindsExclusion, Barred, Expired
  <2>2. CASE d # c
    BY <1>1, <2>2 DEF ReadInForce, WritesOffExpired, FindsExclusion, Barred, Expired
  <2> QED BY <2>1, <2>2
<1> QED BY <1>2, <1>3, <1>4

\* A check begins: the user is excluded, or not.
LEMMA BeginStep ==
    ASSUME ComplianceInv, NEW c \in Calls, ValidateBetPlacement(c) \/ GetUserComplianceStatus(c)
    PROVE  ComplianceInv'
<1> USE ComplianceAssumption DEF ComplianceInv, past
<1>1. /\ at[c] = "new" /\ UNCHANGED <<now, bets, exclusion, read, errors, renewed>>
      /\ \E label \in {"daily", "exclusion"} : at' = [at EXCEPT ![c] = label]
      /\ barred' \subseteq Calls /\ (barred' # {} => Barred) /\ barred \subseteq barred'
      /\ \A d \in barred' : d \in barred \/ d = c
  BY DEF ValidateBetPlacement, GetUserComplianceStatus, TypeOK
<1>2. /\ \A d \in Calls \ {c} : at'[d] = at[d]
      /\ at'[c] \in {"daily", "exclusion"}
  BY <1>1 DEF TypeOK
<1>3. /\ amount' \in [Calls -> Amounts \cup {0}] /\ clean' \in [Calls -> BOOLEAN]
      /\ \A d \in Calls \ {c} : amount'[d] = amount[d] /\ clean'[d] = clean[d]
      /\ clean'[c] => amount'[c] \in Amounts /\ amount'[c] <= MaxBetPerEvent
  <2>1. amount \in [Calls -> Amounts \cup {0}] /\ clean \in [Calls -> BOOLEAN]
    BY DEF TypeOK
  <2>2. CASE ValidateBetPlacement(c)
    <3>1. PICK a \in Amounts, tooMany \in BOOLEAN :
            /\ amount' = [amount EXCEPT ![c] = a]
            /\ clean' = [clean EXCEPT ![c] = a <= MaxBetPerEvent /\ ~tooMany]
      BY <2>2 DEF ValidateBetPlacement
    <3>2. (a <= MaxBetPerEvent /\ ~tooMany) \in BOOLEAN
      OBVIOUS
    <3> QED BY <2>1, <3>1, <3>2
  <2>3. CASE GetUserComplianceStatus(c)
    BY <2>1, <2>3 DEF GetUserComplianceStatus
  <2> QED BY <2>2, <2>3
<1>4. met' \subseteq Pairs
  <2>1. met' = met \/ met' = met \cup {{c, d} : d \in {d \in Calls : at[d] \in Running /\ amount[d] # 0}}
    BY DEF ValidateBetPlacement, GetUserComplianceStatus
  <2>2. met \subseteq Pairs
    BY DEF TypeOK
  <2> QED BY <2>1, <2>2 DEF Pairs
<1>5. TypeOK'
  <2>1. at' \in [Calls -> Running \cup {"new", "blocked", "placed"}]
    BY <1>1 DEF TypeOK, Running, Checks
  <2>2. \A d \in Passed' : d # c /\ d \in Passed
    BY <1>2 DEF Passed
  <2>3. \A d \in Passed' : clean'[d] /\ amount'[d] <= MaxBetPerEvent
    BY <1>3, <2>2 DEF TypeOK, Passed
  <2> QED BY <1>1, <1>3, <1>4, <2>1, <2>3 DEF TypeOK
<1>6. (barred # {} => Barred)'
  BY <1>1 DEF Barred, Expired
<1>7. ASSUME NEW d \in Calls
      PROVE  /\ (at[d] = "new" => d \notin barred)'
             /\ (at[d] # "new" /\ clean[d] => amount[d] \in Amounts /\ amount[d] <= MaxBetPerEvent)'
             /\ ReadInForce(d)' /\ WritesOffExpired(d)' /\ FindsExclusion(d)'
  <2>1. CASE d = c
    BY <1>2, <1>3, <2>1 DEF ReadInForce, WritesOffExpired, FindsExclusion
  <2>2. CASE d # c
    BY <1>1, <1>2, <1>3, <2>2 DEF ReadInForce, WritesOffExpired, FindsExclusion, Barred, Expired
  <2> QED BY <2>1, <2>2
<1> QED BY <1>5, <1>6, <1>7

\* The exclusion is written off, or the statement fails.
LEMMA ExpireStep ==
    ASSUME ComplianceInv, NEW c \in Calls, Expire(c)
    PROVE  ComplianceInv'
<1> USE ComplianceAssumption DEF ComplianceInv
<1>1. /\ at[c] = "expire" /\ at' = [at EXCEPT ![c] = AfterExclusion(c)]
      /\ UNCHANGED <<now, bets, read, amount, clean, errors, met, renewed>>
      /\ exclusion' = exclusion \/ ~exclusion'.active
      /\ exclusion'.active => exclusion' = exclusion /\ barred' = barred
      /\ ~exclusion'.active => barred' = {}
      /\ barred' \subseteq barred
  BY DEF Expire, NoExclusion
<1>2. /\ AfterExclusion(c) \in {"coolingOff", "blocked"}
      /\ \A d \in Calls : at'[d] = IF d = c THEN AfterExclusion(c) ELSE at[d]
  BY <1>1 DEF TypeOK, AfterExclusion
<1>3. TypeOK'
  <2>1. exclusion' \in [active : BOOLEAN, end : 0 .. Horizon]
    <3>1. NoExclusion \in [active : BOOLEAN, end : 0 .. Horizon]
      BY DEF NoExclusion
    <3> QED BY <3>1 DEF Expire, TypeOK
  <2>2. \A d \in Passed' : clean[d] /\ amount[d] <= MaxBetPerEvent
    BY <1>2 DEF Passed, TypeOK
  <2>3. at' \in [Calls -> Running \cup {"new", "blocked", "placed"}]
    BY <1>1, <1>2 DEF TypeOK, Running, Checks
  <2> QED BY <1>1, <2>1, <2>2, <2>3 DEF TypeOK
<1>4. (barred # {} => Barred)'
  BY <1>1 DEF Barred, Expired
<1>5. Barred' => Barred
  BY <1>1 DEF Barred, Expired
<1>6. ASSUME NEW d \in Calls
      PROVE  /\ (at[d] = "new" => d \notin barred)'
             /\ (at[d] # "new" /\ clean[d] => amount[d] \in Amounts /\ amount[d] <= MaxBetPerEvent)'
             /\ ReadInForce(d)' /\ WritesOffExpired(d)' /\ FindsExclusion(d)'
  <2>1. CASE d = c
    BY <1>1, <1>2, <1>5, <2>1 DEF ReadInForce, WritesOffExpired, FindsExclusion
  <2>2. CASE d # c
    BY <1>1, <1>2, <1>5, <2>2 DEF ReadInForce, WritesOffExpired, FindsExclusion
  <2> QED BY <2>1, <2>2
<1> QED BY <1>3, <1>4, <1>6

\* A bet is placed, or the exclusion changes, or time passes.
LEMMA OutsideStep ==
    ASSUME ComplianceInv, Exclude \/ Tick \/ \E c \in Calls : PlaceBet(c)
    PROVE  ComplianceInv'
<1> USE ComplianceAssumption DEF ComplianceInv, calls
<1>1. CASE Exclude
  <2>1. PICK end \in now + 1 .. Horizon :
            /\ ~exclusion.active \/ Expired(exclusion) \/ end > exclusion.end
            /\ exclusion' = [active |-> TRUE, end |-> end]
    BY <1>1 DEF Exclude
  <2>2. /\ UNCHANGED <<now, bets, at, read, amount, clean, errors, met, barred>>
        /\ renewed' = renewed \cup {c \in Calls : at[c] \in {"compare", "expire"}}
    BY <1>1 DEF Exclude
  <2>3. end \in 0 .. Horizon /\ end > now
    BY <2>1 DEF TypeOK
  <2>4. exclusion' \in [active : BOOLEAN, end : 0 .. Horizon] /\ Barred'
    BY <2>1, <2>2, <2>3 DEF Barred, Expired, TypeOK
  <2>5. TypeOK'
    BY <2>2, <2>4 DEF TypeOK, Passed
  <2>6. \A d \in Calls : ReadInForce(d)' /\ WritesOffExpired(d)' /\ FindsExclusion(d)'
    BY <2>2 DEF ReadInForce, WritesOffExpired, FindsExclusion
  <2> QED BY <2>2, <2>4, <2>5, <2>6
<1>2. CASE Tick
  <2>1. /\ UNCHANGED <<bets, exclusion, at, read, amount, clean, errors, met, renewed>>
        /\ now < Horizon /\ now' = now + 1
        /\ barred' = IF now + 1 > exclusion.end THEN {} ELSE barred
    BY <1>2 DEF Tick
  <2>2. now \in 0 .. Horizon /\ exclusion.end \in 0 .. Horizon
    BY DEF TypeOK
  <2>3. TypeOK'
    BY <2>1, <2>2 DEF TypeOK, Passed
  <2>4. (Barred' => Barred) /\ (barred # {} => Barred)'
    BY <2>1, <2>2 DEF Barred, Expired
  <2>5. \A d \in Calls : ReadInForce(d)' /\ WritesOffExpired(d)' /\ FindsExclusion(d)'
    BY <2>1, <2>4 DEF ReadInForce, WritesOffExpired, FindsExclusion
  <2> QED BY <2>1, <2>3, <2>4, <2>5
<1>3. ASSUME NEW c \in Calls, PlaceBet(c) PROVE ComplianceInv'
  <2>1. /\ at[c] = "passed" /\ at' = [at EXCEPT ![c] = "placed"]
        /\ bets' = Append(bets, [time |-> now, amount |-> amount[c], by |-> c])
        /\ UNCHANGED <<now, exclusion, read, amount, clean, errors, met, barred, renewed>>
    BY <1>3 DEF PlaceBet, past
  <2>2. \A d \in Calls : at'[d] = IF d = c THEN "placed" ELSE at[d]
    BY <2>1 DEF TypeOK
  <2>3. Passed' = Passed
    BY <2>1, <2>2 DEF Passed
  <2>4. TypeOK'
    <3>1. amount[c] \in Amounts
      <4>1. c \in Passed
        BY <2>1 DEF Passed
      <4> QED BY <2>1, <4>1 DEF TypeOK
    <3>2. bets' \in Seq([time : 0 .. Horizon, amount : Amounts, by : Calls])
      BY <2>1, <3>1 DEF TypeOK
    <3>3. at' \in [Calls -> Running \cup {"new", "blocked", "placed"}]
      BY <2>1 DEF TypeOK
    <3> QED BY <2>1, <2>3, <3>2, <3>3 DEF TypeOK
  <2>5. \A d \in Calls : ReadInForce(d)' /\ WritesOffExpired(d)' /\ FindsExclusion(d)'
    BY <2>1, <2>2 DEF ReadInForce, WritesOffExpired, FindsExclusion, Barred, Expired
  <2> QED BY <2>1, <2>2, <2>4, <2>5 DEF Barred, Expired
<1> QED BY <1>1, <1>2, <1>3

(***************************************************************************)
(* The invariant and what follows from it                                  *)
(***************************************************************************)

\* Every step keeps the invariant.
LEMMA StepInv == ComplianceInv /\ [Next]_vars => ComplianceInv'
<1> SUFFICES ASSUME ComplianceInv, [Next]_vars PROVE ComplianceInv'
  OBVIOUS
<1>1. CASE Exclude \/ Tick \/ \E c \in Calls : PlaceBet(c)
  BY <1>1, OutsideStep
<1>2. ASSUME NEW c \in Calls, Check(c) PROVE ComplianceInv'
  BY <1>2, BeginStep, OtherChecks, ReadExclusionStep, CompareExclusionStep, ExpireStep DEF Check
<1>3. CASE UNCHANGED vars
  <2>1. UNCHANGED <<now, bets, exclusion, at, read, amount, clean, errors, met, barred, renewed>>
    BY <1>3 DEF vars, calls, past
  <2>2. TypeOK'
    BY <2>1 DEF ComplianceInv, TypeOK, Passed
  <2>3. \A c \in Calls : ReadInForce(c)' /\ WritesOffExpired(c)' /\ FindsExclusion(c)'
    BY <2>1 DEF ComplianceInv, ReadInForce, WritesOffExpired, FindsExclusion, Barred, Expired
  <2> QED BY <2>1, <2>2, <2>3 DEF ComplianceInv, Barred, Expired
<1> QED BY <1>1, <1>2, <1>3 DEF Next

\* The invariant holds in every reachable state.
THEOREM ComplianceInvariant == Spec => []ComplianceInv
BY InitInv, StepInv, PTL DEF Spec

\* The variables keep their types, and no check passes that found something.
THEOREM TypeCorrect == Spec => []TypeOK
<1>1. ComplianceInv => TypeOK
  BY DEF ComplianceInv
<1> QED BY <1>1, ComplianceInvariant, PTL

\* A user who is excluded from the start passes only if the exclusion could not be read,
\* or was renewed after it had been read.
THEOREM ExclusionBlocks == Spec => []ExcludedUsersAreBlocked
<1>1. ComplianceInv => ExcludedUsersAreBlocked
  BY DEF ComplianceInv, TypeOK, ExcludedUsersAreBlocked, FindsExclusion, Passed
<1> QED BY <1>1, ComplianceInvariant, PTL

\* An exclusion that has not run out is only undone by a call that found an older one expired.
THEOREM ExclusionLasts == Spec => ExclusionRunsItsTerm
<1> DEFINE Lasts == (Barred /\ ~exclusion'.active) => \E c \in renewed : at[c] = "expire"
<1>1. ComplianceInv /\ Next => Lasts
  <2> SUFFICES ASSUME ComplianceInv, Next, Barred, ~exclusion'.active
               PROVE  \E c \in renewed : at[c] = "expire"
    OBVIOUS
  <2>1. exclusion.active
    BY DEF Barred
  <2>2. CASE Exclude
    BY <2>2 DEF Exclude
  <2>3. CASE Tick
    BY <2>1, <2>3 DEF Tick
  <2>4. ASSUME NEW c \in Calls, PlaceBet(c) PROVE FALSE
    BY <2>1, <2>4 DEF PlaceBet
  <2>5. ASSUME NEW c \in Calls, Expire(c) PROVE \E d \in renewed : at[d] = "expire"
    BY <2>5 DEF Expire, ComplianceInv, WritesOffExpired
  <2>6. ASSUME NEW c \in Calls, ValidateBetPlacement(c) \/ GetUserComplianceStatus(c) PROVE FALSE
    BY <2>1, <2>6 DEF ValidateBetPlacement, GetUserComplianceStatus
  <2>7. ASSUME NEW c \in Calls,
               CheckDaily(c) \/ CheckWeekly(c) \/ CheckMonthly(c) \/ CheckVerification(c)
               \/ CheckCoolingOff(c) \/ ReadExclusion(c) \/ CompareExclusion(c)
        PROVE  FALSE
    BY <2>1, <2>7 DEF CheckDaily, CheckWeekly, CheckMonthly, CheckVerification, CheckCoolingOff,
                      ReadExclusion, CompareExclusion, Query
  <2> QED BY <2>2, <2>3, <2>4, <2>5, <2>6, <2>7 DEF Next, Check
<1>2. ComplianceInv /\ [Next]_vars => [Lasts]_vars
  BY <1>1
<1> QED BY <1>2, ComplianceInvariant, PTL DEF Spec, ExclusionRunsItsTerm

(***************************************************************************)
(* Sums of stakes                                                          *)
(***************************************************************************)

\* The units of a finite sum are finitely many.
LEMMA UnitsFinite ==
    ASSUME NEW f, NEW S, IsFiniteSet(S), \A x \in S : f[x] \in Nat
    PROVE  IsFiniteSet(Units(f, S)) /\ Total(f, S) \in Nat
<1> DEFINE T == {{x} \X (1 .. f[x]) : x \in S}
           g == [x \in S |-> {x} \X (1 .. f[x])]
<1>1. g \in Surjection(S, T)
  BY DEF Surjection
<1>2. IsFiniteSet(T)
  BY <1>1, FS_Surjection
<1>3. ASSUME NEW x \in S PROVE IsFiniteSet({x} \X (1 .. f[x]))
  <2>1. IsFiniteSet({x})
    BY FS_Singleton
  <2>2. IsFiniteSet(1 .. f[x])
    BY FS_Interval
  <2> QED BY <2>1, <2>2, FS_Product
<1>4. \A U \in T : IsFiniteSet(U)
  BY <1>3
<1>5. IsFiniteSet(Units(f, S))
  BY <1>2, <1>4, FS_UNION DEF Units
<1> QED BY <1>5, FS_CardinalityType DEF Total

\* A sum over fewer elements is no larger.
LEMMA TotalSubset ==
    ASSUME NEW f, NEW S, IsFiniteSet(S), \A x \in S : f[x] \in Nat, NEW R, R \subseteq S
    PROVE  Total(f, R) <= Total(f, S)
<1>1. IsFiniteSet(Units(f, S))
  BY UnitsFinite
<1>2. Units(f, R) \subseteq Units(f, S)
  BY DEF Units
<1> QED BY <1>1, <1>2, FS_Subset DEF Total

\* One more element adds its value at most.
LEMMA TotalInsert ==
    ASSUME NEW f, NEW S, IsFiniteSet(S), \A x \in S : f[x] \in Nat,
           NEW y, f[y] \in Nat
    PROVE  Total(f, S \cup {y}) <= Total(f, S) + f[y]
<1> DEFINE new == {y} \X (1 .. f[y])
<1>1. IsFiniteSet(new) /\ Cardinality(new) = f[y]
  <2>1. IsFiniteSet({y}) /\ Cardinality({y}) = 1
    BY FS_Singleton
  <2>2. IsFiniteSet(1 .. f[y]) /\ Cardinality(1 .. f[y]) = f[y]
    <3>1. f[y] \in Int /\ 1 \in Int
      OBVIOUS
    <3>2. /\ IsFiniteSet(1 .. f[y])
          /\ Cardinality(1 .. f[y]) = IF 1 > f[y] THEN 0 ELSE f[y] - 1 + 1
      BY <3>1, FS_Interval, Zenon
    <3> QED BY <3>2
  <2>3. IsFiniteSet(new) /\ Cardinality(new) = Cardinality({y}) * Cardinality(1 .. f[y])
    BY <2>1, <2>2, FS_Product, Zenon
  <2>4. Cardinality({y}) * Cardinality(1 .. f[y]) = f[y]
    BY <2>1, <2>2
  <2> QED BY <2>3, <2>4
<1>2. Units(f, S \cup {y}) = Units(f, S) \cup new
  BY DEF Units
<1> HIDE DEF new
<1>3. IsFiniteSet(Units(f, S)) /\ Cardinality(Units(f, S)) \in Nat
  BY UnitsFinite DEF Total
<1> DEFINE both == Units(f, S) \cap new
<1>4. IsFiniteSet(both) /\ Cardinality(both) \in Nat
  BY <1>3, FS_Intersection, FS_CardinalityType
<1>5. Cardinality(Units(f, S) \cup new) = Cardinality(Units(f, S)) + Cardinality(new) - Cardinality(both)
  BY <1>1, <1>3, FS_Union
<1> HIDE DEF both
<1>6. Total(f, S \cup {y}) = Cardinality(Units(f, S) \cup new)
  BY <1>2 DEF Total
<1>7. Cardinality(Units(f, S) \cup new) <= Cardinality(Units(f, S)) + f[y]
  BY <1>1, <1>3, <1>4, <1>5
<1> QED BY <1>6, <1>7 DEF Total

\* A sum depends on nothing but the values in it.
LEMMA TotalSame ==
    ASSUME NEW f, NEW g, NEW S, \A x \in S : f[x] = g[x]
    PROVE  Total(f, S) = Total(g, S)
<1>1. Units(f, S) = Units(g, S)
  BY DEF Units
<1> QED BY <1>1 DEF Total

Bet == [time : 0 .. Horizon, amount : Amounts, by : Calls]

LEMMA BetFields ==
    ASSUME NEW b \in Bet
    PROVE  b.amount \in Nat /\ b.time \in Nat
<1>1. b.amount \in Amounts /\ b.time \in 0 .. Horizon
  BY DEF Bet
<1>2. Amounts \subseteq Nat
  BY ComplianceAssumption
<1>3. b.time \in Nat
  BY <1>1
<1> QED BY <1>1, <1>2, <1>3

\* The stakes and the bets a sum is over.
StakeOf(placed) == [i \in DOMAIN placed |-> placed[i].amount]
Since(placed, from) == {i \in DOMAIN placed : placed[i].time >= from}

LEMMA StakeTypes ==
    ASSUME NEW p \in Seq(Bet), NEW from
    PROVE  /\ StakedSince(p, from) = Total(StakeOf(p), Since(p, from))
           /\ IsFiniteSet(Since(p, from)) /\ Since(p, from) \subseteq 1 .. Len(p)
           /\ \A i \in 1 .. Len(p) : /\ StakeOf(p)[i] = p[i].amount /\ StakeOf(p)[i] \in Nat
                                     /\ p[i].time \in Nat
<1>1. DOMAIN p = 1 .. Len(p) /\ Len(p) \in Nat /\ \A i \in 1 .. Len(p) : p[i] \in Bet
  OBVIOUS
<1>2. StakedSince(p, from) = Total(StakeOf(p), Since(p, from))
  BY DEF StakedSince, StakeOf, Since
<1>3. Since(p, from) \subseteq 1 .. Len(p)
  BY <1>1 DEF Since
<1>4. IsFiniteSet(1 .. Len(p))
  BY <1>1, FS_Interval
<1>5. IsFiniteSet(Since(p, from))
  BY <1>3, <1>4, FS_Subset
<1>6. \A i \in 1 .. Len(p) : /\ StakeOf(p)[i] = p[i].amount /\ StakeOf(p)[i] \in Nat
                             /\ p[i].time \in Nat
  <2> SUFFICES ASSUME NEW i \in 1 .. Len(p)
               PROVE  StakeOf(p)[i] = p[i].amount /\ StakeOf(p)[i] \in Nat /\ p[i].time \in Nat
    OBVIOUS
  <2>1. p[i] \in Bet
    BY <1>1
  <2>2. p[i].amount \in Nat /\ p[i].time \in Nat
    BY <2>1, BetFields
  <2>3. StakeOf(p)[i] = p[i].amount
    <3>1. i \in DOMAIN p
      BY <1>1
    <3> QED BY <3>1, Zenon DEF StakeOf
  <2> QED BY <2>2, <2>3
<1> QED BY <1>2, <1>3, <1>5, <1>6

LEMMA StakedType ==
    ASSUME NEW p \in Seq(Bet), NEW from
    PROVE  StakedSince(p, from) \in Nat
<1>1. IsFiniteSet(Since(p, from)) /\ \A i \in Since(p, from) : StakeOf(p)[i] \in Nat
  BY StakeTypes
<1> QED BY <1>1, StakeTypes, UnitsFinite

\* Less is staked since a later instant.
LEMMA StakedLater ==
    ASSUME NEW p \in Seq(Bet), NEW from \in Int, NEW later \in Int, from <= later
    PROVE  StakedSince(p, later) <= StakedSince(p, from)
<1>1. Since(p, later) \subseteq Since(p, from)
  <2>1. \A i \in 1 .. Len(p) : p[i].time \in Nat
    BY StakeTypes
  <2>2. DOMAIN p = 1 .. Len(p)
    OBVIOUS
  <2> QED BY <2>1, <2>2 DEF Since
<1>2. IsFiniteSet(Since(p, from)) /\ \A i \in Since(p, from) : StakeOf(p)[i] \in Nat
  BY StakeTypes
<1>3. Total(StakeOf(p), Since(p, later)) <= Total(StakeOf(p), Since(p, from))
  BY <1>1, <1>2, TotalSubset
<1> QED BY <1>3, StakeTypes

\* One more bet adds its stake at most.
LEMMA StakedAppend ==
    ASSUME NEW p \in Seq(Bet), NEW b \in Bet, NEW from
    PROVE  StakedSince(Append(p, b), from) <= StakedSince(p, from) + b.amount
<1> DEFINE q == Append(p, b)
           n == Len(p) + 1
<1>1. /\ q \in Seq(Bet) /\ Len(q) = n /\ Len(p) \in Nat /\ q[n] = b
      /\ DOMAIN q = 1 .. n /\ DOMAIN p = 1 .. Len(p)
      /\ \A i \in 1 .. Len(p) : q[i] = p[i]
  OBVIOUS
<1> HIDE DEF q
<1>2. /\ IsFiniteSet(Since(p, from)) /\ Since(p, from) \subseteq 1 .. Len(p)
      /\ \A i \in 1 .. Len(p) : StakeOf(p)[i] = p[i].amount
  BY StakeTypes
<1>3. \A i \in 1 .. n : StakeOf(q)[i] = q[i].amount /\ StakeOf(q)[i] \in Nat
  BY <1>1, StakeTypes
<1>4. Since(q, from) \subseteq Since(p, from) \cup {n}
  BY <1>1 DEF Since
<1>5. IsFiniteSet(Since(p, from) \cup {n})
  BY <1>2, FS_AddElement
<1>6. \A i \in Since(p, from) \cup {n} : StakeOf(q)[i] \in Nat
  BY <1>1, <1>2, <1>3
<1>7. Total(StakeOf(q), Since(q, from)) <= Total(StakeOf(q), Since(p, from) \cup {n})
  BY <1>4, <1>5, <1>6, TotalSubset
<1>8. Total(StakeOf(q), Since(p, from) \cup {n}) <= Total(StakeOf(q), Since(p, from)) + StakeOf(q)[n]
  <2>1. (\A i \in Since(p, from) : StakeOf(q)[i] \in Nat) /\ StakeOf(q)[n] \in Nat
    BY <1>6
  <2> QED BY <1>2, <2>1, TotalInsert
<1>9. Total(StakeOf(q), Since(p, from)) = Total(StakeOf(p), Since(p, from))
  <2>1. \A i \in Since(p, from) : StakeOf(q)[i] = StakeOf(p)[i]
    BY <1>1, <1>2, <1>3
  <2> QED BY <2>1, TotalSame
<1>10. StakeOf(q)[n] = b.amount /\ b.amount \in Nat
  <2>1. b.amount \in Nat
    BY BetFields
  <2>2. n \in 1 .. n
    BY <1>1
  <2>3. StakeOf(q)[n] = q[n].amount
    BY <1>3, <2>2
  <2> QED BY <1>1, <2>1, <2>3
<1>11. /\ StakedSince(q, from) = Total(StakeOf(q), Since(q, from))
       /\ StakedSince(p, from) = Total(StakeOf(p), Since(p, from))
  BY <1>1, StakeTypes
<1>12. /\ StakedSince(q, from) \in Nat /\ StakedSince(p, from) \in Nat
       /\ Total(StakeOf(q), Since(p, from) \cup {n}) \in Nat
  BY <1>1, <1>5, <1>6, StakedType, UnitsFinite
<1>13. StakedSince(q, from) <= StakedSince(p, from) + b.amount
  BY <1>7, <1>8, <1>9, <1>10, <1>11, <1>12
<1> QED BY <1>13 DEF q

\* The bets up to one that was placed before are the same.
LEMMA Prefixes ==
    ASSUME NEW p \in Seq(Bet), NEW b \in Bet
    PROVE  /\ \A i \in 1 .. Len(p) : SubSeq(Append(p, b), 1, i) = SubSeq(p, 1, i)
           /\ SubSeq(Append(p, b), 1, Len(p) + 1) = Append(p, b)
OBVIOUS

(***************************************************************************)
(* The calendar                                                            *)
(***************************************************************************)

\* The day of the next slot starts no earlier.
LEMMA TodayMonotone ==
    ASSUME NEW t \in Nat
    PROVE  Today(t) \in Nat /\ Today(t + 1) \in Nat /\ Today(t) <= Today(t + 1)
<1> DEFINE m == SlotsPerDay
           a == t \div m
           b == (t + 1) \div m
<1>1. m \in Nat \ {0}
  BY ComplianceAssumption
<1> HIDE DEF m
<1>2. a \in Nat /\ m * a <= t /\ t < m * a + m
  BY <1>1
<1>3. b \in Nat /\ m * b <= t + 1 /\ t + 1 < m * b + m
  BY <1>1
<1> HIDE DEF a, b
<1>4. a <= b
  <2> SUFFICES ASSUME b + 1 <= a PROVE FALSE
    BY <1>2, <1>3
  <2>1. m * (a - (b + 1)) >= 0
    BY <1>1, <1>2, <1>3
  <2>2. m * (a - (b + 1)) = m * a - (m * b + m)
    BY <1>1, <1>2, <1>3
  <2>3. m * a \in Int /\ m * b \in Int
    BY <1>1, <1>2, <1>3
  <2> QED BY <1>1, <1>2, <1>3, <2>1, <2>2, <2>3
<1>5. m * (b - a) >= 0 /\ m * (b - a) = b * m - a * m
  BY <1>1, <1>2, <1>3, <1>4
<1>6. a * m \in Nat /\ b * m \in Nat
  BY <1>1, <1>2, <1>3
<1>7. a * m <= b * m
  BY <1>5, <1>6
<1> QED BY <1>6, <1>7 DEF Today, a, b, m

\* The month of a slot starts at the last of the month starts before it.
LEMMA MonthStartIs ==
    ASSUME NEW t \in Nat
    PROVE  /\ MonthStart(t) \in MonthStarts /\ MonthStart(t) \in Nat /\ MonthStart(t) <= t
           /\ \A s \in MonthStarts : s <= t => s <= MonthStart(t)
<1> DEFINE S == {s \in MonthStarts : s <= t}
           T == {n \in Nat : t - n \in S}
<1>1. MonthStarts \subseteq Nat /\ 0 \in MonthStarts
  BY ComplianceAssumption
<1>2. T # {} /\ T \subseteq Nat
  <2>1. t \in T
    BY <1>1
  <2> QED BY <2>1
<1>3. PICK n \in T : \A k \in T : ~ (<<k, n>> \in OpToRel(<, Nat))
  BY <1>2, NatLessThanWellFounded, WFMin
<1>4. \A k \in T : ~ (k < n)
  BY <1>2, <1>3 DEF OpToRel
<1>5. \A s \in S : t - n >= s
  <2> SUFFICES ASSUME NEW s \in S PROVE t - n >= s
    OBVIOUS
  <2>1. t - s \in T
    BY <1>1
  <2> QED BY <1>1, <1>2, <1>4, <2>1
<1>6. t - n \in S
  OBVIOUS
<1>7. MonthStart(t) \in S /\ \A s \in S : MonthStart(t) >= s
  BY <1>5, <1>6 DEF MonthStart, Max
<1> QED BY <1>1, <1>7

LEMMA MonthStartMonotone ==
    ASSUME NEW t \in Nat
    PROVE  /\ MonthStart(t) \in Nat /\ MonthStart(t + 1) \in Nat
           /\ MonthStart(t) <= MonthStart(t + 1)
<1>1. t + 1 \in Nat
  OBVIOUS
<1>2. /\ MonthStart(t) \in MonthStarts /\ MonthStart(t) \in Nat /\ MonthStart(t) <= t
      /\ MonthStart(t + 1) \in Nat
      /\ \A s \in MonthStarts : s <= t + 1 => s <= MonthStart(t + 1)
  BY <1>1, MonthStartIs
<1> QED BY <1>2

(***************************************************************************)
(* The limits                                                              *)
(***************************************************************************)

\* The types that the sums need.
LEMMA LimitTypes ==
    ASSUME ComplianceInv
    PROVE  /\ bets \in Seq(Bet) /\ now \in Nat /\ Len(bets) \in Nat
           /\ DOMAIN bets = 1 .. Len(bets) /\ \A i \in 1 .. Len(bets) : bets[i] \in Bet
           /\ amount \in [Calls -> Nat] /\ at \in [Calls -> Running \cup {"new", "blocked", "placed"}]
           /\ MaxDailyStake \in Nat /\ MaxMonthlyStake \in Nat
<1>1. bets \in Seq(Bet)
  BY DEF ComplianceInv, TypeOK, Bet
<1>2. amount \in [Calls -> Nat]
  BY ComplianceAssumption DEF ComplianceInv, TypeOK
<1>3. now \in Nat /\ MaxDailyStake \in Nat /\ MaxMonthlyStake \in Nat
  BY ComplianceAssumption DEF ComplianceInv, TypeOK
<1>4. Len(bets) \in Nat /\ DOMAIN bets = 1 .. Len(bets) /\ \A i \in 1 .. Len(bets) : bets[i] \in Bet
  BY <1>1
<1> QED BY <1>1, <1>2, <1>3, <1>4 DEF ComplianceInv, TypeOK

\* Nothing is staked and nobody checks.
LEMMA InitLimits == Init => LimitsInv
<1> SUFFICES ASSUME Init PROVE LimitsInv
  OBVIOUS
<1>1. DOMAIN bets = {} /\ at = [c \in Calls |-> "new"] /\ amount = [c \in Calls |-> 0]
  BY DEF Init
<1>2. CountedLimits /\ \A i \in DOMAIN bets : at[bets[i].by] = "placed"
  BY <1>1 DEF CountedLimits
<1>3. Overlapped
  BY <1>1 DEF Overlapped
<1>4. \A c \in Calls :
          /\ StillFits(c, "daily", AfterDaily, Today(now), MaxDailyStake)
          /\ StillFits(c, "monthly", AfterMonthly, MonthStart(now), MaxMonthlyStake)
  BY <1>1 DEF StillFits, AfterDaily, AfterMonthly
<1> QED BY <1>1, <1>2, <1>3, <1>4 DEF LimitsInv

\* What was placed within the limits stays so, if nothing is placed and the callers of
\* what was placed are left alone.
LEMMA SamePlaced ==
    ASSUME LimitsInv, bets' = bets, met \subseteq met',
           \A i \in DOMAIN bets : /\ errors'[bets[i].by] = errors[bets[i].by]
                                  /\ at'[bets[i].by] = at[bets[i].by]
    PROVE  CountedLimits' /\ (\A i \in DOMAIN bets : at[bets[i].by] = "placed")'
<1>1. \A i \in DOMAIN bets : \A period \in {"daily", "monthly"} :
          CheckedAlone(i, period)' => CheckedAlone(i, period)
  BY DEF CheckedAlone, Alone
<1>2. \A i \in DOMAIN bets : \A from : StakedUpTo(i, from)' = StakedUpTo(i, from)
  BY DEF StakedUpTo
<1> QED BY <1>1, <1>2 DEF LimitsInv, CountedLimits, StakedUpTo

\* A call that is not placing a bet goes on.
Continued(c, label, next) ==
    /\ at[c] = label
    /\ at' = [at EXCEPT ![c] = next]
    /\ UNCHANGED <<now, bets, amount, met>>
    /\ \A d \in Calls \ {c} : clean'[d] = clean[d] /\ errors'[d] = errors[d]
    /\ clean'[c] => clean[c] /\ errors[c] \subseteq errors'[c]

\* What fits still fits, and a call that begins to fit has compared the sum.
LEMMA ContinuedLimits ==
    ASSUME ComplianceInv, LimitsInv, NEW c \in Calls,
           NEW label \in Checks \cup {"new"}, NEW next \in Running \cup {"blocked"},
           Continued(c, label, next),
           label \in AfterDaily \/ StillFits(c, "daily", AfterDaily, Today(now), MaxDailyStake)',
           label \in AfterMonthly \/ StillFits(c, "monthly", AfterMonthly, MonthStart(now), MaxMonthlyStake)'
    PROVE  LimitsInv'
<1>1. /\ at[c] = label /\ UNCHANGED <<now, bets, amount, met>>
      /\ \A d \in Calls : at'[d] = IF d = c THEN next ELSE at[d]
      /\ \A d \in Calls \ {c} : clean'[d] = clean[d] /\ errors'[d] = errors[d]
      /\ clean'[c] => clean[c] /\ errors[c] \subseteq errors'[c]
  BY LimitTypes DEF Continued
<1>2. label # "placed" /\ label # "blocked" /\ next \notin {"new", "placed"}
  BY DEF Checks, Running
<1>3. CountedLimits' /\ (\A i \in DOMAIN bets : at[bets[i].by] = "placed")'
  <2>1. \A i \in DOMAIN bets : bets[i].by \in Calls \ {c}
    BY <1>1, <1>2, LimitTypes DEF LimitsInv, Bet
  <2> QED BY <1>1, <2>1, SamePlaced
<1>4. Overlapped'
  <2>1. \A d \in Calls : at'[d] \in Running /\ amount[d] # 0 => at[d] \in Running
    BY <1>1 DEF LimitsInv, Running
  <2> QED BY <1>1, <2>1 DEF LimitsInv, Overlapped
<1>5. \A d \in Calls : (at[d] = "new" => amount[d] = 0)'
  BY <1>1, <1>2 DEF LimitsInv
<1>6. ASSUME NEW d \in Calls PROVE StillFits(d, "daily", AfterDaily, Today(now), MaxDailyStake)'
  <2>1. StillFits(d, "daily", AfterDaily, Today(now), MaxDailyStake)
    BY DEF LimitsInv
  <2>2. CASE d # c
    BY <1>1, <2>1, <2>2 DEF StillFits, Alone
  <2>3. CASE d = c /\ label \in AfterDaily
    BY <1>1, <2>1, <2>3 DEF StillFits, Alone
  <2> QED BY <2>2, <2>3
<1>7. ASSUME NEW d \in Calls
      PROVE  StillFits(d, "monthly", AfterMonthly, MonthStart(now), MaxMonthlyStake)'
  <2>1. StillFits(d, "monthly", AfterMonthly, MonthStart(now), MaxMonthlyStake)
    BY DEF LimitsInv
  <2>2. CASE d # c
    BY <1>1, <2>1, <2>2 DEF StillFits, Alone
  <2>3. CASE d = c /\ label \in AfterMonthly
    BY <1>1, <2>1, <2>3 DEF StillFits, Alone
  <2> QED BY <2>2, <2>3
<1> QED BY <1>3, <1>4, <1>5, <1>6, <1>7 DEF LimitsInv

LEMMA AnsweredContinues ==
    ASSUME NEW c, NEW label, NEW next, Answered(c, label, next)
    PROVE  Continued(c, label, next)
BY DEF Answered, Continued

\* A stake query that finds no violation, and did not fail, has compared the sum.
LEMMA QueryCompares ==
    ASSUME ComplianceInv, NEW c \in Calls, NEW label \in Checks, NEW next, NEW from, NEW limit \in Nat,
           NEW onError, Query(c, label, WouldExceed(c, from, limit), onError, next),
           clean'[c], label \notin errors'[c]
    PROVE  StakedSince(bets, from) + amount[c] <= limit
<1>1. PICK failed \in BOOLEAN :
          LET fine == clean[c] /\ ~(IF failed THEN onError ELSE WouldExceed(c, from, limit))
          IN  /\ clean' = [clean EXCEPT ![c] = fine]
              /\ errors' = [errors EXCEPT ![c] = IF ~fine THEN {}
                                                 ELSE IF failed THEN @ \cup {label} ELSE @]
  BY DEF Query
<1>2. clean \in [Calls -> BOOLEAN] /\ errors \in [Calls -> SUBSET Checks]
  BY DEF ComplianceInv, TypeOK
<1>3. clean[c] /\ ~(IF failed THEN onError ELSE WouldExceed(c, from, limit))
  BY <1>1, <1>2
<1>4. ~failed
  <2> SUFFICES ASSUME failed PROVE FALSE
    OBVIOUS
  <2>1. errors' = [errors EXCEPT ![c] = @ \cup {label}]
    BY <1>1, <1>3
  <2> QED BY <1>2, <2>1
<1>5. ~WouldExceed(c, from, limit)
  BY <1>3, <1>4
<1>6. StakedSince(bets, from) \in Nat /\ amount[c] \in Nat
  BY LimitTypes, StakedType
<1> QED BY <1>5, <1>6 DEF WouldExceed

\* The queries, one after the other.
LEMMA ChecksKeepLimits ==
    ASSUME ComplianceInv, LimitsInv, NEW c \in Calls,
           \/ CheckDaily(c) \/ CheckWeekly(c) \/ CheckMonthly(c) \/ CheckVerification(c)
           \/ ReadExclusion(c) \/ CompareExclusion(c) \/ Expire(c) \/ CheckCoolingOff(c)
    PROVE  LimitsInv'
<1> DEFINE daily == StillFits(c, "daily", AfterDaily, Today(now), MaxDailyStake)'
           monthly == StillFits(c, "monthly", AfterMonthly, MonthStart(now), MaxMonthlyStake)'
<1>0. TypeOK /\ {MaxDailyStake, MaxMonthlyStake} \subseteq Nat
  BY LimitTypes DEF ComplianceInv
<1>1. CASE CheckDaily(c)
  <2>1. Answered(c, "daily", "weekly")
    BY <1>0, <1>1, QueryAnswered DEF CheckDaily, Checks
  <2>2. at'[c] = "weekly" /\ UNCHANGED <<now, bets, amount>>
    BY <1>0, <2>1 DEF Answered, TypeOK
  <2>3. daily
    <3> SUFFICES ASSUME clean'[c], "daily" \notin errors'[c]
                 PROVE  StakedSince(bets, Today(now)) + amount[c] <= MaxDailyStake
      BY <2>2 DEF StillFits
    <3>1. Query(c, "daily", WouldExceed(c, Today(now), MaxDailyStake), amount[c] > MaxDailyStake, "weekly")
      BY <1>1 DEF CheckDaily
    <3> QED BY <1>0, <3>1, QueryCompares DEF Checks
  <2>4. monthly
    BY <2>2 DEF StillFits, AfterMonthly
  <2> HIDE DEF daily, monthly
  <2> QED BY <2>1, <2>3, <2>4, AnsweredContinues, ContinuedLimits DEF Checks, Running, daily, monthly
<1>2. CASE CheckWeekly(c)
  <2>1. Answered(c, "weekly", "monthly")
    BY <1>0, <1>2, QueryAnswered DEF CheckWeekly, Checks
  <2>2. at'[c] = "monthly"
    BY <1>0, <2>1 DEF Answered, TypeOK
  <2>3. monthly
    BY <2>2 DEF StillFits, AfterMonthly
  <2> QED BY <2>1, <2>3, AnsweredContinues, ContinuedLimits DEF Checks, Running, AfterDaily
<1>3. CASE CheckMonthly(c)
  <2>1. Answered(c, "monthly", "verification")
    BY <1>0, <1>3, QueryAnswered DEF CheckMonthly, Checks
  <2>2. at'[c] = "verification" /\ UNCHANGED <<now, bets, amount>>
    BY <1>0, <2>1 DEF Answered, TypeOK
  <2>3. monthly
    <3> SUFFICES ASSUME clean'[c], "monthly" \notin errors'[c]
                 PROVE  StakedSince(bets, MonthStart(now)) + amount[c] <= MaxMonthlyStake
      BY <2>2 DEF StillFits
    <3>1. Query(c, "monthly", WouldExceed(c, MonthStart(now), MaxMonthlyStake),
                amount[c] > MaxMonthlyStake, "verification")
      BY <1>3 DEF CheckMonthly
    <3> QED BY <1>0, <3>1, QueryCompares DEF Checks
  <2> QED BY <2>1, <2>3, AnsweredContinues, ContinuedLimits DEF Checks, Running, AfterDaily
<1>4. ASSUME NEW label \in {"verification", "exclusion", "compare", "expire", "coolingOff"},
             NEW next \in Running \cup {"blocked"}, Continued(c, label, next)
      PROVE  LimitsInv'
  BY <1>4, ContinuedLimits DEF Checks, AfterDaily, AfterMonthly
<1>5. CASE CheckVerification(c)
  <2>1. Answered(c, "verification", "exclusion")
    BY <1>0, <1>5, QueryAnswered DEF CheckVerification, Checks
  <2> QED BY <1>4, <2>1, AnsweredContinues DEF Running, Checks
<1>6. CASE ReadExclusion(c)
  <2>1. PICK next \in {"compare", "coolingOff", "blocked"} :
            /\ at[c] = "exclusion" /\ at' = [at EXCEPT ![c] = next]
            /\ UNCHANGED <<now, bets, amount, clean, met>>
            /\ \/ UNCHANGED errors
               \/ errors' = [errors EXCEPT ![c] = IF clean[c] THEN @ \cup {"exclusion"} ELSE @]
    BY <1>6 DEF ReadExclusion, AfterExclusion, past
  <2>2. errors[c] \subseteq errors'[c] /\ \A d \in Calls \ {c} : errors'[d] = errors[d]
    BY <1>0, <2>1 DEF TypeOK
  <2>3. Continued(c, "exclusion", next)
    BY <2>1, <2>2 DEF Continued
  <2> QED BY <1>4, <2>3 DEF Running, Checks
<1>7. CASE CompareExclusion(c)
  <2>1. PICK next \in {"expire", "coolingOff", "blocked"} :
            /\ at[c] = "compare" /\ at' = [at EXCEPT ![c] = next]
            /\ UNCHANGED <<now, bets, amount, met>>
            /\ \/ UNCHANGED <<clean, errors>>
               \/ clean' = [clean EXCEPT ![c] = FALSE] /\ errors' = [errors EXCEPT ![c] = {}]
    BY <1>7 DEF CompareExclusion, AfterExclusion, past
  <2>2. /\ \A d \in Calls \ {c} : clean'[d] = clean[d] /\ errors'[d] = errors[d]
        /\ clean'[c] => clean[c] /\ errors[c] \subseteq errors'[c]
    BY <1>0, <2>1 DEF TypeOK
  <2>3. Continued(c, "compare", next)
    BY <2>1, <2>2 DEF Continued
  <2> QED BY <1>4, <2>3 DEF Running, Checks
<1>9. CASE Expire(c)
  <2>1. PICK next \in {"coolingOff", "blocked"} : Continued(c, "expire", next)
    BY <1>9 DEF Expire, AfterExclusion, Continued
  <2> QED BY <1>4, <2>1 DEF Running, Checks
<1>8. CASE CheckCoolingOff(c)
  <2>1. PICK cooling \in BOOLEAN, verdict \in {"passed", "blocked"} :
            Query(c, "coolingOff", cooling, FALSE, verdict)
    BY <1>8 DEF CheckCoolingOff
  <2>2. Answered(c, "coolingOff", verdict)
    BY <1>0, <2>1, QueryAnswered DEF Checks
  <2> QED BY <1>4, <2>2, AnsweredContinues DEF Running
<1> QED BY <1>1, <1>2, <1>3, <1>5, <1>6, <1>7, <1>8, <1>9

\* A check begins, and meets those that are running.
LEMMA BeginLimits ==
    ASSUME ComplianceInv, LimitsInv, NEW c \in Calls,
           ValidateBetPlacement(c) \/ GetUserComplianceStatus(c)
    PROVE  LimitsInv'
<1>0. TypeOK
  BY DEF ComplianceInv
<1>1. CASE GetUserComplianceStatus(c)
  <2>1. ~clean'[c] /\ Continued(c, "new", "exclusion")
    BY <1>0, <1>1 DEF GetUserComplianceStatus, Continued, past, TypeOK
  <2>2. /\ StillFits(c, "daily", AfterDaily, Today(now), MaxDailyStake)'
        /\ StillFits(c, "monthly", AfterMonthly, MonthStart(now), MaxMonthlyStake)'
    BY <2>1 DEF StillFits
  <2> QED BY <2>1, <2>2, ContinuedLimits DEF Running, Checks
<1>2. CASE ValidateBetPlacement(c)
  <2>1. /\ at[c] = "new" /\ at' = [at EXCEPT ![c] = "daily"]
        /\ UNCHANGED <<now, bets, errors>>
        /\ met' = met \cup {{c, d} : d \in {d \in Calls : at[d] \in Running /\ amount[d] # 0}}
        /\ \A d \in Calls \ {c} : amount'[d] = amount[d] /\ clean'[d] = clean[d]
    BY <1>0, <1>2 DEF ValidateBetPlacement, TypeOK
  <2>2. \A d \in Calls : at'[d] = IF d = c THEN "daily" ELSE at[d]
    BY <1>0, <2>1 DEF TypeOK
  <2>3. CountedLimits' /\ (\A i \in DOMAIN bets : at[bets[i].by] = "placed")'
    <3>1. \A i \in DOMAIN bets : bets[i].by \in Calls \ {c}
      BY <2>1, LimitTypes DEF LimitsInv, Bet
    <3> QED BY <2>1, <2>2, <3>1, SamePlaced
  <2>4. Overlapped'
    <3> SUFFICES ASSUME NEW d \in Calls, NEW e \in Calls, d # e,
                        at'[d] \in Running, at'[e] \in Running, amount'[d] # 0, amount'[e] # 0
                 PROVE  {d, e} \in met'
      BY DEF Overlapped
    <3>1. CASE d = c
      BY <2>1, <2>2, <3>1
    <3>2. CASE e = c
      <4>1. {c, d} \in met'
        BY <2>1, <2>2, <3>2
      <4>2. {c, d} = {d, e}
        BY <3>2
      <4> QED BY <4>1, <4>2
    <3>3. CASE d # c /\ e # c
      BY <2>1, <2>2, <3>3 DEF LimitsInv, Overlapped
    <3> QED BY <3>1, <3>2, <3>3
  <2>5. \A d \in Calls : (at[d] = "new" => amount[d] = 0)'
    BY <2>1, <2>2 DEF LimitsInv
  <2>6. \A d \in Calls : Alone(d)' => Alone(d)
    BY <2>1 DEF Alone
  <2>7. ASSUME NEW d \in Calls
        PROVE  /\ StillFits(d, "daily", AfterDaily, Today(now), MaxDailyStake)'
               /\ StillFits(d, "monthly", AfterMonthly, MonthStart(now), MaxMonthlyStake)'
    <3>1. CASE d = c
      BY <2>2, <3>1 DEF StillFits, AfterDaily, AfterMonthly
    <3>2. CASE d # c
      <4>1. /\ StillFits(d, "daily", AfterDaily, Today(now), MaxDailyStake)
            /\ StillFits(d, "monthly", AfterMonthly, MonthStart(now), MaxMonthlyStake)
        BY DEF LimitsInv
      <4> QED BY <2>1, <2>2, <2>6, <3>2, <4>1 DEF StillFits
    <3> QED BY <3>1, <3>2
  <2> QED BY <2>3, <2>4, <2>5, <2>7 DEF LimitsInv
<1> QED BY <1>1, <1>2

\* A bet that fits is placed. Whoever checks at that time has met its caller.
LEMMA PlaceBetLimits ==
    ASSUME ComplianceInv, LimitsInv, NEW c \in Calls, PlaceBet(c)
    PROVE  LimitsInv'
<1> DEFINE new == [time |-> now, amount |-> amount[c], by |-> c]
           n == Len(bets) + 1
<1>1. /\ at[c] = "passed" /\ at' = [at EXCEPT ![c] = "placed"] /\ bets' = Append(bets, new)
      /\ UNCHANGED <<now, amount, clean, errors, met>>
  BY DEF PlaceBet, past
<1>2. \A d \in Calls : at'[d] = IF d = c THEN "placed" ELSE at[d]
  BY <1>1, LimitTypes
<1>3. clean[c] /\ amount[c] \in Amounts /\ amount[c] # 0
  <2>1. c \in Passed
    BY <1>1 DEF Passed
  <2> QED BY <1>1, <2>1, ComplianceAssumption DEF ComplianceInv, TypeOK
<1>4. new \in Bet
  BY <1>3 DEF Bet, ComplianceInv, TypeOK
<1>5. new.time = now /\ new.amount = amount[c] /\ new.by = c
  OBVIOUS
<1> HIDE DEF new
<1>6. /\ Len(bets) \in Nat /\ DOMAIN bets = 1 .. Len(bets) /\ DOMAIN bets' = 1 .. n /\ bets'[n] = new
      /\ \A i \in 1 .. Len(bets) : bets'[i] = bets[i]
  BY <1>1, <1>4, LimitTypes
<1>7. /\ \A i \in 1 .. Len(bets) : SubSeq(bets', 1, i) = SubSeq(bets, 1, i)
      /\ SubSeq(bets', 1, n) = bets'
  BY <1>1, <1>4, LimitTypes, Prefixes
<1>8. \A from : StakedSince(bets', from) <= StakedSince(bets, from) + amount[c]
  BY <1>1, <1>4, <1>5, LimitTypes, StakedAppend
<1>9. \A from : StakedSince(bets', from) \in Nat /\ StakedSince(bets, from) + amount[c] \in Nat
  <2>1. amount[c] \in Nat /\ bets \in Seq(Bet)
    BY LimitTypes
  <2>2. bets' \in Seq(Bet)
    BY <1>1, <1>4, <2>1
  <2>3. \A from : StakedSince(bets', from) \in Nat /\ StakedSince(bets, from) \in Nat
    BY <2>1, <2>2, StakedType
  <2> QED BY <2>1, <2>3
<1>10. /\ "daily" \notin errors[c] /\ Alone(c) => StakedSince(bets, Today(now)) + amount[c] <= MaxDailyStake
       /\ "monthly" \notin errors[c] /\ Alone(c) =>
             StakedSince(bets, MonthStart(now)) + amount[c] <= MaxMonthlyStake
  BY <1>1, <1>3 DEF LimitsInv, StillFits, AfterDaily, AfterMonthly
<1>11. CountedLimits'
  <2> SUFFICES ASSUME NEW i \in DOMAIN bets'
               PROVE  /\ CheckedAlone(i, "daily")' =>
                            StakedUpTo(i, Today(bets[i].time))' <= MaxDailyStake
                      /\ CheckedAlone(i, "monthly")' =>
                            StakedUpTo(i, MonthStart(bets[i].time))' <= MaxMonthlyStake
    BY DEF CountedLimits
  <2>1. CASE i \in DOMAIN bets
    <3>1. bets'[i] = bets[i] /\ SubSeq(bets', 1, i) = SubSeq(bets, 1, i)
      BY <1>6, <1>7, <2>1
    <3>2. \A period : CheckedAlone(i, period)' => CheckedAlone(i, period)
      BY <1>1, <3>1 DEF CheckedAlone, Alone
    <3>3. /\ StakedUpTo(i, Today(bets[i].time))' = StakedUpTo(i, Today(bets[i].time))
          /\ StakedUpTo(i, MonthStart(bets[i].time))' = StakedUpTo(i, MonthStart(bets[i].time))
      BY <3>1 DEF StakedUpTo
    <3> QED BY <2>1, <3>2, <3>3 DEF LimitsInv, CountedLimits
  <2>2. CASE i = n
    <3>1. bets'[i] = new /\ SubSeq(bets', 1, i) = bets'
      BY <1>6, <1>7, <2>2
    <3>2. \A period : CheckedAlone(i, period)' => period \notin errors[c] /\ Alone(c)
      BY <1>1, <1>5, <3>1 DEF CheckedAlone, Alone
    <3>3. /\ StakedUpTo(i, Today(bets[i].time))' = StakedSince(bets', Today(now))
          /\ StakedUpTo(i, MonthStart(bets[i].time))' = StakedSince(bets', MonthStart(now))
      BY <1>5, <3>1 DEF StakedUpTo
    <3>4. /\ StakedSince(bets', Today(now)) <= StakedSince(bets, Today(now)) + amount[c]
          /\ StakedSince(bets', MonthStart(now)) <= StakedSince(bets, MonthStart(now)) + amount[c]
          /\ StakedSince(bets', Today(now)) \in Nat /\ StakedSince(bets, Today(now)) + amount[c] \in Nat
          /\ StakedSince(bets', MonthStart(now)) \in Nat
          /\ StakedSince(bets, MonthStart(now)) + amount[c] \in Nat
      BY <1>8, <1>9
    <3>5. MaxDailyStake \in Nat /\ MaxMonthlyStake \in Nat
      BY LimitTypes
    <3> QED BY <1>10, <3>2, <3>3, <3>4, <3>5
  <2> QED BY <1>6, <2>1, <2>2
<1>12. Overlapped'
  <2>1. \A d \in Calls : at'[d] \in Running => at[d] \in Running
    BY <1>2 DEF Running, Checks
  <2> QED BY <1>1, <2>1 DEF LimitsInv, Overlapped
<1>13. (\A i \in DOMAIN bets : at[bets[i].by] = "placed")'
  <2> SUFFICES ASSUME NEW i \in DOMAIN bets' PROVE at'[bets'[i].by] = "placed"
    OBVIOUS
  <2>1. CASE i = n
    BY <1>2, <1>5, <1>6, <2>1
  <2>2. CASE i \in DOMAIN bets
    <3>1. bets'[i] = bets[i] /\ bets[i].by \in Calls /\ at[bets[i].by] = "placed"
      BY <1>6, <2>2, LimitTypes DEF LimitsInv, Bet
    <3> QED BY <1>2, <3>1
  <2> QED BY <1>6, <2>1, <2>2
<1>14. \A d \in Calls : (at[d] = "new" => amount[d] = 0)'
  BY <1>1, <1>2 DEF LimitsInv
<1>15. ASSUME NEW d \in Calls
       PROVE  /\ StillFits(d, "daily", AfterDaily, Today(now), MaxDailyStake)'
              /\ StillFits(d, "monthly", AfterMonthly, MonthStart(now), MaxMonthlyStake)'
  <2>1. ~(at'[d] \in AfterDaily /\ clean'[d] /\ Alone(d)')
    <3> SUFFICES ASSUME at'[d] \in AfterDaily, clean[d], Alone(d) PROVE FALSE
      BY <1>1 DEF Alone
    <3>1. d # c /\ at[d] \in AfterDaily
      BY <1>2 DEF AfterDaily, AfterMonthly
    <3>2. amount[d] # 0
      BY <3>1, ComplianceAssumption DEF ComplianceInv, AfterDaily, AfterMonthly
    <3>3. at[c] \in Running /\ at[d] \in Running
      BY <1>1, <3>1 DEF AfterDaily, AfterMonthly, Running, Checks
    <3>4. {d, c} \in met
      BY <1>3, <3>1, <3>2, <3>3 DEF LimitsInv, Overlapped
    <3> QED BY <3>1, <3>4 DEF Alone
  <2> QED BY <2>1 DEF StillFits, AfterDaily
<1> QED BY <1>11, <1>12, <1>13, <1>14, <1>15 DEF LimitsInv

\* Time passes: less counts as staked today, and this month.
LEMMA TickLimits ==
    ASSUME ComplianceInv, LimitsInv, Tick
    PROVE  LimitsInv'
<1>1. UNCHANGED <<bets, at, amount, clean, errors, met>> /\ now' = now + 1
  BY DEF Tick, calls
<1>2. CountedLimits' /\ (\A i \in DOMAIN bets : at[bets[i].by] = "placed")'
  BY <1>1, SamePlaced
<1>3. Overlapped' /\ \A d \in Calls : (at[d] = "new" => amount[d] = 0)'
  BY <1>1 DEF LimitsInv, Overlapped
<1>4. /\ StakedSince(bets, Today(now')) <= StakedSince(bets, Today(now))
      /\ StakedSince(bets, MonthStart(now')) <= StakedSince(bets, MonthStart(now))
  <2>1. now \in Nat /\ bets \in Seq(Bet)
    BY LimitTypes
  <2>2. /\ Today(now) \in Int /\ Today(now') \in Int /\ Today(now) <= Today(now')
        /\ MonthStart(now) \in Int /\ MonthStart(now') \in Int /\ MonthStart(now) <= MonthStart(now')
    <3>1. /\ Today(now) \in Nat /\ Today(now + 1) \in Nat /\ Today(now) <= Today(now + 1)
          /\ MonthStart(now) \in Nat /\ MonthStart(now + 1) \in Nat
          /\ MonthStart(now) <= MonthStart(now + 1)
      BY <2>1, TodayMonotone, MonthStartMonotone
    <3> QED BY <1>1, <3>1
  <2> QED BY <2>1, <2>2, StakedLater
<1>5. /\ \A from : StakedSince(bets, from) \in Nat
      /\ \A d \in Calls : amount[d] \in Nat
      /\ MaxDailyStake \in Nat /\ MaxMonthlyStake \in Nat
  BY LimitTypes, StakedType
<1>6. ASSUME NEW d \in Calls
      PROVE  /\ StillFits(d, "daily", AfterDaily, Today(now), MaxDailyStake)'
             /\ StillFits(d, "monthly", AfterMonthly, MonthStart(now), MaxMonthlyStake)'
  <2>1. /\ StillFits(d, "daily", AfterDaily, Today(now), MaxDailyStake)
        /\ StillFits(d, "monthly", AfterMonthly, MonthStart(now), MaxMonthlyStake)
    BY DEF LimitsInv
  <2>2. /\ StakedSince(bets, Today(now')) \in Nat /\ StakedSince(bets, Today(now)) \in Nat
        /\ StakedSince(bets, MonthStart(now')) \in Nat /\ StakedSince(bets, MonthStart(now)) \in Nat
        /\ amount[d] \in Nat
    BY <1>5
  <2> QED BY <1>1, <1>4, <1>5, <2>1, <2>2 DEF StillFits, Alone
<1> QED BY <1>2, <1>3, <1>6 DEF LimitsInv

\* Nothing changes that the limits depend on.
LEMMA SameLimits ==
    ASSUME LimitsInv, UNCHANGED <<now, bets, at, amount, clean, errors, met>>
    PROVE  LimitsInv'
<1>1. CountedLimits' /\ (\A i \in DOMAIN bets : at[bets[i].by] = "placed")'
  BY SamePlaced
<1>2. Overlapped' /\ \A d \in Calls : (at[d] = "new" => amount[d] = 0)'
  BY DEF LimitsInv, Overlapped
<1>3. \A d \in Calls :
          /\ StillFits(d, "daily", AfterDaily, Today(now), MaxDailyStake)'
          /\ StillFits(d, "monthly", AfterMonthly, MonthStart(now), MaxMonthlyStake)'
  BY DEF LimitsInv, StillFits, Alone
<1> QED BY <1>1, <1>2, <1>3 DEF LimitsInv

\* Every step keeps the stakes within the limits.
LEMMA StepLimits == ComplianceInv /\ LimitsInv /\ [Next]_vars => LimitsInv'
<1> SUFFICES ASSUME ComplianceInv, LimitsInv, [Next]_vars PROVE LimitsInv'
  OBVIOUS
<1>1. CASE Exclude \/ UNCHANGED vars
  <2>1. UNCHANGED <<now, bets, at, amount, clean, errors, met>>
    BY <1>1 DEF Exclude, vars, calls, past
  <2> QED BY <2>1, SameLimits
<1>2. CASE Tick
  BY <1>2, TickLimits
<1>3. ASSUME NEW c \in Calls, Check(c) PROVE LimitsInv'
  BY <1>3, BeginLimits, ChecksKeepLimits DEF Check
<1>4. ASSUME NEW c \in Calls, PlaceBet(c) PROVE LimitsInv'
  BY <1>4, PlaceBetLimits
<1> QED BY <1>1, <1>2, <1>3, <1>4 DEF Next

\* What a call has compared with a limit holds until it places the bet.
THEOREM LimitsInvariant == Spec => []LimitsInv
BY InitLimits, StepLimits, ComplianceInvariant, PTL DEF Spec

(***************************************************************************)
(* The local day: what the check counts is the part of it since midnight    *)
(* UTC, and the part before is what the last bet in it was checked against. *)
(***************************************************************************)

\* A sum over two sets is no larger than the two sums.
LEMMA TotalUnion ==
    ASSUME NEW f, NEW R, NEW S, IsFiniteSet(R), IsFiniteSet(S),
           \A x \in R \cup S : f[x] \in Nat
    PROVE  Total(f, R \cup S) <= Total(f, R) + Total(f, S)
<1>1. Units(f, R \cup S) = Units(f, R) \cup Units(f, S)
  BY DEF Units
<1>2. /\ IsFiniteSet(Units(f, R)) /\ Cardinality(Units(f, R)) \in Nat
      /\ IsFiniteSet(Units(f, S)) /\ Cardinality(Units(f, S)) \in Nat
  BY UnitsFinite DEF Total
<1> DEFINE both == Units(f, R) \cap Units(f, S)
<1>3. IsFiniteSet(both) /\ Cardinality(both) \in Nat
  BY <1>2, FS_Intersection, FS_CardinalityType
<1>4. Cardinality(Units(f, R) \cup Units(f, S))
          = Cardinality(Units(f, R)) + Cardinality(Units(f, S)) - Cardinality(both)
  BY <1>2, FS_Union
<1> HIDE DEF both
<1>5. Cardinality(Units(f, R) \cup Units(f, S)) <= Cardinality(Units(f, R)) + Cardinality(Units(f, S))
  BY <1>2, <1>3, <1>4
<1> QED BY <1>1, <1>5 DEF Total

\* The last of some places.
LEMMA LastPlace ==
    ASSUME NEW n \in Nat, NEW S, S \subseteq 1 .. n, S # {}
    PROVE  \E k \in S : \A j \in S : j <= k
<1> DEFINE T == {m \in Nat : n - m \in S}
<1>1. T # {} /\ T \subseteq Nat
  <2>1. PICK k \in S : TRUE
    OBVIOUS
  <2>2. n - k \in T
    BY <2>1
  <2> QED BY <2>2
<1>2. PICK m \in T : \A x \in T : ~ (<<x, m>> \in OpToRel(<, Nat))
  BY <1>1, NatLessThanWellFounded, WFMin
<1>3. \A x \in T : ~ (x < m)
  BY <1>1, <1>2 DEF OpToRel
<1>4. \A j \in S : j <= n - m
  <2> SUFFICES ASSUME NEW j \in S PROVE j <= n - m
    OBVIOUS
  <2>1. j \in 1 .. n /\ n - j \in T /\ m \in Nat
    BY <1>1
  <2>2. ~ (n - j < m)
    BY <1>3, <2>1
  <2> QED BY <2>1, <2>2
<1> QED BY <1>2, <1>4

\* A slot lies in its days, local and UTC.
LEMMA DayBounds ==
    ASSUME NEW t \in Nat
    PROVE  /\ Midnight(t) \in Int /\ Midnight(t) <= t /\ t < Midnight(t) + SlotsPerDay
           /\ Today(t) \in Nat /\ Today(t) <= t /\ t < Today(t) + SlotsPerDay
<1> DEFINE m == SlotsPerDay
           a == t \div m
           b == (t + Offset) \div m
<1>1. m \in Nat \ {0} /\ Offset \in Nat
  BY ComplianceAssumption
<1> HIDE DEF m
<1>2. a \in Nat /\ m * a <= t /\ t < m * a + m /\ m * a = a * m
  BY <1>1
<1>3. b \in Nat /\ m * b <= t + Offset /\ t + Offset < m * b + m /\ m * b = b * m
  BY <1>1
<1> HIDE DEF a, b
<1>4. a * m \in Nat /\ b * m \in Nat
  BY <1>1, <1>2, <1>3
<1>5. Today(t) = a * m /\ Midnight(t) = b * m - Offset
  BY DEF Today, Midnight, LocalDay, a, b, m
<1> QED BY <1>1, <1>2, <1>3, <1>4, <1>5 DEF m

\* Midnight UTC that ends within a local day begins before it.
LEMMA DayBefore ==
    ASSUME NEW t \in Nat, NEW u \in Nat, Midnight(t) <= u, u < Today(t)
    PROVE  Today(u) <= Midnight(t)
<1> DEFINE m == SlotsPerDay
           a == u \div m
           b == t \div m
<1>1. m \in Nat \ {0}
  BY ComplianceAssumption
<1>2. Midnight(t) \in Int /\ t < Midnight(t) + m /\ Today(t) <= t
  BY DayBounds
<1> HIDE DEF m
<1>3. a \in Nat /\ b \in Nat /\ m * a <= u /\ m * a = a * m
  BY <1>1
<1>4. Today(u) = a * m /\ Today(t) = b * m
  BY DEF Today, a, b, m
<1> HIDE DEF a, b
<1>5. a * m \in Nat /\ b * m \in Nat
  BY <1>1, <1>3
<1>6. a * m < b * m
  BY <1>3, <1>4, <1>5
<1>7. a + 1 <= b
  <2> SUFFICES ASSUME b <= a PROVE FALSE
    BY <1>3
  <2>1. m * (a - b) >= 0 /\ m * (a - b) = a * m - b * m
    BY <1>1, <1>3
  <2> QED BY <1>5, <1>6, <2>1
<1>8. a * m + m <= b * m
  <2>1. m * (b - (a + 1)) >= 0 /\ m * (b - (a + 1)) = b * m - (a * m + m)
    BY <1>1, <1>3, <1>7
  <2> QED BY <1>1, <1>5, <2>1
<1> QED BY <1>1, <1>2, <1>4, <1>5, <1>8

\* The stakes of a local day are those since midnight UTC and those before.
LEMMA DayInTwo ==
    ASSUME ComplianceInv, CountedLimits, NEW i \in DOMAIN bets, DayCheckedAlone(i)
    PROVE  StakedUpTo(i, Midnight(bets[i].time)) <=
               IF Today(bets[i].time) <= Midnight(bets[i].time)
               THEN MaxDailyStake ELSE 2 * MaxDailyStake
<1> DEFINE t == bets[i].time
           L == Midnight(t)
           U == Today(t)
           p == SubSeq(bets, 1, i)
           Before == {j \in 1 .. i : L <= bets[j].time /\ bets[j].time < U}
<1>1. /\ bets \in Seq(Bet) /\ Len(bets) \in Nat /\ i \in 1 .. Len(bets) /\ i \in Nat
      /\ MaxDailyStake \in Nat
  BY LimitTypes
<1>2. \A j \in 1 .. Len(bets) : bets[j].time \in Nat
  BY <1>1, StakeTypes
<1>3. /\ t \in Nat /\ L \in Int /\ U \in Nat /\ L <= t
  BY <1>1, <1>2, DayBounds
<1>4. /\ p \in Seq(Bet) /\ Len(p) = i /\ DOMAIN p = 1 .. i
      /\ \A j \in 1 .. i : p[j] = bets[j] /\ j \in 1 .. Len(bets)
  BY <1>1
<1>5. StakedUpTo(i, L) = StakedSince(p, L)
  BY DEF StakedUpTo
<1>6. StakedSince(p, U) <= MaxDailyStake
  <2>1. CheckedAlone(i, "daily")
    BY <1>1, <1>3 DEF DayCheckedAlone
  <2> QED BY <2>1 DEF CountedLimits, StakedUpTo
<1>7. StakedSince(p, L) \in Nat /\ StakedSince(p, U) \in Nat
  BY <1>4, StakedType
<1> HIDE DEF t, L, U, p
<1>8. CASE U <= L
  <2>1. StakedSince(p, L) <= StakedSince(p, U)
    BY <1>3, <1>4, <1>8, StakedLater
  <2> QED BY <1>1, <1>5, <1>6, <1>7, <1>8, <2>1 DEF t, L, U
<1>9. CASE L < U
  <2>1. /\ IsFiniteSet(Since(p, U)) /\ Since(p, U) \subseteq 1 .. i
        /\ \A j \in 1 .. i : StakeOf(p)[j] \in Nat /\ StakeOf(p)[j] = p[j].amount
        /\ StakedSince(p, U) = Total(StakeOf(p), Since(p, U))
        /\ StakedSince(p, L) = Total(StakeOf(p), Since(p, L))
    BY <1>4, StakeTypes
  <2>2. IsFiniteSet(Before) /\ Before \subseteq 1 .. i
    <3>1. IsFiniteSet(1 .. i)
      BY <1>1, FS_Interval
    <3> QED BY <3>1, FS_Subset
  <2>3. Since(p, L) \subseteq Since(p, U) \cup Before
    BY <1>2, <1>3, <1>4 DEF Since
  <2>4. /\ IsFiniteSet(Since(p, U) \cup Before)
        /\ \A j \in Since(p, U) \cup Before : StakeOf(p)[j] \in Nat
    BY <2>1, <2>2, FS_Union
  <2>5. Total(StakeOf(p), Before) \in Nat /\ Total(StakeOf(p), Before) <= MaxDailyStake
    <3>1. Total(StakeOf(p), Before) \in Nat
      BY <2>1, <2>2, UnitsFinite
    <3>2. CASE Before = {}
      <4>1. Units(StakeOf(p), {}) = {} /\ Cardinality({}) = 0
        BY FS_EmptySet DEF Units
      <4>2. Total(StakeOf(p), Before) = 0
        BY <3>2, <4>1 DEF Total
      <4> QED BY <1>1, <4>2
    <3>3. CASE Before # {}
      <4>1. PICK k \in Before : \A j \in Before : j <= k
        BY <1>1, <2>2, <3>3, LastPlace
      <4> DEFINE q == SubSeq(bets, 1, k)
                 V == Today(bets[k].time)
      <4>2. /\ k \in 1 .. i /\ k \in DOMAIN bets /\ k \in Nat /\ bets[k].time \in Nat
            /\ L <= bets[k].time /\ bets[k].time < U
        BY <1>1, <1>2, <4>1
      <4>3. V \in Nat /\ V <= L
        BY <1>3, <4>2, DayBounds, DayBefore DEF L, U
      <4>4. /\ q \in Seq(Bet) /\ Len(q) = k /\ DOMAIN q = 1 .. k
            /\ \A j \in 1 .. k : q[j] = bets[j] /\ j \in 1 .. i /\ j \in 1 .. Len(bets)
        BY <1>1, <4>2
      <4>5. StakedSince(q, V) <= MaxDailyStake
        <5>1. CheckedAlone(k, "daily")
          BY <4>2 DEF DayCheckedAlone, L, t
        <5> QED BY <4>2, <5>1 DEF CountedLimits, StakedUpTo
      <4> HIDE DEF q, V
      <4>6. /\ IsFiniteSet(Since(q, V)) /\ Since(q, V) \subseteq 1 .. k
            /\ \A j \in 1 .. k : StakeOf(q)[j] \in Nat /\ StakeOf(q)[j] = q[j].amount
            /\ StakedSince(q, V) = Total(StakeOf(q), Since(q, V))
        BY <4>4, StakeTypes
      <4>7. Before \subseteq Since(q, V)
        <5> SUFFICES ASSUME NEW j \in Before PROVE j \in Since(q, V)
          OBVIOUS
        <5>1. j \in 1 .. k /\ bets[j].time \in Nat /\ L <= bets[j].time
          BY <1>2, <4>1, <4>2, <4>4
        <5> QED BY <1>3, <4>3, <4>4, <5>1 DEF Since
      <4>8. Total(StakeOf(q), Before) <= Total(StakeOf(q), Since(q, V))
        BY <4>6, <4>7, TotalSubset
      <4>9. Total(StakeOf(p), Before) = Total(StakeOf(q), Before)
        <5>1. \A j \in Before : StakeOf(p)[j] = StakeOf(q)[j]
          BY <1>4, <2>1, <4>4, <4>6, <4>7
        <5> QED BY <5>1, TotalSame
      <4>10. Total(StakeOf(q), Since(q, V)) \in Nat
        BY <4>6, UnitsFinite
      <4> QED BY <1>1, <3>1, <4>5, <4>6, <4>8, <4>9, <4>10
    <3> QED BY <3>1, <3>2, <3>3
  <2>6. Total(StakeOf(p), Since(p, L)) <= Total(StakeOf(p), Since(p, U) \cup Before)
    BY <2>3, <2>4, TotalSubset
  <2>7. Total(StakeOf(p), Since(p, U) \cup Before)
            <= Total(StakeOf(p), Since(p, U)) + Total(StakeOf(p), Before)
    BY <2>1, <2>2, <2>4, TotalUnion
  <2>8. Total(StakeOf(p), Since(p, U) \cup Before) \in Nat
    BY <2>4, UnitsFinite
  <2>9. StakedSince(p, L) <= 2 * MaxDailyStake
    BY <1>1, <1>6, <1>7, <2>1, <2>5, <2>6, <2>7, <2>8
  <2> QED BY <1>3, <1>5, <1>9, <2>9 DEF t, L, U
<1> QED BY <1>3, <1>8, <1>9

\* The bets that are checked alone stay within the limit of their month, and within that
\* of their day but for midnight UTC.
THEOREM LimitsAreKept == Spec => []DailyAndMonthlyLimits
<1>1. ComplianceInv /\ LimitsInv => DailyAndMonthlyLimits
  BY DayInTwo DEF LimitsInv, CountedLimits, DailyAndMonthlyLimits
<1> QED BY <1>1, ComplianceInvariant, LimitsInvariant, PTL

=============================================================================
