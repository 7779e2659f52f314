--------------------------- MODULE DepositsProofs ---------------------------
(* Proofs about Deposits, for any deposits, callbacks and amounts. *)
EXTENDS Deposits, TLAPS

\* Rounding to shillings moves an amount by half a shilling at most.
LEMMA RoundedClose ==
    ASSUME NEW a \in Nat
    PROVE  Rounded(a) \in Nat /\ Rounded(a) - a <= 50 /\ a - Rounded(a) <= 50
BY DEF Rounded

\* The invariant holds at the start.
LEMMA InitInv == Init => DepositsInv
BY DEF Init, DepositsInv, TypeOK, Progress, Prompted, RowTellsOutcome,
       Running, Answers, Statuses, Rounded

\* Starting a deposit, its row and what the customer does leave the handlers alone.
LEMMA DepositStep ==
    ASSUME DepositsInv, NEW d \in Deposits,
           InitiateDeposit(d) \/ Create(d) \/ Pay(d) \/ Refuse(d)
    PROVE  DepositsInv'
<1> USE DepositsAssumption DEF DepositsInv, handlers, safaricom
<1>1. CASE InitiateDeposit(d)
  <2>1. TypeOK'
    BY <1>1 DEF InitiateDeposit, TypeOK
  <2>2. outcome[d] = "none"
    BY <1>1 DEF InitiateDeposit, Prompted
  <2>3. \A e \in Deposits : Prompted(e)'
    BY <1>1, <2>2 DEF InitiateDeposit, Prompted, TypeOK, Rounded
  <2>4. \A c \in Callbacks : Progress(c)'
    BY <1>1, <2>2 DEF InitiateDeposit, Progress, TypeOK
  <2>5. RowTellsOutcome'
    BY <1>1, <2>2 DEF InitiateDeposit, RowTellsOutcome, TypeOK
  <2> QED BY <2>1, <2>3, <2>4, <2>5
<1>2. CASE Create(d)
  <2>1. TypeOK'
    BY <1>2 DEF Create, TypeOK, Statuses
  <2>2. \A c \in Callbacks : Progress(c)'
    BY <1>2 DEF Create, Progress, TypeOK
  <2>3. \A e \in Deposits : Prompted(e)'
    BY <1>2 DEF Create, Prompted, Rounded
  <2>4. RowTellsOutcome'
    BY <1>2 DEF Create, RowTellsOutcome, TypeOK
  <2> QED BY <2>1, <2>2, <2>3, <2>4
<1>3. CASE Pay(d)
  <2>1. TypeOK'
    BY <1>3, RoundedClose DEF Pay, TypeOK
  <2>2. \A c \in Callbacks : Progress(c)'
    BY <1>3 DEF Pay, Progress, TypeOK
  <2>3. \A e \in Deposits : Prompted(e)'
    BY <1>3 DEF Pay, Prompted, TypeOK, Rounded
  <2>4. RowTellsOutcome'
    BY <1>3 DEF Pay, RowTellsOutcome, TypeOK
  <2> QED BY <2>1, <2>2, <2>3, <2>4
<1>4. CASE Refuse(d)
  <2>1. TypeOK'
    BY <1>4 DEF Refuse, TypeOK
  <2>2. \A c \in Callbacks : Progress(c)'
    BY <1>4 DEF Refuse, Progress, TypeOK
  <2>3. \A e \in Deposits : Prompted(e)'
    BY <1>4 DEF Refuse, Prompted, TypeOK, Rounded
  <2>4. RowTellsOutcome'
    BY <1>4 DEF Refuse, RowTellsOutcome, TypeOK
  <2> QED BY <2>1, <2>2, <2>3, <2>4
<1> QED BY <1>1, <1>2, <1>3, <1>4

\* A statement of handler c touches what c has done, the row of its deposit, in the
\* direction the outcome allows, and what Safaricom waits for.
Effect(c) ==
    LET d == about[c] IN
    /\ UNCHANGED <<push, amount, outcome, paid, about>>
    /\ waiting' \in {waiting, waiting \ {d}}
    /\ \E label \in Running \cup Answers \cup {"dead"} : at' = [at EXCEPT ![c] = label]
    /\ \E n \in {credited[c], credited[c] + 1} : credited' = [credited EXCEPT ![c] = n]
    /\ \E n \in {events[c], events[c] + 1} : events' = [events EXCEPT ![c] = n]
    /\ \/ row' = row
       \/ /\ row[d] # "none"
          /\ \/ row' = [row EXCEPT ![d] = "FAILED"] /\ outcome[d] = "refused"
             \/ row' = [row EXCEPT ![d] = "COMPLETED"] /\ outcome[d] = "paid" /\ credited[c] = 1
    /\ Progress(c)'

LEMMA HandlerEffect ==
    ASSUME DepositsInv, NEW c \in Callbacks, Receive(c) \/ Handle(c) \/ Die(c)
    PROVE  Effect(c)
<1> DEFINE d == about[c]
<1>1. TypeOK /\ Progress(c) /\ Prompted(d) /\ d \in Deposits
  BY DEF DepositsInv, TypeOK
<1>2. /\ credited = [credited EXCEPT ![c] = credited[c]]
      /\ events = [events EXCEPT ![c] = events[c]]
  BY <1>1 DEF TypeOK
<1>3. CASE Receive(c)
  <2>1. UNCHANGED <<push, amount, outcome, paid, about, waiting, credited, events, row>>
    BY <1>3 DEF Receive, safaricom
  <2>2. \E label \in {"markFailed", "lookup"} : at' = [at EXCEPT ![c] = label]
    BY <1>3 DEF Receive
  <2>3. Progress(c)'
    BY <1>1, <1>3, <2>1 DEF Receive, Progress, Prompted, TypeOK
  <2> QED BY <1>2, <2>1, <2>2, <2>3 DEF Effect, Running
<1>4. CASE MarkFailed(c)
  <2>1. UNCHANGED <<push, amount, outcome, paid, about, credited, events>>
    BY <1>4 DEF MarkFailed
  <2>2. outcome[d] = "refused" /\ (row' = row \/ (row[d] # "none" /\ row' = [row EXCEPT ![d] = "FAILED"]))
    BY <1>1, <1>4 DEF MarkFailed, SetStatus, Progress, TypeOK
  <2>3. waiting' \in {waiting, waiting \ {d}} /\ at' = [at EXCEPT ![c] = "noted"]
    BY <1>4 DEF MarkFailed, Answer
  <2>4. Progress(c)'
    BY <1>1, <1>4, <2>1, <2>2, <2>3 DEF MarkFailed, Progress, TypeOK
  <2> QED BY <1>2, <2>1, <2>2, <2>3, <2>4 DEF Effect, Answers
<1>5. CASE Lookup(c)
  <2>1. UNCHANGED <<push, amount, row, outcome, paid, about, credited, events>>
    BY <1>5 DEF Lookup
  <2>2. /\ waiting' \in {waiting, waiting \ {d}}
        /\ \E label \in {"credit", "ignored"} : at' = [at EXCEPT ![c] = label]
    BY <1>5 DEF Lookup, Answer
  <2>3. Progress(c)'
    BY <1>1, <1>5, <2>1 DEF Lookup, Answer, Progress, TypeOK
  <2> QED BY <1>2, <2>1, <2>2, <2>3 DEF Effect, Running, Answers
<1>6. CASE Credit(c)
  <2>1. UNCHANGED <<push, amount, row, outcome, paid, about, events>>
    BY <1>6 DEF Credit
  <2>2. /\ waiting' \in {waiting, waiting \ {d}}
        /\ \E label \in {"markCompleted", "credit failed"} : at' = [at EXCEPT ![c] = label]
    BY <1>6 DEF Credit, Answer
  <2>3. credited' = credited \/ credited' = [credited EXCEPT ![c] = credited[c] + 1]
    BY <1>6 DEF Credit
  <2>4. Progress(c)'
    <3>1. /\ credited[c] = 0 /\ events[c] = 0
          /\ outcome[d] = "paid" /\ row[d] # "none"
      BY <1>1, <1>6 DEF Credit, Progress
    <3>2. credited'[c] \in {0, 1}
      <4>1. credited \in [Callbacks -> Nat]
        BY <1>1 DEF TypeOK
      <4> QED BY <2>3, <3>1, <4>1
    <3>3. at'[c] = "markCompleted" => credited'[c] = 1
      <4>1. credited \in [Callbacks -> Nat] /\ c \in DOMAIN at
        BY <1>1 DEF TypeOK
      <4>2. Answer(c, "credit failed") => at'[c] = "credit failed"
        BY <4>1 DEF Answer
      <4>3. \/ credited' = [credited EXCEPT ![c] = credited[c] + 1]
            \/ Answer(c, "credit failed")
        BY <1>6 DEF Credit
      <4>4. CASE credited' = [credited EXCEPT ![c] = credited[c] + 1]
        BY <3>1, <4>1, <4>4
      <4>5. CASE Answer(c, "credit failed")
        BY <4>2, <4>5
      <4> QED BY <4>3, <4>4, <4>5
    <3>4. at'[c] \in {"markCompleted", "credit failed"}
      BY <1>1, <1>6 DEF Credit, Answer, TypeOK
    <3> QED BY <2>1, <3>1, <3>2, <3>3, <3>4 DEF Progress
  <2>5. \E n \in {credited[c], credited[c] + 1} : credited' = [credited EXCEPT ![c] = n]
    BY <1>2, <2>3
  <2> QED BY <1>2, <2>1, <2>2, <2>4, <2>5 DEF Effect, Running, Answers
<1>7. CASE MarkCompleted(c)
  <2>1. UNCHANGED <<push, amount, outcome, paid, about, waiting, credited, events>>
    BY <1>7 DEF MarkCompleted, safaricom
  <2>2. /\ credited[c] = 1 /\ outcome[d] = "paid" /\ row[d] # "none"
        /\ row' = row \/ row' = [row EXCEPT ![d] = "COMPLETED"]
    BY <1>1, <1>7 DEF MarkCompleted, SetStatus, Progress, TypeOK
  <2>3. at' = [at EXCEPT ![c] = "publish"]
    BY <1>7 DEF MarkCompleted
  <2>4. Progress(c)'
    BY <1>1, <1>7, <2>1, <2>2, <2>3 DEF MarkCompleted, Progress, TypeOK
  <2> QED BY <1>2, <2>1, <2>2, <2>3, <2>4 DEF Effect, Running
<1>8. CASE Publish(c)
  <2>1. UNCHANGED <<push, amount, row, outcome, paid, about, credited>>
    BY <1>8 DEF Publish
  <2>2. waiting' \in {waiting, waiting \ {d}} /\ at' = [at EXCEPT ![c] = "accepted"]
    BY <1>8 DEF Publish, Answer
  <2>3. events' = events \/ events' = [events EXCEPT ![c] = events[c] + 1]
    BY <1>8 DEF Publish
  <2>4. Progress(c)'
    BY <1>1, <1>8, <2>1, <2>2 DEF Publish, Progress, TypeOK
  <2>5. \E n \in {events[c], events[c] + 1} : events' = [events EXCEPT ![c] = n]
    BY <1>2, <2>3
  <2> QED BY <1>2, <2>1, <2>2, <2>4, <2>5 DEF Effect, Answers
<1>9. CASE Die(c)
  <2>1. UNCHANGED <<push, amount, outcome, paid, about, waiting, credited, events, row>>
    BY <1>9 DEF Die, safaricom
  <2>2. at' = [at EXCEPT ![c] = "dead"]
    BY <1>9 DEF Die
  <2>3. Progress(c)'
    BY <1>1, <1>9, <2>1, <2>2 DEF Die, Running, Progress, TypeOK
  <2> QED BY <1>2, <2>1, <2>2, <2>3 DEF Effect
<1> QED BY <1>3, <1>4, <1>5, <1>6, <1>7, <1>8, <1>9 DEF Handle

LEMMA CallbackStep ==
    ASSUME DepositsInv, NEW c \in Callbacks, Effect(c)
    PROVE  DepositsInv'
<1> DEFINE d == about[c]
<1>1. TypeOK /\ d \in Deposits
  BY DEF DepositsInv, TypeOK
<1>2. /\ UNCHANGED <<push, amount, outcome, paid, about>>
      /\ waiting' \subseteq waiting
      /\ Progress(c)'
  BY DEF Effect
<1>3. /\ credited' \in [Callbacks -> Nat] /\ credited'[c] >= credited[c]
      /\ events' \in [Callbacks -> Nat]
      /\ at' \in [Callbacks -> Running \cup Answers \cup {"new", "dead"}]
  BY <1>1 DEF Effect, TypeOK
<1>4. ASSUME NEW k \in Callbacks, k # c
      PROVE  at'[k] = at[k] /\ credited'[k] = credited[k] /\ events'[k] = events[k]
  BY <1>1, <1>4 DEF Effect, TypeOK
<1>5. /\ row' \in [Deposits -> Statuses \cup {"none"}]
      /\ \A e \in Deposits :
            /\ row'[e] = "none" <=> row[e] = "none"
            /\ row'[e] = "FAILED" => row[e] = "FAILED" \/ outcome[e] = "refused"
            /\ row'[e] = "COMPLETED" =>
                  row[e] = "COMPLETED" \/ (e = d /\ outcome[e] = "paid" /\ credited[c] = 1)
  BY <1>1 DEF Effect, TypeOK, Statuses
<1>6. TypeOK'
  BY <1>1, <1>2, <1>3, <1>5 DEF TypeOK
<1>7. ASSUME NEW k \in Callbacks
      PROVE  Progress(k)'
  <2>1. CASE k = c
    BY <2>1, <1>2
  <2>2. CASE k # c
    <3>1. Progress(k) /\ about[k] \in Deposits
      BY DEF DepositsInv, TypeOK
    <3> QED BY <2>2, <3>1, <1>2, <1>4, <1>5 DEF Progress
  <2> QED BY <2>1, <2>2
<1>8. ASSUME NEW e \in Deposits
      PROVE  Prompted(e)'
  BY <1>2 DEF DepositsInv, Prompted, Rounded
<1>9. ASSUME NEW e \in Deposits, row'[e] = "COMPLETED"
      PROVE  outcome'[e] = "paid" /\ \E k \in Callbacks : about'[k] = e /\ credited'[k] > 0
  <2>1. CASE row[e] = "COMPLETED"
    <3>1. outcome[e] = "paid"
      BY <2>1 DEF DepositsInv, RowTellsOutcome
    <3>2. PICK k \in Callbacks : about[k] = e /\ credited[k] > 0
      BY <2>1 DEF DepositsInv, RowTellsOutcome
    <3>3. credited'[k] > 0
      BY <1>1, <1>3, <1>4, <3>2 DEF TypeOK
    <3> QED BY <3>1, <3>2, <3>3, <1>2
  <2>2. CASE e = d /\ outcome[e] = "paid" /\ credited[c] = 1
    BY <2>2, <1>2, <1>3
  <2> QED BY <1>5, <1>9, <2>1, <2>2
<1>10. RowTellsOutcome'
  <2>1. \A k \in Callbacks : credited'[k] > 0 =>
           outcome'[about'[k]] = "paid" /\ row'[about'[k]] # "none"
    BY <1>3, <1>7 DEF Progress
  <2>2. \A e \in Deposits : row'[e] = "FAILED" => outcome'[e] = "refused"
    BY <1>2, <1>5 DEF DepositsInv, RowTellsOutcome
  <2> QED BY <1>9, <2>1, <2>2 DEF RowTellsOutcome
<1> QED BY <1>6, <1>7, <1>8, <1>10 DEF DepositsInv

\* The inductive invariant, at every statement of every handler.
THEOREM DepositsInvariant == Spec => []DepositsInv
<1>1. DepositsInv /\ [Next]_vars => DepositsInv'
  <2>1. CASE UNCHANGED vars
    BY <2>1 DEF vars, safaricom, handlers, DepositsInv, TypeOK, Progress, Prompted,
                RowTellsOutcome, Rounded
  <2> QED BY <2>1, DepositStep, HandlerEffect, CallbackStep DEF Next
<1> QED BY <1>1, InitInv, PTL DEF Spec

\* Every variable keeps its type.
THEOREM TypeCorrect == Spec => []TypeOK
BY DepositsInvariant, PTL DEF DepositsInv

\* Rows and wallets never tell of an outcome that the customer did not cause.
THEOREM RowsTellTheTruth == Spec => []RowTellsOutcome
BY DepositsInvariant, PTL DEF DepositsInv

\* What M-Pesa took and what the wallet got differ by half a shilling at most.
THEOREM RoundingIsBounded == Spec => []WithinHalfShilling
<1>1. DepositsInv => WithinHalfShilling
  BY RoundedClose DEF DepositsInv, TypeOK, Prompted, WithinHalfShilling
<1> QED BY <1>1, DepositsInvariant, PTL

(***************************************************************************)
(* The refinement                                                          *)
(***************************************************************************)

\* Nothing is asked for, recorded or credited.
LEMMA InitPayments == Init => P!Init
BY DEF Init, P!Init

\* A step that only messages and handlers know of.
LEMMA Stutters ==
    ASSUME UNCHANGED <<outcome, row, about, credited>>
    PROVE  UNCHANGED P!vars
BY DEF P!vars

\* What the customer does, and the row.
LEMMA DepositRefines ==
    ASSUME DepositsInv, NEW d \in Deposits,
           InitiateDeposit(d) \/ Create(d) \/ Pay(d) \/ Refuse(d)
    PROVE  P!Next \/ UNCHANGED P!vars
<1>1. UNCHANGED <<about, credited>>
  BY DEF InitiateDeposit, Create, Pay, Refuse, handlers
<1>2. CASE InitiateDeposit(d)
  <2>1. outcome[d] = "none" /\ UNCHANGED row
    BY <1>2 DEF InitiateDeposit, DepositsInv, Prompted
  <2>2. outcome' = outcome \/ outcome' = [outcome EXCEPT ![d] = "prompted"]
    BY <1>2 DEF InitiateDeposit
  <2>3. outcome' = outcome \/ P!Decide(d, "none", "prompted")
    BY <1>1, <2>1, <2>2 DEF P!Decide
  <2> QED BY <1>1, <2>1, <2>3, Stutters DEF P!Next
<1>3. CASE Create(d)
  <2>1. P!Record(d)
    BY <1>1, <1>3 DEF Create, safaricom, DepositsInv, Prompted, P!Record
  <2> QED BY <2>1 DEF P!Next
<1>4. CASE Pay(d)
  <2>1. P!Decide(d, "prompted", "paid")
    BY <1>1, <1>4 DEF Pay, P!Decide
  <2> QED BY <2>1 DEF P!Next
<1>5. CASE Refuse(d)
  <2>1. P!Decide(d, "prompted", "refused")
    BY <1>1, <1>5 DEF Refuse, P!Decide
  <2> QED BY <2>1 DEF P!Next
<1> QED BY <1>2, <1>3, <1>4, <1>5

\* A statement of a handler credits once, or closes a row that is PENDING, or repeats
\* the status that is there.
LEMMA HandlerRefines ==
    ASSUME DepositsInv, NEW c \in Callbacks, Receive(c) \/ Handle(c) \/ Die(c)
    PROVE  P!Next \/ UNCHANGED P!vars
<1> DEFINE d == about[c]
<1>1. TypeOK /\ Progress(c) /\ d \in Deposits
  BY DEF DepositsInv, TypeOK
<1>2. Effect(c)
  BY HandlerEffect
<1>3. UNCHANGED <<outcome, about>>
  BY <1>2 DEF Effect
<1>4. CASE credited' # credited
  <2>1. /\ at[c] = "credit" /\ UNCHANGED row
        /\ credited' = [credited EXCEPT ![c] = credited[c] + 1]
    BY <1>4 DEF Receive, Handle, MarkFailed, Lookup, Credit, MarkCompleted, Publish, Die
  <2>2. outcome[d] = "paid" /\ row[d] # "none" /\ credited[c] = 0
    BY <1>1, <2>1 DEF Progress
  <2>3. P!Credit(c)
    BY <1>3, <2>1, <2>2 DEF P!Credit
  <2> QED BY <2>3 DEF P!Next
<1>5. CASE credited' = credited /\ row' = row
  BY <1>3, <1>5, Stutters
<1>6. CASE credited' = credited /\ row' # row
  <2>1. /\ row[d] # "none"
        /\ \/ row' = [row EXCEPT ![d] = "FAILED"] /\ outcome[d] = "refused"
           \/ row' = [row EXCEPT ![d] = "COMPLETED"] /\ outcome[d] = "paid" /\ credited[c] = 1
    BY <1>2, <1>6 DEF Effect
  <2>2. row[d] = "PENDING"
    <3>1. row[d] \in {"PENDING", "COMPLETED", "FAILED"} /\ row = [row EXCEPT ![d] = row[d]]
      BY <1>1, <2>1 DEF TypeOK, Statuses
    <3>2. /\ row[d] = "COMPLETED" => outcome[d] = "paid"
          /\ row[d] = "FAILED" => outcome[d] = "refused"
      BY <1>1 DEF DepositsInv, RowTellsOutcome
    <3> QED BY <1>6, <2>1, <3>1, <3>2
  <2>3. CASE row' = [row EXCEPT ![d] = "FAILED"] /\ outcome[d] = "refused"
    <3>1. P!Close(d, "FAILED")
      BY <1>3, <1>6, <2>2, <2>3 DEF P!Close
    <3> QED BY <1>1, <3>1 DEF P!Next
  <2>4. CASE row' = [row EXCEPT ![d] = "COMPLETED"] /\ outcome[d] = "paid" /\ credited[c] = 1
    <3>1. P!Close(d, "COMPLETED")
      BY <1>3, <1>6, <2>2, <2>4 DEF P!Close
    <3> QED BY <1>1, <3>1 DEF P!Next
  <2> QED BY <2>1, <2>3, <2>4
<1> QED BY <1>4, <1>5, <1>6

\* Repeated, early and interrupted callbacks implement the plain deposits of Payments.
THEOREM DepositsImplementPayments == Spec => RefinesPayments
<1>1. DepositsInv /\ [Next]_vars => [P!Next]_P!vars
  <2>1. CASE UNCHANGED vars
    BY <2>1, Stutters DEF vars, safaricom, handlers
  <2> QED BY <2>1, DepositRefines, HandlerRefines DEF Next
<1> QED BY <1>1, InitPayments, DepositsInvariant, PTL DEF Spec, RefinesPayments, P!Spec

=============================================================================
