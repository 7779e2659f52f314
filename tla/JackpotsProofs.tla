--------------------------- MODULE JackpotsProofs ---------------------------
(***************************************************************************)
(* Proofs about Jackpots, for any calls, bets and combinations. A ticket is *)
(* marked before it is paid, so a draw that reads the tickets later does    *)
(* not find it (Sealed); a row read after a draw is over is a completed one *)
(* and nobody writes anything else back (Frozen). The pool rests on that: a *)
(* call adds its own contribution to a pool that it has read when it did    *)
(* not hold it (ReadIsBacked, OwnTicket).                                   *)
(***************************************************************************)
EXTENDS Jackpots, FiniteSetTheorems, TLAPS

\* No call has started.
LEMMA InitInv == Init => JackpotsInv
<1> SUFFICES ASSUME Init PROVE JackpotsInv
  OBVIOUS
<1> USE JackpotsAssumption DEF Init
<1>1. jackpot \in JackpotRows
  BY DEF JackpotRows
<1>2. TypeOK
  BY <1>1 DEF TypeOK
<1>3. Overlapped /\ PaidTwiceOverlapped
  BY DEF Overlapped, PaidTwiceOverlapped, Running
<1>4. \A c \in Calls : Progress(c) /\ Frozen(c)
  BY DEF Progress, Frozen
<1>5. \A c, d \in Calls : Sealed(c, d)
  BY DEF Sealed, Running
<1> QED BY <1>2, <1>3, <1>4, <1>5 DEF JackpotsInv

(***************************************************************************)
(* What most steps have in common                                          *)
(***************************************************************************)

\* A running call takes a step.
LEMMA SameOverlaps ==
    ASSUME JackpotsInv, NEW c \in Calls, at[c] \in Running, NEW label,
           at' = [at EXCEPT ![c] = label], met' = met
    PROVE  Overlapped'
BY DEF JackpotsInv, TypeOK, Overlapped

\* A step that pays nothing and chooses nothing.
LEMMA SameWinners ==
    ASSUME JackpotsInv, NEW c \in Calls, at[c] \in Running, NEW label,
           at' = [at EXCEPT ![c] = label], label \notin {"credit", "complete"},
           UNCHANGED <<prizes, winner, candidates, met>>
    PROVE  PaidTwiceOverlapped' /\ \A d, e \in Calls : Sealed(d, e)'
<1>1. PaidTwiceOverlapped'
  BY DEF JackpotsInv, PaidTwiceOverlapped
<1>2. \A d, t \in Calls : Marked(d, t)' => Marked(d, t)
  BY DEF JackpotsInv, TypeOK, Marked
<1>3. \A d \in Calls : at'[d] \in Running => at[d] \in Running
  BY DEF JackpotsInv, TypeOK
<1>4. \A d \in Calls : candidates[d] \subseteq Calls
  BY DEF JackpotsInv, TypeOK
<1>5. \A d, e \in Calls : Sealed(d, e)'
  BY <1>2, <1>3, <1>4 DEF JackpotsInv, Sealed
<1> QED BY <1>1, <1>5

\* The calls that do not take the step, whose tickets may be created or marked by it.
LEMMA OthersProgress ==
    ASSUME JackpotsInv, NEW c \in Calls, NEW d \in Calls, c # d,
           /\ at'[d] = at[d] /\ numbers'[d] = numbers[d] /\ bet'[d] = bet[d]
           /\ candidates'[d] = candidates[d] /\ winner'[d] = winner[d]
           /\ \A t \in Calls : prizes'[t][d] = prizes[t][d],
           \A t \in Calls : \/ ticket'[t] = ticket[t]
                            \/ ticket[t] # "none" /\ ticket'[t] = "WINNER"
                            \/ t = c /\ ticket[t] = "none" /\ ticket'[t] # "none"
    PROVE  Progress(d)'
<1>1. Progress(d) /\ candidates[d] \subseteq Calls
  BY DEF JackpotsInv, TypeOK
<1>2. at[d] \in {"credit", "complete"} => winner[d] \in Calls
  BY <1>1 DEF Progress
<1> QED BY <1>1, <1>2 DEF Progress

\* A step that leaves the row alone, or writes back what the call has read.
LEMMA SameOrOlderRow ==
    ASSUME JackpotsInv, NEW c \in Calls, at[c] \in Running, NEW label,
           at' = [at EXCEPT ![c] = label], UNCHANGED <<met, read>>,
           \A d \in Calls \ {c} : winner'[d] = winner[d],
           \/ at[c] \in {"createTicket", "addToPool"}
           \/ /\ label \notin {"createTicket", "addToPool"} \/ read[c].status # "COMPLETED"
              /\ jackpot'.pool \in {jackpot.pool, read[c].pool}
              /\ jackpot'.status \in {jackpot.status, read[c].status, "COMPLETED"},
           label = "ok" =>
              \/ winner'[c] = NoCall
              \/ jackpot'.status = "COMPLETED" /\ jackpot'.pool = read[c].pool
    PROVE  \A d \in Calls : Frozen(d)'
<1> SUFFICES ASSUME NEW d \in Calls, at'[d] = "ok", winner'[d] # NoCall, Met(d)' = {}
             PROVE  /\ jackpot'.status = "COMPLETED" /\ jackpot'.pool = read'[d].pool
                    /\ \A e \in Calls : at'[e] \in Running =>
                          /\ read'[e].status = "COMPLETED" /\ read'[e].pool = read'[d].pool
                          /\ at'[e] \notin {"createTicket", "addToPool"}
  BY DEF Frozen
<1>1. \A e \in Calls : at'[e] = IF e = c THEN label ELSE at[e]
  BY DEF JackpotsInv, TypeOK
<1>2. \A e \in Calls \ {d} : {d, e} \notin met
  BY DEF Met
<1>3. CASE d = c
  <2>1. \A e \in Calls : at'[e] \notin Running
    BY <1>1, <1>2, <1>3 DEF JackpotsInv, Overlapped, Running
  <2> QED BY <1>1, <1>3, <2>1
<1>4. CASE d # c
  <2>1. at[d] = "ok" /\ winner[d] # NoCall /\ Met(d) = {}
    BY <1>1, <1>4 DEF Met
  <2>2. /\ jackpot.status = "COMPLETED" /\ jackpot.pool = read[d].pool
        /\ \A e \in Calls : at[e] \in Running =>
              /\ read[e].status = "COMPLETED" /\ read[e].pool = read[d].pool
              /\ at[e] \notin {"createTicket", "addToPool"}
    BY <2>1 DEF JackpotsInv, Frozen
  <2> QED BY <1>1, <2>2
<1> QED BY <1>3, <1>4

\* A call reads the row and runs next to those that are running.
LEMMA BeginStep ==
    ASSUME JackpotsInv, NEW c \in Calls, NEW next \in {"validate", "getTickets"}, Begin(c, next)
    PROVE  JackpotsInv'
<1> USE JackpotsAssumption DEF Goto, request
<1>1. /\ at[c] = "new" /\ at' = [at EXCEPT ![c] = next] /\ read' = [read EXCEPT ![c] = jackpot]
      /\ met' = met \cup {{c, d} : d \in InFlight}
      /\ UNCHANGED <<jackpot, ticket, bet, numbers, candidates, winner, prizes>>
  BY DEF Begin
<1>2. \A d \in Calls : at'[d] = IF d = c THEN next ELSE at[d]
  BY <1>1 DEF JackpotsInv, TypeOK
<1>3. TypeOK'
  <2>1. met' \subseteq Pairs
    BY <1>1 DEF JackpotsInv, TypeOK, Pairs, InFlight
  <2> QED BY <1>1, <2>1 DEF JackpotsInv, TypeOK, Running
<1>4. Overlapped'
  <2> SUFFICES ASSUME NEW d \in Calls, NEW e \in Calls, d # e, at'[d] \in Running, at'[e] \in Running
               PROVE  {d, e} \in met'
    BY DEF Overlapped
  <2>1. CASE d = c
    <3>1. e \in InFlight
      BY <1>2, <2>1 DEF InFlight
    <3> QED BY <1>1, <2>1, <3>1
  <2>2. CASE e = c
    <3>1. d \in InFlight /\ {d, e} = {c, d}
      BY <1>2, <2>2 DEF InFlight
    <3> QED BY <1>1, <3>1
  <2>3. CASE d # c /\ e # c
    BY <1>1, <1>2, <2>3 DEF JackpotsInv, Overlapped
  <2> QED BY <2>1, <2>2, <2>3
<1>5. PaidTwiceOverlapped'
  BY <1>1 DEF JackpotsInv, PaidTwiceOverlapped
<1>6. ASSUME NEW d \in Calls PROVE Progress(d)'
  <2>1. CASE d = c
    BY <1>1, <1>2, <2>1 DEF JackpotsInv, Progress
  <2>2. CASE d # c
    BY <1>1, <1>2, <2>2, OthersProgress
  <2> QED BY <2>1, <2>2
<1>7. ASSUME NEW d \in Calls, NEW e \in Calls PROVE Sealed(d, e)'
  <2>1. candidates[c] = {}
    BY <1>1 DEF JackpotsInv, Progress
  <2>2. \A t \in Calls : Marked(d, t)' => Marked(d, t)
    BY <1>1, <1>2 DEF Marked
  <2>3. candidates[e] \subseteq Calls
    BY DEF JackpotsInv, TypeOK
  <2> QED BY <1>1, <1>2, <2>1, <2>2, <2>3 DEF JackpotsInv, Sealed
<1>8. ASSUME NEW d \in Calls PROVE Frozen(d)'
  <2> SUFFICES ASSUME at'[d] = "ok", winner'[d] # NoCall, Met(d)' = {} PROVE Frozen(d)'
    BY DEF Frozen
  <2>1. d # c /\ at[d] = "ok" /\ winner[d] # NoCall /\ Met(d) = {}
    BY <1>1, <1>2 DEF Met
  <2>2. Frozen(d) /\ read \in [Calls -> JackpotRows]
    BY DEF JackpotsInv, TypeOK
  <2> QED BY <1>1, <1>2, <2>1, <2>2 DEF Frozen
<1> QED BY <1>3, <1>4, <1>5, <1>6, <1>7, <1>8 DEF JackpotsInv

(***************************************************************************)
(* Purchases                                                               *)
(***************************************************************************)

\* A row with another pool or status is a row.
LEMMA RowParts ==
    ASSUME NEW r \in JackpotRows
    PROVE  /\ r.pool \in Nat /\ r.status \in {"ACTIVE", "COMPLETED"} /\ r.winner \in Calls \cup {NoCall}
           /\ \A p \in Nat : /\ [r EXCEPT !.pool = p] \in JackpotRows
                             /\ [r EXCEPT !.pool = p].pool = p
                             /\ [r EXCEPT !.pool = p].status = r.status
BY DEF JackpotRows

LEMMA ContributionType ==
    ASSUME JackpotsInv, NEW c \in Calls
    PROVE  Contribution(c) \in Nat
<1>1. bet[c] \in Bets \cup {0}
  BY DEF JackpotsInv, TypeOK
<1>2. CASE bet[c] \in Bets
  <2>1. bet[c] \in Nat
    BY <1>2, JackpotsAssumption
  <2> QED BY <2>1, JackpotsAssumption DEF Contribution
<1>3. CASE bet[c] = 0
  BY <1>3, JackpotsAssumption DEF Contribution
<1> QED BY <1>1, <1>2, <1>3

LEMMA ValidateStep ==
    ASSUME JackpotsInv, NEW c \in Calls, Validate(c)
    PROVE  JackpotsInv'
<1> USE JackpotsAssumption DEF Goto, Fail, request
<1>1. /\ at[c] = "validate" /\ at[c] \in Running
      /\ UNCHANGED <<jackpot, ticket, read, candidates, winner, prizes, met>>
  BY DEF Validate, Running
<1>2. PICK b \in Bets, combination \in Combinations \cup {Invalid} :
          IF Valid(b, combination, read[c].status)
          THEN /\ bet' = [bet EXCEPT ![c] = b]
               /\ numbers' = [numbers EXCEPT ![c] = combination]
               /\ at' = [at EXCEPT ![c] = "createTicket"]
          ELSE at' = [at EXCEPT ![c] = "failed"] /\ UNCHANGED <<bet, numbers>>
  BY DEF Validate
<1>3. PICK label \in {"createTicket", "failed"} : at' = [at EXCEPT ![c] = label]
  BY <1>2
<1>4. label = "createTicket" => /\ Valid(b, combination, read[c].status)
                                /\ bet' = [bet EXCEPT ![c] = b]
                                /\ numbers' = [numbers EXCEPT ![c] = combination]
  <2>1. at'[c] = label
    BY <1>3 DEF JackpotsInv, TypeOK
  <2> QED BY <1>2, <2>1 DEF JackpotsInv, TypeOK
<1>5. /\ bet' \in [Calls -> Bets \cup {0}] /\ numbers' \in [Calls -> Combinations \cup {Invalid}]
      /\ \A d \in Calls \ {c} : bet'[d] = bet[d] /\ numbers'[d] = numbers[d]
  <2>1. bet \in [Calls -> Bets \cup {0}] /\ numbers \in [Calls -> Combinations \cup {Invalid}]
    BY DEF JackpotsInv, TypeOK
  <2>2. CASE UNCHANGED <<bet, numbers>>
    BY <2>1, <2>2
  <2>3. CASE bet' = [bet EXCEPT ![c] = b] /\ numbers' = [numbers EXCEPT ![c] = combination]
    BY <2>1, <2>3
  <2> QED BY <1>2, <2>2, <2>3
<1>6. ticket[c] = "none"
  BY <1>1 DEF JackpotsInv, Progress
<1>7. TypeOK'
  BY <1>1, <1>3, <1>5, <1>6 DEF JackpotsInv, TypeOK, Running
<1>8. ASSUME NEW d \in Calls PROVE Progress(d)'
  <2>1. CASE d = c
    <3>1. at'[c] = label
      BY <1>3 DEF JackpotsInv, TypeOK
    <3>2. /\ ticket[c] = "none" /\ candidates[c] = {} /\ winner[c] = NoCall
          /\ \A t \in Calls : ~(prizes[t][c] > 0)
      BY <1>1 DEF JackpotsInv, Progress
    <3>3. label = "createTicket" => numbers'[c] \in Combinations /\ bet'[c] \in MinBet .. MaxBet
      <4> SUFFICES ASSUME label = "createTicket"
                   PROVE  numbers'[c] \in Combinations /\ bet'[c] \in MinBet .. MaxBet
        OBVIOUS
      <4>1. numbers'[c] = combination /\ bet'[c] = b
        BY <1>4 DEF JackpotsInv, TypeOK
      <4>2. MinBet <= b /\ b <= MaxBet /\ combination \in Combinations /\ b \in Nat
        BY <1>4 DEF Valid
      <4> QED BY <4>1, <4>2
    <3> QED BY <1>1, <2>1, <3>1, <3>2, <3>3 DEF Progress
  <2>2. CASE d # c
    BY <1>1, <1>3, <1>5, <2>2, OthersProgress DEF JackpotsInv, TypeOK
  <2> QED BY <2>1, <2>2
<1>9. Overlapped'
  BY <1>1, <1>3, SameOverlaps
<1>10. PaidTwiceOverlapped' /\ \A d, e \in Calls : Sealed(d, e)'
  BY <1>1, <1>3, SameWinners
<1>11. \A d \in Calls : Frozen(d)'
  BY <1>1, <1>3, <1>4, SameOrOlderRow DEF Valid
<1> QED BY <1>7, <1>8, <1>9, <1>10, <1>11 DEF JackpotsInv

LEMMA CreateTicketStep ==
    ASSUME JackpotsInv, NEW c \in Calls, CreateTicket(c)
    PROVE  JackpotsInv'
<1> USE JackpotsAssumption DEF Goto, Fail, request
<1>1. /\ at[c] = "createTicket" /\ at[c] \in Running
      /\ UNCHANGED <<jackpot, bet, numbers, read, candidates, winner, prizes, met>>
  BY DEF CreateTicket, Running
<1>2. PICK label \in {"addToPool", "failed"} : at' = [at EXCEPT ![c] = label]
  BY DEF CreateTicket
<1>3. ticket' = [ticket EXCEPT ![c] = "ACTIVE"] \/ ticket' = ticket
  BY DEF CreateTicket
<1>4. /\ ticket[c] = "none" /\ numbers[c] \in Combinations /\ bet[c] \in MinBet .. MaxBet
      /\ candidates[c] = {} /\ winner[c] = NoCall /\ \A t \in Calls : ~(prizes[t][c] > 0)
  BY <1>1 DEF JackpotsInv, Progress
<1>5. TypeOK'
  BY <1>1, <1>2, <1>3, <1>4 DEF JackpotsInv, TypeOK, Running
<1>6. \A t \in Calls : \/ ticket'[t] = ticket[t]
                       \/ t = c /\ ticket[t] = "none" /\ ticket'[t] # "none"
  BY <1>3, <1>4 DEF JackpotsInv, TypeOK
<1>7. ASSUME NEW d \in Calls PROVE Progress(d)'
  <2>1. CASE d = c
    <3>1. at'[c] = label
      BY <1>2 DEF JackpotsInv, TypeOK
    <3> QED BY <1>1, <1>4, <2>1, <3>1 DEF Progress
  <2>2. CASE d # c
    BY <1>1, <1>2, <1>6, <2>2, OthersProgress DEF JackpotsInv, TypeOK
  <2> QED BY <2>1, <2>2
<1>8. Overlapped'
  BY <1>1, <1>2, SameOverlaps
<1>9. PaidTwiceOverlapped' /\ \A d, e \in Calls : Sealed(d, e)'
  BY <1>1, <1>2, SameWinners
<1>10. \A d \in Calls : Frozen(d)'
  BY <1>1, <1>2, SameOrOlderRow
<1> QED BY <1>5, <1>7, <1>8, <1>9, <1>10 DEF JackpotsInv

LEMMA AddToPoolStep ==
    ASSUME JackpotsInv, NEW c \in Calls, AddToPool(c)
    PROVE  JackpotsInv'
<1> USE JackpotsAssumption DEF Goto, Fail, request
<1>1. /\ at[c] = "addToPool" /\ at[c] \in Running
      /\ UNCHANGED <<ticket, bet, numbers, read, candidates, winner, prizes, met>>
  BY DEF AddToPool, Running
<1>2. PICK label \in {"ok", "failed"} : at' = [at EXCEPT ![c] = label]
  BY DEF AddToPool
<1>3. jackpot' \in JackpotRows
  <2>1. read[c] \in JackpotRows /\ jackpot \in JackpotRows
    BY DEF JackpotsInv, TypeOK
  <2>2. read[c].pool + Contribution(c) \in Nat
    BY <2>1, RowParts, ContributionType
  <2>3. WithContribution(c) \in JackpotRows
    BY <2>1, <2>2, RowParts DEF WithContribution
  <2> QED BY <2>1, <2>3 DEF AddToPool
<1>4. candidates[c] = {} /\ winner[c] = NoCall /\ \A t \in Calls : ~(prizes[t][c] > 0)
  BY <1>1 DEF JackpotsInv, Progress
<1>5. TypeOK'
  BY <1>1, <1>2, <1>3 DEF JackpotsInv, TypeOK, Running
<1>6. ASSUME NEW d \in Calls PROVE Progress(d)'
  <2>1. CASE d = c
    <3>1. at'[c] = label
      BY <1>2 DEF JackpotsInv, TypeOK
    <3> QED BY <1>1, <1>4, <2>1, <3>1 DEF Progress
  <2>2. CASE d # c
    BY <1>1, <1>2, <2>2, OthersProgress DEF JackpotsInv, TypeOK
  <2> QED BY <2>1, <2>2
<1>7. Overlapped'
  BY <1>1, <1>2, SameOverlaps
<1>8. PaidTwiceOverlapped' /\ \A d, e \in Calls : Sealed(d, e)'
  BY <1>1, <1>2, SameWinners
<1>9. \A d \in Calls : Frozen(d)'
  BY <1>1, <1>2, <1>4, SameOrOlderRow
<1> QED BY <1>5, <1>6, <1>7, <1>8, <1>9 DEF JackpotsInv

(***************************************************************************)
(* Draws                                                                   *)
(***************************************************************************)

\* The tickets that are read are not marked by any draw.
LEMMA GetActiveTicketsStep ==
    ASSUME JackpotsInv, NEW c \in Calls, GetActiveTickets(c)
    PROVE  JackpotsInv'
<1> USE JackpotsAssumption DEF Goto, Fail, request
<1>1. /\ at[c] = "getTickets" /\ at[c] \in Running
      /\ candidates' = [candidates EXCEPT ![c] = ActiveTickets]
      /\ UNCHANGED <<jackpot, ticket, bet, numbers, read, winner, prizes, met>>
  BY DEF GetActiveTickets, Running
<1>2. PICK label \in {"drawNumbers", "failed"} : at' = [at EXCEPT ![c] = label]
  BY DEF GetActiveTickets
<1>3. /\ \A d \in Calls : at'[d] = IF d = c THEN label ELSE at[d]
      /\ \A d \in Calls : candidates'[d] = IF d = c THEN ActiveTickets ELSE candidates[d]
  BY <1>1, <1>2 DEF JackpotsInv, TypeOK
<1>4. winner[c] = NoCall /\ \A t \in Calls : ~(prizes[t][c] > 0)
  BY <1>1 DEF JackpotsInv, Progress
<1>5. ActiveTickets \subseteq Calls /\ \A t \in ActiveTickets : ticket[t] = "ACTIVE"
  BY DEF ActiveTickets
<1>6. TypeOK'
  BY <1>1, <1>2, <1>5 DEF JackpotsInv, TypeOK, Running
<1>7. ASSUME NEW d \in Calls PROVE Progress(d)'
  <2>1. CASE d = c
    BY <1>1, <1>3, <1>4, <1>5, <2>1 DEF Progress
  <2>2. CASE d # c
    BY <1>1, <1>3, <2>2, OthersProgress
  <2> QED BY <2>1, <2>2
<1>8. Overlapped'
  BY <1>1, <1>2, SameOverlaps
<1>9. PaidTwiceOverlapped'
  BY <1>1 DEF JackpotsInv, PaidTwiceOverlapped
<1>10. ASSUME NEW d \in Calls, NEW e \in Calls PROVE Sealed(d, e)'
  <2> SUFFICES ASSUME d # e, at'[e] \in Running, NEW t \in candidates'[e], Marked(d, t)'
               PROVE  {d, e} \in met
    BY <1>1 DEF Sealed
  <2>1. t \in Calls
    BY <1>3, <1>5 DEF JackpotsInv, TypeOK
  <2>2. Marked(d, t)
    BY <1>1, <1>3, <1>4, <2>1 DEF Marked
  <2>3. ticket[t] = "WINNER"
    BY <2>1, <2>2 DEF JackpotsInv, Progress, Marked
  <2>4. e # c /\ t \in candidates[e] /\ at[e] \in Running
    BY <1>3, <1>5, <2>3
  <2> QED BY <2>2, <2>4 DEF JackpotsInv, Sealed
<1>11. \A d \in Calls : Frozen(d)'
  BY <1>1, <1>2, SameOrOlderRow
<1> QED BY <1>6, <1>7, <1>8, <1>9, <1>10, <1>11 DEF JackpotsInv

\* The winner is one of the tickets that were read.
LEMMA DrawNumbersStep ==
    ASSUME JackpotsInv, NEW c \in Calls, DrawNumbers(c)
    PROVE  JackpotsInv'
<1> USE JackpotsAssumption DEF Goto, Fail, request
<1>1. /\ at[c] = "drawNumbers" /\ at[c] \in Running
      /\ UNCHANGED <<jackpot, ticket, bet, numbers, read, candidates, prizes, met>>
  BY DEF DrawNumbers, Running
<1>2. PICK label \in {"markWinner", "rollOver"} :
          /\ at' = [at EXCEPT ![c] = label]
          /\ \/ label = "markWinner" /\ \E t \in candidates[c] : winner' = [winner EXCEPT ![c] = t]
             \/ label = "rollOver" /\ UNCHANGED winner
  BY DEF DrawNumbers
<1>3. /\ winner[c] = NoCall /\ candidates[c] \subseteq Calls
      /\ \A t \in Calls : ~(prizes[t][c] > 0)
      /\ \A t \in candidates[c] : ticket[t] # "none"
  BY <1>1 DEF JackpotsInv, Progress, TypeOK
<1>4. /\ \A d \in Calls : at'[d] = IF d = c THEN label ELSE at[d]
      /\ \A d \in Calls \ {c} : winner'[d] = winner[d]
      /\ label = "markWinner" => winner'[c] \in candidates[c]
      /\ label = "rollOver" => winner'[c] = NoCall
  BY <1>2, <1>3 DEF JackpotsInv, TypeOK
<1>5. TypeOK'
  <2>1. winner' \in [Calls -> Calls \cup {NoCall}]
    BY <1>2, <1>3 DEF JackpotsInv, TypeOK
  <2> QED BY <1>1, <1>2, <2>1 DEF JackpotsInv, TypeOK, Running
<1>6. ASSUME NEW d \in Calls PROVE Progress(d)'
  <2>1. CASE d = c
    BY <1>1, <1>3, <1>4, <2>1 DEF Progress
  <2>2. CASE d # c
    BY <1>1, <1>4, <2>2, OthersProgress
  <2> QED BY <2>1, <2>2
<1>7. Overlapped'
  BY <1>1, <1>2, SameOverlaps
<1>8. PaidTwiceOverlapped'
  BY <1>1 DEF JackpotsInv, PaidTwiceOverlapped
<1>9. ASSUME NEW d \in Calls, NEW e \in Calls PROVE Sealed(d, e)'
  <2> SUFFICES ASSUME d # e, at'[e] \in Running, NEW t \in candidates[e], Marked(d, t)'
               PROVE  {d, e} \in met
    BY <1>1 DEF Sealed
  <2>1. t \in Calls
    BY DEF JackpotsInv, TypeOK
  <2>2. Marked(d, t)
    BY <1>1, <1>3, <1>4, <2>1 DEF Marked
  <2>3. at[e] \in Running
    BY <1>1, <1>4
  <2> QED BY <2>2, <2>3 DEF JackpotsInv, Sealed
<1>10. \A d \in Calls : Frozen(d)'
  BY <1>1, <1>2, <1>4, SameOrOlderRow
<1> QED BY <1>5, <1>6, <1>7, <1>8, <1>9, <1>10 DEF JackpotsInv

\* The winner is marked, and the draws that may still choose it run at the same time.
LEMMA MarkWinnerStep ==
    ASSUME JackpotsInv, NEW c \in Calls, MarkWinner(c)
    PROVE  JackpotsInv'
<1> USE JackpotsAssumption DEF Goto, Fail, request
<1>1. /\ at[c] = "markWinner" /\ at[c] \in Running
      /\ UNCHANGED <<jackpot, bet, numbers, read, candidates, winner, prizes, met>>
  BY DEF MarkWinner, Running
<1>2. PICK label \in {"credit", "failed"} :
          /\ at' = [at EXCEPT ![c] = label]
          /\ \/ ticket' = [ticket EXCEPT ![winner[c]] = "WINNER"]
             \/ label = "failed" /\ UNCHANGED ticket
  BY DEF MarkWinner
<1>3. /\ winner[c] \in candidates[c] /\ winner[c] \in Calls /\ ticket[winner[c]] # "none"
      /\ \A t \in candidates[c] : ticket[t] # "none"
      /\ \A t \in Calls : ~(prizes[t][c] > 0)
  BY <1>1 DEF JackpotsInv, Progress, TypeOK
<1>4. /\ \A d \in Calls : at'[d] = IF d = c THEN label ELSE at[d]
      /\ \A t \in Calls : ticket'[t] = ticket[t] \/ (ticket[t] # "none" /\ ticket'[t] = "WINNER")
      /\ label = "credit" => ticket'[winner[c]] = "WINNER"
  BY <1>2, <1>3 DEF JackpotsInv, TypeOK
<1>5. TypeOK'
  <2>1. ticket' \in [Calls -> {"none", "ACTIVE", "WINNER"}]
    BY <1>2, <1>3 DEF JackpotsInv, TypeOK
  <2> QED BY <1>1, <1>2, <1>4, <2>1 DEF JackpotsInv, TypeOK, Running
<1>6. ASSUME NEW d \in Calls PROVE Progress(d)'
  <2>1. CASE d = c
    <3>1. candidates[c] \subseteq Calls
      BY DEF JackpotsInv, TypeOK
    <3> QED BY <1>1, <1>3, <1>4, <2>1, <3>1 DEF Progress
  <2>2. CASE d # c
    BY <1>1, <1>4, <2>2, OthersProgress
  <2> QED BY <2>1, <2>2
<1>7. Overlapped'
  BY <1>1, <1>2, SameOverlaps
<1>8. PaidTwiceOverlapped'
  BY <1>1 DEF JackpotsInv, PaidTwiceOverlapped
<1>9. ASSUME NEW d \in Calls, NEW e \in Calls PROVE Sealed(d, e)'
  <2> SUFFICES ASSUME d # e, at'[e] \in Running, NEW t \in candidates[e], Marked(d, t)'
               PROVE  {d, e} \in met
    BY <1>1 DEF Sealed
  <2>1. at[e] \in Running
    BY <1>1, <1>4
  <2>2. CASE d = c
    BY <1>1, <2>1, <2>2 DEF JackpotsInv, Overlapped
  <2>3. CASE d # c
    <3>1. Marked(d, t)
      BY <1>1, <1>4, <2>3 DEF Marked
    <3> QED BY <2>1, <3>1 DEF JackpotsInv, Sealed
  <2> QED BY <2>2, <2>3
<1>10. \A d \in Calls : Frozen(d)'
  BY <1>1, <1>2, SameOrOlderRow
<1> QED BY <1>5, <1>6, <1>7, <1>8, <1>9, <1>10 DEF JackpotsInv

\* The prize goes to a ticket that no draw but an overlapping one has paid.
LEMMA CreditStep ==
    ASSUME JackpotsInv, NEW c \in Calls, Credit(c)
    PROVE  JackpotsInv'
<1> USE JackpotsAssumption DEF Goto, Fail, request
<1>1. /\ at[c] = "credit" /\ at[c] \in Running
      /\ UNCHANGED <<jackpot, ticket, bet, numbers, read, candidates, winner, met>>
  BY DEF Credit, Running
<1>2. PICK label \in {"complete", "failed"} : at' = [at EXCEPT ![c] = label]
  BY DEF Credit
<1>3. /\ winner[c] \in candidates[c] /\ winner[c] \in Calls /\ ticket[winner[c]] = "WINNER"
      /\ \A t \in candidates[c] : ticket[t] # "none"
      /\ \A t \in Calls : ~(prizes[t][c] > 0)
  BY <1>1 DEF JackpotsInv, Progress, TypeOK
<1>4. /\ prizes' \in [Calls -> [Calls -> Nat]]
      /\ \A t, d \in Calls : prizes'[t][d] > 0 => prizes[t][d] > 0 \/ (t = winner[c] /\ d = c)
      /\ \A t \in Calls, d \in Calls \ {c} : prizes'[t][d] = prizes[t][d]
  <2>1. prizes \in [Calls -> [Calls -> Nat]] /\ read[c] \in JackpotRows
    BY DEF JackpotsInv, TypeOK
  <2>2. read[c].pool \in Nat
    BY <2>1, RowParts
  <2>3. CASE prizes' = [prizes EXCEPT ![winner[c]][c] = @ + read[c].pool]
    BY <1>3, <2>1, <2>2, <2>3
  <2>4. CASE UNCHANGED prizes
    BY <2>1, <2>4
  <2> QED BY <2>3, <2>4 DEF Credit
<1>5. \A d \in Calls : at'[d] = IF d = c THEN label ELSE at[d]
  BY <1>2 DEF JackpotsInv, TypeOK
<1>6. TypeOK'
  BY <1>1, <1>2, <1>4 DEF JackpotsInv, TypeOK, Running
<1>7. ASSUME NEW d \in Calls PROVE Progress(d)'
  <2>1. CASE d = c
    BY <1>1, <1>3, <1>4, <1>5, <2>1 DEF Progress
  <2>2. CASE d # c
    BY <1>1, <1>4, <1>5, <2>2, OthersProgress
  <2> QED BY <2>1, <2>2
<1>8. Overlapped'
  BY <1>1, <1>2, SameOverlaps
<1>9. \A d \in Calls \ {c} : Marked(d, winner[c]) => {d, c} \in met
  BY <1>1, <1>3 DEF JackpotsInv, Sealed
<1>10. PaidTwiceOverlapped'
  <2> SUFFICES ASSUME NEW t \in Calls, NEW d \in Calls, NEW e \in Calls, d # e,
                      prizes'[t][d] > 0, prizes'[t][e] > 0
               PROVE  {d, e} \in met
    BY <1>1 DEF PaidTwiceOverlapped
  <2>1. CASE d # c /\ e # c
    BY <1>4, <2>1 DEF JackpotsInv, PaidTwiceOverlapped
  <2>2. CASE d = c
    <3>1. t = winner[c] /\ prizes[t][e] > 0
      BY <1>3, <1>4, <2>2
    <3>2. {e, c} \in met /\ {e, c} = {d, e}
      BY <1>9, <2>2, <3>1 DEF Marked
    <3> QED BY <3>2
  <2>3. CASE e = c
    <3>1. t = winner[c] /\ prizes[t][d] > 0
      BY <1>3, <1>4, <2>3
    <3> QED BY <1>9, <2>3, <3>1 DEF Marked
  <2> QED BY <2>1, <2>2, <2>3
<1>11. ASSUME NEW d \in Calls, NEW e \in Calls PROVE Sealed(d, e)'
  <2> SUFFICES ASSUME d # e, at'[e] \in Running, NEW t \in candidates[e], Marked(d, t)'
               PROVE  {d, e} \in met
    BY <1>1 DEF Sealed
  <2>1. t \in Calls
    BY DEF JackpotsInv, TypeOK
  <2>2. Marked(d, t)
    BY <1>1, <1>4, <1>5, <2>1 DEF Marked
  <2>3. at[e] \in Running
    BY <1>1, <1>5
  <2> QED BY <2>2, <2>3 DEF JackpotsInv, Sealed
<1>12. \A d \in Calls : Frozen(d)'
  BY <1>1, <1>2, SameOrOlderRow
<1> QED BY <1>6, <1>7, <1>8, <1>10, <1>11, <1>12 DEF JackpotsInv

\* The row as read is written back, completed or with the time of the next draw.
LEMMA WriteBackStep ==
    ASSUME JackpotsInv, NEW c \in Calls, Complete(c) \/ RollOver(c)
    PROVE  JackpotsInv'
<1> USE JackpotsAssumption DEF Goto, Fail, request
<1> DEFINE completed == [read[c] EXCEPT !.status = "COMPLETED", !.winner = winner[c]]
<1>1. /\ at[c] \in {"complete", "rollOver"} /\ at[c] \in Running
      /\ UNCHANGED <<ticket, bet, numbers, read, candidates, winner, prizes, met>>
  BY DEF Complete, RollOver, Running
<1>2. PICK label \in {"ok", "failed"} :
          /\ at' = [at EXCEPT ![c] = label]
          /\ \/ at[c] = "complete" /\ jackpot' = completed
             \/ at[c] = "rollOver" /\ jackpot' = read[c]
             \/ label = "failed" /\ UNCHANGED jackpot
  BY DEF Complete, RollOver
<1>3. /\ completed \in JackpotRows /\ completed.status = "COMPLETED" /\ completed.pool = read[c].pool
      /\ read[c] \in JackpotRows /\ jackpot \in JackpotRows
  <2>1. winner[c] \in Calls \cup {NoCall} /\ read[c] \in JackpotRows /\ jackpot \in JackpotRows
    BY DEF JackpotsInv, TypeOK
  <2> QED BY <2>1 DEF JackpotRows
<1> HIDE DEF completed
<1>4. \A d \in Calls : at'[d] = IF d = c THEN label ELSE at[d]
  BY <1>2 DEF JackpotsInv, TypeOK
<1>5. TypeOK'
  BY <1>1, <1>2, <1>3 DEF JackpotsInv, TypeOK, Running
<1>6. ASSUME NEW d \in Calls PROVE Progress(d)'
  <2>1. CASE d = c
    <3>1. candidates[c] \subseteq Calls
      BY DEF JackpotsInv, TypeOK
    <3> QED BY <1>1, <1>4, <2>1, <3>1 DEF JackpotsInv, Progress
  <2>2. CASE d # c
    BY <1>1, <1>4, <2>2, OthersProgress
  <2> QED BY <2>1, <2>2
<1>7. Overlapped'
  BY <1>1, <1>2, SameOverlaps
<1>8. PaidTwiceOverlapped' /\ \A d, e \in Calls : Sealed(d, e)'
  BY <1>1, <1>2, SameWinners
<1>9. \A d \in Calls : Frozen(d)'
  <2>1. at[c] = "rollOver" => winner'[c] = NoCall
    BY <1>1 DEF JackpotsInv, Progress
  <2>2. /\ jackpot'.pool \in {jackpot.pool, read[c].pool}
        /\ jackpot'.status \in {jackpot.status, read[c].status, "COMPLETED"}
    BY <1>2, <1>3
  <2>3. label = "ok" => \/ winner'[c] = NoCall
                        \/ jackpot'.status = "COMPLETED" /\ jackpot'.pool = read[c].pool
    BY <1>2, <1>3, <2>1
  <2> QED BY <1>1, <1>2, <2>2, <2>3, SameOrOlderRow
<1> QED BY <1>5, <1>6, <1>7, <1>8, <1>9 DEF JackpotsInv

(***************************************************************************)
(* Sums                                                                    *)
(***************************************************************************)

\* The units of a finite sum are finitely many.
LEMMA UnitsFinite ==
    ASSUME NEW f, NEW S, IsFiniteSet(S), \A x \in S : f[x] \in Nat
    PROVE  IsFiniteSet(Units(f, S)) /\ Total(f, S) \in Nat
<1> DEFINE T == {{x} \X (1 .. f[x]) : x \in S}
           g == [x \in S |-> {x} \X (1 .. f[x])]
<1>1. g \in Surjection(S, T)
  BY DEF Surjection
<1>2. IsFiniteSet(T)
  BY <1>1, FS_Surjection
<1>3. ASSUME NEW x \in S PROVE IsFiniteSet({x} \X (1 .. f[x]))
  <2>1. IsFiniteSet({x})
    BY FS_Singleton
  <2>2. IsFiniteSet(1 .. f[x])
    BY FS_Interval
  <2> QED BY <2>1, <2>2, FS_Product
<1>4. \A U \in T : IsFiniteSet(U)
  BY <1>3
<1>5. IsFiniteSet(Units(f, S))
  BY <1>2, <1>4, FS_UNION DEF Units
<1> QED BY <1>5, FS_CardinalityType DEF Total

\* One more element adds its value.
LEMMA TotalInsert ==
    ASSUME NEW f, NEW S, IsFiniteSet(S), \A x \in S : f[x] \in Nat,
           NEW y, y \notin S, f[y] \in Nat
    PROVE  Total(f, S \cup {y}) = Total(f, S) + f[y]
<1> DEFINE new == {y} \X (1 .. f[y])
<1>1. IsFiniteSet(new) /\ Cardinality(new) = f[y]
  <2>1. IsFiniteSet({y}) /\ Cardinality({y}) = 1
    BY FS_Singleton
  <2>2. IsFiniteSet(1 .. f[y]) /\ Cardinality(1 .. f[y]) = f[y]
    <3>1. f[y] \in Int /\ 1 \in Int
      OBVIOUS
    <3>2. /\ IsFiniteSet(1 .. f[y])
          /\ Cardinality(1 .. f[y]) = IF 1 > f[y] THEN 0 ELSE f[y] - 1 + 1
      BY <3>1, FS_Interval, Zenon
    <3> QED BY <3>2
  <2>3. IsFiniteSet(new) /\ Cardinality(new) = Cardinality({y}) * Cardinality(1 .. f[y])
    BY <2>1, <2>2, FS_Product, Zenon
  <2>4. Cardinality({y}) * Cardinality(1 .. f[y]) = f[y]
    BY <2>1, <2>2
  <2> QED BY <2>3, <2>4
<1>2. Units(f, S \cup {y}) = Units(f, S) \cup new
  BY DEF Units
<1>3. Units(f, S) \cap new = {}
  BY DEF Units
<1> HIDE DEF new
<1>4. IsFiniteSet(Units(f, S)) /\ Cardinality(Units(f, S)) \in Nat
  BY UnitsFinite DEF Total
<1>5. Cardinality(Units(f, S) \cup new) = Cardinality(Units(f, S)) + Cardinality(new) - Cardinality({})
  BY <1>1, <1>3, <1>4, FS_Union
<1>6. Cardinality({}) = 0
  BY FS_EmptySet
<1>7. Total(f, S \cup {y}) = Cardinality(Units(f, S) \cup new)
  BY <1>2 DEF Total
<1>8. Cardinality(Units(f, S) \cup new) = Cardinality(Units(f, S)) + f[y]
  BY <1>1, <1>4, <1>5, <1>6
<1> QED BY <1>7, <1>8 DEF Total

\* A sum depends on nothing but the values in it.
LEMMA TotalSame ==
    ASSUME NEW f, NEW g, NEW S, \A x \in S : f[x] = g[x]
    PROVE  Total(f, S) = Total(g, S)
<1>1. Units(f, S) = Units(g, S)
  BY DEF Units
<1> QED BY <1>1 DEF Total

LEMMA TotalEmpty == \A f : Total(f, {}) = 0
<1>1. \A f : Units(f, {}) = {}
  BY DEF Units
<1> QED BY <1>1, FS_EmptySet DEF Total

(***************************************************************************)
(* The pool                                                                *)
(***************************************************************************)

\* What one more ticket adds.
LEMMA OneMoreTicket ==
    ASSUME JackpotsInv, NEW S \in SUBSET Calls, IsFiniteSet(S), NEW c \in Calls, c \notin S
    PROVE  /\ Contributions(S) \in Nat /\ Contribution(c) \in Nat
           /\ Contributions(S \cup {c}) = Contributions(S) + Contribution(c)
<1> DEFINE f == [d \in Calls |-> Contribution(d)]
<1>1. \A d \in Calls : f[d] \in Nat /\ f[d] = Contribution(d)
  BY ContributionType
<1> HIDE DEF f
<1>2. (\A d \in S : f[d] \in Nat) /\ f[c] \in Nat
  BY <1>1
<1>3. Total(f, S) \in Nat /\ Total(f, S \cup {c}) = Total(f, S) + f[c]
  BY <1>2, UnitsFinite, TotalInsert
<1> QED BY <1>1, <1>3 DEF Contributions, f

LEMMA ContributionsType ==
    ASSUME JackpotsInv, NEW S \in SUBSET Calls, IsFiniteSet(S)
    PROVE  Contributions(S) \in Nat
<1>1. \A d \in S : [e \in Calls |-> Contribution(e)][d] \in Nat
  BY ContributionType
<1> QED BY <1>1, UnitsFinite DEF Contributions

\* Only the bets of the tickets count.
LEMMA SameContributions ==
    ASSUME NEW S \in SUBSET Calls, \A d \in S : bet'[d] = bet[d]
    PROVE  Contributions(S)' = Contributions(S)
<1>1. \A d \in S : [e \in Calls |-> Contribution(e)'][d] = [e \in Calls |-> Contribution(e)][d]
  BY DEF Contribution
<1> QED BY <1>1, TotalSame DEF Contributions

\* The numbers that the bounds relate.
LEMMA PoolTypes ==
    ASSUME JackpotsInv, PoolInv
    PROVE  /\ Opening \in Nat /\ jackpot.pool \in Nat /\ Sold \subseteq Calls
           /\ Contributions(Sold) \in Nat
           /\ \A c \in Calls : /\ read[c].pool \in Nat /\ IsFiniteSet(Sold \ {c})
                               /\ Sold \ {c} \in SUBSET Calls /\ Contributions(Sold \ {c}) \in Nat
<1>1. Sold \in SUBSET Calls /\ IsFiniteSet(Sold)
  BY DEF Sold, PoolInv
<1>2. jackpot \in JackpotRows /\ \A c \in Calls : read[c] \in JackpotRows
  BY DEF JackpotsInv, TypeOK
<1>3. jackpot.pool \in Nat /\ \A c \in Calls : read[c].pool \in Nat
  BY <1>2, RowParts
<1>4. \A c \in Calls : IsFiniteSet(Sold \ {c}) /\ Sold \ {c} \in SUBSET Calls
  BY <1>1, FS_RemoveElement
<1> QED BY <1>1, <1>3, <1>4, ContributionsType, JackpotsAssumption

LEMMA InitPool == Init => PoolInv
<1> SUFFICES ASSUME Init PROVE PoolInv
  OBVIOUS
<1>1. Sold = {} /\ IsFiniteSet(Sold)
  BY FS_EmptySet DEF Init, Sold
<1>2. jackpot.pool = Opening /\ Opening \in Nat
  BY JackpotsAssumption DEF Init
<1>3. Contributions({}) = 0
  BY TotalEmpty DEF Contributions
<1>4. \A c \in Calls : at[c] \notin Running /\ at[c] \notin Drawing /\ at[c] # "addToPool"
  BY DEF Init, Running, Drawing
<1>5. PoolIsBacked
  BY <1>1, <1>2, <1>3 DEF PoolIsBacked
<1>6. PoolIsUpToDate
  <2>1. Finished = {}
    BY <1>1 DEF Finished
  <2> QED BY <1>2, <1>3, <1>4, <2>1 DEF PoolIsUpToDate
<1> QED BY <1>1, <1>4, <1>5, <1>6 DEF PoolInv, OwnTicket, ReadIsBacked

\* A step that leaves the row alone, sells no ticket and ends no purchase.
LEMMA SamePool ==
    ASSUME JackpotsInv, PoolInv, NEW c \in Calls, at[c] \in Running,
           NEW label \in Running \cup {"failed"}, label # "addToPool",
           at' = [at EXCEPT ![c] = label], UNCHANGED <<jackpot, read, met>>,
           Sold' = Sold, \A d \in Sold : bet'[d] = bet[d],
           label \in Drawing => c \notin Sold
    PROVE  PoolInv'
<1>1. \A d \in Calls : at'[d] = IF d = c THEN label ELSE at[d]
  BY DEF JackpotsInv, TypeOK
<1>2. \A S \in SUBSET Sold : S \in SUBSET Calls /\ Contributions(S)' = Contributions(S)
  BY SameContributions DEF Sold
<1>3. PoolIsBacked'
  BY <1>2 DEF PoolInv, PoolIsBacked
<1>4. ASSUME NEW d \in Calls PROVE OwnTicket(d)' /\ ReadIsBacked(d)'
  <2>1. Contributions(Sold \ {d})' = Contributions(Sold \ {d})
    BY <1>2
  <2>2. at'[d] \in Running => at[d] \in Running
    BY <1>1
  <2>3. ReadIsBacked(d)'
    BY <2>1, <2>2 DEF PoolInv, ReadIsBacked
  <2>4. OwnTicket(d)'
    BY <1>1 DEF PoolInv, OwnTicket
  <2> QED BY <2>3, <2>4
<1>5. PoolIsUpToDate'
  <2> SUFFICES ASSUME met = {}, \A d \in Sold : at'[d] \in {"addToPool", "ok"}
               PROVE  /\ jackpot.pool = Opening + Contributions(Finished)'
                      /\ \A d \in Calls : at'[d] \in Running => read[d].pool = jackpot.pool
    BY DEF PoolIsUpToDate
  <2>1. c \notin Sold
    BY <1>1 DEF Running
  <2>2. \A d \in Sold : at[d] = at'[d]
    BY <1>1, <2>1 DEF Sold
  <2>3. Finished' = Finished /\ Finished \in SUBSET Sold
    BY <2>2 DEF Finished
  <2>4. Contributions(Finished)' = Contributions(Finished)
    BY <1>2, <2>3, SameContributions
  <2> QED BY <1>1, <2>2, <2>4 DEF PoolInv, PoolIsUpToDate
<1> QED BY <1>3, <1>4, <1>5 DEF PoolInv

\* A call starts: it has no ticket, and reads the row as it is.
LEMMA BeginPool ==
    ASSUME JackpotsInv, PoolInv, NEW c \in Calls, NEW next \in {"validate", "getTickets"}, Begin(c, next)
    PROVE  PoolInv'
<1>1. /\ at[c] = "new" /\ read' = [read EXCEPT ![c] = jackpot]
      /\ met \subseteq met' /\ UNCHANGED <<jackpot, ticket, bet>>
      /\ \A d \in Calls : at'[d] = IF d = c THEN next ELSE at[d]
  BY DEF Begin, Goto, request, JackpotsInv, TypeOK
<1>2. \A d \in Calls : read'[d] = IF d = c THEN jackpot ELSE read[d]
  BY <1>1 DEF JackpotsInv, TypeOK
<1>3. Sold' = Sold /\ Finished' = Finished /\ c \notin Sold
  BY <1>1 DEF Sold, Finished, JackpotsInv, Progress
<1>4. \A S \in SUBSET Calls : Contributions(S)' = Contributions(S)
  BY <1>1, SameContributions
<1>5. PoolIsBacked'
  BY <1>1, <1>3, <1>4, PoolTypes DEF PoolInv, PoolIsBacked
<1>6. ASSUME NEW d \in Calls PROVE OwnTicket(d)' /\ ReadIsBacked(d)'
  <2>1. OwnTicket(d)'
    BY <1>1, <1>3 DEF PoolInv, OwnTicket
  <2>2. CASE d = c
    <3>1. Sold \ {c} = Sold
      BY <1>3
    <3> QED BY <1>2, <1>3, <1>4, <2>1, <2>2, <3>1, PoolTypes DEF PoolInv, PoolIsBacked, ReadIsBacked
  <2>3. CASE d # c
    BY <1>1, <1>2, <1>3, <1>4, <2>1, <2>3, PoolTypes DEF PoolInv, ReadIsBacked
  <2> QED BY <2>2, <2>3
<1>7. PoolIsUpToDate'
  <2> SUFFICES ASSUME met = {}, \A d \in Sold : at[d] \in {"addToPool", "ok"}
               PROVE  /\ jackpot.pool = Opening + Contributions(Finished)'
                      /\ \A d \in Calls : at'[d] \in Running => read'[d].pool = jackpot.pool
    BY <1>1, <1>3 DEF PoolIsUpToDate, Sold
  <2>1. Finished \in SUBSET Calls
    BY DEF Finished, Sold
  <2> QED BY <1>1, <1>2, <1>3, <1>4, <2>1 DEF PoolInv, PoolIsUpToDate
<1> QED BY <1>3, <1>5, <1>6, <1>7 DEF PoolInv

\* The ticket is stored before its contribution.
LEMMA CreateTicketPool ==
    ASSUME JackpotsInv, PoolInv, NEW c \in Calls, CreateTicket(c)
    PROVE  PoolInv'
<1> USE DEF Goto, Fail, request
<1>1. /\ at[c] = "createTicket" /\ at[c] \in Running /\ "createTicket" \notin Drawing
      /\ UNCHANGED <<jackpot, bet, read, met>>
  BY DEF CreateTicket, Running, Drawing
<1>2. c \notin Sold
  BY <1>1 DEF JackpotsInv, Progress, Sold
<1>3. CASE at' = [at EXCEPT ![c] = "failed"] /\ UNCHANGED ticket
  <2>1. Sold' = Sold
    BY <1>3 DEF Sold
  <2> QED BY <1>1, <1>2, <1>3, <2>1, SamePool DEF Drawing
<1>4. ASSUME ticket' = [ticket EXCEPT ![c] = "ACTIVE"],
             NEW label \in {"addToPool", "failed"}, at' = [at EXCEPT ![c] = label]
      PROVE  PoolInv'
  <2>1. \A d \in Calls : at'[d] = IF d = c THEN label ELSE at[d]
    BY <1>4 DEF JackpotsInv, TypeOK
  <2>2. Sold' = Sold \cup {c} /\ IsFiniteSet(Sold')
    <3>1. Sold' = Sold \cup {c}
      BY <1>4 DEF Sold, JackpotsInv, TypeOK
    <3> QED BY <3>1, FS_AddElement DEF PoolInv
  <2>3. \A S \in SUBSET Calls : Contributions(S)' = Contributions(S)
    BY <1>1, SameContributions
  <2>4. Sold' \in SUBSET Calls
    BY DEF Sold
  <2>5. PoolIsBacked'
    <3>1. Contributions(Sold)' >= Contributions(Sold) /\ Contributions(Sold)' \in Nat
      <4>1. Sold \in SUBSET Calls /\ IsFiniteSet(Sold)
        BY DEF Sold, PoolInv
      <4>2. /\ Contributions(Sold) \in Nat /\ Contribution(c) \in Nat
            /\ Contributions(Sold \cup {c}) = Contributions(Sold) + Contribution(c)
        BY <1>2, <4>1, OneMoreTicket
      <4>3. Contributions(Sold)' = Contributions(Sold \cup {c})
        BY <2>2, <2>3, <2>4
      <4> QED BY <4>2, <4>3
    <3> QED BY <1>1, <3>1, PoolTypes DEF PoolInv, PoolIsBacked
  <2>6. ASSUME NEW d \in Calls PROVE OwnTicket(d)' /\ ReadIsBacked(d)'
    <3>1. OwnTicket(d)'
      BY <1>1, <2>1, <2>2 DEF PoolInv, OwnTicket, Drawing
    <3>2. CASE d = c
      <4>1. Sold' \ {c} = Sold \ {c}
        BY <2>2
      <4> QED BY <1>1, <2>1, <2>3, <3>1, <3>2, <4>1, PoolTypes DEF PoolInv, ReadIsBacked
    <3>3. CASE d # c
      <4>1. Sold' \ {d} = (Sold \ {d}) \cup {c}
        BY <2>2, <3>3
      <4>2. /\ Contributions(Sold \ {d}) \in Nat /\ Contribution(c) \in Nat
            /\ Contributions((Sold \ {d}) \cup {c}) = Contributions(Sold \ {d}) + Contribution(c)
        BY <1>2, PoolTypes, OneMoreTicket
      <4>3. Contributions(Sold \ {d})' = Contributions((Sold \ {d}) \cup {c})
        BY <2>3, <2>4, <4>1
      <4>4. /\ Contributions(Sold \ {d}) \in Nat /\ Contributions(Sold \ {d})' \in Nat
            /\ Contributions(Sold \ {d})' >= Contributions(Sold \ {d})
        BY <4>2, <4>3
      <4>5. read[d].pool \in Nat /\ Opening \in Nat
        BY PoolTypes
      <4>6. ReadIsBacked(d)
        BY DEF PoolInv
      <4>7. ReadIsBacked(d)'
        BY <1>1, <2>1, <3>3, <4>4, <4>5, <4>6 DEF ReadIsBacked
      <4> QED BY <3>1, <4>7
    <3> QED BY <3>2, <3>3
  <2>7. PoolIsUpToDate'
    <3> SUFFICES ASSUME met = {}, \A d \in Sold' : at'[d] \in {"addToPool", "ok"}
                 PROVE  /\ jackpot.pool = Opening + Contributions(Finished)'
                        /\ \A d \in Calls : at'[d] \in Running => read[d].pool = jackpot.pool
      BY <1>1 DEF PoolIsUpToDate
    <3>1. \A d \in Sold : at[d] \in {"addToPool", "ok"}
      BY <1>2, <2>1, <2>2 DEF Sold
    <3>2. Finished' = Finished /\ Finished \in SUBSET Calls
      BY <1>2, <2>1, <2>2 DEF Finished, Sold
    <3>3. Contributions(Finished)' = Contributions(Finished)
      BY <2>3, <3>2
    <3> QED BY <1>1, <2>1, <3>1, <3>3 DEF PoolInv, PoolIsUpToDate
  <2> QED BY <2>2, <2>5, <2>6, <2>7 DEF PoolInv
<1> QED BY <1>3, <1>4 DEF CreateTicket

\* The row is written: with the contribution of c, or by a draw as it was read.
LEMMA WritePool ==
    ASSUME JackpotsInv, PoolInv, NEW c \in Calls, at[c] \in Running,
           NEW label \in {"ok", "failed"}, at' = [at EXCEPT ![c] = label],
           UNCHANGED <<ticket, bet, read, met>>,
           \/ at[c] = "addToPool" /\ jackpot'.pool = read[c].pool + Contribution(c)
           \/ at[c] \in Drawing /\ jackpot'.pool = read[c].pool
    PROVE  PoolInv'
<1>1. \A d \in Calls : at'[d] = IF d = c THEN label ELSE at[d]
  BY DEF JackpotsInv, TypeOK
<1>2. Sold' = Sold /\ \A S \in SUBSET Calls : Contributions(S)' = Contributions(S)
  BY SameContributions DEF Sold
<1>3. /\ Contributions(Sold \ {c}) \in Nat /\ read[c].pool \in Nat /\ Opening \in Nat
      /\ read[c].pool >= Opening /\ read[c].pool <= Opening + Contributions(Sold \ {c})
      /\ Contribution(c) \in Nat /\ Sold \in SUBSET Calls /\ Contributions(Sold) \in Nat
  BY PoolTypes, ContributionType DEF PoolInv, ReadIsBacked
<1>4. \/ /\ at[c] = "addToPool" /\ c \in Sold
         /\ Contributions(Sold) = Contributions(Sold \ {c}) + Contribution(c)
      \/ /\ at[c] \in Drawing /\ c \notin Sold
         /\ Contributions(Sold) = Contributions(Sold \ {c})
  <2>1. CASE at[c] = "addToPool"
    <3>1. c \in Sold /\ Sold = (Sold \ {c}) \cup {c}
      BY <2>1 DEF PoolInv, OwnTicket
    <3>2. Contributions((Sold \ {c}) \cup {c}) = Contributions(Sold \ {c}) + Contribution(c)
      BY PoolTypes, OneMoreTicket
    <3> QED BY <2>1, <3>1, <3>2
  <2>2. CASE at[c] \in Drawing
    <3>1. c \notin Sold /\ Sold \ {c} = Sold
      BY <2>2 DEF PoolInv, OwnTicket
    <3> QED BY <2>2, <3>1
  <2> QED BY <2>1, <2>2
<1>5. "addToPool" \notin Drawing
  BY DEF Drawing
<1>6. PoolIsBacked'
  BY <1>2, <1>3, <1>4, <1>5 DEF PoolIsBacked
<1>7. ASSUME NEW d \in Calls PROVE OwnTicket(d)' /\ ReadIsBacked(d)'
  <2>1. label \notin Drawing /\ label \notin Running
    BY DEF Drawing, Running
  <2>2. OwnTicket(d)'
    BY <1>1, <1>2, <2>1 DEF PoolInv, OwnTicket
  <2>3. ReadIsBacked(d)'
    BY <1>1, <1>2, <2>1, PoolTypes DEF PoolInv, ReadIsBacked
  <2> QED BY <2>2, <2>3
<1>8. PoolIsUpToDate'
  <2> SUFFICES ASSUME met = {}, \A d \in Sold : at'[d] \in {"addToPool", "ok"}
               PROVE  /\ jackpot'.pool = Opening + Contributions(Finished)'
                      /\ \A d \in Calls : at'[d] \in Running => read[d].pool = jackpot'.pool
    BY <1>2 DEF PoolIsUpToDate
  <2>1. \A d \in Sold : at[d] \in {"addToPool", "ok"}
    BY <1>1, <1>4 DEF Sold
  <2>2. /\ jackpot.pool = Opening + Contributions(Finished) /\ read[c].pool = jackpot.pool
    BY <2>1 DEF PoolInv, PoolIsUpToDate
  <2>3. \A d \in Calls : at'[d] \notin Running
    <3>1. \A d \in Calls \ {c} : at[d] \notin Running
      BY DEF JackpotsInv, Overlapped
    <3> QED BY <1>1, <3>1 DEF Running
  <2>4. Finished \in SUBSET Calls /\ IsFiniteSet(Finished)
    <3>1. Finished \in SUBSET Sold
      BY DEF Finished
    <3> QED BY <1>3, <3>1, FS_Subset DEF PoolInv
  <2>5. CASE at[c] = "addToPool"
    <3>1. c \in Sold /\ label = "ok"
      BY <1>1, <1>4, <1>5, <2>5
    <3>2. Finished' = Finished \cup {c} /\ c \notin Finished
      BY <1>1, <1>2, <2>5, <3>1 DEF Finished, Sold
    <3>3. /\ Contributions(Finished) \in Nat
          /\ Contributions(Finished \cup {c}) = Contributions(Finished) + Contribution(c)
      BY <2>4, <3>2, OneMoreTicket
    <3>4. Contributions(Finished)' = Contributions(Finished \cup {c})
      <4>1. Finished \cup {c} \in SUBSET Calls
        BY <2>4
      <4> QED BY <1>2, <3>2, <4>1
    <3>5. jackpot'.pool = read[c].pool + Contribution(c)
      BY <1>5, <2>5
    <3> QED BY <1>3, <2>2, <2>3, <3>3, <3>4, <3>5
  <2>6. CASE at[c] \in Drawing
    <3>1. c \notin Sold
      BY <1>4, <1>5, <2>6
    <3>2. Finished' = Finished
      BY <1>1, <1>2, <3>1 DEF Finished, Sold
    <3>3. Contributions(Finished)' = Contributions(Finished)
      BY <1>2, <2>4, <3>2
    <3> QED BY <1>5, <2>2, <2>3, <2>6, <3>3
  <2> QED BY <1>4, <2>5, <2>6
<1> QED BY <1>2, <1>6, <1>7, <1>8 DEF PoolInv

LEMMA PurchasePool ==
    ASSUME JackpotsInv, PoolInv, NEW c \in Calls, Purchase(c)
    PROVE  PoolInv'
<1> USE DEF Goto, Fail, request
<1>1. CASE Buy(c)
  BY <1>1, BeginPool DEF Buy
<1>2. CASE Validate(c)
  <2>1. at[c] = "validate" /\ at[c] \in Running /\ UNCHANGED <<jackpot, ticket, read, met>>
    BY <1>2 DEF Validate, Running
  <2>2. c \notin Sold /\ Sold' = Sold
    BY <2>1 DEF JackpotsInv, Progress, Sold
  <2>3. PICK label \in {"createTicket", "failed"} : at' = [at EXCEPT ![c] = label]
    BY <1>2 DEF Validate
  <2>4. \A d \in Calls \ {c} : bet'[d] = bet[d]
    BY <1>2 DEF Validate, JackpotsInv, TypeOK
  <2>5. \A d \in Sold : bet'[d] = bet[d]
    BY <2>2, <2>4 DEF Sold
  <2> QED BY <2>1, <2>2, <2>3, <2>5, SamePool DEF Running, Drawing
<1>3. CASE CreateTicket(c)
  BY <1>3, CreateTicketPool
<1>4. CASE AddToPool(c)
  <2>1. at[c] = "addToPool" /\ at[c] \in Running /\ UNCHANGED <<ticket, bet, read, met>>
    BY <1>4 DEF AddToPool, Running
  <2>2. CASE at' = [at EXCEPT ![c] = "failed"] /\ UNCHANGED jackpot
    <3>1. Sold' = Sold
      BY <2>1 DEF Sold
    <3> QED BY <2>1, <2>2, <3>1, SamePool DEF Drawing
  <2>3. CASE jackpot' = WithContribution(c)
    <3>1. read[c] \in JackpotRows
      BY DEF JackpotsInv, TypeOK
    <3>2. jackpot'.pool = read[c].pool + Contribution(c)
      BY <2>3, <3>1 DEF WithContribution, JackpotRows
    <3>3. PICK label \in {"ok", "failed"} : at' = [at EXCEPT ![c] = label]
      BY <1>4 DEF AddToPool
    <3> QED BY <2>1, <3>2, <3>3, WritePool
  <2> QED BY <1>4, <2>2, <2>3 DEF AddToPool
<1> QED BY <1>1, <1>2, <1>3, <1>4 DEF Purchase

LEMMA DrawPool ==
    ASSUME JackpotsInv, PoolInv, NEW c \in Calls, DrawStep(c)
    PROVE  PoolInv'
<1> USE DEF Goto, Fail, request
<1>1. CASE Draw(c)
  BY <1>1, BeginPool DEF Draw
<1>2. ASSUME at[c] \in Drawing, NEW label \in Drawing \cup {"failed"}, at' = [at EXCEPT ![c] = label],
             UNCHANGED <<jackpot, bet, read, met>>, Sold' = Sold
      PROVE  PoolInv'
  <2>1. at[c] \in Running /\ label \in Running \cup {"failed"} /\ label # "addToPool"
    BY <1>2 DEF Running, Drawing
  <2>2. c \notin Sold
    BY <1>2 DEF PoolInv, OwnTicket
  <2> QED BY <1>2, <2>1, <2>2, SamePool
<1>3. CASE GetActiveTickets(c) \/ DrawNumbers(c) \/ Credit(c)
  <2>1. at[c] \in Drawing /\ Sold' = Sold /\ UNCHANGED <<jackpot, bet, read, met>>
    BY <1>3 DEF GetActiveTickets, DrawNumbers, Credit, Drawing, Sold
  <2>2. \E label \in Drawing \cup {"failed"} : at' = [at EXCEPT ![c] = label]
    BY <1>3 DEF GetActiveTickets, DrawNumbers, Credit, Drawing
  <2> QED BY <1>2, <2>1, <2>2
<1>4. CASE MarkWinner(c)
  <2>1. at[c] = "markWinner" /\ at[c] \in Drawing /\ UNCHANGED <<jackpot, bet, read, met>>
    BY <1>4 DEF MarkWinner, Drawing
  <2>2. winner[c] \in Calls /\ ticket[winner[c]] # "none"
    BY <2>1 DEF JackpotsInv, Progress, TypeOK
  <2>3. Sold' = Sold
    BY <1>4, <2>2 DEF MarkWinner, Sold, JackpotsInv, TypeOK
  <2>4. \E label \in Drawing \cup {"failed"} : at' = [at EXCEPT ![c] = label]
    BY <1>4 DEF MarkWinner, Drawing
  <2> QED BY <1>2, <2>1, <2>3, <2>4
<1>5. CASE Complete(c) \/ RollOver(c)
  <2>1. /\ at[c] \in Drawing /\ at[c] \in Running /\ UNCHANGED <<ticket, bet, read, met>>
        /\ Sold' = Sold
    BY <1>5 DEF Complete, RollOver, Drawing, Running, Sold
  <2>2. CASE at' = [at EXCEPT ![c] = "failed"] /\ UNCHANGED jackpot
    BY <1>2, <2>1, <2>2
  <2>3. CASE \/ jackpot' = [read[c] EXCEPT !.status = "COMPLETED", !.winner = winner[c]]
             \/ jackpot' = read[c]
    <3>1. read[c] \in JackpotRows
      BY DEF JackpotsInv, TypeOK
    <3>2. jackpot'.pool = read[c].pool
      BY <2>3, <3>1 DEF JackpotRows
    <3>3. PICK label \in {"ok", "failed"} : at' = [at EXCEPT ![c] = label]
      BY <1>5 DEF Complete, RollOver
    <3> QED BY <2>1, <3>2, <3>3, WritePool
  <2> QED BY <1>5, <2>2, <2>3 DEF Complete, RollOver
<1> QED BY <1>1, <1>3, <1>4, <1>5 DEF DrawStep

\* Every step keeps what is said of the pool.
LEMMA StepPool == JackpotsInv /\ PoolInv /\ [Next]_vars => PoolInv'
<1> SUFFICES ASSUME JackpotsInv, PoolInv, [Next]_vars PROVE PoolInv'
  OBVIOUS
<1>1. CASE UNCHANGED vars
  <2>1. UNCHANGED <<jackpot, ticket, at, bet, read, met>>
    BY <1>1 DEF vars, request
  <2>2. Sold' = Sold /\ Finished' = Finished
    BY <2>1 DEF Sold, Finished
  <2>3. \A S \in SUBSET Calls : Contributions(S)' = Contributions(S)
    BY <2>1, SameContributions
  <2>4. Sold \in SUBSET Calls /\ Finished \in SUBSET Calls
    BY DEF Sold, Finished
  <2>5. /\ Contributions(Sold)' = Contributions(Sold) /\ Contributions(Finished)' = Contributions(Finished)
        /\ \A c \in Calls : Contributions(Sold \ {c})' = Contributions(Sold \ {c})
    BY <2>2, <2>3, <2>4
  <2> QED BY <2>1, <2>2, <2>5 DEF PoolInv, PoolIsBacked, PoolIsUpToDate, OwnTicket, ReadIsBacked
<1> QED BY <1>1, PurchasePool, DrawPool DEF Next

(***************************************************************************)
(* The invariants and what follows from them                               *)
(***************************************************************************)

\* Every step keeps the invariant.
LEMMA StepInv == JackpotsInv /\ [Next]_vars => JackpotsInv'
<1> SUFFICES ASSUME JackpotsInv, [Next]_vars PROVE JackpotsInv'
  OBVIOUS
<1>1. ASSUME NEW c \in Calls, Purchase(c) PROVE JackpotsInv'
  BY <1>1, BeginStep, ValidateStep, CreateTicketStep, AddToPoolStep DEF Purchase, Buy
<1>2. ASSUME NEW c \in Calls, DrawStep(c) PROVE JackpotsInv'
  BY <1>2, BeginStep, GetActiveTicketsStep, DrawNumbersStep, MarkWinnerStep, CreditStep, WriteBackStep
     DEF DrawStep, Draw
<1>3. CASE UNCHANGED vars
  <2>1. UNCHANGED <<jackpot, ticket, at, bet, numbers, read, candidates, winner, prizes, met>>
    BY <1>3 DEF vars, request
  <2>2. TypeOK' /\ Overlapped' /\ PaidTwiceOverlapped'
    BY <2>1 DEF JackpotsInv, TypeOK, Overlapped, PaidTwiceOverlapped
  <2>3. \A c \in Calls : Progress(c)'
    BY <2>1 DEF JackpotsInv, Progress
  <2>4. \A c \in Calls : Frozen(c)'
    BY <2>1 DEF JackpotsInv, Frozen, Met
  <2>5. \A c, d \in Calls : Sealed(c, d)'
    BY <2>1 DEF JackpotsInv, Sealed, Marked
  <2> QED BY <2>2, <2>3, <2>4, <2>5 DEF JackpotsInv
<1> QED BY <1>1, <1>2, <1>3 DEF Next

\* The invariant holds in every reachable state.
THEOREM JackpotsInvariant == Spec => []JackpotsInv
BY InitInv, StepInv, PTL DEF Spec

\* The variables keep their types, and a stored ticket was sold for a valid bet and numbers.
THEOREM TypeCorrect == Spec => []TypeOK
<1>1. JackpotsInv => TypeOK
  BY DEF JackpotsInv
<1> QED BY <1>1, JackpotsInvariant, PTL

\* A ticket is paid by two draws only if they overlapped.
THEOREM NoSecondPrize == Spec => []PaidTwiceOverlapped
<1>1. JackpotsInv => PaidTwiceOverlapped
  BY DEF JackpotsInv
<1> QED BY <1>1, JackpotsInvariant, PTL

\* A jackpot that a draw has completed on its own stays completed, its pool the prize.
THEOREM CompletionIsFinal == Spec => []CompletedIsFinal
<1>1. JackpotsInv => CompletedIsFinal
  BY DEF JackpotsInv, Frozen, CompletedIsFinal
<1> QED BY <1>1, JackpotsInvariant, PTL

THEOREM PoolInvariant == Spec => []PoolInv
BY InitPool, StepPool, JackpotsInvariant, PTL DEF Spec

\* The pool is never below the opening amount nor above what the stored tickets back.
THEOREM PoolBacked == Spec => []PoolIsBacked
<1>1. PoolInv => PoolIsBacked
  BY DEF PoolInv
<1> QED BY <1>1, PoolInvariant, PTL

\* Without overlaps and broken purchases the pool is the opening amount and every contribution.
THEOREM PoolExact == Spec => []PoolIsExact
<1>1. PoolInv => PoolIsExact
  <2> SUFFICES ASSUME PoolInv, met = {}, \A c \in Sold : at[c] = "ok"
               PROVE  jackpot.pool = Opening + Contributions(Sold)
    BY DEF PoolIsExact
  <2>1. Finished = Sold
    BY DEF Finished
  <2> QED BY <2>1 DEF PoolInv, PoolIsUpToDate
<1> QED BY <1>1, PoolInvariant, PTL

=============================================================================
