------------------------------ MODULE Jackpots ------------------------------
(***************************************************************************)
(* One jackpot (internal/jackpots/service.go): purchases of tickets and     *)
(* draws, each a sequence of calls to the JackpotRepository and the         *)
(* WalletService. The service has a mutex and takes it nowhere, so calls    *)
(* interleave between any two of them; each call may fail, with or without  *)
(* its effect, and then the operation ends.                                *)
(*                                                                         *)
(* The repository is the interface of internal/jackpots/types.go, which     *)
(* nothing in the repository implements: Update writes the whole row,       *)
(* GetActiveTickets returns the tickets with status ACTIVE in some order.   *)
(* Money is in units in which a contribution is exact.                     *)
(***************************************************************************)
EXTENDS Integers, FiniteSets, Sums

CONSTANTS
    Calls,           \* calls of PurchaseTicket and DrawJackpot
    Combinations,    \* sets of six different numbers from 1 to 49
    Bets,            \* amounts a purchase may offer
    MinBet, MaxBet,
    Rate,            \* what goes into the pool for one unit of a bet
    Opening          \* current_amount as CreateJackpot stored it

\* What a request may hold in place of six different numbers.
Invalid == "invalid"
NoCall  == "none"

\* validateJackpot; it does not look at the opening amount.
ASSUME JackpotsAssumption ==
    /\ Bets \subseteq Nat /\ MinBet \in Nat \ {0} /\ MaxBet \in Nat /\ MinBet <= MaxBet
    /\ Rate \in Nat \ {0} /\ Opening \in Nat
    /\ NoCall \notin Calls

VARIABLES
    jackpot,    \* the row: its status, pool and winning ticket
    ticket,     \* ticket[c]: status of the ticket that purchase c has stored
    at,         \* at[c]: the next step of call c
    bet,        \* bet[c], numbers[c]: what purchase c was called with
    numbers,
    read,       \* read[c]: the row c has read
    candidates, \* candidates[c]: the active tickets draw c has read
    winner,     \* winner[c]: the ticket it found
    prizes,     \* prizes[c]: the prizes paid on the ticket of c, by draw
    met         \* pairs of calls that ran at the same time

request == <<bet, numbers>>
vars    == <<jackpot, ticket, at, request, read, candidates, winner, prizes, met>>

Running == {"validate", "createTicket", "addToPool",
            "getTickets", "drawNumbers", "markWinner", "credit", "complete", "rollOver"}

Init ==
    /\ jackpot = [status |-> "ACTIVE", pool |-> Opening, winner |-> NoCall]
    /\ ticket = [c \in Calls |-> "none"]
    /\ at = [c \in Calls |-> "new"]
    /\ bet = [c \in Calls |-> 0]
    /\ numbers = [c \in Calls |-> Invalid]
    /\ read = [c \in Calls |-> jackpot]
    /\ candidates = [c \in Calls |-> {}]
    /\ winner = [c \in Calls |-> NoCall]
    /\ prizes = [c \in Calls |-> [d \in Calls |-> 0]]
    /\ met = {}

-----------------------------------------------------------------------------

\* A step of c that ends where it says, or the call in it fails: with its effect or
\* without, the caller gets an error, or the process has died, and the rest is not done.
Goto(c, label) == at' = [at EXCEPT ![c] = label]
Fail(c)        == at' = [at EXCEPT ![c] = "failed"]

InFlight == {c \in Calls : at[c] \in Running}

\* GetByID, the first step of both operations.
Begin(c, next) ==
    /\ at[c] = "new"
    /\ read' = [read EXCEPT ![c] = jackpot]
    /\ met' = met \cup {{c, d} : d \in InFlight}
    /\ Goto(c, next)
    /\ UNCHANGED <<jackpot, ticket, request, candidates, winner, prizes>>

-----------------------------------------------------------------------------
(* PurchaseTicket *)

Buy(c) == Begin(c, "validate")

\* Mutation: the numbers are not checked.
ValidWithAnyNumbers(b, combination, status) ==
    /\ status = "ACTIVE"
    /\ MinBet <= b /\ b <= MaxBet

\* Mutation: a ticket is sold whatever the status of the jackpot.
ValidInAnyStatus(b, combination, status) ==
    /\ MinBet <= b /\ b <= MaxBet
    /\ combination \in Combinations

\* validateTicketPurchase
Valid(b, combination, status) ==
    /\ status = "ACTIVE"
    /\ MinBet <= b /\ b <= MaxBet
    /\ combination \in Combinations

Validate(c) ==
    /\ at[c] = "validate"
    /\ \E b \in Bets, combination \in Combinations \cup {Invalid} :
          IF Valid(b, combination, read[c].status)
          THEN /\ bet' = [bet EXCEPT ![c] = b]
               /\ numbers' = [numbers EXCEPT ![c] = combination]
               /\ Goto(c, "createTicket")
          ELSE Fail(c) /\ UNCHANGED request
    /\ UNCHANGED <<jackpot, ticket, read, candidates, winner, prizes, met>>

\* Nothing is charged for a ticket: no call of the wallet.
CreateTicket(c) ==
    /\ at[c] = "createTicket"
    /\ \/ /\ ticket' = [ticket EXCEPT ![c] = "ACTIVE"]
          /\ Goto(c, "addToPool") \/ Fail(c)
       \/ Fail(c) /\ UNCHANGED ticket
    /\ UNCHANGED <<jackpot, request, read, candidates, winner, prizes, met>>

Contribution(c) == bet[c] * Rate

\* Mutation: the whole bet goes into the pool.
WithWholeBet(c) == [read[c] EXCEPT !.pool = @ + bet[c] * (Rate + 1)]

WithContribution(c) == [read[c] EXCEPT !.pool = @ + Contribution(c)]

\* Update writes the row as read, with the contribution added.
AddToPool(c) ==
    /\ at[c] = "addToPool"
    /\ \/ /\ jackpot' = WithContribution(c)
          /\ Goto(c, "ok") \/ Fail(c)
       \/ Fail(c) /\ UNCHANGED jackpot
    /\ UNCHANGED <<ticket, request, read, candidates, winner, prizes, met>>

-----------------------------------------------------------------------------
(* DrawJackpot *)

\* The status of the jackpot is not looked at.
Draw(c) == Begin(c, "getTickets")

\* Mutation: every ticket of the jackpot takes part.
AllTickets == {c \in Calls : ticket[c] # "none"}

ActiveTickets == {c \in Calls : ticket[c] = "ACTIVE"}

\* The query may fail, and without active tickets there is no draw.
GetActiveTickets(c) ==
    /\ at[c] = "getTickets"
    /\ candidates' = [candidates EXCEPT ![c] = ActiveTickets]
    /\ \/ ActiveTickets # {} /\ Goto(c, "drawNumbers")
       \/ Fail(c)
    /\ UNCHANGED <<jackpot, ticket, request, read, winner, prizes, met>>

\* generateWinningNumbers and findWinner: one of the tickets with these numbers, the
\* first in the order the repository returned them in; the others get nothing.
DrawNumbers(c) ==
    /\ at[c] = "drawNumbers"
    /\ \/ \E t \in candidates[c] :
             /\ winner' = [winner EXCEPT ![c] = t]
             /\ Goto(c, "markWinner")
       \/ Goto(c, "rollOver") /\ UNCHANGED winner
    /\ UNCHANGED <<jackpot, ticket, request, read, candidates, prizes, met>>

MarkWinner(c) ==
    /\ at[c] = "markWinner"
    /\ \/ /\ ticket' = [ticket EXCEPT ![winner[c]] = "WINNER"]
          /\ Goto(c, "credit") \/ Fail(c)
       \/ Fail(c) /\ UNCHANGED ticket
    /\ UNCHANGED <<jackpot, request, read, candidates, winner, prizes, met>>

\* The prize is the pool as read; a failed credit is not repeated.
Credit(c) ==
    /\ at[c] = "credit"
    /\ \/ /\ prizes' = [prizes EXCEPT ![winner[c]][c] = @ + read[c].pool]
          /\ Goto(c, "complete") \/ Fail(c)
       \/ Fail(c) /\ UNCHANGED prizes
    /\ UNCHANGED <<jackpot, ticket, request, read, candidates, winner, met>>

\* The pool stays in the row of a completed jackpot.
Complete(c) ==
    /\ at[c] = "complete"
    /\ \/ /\ jackpot' = [read[c] EXCEPT !.status = "COMPLETED", !.winner = winner[c]]
          /\ Goto(c, "ok") \/ Fail(c)
       \/ Fail(c) /\ UNCHANGED jackpot
    /\ UNCHANGED <<ticket, request, read, candidates, winner, prizes, met>>

\* Mutation: the pool starts again from the opening amount.
ResetPool(c) ==
    /\ at[c] = "rollOver"
    /\ jackpot' = [read[c] EXCEPT !.pool = Opening]
    /\ Goto(c, "ok")
    /\ UNCHANGED <<ticket, request, read, candidates, winner, prizes, met>>

\* Nobody won: only the time of the next draw changes, in the row as it was read.
RollOver(c) ==
    /\ at[c] = "rollOver"
    /\ \/ /\ jackpot' = read[c]
          /\ Goto(c, "ok") \/ Fail(c)
       \/ Fail(c) /\ UNCHANGED jackpot
    /\ UNCHANGED <<ticket, request, read, candidates, winner, prizes, met>>

-----------------------------------------------------------------------------

Purchase(c) == Buy(c) \/ Validate(c) \/ CreateTicket(c) \/ AddToPool(c)

DrawStep(c) ==
    \/ Draw(c) \/ GetActiveTickets(c) \/ DrawNumbers(c)
    \/ MarkWinner(c) \/ Credit(c) \/ Complete(c) \/ RollOver(c)

Next == \E c \in Calls : Purchase(c) \/ DrawStep(c)

Spec == Init /\ [][Next]_vars

-----------------------------------------------------------------------------
(* Properties *)

Pairs       == {{c, d} : c, d \in Calls}
JackpotRows == [status : {"ACTIVE", "COMPLETED"}, pool : Nat, winner : Calls \cup {NoCall}]

TypeOK ==
    /\ jackpot \in JackpotRows /\ read \in [Calls -> JackpotRows]
    /\ ticket \in [Calls -> {"none", "ACTIVE", "WINNER"}]
    /\ at \in [Calls -> Running \cup {"new", "ok", "failed"}]
    /\ bet \in [Calls -> Bets \cup {0}]
    /\ numbers \in [Calls -> Combinations \cup {Invalid}]
    /\ \A c \in Calls : ticket[c] # "none" =>
          numbers[c] \in Combinations /\ bet[c] \in MinBet .. MaxBet
    /\ candidates \in [Calls -> SUBSET Calls]
    /\ winner \in [Calls -> Calls \cup {NoCall}]
    /\ prizes \in [Calls -> [Calls -> Nat]]
    /\ met \subseteq Pairs

Sold == {c \in Calls : ticket[c] # "none"}
Met(c) == {d \in Calls \ {c} : {c, d} \in met}
Contributions(tickets) == Total([c \in Calls |-> Contribution(c)], tickets)

\* The pool never holds more than the opening amount and what the tickets that exist
\* contribute: concurrent purchases may lose a contribution and never count one twice,
\* and a ticket is stored before its contribution (PurchaseTicket, Update).
PoolIsBacked ==
    jackpot.pool >= Opening /\ jackpot.pool <= Opening + Contributions(Sold)

\* And it holds just that if no two calls ever overlapped and every purchase that
\* stored a ticket went through: draws without a winner leave the pool alone.
PoolIsExact ==
    (met = {} /\ \A c \in Sold : at[c] = "ok")
    => jackpot.pool = Opening + Contributions(Sold)

\* Once a draw has found a winner, the jackpot stays completed and its pool the prize,
\* unless a call ran next to that draw and wrote back the row it had read (DrawJackpot).
CompletedIsFinal ==
    \A d \in Calls :
        (at[d] = "ok" /\ winner[d] # NoCall /\ Met(d) = {})
        => jackpot.status = "COMPLETED" /\ jackpot.pool = read[d].pool

\* A ticket gets the prize of two draws only if the draws overlapped: a later draw, which
\* the status of the jackpot does not prevent, finds the ticket no longer active.
PaidTwiceOverlapped ==
    \A t, c, d \in Calls :
        (c # d /\ prizes[t][c] > 0 /\ prizes[t][d] > 0) => {c, d} \in met

-----------------------------------------------------------------------------
(* The inductive invariants: that of the pool rests on the other, which is behind the last
   two properties *)

\* What a call has done by the step it has reached.
Progress(c) ==
    /\ at[c] \in {"new", "validate", "createTicket"} => ticket[c] = "none"
    /\ at[c] = "createTicket" => numbers[c] \in Combinations /\ bet[c] \in MinBet .. MaxBet
    /\ at[c] \in {"new", "validate", "createTicket", "addToPool", "getTickets"} => candidates[c] = {}
    /\ at[c] \in {"new", "validate", "createTicket", "addToPool", "getTickets", "drawNumbers", "rollOver"}
          => winner[c] = NoCall
    /\ at[c] \in {"markWinner", "credit", "complete"} => winner[c] \in candidates[c]
    /\ at[c] \in {"credit", "complete"} => ticket[winner[c]] = "WINNER"
    /\ \A t \in candidates[c] : ticket[t] # "none"
    /\ \A t \in Calls : prizes[t][c] > 0 =>
          winner[c] = t /\ at[c] \in {"complete", "ok", "failed"} /\ ticket[t] = "WINNER"

Overlapped ==
    \A c, d \in Calls : (c # d /\ at[c] \in Running /\ at[d] \in Running) => {c, d} \in met

\* Draw c has marked t, and the prize is paid or may be.
Marked(c, t) == prizes[t][c] > 0 \/ (winner[c] = t /\ at[c] \in {"credit", "complete"})

\* A running draw can only choose a ticket that another has marked if they overlap.
Sealed(c, d) ==
    (c # d /\ at[d] \in Running) => \A t \in candidates[d] : Marked(c, t) => {c, d} \in met

\* After a draw that ran alone, every running call has read the completed row.
Frozen(d) ==
    (at[d] = "ok" /\ winner[d] # NoCall /\ Met(d) = {}) =>
        /\ jackpot.status = "COMPLETED" /\ jackpot.pool = read[d].pool
        /\ \A c \in Calls : at[c] \in Running =>
              /\ read[c].status = "COMPLETED" /\ read[c].pool = read[d].pool
              /\ at[c] \notin {"createTicket", "addToPool"}

JackpotsInv ==
    /\ TypeOK
    /\ Overlapped
    /\ PaidTwiceOverlapped
    /\ \A c \in Calls : Progress(c) /\ Frozen(c)
    /\ \A c, d \in Calls : Sealed(c, d)

Drawing == {"getTickets", "drawNumbers", "markWinner", "credit", "complete", "rollOver"}

\* A purchase has its ticket when it adds to the pool, and a draw has none.
OwnTicket(c) ==
    /\ at[c] = "addToPool" => c \in Sold
    /\ at[c] \in Drawing => c \notin Sold

\* What a running call has read is in the pool without its own contribution.
ReadIsBacked(c) ==
    at[c] \in Running => /\ read[c].pool >= Opening
                         /\ read[c].pool <= Opening + Contributions(Sold \ {c})

Finished == {c \in Sold : at[c] = "ok"}

\* As long as calls neither overlap nor break off after the ticket, the pool holds the
\* contributions of the finished ones, and a running call has read that.
PoolIsUpToDate ==
    (met = {} /\ \A c \in Sold : at[c] \in {"addToPool", "ok"}) =>
        /\ jackpot.pool = Opening + Contributions(Finished)
        /\ \A c \in Calls : at[c] \in Running => read[c].pool = jackpot.pool

PoolInv ==
    /\ IsFiniteSet(Sold)
    /\ PoolIsBacked
    /\ PoolIsUpToDate
    /\ \A c \in Calls : OwnTicket(c) /\ ReadIsBacked(c)

=============================================================================
