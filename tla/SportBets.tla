------------------------------ MODULE SportBets ------------------------------
(***************************************************************************)
(* Editing a sport bet (internal/sports/edit/service.go) while others edit  *)
(* or settle it. EditBet is a read of the row, checks, a movement of money  *)
(* and a write of the whole row, each a transaction of its own: the row may *)
(* change, an answer may be lost and the process may die between any two.   *)
(*                                                                         *)
(* Rows are put there by the code that places bets, and settled through the *)
(* MarkAs... statements of the repository: both have callers elsewhere.     *)
(***************************************************************************)
EXTENDS Integers, FiniteSets

CONSTANTS
    Bets,     \* rows of sport_bets
    Edits,    \* calls of EditBet
    Stakes,   \* amounts a request may name, the column takes the positive ones
    First     \* First[b]: the stake b was placed with

ASSUME SportBetsAssumption == Stakes \subseteq Int /\ First \in [Bets -> Nat \ {0}]

VARIABLES
    row,      \* row[b]: the row in sport_bets
    young,    \* young[b]: placed within the last five minutes
    started,  \* started[b]: its match has started
    settled,  \* bets that have been settled
    at,       \* at[e]: the next statement of call e
    bet,      \* bet[e]: the bet it edits
    want,     \* want[e]: the stake it asks for
    read,     \* read[e]: the row it read
    moved,    \* moved[e]: what it has paid back, or charged if negative
    met       \* pairs of calls that edited one bet at the same time,
              \* and calls alone that edited one when it was settled

clock == <<young, started>>
calls == <<at, bet, want, read, moved, met>>
vars  == <<row, clock, settled, calls>>

Settled == {"WON", "LOST", "VOID"}
Reasons == {"empty", "null", "text"}  \* settlement_reason
Rows    == [stake : Int, status : {"PENDING"} \cup Settled, reason : Reasons]
Running == {"match", "money", "update"}
Pairs   == {{e, f} : e, f \in Edits}

Init ==
    /\ \E reason \in [Bets -> Reasons] :
          row = [b \in Bets |-> [stake |-> First[b], status |-> "PENDING", reason |-> reason[b]]]
    /\ young = [b \in Bets |-> TRUE]
    /\ started = [b \in Bets |-> FALSE]
    /\ settled = {}
    /\ at = [e \in Edits |-> "new"]
    /\ bet \in [Edits -> Bets]
    /\ want \in [Edits -> Stakes]
    /\ read = [e \in Edits |-> row[bet[e]]]
    /\ moved = [e \in Edits |-> 0]
    /\ met = {}

-----------------------------------------------------------------------------
(* Time and settlement *)

FiveMinutesPass(b) ==
    /\ young' = [young EXCEPT ![b] = FALSE]
    /\ UNCHANGED <<row, started, settled, calls>>

KickOff(b) ==
    /\ started' = [started EXCEPT ![b] = TRUE]
    /\ UNCHANGED <<row, young, settled, calls>>

InFlight(b) == {e \in Edits : bet[e] = b /\ at[e] \in Running}

\* MarkAsWon, MarkAsLost, MarkAsVoid: WHERE id, whatever the status was. Only a void
\* bet gets a reason.
Settle(b) ==
    /\ \E status \in Settled :
          row' = [row EXCEPT ![b].status = status,
                             ![b].reason = IF status = "VOID" THEN "text" ELSE @]
    /\ settled' = settled \cup {b}
    /\ met' = met \cup {{e} : e \in InFlight(b)}
    /\ UNCHANGED <<clock, at, bet, want, read, moved>>

-----------------------------------------------------------------------------
(* EditBet *)

\* GetByID scans settlement_reason into a string: a row where it is NULL is an error.
Readable(r) == r.reason # "null"

\* Mutation: any bet of the last five minutes may be edited.
AnyYoungBet(b) == young[b]

CanEditBet(b) == row[b].status = "PENDING" /\ young[b]

\* The read of the bet and the checks on what was read; a query may fail.
Start(e) ==
    /\ at[e] = "new"
    /\ \/ /\ Readable(row[bet[e]]) /\ CanEditBet(bet[e])
          /\ read' = [read EXCEPT ![e] = row[bet[e]]]
          /\ at' = [at EXCEPT ![e] = "match"]
          /\ met' = met \cup {{e, f} : f \in InFlight(bet[e])}
       \/ /\ at' = [at EXCEPT ![e] = "failed"]
          /\ UNCHANGED <<read, met>>
    /\ UNCHANGED <<row, clock, settled, bet, want, moved>>

CheckMatch(e) ==
    /\ at[e] = "match"
    /\ at' \in {[at EXCEPT ![e] = answer] : answer \in
                   {"failed"} \cup (IF started[bet[e]] THEN {} ELSE {"money"})}
    /\ UNCHANGED <<row, clock, settled, bet, want, read, moved, met>>

\* Mutation: a larger stake is not charged.
RefundOnly(e) == IF want[e] < read[e].stake THEN read[e].stake - want[e] ELSE 0

\* calculateAmountDifference: a smaller stake is paid back, a larger one charged.
AmountDifference(e) == read[e].stake - want[e]

\* processRefund or processAdditionalPayment, if there is a difference: Credit and
\* Debit commit on their own, and may fail with or without their commit.
MoveMoney(e) ==
    /\ at[e] = "money"
    /\ \/ /\ at' = [at EXCEPT ![e] = "update"]
          /\ moved' = [moved EXCEPT ![e] = AmountDifference(e)]
       \/ /\ want[e] # read[e].stake
          /\ at' = [at EXCEPT ![e] = "failed"]
          /\ \E sum \in {0, AmountDifference(e)} : moved' = [moved EXCEPT ![e] = sum]
    /\ UNCHANGED <<row, clock, settled, bet, want, read, met>>

\* createEditedBet copies what GetByID returned, which leaves the reason out, and
\* Update writes an empty reason as NULL.
Edited(e) == [read[e] EXCEPT !.stake = want[e], !.reason = "null"]

\* Mutation: sport_bets has no CHECK on its amount.
Accepted(stake) == TRUE

\* CHECK (amount > 0)
Acceptable(stake) == stake > 0

\* Update: WHERE id, the status that was read included. It may commit and yet fail.
Update(e) ==
    /\ at[e] = "update"
    /\ \/ /\ Acceptable(want[e])
          /\ row' = [row EXCEPT ![bet[e]] = Edited(e)]
          /\ \E answer \in {"ok", "failed"} : at' = [at EXCEPT ![e] = answer]
       \/ /\ at' = [at EXCEPT ![e] = "failed"]
          /\ UNCHANGED row
    /\ UNCHANGED <<clock, settled, bet, want, read, moved, met>>

Die(e) ==
    /\ at[e] \in Running
    /\ at' = [at EXCEPT ![e] = "dead"]
    /\ UNCHANGED <<row, clock, settled, bet, want, read, moved, met>>

-----------------------------------------------------------------------------

EditBet(e) == Start(e) \/ CheckMatch(e) \/ MoveMoney(e) \/ Update(e) \/ Die(e)

Next ==
    \/ \E b \in Bets : FiveMinutesPass(b) \/ KickOff(b) \/ Settle(b)
    \/ \E e \in Edits : EditBet(e)

Spec == Init /\ [][Next]_vars

-----------------------------------------------------------------------------
(* Properties *)

TypeOK ==
    /\ row \in [Bets -> Rows]
    /\ \A b \in Bets : row[b].stake > 0
    /\ young \in [Bets -> BOOLEAN] /\ started \in [Bets -> BOOLEAN]
    /\ settled \subseteq Bets
    /\ at \in [Edits -> Running \cup {"new", "ok", "failed", "dead"}]
    /\ bet \in [Edits -> Bets] /\ want \in [Edits -> Stakes]
    /\ read \in [Edits -> Rows]
    /\ moved \in [Edits -> Int]
    /\ met \subseteq Pairs

EditsOf(b) == {e \in Edits : bet[e] = b}

\* An edit that moved money and went no further.
Interrupted(e) == at[e] \in {"failed", "dead"} /\ moved[e] # 0

\* No edit of b was interrupted, and no two of them overlapped.
Undisturbed(b) ==
    \A e \in EditsOf(b) : ~Interrupted(e) /\ \A f \in EditsOf(b) \ {e} : {e, f} \notin met

\* At most one edit of b moved money, and the stake is what was paid before less that.
Balanced(b) ==
    \/ row[b].stake = First[b] /\ \A e \in EditsOf(b) : moved[e] = 0
    \/ \E e \in EditsOf(b) :
          row[b].stake = First[b] - moved[e] /\ \A f \in EditsOf(b) \ {e} : moved[f] = 0

\* The stake of a bet is what its user paid for it. It takes two edits at the same
\* time, each with the refund or the charge of the same original, or one that ends
\* between the money and the row, to make them differ (EditBet).
StakeIsPaidFor ==
    \A b \in Bets : Undisturbed(b) /\ InFlight(b) = {} => Balanced(b)

\* A settled bet keeps its stake and stays settled, unless it was settled under a
\* running edit, which writes back the row it had read before (EditBet, MarkAsWon,
\* MarkAsLost, MarkAsVoid).
SettledIsFinal ==
    [][\A b \in settled :
          (\A e \in EditsOf(b) : {e} \notin met)
          => row'[b].stake = row[b].stake /\ row'[b].status \in Settled]_vars

-----------------------------------------------------------------------------
(* The inductive invariants behind them: that of the stakes rests on the first *)

\* Edits of one bet that got past the checks have met.
Overlapped ==
    \A e, f \in Edits :
        (e # f /\ bet[e] = bet[f] /\ at[e] \in Running \cup {"ok"} /\ at[f] \in Running \cup {"ok"})
        => {e, f} \in met

\* No edit of an edited bet passes the checks: it cannot be read any more (Edited),
\* although the rules in transport/http/edit.go let any pending bet be edited.
ClosedOnceEdited ==
    \A e \in Edits : at[e] = "ok" =>
        ~Readable(row[bet[e]]) \/ row[bet[e]].status # "PENDING"

\* Nothing is about to write to a settled bet, unless it was running then.
QuietOnceSettled ==
    \A b \in settled : (\A e \in EditsOf(b) : {e} \notin met) =>
        row[b].status \in Settled /\ InFlight(b) = {}

SportBetsInv == TypeOK /\ Overlapped /\ ClosedOnceEdited /\ QuietOnceSettled

\* A call moves money once, between its read and its write, and until it writes, the
\* stake it read is the one the bet was placed with.
MoneyGoesWithTheRow(b) ==
    Undisturbed(b) => \A e \in EditsOf(b) :
        /\ at[e] \in {"new", "match", "money"} => moved[e] = 0
        /\ at[e] \in Running => read[e].stake = First[b] /\ row[b].stake = First[b]
        /\ at[e] = "update" => moved[e] = AmountDifference(e)

StakesInv == StakeIsPaidFor /\ \A b \in Bets : MoneyGoesWithTheRow(b)

=============================================================================
