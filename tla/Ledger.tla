------------------------------- MODULE Ledger -------------------------------
(***************************************************************************)
(* What the wallet layer promises, with no transactions, locks or failures *)
(* in sight: every operation on a wallet is one atomic step that moves the *)
(* balance, writes the audit rows that explain the move and, for a bet,    *)
(* writes the bet row, or does nothing at all.                             *)
(*                                                                         *)
(* internal/core/usecase/wallet/wallet.go (package comment) and            *)
(* internal/core/usecase/place_bet.go (PlaceBetUseCase) state the promise; *)
(* module Wallet shows that the code keeps it.                             *)
(***************************************************************************)
EXTENDS Integers, Sequences

CONSTANTS
    Wallets,   \* users that own a row of the wallets table
    Requests,  \* calls into the wallet layer; a bet is named by the call that made it
    Amounts,   \* amounts of single movements
    Stakes,    \* stakes after tax.ApplyStakeTax: records [net, tax]
    Opening    \* the balance a wallet row is created with

VARIABLES
    balance,   \* balance[u]: wallets.balance
    ledger,    \* ledger[u]: the rows of the transactions table, in commit order
    bets       \* bets[b]: "none" or the status column of bet b

vars == <<balance, ledger, bets>>

Abs(x) == IF x < 0 THEN -x ELSE x

\* Mutation: the amount keeps its sign.
SignedEntry(before, amount, ref) ==
    [amount |-> amount, before |-> before, after |-> before + amount, ref |-> ref]

\* One audit row: the amount is stored unsigned, the direction is in the snapshots.
Entry(before, amount, ref) ==
    [amount |-> Abs(amount), before |-> before, after |-> before + amount, ref |-> ref]

\* The rows a stake leaves behind: the net stake and, if any is due, the stake tax.
StakeEntries(before, s, ref) ==
    IF s.tax = 0
    THEN <<Entry(before, -s.net, ref)>>
    ELSE <<Entry(before, -s.net, ref), Entry(before - s.net, -s.tax, ref)>>

Init ==
    /\ balance = [u \in Wallets |-> Opening]
    /\ ledger = [u \in Wallets |-> <<>>]
    /\ bets = [b \in Requests |-> "none"]

Post(u, total, entries) ==
    /\ balance[u] + total >= 0
    /\ balance' = [balance EXCEPT ![u] = balance[u] + total]
    /\ ledger' = [ledger EXCEPT ![u] = ledger[u] \o entries]

Move(r, u, a) ==
    /\ Post(u, a, <<Entry(balance[u], a, r)>>)
    /\ UNCHANGED bets

PlaceBet(r, u, s, status) ==
    /\ bets[r] = "none"
    /\ Post(u, -(s.net + s.tax), StakeEntries(balance[u], s, r))
    /\ bets' = [bets EXCEPT ![r] = status]

CashOut(b, u, a) ==
    /\ bets[b] = "ACTIVE"
    /\ Post(u, a, <<Entry(balance[u], a, b)>>)
    /\ bets' = [bets EXCEPT ![b] = "CASHED_OUT"]

Next ==
    \E r \in Requests, u \in Wallets :
        \/ \E a \in Amounts : Move(r, u, a) \/ Move(r, u, -a) \/ CashOut(r, u, a)
        \/ \E s \in Stakes : PlaceBet(r, u, s, "PENDING")
        \/ \E a \in Amounts : PlaceBet(r, u, [net |-> a, tax |-> 0], "ACTIVE")

Spec == Init /\ [][Next]_vars

=============================================================================
