------------------------------ MODULE Deposits ------------------------------
(***************************************************************************)
(* M-Pesa deposits: the STK push that asks a customer for money             *)
(* (internal/tenant/ke/mpesa.go), the row of mpesa_deposits, and the        *)
(* callbacks with which Safaricom reports the outcome                       *)
(* (internal/infrastructure/http/mpesa_handlers.go).                        *)
(*                                                                         *)
(* A callback is an HTTP request: it may be sent again while Safaricom has  *)
(* no answer to it, its answer may be lost, it may arrive before the row    *)
(* exists, and the process may die between any two of its statements.       *)
(* The handler reaches the row through its interface DepositLookup, which   *)
(* nothing in the repository implements: that FindByCheckoutID, MarkFailed  *)
(* and MarkCompleted are the statements of MPesaDepositRepository is assumed.*)
(* Amounts are in cents.                                                   *)
(***************************************************************************)
EXTENDS Integers

CONSTANTS
    Deposits,   \* deposits, each with its CheckoutRequestID
    Callbacks,  \* HTTP requests that carry a callback, the repeated ones included
    Amounts     \* what customers ask to deposit

ASSUME DepositsAssumption == Amounts \subseteq Nat

VARIABLES
    push,      \* push[d]: the call of InitiateDeposit
    amount,    \* amount[d]: what it was called with
    outcome,   \* outcome[d]: what the customer did with the prompt
    paid,      \* paid[d]: what M-Pesa took
    row,       \* row[d]: status of the row in mpesa_deposits
    waiting,   \* deposits whose callback Safaricom has no answer to
    at,        \* at[c]: the next statement of the handler of callback c
    about,     \* about[c]: the deposit it names
    credited,  \* credited[c]: how often its handler has put the amount into the wallet
    events     \* events[c]: deposit.completed events its handler has published

safaricom == <<outcome, paid, waiting>>
handlers  == <<at, about, credited, events>>
vars      == <<push, amount, row, safaricom, handlers>>

\* What remains of a deposit without the messages and the handlers.
P == INSTANCE Payments WITH Requests <- Callbacks

Statuses == {"PENDING", "COMPLETED", "FAILED"}
Running  == {"markFailed", "lookup", "credit", "markCompleted", "publish"}
Answers  == {"noted", "ignored", "credit failed", "accepted"}

Init ==
    /\ push = [d \in Deposits |-> "new"]
    /\ amount = [d \in Deposits |-> 0]
    /\ outcome = [d \in Deposits |-> "none"]
    /\ paid = [d \in Deposits |-> 0]
    /\ row = [d \in Deposits |-> "none"]
    /\ waiting = {}
    /\ at = [c \in Callbacks |-> "new"]
    /\ about \in [Callbacks -> Deposits]
    /\ credited = [c \in Callbacks |-> 0]
    /\ events = [c \in Callbacks |-> 0]

-----------------------------------------------------------------------------
(* The deposit is started *)

\* Mutation: the shillings are cut off.
Truncated(a) == (a \div 100) * 100

\* amount.StringFixed(0): M-Pesa is asked for whole shillings.
Rounded(a) == ((a + 50) \div 100) * 100

\* InitiateDeposit: no token or no request, and Safaricom never hears of it; or the
\* prompt goes out, and the answer with the CheckoutRequestID may still be lost.
InitiateDeposit(d) ==
    /\ push[d] = "new"
    /\ \E a \in Amounts : amount' = [amount EXCEPT ![d] = a]
    /\ \/ /\ push' = [push EXCEPT ![d] = "failed"]
          /\ UNCHANGED outcome
       \/ /\ outcome' = [outcome EXCEPT ![d] = "prompted"]
          /\ \E answer \in {"ok", "failed"} : push' = [push EXCEPT ![d] = answer]
    /\ UNCHANGED <<row, paid, waiting, handlers>>

\* MPesaDepositRepository.Create needs the CheckoutRequestID of the answer: the
\* callback may be there first, and after a crash the row is never written.
Create(d) ==
    /\ push[d] = "ok"
    /\ row[d] = "none"
    /\ row' = [row EXCEPT ![d] = "PENDING"]
    /\ UNCHANGED <<push, amount, safaricom, handlers>>

-----------------------------------------------------------------------------
(* Safaricom *)

Pay(d) ==
    /\ outcome[d] = "prompted"
    /\ outcome' = [outcome EXCEPT ![d] = "paid"]
    /\ paid' = [paid EXCEPT ![d] = Rounded(amount[d])]
    /\ waiting' = waiting \cup {d}
    /\ UNCHANGED <<push, amount, row, handlers>>

\* Wrong PIN, no funds, cancelled, no reply: a ResultCode that is not 0.
Refuse(d) ==
    /\ outcome[d] = "prompted"
    /\ outcome' = [outcome EXCEPT ![d] = "refused"]
    /\ waiting' = waiting \cup {d}
    /\ UNCHANGED <<push, amount, row, paid, handlers>>

-----------------------------------------------------------------------------
(* stkCallback *)

\* Mutation: the ResultCode is not looked at.
AlwaysLookup(c) ==
    /\ at[c] = "new" /\ about[c] \in waiting
    /\ at' = [at EXCEPT ![c] = "lookup"]
    /\ UNCHANGED <<push, amount, row, safaricom, about, credited, events>>

Receive(c) ==
    /\ at[c] = "new" /\ about[c] \in waiting
    /\ at' = [at EXCEPT ![c] = IF outcome[about[c]] = "refused" THEN "markFailed" ELSE "lookup"]
    /\ UNCHANGED <<push, amount, row, safaricom, about, credited, events>>

\* The answer reaches Safaricom, which then stops, or it does not. A ResultCode
\* other than 0 stops it as well.
Answer(c, answer) ==
    /\ at' = [at EXCEPT ![c] = answer]
    /\ waiting' \in {waiting, waiting \ {about[c]}}

\* Mutation: the status goes to the wrong constant.
SetCancelled(d, status) == row' \in {row, [row EXCEPT ![d] = "CANCELLED"]}

\* UpdateStatus, which MarkFailed and MarkCompleted are taken to be: UPDATE
\* mpesa_deposits SET status WHERE id, whatever the status was.
SetStatus(d, status) ==
    row' \in {row, [row EXCEPT ![d] = IF @ = "none" THEN @ ELSE status]}

\* An error is logged and changes nothing in the answer.
MarkFailed(c) ==
    /\ at[c] = "markFailed"
    /\ SetStatus(about[c], "FAILED")
    /\ Answer(c, "noted")
    /\ UNCHANGED <<push, amount, outcome, paid, about, credited, events>>

\* FindByCheckoutID, taken to be GetByCheckoutRequestID: no row, or the query fails.
Lookup(c) ==
    /\ at[c] = "lookup"
    /\ \/ /\ row[about[c]] # "none"
          /\ at' = [at EXCEPT ![c] = "credit"]
          /\ UNCHANGED waiting
       \/ Answer(c, "ignored")
    /\ UNCHANGED <<push, amount, row, outcome, paid, about, credited, events>>

\* Mutation: the error of Credit is logged only.
IgnoreCreditError(c) ==
    /\ at[c] = "credit"
    /\ at' = [at EXCEPT ![c] = "markCompleted"]
    /\ credited' \in {credited, [credited EXCEPT ![c] = @ + 1]}
    /\ UNCHANGED <<push, amount, row, safaricom, about, events>>

\* wallet.Service.Credit with the amount of the row and a fresh reference: the status
\* of the deposit is not looked at. It may fail after its commit, see module Wallet.
Credit(c) ==
    /\ at[c] = "credit"
    /\ \/ /\ credited' = [credited EXCEPT ![c] = @ + 1]
          /\ at' = [at EXCEPT ![c] = "markCompleted"]
          /\ UNCHANGED waiting
       \/ /\ credited' \in {credited, [credited EXCEPT ![c] = @ + 1]}
          /\ Answer(c, "credit failed")
    /\ UNCHANGED <<push, amount, row, outcome, paid, about, events>>

MarkCompleted(c) ==
    /\ at[c] = "markCompleted"
    /\ SetStatus(about[c], "COMPLETED")
    /\ at' = [at EXCEPT ![c] = "publish"]
    /\ UNCHANGED <<push, amount, safaricom, about, credited, events>>

Publish(c) ==
    /\ at[c] = "publish"
    /\ events' \in {events, [events EXCEPT ![c] = @ + 1]}
    /\ Answer(c, "accepted")
    /\ UNCHANGED <<push, amount, row, outcome, paid, about, credited>>

\* The process dies while it handles c: Safaricom gets no answer.
Die(c) ==
    /\ at[c] \in Running
    /\ at' = [at EXCEPT ![c] = "dead"]
    /\ UNCHANGED <<push, amount, row, safaricom, about, credited, events>>

-----------------------------------------------------------------------------

Handle(c) == MarkFailed(c) \/ Lookup(c) \/ Credit(c) \/ MarkCompleted(c) \/ Publish(c)

Next ==
    \/ \E d \in Deposits : InitiateDeposit(d) \/ Create(d) \/ Pay(d) \/ Refuse(d)
    \/ \E c \in Callbacks : Receive(c) \/ Handle(c) \/ Die(c)

Spec == Init /\ [][Next]_vars

-----------------------------------------------------------------------------
(* Properties *)

TypeOK ==
    /\ push \in [Deposits -> {"new", "ok", "failed"}]
    /\ amount \in [Deposits -> Nat]
    /\ outcome \in [Deposits -> {"none", "prompted", "paid", "refused"}]
    /\ paid \in [Deposits -> Nat]
    /\ row \in [Deposits -> Statuses \cup {"none"}]
    /\ waiting \subseteq Deposits
    /\ at \in [Callbacks -> Running \cup Answers \cup {"new", "dead"}]
    /\ about \in [Callbacks -> Deposits]
    /\ credited \in [Callbacks -> Nat]
    /\ events \in [Callbacks -> Nat]

\* A deposit is credited, or reported as completed, only if the customer paid it, and
\* reported as failed only if he did not, in whatever order requests and the row arrive.
\* A completed deposit is in the wallet: MarkCompleted comes after Credit, a failed or
\* interrupted credit leaves the row PENDING for the reconciliation to find.
RowTellsOutcome ==
    /\ \A c \in Callbacks : credited[c] > 0 =>
          outcome[about[c]] = "paid" /\ row[about[c]] # "none"
    /\ \A d \in Deposits :
          /\ row[d] = "COMPLETED" =>
                outcome[d] = "paid" /\ \E c \in Callbacks : about[c] = d /\ credited[c] > 0
          /\ row[d] = "FAILED" => outcome[d] = "refused"

\* The wallet gets the amount of the row and M-Pesa took whole shillings: they differ
\* by half a shilling at most.
WithinHalfShilling ==
    \A d \in Deposits : outcome[d] = "paid" =>
        paid[d] - amount[d] <= 50 /\ amount[d] - paid[d] <= 50

\* Every step of the handlers, however they are repeated, reordered or interrupted, is
\* one step of Payments or none: SetStatus looks at no status and still never replaces
\* one that is final.
RefinesPayments == P!Spec

-----------------------------------------------------------------------------
(* The inductive invariant behind them *)

\* What a handler knows at each statement, and what it has done by then.
Progress(c) ==
    LET d == about[c] IN
    /\ credited[c] = 1 => outcome[d] = "paid" /\ row[d] # "none"
    /\ credited[c] \in {0, 1} /\ events[c] \in {0, credited[c]}
    /\ at[c] # "accepted" => events[c] = 0
    /\ at[c] \in {"new", "markFailed", "lookup", "credit"} => credited[c] = 0
    /\ at[c] \in {"markCompleted", "publish", "accepted"} => credited[c] = 1
    /\ at[c] = "markFailed" => outcome[d] = "refused"
    /\ at[c] \in {"lookup", "credit"} => outcome[d] = "paid"
    /\ at[c] = "credit" => row[d] # "none"

\* The amount is fixed when the customer is prompted.
Prompted(d) ==
    /\ push[d] = "new" => outcome[d] = "none"
    /\ push[d] = "ok" => outcome[d] # "none"
    /\ outcome[d] = "paid" => paid[d] = Rounded(amount[d])
    /\ d \in waiting => outcome[d] \in {"paid", "refused"}

DepositsInv ==
    /\ TypeOK
    /\ \A c \in Callbacks : Progress(c)
    /\ \A d \in Deposits : Prompted(d)
    /\ RowTellsOutcome

=============================================================================
