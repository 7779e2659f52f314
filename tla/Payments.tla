------------------------------ MODULE Payments ------------------------------
(***************************************************************************)
(* What the handling of deposits promises, with no answers, repeats, early  *)
(* callbacks or dying handlers in sight: a deposit is recorded after the    *)
(* customer was asked, a request credits it at most once (two requests      *)
(* about one deposit credit it twice, and nothing forbids it), only after he *)
(* paid, and the status in its row is final: COMPLETED is only written      *)
(* over PENDING and after a credit, FAILED only over PENDING and after a    *)
(* refusal. Module Deposits shows that the code keeps it.                   *)
(***************************************************************************)
EXTENDS Integers

CONSTANTS
    Deposits,  \* deposits
    Requests   \* HTTP requests that carry a callback

VARIABLES
    outcome,   \* outcome[d]: what the customer did
    row,       \* row[d]: the status in mpesa_deposits
    about,     \* about[r]: the deposit that request r names
    credited   \* credited[r]: how often r has credited it

vars == <<outcome, row, about, credited>>

Init ==
    /\ outcome = [d \in Deposits |-> "none"]
    /\ row = [d \in Deposits |-> "none"]
    /\ about \in [Requests -> Deposits]
    /\ credited = [r \in Requests |-> 0]

Decide(d, from, to) ==
    /\ outcome[d] = from
    /\ outcome' = [outcome EXCEPT ![d] = to]
    /\ UNCHANGED <<row, about, credited>>

Record(d) ==
    /\ outcome[d] # "none" /\ row[d] = "none"
    /\ row' = [row EXCEPT ![d] = "PENDING"]
    /\ UNCHANGED <<outcome, about, credited>>

Credit(r) ==
    /\ outcome[about[r]] = "paid" /\ row[about[r]] # "none"
    /\ credited[r] = 0
    /\ credited' = [credited EXCEPT ![r] = 1]
    /\ UNCHANGED <<outcome, row, about>>

Close(d, status) ==
    /\ row[d] = "PENDING"
    /\ \/ /\ status = "COMPLETED" /\ outcome[d] = "paid"
          /\ \E r \in Requests : about[r] = d /\ credited[r] = 1
       \/ status = "FAILED" /\ outcome[d] = "refused"
    /\ row' = [row EXCEPT ![d] = status]
    /\ UNCHANGED <<outcome, about, credited>>

Next ==
    \/ \E d \in Deposits :
          \/ Decide(d, "none", "prompted")
          \/ Decide(d, "prompted", "paid") \/ Decide(d, "prompted", "refused")
          \/ Record(d)
          \/ Close(d, "COMPLETED") \/ Close(d, "FAILED")
    \/ \E r \in Requests : Credit(r)

Spec == Init /\ [][Next]_vars

=============================================================================
