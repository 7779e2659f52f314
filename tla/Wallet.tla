------------------------------- MODULE Wallet -------------------------------
(***************************************************************************)
(* The wallets table and everything that writes it while the platform      *)
(* runs, statement by statement, against PostgreSQL's READ COMMITTED row    *)
(* locks:                                                                  *)
(*   - wallet.Service: Debit, Credit and Apply around ApplyTx              *)
(*   - PlaceBetUseCase.Execute: two movements and a bet row, one transaction *)
(*   - GameBetRepository.CreateBetWithWalletUpdate (crash game stake)      *)
(*   - GameBetRepository.AtomicAutoCashoutWithCredit (crash game payout)   *)
(*                                                                         *)
(* A request is one call of one of these. A row a transaction has written  *)
(* but not committed is its draft; the row lock keeps other transactions   *)
(* from writing it, so one draft per row is enough.                        *)
(***************************************************************************)
EXTENDS Integers, Sequences

CONSTANTS
    Users,      \* users of the platform
    Wallets,    \* those with a row in wallets (Users \ Wallets: ErrWalletNotFound)
    Eligible,   \* users for which User.CanPlaceBet answers true
    Requests,   \* calls into the wallet layer, each made at most once
    Kinds,      \* the entry points that are exercised
    Amounts,    \* arguments of Debit, Credit, game stakes and payouts
    Stakes,     \* stakes with the tax engine's split: records [net, tax]
    MinStake,   \* PlaceBetUseCase.minStake
    MaxStake,   \* PlaceBetUseCase.maxStake
    Opening,    \* balance of a fresh wallet
    NoRequest   \* a free row lock

AllKinds == {"movement", "placeBet", "gameBet", "cashout"}

ASSUME WalletAssumption ==
    /\ Wallets \subseteq Users
    /\ Kinds \subseteq AllKinds
    /\ Amounts \subseteq Nat
    /\ Stakes \subseteq [net : Nat \ {0}, tax : Nat]
    /\ Opening \in Nat
    /\ NoRequest \notin Requests

VARIABLES
    wallet,    \* wallet[u]: committed row [balance, version]
    draft,     \* draft[u]: the row as the holder of its lock sees it
    lock,      \* lock[u]: the transaction that holds the row lock
    ledger,    \* ledger[u]: committed rows of transactions
    bets,      \* bets[b]: committed status of the bet row, "none" if there is none
    betDraft,  \* betDraft[b]: the bet row as the holder of its lock sees it
    betLock,   \* betLock[b]: the transaction that holds the bet row's lock
    pc,        \* pc[r]: the next statement of request r
    kind,      \* kind[r]: which entry point r called
    owner,     \* owner[r]: the user r acts for
    bet,       \* bet[r]: the bet r inserts or pays
    moves,     \* moves[r]: signed amounts still to be applied
    seen,      \* seen[r]: ApplyTx's local copy of the wallet row
    rows       \* rows[r]: audit rows written and not yet committed

tables == <<wallet, ledger, bets>>
locks  == <<draft, lock, betDraft, betLock>>
call   == <<kind, owner, bet>>
vars   == <<tables, locks, call, pc, moves, seen, rows>>

L == INSTANCE Ledger WITH balance <- [u \in Wallets |-> wallet[u].balance]

InTransaction == {"select", "update", "insert", "debit", "insertBet",
                  "claim", "credit", "record", "commit"}
Answered == {"ok", "failed", "leaked"}

Init ==
    /\ wallet = [u \in Wallets |-> [balance |-> Opening, version |-> 1]]
    /\ draft = wallet
    /\ lock = [u \in Wallets |-> NoRequest]
    /\ ledger = [u \in Wallets |-> <<>>]
    /\ bets = [b \in Requests |-> "none"]
    /\ betDraft = bets
    /\ betLock = [b \in Requests |-> NoRequest]
    /\ pc = [r \in Requests |-> "new"]
    /\ kind \in [Requests -> Kinds]
    /\ owner \in [Requests -> Users]
    /\ bet = [r \in Requests |-> r]
    /\ moves = [r \in Requests |-> <<>>]
    /\ seen = [r \in Requests |-> [balance |-> 0, version |-> 0]]
    /\ rows = [r \in Requests |-> <<>>]

-----------------------------------------------------------------------------
(* Transactions *)

Goto(r, label) == pc' = [pc EXCEPT ![r] = label]

\* Mutation: a failing path leaves its transaction open.
KeepLocks(r) == UNCHANGED <<lock, betLock>>

\* Rows locked by r go back to their committed contents when r's transaction ends.
Release(r) ==
    /\ lock' = [u \in Wallets |-> IF lock[u] = r THEN NoRequest ELSE lock[u]]
    /\ betLock' = [b \in Requests |-> IF betLock[b] = r THEN NoRequest ELSE betLock[b]]

Rollback(r) ==
    /\ Release(r)
    /\ draft' = [u \in Wallets |-> IF lock[u] = r THEN wallet[u] ELSE draft[u]]
    /\ betDraft' = [b \in Requests |-> IF betLock[b] = r THEN bets[b] ELSE betDraft[b]]
    /\ rows' = [rows EXCEPT ![r] = <<>>]
    /\ moves' = [moves EXCEPT ![r] = <<>>]
    /\ Goto(r, "failed")
    /\ UNCHANGED <<tables, call, seen>>

\* COMMIT; the answer may be lost on the way, the caller then sees an error.
Commit(r) ==
    /\ pc[r] = "commit"
    /\ wallet' = [u \in Wallets |-> IF lock[u] = r THEN draft[u] ELSE wallet[u]]
    /\ ledger' = [u \in Wallets |-> IF u = owner[r] THEN ledger[u] \o rows[r] ELSE ledger[u]]
    /\ bets' = [b \in Requests |-> IF betLock[b] = r THEN betDraft[b] ELSE bets[b]]
    /\ Release(r)
    /\ rows' = [rows EXCEPT ![r] = <<>>]
    /\ Goto(r, "ok") \/ Goto(r, "failed")
    /\ UNCHANGED <<draft, betDraft, call, moves, seen>>

\* A statement fails, the context is cancelled, the process or the connection
\* dies: the deferred Rollback, or the server, ends the transaction.
Abort(r) == pc[r] \in InTransaction /\ Rollback(r)

-----------------------------------------------------------------------------
(* Entry points: arguments are checked before a transaction begins *)

Start(r, label, amounts) ==
    /\ moves' = [moves EXCEPT ![r] = amounts]
    /\ Goto(r, label)
    /\ UNCHANGED <<tables, locks, call, seen, rows>>

\* Mutation: the early return has no error.
RefuseSilently(r) ==
    /\ Goto(r, "ok")
    /\ UNCHANGED <<tables, locks, call, moves, seen, rows>>

Refuse(r) ==
    /\ Goto(r, "failed")
    /\ UNCHANGED <<tables, locks, call, moves, seen, rows>>

\* Service.Credit and Service.Debit, which run Apply.
CallMovement(r) ==
    /\ pc[r] = "new" /\ kind[r] = "movement"
    /\ \E a \in Amounts :
        IF a > 0 THEN Start(r, "select", <<a>>) \/ Start(r, "select", <<-a>>)
                 ELSE Refuse(r)

\* PlaceBetUseCase.Execute up to BeginTx.
CallPlaceBet(r) ==
    /\ pc[r] = "new" /\ kind[r] = "placeBet"
    /\ \E s \in Stakes :
        IF owner[r] \in Eligible /\ s.net + s.tax \in MinStake .. MaxStake
        THEN Start(r, "select", IF s.tax > 0 THEN <<-s.net, -s.tax>> ELSE <<-s.net>>)
        ELSE Refuse(r)

CallGameBet(r) ==
    /\ pc[r] = "new" /\ kind[r] = "gameBet"
    /\ \E a \in Amounts \ {0} : Start(r, "debit", <<-a>>)

\* checkAutoCashouts found bet b ACTIVE and calls AtomicAutoCashoutWithCredit.
CallCashout(r) ==
    /\ pc[r] = "new" /\ kind[r] = "cashout"
    /\ \E b \in Requests, a \in Amounts \ {0} :
        /\ bets[b] = "ACTIVE"
        /\ owner' = [owner EXCEPT ![r] = owner[b]]
        /\ bet' = [bet EXCEPT ![r] = b]
        /\ moves' = [moves EXCEPT ![r] = <<a>>]
    /\ Goto(r, "claim")
    /\ UNCHANGED <<tables, locks, kind, seen, rows>>

-----------------------------------------------------------------------------
(* ApplyTx *)

CanLock(r, u) == lock[u] \in {NoRequest, r}

\* Mutation: SELECT without FOR UPDATE.
SelectUnlocked(r) ==
    /\ pc[r] = "select" /\ owner[r] \in Wallets
    /\ LET row == IF rows[r] = <<>> THEN wallet[owner[r]] ELSE draft[owner[r]] IN
       /\ row.balance + Head(moves[r]) >= 0
       /\ seen' = [seen EXCEPT ![r] = row]
    /\ Goto(r, "update")
    /\ UNCHANGED <<tables, locks, call, moves, rows>>

\* SELECT ... FOR UPDATE, then the funds check on what it returned.
SelectForUpdate(r) ==
    /\ pc[r] = "select"
    /\ LET u == owner[r] IN
       IF u \notin Wallets
       THEN Rollback(r)
       ELSE /\ CanLock(r, u)
            /\ IF draft[u].balance + Head(moves[r]) < 0
               THEN Rollback(r)
               ELSE /\ lock' = [lock EXCEPT ![u] = r]
                    /\ seen' = [seen EXCEPT ![r] = draft[u]]
                    /\ Goto(r, "update")
                    /\ UNCHANGED <<tables, draft, betDraft, betLock, call, moves, rows>>

\* UPDATE wallets ... WHERE id AND version = the one read.
UpdateWallet(r) ==
    /\ pc[r] = "update"
    /\ LET u == owner[r] IN
       /\ CanLock(r, u)
       /\ IF draft[u].version # seen[r].version
          THEN Rollback(r)
          ELSE /\ draft' = [draft EXCEPT ![u] =
                      [balance |-> seen[r].balance + Head(moves[r]),
                       version |-> draft[u].version + 1]]
               /\ lock' = [lock EXCEPT ![u] = r]
               /\ Goto(r, "insert")
               /\ UNCHANGED <<tables, betDraft, betLock, call, moves, seen, rows>>

\* Mutation: PlaceBet commits before the bet is inserted.
InsertAndCommit(r) ==
    /\ pc[r] = "insert"
    /\ rows' = [rows EXCEPT ![r] =
                  Append(rows[r], L!Entry(seen[r].balance, Head(moves[r]), r))]
    /\ moves' = [moves EXCEPT ![r] = Tail(moves[r])]
    /\ Goto(r, IF Tail(moves[r]) # <<>> THEN "select" ELSE "commit")
    /\ UNCHANGED <<tables, locks, call, seen>>

\* INSERT INTO transactions; PlaceBet goes on with its next movement or the bet.
InsertTransaction(r) ==
    /\ pc[r] = "insert"
    /\ rows' = [rows EXCEPT ![r] =
                  Append(rows[r], L!Entry(seen[r].balance, Head(moves[r]), r))]
    /\ moves' = [moves EXCEPT ![r] = Tail(moves[r])]
    /\ Goto(r, IF Tail(moves[r]) # <<>> THEN "select"
               ELSE IF kind[r] = "placeBet" THEN "insertBet" ELSE "commit")
    /\ UNCHANGED <<tables, locks, call, seen>>

-----------------------------------------------------------------------------
(* Bet rows and the crash game's own statements *)

\* UPDATE wallets SET balance = balance - $1 ... AND balance >= $1: a committed
\* row that does not match is skipped, one that matches is waited for and, with
\* the lock in hand, tested again.
DebitStake(r) ==
    /\ pc[r] = "debit"
    /\ LET u == owner[r] IN
       IF u \notin Wallets \/ wallet[u].balance + Head(moves[r]) < 0
       THEN Rollback(r)
       ELSE /\ CanLock(r, u)
            /\ draft' = [draft EXCEPT ![u].balance = draft[u].balance + Head(moves[r])]
            /\ lock' = [lock EXCEPT ![u] = r]
            /\ Goto(r, "insertBet")
            /\ UNCHANGED <<tables, betDraft, betLock, call, moves, seen, rows>>

\* INSERT INTO bets (PENDING) or INTO game_bets (ACTIVE).
InsertBet(r) ==
    /\ pc[r] = "insertBet"
    /\ betLock' = [betLock EXCEPT ![r] = r]
    /\ betDraft' = [betDraft EXCEPT ![r] = IF kind[r] = "placeBet" THEN "PENDING" ELSE "ACTIVE"]
    /\ Goto(r, IF kind[r] = "placeBet" THEN "commit" ELSE "record")
    /\ UNCHANGED <<tables, draft, lock, call, moves, seen, rows>>

\* Mutation: UPDATE game_bets ... WHERE id.
ClaimAnyBet(r) ==
    /\ pc[r] = "claim"
    /\ betLock[bet[r]] \in {NoRequest, r}
    /\ betDraft' = [betDraft EXCEPT ![bet[r]] = "CASHED_OUT"]
    /\ betLock' = [betLock EXCEPT ![bet[r]] = r]
    /\ Goto(r, "credit")
    /\ UNCHANGED <<tables, draft, lock, call, moves, seen, rows>>

\* UPDATE game_bets ... WHERE id AND status = ACTIVE. When no row matches the
\* function returns without ending its transaction: the connection is lost to it.
ClaimBet(r) ==
    /\ pc[r] = "claim"
    /\ IF bets[bet[r]] # "ACTIVE"
       THEN /\ Goto(r, "leaked")
            /\ UNCHANGED <<betDraft, betLock>>
       ELSE /\ betLock[bet[r]] \in {NoRequest, r}
            /\ betDraft' = [betDraft EXCEPT ![bet[r]] = "CASHED_OUT"]
            /\ betLock' = [betLock EXCEPT ![bet[r]] = r]
            /\ Goto(r, "credit")
    /\ UNCHANGED <<tables, draft, lock, call, moves, seen, rows>>

\* UPDATE wallets SET balance = balance + $1
CreditPayout(r) ==
    /\ pc[r] = "credit"
    /\ LET u == owner[r] IN
       /\ CanLock(r, u)
       /\ draft' = [draft EXCEPT ![u].balance = draft[u].balance + Head(moves[r])]
       /\ lock' = [lock EXCEPT ![u] = r]
    /\ Goto(r, "record")
    /\ UNCHANGED <<tables, betDraft, betLock, call, moves, seen, rows>>

\* Mutation: the snapshots are read from the committed row.
RecordFromTable(r) ==
    /\ pc[r] = "record"
    /\ LET after == wallet[owner[r]].balance
           a == Head(moves[r])
       IN rows' = [rows EXCEPT ![r] = <<L!Entry(after - a, a, bet[r])>>]
    /\ moves' = [moves EXCEPT ![r] = <<>>]
    /\ Goto(r, "commit")
    /\ UNCHANGED <<tables, locks, call, seen>>

\* INSERT INTO transactions SELECT ...: the snapshots are computed from the row
\* the transaction has just updated.
RecordMovement(r) ==
    /\ pc[r] = "record"
    /\ LET after == draft[owner[r]].balance
           a == Head(moves[r])
       IN rows' = [rows EXCEPT ![r] = <<L!Entry(after - a, a, bet[r])>>]
    /\ moves' = [moves EXCEPT ![r] = <<>>]
    /\ Goto(r, "commit")
    /\ UNCHANGED <<tables, locks, call, seen>>

-----------------------------------------------------------------------------

Call(r) == CallMovement(r) \/ CallPlaceBet(r) \/ CallGameBet(r) \/ CallCashout(r)

Statement(r) ==
    \/ SelectForUpdate(r) \/ UpdateWallet(r) \/ InsertTransaction(r)
    \/ DebitStake(r) \/ InsertBet(r)
    \/ ClaimBet(r) \/ CreditPayout(r) \/ RecordMovement(r)
    \/ Commit(r)

Next == \E r \in Requests : Call(r) \/ Statement(r) \/ Abort(r)

Spec == Init /\ [][Next]_vars

\* The database answers the statement a transaction is waiting on: a waiter gets
\* the row lock once its holder is gone. Nobody has to call, nothing has to fail.
FairSpec == Spec /\ \A r \in Requests : WF_vars(Statement(r))

-----------------------------------------------------------------------------
(* Properties *)

Row == [amount : Nat, before : Int, after : Int, ref : Requests]

BetStatus == {"none", "PENDING", "ACTIVE", "CASHED_OUT"}

TypeOK ==
    /\ wallet \in [Wallets -> [balance : Int, version : Nat]]
    /\ draft \in [Wallets -> [balance : Int, version : Nat]]
    /\ lock \in [Wallets -> Requests \cup {NoRequest}]
    /\ ledger \in [Wallets -> Seq(Row)]
    /\ bets \in [Requests -> BetStatus]
    /\ betDraft \in [Requests -> BetStatus]
    /\ betLock \in [Requests -> Requests \cup {NoRequest}]
    /\ pc \in [Requests -> InTransaction \cup Answered \cup {"new"}]
    /\ kind \in [Requests -> Kinds]
    /\ owner \in [Requests -> Users]
    /\ bet \in [Requests -> Requests]
    /\ moves \in [Requests -> Seq(Int)]
    /\ seen \in [Requests -> [balance : Int, version : Nat]]
    /\ rows \in [Requests -> Seq(Row)]

\* Audit rows that lead from one balance to another without going below zero.
Chain(entries, start, end) ==
    /\ \A i \in 1 .. Len(entries) :
          /\ entries[i].before = IF i = 1 THEN start ELSE entries[i - 1].after
          /\ entries[i].after >= 0
    /\ end = IF entries = <<>> THEN start ELSE entries[Len(entries)].after

\* The audit trail explains every wallet: each row starts from the balance the row
\* before it left, no row goes below zero, and the last one left the balance the
\* wallet has. A lost update, an unaudited write or an overdraft breaks the chain
\* (ApplyTx and the crash game's statements write the same row under one lock).
AuditChain ==
    \A u \in Wallets : Chain(ledger[u], Opening, wallet[u].balance)

\* Between ApplyTx's SELECT and its UPDATE nobody touches the row, so the version
\* guard never reports ErrOptimisticConflict to a caller.
SnapshotFresh ==
    \A r \in Requests : pc[r] = "update" => seen[r] = draft[owner[r]]

\* Where in a ledger money was taken for bet b, and where b was paid.
Debits(entries, b) ==
    {i \in 1 .. Len(entries) : entries[i].ref = b /\ entries[i].after < entries[i].before}

Credits(entries, b) ==
    {i \in 1 .. Len(entries) : entries[i].ref = b /\ entries[i].after > entries[i].before}

\* What the ledger must hold for bet b: its stake, once, and the tax row right behind
\* the row of the net stake.
Backed(b) ==
    LET entries == ledger[owner[b]]
        debits == Debits(entries, b)
    IN  /\ bets[b] = "none" <=> debits = {}
        /\ bets[b] \in {"ACTIVE", "CASHED_OUT"} => \A i, j \in debits : i = j
        /\ bets[b] = "PENDING" =>
              \E s \in Stakes, i \in debits :
                  /\ entries[i].amount = s.net
                  /\ IF s.tax = 0
                     THEN debits = {i}
                     ELSE debits = {i, i + 1} /\ entries[i + 1].amount = s.tax

\* PlaceBet and the crash game never debit a player without a bet row, never write the
\* bet without its stake or the stake twice, and never take the stake without its tax.
BetBacked ==
    \A b \in Requests :
        owner[b] \in Wallets /\ kind[b] \in {"placeBet", "gameBet"} => Backed(b)

\* A crash game bet is paid at most once, and exactly when its row says CASHED_OUT,
\* whatever number of ticks race to cash it out.
PaidOnce ==
    \A b \in {b \in Requests : owner[b] \in Wallets /\ kind[b] = "gameBet"} :
        LET payouts == Credits(ledger[owner[b]], b) IN
        /\ \A i, j \in payouts : i = j
        /\ payouts # {} <=> bets[b] = "CASHED_OUT"

\* What the caller of r was promised is committed.
Done(r) ==
    /\ kind[r] = "movement" => \E i \in 1 .. Len(ledger[owner[r]]) : ledger[owner[r]][i].ref = r
    /\ kind[r] = "placeBet" => bets[r] = "PENDING"
    /\ kind[r] = "gameBet" => bets[r] \in {"ACTIVE", "CASHED_OUT"}
    /\ kind[r] = "cashout" => bets[bet[r]] = "CASHED_OUT"

\* A caller that is told the operation succeeded finds its effect committed.
OkMeansDone == \A r \in Requests : pc[r] = "ok" => Done(r)

\* The statements, locks and failures above implement the atomic operations of
\* module Ledger: every commit is one of them, nothing else changes the tables.
RefinesLedger == L!Spec

\* No two transactions wait for each other and no failure leaves a lock behind:
\* every call that begins a transaction gets an answer.
CallsAreAnswered ==
    \A r \in Requests : pc[r] \in InTransaction ~> pc[r] \in Answered

-----------------------------------------------------------------------------
(* The inductive invariant behind AuditChain and SnapshotFresh *)

\* Statements before which a transaction has its wallet row locked.
Holding == {"update", "insert", "insertBet", "record", "commit"}

\* A free row has no draft.
FreeRows == \A u \in Wallets : lock[u] = NoRequest => draft[u] = wallet[u]

\* A locked row belongs to a transaction of its owner, and the statements that need
\* the lock have it.
LockedBy(r) ==
    /\ \A u \in Wallets :
          lock[u] = r => owner[r] = u /\ pc[r] \in Holding \cup {"select"}
    /\ pc[r] \in Holding \/ (pc[r] = "select" /\ rows[r] # <<>>) =>
          owner[r] \in Wallets /\ lock[owner[r]] = r

\* A bet row belongs to a caller that has a wallet and is past its first step.
BetOwner(b) ==
    /\ bets[b] # "none" \/ betDraft[b] # "none" => pc[b] # "new" /\ owner[b] \in Wallets
    /\ pc[b] \in {"claim", "credit"} => owner[b] \in Wallets

\* How far a transaction has come: its audit rows lead from the committed balance
\* to the one in its draft, or are a statement behind it.
Drafted(r) ==
    LET u == owner[r]
        a == Head(moves[r])
        recorded == pc[r] = "commit" \/ (pc[r] = "insertBet" /\ kind[r] = "placeBet")
        unrecorded == pc[r] = "record" \/ (pc[r] = "insertBet" /\ kind[r] # "placeBet")
    IN  /\ pc[r] \in InTransaction /\ ~recorded => moves[r] # <<>>
        /\ pc[r] = "debit" => kind[r] # "placeBet"
        /\ pc[r] \in {"new", "debit", "claim", "credit"} => rows[r] = <<>>
        /\ pc[r] = "select" /\ rows[r] # <<>> =>
              Chain(rows[r], wallet[u].balance, draft[u].balance)
        /\ pc[r] = "select" /\ u \in Wallets /\ rows[r] = <<>> => lock[u] # r
        /\ pc[r] = "update" =>
              /\ seen[r] = draft[u]
              /\ Chain(rows[r], wallet[u].balance, draft[u].balance)
              /\ draft[u].balance + a >= 0
        /\ pc[r] = "insert" =>
              /\ Chain(rows[r], wallet[u].balance, seen[r].balance)
              /\ draft[u].balance = seen[r].balance + a
              /\ draft[u].balance >= 0
        /\ recorded => Chain(rows[r], wallet[u].balance, draft[u].balance)
        /\ unrecorded =>
              /\ rows[r] = <<>>
              /\ draft[u].balance = wallet[u].balance + a
              /\ draft[u].balance >= 0
        /\ pc[r] \in {"claim", "credit"} => a >= 0

RequestInv == \A r \in Requests : LockedBy(r) /\ BetOwner(r) /\ Drafted(r)

WalletInv == TypeOK /\ FreeRows /\ RequestInv /\ AuditChain

-----------------------------------------------------------------------------
(* The inductive invariant behind PaidOnce and OkMeansDone, on top of WalletInv *)

\* Which entry point runs which statement, and which bet it names.
Entered(r) ==
    /\ kind[r] # "cashout" => bet[r] = r
    /\ kind[r] = "cashout" /\ pc[r] # "new" =>
          kind[bet[r]] = "gameBet" /\ owner[bet[r]] = owner[r]
    /\ pc[r] \in {"select", "update", "insert"} => kind[r] \in {"movement", "placeBet"}
    /\ pc[r] = "debit" => kind[r] = "gameBet"
    /\ pc[r] = "insertBet" => kind[r] \in {"placeBet", "gameBet"}
    /\ pc[r] \in {"claim", "credit"} => kind[r] = "cashout"
    /\ pc[r] = "record" => kind[r] \in {"gameBet", "cashout"}
    /\ pc[r] = "ok" => owner[r] \in Wallets

\* Statements before which a transaction has inserted or claimed its bet.
HoldsBet(r) == pc[r] \in {"credit", "record"} \/ (pc[r] = "commit" /\ kind[r] # "movement")

\* A free bet row has no draft, a locked one belongs to the call that names it.
BetLocked(b) ==
    /\ betLock[b] = NoRequest => betDraft[b] = bets[b]
    /\ betLock[b] # NoRequest => bet[betLock[b]] = b /\ HoldsBet(betLock[b])
    /\ bets[b] \in {"ACTIVE", "CASHED_OUT"} => kind[b] = "gameBet"

\* What a transaction does to its bet.
BetMoved(r) ==
    /\ HoldsBet(r) =>
          /\ betLock[bet[r]] = r
          /\ kind[r] = "placeBet" => bets[r] = "none" /\ betDraft[r] = "PENDING"
          /\ kind[r] = "gameBet" => bets[r] = "none" /\ betDraft[r] = "ACTIVE"
          /\ kind[r] = "cashout" => bets[bet[r]] = "ACTIVE" /\ betDraft[bet[r]] = "CASHED_OUT"
    /\ kind[r] \in {"placeBet", "gameBet"} /\ pc[r] \in {"new", "select", "update", "insert", "debit", "insertBet"}
          => bets[r] = "none"

\* A transaction's audit rows name its bet or the call itself; a stake is a debit, a
\* payout one credit.
Recorded(r) ==
    /\ \A i \in 1 .. Len(rows[r]) :
          /\ rows[r][i].ref = bet[r]
          /\ kind[r] = "gameBet" => rows[r][i].after < rows[r][i].before
          /\ kind[r] = "cashout" => rows[r][i].after > rows[r][i].before
    /\ kind[r] = "cashout" => Len(rows[r]) <= 1
    /\ pc[r] = "commit" /\ kind[r] \in {"movement", "cashout"} => rows[r] # <<>>
    /\ pc[r] \in {"debit", "insertBet", "record"} /\ kind[r] = "gameBet" => Head(moves[r]) < 0
    /\ pc[r] \in {"claim", "credit", "record"} /\ kind[r] = "cashout" => Head(moves[r]) > 0

BetRequestInv == \A r \in Requests : Entered(r) /\ BetLocked(r) /\ BetMoved(r) /\ Recorded(r)

BetsInv == BetRequestInv /\ PaidOnce /\ OkMeansDone

-----------------------------------------------------------------------------
(* The inductive invariant behind RefinesLedger and BetBacked, on top of both *)

\* The audit rows that r has written and the amounts that it has left are those of one
\* operation of Ledger, starting from the committed balance.
Intended(r) ==
    LET base == wallet[owner[r]].balance
        applying == pc[r] \in {"select", "update", "insert"}
    IN  /\ kind[r] = "movement" /\ applying =>
              rows[r] = <<>> /\ \E a \in Amounts : moves[r] = <<a>> \/ moves[r] = <<-a>>
        /\ kind[r] = "movement" /\ pc[r] = "commit" =>
              \E a \in Amounts :
                  rows[r] = <<L!Entry(base, a, r)>> \/ rows[r] = <<L!Entry(base, -a, r)>>
        /\ kind[r] = "placeBet" /\ applying =>
              \E s \in Stakes :
                  \/ /\ rows[r] = <<>>
                     /\ moves[r] = IF s.tax > 0 THEN <<-s.net, -s.tax>> ELSE <<-s.net>>
                  \/ /\ s.tax > 0
                     /\ rows[r] = <<L!Entry(base, -s.net, r)>>
                     /\ moves[r] = <<-s.tax>>
        /\ kind[r] = "placeBet" /\ pc[r] \in {"insertBet", "commit"} =>
              \E s \in Stakes : rows[r] = L!StakeEntries(base, s, r)
        /\ kind[r] = "gameBet" /\ pc[r] \in {"debit", "insertBet", "record"} =>
              \E a \in Amounts : moves[r] = <<-a>>
        /\ kind[r] = "gameBet" /\ pc[r] = "commit" =>
              \E a \in Amounts : rows[r] = <<L!Entry(base, -a, r)>>
        /\ kind[r] = "cashout" /\ pc[r] \in {"claim", "credit", "record"} =>
              \E a \in Amounts : moves[r] = <<a>>
        /\ kind[r] = "cashout" /\ pc[r] = "commit" =>
              \E a \in Amounts : rows[r] = <<L!Entry(base, a, bet[r])>>

LedgerInv == BetBacked /\ \A r \in Requests : Intended(r)

=============================================================================
