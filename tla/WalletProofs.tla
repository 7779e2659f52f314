---------------------------- MODULE WalletProofs ----------------------------
(***************************************************************************)
(* Proofs about module Wallet, for any users, calls, amounts and stakes.   *)
(***************************************************************************)
EXTENDS Wallet, TLAPS

-----------------------------------------------------------------------------
(* Lemmas about audit chains *)

LEMMA ChainAppend ==
    ASSUME NEW s \in Seq(Row), NEW start \in Int, NEW end \in Int,
           NEW e \in Row,
           Chain(s, start, end), e.before = end, e.after >= 0
    PROVE  /\ Append(s, e) \in Seq(Row)
           /\ Append(s, e) # <<>>
           /\ Chain(Append(s, e), start, e.after)
<1> DEFINE t == Append(s, e)
<1>2. t \in Seq(Row) /\ Len(t) = Len(s) + 1 /\ t[Len(t)] = e /\ \A i \in 1 .. Len(s) : t[i] = s[i]
  OBVIOUS
<1>1. t # <<>>
  BY <1>2
<1>3. s = <<>> <=> Len(s) = 0
  OBVIOUS
<1>4. ASSUME NEW i \in 1 .. Len(t)
      PROVE  t[i].before = (IF i = 1 THEN start ELSE t[i - 1].after) /\ t[i].after >= 0
  <2>1. CASE i \in 1 .. Len(s)
    BY <2>1, <1>2 DEF Chain
  <2>2. CASE i = Len(s) + 1
    BY <2>2, <1>2, <1>3 DEF Chain
  <2>3. QED
    BY <2>1, <2>2, <1>2
<1>5. QED
  BY <1>1, <1>2, <1>4 DEF Chain

LEMMA ChainConcat ==
    ASSUME NEW s \in Seq(Row), NEW t \in Seq(Row),
           NEW a \in Int, NEW b \in Int, NEW c \in Int,
           Chain(s, a, b), Chain(t, b, c)
    PROVE  s \o t \in Seq(Row) /\ Chain(s \o t, a, c)
<1> DEFINE w == s \o t
<1>1. w \in Seq(Row) /\ Len(w) = Len(s) + Len(t)
  OBVIOUS
<1>2. /\ \A i \in 1 .. Len(s) : w[i] = s[i]
      /\ \A i \in 1 .. Len(t) : w[i + Len(s)] = t[i]
  OBVIOUS
<1>3. (s = <<>> <=> Len(s) = 0) /\ (t = <<>> <=> Len(t) = 0) /\ (w = <<>> <=> Len(w) = 0)
  BY <1>1
<1>4. ASSUME NEW i \in 1 .. Len(w)
      PROVE  w[i].before = (IF i = 1 THEN a ELSE w[i - 1].after) /\ w[i].after >= 0
  <2>1. CASE i \in 1 .. Len(s)
    BY <2>1, <1>2 DEF Chain
  <2>2. CASE i = Len(s) + 1
    <3>1. w[i] = t[1] /\ 1 \in 1 .. Len(t)
      BY <2>2, <1>1, <1>2
    <3>2. CASE Len(s) = 0
      BY <3>1, <3>2, <2>2, <1>3 DEF Chain
    <3>3. CASE Len(s) # 0
      BY <3>1, <3>3, <2>2, <1>2, <1>3 DEF Chain
    <3>4. QED
      BY <3>2, <3>3
  <2>3. CASE i > Len(s) + 1
    <3> DEFINE j == i - Len(s)
    <3>1. j \in 1 .. Len(t) /\ j - 1 \in 1 .. Len(t) /\ i = j + Len(s) /\ i - 1 = (j - 1) + Len(s)
      BY <2>3, <1>1
    <3>2. w[i] = t[j] /\ w[i - 1] = t[j - 1]
      BY <3>1, <1>2
    <3>3. j # 1 /\ i # 1
      BY <2>3, <1>1
    <3>4. QED
      BY <3>1, <3>2, <3>3 DEF Chain
  <2>4. QED
    BY <2>1, <2>2, <2>3, <1>1
<1>5. c = IF w = <<>> THEN a ELSE w[Len(w)].after
  <2>1. CASE Len(t) = 0
    BY <2>1, <1>1, <1>2, <1>3 DEF Chain
  <2>2. CASE Len(t) # 0
    <3>1. Len(t) \in 1 .. Len(t) /\ w[Len(t) + Len(s)] = t[Len(t)]
      BY <2>2, <1>2
    <3>2. QED
      BY <3>1, <2>2, <1>1, <1>3 DEF Chain
  <2>3. QED
    BY <2>1, <2>2
<1>6. QED
  BY <1>1, <1>4, <1>5 DEF Chain

\* A chain that starts at or above zero ends at or above zero.
LEMMA ChainNonNegative ==
    ASSUME NEW s \in Seq(Row), NEW start \in Int, NEW end \in Int,
           start >= 0, Chain(s, start, end)
    PROVE  end >= 0
BY DEF Chain

-----------------------------------------------------------------------------
(* The invariant holds initially *)

LEMMA InitInv == ASSUME WalletAssumption, Init PROVE WalletInv
<1>1. TypeOK
  BY DEF WalletAssumption, Init, TypeOK, Row, BetStatus
<1>2. FreeRows
  BY DEF Init, FreeRows
<1>3. RequestInv
  BY DEF WalletAssumption, Init, RequestInv, LockedBy, BetOwner, Drafted, Holding, InTransaction
<1>4. AuditChain
  BY DEF WalletAssumption, Init, AuditChain, Chain
<1>5. QED
  BY <1>1, <1>2, <1>3, <1>4 DEF WalletInv

-----------------------------------------------------------------------------
(* What a step of one request leaves to the others *)

\* A request that does not move keeps its part of the invariant if the step changes
\* no row that it has locked, takes no lock from it and gives it none.
LEMMA OthersKeep ==
    ASSUME WalletAssumption, WalletInv, NEW q \in Requests,
           pc'[q] = pc[q], owner'[q] = owner[q], moves'[q] = moves[q],
           seen'[q] = seen[q], rows'[q] = rows[q], kind'[q] = kind[q],
           \A u \in Wallets :
              /\ lock'[u] = q <=> lock[u] = q
              /\ lock[u] = q => wallet'[u] = wallet[u] /\ draft'[u] = draft[u],
           bets'[q] \in {bets[q], betDraft[q]} \/ bets[q] = "ACTIVE" \/ betDraft[q] = "ACTIVE",
           betDraft'[q] \in {bets[q], betDraft[q]} \/ bets[q] = "ACTIVE" \/ betDraft[q] = "ACTIVE"
    PROVE  LockedBy(q)' /\ BetOwner(q)' /\ Drafted(q)'
<1>1. LockedBy(q) /\ BetOwner(q) /\ Drafted(q)
  BY DEF WalletInv, RequestInv
<1>2. LockedBy(q)'
  BY <1>1 DEF LockedBy
<1>3. BetOwner(q)'
  BY <1>1 DEF BetOwner
<1>4. Drafted(q)'
  <2>1. CASE pc[q] \in Holding \/ (pc[q] = "select" /\ rows[q] # <<>>)
    <3>1. owner[q] \in Wallets /\ lock[owner[q]] = q
      BY <1>1, <2>1 DEF LockedBy
    <3>2. wallet'[owner[q]] = wallet[owner[q]] /\ draft'[owner[q]] = draft[owner[q]]
      BY <3>1
    <3>3. QED
      BY <1>1, <3>1, <3>2 DEF Drafted, Chain
  <2>2. CASE ~(pc[q] \in Holding \/ (pc[q] = "select" /\ rows[q] # <<>>))
    BY <1>1, <2>2 DEF Drafted, Holding
  <2>3. QED
    BY <2>1, <2>2
<1>5. QED
  BY <1>2, <1>3, <1>4

-----------------------------------------------------------------------------
(* Steps that begin a call *)

\* A call that has begun but not yet reached the database.
LEMMA BeginInv ==
    ASSUME WalletAssumption, WalletInv, NEW r \in Requests, pc[r] = "new",
           NEW label \in {"select", "debit", "claim", "failed"},
           UNCHANGED <<tables, locks, seen, rows, kind>>,
           Goto(r, label), TypeOK',
           \A q \in Requests \ {r} : owner'[q] = owner[q] /\ moves'[q] = moves[q],
           label = "failed" \/ moves'[r] # <<>>,
           label = "debit" => kind[r] # "placeBet",
           label = "claim" => owner'[r] \in Wallets /\ Head(moves'[r]) >= 0
    PROVE  WalletInv'
<1>1. FreeRows' /\ AuditChain'
  BY DEF WalletInv, FreeRows, AuditChain, Chain, tables, locks
<1>2. ASSUME NEW q \in Requests PROVE LockedBy(q)' /\ BetOwner(q)' /\ Drafted(q)'
  <2>1. CASE q # r
    <3>1. pc'[q] = pc[q] /\ owner'[q] = owner[q] /\ moves'[q] = moves[q]
      BY <2>1 DEF WalletInv, TypeOK, Goto
    <3>2. UNCHANGED <<wallet, draft, lock, bets, betDraft, seen, rows, kind>>
      BY DEF tables, locks
    <3>3. QED
      BY <3>1, <3>2, OthersKeep
  <2>2. CASE q = r
    <3>1. LockedBy(r) /\ BetOwner(r) /\ Drafted(r) /\ pc'[r] = label
      BY DEF WalletInv, RequestInv, TypeOK, Goto
    <3>2. rows[r] = <<>> /\ \A u \in Wallets : lock[u] # r
      BY <3>1 DEF LockedBy, Drafted, Holding
    <3>3. LockedBy(r)'
      BY <3>1, <3>2 DEF LockedBy, Holding, tables, locks
    <3>4. BetOwner(r)'
      BY <3>1 DEF BetOwner, tables, locks
    <3>5. Drafted(r)'
      BY <3>1, <3>2 DEF Drafted, InTransaction, tables, locks
    <3>6. QED
      BY <2>2, <3>3, <3>4, <3>5
  <2>3. QED
    BY <2>1, <2>2
<1>3. QED
  BY <1>1, <1>2 DEF WalletInv, RequestInv

LEMMA StartInv ==
    ASSUME WalletAssumption, WalletInv, NEW r \in Requests,
           NEW label \in {"select", "debit"}, NEW amounts \in Seq(Int),
           pc[r] = "new", amounts # <<>>,
           label = "debit" => kind[r] # "placeBet",
           Start(r, label, amounts)
    PROVE  WalletInv'
<1> USE DEF Start, Goto, call
<1>1. TypeOK'
  BY DEF WalletInv, TypeOK, InTransaction, tables, locks
<1>2. moves'[r] = amounts /\ \A q \in Requests \ {r} : owner'[q] = owner[q] /\ moves'[q] = moves[q]
  BY DEF WalletInv, TypeOK
<1>3. QED
  BY <1>1, <1>2, BeginInv

LEMMA RefuseInv ==
    ASSUME WalletAssumption, WalletInv, NEW r \in Requests, pc[r] = "new", Refuse(r)
    PROVE  WalletInv'
<1>1. TypeOK'
  BY DEF WalletInv, TypeOK, Answered, Refuse, Goto, tables, locks, call
<1>2. QED
  BY <1>1, BeginInv DEF Refuse, call

LEMMA CallCashoutInv ==
    ASSUME WalletAssumption, WalletInv, NEW r \in Requests, CallCashout(r)
    PROVE  WalletInv'
<1>1. PICK b \in Requests, a \in Amounts \ {0} :
        /\ pc[r] = "new" /\ bets[b] = "ACTIVE"
        /\ owner' = [owner EXCEPT ![r] = owner[b]]
        /\ bet' = [bet EXCEPT ![r] = b]
        /\ moves' = [moves EXCEPT ![r] = <<a>>]
  BY DEF CallCashout
<1>2. a \in Int /\ owner[b] \in Wallets /\ owner[b] \in Users
  BY <1>1 DEF WalletAssumption, WalletInv, TypeOK, RequestInv, BetOwner
<1>3. <<a>> \in Seq(Int) /\ <<a>> # <<>>
  BY <1>2
<1>4. /\ Goto(r, "claim") /\ pc[r] = "new"
      /\ UNCHANGED <<tables, locks, seen, rows, kind>>
  BY DEF CallCashout
<1>5. TypeOK'
  BY <1>1, <1>2, <1>3, <1>4 DEF WalletInv, TypeOK, InTransaction, Goto, tables, locks
<1>6. /\ moves'[r] = <<a>> /\ owner'[r] = owner[b]
      /\ \A q \in Requests \ {r} : owner'[q] = owner[q] /\ moves'[q] = moves[q]
  BY <1>1 DEF WalletInv, TypeOK
<1>7. Head(moves'[r]) >= 0
  BY <1>2, <1>6 DEF WalletAssumption
<1>8. QED
  BY <1>2, <1>3, <1>4, <1>5, <1>6, <1>7, BeginInv

LEMMA CallInv ==
    ASSUME WalletAssumption, WalletInv, NEW r \in Requests, Call(r)
    PROVE  WalletInv'
<1>1. CASE CallMovement(r)
  <2>1. PICK a \in Amounts :
          IF a > 0 THEN Start(r, "select", <<a>>) \/ Start(r, "select", <<-a>>) ELSE Refuse(r)
    BY <1>1 DEF CallMovement
  <2>2. pc[r] = "new"
    BY <1>1 DEF CallMovement
  <2>3. /\ <<a>> \in Seq(Int) /\ <<a>> # <<>>
        /\ <<-a>> \in Seq(Int) /\ <<-a>> # <<>>
    BY DEF WalletAssumption
  <2>4. QED
    BY <2>1, <2>2, <2>3, StartInv, RefuseInv
<1>2. CASE CallPlaceBet(r)
  <2>1. PICK s \in Stakes :
          \/ Start(r, "select", IF s.tax > 0 THEN <<-s.net, -s.tax>> ELSE <<-s.net>>)
          \/ Refuse(r)
    BY <1>2 DEF CallPlaceBet
  <2>2. s.net \in Nat /\ s.tax \in Nat /\ pc[r] = "new"
    BY <1>2 DEF CallPlaceBet, WalletAssumption
  <2>3. /\ <<-s.net, -s.tax>> \in Seq(Int) /\ <<-s.net, -s.tax>> # <<>>
        /\ <<-s.net>> \in Seq(Int) /\ <<-s.net>> # <<>>
    BY <2>2
  <2>4. QED
    BY <2>1, <2>2, <2>3, StartInv, RefuseInv
<1>3. CASE CallGameBet(r)
  <2>1. PICK a \in Amounts \ {0} : Start(r, "debit", <<-a>>)
    BY <1>3 DEF CallGameBet
  <2>2. <<-a>> \in Seq(Int) /\ <<-a>> # <<>>
    BY DEF WalletAssumption
  <2>3. pc[r] = "new" /\ kind[r] # "placeBet"
    BY <1>3 DEF CallGameBet
  <2>4. QED
    BY <2>1, <2>2, <2>3, StartInv
<1>4. QED
  BY <1>1, <1>2, <1>3, CallCashoutInv DEF Call

-----------------------------------------------------------------------------
(* The end of a transaction *)

LEMMA RollbackInv ==
    ASSUME WalletAssumption, WalletInv, NEW r \in Requests, Rollback(r)
    PROVE  WalletInv'
<1> USE DEF Rollback, Release, Goto, tables, call
<1>1. TypeOK'
  BY DEF WalletAssumption, WalletInv, TypeOK, Answered
<1>2. FreeRows'
  BY DEF WalletInv, TypeOK, FreeRows
<1>3. AuditChain'
  BY DEF WalletInv, AuditChain, Chain
<1>4. ASSUME NEW q \in Requests PROVE LockedBy(q)' /\ BetOwner(q)' /\ Drafted(q)'
  <2>1. CASE q # r
    <3>1. /\ pc'[q] = pc[q] /\ owner'[q] = owner[q] /\ moves'[q] = moves[q]
          /\ seen'[q] = seen[q] /\ rows'[q] = rows[q] /\ kind'[q] = kind[q]
      BY <2>1 DEF WalletInv, TypeOK
    <3>2. \A u \in Wallets :
              /\ lock'[u] = q <=> lock[u] = q
              /\ lock[u] = q => wallet'[u] = wallet[u] /\ draft'[u] = draft[u]
      BY <2>1 DEF WalletAssumption, WalletInv, TypeOK
    <3>3. bets'[q] = bets[q] /\ betDraft'[q] \in {bets[q], betDraft[q]}
      BY DEF WalletInv, TypeOK
    <3>4. QED
      BY <3>1, <3>2, <3>3, OthersKeep
  <2>2. CASE q = r
    <3>1. pc'[r] = "failed" /\ BetOwner(r) /\ \A u \in Wallets : lock'[u] # r
      BY DEF WalletAssumption, WalletInv, TypeOK, RequestInv
    <3>2. LockedBy(r)'
      BY <3>1 DEF LockedBy, Holding
    <3>3. BetOwner(r)'
      BY <3>1 DEF BetOwner, WalletInv, TypeOK
    <3>4. Drafted(r)'
      BY <3>1 DEF Drafted, InTransaction
    <3>5. QED
      BY <2>2, <3>2, <3>3, <3>4
  <2>3. QED
    BY <2>1, <2>2
<1>5. QED
  BY <1>1, <1>2, <1>3, <1>4 DEF WalletInv, RequestInv

LEMMA CommitInv ==
    ASSUME WalletAssumption, WalletInv, NEW r \in Requests, Commit(r)
    PROVE  WalletInv'
<1> DEFINE u == owner[r]
<1> USE DEF Commit, Release, Goto, call
<1>1. /\ LockedBy(r) /\ Drafted(r) /\ BetOwner(r) /\ u \in Wallets /\ lock[u] = r
      /\ \A v \in Wallets : lock[v] = r <=> v = u
  BY DEF WalletInv, RequestInv, LockedBy, Holding
<1>2. /\ rows[r] \in Seq(Row) /\ ledger[u] \in Seq(Row)
      /\ wallet[u].balance \in Int /\ draft[u].balance \in Int
      /\ Chain(rows[r], wallet[u].balance, draft[u].balance)
      /\ Chain(ledger[u], Opening, wallet[u].balance)
  BY <1>1 DEF WalletInv, TypeOK, Drafted, AuditChain
<1>3. ledger[u] \o rows[r] \in Seq(Row) /\ Chain(ledger[u] \o rows[r], Opening, draft[u].balance)
  BY <1>2, ChainConcat DEF WalletAssumption
<1>4. TypeOK'
  <2>1. ledger' \in [Wallets -> Seq(Row)]
    BY <1>1, <1>3 DEF WalletInv, TypeOK
  <2>2. wallet' \in [Wallets -> [balance : Int, version : Nat]]
    BY DEF WalletInv, TypeOK
  <2>3. pc' \in [Requests -> InTransaction \cup Answered \cup {"new"}]
    BY DEF WalletInv, TypeOK, Answered
  <2>4. rows' \in [Requests -> Seq(Row)] /\ bets' \in [Requests -> BetStatus]
    BY DEF WalletInv, TypeOK
  <2>5. /\ lock' \in [Wallets -> Requests \cup {NoRequest}]
        /\ betLock' \in [Requests -> Requests \cup {NoRequest}]
    BY DEF WalletInv, TypeOK
  <2>6. QED
    BY <2>1, <2>2, <2>3, <2>4, <2>5 DEF WalletInv, TypeOK
<1>5. FreeRows'
  BY <1>1 DEF WalletAssumption, WalletInv, TypeOK, FreeRows
<1>6. AuditChain'
  <2> SUFFICES ASSUME NEW v \in Wallets
               PROVE  Chain(ledger'[v], Opening, wallet'[v].balance)
    BY DEF AuditChain
  <2>1. CASE v = u
    <3>1. ledger'[v] = ledger[u] \o rows[r] /\ wallet'[v] = draft[u]
      BY <2>1, <1>1 DEF WalletInv, TypeOK
    <3>2. QED
      BY <3>1, <1>3
  <2>2. CASE v # u
    <3>1. ledger'[v] = ledger[v] /\ wallet'[v] = wallet[v]
      BY <2>2, <1>1 DEF WalletInv, TypeOK
    <3>2. QED
      BY <3>1 DEF WalletInv, AuditChain
  <2>3. QED
    BY <2>1, <2>2
<1>7. ASSUME NEW q \in Requests PROVE LockedBy(q)' /\ BetOwner(q)' /\ Drafted(q)'
  <2>1. CASE q # r
    <3>1. /\ pc'[q] = pc[q] /\ owner'[q] = owner[q] /\ moves'[q] = moves[q]
          /\ seen'[q] = seen[q] /\ rows'[q] = rows[q] /\ kind'[q] = kind[q]
      BY <2>1 DEF WalletInv, TypeOK
    <3>2. \A v \in Wallets :
              /\ lock'[v] = q <=> lock[v] = q
              /\ lock[v] = q => wallet'[v] = wallet[v] /\ draft'[v] = draft[v]
      BY <2>1 DEF WalletAssumption, WalletInv, TypeOK
    <3>3. bets'[q] \in {bets[q], betDraft[q]} /\ betDraft'[q] = betDraft[q]
      BY DEF WalletInv, TypeOK
    <3>4. QED
      BY <3>1, <3>2, <3>3, OthersKeep
  <2>2. CASE q = r
    <3>1. pc'[r] \in {"ok", "failed"} /\ rows'[r] = <<>> /\ \A v \in Wallets : lock'[v] # r
      BY DEF WalletAssumption, WalletInv, TypeOK
    <3>2. LockedBy(r)'
      BY <3>1 DEF LockedBy, Holding
    <3>3. BetOwner(r)'
      BY <3>1, <1>1 DEF BetOwner, WalletInv, TypeOK
    <3>4. Drafted(r)'
      BY <3>1 DEF Drafted, InTransaction
    <3>5. QED
      BY <2>2, <3>2, <3>3, <3>4
  <2>3. QED
    BY <2>1, <2>2
<1>8. QED
  BY <1>4, <1>5, <1>6, <1>7 DEF WalletInv, RequestInv

-----------------------------------------------------------------------------
(* Statements inside a transaction *)

\* A statement of r that commits nothing and touches only the row of r's owner, under
\* its lock, preserves the invariant if it does so for r itself.
LEMMA WorkInv ==
    ASSUME WalletAssumption, WalletInv, NEW r \in Requests, TypeOK',
           UNCHANGED <<tables, call>>,
           \A q \in Requests \ {r} :
              /\ pc'[q] = pc[q] /\ moves'[q] = moves[q]
              /\ seen'[q] = seen[q] /\ rows'[q] = rows[q]
              /\ betDraft'[q] = betDraft[q] \/ bets[q] = "ACTIVE",
           \A v \in Wallets :
              \/ draft'[v] = draft[v] /\ lock'[v] = lock[v]
              \/ v = owner[r] /\ lock[v] \in {NoRequest, r} /\ lock'[v] = r,
           LockedBy(r)', BetOwner(r)', Drafted(r)'
    PROVE  WalletInv'
<1> USE DEF tables, call
<1>1. FreeRows'
  BY DEF WalletAssumption, WalletInv, FreeRows
<1>2. AuditChain'
  BY DEF WalletInv, AuditChain, Chain
<1>3. ASSUME NEW q \in Requests \ {r} PROVE LockedBy(q)' /\ BetOwner(q)' /\ Drafted(q)'
  <2>1. \A u \in Wallets :
              /\ lock'[u] = q <=> lock[u] = q
              /\ lock[u] = q => wallet'[u] = wallet[u] /\ draft'[u] = draft[u]
    <3> SUFFICES ASSUME NEW u \in Wallets
                 PROVE  /\ lock'[u] = q <=> lock[u] = q
                        /\ lock[u] = q => wallet'[u] = wallet[u] /\ draft'[u] = draft[u]
      OBVIOUS
    <3>1. q # NoRequest /\ q # r /\ wallet' = wallet
      BY DEF WalletAssumption
    <3>2. QED
      BY <3>1
  <2>2. /\ pc'[q] = pc[q] /\ owner'[q] = owner[q] /\ moves'[q] = moves[q]
        /\ seen'[q] = seen[q] /\ rows'[q] = rows[q] /\ kind'[q] = kind[q] /\ bets'[q] = bets[q]
        /\ betDraft'[q] = betDraft[q] \/ bets[q] = "ACTIVE"
    OBVIOUS
  <2>3. QED
    BY <2>1, <2>2, OthersKeep
<1>4. QED
  BY <1>1, <1>2, <1>3 DEF WalletInv, RequestInv

LEMMA SelectForUpdateInv ==
    ASSUME WalletAssumption, WalletInv, NEW r \in Requests, SelectForUpdate(r)
    PROVE  WalletInv'
<1> DEFINE u == owner[r]
<1>1. CASE Rollback(r)
  BY <1>1, RollbackInv
<1>2. CASE ~Rollback(r)
  <2>1. /\ pc[r] = "select" /\ u \in Wallets /\ lock[u] \in {NoRequest, r}
        /\ draft[u].balance + Head(moves[r]) >= 0
        /\ lock' = [lock EXCEPT ![u] = r]
        /\ seen' = [seen EXCEPT ![r] = draft[u]]
        /\ pc' = [pc EXCEPT ![r] = "update"]
        /\ UNCHANGED <<tables, draft, betDraft, betLock, call, moves, rows>>
    <3>1. moves[r] # <<>> /\ moves[r] \in Seq(Int) /\ pc[r] = "select"
      BY DEF WalletInv, RequestInv, Drafted, TypeOK, InTransaction, SelectForUpdate
    <3>2. u \in Wallets => draft[u].balance \in Int /\ Head(moves[r]) \in Int
      BY <3>1 DEF WalletInv, TypeOK
    <3>3. QED
      BY <1>2, <3>1, <3>2 DEF SelectForUpdate, CanLock, Goto
  <2>2. LockedBy(r) /\ BetOwner(r) /\ Drafted(r)
    BY DEF WalletInv, RequestInv
  <2>3. /\ pc'[r] = "update" /\ seen'[r] = draft[u] /\ lock'[u] = r
        /\ rows'[r] = rows[r] /\ moves'[r] = moves[r]
    BY <2>1 DEF WalletInv, TypeOK
  <2>4. Chain(rows[r], wallet[u].balance, draft[u].balance)
    <3>1. CASE rows[r] = <<>>
      <4>1. lock[u] = NoRequest /\ draft[u] = wallet[u]
        BY <3>1, <2>1, <2>2 DEF Drafted, WalletInv, FreeRows
      <4>2. QED
        BY <3>1, <4>1 DEF Chain
    <3>2. CASE rows[r] # <<>>
      BY <3>2, <2>1, <2>2 DEF Drafted
    <3>3. QED
      BY <3>1, <3>2
  <2>5. TypeOK'
    BY <2>1 DEF WalletInv, TypeOK, InTransaction, tables, call
  <2>6. LockedBy(r)'
    BY <2>1, <2>2, <2>3 DEF LockedBy, Holding, call, WalletInv, TypeOK
  <2>7. BetOwner(r)'
    BY <2>1, <2>2, <2>3 DEF BetOwner, tables, call
  <2>8. Drafted(r)'
    BY <2>1, <2>2, <2>3, <2>4 DEF Drafted, InTransaction, Chain, tables, call
  <2>9. /\ \A q \in Requests \ {r} :
              /\ pc'[q] = pc[q] /\ moves'[q] = moves[q]
              /\ seen'[q] = seen[q] /\ rows'[q] = rows[q] /\ betDraft'[q] = betDraft[q]
        /\ \A v \in Wallets :
              \/ draft'[v] = draft[v] /\ lock'[v] = lock[v]
              \/ v = owner[r] /\ lock[v] \in {NoRequest, r} /\ lock'[v] = r
    BY <2>1 DEF WalletInv, TypeOK
  <2>10. UNCHANGED <<tables, call>>
    BY <2>1
  <2>11. QED
    BY <2>5, <2>6, <2>7, <2>8, <2>9, <2>10, WorkInv
<1>3. QED
  BY <1>1, <1>2

LEMMA UpdateWalletInv ==
    ASSUME WalletAssumption, WalletInv, NEW r \in Requests, UpdateWallet(r)
    PROVE  WalletInv'
<1> DEFINE u == owner[r]
           a == Head(moves[r])
<1>1. /\ pc[r] = "update" /\ LockedBy(r) /\ BetOwner(r) /\ Drafted(r)
  BY DEF WalletInv, RequestInv, UpdateWallet
<1>2. u \in Wallets /\ lock[u] = r /\ seen[r] = draft[u] /\ draft[u].balance + a >= 0
      /\ Chain(rows[r], wallet[u].balance, draft[u].balance)
  BY <1>1 DEF LockedBy, Drafted, Holding
<1>3. moves[r] # <<>> /\ a \in Int /\ draft[u] \in [balance : Int, version : Nat]
  BY <1>1, <1>2 DEF Drafted, InTransaction, WalletInv, TypeOK
<1>4. /\ draft' = [draft EXCEPT ![u] = [balance |-> seen[r].balance + a,
                                        version |-> draft[u].version + 1]]
      /\ lock' = [lock EXCEPT ![u] = r]
      /\ pc' = [pc EXCEPT ![r] = "insert"]
      /\ UNCHANGED <<tables, betDraft, betLock, call, moves, seen, rows>>
  BY <1>2 DEF UpdateWallet, Goto
<1>5. /\ pc'[r] = "insert" /\ draft'[u].balance = seen[r].balance + a /\ lock'[u] = r
      /\ rows'[r] = rows[r] /\ moves'[r] = moves[r] /\ seen'[r] = seen[r]
  BY <1>2, <1>4 DEF WalletInv, TypeOK
<1>6. TypeOK'
  <2>1. [balance |-> seen[r].balance + a, version |-> draft[u].version + 1]
            \in [balance : Int, version : Nat]
    BY <1>2, <1>3
  <2>2. draft' \in [Wallets -> [balance : Int, version : Nat]]
    BY <1>2, <1>4, <2>1 DEF WalletInv, TypeOK
  <2>3. /\ lock' \in [Wallets -> Requests \cup {NoRequest}]
        /\ pc' \in [Requests -> InTransaction \cup Answered \cup {"new"}]
    BY <1>4 DEF WalletInv, TypeOK, InTransaction
  <2>4. QED
    BY <1>4, <2>2, <2>3 DEF WalletInv, TypeOK, tables, call
<1>7. LockedBy(r)'
  BY <1>1, <1>2, <1>4, <1>5 DEF LockedBy, Holding, call, WalletInv, TypeOK
<1>8. BetOwner(r)'
  BY <1>1, <1>4, <1>5 DEF BetOwner, tables, call
<1>9. Drafted(r)'
  BY <1>1, <1>2, <1>3, <1>4, <1>5 DEF Drafted, InTransaction, Chain, tables, call
<1>10. /\ \A q \in Requests \ {r} :
              /\ pc'[q] = pc[q] /\ moves'[q] = moves[q]
              /\ seen'[q] = seen[q] /\ rows'[q] = rows[q] /\ betDraft'[q] = betDraft[q]
       /\ \A v \in Wallets :
              \/ draft'[v] = draft[v] /\ lock'[v] = lock[v]
              \/ v = owner[r] /\ lock[v] \in {NoRequest, r} /\ lock'[v] = r
  BY <1>2, <1>4 DEF WalletInv, TypeOK
<1>11. UNCHANGED <<tables, call>>
  BY <1>4
<1>12. QED
  BY <1>6, <1>7, <1>8, <1>9, <1>10, <1>11, WorkInv

\* The audit row that ApplyTx and the crash game's statements insert.
LEMMA EntryType ==
    ASSUME NEW before \in Int, NEW a \in Int, NEW ref \in Requests
    PROVE  /\ L!Entry(before, a, ref) \in Row
           /\ L!Entry(before, a, ref).before = before
           /\ L!Entry(before, a, ref).after = before + a
BY DEF L!Entry, L!Abs, Row

LEMMA InsertTransactionInv ==
    ASSUME WalletAssumption, WalletInv, NEW r \in Requests, InsertTransaction(r)
    PROVE  WalletInv'
<1> DEFINE u == owner[r]
           a == Head(moves[r])
           e == L!Entry(seen[r].balance, a, r)
<1>1. /\ pc[r] = "insert" /\ LockedBy(r) /\ BetOwner(r) /\ Drafted(r)
  BY DEF WalletInv, RequestInv, InsertTransaction
<1>2. /\ u \in Wallets /\ lock[u] = r
      /\ draft[u].balance = seen[r].balance + a /\ draft[u].balance >= 0
      /\ Chain(rows[r], wallet[u].balance, seen[r].balance)
  BY <1>1 DEF LockedBy, Drafted, Holding
<1>3. /\ moves[r] # <<>> /\ moves[r] \in Seq(Int) /\ a \in Int /\ Tail(moves[r]) \in Seq(Int)
      /\ seen[r].balance \in Int /\ wallet[u].balance \in Int /\ rows[r] \in Seq(Row)
  BY <1>1, <1>2 DEF Drafted, InTransaction, WalletInv, TypeOK
<1>4. e \in Row /\ e.before = seen[r].balance /\ e.after = draft[u].balance
  BY <1>2, <1>3, EntryType
<1>5. /\ Append(rows[r], e) \in Seq(Row) /\ Append(rows[r], e) # <<>>
      /\ Chain(Append(rows[r], e), wallet[u].balance, draft[u].balance)
  BY <1>2, <1>3, <1>4, ChainAppend
<1>6. /\ rows' = [rows EXCEPT ![r] = Append(rows[r], e)]
      /\ moves' = [moves EXCEPT ![r] = Tail(moves[r])]
      /\ pc' = [pc EXCEPT ![r] = IF Tail(moves[r]) # <<>> THEN "select"
                                 ELSE IF kind[r] = "placeBet" THEN "insertBet" ELSE "commit"]
      /\ UNCHANGED <<tables, locks, call, seen>>
  BY DEF InsertTransaction, Goto
<1>7. /\ rows'[r] = Append(rows[r], e) /\ moves'[r] = Tail(moves[r])
      /\ pc'[r] = IF Tail(moves[r]) # <<>> THEN "select"
                  ELSE IF kind[r] = "placeBet" THEN "insertBet" ELSE "commit"
  BY <1>6 DEF WalletInv, TypeOK
<1>8. TypeOK'
  <2>1. /\ rows' \in [Requests -> Seq(Row)]
        /\ moves' \in [Requests -> Seq(Int)]
        /\ pc' \in [Requests -> InTransaction \cup Answered \cup {"new"}]
    <3>1. rows' \in [Requests -> Seq(Row)]
      BY <1>5, <1>6 DEF WalletInv, TypeOK
    <3>2. moves' \in [Requests -> Seq(Int)]
      BY <1>3, <1>6 DEF WalletInv, TypeOK
    <3>3. pc' \in [Requests -> InTransaction \cup Answered \cup {"new"}]
      BY <1>6 DEF WalletInv, TypeOK, InTransaction
    <3>4. QED
      BY <3>1, <3>2, <3>3
  <2>2. QED
    BY <1>6, <2>1 DEF WalletInv, TypeOK, tables, locks, call
<1>9. LockedBy(r)'
  BY <1>1, <1>2, <1>6, <1>7 DEF LockedBy, Holding, locks, call
<1>10. BetOwner(r)'
  BY <1>1, <1>6, <1>7 DEF BetOwner, tables, locks, call
<1>11. Drafted(r)'
  <2>1. wallet' = wallet /\ draft' = draft /\ owner' = owner /\ kind' = kind /\ lock' = lock
    BY <1>6 DEF tables, locks, call
  <2>2. Chain(rows'[r], wallet'[u].balance, draft'[u].balance) /\ rows'[r] # <<>>
    BY <1>5, <1>7, <2>1
  <2>3. QED
    BY <1>7, <2>1, <2>2 DEF Drafted, InTransaction
<1>12. /\ \A q \in Requests \ {r} :
              /\ pc'[q] = pc[q] /\ moves'[q] = moves[q]
              /\ seen'[q] = seen[q] /\ rows'[q] = rows[q] /\ betDraft'[q] = betDraft[q]
       /\ \A v \in Wallets : draft'[v] = draft[v] /\ lock'[v] = lock[v]
  BY <1>6 DEF WalletInv, TypeOK, locks
<1>13. UNCHANGED <<tables, call>>
  BY <1>6
<1>14. QED
  BY <1>8, <1>9, <1>10, <1>11, <1>12, <1>13, WorkInv

LEMMA DebitStakeInv ==
    ASSUME WalletAssumption, WalletInv, NEW r \in Requests, DebitStake(r)
    PROVE  WalletInv'
<1> DEFINE u == owner[r]
           a == Head(moves[r])
<1>1. CASE Rollback(r)
  BY <1>1, RollbackInv
<1>2. CASE ~Rollback(r)
  <2>1. /\ pc[r] = "debit" /\ LockedBy(r) /\ BetOwner(r) /\ Drafted(r)
    BY DEF WalletInv, RequestInv, DebitStake
  <2>2. /\ moves[r] # <<>> /\ kind[r] # "placeBet" /\ rows[r] = <<>>
        /\ \A v \in Wallets : lock[v] # r
    BY <2>1 DEF Drafted, LockedBy, InTransaction, Holding
  <2>3. /\ u \in Wallets /\ ~(wallet[u].balance + a < 0) /\ lock[u] \in {NoRequest, r}
        /\ draft' = [draft EXCEPT ![u].balance = draft[u].balance + a]
        /\ lock' = [lock EXCEPT ![u] = r]
        /\ pc' = [pc EXCEPT ![r] = "insertBet"]
        /\ UNCHANGED <<tables, betDraft, betLock, call, moves, seen, rows>>
    BY <1>2 DEF DebitStake, CanLock, Goto
  <2>4. /\ draft[u] = wallet[u] /\ a \in Int /\ wallet[u].balance \in Int
        /\ wallet[u].balance + a >= 0 /\ moves[r] \in Seq(Int)
    BY <2>2, <2>3, SMTT(30) DEF WalletInv, TypeOK, FreeRows
  <2>5. /\ pc'[r] = "insertBet" /\ lock'[u] = r
        /\ draft'[u].balance = wallet[u].balance + a
    BY <2>3, <2>4 DEF WalletInv, TypeOK
  <2>6. TypeOK'
    <3>1. draft' \in [Wallets -> [balance : Int, version : Nat]]
      <4>1. draft[u] \in [balance : Int, version : Nat] /\ draft[u].balance + a \in Int
        BY <2>3, <2>4 DEF WalletInv, TypeOK
      <4>2. [draft[u] EXCEPT !.balance = draft[u].balance + a] \in [balance : Int, version : Nat]
        BY <4>1
      <4>3. QED
        BY <2>3, <4>2 DEF WalletInv, TypeOK
    <3>2. /\ lock' \in [Wallets -> Requests \cup {NoRequest}]
          /\ pc' \in [Requests -> InTransaction \cup Answered \cup {"new"}]
      BY <2>3 DEF WalletInv, TypeOK, InTransaction
    <3>3. QED
      BY <2>3, <3>1, <3>2 DEF WalletInv, TypeOK, tables, call
  <2>7. LockedBy(r)'
    BY <2>2, <2>3, <2>5 DEF LockedBy, Holding, call, WalletInv, TypeOK
  <2>8. BetOwner(r)'
    BY <2>1, <2>3, <2>5 DEF BetOwner, tables, call
  <2>9. Drafted(r)'
    BY <2>2, <2>3, <2>4, <2>5 DEF Drafted, InTransaction, tables, call
  <2>10. /\ \A q \in Requests \ {r} :
              /\ pc'[q] = pc[q] /\ moves'[q] = moves[q]
              /\ seen'[q] = seen[q] /\ rows'[q] = rows[q] /\ betDraft'[q] = betDraft[q]
         /\ \A v \in Wallets :
              \/ draft'[v] = draft[v] /\ lock'[v] = lock[v]
              \/ v = owner[r] /\ lock[v] \in {NoRequest, r} /\ lock'[v] = r
    BY <2>3 DEF WalletInv, TypeOK
  <2>11. UNCHANGED <<tables, call>>
    BY <2>3
  <2>12. QED
    BY <2>6, <2>7, <2>8, <2>9, <2>10, <2>11, WorkInv
<1>3. QED
  BY <1>1, <1>2

LEMMA InsertBetInv ==
    ASSUME WalletAssumption, WalletInv, NEW r \in Requests, InsertBet(r)
    PROVE  WalletInv'
<1> DEFINE u == owner[r]
<1>1. /\ pc[r] = "insertBet" /\ LockedBy(r) /\ BetOwner(r) /\ Drafted(r)
  BY DEF WalletInv, RequestInv, InsertBet
<1>2. u \in Wallets /\ lock[u] = r
  BY <1>1 DEF LockedBy, Holding
<1>3. /\ betDraft' = [betDraft EXCEPT ![r] = IF kind[r] = "placeBet" THEN "PENDING" ELSE "ACTIVE"]
      /\ betLock' = [betLock EXCEPT ![r] = r]
      /\ pc' = [pc EXCEPT ![r] = IF kind[r] = "placeBet" THEN "commit" ELSE "record"]
      /\ UNCHANGED <<tables, draft, lock, call, moves, seen, rows>>
  BY DEF InsertBet, Goto
<1>4. pc'[r] = IF kind[r] = "placeBet" THEN "commit" ELSE "record"
  BY <1>3 DEF WalletInv, TypeOK
<1>5. TypeOK'
  BY <1>3 DEF WalletInv, TypeOK, InTransaction, BetStatus, tables, call
<1>6. LockedBy(r)'
  BY <1>1, <1>2, <1>3, <1>4 DEF LockedBy, Holding, call
<1>7. BetOwner(r)'
  BY <1>2, <1>3, <1>4 DEF BetOwner, tables, call
<1>8. Drafted(r)'
  BY <1>1, <1>3, <1>4 DEF Drafted, InTransaction, Chain, tables, call
<1>9. /\ \A q \in Requests \ {r} :
              /\ pc'[q] = pc[q] /\ moves'[q] = moves[q]
              /\ seen'[q] = seen[q] /\ rows'[q] = rows[q] /\ betDraft'[q] = betDraft[q]
      /\ \A v \in Wallets : draft'[v] = draft[v] /\ lock'[v] = lock[v]
  BY <1>3 DEF WalletInv, TypeOK
<1>10. UNCHANGED <<tables, call>>
  BY <1>3
<1>11. QED
  BY <1>5, <1>6, <1>7, <1>8, <1>9, <1>10, WorkInv

LEMMA ClaimBetInv ==
    ASSUME WalletAssumption, WalletInv, NEW r \in Requests, ClaimBet(r)
    PROVE  WalletInv'
<1>1. /\ pc[r] = "claim" /\ LockedBy(r) /\ BetOwner(r) /\ Drafted(r)
  BY DEF WalletInv, RequestInv, ClaimBet
<1>2. /\ moves[r] # <<>> /\ owner[r] \in Wallets /\ rows[r] = <<>>
      /\ \A v \in Wallets : lock[v] # r
  BY <1>1 DEF LockedBy, BetOwner, Drafted, InTransaction, Holding
<1>3. /\ pc' \in {[pc EXCEPT ![r] = "leaked"], [pc EXCEPT ![r] = "credit"]}
      /\ UNCHANGED <<tables, draft, lock, call, moves, seen, rows>>
      /\ \/ UNCHANGED <<betDraft, betLock>>
         \/ /\ bets[bet[r]] = "ACTIVE"
            /\ betLock[bet[r]] \in {NoRequest, r}
            /\ betDraft' = [betDraft EXCEPT ![bet[r]] = "CASHED_OUT"]
            /\ betLock' = [betLock EXCEPT ![bet[r]] = r]
  BY DEF ClaimBet, Goto
<1>4. pc'[r] \in {"leaked", "credit"}
  BY <1>3 DEF WalletInv, TypeOK
<1>5. TypeOK'
  <2>1. /\ betDraft' \in [Requests -> BetStatus]
        /\ betLock' \in [Requests -> Requests \cup {NoRequest}]
    <3>1. CASE UNCHANGED <<betDraft, betLock>>
      BY <3>1 DEF WalletInv, TypeOK
    <3>2. CASE /\ betDraft' = [betDraft EXCEPT ![bet[r]] = "CASHED_OUT"]
               /\ betLock' = [betLock EXCEPT ![bet[r]] = r]
      BY <3>2 DEF WalletInv, TypeOK, BetStatus
    <3>3. QED
      BY <1>3, <3>1, <3>2
  <2>2. pc' \in [Requests -> InTransaction \cup Answered \cup {"new"}]
    BY <1>3 DEF WalletInv, TypeOK, InTransaction, Answered
  <2>3. QED
    BY <1>3, <2>1, <2>2 DEF WalletInv, TypeOK, tables, call
<1>6. LockedBy(r)'
  BY <1>2, <1>3, <1>4 DEF LockedBy, Holding, call
<1>7. BetOwner(r)'
  BY <1>2, <1>3, <1>4 DEF BetOwner, tables, call
<1>8. Drafted(r)'
  BY <1>1, <1>2, <1>3, <1>4 DEF Drafted, InTransaction, tables, call
<1>9. /\ \A q \in Requests \ {r} :
              /\ pc'[q] = pc[q] /\ moves'[q] = moves[q]
              /\ seen'[q] = seen[q] /\ rows'[q] = rows[q]
              /\ betDraft'[q] = betDraft[q] \/ bets[q] = "ACTIVE"
      /\ \A v \in Wallets : draft'[v] = draft[v] /\ lock'[v] = lock[v]
  BY <1>3 DEF WalletInv, TypeOK
<1>10. UNCHANGED <<tables, call>>
  BY <1>3
<1>11. QED
  BY <1>5, <1>6, <1>7, <1>8, <1>9, <1>10, WorkInv

LEMMA CreditPayoutInv ==
    ASSUME WalletAssumption, WalletInv, NEW r \in Requests, CreditPayout(r)
    PROVE  WalletInv'
<1> DEFINE u == owner[r]
           a == Head(moves[r])
<1>1. /\ pc[r] = "credit" /\ LockedBy(r) /\ BetOwner(r) /\ Drafted(r)
  BY DEF WalletInv, RequestInv, CreditPayout
<1>2. /\ moves[r] # <<>> /\ u \in Wallets /\ rows[r] = <<>> /\ a >= 0
      /\ \A v \in Wallets : lock[v] # r
  BY <1>1 DEF LockedBy, BetOwner, Drafted, InTransaction, Holding
<1>3. /\ lock[u] \in {NoRequest, r}
      /\ draft' = [draft EXCEPT ![u].balance = draft[u].balance + a]
      /\ lock' = [lock EXCEPT ![u] = r]
      /\ pc' = [pc EXCEPT ![r] = "record"]
      /\ UNCHANGED <<tables, betDraft, betLock, call, moves, seen, rows>>
  BY DEF CreditPayout, CanLock, Goto
<1>4. /\ draft[u] = wallet[u] /\ wallet[u] \in [balance : Int, version : Nat]
      /\ moves[r] \in Seq(Int) /\ ledger[u] \in Seq(Row)
      /\ Chain(ledger[u], Opening, wallet[u].balance)
  BY <1>2, <1>3 DEF WalletInv, TypeOK, FreeRows, AuditChain
<1>5. a \in Int /\ wallet[u].balance \in Int /\ wallet[u].balance >= 0
  BY <1>2, <1>4, ChainNonNegative DEF WalletAssumption
<1>6. /\ pc'[r] = "record" /\ lock'[u] = r
      /\ draft'[u].balance = wallet[u].balance + a /\ draft'[u].balance >= 0
  BY <1>2, <1>3, <1>4, <1>5, SMTT(30) DEF WalletInv, TypeOK
<1>7. TypeOK'
  <2>1. [draft[u] EXCEPT !.balance = draft[u].balance + a] \in [balance : Int, version : Nat]
    BY <1>4, <1>5, SMTT(30)
  <2>2. draft' \in [Wallets -> [balance : Int, version : Nat]]
    BY <1>3, <2>1 DEF WalletInv, TypeOK
  <2>3. /\ lock' \in [Wallets -> Requests \cup {NoRequest}]
        /\ pc' \in [Requests -> InTransaction \cup Answered \cup {"new"}]
    BY <1>3 DEF WalletInv, TypeOK, InTransaction
  <2>4. QED
    BY <1>3, <2>2, <2>3 DEF WalletInv, TypeOK, tables, call
<1>8. LockedBy(r)'
  BY <1>2, <1>3, <1>6 DEF LockedBy, Holding, call, WalletInv, TypeOK
<1>9. BetOwner(r)'
  BY <1>1, <1>2, <1>3, <1>6 DEF BetOwner, tables, call
<1>10. Drafted(r)'
  BY <1>2, <1>3, <1>6 DEF Drafted, InTransaction, tables, call
<1>11. /\ \A q \in Requests \ {r} :
              /\ pc'[q] = pc[q] /\ moves'[q] = moves[q]
              /\ seen'[q] = seen[q] /\ rows'[q] = rows[q] /\ betDraft'[q] = betDraft[q]
       /\ \A v \in Wallets :
              \/ draft'[v] = draft[v] /\ lock'[v] = lock[v]
              \/ v = owner[r] /\ lock[v] \in {NoRequest, r} /\ lock'[v] = r
  BY <1>3 DEF WalletInv, TypeOK
<1>12. UNCHANGED <<tables, call>>
  BY <1>3
<1>13. QED
  BY <1>7, <1>8, <1>9, <1>10, <1>11, <1>12, WorkInv

LEMMA RecordMovementInv ==
    ASSUME WalletAssumption, WalletInv, NEW r \in Requests, RecordMovement(r)
    PROVE  WalletInv'
<1> DEFINE u == owner[r]
           a == Head(moves[r])
           after == draft[u].balance
           e == L!Entry(after - a, a, bet[r])
<1>1. /\ pc[r] = "record" /\ LockedBy(r) /\ BetOwner(r) /\ Drafted(r)
  BY DEF WalletInv, RequestInv, RecordMovement
<1>2. /\ u \in Wallets /\ lock[u] = r /\ moves[r] # <<>> /\ rows[r] = <<>>
      /\ after = wallet[u].balance + a /\ after >= 0
  BY <1>1 DEF LockedBy, Drafted, Holding, InTransaction
<1>3. /\ a \in Int /\ wallet[u].balance \in Int /\ after \in Int /\ bet[r] \in Requests
  BY <1>2 DEF WalletInv, TypeOK
<1>4. after - a \in Int /\ after - a = wallet[u].balance /\ (after - a) + a = after
  BY <1>2, <1>3
<1>5. e \in Row /\ e.before = wallet[u].balance /\ e.after = after
  <2>1. e \in Row /\ e.before = after - a /\ e.after = (after - a) + a
    BY <1>3, <1>4, EntryType
  <2>2. QED
    BY <1>4, <2>1
<1>6. <<e>> \in Seq(Row) /\ Chain(<<e>>, wallet[u].balance, after)
  BY <1>2, <1>5, SMTT(30) DEF Chain
<1>7. /\ rows' = [rows EXCEPT ![r] = <<e>>]
      /\ moves' = [moves EXCEPT ![r] = <<>>]
      /\ pc' = [pc EXCEPT ![r] = "commit"]
      /\ UNCHANGED <<tables, locks, call, seen>>
  BY DEF RecordMovement, Goto
<1>8. rows'[r] = <<e>> /\ pc'[r] = "commit"
  BY <1>7 DEF WalletInv, TypeOK
<1>9. TypeOK'
  <2>1. /\ rows' \in [Requests -> Seq(Row)]
        /\ moves' \in [Requests -> Seq(Int)]
        /\ pc' \in [Requests -> InTransaction \cup Answered \cup {"new"}]
    <3>1. rows' \in [Requests -> Seq(Row)]
      BY <1>6, <1>7 DEF WalletInv, TypeOK
    <3>2. moves' \in [Requests -> Seq(Int)]
      BY <1>7 DEF WalletInv, TypeOK
    <3>3. pc' \in [Requests -> InTransaction \cup Answered \cup {"new"}]
      BY <1>7 DEF WalletInv, TypeOK, InTransaction
    <3>4. QED
      BY <3>1, <3>2, <3>3
  <2>2. QED
    BY <1>7, <2>1 DEF WalletInv, TypeOK, tables, locks, call
<1>10. LockedBy(r)'
  BY <1>1, <1>2, <1>7, <1>8 DEF LockedBy, Holding, locks, call
<1>11. BetOwner(r)'
  BY <1>1, <1>7, <1>8 DEF BetOwner, tables, locks, call
<1>12. Drafted(r)'
  <2>1. wallet' = wallet /\ draft' = draft /\ owner' = owner
    BY <1>7 DEF tables, locks, call
  <2>2. Chain(rows'[r], wallet'[u].balance, draft'[u].balance)
    BY <1>6, <1>8, <2>1
  <2>3. QED
    BY <1>8, <2>1, <2>2 DEF Drafted, InTransaction
<1>13. /\ \A q \in Requests \ {r} :
              /\ pc'[q] = pc[q] /\ moves'[q] = moves[q]
              /\ seen'[q] = seen[q] /\ rows'[q] = rows[q] /\ betDraft'[q] = betDraft[q]
       /\ \A v \in Wallets : draft'[v] = draft[v] /\ lock'[v] = lock[v]
  BY <1>7 DEF WalletInv, TypeOK, locks
<1>14. UNCHANGED <<tables, call>>
  BY <1>7
<1>15. QED
  BY <1>9, <1>10, <1>11, <1>12, <1>13, <1>14, WorkInv

LEMMA NextInv == ASSUME WalletAssumption, WalletInv, [Next]_vars PROVE WalletInv'
<1>1. CASE UNCHANGED vars
  <2>1. TypeOK' /\ FreeRows' /\ AuditChain'
    BY <1>1 DEF WalletInv, TypeOK, FreeRows, AuditChain, Chain, vars, tables, locks, call
  <2>2. ASSUME NEW q \in Requests PROVE LockedBy(q)' /\ BetOwner(q)' /\ Drafted(q)'
    BY <1>1, OthersKeep DEF vars, tables, locks, call
  <2>3. QED
    BY <2>1, <2>2 DEF WalletInv, RequestInv
<1>2. CASE Next
  <2>1. PICK r \in Requests : Call(r) \/ Statement(r) \/ Abort(r)
    BY <1>2 DEF Next
  <2>2. CASE Statement(r)
    BY <2>2, SelectForUpdateInv, UpdateWalletInv, InsertTransactionInv, DebitStakeInv,
       InsertBetInv, ClaimBetInv, CreditPayoutInv, RecordMovementInv, CommitInv DEF Statement
  <2>3. QED
    BY <2>1, <2>2, CallInv, RollbackInv DEF Abort
<1>3. QED
  BY <1>1, <1>2

-----------------------------------------------------------------------------
(* Which call has which bet: a step that commits nothing *)

\* A step of r that leaves the tables alone preserves the bets' invariant if it does so
\* for r itself and for the bet rows it locks or frees.
LEMMA QuietBets ==
    ASSUME WalletAssumption, TypeOK, BetsInv, NEW r \in Requests,
           UNCHANGED <<tables, kind>>,
           \A q \in Requests \ {r} :
              pc'[q] = pc[q] /\ owner'[q] = owner[q] /\ bet'[q] = bet[q]
              /\ rows'[q] = rows[q] /\ moves'[q] = moves[q],
           kind[r] # "cashout" => owner'[r] = owner[r],
           pc'[r] = "ok" => pc[r] = "ok" /\ owner'[r] = owner[r] /\ bet'[r] = bet[r],
           \A b \in Requests :
              \/ betLock[b] # r /\ betLock'[b] = betLock[b] /\ betDraft'[b] = betDraft[b]
              \/ betLock[b] \in {NoRequest, r} /\ BetLocked(b)',
           Entered(r)', BetMoved(r)', Recorded(r)'
    PROVE  BetsInv'
<1>1. ledger' = ledger /\ bets' = bets /\ kind' = kind
  BY DEF tables
<1>2. ASSUME NEW q \in Requests \ {r}
      PROVE  /\ pc'[q] = pc[q] /\ owner'[q] = owner[q] /\ bet'[q] = bet[q]
             /\ rows'[q] = rows[q] /\ moves'[q] = moves[q]
             /\ HoldsBet(q)' <=> HoldsBet(q)
  BY <1>1 DEF HoldsBet
<1>3. ASSUME NEW q \in Requests PROVE Entered(q)'
  <2>1. CASE q = r
    BY <2>1
  <2>2. CASE q # r
    <3>1. Entered(q) /\ bet[q] \in Requests
      BY DEF BetsInv, BetRequestInv, TypeOK
    <3>2. kind[bet[q]] = "gameBet" => owner'[bet[q]] = owner[bet[q]]
      BY <3>1, <1>2
    <3>3. QED
      BY <2>2, <3>1, <3>2, <1>1, <1>2 DEF Entered
  <2>3. QED
    BY <2>1, <2>2
<1>4. ASSUME NEW b \in Requests PROVE BetLocked(b)'
  <2>1. CASE betLock[b] # r /\ betLock'[b] = betLock[b] /\ betDraft'[b] = betDraft[b]
    <3>1. BetLocked(b) /\ betLock[b] \in Requests \cup {NoRequest}
      BY DEF BetsInv, BetRequestInv, TypeOK
    <3>2. CASE betLock[b] = NoRequest
      BY <2>1, <3>1, <3>2, <1>1 DEF BetLocked
    <3>3. CASE betLock[b] # NoRequest
      <4> DEFINE q == betLock[b]
      <4>1. q \in Requests \ {r} /\ bet[q] = b /\ HoldsBet(q)
        BY <2>1, <3>1, <3>3 DEF BetLocked
      <4>2. bet'[q] = b /\ pc'[q] = pc[q]
        BY <4>1, <1>2
      <4>3. bet'[betLock'[b]] = b /\ pc'[betLock'[b]] = pc[q] /\ betLock'[b] = q
        BY <2>1, <4>2
      <4>4. QED
        BY <4>1, <4>3, <3>1, <3>3, <1>1 DEF BetLocked, HoldsBet
    <3>4. QED
      BY <3>2, <3>3
  <2>2. QED
    BY <2>1
<1>5. ASSUME NEW q \in Requests PROVE BetMoved(q)'
  <2>1. CASE q = r
    BY <2>1
  <2>2. CASE q # r
    <3>1. BetMoved(q) /\ Entered(q) /\ bet[q] \in Requests /\ q # NoRequest
      BY DEF BetsInv, BetRequestInv, TypeOK, WalletAssumption
    <3>2. HoldsBet(q) => betLock'[bet[q]] = q /\ betDraft'[bet[q]] = betDraft[bet[q]]
      BY <2>2, <3>1 DEF BetMoved
    <3>3. QED
      BY <2>2, <3>1, <3>2, <1>1, <1>2 DEF BetMoved, Entered
  <2>3. QED
    BY <2>1, <2>2
<1>6. ASSUME NEW q \in Requests PROVE Recorded(q)'
  <2>1. CASE q = r
    BY <2>1
  <2>2. CASE q # r
    <3>1. Recorded(q)
      BY DEF BetsInv, BetRequestInv
    <3>2. QED
      BY <2>2, <3>1, <1>1, <1>2 DEF Recorded
  <2>3. QED
    BY <2>1, <2>2
<1>7. PaidOnce'
  <2>1. \A b \in Requests : kind[b] = "gameBet" => owner'[b] = owner[b]
    BY <1>2
  <2>2. QED
    BY <2>1, <1>1, SMTT(30) DEF BetsInv, PaidOnce, Credits
<1>8. OkMeansDone'
  <2> SUFFICES ASSUME NEW q \in Requests, pc'[q] = "ok"
               PROVE  Done(q)'
    BY DEF OkMeansDone
  <2>1. pc[q] = "ok" /\ owner'[q] = owner[q] /\ bet'[q] = bet[q]
    BY <1>2
  <2>2. Done(q)
    BY <2>1 DEF BetsInv, OkMeansDone
  <2>3. QED
    BY <2>1, <2>2, <1>1 DEF Done
<1>9. QED
  BY <1>3, <1>4, <1>5, <1>6, <1>7, <1>8 DEF BetsInv, BetRequestInv

\* The same for a step that touches no bet row.
LEMMA SameBets ==
    ASSUME WalletAssumption, WalletInv, BetsInv, NEW r \in Requests,
           UNCHANGED <<tables, kind, betLock, betDraft>>,
           \A q \in Requests \ {r} :
              pc'[q] = pc[q] /\ owner'[q] = owner[q] /\ bet'[q] = bet[q]
              /\ rows'[q] = rows[q] /\ moves'[q] = moves[q],
           kind[r] # "cashout" => owner'[r] = owner[r],
           pc'[r] # "ok",
           HoldsBet(r) => HoldsBet(r)' /\ bet'[r] = bet[r],
           Entered(r)', BetMoved(r)', Recorded(r)'
    PROVE  BetsInv'
<1>1. TypeOK /\ UNCHANGED <<tables, kind>>
  BY DEF WalletInv
<1>2. ASSUME NEW b \in Requests
      PROVE  \/ betLock[b] # r /\ betLock'[b] = betLock[b] /\ betDraft'[b] = betDraft[b]
             \/ betLock[b] \in {NoRequest, r} /\ BetLocked(b)'
  <2>1. CASE betLock[b] # r
    BY <2>1
  <2>2. CASE betLock[b] = r
    <3>1. BetLocked(b) /\ r # NoRequest
      BY DEF BetsInv, BetRequestInv, WalletAssumption
    <3>2. bet[r] = b /\ HoldsBet(r)' /\ bet'[r] = b
      BY <2>2, <3>1 DEF BetLocked
    <3>3. betLock'[b] = r /\ bet'[betLock'[b]] = b /\ bets' = bets
      BY <2>2, <3>2 DEF tables
    <3>4. QED
      BY <2>2, <3>1, <3>2, <3>3 DEF BetLocked, HoldsBet
  <2>3. QED
    BY <2>1, <2>2
<1>3. QED
  BY <1>1, <1>2, QuietBets

LEMMA StartBets ==
    ASSUME WalletAssumption, WalletInv, BetsInv, NEW r \in Requests,
           NEW label \in {"select", "debit"}, NEW amounts \in Seq(Int),
           pc[r] = "new", Start(r, label, amounts),
           label = "select" => kind[r] \in {"movement", "placeBet"},
           label = "debit" => kind[r] = "gameBet" /\ Head(amounts) < 0
    PROVE  BetsInv'
<1>1. Entered(r) /\ BetMoved(r) /\ Recorded(r) /\ rows[r] = <<>>
  BY DEF BetsInv, BetRequestInv, WalletInv, RequestInv, Drafted
<1>2. /\ pc' = [pc EXCEPT ![r] = label] /\ moves' = [moves EXCEPT ![r] = amounts]
      /\ UNCHANGED <<tables, kind, owner, bet, betLock, betDraft, rows>>
  BY DEF Start, Goto, locks, call
<1>3. /\ pc'[r] = label /\ moves'[r] = amounts
      /\ \A q \in Requests \ {r} : pc'[q] = pc[q] /\ moves'[q] = moves[q]
  BY <1>2 DEF WalletInv, TypeOK
<1>4. Entered(r)' /\ BetMoved(r)' /\ Recorded(r)'
  BY <1>1, <1>2, <1>3 DEF Entered, BetMoved, Recorded, HoldsBet, tables
<1>5. ~HoldsBet(r) /\ pc'[r] # "ok"
  BY <1>3 DEF HoldsBet
<1>6. QED
  BY <1>2, <1>3, <1>4, <1>5, SameBets

LEMMA RefuseBets ==
    ASSUME WalletAssumption, WalletInv, BetsInv, NEW r \in Requests,
           pc[r] = "new", kind[r] # "cashout", Refuse(r)
    PROVE  BetsInv'
<1>1. Entered(r) /\ BetMoved(r) /\ Recorded(r) /\ rows[r] = <<>>
  BY DEF BetsInv, BetRequestInv, WalletInv, RequestInv, Drafted
<1>2. /\ pc' = [pc EXCEPT ![r] = "failed"]
      /\ UNCHANGED <<tables, kind, owner, bet, betLock, betDraft, rows, moves>>
  BY DEF Refuse, Goto, locks, call
<1>3. pc'[r] = "failed" /\ \A q \in Requests \ {r} : pc'[q] = pc[q]
  BY <1>2 DEF WalletInv, TypeOK
<1>4. Entered(r)' /\ BetMoved(r)' /\ Recorded(r)'
  BY <1>1, <1>2, <1>3 DEF Entered, BetMoved, Recorded, HoldsBet
<1>5. ~HoldsBet(r) /\ pc'[r] # "ok"
  BY <1>3 DEF HoldsBet
<1>6. QED
  BY <1>2, <1>3, <1>4, <1>5, SameBets

LEMMA CallCashoutBets ==
    ASSUME WalletAssumption, WalletInv, BetsInv, NEW r \in Requests, CallCashout(r)
    PROVE  BetsInv'
<1>1. PICK b \in Requests, a \in Amounts \ {0} :
        /\ bets[b] = "ACTIVE"
        /\ owner' = [owner EXCEPT ![r] = owner[b]]
        /\ bet' = [bet EXCEPT ![r] = b]
        /\ moves' = [moves EXCEPT ![r] = <<a>>]
  BY DEF CallCashout
<1>2. /\ pc[r] = "new" /\ kind[r] = "cashout"
      /\ pc' = [pc EXCEPT ![r] = "claim"]
      /\ UNCHANGED <<tables, kind, betLock, betDraft, rows>>
  BY DEF CallCashout, Goto, locks
<1>3. rows[r] = <<>> /\ BetLocked(b)
  BY <1>2 DEF BetsInv, BetRequestInv, WalletInv, RequestInv, Drafted
<1>4. kind[b] = "gameBet" /\ b # r
  BY <1>1, <1>2, <1>3 DEF BetLocked
<1>5. /\ pc'[r] = "claim" /\ moves'[r] = <<a>> /\ bet'[r] = b /\ owner'[r] = owner[b]
      /\ \A q \in Requests \ {r} :
            pc'[q] = pc[q] /\ owner'[q] = owner[q] /\ bet'[q] = bet[q] /\ moves'[q] = moves[q]
  BY <1>1, <1>2 DEF WalletInv, TypeOK
<1>6. Head(moves'[r]) > 0
  BY <1>5 DEF WalletAssumption
<1>7. Entered(r)' /\ BetMoved(r)' /\ Recorded(r)'
  BY <1>2, <1>3, <1>4, <1>5, <1>6 DEF Entered, BetMoved, Recorded, HoldsBet
<1>8. ~HoldsBet(r) /\ pc'[r] # "ok"
  BY <1>2, <1>5 DEF HoldsBet
<1>9. QED
  BY <1>2, <1>5, <1>7, <1>8, SameBets

LEMMA CallBets ==
    ASSUME WalletAssumption, WalletInv, BetsInv, NEW r \in Requests, Call(r)
    PROVE  BetsInv'
<1>1. CASE CallMovement(r)
  <2>1. PICK a \in Amounts :
          IF a > 0 THEN Start(r, "select", <<a>>) \/ Start(r, "select", <<-a>>) ELSE Refuse(r)
    BY <1>1 DEF CallMovement
  <2>2. pc[r] = "new" /\ kind[r] = "movement"
    BY <1>1 DEF CallMovement
  <2>3. <<a>> \in Seq(Int) /\ <<-a>> \in Seq(Int)
    BY DEF WalletAssumption
  <2>4. QED
    BY <2>1, <2>2, <2>3, StartBets, RefuseBets
<1>2. CASE CallPlaceBet(r)
  <2>1. PICK s \in Stakes :
          \/ Start(r, "select", IF s.tax > 0 THEN <<-s.net, -s.tax>> ELSE <<-s.net>>)
          \/ Refuse(r)
    BY <1>2 DEF CallPlaceBet
  <2>2. s.net \in Nat /\ s.tax \in Nat /\ pc[r] = "new" /\ kind[r] = "placeBet"
    BY <1>2 DEF CallPlaceBet, WalletAssumption
  <2>3. <<-s.net, -s.tax>> \in Seq(Int) /\ <<-s.net>> \in Seq(Int)
    BY <2>2
  <2>4. QED
    BY <2>1, <2>2, <2>3, StartBets, RefuseBets
<1>3. CASE CallGameBet(r)
  <2>1. PICK a \in Amounts \ {0} : Start(r, "debit", <<-a>>)
    BY <1>3 DEF CallGameBet
  <2>2. <<-a>> \in Seq(Int) /\ Head(<<-a>>) < 0
    BY DEF WalletAssumption
  <2>3. pc[r] = "new" /\ kind[r] = "gameBet"
    BY <1>3 DEF CallGameBet
  <2>4. QED
    BY <2>1, <2>2, <2>3, StartBets
<1>4. QED
  BY <1>1, <1>2, <1>3, CallCashoutBets DEF Call

LEMMA RollbackBets ==
    ASSUME WalletAssumption, WalletInv, BetsInv, NEW r \in Requests,
           pc[r] # "new", Rollback(r)
    PROVE  BetsInv'
<1>1. /\ pc' = [pc EXCEPT ![r] = "failed"]
      /\ rows' = [rows EXCEPT ![r] = <<>>]
      /\ moves' = [moves EXCEPT ![r] = <<>>]
      /\ betLock' = [b \in Requests |-> IF betLock[b] = r THEN NoRequest ELSE betLock[b]]
      /\ betDraft' = [b \in Requests |-> IF betLock[b] = r THEN bets[b] ELSE betDraft[b]]
      /\ UNCHANGED <<tables, kind, owner, bet>>
  BY DEF Rollback, Release, Goto, call
<1>2. /\ pc'[r] = "failed" /\ rows'[r] = <<>>
      /\ \A q \in Requests \ {r} : pc'[q] = pc[q] /\ rows'[q] = rows[q] /\ moves'[q] = moves[q]
  BY <1>1 DEF WalletInv, TypeOK
<1>3. TypeOK /\ Entered(r)
  BY DEF WalletInv, BetsInv, BetRequestInv
<1>4. Entered(r)' /\ BetMoved(r)' /\ Recorded(r)'
  BY <1>1, <1>2, <1>3 DEF Entered, BetMoved, Recorded, HoldsBet
<1>5. ASSUME NEW b \in Requests
      PROVE  \/ betLock[b] # r /\ betLock'[b] = betLock[b] /\ betDraft'[b] = betDraft[b]
             \/ betLock[b] \in {NoRequest, r} /\ BetLocked(b)'
  <2>1. CASE betLock[b] # r
    BY <2>1, <1>1
  <2>2. CASE betLock[b] = r
    <3>1. betLock'[b] = NoRequest /\ betDraft'[b] = bets[b] /\ bets' = bets /\ BetLocked(b)
      BY <2>2, <1>1 DEF tables, BetsInv, BetRequestInv
    <3>2. QED
      BY <2>2, <1>1, <3>1 DEF BetLocked
  <2>3. QED
    BY <2>1, <2>2
<1>6. QED
  BY <1>1, <1>2, <1>3, <1>4, <1>5, QuietBets

\* A statement of ApplyTx or of the stake's debit moves r to its next statement and
\* keeps its amounts and its audit rows.
LEMMA AdvanceBets ==
    ASSUME WalletAssumption, WalletInv, BetsInv, NEW r \in Requests,
           NEW label \in {"update", "insert", "insertBet"},
           pc[r] \in {"select", "update", "debit"}, pc' = [pc EXCEPT ![r] = label],
           label = "insertBet" => pc[r] = "debit",
           pc[r] = "debit" => label = "insertBet",
           UNCHANGED <<tables, kind, owner, bet, betLock, betDraft, moves, rows>>
    PROVE  BetsInv'
<1>1. Entered(r) /\ BetMoved(r) /\ Recorded(r)
  BY DEF BetsInv, BetRequestInv
<1>2. pc'[r] = label /\ \A q \in Requests \ {r} : pc'[q] = pc[q]
  BY DEF WalletInv, TypeOK
<1>3. Entered(r)' /\ BetMoved(r)'
  BY <1>1, <1>2 DEF Entered, BetMoved, HoldsBet, tables
<1>4. Recorded(r)'
  BY <1>1, <1>2 DEF Recorded, Entered
<1>5. ~HoldsBet(r) /\ pc'[r] # "ok"
  BY <1>2 DEF HoldsBet
<1>6. QED
  BY <1>2, <1>3, <1>4, <1>5, SameBets

LEMMA SelectForUpdateBets ==
    ASSUME WalletAssumption, WalletInv, BetsInv, NEW r \in Requests, SelectForUpdate(r)
    PROVE  BetsInv'
<1>1. pc[r] = "select"
  BY DEF SelectForUpdate
<1>2. CASE Rollback(r)
  BY <1>1, <1>2, RollbackBets
<1>3. CASE ~Rollback(r)
  <2>1. /\ pc' = [pc EXCEPT ![r] = "update"]
        /\ UNCHANGED <<tables, kind, owner, bet, betLock, betDraft, moves, rows>>
    BY <1>3 DEF SelectForUpdate, Goto, call
  <2>2. QED
    BY <1>1, <2>1, AdvanceBets
<1>4. QED
  BY <1>2, <1>3

LEMMA UpdateWalletBets ==
    ASSUME WalletAssumption, WalletInv, BetsInv, NEW r \in Requests, UpdateWallet(r)
    PROVE  BetsInv'
<1>1. pc[r] = "update"
  BY DEF UpdateWallet
<1>2. CASE Rollback(r)
  BY <1>1, <1>2, RollbackBets
<1>3. CASE ~Rollback(r)
  <2>1. /\ pc' = [pc EXCEPT ![r] = "insert"]
        /\ UNCHANGED <<tables, kind, owner, bet, betLock, betDraft, moves, rows>>
    BY <1>3 DEF UpdateWallet, Goto, call
  <2>2. QED
    BY <1>1, <2>1, AdvanceBets
<1>4. QED
  BY <1>2, <1>3

LEMMA DebitStakeBets ==
    ASSUME WalletAssumption, WalletInv, BetsInv, NEW r \in Requests, DebitStake(r)
    PROVE  BetsInv'
<1>1. pc[r] = "debit"
  BY DEF DebitStake
<1>2. CASE Rollback(r)
  BY <1>1, <1>2, RollbackBets
<1>3. CASE ~Rollback(r)
  <2>1. /\ pc' = [pc EXCEPT ![r] = "insertBet"]
        /\ UNCHANGED <<tables, kind, owner, bet, betLock, betDraft, moves, rows>>
    BY <1>3 DEF DebitStake, Goto, call
  <2>2. QED
    BY <1>1, <2>1, AdvanceBets
<1>4. QED
  BY <1>2, <1>3

LEMMA InsertTransactionBets ==
    ASSUME WalletAssumption, WalletInv, BetsInv, NEW r \in Requests, InsertTransaction(r)
    PROVE  BetsInv'
<1> DEFINE e == L!Entry(seen[r].balance, Head(moves[r]), r)
<1>1. Entered(r) /\ BetMoved(r) /\ Recorded(r) /\ pc[r] = "insert"
  BY DEF BetsInv, BetRequestInv, InsertTransaction
<1>2. kind[r] \in {"movement", "placeBet"} /\ bet[r] = r
  BY <1>1 DEF Entered
<1>3. /\ rows' = [rows EXCEPT ![r] = Append(rows[r], e)]
      /\ moves' = [moves EXCEPT ![r] = Tail(moves[r])]
      /\ UNCHANGED <<tables, kind, owner, bet, betLock, betDraft>>
  BY DEF InsertTransaction, locks, call
<1>4. PICK label \in {"select", "insertBet", "commit"} :
        /\ pc' = [pc EXCEPT ![r] = label]
        /\ label = "commit" => kind[r] = "movement"
        /\ label = "insertBet" => kind[r] = "placeBet"
  BY <1>2 DEF InsertTransaction, Goto
<1>5. /\ pc'[r] = label /\ rows'[r] = Append(rows[r], e)
      /\ \A q \in Requests \ {r} : pc'[q] = pc[q] /\ rows'[q] = rows[q] /\ moves'[q] = moves[q]
  BY <1>3, <1>4 DEF WalletInv, TypeOK
<1>6. Entered(r)' /\ BetMoved(r)'
  BY <1>1, <1>2, <1>3, <1>4, <1>5 DEF Entered, BetMoved, HoldsBet, tables
<1>7. Recorded(r)'
  <2>1. e.ref = r
    BY DEF L!Entry
  <2>2. rows[r] \in Seq(Row)
    BY DEF WalletInv, TypeOK
  <2>3. e \in Row
    <3>1. moves[r] # <<>> /\ moves[r] \in Seq(Int) /\ seen[r].balance \in Int
      BY <1>1 DEF WalletInv, RequestInv, Drafted, TypeOK, InTransaction
    <3>2. QED
      BY <3>1, EntryType
  <2>4. /\ Append(rows[r], e) # <<>>
        /\ \A i \in 1 .. Len(Append(rows[r], e)) : Append(rows[r], e)[i].ref = r
    <3>1. /\ Append(rows[r], e) \in Seq(Row) /\ Len(Append(rows[r], e)) = Len(rows[r]) + 1
          /\ Append(rows[r], e)[Len(rows[r]) + 1] = e
          /\ \A i \in 1 .. Len(rows[r]) : Append(rows[r], e)[i] = rows[r][i]
      BY <2>2, <2>3
    <3>2. \A i \in 1 .. Len(rows[r]) : rows[r][i].ref = r
      BY <1>1, <1>2 DEF Recorded
    <3>3. QED
      BY <2>1, <2>2, <3>1, <3>2
  <2>5. QED
    BY <1>2, <1>3, <1>5, <2>4 DEF Recorded
<1>8. ~HoldsBet(r) /\ pc'[r] # "ok"
  BY <1>1, <1>5 DEF HoldsBet
<1>9. QED
  BY <1>3, <1>5, <1>6, <1>7, <1>8, SameBets

\* A bet row that is still "none" is locked by nobody but the call that inserts it.
LEMMA OwnBetLock ==
    ASSUME WalletAssumption, TypeOK, BetRequestInv, NEW r \in Requests,
           bets[r] = "none", betLock[r] # NoRequest
    PROVE  betLock[r] = r
<1> DEFINE q == betLock[r]
<1>1. q \in Requests /\ bet[q] = r /\ HoldsBet(q) /\ Entered(q) /\ BetMoved(q)
  BY DEF BetRequestInv, BetLocked, TypeOK
<1>2. kind[q] # "cashout"
  BY <1>1 DEF BetMoved
<1>3. QED
  BY <1>1, <1>2 DEF Entered

LEMMA InsertBetBets ==
    ASSUME WalletAssumption, WalletInv, BetsInv, NEW r \in Requests, InsertBet(r)
    PROVE  BetsInv'
<1>1. /\ Entered(r) /\ BetMoved(r) /\ Recorded(r) /\ BetLocked(r) /\ pc[r] = "insertBet"
      /\ TypeOK /\ BetRequestInv
  BY DEF WalletInv, BetsInv, BetRequestInv, InsertBet
<1>2. kind[r] \in {"placeBet", "gameBet"} /\ bet[r] = r /\ bets[r] = "none"
  BY <1>1 DEF Entered, BetMoved
<1>3. /\ betLock' = [betLock EXCEPT ![r] = r]
      /\ betDraft' = [betDraft EXCEPT ![r] = IF kind[r] = "placeBet" THEN "PENDING" ELSE "ACTIVE"]
      /\ pc' = [pc EXCEPT ![r] = IF kind[r] = "placeBet" THEN "commit" ELSE "record"]
      /\ UNCHANGED <<tables, kind, owner, bet, moves, rows>>
  BY DEF InsertBet, Goto, call
<1>4. /\ pc'[r] = IF kind[r] = "placeBet" THEN "commit" ELSE "record"
      /\ betLock'[r] = r
      /\ betDraft'[r] = IF kind[r] = "placeBet" THEN "PENDING" ELSE "ACTIVE"
      /\ \A q \in Requests \ {r} :
            pc'[q] = pc[q] /\ betLock'[q] = betLock[q] /\ betDraft'[q] = betDraft[q]
  BY <1>3 DEF WalletInv, TypeOK
<1>5. Entered(r)' /\ BetMoved(r)' /\ Recorded(r)'
  BY <1>1, <1>2, <1>3, <1>4 DEF Entered, BetMoved, Recorded, HoldsBet, tables
<1>6. \A b \in Requests : betLock[b] # r
  BY <1>1 DEF BetRequestInv, BetLocked, HoldsBet, WalletAssumption
<1>7. betLock[r] = NoRequest
  BY <1>1, <1>2, <1>6, OwnBetLock
<1>8. BetLocked(r)'
  BY <1>2, <1>3, <1>4 DEF BetLocked, HoldsBet, WalletAssumption, tables
<1>9. QED
  BY <1>1, <1>3, <1>4, <1>5, <1>6, <1>7, <1>8, QuietBets

LEMMA ClaimBetBets ==
    ASSUME WalletAssumption, WalletInv, BetsInv, NEW r \in Requests, ClaimBet(r)
    PROVE  BetsInv'
<1> DEFINE b == bet[r]
<1>1. /\ Entered(r) /\ BetMoved(r) /\ Recorded(r) /\ pc[r] = "claim" /\ b \in Requests
      /\ TypeOK /\ BetRequestInv
  BY DEF WalletInv, BetsInv, BetRequestInv, TypeOK, ClaimBet
<1>2. kind[r] = "cashout" /\ kind[b] = "gameBet" /\ ~HoldsBet(r)
  BY <1>1 DEF Entered, HoldsBet
<1>3. UNCHANGED <<tables, kind, owner, bet, moves, rows>>
  BY DEF ClaimBet, call
<1>4. CASE bets[b] # "ACTIVE"
  <2>1. pc' = [pc EXCEPT ![r] = "leaked"] /\ UNCHANGED <<betDraft, betLock>>
    BY <1>4 DEF ClaimBet, Goto
  <2>2. pc'[r] = "leaked" /\ \A q \in Requests \ {r} : pc'[q] = pc[q]
    BY <2>1 DEF WalletInv, TypeOK
  <2>3. Entered(r)' /\ BetMoved(r)' /\ Recorded(r)'
    BY <1>1, <1>2, <1>3, <2>2 DEF Entered, BetMoved, Recorded, HoldsBet
  <2>4. QED
    BY <1>2, <1>3, <2>1, <2>2, <2>3, SameBets
<1>5. CASE bets[b] = "ACTIVE"
  <2>1. /\ betLock[b] \in {NoRequest, r}
        /\ betDraft' = [betDraft EXCEPT ![b] = "CASHED_OUT"]
        /\ betLock' = [betLock EXCEPT ![b] = r]
        /\ pc' = [pc EXCEPT ![r] = "credit"]
    BY <1>5 DEF ClaimBet, Goto
  <2>2. /\ pc'[r] = "credit" /\ betLock'[b] = r /\ betDraft'[b] = "CASHED_OUT"
        /\ \A q \in Requests \ {r} : pc'[q] = pc[q]
        /\ \A c \in Requests \ {b} : betLock'[c] = betLock[c] /\ betDraft'[c] = betDraft[c]
    BY <1>1, <2>1 DEF TypeOK
  <2>3. Entered(r)' /\ BetMoved(r)' /\ Recorded(r)'
    BY <1>1, <1>2, <1>3, <1>5, <2>2 DEF Entered, BetMoved, Recorded, HoldsBet, tables
  <2>4. \A c \in Requests : betLock[c] # r
    BY <1>1, <1>2 DEF BetRequestInv, BetLocked, WalletAssumption
  <2>5. BetLocked(b)'
    <3>1. bet'[betLock'[b]] = b /\ HoldsBet(r)' /\ bets' = bets
      BY <1>3, <2>2 DEF HoldsBet, tables
    <3>2. QED
      BY <1>2, <1>3, <2>2, <3>1 DEF BetLocked, HoldsBet, WalletAssumption
  <2>6. QED
    BY <1>1, <1>2, <1>3, <2>1, <2>2, <2>3, <2>4, <2>5, QuietBets
<1>6. QED
  BY <1>4, <1>5

LEMMA CreditPayoutBets ==
    ASSUME WalletAssumption, WalletInv, BetsInv, NEW r \in Requests, CreditPayout(r)
    PROVE  BetsInv'
<1>1. Entered(r) /\ BetMoved(r) /\ Recorded(r) /\ pc[r] = "credit"
  BY DEF BetsInv, BetRequestInv, CreditPayout
<1>2. /\ pc' = [pc EXCEPT ![r] = "record"]
      /\ UNCHANGED <<tables, kind, owner, bet, betLock, betDraft, moves, rows>>
  BY DEF CreditPayout, Goto, call
<1>3. pc'[r] = "record" /\ \A q \in Requests \ {r} : pc'[q] = pc[q]
  BY <1>2 DEF WalletInv, TypeOK
<1>4. Entered(r)' /\ BetMoved(r)' /\ Recorded(r)' /\ HoldsBet(r)'
  BY <1>1, <1>2, <1>3 DEF Entered, BetMoved, Recorded, HoldsBet, tables
<1>5. QED
  BY <1>2, <1>3, <1>4, SameBets

LEMMA RecordMovementBets ==
    ASSUME WalletAssumption, WalletInv, BetsInv, NEW r \in Requests, RecordMovement(r)
    PROVE  BetsInv'
<1> DEFINE u == owner[r]
           a == Head(moves[r])
           after == draft[u].balance
           e == L!Entry(after - a, a, bet[r])
<1>1. /\ Entered(r) /\ BetMoved(r) /\ Recorded(r) /\ pc[r] = "record"
      /\ LockedBy(r) /\ Drafted(r)
  BY DEF BetsInv, BetRequestInv, WalletInv, RequestInv, RecordMovement
<1>2. /\ pc' = [pc EXCEPT ![r] = "commit"]
      /\ rows' = [rows EXCEPT ![r] = <<e>>]
      /\ moves' = [moves EXCEPT ![r] = <<>>]
      /\ UNCHANGED <<tables, kind, owner, bet, betLock, betDraft>>
  BY DEF RecordMovement, Goto, locks, call
<1>3. /\ pc'[r] = "commit" /\ rows'[r] = <<e>>
      /\ \A q \in Requests \ {r} : pc'[q] = pc[q] /\ rows'[q] = rows[q] /\ moves'[q] = moves[q]
  BY <1>2 DEF WalletInv, TypeOK
<1>4. kind[r] \in {"gameBet", "cashout"}
  BY <1>1 DEF Entered
<1>5. Entered(r)' /\ BetMoved(r)' /\ HoldsBet(r)'
  BY <1>1, <1>2, <1>3, <1>4 DEF Entered, BetMoved, HoldsBet, tables
<1>6. Recorded(r)'
  <2>1. /\ u \in Wallets /\ moves[r] # <<>>
        /\ kind[r] = "gameBet" => a < 0
        /\ kind[r] = "cashout" => a > 0
    BY <1>1 DEF LockedBy, Drafted, Holding, InTransaction, Recorded
  <2>2. a \in Int /\ after \in Int
    BY <2>1 DEF WalletInv, TypeOK
  <2>3. e.ref = bet[r] /\ e.before = after - a /\ e.after = (after - a) + a
    BY DEF L!Entry
  <2>4. /\ kind[r] = "gameBet" => e.after < e.before
        /\ kind[r] = "cashout" => e.after > e.before
    BY <2>1, <2>2, <2>3
  <2>5. /\ Len(rows'[r]) = 1 /\ rows'[r] # <<>>
        /\ \A i \in 1 .. Len(rows'[r]) : rows'[r][i] = e
    BY <1>3
  <2>6. /\ \A i \in 1 .. Len(rows'[r]) :
              /\ rows'[r][i].ref = bet'[r]
              /\ kind'[r] = "gameBet" => rows'[r][i].after < rows'[r][i].before
              /\ kind'[r] = "cashout" => rows'[r][i].after > rows'[r][i].before
        /\ Len(rows'[r]) <= 1 /\ rows'[r] # <<>>
    <3> HIDE DEF e
    <3>1. QED
      BY <1>2, <2>3, <2>4, <2>5
  <2>7. QED
    BY <1>3, <2>6 DEF Recorded
<1>7. QED
  BY <1>2, <1>3, <1>5, <1>6, SameBets

-----------------------------------------------------------------------------
(* Which call has which bet: the commit *)

LEMMA ConcatLeft ==
    ASSUME NEW s \in Seq(Row), NEW t \in Seq(Row), NEW i \in 1 .. Len(s)
    PROVE  i \in 1 .. Len(s \o t) /\ (s \o t)[i] = s[i]
OBVIOUS

LEMMA ConcatRight ==
    ASSUME NEW s \in Seq(Row), NEW t \in Seq(Row), NEW i \in 1 .. Len(t)
    PROVE  Len(s) + i \in 1 .. Len(s \o t) /\ (s \o t)[Len(s) + i] = t[i]
OBVIOUS

\* Appending audit rows to a ledger pays the bets that the new rows credit.
LEMMA CreditsAppend ==
    ASSUME NEW s \in Seq(Row), NEW t \in Seq(Row), NEW b
    PROVE  /\ Credits(t, b) = {} => Credits(s \o t, b) = Credits(s, b)
           /\ Credits(s, b) = {} /\ Len(t) <= 1 =>
                 \A i, j \in Credits(s \o t, b) : i = j
           /\ Credits(t, b) # {} => Credits(s \o t, b) # {}
<1> DEFINE w == s \o t
<1>1. /\ w \in Seq(Row) /\ Len(w) = Len(s) + Len(t)
      /\ \A i \in 1 .. Len(s) : w[i] = s[i]
      /\ \A i \in 1 .. Len(t) : w[Len(s) + i] = t[i]
  OBVIOUS
<1>2. ASSUME NEW i \in 1 .. Len(w), i \notin 1 .. Len(s)
      PROVE  /\ i - Len(s) \in 1 .. Len(t) /\ w[i] = t[i - Len(s)]
             /\ Len(t) <= 1 => i = Len(s) + 1
  BY <1>1, <1>2
<1> HIDE DEF w
<1>3. ASSUME Credits(t, b) = {} PROVE Credits(w, b) = Credits(s, b)
  <2>1. ASSUME NEW i \in Credits(w, b) PROVE i \in Credits(s, b)
    <3>1. CASE i \in 1 .. Len(s)
      BY <3>1, <2>1, <1>1 DEF Credits
    <3>2. CASE i \notin 1 .. Len(s)
      <4>1. i - Len(s) \in Credits(t, b)
        BY <3>2, <2>1, <1>2 DEF Credits
      <4>2. QED
        BY <4>1, <1>3
    <3>3. QED
      BY <3>1, <3>2
  <2>2. ASSUME NEW i \in Credits(s, b) PROVE i \in Credits(w, b)
    BY <2>2, <1>1 DEF Credits
  <2>3. QED
    BY <2>1, <2>2
<1>4. ASSUME Credits(s, b) = {}, Len(t) <= 1, NEW i \in Credits(w, b)
      PROVE  i = Len(s) + 1
  <2>1. i \notin 1 .. Len(s)
    BY <1>1, <1>4 DEF Credits
  <2>2. QED
    BY <2>1, <1>2, <1>4 DEF Credits
<1>5. ASSUME NEW i \in Credits(t, b) PROVE Len(s) + i \in Credits(w, b)
  BY <1>1, <1>5 DEF Credits
<1>6. QED
  BY <1>3, <1>4, <1>5 DEF w

\* A commit of r writes the bet that r inserted or cashes out, and no other.
LEMMA CommitBets ==
    ASSUME WalletAssumption, WalletInv, BetsInv, NEW r \in Requests, Commit(r)
    PROVE  BetsInv'
<1> DEFINE u == owner[r]
<1>1. /\ Entered(r) /\ BetMoved(r) /\ Recorded(r) /\ pc[r] = "commit"
      /\ TypeOK /\ BetRequestInv /\ PaidOnce /\ OkMeansDone
      /\ u \in Wallets /\ bet[r] \in Requests
  BY DEF WalletInv, RequestInv, LockedBy, Holding, BetsInv, BetRequestInv, TypeOK, Commit
<1>2. /\ ledger' = [v \in Wallets |-> IF v = u THEN ledger[v] \o rows[r] ELSE ledger[v]]
      /\ bets' = [b \in Requests |-> IF betLock[b] = r THEN betDraft[b] ELSE bets[b]]
      /\ betLock' = [b \in Requests |-> IF betLock[b] = r THEN NoRequest ELSE betLock[b]]
      /\ rows' = [rows EXCEPT ![r] = <<>>]
      /\ pc' \in {[pc EXCEPT ![r] = "ok"], [pc EXCEPT ![r] = "failed"]}
      /\ UNCHANGED <<betDraft, kind, owner, bet, moves>>
  BY DEF Commit, Release, Goto, call
<1>3. /\ pc'[r] \in {"ok", "failed"} /\ rows'[r] = <<>>
      /\ \A q \in Requests \ {r} : pc'[q] = pc[q] /\ rows'[q] = rows[q]
      /\ rows[r] \in Seq(Row) /\ \A v \in Wallets : ledger[v] \in Seq(Row)
  BY <1>1, <1>2 DEF TypeOK
\* What r writes: its own bet, or the one it cashes out.
<1>4. ASSUME NEW b \in Requests, betLock[b] = r
      PROVE  /\ bet[r] = b
             /\ kind[r] \in {"placeBet", "gameBet", "cashout"}
             /\ kind[r] = "placeBet" => b = r /\ bets[b] = "none" /\ betDraft[b] = "PENDING"
             /\ kind[r] = "gameBet" => b = r /\ bets[b] = "none" /\ betDraft[b] = "ACTIVE"
             /\ kind[r] = "cashout" =>
                   kind[b] = "gameBet" /\ bets[b] = "ACTIVE" /\ betDraft[b] = "CASHED_OUT"
  <2>1. BetLocked(b) /\ r # NoRequest /\ kind[r] \in AllKinds
    BY <1>1 DEF BetRequestInv, WalletAssumption, TypeOK
  <2>2. bet[r] = b /\ HoldsBet(r)
    BY <1>4, <2>1 DEF BetLocked
  <2>3. kind[r] # "movement"
    BY <1>1, <2>2 DEF HoldsBet
  <2>4. QED
    BY <1>1, <2>1, <2>2, <2>3 DEF BetMoved, Entered, AllKinds
<1>5. ASSUME NEW b \in Requests
      PROVE  bets'[b] = IF betLock[b] = r THEN betDraft[b] ELSE bets[b]
  BY <1>2
<1>6. ASSUME NEW q \in Requests PROVE Entered(q)' /\ Recorded(q)'
  <2>1. Entered(q) /\ Recorded(q)
    BY <1>1 DEF BetRequestInv
  <2>2. Entered(q)'
    <3>1. CASE q = r
      BY <3>1, <1>1, <1>2, <1>3 DEF Entered
    <3>2. CASE q # r
      BY <3>2, <2>1, <1>2, <1>3 DEF Entered
    <3>3. QED
      BY <3>1, <3>2
  <2>3. Recorded(q)'
    <3>1. CASE q = r
      BY <3>1, <1>3 DEF Recorded
    <3>2. CASE q # r
      BY <3>2, <2>1, <1>2, <1>3 DEF Recorded
    <3>3. QED
      BY <3>1, <3>2
  <2>4. QED
    BY <2>2, <2>3
<1>7. ASSUME NEW b \in Requests PROVE BetLocked(b)'
  <2>1. BetLocked(b) /\ betLock[b] \in Requests \cup {NoRequest}
    BY <1>1 DEF BetRequestInv, TypeOK
  <2>2. CASE betLock[b] = r
    <3>1. betLock'[b] = NoRequest /\ betDraft'[b] = bets'[b]
      BY <2>2, <1>2
    <3>2. bets'[b] \in {"ACTIVE", "CASHED_OUT"} => kind'[b] = "gameBet"
      BY <2>2, <1>2, <1>4, <1>5
    <3>3. QED
      BY <3>1, <3>2 DEF BetLocked
  <2>3. CASE betLock[b] # r
    <3>1. betLock'[b] = betLock[b] /\ betDraft'[b] = betDraft[b] /\ bets'[b] = bets[b]
      BY <2>3, <1>2
    <3>2. CASE betLock[b] = NoRequest
      BY <3>1, <3>2, <2>1, <1>2 DEF BetLocked
    <3>3. CASE betLock[b] # NoRequest
      <4> DEFINE q == betLock[b]
      <4>1. q \in Requests \ {r} /\ bet[q] = b /\ HoldsBet(q)
        BY <2>1, <2>3, <3>3 DEF BetLocked
      <4>2. betLock'[b] = q /\ bet'[q] = b /\ pc'[q] = pc[q] /\ kind'[q] = kind[q]
        BY <4>1, <3>1, <1>2, <1>3
      <4>3. QED
        BY <4>1, <4>2, <3>1, <3>3, <2>1, <1>2 DEF BetLocked, HoldsBet
    <3>4. QED
      BY <3>2, <3>3
  <2>4. QED
    BY <2>2, <2>3
<1>8. ASSUME NEW q \in Requests PROVE BetMoved(q)'
  <2>1. CASE q = r
    BY <2>1, <1>3 DEF BetMoved, HoldsBet
  <2>2. CASE q # r
    <3>1. BetMoved(q) /\ Entered(q) /\ bet[q] \in Requests
      BY <1>1 DEF BetRequestInv, TypeOK
    <3>2. HoldsBet(q) =>
            /\ betLock[bet[q]] = q /\ betLock'[bet[q]] = q
            /\ bets'[bet[q]] = bets[bet[q]] /\ betDraft' = betDraft
      BY <2>2, <3>1, <1>2, <1>5 DEF BetMoved
    <3>3. bets[q] = "none" => bets'[q] = "none"
      BY <2>2, <1>4, <1>5
    <3>4. HoldsBet(q)' <=> HoldsBet(q)
      BY <2>2, <1>2, <1>3 DEF HoldsBet
    <3>5. QED
      BY <2>2, <3>1, <3>2, <3>3, <3>4, <1>2, <1>3 DEF BetMoved, Entered
  <2>3. QED
    BY <2>1, <2>2
<1>9. PaidOnce'
  <2> SUFFICES ASSUME NEW b \in Requests, owner'[b] \in Wallets, kind'[b] = "gameBet"
               PROVE  /\ \A i, j \in Credits(ledger'[owner'[b]], b) : i = j
                      /\ Credits(ledger'[owner'[b]], b) # {} <=> bets'[b] = "CASHED_OUT"
    BY DEF PaidOnce, Credits
  <2>0. owner' = owner /\ owner[b] \in Wallets /\ kind[b] = "gameBet"
    BY <1>2
  <2> DEFINE paid == Credits(ledger[owner[b]], b)
             new == Credits(rows[r], b)
  <2>1. (\A i, j \in paid : i = j) /\ (paid # {} <=> bets[b] = "CASHED_OUT")
    BY <1>1, <2>0 DEF PaidOnce
  <2>2. ledger'[owner'[b]] = IF owner[b] = u THEN ledger[owner[b]] \o rows[r] ELSE ledger[owner[b]]
    BY <1>2, <2>0
  <2>3. /\ new = {} => Credits(ledger[owner[b]] \o rows[r], b) = paid
        /\ paid = {} /\ Len(rows[r]) <= 1 =>
              \A i, j \in Credits(ledger[owner[b]] \o rows[r], b) : i = j
        /\ new # {} => Credits(ledger[owner[b]] \o rows[r], b) # {}
    <3> DEFINE s == ledger[owner[b]]
               t == rows[r]
    <3>1. s \in Seq(Row) /\ t \in Seq(Row)
      BY <1>3, <2>0
    <3> HIDE DEF s, t
    <3>2. /\ Credits(t, b) = {} => Credits(s \o t, b) = Credits(s, b)
          /\ Credits(s, b) = {} /\ Len(t) <= 1 =>
                \A i, j \in Credits(s \o t, b) : i = j
          /\ Credits(t, b) # {} => Credits(s \o t, b) # {}
      BY <3>1, CreditsAppend
    <3>3. QED
      BY <3>2 DEF s, t
  <2>4. ASSUME betLock[b] = r, kind[r] = "cashout"
        PROVE  /\ owner[b] = u /\ paid = {} /\ new # {} /\ Len(rows[r]) <= 1
               /\ bets'[b] = "CASHED_OUT"
    <3>1. bet[r] = b /\ bets[b] = "ACTIVE" /\ bets'[b] = "CASHED_OUT"
      BY <2>4, <1>4, <1>5
    <3>2. owner[b] = u /\ paid = {}
      BY <2>1, <2>4, <3>1, <1>1 DEF Entered
    <3>3. rows[r] # <<>> /\ Len(rows[r]) <= 1
      BY <1>1, <2>4 DEF Recorded
    <3>4. 1 \in 1 .. Len(rows[r])
      BY <3>3, <1>3
    <3>5. rows[r][1].ref = b /\ rows[r][1].after > rows[r][1].before
      BY <1>1, <2>4, <3>1, <3>4 DEF Recorded
    <3>6. 1 \in new
      BY <3>4, <3>5 DEF Credits
    <3>7. QED
      BY <3>1, <3>2, <3>3, <3>6
  <2>5. ASSUME ~(betLock[b] = r /\ kind[r] = "cashout")
        PROVE  new = {} /\ (bets'[b] = "CASHED_OUT" <=> bets[b] = "CASHED_OUT")
    <3>1. bets'[b] = "CASHED_OUT" <=> bets[b] = "CASHED_OUT"
      BY <2>5, <1>4, <1>5
    <3>2. bet[r] = b => kind[r] # "cashout"
      BY <2>5, <1>1 DEF BetMoved, HoldsBet
    <3>3. bet[r] = b => kind[r] = "gameBet"
      BY <3>2, <2>0, <1>1 DEF Entered
    <3>4. \A i \in 1 .. Len(rows[r]) :
            /\ rows[r][i] \in Row /\ rows[r][i].ref = bet[r]
            /\ bet[r] = b => rows[r][i].after < rows[r][i].before
      BY <3>3, <1>1, <1>3 DEF Recorded
    <3>5. new = {}
      BY <3>4 DEF Credits, Row
    <3>6. QED
      BY <3>1, <3>5
  <2>6. QED
    <3> HIDE DEF paid, new
    <3>1. CASE betLock[b] = r /\ kind[r] = "cashout"
      BY <3>1, <2>2, <2>3, <2>4
    <3>2. CASE ~(betLock[b] = r /\ kind[r] = "cashout")
      BY <3>2, <2>1, <2>2, <2>3, <2>5 DEF paid
    <3>3. QED
      BY <3>1, <3>2
<1>10. OkMeansDone'
  <2> SUFFICES ASSUME NEW q \in Requests, pc'[q] = "ok"
               PROVE  Done(q)'
    BY DEF OkMeansDone
  <2>1. CASE q = r
    <3>1. kind[r] # "movement" => betLock[bet[r]] = r /\ bets'[bet[r]] = betDraft[bet[r]]
      BY <1>1, <1>5 DEF BetMoved, HoldsBet
    <3>2. ASSUME kind[r] = "movement"
          PROVE  \E i \in 1 .. Len(ledger'[u]) : ledger'[u][i].ref = r
      <4> DEFINE w == ledger[u] \o rows[r]
      <4>1. rows[r] # <<>> /\ bet[r] = r
        BY <1>1, <3>2 DEF Recorded, Entered
      <4>2. 1 \in 1 .. Len(rows[r]) /\ rows[r][1].ref = r
        BY <1>1, <1>3, <4>1 DEF Recorded
      <4>3. Len(ledger[u]) + 1 \in 1 .. Len(w) /\ w[Len(ledger[u]) + 1] = rows[r][1]
        <5>1. ledger[u] \in Seq(Row) /\ rows[r] \in Seq(Row)
          BY <1>1, <1>3
        <5>2. QED
          BY <5>1, <4>2, ConcatRight
      <4>4. ledger'[u] = w
        BY <1>1, <1>2
      <4>5. QED
        BY <4>2, <4>3, <4>4
    <3>3. kind[r] \in {"placeBet", "gameBet"} => bet[r] = r
      BY <1>1 DEF Entered
    <3>4. /\ kind[r] = "placeBet" => bets'[r] = "PENDING"
          /\ kind[r] = "gameBet" => bets'[r] \in {"ACTIVE", "CASHED_OUT"}
          /\ kind[r] = "cashout" => bets'[bet[r]] = "CASHED_OUT"
      BY <3>1, <3>3, <1>1, <1>4
    <3>5. QED
      BY <2>1, <3>2, <3>4, <1>2 DEF Done
  <2>2. CASE q # r
    <3>1. Done(q) /\ Entered(q) /\ owner[q] \in Users /\ bet[q] \in Requests /\ pc[q] = "ok"
      BY <2>2, <1>1, <1>3 DEF OkMeansDone, BetRequestInv, TypeOK
    <3>2. ASSUME kind[q] = "movement"
          PROVE  \E i \in 1 .. Len(ledger'[owner[q]]) : ledger'[owner[q]][i].ref = q
      <4>1. PICK i \in 1 .. Len(ledger[owner[q]]) : ledger[owner[q]][i].ref = q
        BY <3>1, <3>2 DEF Done
      <4>2. CASE owner[q] = u
        <5> DEFINE w == ledger[u] \o rows[r]
        <5>1. i \in 1 .. Len(w) /\ w[i] = ledger[u][i]
          <6>1. ledger[u] \in Seq(Row) /\ rows[r] \in Seq(Row) /\ i \in 1 .. Len(ledger[u])
            BY <1>1, <1>3, <4>1, <4>2
          <6>2. QED
            BY <6>1, ConcatLeft
        <5>2. ledger'[u] = w
          BY <1>1, <1>2
        <5>3. QED
          BY <4>1, <4>2, <5>1, <5>2
      <4>3. CASE owner[q] # u
        <5>1. owner[q] \in Wallets
          BY <3>1 DEF Entered
        <5>2. ledger'[owner[q]] = ledger[owner[q]]
          BY <1>2, <4>3, <5>1
        <5>3. QED
          BY <4>1, <5>2
      <4>4. QED
        BY <4>2, <4>3
    <3>3. /\ kind[q] = "placeBet" => bets'[q] = "PENDING"
          /\ kind[q] = "gameBet" => bets'[q] \in {"ACTIVE", "CASHED_OUT"}
          /\ kind[q] = "cashout" => bets'[bet[q]] = "CASHED_OUT"
      BY <2>2, <3>1, <1>4, <1>5 DEF Done
    <3>4. QED
      BY <3>2, <3>3, <1>2 DEF Done
  <2>3. QED
    BY <2>1, <2>2
<1>11. QED
  BY <1>6, <1>7, <1>8, <1>9, <1>10 DEF BetsInv, BetRequestInv

LEMMA InitBets == ASSUME WalletAssumption, Init PROVE BetsInv
<1>1. BetRequestInv
  BY DEF WalletAssumption, Init, BetRequestInv, Entered, BetLocked, BetMoved, Recorded, HoldsBet
<1>2. PaidOnce
  BY DEF Init, PaidOnce, Credits
<1>3. OkMeansDone
  BY DEF Init, OkMeansDone
<1>4. QED
  BY <1>1, <1>2, <1>3 DEF BetsInv

LEMMA NextBets == ASSUME WalletAssumption, WalletInv, BetsInv, [Next]_vars PROVE BetsInv'
<1>1. CASE UNCHANGED vars
  <2>1. BetRequestInv'
    BY <1>1 DEF BetsInv, BetRequestInv, Entered, BetLocked, BetMoved, Recorded, HoldsBet,
       vars, tables, locks, call
  <2>2. PaidOnce'
    BY <1>1 DEF BetsInv, PaidOnce, Credits, vars, tables, call
  <2>3. OkMeansDone'
    BY <1>1 DEF BetsInv, OkMeansDone, Done, vars, tables, call
  <2>4. QED
    BY <2>1, <2>2, <2>3 DEF BetsInv
<1>2. CASE Next
  <2>1. PICK r \in Requests : Call(r) \/ Statement(r) \/ Abort(r)
    BY <1>2 DEF Next
  <2>2. CASE Statement(r)
    BY <2>2, SelectForUpdateBets, UpdateWalletBets, InsertTransactionBets, DebitStakeBets,
       InsertBetBets, ClaimBetBets, CreditPayoutBets, RecordMovementBets, CommitBets DEF Statement
  <2>3. CASE Abort(r)
    BY <2>3, RollbackBets DEF Abort, InTransaction
  <2>4. QED
    BY <2>1, <2>2, <2>3, CallBets
<1>3. QED
  BY <1>1, <1>2

-----------------------------------------------------------------------------
(* Every commit is one operation of Ledger *)

\* A request that does not move keeps what it intends: while it has audit rows, it
\* holds the lock on the row they start from.
LEMMA OthersIntend ==
    ASSUME WalletInv, NEW q \in Requests, Intended(q),
           pc'[q] = pc[q], owner'[q] = owner[q], bet'[q] = bet[q], kind'[q] = kind[q],
           moves'[q] = moves[q], rows'[q] = rows[q],
           \A u \in Wallets : lock[u] = q => wallet'[u] = wallet[u]
    PROVE  Intended(q)'
<1>1. LockedBy(q)
  BY DEF WalletInv, RequestInv
<1>2. CASE pc[q] \in Holding \/ (pc[q] = "select" /\ rows[q] # <<>>)
  <2>1. wallet'[owner'[q]] = wallet[owner[q]]
    BY <1>1, <1>2 DEF LockedBy
  <2>2. QED
    BY <2>1, ZenonT(30) DEF Intended
<1>3. CASE ~(pc[q] \in Holding \/ (pc[q] = "select" /\ rows[q] # <<>>))
  <2>1. pc[q] \notin Holding /\ (pc[q] = "select" => rows[q] = <<>>)
    BY <1>3
  <2>2. \A e : <<e>> # <<>>
    OBVIOUS
  <2>3. kind[q] = "placeBet" /\ pc[q] = "select" =>
          \E s \in Stakes : moves[q] = IF s.tax > 0 THEN <<-s.net, -s.tax>> ELSE <<-s.net>>
    BY <2>1, <2>2 DEF Intended
  <2>4. QED
    BY <2>1, <2>3 DEF Intended, Holding
<1>4. QED
  BY <1>2, <1>3

\* A step of r that leaves the tables alone preserves the invariant if r still intends
\* one operation.
LEMMA QuietLedger ==
    ASSUME WalletInv, LedgerInv, NEW r \in Requests,
           UNCHANGED <<tables, kind>>,
           \A q \in Requests \ {r} :
              pc'[q] = pc[q] /\ owner'[q] = owner[q] /\ bet'[q] = bet[q]
              /\ rows'[q] = rows[q] /\ moves'[q] = moves[q],
           kind[r] # "cashout" => owner'[r] = owner[r],
           Intended(r)'
    PROVE  LedgerInv'
<1>1. wallet' = wallet /\ ledger' = ledger /\ bets' = bets /\ kind' = kind
  BY DEF tables
<1>2. ASSUME NEW q \in Requests PROVE Intended(q)'
  <2>1. CASE q = r
    BY <2>1
  <2>2. CASE q # r
    BY <2>2, <1>1, OthersIntend DEF LedgerInv
  <2>3. QED
    BY <2>1, <2>2
<1>3. BetBacked'
  <2> SUFFICES ASSUME NEW b \in Requests, owner'[b] \in Wallets, kind'[b] \in {"placeBet", "gameBet"}
               PROVE  Backed(b)'
    BY DEF BetBacked
  <2>1. owner'[b] = owner[b] /\ kind[b] \in {"placeBet", "gameBet"}
    BY <1>1
  <2>2. Backed(b)
    BY <2>1 DEF LedgerInv, BetBacked
  <2>3. QED
    BY <2>1, <2>2, <1>1, SMTT(30) DEF Backed, Debits
<1>4. QED
  BY <1>2, <1>3 DEF LedgerInv

LEMMA StartLedger ==
    ASSUME WalletInv, LedgerInv, NEW r \in Requests, NEW label \in {"select", "debit"}, NEW amounts,
           pc[r] = "new", Start(r, label, amounts),
           \/ /\ label = "select" /\ kind[r] = "movement"
              /\ \E a \in Amounts : amounts = <<a>> \/ amounts = <<-a>>
           \/ /\ label = "select" /\ kind[r] = "placeBet"
              /\ \E s \in Stakes :
                    amounts = IF s.tax > 0 THEN <<-s.net, -s.tax>> ELSE <<-s.net>>
           \/ /\ label = "debit" /\ kind[r] = "gameBet"
              /\ \E a \in Amounts : amounts = <<-a>>
    PROVE  LedgerInv'
<1>1. /\ pc' = [pc EXCEPT ![r] = label] /\ moves' = [moves EXCEPT ![r] = amounts]
      /\ UNCHANGED <<tables, kind, owner, bet, rows>>
  BY DEF Start, Goto, call
<1>2. rows[r] = <<>>
  BY DEF WalletInv, RequestInv, Drafted
<1>3. /\ pc'[r] = label /\ moves'[r] = amounts
      /\ \A q \in Requests \ {r} : pc'[q] = pc[q] /\ moves'[q] = moves[q]
  BY <1>1 DEF WalletInv, TypeOK
<1>4. Intended(r)'
  BY <1>1, <1>2, <1>3 DEF Intended
<1>5. QED
  BY <1>1, <1>3, <1>4, QuietLedger

\* A call that is refused, gives up or loses its connection intends nothing.
LEMMA StopLedger ==
    ASSUME WalletInv, LedgerInv, NEW r \in Requests, NEW label \in {"failed", "leaked"},
           pc' = [pc EXCEPT ![r] = label], UNCHANGED <<tables, kind, owner, bet>>,
           \A q \in Requests \ {r} : rows'[q] = rows[q] /\ moves'[q] = moves[q]
    PROVE  LedgerInv'
<1>1. pc'[r] = label /\ \A q \in Requests \ {r} : pc'[q] = pc[q]
  BY DEF WalletInv, TypeOK
<1>2. Intended(r)'
  BY <1>1 DEF Intended
<1>3. QED
  BY <1>1, <1>2, QuietLedger

LEMMA RefuseLedger ==
    ASSUME WalletInv, LedgerInv, NEW r \in Requests, Refuse(r)
    PROVE  LedgerInv'
BY StopLedger DEF Refuse, Goto, call

LEMMA RollbackLedger ==
    ASSUME WalletInv, LedgerInv, NEW r \in Requests, Rollback(r)
    PROVE  LedgerInv'
<1>1. /\ pc' = [pc EXCEPT ![r] = "failed"] /\ UNCHANGED <<tables, kind, owner, bet>>
      /\ rows' = [rows EXCEPT ![r] = <<>>] /\ moves' = [moves EXCEPT ![r] = <<>>]
  BY DEF Rollback, Goto, call
<1>2. \A q \in Requests \ {r} : rows'[q] = rows[q] /\ moves'[q] = moves[q]
  BY <1>1 DEF WalletInv, TypeOK
<1>3. QED
  BY <1>1, <1>2, StopLedger

LEMMA CallCashoutLedger ==
    ASSUME WalletInv, LedgerInv, NEW r \in Requests, CallCashout(r)
    PROVE  LedgerInv'
<1>1. PICK b \in Requests, a \in Amounts \ {0} :
        /\ owner' = [owner EXCEPT ![r] = owner[b]]
        /\ bet' = [bet EXCEPT ![r] = b]
        /\ moves' = [moves EXCEPT ![r] = <<a>>]
  BY DEF CallCashout
<1>2. /\ kind[r] = "cashout" /\ pc' = [pc EXCEPT ![r] = "claim"]
      /\ UNCHANGED <<tables, kind, rows>>
  BY DEF CallCashout, Goto
<1>3. /\ pc'[r] = "claim" /\ moves'[r] = <<a>>
      /\ \A q \in Requests \ {r} :
            pc'[q] = pc[q] /\ owner'[q] = owner[q] /\ bet'[q] = bet[q] /\ moves'[q] = moves[q]
  BY <1>1, <1>2 DEF WalletInv, TypeOK
<1>4. Intended(r)'
  BY <1>2, <1>3 DEF Intended
<1>5. QED
  BY <1>2, <1>3, <1>4, QuietLedger

LEMMA CallLedger ==
    ASSUME WalletAssumption, WalletInv, LedgerInv, NEW r \in Requests, Call(r)
    PROVE  LedgerInv'
<1>1. CASE CallMovement(r)
  <2>1. PICK a \in Amounts :
          IF a > 0 THEN Start(r, "select", <<a>>) \/ Start(r, "select", <<-a>>) ELSE Refuse(r)
    BY <1>1 DEF CallMovement
  <2>2. pc[r] = "new" /\ kind[r] = "movement"
    BY <1>1 DEF CallMovement
  <2>3. QED
    BY <2>1, <2>2, StartLedger, RefuseLedger
<1>2. CASE CallPlaceBet(r)
  <2>1. PICK s \in Stakes :
          \/ Start(r, "select", IF s.tax > 0 THEN <<-s.net, -s.tax>> ELSE <<-s.net>>)
          \/ Refuse(r)
    BY <1>2 DEF CallPlaceBet
  <2>2. pc[r] = "new" /\ kind[r] = "placeBet"
    BY <1>2 DEF CallPlaceBet
  <2>3. QED
    BY <2>1, <2>2, StartLedger, RefuseLedger
<1>3. CASE CallGameBet(r)
  <2>1. PICK a \in Amounts : Start(r, "debit", <<-a>>)
    BY <1>3 DEF CallGameBet
  <2>2. pc[r] = "new" /\ kind[r] = "gameBet"
    BY <1>3 DEF CallGameBet
  <2>3. QED
    BY <2>1, <2>2, StartLedger
<1>4. QED
  BY <1>1, <1>2, <1>3, CallCashoutLedger DEF Call

\* A statement that writes no audit row brings r closer to the same operation.
LEMMA AdvanceLedger ==
    ASSUME WalletInv, BetsInv, LedgerInv, NEW r \in Requests, NEW label,
           \/ pc[r] = "select" /\ label = "update"
           \/ pc[r] = "update" /\ label = "insert"
           \/ pc[r] = "debit" /\ label = "insertBet"
           \/ pc[r] = "insertBet" /\ label = "commit" /\ kind[r] = "placeBet"
           \/ pc[r] = "insertBet" /\ label = "record" /\ kind[r] # "placeBet"
           \/ pc[r] = "claim" /\ label = "credit"
           \/ pc[r] = "credit" /\ label = "record",
           pc' = [pc EXCEPT ![r] = label],
           UNCHANGED <<tables, call, moves, rows>>
    PROVE  LedgerInv'
<1>1. Entered(r) /\ Intended(r)
  BY DEF BetsInv, BetRequestInv, LedgerInv
<1>2. pc'[r] = label /\ \A q \in Requests \ {r} : pc'[q] = pc[q]
  BY DEF WalletInv, TypeOK
<1>3. wallet' = wallet /\ UNCHANGED <<kind, owner, bet>>
  BY DEF tables, call
<1>4. Intended(r)'
  BY <1>1, <1>2, <1>3 DEF Intended, Entered
<1>5. QED
  BY <1>2, <1>3, <1>4, QuietLedger

LEMMA AppendShort ==
    ASSUME NEW e, NEW f
    PROVE  Append(<<>>, e) = <<e>> /\ Append(<<e>>, f) = <<e, f>>
<1>1. Append(<<>>, e) = <<e>>
  OBVIOUS
<1>2. <<e, f>> = [i \in 1 .. 2 |-> IF i = 2 THEN f ELSE e]
  OBVIOUS
<1>3. Append(<<e>>, f) = [i \in 1 .. 2 |-> IF i = 2 THEN f ELSE e]
  OBVIOUS
<1>4. QED
  BY <1>1, <1>2, <1>3

LEMMA InsertTransactionLedger ==
    ASSUME WalletAssumption, WalletInv, BetsInv, LedgerInv, NEW r \in Requests,
           InsertTransaction(r)
    PROVE  LedgerInv'
<1> DEFINE base == wallet[owner[r]].balance
           x == Head(moves[r])
           e == L!Entry(seen[r].balance, x, r)
<1>1. /\ pc[r] = "insert" /\ Intended(r) /\ kind[r] \in {"movement", "placeBet"} /\ bet[r] = r
      /\ LockedBy(r) /\ Drafted(r)
  BY DEF WalletInv, RequestInv, BetsInv, BetRequestInv, Entered, LedgerInv, InsertTransaction
<1>2. /\ owner[r] \in Wallets /\ base \in Int /\ seen[r].balance \in Int
      /\ Chain(rows[r], base, seen[r].balance)
  BY <1>1 DEF LockedBy, Drafted, Holding, WalletInv, TypeOK
<1>3. /\ rows' = [rows EXCEPT ![r] = Append(rows[r], e)]
      /\ moves' = [moves EXCEPT ![r] = Tail(moves[r])]
      /\ pc' = [pc EXCEPT ![r] = IF Tail(moves[r]) # <<>> THEN "select"
                                 ELSE IF kind[r] = "placeBet" THEN "insertBet" ELSE "commit"]
      /\ UNCHANGED <<tables, kind, owner, bet>>
  BY DEF InsertTransaction, Goto, call
<1>4. /\ rows'[r] = Append(rows[r], e) /\ moves'[r] = Tail(moves[r])
      /\ pc'[r] = IF Tail(moves[r]) # <<>> THEN "select"
                  ELSE IF kind[r] = "placeBet" THEN "insertBet" ELSE "commit"
      /\ \A q \in Requests \ {r} : pc'[q] = pc[q] /\ rows'[q] = rows[q] /\ moves'[q] = moves[q]
      /\ wallet' = wallet /\ owner' = owner /\ kind' = kind
  BY <1>3 DEF WalletInv, TypeOK, tables
<1>5. rows[r] = <<>> => seen[r].balance = base
  BY <1>2 DEF Chain
<1>6. CASE kind[r] = "movement"
  <2>1. PICK a \in Amounts : moves[r] = <<a>> \/ moves[r] = <<-a>>
    BY <1>1, <1>6 DEF Intended
  <2>2. rows[r] = <<>> /\ seen[r].balance = base
    BY <1>1, <1>5, <1>6 DEF Intended
  <2>3. Tail(moves[r]) = <<>> /\ x \in {a, -a}
    <3>1. CASE moves[r] = <<a>>
      BY <3>1
    <3>2. CASE moves[r] = <<-a>>
      BY <3>2
    <3>3. QED
      BY <2>1, <3>1, <3>2
  <2>4. pc'[r] = "commit" /\ rows'[r] = <<L!Entry(base, x, r)>>
    <3> HIDE DEF x
    <3>1. pc'[r] = "commit" /\ rows'[r] = Append(<<>>, L!Entry(base, x, r))
      BY <1>4, <1>6, <2>2, <2>3
    <3>2. QED
      BY <3>1, AppendShort
  <2>5. Intended(r)'
    <3>1. \E c \in Amounts :
             \/ rows'[r] = <<L!Entry(wallet'[owner'[r]].balance, c, r)>>
             \/ rows'[r] = <<L!Entry(wallet'[owner'[r]].balance, -c, r)>>
      BY <1>4, <2>3, <2>4
    <3>2. pc'[r] = "commit" /\ kind'[r] = "movement"
      BY <1>4, <1>6, <2>4
    <3>3. QED
      BY <3>1, <3>2 DEF Intended, L!Entry, L!Abs
  <2>6. QED
    BY <1>3, <1>4, <2>5, QuietLedger
<1>7. CASE kind[r] = "placeBet"
  <2> SUFFICES Intended(r)'
    BY <1>3, <1>4, QuietLedger
  <2>1. PICK s \in Stakes :
          \/ /\ rows[r] = <<>>
             /\ moves[r] = IF s.tax > 0 THEN <<-s.net, -s.tax>> ELSE <<-s.net>>
          \/ s.tax > 0 /\ rows[r] = <<L!Entry(base, -s.net, r)>> /\ moves[r] = <<-s.tax>>
    BY <1>1, <1>7 DEF Intended
  <2>2. s.net \in Nat /\ s.tax \in Nat
    BY DEF WalletAssumption
  <2>3. CASE rows[r] = <<>> /\ s.tax = 0
    <3>1. moves[r] = <<-s.net>> /\ seen[r].balance = base
      BY <2>1, <2>2, <2>3, <1>5
    <3>2. Tail(moves[r]) = <<>> /\ x = -s.net
      BY <3>1
    <3>3. pc'[r] = "insertBet" /\ rows'[r] = <<L!Entry(base, -s.net, r)>>
      <4> HIDE DEF x
      <4>1. pc'[r] = "insertBet" /\ rows'[r] = Append(<<>>, L!Entry(base, -s.net, r))
        BY <1>4, <1>7, <2>3, <3>1, <3>2
      <4>2. QED
        BY <4>1, AppendShort
    <3>4. rows'[r] = L!StakeEntries(base, s, r)
      BY <2>3, <3>3 DEF L!StakeEntries
    <3>5. /\ \E c \in Stakes : rows'[r] = L!StakeEntries(wallet'[owner'[r]].balance, c, r)
          /\ pc'[r] = "insertBet" /\ kind'[r] = "placeBet"
      BY <1>4, <1>7, <3>3, <3>4
    <3>6. QED
      BY <3>5 DEF Intended, L!StakeEntries, L!Entry, L!Abs
  <2>4. CASE rows[r] = <<>> /\ s.tax > 0
    <3>1. moves[r] = <<-s.net, -s.tax>> /\ seen[r].balance = base
      BY <2>1, <2>4, <1>5
    <3>2. Tail(moves[r]) = <<-s.tax>> /\ Tail(moves[r]) # <<>> /\ x = -s.net
      BY <3>1
    <3>3. pc'[r] = "select" /\ rows'[r] = <<L!Entry(base, -s.net, r)>> /\ moves'[r] = <<-s.tax>>
      <4> HIDE DEF x
      <4>1. /\ pc'[r] = "select" /\ rows'[r] = Append(<<>>, L!Entry(base, -s.net, r))
            /\ moves'[r] = <<-s.tax>>
        BY <1>4, <2>4, <3>1, <3>2
      <4>2. QED
        BY <4>1, AppendShort
    <3>4. /\ \E c \in Stakes :
                /\ c.tax > 0 /\ moves'[r] = <<-c.tax>>
                /\ rows'[r] = <<L!Entry(wallet'[owner'[r]].balance, -c.net, r)>>
          /\ pc'[r] = "select" /\ kind'[r] = "placeBet"
      BY <1>4, <1>7, <2>4, <3>3
    <3>5. QED
      BY <3>4 DEF Intended, L!Entry, L!Abs
  <2>5. CASE rows[r] # <<>>
    <3>1. s.tax > 0 /\ rows[r] = <<L!Entry(base, -s.net, r)>> /\ moves[r] = <<-s.tax>>
      BY <2>1, <2>5
    <3>2. Tail(moves[r]) = <<>> /\ x = -s.tax
      BY <3>1
    <3>3. seen[r].balance = base - s.net
      <4>1. seen[r].balance = L!Entry(base, -s.net, r).after
        BY <1>2, <3>1 DEF Chain
      <4>2. L!Entry(base, -s.net, r).after = base + (-s.net)
        BY DEF L!Entry
      <4>3. QED
        BY <1>2, <2>2, <4>1, <4>2
    <3>4. /\ pc'[r] = "insertBet"
          /\ rows'[r] = <<L!Entry(base, -s.net, r), L!Entry(base - s.net, -s.tax, r)>>
      <4> HIDE DEF x
      <4>1. /\ pc'[r] = "insertBet"
            /\ rows'[r] = Append(<<L!Entry(base, -s.net, r)>>, L!Entry(base - s.net, -s.tax, r))
        BY <1>4, <1>7, <3>1, <3>2, <3>3
      <4>2. QED
        BY <4>1, AppendShort
    <3>5. rows'[r] = L!StakeEntries(base, s, r)
      BY <3>1, <3>4 DEF L!StakeEntries
    <3>6. /\ \E c \in Stakes : rows'[r] = L!StakeEntries(wallet'[owner'[r]].balance, c, r)
          /\ pc'[r] = "insertBet" /\ kind'[r] = "placeBet"
      BY <1>4, <1>7, <3>4, <3>5
    <3>7. QED
      BY <3>6 DEF Intended, L!StakeEntries, L!Entry, L!Abs
  <2>6. QED
    BY <2>2, <2>3, <2>4, <2>5
<1>8. QED
  BY <1>1, <1>6, <1>7

LEMMA RecordMovementLedger ==
    ASSUME WalletAssumption, WalletInv, BetsInv, LedgerInv, NEW r \in Requests,
           RecordMovement(r)
    PROVE  LedgerInv'
<1> DEFINE base == wallet[owner[r]].balance
           x == Head(moves[r])
           after == draft[owner[r]].balance
           e == L!Entry(after - x, x, bet[r])
<1>1. /\ pc[r] = "record" /\ Intended(r) /\ kind[r] \in {"gameBet", "cashout"}
      /\ kind[r] = "gameBet" => bet[r] = r
      /\ LockedBy(r) /\ Drafted(r)
  BY DEF WalletInv, RequestInv, BetsInv, BetRequestInv, Entered, LedgerInv, RecordMovement
<1>2. /\ owner[r] \in Wallets /\ base \in Int /\ after \in Int /\ x \in Int /\ after = base + x
  BY <1>1 DEF LockedBy, Drafted, Holding, InTransaction, WalletInv, TypeOK
<1>3. /\ rows' = [rows EXCEPT ![r] = <<e>>]
      /\ moves' = [moves EXCEPT ![r] = <<>>]
      /\ pc' = [pc EXCEPT ![r] = "commit"]
      /\ UNCHANGED <<tables, kind, owner, bet>>
  BY DEF RecordMovement, Goto, call
<1>4. /\ rows'[r] = <<e>> /\ pc'[r] = "commit"
      /\ \A q \in Requests \ {r} : pc'[q] = pc[q] /\ rows'[q] = rows[q] /\ moves'[q] = moves[q]
      /\ wallet' = wallet /\ owner' = owner /\ kind' = kind /\ bet' = bet
  BY <1>3 DEF WalletInv, TypeOK, tables
<1>5. PICK a \in Amounts : moves[r] = IF kind[r] = "gameBet" THEN <<-a>> ELSE <<a>>
  BY <1>1 DEF Intended
<1>6. x = IF kind[r] = "gameBet" THEN -a ELSE a
  BY <1>5
<1>7. after - x = base
  BY <1>2
<1>8. rows'[r] = <<L!Entry(base, x, bet[r])>>
  BY <1>4, <1>7
<1>9. Intended(r)'
  <2>1. CASE kind[r] = "gameBet"
    <3>1. /\ \E c \in Amounts : rows'[r] = <<L!Entry(wallet'[owner'[r]].balance, -c, r)>>
          /\ pc'[r] = "commit" /\ kind'[r] = "gameBet"
      BY <2>1, <1>1, <1>4, <1>6, <1>8
    <3>2. QED
      BY <3>1 DEF Intended, L!Entry, L!Abs
  <2>2. CASE kind[r] = "cashout"
    <3>1. /\ \E c \in Amounts : rows'[r] = <<L!Entry(wallet'[owner'[r]].balance, c, bet'[r])>>
          /\ pc'[r] = "commit" /\ kind'[r] = "cashout"
      BY <2>2, <1>4, <1>6, <1>8
    <3>2. QED
      BY <3>1 DEF Intended, L!Entry, L!Abs
  <2>3. QED
    BY <2>1, <2>2, <1>1
<1>10. QED
  BY <1>3, <1>4, <1>9, QuietLedger

\* Appending audit rows to a ledger debits the bets that the new rows debit.
LEMMA DebitsAppend ==
    ASSUME NEW s \in Seq(Row), NEW t \in Seq(Row), NEW b
    PROVE  Debits(s \o t, b) = Debits(s, b) \cup {Len(s) + i : i \in Debits(t, b)}
<1> DEFINE w == s \o t
<1>1. /\ w \in Seq(Row) /\ Len(w) = Len(s) + Len(t)
      /\ Len(s) \in Nat /\ Len(t) \in Nat
      /\ \A i \in 1 .. Len(s) : w[i] = s[i]
      /\ \A i \in 1 .. Len(t) : w[Len(s) + i] = t[i]
  OBVIOUS
<1> HIDE DEF w
<1>2. ASSUME NEW i \in Debits(w, b)
      PROVE  i \in Debits(s, b) \cup {Len(s) + j : j \in Debits(t, b)}
  <2>1. CASE i \in 1 .. Len(s)
    BY <2>1, <1>1, <1>2 DEF Debits
  <2>2. CASE i \notin 1 .. Len(s)
    <3>1. i - Len(s) \in 1 .. Len(t) /\ i = Len(s) + (i - Len(s))
      BY <2>2, <1>1, <1>2 DEF Debits
    <3>2. i - Len(s) \in Debits(t, b)
      BY <3>1, <1>1, <1>2 DEF Debits
    <3>3. QED
      BY <3>1, <3>2
  <2>3. QED
    BY <2>1, <2>2
<1>3. ASSUME NEW i \in Debits(s, b) PROVE i \in Debits(w, b)
  BY <1>1 DEF Debits
<1>4. ASSUME NEW i \in Debits(t, b) PROVE Len(s) + i \in Debits(w, b)
  BY <1>1 DEF Debits
<1>5. QED
  BY <1>2, <1>3, <1>4 DEF w

\* A stake leaves one debit and, if any tax is due, a second one behind it.
LEMMA StakeDebits ==
    ASSUME WalletAssumption, NEW s \in Stakes, NEW base \in Int, NEW b \in Requests,
           NEW t, t = L!StakeEntries(base, s, b)
    PROVE  /\ t \in Seq(Row) /\ t[1].amount = s.net
           /\ s.tax = 0 => Len(t) = 1 /\ Debits(t, b) = {1}
           /\ s.tax # 0 => Len(t) = 2 /\ Debits(t, b) = {1, 2} /\ t[2].amount = s.tax
<1> DEFINE e == L!Entry(base, -s.net, b)
           f == L!Entry(base - s.net, -s.tax, b)
<1>1. s.net \in Nat \ {0} /\ s.tax \in Nat
  BY DEF WalletAssumption
<1>2. e \in Row /\ e.ref = b /\ e.after < e.before /\ e.amount = s.net
  BY <1>1 DEF L!Entry, L!Abs, Row
<1>3. f \in Row /\ f.ref = b /\ f.amount = s.tax /\ (s.tax # 0 => f.after < f.before)
  BY <1>1 DEF L!Entry, L!Abs, Row
<1>4. t = IF s.tax = 0 THEN <<e>> ELSE <<e, f>>
  BY DEF L!StakeEntries
<1> HIDE DEF e, f
<1>5. CASE s.tax = 0
  BY <1>2, <1>4, <1>5 DEF Debits
<1>6. CASE s.tax # 0
  BY <1>2, <1>3, <1>4, <1>6 DEF Debits
<1>7. QED
  BY <1>5, <1>6

LEMMA CommitLedger ==
    ASSUME WalletAssumption, WalletInv, BetsInv, LedgerInv, NEW r \in Requests, Commit(r)
    PROVE  LedgerInv'
<1> DEFINE u == owner[r]
           base == wallet[u].balance
<1>1. /\ Entered(r) /\ BetMoved(r) /\ Recorded(r) /\ Intended(r) /\ pc[r] = "commit"
      /\ u \in Wallets /\ lock[u] = r /\ \A v \in Wallets : lock[v] = r <=> v = u
      /\ \A b \in Requests : BetLocked(b)
      /\ kind[r] \in AllKinds /\ base \in Int
  <2>1. pc[r] = "commit" /\ Intended(r)
    BY DEF Commit, LedgerInv
  <2>2. Entered(r) /\ BetMoved(r) /\ Recorded(r) /\ \A b \in Requests : BetLocked(b)
    BY DEF BetsInv, BetRequestInv
  <2>3. TypeOK /\ LockedBy(r)
    BY DEF WalletInv, RequestInv
  <2>4. u \in Wallets /\ lock[u] = r /\ \A v \in Wallets : lock[v] = r <=> v = u
    BY <2>1, <2>3 DEF LockedBy, Holding
  <2>5. kind[r] \in AllKinds /\ base \in Int
    BY <2>3, <2>4 DEF TypeOK, WalletAssumption
  <2>6. QED
    BY <2>1, <2>2, <2>4, <2>5
<1>2. /\ ledger' = [v \in Wallets |-> IF v = u THEN ledger[v] \o rows[r] ELSE ledger[v]]
      /\ bets' = [b \in Requests |-> IF betLock[b] = r THEN betDraft[b] ELSE bets[b]]
      /\ wallet' = [v \in Wallets |-> IF lock[v] = r THEN draft[v] ELSE wallet[v]]
      /\ rows' = [rows EXCEPT ![r] = <<>>]
      /\ pc' \in {[pc EXCEPT ![r] = "ok"], [pc EXCEPT ![r] = "failed"]}
      /\ UNCHANGED <<kind, owner, bet, moves>>
  BY DEF Commit, Goto, call
<1>3. /\ pc'[r] \in {"ok", "failed"}
      /\ \A q \in Requests \ {r} : pc'[q] = pc[q] /\ rows'[q] = rows[q]
      /\ rows[r] \in Seq(Row) /\ \A v \in Wallets : ledger[v] \in Seq(Row)
  BY <1>2 DEF WalletInv, TypeOK
<1>4. ASSUME NEW q \in Requests PROVE Intended(q)'
  <2>1. CASE q = r
    BY <2>1, <1>3 DEF Intended
  <2>2. CASE q # r
    <3>1. \A v \in Wallets : lock[v] = q => wallet'[v] = wallet[v]
      BY <2>2, <1>2
    <3>2. QED
      BY <2>2, <3>1, <1>2, <1>3, OthersIntend DEF LedgerInv
  <2>3. QED
    BY <2>1, <2>2
<1>5. BetBacked'
  <2> SUFFICES ASSUME NEW b \in Requests, owner'[b] \in Wallets, kind'[b] \in {"placeBet", "gameBet"}
               PROVE  Backed(b)'
    BY DEF BetBacked
  <2> DEFINE s == ledger[owner[b]]
             t == rows[r]
             w == ledger'[owner'[b]]
  <2>1. /\ owner' = owner /\ owner[b] \in Wallets /\ kind[b] \in {"placeBet", "gameBet"}
        /\ s \in Seq(Row) /\ t \in Seq(Row) /\ Backed(b)
        /\ bets'[b] = IF betLock[b] = r THEN betDraft[b] ELSE bets[b]
        /\ w = IF owner[b] = u THEN s \o t ELSE s
    BY <1>2, <1>3 DEF LedgerInv, BetBacked
  <2> HIDE DEF s, t, w
  <2>2. Debits(s \o t, b) = Debits(s, b) \cup {Len(s) + i : i \in Debits(t, b)}
    BY <2>1, DebitsAppend
  <2>3. Len(s) \in Nat
    BY <2>1
  <2>4. \A i \in 1 .. Len(s) : (s \o t)[i] = s[i]
    BY <2>1, ConcatLeft
  <2>5. CASE bet[r] = b /\ kind[r] # "cashout"
    <3>1. b = r /\ owner[b] = u /\ HoldsBet(r)
      BY <2>1, <2>5, <1>1 DEF Entered, HoldsBet
    <3>2. betLock[b] = r /\ bets[b] = "none" /\ Debits(s, b) = {} /\ w = s \o t
      BY <2>1, <2>5, <3>1, <1>1 DEF BetMoved, Backed, s
    <3>3. CASE kind[r] = "placeBet"
      <4>1. PICK z \in Stakes : t = L!StakeEntries(base, z, b)
        BY <3>1, <3>3, <1>1 DEF Intended, t
      <4>2. z.tax \in Nat /\ bets'[b] = "PENDING"
        BY <2>1, <3>1, <3>2, <3>3, <1>1 DEF BetMoved, WalletAssumption
      <4>3. /\ t[1].amount = z.net
            /\ z.tax = 0 => Len(t) = 1 /\ Debits(t, b) = {1}
            /\ z.tax # 0 => Len(t) = 2 /\ Debits(t, b) = {1, 2} /\ t[2].amount = z.tax
        <5> HIDE DEF base
        <5>1. QED
          BY <4>1, <1>1, StakeDebits
      <4> DEFINE n == Len(s) + 1
      <4>4. /\ z.tax = 0 => Debits(w, b) = {n} /\ w[n].amount = z.net
            /\ z.tax # 0 => /\ Debits(w, b) = {n, n + 1}
                            /\ w[n].amount = z.net /\ w[n + 1].amount = z.tax
        <5>1. CASE z.tax = 0
          <6>1. Debits(w, b) = {n}
            BY <5>1, <4>3, <3>2, <2>2
          <6>2. w[n] = t[1]
            <7>1. Len(t) = 1
              BY <5>1, <4>3
            <7>2. 1 \in 1 .. Len(t)
              BY <7>1
            <7>3. (s \o t)[Len(s) + 1] = t[1]
              BY <7>2, <2>1, ConcatRight
            <7>4. QED
              BY <7>3, <3>2
          <6>3. QED
            BY <5>1, <6>1, <6>2, <4>3
        <5>2. CASE z.tax # 0
          <6>1. {Len(s) + i : i \in {1, 2}} = {n, n + 1}
            BY <2>3
          <6>2. Debits(w, b) = {n, n + 1}
            BY <5>2, <6>1, <4>3, <3>2, <2>2
          <6>3. w[n] = t[1] /\ w[n + 1] = t[2]
            <7>1. Len(t) = 2
              BY <5>2, <4>3
            <7>2. 1 \in 1 .. Len(t) /\ 2 \in 1 .. Len(t)
              BY <7>1
            <7>3. (s \o t)[Len(s) + 1] = t[1] /\ (s \o t)[Len(s) + 2] = t[2]
              BY <7>2, <2>1, ConcatRight
            <7>4. Len(s) + 2 = n + 1
              BY <2>3
            <7>5. QED
              BY <7>3, <7>4, <3>2
          <6>4. QED
            BY <5>2, <6>2, <6>3, <4>3
        <5>3. QED
          BY <5>1, <5>2
      <4>5. \E c \in Stakes, i \in Debits(w, b) :
               /\ w[i].amount = c.net
               /\ IF c.tax = 0
                  THEN Debits(w, b) = {i}
                  ELSE Debits(w, b) = {i, i + 1} /\ w[i + 1].amount = c.tax
        <5> HIDE DEF n
        <5>1. n \in Debits(w, b)
          BY <4>4
        <5>2. QED
          BY <5>1, <4>4
      <4>6. Debits(w, b) # {}
        BY <4>5
      <4>7. QED
        BY <4>2, <4>5, <4>6 DEF Backed, Debits, w
    <3>4. CASE kind[r] = "gameBet"
      <4>1. PICK a \in Amounts : t = <<L!Entry(base, -a, b)>>
        BY <3>1, <3>4, <1>1 DEF Intended, t
      <4>2. bets'[b] = "ACTIVE"
        BY <2>1, <3>1, <3>2, <3>4, <1>1 DEF BetMoved
      <4>3. Len(t) = 1
        BY <4>1
      <4>4. t[1].ref = b /\ t[1].after < t[1].before
        <5>1. 1 \in 1 .. Len(rows[r])
          BY <4>3 DEF t
        <5>2. QED
          BY <5>1, <3>1, <3>4, <1>1, <2>5 DEF Recorded, t
      <4>5. Debits(t, b) = {1}
        BY <4>3, <4>4 DEF Debits
      <4>6. Debits(w, b) = {Len(s) + 1}
        BY <4>5, <3>2, <2>2
      <4>7. QED
        BY <4>2, <4>6 DEF Backed, Debits, w
    <3>5. QED
      BY <3>1, <3>3, <3>4, <2>1
  <2>6. CASE ~(bet[r] = b /\ kind[r] # "cashout")
    <3>1. Debits(t, b) = {}
      <4>1. \A i \in 1 .. Len(t) :
              /\ t[i] \in Row /\ t[i].ref = bet[r]
              /\ kind[r] = "cashout" => t[i].after > t[i].before
        BY <2>1, <1>1 DEF Recorded, t
      <4>2. QED
        BY <4>1, <2>6 DEF Debits, Row
    <3>2. /\ Debits(w, b) = Debits(s, b)
          /\ \A i \in 1 .. Len(s) : w[i] = s[i]
      BY <3>1, <2>1, <2>2, <2>4
    <3>3. bets'[b] = bets[b] \/ (bets[b] = "ACTIVE" /\ bets'[b] = "CASHED_OUT")
      <4>1. CASE betLock[b] = r
        <5>1. bet[r] = b /\ HoldsBet(r)
          BY <4>1, <1>1 DEF BetLocked, WalletAssumption
        <5>2. kind[r] = "cashout"
          BY <5>1, <2>6
        <5>3. QED
          BY <4>1, <5>1, <5>2, <2>1, <1>1 DEF BetMoved
      <4>2. CASE betLock[b] # r
        BY <4>2, <2>1
      <4>3. QED
        BY <4>1, <4>2
    <3>4. /\ bets[b] = "none" <=> Debits(s, b) = {}
          /\ bets[b] \in {"ACTIVE", "CASHED_OUT"} => \A i, j \in Debits(s, b) : i = j
          /\ bets[b] = "PENDING" =>
                \E c \in Stakes, i \in Debits(s, b) :
                    /\ s[i].amount = c.net
                    /\ IF c.tax = 0
                       THEN Debits(s, b) = {i}
                       ELSE Debits(s, b) = {i, i + 1} /\ s[i + 1].amount = c.tax
      BY <2>1 DEF Backed, s
    <3>5. /\ bets'[b] = "none" <=> Debits(w, b) = {}
          /\ bets'[b] \in {"ACTIVE", "CASHED_OUT"} => \A i, j \in Debits(w, b) : i = j
      BY <3>2, <3>3, <3>4
    <3>6. ASSUME bets'[b] = "PENDING"
          PROVE  \E c \in Stakes, i \in Debits(w, b) :
                    /\ w[i].amount = c.net
                    /\ IF c.tax = 0
                       THEN Debits(w, b) = {i}
                       ELSE Debits(w, b) = {i, i + 1} /\ w[i + 1].amount = c.tax
      <4>1. PICK c \in Stakes, i \in Debits(s, b) :
                    /\ s[i].amount = c.net
                    /\ IF c.tax = 0
                       THEN Debits(s, b) = {i}
                       ELSE Debits(s, b) = {i, i + 1} /\ s[i + 1].amount = c.tax
        BY <3>3, <3>4, <3>6
      <4>2. \A j \in Debits(s, b) : w[j] = s[j]
        BY <3>2 DEF Debits
      <4>3. w[i].amount = c.net /\ (c.tax # 0 => w[i + 1].amount = c.tax)
        BY <4>1, <4>2
      <4>4. QED
        BY <4>1, <4>3, <3>2
    <3>7. QED
      BY <3>5, <3>6 DEF Backed, Debits, w
  <2>7. QED
    BY <2>5, <2>6
<1>6. QED
  BY <1>4, <1>5 DEF LedgerInv

LEMMA InitLedger == ASSUME Init PROVE LedgerInv
<1>1. BetBacked
  BY DEF Init, BetBacked, Backed, Debits
<1>2. \A r \in Requests : Intended(r)
  BY DEF Init, Intended
<1>3. QED
  BY <1>1, <1>2 DEF LedgerInv

\* What a statement of ApplyTx and of the crash game does, other than a commit.
LEMMA StatementLedger ==
    ASSUME WalletAssumption, WalletInv, BetsInv, LedgerInv, NEW r \in Requests, Statement(r)
    PROVE  LedgerInv'
<1>1. CASE Rollback(r)
  BY <1>1, RollbackLedger
<1>2. CASE SelectForUpdate(r) /\ ~Rollback(r)
  <2>1. /\ pc[r] = "select" /\ pc' = [pc EXCEPT ![r] = "update"]
        /\ UNCHANGED <<tables, call, moves, rows>>
    BY <1>2 DEF SelectForUpdate, Goto
  <2>2. QED
    BY <2>1, AdvanceLedger
<1>3. CASE UpdateWallet(r) /\ ~Rollback(r)
  <2>1. /\ pc[r] = "update" /\ pc' = [pc EXCEPT ![r] = "insert"]
        /\ UNCHANGED <<tables, call, moves, rows>>
    BY <1>3 DEF UpdateWallet, Goto
  <2>2. QED
    BY <2>1, AdvanceLedger
<1>4. CASE DebitStake(r) /\ ~Rollback(r)
  <2>1. /\ pc[r] = "debit" /\ pc' = [pc EXCEPT ![r] = "insertBet"]
        /\ UNCHANGED <<tables, call, moves, rows>>
    BY <1>4 DEF DebitStake, Goto
  <2>2. QED
    BY <2>1, AdvanceLedger
<1>5. CASE InsertBet(r)
  <2>1. /\ pc[r] = "insertBet"
        /\ pc' = [pc EXCEPT ![r] = IF kind[r] = "placeBet" THEN "commit" ELSE "record"]
        /\ UNCHANGED <<tables, call, moves, rows>>
    BY <1>5 DEF InsertBet, Goto
  <2>2. QED
    BY <2>1, AdvanceLedger
<1>6. CASE ClaimBet(r)
  <2>1. /\ pc[r] = "claim"
        /\ pc' \in {[pc EXCEPT ![r] = "leaked"], [pc EXCEPT ![r] = "credit"]}
        /\ UNCHANGED <<tables, call, moves, rows>>
    BY <1>6 DEF ClaimBet, Goto
  <2>2. UNCHANGED <<tables, kind, owner, bet>>
    BY <2>1 DEF call
  <2>3. QED
    BY <2>1, <2>2, AdvanceLedger, StopLedger
<1>7. CASE CreditPayout(r)
  <2>1. /\ pc[r] = "credit" /\ pc' = [pc EXCEPT ![r] = "record"]
        /\ UNCHANGED <<tables, call, moves, rows>>
    BY <1>7 DEF CreditPayout, Goto
  <2>2. QED
    BY <2>1, AdvanceLedger
<1>8. QED
  BY <1>1, <1>2, <1>3, <1>4, <1>5, <1>6, <1>7, InsertTransactionLedger, RecordMovementLedger,
     CommitLedger DEF Statement

LEMMA NextLedger ==
    ASSUME WalletAssumption, WalletInv, BetsInv, LedgerInv, [Next]_vars
    PROVE  LedgerInv'
<1>1. CASE UNCHANGED vars
  <2>1. UNCHANGED <<wallet, ledger, bets, pc, owner, bet, kind, moves, rows>>
    BY <1>1 DEF vars, tables, call
  <2>2. ASSUME NEW q \in Requests PROVE Intended(q)'
    <3>1. Intended(q)
      BY DEF LedgerInv
    <3>2. /\ pc'[q] = pc[q] /\ owner'[q] = owner[q] /\ bet'[q] = bet[q] /\ kind'[q] = kind[q]
          /\ moves'[q] = moves[q] /\ rows'[q] = rows[q]
          /\ \A u \in Wallets : lock[u] = q => wallet'[u] = wallet[u]
      BY <2>1
    <3>3. QED
      BY <3>1, <3>2, OthersIntend
  <2>3. BetBacked'
    <3> SUFFICES ASSUME NEW b \in Requests, owner'[b] \in Wallets,
                        kind'[b] \in {"placeBet", "gameBet"}
                 PROVE  Backed(b)'
      BY DEF BetBacked
    <3>1. owner' = owner /\ kind' = kind /\ ledger' = ledger /\ bets' = bets
      BY <2>1
    <3>2. Backed(b)
      BY <3>1 DEF LedgerInv, BetBacked
    <3>3. QED
      BY <3>1, <3>2 DEF Backed, Debits
  <2>4. QED
    BY <2>2, <2>3 DEF LedgerInv
<1>2. CASE Next
  <2>1. PICK r \in Requests : Call(r) \/ Statement(r) \/ Abort(r)
    BY <1>2 DEF Next
  <2>2. QED
    BY <2>1, CallLedger, StatementLedger, RollbackLedger DEF Abort
<1>3. QED
  BY <1>1, <1>2

\* A commit that moves a balance by total is a Post of Ledger.
LEMMA CommitPosts ==
    ASSUME WalletAssumption, WalletInv, NEW r \in Requests, Commit(r),
           NEW u, u = owner[r], NEW entries, entries = rows[r],
           NEW base, base = wallet[u].balance,
           NEW total \in Int, draft[u].balance = base + total
    PROVE  L!Post(u, total, entries)
<1>1. /\ LockedBy(r) /\ Drafted(r) /\ pc[r] = "commit" /\ TypeOK /\ AuditChain
  BY DEF WalletInv, RequestInv, Commit
<1>2. u \in Wallets /\ \A v \in Wallets : lock[v] = r <=> v = u
  BY <1>1 DEF LockedBy, Holding
<1>3. /\ wallet[u].balance \in Int /\ draft[u].balance \in Int
      /\ ledger[u] \in Seq(Row) /\ rows[r] \in Seq(Row)
      /\ Opening \in Int /\ Opening >= 0
  BY <1>1, <1>2 DEF TypeOK, WalletAssumption
<1>4. /\ Chain(ledger[u], Opening, wallet[u].balance)
      /\ Chain(rows[r], wallet[u].balance, draft[u].balance)
  BY <1>1, <1>2 DEF AuditChain, Drafted
<1>5. wallet[u].balance >= 0
  BY <1>3, <1>4, ChainNonNegative
<1>6. draft[u].balance >= 0
  BY <1>3, <1>4, <1>5, ChainNonNegative
<1>7. /\ wallet' = [v \in Wallets |-> IF lock[v] = r THEN draft[v] ELSE wallet[v]]
      /\ ledger' = [v \in Wallets |-> IF v = u THEN ledger[v] \o rows[r] ELSE ledger[v]]
  BY DEF Commit
<1>8. ledger' = [ledger EXCEPT ![u] = ledger[u] \o entries]
  BY <1>1, <1>7 DEF TypeOK
<1>9. [v \in Wallets |-> wallet'[v].balance]
        = [[v \in Wallets |-> wallet[v].balance] EXCEPT ![u] = base + total]
  BY <1>2, <1>7
<1>10. [v \in Wallets |-> wallet[v].balance][u] = base
  BY <1>2
<1>11. QED
  BY <1>6, <1>8, <1>9, <1>10 DEF L!Post

\* Operations of Ledger, from the row that a commit leaves behind.
LEMMA PostedEntry ==
    ASSUME WalletAssumption, WalletInv, NEW r \in Requests, Commit(r),
           NEW u, u = owner[r], NEW base \in Int, base = wallet[u].balance,
           NEW x \in Int, NEW ref, rows[r] = <<L!Entry(base, x, ref)>>
    PROVE  L!Post(u, x, <<L!Entry(base, x, ref)>>)
<1>1. Chain(rows[r], base, draft[u].balance)
  BY DEF WalletInv, RequestInv, Drafted, Commit
<1>2. draft[u].balance = L!Entry(base, x, ref).after
  BY <1>1 DEF Chain
<1>3. draft[u].balance = base + x
  BY <1>2 DEF L!Entry
<1>4. QED
  BY <1>3, CommitPosts

LEMMA CommitIsOperation ==
    ASSUME WalletAssumption, WalletInv, BetsInv, LedgerInv, NEW r \in Requests, Commit(r)
    PROVE  L!Next
<1>1. /\ Entered(r) /\ BetMoved(r) /\ Intended(r) /\ pc[r] = "commit"
      /\ LockedBy(r) /\ Drafted(r) /\ TypeOK
      /\ \A c \in Requests : BetLocked(c)
      /\ kind[r] \in AllKinds /\ owner[r] \in Wallets
  BY DEF WalletInv, RequestInv, LockedBy, Holding, BetsInv, BetRequestInv, LedgerInv,
     TypeOK, WalletAssumption, Commit
<1>2. PICK u \in Wallets : u = owner[r]
  BY <1>1
<1>3. PICK base \in Int : base = wallet[u].balance
  BY <1>1 DEF TypeOK
<1>4. PICK b \in Requests : b = bet[r]
  BY <1>1 DEF TypeOK
<1>5. [v \in Wallets |-> wallet[v].balance][u] = base /\ Chain(rows[r], base, draft[u].balance)
  BY <1>1, <1>2, <1>3 DEF Drafted
<1>6. /\ bets' = [c \in Requests |-> IF betLock[c] = r THEN betDraft[c] ELSE bets[c]]
      /\ bets \in [Requests -> BetStatus]
  BY <1>1 DEF TypeOK, Commit
<1>7. \A c \in Requests : betLock[c] = r => c = b /\ HoldsBet(r)
  BY <1>1, <1>4 DEF BetLocked, WalletAssumption
<1>8. CASE kind[r] = "movement"
  <2>1. PICK a \in Amounts :
          rows[r] = <<L!Entry(base, a, r)>> \/ rows[r] = <<L!Entry(base, -a, r)>>
    BY <1>1, <1>2, <1>3, <1>8 DEF Intended
  <2>2. bets' = bets
    BY <1>1, <1>6, <1>7, <1>8 DEF HoldsBet
  <2>3. PICK x \in {a, -a} : rows[r] = <<L!Entry(base, x, r)>>
    BY <2>1
  <2>4. L!Post(u, x, <<L!Entry(base, x, r)>>)
    BY <2>3, <1>2, <1>3, PostedEntry DEF WalletAssumption
  <2>5. L!Move(r, u, x)
    BY <2>2, <2>4, <1>5 DEF L!Move, L!Post
  <2>6. QED
    BY <2>5 DEF L!Next, L!Move, L!Post
<1>9. CASE kind[r] = "cashout"
  <2>1. PICK a \in Amounts : rows[r] = <<L!Entry(base, a, b)>>
    BY <1>1, <1>2, <1>3, <1>4, <1>9 DEF Intended
  <2>2. bets[b] = "ACTIVE" /\ bets' = [bets EXCEPT ![b] = "CASHED_OUT"]
    <3>1. betLock[b] = r /\ bets[b] = "ACTIVE" /\ betDraft[b] = "CASHED_OUT"
      BY <1>1, <1>4, <1>9 DEF BetMoved, HoldsBet
    <3>2. \A c \in Requests : bets'[c] = IF c = b THEN "CASHED_OUT" ELSE bets[c]
      BY <3>1, <1>6, <1>7
    <3>3. bets' = [c \in Requests |-> IF c = b THEN "CASHED_OUT" ELSE bets[c]]
      BY <3>2, <1>6
    <3>4. QED
      BY <3>1, <3>3, <1>6
  <2>3. L!Post(u, a, <<L!Entry(base, a, b)>>)
    BY <2>1, <1>2, <1>3, PostedEntry DEF WalletAssumption
  <2>4. L!CashOut(b, u, a)
    BY <2>2, <2>3, <1>5 DEF L!CashOut, L!Post
  <2>5. QED
    BY <2>4 DEF L!Next
<1>10. CASE kind[r] = "gameBet"
  <2>1. PICK a \in Amounts : rows[r] = <<L!Entry(base, -a, r)>>
    BY <1>1, <1>2, <1>3, <1>10 DEF Intended
  <2>2. bets[r] = "none" /\ bets' = [bets EXCEPT ![r] = "ACTIVE"]
    BY <1>1, <1>4, <1>6, <1>7, <1>10 DEF BetMoved, HoldsBet, Entered
  <2>3. PICK x \in Int : x = -a
    BY DEF WalletAssumption
  <2>4. PICK s : s = [net |-> a, tax |-> 0]
    OBVIOUS
  <2>5. s.net = a /\ s.tax = 0 /\ -(s.net + s.tax) = x /\ -s.net = x
    BY <2>3, <2>4 DEF WalletAssumption
  <2>6. L!Post(u, x, <<L!Entry(base, x, r)>>)
    BY <2>1, <2>3, <1>2, <1>3, PostedEntry
  <2>7. L!PlaceBet(r, u, s, "ACTIVE")
    BY <2>2, <2>5, <2>6, <1>5 DEF L!PlaceBet, L!StakeEntries, L!Post
  <2>8. QED
    BY <2>4, <2>7 DEF L!Next
<1>11. CASE kind[r] = "placeBet"
  <2>1. PICK s \in Stakes : rows[r] = L!StakeEntries(base, s, r)
    BY <1>1, <1>2, <1>3, <1>11 DEF Intended
  <2>2. s.net \in Nat /\ s.tax \in Nat
    BY DEF WalletAssumption
  <2>3. bets[r] = "none" /\ bets' = [bets EXCEPT ![r] = "PENDING"]
    <3>1. b = r /\ betLock[r] = r /\ bets[r] = "none" /\ betDraft[r] = "PENDING"
      BY <1>1, <1>4, <1>11 DEF BetMoved, HoldsBet, Entered
    <3>2. \A c \in Requests : bets'[c] = IF c = r THEN "PENDING" ELSE bets[c]
      BY <3>1, <1>6, <1>7
    <3>3. bets' = [c \in Requests |-> IF c = r THEN "PENDING" ELSE bets[c]]
      BY <3>2, <1>6
    <3>4. QED
      BY <3>1, <3>3, <1>6
  <2>4. PICK total \in Int : total = -(s.net + s.tax)
    BY <2>2
  <2>5. draft[u].balance = base + total
    <3>1. L!Entry(base, -s.net, r).after = base + (-s.net)
      BY DEF L!Entry
    <3>2. L!Entry(base - s.net, -s.tax, r).after = (base - s.net) + (-s.tax)
      BY DEF L!Entry
    <3>3. CASE s.tax = 0
      <4>1. draft[u].balance = L!Entry(base, -s.net, r).after
        BY <2>1, <3>3, <1>5 DEF L!StakeEntries, Chain
      <4>2. QED
        BY <4>1, <3>1, <3>3, <2>2, <2>4
    <3>4. CASE s.tax # 0
      <4>1. draft[u].balance = L!Entry(base - s.net, -s.tax, r).after
        BY <2>1, <3>4, <1>5 DEF L!StakeEntries, Chain
      <4>2. QED
        BY <4>1, <3>2, <2>2, <2>4
    <3>5. QED
      BY <3>3, <3>4
  <2>6. PICK entries : entries = L!StakeEntries(base, s, r)
    OBVIOUS
  <2>7. L!Post(u, total, entries)
    BY <2>1, <2>5, <2>6, <1>2, <1>3, CommitPosts
  <2>8. L!PlaceBet(r, u, s, "PENDING")
    BY <2>3, <2>4, <2>6, <2>7, <1>5 DEF L!PlaceBet, L!Post
  <2>9. QED
    BY <2>8 DEF L!Next
<1>12. QED
  BY <1>1, <1>8, <1>9, <1>10, <1>11 DEF AllKinds

\* Every step of the wallet layer is an operation of Ledger or changes no table.
LEMMA StepIsOperation ==
    ASSUME WalletAssumption, WalletInv, BetsInv, LedgerInv, [Next]_vars
    PROVE  [L!Next]_L!vars
<1>1. UNCHANGED tables => UNCHANGED L!vars
  BY DEF tables, L!vars
<1>2. CASE UNCHANGED vars
  BY <1>1, <1>2 DEF vars
<1>3. CASE Next
  <2>1. PICK r \in Requests : Call(r) \/ Statement(r) \/ Abort(r)
    BY <1>3 DEF Next
  <2>2. CASE Commit(r)
    BY <2>2, CommitIsOperation
  <2>3. CASE Call(r)
    <3>1. UNCHANGED tables
      BY <2>3 DEF Call, CallMovement, CallPlaceBet, CallGameBet, CallCashout, Start, Refuse
    <3>2. QED
      BY <3>1, <1>1
  <2>4. CASE Abort(r)
    <3>1. UNCHANGED tables
      BY <2>4 DEF Abort, Rollback
    <3>2. QED
      BY <3>1, <1>1
  <2>5. CASE Statement(r) /\ ~Commit(r)
    <3>1. UNCHANGED tables
      BY <2>5 DEF Statement, SelectForUpdate, UpdateWallet, InsertTransaction, DebitStake,
         InsertBet, ClaimBet, CreditPayout, RecordMovement, Rollback
    <3>2. QED
      BY <3>1, <1>1
  <2>6. QED
    BY <2>1, <2>2, <2>3, <2>4, <2>5
<1>4. QED
  BY <1>2, <1>3

-----------------------------------------------------------------------------
(* Theorems *)

\* The invariant that carries the others: who may hold a row lock, and how far each
\* open transaction has moved the balance it will commit.
THEOREM WalletInvariant == Spec => []WalletInv
<1>1. Init => WalletInv
  BY InitInv, WalletAssumption
<1>2. WalletInv /\ [Next]_vars => WalletInv'
  BY NextInv, WalletAssumption
<1>3. QED
  BY <1>1, <1>2, PTL DEF Spec

\* Every reachable state of the wallet tables and of the calls is well typed.
THEOREM TypeCorrect == Spec => []TypeOK
<1>1. WalletInv => TypeOK
  BY DEF WalletInv
<1>2. QED
  BY <1>1, WalletInvariant, PTL

\* For any number of users, calls, amounts and stakes, every balance is explained by
\* its audit rows and no wallet is overdrawn, although wallet.Service and the crash
\* game's repository write the same rows with different statements.
THEOREM AuditTrailIsComplete == Spec => []AuditChain
<1>1. WalletInv => AuditChain
  BY DEF WalletInv
<1>2. QED
  BY <1>1, WalletInvariant, PTL

\* ApplyTx's version guard never fires: the row lock alone keeps the snapshot fresh.
THEOREM NoOptimisticConflict == Spec => []SnapshotFresh
<1>1. WalletInv => SnapshotFresh
  BY DEF WalletInv, RequestInv, Drafted, SnapshotFresh
<1>2. QED
  BY <1>1, WalletInvariant, PTL

\* Each bet row belongs to the call that names it, and each open transaction knows
\* what the bet was before it.
THEOREM BetsInvariant == Spec => []BetsInv
<1>1. Init => BetsInv
  BY InitBets, WalletAssumption
<1>2. WalletInv /\ BetsInv /\ [Next]_vars => BetsInv'
  BY NextBets, WalletAssumption
<1>3. QED
  BY <1>1, <1>2, WalletInvariant, PTL DEF Spec

\* However many ticks and requests race to cash a crash game bet out, it is paid at
\* most once, and the payout and the status CASHED_OUT are committed together
\* (AtomicAutoCashoutWithCredit).
THEOREM BetsArePaidOnce == Spec => []PaidOnce
<1>1. BetsInv => PaidOnce
  BY DEF BetsInv
<1>2. QED
  BY <1>1, BetsInvariant, PTL

\* A nil error from the wallet layer is never wrong: the movement or the bet row it
\* reports is in the tables (Service.Apply, PlaceBetUseCase.Execute, the crash game's
\* repository).
THEOREM SuccessIsCommitted == Spec => []OkMeansDone
<1>1. BetsInv => OkMeansDone
  BY DEF BetsInv
<1>2. QED
  BY <1>1, BetsInvariant, PTL

\* Every open transaction is on its way to one operation of Ledger, and every committed
\* bet has the stake that its operation took.
THEOREM LedgerInvariant == Spec => []LedgerInv
<1>1. Init => LedgerInv
  BY InitLedger
<1>2. WalletInv /\ BetsInv /\ LedgerInv /\ [Next]_vars => LedgerInv'
  BY NextLedger, WalletAssumption
<1>3. QED
  BY <1>1, <1>2, WalletInvariant, BetsInvariant, PTL DEF Spec

\* No player is debited without a bet row, and no bet row stands without its stake and
\* its tax, whatever fails between the statements of PlaceBetUseCase.Execute and of the
\* crash game's CreateBetWithWalletUpdate.
THEOREM BetsAreBacked == Spec => []BetBacked
<1>1. LedgerInv => BetBacked
  BY DEF LedgerInv
<1>2. QED
  BY <1>1, LedgerInvariant, PTL

\* The wallet layer, with its statements, locks, rollbacks and lost answers, implements
\* the atomic operations of module Ledger, for any users, calls, amounts and stakes.
THEOREM WalletImplementsLedger == Spec => RefinesLedger
<1>1. Init => L!Init
  BY DEF Init, L!Init
<1>2. WalletInv /\ BetsInv /\ LedgerInv /\ [Next]_vars => [L!Next]_L!vars
  BY StepIsOperation, WalletAssumption
<1>3. QED
  BY <1>1, <1>2, WalletInvariant, BetsInvariant, LedgerInvariant, PTL
     DEF Spec, RefinesLedger, L!Spec

=============================================================================
