# Betting platform: specifications, model checks and proofs

TLA+ for the Go betting platform in `src/`: the wallet layer every stake and payout
goes through, the crash game engine, M-Pesa deposits, edits and settlement of sport
bets, jackpots, the regulator's betting limits, the token bucket of the odds feeds and
the id generators. The modules are written from the code; documents and comments only
supply the claims that the violation runs compare with it.

    tlc -workers 2 -config MCWallet.cfg MCWallet      # any run of PROJECT.json
    tlapm WalletProofs.tla                            # about five minutes, the others about one

## 1. The system

Five service binaries (`cmd/*`) share PostgreSQL, Redis and NATS. Most state is in
tables; the concurrency that matters is between HTTP handlers that run SQL
transactions on the same rows, and inside the games service between goroutines.

| component | state | operations | interacts with |
|---|---|---|---|
| wallet service `usecase/wallet` | `wallets` (balance, version), `transactions` | Debit, Credit, Apply, ApplyTx | called by bet placement, M-Pesa callbacks, jackpots, bet edits |
| bet placement `usecase/place_bet.go` | `bets` | Execute: validate, tax, debit, insert, commit | tax engine, wallet service in one transaction |
| crash game engine `usecase/games` | currentGame, roundNumber, gameCancel, three channels; `games`, `game_bets` | StartGame, PlaceBet, Cashout; manager `Run`, `gameLoop` per round, `tick`, crash, settlement | game and bet repositories, wallet rows by SQL of its own |
| provably fair, tax, odds `usecase` | none | crash point, stake and payout tax, margin | called by the above |
| M-Pesa deposits `tenant/ke`, `infrastructure/http` | `mpesa_deposits` | STK push, callback, status updates | Safaricom, wallet service Credit |
| sport bets `sports/edit`, postgres | `sport_bets` | EditBet, MarkAsWon/Lost/Void | wallet service Credit, Debit |
| jackpots `jackpots` | the jackpot's row, tickets | CreateJackpot, PurchaseTicket, DrawJackpot | wallet service Credit |
| BCLB compliance `compliance/bclb` | self-exclusions, stakes (in repositories) | ValidateBetPlacement, GetUserComplianceStatus | user, bet and cooling-off repositories |
| token bucket `odds/sportradar` | tokens, lastRefill | Wait | the feed's client |
| Snowflake ids | (second, sequence) | GenerateID | every service |
| live betting, virtual sports, odds, Redis limiter | maps, caches, Redis windows | see section 5 | |
| events, WebSocket hub | subscriptions | publish, broadcast | fire and forget |
| security, admin, KYC, messaging | records | assessments, external calls | no state machine |

PROJECT.json lists every component with its files and says which are modelled.

**What is hard in it.** Row locks and READ COMMITTED visibility when the crash
game updates wallets with statements of its own next to ApplyTx; commits whose
answer is lost; a manager goroutine and round goroutines that share `currentGame`
and drop the lock around database calls; callers that time out while their request
is queued; callbacks that are repeated, early or interrupted; rows read, changed and
written back whole; limits checked by several queries before the bet; errors that
count as "nothing found". The hazards of PROJECT.json give each its line.

**What makes each component correct.**

* wallet: the audit rows explain the balance exactly; no overdraft; no lost
  update; stake, stake tax and bet row together or not at all; every call answered;
* crash game: a bet is cashed out at most once; an accepted bet belongs to a real
  round; one live loop; a finished round stays finished; every bet is settled and
  every winner paid; requests are answered and loops end;
* deposits: the row tells what the customer did; a completed deposit is in the wallet, once;
* sport bets: the stake is what was paid for; a settlement stands;
* jackpots: every contribution is in the pool, once; one prize per ticket; a drawn
  jackpot stays drawn;
* compliance: no bet beyond a limit, none of an excluded user, an exclusion runs its term;
* token bucket: never more requests than capacity and time allow, and no fewer than the
  configured rate;
* ids: no id is issued twice.

Some of these do not hold as stated. Where the code fails one, the property that is
checked says under which circumstances it can (two calls overlapped, one stopped half
way, a query failed), so that the run shows there is no other way.

## 2. Modules

| module | models | checked by | proved in |
|---|---|---|---|
| `Ledger` | the promise of the wallet layer: atomic operations on balance, audit rows and bets | `MCWallet` | |
| `Wallet` | the same operations as the code runs them: statements, row locks, drafts, rollbacks | `MCWallet` | `WalletProofs` |
| `GameBook` | what the engine promises about rounds, bets and answers, without goroutines | `MCCrashGame` | |
| `CrashGame` | manager, loops, callers, channels and rows of the crash game engine | `MCCrashGame` | `CrashGameProofs` |
| `Payments` | what M-Pesa deposits promise: one credit per request, a status that is final and true | `MCDeposits` | |
| `Deposits` | STK push, deposit rows, callbacks and Safaricom | `MCDeposits` | `DepositsProofs` |
| `SportBets` | EditBet next to settlement, kick-off and other edits | `MCSportBets` | `SportBetsProofs` |
| `Jackpots` | purchases and draws of one jackpot | `MCJackpots` | `JackpotsProofs` |
| `Compliance` | the check of a bet, its queries and the calendar | `MCCompliance` | `ComplianceProofs` |
| `TokenBucket` | the rate limiter of the Sportradar client | `MCTokenBucket` | `TokenBucketProofs` |
| `Snowflake` | the id generators and the clock they read | `MCSnowflake` | `SnowflakeProofs` |
| `Sums` | finite sums of stakes and contributions | `MCCompliance` (`TotalIsSum`) | with its users |

`Deposits`, `SportBets` and `Jackpots` call the wallet service; they take a credit or
debit as one step that happens or not and whose answer may be lost, which is what
`Wallet` shows of `Apply` (it refines `Ledger`, whose `Move` is that step).

### Wallet

A *request* is one call of Debit/Credit (`movement`), of PlaceBetUseCase
(`placeBet`), of CreateBetWithWalletUpdate (`gameBet`) or of
AtomicAutoCashoutWithCredit (`cashout`); `pc[r]` is the SQL statement it sends next.

| variable | code |
|---|---|
| `wallet`, `ledger`, `bets` | committed rows of `wallets`, `transactions`, and `bets`/`game_bets` |
| `draft`, `lock`, `betDraft`, `betLock`, `rows` | what an open transaction has written and the row locks it holds |
| `moves` | the amounts the call still has to apply |
| `seen` | the local variables `balance`, `version` of ApplyTx |

`SelectForUpdate`, `UpdateWallet`, `InsertTransaction` are ApplyTx;
`DebitStake`, `InsertBet`, `RecordMovement` are CreateBetWithWalletUpdate; `ClaimBet`,
`CreditPayout`, `RecordMovement` are AtomicAutoCashoutWithCredit. `Abort` may hit
any open transaction: an error of a statement, a cancelled context, a dead process
or connection. `Commit` may report failure after it took effect. PostgreSQL is
modelled as the code relies on it: a row written by an open transaction is locked,
a waiter re-evaluates its WHERE clause on the new row, and a plain row that does
not match is not waited for.

`ClaimBet` ends a call in `leaked` when no row matches: the code returns there with
`err == nil`, so its deferred function does not roll back.

`Ledger` is the abstract specification; `L!Spec` is checked with the committed
balance as the refinement mapping. Amounts are small integers; a stake is already
split into net and tax, as the tax engine would split it.

### CrashGame

Goroutine 0 is the manager (`Run`), goroutine *g* the `gameLoop` of round *g*. Each
`e.mu` critical section, channel operation and database call is one action; `local`,
`todo`, `drawn`, `ticked` are what a goroutine remembers in between.

| action | code |
|---|---|
| `StartGame`, `SendStart`, `PlaceBet`, `Cashout`, `GiveUp` | the callers in `crash_engine.go`, with their timeouts |
| `HandlePlaceBet`, `InsertBet`, `HandleCashout`, `AtomicCashout` | `crash_handlers.go` |
| `HandleStart`, `CreateGame`, `InstallGame`, `SpawnLoop` | `startGameInternal`, `createGame` |
| `HandleCrash`, `MarkCrashed`, `StoreCrash`, `ClearGame`, `SettleBets` | `crashGameInternal`, `crashGame`, `settleBets` |
| `ManagerTick`, `LoopTick`, `SendCrash`, `ListActive`, `AutoCashout`, `EndTick` | `tick`, `checkAutoCashouts` |
| `BeginLoop`, `StopLoop`, `ShouldCrash` | `gameLoop`, `shouldCrash` |
| `CreatePreset` | GameBetRepository.Create, the only way a row gets a `cashout_at` |

Odds and crash points are in hundredths, the clock in ticks of 100 ms. A
nil dereference in `gameLoop` stops every process, as in Go. The stake and the
payout statements are single steps here: `Wallet` shows what they do to the wallet.

`GameBook` is the abstract specification: a round opens after all before it, crashes once, its row
follows (`Open`, `Crash`, `Store`); a bet is placed in a round that is on record and leaves ACTIVE once, for one
caller or one payout (`Place`, `CashOut`), or is lost with its round (`Lose`). `RefinesBook` is `B!Spec`
with the statuses of `game` as the rounds in flight and, of the calls, those answered with success. `Lose` is what
`settleBets` is for; the engine never takes it, as `crash_settled` shows.

### Deposits

`push`, `amount` is InitiateDeposit, `outcome`, `paid`, `waiting` what Safaricom knows,
`row` the status in `mpesa_deposits`; `at[c]` is the next statement of the handler of
callback request *c*. `Receive` is allowed as long as Safaricom has no answer, so a
callback may be handled many times and at once; `Create` needs the answer of the push
and may come after the callback. `Answer` may be lost, `Die` ends a handler anywhere, every
statement may fail with or without its effect. Amounts are cents because M-Pesa is asked for whole
shillings (`Rounded`) and the wallet gets the row's amount. The handler stores the status
through the interface `DepositLookup` of `mpesa_handlers.go`, which nothing in the repository implements:
that MarkCompleted and MarkFailed are UpdateStatus of MPesaDepositRepository, and FindByCheckoutID its
GetByCheckoutRequestID, is assumed (`SetStatus`, `Lookup`).

`Payments` is the abstract specification: the customer decides once, the row is recorded once, a request credits
at most once a deposit that was paid and recorded, and a status is written once, COMPLETED only after a credit.
`RefinesPayments` is `P!Spec` with the callback requests as the requests; messages and handlers disappear.

### SportBets

`row[b]` is the row with its stake, status and `settlement_reason`; `at[e]` the next
statement of edit *e*, `read[e]` the row it read, `moved[e]` what it has paid back or charged.
`met` is history: which edits ran at the same time, and which ran when their bet was
settled. `Settle` is MarkAsWon, MarkAsLost or MarkAsVoid at any time and more than once, as
nothing in the statements prevents it. GetByID scans `settlement_reason` into a string and fails on
NULL, and Update stores an empty reason as NULL: an edited bet cannot be read again
(`Readable`, `Edited`). That is a failure and no rule: no property counts on it.

### Jackpots

`jackpot` is the row, `ticket[c]` the ticket that purchase *c* has stored, `at[c]`, `read[c]`,
`candidates[c]`, `winner[c]` the local state of a call; `prizes[t][c]` what draw *c* has paid on ticket *t*;
`met` again records which calls overlapped. Each call of the repository or the
wallet is one action that may fail with or without its effect. The service's mutex is declared and
never taken. Winning numbers are a nondeterministic choice among the candidates or none.

### Compliance

One user. `at[c]` is the next statement of call *c*, `clean[c]` whether it has found a violation,
`errors[c]` which of its queries failed: a stake, an exclusion or a cooling-off period that cannot be read counts as
none, age and KYC as missing. `isSelfExcluded` is three steps: `ReadExclusion` is its query and keeps the end of the
record in `read[c]`, `CompareExclusion` compares that with the clock, later, and `Expire` writes the record off,
whatever it is by then. GetUserComplianceStatus takes part from its query of the exclusion on, which is all
it may change. The calendar is the code's: `Today` is midnight UTC, `MonthStart` local midnight, `WeekStart` the
present time of day on Sunday; `Midnight`, the local one, is the measure of the properties.
`barred`, `renewed` and `met` are history. Storing an exclusion (`Exclude`) and
placing the bet (`PlaceBet`) are external: SetSelfExclusion only publishes an event, and no caller
of ValidateBetPlacement exists.

### TokenBucket

`Try` is `tryConsume` under its mutex with what `Wait` does next; `wake[c]` is when the
timer of a polling caller fires, and it may be served late. `grants` is the history of tokens taken.

### Snowflake

`lastTime[g]` and `sequence[g]` are the fields of a SnowflakeGenerator, `now[g]` the local
variable of a call that waits in `waitNextSecond`, `issued[g]` everything the generator
returned. `NewSecond`, `SameSecond` and `Waited` are the three ways through GenerateID; the
first two run under the mutex in one step, the wait ends in a step of its own
because the clock moves meanwhile. A clock behind `lastTime` makes GenerateID panic
with nothing changed, so no action. `ClockMoves` also sets the clock back. `Printed`
compares the texts of `%04d` and `%03d`, which pad and do not cut: ten bits of
sequence reach 1023 and then take a fourth digit. The time in front of them is printed as local time
(snowflake.go:75): where clocks are put back in autumn two seconds have one text, which `SameText` leaves out; UTC and
Nairobi have no such hour.

## 3. Runs

| run | checks | distinct states |
|---|---|---|
| `wallet` | TypeOK, AuditChain, SnapshotFresh, BetBacked, PaidOnce, OkMeansDone, RefinesLedger, CallsAreAnswered | 129 211 |
| `crash_bets` | TypeOK, CashedOutOnce, RequestsServed, RefinesBook | 86 841 |
| `crash_rounds` | OneLiveLoop, RowFollowsRound, NoRoundReturns, LoopsStop, RequestsServed, RefinesBook | 257 764 |
| `deposits` | TypeOK, RowTellsOutcome, WithinHalfShilling, RefinesPayments | 509 008 |
| `sport_bets` | TypeOK, StakeIsPaidFor, SettledIsFinal | 1.9 million |
| `jackpots` | TypeOK, PoolIsBacked, PoolIsExact, CompletedIsFinal, PaidTwiceOverlapped | 329 663 |
| `compliance` | TypeOK, DailyAndMonthlyLimits, ExcludedUsersAreBlocked, ExclusionRunsItsTerm | 5.2 million |
| `token_bucket` | TypeOK, RateIsBounded, RefusedAfterAGrant | 1.5 million |
| `snowflake_ids` | TypeOK, OnlyFirstRepeats, WorkersApart | 18 723 |

Each property has a mutation of the code (the operators commented `Mutation:`) that
breaks it on the same instance.

Runs that TLC refutes, each a disagreement between the code and a comment of the
repository (PROJECT.json, "findings", quotes them):

| run | what the code does |
|---|---|
| `crash_settled` | bets of a crashed round stay ACTIVE: `currentGame` is nil when `settleBets` looks |
| `compliance_week` | the week starts at the present time of day on Sunday, so that Sunday's earlier stakes are not counted |
| `token_rate` | one token comes back per minute, not RateLimit of them |

Seen in the models as well, without a run of their own:

* Crash game. `tick` divides the crash point by 100, so 200.00 crashes at 2.00
  (`Tick` against `ShouldCrash`). A loop that starts while the old loop clears
  `currentGame` dereferences nil and the process dies (`BeginLoop`). A cashout is served after its round has crashed
  (`HandleCashout` asks only for some current game). Two callers pass StartGame's check and the second round
  replaces the first (`SendStart`). A loop works on `currentGame` and not on its own game (`ShouldCrash`,
  `MarkCrashed`): past its select when START cancels it, it crashes the new round. The request's
  AutoCashoutAt is dropped. A player's cashout updates `game_bets` only, nobody is
  credited, while docs/ARCHITECTURE.md:175-176 and docs/API.md:332-335 say winners are.
* Wallet. The crash game's statements change `balance` and leave `version` alone, while
  usecase/wallet/wallet.go:3-8 says every change goes through Service and moves `version`.
* Snowflake. After an overflow the id carries the second read before the wait: the first id
  of that second again, which is why OnlyFirstRepeats leaves that one out.
* Deposits. docs/PROJECT_OVERVIEW.md:190 has the callback credit the wallet. A repeated success credits it again
  (mpesa_handlers.go:108 does not look at the status): `Payments` therefore promises one credit for each request
  and not for each deposit, and `RefinesPayments` says nothing against the second one. A callback before the row is acknowledged and lost
  (:101), a failed credit is acknowledged (:118), and the URL that is sent to Safaricom
  (mpesa.go:95) is not a route of the handler.
* Sport bets. EditBet does not validate NewAmount: the money moves, then the CHECK of the
  table refuses the row. A second edit of a bet always fails, since GetByID cannot scan the NULL that the first one
  left, although the rules of transport/http/edit.go:137-143 let any pending bet be edited within five minutes of
  placement. Two edits at once both move money for one row, and a settlement under a running edit is undone:
  StakeIsPaidFor and SettledIsFinal name these as their exceptions. An edited bet makes the list queries of its user fail. `Create` does not fit the
  migration (`bet_id` is NOT NULL), so rows must come from elsewhere.
* Jackpots. No ticket is ever charged; a second draw pays the same pool again to another ticket;
  a failed credit leaves a WINNER unpaid; the shared random source is not safe for concurrent use.
* Compliance. Two checks at once can pass a limit together, and a database error lets an excluded user bet. So does
  an exclusion that is extended between the query of `isSelfExcluded` and its look at the clock (helpers.go:109, :121):
  the record it has read counts as expired, and the new one is written off. "Start of today" (helpers.go:136) is
  midnight UTC, three o'clock in Nairobi, so that a local day may see twice MaxDailyStake: DailyAndMonthlyLimits
  says so, and that it is never more.

**Bounds.** Wallet: three calls on one wallet, and a user without one. Two calls are enough to
race; the third lets a bet be placed, then cashed out by two competing ticks. Opening balance 4 with movements of 2
and stakes of 1 and 3 makes funds run out; the amount 0 and the stake 5 (above MaxStake) make the early
returns happen. CrashGame: two rounds are what a stale goroutine needs to
meet a newer round, and a START to cancel a loop whose ticker is ready (`crash_rounds`); crash points 1.01 and 200.00
give a round that ends at once and one that flies; one or two ticks of the clock are enough for the odds to pass 1.01.
Two clicks and an automatic cashout compete for a bet in `crash_bets`. The command channel never fills in these
runs. Deposits: two
deposits and three callbacks, so that one deposit has two or three of them; amounts just below, at and above half a
shilling. SportBets: one bet, three edits that lower, raise or keep its stake or name the amount 0 the table
refuses. Jackpots: four calls, purchases and draws in any mix; bets below and
at the minimum. Compliance: two calls over four half-days with a Saturday, a Sunday, a new month and
local time ahead of UTC. TokenBucket: three callers, two tokens, almost three
intervals of four instants. Snowflake: base 2, three sequence numbers of
which one is too wide, and six ids over three seconds: enough to overflow, wait and return to
a second after the clock was set back. `MaxClock` and `Horizon` bound the clocks.

Deadlock is checked for Snowflake only: elsewhere calls are finite, or nothing
happens by time alone once the clock has reached its bound.

**Fairness.** Wallet: weak fairness of a transaction's next statement (the database
answers; a lock waiter gets the row once its holder has gone); none for calls and
failures. CrashGame: weak fairness of the manager and of each loop (the Go scheduler
runs runnable goroutines), strong fairness of `StopLoop`, because a Go select picks
among ready cases at random and a cancelled context stays ready. Fairness of the manager supposes that somebody
runs it: `cmd/games` never calls `Run`, and without it no request is answered. Callers, the clock
and failures are not fair; the clock is bounded, so a loop may prefer its ticker a few times only. The other modules state safety only: each of their calls
may fail or its process die at every step, so nothing has to happen.

## 4. Proofs

`WalletProofs` proves for every set of users, requests, amounts and stakes that
satisfies `WalletAssumption`:

* `WalletInvariant`: `Spec => []WalletInv`
* `TypeCorrect`: `Spec => []TypeOK`
* `AuditTrailIsComplete`: `Spec => []AuditChain`
* `NoOptimisticConflict`: `Spec => []SnapshotFresh`
* `BetsInvariant`: `Spec => []BetsInv`
* `BetsArePaidOnce`: `Spec => []PaidOnce`
* `SuccessIsCommitted`: `Spec => []OkMeansDone`
* `LedgerInvariant`: `Spec => []LedgerInv`
* `BetsAreBacked`: `Spec => []BetBacked`
* `WalletImplementsLedger`: `Spec => RefinesLedger`

AuditChain speaks of committed rows only and is not inductive: the commit step
needs to know that the rows a transaction is about to commit lead from the committed
balance to its draft. `WalletInv` adds that: a free row has no draft (`FreeRows`),
a locked row belongs to a transaction of its owner at a statement that holds it
(`LockedBy`), a bet row has an owner with a wallet (`BetOwner`), and `Drafted` says
for each statement how draft, `seen` and `rows` relate. The proof has one lemma per
action; two lemmas about chains (appending one row, joining two chains) carry the
arithmetic of sequences, and a frame lemma covers the requests an action does not name.

The other properties stand on two more layers, each proved with the one below as a
hypothesis, so that the lemmas of a layer mention only what it adds. `BetsInv` is about bet
rows: which entries of a transaction a bet's row and draft admit (`Entered`), who holds a bet's row and
what he did to it (`HoldsBet`, `BetLocked`, `BetMoved`), and what the ledger records once the row
is there (`Recorded`). It gives PaidOnce and OkMeansDone. `LedgerInv` adds `Intended`, which follows the movements a
transaction was called with: which of them its rows have recorded, and which remain.
It gives BetBacked, and it is what a commit must know to be
one operation of Ledger: `CommitIsOperation` shows that each kind of call commits one
`Move`, `PlaceBet` or `CashOut`, and every other step leaves the three tables alone.
`WalletImplementsLedger` concludes `[L!Next]_L!vars` for every step from the three invariants.

`CrashGameProofs` proves for any callers, bets, crash points and channel capacity that satisfy
`CrashGameAssumption` (finitely many calls of StartGame; calls of different kinds are different calls):

* `CrashGameInvariant`: `Spec => []CrashGameInv`
* `TypeCorrect`: `Spec => []TypeOK`
* `BetsAreCashedOutOnce`: `Spec => []CashedOutOnce`
* `TakenBetsExist`: `Spec => []AcceptedBetsExist`
* `LoopsAreCancelled`: `Spec => []OneLiveLoop`
* `RoundsDoNotReturn`: `Spec => NoRoundReturns`
* `CrashRowsAreTrue`: `Spec => []RowFollowsRound`
* `BookInvariant`: `Spec => [](CrashGameInv /\ BookInv)`
* `EngineKeepsTheBook`: `Spec => RefinesBook`

The invariant has four parts, each kept by its own chain of lemmas with a frame lemma for the steps that
do not concern it. `RoundsAreAskedFor` counts the STARTs, sent and waiting, without which not even the type of
`round` is inductive. `ManagerKnows` and `RoundsInOrder` say that the round being
started is new and its predecessor's loop cancelled, and that what a goroutine is about to store has crashed.
`QueuedOnce` says that a bet is in the channel once, or with the manager, and has no row until then.
`PaidOrTold` says that a row that is not CASHED_OUT has neither a payout nor a successful
answer, and that there is one credit and one such answer at most; clicks and ticks are counted apart, so that an engine which
credited its clickers would satisfy CashedOutOnce as well. NoRoundReturns is about a step that makes a round current: `AwaitsTakeOff` says that a round about to be
installed is not current, and that neither it nor its row has got beyond RUNNING. TLC checked `CrashGameInv` on the instances of `crash_bets` and `crash_rounds`.

`EngineKeepsTheBook` has one lemma for each action that writes a row or moves a round; all others leave the book
alone (`Elsewhere`, `BookStill`). `QueuedOnce` makes an insert the first of its bet, `ManagerKnows` and `RoundsInOrder`
make a new round the latest, `PaidOrTold` makes a payout the first. `BookInv` adds what is missing: a round that
took off has a row, so that a crash is stored over RUNNING or CRASHED, and no game is current when `settleBets` looks.
`AcceptedBetsExist` (in `TakenBetsExist`) is part of `CrashGameInv`; `crash_bets` checks it by way of `RefinesBook`,
whose `Place` and answers imply it.

`SnowflakeProofs` proves for any generators, workers, base and widths that satisfy
`SnowflakeAssumption` (a sequence number needs at most one digit more than its width, a
worker number at most one more than its own):

* `GeneratorsNeverBehind`: `Spec => []SnowflakeInv`
* `TypeCorrect`: `Spec => []TypeOK`
* `RepeatsAreFirst`: `Spec => []OnlyFirstRepeats`
* `WorkersNeverCollide`: `Spec => []WorkersApart`

OnlyFirstRepeats is not inductive: that a new id is new needs `NeverBehind` (no id has a
second after `lastTime`, and the ids of that second have sequences up to `sequence`), and
an id printed after the wait needs `WaitsForNext`. The lemmas about digits say
that worker and sequence can be read back from `Printed`.

That no id repeats is about one generator and one process: services whose name
`ServiceTypeGenerator` does not know all get worker 9998, and replicas share
their number, so their ids do repeat.

`DepositsProofs` (`DepositsAssumption`: amounts are natural numbers) proves `DepositsInvariant` and from it all
four properties of the run: `TypeCorrect`, `RowsTellTheTruth`, `RoundingIsBounded` and
`DepositsImplementPayments` (`Spec => RefinesPayments`). What is added is `Progress`, what a handler has done by each of its statements
(credited once from `markCompleted` on, only for a paid deposit that has a row), and `Prompted`: the
amount is fixed before M-Pesa takes it, and an accepted push asks the customer. UpdateStatus tests no status, yet a final one is never
replaced by another: the handlers of a deposit all carry the one outcome its customer chose, so a
second write repeats what is there, which the refinement sees as a stutter.

`SportBetsProofs` (`SportBetsAssumption`: first stakes are positive) proves `SportBetsInvariant`, `TypeCorrect` and
`SettlementIsFinal`. The invariant adds `Overlapped` (edits of a bet that are both past their checks have
met), `ClosedOnceEdited` (an edited bet fails the checks) and `QuietOnceSettled` (no edit runs on a settled
bet unless it met the settlement). On it rests `StakesArePaidFor`: `Spec => []StakeIsPaidFor`. The property says that the stake and
what the edits moved agree for a bet none of whose edits overlapped or ended between money and row. `StakesInv` adds `MoneyGoesWithTheRow`: as long as that
is so, a running edit has read the stake the bet was placed with, that stake is still in the row, and at its
update the edit has moved exactly the difference it is about to write.

`JackpotsProofs` (`JackpotsAssumption`, what validateJackpot demands) proves `JackpotsInvariant`, `TypeCorrect`, `NoSecondPrize` and
`CompletionIsFinal`. The invariant adds `Progress`, `Overlapped`, `Sealed` (a running draw that still has a marked
ticket among its candidates met the draw that marked it) and `Frozen` (after a draw that ran alone every running call
has read the completed row, and so no ticket is sold). A second layer is about the pool:

* `PoolInvariant`: `Spec => []PoolInv`
* `PoolBacked`: `Spec => []PoolIsBacked`
* `PoolExact`: `Spec => []PoolIsExact`

`PoolInv` adds what a running call has read: never more than the opening amount and the contributions of the tickets other
than its own (`ReadIsBacked`), which it does not hold before it adds its own, nor at all if it draws (`OwnTicket`). So writing an old row
back can lose contributions and cannot count one twice. Without overlaps and broken-off purchases what it has read is the pool itself, and the
pool has the contributions of the finished ones (`PoolIsUpToDate`).

`ComplianceProofs` (`ComplianceAssumption`: stakes are positive, a day has slots, slot 0 starts a month) proves for any calls, limits and
calendar:

* `ComplianceInvariant`: `Spec => []ComplianceInv`
* `TypeCorrect`: `Spec => []TypeOK`
* `ExclusionBlocks`: `Spec => []ExcludedUsersAreBlocked`
* `ExclusionLasts`: `Spec => ExclusionRunsItsTerm`
* `LimitsInvariant`: `Spec => []LimitsInv`
* `LimitsAreKept`: `Spec => []DailyAndMonthlyLimits`

`ComplianceInv` adds that what a call has read of the exclusion is in force or gone unless it was renewed since
(`ReadInForce`), that a call about to write an exclusion off found it expired under the same condition
(`WritesOffExpired`), and that one past the exclusion found it, or has an error to show, or a renewal it has missed
(`FindsExclusion`). `LimitsInv`, on top of it, adds that calls that check a bet at the same time have met (`Overlapped`), and `StillFits`: what a call
has compared with the limit of a day or a month still fits while it goes through the other queries. A bet placed meanwhile means that the two have met; and when midnight or the
end of the month passes, the period starts later, so less is counted (`TodayMonotone`, `MonthStartMonotone`, `StakedLater`). The limits come out as the code
counts them first (`CountedLimits`, by the day of UTC). A local day lies in two of those at most, and what it saw in the first is within the limit that its last bet there was
checked against (`DayInTwo`). The week of the code has no fixed
start: it moves with the clock all day, which is what `compliance_week` shows.

The sums in Jackpots and Compliance are `Total` of `Sums`: the cardinality of a set with one element for every unit. A sum defined by recursion
would need induction over data; of this one the library's facts about finite sets give what the proofs use (one more element adds
its value, a subset has no larger sum). TLC compares it with `SumFunctionOnSet` (`TotalIsSum`).

`TokenBucketProofs` (`TokenBucketAssumption`: capacity and interval are positive) proves `BucketInvariant`, `TypeCorrect`, `RateBounded` and `RefusalsFollowGrants`.
RateIsBounded is about pairs of grants and not inductive; `SinceGrant` is the potential behind it: from every
grant on, tokens taken and tokens left exceed the capacity by less than the
intervals up to the last refill.

Every invariant, action property and refinement of the passing runs is proved. Model-checked only: the liveness properties CallsAreAnswered,
RequestsServed and LoopsStop, which need ENABLED.

## 5. Not modelled, and why

* Live betting: no code adds a match to `liveMatches`, every operation returns an
  error, settlement is a stub. Virtual sports: games are created SCHEDULED while StartGame and PlaceBet want
  `upcoming`, so nothing happens after the creation.
* Redis rate limiter and its middleware: the script's fourth reply is a string, which
  the code converts with `.(int64)`; every check that reaches Redis panics after the request was
  counted. The window is fixed (Truncate) though a comment calls it sliding. The token buckets of `genius` and
  `africastalking` are copies without the mutex, a data race.
* Odds engine: arithmetic on one call's arguments. Odds cache: Get cannot decode what Set stored.
* Tax and crash point arithmetic: rounding and HMAC values; `Wallet` takes the split stake and
  `CrashGame` the crash point as inputs.
* WalletRepository.UpdateBalance (lock and version check in separate autocommitted
  statements) and the Flutterwave repository (unconditional status writes): no caller outside tests.
* b2cResult and b2cTimeout only acknowledge: a failed withdrawal is never refunded.
* The process restart of the crash engine: nothing reads RUNNING games or ACTIVE bets back, so
  a restart is Init with stale rows around. STOP, which no code sends, and `latestState`, which only clients read.
* The connection pool: database/sql's. It matters for the transaction `ClaimBet` leaves open.
* Event bus, WebSocket hub, HTTP decoding, JWT, configuration, logging, metrics, tracing,
  provider clients, and the GDPR, audit, pentest, responsible gaming and admin packages:
  I/O, stubs and records without a protocol.

Most of the 24 000 lines are of these kinds, which bounds the share that can be modelled.

What would come next: a common abstraction of `Payments` and `Ledger`, so that the credit of a deposit is Ledger's `Move`
by proof and not by reading; an abstract specification of jackpots.
