----------------------------- MODULE CrashGame -----------------------------
(***************************************************************************)
(* The crash game engine (internal/core/usecase/games): the manager         *)
(* goroutine of Run, one gameLoop goroutine per round, the HTTP callers of   *)
(* StartGame, PlaceBet and Cashout, the channels between them, and the rows  *)
(* of games and game_bets they write.                                      *)
(*                                                                         *)
(* Every access to e.mu, every channel operation and every database call is *)
(* a step; what a goroutine remembers from one to the next is local to it.  *)
(* Odds and crash points are in hundredths and the clock in tickIntervals of *)
(* 100 ms, in which the odds grow by one hundredth.                         *)
(***************************************************************************)
EXTENDS Integers, Sequences, FiniteSets

CONSTANTS
    Starters,     \* calls of StartGame
    Bets,         \* calls of PlaceBet; each names the row it inserts
    Preset,       \* game_bets rows with a cashout_at, written by GameBetRepository.Create
    Cashouts,     \* calls of Cashout
    CrashPoints,  \* what CalculateCrashPoint may return
    AutoOdds,     \* cashout_at of the rows in Preset
    CommandCap,   \* capacity of commandChan (10; the other channels never fill here)
    MaxClock      \* bound on the clock

ASSUME CrashGameAssumption ==
    /\ IsFiniteSet(Starters)
    /\ Bets \cap Preset = {}
    /\ Starters \cap Bets = {} /\ Starters \cap Cashouts = {} /\ Bets \cap Cashouts = {}
    /\ CrashPoints \subseteq Nat \ {0}
    /\ AutoOdds \in Nat \ {0}
    /\ CommandCap \in Nat \ {0}
    /\ MaxClock \in Nat

Rounds  == 1 .. Cardinality(Starters)   \* a round needs a START of its own
NoGame  == 0                            \* a nil *domain.Game, a nil CancelFunc
Manager == 0                            \* goroutine 0 is Run, goroutine g the loop of round g
Procs   == {Manager} \cup Rounds
BetRows == Bets \cup Preset
Callers == Starters \cup Bets \cup Cashouts

VARIABLES
    clock,
    round,        \* e.roundNumber
    current,      \* e.currentGame
    game,         \* game[g]: the domain.Game of round g [status, startedAt, crashPoint]
    cancel,       \* e.gameCancel: the loop it would cancel
    cancelled,    \* loops whose context is cancelled
    betChan, cashoutChan, commandChan,
    client,       \* client[c]: how far call c is, and its answer
    target,       \* target[c]: the bet that Cashout call c names
    pc,           \* pc[p]: where goroutine p is
    local,        \* local[p]: the game and odds p's function works with
    todo,         \* todo[p]: active bets checkAutoCashouts has still to visit
    request,      \* the request the manager is serving
    drawn,        \* drawn[g]: the crash point loop g read when it began
    ticked,       \* ticked[g]: when loop g's ticker fired last
    games,        \* games[g]: status of round g's row
    bets,         \* bets[b]: row of game_bets [game, status, auto]
    credits       \* credits[b]: payouts of bet b that reached the wallet

engine   == <<round, current, game, cancel, cancelled>>
channels == <<betChan, cashoutChan, commandChan>>
callers  == <<client, target>>
locals   == <<local, todo, request, drawn, ticked>>
database == <<games, bets, credits>>
vars     == <<clock, engine, channels, callers, pc, locals, database>>

\* What remains of the engine without goroutines, channels and the clock.
B == INSTANCE GameBook WITH
        flight <- [g \in Rounds |-> game[g].status],
        ok     <- {c \in Bets \cup Cashouts : client[c] = "ok"}

\* The locals of a function are gone when it returns.
Nothing == [game |-> NoGame, odds |-> 0]

Init ==
    /\ clock = 0
    /\ round = 0
    /\ current = NoGame
    /\ game = [g \in Rounds |-> [status |-> "none", startedAt |-> 0, crashPoint |-> 0]]
    /\ cancel = NoGame
    /\ cancelled = {}
    /\ betChan = <<>> /\ cashoutChan = <<>> /\ commandChan = <<>>
    /\ client = [c \in Callers |-> "new"]
    /\ target \in [Cashouts -> BetRows]
    /\ pc = [p \in Procs |-> IF p = Manager THEN "select" ELSE "none"]
    /\ local = [p \in Procs |-> Nothing]
    /\ todo = [p \in Procs |-> {}]
    /\ request = NoGame
    /\ drawn = [g \in Rounds |-> 0]
    /\ ticked = [g \in Rounds |-> 0]
    /\ games = [g \in Rounds |-> "none"]
    /\ bets = [b \in BetRows |-> [game |-> NoGame, status |-> "none", auto |-> 0]]
    /\ credits = [b \in BetRows |-> 0]


Goto(p, label) == pc' = [pc EXCEPT ![p] = label]

\* Mutation: elapsed time with its operands swapped, and without the 1.00.
OddsSwapped(g) == game[g].startedAt - clock

\* calculateCurrentOdds
OddsOf(g) == 100 + (clock - game[g].startedAt)

Running == current # NoGame /\ game[current].status = "RUNNING"

\* Mutation: errors are not sent back.
ReplySuccessOnly(c, answer) ==
    client' = [client EXCEPT ![c] = IF @ = "waiting" /\ answer = "ok" THEN answer ELSE @]

\* Resp is buffered: the answer is not waited for, a caller that gave up misses it.
Reply(c, answer) ==
    client' = [client EXCEPT ![c] = IF @ = "waiting" THEN answer ELSE @]

\* Mutation: success is reported without looking at err.
AnyAnswer(done) == {"ok", "failed"}

\* What a caller may be told of a statement: a failure may also follow its commit.
Answers(done) == IF done THEN {"ok", "failed"} ELSE {"failed"}

\* Mutation: the WHERE clause without its status.
AnyStatus(b) == bets[b].status # "none"

\* WHERE id = $5 AND status = ACTIVE
Claimable(b) == bets[b].status = "ACTIVE"

\* Mutation: the loop is forgotten, not cancelled.
ForgetLoop == cancelled' = cancelled

\* e.gameCancel(), if there is one
CancelLoop == cancelled' = cancelled \cup ({cancel} \ {NoGame})

-----------------------------------------------------------------------------
(* Callers *)

Advance ==
    /\ clock < MaxClock
    /\ clock' = clock + 1
    /\ UNCHANGED <<engine, channels, callers, pc, locals, database>>

StartGame(s) ==
    /\ client[s] = "new"
    /\ client' = [client EXCEPT ![s] = IF Running THEN "failed" ELSE "checked"]
    /\ UNCHANGED <<clock, engine, channels, target, pc, locals, database>>

SendStart(s) ==
    /\ client[s] = "checked"
    /\ Len(commandChan) < CommandCap
    /\ commandChan' = Append(commandChan, "START")
    /\ client' = [client EXCEPT ![s] = "ok"]
    /\ UNCHANGED <<clock, engine, betChan, cashoutChan, target, pc, locals, database>>

\* An amount outside 10 .. 10000 is refused at once.
PlaceBet(b) ==
    /\ client[b] = "new"
    /\ \/ /\ client' = [client EXCEPT ![b] = "failed"]
          /\ UNCHANGED betChan
       \/ /\ client' = [client EXCEPT ![b] = "waiting"]
          /\ betChan' = Append(betChan, b)
    /\ UNCHANGED <<clock, engine, cashoutChan, commandChan, target, pc, locals, database>>

Cashout(c) ==
    /\ client[c] = "new"
    /\ client' = [client EXCEPT ![c] = "waiting"]
    /\ cashoutChan' = Append(cashoutChan, c)
    /\ UNCHANGED <<clock, engine, betChan, commandChan, target, pc, locals, database>>

\* ctx.Done or five seconds: the request stays in its channel.
GiveUp(c) ==
    /\ client[c] \in {"checked", "waiting"}
    /\ client' = [client EXCEPT ![c] = "timeout"]
    /\ UNCHANGED <<clock, engine, channels, target, pc, locals, database>>

\* GameBetRepository.Create, the only writer of a cashout_at.
CreatePreset(b) ==
    /\ bets[b].status = "none"
    /\ \E g \in Rounds :
        /\ games[g] = "RUNNING"
        /\ bets' = [bets EXCEPT ![b] = [game |-> g, status |-> "ACTIVE", auto |-> AutoOdds]]
    /\ UNCHANGED <<clock, engine, channels, callers, pc, locals, games, credits>>

-----------------------------------------------------------------------------
(* Bets and cashouts, served by the manager *)

HandlePlaceBet ==
    /\ pc[Manager] = "select" /\ betChan # <<>>
    /\ betChan' = Tail(betChan)
    /\ IF Running
       THEN /\ request' = Head(betChan)
            /\ local' = [local EXCEPT ![Manager].game = current]
            /\ Goto(Manager, "placeBet")
            /\ UNCHANGED client
       ELSE /\ Reply(Head(betChan), "failed")
            /\ UNCHANGED <<request, local, pc>>
    /\ UNCHANGED <<clock, engine, cashoutChan, commandChan, target, todo, drawn, ticked, database>>

\* CreateBetWithWalletUpdate commits or not.
InsertBet ==
    /\ pc[Manager] = "placeBet"
    /\ \E inserted \in BOOLEAN : \E answer \in Answers(inserted) :
        /\ bets' = [bets EXCEPT ![request] =
              IF inserted THEN [game |-> local[Manager].game, status |-> "ACTIVE", auto |-> 0] ELSE @]
        /\ Reply(request, answer)
    /\ request' = NoGame
    /\ local' = [local EXCEPT ![Manager] = Nothing]
    /\ Goto(Manager, "select")
    /\ UNCHANGED <<clock, engine, channels, target, todo, drawn, ticked, games, credits>>

HandleCashout ==
    /\ pc[Manager] = "select" /\ cashoutChan # <<>>
    /\ cashoutChan' = Tail(cashoutChan)
    /\ IF current = NoGame
       THEN /\ Reply(Head(cashoutChan), "failed")
            /\ UNCHANGED <<request, pc>>
       ELSE /\ request' = Head(cashoutChan)
            /\ Goto(Manager, "cashout")
            /\ UNCHANGED client
    /\ UNCHANGED <<clock, engine, betChan, commandChan, target, local, todo, drawn, ticked, database>>

\* GetByID and AtomicCashout: UPDATE ... WHERE id AND status = ACTIVE. The bet's game
\* and its owner are not looked at, the wallet is not touched.
AtomicCashout ==
    /\ pc[Manager] = "cashout"
    /\ LET b == target[request] IN
       \E claimed \in BOOLEAN : \E answer \in Answers(claimed) :
        /\ claimed => Claimable(b)
        /\ bets' = [bets EXCEPT ![b].status = IF claimed THEN "CASHED_OUT" ELSE @]
        /\ Reply(request, answer)
    /\ request' = NoGame
    /\ Goto(Manager, "select")
    /\ UNCHANGED <<clock, engine, channels, target, local, todo, drawn, ticked, games, credits>>

-----------------------------------------------------------------------------
(* startGameInternal *)

HandleStart ==
    /\ pc[Manager] = "select" /\ commandChan # <<>> /\ Head(commandChan) = "START"
    /\ commandChan' = Tail(commandChan)
    /\ CancelLoop
    /\ round' = round + 1
    /\ Goto(Manager, "create")
    /\ UNCHANGED <<clock, current, game, cancel, betChan, cashoutChan, callers, locals, database>>

\* No seed or no row: the round number is spent and the old game, if there is one,
\* stays current without a loop.
CreateGame ==
    /\ pc[Manager] = "create"
    /\ \E cp \in CrashPoints, inserted \in BOOLEAN, answer \in {"install", "select"} :
        /\ answer = "install" => inserted
        /\ games' = [games EXCEPT ![round] = IF inserted THEN "RUNNING" ELSE @]
        /\ game' = [game EXCEPT ![round] =
              IF answer = "install" THEN [status |-> "RUNNING", startedAt |-> clock, crashPoint |-> cp]
                                    ELSE @]
        /\ Goto(Manager, answer)
    /\ UNCHANGED <<clock, round, current, cancel, cancelled, channels, callers, locals, bets, credits>>

InstallGame ==
    /\ pc[Manager] = "install"
    /\ current' = round
    /\ Goto(Manager, "spawn")
    /\ UNCHANGED <<clock, round, game, cancel, cancelled, channels, callers, locals, database>>

SpawnLoop ==
    /\ pc[Manager] = "spawn"
    /\ cancel' = round
    /\ pc' = [pc EXCEPT ![Manager] = "select", ![round] = "begin"]
    /\ UNCHANGED <<clock, round, current, game, cancelled, channels, callers, locals, database>>

-----------------------------------------------------------------------------
(* crashGame, run by the manager and by the loops *)

HandleCrash ==
    /\ pc[Manager] = "select" /\ commandChan # <<>> /\ Head(commandChan) = "CRASH"
    /\ commandChan' = Tail(commandChan)
    /\ Goto(Manager, IF current = NoGame THEN "select" ELSE "crash")
    /\ UNCHANGED <<clock, engine, betChan, cashoutChan, callers, locals, database>>

AfterCrash(p) == IF p = Manager THEN "settle" ELSE "done"

MarkCrashed(p) ==
    /\ pc[p] = "crash"
    /\ local' = [local EXCEPT ![p].game = current]
    /\ game' = [g \in Rounds |-> IF g = current THEN [game[g] EXCEPT !.status = "CRASHED"] ELSE game[g]]
    /\ Goto(p, IF current = NoGame THEN AfterCrash(p) ELSE "store")
    /\ UNCHANGED <<clock, round, current, cancel, cancelled, channels, callers,
                   todo, request, drawn, ticked, database>>

\* Mutation: the status goes to the newest round, not to the one that crashed.
StoreNewest(p) ==
    /\ pc[p] = "store"
    /\ games' = [games EXCEPT ![round] = "CRASHED"]
    /\ Goto(p, "clear")
    /\ UNCHANGED <<clock, engine, channels, callers, locals, bets, credits>>

\* GameRepository.UpdateStatus: a failure is logged. With a cancelled context the
\* statement is not sent.
StoreCrash(p) ==
    /\ pc[p] = "store"
    /\ \/ p \notin cancelled /\ games' = [games EXCEPT ![local[p].game] = "CRASHED"]
       \/ UNCHANGED games
    /\ Goto(p, "clear")
    /\ UNCHANGED <<clock, engine, channels, callers, locals, bets, credits>>

\* Mutation: the crashed game is written back instead of nil.
WriteBack(p) ==
    /\ pc[p] = "clear"
    /\ current' = local[p].game
    /\ Goto(p, AfterCrash(p))
    /\ UNCHANGED <<clock, round, game, cancel, cancelled, channels, callers, locals, database>>

ClearGame(p) ==
    /\ pc[p] = "clear"
    /\ current' = NoGame
    /\ local' = [local EXCEPT ![p] = Nothing]
    /\ Goto(p, AfterCrash(p))
    /\ UNCHANGED <<clock, round, game, cancel, cancelled, channels, callers,
                   todo, request, drawn, ticked, database>>

\* settleBets on the game that is current by then, and the rest of crashGameInternal;
\* only the manager itself could install another game in between.
SettleBets ==
    /\ pc[Manager] = "settle"
    /\ bets' = [b \in BetRows |->
          IF current # NoGame /\ bets[b].game = current /\ bets[b].status = "ACTIVE"
          THEN [bets[b] EXCEPT !.status = "LOST"] ELSE bets[b]]
    /\ CancelLoop
    /\ cancel' = NoGame
    /\ current' = NoGame
    /\ Goto(Manager, "select")
    /\ UNCHANGED <<clock, round, game, channels, callers, locals, games, credits>>

-----------------------------------------------------------------------------
(* tick, run by the manager when it has been idle and by the loops *)

AfterTick(p) == IF p = Manager THEN "select" ELSE "check"

\* The crash point is divided by 100 here, and only here.
Tick(p) ==
    LET crash == 100 * OddsOf(current) >= game[current].crashPoint IN
    /\ local' = [local EXCEPT ![p].odds = IF Running /\ ~crash THEN OddsOf(current) ELSE 0]
    /\ Goto(p, IF ~Running THEN AfterTick(p) ELSE IF crash THEN "send" ELSE "list")

\* time.After fires only when no channel had anything for 100 ms.
ManagerTick ==
    /\ pc[Manager] = "select"
    /\ betChan = <<>> /\ cashoutChan = <<>> /\ commandChan = <<>>
    /\ Tick(Manager)
    /\ UNCHANGED <<clock, engine, channels, callers, todo, request, drawn, ticked, database>>

LoopTick(g) ==
    /\ pc[g] = "select" /\ ticked[g] < clock
    /\ ticked' = [ticked EXCEPT ![g] = clock]
    /\ Tick(g)
    /\ UNCHANGED <<clock, engine, channels, callers, todo, request, drawn, database>>

SendCrash(p) ==
    /\ pc[p] = "send" /\ Len(commandChan) < CommandCap
    /\ commandChan' = Append(commandChan, "CRASH")
    /\ Goto(p, AfterTick(p))
    /\ UNCHANGED <<clock, engine, betChan, cashoutChan, callers, locals, database>>

\* checkAutoCashouts: the bets of the game that is current by then, at the odds of
\* the game tick began with. The query may fail.
ListActive(p) ==
    /\ pc[p] = "list"
    /\ \/ todo' = [todo EXCEPT ![p] =
            {b \in BetRows : /\ current # NoGame
                             /\ bets[b].game = current /\ bets[b].status = "ACTIVE"
                             /\ bets[b].auto # 0 /\ local[p].odds >= bets[b].auto}]
       \/ UNCHANGED todo
    /\ Goto(p, "auto")
    /\ UNCHANGED <<clock, engine, channels, callers, local, request, drawn, ticked, database>>

\* AtomicAutoCashoutWithCredit claims the row and credits the wallet, or neither.
AutoCashout(p) ==
    /\ pc[p] = "auto"
    /\ \E b \in todo[p], claimed \in BOOLEAN :
        /\ claimed => Claimable(b)
        /\ todo' = [todo EXCEPT ![p] = @ \ {b}]
        /\ bets' = [bets EXCEPT ![b].status = IF claimed THEN "CASHED_OUT" ELSE @]
        /\ credits' = [credits EXCEPT ![b] = IF claimed THEN @ + 1 ELSE @]
    /\ UNCHANGED <<clock, engine, channels, callers, pc, local, request, drawn, ticked, games>>

EndTick(p) ==
    /\ pc[p] = "auto" /\ todo[p] = {}
    /\ local' = [local EXCEPT ![p] = Nothing]
    /\ Goto(p, AfterTick(p))
    /\ UNCHANGED <<clock, engine, channels, callers, todo, request, drawn, ticked, database>>

-----------------------------------------------------------------------------
(* gameLoop *)

\* e.currentGame.CrashPoint: a nil pointer ends the process, callers included.
BeginLoop(g) ==
    /\ pc[g] = "begin"
    /\ IF current = NoGame
       THEN /\ pc' = [p \in Procs |-> "panic"]
            /\ client' = [c \in Callers |->
                  IF client[c] \in {"new", "checked", "waiting"} THEN "dead" ELSE client[c]]
            /\ UNCHANGED <<drawn, ticked>>
       ELSE /\ drawn' = [drawn EXCEPT ![g] = game[current].crashPoint]
            /\ ticked' = [ticked EXCEPT ![g] = clock]
            /\ Goto(g, "select")
            /\ UNCHANGED client
    /\ UNCHANGED <<clock, engine, channels, target, local, todo, request, database>>

\* Mutation: the select has no case for ctx.Done.
NeverStop(g) == pc[g] = "done" /\ UNCHANGED vars

StopLoop(g) ==
    /\ pc[g] = "select" /\ g \in cancelled
    /\ Goto(g, "done")
    /\ UNCHANGED <<clock, engine, channels, callers, locals, database>>

ShouldCrash(g) ==
    /\ pc[g] = "check"
    /\ Goto(g, IF ~Running \/ OddsOf(current) >= drawn[g] THEN "crash" ELSE "select")
    /\ UNCHANGED <<clock, engine, channels, callers, locals, database>>

-----------------------------------------------------------------------------

Shared(p) ==
    \/ MarkCrashed(p) \/ StoreCrash(p) \/ ClearGame(p)
    \/ SendCrash(p) \/ ListActive(p) \/ AutoCashout(p) \/ EndTick(p)

ManagerStep ==
    \/ HandlePlaceBet \/ InsertBet \/ HandleCashout \/ AtomicCashout
    \/ HandleStart \/ CreateGame \/ InstallGame \/ SpawnLoop
    \/ HandleCrash \/ SettleBets \/ ManagerTick \/ Shared(Manager)

LoopStep(g) ==
    BeginLoop(g) \/ StopLoop(g) \/ LoopTick(g) \/ ShouldCrash(g) \/ Shared(g)

Call ==
    \/ \E s \in Starters : StartGame(s) \/ SendStart(s)
    \/ \E b \in Bets : PlaceBet(b)
    \/ \E c \in Cashouts : Cashout(c)
    \/ \E c \in Callers : GiveUp(c)
    \/ \E b \in Preset : CreatePreset(b)

Next == Advance \/ Call \/ ManagerStep \/ \E g \in Rounds : LoopStep(g)

Spec == Init /\ [][Next]_vars

\* Goroutines run. A select with several ready cases picks one at random, so a
\* cancelled loop cannot go on taking its ticker for ever.
FairSpec ==
    /\ Spec
    /\ WF_vars(ManagerStep)
    /\ \A g \in Rounds : WF_vars(LoopStep(g)) /\ SF_vars(StopLoop(g))

-----------------------------------------------------------------------------
(* Properties *)

\* Clicks on bet b that were answered with success.
Told(b) == {c \in Cashouts : target[c] = b /\ client[c] = "ok"}

ManagerAt == {"select", "placeBet", "cashout", "create", "install", "spawn", "settle"}
SharedAt  == {"crash", "store", "clear", "send", "list", "auto"}
LoopAt    == {"none", "begin", "select", "check", "done", "panic"}
Labels    == ManagerAt \cup SharedAt \cup LoopAt
CallerAt  == {"new", "checked", "waiting", "ok", "failed", "timeout", "dead"}
Games     == [status : {"none", "RUNNING", "CRASHED"}, startedAt : Nat, crashPoint : Nat]
GameBets  == [game : {NoGame} \cup Rounds, status : {"none", "ACTIVE", "CASHED_OUT", "LOST"}, auto : Nat]
Frames    == [game : {NoGame} \cup Rounds, odds : Nat]

TypeOK ==
    /\ clock \in 0 .. MaxClock
    /\ round \in 0 .. Cardinality(Starters)
    /\ current \in {NoGame} \cup Rounds
    /\ game \in [Rounds -> Games]
    /\ cancel \in {NoGame} \cup Rounds
    /\ cancelled \subseteq Rounds
    /\ betChan \in Seq(Bets) /\ cashoutChan \in Seq(Cashouts)
    /\ commandChan \in Seq({"START", "CRASH"}) /\ Len(commandChan) <= CommandCap
    /\ client \in [Callers -> CallerAt]
    /\ target \in [Cashouts -> BetRows]
    /\ pc \in [Procs -> Labels]
    /\ local \in [Procs -> Frames]
    /\ todo \in [Procs -> SUBSET BetRows]
    /\ request \in {NoGame} \cup Bets \cup Cashouts
    /\ drawn \in [Rounds -> Nat] /\ ticked \in [Rounds -> Nat]
    /\ games \in [Rounds -> {"none", "RUNNING", "CRASHED"}]
    /\ bets \in [BetRows -> GameBets]
    /\ credits \in [BetRows -> Nat]

\* However many clicks, ticks and goroutines race for a bet, one click at most is told
\* that it succeeded and one payout at most is credited, and in either case the row says
\* CASHED_OUT (AtomicCashout and AtomicAutoCashoutWithCredit test the status they
\* overwrite). Whether a successful click ought to be credited is left open here.
CashedOutOnce ==
    \A b \in BetRows :
        /\ Cardinality(Told(b)) <= 1 /\ credits[b] <= 1
        /\ Told(b) # {} \/ credits[b] > 0 => bets[b].status = "CASHED_OUT"

\* Round g took off and has been replaced or has crashed.
Over(g) == game[g].status # "none" /\ current # g /\ ~(pc[Manager] = "install" /\ round = g)

\* A player who is told the bet was placed has a row, and the row names a round
\* that is on record and has taken off.
AcceptedBetsExist ==
    \A b \in Bets :
        /\ client[b] = "ok" => bets[b].status # "none"
        /\ bets[b].status # "none" =>
              /\ games[bets[b].game] # "none"
              /\ game[bets[b].game].status # "none"

\* Of all loops that still run, at most one has not been told to stop: START and
\* CRASH cancel the one before.
OneLiveLoop ==
    \A g, h \in Rounds :
        {pc[g], pc[h]} \cap {"none", "done", "panic"} = {} /\ {g, h} \cap cancelled = {} => g = h

\* A round that was replaced or has crashed never becomes current again, and the one
\* that becomes current is running in memory and in its row, although goroutines that
\* may be rounds behind write e.currentGame, its status and the rows.
NoRoundReturns ==
    [][\A g \in Rounds : current' = g /\ current # g =>
          ~Over(g) /\ game[g].status = "RUNNING" /\ games[g] = "RUNNING"]_vars

\* The games table never reports a crash of a round that still runs, even when the
\* crash was stored late and by the loop of another round.
RowFollowsRound ==
    \A g \in Rounds : games[g] = "CRASHED" => game[g].status = "CRASHED"

\* Rows only move forward, in steps that GameBook has: a bet that left ACTIVE never
\* returns, a round that crashed is not stored as running again, and success is told
\* when it is in the tables, whichever goroutine writes them.
RefinesBook == B!Spec

\* Every request that reached the manager is answered, unless its caller gives up or
\* the process dies; it needs commandChan never to be full when the manager ticks.
RequestsServed ==
    \A c \in Bets \cup Cashouts : client[c] = "waiting" ~> client[c] # "waiting"

\* The goroutine of a cancelled round comes to an end, it is not leaked.
LoopsStop ==
    \A g \in Rounds :
        g \in cancelled /\ pc[g] # "none" ~> pc[g] \in {"done", "panic"}

-----------------------------------------------------------------------------
(* What comments, tests and documents say of the engine, and the code does not do *)

Quiet == \A p \in Procs : pc[p] \in {"none", "select", "done"}

\* crash_settlement.go: settleBets settles the remaining active bets after a crash.
SettledAfterCrash ==
    \A b \in BetRows :
        Quiet /\ bets[b].game # NoGame /\ bets[b].status = "ACTIVE"
            => game[bets[b].game].status # "CRASHED"

-----------------------------------------------------------------------------
(* The inductive invariant behind TypeOK and the safety properties *)

\* Every round number was asked for by a StartGame of its own, commands that wait included.
Starts(commands) == {i \in 1 .. Len(commands) : commands[i] = "START"}
Sent == {s \in Starters : client[s] = "ok"}
RoundsAreAskedFor == round + Cardinality(Starts(commandChan)) <= Cardinality(Sent)

Started(g) == games[g] # "none" /\ game[g].status # "none"
Starting   == pc[Manager] \in {"create", "install", "spawn"}
Live(g)    == pc[g] \notin {"none", "done", "panic"}

\* What the manager knows at each of its steps.
ManagerKnows ==
    /\ pc[Manager] = "placeBet" => request \in Bets /\ local[Manager].game \in Rounds
                                   /\ Started(local[Manager].game)
    /\ pc[Manager] = "cashout" => request \in Cashouts
    /\ Starting => round \in Rounds /\ cancel \in cancelled \cup {NoGame}
    /\ pc[Manager] = "create" => games[round] = "none" /\ game[round].status = "none"
    /\ pc[Manager] \in {"install", "spawn"} => Started(round)

\* Rounds start in order, the current one has started, what a goroutine is about to
\* store has crashed, and the only loop not cancelled is the one the engine can cancel.
RoundsInOrder ==
    /\ \A g \in Rounds : g > round => games[g] = "none" /\ game[g].status = "none"
    /\ current # NoGame => current <= round /\ Started(current)
    /\ \A g \in Rounds : game[g].startedAt <= clock
    /\ \A p \in Procs : pc[p] = "store" =>
          local[p].game \in Rounds /\ game[local[p].game].status = "CRASHED"
    /\ \A g \in Rounds : Live(g) /\ g \notin cancelled => g = cancel

\* A request is in the channel or with the manager once, and until then its bet is new.
QueuedOnce ==
    /\ \A i, j \in 1 .. Len(betChan) : betChan[i] = betChan[j] => i = j
    /\ \A i \in 1 .. Len(betChan) :
          /\ client[betChan[i]] # "new" /\ bets[betChan[i]].status = "none"
          /\ pc[Manager] = "placeBet" => request # betChan[i]
    /\ pc[Manager] = "placeBet" => client[request] # "new" /\ bets[request].status = "none"
    /\ \A b \in Bets : client[b] = "new" => bets[b].status = "none"

BetsNameRounds == \A b \in Bets : bets[b].status # "none" => bets[b].game \in Rounds

\* A bet is paid for, or its player told, only while its row leaves ACTIVE.
PaidOrTold(b) ==
    /\ bets[b].status # "CASHED_OUT" => Told(b) = {} /\ credits[b] = 0
    /\ credits[b] <= 1
    /\ \A c, d \in Told(b) : c = d

\* Every round newer than the current one is being started.
CurrentIsNewest ==
    \A g \in Rounds : current # NoGame /\ g > current =>
        game[g].status = "none" \/ (g = round /\ pc[Manager] = "install")

CrashGameInv ==
    /\ TypeOK
    /\ RoundsAreAskedFor
    /\ ManagerKnows
    /\ RoundsInOrder
    /\ CurrentIsNewest
    /\ RowFollowsRound
    /\ AcceptedBetsExist
    /\ QueuedOnce
    /\ BetsNameRounds
    /\ \A b \in BetRows : PaidOrTold(b)

\* What NoRoundReturns needs on top: nobody touches the round between its row and the
\* moment it becomes current.
AwaitsTakeOff ==
    pc[Manager] = "install" =>
        current # round /\ game[round].status = "RUNNING" /\ games[round] = "RUNNING"

\* What RefinesBook needs on top: a round that has taken off has a row, and by the time
\* settleBets looks there is no current game.
BookInv ==
    /\ \A g \in Rounds : game[g].status # "none" => games[g] # "none"
    /\ pc[Manager] = "settle" => current = NoGame

=============================================================================
