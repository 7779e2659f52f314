-------------------------- MODULE CrashGameProofs --------------------------
(***************************************************************************)
(* Proofs about CrashGame, for any number of callers, rounds, bets and      *)
(* crash points. The invariant has four parts that are kept one by one:     *)
(*   - TypeOK, with RoundsAreAskedFor: a round needs a START of its own;     *)
(*   - EngineInv: rounds start in order, what a goroutine stores has         *)
(*     crashed, and the one loop not cancelled is e.gameCancel's;            *)
(*   - QueueInv: a bet is in the channel, with the manager or in its row;    *)
(*   - PaidInv: a row leaves ACTIVE once, with one payout or one answer.     *)
(* Each part has a frame lemma for the steps that do not concern it.        *)
(* The last section shows that the engine implements GameBook: BookInv is    *)
(* added to the invariant, and every action is mapped to a step of the book. *)
(***************************************************************************)
EXTENDS CrashGame, FiniteSetTheorems, TLAPS

\* Rounds are the numbers from one to the calls of StartGame.
LEMMA RoundsType ==
    /\ Cardinality(Starters) \in Nat
    /\ Rounds \subseteq Nat \ {0} /\ Rounds = 1 .. Cardinality(Starters)
<1>1. Cardinality(Starters) \in Nat
  BY CrashGameAssumption, FS_CardinalityType
<1> QED BY <1>1 DEF Rounds

\* The initial states have the right types.
LEMMA InitType == Init => TypeOK
<1> SUFFICES ASSUME Init PROVE TypeOK
  OBVIOUS
<1> USE CrashGameAssumption, RoundsType DEF Init, NoGame
<1>1. game \in [Rounds -> Games] /\ bets \in [BetRows -> GameBets] /\ local \in [Procs -> Frames]
  BY DEF Games, GameBets, Frames, Nothing
<1>2. pc \in [Procs -> Labels] /\ client \in [Callers -> CallerAt]
  BY DEF Labels, ManagerAt, LoopAt, CallerAt
<1> QED BY <1>1, <1>2 DEF TypeOK

\* Where goroutines and callers may be.
LEMMA LabelSet ==
    /\ \A l \in {"select", "placeBet", "cashout", "create", "install", "spawn", "settle",
                 "crash", "store", "clear", "send", "list", "auto",
                 "none", "begin", "check", "done", "panic"} : l \in Labels
    /\ \A l \in {"new", "checked", "waiting", "ok", "failed", "timeout", "dead"} : l \in CallerAt
BY DEF Labels, ManagerAt, SharedAt, LoopAt, CallerAt

\* A goroutine moves to a place of the program.
LEMMA GotoType ==
    ASSUME TypeOK, NEW p, NEW l \in Labels, Goto(p, l)
    PROVE  pc' \in [Procs -> Labels]
BY DEF TypeOK, Goto

\* An answer is something a caller may be told.
LEMMA ReplyType ==
    ASSUME TypeOK, NEW c, NEW answer \in {"ok", "failed"}, Reply(c, answer)
    PROVE  client' \in [Callers -> CallerAt]
<1>1. answer \in CallerAt
  BY LabelSet
<1> QED BY <1>1 DEF TypeOK, Reply

\* The first element of a queue and the rest.
LEMMA TailType ==
    ASSUME NEW S, NEW q \in Seq(S), q # <<>>
    PROVE  /\ Head(q) \in S /\ Tail(q) \in Seq(S) /\ Len(Tail(q)) = Len(q) - 1 /\ Len(q) \in Nat \ {0}
           /\ \A i \in 1 .. Len(Tail(q)) : Tail(q)[i] = q[i + 1]
           /\ Head(q) = q[1]
OBVIOUS

\* A queue with one element more.
LEMMA AppendType ==
    ASSUME NEW S, NEW q \in Seq(S), NEW x \in S
    PROVE  /\ Append(q, x) \in Seq(S) /\ Len(Append(q, x)) = Len(q) + 1 /\ Len(q) \in Nat
           /\ \A i \in 1 .. Len(q) : Append(q, x)[i] = q[i]
           /\ Append(q, x)[Len(q) + 1] = x
OBVIOUS

\* What a call of the API does to the types.
LEMMA CallTypes ==
    ASSUME TypeOK, Call
    PROVE  TypeOK'
<1> USE DEF engine, callers, locals, database
<1>1. ASSUME NEW s \in Starters, StartGame(s) PROVE TypeOK'
  <2>1. client' \in [Callers -> CallerAt]
    BY <1>1, LabelSet DEF StartGame, TypeOK
  <2> QED BY <1>1, <2>1 DEF StartGame, channels, TypeOK
<1>2. ASSUME NEW s \in Starters, SendStart(s) PROVE TypeOK'
  <2>1. client' \in [Callers -> CallerAt]
    BY <1>2, LabelSet DEF SendStart, TypeOK
  <2>2. commandChan' \in Seq({"START", "CRASH"}) /\ Len(commandChan') <= CommandCap
    BY <1>2, AppendType, CrashGameAssumption DEF SendStart, TypeOK
  <2> QED BY <1>2, <2>1, <2>2 DEF SendStart, TypeOK
<1>3. ASSUME NEW b \in Bets, PlaceBet(b) PROVE TypeOK'
  <2>1. client' \in [Callers -> CallerAt]
    BY <1>3, LabelSet DEF PlaceBet, TypeOK
  <2>2. betChan \in Seq(Bets)
    BY DEF TypeOK
  <2>3. Append(betChan, b) \in Seq(Bets)
    BY <2>2, AppendType
  <2>4. betChan' \in Seq(Bets)
    BY <1>3, <2>2, <2>3 DEF PlaceBet
  <2> QED BY <1>3, <2>1, <2>4 DEF PlaceBet, TypeOK
<1>4. ASSUME NEW c \in Cashouts, Cashout(c) PROVE TypeOK'
  <2>1. client' \in [Callers -> CallerAt]
    BY <1>4, LabelSet DEF Cashout, TypeOK
  <2>2. cashoutChan' \in Seq(Cashouts)
    BY <1>4, AppendType DEF Cashout, TypeOK
  <2> QED BY <1>4, <2>1, <2>2 DEF Cashout, TypeOK
<1>5. ASSUME NEW c \in Callers, GiveUp(c) PROVE TypeOK'
  <2>1. client' \in [Callers -> CallerAt]
    BY <1>5, LabelSet DEF GiveUp, TypeOK
  <2> QED BY <1>5, <2>1 DEF GiveUp, channels, TypeOK
<1>6. ASSUME NEW b \in Preset, CreatePreset(b) PROVE TypeOK'
  <2>1. \A g \in Rounds : [game |-> g, status |-> "ACTIVE", auto |-> AutoOdds] \in GameBets
    BY CrashGameAssumption DEF GameBets
  <2>2. PICK g \in Rounds :
            bets' = [bets EXCEPT ![b] = [game |-> g, status |-> "ACTIVE", auto |-> AutoOdds]]
    BY <1>6 DEF CreatePreset
  <2>3. bets' \in [BetRows -> GameBets]
    BY <2>1, <2>2 DEF TypeOK
  <2> QED BY <1>6, <2>3 DEF CreatePreset, channels, TypeOK
<1> QED BY <1>1, <1>2, <1>3, <1>4, <1>5, <1>6 DEF Call

\* The clock does not run behind the start of a round, so odds are natural numbers.
LEMMA OddsType ==
    ASSUME TypeOK, RoundsInOrder, NEW g \in Rounds
    PROVE  OddsOf(g) \in Nat /\ game[g].startedAt <= clock
  BY CrashGameAssumption DEF TypeOK, RoundsInOrder, OddsOf, Games

\* A row keeps its type when its status changes.
LEMMA StatusType ==
    ASSUME NEW r \in GameBets, NEW s \in {"none", "ACTIVE", "CASHED_OUT", "LOST"}
    PROVE  [r EXCEPT !.status = s] \in GameBets
BY DEF GameBets

\* What serving bets and cashouts does to the types.
LEMMA BetTypes ==
    ASSUME TypeOK, ManagerKnows, HandlePlaceBet \/ InsertBet \/ HandleCashout \/ AtomicCashout
    PROVE  TypeOK'
<1> USE DEF engine, callers, locals, database
<1>1. CASE HandlePlaceBet
  <2>1. Head(betChan) \in Bets /\ betChan' \in Seq(Bets)
    BY <1>1, TailType DEF HandlePlaceBet, TypeOK
  <2>2. pc' \in [Procs -> Labels] /\ client' \in [Callers -> CallerAt]
    BY <1>1, GotoType, ReplyType, LabelSet DEF HandlePlaceBet, TypeOK
  <2>3. [local[Manager] EXCEPT !.game = current] \in Frames
    <3>1. local[Manager] \in Frames /\ current \in {NoGame} \cup Rounds
      BY DEF TypeOK, Procs
    <3> QED BY <3>1 DEF Frames
  <2>4. local' \in [Procs -> Frames]
    BY <1>1, <2>3 DEF HandlePlaceBet, TypeOK
  <2>5. request' \in {NoGame} \cup Bets \cup Cashouts
    BY <1>1, <2>1 DEF HandlePlaceBet, TypeOK
  <2> QED BY <1>1, <2>1, <2>2, <2>4, <2>5 DEF HandlePlaceBet, TypeOK
<1>2. CASE InsertBet
  <2>1. pc' \in [Procs -> Labels] /\ client' \in [Callers -> CallerAt]
    BY <1>2, GotoType, ReplyType, LabelSet DEF InsertBet, Answers
  <2>2. [game |-> local[Manager].game, status |-> "ACTIVE", auto |-> 0] \in GameBets
    BY <1>2, RoundsType DEF InsertBet, ManagerKnows, GameBets
  <2>3. bets' \in [BetRows -> GameBets]
    BY <1>2, <2>2 DEF InsertBet, TypeOK
  <2>4. local' \in [Procs -> Frames]
    BY <1>2 DEF InsertBet, TypeOK, Frames, Nothing
  <2> QED BY <1>2, <2>1, <2>3, <2>4 DEF InsertBet, channels, TypeOK
<1>3. CASE HandleCashout
  <2>1. Head(cashoutChan) \in Cashouts /\ cashoutChan' \in Seq(Cashouts)
    BY <1>3, TailType DEF HandleCashout, TypeOK
  <2>2. pc' \in [Procs -> Labels] /\ client' \in [Callers -> CallerAt]
    BY <1>3, GotoType, ReplyType, LabelSet DEF HandleCashout, TypeOK
  <2> QED BY <1>3, <2>1, <2>2 DEF HandleCashout, TypeOK
<1>4. CASE AtomicCashout
  <2>1. pc' \in [Procs -> Labels] /\ client' \in [Callers -> CallerAt]
    BY <1>4, GotoType, ReplyType, LabelSet DEF AtomicCashout, Answers
  <2>2. bets' \in [BetRows -> GameBets]
    <3>1. \A b \in BetRows : [bets[b] EXCEPT !.status = "CASHED_OUT"] \in GameBets
      BY StatusType DEF TypeOK
    <3>2. \A b \in BetRows : [bets[b] EXCEPT !.status = @] \in GameBets
      BY DEF TypeOK, GameBets
    <3>3. PICK claimed \in BOOLEAN :
              bets' = [bets EXCEPT ![target[request]].status = IF claimed THEN "CASHED_OUT" ELSE @]
      BY <1>4 DEF AtomicCashout
    <3> QED BY <3>1, <3>2, <3>3 DEF TypeOK
  <2> QED BY <1>4, <2>1, <2>2 DEF AtomicCashout, channels, TypeOK
<1> QED BY <1>1, <1>2, <1>3, <1>4

\* What the other steps of the manager do to the types; HandleStart and its tick are below.
LEMMA ManagerTypes ==
    ASSUME TypeOK, ManagerKnows, CreateGame \/ InstallGame \/ SpawnLoop \/ HandleCrash \/ SettleBets
    PROVE  TypeOK'
<1> USE DEF engine, callers, locals, database
<1>1. CASE CreateGame
  <2>1. pc' \in [Procs -> Labels]
    BY <1>1, GotoType, LabelSet DEF CreateGame
  <2>2. games' \in [Rounds -> {"none", "RUNNING", "CRASHED"}]
    BY <1>1 DEF CreateGame, TypeOK
  <2>3. \A cp \in CrashPoints : [status |-> "RUNNING", startedAt |-> clock, crashPoint |-> cp] \in Games
    BY CrashGameAssumption DEF Games, TypeOK
  <2>4. game' \in [Rounds -> Games]
    BY <1>1, <2>3, ZenonT(30) DEF CreateGame, TypeOK
  <2> QED BY <1>1, <2>1, <2>2, <2>4 DEF CreateGame, channels, TypeOK
<1>2. CASE InstallGame
  <2>1. pc' \in [Procs -> Labels] /\ current' \in Rounds
    BY <1>2, GotoType, LabelSet DEF InstallGame, ManagerKnows, Starting
  <2> QED BY <1>2, <2>1 DEF InstallGame, channels, TypeOK
<1>3. CASE SpawnLoop
  <2>1. pc' \in [Procs -> Labels] /\ cancel' \in Rounds
    BY <1>3, LabelSet DEF SpawnLoop, ManagerKnows, Starting, TypeOK
  <2> QED BY <1>3, <2>1 DEF SpawnLoop, channels, TypeOK
<1>4. CASE HandleCrash
  <2>1. pc' \in [Procs -> Labels]
    BY <1>4, GotoType, LabelSet DEF HandleCrash
  <2>2. commandChan' \in Seq({"START", "CRASH"}) /\ Len(commandChan') <= CommandCap
    BY <1>4, TailType, CrashGameAssumption DEF HandleCrash, TypeOK
  <2> QED BY <1>4, <2>1, <2>2 DEF HandleCrash, TypeOK
<1>5. CASE SettleBets
  <2>1. pc' \in [Procs -> Labels]
    BY <1>5, GotoType, LabelSet DEF SettleBets
  <2>2. bets' \in [BetRows -> GameBets]
    <3>1. \A b \in BetRows : [bets[b] EXCEPT !.status = "LOST"] \in GameBets
      BY StatusType DEF TypeOK
    <3> QED BY <1>5, <3>1 DEF SettleBets, TypeOK
  <2>3. cancelled' \subseteq Rounds /\ cancel' = NoGame /\ current' = NoGame
    BY <1>5 DEF SettleBets, CancelLoop, TypeOK
  <2> QED BY <1>5, <2>1, <2>2, <2>3 DEF SettleBets, channels, TypeOK
<1> QED BY <1>1, <1>2, <1>3, <1>4, <1>5

\* What crashGame, tick and checkAutoCashouts do to the types.
LEMMA SharedTypes ==
    ASSUME TypeOK, NEW p \in Procs, Shared(p)
    PROVE  TypeOK'
<1> USE DEF engine, callers, locals, database
<1>1. CASE MarkCrashed(p)
  <2>1. pc' \in [Procs -> Labels]
    BY <1>1, GotoType, LabelSet DEF MarkCrashed, AfterCrash
  <2>2. game' \in [Rounds -> Games]
    BY <1>1, ZenonT(30) DEF MarkCrashed, TypeOK, Games
  <2>3. local' \in [Procs -> Frames]
    BY <1>1, ZenonT(30) DEF MarkCrashed, TypeOK, Frames
  <2> QED BY <1>1, <2>1, <2>2, <2>3 DEF MarkCrashed, channels, TypeOK
<1>2. CASE StoreCrash(p)
  <2>1. pc' \in [Procs -> Labels]
    BY <1>2, GotoType, LabelSet DEF StoreCrash
  <2>2. games' \in [Rounds -> {"none", "RUNNING", "CRASHED"}]
    BY <1>2 DEF StoreCrash, TypeOK
  <2> QED BY <1>2, <2>1, <2>2 DEF StoreCrash, channels, TypeOK
<1>3. CASE ClearGame(p)
  <2>1. pc' \in [Procs -> Labels]
    BY <1>3, GotoType, LabelSet DEF ClearGame, AfterCrash
  <2>2. local' \in [Procs -> Frames]
    BY <1>3 DEF ClearGame, TypeOK, Frames, Nothing
  <2> QED BY <1>3, <2>1, <2>2 DEF ClearGame, channels, TypeOK
<1>4. CASE SendCrash(p)
  <2>1. pc' \in [Procs -> Labels]
    BY <1>4, GotoType, LabelSet DEF SendCrash, AfterTick
  <2>2. commandChan' \in Seq({"START", "CRASH"}) /\ Len(commandChan') <= CommandCap
    BY <1>4, AppendType, CrashGameAssumption DEF SendCrash, TypeOK
  <2> QED BY <1>4, <2>1, <2>2 DEF SendCrash, TypeOK
<1>5. CASE ListActive(p)
  <2>1. pc' \in [Procs -> Labels]
    BY <1>5, GotoType, LabelSet DEF ListActive
  <2>2. todo' \in [Procs -> SUBSET BetRows]
    BY <1>5, ZenonT(30) DEF ListActive, TypeOK
  <2> QED BY <1>5, <2>1, <2>2 DEF ListActive, channels, TypeOK
<1>6. CASE AutoCashout(p)
  <2>1. todo' \in [Procs -> SUBSET BetRows]
    BY <1>6 DEF AutoCashout, TypeOK
  <2>2. bets' \in [BetRows -> GameBets]
    <3>1. \A b \in BetRows : [bets[b] EXCEPT !.status = "CASHED_OUT"] \in GameBets
      BY StatusType DEF TypeOK
    <3>2. \A b \in BetRows : [bets[b] EXCEPT !.status = @] \in GameBets
      BY DEF TypeOK, GameBets
    <3>3. PICK b \in todo[p], claimed \in BOOLEAN :
              bets' = [bets EXCEPT ![b].status = IF claimed THEN "CASHED_OUT" ELSE @]
      BY <1>6 DEF AutoCashout
    <3> QED BY <3>1, <3>2, <3>3 DEF TypeOK
  <2>3. credits' \in [BetRows -> Nat]
    BY <1>6 DEF AutoCashout, TypeOK
  <2> QED BY <1>6, <2>1, <2>2, <2>3 DEF AutoCashout, channels, TypeOK
<1>7. CASE EndTick(p)
  <2>1. pc' \in [Procs -> Labels]
    BY <1>7, GotoType, LabelSet DEF EndTick, AfterTick
  <2>2. local' \in [Procs -> Frames]
    BY <1>7 DEF EndTick, TypeOK, Frames, Nothing
  <2> QED BY <1>7, <2>1, <2>2 DEF EndTick, channels, TypeOK
<1> QED BY <1>1, <1>2, <1>3, <1>4, <1>5, <1>6, <1>7 DEF Shared
-----------------------------------------------------------------------------
(* Rounds and the START commands that ask for them *)

\* The STARTs in the channel can be counted.
LEMMA StartsFinite ==
    ASSUME NEW q \in Seq({"START", "CRASH"})
    PROVE  IsFiniteSet(Starts(q)) /\ Cardinality(Starts(q)) \in Nat
<1>1. IsFiniteSet(1 .. Len(q)) /\ Starts(q) \subseteq 1 .. Len(q)
  BY FS_Interval DEF Starts
<1> QED BY <1>1, FS_Subset, FS_CardinalityType

\* No more STARTs are sent than there are calls of StartGame.
LEMMA SentFinite ==
    /\ IsFiniteSet(Sent) /\ Cardinality(Sent) \in Nat
    /\ Cardinality(Sent) <= Cardinality(Starters)
BY CrashGameAssumption, FS_Subset, FS_CardinalityType DEF Sent

\* Taking a command off the channel takes at most that START with it.
LEMMA TailStarts ==
    ASSUME NEW q \in Seq({"START", "CRASH"}), q # <<>>
    PROVE  Cardinality(Starts(Tail(q))) + (IF Head(q) = "START" THEN 1 ELSE 0) <= Cardinality(Starts(q))
<1> DEFINE S == Starts(Tail(q))
           T == Starts(q) \ {1}
           f == [i \in S |-> i + 1]
<1>1. Tail(q) \in Seq({"START", "CRASH"}) /\ Head(q) = q[1] /\ 1 \in 1 .. Len(q)
      /\ Len(Tail(q)) = Len(q) - 1 /\ \A i \in 1 .. Len(Tail(q)) : Tail(q)[i] = q[i + 1]
  BY TailType
<1>2. IsFiniteSet(S) /\ IsFiniteSet(Starts(q)) /\ IsFiniteSet(T)
  BY <1>1, StartsFinite, FS_Subset
<1>3. f \in Injection(S, T)
  BY <1>1 DEF Injection, IsInjective, Starts
<1>4. Cardinality(S) <= Cardinality(T)
  BY <1>2, <1>3, FS_Injection DEF ExistsInjection
<1>5. Cardinality(T) = IF 1 \in Starts(q) THEN Cardinality(Starts(q)) - 1 ELSE Cardinality(Starts(q))
  BY <1>2, FS_RemoveElement
<1>6. Head(q) = "START" <=> 1 \in Starts(q)
  BY <1>1 DEF Starts
<1>7. Cardinality(S) \in Nat /\ Cardinality(Starts(q)) \in Nat
  BY <1>1, StartsFinite
<1> HIDE DEF S, T
<1>8. Cardinality(S) + (IF Head(q) = "START" THEN 1 ELSE 0) <= Cardinality(Starts(q))
  BY <1>4, <1>5, <1>6, <1>7
<1> QED BY <1>8 DEF S

\* A command put on the channel adds at most itself to the STARTs that wait.
LEMMA AppendStarts ==
    ASSUME NEW q \in Seq({"START", "CRASH"}), NEW x \in {"START", "CRASH"}
    PROVE  Cardinality(Starts(Append(q, x))) <= Cardinality(Starts(q)) + (IF x = "START" THEN 1 ELSE 0)
<1>1. Starts(Append(q, x)) = IF x = "START" THEN Starts(q) \cup {Len(q) + 1} ELSE Starts(q)
  BY AppendType DEF Starts
<1>2. IsFiniteSet(Starts(q)) /\ Cardinality(Starts(q)) \in Nat
  BY StartsFinite
<1>3. Len(q) + 1 \notin Starts(q)
  BY DEF Starts
<1>4. Cardinality(Starts(q) \cup {Len(q) + 1}) = Cardinality(Starts(q)) + 1
  BY <1>2, <1>3, FS_AddElement
<1>5. CASE x = "START"
  BY <1>1, <1>2, <1>4, <1>5
<1>6. CASE x # "START"
  BY <1>1, <1>2, <1>6
<1> QED BY <1>5, <1>6

\* A START at the head of the channel is a round nobody has started yet.
LEMMA StartHasARound ==
    ASSUME TypeOK, RoundsAreAskedFor, commandChan # <<>>, Head(commandChan) = "START"
    PROVE  /\ round + 1 \in Rounds
           /\ round + 1 + Cardinality(Starts(Tail(commandChan))) <= Cardinality(Sent)
<1>1. Cardinality(Starts(Tail(commandChan))) + 1 <= Cardinality(Starts(commandChan))
  BY TailStarts DEF TypeOK
<1>2. Cardinality(Starts(commandChan)) \in Nat /\ Cardinality(Starts(Tail(commandChan))) \in Nat
  BY StartsFinite, TailType DEF TypeOK
<1>3. round \in Nat
  BY RoundsType DEF TypeOK
<1> QED BY <1>1, <1>2, <1>3, SentFinite, RoundsType DEF RoundsAreAskedFor

\* A step that neither sends a command nor takes one.
LEMMA AskedForFrame ==
    ASSUME RoundsAreAskedFor, UNCHANGED <<round, commandChan>>, TypeOK,
           \A s \in Starters : client[s] = "ok" => client'[s] = "ok"
    PROVE  RoundsAreAskedFor'
<1>1. Sent \subseteq Sent' /\ IsFiniteSet(Sent')
  BY CrashGameAssumption, FS_Subset DEF Sent
<1>2. Cardinality(Sent) <= Cardinality(Sent') /\ Cardinality(Sent') \in Nat /\ Cardinality(Sent) \in Nat
  BY <1>1, SentFinite, FS_Subset, FS_CardinalityType
<1>3. Starts(commandChan)' = Starts(commandChan) /\ Cardinality(Starts(commandChan)) \in Nat
  BY StartsFinite DEF Starts, TypeOK
<1> QED BY <1>2, <1>3, RoundsType DEF RoundsAreAskedFor, TypeOK

\* What the commands of the manager do to the types, and to the rounds asked for.
LEMMA StartTypes ==
    ASSUME TypeOK, RoundsAreAskedFor, HandleStart
    PROVE  TypeOK'
<1> USE DEF callers, locals, database
<1>1. pc' \in [Procs -> Labels]
  BY GotoType, LabelSet DEF HandleStart
<1>2. commandChan' \in Seq({"START", "CRASH"}) /\ Len(commandChan') <= CommandCap
  BY TailType, CrashGameAssumption DEF HandleStart, TypeOK
<1>3. round' \in 0 .. Cardinality(Starters)
  BY StartHasARound, RoundsType DEF HandleStart, TypeOK
<1>4. cancelled' \subseteq Rounds
  BY DEF HandleStart, CancelLoop, TypeOK
<1> QED BY <1>1, <1>2, <1>3, <1>4 DEF HandleStart, TypeOK

\* tick sets odds that are natural numbers.
LEMMA TickTypes ==
    ASSUME TypeOK, RoundsInOrder, NEW p \in Procs, Tick(p)
    PROVE  pc' \in [Procs -> Labels] /\ local' \in [Procs -> Frames]
<1>1. Running => OddsOf(current) \in Nat
  BY OddsType DEF Running, TypeOK
<1>2. (IF Running /\ ~(100 * OddsOf(current) >= game[current].crashPoint) THEN OddsOf(current) ELSE 0) \in Nat
  BY <1>1
<1>3. \A n \in Nat : [local[p] EXCEPT !.odds = n] \in Frames
  <2>1. local[p] \in Frames
    BY DEF TypeOK
  <2> QED BY <2>1 DEF Frames
<1>4. local' \in [Procs -> Frames]
  BY <1>2, <1>3 DEF Tick, TypeOK
<1>5. AfterTick(p) \in Labels /\ "send" \in Labels /\ "list" \in Labels
  BY LabelSet DEF AfterTick
<1>6. pc' \in [Procs -> Labels]
  BY <1>5, GotoType DEF Tick
<1> QED BY <1>4, <1>6

\* What the clock, the ticks and gameLoop do to the types.
LEMMA LoopTypes ==
    ASSUME TypeOK, RoundsInOrder,
           \/ Advance \/ ManagerTick
           \/ \E g \in Rounds : BeginLoop(g) \/ StopLoop(g) \/ LoopTick(g) \/ ShouldCrash(g)
    PROVE  TypeOK'
<1> USE DEF engine, channels, callers, locals, database
<1>1. CASE Advance
  <2>1. clock' \in 0 .. MaxClock
    BY <1>1, CrashGameAssumption DEF Advance, TypeOK
  <2> QED BY <1>1, <2>1 DEF Advance, TypeOK
<1>2. CASE ManagerTick
  <2>1. pc' \in [Procs -> Labels] /\ local' \in [Procs -> Frames]
    BY <1>2, TickTypes DEF ManagerTick, Procs
  <2> QED BY <1>2, <2>1 DEF ManagerTick, TypeOK
<1>3. ASSUME NEW g \in Rounds, LoopTick(g) PROVE TypeOK'
  <2>1. pc' \in [Procs -> Labels] /\ local' \in [Procs -> Frames]
    BY <1>3, TickTypes DEF LoopTick, Procs
  <2>2. ticked' \in [Rounds -> Nat]
    BY <1>3, CrashGameAssumption DEF LoopTick, TypeOK
  <2> QED BY <1>3, <2>1, <2>2 DEF LoopTick, TypeOK
<1>4. ASSUME NEW g \in Rounds, BeginLoop(g) PROVE TypeOK'
  <2>1. pc' \in [Procs -> Labels]
    BY <1>4, GotoType, LabelSet DEF BeginLoop
  <2>2. client' \in [Callers -> CallerAt]
    BY <1>4, LabelSet DEF BeginLoop, TypeOK
  <2>3. current # NoGame => game[current].crashPoint \in Nat
    BY DEF TypeOK, Games
  <2>4. clock \in Nat /\ drawn \in [Rounds -> Nat] /\ ticked \in [Rounds -> Nat]
    BY CrashGameAssumption DEF TypeOK
  <2>5. drawn' \in [Rounds -> Nat]
    BY <1>4, <2>3, <2>4 DEF BeginLoop
  <2>6. ticked' \in [Rounds -> Nat]
    BY <1>4, <2>4 DEF BeginLoop
  <2> QED BY <1>4, <2>1, <2>2, <2>5, <2>6 DEF BeginLoop, TypeOK
<1>5. ASSUME NEW g \in Rounds, StopLoop(g) \/ ShouldCrash(g) PROVE TypeOK'
  <2>1. pc' \in [Procs -> Labels]
    BY <1>5, GotoType, LabelSet DEF StopLoop, ShouldCrash
  <2> QED BY <1>5, <2>1 DEF StopLoop, ShouldCrash, TypeOK
<1> QED BY <1>1, <1>2, <1>3, <1>4, <1>5

-----------------------------------------------------------------------------
(* The engine: rounds in order *)

\* What startGameInternal, crashGame and the loops rely on.
EngineInv == ManagerKnows /\ RoundsInOrder /\ CurrentIsNewest /\ RowFollowsRound

\* A step that leaves the goroutines where they are, and the engine and its rows alone.
LEMMA EngineStill ==
    ASSUME TypeOK, EngineInv, UNCHANGED <<round, current, game, cancel, cancelled, games>>,
           UNCHANGED <<pc, request, local>>, clock' \in Nat, clock' >= clock
    PROVE  EngineInv'
<1>1. ManagerKnows' /\ CurrentIsNewest' /\ RowFollowsRound'
  BY DEF EngineInv, ManagerKnows, CurrentIsNewest, RowFollowsRound, Starting, Started
<1>2. \A g \in Rounds : game[g].startedAt \in Nat /\ clock \in Nat
  BY CrashGameAssumption DEF TypeOK, Games
<1>3. \A g \in Rounds : game'[g].startedAt <= clock'
  BY <1>2 DEF EngineInv, RoundsInOrder
<1>4. RoundsInOrder'
  BY <1>3 DEF EngineInv, RoundsInOrder, Live, Started
<1> QED BY <1>1, <1>4 DEF EngineInv

\* A step of one goroutine that leaves the engine and its rows alone.
LEMMA EngineFrame ==
    ASSUME TypeOK, EngineInv, UNCHANGED <<clock, round, current, game, cancel, cancelled, games>>,
           NEW p \in Procs, NEW l \in Labels \ {"placeBet", "cashout", "create", "install", "spawn", "store"},
           pc' = [pc EXCEPT ![p] = l],
           p = Manager => pc[p] # "install",
           \A q \in Procs \ {p} : local'[q] = local[q],
           p # Manager => request' = request,
           p \in Rounds /\ l \notin {"none", "done", "panic"} => Live(p)
    PROVE  EngineInv'
<1>1. \A q \in Procs : pc'[q] = IF q = p THEN l ELSE pc[q]
  BY DEF TypeOK
<1>2. Manager \in Procs /\ Rounds \subseteq Procs
  BY DEF Procs
<1>3. ManagerKnows'
  <2>1. CASE p = Manager
    BY <1>1, <1>2, <2>1 DEF ManagerKnows, Starting
  <2>2. CASE p # Manager
    BY <1>1, <1>2, <2>2 DEF EngineInv, ManagerKnows, Starting, Started
  <2> QED BY <2>1, <2>2
<1>4. RoundsInOrder'
  <2>1. \A q \in Procs : pc'[q] = "store" => pc[q] = "store" /\ local'[q] = local[q]
    BY <1>1
  <2>2. \A g \in Rounds : Live(g)' => Live(g)
    BY <1>1, <1>2 DEF Live
  <2> QED BY <2>1, <2>2 DEF EngineInv, RoundsInOrder, Started
<1>5. CurrentIsNewest' /\ RowFollowsRound'
  BY <1>1, <1>2 DEF EngineInv, CurrentIsNewest, RowFollowsRound
<1> QED BY <1>3, <1>4, <1>5 DEF EngineInv

\* The clock and the calls of the API do not touch the engine.
LEMMA EngineCalls ==
    ASSUME TypeOK, EngineInv, Advance \/ Call
    PROVE  EngineInv'
<1>1. UNCHANGED <<round, current, game, cancel, cancelled, games>> /\ UNCHANGED <<pc, request, local>>
  BY DEF Advance, Call, StartGame, SendStart, PlaceBet, Cashout, GiveUp, CreatePreset,
         engine, channels, callers, locals, database
<1>2. clock' \in Nat /\ clock' >= clock
  BY CrashGameAssumption
     DEF Advance, Call, StartGame, SendStart, PlaceBet, Cashout, GiveUp, CreatePreset, TypeOK
<1> QED BY <1>1, <1>2, EngineStill

\* Serving bets and cashouts; a bet is placed on a round that has started.
LEMMA EngineBets ==
    ASSUME TypeOK, EngineInv, HandlePlaceBet \/ InsertBet \/ HandleCashout \/ AtomicCashout
    PROVE  EngineInv'
<1> USE DEF engine, callers, locals, database
<1>0. Manager \in Procs /\ Manager \notin Rounds /\ clock \in Nat
  BY RoundsType, CrashGameAssumption DEF Procs, Manager, TypeOK
<1>1. CASE HandlePlaceBet
  <2>1. CASE Running
    <3>1. Head(betChan) \in Bets
      BY <1>1, TailType DEF HandlePlaceBet, TypeOK
    <3>2. current \in Rounds /\ Started(current)
      BY <2>1 DEF Running, EngineInv, RoundsInOrder, TypeOK
    <3>3. /\ UNCHANGED <<clock, round, current, game, cancel, cancelled, games>>
          /\ request' = Head(betChan)
          /\ local' = [local EXCEPT ![Manager].game = current]
          /\ pc' = [pc EXCEPT ![Manager] = "placeBet"]
      BY <1>1, <2>1 DEF HandlePlaceBet, Goto
    <3>4. /\ \A q \in Procs : pc'[q] = IF q = Manager THEN "placeBet" ELSE pc[q]
          /\ \A q \in Procs \ {Manager} : local'[q] = local[q]
          /\ pc[Manager] = "select"
      BY <1>1, <3>3 DEF TypeOK, HandlePlaceBet
    <3>5. local'[Manager].game = current
      BY <1>0, <3>3 DEF TypeOK, Frames
    <3>6. ManagerKnows'
      BY <1>0, <3>1, <3>2, <3>3, <3>4, <3>5 DEF ManagerKnows, Starting, Started
    <3>7. RoundsInOrder'
      <4>1. \A q \in Procs : pc'[q] = "store" => pc[q] = "store" /\ local'[q] = local[q]
        BY <3>4
      <4>2. \A g \in Rounds : Live(g)' => Live(g)
        BY <3>4, <1>0 DEF Live, Procs
      <4>3. UNCHANGED <<clock, round, current, game, cancel, cancelled, games>>
        BY <3>3
      <4> QED BY <4>1, <4>2, <4>3 DEF EngineInv, RoundsInOrder, Started
    <3>8. CurrentIsNewest' /\ RowFollowsRound'
      BY <1>0, <3>3, <3>4 DEF EngineInv, CurrentIsNewest, RowFollowsRound
    <3> QED BY <3>6, <3>7, <3>8 DEF EngineInv
  <2>2. CASE ~Running
    BY <1>0, <1>1, <2>2, EngineStill DEF HandlePlaceBet
  <2> QED BY <2>1, <2>2
<1>2. CASE InsertBet
  <2>1. \A q \in Procs \ {Manager} : local'[q] = local[q]
    BY <1>2 DEF InsertBet, TypeOK
  <2> QED BY <1>0, <1>2, <2>1, EngineFrame, LabelSet DEF InsertBet, Goto
<1>3. CASE HandleCashout
  <2>1. CASE current = NoGame
    BY <1>0, <1>3, <2>1, EngineStill DEF HandleCashout
  <2>2. CASE current # NoGame
    <3>1. Head(cashoutChan) \in Cashouts
      BY <1>3, TailType DEF HandleCashout, TypeOK
    <3>2. /\ UNCHANGED <<clock, round, current, game, cancel, cancelled, games, local>>
          /\ request' = Head(cashoutChan)
          /\ pc' = [pc EXCEPT ![Manager] = "cashout"]
      BY <1>3, <2>2 DEF HandleCashout, Goto
    <3>3. /\ \A q \in Procs : pc'[q] = IF q = Manager THEN "cashout" ELSE pc[q]
          /\ pc[Manager] = "select"
      BY <1>3, <3>2 DEF TypeOK, HandleCashout
    <3>4. ManagerKnows'
      BY <1>0, <3>1, <3>2, <3>3 DEF ManagerKnows, Starting
    <3>5. RoundsInOrder'
      <4>1. \A q \in Procs : pc'[q] = "store" => pc[q] = "store" /\ local'[q] = local[q]
        BY <3>2, <3>3
      <4>2. \A g \in Rounds : Live(g)' => Live(g)
        BY <3>3, <1>0 DEF Live, Procs
      <4> QED BY <4>1, <4>2, <3>2 DEF EngineInv, RoundsInOrder, Started
    <3>6. CurrentIsNewest' /\ RowFollowsRound'
      BY <1>0, <3>2, <3>3 DEF EngineInv, CurrentIsNewest, RowFollowsRound
    <3> QED BY <3>4, <3>5, <3>6 DEF EngineInv
  <2> QED BY <2>1, <2>2
<1>4. CASE AtomicCashout
  BY <1>0, <1>4, EngineFrame, LabelSet DEF AtomicCashout, Goto
<1> QED BY <1>1, <1>2, <1>3, <1>4

\* startGameInternal: a new round follows the last one, and the loop before it is cancelled.
LEMMA EngineStarts ==
    ASSUME TypeOK, EngineInv, RoundsAreAskedFor, HandleStart \/ CreateGame \/ InstallGame \/ SpawnLoop
    PROVE  EngineInv'
<1> USE DEF engine, callers, locals, database
<1>0. /\ Manager \in Procs /\ Manager \notin Rounds /\ Rounds \subseteq Procs /\ Rounds \subseteq Nat
      /\ NoGame \notin Rounds /\ clock \in Nat /\ round \in Nat /\ pc \in [Procs -> Labels]
      /\ current # NoGame => current \in Rounds
  BY RoundsType, CrashGameAssumption DEF Procs, Manager, NoGame, TypeOK
<1>1. CASE HandleStart
  <2>1. /\ UNCHANGED <<clock, current, game, cancel, games, local, request>>
        /\ round' = round + 1 /\ cancelled' = cancelled \cup ({cancel} \ {NoGame})
        /\ pc[Manager] = "select"
        /\ \A q \in Procs : pc'[q] = IF q = Manager THEN "create" ELSE pc[q]
    BY <1>0, <1>1 DEF HandleStart, CancelLoop, Goto
  <2>2. round + 1 \in Rounds
    BY <1>1, StartHasARound DEF HandleStart
  <2>3. ManagerKnows'
    BY <1>0, <2>1, <2>2 DEF EngineInv, ManagerKnows, RoundsInOrder, Starting
  <2>4. RoundsInOrder'
    <3>1. \A g \in Rounds : Live(g)' => Live(g)
      BY <1>0, <2>1 DEF Live
    <3>7. /\ \A g \in Rounds : g > round => games[g] = "none" /\ game[g].status = "none"
          /\ current # NoGame => current <= round /\ Started(current)
      BY DEF EngineInv, RoundsInOrder
    <3>2. \A g \in Rounds : g > round + 1 => games[g] = "none" /\ game[g].status = "none"
      BY <1>0, <3>7
    <3>3. current # NoGame => current <= round + 1 /\ Started(current)
      <4>1. current # NoGame => current \in Nat /\ current <= round
        BY <1>0, <3>7
      <4>2. current # NoGame => current <= round + 1
        BY <1>0, <4>1
      <4> QED BY <3>7, <4>2
    <3>4. \A q \in Procs : pc'[q] = "store" =>
              local[q].game \in Rounds /\ game[local[q].game].status = "CRASHED"
      BY <1>0, <2>1 DEF EngineInv, RoundsInOrder
    <3>5. \A g \in Rounds : game[g].startedAt <= clock
      BY DEF EngineInv, RoundsInOrder
    <3>6. \A g \in Rounds : Live(g)' /\ g \notin cancelled' => g = cancel
      BY <2>1, <3>1 DEF EngineInv, RoundsInOrder
    <3> QED BY <2>1, <3>2, <3>3, <3>4, <3>5, <3>6 DEF RoundsInOrder, Started
  <2>5. CurrentIsNewest' /\ RowFollowsRound'
    BY <1>0, <2>1 DEF EngineInv, CurrentIsNewest, RowFollowsRound
  <2> QED BY <2>3, <2>4, <2>5 DEF EngineInv
<1>2. CASE CreateGame
  <2>1. PICK cp \in CrashPoints, inserted \in BOOLEAN, answer \in {"install", "select"} :
        /\ answer = "install" => inserted
        /\ games' = [games EXCEPT ![round] = IF inserted THEN "RUNNING" ELSE @]
        /\ game' = [game EXCEPT ![round] =
              IF answer = "install" THEN [status |-> "RUNNING", startedAt |-> clock, crashPoint |-> cp]
                                    ELSE @]
        /\ Goto(Manager, answer)
    BY <1>2 DEF CreateGame
  <2>2. /\ UNCHANGED <<clock, round, current, cancel, cancelled, local, request>>
        /\ pc[Manager] = "create"
        /\ \A q \in Procs : pc'[q] = IF q = Manager THEN answer ELSE pc[q]
    BY <1>0, <1>2, <2>1 DEF CreateGame, Goto
  <2>3. round \in Rounds /\ games[round] = "none" /\ game[round].status = "none"
    BY <2>2 DEF EngineInv, ManagerKnows, Starting
  <2>4. /\ \A g \in Rounds \ {round} : games'[g] = games[g] /\ game'[g] = game[g]
        /\ games'[round] = IF inserted THEN "RUNNING" ELSE "none"
        /\ game'[round].status = IF answer = "install" THEN "RUNNING" ELSE "none"
        /\ answer # "install" => game'[round] = game[round]
        /\ answer = "install" => game'[round].startedAt = clock
    BY <2>1, <2>3 DEF TypeOK
  <2>5. ManagerKnows'
    BY <1>0, <2>1, <2>2, <2>3, <2>4 DEF EngineInv, ManagerKnows, Starting, Started
  <2>6. RoundsInOrder'
    <3>1. \A g \in Rounds : g > round => games'[g] = "none" /\ game'[g].status = "none"
      BY <1>0, <2>3, <2>4 DEF EngineInv, RoundsInOrder
    <3>2. current # NoGame => current <= round /\ Started(current)'
      BY <1>0, <2>2, <2>3, <2>4 DEF EngineInv, RoundsInOrder, Started
    <3>3. \A g \in Rounds : game'[g].startedAt <= clock
      <4>1. \A g \in Rounds : game[g].startedAt <= clock
        BY DEF EngineInv, RoundsInOrder
      <4>2. \A g \in Rounds : game'[g] = game[g] \/ game'[g].startedAt = clock
        BY <2>1, <2>3, <2>4
      <4> QED BY <1>0, <4>1, <4>2
    <3>4. \A p \in Procs : pc'[p] = "store" =>
              local[p].game \in Rounds /\ game'[local[p].game].status = "CRASHED"
      <4>1. \A p \in Procs : pc'[p] = "store" => pc[p] = "store"
        BY <2>1, <2>2
      <4> QED BY <2>3, <2>4, <4>1 DEF EngineInv, RoundsInOrder
    <3>5. \A g \in Rounds : Live(g)' => Live(g)
      BY <1>0, <2>2 DEF Live
    <3> QED BY <2>2, <3>1, <3>2, <3>3, <3>4, <3>5 DEF EngineInv, RoundsInOrder
  <2>7. CurrentIsNewest'
    BY <1>0, <2>1, <2>2, <2>3, <2>4 DEF EngineInv, CurrentIsNewest
  <2>8. RowFollowsRound'
    BY <2>3, <2>4 DEF EngineInv, RowFollowsRound
  <2> QED BY <2>5, <2>6, <2>7, <2>8 DEF EngineInv
<1>3. CASE InstallGame
  <2>1. /\ UNCHANGED <<clock, round, game, cancel, cancelled, games, local, request>>
        /\ current' = round /\ pc[Manager] = "install"
        /\ \A q \in Procs : pc'[q] = IF q = Manager THEN "spawn" ELSE pc[q]
    BY <1>0, <1>3 DEF InstallGame, Goto
  <2>2. round \in Rounds /\ Started(round) /\ cancel \in cancelled \cup {NoGame}
    BY <2>1 DEF EngineInv, ManagerKnows, Starting
  <2>3. ManagerKnows'
    BY <1>0, <2>1, <2>2 DEF ManagerKnows, Starting, Started
  <2>4. RoundsInOrder'
    <3>1. \A g \in Rounds : Live(g)' => Live(g)
      BY <1>0, <2>1 DEF Live
    <3>2. \A q \in Procs : pc'[q] = "store" =>
              local[q].game \in Rounds /\ game[local[q].game].status = "CRASHED"
      BY <1>0, <2>1 DEF EngineInv, RoundsInOrder
    <3>3. \A g \in Rounds : Live(g)' /\ g \notin cancelled => g = cancel
      BY <3>1 DEF EngineInv, RoundsInOrder
    <3>4. /\ \A g \in Rounds : g > round => games[g] = "none" /\ game[g].status = "none"
          /\ \A g \in Rounds : game[g].startedAt <= clock
      BY DEF EngineInv, RoundsInOrder
    <3> QED BY <1>0, <2>1, <2>2, <3>2, <3>3, <3>4 DEF RoundsInOrder, Started
  <2>5. CurrentIsNewest' /\ RowFollowsRound'
    BY <1>0, <2>1 DEF EngineInv, RoundsInOrder, CurrentIsNewest, RowFollowsRound
  <2> QED BY <2>3, <2>4, <2>5 DEF EngineInv
<1>4. CASE SpawnLoop
  <2>1. pc[Manager] = "spawn" /\ round \in Rounds /\ cancel \in cancelled \cup {NoGame}
    BY <1>4 DEF SpawnLoop, EngineInv, ManagerKnows, Starting
  <2>2. /\ UNCHANGED <<clock, round, current, game, cancelled, games, local, request>>
        /\ cancel' = round
        /\ \A q \in Procs : pc'[q] = IF q = Manager THEN "select" ELSE IF q = round THEN "begin" ELSE pc[q]
    BY <1>0, <1>4, <2>1 DEF SpawnLoop
  <2>3. ManagerKnows'
    BY <1>0, <2>2 DEF ManagerKnows, Starting
  <2>4. RoundsInOrder'
    <3>1. \A g \in Rounds \ {round} : Live(g)' => Live(g)
      BY <1>0, <2>2 DEF Live
    <3>2. \A g \in Rounds : Live(g) /\ g \notin cancelled => g = cancel
      BY DEF EngineInv, RoundsInOrder
    <3>3. \A g \in Rounds : g # NoGame
      BY <1>0
    <3>4. ASSUME NEW g \in Rounds, Live(g)', g \notin cancelled PROVE g = round
      BY <2>1, <3>1, <3>2, <3>3, <3>4
    <3> QED BY <1>0, <2>2, <3>4 DEF EngineInv, RoundsInOrder, Started
  <2>5. CurrentIsNewest' /\ RowFollowsRound'
    BY <1>0, <2>1, <2>2 DEF EngineInv, CurrentIsNewest, RowFollowsRound
  <2> QED BY <2>3, <2>4, <2>5 DEF EngineInv
<1> QED BY <1>1, <1>2, <1>3, <1>4

\* crashGame: what is stored has crashed, whoever stores it and however late.
LEMMA EngineCrashes ==
    ASSUME TypeOK, EngineInv, NEW p \in Procs, MarkCrashed(p) \/ StoreCrash(p) \/ ClearGame(p)
    PROVE  EngineInv'
<1> USE DEF engine, callers, locals, database
<1>0. /\ Manager \in Procs /\ Manager \notin Rounds /\ Rounds \subseteq Procs /\ Rounds \subseteq Nat
      /\ NoGame \notin Rounds /\ clock \in Nat /\ round \in Nat /\ pc \in [Procs -> Labels]
      /\ current # NoGame => current \in Rounds /\ Started(current)
  BY RoundsType, CrashGameAssumption DEF Procs, Manager, NoGame, TypeOK, EngineInv, RoundsInOrder
<1>1. CASE MarkCrashed(p)
  <2>1. /\ UNCHANGED <<clock, round, current, cancel, cancelled, games, request>>
        /\ pc[p] = "crash"
        /\ \A q \in Procs : pc'[q] = IF q = p THEN (IF current = NoGame THEN AfterCrash(p) ELSE "store")
                                         ELSE pc[q]
    BY <1>0, <1>1 DEF MarkCrashed, Goto
  <2>2. local'[p].game = current /\ \A q \in Procs \ {p} : local'[q] = local[q]
    <3>1. local[p] \in Frames /\ local \in [Procs -> Frames]
      BY DEF TypeOK
    <3> QED BY <1>1, <3>1 DEF MarkCrashed, Frames
  <2>3. /\ \A g \in Rounds : g # current => game'[g] = game[g]
        /\ current # NoGame => game'[current].status = "CRASHED"
        /\ \A g \in Rounds : game'[g].startedAt = game[g].startedAt
    <3>1. \A g \in Rounds : game[g] \in Games
      BY DEF TypeOK
    <3> QED BY <1>0, <1>1, <3>1 DEF MarkCrashed, Games
  <2>4. \A g \in Rounds :
              /\ game'[g].status = "none" <=> game[g].status = "none"
              /\ game[g].status = "CRASHED" => game'[g].status = "CRASHED"
    <3>1. \A g \in Rounds : g # current =>
              /\ game'[g].status = "none" <=> game[g].status = "none"
              /\ game[g].status = "CRASHED" => game'[g].status = "CRASHED"
      BY <2>3
    <3>2. current # NoGame => game[current].status # "none" /\ game'[current].status = "CRASHED"
      BY <1>0, <2>3 DEF Started
    <3> QED BY <1>0, <3>1, <3>2
  <2>5. AfterCrash(p) \in {"settle", "done"} /\ (p \in Rounds => AfterCrash(p) = "done")
    BY <1>0 DEF AfterCrash
  <2>6. ManagerKnows'
    <3>1. CASE p = Manager
      BY <1>0, <2>1, <2>5, <3>1 DEF ManagerKnows, Starting
    <3>2. CASE p # Manager
      <4>1. \A g \in Rounds : Started(g)' <=> Started(g)
        BY <2>1, <2>4 DEF Started
      <4>2. pc'[Manager] = pc[Manager] /\ local'[Manager] = local[Manager]
        BY <1>0, <2>1, <2>2, <3>2
      <4> HIDE DEF Started
      <4> QED BY <2>1, <2>4, <4>1, <4>2 DEF EngineInv, ManagerKnows, Starting
    <3> QED BY <3>1, <3>2
  <2>7. RoundsInOrder'
    <3>1. \A q \in Procs : pc'[q] = "store" =>
              local'[q].game \in Rounds /\ game'[local'[q].game].status = "CRASHED"
      <4>1. \A q \in Procs : pc[q] = "store" =>
                local[q].game \in Rounds /\ game[local[q].game].status = "CRASHED"
        BY DEF EngineInv, RoundsInOrder
      <4>2. \A q \in Procs : q # p /\ pc'[q] = "store" =>
                local'[q].game \in Rounds /\ game'[local'[q].game].status = "CRASHED"
        BY <2>1, <2>2, <2>4, <4>1
      <4>3. pc'[p] = "store" => current # NoGame
        BY <2>1, <2>5
      <4> QED BY <1>0, <2>2, <2>3, <4>2, <4>3
    <3>2. \A g \in Rounds : Live(g)' => Live(g)
      BY <1>0, <2>1 DEF Live
    <3>3. \A g \in Rounds : game'[g].startedAt <= clock
      BY <2>3 DEF EngineInv, RoundsInOrder
    <3>4. \A g \in Rounds : g > round => games[g] = "none" /\ game'[g].status = "none"
      BY <2>4 DEF EngineInv, RoundsInOrder
    <3>5. current # NoGame => current <= round /\ Started(current)'
      BY <1>0, <2>1, <2>4 DEF EngineInv, RoundsInOrder, Started
    <3>6. \A g \in Rounds : Live(g)' /\ g \notin cancelled => g = cancel
      BY <3>2 DEF EngineInv, RoundsInOrder
    <3> QED BY <2>1, <3>1, <3>3, <3>4, <3>5, <3>6 DEF RoundsInOrder
  <2>8. CurrentIsNewest' /\ RowFollowsRound'
    <3>1. pc'[Manager] = "install" <=> pc[Manager] = "install"
      BY <1>0, <2>1, <2>5
    <3> QED BY <2>1, <2>4, <3>1 DEF EngineInv, CurrentIsNewest, RowFollowsRound
  <2> QED BY <2>6, <2>7, <2>8 DEF EngineInv
<1>2. CASE StoreCrash(p)
  <2>1. /\ UNCHANGED <<clock, round, current, game, cancel, cancelled, local, request>>
        /\ pc[p] = "store"
        /\ \A q \in Procs : pc'[q] = IF q = p THEN "clear" ELSE pc[q]
        /\ games' = [games EXCEPT ![local[p].game] = "CRASHED"] \/ games' = games
    BY <1>0, <1>2 DEF StoreCrash, Goto
  <2>2. local[p].game \in Rounds /\ game[local[p].game].status = "CRASHED"
    BY <2>1 DEF EngineInv, RoundsInOrder
  <2>3. \A g \in Rounds : games'[g] = games[g] \/ (games'[g] = "CRASHED" /\ game[g].status = "CRASHED")
    BY <2>1, <2>2 DEF TypeOK
  <2>4. ManagerKnows'
    BY <1>0, <2>1, <2>3 DEF EngineInv, ManagerKnows, Starting, Started
  <2>5. RoundsInOrder'
    <3>1. \A g \in Rounds : Live(g)' => Live(g)
      BY <1>0, <2>1 DEF Live
    <3> QED BY <1>0, <2>1, <2>3, <3>1 DEF EngineInv, RoundsInOrder, Started
  <2>6. CurrentIsNewest' /\ RowFollowsRound'
    BY <1>0, <2>1, <2>3 DEF EngineInv, CurrentIsNewest, RowFollowsRound
  <2> QED BY <2>4, <2>5, <2>6 DEF EngineInv
<1>3. CASE ClearGame(p)
  <2>1. /\ UNCHANGED <<clock, round, game, cancel, cancelled, games, request>>
        /\ current' = NoGame /\ pc[p] = "clear"
        /\ \A q \in Procs : pc'[q] = IF q = p THEN AfterCrash(p) ELSE pc[q]
        /\ \A q \in Procs \ {p} : local'[q] = local[q]
    BY <1>0, <1>3 DEF ClearGame, Goto, TypeOK
  <2>2. AfterCrash(p) \in {"settle", "done"} /\ (p \in Rounds => AfterCrash(p) = "done")
    BY <1>0 DEF AfterCrash
  <2>3. ManagerKnows'
    <3>1. CASE p = Manager
      BY <1>0, <2>1, <2>2, <3>1 DEF ManagerKnows, Starting
    <3>2. CASE p # Manager
      BY <1>0, <2>1, <3>2 DEF EngineInv, ManagerKnows, Starting, Started
    <3> QED BY <3>1, <3>2
  <2>4. RoundsInOrder'
    <3>1. \A g \in Rounds : Live(g)' => Live(g)
      BY <1>0, <2>1 DEF Live
    <3> QED BY <1>0, <2>1, <2>2, <3>1 DEF EngineInv, RoundsInOrder, Started
  <2>5. CurrentIsNewest' /\ RowFollowsRound'
    BY <1>0, <2>1, <2>2 DEF EngineInv, CurrentIsNewest, RowFollowsRound
  <2> QED BY <2>3, <2>4, <2>5 DEF EngineInv
<1> QED BY <1>1, <1>2, <1>3

\* The steps that leave the engine and its rows alone.
LEMMA EngineQuiet ==
    ASSUME TypeOK, EngineInv, NEW p \in Procs,
           \/ SendCrash(p) \/ ListActive(p) \/ AutoCashout(p) \/ EndTick(p)
           \/ p = Manager /\ (HandleCrash \/ ManagerTick)
           \/ p \in Rounds /\ (StopLoop(p) \/ LoopTick(p) \/ ShouldCrash(p))
    PROVE  EngineInv'
<1> USE DEF engine, channels, callers, locals, database
<1>0. /\ Manager \in Procs /\ Manager \notin Rounds /\ clock \in Nat
      /\ "select" \in Labels /\ "check" \in Labels /\ "crash" \in Labels /\ "auto" \in Labels
      /\ "send" \in Labels /\ "list" \in Labels /\ "done" \in Labels
  BY RoundsType, CrashGameAssumption, LabelSet DEF Procs, Manager, TypeOK
<1>1. CASE SendCrash(p)
  <2>1. /\ UNCHANGED <<clock, round, current, game, cancel, cancelled, games, local, request>>
        /\ pc[p] = "send" /\ pc' = [pc EXCEPT ![p] = AfterTick(p)]
    BY <1>1 DEF SendCrash, Goto
  <2>2. AfterTick(p) \in {"select", "check"}
    BY DEF AfterTick
  <2> QED BY <1>0, <2>1, <2>2, EngineFrame DEF Live
<1>2. CASE ListActive(p)
  <2>1. /\ UNCHANGED <<clock, round, current, game, cancel, cancelled, games, local, request>>
        /\ pc[p] = "list" /\ pc' = [pc EXCEPT ![p] = "auto"]
    BY <1>2 DEF ListActive, Goto
  <2> QED BY <1>0, <2>1, EngineFrame DEF Live
<1>3. CASE AutoCashout(p)
  BY <1>0, <1>3, EngineStill DEF AutoCashout
<1>4. CASE EndTick(p)
  <2>1. /\ UNCHANGED <<clock, round, current, game, cancel, cancelled, games, request>>
        /\ pc[p] = "auto" /\ pc' = [pc EXCEPT ![p] = AfterTick(p)]
        /\ \A q \in Procs \ {p} : local'[q] = local[q]
    BY <1>4 DEF EndTick, Goto, TypeOK
  <2>2. AfterTick(p) \in {"select", "check"}
    BY DEF AfterTick
  <2> QED BY <1>0, <2>1, <2>2, EngineFrame DEF Live
<1>5. CASE p = Manager /\ HandleCrash
  <2>1. /\ UNCHANGED <<clock, round, current, game, cancel, cancelled, games, local, request>>
        /\ pc[Manager] = "select"
        /\ pc' = [pc EXCEPT ![Manager] = IF current = NoGame THEN "select" ELSE "crash"]
    BY <1>5 DEF HandleCrash, Goto
  <2> QED BY <1>0, <1>5, <2>1, EngineFrame
<1>6. CASE (p = Manager /\ ManagerTick) \/ (p \in Rounds /\ LoopTick(p))
  <2>1. /\ UNCHANGED <<clock, round, current, game, cancel, cancelled, games, request>>
        /\ pc[p] = "select" /\ \A q \in Procs \ {p} : local'[q] = local[q]
    BY <1>6 DEF ManagerTick, LoopTick, Tick, TypeOK
  <2>2. PICK l \in {"select", "check", "send", "list"} : pc' = [pc EXCEPT ![p] = l]
    BY <1>6 DEF ManagerTick, LoopTick, Tick, Goto, AfterTick
  <2> QED BY <1>0, <2>1, <2>2, EngineFrame DEF Live
<1>7. CASE p \in Rounds /\ StopLoop(p)
  <2>1. /\ UNCHANGED <<clock, round, current, game, cancel, cancelled, games, local, request>>
        /\ pc' = [pc EXCEPT ![p] = "done"]
    BY <1>7 DEF StopLoop, Goto
  <2> QED BY <1>0, <1>7, <2>1, EngineFrame
<1>8. CASE p \in Rounds /\ ShouldCrash(p)
  <2>1. /\ UNCHANGED <<clock, round, current, game, cancel, cancelled, games, local, request>>
        /\ pc[p] = "check"
    BY <1>8 DEF ShouldCrash
  <2>2. PICK l \in {"crash", "select"} : pc' = [pc EXCEPT ![p] = l]
    BY <1>8 DEF ShouldCrash, Goto
  <2> QED BY <1>0, <1>8, <2>1, <2>2, EngineFrame DEF Live
<1> QED BY <1>1, <1>2, <1>3, <1>4, <1>5, <1>6, <1>7, <1>8

\* The end of crashGameInternal and the beginning of a loop.
LEMMA EngineEnds ==
    ASSUME TypeOK, EngineInv, SettleBets \/ \E g \in Rounds : BeginLoop(g)
    PROVE  EngineInv'
<1> USE DEF engine, channels, callers, locals, database
<1>0. /\ Manager \in Procs /\ Manager \notin Rounds /\ Rounds \subseteq Procs /\ Rounds \subseteq Nat
      /\ NoGame \notin Rounds /\ clock \in Nat /\ round \in Nat /\ pc \in [Procs -> Labels]
  BY RoundsType, CrashGameAssumption DEF Procs, Manager, NoGame, TypeOK
<1>1. CASE SettleBets
  <2>1. /\ UNCHANGED <<clock, round, game, games, local, request>>
        /\ current' = NoGame /\ cancel' = NoGame /\ cancelled' = cancelled \cup ({cancel} \ {NoGame})
        /\ \A q \in Procs : pc'[q] = IF q = Manager THEN "select" ELSE pc[q]
    BY <1>0, <1>1 DEF SettleBets, CancelLoop, Goto
  <2>2. ManagerKnows'
    BY <1>0, <2>1 DEF ManagerKnows, Starting
  <2>3. RoundsInOrder'
    <3>1. \A q \in Procs : pc'[q] = "store" =>
              local[q].game \in Rounds /\ game[local[q].game].status = "CRASHED"
      BY <1>0, <2>1 DEF EngineInv, RoundsInOrder
    <3>2. \A g \in Rounds : Live(g)' => Live(g)
      BY <1>0, <2>1 DEF Live
    <3>3. \A g \in Rounds : ~(Live(g)' /\ g \notin cancelled')
      BY <1>0, <2>1, <3>2 DEF EngineInv, RoundsInOrder
    <3>4. /\ \A g \in Rounds : g > round => games[g] = "none" /\ game[g].status = "none"
          /\ \A g \in Rounds : game[g].startedAt <= clock
      BY DEF EngineInv, RoundsInOrder
    <3> QED BY <2>1, <3>1, <3>3, <3>4 DEF RoundsInOrder
  <2>4. CurrentIsNewest' /\ RowFollowsRound'
    BY <2>1 DEF EngineInv, CurrentIsNewest, RowFollowsRound
  <2> QED BY <2>2, <2>3, <2>4 DEF EngineInv
<1>2. ASSUME NEW g \in Rounds, BeginLoop(g) PROVE EngineInv'
  <2>1. CASE current # NoGame
    <3>1. /\ UNCHANGED <<clock, round, current, game, cancel, cancelled, games, local, request>>
          /\ pc[g] = "begin" /\ pc' = [pc EXCEPT ![g] = "select"]
      BY <1>2, <2>1 DEF BeginLoop, Goto
    <3> QED BY <1>0, <3>1, EngineFrame, LabelSet DEF Live
  <2>2. CASE current = NoGame
    <3>1. /\ UNCHANGED <<clock, round, current, game, cancel, cancelled, games, local, request>>
          /\ \A p \in Procs : pc'[p] = "panic"
      BY <1>2, <2>2 DEF BeginLoop
    <3>2. ManagerKnows'
      BY <1>0, <3>1 DEF ManagerKnows, Starting
    <3>3. RoundsInOrder'
      BY <1>0, <2>2, <3>1 DEF EngineInv, RoundsInOrder, Live
    <3>4. CurrentIsNewest' /\ RowFollowsRound'
      BY <2>2, <3>1 DEF EngineInv, CurrentIsNewest, RowFollowsRound
    <3> QED BY <3>2, <3>3, <3>4 DEF EngineInv
  <2> QED BY <2>1, <2>2
<1> QED BY <1>1, <1>2

-----------------------------------------------------------------------------
(* What callers are told *)

\* An answer reaches one caller, once.
LEMMA ReplyKeeps ==
    ASSUME TypeOK, NEW c \in Callers, NEW answer \in {"ok", "failed"}, Reply(c, answer)
    PROVE  \A d \in Callers :
              /\ d # c => client'[d] = client[d]
              /\ client[d] = "ok" => client'[d] = "ok"
              /\ client'[d] = "new" => client[d] = "new"
              /\ client'[d] = "ok" => client[d] = "ok" \/ (d = c /\ answer = "ok")
BY DEF TypeOK, Reply

\* Only the insert of a bet tells its player that it was placed, only the update of
\* its row tells him that it was cashed out, and neither answer is ever withdrawn.
LEMMA Answered ==
    ASSUME TypeOK, ManagerKnows, Next
    PROVE  \A d \in Callers :
              /\ client[d] = "ok" => client'[d] = "ok"
              /\ client'[d] = "new" => client[d] = "new"
              /\ d \in Bets /\ client'[d] = "ok" /\ client[d] # "ok" => InsertBet
              /\ d \in Cashouts /\ client'[d] = "ok" /\ client[d] # "ok" => AtomicCashout
<1> DEFINE Kept(d) ==
              /\ client[d] = "ok" => client'[d] = "ok"
              /\ client'[d] = "new" => client[d] = "new"
              /\ d \in Bets /\ client'[d] = "ok" /\ client[d] # "ok" => InsertBet
              /\ d \in Cashouts /\ client'[d] = "ok" /\ client[d] # "ok" => AtomicCashout
<1> SUFFICES \A d \in Callers : Kept(d)
  OBVIOUS
<1> USE DEF callers, locals
<1>0. /\ Starters \cap (Bets \cup Cashouts) = {} /\ Bets \cap Cashouts = {}
      /\ Callers = Starters \cup Bets \cup Cashouts
  BY CrashGameAssumption DEF Callers
<1>1. CASE Call
  <2>1. ASSUME NEW s \in Starters, StartGame(s) \/ SendStart(s) PROVE \A d \in Callers : Kept(d)
    BY <1>0, <2>1 DEF StartGame, SendStart, TypeOK
  <2>2. ASSUME NEW b \in Bets, PlaceBet(b) PROVE \A d \in Callers : Kept(d)
    BY <1>0, <2>2 DEF PlaceBet, TypeOK
  <2>3. ASSUME NEW c \in Cashouts, Cashout(c) PROVE \A d \in Callers : Kept(d)
    BY <1>0, <2>3 DEF Cashout, TypeOK
  <2>4. ASSUME NEW c \in Callers, GiveUp(c) PROVE \A d \in Callers : Kept(d)
    BY <1>0, <2>4 DEF GiveUp, TypeOK
  <2>5. ASSUME NEW b \in Preset, CreatePreset(b) PROVE \A d \in Callers : Kept(d)
    BY <2>5 DEF CreatePreset
  <2> QED BY <1>1, <2>1, <2>2, <2>3, <2>4, <2>5 DEF Call
<1>2. CASE HandlePlaceBet
  <2>1. Head(betChan) \in Callers
    BY <1>0, <1>2, TailType DEF HandlePlaceBet, TypeOK
  <2>2. UNCHANGED client \/ Reply(Head(betChan), "failed")
    BY <1>2 DEF HandlePlaceBet
  <2> QED BY <2>1, <2>2, ReplyKeeps
<1>3. CASE HandleCashout
  <2>1. Head(cashoutChan) \in Callers
    BY <1>0, <1>3, TailType DEF HandleCashout, TypeOK
  <2>2. UNCHANGED client \/ Reply(Head(cashoutChan), "failed")
    BY <1>3 DEF HandleCashout
  <2> QED BY <2>1, <2>2, ReplyKeeps
<1>4. CASE InsertBet
  <2>1. request \in Bets
    BY <1>4 DEF InsertBet, ManagerKnows
  <2>2. PICK answer \in {"ok", "failed"} : Reply(request, answer)
    BY <1>4 DEF InsertBet, Answers
  <2> QED BY <1>0, <1>4, <2>1, <2>2, ReplyKeeps
<1>5. CASE AtomicCashout
  <2>1. request \in Cashouts
    BY <1>5 DEF AtomicCashout, ManagerKnows
  <2>2. PICK answer \in {"ok", "failed"} : Reply(request, answer)
    BY <1>5 DEF AtomicCashout, Answers
  <2> QED BY <1>0, <1>5, <2>1, <2>2, ReplyKeeps
<1>6. ASSUME NEW g \in Rounds, BeginLoop(g) PROVE \A d \in Callers : Kept(d)
  BY <1>6 DEF BeginLoop, TypeOK
<1>7. ASSUME \/ Advance \/ HandleStart \/ CreateGame \/ InstallGame \/ SpawnLoop
             \/ HandleCrash \/ SettleBets \/ ManagerTick
      PROVE  UNCHANGED client
  BY <1>7 DEF Advance, HandleStart, CreateGame, InstallGame, SpawnLoop, HandleCrash, SettleBets, ManagerTick
<1>8. ASSUME NEW p \in Procs, Shared(p) PROVE UNCHANGED client
  BY <1>8 DEF Shared, MarkCrashed, StoreCrash, ClearGame, SendCrash, ListActive, AutoCashout, EndTick
<1>9. ASSUME NEW g \in Rounds, StopLoop(g) \/ LoopTick(g) \/ ShouldCrash(g) PROVE UNCHANGED client
  BY <1>9 DEF StopLoop, LoopTick, ShouldCrash
<1>10. UNCHANGED client => \A d \in Callers : Kept(d)
  OBVIOUS
<1> HIDE DEF Kept
<1> QED
  BY <1>1, <1>2, <1>3, <1>4, <1>5, <1>6, <1>7, <1>8, <1>9, <1>10 DEF Next, ManagerStep, LoopStep, Procs

\* Every step keeps the rounds within the STARTs that were sent.
LEMMA AskedForStep ==
    ASSUME TypeOK, RoundsAreAskedFor, ManagerKnows, Next
    PROVE  RoundsAreAskedFor'
<1> USE DEF callers, locals, engine, channels, database
<1>0. \A s \in Starters : client[s] = "ok" => client'[s] = "ok"
  BY Answered DEF Callers
<1>1. CASE UNCHANGED <<round, commandChan>>
  BY <1>0, <1>1, AskedForFrame
<1>2. Sent \subseteq Sent' /\ Cardinality(Sent) <= Cardinality(Sent')
      /\ Cardinality(Sent') \in Nat /\ Cardinality(Sent) \in Nat /\ IsFiniteSet(Sent) /\ IsFiniteSet(Sent')
  <2>1. Sent \subseteq Sent' /\ IsFiniteSet(Sent')
    BY <1>0, CrashGameAssumption, FS_Subset DEF Sent
  <2> QED BY <2>1, SentFinite, FS_Subset, FS_CardinalityType
<1>3. round \in Nat /\ commandChan \in Seq({"START", "CRASH"}) /\ Cardinality(Starts(commandChan)) \in Nat
  BY StartsFinite, RoundsType DEF TypeOK
<1>4. Starts(commandChan)' = Starts(commandChan')
  BY DEF Starts
<1>5. ASSUME NEW s \in Starters, SendStart(s) PROVE RoundsAreAskedFor'
  <2>1. commandChan' = Append(commandChan, "START") /\ round' = round
        /\ s \notin Sent /\ s \in Sent'
    BY <1>5 DEF SendStart, Sent, TypeOK, Callers
  <2>2. Sent \cup {s} \subseteq Sent' /\ Cardinality(Sent \cup {s}) = Cardinality(Sent) + 1
    BY <1>2, <2>1, FS_AddElement
  <2>3. Cardinality(Sent) + 1 <= Cardinality(Sent')
    BY <1>2, <2>2, FS_Subset
  <2>4. Cardinality(Starts(commandChan')) <= Cardinality(Starts(commandChan)) + 1
        /\ Cardinality(Starts(commandChan')) \in Nat
    BY <1>3, <2>1, AppendStarts, StartsFinite, AppendType
  <2> QED BY <1>2, <1>3, <1>4, <2>1, <2>3, <2>4 DEF RoundsAreAskedFor
<1>6. ASSUME NEW p \in Procs, SendCrash(p) PROVE RoundsAreAskedFor'
  <2>1. commandChan' = Append(commandChan, "CRASH") /\ round' = round
    BY <1>6 DEF SendCrash
  <2>2. Cardinality(Starts(commandChan')) <= Cardinality(Starts(commandChan))
        /\ Cardinality(Starts(commandChan')) \in Nat
    <3>1. Append(commandChan, "CRASH") \in Seq({"START", "CRASH"})
      BY <1>3, AppendType
    <3>2. Cardinality(Starts(Append(commandChan, "CRASH")))
            <= Cardinality(Starts(commandChan)) + (IF "CRASH" = "START" THEN 1 ELSE 0)
      BY <1>3, AppendStarts
    <3>3. Cardinality(Starts(Append(commandChan, "CRASH"))) \in Nat
      BY <3>1, StartsFinite
    <3> QED BY <1>3, <2>1, <3>2, <3>3
  <2> QED BY <1>2, <1>3, <1>4, <2>1, <2>2 DEF RoundsAreAskedFor
<1>7. CASE HandleStart
  <2>1. commandChan' = Tail(commandChan) /\ round' = round + 1
    BY <1>7 DEF HandleStart
  <2>2. round + 1 + Cardinality(Starts(Tail(commandChan))) <= Cardinality(Sent)
    BY <1>7, StartHasARound DEF HandleStart
  <2>3. Cardinality(Starts(Tail(commandChan))) \in Nat
    BY <1>3, <1>7, StartsFinite, TailType DEF HandleStart
  <2> QED BY <1>2, <1>3, <1>4, <2>1, <2>2, <2>3 DEF RoundsAreAskedFor
<1>8. CASE HandleCrash
  <2>1. commandChan # <<>> /\ commandChan' = Tail(commandChan) /\ round' = round /\ Head(commandChan) = "CRASH"
    BY <1>8 DEF HandleCrash
  <2>2. Cardinality(Starts(Tail(commandChan))) <= Cardinality(Starts(commandChan))
        /\ Cardinality(Starts(Tail(commandChan))) \in Nat
    <3>1. Tail(commandChan) \in Seq({"START", "CRASH"})
      BY <1>3, <2>1, TailType
    <3>2. Cardinality(Starts(Tail(commandChan))) + (IF Head(commandChan) = "START" THEN 1 ELSE 0)
            <= Cardinality(Starts(commandChan))
      BY <1>3, <2>1, TailStarts
    <3>3. Cardinality(Starts(Tail(commandChan))) \in Nat
      BY <3>1, StartsFinite
    <3> QED BY <1>3, <2>1, <3>2, <3>3
  <2> QED BY <1>2, <1>3, <1>4, <2>1, <2>2 DEF RoundsAreAskedFor
<1>9. ASSUME Call, \A s \in Starters : ~SendStart(s) PROVE UNCHANGED <<round, commandChan>>
  BY <1>9 DEF Call, StartGame, PlaceBet, Cashout, GiveUp, CreatePreset
<1>10. ASSUME \/ Advance \/ HandlePlaceBet \/ InsertBet \/ HandleCashout \/ AtomicCashout
              \/ CreateGame \/ InstallGame \/ SpawnLoop \/ SettleBets \/ ManagerTick
       PROVE  UNCHANGED <<round, commandChan>>
  BY <1>10 DEF Advance, HandlePlaceBet, InsertBet, HandleCashout, AtomicCashout, CreateGame, InstallGame,
               SpawnLoop, SettleBets, ManagerTick
<1>11. ASSUME NEW p \in Procs, Shared(p), ~SendCrash(p) PROVE UNCHANGED <<round, commandChan>>
  BY <1>11 DEF Shared, MarkCrashed, StoreCrash, ClearGame, ListActive, AutoCashout, EndTick
<1>12. ASSUME NEW g \in Rounds, BeginLoop(g) \/ StopLoop(g) \/ LoopTick(g) \/ ShouldCrash(g)
       PROVE  UNCHANGED <<round, commandChan>>
  BY <1>12 DEF BeginLoop, StopLoop, LoopTick, ShouldCrash
<1> QED
  BY <1>1, <1>5, <1>6, <1>7, <1>8, <1>9, <1>10, <1>11, <1>12 DEF Next, ManagerStep, LoopStep, Procs

-----------------------------------------------------------------------------
(* Bets on their way to their rows *)

\* What handlePlaceBet relies on.
QueueInv == AcceptedBetsExist /\ QueuedOnce /\ BetsNameRounds

\* A step that serves no PlaceBet.
LEMMA QueueFrame ==
    ASSUME TypeOK, ManagerKnows, QueueInv, UNCHANGED betChan,
           \A b \in Bets :
              /\ bets'[b].game = bets[b].game
              /\ bets'[b].status = "none" <=> bets[b].status = "none"
              /\ client'[b] = "ok" => client[b] = "ok"
              /\ client'[b] = "new" => client[b] = "new",
           pc'[Manager] = "placeBet" => pc[Manager] = "placeBet" /\ request' = request,
           \A g \in Rounds : Started(g) => Started(g)'
    PROVE  QueueInv'
<1>1. AcceptedBetsExist' /\ BetsNameRounds'
  BY DEF QueueInv, AcceptedBetsExist, BetsNameRounds, Started
<1>2. \A i \in 1 .. Len(betChan) : betChan[i] \in Bets
  BY DEF TypeOK
<1>3. QueuedOnce'
  BY <1>2 DEF QueueInv, QueuedOnce, ManagerKnows
<1> QED BY <1>1, <1>3 DEF QueueInv

\* PlaceBet puts a request in the channel that was not there.
LEMMA QueueCalls ==
    ASSUME TypeOK, ManagerKnows, QueueInv, NEW b \in Bets, PlaceBet(b)
    PROVE  QueueInv'
<1> USE DEF engine, locals, database
<1>1. /\ UNCHANGED <<pc, request, games, game, bets>>
      /\ client[b] = "new" /\ client'[b] # "new"  /\ client'[b] # "ok"
      /\ \A d \in Callers \ {b} : client'[d] = client[d]
      /\ betChan' = betChan \/ betChan' = Append(betChan, b)
      /\ b \in Callers /\ Bets \subseteq Callers
  BY DEF PlaceBet, TypeOK, Callers
<1>2. CASE betChan' = betChan
  BY <1>1, <1>2, QueueFrame DEF Started
<1>3. CASE betChan' = Append(betChan, b)
  <2>1. AcceptedBetsExist' /\ BetsNameRounds'
    BY <1>1 DEF QueueInv, AcceptedBetsExist, BetsNameRounds
  <2>2. /\ Len(betChan') = Len(betChan) + 1 /\ Len(betChan) \in Nat
        /\ \A i \in 1 .. Len(betChan) : betChan'[i] = betChan[i] /\ betChan[i] \in Bets
        /\ betChan'[Len(betChan) + 1] = b
    BY <1>3, AppendType DEF TypeOK
  <2>3. \A i \in 1 .. Len(betChan) : betChan[i] # b
    BY <1>1 DEF QueueInv, QueuedOnce
  <2>4. \A i \in 1 .. Len(betChan') : i \in 1 .. Len(betChan) \/ i = Len(betChan) + 1
    BY <2>2
  <2>5. \A i, j \in 1 .. Len(betChan') : betChan'[i] = betChan'[j] => i = j
    BY <2>2, <2>3, <2>4 DEF QueueInv, QueuedOnce
  <2>6. \A i \in 1 .. Len(betChan') :
            /\ client'[betChan'[i]] # "new" /\ bets'[betChan'[i]].status = "none"
            /\ pc'[Manager] = "placeBet" => request' # betChan'[i]
    <3>1. bets[b].status = "none" /\ (pc[Manager] = "placeBet" => request # b)
      BY <1>1 DEF QueueInv, QueuedOnce
    <3> QED BY <1>1, <2>2, <2>3, <2>4, <3>1 DEF QueueInv, QueuedOnce
  <2>7. /\ pc'[Manager] = "placeBet" => client'[request'] # "new" /\ bets'[request'].status = "none"
        /\ \A d \in Bets : client'[d] = "new" => bets'[d].status = "none"
    BY <1>1 DEF QueueInv, QueuedOnce, ManagerKnows
  <2>8. QueuedOnce'
    BY <2>5, <2>6, <2>7 DEF QueuedOnce
  <2> QED BY <2>1, <2>8 DEF QueueInv
<1> QED BY <1>1, <1>2, <1>3

\* The manager takes a request from the channel, where no second one names its bet.
LEMMA QueueServed ==
    ASSUME TypeOK, ManagerKnows, RoundsInOrder, QueueInv, HandlePlaceBet
    PROVE  QueueInv'
<1> USE DEF engine, database
<1>1. /\ UNCHANGED <<games, game, bets>>
      /\ betChan # <<>> /\ betChan' = Tail(betChan) /\ pc[Manager] = "select"
      /\ Head(betChan) \in Bets
      /\ (request' = Head(betChan) /\ UNCHANGED client)
         \/ (UNCHANGED pc /\ Reply(Head(betChan), "failed"))
  BY TailType DEF HandlePlaceBet, TypeOK
<1>2. \A d \in Bets :
          /\ client'[d] = "ok" => client[d] = "ok"
          /\ client'[d] = "new" => client[d] = "new"
  <2>1. Bets \subseteq Callers
    BY DEF Callers
  <2> QED BY <1>1, <2>1, ReplyKeeps
<1>3. AcceptedBetsExist' /\ BetsNameRounds'
  BY <1>1, <1>2 DEF QueueInv, AcceptedBetsExist, BetsNameRounds
<1>4. /\ Len(betChan) \in Nat \ {0} /\ Len(betChan') = Len(betChan) - 1 /\ Head(betChan) = betChan[1]
      /\ \A i \in 1 .. Len(betChan') : betChan'[i] = betChan[i + 1]
      /\ \A i \in 1 .. Len(betChan) : betChan[i] \in Bets
  BY <1>1, TailType DEF TypeOK
<1>5. \A i \in 1 .. Len(betChan') : i + 1 \in 1 .. Len(betChan) /\ i + 1 # 1 /\ 1 \in 1 .. Len(betChan)
  BY <1>4
<1>6. \A i, j \in 1 .. Len(betChan') : betChan'[i] = betChan'[j] => i = j
  <2> SUFFICES ASSUME NEW i \in 1 .. Len(betChan'), NEW j \in 1 .. Len(betChan'), betChan'[i] = betChan'[j]
               PROVE  i = j
    OBVIOUS
  <2>1. i + 1 = j + 1
    BY <1>4, <1>5 DEF QueueInv, QueuedOnce
  <2> QED BY <1>4, <2>1
<1>7. \A i \in 1 .. Len(betChan') :
          /\ client'[betChan'[i]] # "new" /\ bets'[betChan'[i]].status = "none"
          /\ betChan'[i] # Head(betChan)
  BY <1>1, <1>2, <1>4, <1>5 DEF QueueInv, QueuedOnce
<1>8. client'[Head(betChan)] # "new" /\ bets'[Head(betChan)].status = "none"
  <2>1. 1 \in 1 .. Len(betChan)
    BY <1>4
  <2> QED BY <1>1, <1>2, <1>4, <2>1 DEF QueueInv, QueuedOnce
<1>9. pc'[Manager] = "placeBet" => request' = Head(betChan)
  BY <1>1
<1>10. \A d \in Bets : client'[d] = "new" => bets'[d].status = "none"
  BY <1>1, <1>2 DEF QueueInv, QueuedOnce
<1>11. QueuedOnce'
  BY <1>6, <1>7, <1>8, <1>9, <1>10 DEF QueuedOnce
<1> QED BY <1>3, <1>11 DEF QueueInv

\* The insert of a bet, whatever its caller is told of it.
LEMMA QueueInserted ==
    ASSUME TypeOK, ManagerKnows, QueueInv, InsertBet
    PROVE  QueueInv'
<1> USE DEF engine, channels, database
<1>1. /\ UNCHANGED <<games, game, betChan>> /\ pc[Manager] = "placeBet"
      /\ request \in Bets /\ local[Manager].game \in Rounds /\ Started(local[Manager].game)
  BY DEF InsertBet, ManagerKnows
<1>2. pc'[Manager] = "select"
  BY DEF InsertBet, Goto, TypeOK, Procs
<1>3. PICK inserted \in BOOLEAN, answer \in {"ok", "failed"} :
        /\ answer \in Answers(inserted)
        /\ bets' = [bets EXCEPT ![request] =
              IF inserted THEN [game |-> local[Manager].game, status |-> "ACTIVE", auto |-> 0] ELSE @]
        /\ Reply(request, answer)
  BY DEF InsertBet, Answers
<1>4. answer \in {"ok", "failed"} /\ (answer = "ok" => inserted)
  BY <1>3 DEF Answers
<1>5. Bets \subseteq Callers /\ Bets \subseteq BetRows
  BY DEF Callers, BetRows
<1>6. \A d \in Bets :
          /\ client'[d] = "ok" => client[d] = "ok" \/ (d = request /\ answer = "ok")
          /\ client'[d] = "new" => client[d] = "new"
  BY <1>1, <1>3, <1>4, <1>5, ReplyKeeps
<1>7. \A d \in Bets : d # request => bets'[d] = bets[d]
  BY <1>3, <1>5 DEF TypeOK
<1>8. bets'[request] = IF inserted THEN [game |-> local[Manager].game, status |-> "ACTIVE", auto |-> 0]
                                   ELSE bets[request]
  BY <1>1, <1>3, <1>5 DEF TypeOK
<1>9. bets[request].status = "none" /\ client[request] # "new" /\ client[request] # "ok"
  BY <1>1 DEF QueueInv, QueuedOnce, AcceptedBetsExist
<1>10. ASSUME NEW b \in Bets
       PROVE  /\ client'[b] = "ok" => bets'[b].status # "none"
              /\ bets'[b].status # "none" => bets'[b].game \in Rounds /\ Started(bets'[b].game)
  <2>1. CASE b # request
    BY <1>6, <1>7, <2>1 DEF QueueInv, AcceptedBetsExist, BetsNameRounds, Started
  <2>2. CASE b = request /\ inserted
    BY <1>1, <1>8, <2>2
  <2>3. CASE b = request /\ ~inserted
    BY <1>4, <1>6, <1>8, <1>9, <2>3
  <2> QED BY <2>1, <2>2, <2>3
<1>11. AcceptedBetsExist' /\ BetsNameRounds'
  BY <1>1, <1>10 DEF AcceptedBetsExist, BetsNameRounds, Started
<1>12. \A i \in 1 .. Len(betChan) : betChan[i] \in Bets /\ betChan[i] # request
  BY <1>1 DEF TypeOK, QueueInv, QueuedOnce
<1>13. \A d \in Bets : client'[d] = "new" => bets'[d].status = "none"
  BY <1>6, <1>7, <1>9 DEF QueueInv, QueuedOnce
<1>14. QueuedOnce'
  BY <1>1, <1>2, <1>6, <1>7, <1>12, <1>13 DEF QueueInv, QueuedOnce
<1> QED BY <1>11, <1>14 DEF QueueInv

\* Every step keeps what is known of bets on their way to their rows.
LEMMA QueueStep ==
    ASSUME TypeOK, EngineInv, QueueInv, Next
    PROVE  QueueInv'
<1> USE DEF engine, channels, callers, locals, database
<1>0. /\ Manager \in Procs /\ Rounds \subseteq Procs /\ Bets \cap Preset = {}
      /\ Bets \subseteq Callers /\ Bets \subseteq BetRows /\ ManagerKnows /\ Manager \notin Rounds
      /\ \A p \in Procs : pc[p] = "store" => local[p].game \in Rounds
  BY CrashGameAssumption, RoundsType DEF Procs, Callers, BetRows, EngineInv, RoundsInOrder, Manager
<1>1. CASE ~InsertBet
  <2> DEFINE Rows == \A b \in Bets : /\ bets'[b].game = bets[b].game
                                     /\ bets'[b].status = "none" <=> bets[b].status = "none"
             Held == pc'[Manager] = "placeBet" => pc[Manager] = "placeBet" /\ request' = request
             Rise == \A g \in Rounds : Started(g) => Started(g)'
  <2>0. \A b \in Bets : (client'[b] = "ok" => client[b] = "ok") /\ (client'[b] = "new" => client[b] = "new")
    BY <1>0, <1>1, Answered
  <2>1. (UNCHANGED betChan /\ Rows /\ Held /\ Rise) => QueueInv'
    BY <1>0, <2>0, QueueFrame
  <2>2. UNCHANGED bets => Rows
    OBVIOUS
  <2>3. UNCHANGED <<pc, request>> => Held
    OBVIOUS
  <2>4. UNCHANGED <<games, game>> => Rise
    BY DEF Started
  <2>5. \A p \in Procs, l \in Labels \ {"placeBet"} :
            pc' = [pc EXCEPT ![p] = l] /\ (p # Manager => request' = request) => Held
    BY <1>0 DEF TypeOK
  <2> HIDE DEF Held
  <2>6. ASSUME NEW b \in Preset, CreatePreset(b) PROVE QueueInv'
    <3>1. Rows
      BY <1>0, <2>6 DEF CreatePreset, TypeOK
    <3> QED BY <2>1, <2>3, <2>4, <2>6, <3>1 DEF CreatePreset
  <2>7. CASE Advance \/ (Call /\ \A b \in Bets : ~PlaceBet(b))
    <3>1. CASE \A b \in Preset : ~CreatePreset(b)
      <4>1. UNCHANGED <<betChan, bets, pc, request, games, game>>
        BY <2>7, <3>1 DEF Advance, Call, StartGame, SendStart, Cashout, GiveUp
      <4> QED BY <2>1, <2>2, <2>3, <2>4, <4>1
    <3> QED BY <2>6, <3>1
  <2>8. CASE HandleCashout \/ AtomicCashout
    <3>1. /\ UNCHANGED <<betChan, games, game>>
          /\ pc' = pc \/ pc' = [pc EXCEPT ![Manager] = "select"] \/ pc' = [pc EXCEPT ![Manager] = "cashout"]
          /\ pc[Manager] # "placeBet"
      BY <2>8 DEF HandleCashout, AtomicCashout, Goto
    <3>2. Held
      BY <1>0, <3>1 DEF Held, TypeOK
    <3>3. Rows
      <4>1. CASE HandleCashout
        BY <4>1 DEF HandleCashout
      <4>2. CASE AtomicCashout
        <5>1. PICK claimed \in BOOLEAN :
                /\ claimed => bets[target[request]].status = "ACTIVE"
                /\ bets' = [bets EXCEPT ![target[request]].status = IF claimed THEN "CASHED_OUT" ELSE @]
          BY <4>2 DEF AtomicCashout, Claimable
        <5> QED BY <1>0, <5>1 DEF TypeOK, GameBets
      <4> QED BY <2>8, <4>1, <4>2
    <3> QED BY <2>1, <2>4, <3>1, <3>2, <3>3
  <2>9. CASE HandleStart \/ InstallGame \/ HandleCrash \/ ManagerTick \/ SpawnLoop
    <3>1. UNCHANGED <<betChan, bets, request, games, game>>
      BY <2>9 DEF HandleStart, InstallGame, HandleCrash, ManagerTick, SpawnLoop
    <3>2. pc'[Manager] # "placeBet"
      BY <1>0, <2>9 DEF HandleStart, InstallGame, HandleCrash, ManagerTick, SpawnLoop, Tick, Goto,
                        AfterTick, TypeOK,
                        ManagerKnows, Starting
    <3> QED BY <2>1, <2>2, <2>4, <3>1, <3>2 DEF Held
  <2>10. CASE CreateGame
    <3>1. UNCHANGED <<betChan, bets, request>>
      BY <2>10 DEF CreateGame
    <3>2. pc'[Manager] # "placeBet"
      BY <1>0, <2>10 DEF CreateGame, Goto, TypeOK
    <3>3. Rise
      <4>1. games[round] = "none"
        BY <2>10 DEF CreateGame, EngineInv, ManagerKnows
      <4>2. \A g \in Rounds : g # round => games'[g] = games[g] /\ game'[g] = game[g]
        BY <2>10 DEF CreateGame, TypeOK
      <4> QED BY <4>1, <4>2 DEF Started
    <3> QED BY <2>1, <2>2, <3>1, <3>2, <3>3 DEF Held
  <2>11. CASE SettleBets
    <3>1. UNCHANGED <<betChan, games, game>>
      BY <2>11 DEF SettleBets
    <3>2. pc'[Manager] # "placeBet"
      BY <1>0, <2>11 DEF SettleBets, Goto, TypeOK
    <3>3. Rows
      BY <1>0, <2>11 DEF SettleBets, TypeOK, GameBets
    <3> QED BY <2>1, <2>4, <3>1, <3>2, <3>3 DEF Held
  <2>12. ASSUME NEW p \in Procs, Shared(p) PROVE QueueInv'
    <3>1. CASE MarkCrashed(p) \/ StoreCrash(p)
      <4>1. UNCHANGED <<betChan, bets, request>>
        BY <3>1 DEF MarkCrashed, StoreCrash
      <4>2. PICK l \in Labels \ {"placeBet"} : pc' = [pc EXCEPT ![p] = l]
        BY <3>1, LabelSet DEF MarkCrashed, StoreCrash, AfterCrash, Goto
      <4>3. Rise
        <5>1. CASE MarkCrashed(p)
          <6>1. \A g \in Rounds : game'[g] = game[g] \/ game'[g].status = "CRASHED"
            BY <5>1 DEF MarkCrashed, TypeOK, Games
          <6>2. UNCHANGED games
            BY <5>1 DEF MarkCrashed
          <6> QED BY <6>1, <6>2 DEF Started
        <5>2. CASE StoreCrash(p)
          <6>1. \A g \in Rounds : games'[g] = games[g] \/ games'[g] = "CRASHED"
            BY <5>2 DEF StoreCrash, TypeOK
          <6>2. UNCHANGED game
            BY <5>2 DEF StoreCrash
          <6> QED BY <6>1, <6>2 DEF Started
        <5> QED BY <3>1, <5>1, <5>2
      <4> QED BY <2>1, <2>2, <2>5, <4>1, <4>2, <4>3
    <3>2. CASE ClearGame(p) \/ SendCrash(p) \/ ListActive(p) \/ EndTick(p)
      <4>1. UNCHANGED <<betChan, bets, request, games, game>>
        BY <3>2 DEF ClearGame, SendCrash, ListActive, EndTick
      <4>2. PICK l \in Labels \ {"placeBet"} : pc' = [pc EXCEPT ![p] = l]
        BY <3>2, LabelSet DEF ClearGame, SendCrash, ListActive, EndTick, AfterCrash, AfterTick, Goto
      <4> QED BY <2>1, <2>2, <2>4, <2>5, <4>1, <4>2
    <3>3. CASE AutoCashout(p)
      <4>1. UNCHANGED <<betChan, pc, request, games, game>>
        BY <3>3 DEF AutoCashout
      <4>2. Rows
        <5>1. PICK b \in todo[p], claimed \in BOOLEAN :
                /\ claimed => bets[b].status = "ACTIVE"
                /\ bets' = [bets EXCEPT ![b].status = IF claimed THEN "CASHED_OUT" ELSE @]
          BY <3>3 DEF AutoCashout, Claimable
        <5> QED BY <1>0, <5>1 DEF TypeOK, GameBets
      <4> QED BY <2>1, <2>3, <2>4, <4>1, <4>2
    <3> QED BY <2>12, <3>1, <3>2, <3>3 DEF Shared
  <2>13. ASSUME NEW g \in Rounds, BeginLoop(g) \/ StopLoop(g) \/ LoopTick(g) \/ ShouldCrash(g) PROVE QueueInv'
    <3>1. UNCHANGED <<betChan, bets, request, games, game>>
      BY <2>13 DEF BeginLoop, StopLoop, LoopTick, ShouldCrash
    <3>2. Held
      <4>1. pc'[Manager] = "placeBet" => pc[Manager] = "placeBet"
        BY <1>0, <2>13 DEF BeginLoop, StopLoop, LoopTick, ShouldCrash, Goto, Tick, TypeOK
      <4> QED BY <3>1, <4>1 DEF Held
    <3> QED BY <2>1, <2>2, <2>4, <3>1, <3>2
  <2>14. ASSUME NEW b \in Bets, PlaceBet(b) PROVE QueueInv'
    BY <1>0, <2>14, QueueCalls
  <2>15. CASE HandlePlaceBet
    BY <1>0, <2>15, QueueServed DEF EngineInv
  <2> QED
    BY <1>1, <2>6, <2>7, <2>8, <2>9, <2>10, <2>11, <2>12, <2>13, <2>14, <2>15
       DEF Next, ManagerStep, LoopStep, Procs
<1>2. CASE InsertBet
  BY <1>0, <1>2, QueueInserted
<1> QED BY <1>1, <1>2

-----------------------------------------------------------------------------
(* A bet is cashed out once *)

\* What the two cashouts rely on.
PaidInv == \A b \in BetRows : PaidOrTold(b)

\* A step that cashes no bet out.
LEMMA PaidFrame ==
    ASSUME PaidInv, UNCHANGED <<credits, target>>,
           \A c \in Cashouts : client'[c] = "ok" => client[c] = "ok",
           \A b \in BetRows : bets[b].status = "CASHED_OUT" => bets'[b].status = "CASHED_OUT"
    PROVE  PaidInv'
<1>1. \A b \in BetRows : Told(b)' \subseteq Told(b)
  BY DEF Told
<1>2. ASSUME NEW b \in BetRows PROVE PaidOrTold(b)'
  <2>1. PaidOrTold(b) /\ Told(b)' \subseteq Told(b)
    BY <1>1 DEF PaidInv
  <2> QED BY <2>1 DEF PaidOrTold
<1> QED BY <1>2 DEF PaidInv

\* A cashout on request claims a row that was ACTIVE, hence never paid for or told of.
LEMMA PaidByCaller ==
    ASSUME TypeOK, ManagerKnows, PaidInv, AtomicCashout
    PROVE  PaidInv'
<1> USE DEF channels
<1>1. request \in Cashouts /\ UNCHANGED <<credits, target>> /\ target[request] \in BetRows
  BY DEF AtomicCashout, ManagerKnows, TypeOK
<1>. PICK b \in BetRows : b = target[request]
  BY <1>1
<1>2. PICK claimed \in BOOLEAN, answer \in {"ok", "failed"} :
        /\ claimed => bets[b].status = "ACTIVE"
        /\ answer = "ok" => claimed
        /\ bets' = [bets EXCEPT ![b].status = IF claimed THEN "CASHED_OUT" ELSE @]
        /\ Reply(request, answer)
  BY DEF AtomicCashout, Claimable, Answers
<1>3. \A c \in Cashouts : client'[c] = "ok" => client[c] = "ok" \/ (c = request /\ claimed)
  <2>1. Cashouts \subseteq Callers
    BY DEF Callers
  <2> QED BY <1>1, <1>2, <2>1, ReplyKeeps
<1>4. /\ \A d \in BetRows : d # b => bets'[d] = bets[d]
      /\ claimed => bets'[b].status = "CASHED_OUT"
      /\ ~claimed => bets'[b].status = bets[b].status
  BY <1>1, <1>2 DEF TypeOK, GameBets
<1>5. CASE ~claimed
  BY <1>1, <1>3, <1>4, <1>5, PaidFrame
<1>6. CASE claimed
  <2>1. Told(b) = {} /\ credits[b] = 0
    BY <1>1, <1>2, <1>6 DEF PaidInv, PaidOrTold
  <2>2. Told(b)' \subseteq {request}
    BY <1>1, <1>3, <2>1 DEF Told
  <2>3. PaidOrTold(b)'
    BY <1>1, <1>4, <1>6, <2>1, <2>2 DEF PaidOrTold
  <2>4. ASSUME NEW d \in BetRows, d # b PROVE PaidOrTold(d)'
    <3>1. Told(d)' \subseteq Told(d)
      BY <1>1, <1>3, <2>4 DEF Told
    <3>2. bets'[d] = bets[d] /\ credits'[d] = credits[d] /\ PaidOrTold(d)
      BY <1>1, <1>4, <2>4 DEF PaidInv
    <3> QED BY <3>1, <3>2 DEF PaidOrTold
  <2> QED BY <1>1, <2>3, <2>4 DEF PaidInv
<1> QED BY <1>5, <1>6

\* An automatic cashout claims such a row too, and credits it.
LEMMA PaidByTick ==
    ASSUME TypeOK, PaidInv, NEW p \in Procs, AutoCashout(p)
    PROVE  PaidInv'
<1> USE DEF callers
<1>1. PICK b \in todo[p], claimed \in BOOLEAN :
        /\ claimed => bets[b].status = "ACTIVE"
        /\ bets' = [bets EXCEPT ![b].status = IF claimed THEN "CASHED_OUT" ELSE @]
        /\ credits' = [credits EXCEPT ![b] = IF claimed THEN @ + 1 ELSE @]
  BY DEF AutoCashout, Claimable
<1>2. b \in BetRows /\ UNCHANGED <<client, target>>
  BY DEF AutoCashout, TypeOK
<1>3. /\ \A d \in BetRows : d # b => bets'[d] = bets[d] /\ credits'[d] = credits[d]
      /\ claimed => bets'[b].status = "CASHED_OUT" /\ credits'[b] = credits[b] + 1
      /\ ~claimed => bets'[b].status = bets[b].status /\ credits'[b] = credits[b]
  BY <1>1, <1>2 DEF TypeOK, GameBets
<1>4. \A d \in BetRows : Told(d)' = Told(d)
  BY <1>2 DEF Told
<1>5. PaidOrTold(b)'
  <2>1. PaidOrTold(b) /\ Told(b)' = Told(b)
    BY <1>2, <1>4 DEF PaidInv
  <2>2. CASE claimed
    <3>1. Told(b) = {} /\ credits[b] = 0
      BY <1>1, <2>1, <2>2 DEF PaidOrTold
    <3> QED BY <1>3, <2>1, <2>2, <3>1 DEF PaidOrTold
  <2>3. CASE ~claimed
    BY <1>3, <2>1, <2>3 DEF PaidOrTold
  <2> QED BY <2>2, <2>3
<1>6. ASSUME NEW d \in BetRows, d # b PROVE PaidOrTold(d)'
  <2>1. PaidOrTold(d) /\ Told(d)' = Told(d) /\ bets'[d] = bets[d] /\ credits'[d] = credits[d]
    BY <1>3, <1>4, <1>6 DEF PaidInv
  <2> QED BY <2>1 DEF PaidOrTold
<1> QED BY <1>5, <1>6 DEF PaidInv

\* Every step keeps that a bet is cashed out once.
LEMMA PaidStep ==
    ASSUME TypeOK, ManagerKnows, QueueInv, PaidInv, Next
    PROVE  PaidInv'
<1> USE DEF callers, database
<1>1. CASE AtomicCashout
  BY <1>1, PaidByCaller
<1>2. ASSUME NEW p \in Procs, AutoCashout(p) PROVE PaidInv'
  BY <1>2, PaidByTick
<1>3. CASE ~AtomicCashout /\ \A p \in Procs : ~AutoCashout(p)
  <2> DEFINE Rows == \A b \in BetRows : bets[b].status = "CASHED_OUT" => bets'[b].status = "CASHED_OUT"
  <2>1. \A c \in Cashouts : client'[c] = "ok" => client[c] = "ok"
    BY <1>3, Answered DEF Callers
  <2>2. UNCHANGED <<credits, target>> /\ Rows => PaidInv'
    BY <2>1, PaidFrame
  <2>3. UNCHANGED bets => Rows
    OBVIOUS
  <2>4. CASE InsertBet
    <3>1. bets[request].status = "none"
      BY <2>4 DEF InsertBet, QueueInv, QueuedOnce
    <3>2. Rows
      BY <2>4, <3>1 DEF InsertBet, TypeOK
    <3> QED BY <2>2, <2>4, <3>2 DEF InsertBet
  <2>5. CASE SettleBets
    <3>1. Rows
      BY <2>5 DEF SettleBets
    <3> QED BY <2>2, <2>5, <3>1 DEF SettleBets
  <2>6. ASSUME NEW b \in Preset, CreatePreset(b) PROVE PaidInv'
    <3>1. Rows
      BY <2>6 DEF CreatePreset, TypeOK
    <3> QED BY <2>2, <2>6, <3>1 DEF CreatePreset
  <2>7. CASE Advance \/ (Call /\ \A b \in Preset : ~CreatePreset(b))
    <3>1. UNCHANGED <<bets, credits, target>>
      BY <2>7 DEF Advance, Call, StartGame, SendStart, PlaceBet, Cashout, GiveUp
    <3> QED BY <2>2, <2>3, <3>1
  <2>8. CASE \/ HandlePlaceBet \/ HandleCashout \/ HandleStart \/ CreateGame \/ InstallGame
             \/ SpawnLoop \/ HandleCrash \/ ManagerTick
    <3>1. UNCHANGED <<bets, credits, target>>
      BY <2>8 DEF HandlePlaceBet, HandleCashout, HandleStart, CreateGame, InstallGame, SpawnLoop,
                  HandleCrash, ManagerTick
    <3> QED BY <2>2, <2>3, <3>1
  <2>9. ASSUME NEW p \in Procs, Shared(p) PROVE PaidInv'
    <3>1. UNCHANGED <<bets, credits, target>>
      BY <1>3, <2>9 DEF Shared, MarkCrashed, StoreCrash, ClearGame, SendCrash, ListActive, EndTick
    <3> QED BY <2>2, <2>3, <3>1
  <2>10. ASSUME NEW g \in Rounds, BeginLoop(g) \/ StopLoop(g) \/ LoopTick(g) \/ ShouldCrash(g) PROVE PaidInv'
    <3>1. UNCHANGED <<bets, credits, target>>
      BY <2>10 DEF BeginLoop, StopLoop, LoopTick, ShouldCrash
    <3> QED BY <2>2, <2>3, <3>1
  <2> QED
    BY <1>3, <2>4, <2>5, <2>6, <2>7, <2>8, <2>9, <2>10 DEF Next, ManagerStep, LoopStep, Procs
<1> QED BY <1>1, <1>2, <1>3

-----------------------------------------------------------------------------
(* The invariant *)

\* Every step keeps the types.
LEMMA TypeStep ==
    ASSUME TypeOK, RoundsAreAskedFor, EngineInv, Next
    PROVE  TypeOK'
BY CallTypes, BetTypes, ManagerTypes, SharedTypes, StartTypes, LoopTypes
   DEF EngineInv, Next, ManagerStep, LoopStep, Procs

\* Every step keeps the order of the rounds.
LEMMA EngineStep ==
    ASSUME TypeOK, RoundsAreAskedFor, EngineInv, Next
    PROVE  EngineInv'
<1>1. Manager \in Procs /\ Rounds \subseteq Procs
  BY DEF Procs
<1>2. ASSUME NEW p \in Procs, Shared(p) PROVE EngineInv'
  BY <1>2, EngineCrashes, EngineQuiet DEF Shared
<1>3. CASE ManagerStep
  BY <1>1, <1>2, <1>3, EngineBets, EngineStarts, EngineQuiet, EngineEnds DEF ManagerStep
<1>4. ASSUME NEW g \in Rounds, LoopStep(g) PROVE EngineInv'
  BY <1>1, <1>2, <1>4, EngineQuiet, EngineEnds DEF LoopStep
<1> QED BY <1>3, <1>4, EngineCalls DEF Next

\* The invariant holds before anything has happened.
LEMMA InvInit == Init => CrashGameInv
<1> SUFFICES ASSUME Init PROVE CrashGameInv
  OBVIOUS
<1>1. TypeOK
  BY InitType
<1>2. RoundsAreAskedFor
  <2>1. Starts(commandChan) = {}
    BY DEF Init, Starts
  <2>2. round + Cardinality(Starts(commandChan)) = 0
    <3>1. Cardinality(Starts(commandChan)) = 0
      BY <2>1, FS_EmptySet
    <3>2. round = 0
      BY DEF Init
    <3> QED BY <3>1, <3>2
  <2> QED BY <2>2, SentFinite DEF RoundsAreAskedFor
<1>3. ManagerKnows
  BY DEF Init, ManagerKnows, Starting, Procs
<1>4. RoundsInOrder
  <2>1. \A p \in Procs : pc[p] # "store"
    BY DEF Init
  <2>2. \A g \in Rounds : ~Live(g)
    BY RoundsType DEF Init, Live, Procs, Manager
  <2> QED BY <2>1, <2>2 DEF Init, RoundsInOrder
<1>5. CurrentIsNewest /\ RowFollowsRound
  BY DEF Init, CurrentIsNewest, RowFollowsRound
<1>6. AcceptedBetsExist /\ QueuedOnce /\ BetsNameRounds
  <2>1. betChan = <<>> /\ pc[Manager] = "select"
    BY DEF Init, Procs
  <2>2. \A b \in Bets : client[b] = "new" /\ bets[b].status = "none"
    BY DEF Init, Callers, BetRows
  <2> QED BY <2>1, <2>2 DEF AcceptedBetsExist, QueuedOnce, BetsNameRounds
<1>7. \A b \in BetRows : PaidOrTold(b)
  <2>1. \A b \in BetRows : Told(b) = {} /\ credits[b] = 0
    BY DEF Init, Told, Callers
  <2> QED BY <2>1 DEF PaidOrTold
<1> QED BY <1>1, <1>2, <1>3, <1>4, <1>5, <1>6, <1>7 DEF CrashGameInv

\* Every step keeps the invariant.
LEMMA InvNext == CrashGameInv /\ [Next]_vars => CrashGameInv'
<1> SUFFICES ASSUME CrashGameInv, [Next]_vars PROVE CrashGameInv'
  OBVIOUS
<1>1. /\ TypeOK /\ RoundsAreAskedFor /\ ManagerKnows
      /\ EngineInv /\ QueueInv /\ PaidInv
  BY DEF CrashGameInv, EngineInv, QueueInv, PaidInv
<1>2. CASE Next
  BY <1>1, <1>2, TypeStep, AskedForStep, EngineStep, QueueStep, PaidStep
     DEF CrashGameInv, EngineInv, QueueInv, PaidInv
<1>3. CASE UNCHANGED vars
  <2> USE <1>3 DEF vars, engine, channels, callers, locals, database
  <2>1. TypeOK' /\ RoundsAreAskedFor'
    BY <1>1 DEF TypeOK, RoundsAreAskedFor, Starts, Sent
  <2>2. EngineInv'
    BY <1>1 DEF EngineInv, ManagerKnows, RoundsInOrder, CurrentIsNewest, RowFollowsRound,
                  Starting, Started, Live
  <2>3. QueueInv'
    BY <1>1 DEF QueueInv, AcceptedBetsExist, QueuedOnce, BetsNameRounds
  <2>4. PaidInv'
    BY <1>1 DEF PaidInv, PaidOrTold, Told
  <2> QED BY <2>1, <2>2, <2>3, <2>4 DEF CrashGameInv, EngineInv, QueueInv, PaidInv
<1> QED BY <1>2, <1>3

\* The inductive invariant holds in every behaviour of the engine, without any fairness.
THEOREM CrashGameInvariant == Spec => []CrashGameInv
BY InvInit, InvNext, PTL DEF Spec

\* Every variable of the engine keeps its type; round numbers stay within the STARTs that were sent.
THEOREM TypeCorrect == Spec => []TypeOK
<1>1. CrashGameInv => TypeOK
  BY DEF CrashGameInv
<1> QED BY <1>1, CrashGameInvariant, PTL

\* However many clicks, ticks and loops race for a bet, AtomicCashout and
\* AtomicAutoCashoutWithCredit let one click succeed at most and one payout, and the
\* row says so.
THEOREM BetsAreCashedOutOnce == Spec => []CashedOutOnce
<1>1. CrashGameInv => CashedOutOnce
  <2> SUFFICES ASSUME CrashGameInv, NEW b \in BetRows
               PROVE  /\ Cardinality(Told(b)) <= 1 /\ credits[b] <= 1
                      /\ Told(b) # {} \/ credits[b] > 0 => bets[b].status = "CASHED_OUT"
    BY DEF CashedOutOnce
  <2>1. PaidOrTold(b) /\ credits[b] \in Nat
    BY DEF CrashGameInv, TypeOK
  <2>2. Told(b) # {} \/ credits[b] > 0 => bets[b].status = "CASHED_OUT"
    BY <2>1 DEF PaidOrTold
  <2>3. Cardinality(Told(b)) <= 1
    <3>1. CASE Told(b) = {}
      BY <3>1, FS_EmptySet
    <3>2. CASE Told(b) # {}
      <4>1. PICK c : c \in Told(b)
        BY <3>2
      <4>2. Told(b) = {c}
        BY <2>1, <4>1 DEF PaidOrTold
      <4> QED BY <4>2, FS_Singleton
    <3> QED BY <3>1, <3>2
  <2> QED BY <2>1, <2>2, <2>3 DEF PaidOrTold
<1> QED BY <1>1, CrashGameInvariant, PTL

\* A player who is told that the bet was placed has a row, and it names a round
\* that is on record and has taken off.
THEOREM TakenBetsExist == Spec => []AcceptedBetsExist
<1>1. CrashGameInv => AcceptedBetsExist
  BY DEF CrashGameInv
<1> QED BY <1>1, CrashGameInvariant, PTL

\* At most one loop that still runs has not been cancelled.
THEOREM LoopsAreCancelled == Spec => []OneLiveLoop
<1>1. CrashGameInv => OneLiveLoop
  BY DEF CrashGameInv, RoundsInOrder, OneLiveLoop, Live
<1> QED BY <1>1, CrashGameInvariant, PTL

\* The games table never reports a crash of a round that still runs.
THEOREM CrashRowsAreTrue == Spec => []RowFollowsRound
<1>1. CrashGameInv => RowFollowsRound
  BY DEF CrashGameInv
<1> QED BY <1>1, CrashGameInvariant, PTL

-----------------------------------------------------------------------------
(* Rounds take off once *)

\* Between its row and the moment it becomes current nobody touches a round: crashGame
\* marks the game that is current and stores the crash of games that have crashed.
LEMMA TakeOffStep ==
    ASSUME CrashGameInv, AwaitsTakeOff, Next
    PROVE  AwaitsTakeOff'
<1> USE DEF engine, callers, locals, database
<1>0. /\ TypeOK /\ ManagerKnows /\ RoundsInOrder /\ Manager \in Procs /\ Rounds \subseteq Procs
      /\ Manager \notin Rounds /\ NoGame \notin Rounds
      /\ pc[Manager] = "install" => round \in Rounds
  BY RoundsType DEF CrashGameInv, Procs, Manager, NoGame, ManagerKnows, Starting
<1>1. CASE Advance \/ Call
  <2>1. UNCHANGED <<round, current, game, games, pc>>
    BY <1>1 DEF Advance, Call, StartGame, SendStart, PlaceBet, Cashout, GiveUp, CreatePreset
  <2> QED BY <2>1 DEF AwaitsTakeOff
<1>2. CASE CreateGame
  <2>1. PICK cp \in CrashPoints, inserted \in BOOLEAN, answer \in {"install", "select"} :
          /\ answer = "install" => inserted
          /\ games' = [games EXCEPT ![round] = IF inserted THEN "RUNNING" ELSE @]
          /\ game' = [game EXCEPT ![round] =
                IF answer = "install" THEN [status |-> "RUNNING", startedAt |-> clock, crashPoint |-> cp]
                                      ELSE @]
          /\ Goto(Manager, answer)
    BY <1>2 DEF CreateGame
  <2>2. round \in Rounds /\ games[round] = "none" /\ UNCHANGED <<round, current>>
    BY <1>0, <1>2 DEF CreateGame, ManagerKnows, Starting
  <2>3. current # round
    BY <1>0, <2>2 DEF RoundsInOrder, Started
  <2>4. pc'[Manager] = answer
    BY <1>0, <2>1 DEF Goto, TypeOK
  <2>5. CASE answer = "install"
    <3>1. games' = [games EXCEPT ![round] = "RUNNING"]
          /\ game' = [game EXCEPT ![round] = [status |-> "RUNNING", startedAt |-> clock, crashPoint |-> cp]]
      BY <2>1, <2>5
    <3>2. games'[round] = "RUNNING" /\ game'[round].status = "RUNNING"
      BY <1>0, <2>2, <3>1 DEF TypeOK
    <3> QED BY <2>2, <2>3, <3>2 DEF AwaitsTakeOff
  <2>6. CASE answer # "install"
    BY <2>4, <2>6 DEF AwaitsTakeOff
  <2> QED BY <2>5, <2>6
<1>3. CASE ManagerStep /\ ~CreateGame
  <2>1. \E l \in Labels \ {"install"} : pc'[Manager] = l
    <3>1. CASE Shared(Manager)
      <4>1. \E l \in Labels \ {"install"} : pc' = [pc EXCEPT ![Manager] = l] \/ (UNCHANGED pc /\ pc[Manager] = l)
        BY <3>1, LabelSet DEF Shared, MarkCrashed, StoreCrash, ClearGame, SendCrash, ListActive,
              AutoCashout, EndTick, AfterCrash, AfterTick, Goto
      <4> QED BY <1>0, <4>1 DEF TypeOK
    <3>2. CASE ~Shared(Manager)
      <4>1. CASE HandlePlaceBet \/ HandleCashout
        <5>1. \/ UNCHANGED pc /\ pc[Manager] = "select"
              \/ \E l \in {"placeBet", "cashout"} : pc' = [pc EXCEPT ![Manager] = l]
          BY <4>1 DEF HandlePlaceBet, HandleCashout, Goto
        <5> QED BY <1>0, <5>1, LabelSet DEF TypeOK
      <4>2. CASE InsertBet \/ AtomicCashout \/ SettleBets \/ HandleStart \/ InstallGame
        <5>1. \E l \in {"select", "create", "spawn"} : pc' = [pc EXCEPT ![Manager] = l]
          BY <4>2 DEF InsertBet, AtomicCashout, SettleBets, HandleStart, InstallGame, Goto
        <5> QED BY <1>0, <5>1, LabelSet DEF TypeOK
      <4>3. CASE HandleCrash \/ ManagerTick
        <5>1. \E l \in {"select", "crash", "send", "list"} : pc' = [pc EXCEPT ![Manager] = l]
          BY <4>3 DEF HandleCrash, ManagerTick, Tick, AfterTick, Goto
        <5> QED BY <1>0, <5>1, LabelSet DEF TypeOK
      <4>4. CASE SpawnLoop
        <5>1. round # Manager
          BY <1>0, <4>4 DEF SpawnLoop, ManagerKnows, Starting
        <5>2. pc'[Manager] = "select"
          BY <1>0, <4>4, <5>1 DEF SpawnLoop, TypeOK
        <5> QED BY <5>2, LabelSet
      <4> QED BY <1>3, <3>2, <4>1, <4>2, <4>3, <4>4 DEF ManagerStep
    <3> QED BY <3>1, <3>2
  <2> QED BY <2>1 DEF AwaitsTakeOff
<1>4. ASSUME NEW g \in Rounds, LoopStep(g) PROVE AwaitsTakeOff'
  <2>1. /\ round' = round /\ current' \in {current, NoGame}
        /\ pc'[Manager] = "install" => pc[Manager] = "install"
    <3>1. round' = round /\ current' \in {current, NoGame}
      BY <1>4 DEF LoopStep, BeginLoop, StopLoop, LoopTick, ShouldCrash, Shared, MarkCrashed, StoreCrash,
            ClearGame, SendCrash, ListActive, AutoCashout, EndTick
    <3>2. pc'[Manager] = pc[Manager] \/ pc'[Manager] = "panic"
      <4>1. CASE BeginLoop(g)
        BY <1>0, <4>1 DEF BeginLoop, Goto, TypeOK
      <4>2. CASE ~BeginLoop(g)
        <5>1. UNCHANGED pc \/ \E l : pc' = [pc EXCEPT ![g] = l]
          BY <1>4, <4>2 DEF LoopStep, StopLoop, LoopTick, ShouldCrash, Shared, MarkCrashed, StoreCrash,
                ClearGame, SendCrash, ListActive, AutoCashout, EndTick, Tick, Goto
        <5> QED BY <1>0, <5>1 DEF TypeOK
      <4> QED BY <4>1, <4>2
    <3> QED BY <3>1, <3>2
  <2>2. \A h \in Rounds : h # current => game'[h] = game[h]
    BY <1>4 DEF LoopStep, BeginLoop, StopLoop, LoopTick, ShouldCrash, Shared, MarkCrashed, StoreCrash,
          ClearGame, SendCrash, ListActive, AutoCashout, EndTick
  <2>3. \A h \in Rounds : game[h].status # "CRASHED" => games'[h] = games[h]
    <3>1. CASE StoreCrash(g)
      <4>1. local[g].game \in Rounds /\ game[local[g].game].status = "CRASHED"
        BY <1>0, <3>1 DEF StoreCrash, RoundsInOrder
      <4>2. \A h \in Rounds : h # local[g].game => games'[h] = games[h]
        BY <1>0, <3>1 DEF StoreCrash, TypeOK
      <4> QED BY <4>1, <4>2
    <3>2. CASE ~StoreCrash(g)
      BY <1>4, <3>2 DEF LoopStep, BeginLoop, StopLoop, LoopTick, ShouldCrash, Shared, MarkCrashed,
            ClearGame, SendCrash, ListActive, AutoCashout, EndTick
    <3> QED BY <3>1, <3>2
  <2> QED BY <1>0, <2>1, <2>2, <2>3 DEF AwaitsTakeOff
<1> QED BY <1>1, <1>2, <1>3, <1>4 DEF Next

\* A round that was replaced or has crashed never becomes current again, and the one that
\* becomes current is running in memory and in its row.
THEOREM RoundsDoNotReturn == Spec => NoRoundReturns
<1>1. Init => AwaitsTakeOff
  BY DEF Init, AwaitsTakeOff, Procs
<1>2. CrashGameInv /\ AwaitsTakeOff /\ [Next]_vars => AwaitsTakeOff'
  <2>1. CASE UNCHANGED vars
    BY <2>1 DEF AwaitsTakeOff, vars, engine, database
  <2> QED BY <2>1, TakeOffStep
<1>3. CrashGameInv /\ AwaitsTakeOff /\ [Next]_vars =>
        [\A g \in Rounds : current' = g /\ current # g =>
            ~Over(g) /\ game[g].status = "RUNNING" /\ games[g] = "RUNNING"]_vars
  <2> SUFFICES ASSUME AwaitsTakeOff, Next, NEW g \in Rounds, current' = g, current # g
               PROVE  ~Over(g) /\ game[g].status = "RUNNING" /\ games[g] = "RUNNING"
    OBVIOUS
  <2>1. g # NoGame
    BY RoundsType DEF NoGame
  <2>2. InstallGame
    <3> USE DEF engine
    <3>1. ~Advance /\ ~Call
      BY DEF Advance, Call, StartGame, SendStart, PlaceBet, Cashout, GiveUp, CreatePreset
    <3>2. \A p \in Procs : ~Shared(p)
      BY <2>1 DEF Shared, MarkCrashed, StoreCrash, ClearGame, SendCrash, ListActive, AutoCashout, EndTick
    <3>3. \A h \in Rounds : ~LoopStep(h)
      BY <3>2 DEF LoopStep, BeginLoop, StopLoop, LoopTick, ShouldCrash, Procs
    <3>4. ManagerStep /\ ~Shared(Manager)
      BY <3>1, <3>2, <3>3 DEF Next, Procs
    <3> QED BY <2>1, <3>4 DEF ManagerStep, HandlePlaceBet, InsertBet, HandleCashout, AtomicCashout, HandleStart,
              CreateGame, SpawnLoop, HandleCrash, SettleBets, ManagerTick
  <2> QED BY <2>2 DEF InstallGame, AwaitsTakeOff, Over
<1> QED BY <1>1, <1>2, <1>3, CrashGameInvariant, PTL DEF Spec, NoRoundReturns

-----------------------------------------------------------------------------
(* The refinement *)

\* How the engine looks from the book.
Flight == [g \in Rounds |-> game[g].status]
Oks    == {c \in Bets \cup Cashouts : client[c] = "ok"}

\* Nothing is on record, in the air or told.
LEMMA InitBook == Init => B!Init /\ BookInv
<1> SUFFICES ASSUME Init PROVE B!Init /\ BookInv
  OBVIOUS
<1>1. Flight = [g \in Rounds |-> "none"]
  BY DEF Init, Flight
<1>2. Oks = {}
  BY DEF Init, Oks, Callers
<1>3. B!Init
  BY <1>1, <1>2 DEF Init, B!Init, Flight, Oks, BetRows, B!BetRows, NoGame, B!NoGame
<1>4. BookInv
  BY DEF Init, BookInv, Procs
<1> QED BY <1>3, <1>4

\* A step that neither writes a row nor moves a round, and tells nobody of success.
LEMMA BookStill ==
    ASSUME UNCHANGED <<games, bets, credits, target>>,
           \A g \in Rounds : game'[g].status = game[g].status,
           \A c \in Bets \cup Cashouts : client'[c] = "ok" <=> client[c] = "ok"
    PROVE  UNCHANGED B!vars
<1>1. Flight' = Flight
  BY DEF Flight
<1>2. Oks' = Oks
  BY DEF Oks
<1> QED BY <1>1, <1>2 DEF B!vars, Flight, Oks

\* The book is written by eight actions and read by the others.
LEMMA Elsewhere ==
    ASSUME Next, ~CreateGame, ~InsertBet, ~AtomicCashout, ~SettleBets,
           \A b \in Preset : ~CreatePreset(b),
           \A p \in Procs : ~MarkCrashed(p) /\ ~StoreCrash(p) /\ ~AutoCashout(p)
    PROVE  UNCHANGED <<game, games, bets, credits, target>>
<1> USE DEF engine, callers, locals, database
<1>1. CASE Advance \/ Call
  BY <1>1 DEF Advance, Call, StartGame, SendStart, PlaceBet, Cashout, GiveUp
<1>2. ASSUME NEW p \in Procs, Shared(p) PROVE UNCHANGED <<game, games, bets, credits, target>>
  BY <1>2 DEF Shared, ClearGame, SendCrash, ListActive, EndTick
<1>3. CASE ManagerStep
  <2>1. Manager \in Procs
    BY DEF Procs
  <2>2. CASE Shared(Manager)
    BY <1>2, <2>1, <2>2
  <2> QED BY <1>3, <2>2 DEF ManagerStep, HandlePlaceBet, HandleCashout, HandleStart, InstallGame, SpawnLoop,
                         HandleCrash, ManagerTick
<1>4. ASSUME NEW g \in Rounds, LoopStep(g) PROVE UNCHANGED <<game, games, bets, credits, target>>
  <2>1. g \in Procs
    BY DEF Procs
  <2>2. CASE Shared(g)
    BY <1>2, <2>1, <2>2
  <2> QED BY <1>4, <2>2 DEF LoopStep, BeginLoop, StopLoop, LoopTick, ShouldCrash
<1> QED BY <1>1, <1>3, <1>4 DEF Next

\* A round takes off after its row was inserted, and settleBets comes after the current
\* game was cleared; only the manager itself could install another.
LEMMA BookStep ==
    ASSUME CrashGameInv, BookInv, Next
    PROVE  BookInv'
<1> USE DEF engine, callers, locals, database
<1>0. /\ TypeOK /\ ManagerKnows /\ RoundsInOrder /\ Manager \in Procs /\ Rounds \subseteq Procs
      /\ Manager \notin Rounds
  BY RoundsType DEF CrashGameInv, Procs, Manager
<1>1. \A g \in Rounds : game'[g].status # "none" => games'[g] # "none"
  <2>1. CASE CreateGame
    <3>1. PICK cp \in CrashPoints, inserted \in BOOLEAN, answer \in {"install", "select"} :
            /\ answer = "install" => inserted
            /\ games' = [games EXCEPT ![round] = IF inserted THEN "RUNNING" ELSE @]
            /\ game' = [game EXCEPT ![round] =
                  IF answer = "install" THEN [status |-> "RUNNING", startedAt |-> clock, crashPoint |-> cp]
                                        ELSE @]
      BY <2>1 DEF CreateGame
    <3>2. round \in Rounds
      BY <1>0, <2>1 DEF CreateGame, ManagerKnows, Starting
    <3>3. \A g \in Rounds : g # round => games'[g] = games[g] /\ game'[g] = game[g]
      BY <1>0, <3>1 DEF TypeOK
    <3>4. games'[round] = games[round] \/ games'[round] = "RUNNING"
      BY <1>0, <3>1, <3>2 DEF TypeOK
    <3>5. game'[round] = game[round] \/ inserted
      BY <1>0, <3>1, <3>2 DEF TypeOK
    <3>6. inserted => games'[round] = "RUNNING"
      BY <1>0, <3>1, <3>2 DEF TypeOK
    <3> QED BY <3>2, <3>3, <3>4, <3>5, <3>6 DEF BookInv
  <2>2. ASSUME NEW p \in Procs, MarkCrashed(p)
        PROVE  \A g \in Rounds : game'[g].status # "none" => games'[g] # "none"
    <3>1. /\ UNCHANGED games
          /\ \A g \in Rounds : g # current => game'[g] = game[g]
      BY <2>2 DEF MarkCrashed
    <3>2. current \in Rounds => games[current] # "none"
      BY <1>0 DEF RoundsInOrder, Started, Rounds, NoGame
    <3> QED BY <3>1, <3>2 DEF BookInv
  <2>3. ASSUME NEW p \in Procs, StoreCrash(p)
        PROVE  \A g \in Rounds : game'[g].status # "none" => games'[g] # "none"
    BY <1>0, <2>3 DEF StoreCrash, BookInv, TypeOK
  <2>4. CASE UNCHANGED <<game, games>>
    BY <2>4 DEF BookInv
  <2>5. InsertBet \/ AtomicCashout \/ SettleBets => UNCHANGED <<game, games>>
    BY DEF InsertBet, AtomicCashout, SettleBets
  <2>6. \A b \in Preset : CreatePreset(b) => UNCHANGED <<game, games>>
    BY DEF CreatePreset
  <2>7. \A p \in Procs : AutoCashout(p) => UNCHANGED <<game, games>>
    BY DEF AutoCashout
  <2> QED BY <2>1, <2>2, <2>3, <2>4, <2>5, <2>6, <2>7, Elsewhere
<1>2. pc'[Manager] = "settle" => current' = NoGame
  <2>1. CASE UNCHANGED current /\ (pc'[Manager] = "settle" => pc[Manager] = "settle")
    BY <2>1 DEF BookInv
  <2>2. CASE Advance \/ Call
    <3>1. UNCHANGED <<current, pc>>
      BY <2>2 DEF Advance, Call, StartGame, SendStart, PlaceBet, Cashout, GiveUp, CreatePreset
    <3> QED BY <2>1, <3>1
  <2>3. ASSUME NEW p \in Procs, Shared(p)
        PROVE  pc'[Manager] = "settle" => current' = NoGame
    <3>1. CASE MarkCrashed(p)
      BY <1>0, <2>1, <3>1 DEF MarkCrashed, Goto, AfterCrash, TypeOK
    <3>2. CASE ClearGame(p)
      BY <3>2 DEF ClearGame
    <3>3. CASE StoreCrash(p) \/ SendCrash(p) \/ ListActive(p) \/ AutoCashout(p) \/ EndTick(p)
      <4>1. UNCHANGED current
        BY <3>3 DEF StoreCrash, SendCrash, ListActive, AutoCashout, EndTick
      <4>2. UNCHANGED pc \/ \E l \in Labels \ {"settle"} : pc' = [pc EXCEPT ![p] = l]
        BY <3>3, LabelSet DEF StoreCrash, SendCrash, ListActive, AutoCashout, EndTick, AfterTick, Goto
      <4> QED BY <1>0, <2>1, <4>1, <4>2 DEF TypeOK
    <3> QED BY <2>3, <3>1, <3>2, <3>3 DEF Shared
  <2>4. CASE ManagerStep
    <3>1. CASE Shared(Manager)
      BY <1>0, <2>3, <3>1
    <3>2. CASE ~Shared(Manager)
      <4>1. CASE HandlePlaceBet \/ HandleCashout
        <5>1. UNCHANGED current /\ (UNCHANGED pc \/ \E l \in {"placeBet", "cashout"} : Goto(Manager, l))
          BY <4>1 DEF HandlePlaceBet, HandleCashout
        <5> QED BY <1>0, <2>1, <5>1 DEF Goto, TypeOK
      <4>2. CASE InsertBet \/ AtomicCashout \/ SettleBets
        BY <1>0, <4>2 DEF InsertBet, AtomicCashout, SettleBets, Goto, TypeOK
      <4>3. CASE HandleStart \/ CreateGame
        BY <1>0, <4>3 DEF HandleStart, CreateGame, Goto, TypeOK
      <4>4. CASE InstallGame \/ SpawnLoop
        <5>1. round # Manager
          BY <1>0, <4>4 DEF InstallGame, SpawnLoop, ManagerKnows, Starting
        <5> QED BY <1>0, <4>4, <5>1 DEF InstallGame, SpawnLoop, Goto, TypeOK
      <4>5. CASE HandleCrash \/ ManagerTick
        BY <1>0, <4>5 DEF HandleCrash, ManagerTick, Tick, AfterTick, Goto, TypeOK
      <4> QED BY <2>4, <3>2, <4>1, <4>2, <4>3, <4>4, <4>5 DEF ManagerStep
    <3> QED BY <3>1, <3>2
  <2>5. ASSUME NEW g \in Rounds, LoopStep(g)
        PROVE  pc'[Manager] = "settle" => current' = NoGame
    <3>1. CASE Shared(g)
      BY <1>0, <2>3, <3>1
    <3>2. CASE BeginLoop(g) \/ StopLoop(g) \/ LoopTick(g) \/ ShouldCrash(g)
      <4>1. UNCHANGED current
        BY <3>2 DEF BeginLoop, StopLoop, LoopTick, ShouldCrash
      <4>2. pc'[Manager] = pc[Manager] \/ pc'[Manager] = "panic"
        BY <1>0, <3>2 DEF BeginLoop, StopLoop, LoopTick, ShouldCrash, Tick, Goto, TypeOK
      <4> QED BY <2>1, <4>1, <4>2
    <3> QED BY <2>5, <3>1, <3>2 DEF LoopStep
  <2> QED BY <2>2, <2>4, <2>5 DEF Next
<1> QED BY <1>1, <1>2 DEF BookInv

\* The invariants under which every step of the engine is one of the book.
THEOREM BookInvariant == Spec => [](CrashGameInv /\ BookInv)
<1>1. Init => BookInv
  BY InitBook
<1>2. CrashGameInv /\ BookInv /\ [Next]_vars => BookInv'
  <2>1. CASE UNCHANGED vars
    BY <2>1 DEF BookInv, vars, engine, database
  <2> QED BY <2>1, BookStep
<1> QED BY <1>1, <1>2, CrashGameInvariant, PTL DEF Spec

\* A round of startGameInternal opens in the book when its row does.
LEMMA CreateRefines ==
    ASSUME CrashGameInv, CreateGame
    PROVE  B!Next \/ UNCHANGED B!vars
<1>0. TypeOK /\ round \in Rounds
      /\ \A h \in Rounds : h >= round => game[h].status = "none" /\ games[h] = "none"
  <2>1. /\ TypeOK /\ round \in Rounds /\ game[round].status = "none" /\ games[round] = "none"
        /\ \A h \in Rounds : h > round => games[h] = "none" /\ game[h].status = "none"
    BY DEF CrashGameInv, CreateGame, ManagerKnows, Starting, RoundsInOrder
  <2> QED BY <2>1, RoundsType
<1>. PICK g \in Rounds : g = round
  BY <1>0
<1>1. PICK cp \in CrashPoints, inserted \in BOOLEAN, answer \in {"install", "select"} :
        /\ answer = "install" => inserted
        /\ games' = [games EXCEPT ![g] = IF inserted THEN "RUNNING" ELSE @]
        /\ game' = [game EXCEPT ![g] =
              IF answer = "install" THEN [status |-> "RUNNING", startedAt |-> clock, crashPoint |-> cp]
                                    ELSE @]
  BY DEF CreateGame
<1>2. UNCHANGED <<bets, credits, target, client>>
  BY DEF CreateGame, callers
<1>3. Oks' = Oks
  BY <1>2 DEF Oks
<1>4. CASE inserted
  <2>1. games' = [games EXCEPT ![g] = "RUNNING"]
    BY <1>1, <1>4
  <2>2. Flight' \in {Flight, [Flight EXCEPT ![g] = "RUNNING"]}
    <3>1. \A h \in Rounds : h # g => game'[h] = game[h]
      BY <1>0, <1>1 DEF TypeOK
    <3>2. game'[g] = game[g] \/ game'[g].status = "RUNNING"
      BY <1>0, <1>1 DEF TypeOK
    <3> QED BY <1>0, <3>1, <3>2 DEF Flight
  <2>3. B!Open(g)
    BY <1>0, <1>2, <1>3, <2>1, <2>2 DEF B!Open, Flight, Oks
  <2> QED BY <2>3 DEF B!Next
<1>5. CASE ~inserted
  <2>1. games' = games /\ game' = game
    BY <1>0, <1>1, <1>5 DEF TypeOK
  <2> QED BY <1>2, <2>1, BookStill
<1> QED BY <1>4, <1>5

\* A round crashes once; crashGame by a goroutine that comes late changes nothing.
LEMMA MarkRefines ==
    ASSUME CrashGameInv, NEW p \in Procs, MarkCrashed(p)
    PROVE  B!Next \/ UNCHANGED B!vars
<1>1. /\ UNCHANGED <<games, bets, credits, target, client>>
      /\ game' = [g \in Rounds |-> IF g = current THEN [game[g] EXCEPT !.status = "CRASHED"] ELSE game[g]]
  BY DEF MarkCrashed, callers, database
<1>2. TypeOK /\ current \in {NoGame} \cup Rounds /\ (current # NoGame => game[current].status # "none")
  BY DEF CrashGameInv, TypeOK, RoundsInOrder, Started
<1>3. \A g \in Rounds : game'[g].status = IF g = current THEN "CRASHED" ELSE game[g].status
  BY <1>1, <1>2 DEF TypeOK, Games
<1>4. CASE current \in Rounds /\ game[current].status = "RUNNING"
  <2>. PICK g \in Rounds : g = current
    BY <1>4
  <2>1. Flight' = [Flight EXCEPT ![g] = "CRASHED"] /\ Flight[g] = "RUNNING"
    BY <1>3, <1>4 DEF Flight
  <2>2. Oks' = Oks
    BY <1>1 DEF Oks
  <2>3. B!Crash(g)
    BY <1>1, <2>1, <2>2 DEF B!Crash, Flight, Oks
  <2> QED BY <2>3 DEF B!Next
<1>5. CASE ~(current \in Rounds /\ game[current].status = "RUNNING")
  <2>1. \A g \in Rounds : g = current => game[g].status = "CRASHED"
    BY <1>2, <1>5, RoundsType DEF TypeOK, Games, NoGame
  <2>2. \A g \in Rounds : game'[g].status = game[g].status
    BY <1>3, <2>1
  <2> QED BY <1>1, <2>2, BookStill
<1> QED BY <1>4, <1>5

\* The crash is stored after it happened, and storing it again changes nothing.
LEMMA StoreRefines ==
    ASSUME CrashGameInv, BookInv, NEW p \in Procs, StoreCrash(p)
    PROVE  B!Next \/ UNCHANGED B!vars
<1>0. local[p].game \in Rounds
  BY DEF StoreCrash, CrashGameInv, RoundsInOrder
<1>. PICK g \in Rounds : g = local[p].game
  BY <1>0
<1>1. UNCHANGED <<game, bets, credits, target, client>>
  BY DEF StoreCrash, engine, callers
<1>2. TypeOK /\ game[g].status = "CRASHED" /\ games[g] \in {"RUNNING", "CRASHED"}
  BY DEF StoreCrash, CrashGameInv, RoundsInOrder, BookInv, TypeOK
<1>3. games' = games \/ games' = [games EXCEPT ![g] = "CRASHED"]
  BY DEF StoreCrash
<1>4. CASE games' # games
  <2>1. games[g] = "RUNNING"
    BY <1>2, <1>3, <1>4 DEF TypeOK
  <2>2. Flight' = Flight /\ Oks' = Oks /\ Flight[g] = "CRASHED"
    BY <1>1, <1>2 DEF Flight, Oks
  <2>3. B!Store(g)
    BY <1>1, <1>3, <1>4, <2>1, <2>2 DEF B!Store, Flight, Oks
  <2> QED BY <2>3 DEF B!Next
<1>5. CASE games' = games
  BY <1>1, <1>5, BookStill
<1> QED BY <1>4, <1>5

\* A bet is placed in a round that has taken off, by its player ...
LEMMA InsertRefines ==
    ASSUME CrashGameInv, InsertBet
    PROVE  B!Next \/ UNCHANGED B!vars
<1>0. request \in Bets /\ local[Manager].game \in Rounds
  BY DEF InsertBet, CrashGameInv, ManagerKnows
<1>. PICK b \in Bets, g \in Rounds : b = request /\ g = local[Manager].game
  BY <1>0
<1>1. /\ TypeOK /\ ManagerKnows /\ b \in BetRows
      /\ games[g] # "none" /\ game[g].status # "none" /\ bets[b].status = "none" /\ b \notin Cashouts
  BY CrashGameAssumption DEF InsertBet, CrashGameInv, ManagerKnows, Started, QueuedOnce, BetRows
<1>2. UNCHANGED <<game, games, credits, target>>
  BY DEF InsertBet, engine
<1>3. PICK inserted \in BOOLEAN, answer \in {"ok", "failed"} :
        /\ answer = "ok" => inserted
        /\ bets' = [bets EXCEPT ![b] = IF inserted THEN [game |-> g, status |-> "ACTIVE", auto |-> 0] ELSE @]
        /\ Reply(b, answer)
  BY DEF InsertBet, Answers
<1>4. \A c \in Bets \cup Cashouts :
          /\ client[c] = "ok" => client'[c] = "ok"
          /\ client'[c] = "ok" => client[c] = "ok" \/ (c = b /\ answer = "ok")
  BY <1>1, <1>3, ReplyKeeps DEF Callers
<1>5. CASE inserted
  <2>1. Oks' = Oks \/ Oks' = Oks \cup {b}
    BY <1>1, <1>4 DEF Oks
  <2>2. bets' = [bets EXCEPT ![b] = [game |-> g, status |-> "ACTIVE", auto |-> IF b \in Bets THEN 0 ELSE AutoOdds]]
    BY <1>1, <1>3, <1>5
  <2>3. Flight' = Flight /\ Flight[g] # "none" /\ {b} \cap Bets = {b}
    BY <1>1, <1>2 DEF Flight
  <2>4. B!Place(b, g)
    BY <1>1, <1>2, <2>1, <2>2, <2>3 DEF B!Place, Flight, Oks
  <2>5. b \in B!BetRows
    BY <1>1 DEF B!BetRows
  <2> QED BY <2>4, <2>5 DEF B!Next
<1>6. CASE ~inserted
  <2>1. bets' = bets
    BY <1>1, <1>3, <1>6 DEF TypeOK
  <2>2. \A c \in Bets \cup Cashouts : client'[c] = "ok" <=> client[c] = "ok"
    BY <1>3, <1>4, <1>6
  <2> QED BY <1>2, <2>1, <2>2, BookStill
<1> QED BY <1>5, <1>6

\* ... or with an automatic cashout, in a round on record.
LEMMA PresetRefines ==
    ASSUME CrashGameInv, NEW b \in Preset, CreatePreset(b)
    PROVE  B!Next \/ UNCHANGED B!vars
<1>1. b \in B!BetRows /\ b \notin Bets /\ {b} \cap Bets = {}
  BY CrashGameAssumption DEF B!BetRows
<1>2. UNCHANGED <<game, games, credits, target, client>> /\ bets[b].status = "none"
  BY DEF CreatePreset, engine, callers
<1>3. PICK g \in Rounds :
        /\ games[g] = "RUNNING"
        /\ bets' = [bets EXCEPT ![b] = [game |-> g, status |-> "ACTIVE", auto |-> AutoOdds]]
  BY DEF CreatePreset
<1>4. Flight' = Flight /\ Oks' = Oks
  BY <1>2 DEF Flight, Oks
<1>5. bets' = [bets EXCEPT ![b] = [game |-> g, status |-> "ACTIVE", auto |-> IF b \in Bets THEN 0 ELSE AutoOdds]]
  BY <1>1, <1>3
<1>6. B!Place(b, g)
  BY <1>1, <1>2, <1>3, <1>4, <1>5 DEF B!Place, Flight, Oks
<1> QED BY <1>1, <1>6 DEF B!Next

\* The row of a bet that is ACTIVE leaves it for one caller, who may be told ...
LEMMA CashoutRefines ==
    ASSUME CrashGameInv, AtomicCashout
    PROVE  B!Next \/ UNCHANGED B!vars
<1>1. TypeOK /\ request \in Cashouts /\ request \notin Bets /\ target[request] \in BetRows
  BY CrashGameAssumption DEF AtomicCashout, CrashGameInv, ManagerKnows, TypeOK
<1>2. UNCHANGED <<game, games, credits, target>>
  BY DEF AtomicCashout, engine
<1>. PICK b \in BetRows : b = target[request]
  BY <1>1
<1>3. PICK claimed \in BOOLEAN, answer \in {"ok", "failed"} :
        /\ claimed => bets[b].status = "ACTIVE"
        /\ answer = "ok" => claimed
        /\ bets' = [bets EXCEPT ![b].status = IF claimed THEN "CASHED_OUT" ELSE @]
        /\ Reply(request, answer)
  BY DEF AtomicCashout, Claimable, Answers
<1>4. \A c \in Bets \cup Cashouts :
          /\ client[c] = "ok" => client'[c] = "ok"
          /\ client'[c] = "ok" => client[c] = "ok" \/ (c = request /\ answer = "ok")
  BY <1>1, <1>3, ReplyKeeps DEF Callers
<1>5. CASE claimed
  <2>1. Oks' = Oks \/ Oks' = Oks \cup {request}
    BY <1>1, <1>4 DEF Oks
  <2>2. Flight' = Flight
    BY <1>2 DEF Flight
  <2>3. bets' = [bets EXCEPT ![b].status = "CASHED_OUT"]
    BY <1>3, <1>5
  <2>4. B!CashOut(b)
    BY <1>1, <1>2, <1>3, <1>5, <2>1, <2>2, <2>3 DEF B!CashOut, Flight, Oks
  <2>5. b \in B!BetRows
    BY DEF B!BetRows, BetRows
  <2> QED BY <2>4, <2>5 DEF B!Next
<1>6. CASE ~claimed
  <2>1. bets' = bets
    BY <1>1, <1>3, <1>6 DEF TypeOK, GameBets
  <2>2. \A c \in Bets \cup Cashouts : client'[c] = "ok" <=> client[c] = "ok"
    BY <1>3, <1>4, <1>6
  <2> QED BY <1>2, <2>1, <2>2, BookStill
<1> QED BY <1>5, <1>6

\* ... or for the payout of a tick, the first there is.
LEMMA AutoRefines ==
    ASSUME CrashGameInv, NEW p \in Procs, AutoCashout(p)
    PROVE  B!Next \/ UNCHANGED B!vars
<1>1. PICK b \in todo[p], claimed \in BOOLEAN :
        /\ claimed => bets[b].status = "ACTIVE"
        /\ bets' = [bets EXCEPT ![b].status = IF claimed THEN "CASHED_OUT" ELSE @]
        /\ credits' = [credits EXCEPT ![b] = IF claimed THEN @ + 1 ELSE @]
  BY DEF AutoCashout, Claimable
<1>2. TypeOK /\ b \in BetRows /\ UNCHANGED <<game, games, client, target>>
  BY DEF AutoCashout, CrashGameInv, TypeOK, engine, callers
<1>3. CASE claimed
  <2>1. credits[b] = 0
    BY <1>1, <1>2, <1>3 DEF CrashGameInv, PaidOrTold
  <2>2. credits' = [credits EXCEPT ![b] = 1] /\ bets' = [bets EXCEPT ![b].status = "CASHED_OUT"]
    BY <1>1, <1>2, <1>3, <2>1 DEF TypeOK
  <2>3. Flight' = Flight /\ Oks' = Oks
    BY <1>2 DEF Flight, Oks
  <2>4. B!CashOut(b)
    BY <1>1, <1>2, <1>3, <2>1, <2>2, <2>3 DEF B!CashOut, Flight, Oks
  <2>5. b \in B!BetRows
    BY <1>2 DEF B!BetRows, BetRows
  <2> QED BY <2>4, <2>5 DEF B!Next
<1>4. CASE ~claimed
  <2>1. bets' = bets /\ credits' = credits
    BY <1>1, <1>2, <1>4 DEF TypeOK, GameBets
  <2> QED BY <1>2, <2>1, BookStill
<1> QED BY <1>3, <1>4

\* When settleBets runs there is no current game any more: it settles nothing.
LEMMA SettleStill ==
    ASSUME CrashGameInv, BookInv, SettleBets
    PROVE  UNCHANGED B!vars
<1>1. current = NoGame /\ UNCHANGED <<game, games, credits, target, client>>
  BY DEF SettleBets, BookInv, callers
<1>2. bets' = [b \in BetRows |-> bets[b]]
  BY <1>1 DEF SettleBets
<1>3. bets' = bets
  BY <1>2 DEF CrashGameInv, TypeOK
<1> QED BY <1>1, <1>3, BookStill

\* Whichever goroutine moves and whichever answer is lost, what the engine writes is a
\* step of the book: rounds open in turn and crash once, rows follow, a bet leaves ACTIVE
\* once and for one reason, and success is told of what is on record.
THEOREM EngineKeepsTheBook == Spec => RefinesBook
<1>1. CrashGameInv /\ BookInv /\ [Next]_vars => [B!Next]_B!vars
  <2> SUFFICES ASSUME CrashGameInv, BookInv, [Next]_vars PROVE B!Next \/ UNCHANGED B!vars
    OBVIOUS
  <2>1. CASE UNCHANGED vars
    <3>1. UNCHANGED <<games, bets, credits, target, game, client>>
      BY <2>1 DEF vars, engine, callers, database
    <3> QED BY <3>1, BookStill
  <2>2. CASE Next
    <3>1. CASE CreateGame \/ InsertBet \/ AtomicCashout \/ SettleBets
      BY <3>1, CreateRefines, InsertRefines, CashoutRefines, SettleStill
    <3>2. ASSUME NEW b \in Preset, CreatePreset(b) PROVE B!Next \/ UNCHANGED B!vars
      BY <3>2, PresetRefines
    <3>3. ASSUME NEW p \in Procs, MarkCrashed(p) \/ StoreCrash(p) \/ AutoCashout(p)
          PROVE  B!Next \/ UNCHANGED B!vars
      BY <3>3, MarkRefines, StoreRefines, AutoRefines
    <3>4. CASE /\ ~CreateGame /\ ~InsertBet /\ ~AtomicCashout /\ ~SettleBets
               /\ \A b \in Preset : ~CreatePreset(b)
               /\ \A p \in Procs : ~MarkCrashed(p) /\ ~StoreCrash(p) /\ ~AutoCashout(p)
      <4>1. UNCHANGED <<game, games, bets, credits, target>>
        BY <2>2, <3>4, Elsewhere
      <4>2. \A c \in Bets \cup Cashouts : client'[c] = "ok" <=> client[c] = "ok"
        BY <2>2, <3>4, Answered DEF CrashGameInv, Callers
      <4> QED BY <4>1, <4>2, BookStill
    <3> QED BY <3>1, <3>2, <3>3, <3>4
  <2> QED BY <2>1, <2>2
<1> QED BY <1>1, InitBook, BookInvariant, PTL DEF Spec, RefinesBook, B!Spec

=============================================================================
