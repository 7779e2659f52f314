------------------------------ MODULE GameBook ------------------------------
(***************************************************************************)
(* What the crash game promises about its rounds and bets, with no          *)
(* goroutines, channels or lost answers in sight. Rounds open one after the *)
(* other and crash once, their rows follow them; a bet is placed once, in a *)
(* round that is on record, and leaves ACTIVE once: cashed out to one       *)
(* caller or one payout, or lost with its round. Nobody is told of success  *)
(* before it is in the book. Module CrashGame shows that the engine keeps   *)
(* to it.                                                                  *)
(***************************************************************************)
EXTENDS Integers

CONSTANTS
    Rounds,
    Bets,      \* calls of PlaceBet, and the bets they place
    Preset,    \* bets with odds at which they cash out
    Cashouts,  \* calls of Cashout
    AutoOdds

BetRows == Bets \cup Preset
NoGame  == 0

VARIABLES
    flight,    \* flight[g]: "none", "RUNNING" or "CRASHED"
    games,     \* games[g]: what the table says of it
    bets,      \* bets[b]: row of game_bets
    credits,   \* credits[b]: payouts of bet b that reached the wallet
    target,    \* target[c]: the bet that Cashout call c names
    ok         \* calls of PlaceBet and Cashout that were told of success

vars == <<flight, games, bets, credits, target, ok>>

Init ==
    /\ flight = [g \in Rounds |-> "none"]
    /\ games = [g \in Rounds |-> "none"]
    /\ bets = [b \in BetRows |-> [game |-> NoGame, status |-> "none", auto |-> 0]]
    /\ credits = [b \in BetRows |-> 0]
    /\ target \in [Cashouts -> BetRows]
    /\ ok = {}

\* The row may be all there is of a round.
Open(g) ==
    /\ \A h \in Rounds : h >= g => flight[h] = "none" /\ games[h] = "none"
    /\ games' = [games EXCEPT ![g] = "RUNNING"]
    /\ flight' \in {flight, [flight EXCEPT ![g] = "RUNNING"]}
    /\ UNCHANGED <<bets, credits, target, ok>>

Crash(g) ==
    /\ flight[g] = "RUNNING"
    /\ flight' = [flight EXCEPT ![g] = "CRASHED"]
    /\ UNCHANGED <<games, bets, credits, target, ok>>

Store(g) ==
    /\ flight[g] = "CRASHED" /\ games[g] = "RUNNING"
    /\ games' = [games EXCEPT ![g] = "CRASHED"]
    /\ UNCHANGED <<flight, bets, credits, target, ok>>

Place(b, g) ==
    /\ bets[b].status = "none" /\ games[g] # "none"
    /\ b \in Bets => flight[g] # "none"
    /\ bets' = [bets EXCEPT ![b] =
          [game |-> g, status |-> "ACTIVE", auto |-> IF b \in Bets THEN 0 ELSE AutoOdds]]
    /\ ok' \in {ok, ok \cup ({b} \cap Bets)}
    /\ UNCHANGED <<flight, games, credits, target>>

CashOut(b) ==
    /\ bets[b].status = "ACTIVE"
    /\ bets' = [bets EXCEPT ![b].status = "CASHED_OUT"]
    /\ \/ /\ \/ ok' = ok
             \/ \E c \in Cashouts : target[c] = b /\ ok' = ok \cup {c}
          /\ UNCHANGED credits
       \/ /\ credits[b] = 0 /\ credits' = [credits EXCEPT ![b] = 1]
          /\ UNCHANGED ok
    /\ UNCHANGED <<flight, games, target>>

Lose(g) ==
    /\ flight[g] = "CRASHED"
    /\ bets' = [b \in BetRows |-> IF bets[b].game = g /\ bets[b].status = "ACTIVE"
                                  THEN [bets[b] EXCEPT !.status = "LOST"] ELSE bets[b]]
    /\ UNCHANGED <<flight, games, credits, target, ok>>

Next ==
    \/ \E g \in Rounds : Open(g) \/ Crash(g) \/ Store(g) \/ Lose(g)
    \/ \E b \in BetRows : CashOut(b) \/ \E g \in Rounds : Place(b, g)

Spec == Init /\ [][Next]_vars

=============================================================================
