------------------------------ MODULE Snowflake ------------------------------
(***************************************************************************)
(* The id generators of internal/infrastructure/id/snowflake.go. A generator *)
(* lives in one process; a process that is restarted, or a second replica,  *)
(* has another generator with the same worker number. Calls of one generator *)
(* are serialised by its mutex, which is held while it waits for the next    *)
(* second; the wall clock goes on meanwhile and may also be set back.        *)
(***************************************************************************)
EXTENDS Integers, Sequences

CONSTANTS
    Generators,    \* instances of SnowflakeGenerator
    Worker,        \* Worker[g]: the worker number of g, the same for all replicas of a service
    SequenceSize,  \* sequenceMask + 1 (1024)
    Base,          \* the base of the printed numbers (10)
    SequenceWidth, \* the numbers that fit the width of %03d: 0 .. 999 (1000)
    WorkerWidth,   \* the numbers that fit the width of %04d: 0 .. 9999 (10000)
    MaxClock,      \* bound on the clock
    MaxIds         \* bound on the ids a generator issues

ASSUME SnowflakeAssumption ==
    /\ SequenceSize \in Nat \ {0}
    /\ Base \in Nat \ {0}
    /\ SequenceWidth \in Nat \ {0}
    /\ SequenceSize <= Base * SequenceWidth
    /\ WorkerWidth \in Nat
    /\ Worker \in [Generators -> 0 .. Base * WorkerWidth - 1]
    /\ MaxClock \in Nat \ {0}
    /\ MaxIds \in Nat

VARIABLES
    clock,     \* Unix seconds of the wall clock
    lastTime,  \* lastTime[g]
    sequence,  \* sequence[g]
    now,       \* now[g]: the second GenerateID read when it began
    pc,        \* pc[g]: "idle", or "wait" in waitNextSecond
    issued     \* issued[g]: the ids returned, in order

vars == <<clock, lastTime, sequence, now, pc, issued>>

Seconds == 1 .. MaxClock

Init ==
    /\ clock = 1
    /\ lastTime = [g \in Generators |-> 0]
    /\ sequence = [g \in Generators |-> 0]
    /\ now = [g \in Generators |-> 0]
    /\ pc = [g \in Generators |-> "idle"]
    /\ issued = [g \in Generators |-> <<>>]

\* Time passes, or the clock is set back.
ClockMoves ==
    /\ clock' \in {t \in Seconds : t = clock + 1 \/ t < clock}
    /\ UNCHANGED <<lastTime, sequence, now, pc, issued>>

Issue(g, second, seq) ==
    issued' = [issued EXCEPT ![g] = Append(@, [second |-> second, seq |-> seq])]

\* Mutation: the sequence starts again whenever the clock has moved, back or forth.
NewSecondAnyway(g) ==
    /\ pc[g] = "idle" /\ Len(issued[g]) < MaxIds
    /\ clock # lastTime[g]
    /\ lastTime' = [lastTime EXCEPT ![g] = clock]
    /\ sequence' = [sequence EXCEPT ![g] = 0]
    /\ Issue(g, clock, 0)
    /\ UNCHANGED <<clock, now, pc>>

\* The first id of a second. With a clock behind lastTime GenerateID panics, its
\* mutex released and nothing changed.
NewSecond(g) ==
    /\ pc[g] = "idle" /\ Len(issued[g]) < MaxIds
    /\ clock > lastTime[g]
    /\ lastTime' = [lastTime EXCEPT ![g] = clock]
    /\ sequence' = [sequence EXCEPT ![g] = 0]
    /\ Issue(g, clock, 0)
    /\ UNCHANGED <<clock, now, pc>>

\* Mutation: the sequence is not masked.
NoMask(g) ==
    /\ pc[g] = "idle" /\ Len(issued[g]) < MaxIds
    /\ clock = lastTime[g]
    /\ sequence' = [sequence EXCEPT ![g] = @ + 1]
    /\ Issue(g, clock, sequence[g] + 1)
    /\ UNCHANGED <<clock, lastTime, now, pc>>

\* Another id of the same second, or the sequence wraps and the call has to wait.
SameSecond(g) ==
    LET next == (sequence[g] + 1) % SequenceSize IN
    /\ pc[g] = "idle" /\ Len(issued[g]) < MaxIds
    /\ clock = lastTime[g]
    /\ sequence' = [sequence EXCEPT ![g] = next]
    /\ IF next = 0
       THEN /\ now' = [now EXCEPT ![g] = clock]
            /\ pc' = [pc EXCEPT ![g] = "wait"]
            /\ UNCHANGED issued
       ELSE /\ Issue(g, clock, next)
            /\ UNCHANGED <<now, pc>>
    /\ UNCHANGED <<clock, lastTime>>

\* waitNextSecond returns: lastTime is the new second, but the id is printed with
\* the time read before the wait.
Waited(g) ==
    /\ pc[g] = "wait"
    /\ clock > lastTime[g]
    /\ lastTime' = [lastTime EXCEPT ![g] = clock]
    /\ Issue(g, now[g], 0)
    /\ pc' = [pc EXCEPT ![g] = "idle"]
    /\ UNCHANGED <<clock, sequence, now>>

GenerateID(g) == NewSecond(g) \/ SameSecond(g) \/ Waited(g)

Next == ClockMoves \/ \E g \in Generators : GenerateID(g)

Spec == Init /\ [][Next]_vars

-----------------------------------------------------------------------------
(* The printed id *)

\* Mutation: worker and sequence are added up, with room for one digit.
AddedUp(w, seq) == [extra |-> 0, value |-> w * Base + seq]

\* Worker and sequence, behind the fourteen digits of the time: %04d and %03d pad to
\* a width and do not cut a number that needs one digit more, so two ids are the
\* same text when they have as many digits and the same digits.
Printed(w, seq) ==
    LET extra(n, width) == IF n < width THEN 0 ELSE 1
        shift == IF seq < SequenceWidth THEN SequenceWidth ELSE Base * SequenceWidth
    IN  [extra |-> extra(w, WorkerWidth) + extra(seq, SequenceWidth), value |-> w * shift + seq]

\* The fourteen digits are the local time of the second: two seconds read alike only where
\* clocks are put back in autumn, which neither UTC nor the Nairobi time of the platform do.
SameText(g, e, h, f) ==
    e.second = f.second /\ Printed(Worker[g], e.seq) = Printed(Worker[h], f.seq)

-----------------------------------------------------------------------------
(* Properties *)

Issued(g) == 1 .. Len(issued[g])

Id == [second : Seconds, seq : 0 .. SequenceSize - 1]

TypeOK ==
    /\ clock \in Seconds
    /\ lastTime \in [Generators -> {0} \cup Seconds]
    /\ sequence \in [Generators -> 0 .. SequenceSize - 1]
    /\ now \in [Generators -> {0} \cup Seconds]
    /\ pc \in [Generators -> {"idle", "wait"}]
    /\ issued \in [Generators -> Seq(Id)]

\* One generator never prints an id twice, whatever the clock does, but for the first
\* id of a second, which is printed again when the sequence overflows.
OnlyFirstRepeats ==
    \A g \in Generators : \A i, j \in Issued(g) :
        i # j /\ SameText(g, issued[g][i], g, issued[g][j]) => issued[g][i].seq = 0

\* Generators of different workers never print the same id, as long as the worker
\* numbers fit their four digits.
WorkersApart ==
    \A g, h \in Generators :
        Worker[g] # Worker[h] /\ Worker[g] < WorkerWidth /\ Worker[h] < WorkerWidth =>
            \A i \in Issued(g), j \in Issued(h) :
                ~SameText(g, issued[g][i], h, issued[h][j])

-----------------------------------------------------------------------------
(* The inductive invariant behind OnlyFirstRepeats *)

\* lastTime is never behind an id, and outside the wait the sequence is not behind
\* the ids of its second.
NeverBehind(g) == \A i \in Issued(g) :
    /\ issued[g][i].second <= lastTime[g]
    /\ pc[g] = "idle" /\ issued[g][i].second = lastTime[g] => issued[g][i].seq <= sequence[g]

\* A call that waits has wrapped the sequence and holds the time it read.
WaitsForNext(g) == pc[g] = "wait" => now[g] = lastTime[g] /\ now[g] \in Seconds /\ sequence[g] = 0

FirstRepeats(g) == \A i, j \in Issued(g) :
    i # j /\ issued[g][i] = issued[g][j] => issued[g][i].seq = 0

SnowflakeInv ==
    TypeOK /\ \A g \in Generators : NeverBehind(g) /\ WaitsForNext(g) /\ FirstRepeats(g)

=============================================================================
