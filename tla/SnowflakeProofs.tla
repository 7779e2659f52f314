-------------------------- MODULE SnowflakeProofs --------------------------
(* Proofs about module Snowflake, for any generators, workers and widths. *)
EXTENDS Snowflake, TLAPS

(* Lemmas about the sequence number and the printed id *)

\* The mask keeps the sequence in range, and it is the next number unless it wraps.
LEMMA MaskedSequence ==
    ASSUME NEW s \in 0 .. SequenceSize - 1
    PROVE  LET next == (s + 1) % SequenceSize IN
           /\ next \in 0 .. SequenceSize - 1
           /\ next # 0 => next = s + 1
<1> USE SnowflakeAssumption
<1>1. CASE s + 1 < SequenceSize
  <2>1. (s + 1) % SequenceSize = s + 1
    BY <1>1
  <2>2. QED
    BY <2>1, <1>1
<1>2. CASE s + 1 = SequenceSize
  <2>1. SequenceSize % SequenceSize = 0
    OBVIOUS
  <2>2. QED
    BY <2>1, <1>2
<1>3. QED
  BY <1>1, <1>2

\* Of one worker, equal texts have equal sequence numbers.
LEMMA SameTextSameSequence ==
    ASSUME NEW w \in Nat, NEW s \in Nat, NEW t \in Nat,
           s < Base * SequenceWidth, t < Base * SequenceWidth,
           Printed(w, s) = Printed(w, t)
    PROVE  s = t
<1> USE SnowflakeAssumption
<1> DEFINE long == Base * SequenceWidth
<1>1. long \in Nat
  OBVIOUS
<1>2. w * SequenceWidth \in Int /\ w * long \in Int
  BY <1>1
<1>3. (s < SequenceWidth) <=> (t < SequenceWidth)
  BY DEF Printed
<1>4. CASE s < SequenceWidth
  <2>1. w * SequenceWidth + s = w * SequenceWidth + t
    BY <1>3, <1>4 DEF Printed
  <2>2. QED
    BY <2>1, <1>2
<1>5. CASE ~(s < SequenceWidth)
  <2>1. w * long + s = w * long + t
    BY <1>3, <1>5 DEF Printed
  <2>2. QED
    BY <2>1, <1>2
<1>6. QED
  BY <1>4, <1>5

\* A number below n after a multiple of n: both can be read back.
LEMMA DigitsApart ==
    ASSUME NEW w \in Nat, NEW v \in Nat, NEW n \in Nat,
           NEW s \in 0 .. n - 1, NEW t \in 0 .. n - 1,
           w * n + s = v * n + t
    PROVE  w = v
<1>1. ASSUME NEW a \in Nat, NEW b \in Nat, a < b
      PROVE  a * n + n <= b * n
  <2>1. PICK d \in Nat : b = a + 1 + d
    <3>1. b - a - 1 \in Nat /\ b = a + 1 + (b - a - 1)
      BY <1>1
    <3>2. QED
      BY <3>1
  <2>2. b * n = a * n + n + d * n
    BY <2>1
  <2>3. d * n \in Nat /\ a * n \in Nat
    BY <2>1
  <2>4. QED
    BY <2>2, <2>3
<1>2. w * n \in Int /\ v * n \in Int
  OBVIOUS
<1>3. CASE w < v
  <2>1. w * n + n <= v * n
    BY <1>1, <1>3
  <2>2. QED
    BY <2>1, <1>2
<1>4. CASE v < w
  <2>1. v * n + n <= w * n
    BY <1>1, <1>4
  <2>2. QED
    BY <2>1, <1>2
<1>5. QED
  BY <1>3, <1>4

\* Numbers of two workers that fit their width are never printed alike.
LEMMA PrintedApart ==
    ASSUME NEW w \in Nat, NEW v \in Nat, w # v, w < WorkerWidth, v < WorkerWidth,
           NEW s \in 0 .. SequenceSize - 1, NEW t \in 0 .. SequenceSize - 1
    PROVE  Printed(w, s) # Printed(v, t)
<1> USE SnowflakeAssumption
<1> DEFINE long == Base * SequenceWidth
<1> SUFFICES ASSUME Printed(w, s) = Printed(v, t)
             PROVE  FALSE
  OBVIOUS
<1>1. (s < SequenceWidth) <=> (t < SequenceWidth)
  BY DEF Printed
<1>2. CASE s < SequenceWidth
  <2>1. w * SequenceWidth + s = v * SequenceWidth + t
    BY <1>1, <1>2 DEF Printed
  <2>2. QED
    BY <2>1, <1>1, <1>2, DigitsApart
<1>3. CASE ~(s < SequenceWidth)
  <2>1. w * long + s = v * long + t
    BY <1>1, <1>3 DEF Printed
  <2>2. long \in Nat /\ s \in 0 .. long - 1 /\ t \in 0 .. long - 1
    OBVIOUS
  <2> HIDE DEF long
  <2>3. QED
    BY <2>1, <2>2, DigitsApart
<1>4. QED
  BY <1>2, <1>3

-----------------------------------------------------------------------------
(* The inductive invariant *)

GeneratorInv(g) == NeverBehind(g) /\ WaitsForNext(g) /\ FirstRepeats(g)

\* What a generator keeps when it issues one more id.
LEMMA IssueKeepsOrder ==
    ASSUME TypeOK, NEW g \in Generators, NEW second \in Seconds, NEW seq \in 0 .. SequenceSize - 1,
           Issue(g, second, seq)
    PROVE  /\ issued' \in [Generators -> Seq(Id)]
           /\ \A h \in Generators : h # g => issued'[h] = issued[h]
           /\ \A i \in Issued(g)' :
                 \/ i \in Issued(g) /\ issued'[g][i] = issued[g][i]
                 \/ i = Len(issued[g]) + 1 /\ issued'[g][i] = [second |-> second, seq |-> seq]
<1> DEFINE e == [second |-> second, seq |-> seq]
<1>1. e \in Id /\ issued[g] \in Seq(Id) /\ issued'[g] = Append(issued[g], e)
  BY DEF TypeOK, Issue, Id
<1>2. Append(issued[g], e) \in Seq(Id)
  BY <1>1
<1>3. issued' \in [Generators -> Seq(Id)]
  BY <1>2 DEF TypeOK, Issue
<1>4. \A h \in Generators : h # g => issued'[h] = issued[h]
  BY DEF TypeOK, Issue
<1>5. ASSUME NEW i \in Issued(g)'
      PROVE  \/ i \in Issued(g) /\ issued'[g][i] = issued[g][i]
             \/ i = Len(issued[g]) + 1 /\ issued'[g][i] = e
  <2>1. Len(issued[g]) \in Nat /\ i \in 1 .. Len(issued[g]) + 1
    BY <1>1 DEF Issued
  <2>2. QED
    BY <2>1, <1>1 DEF Issued
<1>6. QED
  BY <1>3, <1>4, <1>5

\* A new generator satisfies the invariant.
LEMMA InitInv == Init => SnowflakeInv
<1> SUFFICES ASSUME Init PROVE SnowflakeInv
  OBVIOUS
<1>1. TypeOK
  BY SnowflakeAssumption DEF Init, TypeOK, Seconds
<1>2. \A g \in Generators : GeneratorInv(g)
  <2> SUFFICES ASSUME NEW g \in Generators PROVE GeneratorInv(g)
    OBVIOUS
  <2>1. issued[g] = <<>> /\ pc[g] = "idle"
    BY DEF Init
  <2>2. Issued(g) = {}
    BY <2>1 DEF Issued
  <2>3. QED
    BY <2>1, <2>2 DEF GeneratorInv, NeverBehind, WaitsForNext, FirstRepeats
<1>3. QED
  BY <1>1, <1>2 DEF SnowflakeInv, GeneratorInv

\* A generator whose variables a step leaves alone keeps its part.
LEMMA Untouched ==
    ASSUME NEW g \in Generators, GeneratorInv(g),
           issued'[g] = issued[g], lastTime'[g] = lastTime[g], sequence'[g] = sequence[g],
           now'[g] = now[g], pc'[g] = pc[g]
    PROVE  GeneratorInv(g)'
BY DEF GeneratorInv, NeverBehind, WaitsForNext, FirstRepeats, Issued

\* The first id of a second keeps the invariant.
LEMMA NewSecondInv ==
    ASSUME SnowflakeInv, NEW g \in Generators, NewSecond(g)
    PROVE  SnowflakeInv'
<1>1. TypeOK /\ \A h \in Generators : GeneratorInv(h)
  BY DEF SnowflakeInv, GeneratorInv
<1>2. clock \in Seconds /\ 0 \in 0 .. SequenceSize - 1
  BY <1>1, SnowflakeAssumption DEF TypeOK
<1>3. /\ pc[g] = "idle" /\ clock > lastTime[g] /\ Issue(g, clock, 0)
      /\ lastTime' = [lastTime EXCEPT ![g] = clock]
      /\ sequence' = [sequence EXCEPT ![g] = 0]
      /\ UNCHANGED <<clock, now, pc>>
  BY DEF NewSecond
<1>4. TypeOK'
  BY <1>1, <1>2, <1>3, IssueKeepsOrder DEF TypeOK
<1>5. GeneratorInv(g)'
  <2>1. /\ lastTime[g] \in Int /\ clock > lastTime[g] /\ clock \in Int
        /\ lastTime'[g] = clock /\ sequence'[g] = 0 /\ pc'[g] = "idle"
    BY <1>1, <1>2, <1>3 DEF TypeOK, Seconds
  <2>2. \A i \in Issued(g) : issued[g][i] \in Id /\ issued[g][i].second <= lastTime[g]
    BY <1>1 DEF TypeOK, GeneratorInv, NeverBehind, Issued
  <2>3. \A i \in Issued(g)' :
          \/ i \in Issued(g) /\ issued'[g][i] = issued[g][i]
          \/ i = Len(issued[g]) + 1 /\ issued'[g][i] = [second |-> clock, seq |-> 0]
    BY <1>1, <1>2, <1>3, IssueKeepsOrder
  <2>4. NeverBehind(g)'
    BY <2>1, <2>2, <2>3 DEF NeverBehind, Id, Seconds
  <2>5. FirstRepeats(g)'
    BY <1>1, <2>1, <2>2, <2>3 DEF FirstRepeats, GeneratorInv, Id, Seconds
  <2>6. QED
    BY <2>1, <2>4, <2>5 DEF GeneratorInv, WaitsForNext
<1>6. ASSUME NEW h \in Generators, h # g PROVE GeneratorInv(h)'
  BY <1>1, <1>2, <1>3, <1>6, IssueKeepsOrder, Untouched DEF TypeOK
<1>7. QED
  BY <1>4, <1>5, <1>6 DEF SnowflakeInv, GeneratorInv

\* The next id of the second, or the overflow, keeps the invariant.
LEMMA SameSecondInv ==
    ASSUME SnowflakeInv, NEW g \in Generators, SameSecond(g)
    PROVE  SnowflakeInv'
<1> DEFINE next == (sequence[g] + 1) % SequenceSize
<1>1. TypeOK /\ \A h \in Generators : GeneratorInv(h)
  BY DEF SnowflakeInv, GeneratorInv
<1>2. /\ sequence[g] \in 0 .. SequenceSize - 1 /\ clock \in Seconds /\ clock = lastTime[g]
      /\ pc[g] = "idle" /\ clock \in Int
  BY <1>1 DEF TypeOK, SameSecond, Seconds
<1>3. next \in 0 .. SequenceSize - 1 /\ (next # 0 => next = sequence[g] + 1)
  BY <1>2, MaskedSequence
<1>4. /\ sequence' = [sequence EXCEPT ![g] = next] /\ UNCHANGED <<clock, lastTime>>
      /\ \/ /\ next = 0
            /\ now' = [now EXCEPT ![g] = clock] /\ pc' = [pc EXCEPT ![g] = "wait"]
            /\ issued' = issued
         \/ next # 0 /\ Issue(g, clock, next) /\ UNCHANGED <<now, pc>>
  BY DEF SameSecond
<1> HIDE DEF next
<1>5. CASE next = 0
  <2>1. TypeOK'
    BY <1>1, <1>2, <1>3, <1>4, <1>5 DEF TypeOK
  <2>2. GeneratorInv(g)'
    <3>1. /\ issued' = issued /\ lastTime' = lastTime
          /\ pc'[g] = "wait" /\ now'[g] = lastTime[g] /\ now'[g] \in Seconds /\ sequence'[g] = 0
      BY <1>1, <1>2, <1>4, <1>5 DEF TypeOK
    <3>2. QED
      BY <1>1, <3>1 DEF GeneratorInv, NeverBehind, WaitsForNext, FirstRepeats, Issued
  <2>3. ASSUME NEW h \in Generators, h # g PROVE GeneratorInv(h)'
    BY <1>1, <1>4, <1>5, <2>3, Untouched DEF TypeOK
  <2>4. QED
    BY <2>1, <2>2, <2>3 DEF SnowflakeInv, GeneratorInv
<1>6. CASE next # 0
  <2>1. TypeOK'
    BY <1>1, <1>2, <1>3, <1>4, <1>6, IssueKeepsOrder DEF TypeOK
  <2>2. GeneratorInv(g)'
    <3>1. lastTime'[g] = clock /\ sequence'[g] = sequence[g] + 1 /\ pc'[g] = "idle"
      BY <1>1, <1>2, <1>3, <1>4, <1>6 DEF TypeOK
    <3>2. \A i \in Issued(g) : issued[g][i] \in Id /\ issued[g][i].second <= clock
            /\ (issued[g][i].second = clock => issued[g][i].seq <= sequence[g])
      BY <1>1, <1>2 DEF TypeOK, GeneratorInv, NeverBehind, Issued
    <3>3. \A i \in Issued(g)' :
          \/ i \in Issued(g) /\ issued'[g][i] = issued[g][i]
          \/ i = Len(issued[g]) + 1 /\ issued'[g][i] = [second |-> clock, seq |-> sequence[g] + 1]
      BY <1>1, <1>2, <1>3, <1>4, <1>6, IssueKeepsOrder
    <3>4. NeverBehind(g)'
      BY <1>2, <3>1, <3>2, <3>3 DEF NeverBehind, Id, Seconds
    <3>5. FirstRepeats(g)'
      <4> SUFFICES ASSUME NEW i \in Issued(g)', NEW j \in Issued(g)', i # j,
                          issued'[g][i] = issued'[g][j]
                   PROVE  issued'[g][i].seq = 0
        BY DEF FirstRepeats
      <4>1. CASE i \in Issued(g) /\ issued'[g][i] = issued[g][i]
        <5>1. CASE j \in Issued(g) /\ issued'[g][j] = issued[g][j]
          BY <1>1, <4>1, <5>1 DEF GeneratorInv, FirstRepeats
        <5>2. CASE issued'[g][j] = [second |-> clock, seq |-> sequence[g] + 1]
          <6>1. issued[g][i].second = clock /\ issued[g][i].seq = sequence[g] + 1
            <7>1. issued[g][i] = [second |-> clock, seq |-> sequence[g] + 1]
              BY <4>1, <5>2
            <7>2. QED
              BY <7>1
          <6>2. QED
            BY <1>2, <3>2, <4>1, <6>1
        <5>3. QED
          BY <3>3, <5>1, <5>2
      <4>2. CASE i = Len(issued[g]) + 1 /\ issued'[g][i] = [second |-> clock, seq |-> sequence[g] + 1]
        <5>1. j \in Issued(g) /\ issued'[g][j] = issued[g][j]
          BY <3>3, <4>2
        <5>2. QED
          BY <1>2, <3>2, <4>2, <5>1 DEF Id
      <4>3. QED
        BY <3>3, <4>1, <4>2
    <3>6. QED
      BY <3>1, <3>4, <3>5 DEF GeneratorInv, WaitsForNext
  <2>3. ASSUME NEW h \in Generators, h # g PROVE GeneratorInv(h)'
    BY <1>1, <1>2, <1>3, <1>4, <1>6, <2>3, IssueKeepsOrder, Untouched DEF TypeOK
  <2>4. QED
    BY <2>1, <2>2, <2>3 DEF SnowflakeInv, GeneratorInv
<1>7. QED
  BY <1>5, <1>6

\* The id printed after the wait, with the time before it, keeps the invariant.
LEMMA WaitedInv ==
    ASSUME SnowflakeInv, NEW g \in Generators, Waited(g)
    PROVE  SnowflakeInv'
<1> USE SnowflakeAssumption DEF Waited
<1>1. TypeOK /\ \A h \in Generators : GeneratorInv(h)
  BY DEF SnowflakeInv, GeneratorInv
<1>2. /\ lastTime[g] \in Int /\ clock > lastTime[g] /\ clock \in Int /\ clock \in Seconds
      /\ now[g] = lastTime[g] /\ now[g] \in Seconds /\ sequence[g] = 0 /\ 0 \in 0 .. SequenceSize - 1
  BY <1>1 DEF TypeOK, Seconds, GeneratorInv, WaitsForNext
<1>3. TypeOK'
  BY <1>1, <1>2, IssueKeepsOrder DEF TypeOK
<1>4. GeneratorInv(g)'
  <2>1. lastTime'[g] = clock /\ sequence'[g] = 0 /\ pc'[g] = "idle"
    BY <1>1, <1>2 DEF TypeOK
  <2>2. \A i \in Issued(g) : issued[g][i] \in Id /\ issued[g][i].second <= lastTime[g]
    BY <1>1 DEF TypeOK, GeneratorInv, NeverBehind, Issued
  <2>3. \A i \in Issued(g)' :
          \/ i \in Issued(g) /\ issued'[g][i] = issued[g][i]
          \/ i = Len(issued[g]) + 1 /\ issued'[g][i] = [second |-> lastTime[g], seq |-> 0]
    BY <1>1, <1>2, IssueKeepsOrder
  <2>4. NeverBehind(g)'
    BY <1>2, <2>1, <2>2, <2>3, SMTT(30) DEF NeverBehind, Id, Seconds
  <2>5. FirstRepeats(g)'
    BY <1>1, <1>2, <2>2, <2>3 DEF FirstRepeats, GeneratorInv, Id, Seconds
  <2>6. QED
    BY <2>1, <2>4, <2>5 DEF GeneratorInv, WaitsForNext
<1>5. ASSUME NEW h \in Generators, h # g PROVE GeneratorInv(h)'
  BY <1>1, <1>2, <1>5, IssueKeepsOrder, Untouched, ZenonT(30) DEF TypeOK
<1>6. QED
  BY <1>3, <1>4, <1>5 DEF SnowflakeInv, GeneratorInv

\* Every step of every generator, and of the clock, keeps the invariant: a generator
\* is never behind what it issued.
THEOREM GeneratorsNeverBehind == Spec => []SnowflakeInv
<1>1. SnowflakeInv /\ [Next]_vars => SnowflakeInv'
  <2> SUFFICES ASSUME SnowflakeInv, [Next]_vars PROVE SnowflakeInv'
    OBVIOUS
  <2>1. CASE ClockMoves
    BY <2>1 DEF ClockMoves, SnowflakeInv, TypeOK, NeverBehind, WaitsForNext, FirstRepeats, Issued
  <2>2. ASSUME NEW g \in Generators, GenerateID(g) PROVE SnowflakeInv'
    BY <2>2, NewSecondInv, SameSecondInv, WaitedInv DEF GenerateID
  <2>3. CASE UNCHANGED vars
    BY <2>3 DEF vars, SnowflakeInv, TypeOK, NeverBehind, WaitsForNext, FirstRepeats, Issued
  <2>4. QED
    BY <2>1, <2>2, <2>3 DEF Next
<1>2. QED
  BY InitInv, <1>1, PTL DEF Spec

\* Seconds, sequence numbers and ids keep their types.
THEOREM TypeCorrect == Spec => []TypeOK
<1>1. SnowflakeInv => TypeOK
  BY DEF SnowflakeInv
<1>2. QED
  BY <1>1, GeneratorsNeverBehind, PTL

\* Whatever the clock does, one generator repeats at most the first id of a second.
THEOREM RepeatsAreFirst == Spec => []OnlyFirstRepeats
<1>1. SnowflakeInv => OnlyFirstRepeats
  <2> SUFFICES ASSUME SnowflakeInv, NEW g \in Generators,
                      NEW i \in Issued(g), NEW j \in Issued(g), i # j,
                      SameText(g, issued[g][i], g, issued[g][j])
               PROVE  issued[g][i].seq = 0
    BY DEF OnlyFirstRepeats
  <2> DEFINE e == issued[g][i]
             f == issued[g][j]
  <2>1. e \in Id /\ f \in Id /\ Worker[g] \in Nat
    BY SnowflakeAssumption DEF SnowflakeInv, TypeOK, Issued
  <2>2. e.seq = f.seq
    BY <2>1, SnowflakeAssumption, SameTextSameSequence DEF SameText, Id
  <2>3. e = f
    BY <2>1, <2>2 DEF SameText, Id
  <2>4. QED
    BY <2>3 DEF SnowflakeInv, FirstRepeats
<1>2. QED
  BY <1>1, GeneratorsNeverBehind, PTL

\* Ids of different workers differ, also when a sequence number outgrows its width.
THEOREM WorkersNeverCollide == Spec => []WorkersApart
<1>1. SnowflakeInv => WorkersApart
  <2> SUFFICES ASSUME SnowflakeInv, NEW g \in Generators, NEW h \in Generators,
                      Worker[g] # Worker[h], Worker[g] < WorkerWidth, Worker[h] < WorkerWidth,
                      NEW i \in Issued(g), NEW j \in Issued(h)
               PROVE  Printed(Worker[g], issued[g][i].seq) # Printed(Worker[h], issued[h][j].seq)
    BY DEF WorkersApart, SameText
  <2>1. issued[g][i] \in Id /\ issued[h][j] \in Id /\ Worker[g] \in Nat /\ Worker[h] \in Nat
    BY SnowflakeAssumption DEF SnowflakeInv, TypeOK, Issued
  <2>2. QED
    BY <2>1, PrintedApart DEF Id
<1>2. QED
  BY <1>1, GeneratorsNeverBehind, PTL
=============================================================================
