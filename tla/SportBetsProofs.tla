--------------------------- MODULE SportBetsProofs ---------------------------
(***************************************************************************)
(* Proofs about SportBets, for any bets, edits and stakes. That a settled   *)
(* bet stays as it is comes from what closes a bet to the next edit and     *)
(* from the record of the edits that were running: Overlapped,              *)
(* ClosedOnceEdited and QuietOnceSettled. The                               *)
(* stakes rest on these: a bet is edited by one call at a time, from the    *)
(* stake that was first paid, and by none after that.                       *)
(***************************************************************************)
EXTENDS SportBets, TLAPS

\* Bets are placed and no edit has started.
LEMMA InitInv == Init => SportBetsInv
<1> SUFFICES ASSUME Init PROVE SportBetsInv
  OBVIOUS
<1> USE SportBetsAssumption
<1>1. row \in [Bets -> Rows] /\ \A b \in Bets : row[b].stake > 0
  BY DEF Init, Rows, Reasons
<1>2. TypeOK
  BY <1>1 DEF Init, TypeOK
<1> QED
  BY <1>2 DEF Init, SportBetsInv, Overlapped, ClosedOnceEdited, QuietOnceSettled, Running

\* A settlement leaves the stake alone and records the edits that are running.
LEMMA SettleStep ==
    ASSUME SportBetsInv, NEW b \in Bets, Settle(b)
    PROVE  SportBetsInv'
<1> USE SportBetsAssumption DEF clock
<1>1. PICK status \in Settled :
          row' = [row EXCEPT ![b].status = status,
                             ![b].reason = IF status = "VOID" THEN "text" ELSE @]
  BY DEF Settle
<1>2. /\ row' \in [Bets -> Rows] /\ row'[b].status \in Settled
      /\ \A c \in Bets : row'[c].stake = row[c].stake
      /\ \A c \in Bets \ {b} : row'[c] = row[c]
  <2> DEFINE new == [row[b] EXCEPT !.status = status,
                                   !.reason = IF status = "VOID" THEN "text" ELSE @]
  <2>1. row \in [Bets -> Rows] /\ row[b] \in Rows
    BY DEF SportBetsInv, TypeOK
  <2>2. new \in Rows /\ new.status \in Settled /\ new.stake = row[b].stake
    BY <2>1 DEF Rows, Reasons
  <2>3. row' = [row EXCEPT ![b] = new]
    BY <1>1, <2>1
  <2> HIDE DEF new
  <2> QED BY <2>1, <2>2, <2>3
<1>3. met' \subseteq Pairs /\ met \subseteq met'
  <2>1. \A e \in InFlight(b) : {e} = {e, e} /\ e \in Edits
    BY DEF InFlight
  <2> QED BY <2>1 DEF Settle, SportBetsInv, TypeOK, Pairs
<1>4. TypeOK'
  BY <1>2, <1>3 DEF Settle, SportBetsInv, TypeOK
<1>5. Overlapped'
  BY <1>3 DEF Settle, SportBetsInv, Overlapped
<1>6. ClosedOnceEdited'
  <2> SUFFICES ASSUME NEW e \in Edits, at[e] = "ok"
               PROVE  ~Readable(row'[bet[e]]) \/ row'[bet[e]].status # "PENDING"
    BY DEF Settle, ClosedOnceEdited, Readable
  <2>1. bet[e] \in Bets
    BY DEF SportBetsInv, TypeOK
  <2>2. CASE bet[e] = b
    BY <1>2, <2>2 DEF Settled
  <2>3. CASE bet[e] # b
    BY <1>2, <2>1, <2>3 DEF SportBetsInv, ClosedOnceEdited, Readable
  <2> QED BY <2>2, <2>3
<1>7. QuietOnceSettled'
  <2> SUFFICES ASSUME NEW c \in settled', \A e \in EditsOf(c)' : {e} \notin met'
               PROVE  row'[c].status \in Settled /\ InFlight(c)' = {}
    BY DEF QuietOnceSettled
  <2>1. EditsOf(c)' = EditsOf(c) /\ InFlight(c)' = InFlight(c) /\ c \in Bets
    BY DEF Settle, EditsOf, InFlight, SportBetsInv, TypeOK
  <2>2. CASE c = b
    <3>1. \A e \in InFlight(b) : {e} \in met' /\ e \in EditsOf(b)
      BY DEF Settle, InFlight, EditsOf
    <3> QED BY <1>2, <2>1, <2>2, <3>1
  <2>3. CASE c # b
    <3>1. c \in settled /\ \A e \in EditsOf(c) : {e} \notin met
      BY <1>3, <2>1, <2>3 DEF Settle
    <3> QED BY <1>2, <2>1, <2>3, <3>1 DEF SportBetsInv, QuietOnceSettled
  <2> QED BY <2>2, <2>3
<1> QED BY <1>4, <1>5, <1>6, <1>7 DEF SportBetsInv

\* An edit starts on a bet that no other has edited and nobody has settled.
LEMMA StartStep ==
    ASSUME SportBetsInv, NEW e \in Edits, Start(e)
    PROVE  SportBetsInv'
<1> USE SportBetsAssumption DEF clock
<1>1. bet[e] \in Bets /\ row[bet[e]] \in Rows /\ at[e] = "new"
  BY DEF Start, SportBetsInv, TypeOK
<1>2. CASE /\ Readable(row[bet[e]]) /\ CanEditBet(bet[e])
           /\ read' = [read EXCEPT ![e] = row[bet[e]]]
           /\ at' = [at EXCEPT ![e] = "match"]
           /\ met' = met \cup {{e, f} : f \in InFlight(bet[e])}
  <2>1. met' \subseteq Pairs
    BY <1>2 DEF SportBetsInv, TypeOK, InFlight, Pairs
  <2>2. TypeOK'
    BY <1>1, <1>2, <2>1 DEF Start, SportBetsInv, TypeOK, Running
  <2>3. \A f \in Edits \ {e} : bet[f] = bet[e] => at[f] # "ok"
    BY <1>2 DEF SportBetsInv, ClosedOnceEdited, CanEditBet
  <2>4. Overlapped'
    <3> SUFFICES ASSUME NEW d \in Edits, NEW f \in Edits, d # f, bet[d] = bet[f],
                        at'[d] \in Running \cup {"ok"}, at'[f] \in Running \cup {"ok"}
                 PROVE  {d, f} \in met'
      BY DEF Start, Overlapped
    <3>1. CASE d # e /\ f # e
      BY <1>2, <3>1 DEF SportBetsInv, TypeOK, Overlapped
    <3>2. CASE d = e
      <4>1. at'[f] = at[f]
        BY <1>2, <3>2 DEF SportBetsInv, TypeOK
      <4>2. f \in InFlight(bet[e])
        BY <2>3, <3>2, <4>1 DEF InFlight
      <4> QED BY <1>2, <3>2, <4>2
    <3>3. CASE f = e
      <4>1. at'[d] = at[d]
        BY <1>2, <3>3 DEF SportBetsInv, TypeOK
      <4>2. d \in InFlight(bet[e])
        BY <2>3, <3>3, <4>1 DEF InFlight
      <4>3. {d, f} = {e, d}
        BY <3>3
      <4> QED BY <1>2, <4>2, <4>3
    <3> QED BY <3>1, <3>2, <3>3
  <2>5. ClosedOnceEdited'
    BY <1>2 DEF Start, SportBetsInv, TypeOK, ClosedOnceEdited, Readable
  <2>6. QuietOnceSettled'
    <3> SUFFICES ASSUME NEW b \in settled, \A f \in EditsOf(b) : {f} \notin met'
                 PROVE  row[b].status \in Settled /\ InFlight(b)' = {}
      BY DEF Start, QuietOnceSettled, EditsOf
    <3>1. row[b].status \in Settled /\ InFlight(b) = {}
      BY <1>2 DEF SportBetsInv, QuietOnceSettled
    <3>2. b # bet[e]
      BY <1>2, <3>1 DEF CanEditBet, Settled
    <3> QED BY <1>2, <3>1, <3>2 DEF Start, InFlight, SportBetsInv, TypeOK
  <2> QED BY <2>2, <2>4, <2>5, <2>6 DEF SportBetsInv
<1>3. CASE at' = [at EXCEPT ![e] = "failed"] /\ UNCHANGED <<read, met>>
  <2>1. TypeOK'
    BY <1>3 DEF Start, SportBetsInv, TypeOK
  <2>2. \A f \in Edits : at'[f] \in Running \cup {"ok"} => at'[f] = at[f]
    BY <1>3 DEF SportBetsInv, TypeOK, Running
  <2>3. Overlapped' /\ ClosedOnceEdited'
    BY <1>3, <2>2 DEF Start, SportBetsInv, Overlapped, ClosedOnceEdited, Readable
  <2>4. QuietOnceSettled'
    BY <1>3, <2>2 DEF Start, SportBetsInv, QuietOnceSettled, InFlight, EditsOf
  <2> QED BY <2>1, <2>3, <2>4 DEF SportBetsInv
<1> QED BY <1>2, <1>3 DEF Start

\* The match check, the money and a crash leave the row to the update.
LEMMA MiddleStep ==
    ASSUME SportBetsInv, NEW e \in Edits, CheckMatch(e) \/ MoveMoney(e) \/ Die(e)
    PROVE  SportBetsInv'
<1> USE SportBetsAssumption DEF clock
<1>1. /\ UNCHANGED <<row, clock, settled, bet, want, read, met>>
      /\ at[e] \in Running
      /\ \E label \in {"failed", "money", "update", "dead"} : at' = [at EXCEPT ![e] = label]
  BY DEF CheckMatch, MoveMoney, Die, Running
<1>2. moved' \in [Edits -> Int]
  <2>1. AmountDifference(e) \in Int
    <3>1. read[e].stake \in Int
      BY DEF SportBetsInv, TypeOK, Rows
    <3>2. want[e] \in Int
      <4>1. want[e] \in Stakes
        BY DEF SportBetsInv, TypeOK
      <4> QED BY <4>1
    <3> QED BY <3>1, <3>2 DEF AmountDifference
  <2> QED BY <2>1 DEF CheckMatch, MoveMoney, Die, SportBetsInv, TypeOK
<1>3. TypeOK'
  BY <1>1, <1>2 DEF SportBetsInv, TypeOK, Running
<1>4. \A f \in Edits : /\ at'[f] = "ok" => at[f] = "ok"
                       /\ at'[f] \in Running => at[f] \in Running
  BY <1>1 DEF SportBetsInv, TypeOK
<1>5. Overlapped' /\ ClosedOnceEdited'
  BY <1>1, <1>4 DEF SportBetsInv, Overlapped, ClosedOnceEdited, Readable
<1>6. QuietOnceSettled'
  BY <1>1, <1>4 DEF SportBetsInv, QuietOnceSettled, InFlight, EditsOf
<1> QED BY <1>3, <1>5, <1>6 DEF SportBetsInv

\* An update leaves the bet without a reason, whatever happened to it since the read.
LEMMA UpdateStep ==
    ASSUME SportBetsInv, NEW e \in Edits, Update(e)
    PROVE  SportBetsInv'
<1> USE SportBetsAssumption DEF clock
<1>1. /\ UNCHANGED <<clock, settled, bet, want, read, moved, met>>
      /\ at[e] = "update" /\ bet[e] \in Bets /\ want[e] \in Int /\ read[e] \in Rows
  BY DEF Update, SportBetsInv, TypeOK
<1>2. PICK answer \in {"ok", "failed"} : at' = [at EXCEPT ![e] = answer]
  BY DEF Update
<1>3. \/ row' = [row EXCEPT ![bet[e]] = Edited(e)] /\ want[e] > 0
      \/ row' = row /\ answer = "failed"
  <2>1. at'[e] = answer
    BY <1>2 DEF SportBetsInv, TypeOK
  <2> QED BY <2>1 DEF Update, Acceptable, SportBetsInv, TypeOK
<1>4. Edited(e) \in Rows /\ Edited(e).stake = want[e] /\ ~Readable(Edited(e))
  BY <1>1 DEF Edited, Rows, Reasons, Readable
<1>5. row' \in [Bets -> Rows] /\ \A b \in Bets : row'[b].stake > 0
  <2>1. row \in [Bets -> Rows] /\ \A b \in Bets : row[b].stake > 0
    BY DEF SportBetsInv, TypeOK
  <2>2. CASE row' = [row EXCEPT ![bet[e]] = Edited(e)] /\ want[e] > 0
    <3>1. Edited(e).stake > 0
      BY <1>4, <2>2
    <3>2. \A b \in Bets : row'[b] = IF b = bet[e] THEN Edited(e) ELSE row[b]
      BY <1>1, <2>1, <2>2
    <3> QED BY <1>4, <2>1, <2>2, <3>1, <3>2
  <2> QED BY <1>3, <2>1, <2>2
<1>6. TypeOK'
  BY <1>1, <1>2, <1>5 DEF SportBetsInv, TypeOK, Running
<1>7. \A f \in Edits : at'[f] \in Running \cup {"ok"} => at[f] \in Running \cup {"ok"}
  BY <1>1, <1>2 DEF SportBetsInv, TypeOK, Running
<1>8. Overlapped'
  BY <1>1, <1>7 DEF SportBetsInv, Overlapped
<1>9. ClosedOnceEdited'
  <2> SUFFICES ASSUME NEW f \in Edits, at'[f] = "ok"
               PROVE  ~Readable(row'[bet[f]]) \/ row'[bet[f]].status # "PENDING"
    BY <1>1 DEF ClosedOnceEdited, Readable
  <2>1. bet[f] \in Bets
    BY DEF SportBetsInv, TypeOK
  <2>2. CASE row' = [row EXCEPT ![bet[e]] = Edited(e)] /\ bet[f] = bet[e]
    BY <1>4, <2>1, <2>2 DEF SportBetsInv, TypeOK
  <2>3. CASE row'[bet[f]] = row[bet[f]] /\ f # e
    BY <1>2, <2>3 DEF SportBetsInv, TypeOK, ClosedOnceEdited
  <2>4. CASE row' = row /\ f = e
    BY <1>2, <1>3, <2>4, <1>4, <2>1 DEF SportBetsInv, TypeOK
  <2> QED BY <1>1, <1>3, <2>1, <2>2, <2>3, <2>4 DEF SportBetsInv, TypeOK
<1>10. QuietOnceSettled'
  <2> SUFFICES ASSUME NEW b \in settled, \A f \in EditsOf(b) : {f} \notin met
               PROVE  row'[b].status \in Settled /\ InFlight(b)' = {}
    BY <1>1 DEF QuietOnceSettled, EditsOf
  <2>1. row[b].status \in Settled /\ InFlight(b) = {}
    BY DEF SportBetsInv, QuietOnceSettled
  <2>2. bet[e] # b
    BY <1>1, <2>1 DEF InFlight, Running
  <2>3. row'[b] = row[b]
    BY <1>1, <1>3, <2>2 DEF SportBetsInv, TypeOK
  <2>4. InFlight(b)' \subseteq InFlight(b)
    BY <1>1, <1>2, <2>2 DEF InFlight, SportBetsInv, TypeOK
  <2> QED BY <2>1, <2>3, <2>4
<1> QED BY <1>6, <1>8, <1>9, <1>10 DEF SportBetsInv

\* Every step keeps the invariant.
LEMMA StepInv == SportBetsInv /\ [Next]_vars => SportBetsInv'
<1> SUFFICES ASSUME SportBetsInv, [Next]_vars PROVE SportBetsInv'
  OBVIOUS
<1>1. ASSUME NEW b \in Bets, FiveMinutesPass(b) \/ KickOff(b) PROVE SportBetsInv'
  <2>1. UNCHANGED <<row, settled, calls>>
        /\ young' \in [Bets -> BOOLEAN] /\ started' \in [Bets -> BOOLEAN]
    BY <1>1 DEF FiveMinutesPass, KickOff, SportBetsInv, TypeOK
  <2> QED BY <2>1 DEF SportBetsInv, TypeOK, Overlapped, ClosedOnceEdited, QuietOnceSettled,
                      Readable, InFlight, EditsOf, calls
<1>2. ASSUME NEW b \in Bets, Settle(b) PROVE SportBetsInv'
  BY <1>2, SettleStep
<1>3. ASSUME NEW e \in Edits, EditBet(e) PROVE SportBetsInv'
  BY <1>3, StartStep, MiddleStep, UpdateStep DEF EditBet
<1>4. CASE UNCHANGED vars
  BY <1>4 DEF vars, calls, clock, SportBetsInv, TypeOK, Overlapped, ClosedOnceEdited,
              QuietOnceSettled, Readable, InFlight, EditsOf
<1> QED BY <1>1, <1>2, <1>3, <1>4 DEF Next

(***************************************************************************)
(* The stakes                                                              *)
(***************************************************************************)

\* No edit has started.
LEMMA InitStakes == Init => StakesInv
<1> SUFFICES ASSUME Init PROVE StakesInv
  OBVIOUS
<1>1. \A b \in Bets : row[b].stake = First[b]
  BY DEF Init
<1>2. /\ \A e \in Edits : at[e] = "new" /\ moved[e] = 0
      /\ "new" \notin Running /\ "new" # "update"
  BY DEF Init, Running
<1>3. StakeIsPaidFor
  BY <1>1, <1>2 DEF StakeIsPaidFor, Balanced, EditsOf
<1> QED BY <1>2, <1>3 DEF StakesInv, MoneyGoesWithTheRow, EditsOf

\* Bets stay bets of their edits, pairs that met stay on record, and so does an interruption.
LEMMA StaysDisturbed ==
    ASSUME SportBetsInv, bet' = bet, NEW b \in Bets, Undisturbed(b)',
           \A e, f \in Edits : e # f /\ {e, f} \in met => {e, f} \in met',
           \A e \in EditsOf(b) : Interrupted(e) => Interrupted(e)'
    PROVE  Undisturbed(b)
BY DEF Undisturbed, EditsOf

\* The edits of an undisturbed bet one of which is running: the others moved nothing.
LEMMA AloneInFlight ==
    ASSUME SportBetsInv, StakesInv, NEW b \in Bets, Undisturbed(b),
           NEW e \in EditsOf(b), at[e] \in Running
    PROVE  \A f \in EditsOf(b) \ {e} : moved[f] = 0 /\ at[f] \notin Running
<1> SUFFICES ASSUME NEW f \in EditsOf(b), f # e PROVE moved[f] = 0 /\ at[f] \notin Running
  OBVIOUS
<1>1. /\ {e, f} \notin met /\ bet[e] = bet[f] /\ e \in Edits /\ f \in Edits
      /\ ~Interrupted(f)
  BY DEF Undisturbed, EditsOf
<1>2. at[f] \notin Running \cup {"ok"}
  BY <1>1 DEF SportBetsInv, Overlapped
<1>3. at[f] \in {"new", "failed", "dead"}
  BY <1>1, <1>2 DEF SportBetsInv, TypeOK
<1>4. at[f] = "new" => moved[f] = 0
  BY DEF StakesInv, MoneyGoesWithTheRow
<1> QED BY <1>1, <1>2, <1>3, <1>4 DEF Interrupted

\* A step that leaves the edits and the stakes alone.
LEMMA SameStakes ==
    ASSUME SportBetsInv, StakesInv, UNCHANGED <<at, bet, want, read, moved>>,
           \A b \in Bets : row'[b].stake = row[b].stake,
           \A e, f \in Edits : e # f /\ {e, f} \in met => {e, f} \in met'
    PROVE  StakesInv'
<1> SUFFICES ASSUME NEW b \in Bets, Undisturbed(b)'
             PROVE  /\ InFlight(b)' = {} => Balanced(b)'
                    /\ \A e \in EditsOf(b) :
                          /\ at[e] \in {"new", "match", "money"} => moved[e] = 0
                          /\ at[e] \in Running => read[e].stake = First[b] /\ row'[b].stake = First[b]
                          /\ at[e] = "update" => moved[e] = AmountDifference(e)
  BY DEF StakesInv, StakeIsPaidFor, MoneyGoesWithTheRow, EditsOf, AmountDifference
<1>1. Undisturbed(b)
  BY StaysDisturbed DEF Interrupted
<1>2. InFlight(b)' = InFlight(b) /\ EditsOf(b)' = EditsOf(b)
  BY DEF InFlight, EditsOf
<1>3. Balanced(b) => Balanced(b)'
  BY <1>2 DEF Balanced
<1> QED BY <1>1, <1>2, <1>3 DEF StakesInv, StakeIsPaidFor, MoneyGoesWithTheRow

\* Edit e takes a step: the other bets, and what is left to show of its own.
LEMMA StakesOfOne ==
    ASSUME SportBetsInv, StakesInv, NEW e \in Edits, UNCHANGED <<bet, want>>,
           \A b \in Bets \ {bet[e]} : row'[b] = row[b],
           met \subseteq met',
           at[e] \notin {"ok", "failed", "dead"},
           \A f \in Edits \ {e} : at'[f] = at[f] /\ moved'[f] = moved[f] /\ read'[f] = read[f],
           Undisturbed(bet[e]) /\ Undisturbed(bet[e])' =>
              /\ InFlight(bet[e])' = {} => Balanced(bet[e])'
              /\ MoneyGoesWithTheRow(bet[e])'
    PROVE  StakesInv'
<1> SUFFICES ASSUME NEW b \in Bets, Undisturbed(b)'
             PROVE  (InFlight(b)' = {} => Balanced(b)') /\ MoneyGoesWithTheRow(b)'
  BY DEF StakesInv, StakeIsPaidFor, MoneyGoesWithTheRow
<1>1. EditsOf(b)' = EditsOf(b)
  BY DEF EditsOf
<1>2. \A f \in EditsOf(b) : Interrupted(f) => Interrupted(f)'
  BY DEF EditsOf, Interrupted
<1>3. Undisturbed(b)
  BY <1>2, StaysDisturbed
<1>4. CASE b = bet[e]
  BY <1>3, <1>4
<1>5. CASE b # bet[e]
  <2>1. \A f \in EditsOf(b) : f # e /\ f \in Edits
    BY <1>5 DEF EditsOf
  <2>2. InFlight(b)' = InFlight(b)
    BY <1>5 DEF InFlight
  <2>3. Balanced(b) => Balanced(b)'
    BY <1>1, <1>5, <2>1 DEF Balanced
  <2>4. MoneyGoesWithTheRow(b)'
    BY <1>1, <1>3, <1>5, <2>1 DEF StakesInv, MoneyGoesWithTheRow, AmountDifference
  <2> QED BY <1>3, <2>2, <2>3, <2>4 DEF StakesInv, StakeIsPaidFor
<1> QED BY <1>4, <1>5

\* An edit that gets past the checks is the first to do so, and reads the first stake.
LEMMA StartStakes ==
    ASSUME SportBetsInv, StakesInv, NEW e \in Edits, Start(e)
    PROVE  StakesInv'
<1> DEFINE b == bet[e]
<1>1. /\ at[e] = "new" /\ b \in Bets /\ UNCHANGED <<row, bet, want, moved>> /\ met \subseteq met'
      /\ \A f \in Edits \ {e} : at'[f] = at[f] /\ read'[f] = read[f]
      /\ EditsOf(b)' = EditsOf(b) /\ e \in EditsOf(b)
  BY DEF Start, SportBetsInv, TypeOK, EditsOf
<1>2. SUFFICES ASSUME Undisturbed(b), Undisturbed(b)'
               PROVE  (InFlight(b)' = {} => Balanced(b)') /\ MoneyGoesWithTheRow(b)'
  BY <1>1, StakesOfOne
<1>3. moved[e] = 0 /\ Balanced(b)' = Balanced(b)
  BY <1>1, <1>2 DEF StakesInv, MoneyGoesWithTheRow, Balanced
<1>4. CASE /\ Readable(row[b]) /\ CanEditBet(b)
           /\ read' = [read EXCEPT ![e] = row[b]]
           /\ at' = [at EXCEPT ![e] = "match"]
           /\ met' = met \cup {{e, f} : f \in InFlight(b)}
  <2>1. at'[e] = "match" /\ read'[e] = row[b]
    BY <1>4 DEF SportBetsInv, TypeOK
  <2>2. \A f \in EditsOf(b) : f # e => at[f] \notin Running
    <3> SUFFICES ASSUME NEW f \in EditsOf(b), f # e, at[f] \in Running PROVE FALSE
      OBVIOUS
    <3>1. f \in InFlight(b)
      BY DEF InFlight, EditsOf
    <3>2. {e, f} \in met'
      BY <1>4, <3>1
    <3>3. f \in (EditsOf(b) \ {e})' /\ e \in EditsOf(b)'
      BY <1>1
    <3> QED BY <1>2, <3>2, <3>3 DEF Undisturbed
  <2>3. \A f \in EditsOf(b) : at[f] # "ok"
    BY <1>4 DEF SportBetsInv, ClosedOnceEdited, CanEditBet, EditsOf
  <2>4. \A f \in EditsOf(b) : moved[f] = 0
    <3> SUFFICES ASSUME NEW f \in EditsOf(b), f # e PROVE moved[f] = 0
      BY <1>3
    <3>1. at[f] \in {"new", "failed", "dead"}
      BY <2>2, <2>3 DEF SportBetsInv, TypeOK, EditsOf
    <3> QED BY <1>1, <1>2, <3>1 DEF StakesInv, MoneyGoesWithTheRow, Undisturbed, Interrupted
  <2>5. row[b].stake = First[b]
    <3>1. InFlight(b) = {}
      BY <1>1, <2>2 DEF InFlight, EditsOf, Running
    <3>2. Balanced(b) /\ First[b] \in Int
      BY <1>1, <1>2, <3>1, SportBetsAssumption DEF StakesInv, StakeIsPaidFor
    <3> QED BY <2>4, <3>2 DEF Balanced
  <2>6. MoneyGoesWithTheRow(b)'
    <3>1. \A f \in EditsOf(b) : moved'[f] = 0 /\ at'[f] # "update"
      BY <1>1, <2>1, <2>2, <2>4 DEF EditsOf, Running
    <3>2. \A f \in EditsOf(b) : at'[f] \in Running => read'[f].stake = First[b] /\ row'[b].stake = First[b]
      BY <1>1, <2>1, <2>2, <2>5 DEF EditsOf
    <3> QED BY <1>1, <3>1, <3>2 DEF MoneyGoesWithTheRow
  <2>7. InFlight(b)' # {}
    BY <1>1, <2>1 DEF InFlight, Running
  <2> QED BY <2>6, <2>7
<1>5. CASE at' = [at EXCEPT ![e] = "failed"] /\ UNCHANGED <<read, met>>
  <2>1. at'[e] = "failed"
    BY <1>5 DEF SportBetsInv, TypeOK
  <2>2. MoneyGoesWithTheRow(b)'
    BY <1>1, <1>2, <1>5, <2>1 DEF StakesInv, MoneyGoesWithTheRow, EditsOf, AmountDifference, Running
  <2>3. InFlight(b)' = InFlight(b)
    BY <1>1, <2>1 DEF InFlight, Running
  <2> QED BY <1>1, <1>2, <1>3, <2>2, <2>3 DEF StakesInv, StakeIsPaidFor
<1> QED BY <1>4, <1>5 DEF Start

\* The check of the match, the money and a crash: who has moved money and goes on is at
\* the update, and who does not is an interruption.
LEMMA MiddleStakes ==
    ASSUME SportBetsInv, StakesInv, NEW e \in Edits, CheckMatch(e) \/ MoveMoney(e) \/ Die(e)
    PROVE  StakesInv'
<1> DEFINE b == bet[e]
<1>1. /\ b \in Bets /\ UNCHANGED <<row, bet, want, read, met>> /\ at[e] \in Running
      /\ \A f \in Edits \ {e} : at'[f] = at[f] /\ moved'[f] = moved[f]
      /\ EditsOf(b)' = EditsOf(b) /\ e \in EditsOf(b)
  BY DEF CheckMatch, MoveMoney, Die, SportBetsInv, TypeOK, EditsOf, Running
<1>2. \/ at'[e] = "money" /\ moved'[e] = moved[e] /\ at[e] = "match"
      \/ at'[e] = "update" /\ moved'[e] = AmountDifference(e)
      \/ at'[e] \in {"failed", "dead"}
  BY DEF CheckMatch, MoveMoney, Die, SportBetsInv, TypeOK
<1>3. SUFFICES ASSUME Undisturbed(b), Undisturbed(b)'
               PROVE  (InFlight(b)' = {} => Balanced(b)') /\ MoneyGoesWithTheRow(b)'
  BY <1>1, StakesOfOne DEF Running
<1>4. /\ row[b].stake = First[b] /\ read[e].stake = First[b]
      /\ at[e] = "match" => moved[e] = 0
  BY <1>1, <1>3 DEF StakesInv, MoneyGoesWithTheRow
<1>5. \A f \in EditsOf(b) \ {e} : moved[f] = 0 /\ at[f] \notin Running
  BY <1>1, <1>3, AloneInFlight
<1>6. at'[e] \in {"failed", "dead"} => moved'[e] = 0
  BY <1>1, <1>3 DEF Undisturbed, Interrupted
<1>7. MoneyGoesWithTheRow(b)'
  BY <1>1, <1>2, <1>4, <1>5 DEF MoneyGoesWithTheRow, AmountDifference, EditsOf, Running
<1>8. InFlight(b)' = {} => Balanced(b)'
  <2> SUFFICES ASSUME InFlight(b)' = {} PROVE Balanced(b)'
    OBVIOUS
  <2>1. at'[e] \notin Running
    BY <1>1 DEF InFlight, EditsOf
  <2>2. moved'[e] = 0
    BY <1>2, <1>6, <2>1 DEF Running
  <2> QED BY <1>1, <1>4, <1>5, <2>2 DEF Balanced, EditsOf
<1> QED BY <1>7, <1>8

\* The update writes the stake that was paid for, or leaves an interruption.
LEMMA UpdateStakes ==
    ASSUME SportBetsInv, StakesInv, NEW e \in Edits, Update(e)
    PROVE  StakesInv'
<1> DEFINE b == bet[e]
<1>1. /\ b \in Bets /\ UNCHANGED <<bet, want, read, moved, met>> /\ at[e] = "update"
      /\ at[e] \in Running /\ at'[e] \in {"ok", "failed"}
      /\ \A f \in Edits \ {e} : at'[f] = at[f]
      /\ \A c \in Bets \ {b} : row'[c] = row[c]
      /\ EditsOf(b)' = EditsOf(b) /\ e \in EditsOf(b)
  BY DEF Update, SportBetsInv, TypeOK, EditsOf, Running
<1>2. \/ row'[b].stake = want[e]
      \/ at'[e] = "failed" /\ row' = row
  <2>1. row \in [Bets -> Rows] /\ read[e] \in Rows /\ at \in [Edits -> Running \cup {"new", "ok", "failed", "dead"}]
    BY DEF SportBetsInv, TypeOK
  <2>2. Edited(e).stake = want[e]
    BY <2>1 DEF Edited, Rows
  <2> QED BY <1>1, <2>1, <2>2 DEF Update
<1>3. SUFFICES ASSUME Undisturbed(b), Undisturbed(b)'
               PROVE  (InFlight(b)' = {} => Balanced(b)') /\ MoneyGoesWithTheRow(b)'
  BY <1>1, StakesOfOne
<1>4. /\ row[b].stake = First[b] /\ read[e].stake = First[b]
      /\ moved[e] = AmountDifference(e)
  BY <1>1, <1>3 DEF StakesInv, MoneyGoesWithTheRow
<1>5. \A f \in EditsOf(b) \ {e} : moved[f] = 0 /\ at[f] \notin Running
  BY <1>1, <1>3, AloneInFlight
<1>6. at'[e] = "failed" => moved[e] = 0
  BY <1>1, <1>3 DEF Undisturbed, Interrupted
<1>7. First[b] \in Int /\ want[e] \in Int
  <2>1. want[e] \in Stakes
    BY DEF SportBetsInv, TypeOK
  <2>2. want[e] \in Int
    BY <2>1, SportBetsAssumption
  <2>3. First[b] \in Nat
    BY <1>1, SportBetsAssumption
  <2> QED BY <2>2, <2>3
<1>8. MoneyGoesWithTheRow(b)'
  <2>1. \A f \in EditsOf(b) : at'[f] \notin Running /\ (at'[f] = "new" => moved'[f] = 0)
    <3>1. at'[e] \notin Running /\ at'[e] # "new"
      BY <1>1 DEF Running
    <3>2. \A f \in EditsOf(b) \ {e} : at'[f] = at[f] /\ moved'[f] = 0
      BY <1>1, <1>5 DEF EditsOf
    <3> QED BY <1>5, <3>1, <3>2
  <2>2. \A f \in EditsOf(b) : at'[f] \notin {"match", "money", "update"}
    BY <2>1 DEF Running
  <2> QED BY <1>1, <2>1, <2>2 DEF MoneyGoesWithTheRow
<1>9. Balanced(b)'
  <2>1. CASE row'[b].stake = want[e]
    <3>1. row'[b].stake = First[b] - moved[e]
      BY <1>4, <1>7, <2>1 DEF AmountDifference
    <3> QED BY <1>1, <1>5, <3>1 DEF Balanced
  <2>2. CASE at'[e] = "failed" /\ row' = row
    BY <1>1, <1>4, <1>5, <1>6, <2>2 DEF Balanced
  <2> QED BY <1>2, <2>1, <2>2
<1> QED BY <1>8, <1>9

\* Every step keeps what is said of the stakes.
LEMMA StepStakes == SportBetsInv /\ StakesInv /\ [Next]_vars => StakesInv'
<1> SUFFICES ASSUME SportBetsInv, StakesInv, [Next]_vars PROVE StakesInv'
  OBVIOUS
<1>1. ASSUME NEW b \in Bets, FiveMinutesPass(b) \/ KickOff(b) PROVE StakesInv'
  BY <1>1, SameStakes DEF FiveMinutesPass, KickOff, calls
<1>2. ASSUME NEW b \in Bets, Settle(b) PROVE StakesInv'
  <2>1. PICK status \in Settled :
            row' = [row EXCEPT ![b].status = status,
                               ![b].reason = IF status = "VOID" THEN "text" ELSE @]
    BY <1>2 DEF Settle
  <2>2. row \in [Bets -> Rows]
    BY DEF SportBetsInv, TypeOK
  <2>3. \A c \in Bets : row'[c].stake = row[c].stake
    BY <2>1, <2>2 DEF Rows
  <2> QED BY <1>2, <2>3, SameStakes DEF Settle
<1>3. ASSUME NEW e \in Edits, EditBet(e) PROVE StakesInv'
  BY <1>3, StartStakes, MiddleStakes, UpdateStakes DEF EditBet
<1>4. CASE UNCHANGED vars
  BY <1>4, SameStakes DEF vars, calls, clock
<1> QED BY <1>1, <1>2, <1>3, <1>4 DEF Next

(***************************************************************************)
(* The invariants and what follows from them                               *)
(***************************************************************************)

\* The invariant holds in every reachable state.
THEOREM SportBetsInvariant == Spec => []SportBetsInv
BY InitInv, StepInv, PTL DEF Spec

\* The variables keep their types, and no stored stake is zero or less.
THEOREM TypeCorrect == Spec => []TypeOK
<1>1. SportBetsInv => TypeOK
  BY DEF SportBetsInv
<1> QED BY <1>1, SportBetsInvariant, PTL

\* Of a bet whose edits neither overlapped nor were interrupted, at most one edit has moved
\* money, and the stake in the row is what its user has paid.
THEOREM StakesArePaidFor == Spec => []StakeIsPaidFor
<1>1. Init => StakesInv
  BY InitStakes
<1>2. SportBetsInv /\ StakesInv /\ [Next]_vars => StakesInv'
  BY StepStakes
<1>3. StakesInv => StakeIsPaidFor
  BY DEF StakesInv
<1> QED BY <1>1, <1>2, <1>3, SportBetsInvariant, PTL DEF Spec

\* A settled bet keeps its stake and stays settled, unless an edit ran when it was settled.
THEOREM SettlementIsFinal == Spec => SettledIsFinal
<1> DEFINE Final ==
      \A b \in settled :
          (\A e \in EditsOf(b) : {e} \notin met)
          => row'[b].stake = row[b].stake /\ row'[b].status \in Settled
<1>1. SportBetsInv /\ Next => Final
  <2> SUFFICES ASSUME SportBetsInv, Next, NEW b \in settled, \A e \in EditsOf(b) : {e} \notin met
               PROVE  row'[b].stake = row[b].stake /\ row'[b].status \in Settled
    OBVIOUS
  <2>1. b \in Bets /\ row[b].status \in Settled /\ InFlight(b) = {} /\ row \in [Bets -> Rows]
    BY DEF SportBetsInv, QuietOnceSettled, TypeOK
  <2>2. ASSUME NEW c \in Bets, Settle(c) PROVE row'[b].stake = row[b].stake /\ row'[b].status \in Settled
    <3>1. PICK status \in Settled :
              row' = [row EXCEPT ![c].status = status,
                                 ![c].reason = IF status = "VOID" THEN "text" ELSE @]
      BY <2>2 DEF Settle
    <3> QED BY <2>1, <3>1 DEF Rows
  <2>3. ASSUME NEW e \in Edits, Update(e) PROVE row'[b] = row[b]
    <3>1. bet[e] # b
      BY <2>1, <2>3 DEF Update, InFlight, Running
    <3> QED BY <2>1, <2>3, <3>1 DEF Update, SportBetsInv, TypeOK
  <2>4. ASSUME NEW e \in Edits, Start(e) \/ CheckMatch(e) \/ MoveMoney(e) \/ Die(e) PROVE row' = row
    BY <2>4 DEF Start, CheckMatch, MoveMoney, Die
  <2>5. ASSUME NEW c \in Bets, FiveMinutesPass(c) \/ KickOff(c) PROVE row' = row
    BY <2>5 DEF FiveMinutesPass, KickOff
  <2> QED BY <2>1, <2>2, <2>3, <2>4, <2>5 DEF Next, EditBet
<1>2. SportBetsInv /\ [Next]_vars => [Final]_vars
  BY <1>1
<1> QED BY <1>2, SportBetsInvariant, PTL DEF Spec, SettledIsFinal

=============================================================================
