--------------------- MODULE ConversationHistory_proofs ---------------------
(***************************************************************************)
(* The invariants of ConversationHistory, for every cap, every number of   *)
(* steps and prompts, and every program.                                   *)
(*                                                                         *)
(* Record is the step that matters.  The history is at most one step over  *)
(* its cap when trimLocked looks at it, so trimming shifts every position  *)
(* by one or not at all: RecordedHistory says so, and everything else      *)
(* follows from it.                                                        *)
(***************************************************************************)
EXTENDS ConversationHistory, SequenceTheorems, TLAPS

\* The turns of the history are in order, and none is newer than the last
\* prompt.
TurnsInOrder ==
  /\ \A i \in 1..Len(steps) : steps[i].turn <= sends
  /\ \A i, j \in 1..Len(steps) : i <= j => steps[i].turn <= steps[j].turn
  /\ \A s \in turnStarts : s.turn <= sends

\* As long as the last turn has no step in a history that is not empty, its
\* start is recorded, at the end.
LastTurnMarked ==
  steps # <<>> /\ steps[Len(steps)].turn # sends
    => [turn |-> sends, at |-> Len(steps)] \in turnStarts

HistoryInv ==
  /\ TypeOK
  /\ KeepsTheLatest
  /\ CompactionsExact
  /\ StartsSeparateTurns
  /\ TurnsInOrder
  /\ LastTurnMarked

----------------------------------------------------------------------------
NewStep(b) == [compaction |-> b, serial |-> received + 1, turn |-> sends]

LEMMA HistoryWithinCap ==
  ASSUME TypeOK, KeepsTheLatest
  PROVE  Len(steps) \in 0..MaxHistory
BY HistoryAssumption DEF TypeOK, KeepsTheLatest, Minimum

\* What Record makes of the history: the new step goes last, and the first one
\* goes when the cap is reached.
LEMMA RecordedHistory ==
  ASSUME TypeOK, KeepsTheLatest, NEW b \in BOOLEAN, Record(b)
  PROVE  \E k \in {0, 1} :
           /\ k = 1 <=> Len(steps) = MaxHistory
           /\ Len(steps) + 1 >= k
           /\ steps' \in Seq(Steps)
           /\ Len(steps') = Len(steps) + 1 - k
           /\ \A i \in 1..Len(steps') :
                steps'[i] = IF i + k <= Len(steps) THEN steps[i + k]
                                                   ELSE NewStep(b)
           /\ turnStarts' = {[s EXCEPT !.at = @ - k] :
                               s \in {t \in turnStarts : t.at >= k}}
           /\ compactions' =
                {i - k : i \in {j \in compactions \union
                                     (IF b THEN {Len(steps)} ELSE {}) :
                                j >= k}}
<1> DEFINE grown == Append(steps, NewStep(b))
           k == IF Len(steps) = MaxHistory THEN 1 ELSE 0
<1>1. /\ steps \in Seq(Steps) /\ NewStep(b) \in Steps
      /\ Len(steps) \in 0..MaxHistory
      /\ MaxHistory \in Nat \ {0}
  BY HistoryWithinCap, HistoryAssumption DEF TypeOK, NewStep, Steps
<1>2. /\ grown \in Seq(Steps) /\ Len(grown) = Len(steps) + 1
      /\ \A i \in 1..Len(grown) :
           grown[i] = IF i <= Len(steps) THEN steps[i] ELSE NewStep(b)
  BY <1>1
<1>3. /\ Overflow(grown) = Len(grown) - MaxHistory
      /\ Overflow(grown) <= 0 <=> k = 0
      /\ k = 1 => Overflow(grown) = 1
  BY <1>1, <1>2 DEF Overflow
<1>4. /\ steps' = Trimmed(grown)
      /\ turnStarts' = ShiftedStarts(turnStarts, Overflow(grown))
      /\ compactions' = Shifted(compactions \union
                                  (IF b THEN {Len(steps)} ELSE {}),
                                Overflow(grown))
  BY DEF Record, NewStep
<1>5. k \in {0, 1} /\ (k = 1 <=> Len(steps) = MaxHistory)
  OBVIOUS
<1> HIDE DEF grown, k
<1>6. /\ steps' \in Seq(Steps)
      /\ Len(steps') = Len(steps) + 1 - k
      /\ \A i \in 1..Len(steps') : steps'[i] = grown[i + k]
  <2>1. CASE k = 0
    <3>1. steps' = grown
      BY <2>1, <1>3, <1>4 DEF Trimmed
    <3>2. QED
      BY <2>1, <3>1, <1>1, <1>2
  <2>2. CASE k = 1
    <3>1. steps' = SubSeq(grown, 2, Len(grown))
      BY <2>2, <1>2, <1>3, <1>4 DEF Trimmed
    <3>2. \A i \in 2..Len(grown) : grown[i] \in Steps
      BY <1>2
    <3>3. /\ SubSeq(grown, 2, Len(grown)) \in Seq(Steps)
          /\ Len(SubSeq(grown, 2, Len(grown))) = Len(grown) - 1
          /\ \A i \in 1..Len(grown) - 1 :
               SubSeq(grown, 2, Len(grown))[i] = grown[i + 1]
      BY <3>2, <1>1, <1>2
    <3>4. QED
      BY <2>2, <3>1, <3>3, <1>1, <1>2
  <2>3. QED
    BY <2>1, <2>2, <1>5
<1>7. /\ turnStarts' = {[s EXCEPT !.at = @ - k] :
                          s \in {t \in turnStarts : t.at >= k}}
      /\ compactions' = {i - k : i \in {j \in compactions \union
                                             (IF b THEN {Len(steps)} ELSE {}) :
                                        j >= k}}
  <2>1. CASE k = 0
    <3>1. \A t \in turnStarts :
            t.at >= 0 /\ [t EXCEPT !.at = @ - 0] = t
      BY DEF TypeOK
    <3>2. \A j \in compactions \union (IF b THEN {Len(steps)} ELSE {}) :
            j >= 0 /\ j - 0 = j
      BY <1>1 DEF TypeOK
    <3>3. QED
      BY <2>1, <3>1, <3>2, <1>3, <1>4 DEF ShiftedStarts, Shifted
  <2>2. CASE k = 1
    BY <2>2, <1>3, <1>4 DEF ShiftedStarts, Shifted
  <2>3. QED
    BY <2>1, <2>2, <1>5
<1>8. \A i \in 1..Len(steps') :
        steps'[i] = IF i + k <= Len(steps) THEN steps[i + k] ELSE NewStep(b)
  BY <1>1, <1>2, <1>6, <1>5
<1>9. QED
  BY <1>1, <1>6, <1>7, <1>8, <1>5

----------------------------------------------------------------------------
\* Each step preserves the invariant.

LEMMA InitHistory == Init => HistoryInv
<1> SUFFICES ASSUME Init PROVE HistoryInv
  OBVIOUS
<1>1. Len(steps) = 0 /\ steps \in Seq(Steps) /\ turnStarts = {}
  BY DEF Init
<1>2. TypeOK
  BY <1>1, HistoryAssumption DEF Init, TypeOK, NoUsage
<1>3. KeepsTheLatest
  BY <1>1, HistoryAssumption DEF Init, KeepsTheLatest, Minimum
<1>4. CompactionsExact /\ StartsSeparateTurns /\ TurnsInOrder
  BY <1>1 DEF Init, CompactionsExact, StartsSeparateTurns, TurnsInOrder
<1>5. LastTurnMarked
  BY DEF Init, LastTurnMarked
<1>6. QED
  BY <1>2, <1>3, <1>4, <1>5 DEF HistoryInv

LEMMA RecordPreserves ==
  ASSUME HistoryInv, NEW b \in BOOLEAN, Record(b)
  PROVE  HistoryInv'
<1> USE DEF HistoryInv
<1>1. PICK k \in {0, 1} :
        /\ k = 1 <=> Len(steps) = MaxHistory
        /\ Len(steps) + 1 >= k
        /\ steps' \in Seq(Steps)
        /\ Len(steps') = Len(steps) + 1 - k
        /\ \A i \in 1..Len(steps') :
             steps'[i] = IF i + k <= Len(steps) THEN steps[i + k]
                                                ELSE NewStep(b)
        /\ turnStarts' = {[s EXCEPT !.at = @ - k] :
                            s \in {t \in turnStarts : t.at >= k}}
        /\ compactions' =
             {i - k : i \in {j \in compactions \union
                                  (IF b THEN {Len(steps)} ELSE {}) :
                             j >= k}}
  BY RecordedHistory
<1>2. /\ received' = received + 1 /\ cleared' = cleared /\ sends' = sends
      /\ UNCHANGED usageVars
  BY DEF Record
<1>3. /\ Len(steps) \in 0..MaxHistory /\ MaxHistory \in Nat \ {0}
      /\ received \in Nat /\ cleared \in Nat /\ cleared <= received
      /\ sends \in Nat /\ steps \in Seq(Steps)
      /\ compactions \subseteq Nat
      /\ turnStarts \subseteq [turn : Nat \ {0}, at : Nat]
  BY HistoryWithinCap, HistoryAssumption DEF TypeOK
<1>4. /\ Len(steps') \in Nat
      /\ NewStep(b).compaction = b /\ NewStep(b).turn = sends
      /\ NewStep(b).serial = received + 1
  BY <1>1, <1>3 DEF NewStep
<1>5. \A t \in turnStarts' :
        /\ t \in [turn : Nat \ {0}, at : Nat]
        /\ \E s \in turnStarts : s.turn = t.turn /\ s.at = t.at + k
  BY <1>1, <1>3
<1>6. \A s \in turnStarts :
        s.at >= k => [turn |-> s.turn, at |-> s.at - k] \in turnStarts'
  <2>1. SUFFICES ASSUME NEW s \in turnStarts, s.at >= k
                 PROVE  [turn |-> s.turn, at |-> s.at - k] \in turnStarts'
    OBVIOUS
  <2>2. [s EXCEPT !.at = @ - k] = [turn |-> s.turn, at |-> s.at - k]
    BY <1>3
  <2>3. QED
    BY <1>1, <2>1, <2>2
<1>7. TypeOK'
  <2>1. compactions' \subseteq Nat
    BY <1>1, <1>3
  <2>2. turnStarts' \subseteq [turn : Nat \ {0}, at : Nat]
    BY <1>5
  <2>3. QED
    BY <1>1, <1>2, <1>3, <2>1, <2>2 DEF TypeOK, usageVars, turnVars
<1>lens. /\ k \in Int /\ 0 <= k /\ k <= 1
         /\ Len(steps) \in Nat /\ Len(steps') \in Nat
         /\ Len(steps') = Len(steps) + 1 - k
  BY <1>1, <1>3, <1>4
<1>kept. \A i \in 1..Len(steps') :
           IF i + k <= Len(steps)
             THEN i + k \in 1..Len(steps) /\ steps'[i] = steps[i + k]
             ELSE i + k = Len(steps) + 1 /\ steps'[i] = NewStep(b)
  BY <1>1, <1>lens
<1>8. KeepsTheLatest'
  <2>1. Len(steps') = Minimum(received' - cleared', MaxHistory)
    BY <1>1, <1>2, <1>3 DEF KeepsTheLatest, Minimum
  <2>2. ASSUME NEW i \in 1..Len(steps')
        PROVE  steps'[i].serial = received' - Len(steps') + i
    <3>1. received' - Len(steps') + i = received - Len(steps) + (i + k)
      <4>1. /\ Len(steps') = Len(steps) + 1 - k /\ received' = received + 1
            /\ i \in Int /\ Len(steps) \in Int /\ received \in Int /\ k \in Int
        BY <1>1, <1>2, <1>3
      <4>2. QED
        BY <4>1
    <3>2. CASE i + k <= Len(steps)
      <4>1. i + k \in 1..Len(steps) /\ steps'[i] = steps[i + k]
        BY <3>2, <1>lens, <1>kept, <1>4
      <4>2. QED
        BY <3>1, <4>1 DEF KeepsTheLatest
    <3>3. CASE i + k > Len(steps)
      <4>1. i + k = Len(steps) + 1 /\ steps'[i] = NewStep(b)
        BY <3>3, <1>lens, <1>kept, <1>4
      <4>2. QED
        BY <3>1, <4>1, <1>3, <1>4
    <3>4. QED
      BY <3>2, <3>3, <1>1, <1>3
  <2>3. QED
    BY <2>1, <2>2 DEF KeepsTheLatest
<1>9. CompactionsExact'
  <2>1. ASSUME NEW n \in compactions'
        PROVE  n \in 0..Len(steps') - 1 /\ steps'[n + 1].compaction
    <3>1. PICK j \in compactions \union (IF b THEN {Len(steps)} ELSE {}) :
            j >= k /\ n = j - k
      BY <1>1
    <3>2. CASE j \in compactions
      <4>1. j \in 0..Len(steps) - 1 /\ steps[j + 1].compaction
        BY <3>2 DEF CompactionsExact
      <4>2. n \in 0..Len(steps') - 1 /\ n + 1 + k = j + 1
        BY <3>1, <4>1, <1>lens
      <4>3. n + 1 \in 1..Len(steps') /\ n + 1 + k <= Len(steps)
        BY <4>1, <4>2, <1>lens
      <4>4. steps'[n + 1] = steps[j + 1]
        BY <4>2, <4>3, <1>kept
      <4>5. QED
        BY <4>1, <4>2, <4>4
    <3>3. CASE b /\ j = Len(steps)
      <4>1. n = Len(steps) - k /\ n + 1 = Len(steps') /\ n \in Nat
        BY <3>1, <3>3, <1>1, <1>3
      <4>2. n + 1 \in 1..Len(steps') /\ n + 1 + k > Len(steps)
        BY <4>1, <1>1, <1>3
      <4>3. steps'[n + 1] = NewStep(b)
        <5>1. ~(n + 1 + k <= Len(steps))
          BY <4>1, <4>2, <1>1, <1>3
        <5>2. QED
          BY <4>2, <5>1, <1>1
      <4>4. QED
        <5>1. n \in 0..Len(steps') - 1
          BY <4>1, <4>2
        <5>2. steps'[n + 1].compaction
          BY <4>3, <3>3, <1>4, Zenon
        <5>3. QED
          BY <5>1, <5>2
    <3>4. QED
      BY <3>1, <3>2, <3>3
  <2>2. ASSUME NEW n \in 0..Len(steps') - 1, steps'[n + 1].compaction
        PROVE  n \in compactions'
    <3>1. n + k \in compactions \union (IF b THEN {Len(steps)} ELSE {})
      <4>1. CASE n + 1 + k <= Len(steps)
        <5>1. n + 1 \in 1..Len(steps') /\ n + k \in 0..Len(steps) - 1
          BY <4>1, <1>lens
        <5>2. steps'[n + 1] = steps[n + k + 1]
          BY <4>1, <5>1, <1>kept, <1>lens
        <5>3. QED
          BY <2>2, <5>1, <5>2 DEF CompactionsExact
      <4>2. CASE n + 1 + k > Len(steps)
        <5>1. n + 1 \in 1..Len(steps') /\ n + k = Len(steps)
          BY <4>2, <1>lens
        <5>2. steps'[n + 1] = NewStep(b)
          BY <4>2, <5>1, <1>kept, <1>lens
        <5>3. b
          BY <2>2, <5>2, <1>4, Zenon
        <5>4. QED
          BY <5>1, <5>3
      <4>3. QED
        BY <4>1, <4>2, <1>3
    <3>2. n + k >= k /\ n = (n + k) - k
      BY <1>1
    <3>3. QED
      BY <3>1, <3>2, <1>1
  <2>3. QED
    BY <2>1, <2>2 DEF CompactionsExact
<1>10. StartsSeparateTurns'
  <2>1. ASSUME NEW t \in turnStarts'
        PROVE  /\ t.at <= Len(steps')
               /\ \A i \in 1..Len(steps') :
                    i > t.at <=> steps'[i].turn >= t.turn
    <3>1. PICK s \in turnStarts : s.turn = t.turn /\ s.at = t.at + k
      BY <1>5
    <3>2. /\ s.at \in Nat /\ s.turn \in Nat /\ t.at \in Nat
          /\ s.at <= Len(steps) /\ s.turn <= sends
          /\ \A i \in 1..Len(steps) : i > s.at <=> steps[i].turn >= s.turn
      BY <1>3, <1>5 DEF StartsSeparateTurns, TurnsInOrder
    <3>3. t.at <= Len(steps')
      BY <3>1, <3>2, <1>1, <1>3
    <3>4. ASSUME NEW i \in 1..Len(steps')
          PROVE  i > t.at <=> steps'[i].turn >= t.turn
      <4>1. CASE i + k <= Len(steps)
        <5>1. i + k \in 1..Len(steps) /\ steps'[i] = steps[i + k]
          BY <4>1, <1>lens, <1>kept, <1>4
        <5>2. i + k > s.at <=> steps[i + k].turn >= s.turn
          BY <5>1, <3>2
        <5>3. i > t.at <=> i + k > s.at
          BY <3>1, <3>2, <1>1
        <5>4. QED
          BY <5>1, <5>2, <5>3, <3>1
      <4>2. CASE i + k > Len(steps)
        <5>1. i \in Nat /\ i + k = Len(steps) + 1
          BY <4>2, <1>lens
        <5>2. steps'[i].turn = sends
          BY <4>2, <1>kept, <1>4
        <5>3. i > t.at
          BY <5>1, <3>1, <3>2, <1>lens
        <5>4. QED
          BY <5>2, <5>3, <3>1, <3>2, <1>3
      <4>3. QED
        BY <4>1, <4>2, <1>1, <1>3
    <3>5. QED
      BY <3>3, <3>4
  <2>2. ASSUME NEW i \in 1..Len(steps') - 1,
               steps'[i].turn # steps'[i + 1].turn
        PROVE  [turn |-> steps'[i + 1].turn, at |-> i] \in turnStarts'
    <3>1. /\ i + k \in 1..Len(steps) /\ steps'[i] = steps[i + k]
          /\ i \in Nat
      BY <1>lens, <1>kept, <1>4
    <3>2. [turn |-> steps'[i + 1].turn, at |-> i + k] \in turnStarts
      <4>1. CASE i + 1 + k <= Len(steps)
        <5>1. /\ i + k \in 1..Len(steps) - 1
              /\ steps'[i + 1] = steps[i + k + 1]
          BY <4>1, <3>1, <1>lens, <1>kept, <1>4
        <5>2. QED
          BY <5>1, <3>1, <2>2 DEF StartsSeparateTurns
      <4>2. CASE i + 1 + k > Len(steps)
        <5>1. i + k = Len(steps) /\ steps'[i + 1].turn = sends
          BY <4>2, <3>1, <1>lens, <1>kept, <1>4
        <5>2. steps # <<>>
          BY <3>1
        <5>3. QED
          BY <5>1, <5>2, <3>1, <2>2 DEF LastTurnMarked
      <4>3. QED
        BY <4>1, <4>2, <1>1, <1>3
    <3>3. i + k >= k /\ (i + k) - k = i
      BY <3>1
    <3>4. QED
      BY <3>2, <3>3, <1>6
  <2>3. QED
    BY <2>1, <2>2 DEF StartsSeparateTurns
<1>11. TurnsInOrder'
  <2>1. ASSUME NEW i \in 1..Len(steps')
        PROVE  steps'[i].turn <= sends'
    BY <1>1, <1>2, <1>3, <1>4 DEF TurnsInOrder
  <2>2. ASSUME NEW i \in 1..Len(steps'), NEW j \in 1..Len(steps'), i <= j
        PROVE  steps'[i].turn <= steps'[j].turn
    <3>1. CASE j + k <= Len(steps)
      <4>1. /\ i + k \in 1..Len(steps) /\ j + k \in 1..Len(steps)
            /\ i + k <= j + k
            /\ steps'[i] = steps[i + k] /\ steps'[j] = steps[j + k]
        BY <2>2, <3>1, <1>lens, <1>kept, <1>4
      <4>2. QED
        BY <4>1 DEF TurnsInOrder
    <3>2. CASE j + k > Len(steps)
      <4>1. steps'[j].turn = sends'
        BY <3>2, <1>1, <1>2, <1>3, <1>4
      <4>2. QED
        BY <4>1, <2>1
    <3>3. QED
      BY <3>1, <3>2, <1>1, <1>3
  <2>3. \A t \in turnStarts' : t.turn <= sends'
    BY <1>2, <1>5 DEF TurnsInOrder
  <2>4. QED
    BY <2>1, <2>2, <2>3 DEF TurnsInOrder
<1>12. LastTurnMarked'
  <2>1. Len(steps') \in 1..Len(steps')
    BY <1>1, <1>3
  <2>2. steps'[Len(steps')].turn = sends'
    BY <2>1, <1>1, <1>2, <1>3, <1>4
  <2>3. QED
    BY <2>2 DEF LastTurnMarked
<1>13. QED
  BY <1>7, <1>8, <1>9, <1>10, <1>11, <1>12

LEMMA BeginTurnPreserves ==
  ASSUME HistoryInv, BeginTurn
  PROVE  HistoryInv'
<1> USE DEF HistoryInv
<1> DEFINE mark == [turn |-> sends + 1, at |-> Len(steps)]
<1>1. /\ steps' = steps /\ compactions' = compactions
      /\ received' = received /\ cleared' = cleared
      /\ sends' = sends + 1
      /\ turnStarts' = turnStarts \union {mark}
  BY DEF BeginTurn
<1>2. /\ sends \in Nat /\ steps \in Seq(Steps) /\ Len(steps) \in Nat
      /\ turnStarts \subseteq [turn : Nat \ {0}, at : Nat]
      /\ \A i \in 1..Len(steps) : steps[i].turn \in Nat
  <2>1. /\ sends \in Nat /\ steps \in Seq(Steps)
        /\ turnStarts \subseteq [turn : Nat \ {0}, at : Nat]
    BY DEF TypeOK
  <2>2. Len(steps) \in Nat /\ \A i \in 1..Len(steps) : steps[i] \in Steps
    BY <2>1
  <2>3. QED
    BY <2>1, <2>2 DEF Steps
<1>3. mark \in [turn : Nat \ {0}, at : Nat]
  BY <1>2
<1> HIDE DEF mark
<1>4. TypeOK'
  BY <1>1, <1>2, <1>3 DEF TypeOK, BeginTurn, NoUsage
<1>5. KeepsTheLatest' /\ CompactionsExact'
  BY <1>1 DEF KeepsTheLatest, CompactionsExact
<1>6. StartsSeparateTurns'
  <2>1. \A i \in 1..Len(steps) : ~(i > mark.at) /\ ~(steps[i].turn >= mark.turn)
    BY <1>2 DEF mark, TurnsInOrder
  <2>2. mark.at <= Len(steps)
    BY <1>2 DEF mark
  <2>3. QED
    BY <1>1, <2>1, <2>2 DEF StartsSeparateTurns
<1>7. TurnsInOrder'
  <2>1. \A i \in 1..Len(steps) : steps[i].turn <= sends + 1
    BY <1>2 DEF TurnsInOrder
  <2>2. \A s \in turnStarts : s.turn <= sends + 1
    BY <1>2 DEF TurnsInOrder
  <2>3. mark.turn <= sends + 1
    BY <1>2 DEF mark
  <2>4. QED
    BY <1>1, <2>1, <2>2, <2>3 DEF TurnsInOrder
<1>8. LastTurnMarked'
  BY <1>1 DEF LastTurnMarked, mark
<1>9. QED
  BY <1>4, <1>5, <1>6, <1>7, <1>8

LEMMA ClearHistoryPreserves ==
  ASSUME HistoryInv, ClearHistory
  PROVE  HistoryInv'
<1> USE DEF HistoryInv
<1>1. /\ steps' = <<>> /\ Len(steps') = 0
      /\ turnStarts' = {} /\ compactions' = {}
      /\ received' = received /\ cleared' = received /\ sends' = sends
  BY DEF ClearHistory
<1>2. TypeOK'
  BY <1>1 DEF TypeOK, ClearHistory, NoUsage, turnVars
<1>3. KeepsTheLatest'
  BY <1>1, HistoryAssumption DEF KeepsTheLatest, Minimum, TypeOK
<1>4. CompactionsExact' /\ StartsSeparateTurns' /\ TurnsInOrder'
  BY <1>1 DEF CompactionsExact, StartsSeparateTurns, TurnsInOrder
<1>5. LastTurnMarked'
  BY <1>1 DEF LastTurnMarked
<1>6. QED
  BY <1>2, <1>3, <1>4, <1>5

LEMMA UntouchedHistory ==
  ASSUME HistoryInv, UNCHANGED historyVars, TypeOK'
  PROVE  HistoryInv'
BY DEF HistoryInv, historyVars, KeepsTheLatest, CompactionsExact,
       StartsSeparateTurns, TurnsInOrder, LastTurnMarked

\* The steps of a turn that leave the history alone keep the types.
LEMMA TurnStepsKeepTypes ==
  ASSUME TypeOK,
         \/ Start \/ BeginTriggerTurn \/ UpdateUsage
         \/ FinishReadsUsage \/ FinishTurn \/ UNCHANGED vars
  PROVE  UNCHANGED historyVars /\ TypeOK'
<1> USE DEF TypeOK, historyVars
<1>1. CASE Start
  BY <1>1 DEF Start
<1>2. CASE BeginTriggerTurn
  BY <1>2 DEF BeginTriggerTurn
<1>3. CASE UpdateUsage
  BY <1>3, HistoryAssumption DEF UpdateUsage, turnVars
<1>4. CASE FinishReadsUsage
  BY <1>4 DEF FinishReadsUsage
<1>5. CASE FinishTurn
  BY <1>5 DEF FinishTurn
<1>6. CASE UNCHANGED vars
  BY <1>6 DEF vars, usageVars, turnVars
<1>7. QED
  BY <1>1, <1>2, <1>3, <1>4, <1>5, <1>6

LEMMA NextHistory == HistoryInv /\ [Next]_vars => HistoryInv'
<1> SUFFICES ASSUME HistoryInv, [Next]_vars PROVE HistoryInv'
  OBVIOUS
<1>1. ASSUME NEW b \in BOOLEAN, Record(b) PROVE HistoryInv'
  BY <1>1, RecordPreserves
<1>2. CASE BeginTurn
  BY <1>2, BeginTurnPreserves
<1>3. CASE ClearHistory
  BY <1>3, ClearHistoryPreserves
<1>4. CASE \/ Start \/ BeginTriggerTurn \/ UpdateUsage
           \/ FinishReadsUsage \/ FinishTurn \/ UNCHANGED vars
  BY <1>4, TurnStepsKeepTypes, UntouchedHistory DEF HistoryInv
<1>5. QED
  BY <1>1, <1>2, <1>3, <1>4 DEF Next

\* Whatever is recorded, sent, cleared and restored: the history holds the
\* latest steps, and the positions that trimLocked and ClearHistory keep for
\* compactions and turns are right.
THEOREM HistoryIsInvariant == Spec => []HistoryInv
BY InitHistory, NextHistory, PTL DEF Spec

\* The fields of a conversation keep their types; no position is negative.
THEOREM HistoryTypes == Spec => []TypeOK
<1>1. HistoryInv => TypeOK
  BY DEF HistoryInv
<1>2. QED
  BY <1>1, HistoryIsInvariant, PTL

\* The history is the latest MaxHistory steps received since it was cleared.
THEOREM HistoryKeepsTheLatest == Spec => []KeepsTheLatest
<1>1. HistoryInv => KeepsTheLatest
  BY DEF HistoryInv
<1>2. QED
  BY <1>1, HistoryIsInvariant, PTL

\* CompactionIndices names the compaction steps of the history and no others.
THEOREM CompactionsAreExact == Spec => []CompactionsExact
<1>1. HistoryInv => CompactionsExact
  BY DEF HistoryInv
<1>2. QED
  BY <1>1, HistoryIsInvariant, PTL

\* Turn starts lie between the steps of one turn and those of the next, and
\* none is missing between two turns of the history.
THEOREM TurnStartsSeparate == Spec => []StartsSeparateTurns
<1>1. HistoryInv => StartsSeparateTurns
  BY DEF HistoryInv
<1>2. QED
  BY <1>1, HistoryIsInvariant, PTL

----------------------------------------------------------------------------
\* Usage.  What LastTurnUsage will be computed from is right while a turn
\* that began with a prompt goes on, unless the program clears the history
\* under it.
UsageInv ==
  /\ TypeOK
  /\ prompted =>
       /\ phase = "turn" => turnStartUsage = consumed[1]
       /\ phase = "finishing" => /\ turnStartUsage = consumed[1]
                                 /\ after = consumed[2]
       /\ phase \in {"restoring", "turn", "finishing"} => lastTurnUsage = {}
       /\ phase = "idle" => TurnUsageExact

LEMMA NextUsage ==
  ASSUME "clearMid" \notin Habits, HistoryInv, UsageInv, [Next]_vars
  PROVE  UsageInv'
<1> USE DEF UsageInv, TurnUsageExact
<1>1. TypeOK'
  BY NextHistory DEF HistoryInv
<1>2. ASSUME NEW b \in BOOLEAN, Record(b) PROVE UsageInv'
  BY <1>1, <1>2 DEF Record, usageVars, turnVars
<1>3. CASE BeginTurn
  BY <1>1, <1>3 DEF BeginTurn, NoUsage, TypeOK
<1>4. CASE ClearHistory
  BY <1>1, <1>4 DEF ClearHistory, ClearPhases, NoUsage, turnVars, TypeOK
<1>5. CASE Start
  BY <1>1, <1>5 DEF Start
<1>6. CASE BeginTriggerTurn
  BY <1>1, <1>6 DEF BeginTriggerTurn
<1>7. CASE UpdateUsage
  BY <1>1, <1>7 DEF UpdateUsage, turnVars
<1>8. CASE FinishReadsUsage
  BY <1>1, <1>8 DEF FinishReadsUsage, TypeOK
<1>9. CASE FinishTurn
  BY <1>1, <1>9 DEF FinishTurn, TypeOK
<1>10. CASE UNCHANGED vars
  BY <1>1, <1>10 DEF vars, usageVars, turnVars
<1>11. QED
  BY <1>2, <1>3, <1>4, <1>5, <1>6, <1>7, <1>8, <1>9, <1>10 DEF Next

\* LastTurnUsage is what the last turn consumed, when a prompt began it and
\* nobody calls ClearHistory during a turn.
THEOREM TurnUsageIsExact ==
  ASSUME "clearMid" \notin Habits
  PROVE  Spec => []TurnUsageExact
<1>1. Init => UsageInv
  BY InitHistory DEF Init, UsageInv, HistoryInv, NoUsage
<1>2. HistoryInv /\ UsageInv /\ [Next]_vars => UsageInv'
  BY NextUsage
<1>3. UsageInv => TurnUsageExact
  BY DEF UsageInv, TurnUsageExact, TypeOK
<1>4. QED
  BY <1>1, <1>2, <1>3, HistoryIsInvariant, PTL DEF Spec
=============================================================================
