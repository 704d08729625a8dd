------------------------ MODULE ConversationHistory ------------------------
(***************************************************************************)
(* conversation.go: the transcript, its cap, the indices that point into   *)
(* it, and the usage figures of a turn.                                    *)
(*                                                                         *)
(* Every method works under c.mu, except that finishTurn reads the usage   *)
(* before it takes the lock.  Positions are 0-based, as in the source.     *)
(* The compaction indices are in increasing order, so a set says the same; *)
(* two prompts can begin at one position, so each entry of turnStarts is   *)
(* kept with the number of its prompt.                                     *)
(*                                                                         *)
(* A definition named X_Y is X with the mistake Y in it; no specification  *)
(* uses it.                                                                *)
(***************************************************************************)
EXTENDS Integers, Sequences, FiniteSets

CONSTANTS
  MaxHistory,  \* Conversation.maxHistory
  MaxReceived, \* steps recorded in a behaviour
  MaxSends,    \* prompts sent in a behaviour
  MaxUsage,    \* tokens used in a behaviour
  Habits       \* what the program does: see HabitKinds

HabitKinds == {"trigger",  \* has triggers, whose turns it reads
               "clear",    \* clears the history between turns
               "clearMid"} \* clears the history during a turn

ASSUME HistoryAssumption ==
  /\ MaxHistory \in Nat \ {0}
  /\ MaxReceived \in Nat /\ MaxSends \in Nat /\ MaxUsage \in Nat
  /\ Habits \subseteq HabitKinds

VARIABLES
  steps,           \* c.steps
  turnStarts,      \* c.turnStarts
  compactions,     \* c.compactions
  usage,           \* p.cumulativeUsage, in tokens
  turnStartUsage,  \* c.turnStartUsage
  lastTurnUsage,   \* c.lastTurnUsage
  after,           \* finishTurn's local variable
  phase,           \* ghost: "restoring" in newConversation, "idle", "turn",
                   \* or "finishing" in finishTurn
  received,        \* ghost: steps recorded so far
  cleared,         \* ghost: value of received at the last ClearHistory
  sends,           \* ghost: prompts sent so far
  prompted,        \* ghost: the last turn that was read began with a prompt
  consumed         \* ghost: <<tokens at the start, tokens at the end>> of it

historyVars == <<steps, turnStarts, compactions, received, cleared, sends>>
turnVars == <<phase, prompted, consumed>>
usageVars == <<usage, turnStartUsage, lastTurnUsage, after, turnVars>>
vars == <<historyVars, usageVars>>

\* lastTurnUsage is nil, or points to a figure: a set of at most one.
NoUsage == {}
Minimum(a, b) == IF a <= b THEN a ELSE b

\* A step, as far as the history looks at it, with the number of the step and
\* of the prompt it came after.
Steps == [compaction: BOOLEAN, serial: Nat, turn: Nat]

TypeOK ==
  /\ steps \in Seq(Steps)
  /\ turnStarts \subseteq [turn: Nat \ {0}, at: Nat]
  /\ compactions \subseteq Nat
  /\ usage \in Nat /\ turnStartUsage \in Nat /\ after \in Nat
  /\ lastTurnUsage \subseteq Int
  /\ phase \in {"restoring", "idle", "turn", "finishing"}
  /\ received \in Nat /\ cleared \in Nat /\ cleared <= received
  /\ sends \in Nat
  /\ prompted \in BOOLEAN
  /\ consumed \in Nat \X Nat

----------------------------------------------------------------------------
\* trimLocked, on a history that has grown to s.

Overflow(s) == Len(s) - MaxHistory
Trimmed_Late(s) == IF Overflow(s) <= 1 THEN s
                   ELSE SubSeq(s, Overflow(s), Len(s))
Trimmed(s) == IF Overflow(s) <= 0 THEN s
              ELSE SubSeq(s, Overflow(s) + 1, Len(s))
\* What becomes of the positions in the set of records S, or of numbers I.
ShiftedStarts_Unshifted(S, k) == IF k <= 0 THEN S ELSE {s \in S : s.at >= k}
ShiftedStarts(S, k) ==
  IF k <= 0 THEN S ELSE {[s EXCEPT !.at = @ - k] : s \in {t \in S : t.at >= k}}
Shifted_KeepsAll(I, k) == IF k <= 0 THEN I ELSE {i - k : i \in I}
Shifted(I, k) == IF k <= 0 THEN I ELSE {i - k : i \in {j \in I : j >= k}}

Record(isCompaction) ==
  /\ received < MaxReceived
  /\ phase \in {"restoring", "turn"}
  /\ LET grown == Append(steps, [compaction |-> isCompaction,
                                 serial |-> received + 1, turn |-> sends])
         marked == compactions \union IF isCompaction THEN {Len(steps)} ELSE {}
     IN /\ steps' = Trimmed(grown)
        /\ compactions' = Shifted(marked, Overflow(grown))
        /\ turnStarts' = ShiftedStarts(turnStarts, Overflow(grown))
  /\ received' = received + 1
  /\ UNCHANGED <<cleared, sends, usageVars>>

\* Send, once the turn before is over: lines 146-150.
BeginTurn ==
  /\ phase = "idle" /\ sends < MaxSends
  /\ turnStarts' = turnStarts \union {[turn |-> sends + 1, at |-> Len(steps)]}
  /\ turnStartUsage' = usage
  /\ lastTurnUsage' = NoUsage
  /\ sends' = sends + 1
  /\ phase' = "turn" /\ prompted' = TRUE
  /\ consumed' = <<usage, usage>>
  /\ UNCHANGED <<steps, compactions, received, cleared, usage, after>>

\* Somebody reads a turn that a trigger started.
BeginTriggerTurn ==
  /\ "trigger" \in Habits
  /\ phase = "idle"
  /\ phase' = "turn" /\ prompted' = FALSE
  /\ consumed' = <<usage, usage>>
  /\ UNCHANGED <<historyVars, usage, turnStartUsage, lastTurnUsage, after>>

\* handleUsageUpdate, on the read loop, while the agent works.
UpdateUsage ==
  /\ phase = "turn" /\ usage < MaxUsage
  /\ usage' \in usage + 1..MaxUsage
  /\ UNCHANGED <<historyVars, turnStartUsage, lastTurnUsage, after, turnVars>>

\* finishTurn, in two steps.
FinishReadsUsage ==
  /\ phase = "turn"
  /\ after' = usage
  /\ phase' = "finishing"
  /\ consumed' = <<consumed[1], usage>>
  /\ UNCHANGED <<historyVars, usage, turnStartUsage, lastTurnUsage, prompted>>

FinishTurn_Cumulative ==
  /\ phase = "finishing"
  /\ lastTurnUsage' = {after}
  /\ phase' = "idle"
  /\ UNCHANGED <<historyVars, usage, turnStartUsage, after, prompted,
                 consumed>>

FinishTurn ==
  /\ phase = "finishing"
  /\ lastTurnUsage' = {after - turnStartUsage}
  /\ phase' = "idle"
  /\ UNCHANGED <<historyVars, usage, turnStartUsage, after, prompted,
                 consumed>>

ClearPhases == {"idle"} \union IF "clearMid" \in Habits
                              THEN {"turn", "finishing"} ELSE {}

ClearHistory ==
  /\ "clear" \in Habits /\ phase \in ClearPhases
  /\ steps' = <<>> /\ turnStarts' = {} /\ compactions' = {}
  /\ lastTurnUsage' = NoUsage /\ turnStartUsage' = 0
  /\ cleared' = received
  /\ UNCHANGED <<received, sends, usage, after, turnVars>>

\* newConversation records what the harness restored, then the session starts.
Init ==
  /\ steps = <<>> /\ compactions = {} /\ turnStarts = {}
  /\ received = 0 /\ cleared = 0 /\ sends = 0
  /\ usage \in 0..MaxUsage  \* seedUsage
  /\ turnStartUsage = 0 /\ lastTurnUsage = NoUsage /\ after = 0
  /\ phase = "restoring" /\ prompted = TRUE /\ consumed = <<0, 0>>

Start ==
  /\ phase = "restoring" /\ phase' = "idle"
  /\ UNCHANGED <<historyVars, usage, turnStartUsage, lastTurnUsage, after,
                 prompted, consumed>>

Next ==
  \/ \E b \in BOOLEAN : Record(b)
  \/ Start \/ BeginTurn \/ BeginTriggerTurn \/ UpdateUsage
  \/ FinishReadsUsage \/ FinishTurn \/ ClearHistory

Spec == Init /\ [][Next]_vars

----------------------------------------------------------------------------
\* The history is the last MaxHistory steps received since it was cleared: the
\* oldest go, and none goes that fits (conversation.go 84-91).
KeepsTheLatest ==
  /\ Len(steps) = Minimum(received - cleared, MaxHistory)
  /\ \A i \in 1..Len(steps) : steps[i].serial = received - Len(steps) + i

\* CompactionIndices are the positions of the compaction steps that are still
\* in the history, all of them and no other (conversation.go 323-329).
CompactionsExact ==
  compactions = {i \in 0..Len(steps) - 1 : steps[i + 1].compaction}

\* Every recorded turn start separates the steps of the turns before it from
\* those of its own and later turns, however often the history was trimmed;
\* and wherever two turns meet in the history, a turn start says so.
StartsSeparateTurns ==
  /\ \A s \in turnStarts :
       /\ s.at <= Len(steps)
       /\ \A i \in 1..Len(steps) : i > s.at <=> steps[i].turn >= s.turn
  /\ \A i \in 1..Len(steps) - 1 :
       steps[i].turn # steps[i + 1].turn
         => [turn |-> steps[i + 1].turn, at |-> i] \in turnStarts

\* LastTurnUsage is what the most recent completed turn consumed
\* (conversation.go 352-353), when that turn began with a prompt.
TurnUsageExact ==
  prompted => lastTurnUsage \subseteq {consumed[2] - consumed[1]}
=============================================================================
