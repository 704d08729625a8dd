------------------------------ MODULE Harness ------------------------------
(***************************************************************************)
(* The localharness subprocess as the SDK uses it, and the connection to   *)
(* it.  The harness is a closed binary: nothing here is translated from    *)
(* its code.  What it may send, and when, is read off the requests that    *)
(* eventproc.go handles and the transcripts its tests play back; sending   *)
(* and receiving frames is internal/harness/conn.go.                       *)
(*                                                                         *)
(* A turn is one run of the agent loop, started by a prompt or by a        *)
(* trigger.  Turns carry a number that the program does not have: it lets  *)
(* the properties say which turn an event belongs to.                      *)
(***************************************************************************)
EXTENDS Naturals, Sequences, FiniteSets

CONSTANTS
  MaxTurns,   \* turns a behaviour may start (prompts and triggers together)
  MaxSteps,   \* steps of a turn after which it has only calls left to make
  MaxCalls,   \* custom-tool calls the harness makes in a behaviour
  Faults      \* which of FaultKinds may happen

FaultKinds == {"turnError",  \* a turn may end with an error
               "crash",      \* the harness may go away
               "badPrompt"}  \* a prompt may fail to become a frame

ASSUME HarnessAssumption ==
  /\ MaxTurns \in Nat /\ MaxSteps \in Nat /\ MaxCalls \in Nat
  /\ Faults \subseteq FaultKinds

Turns == 1..MaxTurns
NoTurn == 0
Calls == 1..MaxCalls
NoCall == 0

Trajectories == {"main", "sub"}

\* OutputEvent: what the harness sends.  "idle" is FULLY_IDLE without an
\* error, "failed" FULLY_IDLE with one.
OutputEvents ==
  [kind: {"step", "running", "idle", "failed", "cancelled"},
   traj: Trajectories, turn: Turns, call: {NoCall}]
  \union [kind: {"tool"}, traj: Trajectories, turn: Turns, call: Calls]
  \union [kind: {"sessionEnd"}, traj: Trajectories, turn: {NoTurn},
          call: {NoCall}]

\* InputEvent: what the SDK sends.
InputEvents ==
  [kind: {"turn"}, turn: Turns, call: {NoCall}]
  \union [kind: {"halt", "end"}, turn: {NoTurn}, call: {NoCall}]
  \union [kind: {"toolResponse"}, turn: Turns, call: Calls]

VARIABLES
  inbox,     \* frames written by the SDK, not yet read by the harness
  wire,      \* frames written by the harness, not yet received by the SDK
  link,      \* "open", "closed" by the SDK, or how the harness went away
  backlog,   \* turns accepted and not yet started
  running,   \* the turn in progress, or NoTurn
  awaiting,  \* tool calls the turn in progress needs answered
  calls,     \* tool calls made so far
  lastTurn,  \* turns requested so far
  produced   \* ghost: how many steps each turn has to show to its reader

harnessVars == <<inbox, wire, link, backlog, running, awaiting, calls,
                 lastTurn, produced>>

Out(k, traj, t, c) == [kind |-> k, traj |-> traj, turn |-> t, call |-> c]
In(k, t, c) == [kind |-> k, turn |-> t, call |-> c]

HarnessTypeOK ==
  /\ inbox \in Seq(InputEvents)
  /\ wire \in Seq(OutputEvents)
  /\ link \in {"open", "eof", "error", "closed"}
  /\ backlog \in Seq(Turns)
  /\ running \in Turns \union {NoTurn}
  /\ awaiting \subseteq Calls
  /\ calls \in 0..MaxCalls
  /\ lastTurn \in 0..MaxTurns
  /\ produced \in [Turns -> Nat]

HarnessInit ==
  /\ inbox = <<>> /\ wire = <<>> /\ link = "open"
  /\ backlog = <<>> /\ running = NoTurn
  /\ awaiting = {} /\ calls = 0 /\ lastTurn = 0
  /\ produced = [t \in Turns |-> 0]

----------------------------------------------------------------------------
\* The connection, as the SDK's actions use it.

\* Conn.Send, when the write succeeds.  A write to a harness that is gone may
\* succeed too, and is lost.
Deliver(m) == inbox' = IF link = "open" THEN Append(inbox, m) ELSE inbox
SendMayFail == link # "open"

----------------------------------------------------------------------------
\* The harness.

TakeRequest ==
  /\ link = "open" /\ inbox # <<>>
  /\ inbox' = Tail(inbox)
  /\ UNCHANGED <<link, calls, lastTurn, produced>>

AcceptTurn ==
  /\ TakeRequest /\ Head(inbox).kind = "turn"
  /\ backlog' = Append(backlog, Head(inbox).turn)
  /\ UNCHANGED <<wire, running, awaiting>>

\* A halt ends the turn in progress, whatever it was waiting for; with no
\* turn in progress it does nothing.
AcceptHalt ==
  /\ TakeRequest /\ Head(inbox).kind = "halt"
  /\ wire' = IF running = NoTurn THEN wire
             ELSE Append(wire, Out("cancelled", "main", running, NoCall))
  /\ running' = NoTurn
  /\ awaiting' = {}
  /\ UNCHANGED backlog

AcceptToolResponse ==
  /\ TakeRequest /\ Head(inbox).kind = "toolResponse"
  /\ awaiting' = awaiting \ {Head(inbox).call}
  /\ UNCHANGED <<wire, backlog, running>>

AcceptSessionEnd ==
  /\ TakeRequest /\ Head(inbox).kind = "end"
  /\ wire' = Append(wire, Out("sessionEnd", "main", NoTurn, NoCall))
  /\ UNCHANGED <<backlog, running, awaiting>>

StartTurn ==
  /\ link = "open" /\ running = NoTurn /\ backlog # <<>>
  /\ running' = Head(backlog)
  /\ backlog' = Tail(backlog)
  /\ wire' = Append(wire, Out("running", "main", Head(backlog), NoCall))
  /\ UNCHANGED <<inbox, link, awaiting, calls, lastTurn, produced>>

SendStep ==
  /\ link = "open" /\ running # NoTurn
  /\ produced[running] < MaxSteps
  /\ produced' = [produced EXCEPT ![running] = @ + 1]
  /\ wire' = Append(wire, Out("step", "main", running, NoCall))
  /\ UNCHANGED <<inbox, link, backlog, running, awaiting, calls, lastTurn>>

\* The SDK shows a tool call to the reader as a step of its own.
CallTool ==
  /\ link = "open" /\ running # NoTurn /\ produced[running] > 0
  /\ calls < MaxCalls
  /\ calls' = calls + 1
  /\ awaiting' = awaiting \union {calls + 1}
  /\ produced' = [produced EXCEPT ![running] = @ + 1]
  /\ wire' = Append(wire, Out("tool", "main", running, calls + 1))
  /\ UNCHANGED <<inbox, link, backlog, running, lastTurn>>

\* A subagent is started by a step of the main trajectory and reports its own
\* states on the same connection.  One report in flight is enough.
SubagentIdle ==
  /\ link = "open" /\ running # NoTurn /\ produced[running] > 0
  /\ \A i \in DOMAIN wire : wire[i].traj = "main"
  /\ wire' = Append(wire, Out("idle", "sub", running, NoCall))
  /\ UNCHANGED <<inbox, link, backlog, running, awaiting, calls, lastTurn,
                 produced>>

\* A turn ends once every tool call it made is answered.
FinishTurn ==
  /\ link = "open" /\ running # NoTurn /\ awaiting = {}
  /\ \E k \in {"idle"} \union (IF "turnError" \in Faults THEN {"failed"} ELSE {}) :
       wire' = Append(wire, Out(k, "main", running, NoCall))
  /\ running' = NoTurn
  /\ UNCHANGED <<inbox, link, backlog, awaiting, calls, lastTurn, produced>>

\* The process dies or the connection breaks.  What Recv makes of it depends
\* on how far the frame in flight got: io.EOF, or any other error.
Crash ==
  /\ "crash" \in Faults /\ link = "open"
  /\ link' \in {"eof", "error"}
  /\ running' = NoTurn
  /\ awaiting' = {}
  /\ UNCHANGED <<inbox, wire, backlog, calls, lastTurn, produced>>

HarnessTurn ==
  \/ AcceptTurn \/ AcceptHalt \/ AcceptToolResponse \/ AcceptSessionEnd
  \/ StartTurn \/ FinishTurn

HarnessNext == HarnessTurn \/ SendStep \/ CallTool \/ SubagentIdle \/ Crash
=============================================================================
