--------------------------- MODULE EventProcessor ---------------------------
(***************************************************************************)
(* eventproc.go: the read loop of a session, the bounded queue between it  *)
(* and whoever reads the turn, the gate that says whether the agent is     *)
(* idle, and the goroutines that run the user's tools.                     *)
(*                                                                         *)
(* Receiving an event decides, under p.mu, what the read loop still has to *)
(* do for it.  `loop` holds those steps, and the loop takes them one at a  *)
(* time: between any two of them every other goroutine may run.            *)
(*                                                                         *)
(* A definition named X_Y is X with the mistake Y in it.  No specification *)
(* uses it: it is there to be put in the place of X, to see which property *)
(* notices.                                                                *)
(***************************************************************************)
EXTENDS Harness

CONSTANT Capacity   \* of the steps channel; 64 in the source

ASSUME CapacityAssumption == Capacity \in Nat \ {0}

NoMain == "none"

\* stepEvent: a step, an error that the turn reports, or the idle marker.
StepEvents == [kind: {"step"}, turn: Turns]
                \union [kind: {"err", "idle"}, turn: Turns \union {NoTurn}]
Event(k, t) == [kind |-> k, turn |-> t]

\* What the read loop can have left to do.
Emit(k, t) == [op |-> "emit", event |-> Event(k, t)]
MarkRunning == [op |-> "markRunning", event |-> Event("idle", NoTurn)]
MarkIdle == [op |-> "markIdle", event |-> Event("idle", NoTurn)]
CloseSessionEnd == [op |-> "closeSessionEnd", event |-> Event("idle", NoTurn)]
LoopOps == [op: {"emit", "markRunning", "markIdle", "closeSessionEnd"},
            event: StepEvents]

VARIABLES
  loop,        \* what the read loop has left to do before its next Recv
  finished,    \* Recv has failed: the loop ends when `loop` is done
  queue,       \* p.steps
  idle,        \* p.idleCh is closed
  sessionEnd,  \* p.sessionEnd is closed
  main,        \* p.mainTrajectoryID
  tools        \* handleToolCall goroutines: their call, turn and position

processorVars == <<loop, finished, queue, idle, sessionEnd, main, tools>>

ToolRuns == [call: Calls, turn: Turns, at: {"announce", "invoke"}]

ProcessorTypeOK ==
  /\ loop \in Seq(LoopOps)
  /\ finished \in BOOLEAN
  /\ queue \in Seq(StepEvents) /\ Len(queue) <= Capacity
  /\ idle \in BOOLEAN
  /\ sessionEnd \in BOOLEAN
  /\ main \in Trajectories \union {NoMain}
  /\ tools \subseteq ToolRuns

\* A session starts idle: nothing runs until a prompt is sent.
ProcessorInit ==
  /\ loop = <<>> /\ finished = FALSE
  /\ queue = <<>> /\ idle = TRUE /\ sessionEnd = FALSE
  /\ main = NoMain /\ tools = {}

----------------------------------------------------------------------------
\* The queue.  emit puts the event on the channel, or gives it up when the
\* session has ended; when both are possible, select picks either.

Enqueue_Unbounded(e) == queue' = Append(queue, e)
Enqueue(e) == Len(queue) < Capacity /\ queue' = Append(queue, e)
GiveUp == sessionEnd /\ UNCHANGED queue
EmitEvent(e) == Enqueue(e) \/ GiveUp

----------------------------------------------------------------------------
\* The read loop.

StateOps_GateFirst(ev, m) ==
  IF m # NoMain /\ ev.traj # m THEN <<>>
  ELSE CASE ev.kind = "running" -> <<MarkRunning>>
         [] ev.kind = "idle" -> <<MarkIdle, Emit("idle", ev.turn)>>
         [] OTHER -> <<MarkIdle, Emit("err", ev.turn), Emit("idle", ev.turn)>>

StateOps_AnyTrajectory(ev, m) ==
  CASE ev.kind = "running" -> <<MarkRunning>>
    [] ev.kind = "idle" -> <<Emit("idle", ev.turn), MarkIdle>>
    [] OTHER -> <<Emit("err", ev.turn), Emit("idle", ev.turn), MarkIdle>>

StateOps_FailureForgetsGate(ev, m) ==
  IF m # NoMain /\ ev.traj # m THEN <<>>
  ELSE CASE ev.kind = "running" -> <<MarkRunning>>
         [] ev.kind = "idle" -> <<Emit("idle", ev.turn), MarkIdle>>
         [] OTHER -> <<Emit("err", ev.turn), Emit("idle", ev.turn)>>

StateOps_FailureForgetsMarker(ev, m) ==
  IF m # NoMain /\ ev.traj # m THEN <<>>
  ELSE CASE ev.kind = "running" -> <<MarkRunning>>
         [] ev.kind = "idle" -> <<Emit("idle", ev.turn), MarkIdle>>
         [] OTHER -> <<Emit("err", ev.turn), MarkIdle>>

\* What handleTrajectoryState does, given the main trajectory it read.
StateOps(ev, m) ==
  IF m # NoMain /\ ev.traj # m THEN <<>>
  ELSE CASE ev.kind = "running" -> <<MarkRunning>>
         [] ev.kind = "idle" -> <<Emit("idle", ev.turn), MarkIdle>>
         [] OTHER -> <<Emit("err", ev.turn), Emit("idle", ev.turn), MarkIdle>>

Recv(kinds) ==
  /\ loop = <<>> /\ ~finished
  /\ wire # <<>> /\ Head(wire).kind \in kinds
  /\ wire' = Tail(wire)
  /\ UNCHANGED <<inbox, link, backlog, running, awaiting, calls, lastTurn,
                 produced, finished, queue, idle>>

HandleStepUpdate ==
  /\ Recv({"step"})
  /\ main' = IF main = NoMain THEN Head(wire).traj ELSE main
  /\ loop' = <<Emit("step", Head(wire).turn)>>
  /\ UNCHANGED <<sessionEnd, tools>>

HandleTrajectoryState ==
  /\ Recv({"running", "idle", "failed", "cancelled"})
  /\ loop' = StateOps(Head(wire), main)
  /\ UNCHANGED <<sessionEnd, main, tools>>

StartToolCall_Unannounced ==
  /\ Recv({"tool"})
  /\ tools' = tools \union {[call |-> Head(wire).call,
                             turn |-> Head(wire).turn, at |-> "invoke"]}
  /\ UNCHANGED <<loop, sessionEnd, main>>

StartToolCall ==
  /\ Recv({"tool"})
  /\ tools' = tools \union {[call |-> Head(wire).call,
                             turn |-> Head(wire).turn, at |-> "announce"]}
  /\ UNCHANGED <<loop, sessionEnd, main>>

HandleSessionEndResponse ==
  /\ Recv({"sessionEnd"})
  /\ sessionEnd' = TRUE
  /\ UNCHANGED <<loop, main, tools>>

Finish_KeepsSessionOpen ==
  /\ loop = <<>> /\ ~finished
  /\ wire = <<>> /\ link # "open"
  /\ finished' = TRUE
  /\ loop' = (IF link = "error" THEN <<Emit("err", NoTurn)>> ELSE <<>>)
               \o <<Emit("idle", NoTurn), MarkIdle>>
  /\ UNCHANGED <<harnessVars, queue, idle, sessionEnd, main, tools>>

\* finish: Recv failed.  It also fails on a frame that does not parse, with the
\* connection open; the harness of this model sends none.
Finish ==
  /\ loop = <<>> /\ ~finished
  /\ wire = <<>> /\ link # "open"
  /\ finished' = TRUE
  /\ loop' = (IF link = "error" THEN <<Emit("err", NoTurn)>> ELSE <<>>)
               \o <<Emit("idle", NoTurn), MarkIdle, CloseSessionEnd>>
  /\ UNCHANGED <<harnessVars, queue, idle, sessionEnd, main, tools>>

LoopDoes(op) ==
  /\ loop # <<>> /\ Head(loop).op = op
  /\ loop' = Tail(loop)
  /\ UNCHANGED <<harnessVars, finished, main, tools>>

LoopEmits ==
  /\ LoopDoes("emit")
  /\ EmitEvent(Head(loop).event)
  /\ UNCHANGED <<idle, sessionEnd>>

LoopMarksRunning ==
  LoopDoes("markRunning") /\ idle' = FALSE /\ UNCHANGED <<queue, sessionEnd>>

LoopMarksIdle ==
  LoopDoes("markIdle") /\ idle' = TRUE /\ UNCHANGED <<queue, sessionEnd>>

LoopClosesSessionEnd ==
  LoopDoes("closeSessionEnd") /\ sessionEnd' = TRUE /\ UNCHANGED <<queue, idle>>

ReadLoop ==
  \/ HandleStepUpdate \/ HandleTrajectoryState \/ StartToolCall
  \/ HandleSessionEndResponse \/ Finish
  \/ LoopEmits \/ LoopMarksRunning \/ LoopMarksIdle \/ LoopClosesSessionEnd

----------------------------------------------------------------------------
\* handleToolCall, on a goroutine of its own.

AnnounceTool(r) ==
  /\ r.at = "announce"
  /\ EmitEvent(Event("step", r.turn))
  /\ tools' = (tools \ {r}) \union {[r EXCEPT !.at = "invoke"]}
  /\ UNCHANGED <<harnessVars, loop, finished, idle, sessionEnd, main>>

AnswerTool_Silent(r) ==
  /\ r.at = "invoke"
  /\ tools' = tools \ {r}
  /\ UNCHANGED <<harnessVars, loop, finished, queue, idle, sessionEnd, main>>

AnswerTool_Twice(r) ==
  /\ r.at = "invoke"
  /\ tools' = tools \ {r}
  /\ inbox' = inbox \o <<In("toolResponse", r.turn, r.call),
                         In("toolResponse", r.turn, r.call)>>
  /\ UNCHANGED <<wire, link, backlog, running, awaiting, calls, lastTurn,
                 produced, loop, finished, queue, idle, sessionEnd, main>>

\* Whatever the tool did (result, error, panic, unknown name), one response
\* goes back; a response that cannot be sent is only logged.  A call without
\* an id, which would get no response, is not one this harness makes.
AnswerTool(r) ==
  /\ r.at = "invoke"
  /\ tools' = tools \ {r}
  /\ Deliver(In("toolResponse", r.turn, r.call))
  /\ UNCHANGED <<wire, link, backlog, running, awaiting, calls, lastTurn,
                 produced, loop, finished, queue, idle, sessionEnd, main>>

ToolGoroutines == \E r \in tools : AnnounceTool(r) \/ AnswerTool(r)

\* A write can succeed on an open connection, and on one whose loss has not
\* been noticed: a failed Recv, or closing it, makes every later write fail.
SendMaySucceed == link = "open" \/ (link # "closed" /\ ~finished)

\* p.wg: the read loop and every goroutine it dispatched have returned.
Quiescent == finished /\ loop = <<>> /\ tools = {}

ProcessorNext == ReadLoop \/ ToolGoroutines
=============================================================================
