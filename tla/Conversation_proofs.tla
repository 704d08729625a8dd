------------------------ MODULE Conversation_proofs ------------------------
(***************************************************************************)
(* Type correctness of Conversation, and the fate of tool calls, for every *)
(* program, every capacity of the queue and every fault.                   *)
(***************************************************************************)
EXTENDS Conversation, SequenceTheorems, TLAPS

----------------------------------------------------------------------------
\* What the messages and events are made of.

LEMMA OutputTypes ==
  ASSUME NEW traj \in Trajectories, NEW t \in Turns
  PROVE  /\ \A k \in {"step", "running", "idle", "failed", "cancelled"} :
              Out(k, traj, t, NoCall) \in OutputEvents
         /\ \A c \in Calls : Out("tool", traj, t, c) \in OutputEvents
         /\ Out("sessionEnd", traj, NoTurn, NoCall) \in OutputEvents
BY DEF OutputEvents, Out

LEMMA InputTypes ==
  ASSUME NEW t \in Turns
  PROVE  /\ In("turn", t, NoCall) \in InputEvents
         /\ In("halt", NoTurn, NoCall) \in InputEvents
         /\ In("end", NoTurn, NoCall) \in InputEvents
         /\ \A c \in Calls : In("toolResponse", t, c) \in InputEvents
BY DEF InputEvents, In

LEMMA EventTypes ==
  ASSUME NEW t \in Turns \union {NoTurn}
  PROVE  /\ t \in Turns => Event("step", t) \in StepEvents
         /\ t \in Turns => Emit("step", t) \in LoopOps
         /\ \A k \in {"err", "idle"} : /\ Event(k, t) \in StepEvents
                                       /\ Emit(k, t) \in LoopOps
         /\ {MarkRunning, MarkIdle, CloseSessionEnd} \subseteq LoopOps
BY DEF StepEvents, Event, Emit, LoopOps, MarkRunning, MarkIdle,
       CloseSessionEnd

\* What a received frame holds, given its kind.
LEMMA OutputFields ==
  ASSUME NEW e \in OutputEvents
  PROVE  /\ e.traj \in Trajectories
         /\ e.kind # "sessionEnd" => e.turn \in Turns
         /\ e.kind = "tool" => e.call \in Calls
BY DEF OutputEvents

LEMMA InputFields ==
  ASSUME NEW m \in InputEvents
  PROVE  /\ m.kind = "turn" => m.turn \in Turns
         /\ m.kind = "toolResponse" => m.turn \in Turns /\ m.call \in Calls
BY DEF InputEvents

LEMMA HeadTail ==
  ASSUME NEW S, NEW s \in Seq(S), s # <<>>
  PROVE  Head(s) \in S /\ Tail(s) \in Seq(S)
OBVIOUS

LEMMA BooleanUpdate ==
  ASSUME NEW S, NEW f \in [S -> BOOLEAN], NEW x, NEW b \in BOOLEAN
  PROVE  [f EXCEPT ![x] = b] \in [S -> BOOLEAN]
BY Zenon

----------------------------------------------------------------------------
\* The harness keeps the types.

LEMMA DeliverTypes ==
  ASSUME HarnessTypeOK, NEW m \in InputEvents, Deliver(m)
  PROVE  inbox' \in Seq(InputEvents)
BY DEF HarnessTypeOK, Deliver

LEMMA HarnessKeepsTypes ==
  ASSUME HarnessTypeOK, HarnessNext
  PROVE  HarnessTypeOK'
<1> USE HarnessAssumption DEF HarnessTypeOK
<1>1. ASSUME TakeRequest
      PROVE  /\ Head(inbox) \in InputEvents /\ inbox' \in Seq(InputEvents)
             /\ UNCHANGED <<link, calls, lastTurn, produced>>
  BY <1>1, HeadTail DEF TakeRequest
<1>2. CASE AcceptTurn
  <2>1. Head(inbox).turn \in Turns
    BY <1>1, <1>2, InputFields DEF AcceptTurn
  <2>2. QED
    BY <1>1, <1>2, <2>1 DEF AcceptTurn
<1>3. CASE AcceptHalt
  <2>1. running # NoTurn =>
          Out("cancelled", "main", running, NoCall) \in OutputEvents
    BY OutputTypes DEF Trajectories
  <2>2. wire' \in Seq(OutputEvents)
    BY <1>3, <2>1 DEF AcceptHalt
  <2>3. QED
    BY <1>1, <1>3, <2>2 DEF AcceptHalt
<1>4. CASE AcceptToolResponse
  BY <1>1, <1>4 DEF AcceptToolResponse
<1>5. CASE AcceptSessionEnd
  <2>1. Out("sessionEnd", "main", NoTurn, NoCall) \in OutputEvents
    BY DEF OutputEvents, Out, Trajectories
  <2>2. QED
    BY <1>1, <1>5, <2>1 DEF AcceptSessionEnd
<1>6. CASE StartTurn
  <2>1. Head(backlog) \in Turns /\ Tail(backlog) \in Seq(Turns)
    BY <1>6, HeadTail DEF StartTurn
  <2>2. Out("running", "main", Head(backlog), NoCall) \in OutputEvents
    BY <2>1, OutputTypes DEF Trajectories
  <2>3. QED
    BY <1>6, <2>1, <2>2 DEF StartTurn
<1>7. CASE SendStep
  <2>1. Out("step", "main", running, NoCall) \in OutputEvents
    BY <1>7, OutputTypes DEF SendStep, Trajectories
  <2>2. QED
    BY <1>7, <2>1 DEF SendStep
<1>8. CASE CallTool
  <2>1. calls + 1 \in Calls
    BY <1>8 DEF CallTool, Calls
  <2>2. Out("tool", "main", running, calls + 1) \in OutputEvents
    BY <1>8, <2>1, OutputTypes DEF CallTool, Trajectories
  <2>3. QED
    BY <1>8, <2>1, <2>2 DEF CallTool, Calls
<1>9. CASE SubagentIdle
  <2>1. Out("idle", "sub", running, NoCall) \in OutputEvents
    BY <1>9, OutputTypes DEF SubagentIdle, Trajectories
  <2>2. QED
    BY <1>9, <2>1 DEF SubagentIdle
<1>10. CASE FinishTurn
  <2>1. PICK k \in {"idle", "failed"} :
          wire' = Append(wire, Out(k, "main", running, NoCall))
    BY <1>10 DEF FinishTurn
  <2>2. Out(k, "main", running, NoCall) \in OutputEvents
    BY <1>10, OutputTypes DEF FinishTurn, Trajectories
  <2>3. QED
    BY <1>10, <2>1, <2>2 DEF FinishTurn
<1>11. CASE Crash
  BY <1>11 DEF Crash
<1>12. QED
  BY <1>2, <1>3, <1>4, <1>5, <1>6, <1>7, <1>8, <1>9, <1>10, <1>11
     DEF HarnessNext, HarnessTurn

----------------------------------------------------------------------------
\* The event processor keeps the types, its own and the harness's.

LEMMA EmitTypes ==
  ASSUME ProcessorTypeOK, NEW e \in StepEvents, EmitEvent(e)
  PROVE  queue' \in Seq(StepEvents) /\ Len(queue') <= Capacity
BY CapacityAssumption DEF ProcessorTypeOK, EmitEvent, Enqueue, GiveUp

LEMMA StateOpsTypes ==
  ASSUME NEW e \in OutputEvents, e.kind # "sessionEnd", NEW m
  PROVE  StateOps(e, m) \in Seq(LoopOps)
<1>1. e.turn \in Turns
  BY OutputFields
<1>2. {Emit("idle", e.turn), Emit("err", e.turn), MarkRunning, MarkIdle}
        \subseteq LoopOps
  BY <1>1, EventTypes
<1>3. QED
  BY <1>2 DEF StateOps

LEMMA ProcessorKeepsTypes ==
  ASSUME HarnessTypeOK, ProcessorTypeOK, ProcessorNext
  PROVE  HarnessTypeOK' /\ ProcessorTypeOK'
<1> USE DEF ProcessorTypeOK
<1>1. ASSUME NEW kinds, Recv(kinds)
      PROVE  /\ HarnessTypeOK'
             /\ Head(wire) \in OutputEvents /\ Head(wire).kind \in kinds
             /\ UNCHANGED <<finished, queue, idle>>
  <2>1. Head(wire) \in OutputEvents /\ wire' \in Seq(OutputEvents)
    BY <1>1, HeadTail DEF Recv, HarnessTypeOK
  <2>2. QED
    BY <1>1, <2>1 DEF Recv, HarnessTypeOK
<1>2. ASSUME NEW op, LoopDoes(op)
      PROVE  /\ HarnessTypeOK'
             /\ Head(loop) \in LoopOps /\ loop' \in Seq(LoopOps)
             /\ UNCHANGED <<finished, main, tools>>
  <2>1. Head(loop) \in LoopOps /\ loop' \in Seq(LoopOps)
    BY <1>2, HeadTail DEF LoopDoes
  <2>2. QED
    BY <1>2, <2>1 DEF LoopDoes, HarnessTypeOK, harnessVars
<1>3. CASE HandleStepUpdate
  <2>1. Head(wire).turn \in Turns /\ Head(wire).traj \in Trajectories
    BY <1>1, <1>3, OutputFields DEF HandleStepUpdate
  <2>2. Emit("step", Head(wire).turn) \in LoopOps
    BY <2>1, EventTypes
  <2>3. QED
    BY <1>1, <1>3, <2>1, <2>2 DEF HandleStepUpdate
<1>4. CASE HandleTrajectoryState
  <2>1. Head(wire) \in OutputEvents /\ Head(wire).kind # "sessionEnd"
    BY <1>1, <1>4 DEF HandleTrajectoryState
  <2>2. StateOps(Head(wire), main) \in Seq(LoopOps)
    BY <2>1, StateOpsTypes
  <2>3. QED
    BY <1>1, <1>4, <2>2 DEF HandleTrajectoryState
<1>5. CASE StartToolCall
  <2>1. Head(wire).turn \in Turns /\ Head(wire).call \in Calls
    BY <1>1, <1>5, OutputFields DEF StartToolCall
  <2>2. UNCHANGED <<loop, sessionEnd, main>>
    BY <1>5 DEF StartToolCall
  <2>3. tools' \subseteq ToolRuns
    BY <1>5, <2>1 DEF StartToolCall, ToolRuns
  <2>4. QED
    BY <1>1, <1>5, <2>2, <2>3 DEF StartToolCall
<1>6. CASE HandleSessionEndResponse
  BY <1>1, <1>6 DEF HandleSessionEndResponse
<1>7. CASE Finish
  <2>1. loop' \in Seq(LoopOps)
    <3>1. /\ Emit("err", NoTurn) \in LoopOps /\ Emit("idle", NoTurn) \in LoopOps
          /\ MarkIdle \in LoopOps /\ CloseSessionEnd \in LoopOps
      BY EventTypes
    <3>2. QED
      BY <1>7, <3>1 DEF Finish
  <2>2. QED
    BY <1>7, <2>1 DEF Finish, HarnessTypeOK, harnessVars
<1>8. CASE LoopEmits
  <2>1. Head(loop).event \in StepEvents
    BY <1>2, <1>8 DEF LoopEmits, LoopOps
  <2>2. queue' \in Seq(StepEvents) /\ Len(queue') <= Capacity
    BY <1>8, <2>1, EmitTypes DEF LoopEmits
  <2>3. QED
    BY <1>2, <1>8, <2>2 DEF LoopEmits
<1>9. CASE LoopMarksRunning
  BY <1>2, <1>9 DEF LoopMarksRunning
<1>10. CASE LoopMarksIdle
  BY <1>2, <1>10 DEF LoopMarksIdle
<1>11. CASE LoopClosesSessionEnd
  BY <1>2, <1>11 DEF LoopClosesSessionEnd
<1>12. ASSUME NEW r \in tools, AnnounceTool(r)
       PROVE  HarnessTypeOK' /\ ProcessorTypeOK'
  <2>1. r \in ToolRuns /\ Event("step", r.turn) \in StepEvents
    BY EventTypes DEF ToolRuns
  <2>2. queue' \in Seq(StepEvents) /\ Len(queue') <= Capacity
    BY <1>12, <2>1, EmitTypes DEF AnnounceTool
  <2>3. [r EXCEPT !.at = "invoke"] \in ToolRuns
    BY <2>1 DEF ToolRuns
  <2>4. QED
    BY <1>12, <2>2, <2>3 DEF AnnounceTool, HarnessTypeOK, harnessVars
<1>13. ASSUME NEW r \in tools, AnswerTool(r)
       PROVE  HarnessTypeOK' /\ ProcessorTypeOK'
  <2>1. In("toolResponse", r.turn, r.call) \in InputEvents
    BY InputTypes DEF ToolRuns
  <2>2. inbox' \in Seq(InputEvents)
    BY <1>13, <2>1, DeliverTypes DEF AnswerTool
  <2>3. QED
    BY <1>13, <2>2 DEF AnswerTool, HarnessTypeOK
<1>14. QED
  BY <1>3, <1>4, <1>5, <1>6, <1>7, <1>8, <1>9, <1>10, <1>11, <1>12, <1>13
     DEF ProcessorNext, ReadLoop, ToolGoroutines

----------------------------------------------------------------------------
\* The program keeps the types.

LEMMA UntouchedTypes ==
  /\ HarnessTypeOK /\ UNCHANGED harnessVars => HarnessTypeOK'
  /\ ProcessorTypeOK /\ UNCHANGED processorVars => ProcessorTypeOK'
  /\ ConversationTypeOK /\ UNCHANGED conversationVars => ConversationTypeOK'
BY DEF HarnessTypeOK, harnessVars, ProcessorTypeOK, processorVars,
       ConversationTypeOK, conversationVars

LEMMA GotoTypes ==
  ASSUME ConversationTypeOK, NEW c \in Callers, NEW to \in Positions,
         Goto(c, to)
  PROVE  pc' \in [Callers -> Positions]
BY DEF ConversationTypeOK, Goto

LEMMA RequestTurnTypes ==
  ASSUME HarnessTypeOK, RequestTurn
  PROVE  HarnessTypeOK' /\ lastTurn' \in Turns
<1>1. lastTurn + 1 \in Turns /\ lastTurn' = lastTurn + 1
  BY HarnessAssumption DEF RequestTurn, HarnessTypeOK, Turns
<1>2. inbox' \in Seq(InputEvents)
  <2>1. Deliver(In("turn", lastTurn + 1, NoCall))
    BY DEF RequestTurn
  <2>2. QED
    BY <1>1, <2>1, InputTypes, DeliverTypes
<1>3. QED
  BY <1>1, <1>2 DEF RequestTurn, HarnessTypeOK, Turns

LEMMA SendKeepsTypes ==
  ASSUME TypeOK, NEW c \in Callers,
         \/ BeginSend(c) \/ AbandonSend(c) \/ SendGoesOn(c)
  PROVE  TypeOK'
<1> USE DEF TypeOK, ConversationTypeOK
<1> DEFINE others == <<closer, current, recorded, discarded>>
<1>1. \A p \in SendPositions \union {"idle", "sent"} : p \in Positions
  BY DEF Positions
<1>2. ASSUME UNCHANGED <<harnessVars, processorVars>>,
             UNCHANGED <<closer, current, recorded, discarded>>,
             sendMu' \in Callers \union {Nobody},
             recvMu' \in Callers \union {Nobody},
             drainErr' \in [Callers -> BOOLEAN],
             NEW to \in SendPositions \union {"idle", "sent"}, Goto(c, to)
      PROVE  TypeOK'
  BY <1>1, <1>2, UntouchedTypes, GotoTypes
<1>3. CASE BeginSend(c)
  BY <1>2, <1>3 DEF BeginSend, SendPositions
<1>4. CASE AbandonSend(c)
  BY <1>2, <1>4 DEF AbandonSend
<1>5. CASE WaitForIdle(c)
  BY <1>2, <1>5 DEF WaitForIdle, SendPositions
<1>6. CASE LockSend(c)
  <2>1. drainErr' \in [Callers -> BOOLEAN]
    BY <1>6, BooleanUpdate DEF LockSend
  <2>2. QED
    BY <1>2, <1>6, <2>1 DEF LockSend, SendPositions
<1>7. CASE CheckIdle(c)
  BY <1>2, <1>7 DEF CheckIdle, SendPositions
<1>8. CASE CheckPending(c)
  BY <1>2, <1>8 DEF CheckPending, SendPositions
<1>9. CASE ResetTurn(c)
  <2>1. pc' \in [Callers -> Positions]
    BY <1>1, <1>9, GotoTypes DEF ResetTurn, SendPositions
  <2>2. QED
    BY <1>9, <2>1, UntouchedTypes DEF ResetTurn, ProcessorTypeOK
<1>10. CASE ResetGate(c)
  <2>1. pc' \in [Callers -> Positions]
    BY <1>1, <1>10, GotoTypes DEF ResetGate, SendPositions
  <2>2. QED
    BY <1>10, <2>1, UntouchedTypes DEF ResetGate, ProcessorTypeOK
<1>11. CASE DiscardLeftover(c)
  <2>1. /\ Head(queue) \in StepEvents /\ queue' \in Seq(StepEvents)
        /\ Len(queue') <= Capacity
    BY <1>11, CapacityAssumption DEF DiscardLeftover, ProcessorTypeOK
  <2>2. QED
    BY <1>11, <2>1, UntouchedTypes DEF DiscardLeftover, ProcessorTypeOK
<1>12. CASE NothingLeftover(c)
  BY <1>2, <1>12 DEF NothingLeftover, SendPositions
<1>13. CASE SendInput(c)
  <2>1. HarnessTypeOK' /\ lastTurn' \in Turns
    BY <1>13, RequestTurnTypes DEF SendInput
  <2>2. pc' \in [Callers -> Positions]
    BY <1>1, <1>13, GotoTypes DEF SendInput
  <2>3. QED
    BY <1>13, <2>1, <2>2, UntouchedTypes DEF SendInput
<1>14. CASE SendInputFails(c)
  BY <1>2, <1>14 DEF SendInputFails
<1>15. QED
  BY <1>3, <1>4, <1>5, <1>6, <1>7, <1>8, <1>9, <1>10, <1>11, <1>12, <1>13,
     <1>14 DEF SendGoesOn

LEMMA StepsKeepTypes ==
  ASSUME TypeOK, NEW c \in Callers,
         \/ BeginSteps(c) \/ AbandonTurn(c) \/ StepsGoOn(c)
  PROVE  TypeOK'
<1> USE DEF TypeOK, ConversationTypeOK
<1>1. {"idle", "lockSteps", "steps", "drain", "reset"} \subseteq Positions
  BY DEF Positions, SendPositions, ReadPositions
<1>2. ASSUME NEW kind, TakeEvent(c, kind)
      PROVE  /\ HarnessTypeOK' /\ ProcessorTypeOK'
             /\ Head(queue) \in StepEvents
             /\ UNCHANGED <<closer, current, discarded>>
  <2>1. /\ Head(queue) \in StepEvents /\ queue' \in Seq(StepEvents)
        /\ Len(queue') <= Capacity
    BY <1>2, CapacityAssumption DEF TakeEvent, ProcessorTypeOK
  <2>2. QED
    BY <1>2, <2>1, UntouchedTypes DEF TakeEvent, ProcessorTypeOK
<1>3. CASE BeginSteps(c)
  <2>1. pc' \in [Callers -> Positions]
    BY <1>1, <1>3, GotoTypes DEF BeginSteps
  <2>2. QED
    BY <1>3, <2>1, UntouchedTypes DEF BeginSteps
<1>4. CASE AbandonTurn(c)
  <2>1. pc' \in [Callers -> Positions]
    BY <1>1, <1>4, GotoTypes DEF AbandonTurn
  <2>2. QED
    BY <1>4, <2>1, UntouchedTypes DEF AbandonTurn
<1>5. CASE LockReceive(c)
  <2>1. pc' \in [Callers -> Positions]
    BY <1>1, <1>5, GotoTypes DEF LockReceive
  <2>2. QED
    BY <1>5, <2>1, UntouchedTypes DEF LockReceive
<1>6. CASE ReadStep(c)
  <2>1. recorded' \in [Turns -> Nat]
    <3>1. recorded' = [recorded EXCEPT ![Head(queue).turn] = @ + 1]
      BY <1>6 DEF ReadStep
    <3>2. Head(queue).turn \in Turns
      BY <1>2, <1>6 DEF ReadStep, TakeEvent, StepEvents
    <3>3. QED
      BY <3>1, <3>2
  <2>2. QED
    BY <1>2, <1>6, <2>1 DEF ReadStep
<1>7. CASE ReadError(c)
  <2>1. drainErr' \in [Callers -> BOOLEAN]
    <3>1. (pc[c] = "drain") \in BOOLEAN
      OBVIOUS
    <3>2. drainErr' = [drainErr EXCEPT ![c] = pc[c] = "drain"]
      BY <1>7 DEF ReadError
    <3>3. QED
      BY <3>1, <3>2, BooleanUpdate, Zenon
  <2>2. QED
    BY <1>2, <1>7, <2>1 DEF ReadError
<1>8. CASE ReadIdle(c)
  <2>1. pc' \in [Callers -> Positions]
    BY <1>1, <1>8, GotoTypes DEF ReadIdle
  <2>2. sendMu' \in Callers \union {Nobody} /\ recvMu' = Nobody
    BY <1>8 DEF ReadIdle
  <2>3. QED
    BY <1>2, <1>8, <2>1, <2>2 DEF ReadIdle
<1>9. QED
  BY <1>3, <1>4, <1>5, <1>6, <1>7, <1>8 DEF StepsGoOn

LEMMA ControlKeepsTypes ==
  ASSUME TypeOK, Halt \/ Trigger \/ BeginClose \/ CloseGoesOn
  PROVE  TypeOK'
<1> USE DEF TypeOK
<1>1. ASSUME NEW from, NEW to \in ClosePositions, CloseGoes(from, to)
      PROVE  ConversationTypeOK'
  BY <1>1 DEF CloseGoes, ConversationTypeOK
<1>2. In("halt", NoTurn, NoCall) \in InputEvents
      /\ In("end", NoTurn, NoCall) \in InputEvents
  BY DEF InputEvents, In
<1>3. CASE Halt
  <2>1. inbox' \in Seq(InputEvents)
    BY <1>2, <1>3, DeliverTypes DEF Halt
  <2>2. QED
    BY <1>3, <2>1, UntouchedTypes DEF Halt, HarnessTypeOK
<1>4. CASE Trigger
  BY <1>4, RequestTurnTypes, UntouchedTypes DEF Trigger
<1>5. CASE BeginClose
  BY <1>1, <1>5, UntouchedTypes DEF BeginClose, ClosePositions
<1>6. CASE RequestSessionEnd
  <2>1. inbox' \in Seq(InputEvents)
    BY <1>2, <1>6, DeliverTypes DEF RequestSessionEnd
  <2>2. ConversationTypeOK'
    BY <1>1, <1>6 DEF RequestSessionEnd, ClosePositions
  <2>3. QED
    BY <1>6, <2>1, <2>2, UntouchedTypes DEF RequestSessionEnd, HarnessTypeOK
<1>7. CASE RequestSessionEndFails
  BY <1>1, <1>7, UntouchedTypes DEF RequestSessionEndFails, ClosePositions
<1>8. CASE AwaitSessionEnd
  BY <1>1, <1>8, UntouchedTypes DEF AwaitSessionEnd, ClosePositions
<1>9. CASE CloseTransport
  <2>1. ConversationTypeOK'
    BY <1>1, <1>9 DEF CloseTransport, ClosePositions
  <2>2. QED
    BY <1>9, <2>1, UntouchedTypes DEF CloseTransport, HarnessTypeOK
<1>10. CASE StopProcessor
  BY <1>1, <1>10, UntouchedTypes DEF StopProcessor, ClosePositions
<1>11. QED
  BY <1>3, <1>4, <1>5, <1>6, <1>7, <1>8, <1>9, <1>10 DEF CloseGoesOn

LEMMA InitTypes == Init => TypeOK
<1> SUFFICES ASSUME Init PROVE TypeOK
  OBVIOUS
<1>1. HarnessTypeOK
  <2>1. produced \in [Turns -> Nat]
    BY DEF Init, HarnessInit
  <2>2. QED
    BY <2>1, HarnessAssumption DEF Init, HarnessInit, HarnessTypeOK
<1>2. ProcessorTypeOK
  <2>1. /\ loop \in Seq(LoopOps) /\ queue \in Seq(StepEvents)
        /\ Len(queue) <= Capacity
    BY CapacityAssumption DEF Init, ProcessorInit
  <2>2. finished \in BOOLEAN /\ idle \in BOOLEAN /\ sessionEnd \in BOOLEAN
    BY DEF Init, ProcessorInit
  <2>3. main \in Trajectories \union {NoMain} /\ tools \subseteq ToolRuns
    BY DEF Init, ProcessorInit
  <2>4. QED
    BY <2>1, <2>2, <2>3 DEF ProcessorTypeOK
<1>3. ConversationTypeOK
  <2>1. [c \in Callers |-> FALSE] \in [Callers -> BOOLEAN]
    BY Zenon
  <2>2. QED
    BY <2>1 DEF Init, ConversationTypeOK, Positions, ClosePositions
<1>4. QED
  BY <1>1, <1>2, <1>3 DEF TypeOK

LEMMA NextTypes == TypeOK /\ [Next]_vars => TypeOK'
<1> SUFFICES ASSUME TypeOK, [Next]_vars PROVE TypeOK'
  OBVIOUS
<1>1. CASE HarnessNext /\ UNCHANGED <<processorVars, conversationVars>>
  BY <1>1, HarnessKeepsTypes, UntouchedTypes DEF TypeOK
<1>2. CASE ProcessorNext /\ UNCHANGED conversationVars
  BY <1>2, ProcessorKeepsTypes, UntouchedTypes DEF TypeOK
<1>3. CASE ConversationNext
  BY <1>3, SendKeepsTypes, StepsKeepTypes, ControlKeepsTypes
     DEF ConversationNext
<1>4. CASE UNCHANGED vars
  BY <1>4, UntouchedTypes DEF TypeOK, vars
<1>5. QED
  BY <1>1, <1>2, <1>3, <1>4 DEF Next

\* The frames, the queue (never more than its capacity), the gate, the mutexes
\* and the position of every goroutine keep their types.
THEOREM ConversationTypes == Spec => []TypeOK
BY InitTypes, NextTypes, PTL DEF Spec

----------------------------------------------------------------------------
\* Tool calls: none is forgotten, and none is run or answered twice, whatever
\* the program and the harness do and however they are interleaved.
\*
\* A call is a frame on the wire, then a goroutine, then a response in the
\* inbox.  The proof follows one call k through these places: every step
\* either leaves the places of k alone or takes k from one to the next.

\* Occurrences in a sequence of the members of a set.

Occurs(s, S) == \E i \in 1..Len(s) : s[i] \in S
Once(s, S) == \A i, j \in 1..Len(s) : s[i] \in S /\ s[j] \in S => i = j

LEMMA AppendOccurs ==
  ASSUME NEW T, NEW s \in Seq(T), NEW e \in T, NEW S
  PROVE  /\ Occurs(Append(s, e), S) <=> Occurs(s, S) \/ e \in S
         /\ Once(s, S) /\ (e \in S => ~Occurs(s, S)) => Once(Append(s, e), S)
<1> DEFINE a == Append(s, e)
<1>1. /\ Len(s) \in Nat /\ Len(a) = Len(s) + 1
      /\ a[Len(s) + 1] = e
      /\ \A i \in 1..Len(s) : a[i] = s[i]
  OBVIOUS
<1> HIDE DEF a
<1>2. \A i \in 1..Len(a) : i \in 1..Len(s) \/ i = Len(s) + 1
  BY <1>1
<1>3. \A i \in 1..Len(s) : i \in 1..Len(a)
  BY <1>1
<1>4. Len(s) + 1 \in 1..Len(a)
  BY <1>1
<1>5. Occurs(a, S) <=> Occurs(s, S) \/ e \in S
  BY <1>1, <1>2, <1>3, <1>4 DEF Occurs
<1>6. Once(s, S) /\ (e \in S => ~Occurs(s, S)) => Once(a, S)
  BY <1>1, <1>2, <1>3 DEF Once, Occurs
<1>7. QED
  BY <1>5, <1>6 DEF a

LEMMA TailOccurs ==
  ASSUME NEW T, NEW s \in Seq(T), s # <<>>, NEW S
  PROVE  /\ Occurs(s, S) <=> Head(s) \in S \/ Occurs(Tail(s), S)
         /\ Once(s, S) => /\ Once(Tail(s), S)
                          /\ Head(s) \in S => ~Occurs(Tail(s), S)
<1> DEFINE t == Tail(s)
<1>1. /\ Len(s) \in Nat /\ Len(s) >= 1 /\ Len(t) = Len(s) - 1
      /\ \A i \in 1..Len(t) : t[i] = s[i + 1]
      /\ Head(s) = s[1]
  OBVIOUS
<1> HIDE DEF t
<1>2. \A i \in 1..Len(s) : i = 1 \/ (i - 1 \in 1..Len(t) /\ s[i] = t[i - 1])
  BY <1>1
<1>3. \A i \in 1..Len(t) : i + 1 \in 1..Len(s) /\ i + 1 # 1
  BY <1>1
<1>4. 1 \in 1..Len(s)
  BY <1>1
<1>5. Occurs(s, S) <=> Head(s) \in S \/ Occurs(t, S)
  BY <1>1, <1>2, <1>3, <1>4 DEF Occurs
<1>6. ASSUME Once(s, S) PROVE Once(t, S)
  <2>1. ASSUME NEW i \in 1..Len(t), NEW j \in 1..Len(t), t[i] \in S, t[j] \in S
        PROVE  i = j
    <3>1. i + 1 = j + 1
      BY <1>1, <1>3, <1>6, <2>1 DEF Once
    <3>2. QED
      BY <3>1
  <2>2. QED
    BY <2>1 DEF Once
<1>7. ASSUME Once(s, S), Head(s) \in S PROVE ~Occurs(t, S)
  BY <1>1, <1>3, <1>4, <1>7 DEF Once, Occurs
<1>8. QED
  BY <1>5, <1>6, <1>7 DEF t

LEMMA EmptyOccurs == \A S : ~Occurs(<<>>, S) /\ Once(<<>>, S)
BY DEF Occurs, Once

----------------------------------------------------------------------------
\* The places of a call.

CallFrames(k) == {e \in OutputEvents : e.kind = "tool" /\ e.call = k}
AnswerFrames(k) == {m \in InputEvents : m.kind = "toolResponse" /\ m.call = k}

OnWire(k) == Occurs(wire, CallFrames(k))
InInbox(k) == Occurs(inbox, AnswerFrames(k))

\* One place at most; no place before the call is made; and a place as long as
\* the harness waits for the answer.
PlacesOf(k) ==
  /\ Once(wire, CallFrames(k)) /\ Once(inbox, AnswerFrames(k))
  /\ \A r, q \in Held(k) : r = q
  /\ OnWire(k) => Held(k) = {} /\ ~InInbox(k)
  /\ Held(k) # {} => ~InInbox(k)
  /\ k > calls => ~OnWire(k) /\ Held(k) = {} /\ ~InInbox(k)
  /\ k \in awaiting => OnWire(k) \/ Held(k) # {} \/ InInbox(k)

\* A response that is lost with the connection is not waited for any more.
ToolInv ==
  /\ TypeOK
  /\ link # "open" => awaiting = {}
  /\ \A k \in Calls : PlacesOf(k)

\* What a step that does not move k does to the places of k.
WireKept(k) == /\ OnWire(k)' <=> OnWire(k)
               /\ Once(wire, CallFrames(k)) => Once(wire, CallFrames(k))'
InboxKept(k) == /\ InInbox(k)' <=> InInbox(k)
                /\ Once(inbox, AnswerFrames(k)) => Once(inbox, AnswerFrames(k))'

LEMMA PlacesKept ==
  ASSUME NEW k \in Calls, PlacesOf(k), WireKept(k), InboxKept(k),
         tools' = tools, calls' = calls, awaiting' \subseteq awaiting
  PROVE  PlacesOf(k)'
BY DEF PlacesOf, WireKept, InboxKept, Held

LEMMA WireAppended ==
  ASSUME HarnessTypeOK, NEW k \in Calls, NEW e \in OutputEvents,
         e.kind # "tool" \/ e.call # k, wire' = Append(wire, e)
  PROVE  WireKept(k)
BY AppendOccurs DEF HarnessTypeOK, WireKept, OnWire, CallFrames

LEMMA WireTaken ==
  ASSUME HarnessTypeOK, NEW k \in Calls, wire # <<>>, wire' = Tail(wire),
         Head(wire).kind # "tool" \/ Head(wire).call # k
  PROVE  WireKept(k)
BY TailOccurs DEF HarnessTypeOK, WireKept, OnWire, CallFrames

LEMMA InboxAppended ==
  ASSUME HarnessTypeOK, NEW k \in Calls, NEW m \in InputEvents,
         m.kind # "toolResponse" \/ m.call # k, Deliver(m)
  PROVE  InboxKept(k)
BY AppendOccurs DEF HarnessTypeOK, InboxKept, InInbox, AnswerFrames, Deliver

LEMMA InboxTaken ==
  ASSUME HarnessTypeOK, NEW k \in Calls, inbox # <<>>, inbox' = Tail(inbox),
         Head(inbox).kind # "toolResponse" \/ Head(inbox).call # k
  PROVE  InboxKept(k)
BY TailOccurs DEF HarnessTypeOK, InboxKept, InInbox, AnswerFrames

LEMMA NothingMoved ==
  ASSUME NEW k \in Calls
  PROVE  /\ wire' = wire => WireKept(k)
         /\ inbox' = inbox => InboxKept(k)
BY DEF WireKept, OnWire, InboxKept, InInbox

LEMMA UnchangedKeepsPlaces ==
  ASSUME ToolInv, UNCHANGED <<harnessVars, tools>>
  PROVE  /\ link' # "open" => awaiting' = {}
         /\ \A k \in Calls : PlacesOf(k)'
BY PlacesKept, NothingMoved DEF ToolInv, harnessVars

----------------------------------------------------------------------------
\* The harness.

LEMMA HarnessMovesCalls ==
  ASSUME ToolInv, HarnessNext, tools' = tools
  PROVE  /\ link' # "open" => awaiting' = {}
         /\ \A k \in Calls : PlacesOf(k)'
<1> USE DEF ToolInv, TypeOK
<1>1. ASSUME TakeRequest, Head(inbox).kind # "toolResponse",
             awaiting' \subseteq awaiting,
             \/ wire' = wire
             \/ \E e \in OutputEvents :
                  e.kind # "tool" /\ wire' = Append(wire, e)
      PROVE  \A k \in Calls : PlacesOf(k)'
  <2>1. inbox # <<>> /\ inbox' = Tail(inbox) /\ calls' = calls
    BY <1>1 DEF TakeRequest
  <2>2. ASSUME NEW k \in Calls PROVE PlacesOf(k)'
    <3>1. InboxKept(k)
      BY <1>1, <2>1, InboxTaken
    <3>2. WireKept(k)
      BY <1>1, WireAppended, NothingMoved
    <3>3. QED
      BY <1>1, <2>1, <3>1, <3>2, PlacesKept
  <2>3. QED
    BY <2>2
<1>2. ASSUME NEW e \in OutputEvents, e.kind # "tool",
             wire' = Append(wire, e),
             UNCHANGED <<inbox, calls, awaiting>>
      PROVE  \A k \in Calls : PlacesOf(k)'
  BY <1>2, WireAppended, NothingMoved, PlacesKept
<1>3. CASE AcceptTurn
  BY <1>1, <1>3 DEF AcceptTurn, TakeRequest
<1>4. CASE AcceptHalt
  <2>1. running # NoTurn =>
          /\ Out("cancelled", "main", running, NoCall) \in OutputEvents
          /\ Out("cancelled", "main", running, NoCall).kind # "tool"
    BY OutputTypes DEF HarnessTypeOK, Trajectories, Out
  <2>2. QED
    BY <1>1, <1>4, <2>1 DEF AcceptHalt
<1>5. CASE AcceptToolResponse
  <2>1. /\ inbox # <<>> /\ inbox' = Tail(inbox)
        /\ Head(inbox) \in InputEvents /\ Head(inbox).kind = "toolResponse"
        /\ awaiting' = awaiting \ {Head(inbox).call}
        /\ wire' = wire /\ calls' = calls /\ link' = link
    BY <1>5, HeadTail DEF AcceptToolResponse, TakeRequest, HarnessTypeOK
  <2>2. ASSUME NEW k \in Calls PROVE PlacesOf(k)'
    <3>1. CASE Head(inbox).call # k
      BY <2>1, <3>1, InboxTaken, NothingMoved, PlacesKept
    <3>2. CASE Head(inbox).call = k
      <4>1. Head(inbox) \in AnswerFrames(k)
        BY <2>1, <3>2 DEF AnswerFrames
      <4>2. InInbox(k) /\ ~InInbox(k)' /\ Once(inbox, AnswerFrames(k))'
        BY <2>1, <4>1, TailOccurs DEF InInbox, PlacesOf, HarnessTypeOK
      <4>3. ~OnWire(k)' /\ Once(wire, CallFrames(k))' /\ Held(k)' = {}
        BY <2>1, <4>2 DEF PlacesOf, OnWire, Held
      <4>4. k \notin awaiting'
        BY <2>1, <3>2
      <4>5. QED
        BY <4>2, <4>3, <4>4 DEF PlacesOf
    <3>3. QED
      BY <3>1, <3>2
  <2>3. QED
    BY <2>1, <2>2
<1>6. CASE AcceptSessionEnd
  <2>1. /\ Out("sessionEnd", "main", NoTurn, NoCall) \in OutputEvents
        /\ Out("sessionEnd", "main", NoTurn, NoCall).kind # "tool"
    BY DEF OutputEvents, Out, Trajectories
  <2>2. QED
    BY <1>1, <1>6, <2>1 DEF AcceptSessionEnd, TakeRequest
<1>7. CASE StartTurn
  <2>1. Head(backlog) \in Turns
    BY <1>7, HeadTail DEF StartTurn, HarnessTypeOK
  <2>2. /\ Out("running", "main", Head(backlog), NoCall) \in OutputEvents
        /\ Out("running", "main", Head(backlog), NoCall).kind # "tool"
    BY <2>1, OutputTypes DEF Trajectories, Out
  <2>3. QED
    BY <1>2, <1>7, <2>2 DEF StartTurn
<1>8. CASE SendStep
  <2>1. /\ Out("step", "main", running, NoCall) \in OutputEvents
        /\ Out("step", "main", running, NoCall).kind # "tool"
    BY <1>8, OutputTypes DEF SendStep, HarnessTypeOK, Trajectories, Out
  <2>2. QED
    BY <1>2, <1>8, <2>1 DEF SendStep
<1>9. CASE CallTool
  <2>1. /\ calls + 1 \in Calls /\ calls \in Nat /\ calls' = calls + 1
        /\ awaiting' = awaiting \union {calls + 1}
        /\ inbox' = inbox /\ link' = "open"
    BY <1>9, HarnessAssumption DEF CallTool, HarnessTypeOK, Calls
  <2> DEFINE frame == Out("tool", "main", running, calls + 1)
  <2>2. /\ frame \in OutputEvents /\ wire' = Append(wire, frame)
        /\ frame.kind = "tool" /\ frame.call = calls + 1
    BY <1>9, <2>1, OutputTypes DEF CallTool, HarnessTypeOK, Trajectories, Out
  <2> HIDE DEF frame
  <2>3. ASSUME NEW k \in Calls PROVE PlacesOf(k)'
    <3>1. CASE k = calls + 1
      <4>1. k > calls /\ ~OnWire(k) /\ Held(k) = {} /\ ~InInbox(k)
        BY <2>1, <3>1 DEF PlacesOf
      <4>2. frame \in CallFrames(k)
        BY <2>2, <3>1 DEF CallFrames
      <4>3. OnWire(k)' /\ Once(wire, CallFrames(k))'
        BY <2>2, <4>1, <4>2, AppendOccurs
           DEF OnWire, PlacesOf, HarnessTypeOK
      <4>4. /\ Held(k)' = {} /\ ~InInbox(k)' /\ Once(inbox, AnswerFrames(k))'
        BY <2>1, <4>1 DEF Held, InInbox, PlacesOf
      <4>5. ~(k > calls')
        BY <2>1, <3>1
      <4>6. QED
        BY <4>3, <4>4, <4>5 DEF PlacesOf
    <3>2. CASE k # calls + 1
      <4>1. WireKept(k) /\ InboxKept(k)
        BY <2>1, <2>2, <3>2, WireAppended, NothingMoved
      <4>2. Held(k)' = Held(k) /\ (k > calls' => k > calls)
        BY <2>1 DEF Held, Calls
      <4>3. k \in awaiting' => k \in awaiting
        BY <2>1, <3>2
      <4>4. QED
        BY <4>1, <4>2, <4>3 DEF PlacesOf, WireKept, InboxKept
    <3>3. QED
      BY <3>1, <3>2
  <2>4. QED
    BY <2>1, <2>3
<1>10. CASE SubagentIdle
  <2>1. /\ Out("idle", "sub", running, NoCall) \in OutputEvents
        /\ Out("idle", "sub", running, NoCall).kind # "tool"
    BY <1>10, OutputTypes DEF SubagentIdle, HarnessTypeOK, Trajectories, Out
  <2>2. QED
    BY <1>2, <1>10, <2>1 DEF SubagentIdle
<1>11. CASE FinishTurn
  <2>1. PICK kind \in {"idle", "failed"} :
          wire' = Append(wire, Out(kind, "main", running, NoCall))
    BY <1>11 DEF FinishTurn
  <2>2. /\ Out(kind, "main", running, NoCall) \in OutputEvents
        /\ Out(kind, "main", running, NoCall).kind # "tool"
    BY <1>11, OutputTypes DEF FinishTurn, HarnessTypeOK, Trajectories, Out
  <2>3. QED
    BY <1>2, <1>11, <2>1, <2>2 DEF FinishTurn
<1>12. CASE Crash
  BY <1>12, NothingMoved, PlacesKept DEF Crash
<1>13. QED
  BY <1>3, <1>4, <1>5, <1>6, <1>7, <1>8, <1>9, <1>10, <1>11, <1>12
     DEF HarnessNext, HarnessTurn

----------------------------------------------------------------------------
\* The event processor.

LEMMA ReceivedCall ==
  ASSUME ToolInv, StartToolCall
  PROVE  \A k \in Calls : PlacesOf(k)'
<1> USE DEF ToolInv, TypeOK
<1> DEFINE started == [call |-> Head(wire).call, turn |-> Head(wire).turn,
                       at |-> "announce"]
<1>1. /\ wire # <<>> /\ wire' = Tail(wire) /\ inbox' = inbox
      /\ awaiting' = awaiting /\ calls' = calls
      /\ Head(wire) \in OutputEvents /\ Head(wire).kind = "tool"
      /\ tools' = tools \union {started}
      /\ started.call = Head(wire).call
  BY HeadTail DEF StartToolCall, Recv, HarnessTypeOK
<1> HIDE DEF started
<1>2. ASSUME NEW k \in Calls, Head(wire).call = k
      PROVE  PlacesOf(k)'
  <2>1. Head(wire) \in CallFrames(k)
    BY <1>1, <1>2 DEF CallFrames
  <2>2. OnWire(k) /\ ~OnWire(k)' /\ Once(wire, CallFrames(k))'
    BY <1>1, <2>1, TailOccurs DEF OnWire, PlacesOf, HarnessTypeOK
  <2>3. /\ Held(k) = {} /\ Held(k)' = {started}
        /\ ~InInbox(k) /\ ~InInbox(k)' /\ Once(inbox, AnswerFrames(k))'
    BY <1>1, <1>2, <2>2 DEF PlacesOf, Held, InInbox
  <2>4. ~(k > calls')
    BY <1>1, <2>2 DEF PlacesOf
  <2>5. QED
    BY <2>2, <2>3, <2>4 DEF PlacesOf
<1>3. ASSUME NEW k \in Calls, Head(wire).call # k
      PROVE  PlacesOf(k)'
  <2>1. WireKept(k) /\ InboxKept(k)
    BY <1>1, <1>3, WireTaken, NothingMoved
  <2>2. Held(k)' = Held(k)
    BY <1>1, <1>3 DEF Held
  <2>3. QED
    BY <1>1, <2>1, <2>2 DEF PlacesOf, WireKept, InboxKept
<1>4. QED
  BY <1>2, <1>3

LEMMA AnnouncedCall ==
  ASSUME ToolInv, NEW r \in tools, AnnounceTool(r)
  PROVE  \A k \in Calls : PlacesOf(k)'
<1> USE DEF ToolInv, TypeOK
<1> DEFINE announced == [r EXCEPT !.at = "invoke"]
<1>1. /\ UNCHANGED harnessVars
      /\ tools' = (tools \ {r}) \union {announced}
      /\ announced.call = r.call
  BY DEF AnnounceTool, ProcessorTypeOK, ToolRuns
<1> HIDE DEF announced
<1>2. ASSUME NEW k \in Calls PROVE PlacesOf(k)'
  <2>1. WireKept(k) /\ InboxKept(k) /\ calls' = calls /\ awaiting' = awaiting
    BY <1>1, NothingMoved DEF harnessVars
  <2>2. CASE r.call = k
    <3>1. Held(k) = {r} /\ Held(k)' = {announced}
      BY <1>1, <2>2 DEF Held, PlacesOf
    <3>2. QED
      BY <2>1, <3>1 DEF PlacesOf, WireKept, InboxKept
  <2>3. CASE r.call # k
    <3>1. Held(k)' = Held(k)
      BY <1>1, <2>3 DEF Held
    <3>2. QED
      BY <2>1, <3>1 DEF PlacesOf, WireKept, InboxKept
  <2>4. QED
    BY <2>2, <2>3
<1>3. QED
  BY <1>2

LEMMA AnsweredCall ==
  ASSUME ToolInv, NEW r \in tools, AnswerTool(r)
  PROVE  \A k \in Calls : PlacesOf(k)'
<1> USE DEF ToolInv, TypeOK
<1> DEFINE answer == In("toolResponse", r.turn, r.call)
<1>1. /\ tools' = tools \ {r}
      /\ Deliver(answer)
      /\ UNCHANGED <<wire, link, awaiting, calls>>
      /\ r \in ToolRuns /\ r.call \in Calls
      /\ answer \in InputEvents
      /\ answer.kind = "toolResponse" /\ answer.call = r.call
  BY InputTypes DEF AnswerTool, ProcessorTypeOK, ToolRuns, In
<1> HIDE DEF answer
<1>2. ASSUME NEW k \in Calls, r.call = k
      PROVE  PlacesOf(k)'
  <2>1. Held(k) = {r} /\ Held(k)' = {}
    BY <1>1, <1>2 DEF Held, PlacesOf
  <2>2. ~OnWire(k) /\ ~InInbox(k) /\ ~(k > calls)
    BY <2>1 DEF PlacesOf
  <2>3. ~OnWire(k)' /\ Once(wire, CallFrames(k))' /\ ~(k > calls')
    BY <1>1, <2>2 DEF OnWire, PlacesOf
  <2>4. CASE link = "open"
    <3>1. answer \in AnswerFrames(k) /\ inbox' = Append(inbox, answer)
      BY <1>1, <1>2, <2>4 DEF AnswerFrames, Deliver
    <3>2. InInbox(k)' /\ Once(inbox, AnswerFrames(k))'
      BY <1>1, <2>2, <3>1, AppendOccurs DEF InInbox, PlacesOf, HarnessTypeOK
    <3>3. QED
      BY <2>1, <2>3, <3>2 DEF PlacesOf
  <2>5. CASE link # "open"
    <3>1. /\ ~InInbox(k)' /\ Once(inbox, AnswerFrames(k))'
          /\ awaiting' = {}
      BY <1>1, <2>2, <2>5 DEF InInbox, PlacesOf, Deliver
    <3>2. QED
      BY <2>1, <2>3, <3>1 DEF PlacesOf
  <2>6. QED
    BY <2>4, <2>5
<1>3. ASSUME NEW k \in Calls, r.call # k
      PROVE  PlacesOf(k)'
  <2>1. WireKept(k) /\ InboxKept(k)
    BY <1>1, <1>3, InboxAppended, NothingMoved
  <2>2. Held(k)' = Held(k)
    BY <1>1, <1>3 DEF Held
  <2>3. QED
    BY <1>1, <2>1, <2>2 DEF PlacesOf, WireKept, InboxKept
<1>4. QED
  BY <1>2, <1>3

LEMMA ProcessorMovesCalls ==
  ASSUME ToolInv, ProcessorNext
  PROVE  /\ link' # "open" => awaiting' = {}
         /\ \A k \in Calls : PlacesOf(k)'
<1> USE DEF ToolInv, TypeOK
<1>1. link' = link /\ awaiting' = awaiting
  BY DEF ProcessorNext, ReadLoop, ToolGoroutines, HandleStepUpdate,
         HandleTrajectoryState, StartToolCall, HandleSessionEndResponse, Recv,
         Finish, LoopEmits, LoopMarksRunning, LoopMarksIdle,
         LoopClosesSessionEnd, LoopDoes, AnnounceTool, AnswerTool, harnessVars
<1>2. ASSUME NEW kinds, Recv(kinds), "tool" \notin kinds, tools' = tools
      PROVE  \A k \in Calls : PlacesOf(k)'
  <2>1. /\ wire # <<>> /\ wire' = Tail(wire) /\ Head(wire).kind # "tool"
        /\ inbox' = inbox /\ calls' = calls
    BY <1>2 DEF Recv
  <2>2. QED
    BY <1>1, <1>2, <2>1, WireTaken, NothingMoved, PlacesKept
<1>3. CASE HandleStepUpdate \/ HandleTrajectoryState
           \/ HandleSessionEndResponse
  BY <1>1, <1>2, <1>3 DEF HandleStepUpdate, HandleTrajectoryState,
                          HandleSessionEndResponse
<1>4. CASE StartToolCall
  BY <1>1, <1>4, ReceivedCall
<1>5. CASE Finish \/ LoopEmits \/ LoopMarksRunning \/ LoopMarksIdle
           \/ LoopClosesSessionEnd
  BY <1>5, UnchangedKeepsPlaces
     DEF Finish, LoopEmits, LoopMarksRunning, LoopMarksIdle,
         LoopClosesSessionEnd, LoopDoes
<1>6. CASE ToolGoroutines
  BY <1>1, <1>6, AnnouncedCall, AnsweredCall DEF ToolGoroutines
<1>7. QED
  BY <1>1, <1>3, <1>4, <1>5, <1>6 DEF ProcessorNext, ReadLoop

----------------------------------------------------------------------------
\* The program.

LEMMA ProgramMovesCalls ==
  ASSUME ToolInv, ConversationNext
  PROVE  /\ link' # "open" => awaiting' = {}
         /\ \A k \in Calls : PlacesOf(k)'
<1> USE DEF ToolInv, TypeOK
<1>1. ASSUME NEW m \in InputEvents, m.kind # "toolResponse", Deliver(m),
             UNCHANGED <<wire, link, awaiting, calls, tools>>
      PROVE  /\ link' # "open" => awaiting' = {}
             /\ \A k \in Calls : PlacesOf(k)'
  BY <1>1, InboxAppended, NothingMoved, PlacesKept
<1>2. ASSUME RequestTurn, tools' = tools
      PROVE  /\ link' # "open" => awaiting' = {}
             /\ \A k \in Calls : PlacesOf(k)'
  <2>1. lastTurn + 1 \in Turns
    BY <1>2, RequestTurnTypes DEF RequestTurn
  <2>2. /\ In("turn", lastTurn + 1, NoCall) \in InputEvents
        /\ In("turn", lastTurn + 1, NoCall).kind # "toolResponse"
    BY <2>1, InputTypes DEF In
  <2>3. QED
    BY <1>1, <1>2, <2>2 DEF RequestTurn
<1>3. /\ In("halt", NoTurn, NoCall) \in InputEvents
      /\ In("halt", NoTurn, NoCall).kind # "toolResponse"
      /\ In("end", NoTurn, NoCall) \in InputEvents
      /\ In("end", NoTurn, NoCall).kind # "toolResponse"
  BY DEF InputEvents, In
<1>4. CASE UNCHANGED <<harnessVars, tools>>
  BY <1>4, UnchangedKeepsPlaces
<1>5. ASSUME NEW c \in Callers, SendInput(c)
      PROVE  /\ link' # "open" => awaiting' = {}
             /\ \A k \in Calls : PlacesOf(k)'
  BY <1>2, <1>5 DEF SendInput, processorVars
<1>6. CASE Trigger
  BY <1>2, <1>6 DEF Trigger, processorVars
<1>7. CASE Halt
  BY <1>1, <1>3, <1>7 DEF Halt, processorVars
<1>8. CASE RequestSessionEnd
  BY <1>1, <1>3, <1>8 DEF RequestSessionEnd, processorVars
<1>9. CASE CloseTransport
  <2>1. /\ wire' = <<>> /\ inbox' = inbox /\ tools' = tools
        /\ awaiting' = {} /\ calls' = calls
    BY <1>9 DEF CloseTransport, processorVars
  <2>2. ASSUME NEW k \in Calls PROVE PlacesOf(k)'
    <3>1. ~OnWire(k)' /\ Once(wire, CallFrames(k))'
      BY <2>1, EmptyOccurs DEF OnWire
    <3>2. /\ Held(k)' = Held(k)
          /\ InInbox(k)' <=> InInbox(k)
          /\ Once(inbox, AnswerFrames(k))' <=> Once(inbox, AnswerFrames(k))
      BY <2>1 DEF Held, InInbox
    <3>3. QED
      BY <2>1, <3>1, <3>2 DEF PlacesOf
  <2>3. QED
    BY <2>1, <2>2
<1>10. ASSUME NEW c \in Callers,
              \/ BeginSend(c) \/ BeginSteps(c) \/ AbandonTurn(c)
              \/ AbandonSend(c) \/ SendGoesOn(c) \/ StepsGoOn(c),
              ~SendInput(c)
       PROVE  UNCHANGED <<harnessVars, tools>>
  BY <1>10
     DEF BeginSend, BeginSteps, AbandonTurn, AbandonSend, SendGoesOn,
         StepsGoOn, WaitForIdle, LockSend, CheckIdle, CheckPending, ResetTurn,
         ResetGate, DiscardLeftover, NothingLeftover, SendInputFails,
         LockReceive, ReadStep, ReadError, ReadIdle, TakeEvent, processorVars
<1>11. CASE BeginClose \/ RequestSessionEndFails \/ AwaitSessionEnd
            \/ StopProcessor
  BY <1>4, <1>11 DEF BeginClose, RequestSessionEndFails, AwaitSessionEnd,
                     StopProcessor, processorVars
<1>12. QED
  BY <1>4, <1>5, <1>6, <1>7, <1>8, <1>9, <1>10, <1>11
     DEF ConversationNext, CloseGoesOn

----------------------------------------------------------------------------
LEMMA InitToolCalls == Init => ToolInv
<1> SUFFICES ASSUME Init PROVE ToolInv
  OBVIOUS
<1>1. /\ wire = <<>> /\ inbox = <<>> /\ tools = {} /\ awaiting = {}
      /\ link = "open"
  BY DEF Init, HarnessInit, ProcessorInit
<1>2. ASSUME NEW k \in Calls PROVE PlacesOf(k)
  BY <1>1, EmptyOccurs DEF PlacesOf, OnWire, InInbox, Held
<1>3. QED
  BY <1>1, <1>2, InitTypes DEF ToolInv

LEMMA NextToolCalls == ToolInv /\ [Next]_vars => ToolInv'
<1> SUFFICES ASSUME ToolInv, [Next]_vars PROVE ToolInv'
  OBVIOUS
<1>1. TypeOK'
  BY NextTypes DEF ToolInv
<1>2. CASE HarnessNext /\ UNCHANGED <<processorVars, conversationVars>>
  BY <1>1, <1>2, HarnessMovesCalls DEF ToolInv, processorVars
<1>3. CASE ProcessorNext /\ UNCHANGED conversationVars
  BY <1>1, <1>3, ProcessorMovesCalls DEF ToolInv
<1>4. CASE ConversationNext
  BY <1>1, <1>4, ProgramMovesCalls DEF ToolInv
<1>5. CASE UNCHANGED vars
  BY <1>1, <1>5, UnchangedKeepsPlaces DEF ToolInv, vars, processorVars
<1>6. QED
  BY <1>2, <1>3, <1>4, <1>5 DEF Next

LEMMA ToolInvIsInvariant == Spec => []ToolInv
BY InitToolCalls, NextToolCalls, PTL DEF Spec

\* The places of a call, in the words of the properties.
LEMMA PlacesAreSets ==
  ASSUME TypeOK, NEW k \in Calls
  PROVE  /\ OnWire(k) <=> Coming(k) # {}
         /\ InInbox(k) <=> Answered(k) # {}
         /\ Once(wire, CallFrames(k)) => \A i, j \in Coming(k) : i = j
         /\ Once(inbox, AnswerFrames(k)) => \A i, j \in Answered(k) : i = j
<1>1. /\ DOMAIN wire = 1..Len(wire)
      /\ \A i \in DOMAIN wire : wire[i] \in OutputEvents
      /\ DOMAIN inbox = 1..Len(inbox)
      /\ \A i \in DOMAIN inbox : inbox[i] \in InputEvents
  BY DEF TypeOK, HarnessTypeOK
<1>2. /\ Coming(k) = {i \in 1..Len(wire) : wire[i] \in CallFrames(k)}
      /\ Answered(k) = {i \in 1..Len(inbox) : inbox[i] \in AnswerFrames(k)}
  BY <1>1 DEF Coming, Answered, CallFrames, AnswerFrames
<1>3. QED
  BY <1>2 DEF OnWire, InInbox, Occurs, Once

\* A tool call that the harness waits for is on its way, in the hands of a
\* goroutine, or answered: handleToolCall always answers, and nothing that the
\* program or the read loop does can lose the call before.
THEOREM ToolCallsStayInHand == Spec => []ToolCallsInHand
<1>1. ToolInv => ToolCallsInHand
  <2>1. TypeOK => awaiting \subseteq Calls
    BY DEF TypeOK, HarnessTypeOK
  <2>2. QED
    BY <2>1, PlacesAreSets DEF ToolInv, PlacesOf, ToolCallsInHand
<1>2. QED
  BY <1>1, ToolInvIsInvariant, PTL

\* A tool call is run once and answered once.
THEOREM ToolCallsRunOnlyOnce == Spec => []ToolCallsRunOnce
<1>1. ToolInv => ToolCallsRunOnce
  BY PlacesAreSets DEF ToolInv, PlacesOf, ToolCallsRunOnce
<1>2. QED
  BY <1>1, ToolInvIsInvariant, PTL
=============================================================================
