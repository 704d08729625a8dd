---------------------------- MODULE Conversation ----------------------------
(***************************************************************************)
(* conversation.go over an event processor: goroutines that send prompts   *)
(* and read turns, the mutexes that keep them apart, triggers that start   *)
(* turns on their own, and Agent.Close.                                    *)
(*                                                                         *)
(* History, its cap and the usage figures are in ConversationHistory; here *)
(* a recorded step is only counted.                                        *)
(***************************************************************************)
EXTENDS EventProcessor

CONSTANTS
  Callers,  \* goroutines of the program that use the conversation
  Nobody,   \* holds a mutex that is free
  Habits    \* what that program does: see HabitKinds

HabitKinds == {"waitForIdle",  \* WaitForIdle before every Send
               "abandon",      \* stops reading a turn before its end
               "halt",         \* cancels turns
               "haltElsewhere", \* even on goroutines that did not send
               "trigger",      \* has triggers
               "share",        \* reads turns on goroutines that did not send
               "close"}        \* closes the agent

ASSUME ConversationAssumption ==
  /\ Habits \subseteq HabitKinds
  /\ Callers # {}
  /\ Nobody \notin Callers

VARIABLES
  pc,         \* where each caller is
  sendMu,     \* holder of c.sendMu
  recvMu,     \* holder of c.recvMu
  drainErr,   \* whether the drain of each caller's Send met an error
  closer,     \* where Agent.Close is
  current,    \* ghost: the turn of the last prompt sent
  recorded,   \* ghost: how many steps of each turn have been read
  discarded   \* ghost: events that resetForTurn threw away

conversationVars == <<pc, sendMu, recvMu, drainErr, closer, current,
                      recorded, discarded>>
vars == <<harnessVars, processorVars, conversationVars>>

\* Positions inside Send, in program order, and inside Steps.
SendPositions == {"waitIdle", "lock", "checkIdle", "checkPending",
                  "lockDrain", "drain", "reset", "markRunning", "discard",
                  "input"}
ReadPositions == {"lockSteps", "steps"}
\* "idle": no turn of its own to read.  "sent": Send returned, nothing read.
Positions == {"idle", "sent"} \union SendPositions \union ReadPositions
ClosePositions == {"open", "request", "await", "transport", "wait", "closed"}

ConversationTypeOK ==
  /\ pc \in [Callers -> Positions]
  /\ sendMu \in Callers \union {Nobody}
  /\ recvMu \in Callers \union {Nobody}
  /\ drainErr \in [Callers -> BOOLEAN]
  /\ closer \in ClosePositions
  /\ current \in Turns \union {NoTurn}
  /\ recorded \in [Turns -> Nat]
  /\ discarded \subseteq StepEvents

TypeOK == HarnessTypeOK /\ ProcessorTypeOK /\ ConversationTypeOK

Init ==
  /\ HarnessInit /\ ProcessorInit
  /\ pc = [c \in Callers |-> "idle"]
  /\ sendMu = Nobody /\ recvMu = Nobody
  /\ drainErr = [c \in Callers |-> FALSE]
  /\ closer = "open"
  /\ current = NoTurn
  /\ recorded = [t \in Turns |-> 0]
  /\ discarded = {}

----------------------------------------------------------------------------
\* Conversation.Send

Goto(c, to) == pc' = [pc EXCEPT ![c] = to]
At(c, from) == pc[c] = from

\* The bound on turns counts the prompts that are on their way.
TurnsLeft ==
  lastTurn + Cardinality({c \in Callers : pc[c] \in SendPositions}) < MaxTurns

BeginSend(c) ==
  /\ pc[c] \in {"idle", "sent"}
  /\ TurnsLeft
  /\ Goto(c, IF "waitForIdle" \in Habits THEN "waitIdle" ELSE "lock")
  /\ UNCHANGED <<harnessVars, processorVars, sendMu, recvMu, drainErr, closer,
                 current, recorded, discarded>>

\* Conversation.WaitForIdle, called by the program and not by Send.  It waits
\* on the channel it took when it was called; here it must find the gate open,
\* which is the same for a caller that is alone: nobody else shuts it again.
WaitForIdle(c) ==
  /\ At(c, "waitIdle") /\ idle
  /\ Goto(c, "lock")
  /\ UNCHANGED <<harnessVars, processorVars, sendMu, recvMu, drainErr, closer,
                 current, recorded, discarded>>

LockSend(c) ==
  /\ At(c, "lock") /\ sendMu = Nobody
  /\ sendMu' = c
  /\ drainErr' = [drainErr EXCEPT ![c] = FALSE]
  /\ Goto(c, "checkIdle")
  /\ UNCHANGED <<harnessVars, processorVars, recvMu, closer, current,
                 recorded, discarded>>

\* !isIdle() || hasPending(): two looks, at two moments.
CheckIdle(c) ==
  /\ At(c, "checkIdle")
  /\ Goto(c, IF idle THEN "checkPending" ELSE "lockDrain")
  /\ UNCHANGED <<harnessVars, processorVars, sendMu, recvMu, drainErr, closer,
                 current, recorded, discarded>>

CheckPending_Ignored(c) ==
  /\ At(c, "checkPending")
  /\ Goto(c, "reset")
  /\ UNCHANGED <<harnessVars, processorVars, sendMu, recvMu, drainErr, closer,
                 current, recorded, discarded>>

CheckPending(c) ==
  /\ At(c, "checkPending")
  /\ Goto(c, IF queue = <<>> THEN "reset" ELSE "lockDrain")
  /\ UNCHANGED <<harnessVars, processorVars, sendMu, recvMu, drainErr, closer,
                 current, recorded, discarded>>

\* resetForTurn: p.mu, then the gate, then the queue, one event at a time.
ResetTurn(c) ==
  /\ At(c, "reset")
  /\ main' = NoMain
  /\ Goto(c, "markRunning")
  /\ UNCHANGED <<harnessVars, loop, finished, queue, idle, sessionEnd, tools,
                 sendMu, recvMu, drainErr, closer, current, recorded,
                 discarded>>

ResetGate(c) ==
  /\ At(c, "markRunning")
  /\ idle' = FALSE
  /\ Goto(c, "discard")
  /\ UNCHANGED <<harnessVars, loop, finished, queue, sessionEnd, main, tools,
                 sendMu, recvMu, drainErr, closer, current, recorded,
                 discarded>>

DiscardLeftover(c) ==
  /\ At(c, "discard") /\ queue # <<>>
  /\ discarded' = discarded \union {Head(queue)}
  /\ queue' = Tail(queue)
  /\ UNCHANGED <<harnessVars, loop, finished, idle, sessionEnd, main, tools,
                 pc, sendMu, recvMu, drainErr, closer, current, recorded>>

NothingLeftover(c) ==
  /\ At(c, "discard") /\ queue = <<>>
  /\ Goto(c, "input")
  /\ UNCHANGED <<harnessVars, processorVars, sendMu, recvMu, drainErr, closer,
                 current, recorded, discarded>>

RequestTurn ==
  /\ lastTurn < MaxTurns /\ SendMaySucceed
  /\ lastTurn' = lastTurn + 1
  /\ Deliver(In("turn", lastTurn + 1, NoCall))
  /\ UNCHANGED <<wire, link, backlog, running, awaiting, calls, produced>>

SendInput(c) ==
  /\ At(c, "input")
  /\ RequestTurn
  /\ current' = lastTurn'
  /\ sendMu' = Nobody
  /\ Goto(c, "sent")
  /\ UNCHANGED <<processorVars, recvMu, drainErr, closer, recorded, discarded>>

\* The prompt has no wire form, cannot be marshalled, or cannot be written.
SendInputFails(c) ==
  /\ At(c, "input")
  /\ SendMayFail \/ "badPrompt" \in Faults
  /\ sendMu' = Nobody
  /\ Goto(c, "idle")
  /\ UNCHANGED <<harnessVars, processorVars, recvMu, drainErr, closer, current,
                 recorded, discarded>>

----------------------------------------------------------------------------
\* Conversation.Steps, for a caller that reads a turn and for Send's drain.

BeginSteps(c) ==
  /\ At(c, "sent") \/ ("share" \in Habits /\ At(c, "idle"))
  /\ Goto(c, "lockSteps")
  /\ UNCHANGED <<harnessVars, processorVars, sendMu, recvMu, drainErr, closer,
                 current, recorded, discarded>>

LockReceive(c) ==
  /\ pc[c] \in {"lockSteps", "lockDrain"} /\ recvMu = Nobody
  /\ recvMu' = c
  /\ Goto(c, IF pc[c] = "lockSteps" THEN "steps" ELSE "drain")
  /\ UNCHANGED <<harnessVars, processorVars, sendMu, drainErr, closer, current,
                 recorded, discarded>>

TakeEvent(c, kind) ==
  /\ pc[c] \in {"steps", "drain"}
  /\ queue # <<>> /\ Head(queue).kind = kind
  /\ queue' = Tail(queue)
  /\ UNCHANGED <<harnessVars, loop, finished, idle, sessionEnd, main, tools,
                 closer, current, discarded>>

ReadStep(c) ==
  /\ TakeEvent(c, "step")
  /\ recorded' = [recorded EXCEPT ![Head(queue).turn] = @ + 1]
  /\ UNCHANGED <<pc, sendMu, recvMu, drainErr>>

ReadError(c) ==
  /\ TakeEvent(c, "err")
  /\ drainErr' = [drainErr EXCEPT ![c] = pc[c] = "drain"]
  /\ UNCHANGED <<pc, sendMu, recvMu, recorded>>

\* The turn is over: a reader's Steps returns; a drain lets Send go on, or
\* makes it return the error the drain met.
ReadIdle(c) ==
  /\ TakeEvent(c, "idle")
  /\ recvMu' = Nobody
  /\ \/ At(c, "drain") /\ ~drainErr[c] /\ Goto(c, "reset") /\ UNCHANGED sendMu
     \/ At(c, "drain") /\ drainErr[c] /\ Goto(c, "idle") /\ sendMu' = Nobody
     \/ At(c, "steps") /\ Goto(c, "idle") /\ UNCHANGED sendMu
  /\ UNCHANGED <<drainErr, recorded>>

\* The consumer of Steps breaks out of its loop, or its context ends.
AbandonTurn(c) ==
  /\ "abandon" \in Habits
  /\ At(c, "steps")
  /\ recvMu' = Nobody
  /\ Goto(c, "idle")
  /\ UNCHANGED <<harnessVars, processorVars, sendMu, drainErr, closer, current,
                 recorded, discarded>>

\* The context of a Send or a WaitForIdle ends while it waits for the turn.
AbandonSend(c) ==
  /\ "abandon" \in Habits
  /\ pc[c] \in {"waitIdle", "drain"}
  /\ sendMu' = IF sendMu = c THEN Nobody ELSE sendMu
  /\ recvMu' = IF recvMu = c THEN Nobody ELSE recvMu
  /\ Goto(c, "idle")
  /\ UNCHANGED <<harnessVars, processorVars, drainErr, closer, current,
                 recorded, discarded>>

----------------------------------------------------------------------------
\* The program's other goroutines.

\* Conversation.Cancel.  One halt in flight is enough.
Halt ==
  /\ "halt" \in Habits /\ link = "open"
  /\ \A i \in DOMAIN inbox : inbox[i].kind # "halt"
  /\ running # NoTurn
  /\ Deliver(In("halt", NoTurn, NoCall))
  /\ UNCHANGED <<wire, link, backlog, running, awaiting, calls, lastTurn,
                 produced, processorVars, conversationVars>>

\* Conversation.Trigger: no lock, no look at the turn in progress.
Trigger ==
  /\ "trigger" \in Habits /\ closer = "open"
  /\ TurnsLeft /\ RequestTurn
  /\ UNCHANGED <<processorVars, conversationVars>>

CloseGoes(from, to) ==
  /\ closer = from /\ closer' = to
  /\ UNCHANGED <<pc, sendMu, recvMu, drainErr, current, recorded, discarded>>

\* Agent.Close, after triggers.stop has returned.
BeginClose ==
  /\ "close" \in Habits
  /\ CloseGoes("open", "request")
  /\ UNCHANGED <<harnessVars, processorVars>>

RequestSessionEnd ==
  /\ CloseGoes("request", "await") /\ SendMaySucceed
  /\ Deliver(In("end", NoTurn, NoCall))
  /\ UNCHANGED <<wire, link, backlog, running, awaiting, calls, lastTurn,
                 produced, processorVars>>

RequestSessionEndFails ==
  /\ CloseGoes("request", "transport") /\ SendMayFail
  /\ UNCHANGED <<harnessVars, processorVars>>

AwaitSessionEnd ==
  /\ CloseGoes("await", "transport") /\ sessionEnd
  /\ UNCHANGED <<harnessVars, processorVars>>

\* transport.Close: whatever was not received is gone, and so is the harness.
CloseTransport ==
  /\ CloseGoes("transport", "wait")
  /\ link' = "closed"
  /\ wire' = <<>>
  /\ running' = NoTurn /\ awaiting' = {}
  /\ UNCHANGED <<inbox, backlog, calls, lastTurn, produced, processorVars>>

\* proc.stop
StopProcessor ==
  /\ CloseGoes("wait", "closed") /\ Quiescent
  /\ UNCHANGED <<harnessVars, processorVars>>

----------------------------------------------------------------------------
SendGoesOn(c) ==
  \/ WaitForIdle(c) \/ LockSend(c) \/ CheckIdle(c) \/ CheckPending(c)
  \/ ResetTurn(c) \/ ResetGate(c) \/ DiscardLeftover(c) \/ NothingLeftover(c)
  \/ SendInput(c) \/ SendInputFails(c)
StepsGoOn(c) == LockReceive(c) \/ ReadStep(c) \/ ReadError(c) \/ ReadIdle(c)
CloseGoesOn ==
  \/ RequestSessionEnd \/ RequestSessionEndFails \/ AwaitSessionEnd
  \/ CloseTransport \/ StopProcessor

ConversationNext ==
  \/ \E c \in Callers : \/ BeginSend(c) \/ BeginSteps(c) \/ AbandonTurn(c)
                        \/ AbandonSend(c) \/ SendGoesOn(c) \/ StepsGoOn(c)
  \/ Halt \/ Trigger \/ BeginClose \/ CloseGoesOn

Next ==
  \/ HarnessNext /\ UNCHANGED <<processorVars, conversationVars>>
  \/ ProcessorNext /\ UNCHANGED conversationVars
  \/ ConversationNext

Spec == Init /\ [][Next]_vars

\* Goroutines that can run do run, and the harness works on its turns: it
\* reads its requests, starts what it accepted and finishes what it started.
\* Nothing obliges the program to send, to read, to stop reading or to close.
Fairness ==
  /\ WF_vars(HarnessTurn /\ UNCHANGED <<processorVars, conversationVars>>)
  /\ WF_vars(ReadLoop /\ UNCHANGED conversationVars)
  /\ WF_vars(ToolGoroutines /\ UNCHANGED conversationVars)
  /\ \A c \in Callers : WF_vars(SendGoesOn(c)) /\ WF_vars(StepsGoOn(c))
  /\ WF_vars(CloseGoesOn)

FairSpec == Spec /\ Fairness

----------------------------------------------------------------------------
\* Safety.

\* Steps of turn t that are on the queue.
Queued(t) ==
  Cardinality({i \in DOMAIN queue : queue[i] = Event("step", t)})

\* eventproc.go 361-363, docs/DESIGN.md 412-416: the idle marker is queued before
\* the gate opens, so that whoever sees the agent idle can rely on every event
\* of the turn being on the queue, if it has not been read already.
IdleMeansAllQueued ==
  idle /\ current # NoTurn /\ ~sessionEnd
    => /\ recorded[current] + Queued(current) = produced[current]
       /\ \A i \in DOMAIN loop :
            loop[i].op = "emit" => loop[i].event.turn # current

\* Steps ends at the idle marker: when a reader or a drain comes to it, it has
\* read everything the turn had to show, tool calls included.
MarkerComesLast ==
  \A t \in Turns :
    queue # <<>> /\ Head(queue) = Event("idle", t)
      => recorded[t] = produced[t]

\* sendMu and the drain in Send: what a reader reads belongs to the turn of
\* the last prompt, or is the end of the connection; never to an older turn.
TurnIsolation ==
  \A c \in Callers :
    At(c, "steps") /\ queue # <<>> => Head(queue).turn \in {current, NoTurn}

\* conversation.go 137-139, docs/DESIGN.md 412-416: a turn that ended before
\* anyone read it is drained, and not thrown away by resetForTurn.
NothingDiscarded == discarded = {}

\* eventproc.go 344-346: a subagent going quiet must not end the caller's
\* turn.  No idle marker of a turn exists before the harness ended that turn.
EndsOnlyWhenEnded ==
  running # NoTurn =>
    /\ \A i \in DOMAIN queue : queue[i] # Event("idle", running)
    /\ \A i \in DOMAIN loop : loop[i] # Emit("idle", running)

\* Where a tool call can be: on its way to the read loop, in the hands of a
\* goroutine, or answered.
Coming(k) == {i \in DOMAIN wire : wire[i].kind = "tool" /\ wire[i].call = k}
Held(k) == {r \in tools : r.call = k}
Answered(k) == {i \in DOMAIN inbox :
                  inbox[i].kind = "toolResponse" /\ inbox[i].call = k}

\* eventproc.go 474-477: a harness left waiting on a tool result stalls the
\* whole turn.  Every call it waits for is in one of those places.
ToolCallsInHand ==
  \A k \in awaiting : Coming(k) # {} \/ Held(k) # {} \/ Answered(k) # {}

\* And in no two: a call is never run, nor answered, twice.
ToolCallsRunOnce ==
  \A k \in Calls :
    /\ \A i, j \in Coming(k) : i = j
    /\ \A r, q \in Held(k) : r = q
    /\ \A i, j \in Answered(k) : i = j
    /\ Coming(k) # {} => Held(k) = {} /\ Answered(k) = {}
    /\ Held(k) # {} => Answered(k) = {}

\* The conversation implements the turn stream.  The turn of the last prompt
\* is open while the end of it is still to come, wherever it is.
StillOpen ==
  \/ \E i \in DOMAIN inbox : inbox[i] = In("turn", current, NoCall)
  \/ \E i \in DOMAIN backlog : backlog[i] = current
  \/ running # NoTurn /\ running = current
  \/ \E i \in DOMAIN wire :
       /\ wire[i].kind \in {"idle", "failed", "cancelled"}
       /\ wire[i].traj = "main" /\ wire[i].turn = current
  \/ \E i \in DOMAIN loop : loop[i] = Emit("idle", current)
  \/ \E i \in DOMAIN queue : queue[i] = Event("idle", current)

CountOf(f) == IF current = NoTurn THEN 0 ELSE f[current]

Stream == INSTANCE TurnStream WITH
  turn <- current, open <- current # NoTurn /\ StillOpen,
  made <- CountOf(produced), shown <- CountOf(recorded)

ImplementsTurnStream == Stream!StreamSpec

----------------------------------------------------------------------------
\* Liveness.

Sending(c) == pc[c] \in SendPositions

\* conversation.go 110: Send returns as soon as the prompt is on the wire, once
\* the turn before it is drained.  Not asked of a connection that is lost.
SendReturns ==
  \A c \in Callers : Sending(c) ~> ~Sending(c) \/ link # "open"

\* Steps ends when the agent goes idle, and finish (eventproc.go 176-179) must
\* release a blocked reader when the event stream ends.
ReaderReleased == \A c \in Callers : At(c, "steps") ~> ~At(c, "steps")

\* triggers.go 58-60: a turn runs whether or not somebody reads it.
TurnsFinish == \A t \in Turns : running = t ~> running # t

\* agent.go 192-197: Close tears the session down whatever happens.
CloseReturns == closer = "request" ~> closer = "closed"
=============================================================================
