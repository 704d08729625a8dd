---------------------------- MODULE ChatResponse ----------------------------
(***************************************************************************)
(* chatresponse.go over a conversation: a turn as a buffer that any number *)
(* of cursors walk, pulled from the conversation one step at a time, and   *)
(* released by the next Send when nobody reads it to its end.              *)
(*                                                                         *)
(* Chat's Send is Conversation's, position by position, with the release   *)
(* of the previous response in its place, conversation.go 124-135.  A      *)
(* response reads through an iterator that iter.Pull2 runs on a coroutine  *)
(* of its own: the response to turn r is the caller r of Conversation,     *)
(* which only ever calls Steps, and moves only when a cursor pulls.        *)
(*                                                                         *)
(* A definition named X_Y is X with the mistake Y in it; no specification  *)
(* uses it.                                                                *)
(***************************************************************************)
EXTENDS Conversation

CONSTANT Walkers  \* goroutines that only read the responses of others

\* There is one response to each turn that Chat asks for.
Responses == Turns
NoResponse == NoTurn
Chatters == Callers \ Responses
Goroutines == Chatters \union Walkers

ASSUME ChatAssumption ==
  /\ Responses \subseteq Callers /\ Chatters # {}
  /\ Walkers \cap (Callers \union {Nobody}) = {}
  /\ NoResponse \notin Callers \union Walkers \union {Nobody}
  /\ {"share", "abandon"} \subseteq Habits

VARIABLES
  registered, \* c.current
  previous,   \* Send's local variable
  iter,       \* iterator of each response: "none" before it exists, "fresh"
              \* before its first pull, "open" inside Steps, "ended" when Steps
              \* has returned on its context; and once r.done is set, "drained"
              \* at the end of the turn, or "closed"
  buf,        \* r.buf
  mu,         \* holder of r.mu
  where,      \* where each goroutine is, in Chat or with a cursor
  mine,       \* the response it reads
  pos         \* entries its cursor has yielded

responseVars == <<registered, iter, buf>>
cursorVars == <<mu, mine, pos>>
chatVars == <<vars, responseVars, previous, cursorVars, where>>

\* "chat": inside Send, at the position that Conversation keeps.
ChatPositions == {"chat", "release", "close", "register"}
CursorPositions == {"reading", "at", "halt"}
Done(r) == iter[r] \in {"drained", "closed"}

\* A buffered entry is a step or an error that the stream had, or the end of
\* the context that the response was made with.
ContextError == Event("err", NoTurn)
Entries == {e \in StepEvents : e.kind # "idle"}

ChatTypeOK ==
  /\ TypeOK
  /\ registered \in Responses \union {NoResponse}
  /\ previous \in [Chatters -> Responses \union {NoResponse}]
  /\ iter \in [Responses -> {"none", "fresh", "open", "ended", "drained",
                             "closed"}]
  /\ buf \in [Responses -> Seq(Entries)]
  /\ mu \in [Responses -> Goroutines \union {Nobody}]
  /\ where \in [Goroutines -> {"out"} \union ChatPositions \union CursorPositions]
  /\ mine \in [Goroutines -> Responses \union {NoResponse}]
  /\ pos \in [Goroutines -> Nat]

ChatInit ==
  /\ Init
  /\ registered = NoResponse
  /\ previous = [c \in Chatters |-> NoResponse]
  /\ iter = [r \in Responses |-> "none"]
  /\ buf = [r \in Responses |-> <<>>]
  /\ mu = [r \in Responses |-> Nobody]
  /\ where = [g \in Goroutines |-> "out"]
  /\ mine = [g \in Goroutines |-> NoResponse]
  /\ pos = [g \in Goroutines |-> 0]

\* A cursor that is given up: its variables are gone.
Drops(g) ==
  /\ mine' = [mine EXCEPT ![g] = NoResponse]
  /\ pos' = [pos EXCEPT ![g] = 0]

Go(g, from, to) == where[g] = from /\ where' = [where EXCEPT ![g] = to]

----------------------------------------------------------------------------
\* Chat: Send, then newChatResponse.

BeginChat(c) ==
  /\ Go(c, "out", "chat") \/ Go(c, "reading", "chat")
  /\ BeginSend(c)
  /\ Drops(c)
  /\ UNCHANGED <<responseVars, previous, mu>>

ChatLocks(c) ==
  /\ Go(c, "chat", "release")
  /\ LockSend(c)
  /\ UNCHANGED <<responseVars, previous, cursorVars>>

ReleasePrevious_Never(c) ==
  /\ Go(c, "release", "chat")
  /\ UNCHANGED <<vars, responseVars, previous, cursorVars>>

ReleasePrevious(c) ==
  /\ Go(c, "release", IF registered = NoResponse THEN "chat" ELSE "close")
  /\ previous' = [previous EXCEPT ![c] = registered]
  /\ registered' = NoResponse
  /\ UNCHANGED <<vars, iter, buf, cursorVars>>

\* ChatResponse.Close.  stop ends the iterator, and with it Steps.
CloseEffect_KeepsStream(r) ==
  /\ mu[r] = Nobody
  /\ iter' = [iter EXCEPT ![r] = IF Done(r) THEN @ ELSE "closed"]
  /\ UNCHANGED vars

CloseEffect_OnlyOpen(r) ==
  /\ mu[r] = Nobody
  /\ iter' = [iter EXCEPT ![r] = IF @ = "open" THEN "closed" ELSE @]
  /\ IF iter[r] = "open" THEN AbandonTurn(r) ELSE UNCHANGED vars

CloseEffect(r) ==
  /\ mu[r] = Nobody
  /\ iter' = [iter EXCEPT ![r] = IF Done(r) THEN @ ELSE "closed"]
  /\ IF iter[r] = "open" THEN AbandonTurn(r) ELSE UNCHANGED vars

ClosePrevious(c) ==
  /\ Go(c, "close", "chat")
  /\ CloseEffect(previous[c])
  /\ previous' = [previous EXCEPT ![c] = NoResponse]
  /\ UNCHANGED <<registered, buf, cursorVars>>

\* What Send does next, its drain included, but for the steps that end it.
SendGoesFurther(c) ==
  /\ where[c] = "chat"
  /\ \/ WaitForIdle(c) \/ CheckIdle(c) \/ CheckPending(c) \/ ResetTurn(c)
     \/ ResetGate(c) \/ DiscardLeftover(c) \/ NothingLeftover(c)
     \/ ReadStep(c) \/ ReadError(c)
     \/ ReadIdle(c) /\ ~drainErr[c]
  /\ UNCHANGED <<responseVars, previous, cursorVars, where>>

\* The drain takes recvMu.
ChatLocksDrain(c) ==
  /\ where[c] = "chat"
  /\ LockReceive(c)
  /\ UNCHANGED <<responseVars, previous, cursorVars, where>>

\* The drain met an error, and Send returns it without asking for a turn.
DrainFails(c) ==
  /\ Go(c, "chat", "out")
  /\ ReadIdle(c) /\ drainErr[c]
  /\ UNCHANGED <<responseVars, previous, cursorVars>>

\* sendUserInput fails, after resetForTurn has closed the gate.
ChatFails(c) ==
  /\ Go(c, "chat", "out")
  /\ SendInputFails(c)
  /\ UNCHANGED <<responseVars, previous, cursorVars>>

\* The context of the call ends while it waits.
ChatGivesUp(c) ==
  /\ Go(c, "chat", "out")
  /\ AbandonSend(c)
  /\ UNCHANGED <<responseVars, previous, cursorVars>>

ChatAsks(c) ==
  /\ Go(c, "chat", "register")
  /\ SendInput(c)
  /\ mine' = [mine EXCEPT ![c] = lastTurn']
  /\ UNCHANGED <<responseVars, previous, mu, pos>>

\* newChatResponse, after Send has released sendMu.
Register(c) ==
  /\ Go(c, "register", "reading")
  /\ iter' = [iter EXCEPT ![mine[c]] = "fresh"]
  /\ registered' = mine[c]
  /\ BeginSteps(mine[c])
  /\ UNCHANGED <<buf, previous, cursorVars>>

----------------------------------------------------------------------------
\* Cursors.  A response is handed to other goroutines once it exists.

Walk(w) ==
  /\ Go(w, "out", "reading")
  /\ \E r \in Responses :
       iter[r] # "none" /\ mine' = [mine EXCEPT ![w] = r]
  /\ UNCHANGED <<vars, responseVars, previous, mu, pos>>

\* at: r.mu is held until there is an entry to return, or the turn is over.
LockResponse(g) ==
  /\ Go(g, "reading", "at") /\ mu[mine[g]] = Nobody
  /\ mu' = [mu EXCEPT ![mine[g]] = g]
  /\ UNCHANGED <<vars, responseVars, previous, mine, pos>>

AtLiveEdge(g) == where[g] = "at" /\ pos[g] >= Len(buf[mine[g]])

ReadBuffered(g) ==
  /\ Go(g, "at", "reading") /\ ~AtLiveEdge(g)
  /\ pos' = [pos EXCEPT ![g] = @ + 1]
  /\ mu' = [mu EXCEPT ![mine[g]] = Nobody]
  /\ UNCHANGED <<vars, responseVars, previous, mine>>

ReadEnd(g) ==
  /\ Go(g, "at", "out") /\ AtLiveEdge(g) /\ Done(mine[g])
  /\ mu' = [mu EXCEPT ![mine[g]] = Nobody]
  /\ Drops(g)
  /\ UNCHANGED <<vars, responseVars, previous>>

\* The first pull enters Steps, which takes c.recvMu.
OpenStream(g) ==
  /\ AtLiveEdge(g) /\ iter[mine[g]] = "fresh"
  /\ LockReceive(mine[g])
  /\ iter' = [iter EXCEPT ![mine[g]] = "open"]
  /\ UNCHANGED <<registered, buf, previous, cursorVars, where>>

\* r.next: a step or an error is buffered, the end of the turn is not.
Pull_BuffersTheEnd(g) ==
  LET r == mine[g] IN
  /\ AtLiveEdge(g) /\ iter[r] = "open"
  /\ ReadStep(r) \/ ReadError(r) \/ ReadIdle(r)
  /\ buf' = [buf EXCEPT ![r] = Append(@, Head(queue))]
  /\ iter' = [iter EXCEPT ![r] = IF Head(queue).kind = "idle" THEN "drained" ELSE @]
  /\ UNCHANGED <<registered, previous, cursorVars, where>>

Pull_ForgetsDone(g) ==
  LET r == mine[g] IN
  /\ AtLiveEdge(g) /\ iter[r] = "open"
  /\ \/ /\ ReadStep(r) \/ ReadError(r)
        /\ buf' = [buf EXCEPT ![r] = Append(@, Head(queue))]
     \/ ReadIdle(r) /\ UNCHANGED buf
  /\ UNCHANGED <<registered, iter, previous, cursorVars, where>>

Pull(g) ==
  LET r == mine[g] IN
  /\ AtLiveEdge(g) /\ iter[r] = "open"
  /\ \/ /\ ReadStep(r) \/ ReadError(r)
        /\ buf' = [buf EXCEPT ![r] = Append(@, Head(queue))]
        /\ UNCHANGED iter
     \/ /\ ReadIdle(r)
        /\ iter' = [iter EXCEPT ![r] = "drained"]
        /\ UNCHANGED buf
  /\ UNCHANGED <<registered, previous, cursorVars, where>>

\* The context that Chat was called with ends while Steps waits: it yields
\* the context's error and returns, which the next pull finds out.
PullContextEnds(g) ==
  LET r == mine[g] IN
  /\ AtLiveEdge(g) /\ iter[r] = "open"
  /\ AbandonTurn(r)
  /\ buf' = [buf EXCEPT ![r] = Append(@, ContextError)]
  /\ iter' = [iter EXCEPT ![r] = "ended"]
  /\ UNCHANGED <<registered, previous, cursorVars, where>>

PullEnded(g) ==
  /\ AtLiveEdge(g) /\ iter[mine[g]] = "ended"
  /\ iter' = [iter EXCEPT ![mine[g]] = "closed"]
  /\ UNCHANGED <<vars, registered, buf, previous, cursorVars, where>>

\* ChatResponse.Close, called by the goroutine that chats and that reads no
\* more; the source forbids it while that cursor reads.
CloseResponse(c) ==
  /\ Go(c, "reading", "out")
  /\ CloseEffect(mine[c])
  /\ Drops(c)
  /\ UNCHANGED <<registered, buf, previous, mu>>

\* ChatResponse.Cancel: finished, then Conversation.Cancel.
BeginCancel(g) ==
  /\ "halt" \in Habits /\ (g \in Chatters \/ "haltElsewhere" \in Habits)
  /\ Go(g, "reading", "halt") /\ mu[mine[g]] = Nobody /\ ~Done(mine[g])
  /\ UNCHANGED <<vars, responseVars, previous, cursorVars>>

\* A halt with no turn in progress does nothing.
HaltTurn(g) ==
  /\ Go(g, "halt", "reading")
  /\ Halt \/ (running = NoTurn /\ UNCHANGED vars)
  /\ UNCHANGED <<responseVars, previous, cursorVars>>

----------------------------------------------------------------------------
Apart == UNCHANGED <<responseVars, previous, cursorVars, where>>

ChatGoesOn(c) ==
  \/ ChatLocks(c) \/ ReleasePrevious(c) \/ ClosePrevious(c)
  \/ SendGoesFurther(c) \/ ChatLocksDrain(c) \/ DrainFails(c) \/ ChatFails(c)
  \/ ChatAsks(c) \/ Register(c)
CursorGoesOn(g) ==
  ReadBuffered(g) \/ ReadEnd(g) \/ OpenStream(g) \/ Pull(g) \/ PullEnded(g)

ChatNext ==
  \/ HarnessNext /\ UNCHANGED <<processorVars, conversationVars>> /\ Apart
  \/ ProcessorNext /\ UNCHANGED conversationVars /\ Apart
  \/ \E c \in Chatters :
       BeginChat(c) \/ ChatGoesOn(c) \/ ChatGivesUp(c) \/ CloseResponse(c)
  \/ \E w \in Walkers : Walk(w)
  \/ \E g \in Goroutines :
       \/ LockResponse(g) \/ CursorGoesOn(g) \/ PullContextEnds(g)
       \/ BeginCancel(g) \/ HaltTurn(g)

ChatSpec == ChatInit /\ [][ChatNext]_chatVars

\* As in Conversation; nothing obliges the program to chat, or to read.  A
\* sync.Mutex hands itself to a goroutine that has waited for a millisecond, so
\* a Send that waits for one gets it even if cursors come and take it again and
\* again.
ChatFairSpec ==
  /\ ChatSpec
  /\ WF_chatVars(HarnessTurn /\ UNCHANGED <<processorVars, conversationVars>>
                             /\ Apart)
  /\ WF_chatVars(ReadLoop /\ UNCHANGED conversationVars /\ Apart)
  /\ WF_chatVars(ToolGoroutines /\ UNCHANGED conversationVars /\ Apart)
  /\ \A c \in Chatters :
       /\ WF_chatVars(ChatGoesOn(c))
       /\ SF_chatVars(ChatLocks(c) \/ ClosePrevious(c) \/ ChatLocksDrain(c))
  /\ \A g \in Goroutines : WF_chatVars(CursorGoesOn(g) \/ HaltTurn(g))

----------------------------------------------------------------------------
\* agent.go 45-46: turns are serialized.  What a response buffers is of its
\* own turn and never of another, but for the end of the connection or of its
\* context.
ResponseIsItsTurn ==
  \A r \in Responses : \A i \in DOMAIN buf[r] : buf[r][i].turn \in {r, NoTurn}

\* chatresponse.go 73-74: a response that came to the end of its turn, and was
\* not closed, holds every step of it, tool calls included.
Buffered(r) == Cardinality({i \in DOMAIN buf[r] : buf[r][i] = Event("step", r)})
DrainedIsComplete ==
  \A r \in Responses : iter[r] = "drained" => Buffered(r) = produced[r]

\* The response inside Steps, and no other, holds the stream: an iterator that
\* is over has given it back (conversation.go 124-126), and never twice.
OpenHoldsStream == \A r \in Responses : iter[r] = "open" <=> recvMu = r

\* chatresponse.go 220: Cancel halts the generation of its own response.
CancelsOwnTurn == \A g \in Goroutines : where[g] = "halt" => mine[g] = current

\* A Send that failed has left the gate shut, with no turn to open it.
LeftShut(c) ==
  /\ pc[c] = "waitIdle" /\ ~idle
  /\ inbox = <<>> /\ backlog = <<>> /\ running = NoTurn
  /\ wire = <<>> /\ loop = <<>>

\* conversation.go 266-267: Chat returns as soon as the prompt is sent, and an
\* abandoned response must not keep the next one waiting.  Not asked of the
\* Chat after one whose prompt could not be sent.
ChatReturns ==
  \A c \in Chatters :
    where[c] \in ChatPositions ~> where[c] \in {"reading", "out"} \/ LeftShut(c)

\* chatresponse.go 73-76: a cursor waits for the live edge only.
CursorsReturn == \A g \in Goroutines : where[g] = "at" ~> where[g] # "at"
=============================================================================
