------------------------- MODULE ChatResponse_proofs -------------------------
(***************************************************************************)
(* For any number of goroutines, turns and steps: what Chat and its        *)
(* responses do is what a conversation may do; the types; and that the     *)
(* iterator that is inside Steps, and no other, holds the stream's mutex.  *)
(* For a program that chats from one goroutine, and waits for the agent to *)
(* be idle before it does: a response holds its own turn and, once it is   *)
(* drained, all of it.                                                     *)
(***************************************************************************)
EXTENDS ChatResponse, Turns_proofs

\* A goroutine that reads, or is about to, has something to read; one that
\* closes the response before has something to close.
Reading == {"register", "reading", "at", "halt"}
ReadersHaveResponses ==
  /\ \A g \in Goroutines : where[g] \in Reading => mine[g] \in Responses
  /\ \A c \in Chatters : where[c] = "close" => previous[c] \in Responses

\* The iterator of a response is inside Steps when the response is open.
ResponsesAreReaders ==
  \A r \in Responses :
    /\ pc[r] \in {"idle", "lockSteps", "steps"}
    /\ iter[r] = "open" <=> pc[r] = "steps"
    /\ iter[r] = "fresh" => pc[r] = "lockSteps"

\* Whoever is inside Steps holds c.recvMu.
HoldersAreInside ==
  \A x \in Callers : pc[x] \in {"steps", "drain"} <=> recvMu = x

StreamInv ==
  /\ ChatTypeOK
  /\ ReadersHaveResponses
  /\ ResponsesAreReaders
  /\ HoldersAreInside

LEMMA WhoIsWho ==
  /\ Chatters \subseteq Callers /\ Responses \subseteq Callers
  /\ Chatters \subseteq Goroutines /\ Walkers \subseteq Goroutines
  /\ Goroutines = Chatters \union Walkers
  /\ Chatters \cap Responses = {} /\ Chatters \cap Walkers = {}
  /\ NoResponse \notin Responses /\ NoResponse \notin Goroutines
  /\ Nobody \notin Goroutines /\ Nobody \notin Callers
  /\ Responses \cap Goroutines = {}
BY ChatAssumption, ConversationAssumption
   DEF Chatters, Responses, Goroutines, NoResponse, NoTurn

----------------------------------------------------------------------------
\* Conversation's actions, as Chat uses them.

CallerDoes(x) ==
  \/ BeginSend(x) \/ BeginSteps(x) \/ AbandonTurn(x)
  \/ AbandonSend(x) \/ SendGoesOn(x) \/ StepsGoOn(x)

LEMMA CallerIsNext == \A x \in Callers : CallerDoes(x) => Next
BY DEF CallerDoes, Next, ConversationNext

LEMMA OnlyItMoves ==
  ASSUME TypeOK, NEW x \in Callers, CallerDoes(x)
  PROVE  \A y \in Callers \ {x} : pc'[y] = pc[y]
BY DEF CallerDoes, SendGoesOn, StepsGoOn, BeginSend, BeginSteps, AbandonTurn,
       AbandonSend, WaitForIdle, LockSend, CheckIdle, CheckPending, ResetTurn,
       ResetGate, DiscardLeftover, NothingLeftover, SendInput, SendInputFails,
       LockReceive, ReadStep, ReadError, ReadIdle, Goto, TypeOK,
       ConversationTypeOK

LEMMA HoldersStayInside ==
  ASSUME TypeOK, HoldersAreInside, [Next]_vars
  PROVE  HoldersAreInside'
<1> USE ConversationAssumption DEF HoldersAreInside
<1>1. CASE UNCHANGED <<pc, recvMu>>
  BY <1>1
<1>2. ASSUME NEW x \in Callers,
             BeginSend(x) \/ BeginSteps(x) \/ SendGoesOn(x)
      PROVE  HoldersAreInside'
  BY <1>2 DEF SendGoesOn, BeginSend, BeginSteps, WaitForIdle, LockSend,
       CheckIdle, CheckPending, ResetTurn, ResetGate, DiscardLeftover,
       NothingLeftover, SendInput, SendInputFails, At, Goto, TypeOK,
       ConversationTypeOK
<1>3. ASSUME NEW x \in Callers,
             AbandonTurn(x) \/ AbandonSend(x) \/ ReadIdle(x) \/ LockReceive(x)
      PROVE  HoldersAreInside'
  BY <1>3 DEF AbandonTurn, AbandonSend, ReadIdle, LockReceive, TakeEvent, At,
       Goto, TypeOK, ConversationTypeOK
<1>4. ASSUME NEW x \in Callers, ReadStep(x) \/ ReadError(x)
      PROVE  HoldersAreInside'
  BY <1>4 DEF ReadStep, ReadError
<1>5. ASSUME Halt \/ Trigger \/ BeginClose \/ CloseGoesOn
      PROVE  UNCHANGED <<pc, recvMu>>
  BY <1>5 DEF Halt, Trigger, BeginClose, CloseGoesOn, CloseGoes,
       RequestSessionEnd, RequestSessionEndFails, AwaitSessionEnd,
       CloseTransport, StopProcessor, conversationVars
<1>6. QED
  BY <1>1, <1>2, <1>3, <1>4, <1>5
     DEF Next, ConversationNext, StepsGoOn, vars, conversationVars

----------------------------------------------------------------------------
\* The cases of a step of Chat.  What the goroutine at x does is a step of
\* the caller x of Conversation, and of no other.

AgentGoes ==
  \/ HarnessNext /\ UNCHANGED <<processorVars, conversationVars>>
  \/ ProcessorNext /\ UNCHANGED conversationVars

\* Send goes on with the response variables as they are.
SendOnly(c) ==
  \/ BeginChat(c) \/ ChatLocks(c) \/ SendGoesFurther(c) \/ ChatLocksDrain(c)
  \/ DrainFails(c) \/ ChatFails(c) \/ ChatGivesUp(c)

\* Neither the conversation nor an iterator takes part.
Aside(g) ==
  \/ LockResponse(g) \/ ReadBuffered(g) \/ ReadEnd(g)
  \/ BeginCancel(g) \/ HaltTurn(g)

LEMMA ChatCases ==
  ASSUME ChatNext
  PROVE  \/ AgentGoes /\ Apart
         \/ \E c \in Chatters : \/ SendOnly(c) \/ ReleasePrevious(c)
                                \/ ClosePrevious(c) \/ ChatAsks(c)
                                \/ Register(c) \/ CloseResponse(c)
         \/ \E w \in Walkers : Walk(w)
         \/ \E g \in Goroutines : \/ Aside(g) \/ OpenStream(g) \/ Pull(g)
                                  \/ PullContextEnds(g) \/ PullEnded(g)
BY DEF ChatNext, AgentGoes, SendOnly, Aside, ChatGoesOn, CursorGoesOn

LEMMA SendOnlyDoes ==
  ASSUME NEW c \in Chatters, SendOnly(c)
  PROVE  CallerDoes(c)
BY DEF SendOnly, CallerDoes, SendGoesOn, StepsGoOn, BeginChat, ChatLocks,
       SendGoesFurther, ChatLocksDrain, DrainFails, ChatFails, ChatGivesUp

LEMMA AsideDoes ==
  ASSUME NEW g \in Goroutines, Aside(g)
  PROVE  Halt \/ UNCHANGED vars
BY DEF Aside, LockResponse, ReadBuffered, ReadEnd, BeginCancel, HaltTurn

\* A response that is pulled is one that exists.
LEMMA ReaderReads ==
  ASSUME StreamInv, NEW g \in Goroutines, where[g] \in Reading
  PROVE  mine[g] \in Responses /\ mine[g] \in Callers
BY WhoIsWho DEF StreamInv, ReadersHaveResponses

LEMMA CloseDoes ==
  ASSUME NEW r \in Responses, CloseEffect(r)
  PROVE  CallerDoes(r) \/ UNCHANGED vars
BY DEF CloseEffect, CallerDoes

LEMMA PreviousIsThere ==
  ASSUME StreamInv, NEW c \in Chatters, ClosePrevious(c)
  PROVE  previous[c] \in Responses
BY DEF StreamInv, ReadersHaveResponses, ClosePrevious, Go

LEMMA PullDoes ==
  ASSUME StreamInv, NEW g \in Goroutines,
         OpenStream(g) \/ Pull(g) \/ PullContextEnds(g)
  PROVE  mine[g] \in Responses /\ CallerDoes(mine[g])
<1>1. mine[g] \in Responses
  BY ReaderReads DEF OpenStream, Pull, PullContextEnds, AtLiveEdge, Reading
<1>2. QED
  BY <1>1 DEF OpenStream, Pull, PullContextEnds, CallerDoes, StepsGoOn

LEMMA ChatStepIsStep == StreamInv /\ [ChatNext]_chatVars => [Next]_vars
<1> SUFFICES ASSUME StreamInv, [ChatNext]_chatVars PROVE [Next]_vars
  OBVIOUS
<1>1. CASE AgentGoes
  BY <1>1 DEF AgentGoes, Next
<1>2. ASSUME NEW c \in Chatters,
             \/ SendOnly(c) \/ ReleasePrevious(c) \/ ClosePrevious(c)
             \/ ChatAsks(c) \/ Register(c) \/ CloseResponse(c)
      PROVE  [Next]_vars
  <2>0. c \in Callers /\ c \in Goroutines
    BY WhoIsWho
  <2>1. CASE SendOnly(c)
    BY <2>0, <2>1, SendOnlyDoes, CallerIsNext
  <2>2. CASE ReleasePrevious(c)
    BY <2>2 DEF ReleasePrevious
  <2>3. CASE ClosePrevious(c)
    BY <2>3, PreviousIsThere, CloseDoes, CallerIsNext, WhoIsWho
       DEF ClosePrevious
  <2>4. CASE ChatAsks(c)
    BY <2>0, <2>4, CallerIsNext DEF ChatAsks, CallerDoes, SendGoesOn
  <2>5. CASE Register(c)
    BY <2>0, <2>5, ReaderReads, CallerIsNext
       DEF Register, CallerDoes, Go, Reading
  <2>6. CASE CloseResponse(c)
    BY <2>0, <2>6, ReaderReads, CloseDoes, CallerIsNext
       DEF CloseResponse, Go, Reading
  <2>7. QED
    BY <1>2, <2>1, <2>2, <2>3, <2>4, <2>5, <2>6
<1>3. ASSUME NEW w \in Walkers, Walk(w) PROVE [Next]_vars
  BY <1>3 DEF Walk
<1>4. ASSUME NEW g \in Goroutines,
             \/ Aside(g) \/ OpenStream(g) \/ Pull(g) \/ PullContextEnds(g)
             \/ PullEnded(g)
      PROVE  [Next]_vars
  <2>1. CASE Aside(g)
    BY <2>1, AsideDoes DEF Next, ConversationNext
  <2>2. CASE OpenStream(g) \/ Pull(g) \/ PullContextEnds(g)
    BY <2>2, PullDoes, CallerIsNext, WhoIsWho
  <2>3. CASE PullEnded(g)
    BY <2>3 DEF PullEnded
  <2>4. QED
    BY <1>4, <2>1, <2>2, <2>3
<1>5. CASE UNCHANGED chatVars
  BY <1>5 DEF chatVars
<1>6. QED
  BY <1>1, <1>2, <1>3, <1>4, <1>5, ChatCases

----------------------------------------------------------------------------
\* The invariant is kept.

LEMMA StreamInvInit == ChatInit => StreamInv
<1> SUFFICES ASSUME ChatInit PROVE StreamInv
  OBVIOUS
<1>1. TypeOK /\ pc = [c \in Callers |-> "idle"] /\ recvMu = Nobody
  BY InitTypes DEF ChatInit, Init
<1>2. ChatTypeOK
  BY <1>1 DEF ChatInit, ChatTypeOK
<1>3. ReadersHaveResponses
  BY WhoIsWho DEF ChatInit, ReadersHaveResponses, Reading
<1>4. ResponsesAreReaders /\ HoldersAreInside
  BY <1>1, WhoIsWho DEF ChatInit, ResponsesAreReaders, HoldersAreInside
<1>5. QED
  BY <1>2, <1>3, <1>4 DEF StreamInv

\* The types of what this module adds, but for the buffers.
CursorTypes ==
  /\ registered \in Responses \union {NoResponse}
  /\ previous \in [Chatters -> Responses \union {NoResponse}]
  /\ iter \in [Responses -> {"none", "fresh", "open", "ended", "drained",
                             "closed"}]
  /\ mu \in [Responses -> Goroutines \union {Nobody}]
  /\ where \in [Goroutines -> {"out"} \union ChatPositions \union CursorPositions]
  /\ mine \in [Goroutines -> Responses \union {NoResponse}]
  /\ pos \in [Goroutines -> Nat]

LEMMA CloseTypes ==
  ASSUME StreamInv, NEW r \in Responses, CloseEffect(r)
  PROVE  /\ iter' \in [Responses -> {"none", "fresh", "open", "ended",
                                     "drained", "closed"}]
         /\ ResponsesAreReaders'
<1> DEFINE Iters == {"none", "fresh", "open", "ended", "drained", "closed"}
<1>1. iter \in [Responses -> Iters] /\ TypeOK
  BY DEF StreamInv, ChatTypeOK
<1>2. iter' = [iter EXCEPT ![r] = IF Done(r) THEN @ ELSE "closed"]
  BY DEF CloseEffect
<1>3. iter' \in [Responses -> Iters]
  BY <1>1, <1>2
<1>4. CASE iter[r] = "open"
  <2>1. pc' = [pc EXCEPT ![r] = "idle"] /\ iter'[r] = "closed"
    BY <1>1, <1>2, <1>4 DEF CloseEffect, AbandonTurn, Goto, Done
  <2>2. QED
    BY <1>1, <1>2, <1>3, <1>4, <2>1, WhoIsWho
       DEF StreamInv, ResponsesAreReaders, TypeOK, ConversationTypeOK
<1>5. CASE iter[r] # "open"
  <2>1. pc' = pc /\ iter'[r] \notin {"open", "fresh"}
    BY <1>1, <1>2, <1>5 DEF CloseEffect, Done, vars, conversationVars
  <2>2. QED
    BY <1>1, <1>2, <1>3, <1>5, <2>1 DEF StreamInv, ResponsesAreReaders
<1>6. QED
  BY <1>3, <1>4, <1>5

BufferTypes == buf \in [Responses -> Seq(Entries)]

LEMMA TypesAre == ChatTypeOK <=> TypeOK /\ CursorTypes /\ BufferTypes
BY DEF ChatTypeOK, CursorTypes, BufferTypes

\* A goroutine that comes to read has something to read.
LEMMA ReadersStay ==
  ASSUME StreamInv, NEW g \in Goroutines, NEW from, NEW to,
         Go(g, from, to), to # "close", UNCHANGED previous,
         \/ UNCHANGED mine /\ (to \in Reading => from \in Reading)
         \/ \E r \in Responses \union {NoResponse} :
              /\ mine' = [mine EXCEPT ![g] = r]
              /\ to \in Reading => r \in Responses
  PROVE  ReadersHaveResponses'
BY WhoIsWho DEF StreamInv, ChatTypeOK, ReadersHaveResponses, Go

LEMMA OthersKeepReaders ==
  ASSUME StreamInv, NEW x \in Callers \ Responses, CallerDoes(x),
         UNCHANGED iter
  PROVE  ResponsesAreReaders'
BY OnlyItMoves, WhoIsWho DEF StreamInv, ChatTypeOK, ResponsesAreReaders

LEMMA SendOnlyKeeps ==
  ASSUME StreamInv, NEW c \in Chatters, SendOnly(c)
  PROVE  CursorTypes' /\ BufferTypes' /\ ReadersHaveResponses'
         /\ ResponsesAreReaders'
<1> USE DEF responseVars, cursorVars
<1>1. c \in Goroutines /\ c \in Callers \ Responses
  BY WhoIsWho
<1>2. CursorTypes /\ BufferTypes
  BY TypesAre DEF StreamInv
<1>3. /\ UNCHANGED <<registered, iter, buf, previous, mu>>
      /\ \/ UNCHANGED <<where, mine, pos>>
         \/ \E from, to : /\ Go(c, from, to)
                          /\ to \in {"chat", "release", "out"}
                          /\ UNCHANGED <<mine, pos>> \/ Drops(c)
  BY DEF SendOnly, BeginChat, ChatLocks, SendGoesFurther, ChatLocksDrain,
         DrainFails, ChatFails, ChatGivesUp
<1>4. ResponsesAreReaders'
  BY <1>1, <1>3, SendOnlyDoes, OthersKeepReaders
<1>5. CASE UNCHANGED <<where, mine, pos>>
  BY <1>2, <1>3, <1>4, <1>5
     DEF CursorTypes, BufferTypes, StreamInv, ReadersHaveResponses
<1>6. ASSUME NEW from, NEW to, Go(c, from, to),
             to \in {"chat", "release", "out"},
             UNCHANGED <<mine, pos>> \/ Drops(c)
      PROVE  CursorTypes' /\ BufferTypes' /\ ReadersHaveResponses'
  <2>1. CursorTypes' /\ BufferTypes'
    <3>1. where' \in [Goroutines -> {"out"} \union ChatPositions
                                          \union CursorPositions]
      BY <1>1, <1>2, <1>6 DEF CursorTypes, Go, ChatPositions
    <3>2. /\ mine' \in [Goroutines -> Responses \union {NoResponse}]
          /\ pos' \in [Goroutines -> Nat]
      BY <1>1, <1>2, <1>6 DEF CursorTypes, Drops
    <3>3. QED
      BY <1>2, <1>3, <3>1, <3>2 DEF CursorTypes, BufferTypes
  <2>2. to \notin Reading
    BY <1>6 DEF Reading
  <2>3. ReadersHaveResponses'
    BY <1>1, <1>3, <1>6, <2>2, ReadersStay DEF Drops
  <2>4. QED
    BY <2>1, <2>3
<1>7. QED
  BY <1>3, <1>4, <1>5, <1>6

LEMMA AsideKeeps ==
  ASSUME StreamInv, NEW g \in Goroutines, Aside(g)
  PROVE  CursorTypes' /\ BufferTypes' /\ ReadersHaveResponses'
         /\ ResponsesAreReaders'
<1> USE DEF responseVars, cursorVars
<1>1. CursorTypes /\ BufferTypes
  BY TypesAre DEF StreamInv
<1>2. /\ UNCHANGED <<registered, iter, buf, previous>>
      /\ \E from, to : /\ Go(g, from, to)
                       /\ to \in {"at", "reading", "out", "halt"}
                       /\ \/ UNCHANGED mine /\ from \in Reading
                          \/ to = "out" /\ Drops(g)
  BY DEF Aside, LockResponse, ReadBuffered, ReadEnd, BeginCancel, HaltTurn,
         Reading
<1>3. where[g] \in Reading
  BY DEF Aside, LockResponse, ReadBuffered, ReadEnd, BeginCancel, HaltTurn,
         Go, Reading
<1>4. mine[g] \in Responses
  BY <1>3, ReaderReads
<1>5. mu' \in [Responses -> Goroutines \union {Nobody}] /\ pos' \in [Goroutines -> Nat]
  BY <1>1, <1>4 DEF CursorTypes, Aside, LockResponse, ReadBuffered, ReadEnd,
         BeginCancel, HaltTurn, Drops
<1>6. PICK from, to : /\ Go(g, from, to)
                      /\ to \in {"at", "reading", "out", "halt"}
                      /\ \/ UNCHANGED mine /\ from \in Reading
                         \/ to = "out" /\ Drops(g)
  BY <1>2
<1>7. CursorTypes' /\ BufferTypes'
  BY <1>1, <1>2, <1>5, <1>6
     DEF CursorTypes, BufferTypes, Go, Drops, CursorPositions
<1>8. ReadersHaveResponses'
  <2>1. CASE UNCHANGED mine /\ from \in Reading
    BY <1>2, <1>6, <2>1, ReadersStay
  <2>2. CASE to = "out" /\ Drops(g)
    BY <1>2, <1>6, <2>2, ReadersStay DEF Drops, Reading
  <2>3. QED
    BY <1>6, <2>1, <2>2
<1>9. UNCHANGED pc
  BY AsideDoes DEF Halt, vars, conversationVars
<1>10. ResponsesAreReaders'
  BY <1>2, <1>9 DEF StreamInv, ResponsesAreReaders
<1>11. QED
  BY <1>7, <1>8, <1>10

\* Send releases, closes, asks and registers; a reader closes.
LEMMA ChatKeeps ==
  ASSUME StreamInv, NEW c \in Chatters,
         \/ ReleasePrevious(c) \/ ClosePrevious(c) \/ ChatAsks(c)
         \/ Register(c) \/ CloseResponse(c)
  PROVE  CursorTypes' /\ BufferTypes' /\ ReadersHaveResponses'
         /\ ResponsesAreReaders'
<1> USE DEF responseVars, cursorVars
<1>1. c \in Goroutines /\ c \in Callers \ Responses
  BY WhoIsWho
<1>2. CursorTypes /\ BufferTypes /\ ReadersHaveResponses /\ ResponsesAreReaders
  BY TypesAre DEF StreamInv
<1>3. BufferTypes'
  BY <1>2 DEF ReleasePrevious, ClosePrevious, ChatAsks, Register,
              CloseResponse, BufferTypes
<1>4. CASE ReleasePrevious(c)
  <2>1. CursorTypes'
    BY <1>1, <1>2, <1>4
       DEF ReleasePrevious, Go, CursorTypes, ChatPositions
  <2>2. ReadersHaveResponses'
    BY <1>1, <1>2, <1>4
       DEF ReleasePrevious, Go, CursorTypes, ReadersHaveResponses, Reading
  <2>3. ResponsesAreReaders'
    BY <1>2, <1>4
       DEF ReleasePrevious, ResponsesAreReaders, vars, conversationVars
  <2>4. QED
    BY <1>3, <2>1, <2>2, <2>3
<1>5. CASE ClosePrevious(c)
  <2>1. previous[c] \in Responses
    BY <1>5, PreviousIsThere
  <2>2. CursorTypes' /\ ResponsesAreReaders'
    BY <1>1, <1>2, <1>5, <2>1, CloseTypes
       DEF ClosePrevious, Go, CursorTypes, ChatPositions
  <2>3. ReadersHaveResponses'
    BY <1>1, <1>2, <1>5
       DEF ClosePrevious, Go, CursorTypes, ReadersHaveResponses, Reading
  <2>4. QED
    BY <1>3, <2>2, <2>3
<1>6. CASE ChatAsks(c)
  <2>1. lastTurn' \in Responses
    BY <1>6, HarnessAssumption
       DEF ChatAsks, SendInput, RequestTurn, Responses, Turns, StreamInv,
           ChatTypeOK, TypeOK, HarnessTypeOK
  <2>2. CursorTypes'
    BY <1>1, <1>2, <1>6, <2>1 DEF ChatAsks, Go, CursorTypes, ChatPositions
  <2>3. ReadersHaveResponses'
    BY <1>1, <1>6, <2>1, ReadersStay DEF ChatAsks
  <2>4. ResponsesAreReaders'
    BY <1>1, <1>6, OthersKeepReaders DEF ChatAsks, CallerDoes, SendGoesOn
  <2>5. QED
    BY <1>3, <2>2, <2>3, <2>4
<1>7. CASE Register(c)
  <2>1. mine[c] \in Responses
    BY <1>1, <1>7, ReaderReads DEF Register, Go, Reading
  <2>2. CursorTypes'
    BY <1>1, <1>2, <1>7, <2>1 DEF Register, Go, CursorTypes, CursorPositions
  <2>3. ReadersHaveResponses'
    BY <1>1, <1>7, ReadersStay DEF Register, Reading
  <2>4. /\ iter' = [iter EXCEPT ![mine[c]] = "fresh"]
        /\ pc' = [pc EXCEPT ![mine[c]] = "lockSteps"]
    BY <1>7 DEF Register, BeginSteps, Goto
  <2>5. ResponsesAreReaders'
    BY <1>2, <2>1, <2>4, WhoIsWho
       DEF ResponsesAreReaders, CursorTypes, StreamInv, ChatTypeOK, TypeOK,
           ConversationTypeOK
  <2>6. QED
    BY <1>3, <2>2, <2>3, <2>5
<1>8. CASE CloseResponse(c)
  <2>1. mine[c] \in Responses
    BY <1>1, <1>8, ReaderReads DEF CloseResponse, Go, Reading
  <2>2. CursorTypes' /\ ResponsesAreReaders'
    BY <1>1, <1>2, <1>8, <2>1, CloseTypes
       DEF CloseResponse, Drops, Go, CursorTypes
  <2>3. ReadersHaveResponses'
    BY <1>1, <1>8, ReadersStay DEF CloseResponse, Drops, Reading
  <2>4. QED
    BY <1>3, <2>2, <2>3
<1>9. QED
  BY <1>4, <1>5, <1>6, <1>7, <1>8

LEMMA WalkKeeps ==
  ASSUME StreamInv, NEW w \in Walkers, Walk(w)
  PROVE  CursorTypes' /\ BufferTypes' /\ ReadersHaveResponses'
         /\ ResponsesAreReaders'
<1> USE DEF responseVars
<1>1. w \in Goroutines
  BY WhoIsWho
<1>2. CursorTypes /\ BufferTypes /\ ResponsesAreReaders
  BY TypesAre DEF StreamInv
<1>3. PICK r \in Responses : mine' = [mine EXCEPT ![w] = r]
  BY DEF Walk
<1>4. CursorTypes' /\ BufferTypes'
  BY <1>1, <1>2, <1>3
     DEF Walk, Go, CursorTypes, BufferTypes, CursorPositions
<1>5. ReadersHaveResponses'
  BY <1>1, <1>3, ReadersStay DEF Walk
<1>6. ResponsesAreReaders'
  BY <1>2 DEF Walk, ResponsesAreReaders, vars, conversationVars
<1>7. QED
  BY <1>4, <1>5, <1>6

\* What a pull puts into the buffer.
LEMMA EntriesAre ==
  ASSUME TypeOK
  PROVE  /\ ContextError \in Entries
         /\ queue # <<>> /\ Head(queue).kind # "idle" => Head(queue) \in Entries
<1>1. queue \in Seq(StepEvents)
  BY DEF TypeOK, ProcessorTypeOK
<1>2. ContextError \in Entries
  BY DEF ContextError, Entries, StepEvents, Event
<1>3. QED
  BY <1>1, <1>2 DEF Entries

LEMMA PullKeeps ==
  ASSUME StreamInv, NEW g \in Goroutines,
         \/ OpenStream(g) \/ Pull(g) \/ PullContextEnds(g) \/ PullEnded(g)
  PROVE  CursorTypes' /\ BufferTypes' /\ ReadersHaveResponses'
         /\ ResponsesAreReaders'
<1> USE DEF responseVars, cursorVars
<1> DEFINE r == mine[g]
<1>1. r \in Responses /\ r \in Callers
  BY ReaderReads
     DEF OpenStream, Pull, PullContextEnds, PullEnded, AtLiveEdge, Reading
<1>2. /\ CursorTypes /\ BufferTypes /\ ReadersHaveResponses
      /\ ResponsesAreReaders /\ TypeOK
  BY TypesAre DEF StreamInv
<1>3. /\ UNCHANGED <<registered, previous, mu, where, mine, pos>>
      /\ \/ UNCHANGED buf
         \/ \E e \in Entries : buf' = [buf EXCEPT ![r] = Append(@, e)]
  BY <1>2, EntriesAre
     DEF OpenStream, Pull, PullContextEnds, PullEnded, ReadStep, ReadError,
         TakeEvent
<1>4. BufferTypes'
  <2> HIDE DEF r
  <2>1. CASE UNCHANGED buf
    BY <1>2, <2>1 DEF BufferTypes
  <2>2. ASSUME NEW e \in Entries, buf' = [buf EXCEPT ![r] = Append(@, e)]
        PROVE  BufferTypes'
    <3>1. buf[r] \in Seq(Entries)
      BY <1>1, <1>2 DEF BufferTypes
    <3>2. Append(buf[r], e) \in Seq(Entries)
      BY <3>1
    <3>3. QED
      BY <1>2, <2>2, <3>2 DEF BufferTypes
  <2>3. QED
    BY <1>3, <2>1, <2>2
<1>5. ReadersHaveResponses'
  BY <1>2, <1>3 DEF ReadersHaveResponses
<1>6. \/ UNCHANGED <<iter, pc>>
      \/ /\ iter[r] = "fresh" /\ iter' = [iter EXCEPT ![r] = "open"]
         /\ pc' = [pc EXCEPT ![r] = "steps"]
      \/ /\ iter[r] = "open" /\ pc' = [pc EXCEPT ![r] = "idle"]
         /\ \/ iter' = [iter EXCEPT ![r] = "drained"]
            \/ iter' = [iter EXCEPT ![r] = "ended"]
      \/ /\ iter[r] = "ended" /\ iter' = [iter EXCEPT ![r] = "closed"]
         /\ UNCHANGED pc
  <2>1. CASE OpenStream(g)
    <3>1. pc[r] = "lockSteps"
      BY <1>1, <1>2, <2>1 DEF OpenStream, ResponsesAreReaders
    <3>2. QED
      BY <2>1, <3>1 DEF OpenStream, LockReceive, Goto
  <2>2. CASE Pull(g)
    <3>1. pc[r] = "steps"
      BY <1>1, <1>2, <2>2 DEF Pull, ResponsesAreReaders
    <3>2. CASE UNCHANGED iter /\ (ReadStep(r) \/ ReadError(r))
      BY <3>2 DEF ReadStep, ReadError
    <3>3. CASE iter' = [iter EXCEPT ![r] = "drained"] /\ ReadIdle(r)
      BY <2>2, <3>1, <3>3 DEF Pull, ReadIdle, At, Goto
    <3>4. QED
      BY <2>2, <3>2, <3>3 DEF Pull
  <2>3. CASE PullContextEnds(g)
    BY <2>3 DEF PullContextEnds, AbandonTurn, Goto
  <2>4. CASE PullEnded(g)
    BY <2>4 DEF PullEnded, vars, conversationVars
  <2>5. QED
    BY <2>1, <2>2, <2>3, <2>4
<1> HIDE DEF r
<1>7. CursorTypes'
  BY <1>1, <1>2, <1>3, <1>6 DEF CursorTypes
<1>8. pc \in [Callers -> Positions] /\ Responses \subseteq Callers
  BY <1>2, WhoIsWho DEF TypeOK, ConversationTypeOK
<1>9. ResponsesAreReaders'
  BY <1>1, <1>2, <1>6, <1>8 DEF CursorTypes, ResponsesAreReaders
<1>10. QED
  BY <1>4, <1>5, <1>7, <1>9

LEMMA NextKeepsStreamInv == StreamInv /\ [ChatNext]_chatVars => StreamInv'
<1> SUFFICES ASSUME StreamInv, [ChatNext]_chatVars PROVE StreamInv'
  OBVIOUS
<1>1. [Next]_vars
  BY ChatStepIsStep
<1>2. TypeOK' /\ HoldersAreInside'
  BY <1>1, NextTypes, HoldersStayInside DEF StreamInv, ChatTypeOK
<1>3. CursorTypes' /\ BufferTypes' /\ ReadersHaveResponses'
      /\ ResponsesAreReaders'
  <2>1. CASE UNCHANGED <<pc, responseVars, previous, cursorVars, where>>
    BY <2>1, TypesAre
       DEF StreamInv, CursorTypes, BufferTypes, ReadersHaveResponses,
           ResponsesAreReaders, responseVars, cursorVars
  <2>2. (AgentGoes /\ Apart) \/ UNCHANGED chatVars =>
          UNCHANGED <<pc, responseVars, previous, cursorVars, where>>
    BY DEF AgentGoes, Apart, chatVars, vars, conversationVars
  <2>3. QED
    BY <2>1, <2>2, ChatCases, SendOnlyKeeps, ChatKeeps, WalkKeeps, AsideKeeps,
       PullKeeps
<1>4. (ChatTypeOK <=> TypeOK /\ CursorTypes /\ BufferTypes)'
  BY TypesAre, PTL
<1>5. QED
  BY <1>2, <1>3, <1>4 DEF StreamInv

THEOREM StreamInvariant == ChatSpec => []StreamInv
BY StreamInvInit, NextKeepsStreamInv, PTL DEF ChatSpec

\* Chat and its responses are goroutines of Conversation: what they do, however
\* many chat, walk, abandon and cancel, is a behaviour of it.
THEOREM ChatIsAConversation == ChatSpec => Spec
<1>1. ChatInit => Init
  BY DEF ChatInit
<1>2. QED
  BY <1>1, StreamInvariant, ChatStepIsStep, PTL DEF ChatSpec, Spec

\* The buffers, iterators, cursors and the conversation under them keep their
\* types for any number of goroutines: what is buffered is never the end of a
\* turn.
THEOREM ChatTypes == ChatSpec => []ChatTypeOK
<1>1. StreamInv => ChatTypeOK
  BY DEF StreamInv
<1>2. QED
  BY <1>1, StreamInvariant, PTL

\* conversation.go 124-126: an undrained response still holds the step stream,
\* and nothing else can be inside Steps until it has been released.  It holds
\* for any number of goroutines that chat, that read and that cancel, and
\* whatever they abandon.
THEOREM StreamHasOneHolder == ChatSpec => []OpenHoldsStream
<1>1. StreamInv => OpenHoldsStream
  BY WhoIsWho
     DEF StreamInv, OpenHoldsStream, ResponsesAreReaders, HoldersAreInside
<1>2. QED
  BY <1>1, StreamInvariant, PTL

----------------------------------------------------------------------------
\* One goroutine chats, and waits for the agent to be idle before it does.  It
\* may abandon responses, Chat may fail, and any number of goroutines may read
\* along; nobody halts a turn, and the harness does not go away.
OneChatter(c) ==
  /\ Chatters = {c}
  /\ "waitForIdle" \in Habits /\ "halt" \notin Habits
  /\ "crash" \notin Faults

Live(r) == iter[r] \in {"fresh", "open"}

\* Where the goroutine is in Chat, and where in Send.
PlaceFits(c) ==
  /\ where[c] \in {"out", "reading", "at", "halt"} => pc[c] \in {"idle", "sent"}
  /\ where[c] = "chat" => pc[c] \in SendPositions
  /\ where[c] \in {"release", "close"} => pc[c] = "checkIdle"
  /\ where[c] = "register" => pc[c] = "sent"

\* Send has released the response before.
Released(c) ==
  \/ where[c] \in {"close", "register"}
  \/ where[c] = "chat" /\ pc[c] \notin {"waitIdle", "lock"}

\* Only the response to the last prompt can be pulled, and only until the next
\* Send has released it.
LastOnly(c) ==
  /\ Released(c) => registered = NoResponse
  /\ \A r \in Responses : Live(r) =>
       /\ r = current
       /\ registered = r \/ (where[c] = "close" /\ previous[c] = r)
  /\ where[c] = "register" =>
       mine[c] = current /\ buf[current] = <<>> /\ recorded[current] = 0

\* A response that can be pulled has buffered all that was read of its turn,
\* one that is drained all there is.  Nothing is buffered of a turn that was
\* not asked for.
BuffersFit ==
  \A r \in Responses :
    /\ r > current => buf[r] = <<>> /\ iter[r] # "drained"
    /\ Live(r) => Buffered(r) = recorded[r]
    /\ iter[r] = "drained" => Buffered(r) = produced[r]
    /\ iter[r] = "drained" /\ r = current => Over
    /\ \A i \in 1..Len(buf[r]) : buf[r][i].turn \in {r, NoTurn}

OneChatterInv(c) ==
  /\ StreamInv /\ ToolInv /\ TurnInv(c)
  /\ PlaceFits(c) /\ LastOnly(c) /\ BuffersFit

----------------------------------------------------------------------------
\* What a step does to the turn of the last prompt.

\* Nothing that the buffers tell apart.
Quiet ==
  /\ UNCHANGED <<current, produced, recorded>>
  /\ Over => Over'

LEMMA AgentTurn ==
  ASSUME NEW c, OneChatter(c), ToolInv, TurnInv(c), AgentGoes, c \in Callers
  PROVE  TurnInv(c)' /\ (Quiet \/ Makes)
<1>1. CASE HarnessNext /\ UNCHANGED <<processorVars, conversationVars>>
  <2>1. /\ GoesOn /\ UNCHANGED recorded
        /\ \/ UNCHANGED produced
           \/ produced' = [produced EXCEPT ![current] = @ + 1]
    BY <1>1, HarnessGoesOn DEF OneChatter, HarnessOnly
  <2>2. TurnInv(c)' /\ ~Over /\ ~Over' /\ current' = current
    BY <2>1, TurnGoesOn DEF GoesOn
  <2>3. QED
    BY <2>1, <2>2 DEF Makes, Quiet
<1>2. CASE ProcessorNext /\ UNCHANGED conversationVars
  BY <1>2, ProcessorGoesOn DEF ProcessorOnly, Quiet
<1>3. QED
  BY <1>1, <1>2 DEF AgentGoes

LEMMA CallerTurn ==
  ASSUME NEW x \in Callers, "waitForIdle" \in Habits, ToolInv, TurnInv(x),
         CallerDoes(x)
  PROVE  /\ TurnInv(x)'
         /\ Quiet \/ (Shows /\ ReadStep(x)) \/ (Asks /\ SendInput(x))
<1>1. CASE \/ BeginSend(x) \/ WaitForIdle(x) \/ LockSend(x) \/ CheckIdle(x)
           \/ CheckPending(x) \/ NothingLeftover(x) \/ SendInputFails(x)
           \/ BeginSteps(x) \/ LockReceive(x) \/ AbandonTurn(x)
           \/ AbandonSend(x)
  BY <1>1, SendGoes DEF Quiet
<1>2. CASE ResetTurn(x) \/ ResetGate(x) \/ DiscardLeftover(x)
  BY <1>2, ResetFindsNothing DEF Quiet
<1>3. CASE SendInput(x)
  BY <1>3, PromptSent DEF Asks
<1>4. CASE ReadStep(x)
  BY <1>4, StepRead DEF Shows
<1>5. CASE ReadError(x)
  BY <1>5, ErrorRead DEF Quiet
<1>6. CASE ReadIdle(x)
  BY <1>6, MarkerRead DEF Quiet
<1>7. QED
  BY <1>1, <1>2, <1>3, <1>4, <1>5, <1>6
     DEF CallerDoes, SendGoesOn, StepsGoOn

\* A response is never inside Send.
LEMMA ReaderFits ==
  ASSUME NEW c \in Callers, StreamInv, TurnInv(c), NEW r \in Responses
  PROVE  TurnInv(r)
BY DEF StreamInv, ResponsesAreReaders, TurnInv, CallerFits, Checking, Asking

\* A response reads; the goroutine that chats is where it was.
LEMMA ReaderTurn ==
  ASSUME NEW c \in Callers \ Responses, "waitForIdle" \in Habits, StreamInv,
         ToolInv, TurnInv(c), NEW r \in Responses, CallerDoes(r),
         pc[r] # "idle" \/ BeginSteps(r)
  PROVE  TurnInv(c)' /\ (Quiet \/ (Shows /\ ReadStep(r)))
<1>1. r \in Callers /\ r # c /\ pc[r] \in {"idle", "lockSteps", "steps"}
      /\ TypeOK
  BY WhoIsWho DEF StreamInv, ResponsesAreReaders, ChatTypeOK
<1>2. TurnInv(r)
  BY ReaderFits
<1>3. /\ TurnInv(r)'
      /\ Quiet \/ (Shows /\ ReadStep(r)) \/ (Asks /\ SendInput(r))
  BY <1>1, <1>2, CallerTurn
<1>4. \/ BeginSteps(r) \/ AbandonTurn(r) \/ LockReceive(r) \/ ReadStep(r)
      \/ ReadError(r) \/ ReadIdle(r)
  BY <1>1 DEF CallerDoes, SendGoesOn, StepsGoOn, BeginSend, AbandonSend,
     WaitForIdle, LockSend, CheckIdle, CheckPending, ResetTurn, ResetGate,
     DiscardLeftover, NothingLeftover, SendInput, SendInputFails, At
<1>5. UNCHANGED <<idle, loop, current>>
  BY <1>4 DEF BeginSteps, AbandonTurn, LockReceive, ReadStep, ReadError,
     ReadIdle, TakeEvent, processorVars
<1>6. Quiet \/ (Shows /\ ReadStep(r))
  <2>1. ~SendInput(r)
    BY <1>1 DEF SendInput, At
  <2>2. QED
    BY <1>3, <2>1
<1>7. pc'[c] = pc[c]
  BY <1>1, OnlyItMoves
<1>8. CallerFits(c)'
  <2>1. Over => Over'
    BY <1>6 DEF Quiet, Shows
  <2>2. QED
    BY <1>5, <1>7, <2>1 DEF TurnInv, CallerFits
<1>9. QED
  BY <1>3, <1>6, <1>8 DEF TurnInv

LEMMA NothingTurn ==
  ASSUME NEW c \in Callers, TurnInv(c), UNCHANGED vars
  PROVE  TurnInv(c)' /\ Quiet
<1>1. CallerOnly /\ pc' = pc
  BY DEF vars, CallerOnly, conversationVars
<1>2. /\ Undisturbed' /\ Balance' /\ (Active \/ Concluded)'
      /\ Over' <=> Over
      /\ UNCHANGED <<current, produced, recorded, loop, queue, idle>>
  BY <1>1, CallerMoves
<1>3. CallerFits(c)'
  BY <1>1, <1>2 DEF TurnInv, CallerFits
<1>4. QED
  BY <1>2, <1>3 DEF TurnInv, Quiet

----------------------------------------------------------------------------
\* The buffers.

LEMMA BufferedCounts ==
  ASSUME BufferTypes, NEW r \in Responses
  PROVE  Buffered(r) = Count(buf[r], {Event("step", r)})
<1>1. DOMAIN buf[r] = 1..Len(buf[r])
  BY DEF BufferTypes
<1>2. QED
  BY <1>1 DEF Buffered, Count, Places

LEMMA BufferedSame ==
  ASSUME NEW r, buf'[r] = buf[r]
  PROVE  Buffered(r)' = Buffered(r)
BY DEF Buffered

\* The turns of the program are numbered as they are asked for.
LEMMA TurnNumbers ==
  ASSUME ToolInv
  PROVE  /\ current \in Nat /\ Responses \subseteq Nat \ {0}
         /\ produced \in [Responses -> Nat] /\ recorded \in [Responses -> Nat]
BY HarnessAssumption
   DEF ToolInv, TypeOK, HarnessTypeOK, ConversationTypeOK, Responses, Turns,
       NoTurn

\* Steps with the buffers as they are.
LEMMA BuffersStay ==
  ASSUME ToolInv, BuffersFit, UNCHANGED <<iter, buf>>,
         \/ Quiet \/ Makes
         \/ Shows /\ (\A r \in Responses : ~Live(r))
  PROVE  BuffersFit'
<1> SUFFICES ASSUME NEW r \in Responses
             PROVE  /\ (r > current => buf[r] = <<>> /\ iter[r] # "drained")'
                    /\ (Live(r) => Buffered(r) = recorded[r])'
                    /\ (iter[r] = "drained" => Buffered(r) = produced[r])'
                    /\ (iter[r] = "drained" /\ r = current => Over)'
                    /\ (\A i \in 1..Len(buf[r]) :
                          buf[r][i].turn \in {r, NoTurn})'
  BY DEF BuffersFit
<1>1. /\ Buffered(r)' = Buffered(r) /\ Live(r)' = Live(r)
      /\ current' = current /\ (Over => Over')
  BY BufferedSame DEF Live, Quiet, Makes, Shows
<1>2. Live(r) => recorded'[r] = recorded[r]
  BY DEF Quiet, Makes, Shows
<1>3. iter[r] = "drained" => produced'[r] = produced[r]
  BY TurnNumbers DEF Quiet, Makes, Shows, BuffersFit
<1>4. QED
  BY <1>1, <1>2, <1>3 DEF BuffersFit

\* A response that is closed, or whose context has ended, can be pulled no
\* more.
LEMMA BuffersAfterClose ==
  ASSUME StreamInv, ToolInv, BuffersFit, Quiet, NEW r \in Responses,
         \/ iter' = iter
         \/ iter' = [iter EXCEPT ![r] = "closed"]
         \/ iter' = [iter EXCEPT ![r] = "ended"],
         \/ UNCHANGED buf
         \/ Live(r) /\ r = current /\ iter'[r] = "ended"
              /\ buf' = [buf EXCEPT ![r] = Append(@, ContextError)]
  PROVE  BuffersFit'
<1>1. iter \in [Responses -> {"none", "fresh", "open", "ended", "drained",
                              "closed"}] /\ BufferTypes /\ TypeOK
  BY TypesAre DEF StreamInv, CursorTypes
<1>2. ASSUME NEW s \in Responses, s # r \/ iter' = iter, buf'[s] = buf[s]
      PROVE  /\ (s > current => buf[s] = <<>> /\ iter[s] # "drained")'
             /\ (Live(s) => Buffered(s) = recorded[s])'
             /\ (iter[s] = "drained" => Buffered(s) = produced[s])'
             /\ (iter[s] = "drained" /\ s = current => Over)'
             /\ (\A i \in 1..Len(buf[s]) :
                   buf[s][i].turn \in {s, NoTurn})'
  <2>1. iter'[s] = iter[s] /\ Buffered(s)' = Buffered(s)
    BY <1>1, <1>2, BufferedSame
  <2>2. QED
    BY <1>2, <2>1 DEF BuffersFit, Live, Quiet
<1>3. CASE iter' = iter
  <2>1. UNCHANGED buf
    BY <1>1, <1>3 DEF Live
  <2>2. QED
    BY <1>3, <2>1, BuffersStay
<1>4. CASE iter' # iter
  <2>1. /\ iter'[r] \in {"closed", "ended"}
        /\ \A s \in Responses : s # r => buf'[s] = buf[s]
    BY <1>1, <1>4 DEF BufferTypes
  <2>2. \A i \in 1..Len(buf'[r]) : buf'[r][i].turn \in {r, NoTurn}
    <3>1. CASE UNCHANGED buf
      BY <3>1 DEF BuffersFit
    <3>2. CASE buf' = [buf EXCEPT ![r] = Append(@, ContextError)]
      <4>1. /\ buf'[r] = Append(buf[r], ContextError)
            /\ buf[r] \in Seq(Entries) /\ ContextError \in Entries
        BY <1>1, <3>2, EntriesAre DEF BufferTypes
      <4>2. ContextError.turn = NoTurn
        BY DEF ContextError, Event
      <4>3. \A i \in 1..Len(buf[r]) : buf[r][i].turn \in {r, NoTurn}
        BY DEF BuffersFit
      <4> HIDE DEF NoTurn
      <4>4. QED
        BY <4>1, <4>2, <4>3
    <3>3. QED
      BY <3>1, <3>2
  <2>3. r > current' => buf'[r] = <<>>
    BY TurnNumbers DEF BuffersFit, Quiet
  <2>4. QED
    BY <1>2, <2>1, <2>2, <2>3 DEF BuffersFit, Live
<1>5. QED
  BY <1>3, <1>4

\* The first pull.
LEMMA BuffersOpened ==
  ASSUME StreamInv, ToolInv, BuffersFit, Quiet, UNCHANGED buf,
         NEW r \in Responses, iter[r] = "fresh",
         iter' = [iter EXCEPT ![r] = "open"]
  PROVE  BuffersFit'
<1>1. iter \in [Responses -> {"none", "fresh", "open", "ended", "drained",
                              "closed"}]
  BY DEF StreamInv, ChatTypeOK
<1>2. \A s \in Responses : Buffered(s)' = Buffered(s)
  BY BufferedSame
<1>3. QED
  BY <1>1, <1>2 DEF BuffersFit, Live, Quiet

\* newChatResponse: nothing has been read of the turn.
LEMMA BuffersWithNew ==
  ASSUME StreamInv, ToolInv, BuffersFit, Quiet, UNCHANGED buf,
         current \in Responses, buf[current] = <<>>,
         recorded[current] = 0,
         iter' = [iter EXCEPT ![current] = "fresh"]
  PROVE  BuffersFit'
<1>1. iter \in [Responses -> {"none", "fresh", "open", "ended", "drained",
                              "closed"}] /\ BufferTypes
  BY TypesAre DEF StreamInv, CursorTypes
<1>2. \A s \in Responses : Buffered(s)' = Buffered(s)
  BY BufferedSame
<1>3. Buffered(current) = 0
  <2>1. Buffered(current) = Count(<<>>, {Event("step", current)})
    BY <1>1, BufferedCounts
  <2>2. QED
    BY <2>1, CountNone, EmptyOccurs
<1>4. current' = current /\ ~(current > current)
  BY TurnNumbers DEF Quiet
<1>5. QED
  BY <1>1, <1>2, <1>3, <1>4 DEF BuffersFit, Live, Quiet

\* The prompt of the next turn, while nothing can be pulled.
LEMMA BuffersWithNext ==
  ASSUME ToolInv, BuffersFit, UNCHANGED <<iter, buf, recorded, produced>>,
         current' = current + 1, \A r \in Responses : ~Live(r)
  PROVE  BuffersFit'
<1>1. \A s \in Responses : Buffered(s)' = Buffered(s)
  BY BufferedSame
<1>2. current \in Nat /\ Responses \subseteq Nat
  BY TurnNumbers
<1>3. QED
  BY <1>1, <1>2 DEF BuffersFit, Live

\* r.next: what is read is buffered; the end of the turn is not, and then all
\* of the turn was.
LEMMA BuffersPulled ==
  ASSUME NEW c \in Callers, StreamInv, ToolInv, TurnInv(c), BuffersFit,
         LastOnly(c), NEW g \in Goroutines, Pull(g),
         NEW r \in Responses, r = mine[g],
         Quiet \/ (Shows /\ ReadStep(r))
  PROVE  BuffersFit'
<1> DEFINE step == {Event("step", r)}
<1>1. /\ r \in Responses /\ r \in Callers /\ iter[r] = "open"
      /\ pc[r] = "steps"
  BY ReaderReads, WhoIsWho
     DEF Pull, AtLiveEdge, Reading, StreamInv, ResponsesAreReaders
<1>2. r = current /\ TurnInv(r) /\ Live(r)
  BY <1>1, ReaderFits DEF LastOnly, Live
<1>3. iter \in [Responses -> {"none", "fresh", "open", "ended", "drained",
                              "closed"}] /\ BufferTypes /\ TypeOK
  BY TypesAre DEF StreamInv, CursorTypes
<1>4. /\ current' = current /\ current \in Nat /\ Responses \subseteq Nat
      /\ produced' = produced
      /\ produced \in [Responses -> Nat] /\ recorded \in [Responses -> Nat]
  BY TurnNumbers DEF Quiet, Shows
<1>5. Buffered(r) = recorded[r]
  BY <1>1, <1>2 DEF BuffersFit
<1>6. ASSUME NEW s \in Responses, s # r,
             buf' = buf \/ \E e : buf' = [buf EXCEPT ![r] = Append(@, e)],
             iter' = iter \/ iter' = [iter EXCEPT ![r] = "drained"]
      PROVE  /\ (s > current => buf[s] = <<>> /\ iter[s] # "drained")'
             /\ (Live(s) => Buffered(s) = recorded[s])'
             /\ (iter[s] = "drained" => Buffered(s) = produced[s])'
             /\ (iter[s] = "drained" /\ s = current => Over)'
             /\ (\A i \in 1..Len(buf[s]) :
                   buf[s][i].turn \in {s, NoTurn})'
  <2>1. buf'[s] = buf[s] /\ iter'[s] = iter[s]
    BY <1>1, <1>3, <1>6 DEF BufferTypes
  <2>2. Buffered(s)' = Buffered(s)
    BY <2>1, BufferedSame
  <2>3. s # current
    BY <1>2, <1>6
  <2>4. ~Live(s)
    BY <2>3 DEF LastOnly
  <2>5. QED
    BY <1>4, <2>1, <2>2, <2>3, <2>4 DEF BuffersFit, Live
<1>7. CASE (ReadStep(r) \/ ReadError(r)) /\ UNCHANGED iter
           /\ buf' = [buf EXCEPT ![r] = Append(@, Head(queue))]
  <2>1. queue # <<>> /\ Head(queue).kind \in {"step", "err"}
    BY <1>7 DEF ReadStep, ReadError, TakeEvent
  <2>2. Head(queue) \in TurnEvents
    BY <2>1, QueueHas, EventsAre DEF TurnInv
  <2>3. /\ Head(queue).turn = r /\ Head(queue) \in Entries
        /\ Head(queue).kind = "step" <=> Head(queue) \in step
    BY <1>2, <1>3, <2>1, <2>2, EventsAre, EntriesAre DEF StepEvent
  <2>4. buf[r] \in Seq(Entries)
        /\ buf'[r] = Append(buf[r], Head(queue))
    BY <1>1, <1>3, <1>7 DEF BufferTypes
  <2>5. Buffered(r) = Count(buf[r], step)
    BY <1>1, <1>3, BufferedCounts
  <2>6. Buffered(r)' = Count(buf'[r], step)
    <3>1. DOMAIN buf'[r] = 1..Len(buf'[r])
      BY <2>3, <2>4
    <3>2. QED
      BY <1>2, <1>4, <3>1 DEF Buffered, Count, Places
  <2>7. Buffered(r)' = recorded'[r]
    <3>1. CASE ReadStep(r)
      <4>1. Head(queue) \in step
        BY <2>3, <3>1 DEF ReadStep, TakeEvent
      <4>2. Buffered(r)' = Buffered(r) + 1
        BY <2>3, <2>4, <2>5, <2>6, <4>1, CountAppend
      <4>3. recorded'[r] = recorded[r] + 1
        BY <1>1, <1>2, <1>4, <3>1, StepRead
      <4>4. QED
        BY <1>5, <4>2, <4>3
    <3>2. CASE ReadError(r)
      <4>1. Head(queue) \notin step
        BY <2>3, <3>2 DEF ReadError, TakeEvent
      <4>2. Buffered(r)' = Buffered(r)
        BY <2>3, <2>4, <2>5, <2>6, <4>1, CountAppend
      <4>3. recorded' = recorded
        BY <3>2 DEF ReadError
      <4>4. QED
        BY <1>5, <4>2, <4>3
    <3>3. QED
      BY <1>7, <3>1, <3>2
  <2>8. \A i \in 1..Len(buf'[r]) : buf'[r][i].turn \in {r, NoTurn}
    <3>1. \A i \in 1..Len(buf[r]) : buf[r][i].turn \in {r, NoTurn}
      BY <1>1 DEF BuffersFit
    <3> HIDE DEF NoTurn
    <3>2. QED
      BY <2>3, <2>4, <3>1
  <2>9. ~(r > current') /\ iter'[r] = "open"
    BY <1>1, <1>2, <1>4, <1>7
  <2>10. QED
    BY <1>6, <1>7, <2>7, <2>8, <2>9 DEF BuffersFit, Live
<1>8. CASE ReadIdle(r) /\ UNCHANGED buf
           /\ iter' = [iter EXCEPT ![r] = "drained"]
  <2>1. Over' /\ recorded[current] = produced[current]
    BY <1>1, <1>2, <1>8, MarkerRead
  <2>2. Buffered(r)' = Buffered(r)
    BY <1>8, BufferedSame
  <2>3. iter'[r] = "drained" /\ ~(r > current')
    BY <1>1, <1>2, <1>3, <1>4, <1>8
  <2>4. Buffered(r)' = produced'[r]
    BY <1>2, <1>4, <1>5, <2>1, <2>2
  <2>5. \A i \in 1..Len(buf'[r]) : buf'[r][i].turn \in {r, NoTurn}
    BY <1>1, <1>8 DEF BuffersFit
  <2>6. QED
    BY <1>6, <1>8, <2>1, <2>3, <2>4, <2>5 DEF BuffersFit, Live
<1>9. QED
  BY <1>7, <1>8 DEF Pull

----------------------------------------------------------------------------
\* The invariant of one goroutine that chats is kept.

LEMMA OneChatterIs ==
  ASSUME NEW c, OneChatter(c)
  PROVE  /\ c \in Callers /\ c \in Callers \ Responses /\ c \in Goroutines
         /\ c \in Chatters /\ c \notin Walkers
BY WhoIsWho DEF OneChatter

LEMMA NothingIsLive ==
  ASSUME NEW c, StreamInv, LastOnly(c), Released(c), where[c] # "close"
  PROVE  \A r \in Responses : ~Live(r)
BY WhoIsWho DEF LastOnly

\* Steps in which c does not send.
Elsewhere == {"out", "reading", "at", "halt"}
ReadingOn(c) ==
  /\ UNCHANGED <<registered, previous, current>> /\ pc'[c] = pc[c]
  /\ \/ where'[c] = where[c] /\ mine'[c] = mine[c]
     \/ where[c] \in Elsewhere /\ where'[c] \in Elsewhere

LEMMA StaysLast ==
  ASSUME NEW c, PlaceFits(c), LastOnly(c), ReadingOn(c),
         \A r \in Responses : Live(r)' => Live(r),
         where[c] = "register" => UNCHANGED <<buf, recorded>>
  PROVE  PlaceFits(c)' /\ LastOnly(c)'
BY DEF PlaceFits, LastOnly, ReadingOn, Elsewhere, Released

LEMMA AgentKeepsOne ==
  ASSUME NEW c, OneChatter(c), OneChatterInv(c), AgentGoes, Apart
  PROVE  TurnInv(c)' /\ PlaceFits(c)' /\ LastOnly(c)' /\ BuffersFit'
<1> USE DEF OneChatterInv
<1>1. TurnInv(c)' /\ (Quiet \/ Makes)
  BY AgentTurn, OneChatterIs
<1>2. UNCHANGED <<responseVars, previous, cursorVars, where, pc, current,
                  recorded>>
  BY DEF AgentGoes, Apart, conversationVars
<1>3. BuffersFit'
  BY <1>1, <1>2, BuffersStay DEF responseVars
<1>4. PlaceFits(c)' /\ LastOnly(c)'
  BY <1>2, StaysLast DEF responseVars, cursorVars, ReadingOn, Live
<1>5. QED
  BY <1>1, <1>3, <1>4

LEMMA SendKeepsOne ==
  ASSUME NEW c, OneChatter(c), OneChatterInv(c), SendOnly(c)
  PROVE  TurnInv(c)' /\ PlaceFits(c)' /\ LastOnly(c)' /\ BuffersFit'
<1> USE OneChatterIs DEF OneChatterInv
<1>1. "waitForIdle" \in Habits /\ CallerDoes(c)
  BY SendOnlyDoes DEF OneChatter
<1>2. UNCHANGED <<current, registered, previous, iter, buf>>
      /\ where[c] \in {"out", "reading", "chat"}
  BY DEF SendOnly, BeginChat, ChatLocks, SendGoesFurther, ChatLocksDrain,
         DrainFails, ChatFails, ChatGivesUp, BeginSend, LockSend, WaitForIdle,
         CheckIdle, CheckPending, ResetTurn, ResetGate, DiscardLeftover,
         NothingLeftover, ReadStep, ReadError, ReadIdle, TakeEvent,
         LockReceive, SendInputFails, AbandonSend, Go, responseVars
<1>3. TurnInv(c)' /\ (Quiet \/ (Shows /\ ReadStep(c)))
  <2>1. ~Asks
    BY <1>2, TurnNumbers DEF Asks
  <2>2. QED
    BY <1>1, <2>1, CallerTurn
<1>4. ReadStep(c) => \A r \in Responses : ~Live(r)
  <2>1. ReadStep(c) => where[c] = "chat" /\ pc[c] = "drain"
    BY <1>2 DEF ReadStep, TakeEvent, PlaceFits, SendPositions
  <2>2. QED
    BY <2>1, NothingIsLive DEF Released
<1>5. BuffersFit'
  BY <1>2, <1>3, <1>4, BuffersStay
<1>6. /\ where'[c] \in {"out", "chat", "release"}
      /\ where'[c] = "out" => pc'[c] = "idle"
      /\ where'[c] = "release" => pc'[c] = "checkIdle"
      /\ where'[c] = "chat" =>
           /\ pc'[c] \in SendPositions
           /\ pc'[c] \in {"waitIdle", "lock"} \/ Released(c)
  <2>1. where \in [Goroutines -> {"out"} \union ChatPositions
                                         \union CursorPositions]
        /\ pc \in [Callers -> Positions]
    BY DEF StreamInv, ChatTypeOK, TypeOK, ConversationTypeOK
  <2>2. CASE BeginChat(c)
    BY <1>1, <2>1, <2>2 DEF BeginChat, BeginSend, Goto, Go, SendPositions
  <2>3. CASE ChatLocks(c)
    BY <2>1, <2>3 DEF ChatLocks, LockSend, Goto, Go
  <2>4. CASE SendGoesFurther(c)
    <3>1. where'[c] = "chat" /\ where[c] = "chat" /\ pc[c] \in SendPositions
      BY <2>4 DEF SendGoesFurther, PlaceFits
    <3>2. CASE \/ WaitForIdle(c) \/ CheckIdle(c) \/ CheckPending(c)
               \/ ResetTurn(c) \/ ResetGate(c) \/ DiscardLeftover(c)
               \/ NothingLeftover(c)
      BY <2>1, <3>1, <3>2
         DEF WaitForIdle, CheckIdle, CheckPending, ResetTurn, ResetGate,
             DiscardLeftover, NothingLeftover, Goto, At, SendPositions,
             Released
    <3>3. CASE ReadStep(c) \/ ReadError(c) \/ (ReadIdle(c) /\ ~drainErr[c])
      BY <2>1, <3>1, <3>3
         DEF ReadStep, ReadError, ReadIdle, TakeEvent, Goto, At,
             SendPositions, Released
    <3>4. QED
      BY <2>4, <3>2, <3>3 DEF SendGoesFurther
  <2>5. CASE ChatLocksDrain(c)
    BY <2>1, <2>5
       DEF ChatLocksDrain, LockReceive, Goto, PlaceFits, SendPositions,
           Released
  <2>6. CASE DrainFails(c)
    BY <2>1, <2>6
       DEF DrainFails, ReadIdle, Goto, Go, At
  <2>7. CASE ChatFails(c) \/ ChatGivesUp(c)
    BY <2>1, <2>7
       DEF ChatFails, ChatGivesUp, SendInputFails, AbandonSend, Goto, Go
  <2>8. QED
    BY <2>2, <2>3, <2>4, <2>5, <2>6, <2>7 DEF SendOnly
<1>7. PlaceFits(c)'
  BY <1>6 DEF PlaceFits
<1>8. LastOnly(c)'
  BY <1>2, <1>6 DEF LastOnly, Released, Live
<1>9. QED
  BY <1>3, <1>5, <1>7, <1>8

LEMMA AskKeepsOne ==
  ASSUME NEW c, OneChatter(c), OneChatterInv(c), ChatAsks(c)
  PROVE  TurnInv(c)' /\ PlaceFits(c)' /\ LastOnly(c)' /\ BuffersFit'
<1> USE OneChatterIs DEF OneChatterInv
<1>1. /\ UNCHANGED <<registered, iter, buf, previous, recorded, produced>>
      /\ where[c] = "chat" /\ pc[c] = "input" /\ current' = lastTurn'
      /\ mine' = [mine EXCEPT ![c] = lastTurn'] /\ SendInput(c)
      /\ where' = [where EXCEPT ![c] = "register"]
      /\ pc' = [pc EXCEPT ![c] = "sent"]
  BY DEF ChatAsks, SendInput, RequestTurn, Go, Goto, At, responseVars
<1>2. TurnInv(c)' /\ Asks
  BY <1>1, PromptSent DEF Asks
<1>3. Released(c) /\ \A r \in Responses : ~Live(r)
  BY <1>1, NothingIsLive DEF Released
<1>4. BuffersFit'
  BY <1>1, <1>2, <1>3, BuffersWithNext DEF Asks
<1>5. where'[c] = "register" /\ pc'[c] = "sent" /\ mine'[c] = current'
  BY <1>1 DEF StreamInv, ChatTypeOK, TypeOK, ConversationTypeOK
<1>6. /\ current' \in Responses /\ recorded'[current'] = 0
      /\ buf[current'] = <<>>
  BY <1>2, TurnNumbers DEF Asks, Responses, BuffersFit
<1>7. PlaceFits(c)'
  BY <1>5 DEF PlaceFits
<1>8. LastOnly(c)'
  BY <1>1, <1>3, <1>5, <1>6 DEF LastOnly, Live
<1>9. QED
  BY <1>2, <1>4, <1>7, <1>8

\* Closing a response: nobody can pull it any more.
LEMMA ClosingOne ==
  ASSUME NEW c, OneChatter(c), OneChatterInv(c), NEW r \in Responses,
         CloseEffect(r), UNCHANGED buf
  PROVE  /\ TurnInv(c)' /\ BuffersFit'
         /\ UNCHANGED <<current, recorded>> /\ pc'[c] = pc[c]
         /\ \A s \in Responses : Live(s)' => Live(s) /\ s # r
<1> USE OneChatterIs DEF OneChatterInv
<1>1. iter \in [Responses -> {"none", "fresh", "open", "ended", "drained",
                              "closed"}] /\ TypeOK
  BY TypesAre DEF StreamInv, CursorTypes
<1>2. CASE iter[r] = "open"
  <2>1. AbandonTurn(r) /\ pc[r] # "idle" /\ r \in Callers /\ r # c
    BY <1>2, WhoIsWho DEF CloseEffect, StreamInv, ResponsesAreReaders
  <2>2. CallerDoes(r) /\ ~ReadStep(r)
    <3>1. queue' = queue /\ recorded' = recorded
      BY <2>1 DEF AbandonTurn, processorVars
    <3>2. TypeOK => (ReadStep(r) => queue' # queue)
      <4>1. ASSUME TypeOK, ReadStep(r) PROVE queue' # queue
        <5>1. queue # <<>> /\ queue' = Tail(queue) /\ queue \in Seq(StepEvents)
          BY <4>1 DEF ReadStep, TakeEvent, TypeOK, ProcessorTypeOK
        <5>2. Len(queue') # Len(queue)
          BY <5>1
        <5>3. QED
          BY <5>2
      <4>2. QED
        BY <4>1
    <3>3. QED
      BY <1>1, <2>1, <3>1, <3>2 DEF CallerDoes
  <2>3. TurnInv(c)' /\ Quiet
    BY <2>1, <2>2, ReaderTurn DEF OneChatter
  <2>4. pc'[c] = pc[c]
    BY <1>1, <2>1, <2>2, OnlyItMoves
  <2>5. QED
    BY <1>1, <2>3, <2>4, BuffersAfterClose DEF CloseEffect, Live, Quiet, Done
<1>3. CASE iter[r] # "open"
  <2>1. UNCHANGED vars
    BY <1>3 DEF CloseEffect
  <2>2. TurnInv(c)' /\ Quiet /\ pc' = pc
    BY <2>1, NothingTurn DEF vars, conversationVars
  <2>3. iter' = iter \/ iter' = [iter EXCEPT ![r] = "closed"]
    BY <1>1 DEF CloseEffect, Done
  <2>4. QED
    BY <1>1, <2>2, <2>3, BuffersAfterClose DEF CloseEffect, Live, Quiet, Done
<1>4. QED
  BY <1>2, <1>3

\* Send releases the previous response, and then closes it.
LEMMA ReleaseKeepsOne ==
  ASSUME NEW c, OneChatter(c), OneChatterInv(c),
         ReleasePrevious(c) \/ ClosePrevious(c)
  PROVE  TurnInv(c)' /\ PlaceFits(c)' /\ LastOnly(c)' /\ BuffersFit'
<1> USE OneChatterIs DEF OneChatterInv
<1>1. /\ where \in [Goroutines -> {"out"} \union ChatPositions
                                        \union CursorPositions]
      /\ previous \in [Chatters -> Responses \union {NoResponse}]
  BY DEF StreamInv, ChatTypeOK
<1>2. CASE ReleasePrevious(c)
  <2>1. /\ where[c] = "release" /\ pc[c] = "checkIdle"
        /\ UNCHANGED <<vars, iter, buf>>
        /\ registered' = NoResponse /\ previous'[c] = registered
        /\ where'[c] = IF registered = NoResponse THEN "chat" ELSE "close"
    BY <1>1, <1>2 DEF ReleasePrevious, Go, PlaceFits
  <2>2. TurnInv(c)' /\ Quiet /\ pc' = pc
    BY <2>1, NothingTurn DEF vars, conversationVars
  <2>3. BuffersFit'
    BY <2>1, <2>2, BuffersStay
  <2>4. PlaceFits(c)'
    BY <2>1, <2>2 DEF PlaceFits, SendPositions
  <2>5. LastOnly(c)'
    BY <2>1, <2>2, WhoIsWho DEF LastOnly, Live, Quiet
  <2>6. QED
    BY <2>2, <2>3, <2>4, <2>5
<1>3. CASE ClosePrevious(c)
  <2>1. /\ where[c] = "close" /\ pc[c] = "checkIdle" /\ where'[c] = "chat"
        /\ CloseEffect(previous[c]) /\ UNCHANGED <<registered, buf>>
    BY <1>1, <1>3 DEF ClosePrevious, Go, PlaceFits
  <2>2. previous[c] \in Responses
    BY <1>3, PreviousIsThere
  <2>3. /\ TurnInv(c)' /\ BuffersFit'
        /\ UNCHANGED <<current, recorded>> /\ pc'[c] = pc[c]
        /\ \A s \in Responses : Live(s)' => Live(s) /\ s # previous[c]
    BY <2>1, <2>2, ClosingOne
  <2>4. registered = NoResponse /\ \A s \in Responses : ~Live(s)'
    BY <2>1, <2>3, WhoIsWho DEF LastOnly, Released
  <2>5. PlaceFits(c)'
    BY <2>1, <2>3 DEF PlaceFits, SendPositions
  <2>6. LastOnly(c)'
    BY <2>1, <2>4 DEF LastOnly
  <2>7. QED
    BY <2>3, <2>5, <2>6
<1>4. QED
  BY <1>2, <1>3

LEMMA RegisterKeepsOne ==
  ASSUME NEW c, OneChatter(c), OneChatterInv(c), Register(c)
  PROVE  TurnInv(c)' /\ PlaceFits(c)' /\ LastOnly(c)' /\ BuffersFit'
<1> USE OneChatterIs DEF OneChatterInv
<1>1. /\ where[c] = "register" /\ where'[c] = "reading" /\ pc[c] = "sent"
      /\ mine[c] = current /\ buf[current] = <<>> /\ recorded[current] = 0
      /\ BeginSteps(current) /\ iter' = [iter EXCEPT ![current] = "fresh"]
      /\ registered' = current /\ UNCHANGED <<buf, previous>>
  BY DEF Register, Go, PlaceFits, LastOnly, cursorVars, StreamInv, ChatTypeOK
<1>2. current \in Responses /\ current \in Callers /\ current # c
  BY <1>1, ReaderReads, WhoIsWho DEF Reading
<1>3. TurnInv(c)' /\ Quiet
  <2>1. CallerDoes(current) /\ ~ReadStep(current)
    <3>1. queue' = queue
      BY <1>1 DEF BeginSteps, processorVars
    <3>2. ASSUME ReadStep(current) PROVE FALSE
      <4>1. queue # <<>> /\ queue' = Tail(queue) /\ queue \in Seq(StepEvents)
        BY <3>2 DEF ReadStep, TakeEvent, ToolInv, TypeOK, ProcessorTypeOK
      <4>2. Len(queue') # Len(queue)
        BY <4>1
      <4>3. QED
        BY <3>1, <4>2
    <3>3. QED
      BY <1>1, <3>2 DEF CallerDoes
  <2>2. QED
    BY <1>1, <1>2, <2>1, ReaderTurn DEF OneChatter
<1>4. BuffersFit'
  BY <1>1, <1>2, <1>3, BuffersWithNew
<1>5. pc'[c] = "sent"
  BY <1>1, <1>2 DEF BeginSteps, Goto, ToolInv, TypeOK, ConversationTypeOK
<1>6. PlaceFits(c)'
  BY <1>1, <1>5 DEF PlaceFits
<1>7. \A r \in Responses : ~Live(r)
  BY <1>1, NothingIsLive DEF Released
<1>8. LastOnly(c)'
  BY <1>1, <1>2, <1>3, <1>7
     DEF LastOnly, Released, Live, Quiet, StreamInv, ChatTypeOK
<1>9. QED
  BY <1>3, <1>4, <1>6, <1>8

\* The goroutine that chats closes the response it has read.
LEMMA CloseKeepsOne ==
  ASSUME NEW c, OneChatter(c), OneChatterInv(c), CloseResponse(c)
  PROVE  TurnInv(c)' /\ PlaceFits(c)' /\ LastOnly(c)' /\ BuffersFit'
<1> USE OneChatterIs DEF OneChatterInv
<1>1. /\ where[c] = "reading" /\ where'[c] = "out" /\ CloseEffect(mine[c])
      /\ UNCHANGED <<registered, buf, previous>>
  BY DEF CloseResponse, Go, StreamInv, ChatTypeOK
<1>2. mine[c] \in Responses
  BY <1>1, ReaderReads DEF Reading
<1>3. /\ TurnInv(c)' /\ BuffersFit'
      /\ UNCHANGED <<current, recorded>> /\ pc'[c] = pc[c]
      /\ \A s \in Responses : Live(s)' => Live(s) /\ s # mine[c]
  BY <1>1, <1>2, ClosingOne
<1>4. PlaceFits(c)' /\ LastOnly(c)'
  BY <1>1, <1>3, StaysLast DEF ReadingOn, Elsewhere
<1>5. QED
  BY <1>3, <1>4

\* A cursor moves, in c or in another goroutine.
LEMMA CursorKeepsOne ==
  ASSUME NEW c, OneChatter(c), OneChatterInv(c), NEW g \in Goroutines,
         Aside(g) \/ (g \in Walkers /\ Walk(g))
  PROVE  TurnInv(c)' /\ PlaceFits(c)' /\ LastOnly(c)' /\ BuffersFit'
<1> USE OneChatterIs DEF OneChatterInv
<1>1. UNCHANGED <<vars, registered, previous, iter, buf>>
  <2>1. ~Halt
    BY DEF OneChatter, Halt
  <2>2. QED
    BY <2>1, AsideDoes
       DEF Aside, LockResponse, ReadBuffered, ReadEnd, BeginCancel, HaltTurn,
           Walk, responseVars
<1>2. TurnInv(c)' /\ Quiet /\ pc' = pc
  BY <1>1, NothingTurn DEF vars, conversationVars
<1>3. BuffersFit'
  BY <1>1, <1>2, BuffersStay
<1>4. CASE g = c
  <2>1. where[c] \in Elsewhere /\ where'[c] \in Elsewhere
    BY <1>4 DEF Aside, LockResponse, ReadBuffered, ReadEnd, BeginCancel,
                HaltTurn, Go, Elsewhere, StreamInv, ChatTypeOK
  <2>2. PlaceFits(c)' /\ LastOnly(c)'
    BY <1>1, <1>2, <2>1, StaysLast DEF ReadingOn, Quiet, Live
  <2>3. QED
    BY <1>2, <1>3, <2>2
<1>5. CASE g # c
  <2>1. where'[c] = where[c] /\ mine'[c] = mine[c]
    BY <1>5 DEF Aside, LockResponse, ReadBuffered, ReadEnd, BeginCancel,
                HaltTurn, Walk, Drops, Go, cursorVars, StreamInv, ChatTypeOK
  <2>2. PlaceFits(c)' /\ LastOnly(c)'
    BY <1>1, <1>2, <2>1, StaysLast DEF ReadingOn, Quiet, Live
  <2>3. QED
    BY <1>2, <1>3, <2>2
<1>6. QED
  BY <1>4, <1>5

LEMMA PullKeepsOne ==
  ASSUME NEW c, OneChatter(c), OneChatterInv(c), NEW g \in Goroutines,
         OpenStream(g) \/ Pull(g) \/ PullContextEnds(g) \/ PullEnded(g)
  PROVE  TurnInv(c)' /\ PlaceFits(c)' /\ LastOnly(c)' /\ BuffersFit'
<1> USE OneChatterIs DEF OneChatterInv
<1>1. PICK r \in Responses : r = mine[g]
  BY ReaderReads
     DEF OpenStream, Pull, PullContextEnds, PullEnded, AtLiveEdge, Reading
<1>2. /\ iter \in [Responses -> {"none", "fresh", "open", "ended", "drained",
                                 "closed"}] /\ BufferTypes /\ TypeOK
      /\ r \in Callers /\ r # c
  BY <1>1, TypesAre, WhoIsWho DEF StreamInv, CursorTypes
<1>3. UNCHANGED <<registered, previous, mine, where>>
  BY DEF OpenStream, Pull, PullContextEnds, PullEnded, cursorVars
<1>4. CASE PullEnded(g)
  <2>1. /\ UNCHANGED <<vars, buf>> /\ iter[r] = "ended"
        /\ iter' = [iter EXCEPT ![r] = "closed"]
    BY <1>1, <1>4 DEF PullEnded
  <2>2. TurnInv(c)' /\ Quiet /\ pc' = pc
    BY <2>1, NothingTurn DEF vars, conversationVars
  <2>3. BuffersFit'
    BY <2>1, <2>2, BuffersAfterClose
  <2>4. PlaceFits(c)' /\ LastOnly(c)'
    BY <1>2, <1>3, <2>1, <2>2, StaysLast DEF ReadingOn, Quiet, Live
  <2>5. QED
    BY <2>2, <2>3, <2>4
<1>5. CASE OpenStream(g) \/ Pull(g) \/ PullContextEnds(g)
  <2>1. CallerDoes(r) /\ Live(r) /\ pc[r] # "idle" /\ r = current
    BY <1>1, <1>5, PullDoes
       DEF OpenStream, Pull, PullContextEnds, Live, StreamInv,
           ResponsesAreReaders, LastOnly
  <2>2. TurnInv(c)' /\ (Quiet \/ (Shows /\ ReadStep(r)))
    BY <2>1, ReaderTurn DEF OneChatter
  <2>3. current' = current /\ pc'[c] = pc[c]
    BY <1>2, <2>1, <2>2, OnlyItMoves DEF Quiet, Shows
  <2>4. where[c] # "register"
    BY <2>1, NothingIsLive DEF Released
  <2>5. iter' = iter \/ \E to : iter' = [iter EXCEPT ![r] = to]
    BY <1>1, <1>5 DEF OpenStream, Pull, PullContextEnds
  <2>6. \A s \in Responses : Live(s)' => Live(s)
    BY <1>2, <2>1, <2>5 DEF Live
  <2>7. PlaceFits(c)' /\ LastOnly(c)'
    BY <1>3, <2>3, <2>4, <2>6, StaysLast DEF ReadingOn
  <2>8. CASE Pull(g)
    BY <1>1, <2>2, <2>7, <2>8, BuffersPulled
  <2>9. CASE OpenStream(g) \/ PullContextEnds(g)
    <3>1. queue' = queue
      BY <2>9 DEF OpenStream, PullContextEnds, LockReceive, AbandonTurn,
                  processorVars
    <3>2. ~ReadStep(r)
      <4>1. ASSUME ReadStep(r) PROVE FALSE
        <5>1. /\ queue # <<>> /\ queue' = Tail(queue)
              /\ queue \in Seq(StepEvents)
          BY <1>2, <4>1 DEF ReadStep, TakeEvent, TypeOK, ProcessorTypeOK
        <5>2. Len(queue') # Len(queue)
          BY <5>1
        <5>3. QED
          BY <3>1, <5>2
      <4>2. QED
        BY <4>1
    <3>3. Quiet
      BY <2>2, <3>2
    <3>4. CASE OpenStream(g)
      <4>1. /\ UNCHANGED buf /\ iter[r] = "fresh"
            /\ iter' = [iter EXCEPT ![r] = "open"]
        BY <1>1, <3>4 DEF OpenStream
      <4>2. QED
        BY <1>2, <2>2, <2>7, <3>3, <4>1, BuffersOpened
    <3>5. CASE PullContextEnds(g)
      <4>1. /\ iter' = [iter EXCEPT ![r] = "ended"]
            /\ buf' = [buf EXCEPT ![r] = Append(@, ContextError)]
        BY <1>1, <3>5 DEF PullContextEnds
      <4>2. iter'[r] = "ended"
        BY <1>2, <4>1
      <4>3. QED
        BY <2>1, <2>2, <2>7, <3>3, <4>1, <4>2, BuffersAfterClose
    <3>6. QED
      BY <2>9, <3>4, <3>5
  <2>10. QED
    BY <1>5, <2>8, <2>9
<1>6. QED
  BY <1>4, <1>5

LEMMA OneChatterInit ==
  ASSUME NEW c, OneChatter(c), ChatInit
  PROVE  OneChatterInv(c)
<1> USE OneChatterIs
<1>1. StreamInv /\ ToolInv /\ TurnInv(c)
  BY StreamInvInit, InitToolCalls, TurnInit DEF ChatInit
<1>2. /\ where[c] = "out" /\ pc[c] = "idle"
      /\ \A r \in Responses : iter[r] = "none" /\ buf[r] = <<>>
  BY DEF ChatInit, Init
<1>3. PlaceFits(c) /\ LastOnly(c)
  BY <1>2 DEF PlaceFits, LastOnly, Released, Live
<1>4. BuffersFit
  BY <1>2 DEF BuffersFit, Live
<1>5. QED
  BY <1>1, <1>3, <1>4 DEF OneChatterInv

LEMMA NextKeepsOneChatter ==
  ASSUME NEW c, OneChatter(c), OneChatterInv(c), [ChatNext]_chatVars
  PROVE  OneChatterInv(c)'
<1>1. StreamInv' /\ ToolInv'
  BY NextKeepsStreamInv, ChatStepIsStep, NextToolCalls DEF OneChatterInv
<1>2. CASE UNCHANGED chatVars
  <2>1. UNCHANGED <<vars, registered, previous, iter, buf, mine, where>>
    BY <1>2 DEF chatVars, responseVars, cursorVars
  <2>2. TurnInv(c)' /\ Quiet /\ pc' = pc
    BY <2>1, NothingTurn, OneChatterIs
       DEF OneChatterInv, vars, conversationVars
  <2>3. BuffersFit'
    BY <2>1, <2>2, BuffersStay DEF OneChatterInv
  <2>4. PlaceFits(c)' /\ LastOnly(c)'
    BY <2>1, <2>2, StaysLast DEF OneChatterInv, ReadingOn, Quiet, Live
  <2>5. QED
    BY <1>1, <2>2, <2>3, <2>4 DEF OneChatterInv
<1>3. CASE ChatNext
  <2>1. TurnInv(c)' /\ PlaceFits(c)' /\ LastOnly(c)' /\ BuffersFit'
    <3>1. \A d \in Chatters : d = c
      BY DEF OneChatter
    <3>2. QED
      BY <1>3, <3>1, ChatCases, AgentKeepsOne, SendKeepsOne, AskKeepsOne,
         ReleaseKeepsOne, RegisterKeepsOne, CloseKeepsOne, CursorKeepsOne,
         PullKeepsOne, WhoIsWho
  <2>2. QED
    BY <1>1, <2>1 DEF OneChatterInv
<1>4. QED
  BY <1>2, <1>3

\* The inductive invariant of a program that chats from one goroutine.
THEOREM OneChatterInvariant ==
  ASSUME NEW c, OneChatter(c)
  PROVE  ChatSpec => []OneChatterInv(c)
<1>1. ChatInit => OneChatterInv(c)
  BY OneChatterInit
<1>2. OneChatterInv(c) /\ [ChatNext]_chatVars => OneChatterInv(c)'
  BY NextKeepsOneChatter
<1>3. QED
  BY <1>1, <1>2, PTL DEF ChatSpec

----------------------------------------------------------------------------
\* agent.go 45-46: when one goroutine chats and waits for the agent to be idle
\* before it does, what a response buffers is of its own turn, however many
\* turns are abandoned, closed or drained, and whoever reads along.
THEOREM ResponsesAreTheirTurns ==
  ASSUME NEW c, OneChatter(c)
  PROVE  ChatSpec => []ResponseIsItsTurn
<1>1. OneChatterInv(c) => ResponseIsItsTurn
  <2> SUFFICES ASSUME OneChatterInv(c), NEW r \in Responses,
                      NEW i \in DOMAIN buf[r]
               PROVE  buf[r][i].turn \in {r, NoTurn}
    BY DEF ResponseIsItsTurn
  <2>1. DOMAIN buf[r] = 1..Len(buf[r])
    BY DEF OneChatterInv, StreamInv, ChatTypeOK
  <2>2. QED
    BY <2>1 DEF OneChatterInv, BuffersFit
<1>2. QED
  BY <1>1, OneChatterInvariant, PTL

\* chatresponse.go 73-74: for the same program, a response that came to the end
\* of its turn holds every step of it, those that tool goroutines announce
\* included.
THEOREM DrainedResponsesAreComplete ==
  ASSUME NEW c, OneChatter(c)
  PROVE  ChatSpec => []DrainedIsComplete
<1>1. OneChatterInv(c) => DrainedIsComplete
  BY DEF OneChatterInv, BuffersFit, DrainedIsComplete
<1>2. QED
  BY <1>1, OneChatterInvariant, PTL
=============================================================================
