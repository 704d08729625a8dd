---------------------------- MODULE Hooks_proofs ----------------------------
(***************************************************************************)
(* For any hooks, in any number and order, and any bounds: every request   *)
(* the harness waits for is served by one goroutine, consent is unanimous, *)
(* and the hooks of a turn share one context.  For a tracer that is the    *)
(* first of its hooks, spans nest and none is lost.                        *)
(***************************************************************************)
EXTENDS Hooks, FiniteSetTheorems, TLAPS

----------------------------------------------------------------------------
\* What is on the wire, and what steps the harness reports.

Phases == {"starting", "idle", "opening", "running", "stopping", "closing",
           "ending", "ended"}
KindsOfStep == {"text", "tool", "delegate"}
Stages == {"none", "announced", "running", "failed", "over"}

StepState == [index : Nat, kind : KindsOfStep, stage : Stages, done : BOOLEAN]
Request == [kind : Kinds, call : Trajectories \X Nat, turn : Nat]
StepUpdate == [traj : Trajectories, index : Nat, kind : KindsOfStep, done : BOOLEAN, of : Nat]
Message == [what : {"hook"}, request : Request] \union [what : {"update"}, step : StepUpdate]

HarnessTypes ==
  /\ phase \in Phases /\ turn \in Nat
  /\ work \in [Trajectories -> StepState]
  /\ asked \subseteq Request
  /\ wire \in Seq(Message)

\* What a message is, by its kind.
LEMMA Messages ==
  /\ \A r \in Request : [what |-> "hook", request |-> r] \in Message
  /\ \A u \in StepUpdate : [what |-> "update", step |-> u] \in Message
  /\ \A m \in Message : m.what = "hook" => m.request \in Request
BY DEF Message

LEMMA MainIsATrajectory == Main \in Trajectories
BY HooksAssumption DEF Main, Trajectories

----------------------------------------------------------------------------
\* What a step does to the requests: it makes one, shows an update, takes the
\* head of the wire, replaces a goroutine by its next state, or ends one.

Makes(r) ==
  /\ r \notin asked /\ asked' = asked \union {r} /\ workers' = workers
  /\ wire' = Append(wire, [what |-> "hook", request |-> r])
Tells(u) ==
  /\ asked' = asked /\ workers' = workers
  /\ wire' = Append(wire, [what |-> "update", step |-> u])

\* A request for a hook is made when its trajectory is not paused.
LEMMA AskMakes ==
  ASSUME HarnessTypes, NEW kind \in Kinds, NEW call \in Trajectories \X Nat, NEW of \in Nat,
         Ask(kind, call, of)
  PROVE  \E r \in Request : Makes(r)
<1> DEFINE r == [kind |-> kind, call |-> call, turn |-> of]
<1>1. r \in Request
  BY DEF Request
<1>2. r \notin asked
  BY DEF Ask, Paused
<1>3. asked' = asked \union {r} /\ workers' = workers
         /\ wire' = Append(wire, [what |-> "hook", request |-> r])
  BY DEF Ask, Sends, sdkVars
<1>4. QED
  BY <1>1, <1>2, <1>3 DEF Makes

\* An update shows the state of a step.
LEMMA ShowTells ==
  ASSUME HarnessTypes, NEW j \in Trajectories, NEW s \in StepState, Shows(j, s)
  PROVE  (\E u \in StepUpdate : Tells(u)) /\ work' = [work EXCEPT ![j] = s]
<1> DEFINE u == [traj |-> j, index |-> s.index, kind |-> s.kind, done |-> s.done, of |-> turn]
<1>1. u \in StepUpdate
  BY DEF StepUpdate, StepState, HarnessTypes
<1>2. Tells(u) /\ work' = [work EXCEPT ![j] = s]
  BY DEF Shows, Sends, UpdateOf, sdkVars, Tells
<1>3. QED
  BY <1>1, <1>2

Quiet == UNCHANGED <<asked, wire, workers>>
Effect == (\E r \in Request : Makes(r)) \/ (\E u \in StepUpdate : Tells(u)) \/ Quiet

\* What the harness puts on the wire is a message.
LEMMA EffectTypes ==
  ASSUME HarnessTypes, Effect
  PROVE  asked' \subseteq Request /\ wire' \in Seq(Message)
<1>1. CASE \E r \in Request : Makes(r)
  BY <1>1, Messages DEF HarnessTypes, Makes
<1>2. CASE \E u \in StepUpdate : Tells(u)
  BY <1>2, Messages DEF HarnessTypes, Tells
<1>3. CASE Quiet
  BY <1>3 DEF HarnessTypes, Quiet
<1>4. QED
  BY <1>1, <1>2, <1>3 DEF Effect

\* Steps that are left as they are keep their types.
LEMMA AbandonedTypes == ASSUME HarnessTypes PROVE Abandoned \in [Trajectories -> StepState]
BY DEF HarnessTypes, Abandoned, Resting, StepState, KindsOfStep, Stages

\* The life of session and turn.
LEMMA TurnLevelEffect ==
  ASSUME HarnessTypes, TurnLevel
  PROVE  Effect /\ phase' \in Phases /\ turn' \in Nat /\ work' \in [Trajectories -> StepState]
<1> USE MainIsATrajectory, AbandonedTypes
<1>1. Session \in Trajectories \X Nat
  BY DEF Session
<1>2. <<Main, work[Main].index>> \in Trajectories \X Nat
  BY DEF HarnessTypes, StepState
<1>3. CASE StartSession
  BY <1>1, <1>3, AskMakes DEF StartSession, HarnessTypes, Kinds, Phases, Effect
<1>4. CASE PromptTurn
  BY <1>1, <1>4, AskMakes DEF PromptTurn, BeginTurn, HarnessTypes, Kinds, Phases, Effect
<1>5. CASE TriggerTurn
  BY <1>5 DEF TriggerTurn, BeginTurn, HarnessTypes, Phases, Effect, Quiet, sdkVars
<1>6. CASE Compact
  BY <1>2, <1>6, AskMakes DEF Compact, HarnessTypes, Kinds, Effect
<1>7. CASE StopTurn
  BY <1>1, <1>7, AskMakes DEF StopTurn, HarnessTypes, Kinds, Phases, Effect
<1>8. CASE HaltTurn
  BY <1>8 DEF HaltTurn, HarnessTypes, Phases, Effect, Quiet, sdkVars
<1>9. CASE CloseTurn
  BY <1>1, <1>9, AskMakes DEF CloseTurn, HarnessTypes, Kinds, Effect
<1>10. CASE EndSession
  BY <1>1, <1>10, AskMakes DEF EndSession, HarnessTypes, Kinds, Phases, Effect
<1>11. QED
  BY <1>3, <1>4, <1>5, <1>6, <1>7, <1>8, <1>9, <1>10 DEF TurnLevel

\* A step that goes on without a hook does so at a point that could have one.
LEMMA SkipMoves ==
  ASSUME NEW j, SkipHook(j)
  PROVE  /\ work[j].stage \in {"announced", "running", "failed"}
         /\ work[j].stage = "running" => HasRun(j)
         /\ \E stage \in Stages \ {"none"} :
              work' = [work EXCEPT ![j] = [work[j] EXCEPT !.stage = stage]]
<1>1. PICK move \in {<<"failed", "over">>} \union {Move[kind] : kind \in DOMAIN Move} :
        work[j].stage = move[1] /\ work' = [work EXCEPT ![j].stage = move[2]]
  BY DEF SkipHook
<1>2. /\ move[1] \in {"announced", "running", "failed"}
      /\ move[2] \in Stages \ {"none"}
  BY DEF Move, Stages
<1>3. QED
  BY <1>1, <1>2 DEF SkipHook

\* The life of a step.
LEMMA StepLevelEffect ==
  ASSUME HarnessTypes, NEW j \in Trajectories, StepLevel(j)
  PROVE  Effect /\ phase' \in Phases /\ turn' \in Nat /\ work' \in [Trajectories -> StepState]
<1> USE DEF HarnessTypes
<1>1. work[j] \in StepState /\ <<j, work[j].index>> \in Trajectories \X Nat
  BY DEF StepState
<1>2. ASSUME NEW kind \in StepKinds, BeginStep(j, kind)
      PROVE  Effect /\ phase' \in Phases /\ turn' \in Nat /\ work' \in [Trajectories -> StepState]
  <2> DEFINE s == [index |-> work[j].index + 1, kind |-> kind,
                   stage |-> IF kind = "text" THEN "over" ELSE "announced", done |-> FALSE]
  <2>1. s \in StepState
    BY <1>1, HooksAssumption DEF StepState, KindsOfStep, Stages
  <2>2. Shows(j, s)
    BY <1>2 DEF BeginStep
  <2>3. QED
    BY <2>1, <2>2, ShowTells DEF Shows, Effect
<1>3. CASE RepeatUpdate(j)
  BY <1>1, <1>3, ShowTells DEF RepeatUpdate, Shows, Effect
<1>4. CASE SettleStep(j)
  <2>1. [work[j] EXCEPT !.done = TRUE] \in StepState
    BY <1>1 DEF StepState
  <2>2. QED
    BY <1>4, <2>1, ShowTells DEF SettleStep, Shows, Effect
<1>5. CASE GateTool(j) \/ FailTool(j) \/ ReportTool(j)
  BY <1>1, <1>5, AskMakes DEF GateTool, FailTool, ReportTool, AskAbout, Kinds, Effect
<1>6. CASE SkipHook(j)
  <2>1. PICK stage \in Stages \ {"none"} :
          work' = [work EXCEPT ![j] = [work[j] EXCEPT !.stage = stage]]
    BY <1>6, SkipMoves
  <2>2. [work[j] EXCEPT !.stage = stage] \in StepState
    BY <1>1 DEF StepState
  <2>3. QED
    BY <1>6, <2>1, <2>2 DEF SkipHook, Effect, Quiet, sdkVars
<1>7. QED
  BY <1>2, <1>3, <1>4, <1>5, <1>6 DEF StepLevel

\* The harness leaves the SDK's state to the SDK.
LEMMA HarnessLeavesTheSDK ==
  ASSUME TurnLevel \/ (\E j \in Trajectories : StepLevel(j))
  PROVE  UNCHANGED sdkVars
<1>1. CASE TurnLevel
  BY <1>1 DEF TurnLevel, StartSession, PromptTurn, TriggerTurn, Compact, StopTurn, HaltTurn,
     CloseTurn, EndSession, Ask
<1>2. CASE \E j \in Trajectories : StepLevel(j)
  BY <1>2 DEF StepLevel, BeginStep, RepeatUpdate, SettleStep, GateTool, FailTool, ReportTool,
     SkipHook, AskAbout, Ask, Shows
<1>3. QED
  BY <1>1, <1>2

----------------------------------------------------------------------------
\* The goroutines.

AnyVote == {"ok", "allow", "edit", "deny", "error", "panic", "unencodable", "reword",
            "stop", "continue"}
WorkerState == [request : Request, began : BOOLEAN, votes : Seq(AnyVote), edits : SUBSET Nat]

SDKTypes ==
  /\ workers \subseteq WorkerState /\ IsFiniteSet(workers)
  /\ contexts \in Nat /\ turnContext \in 0..contexts

Types == HarnessTypes /\ SDKTypes

\* What a hook may do is known by its kind.
LEMMA VotesAreVotes ==
  /\ \A kind \in Kinds : Votes(kind) \subseteq AnyVote
  /\ \A kind \in Kinds : Outcomes[kind] \subseteq Votes(kind)
  /\ \A kind \in Kinds : HooksOf[kind] \in Seq({"tracer", "user"})
BY HooksAssumption DEF Votes, AnyVote, Kinds

\* Entering a scope keeps the current context among those that were made.
LEMMA EnterTypes ==
  ASSUME SDKTypes, NEW kind, NEW of, Enters(kind, of)
  PROVE  contexts' \in Nat /\ turnContext' \in 0..contexts'
BY DEF SDKTypes, Enters, Scope, Current, NoContext, SessionContext

\* The read loop takes the head of the wire.
LEMMA ReadTypes ==
  ASSUME Types, ReadLoop
  PROVE  Types'
<1>1. wire # <<>> /\ wire' = Tail(wire) /\ Head(wire) \in Message /\ wire' \in Seq(Message)
  <2>1. wire # <<>> /\ wire' = Tail(wire)
    BY DEF ReadLoop, ReadUpdate, ReadRequest
  <2>2. wire \in Seq(Message)
    BY DEF Types, HarnessTypes
  <2>3. QED
    BY <2>1, <2>2
<1>2. HarnessTypes'
  BY <1>1 DEF ReadLoop, ReadUpdate, ReadRequest, Types, HarnessTypes, harnessVars
<1>3. CASE ReadUpdate
  BY <1>3, <1>2, EnterTypes DEF ReadUpdate, Types, SDKTypes
<1>4. CASE ReadRequest
  <2> DEFINE w == [request |-> Head(wire).request, began |-> FALSE, votes |-> <<>>, edits |-> {}]
  <2>1. workers' = workers \union {w} /\ w \in WorkerState
    BY <1>1, <1>4, Messages DEF ReadRequest, WorkerState
  <2>2. IsFiniteSet(workers')
    BY <2>1, FS_AddElement DEF Types, SDKTypes
  <2>3. QED
    BY <1>2, <1>4, <2>1, <2>2 DEF ReadRequest, Types, SDKTypes
<1>5. QED
  BY <1>3, <1>4 DEF ReadLoop

\* A goroutine is replaced by its next state.
Replaces(w, next) == workers' = (workers \ {w}) \union {next} /\ next.request = w.request

\* What a hook says is added to what was said.
LEMMA HookSpeaks ==
  ASSUME Types, NEW w \in workers, RunHook(w)
  PROVE  \E vote \in Votes(w.request.kind) \union {"ok"} :
           LET next == [w EXCEPT !.votes = Append(@, vote),
                                 !.edits = Edited(w, Len(w.votes) + 1, vote)]
           IN Replaces(w, next) /\ next \in WorkerState
<1>1. w \in WorkerState /\ w.request.kind \in Kinds
  BY DEF Types, SDKTypes, WorkerState, Request
<1>2. PICK vote \in IF HooksOf[w.request.kind][Len(w.votes) + 1] = "tracer" THEN {"ok"}
                     ELSE Outcomes[w.request.kind] :
        workers' = (workers \ {w}) \union
          {[w EXCEPT !.votes = Append(@, vote), !.edits = Edited(w, Len(w.votes) + 1, vote)]}
  BY DEF RunHook
<1>3. vote \in Votes(w.request.kind) \union {"ok"} /\ vote \in AnyVote
  <2>1. CASE vote = "ok"
    BY <2>1 DEF AnyVote
  <2>2. CASE vote \in Outcomes[w.request.kind]
    BY <1>1, <2>2, VotesAreVotes
  <2>3. QED
    BY <1>2, <2>1, <2>2
<1>4. Append(w.votes, vote) \in Seq(AnyVote) /\ Edited(w, Len(w.votes) + 1, vote) \in SUBSET Nat
  BY <1>1, <1>3 DEF WorkerState, Edited
<1> DEFINE next == [w EXCEPT !.votes = Append(@, vote),
                             !.edits = Edited(w, Len(w.votes) + 1, vote)]
<1>5. next \in WorkerState /\ next.request = w.request
  BY <1>1, <1>4 DEF WorkerState
<1>6. QED
  BY <1>2, <1>3, <1>5 DEF Replaces

\* Beginning is a flag.
LEMMA BeginReplaces ==
  ASSUME Types, NEW w \in workers, Begin(w)
  PROVE  Replaces(w, [w EXCEPT !.began = TRUE]) /\ [w EXCEPT !.began = TRUE] \in WorkerState
BY DEF Types, SDKTypes, WorkerState, Begin, Replaces

\* What the harness makes of an answer.
LEMMA HearsTypes ==
  ASSUME HarnessTypes, NEW r \in Request, NEW answer, Hears(r, answer)
  PROVE  /\ phase' \in Phases /\ turn' = turn /\ asked' = asked \ {r}
         /\ work' \in [Trajectories -> StepState]
<1>1. phase' \in Phases /\ turn' = turn /\ asked' = asked \ {r}
  BY DEF Hears, HarnessTypes, Phases
<1>2. r.call[1] \in Trajectories
  BY DEF Request
<1>3. \/ work' = work
      \/ \E s \in Stages : work' = [work EXCEPT ![r.call[1]].stage = s]
  BY DEF Hears, Stages
<1>4. \A s \in Stages : [work[r.call[1]] EXCEPT !.stage = s] \in StepState
  BY <1>2 DEF HarnessTypes, StepState
<1>5. work' \in [Trajectories -> StepState]
  BY <1>2, <1>3, <1>4 DEF HarnessTypes
<1>6. QED
  BY <1>1, <1>5

\* The goroutines keep the types.
LEMMA WorkerTypes ==
  ASSUME Types, NEW w \in workers, Begin(w) \/ RunHook(w) \/ Respond(w)
  PROVE  Types'
<1>1. ASSUME NEW next \in WorkerState, Replaces(w, next)
      PROVE  workers' \subseteq WorkerState /\ IsFiniteSet(workers')
  <2>1. IsFiniteSet(workers \ {w})
    BY FS_RemoveElement DEF Types, SDKTypes
  <2>2. QED
    BY <1>1, <2>1, FS_AddElement DEF Types, SDKTypes, Replaces
<1>2. CASE Begin(w)
  BY <1>1, <1>2, BeginReplaces, EnterTypes DEF Begin, harnessVars, Types, HarnessTypes, SDKTypes
<1>3. CASE RunHook(w)
  <2>1. PICK next \in WorkerState : Replaces(w, next)
    BY <1>3, HookSpeaks
  <2>2. QED
    BY <1>1, <1>3, <2>1 DEF RunHook, harnessVars, Types, HarnessTypes, SDKTypes
<1>4. CASE Respond(w)
  <2>1. w.request \in Request /\ Hears(w.request, Answer(w))
    BY <1>4 DEF Respond, Types, SDKTypes, WorkerState
  <2>2. HarnessTypes'
    BY <1>4, <2>1, HearsTypes DEF Respond, Types, HarnessTypes
  <2>3. IsFiniteSet(workers')
    BY <1>4, FS_RemoveElement DEF Respond, Types, SDKTypes
  <2>4. QED
    BY <1>4, <2>2, <2>3 DEF Respond, Types, SDKTypes, NoContext
<1>5. QED
  BY <1>2, <1>3, <1>4

----------------------------------------------------------------------------
\* Consent.  The hooks a goroutine has asked are the first of their kind, none
\* but the last can have been decisive, and the edits are theirs.

Consents(w) ==
  /\ Len(w.votes) <= Len(HooksOf[w.request.kind])
  /\ \A i \in DOMAIN w.votes :
       /\ w.votes[i] \in Votes(w.request.kind) \union {"ok"}
       /\ i < Len(w.votes) => ~Decisive(w.request.kind, w.votes[i])
  /\ w.edits = {i \in DOMAIN w.votes : w.votes[i] = "edit"}

ConsentInv == \A w \in workers : Consents(w)

\* The hook that is asked next is one nobody overruled.
LEMMA HookConsents ==
  ASSUME Types, NEW w \in workers, Consents(w), ~Decided(w),
         NEW vote \in Votes(w.request.kind) \union {"ok"},
         NEW next, next = [w EXCEPT !.votes = Append(@, vote),
                                    !.edits = Edited(w, Len(w.votes) + 1, vote)]
  PROVE  Consents(next)
<1>1. w \in WorkerState /\ w.request.kind \in Kinds
  BY DEF Types, SDKTypes, WorkerState, Request
<1>2. w.votes \in Seq(AnyVote) /\ HooksOf[w.request.kind] \in Seq({"tracer", "user"})
  BY <1>1, VotesAreVotes DEF WorkerState
<1> DEFINE n == Len(w.votes)
<1>3. /\ next.votes = Append(w.votes, vote) /\ next.request = w.request
      /\ next.edits = Edited(w, n + 1, vote)
  BY <1>1 DEF WorkerState
<1>4. /\ DOMAIN next.votes = 1..(n + 1) /\ Len(next.votes) = n + 1 /\ n \in Nat
      /\ next.votes[n + 1] = vote /\ \A i \in 1..n : next.votes[i] = w.votes[i]
  BY <1>2, <1>3
<1>5. n + 1 <= Len(HooksOf[w.request.kind])
  <2>1. n # Len(HooksOf[w.request.kind]) /\ n <= Len(HooksOf[w.request.kind])
    BY DEF Decided, Consents
  <2>2. Len(HooksOf[w.request.kind]) \in Nat
    BY <1>2
  <2>3. QED
    BY <1>4, <2>1, <2>2
<1>6. n > 0 => ~Decisive(w.request.kind, w.votes[n])
  BY <1>2, <1>4 DEF Decided, Last
<1>7. \A i \in 1..(n + 1) :
        /\ next.votes[i] \in Votes(next.request.kind) \union {"ok"}
        /\ i < n + 1 => ~Decisive(next.request.kind, next.votes[i])
  <2>1. TAKE i \in 1..(n + 1)
  <2>2. CASE i = n + 1
    BY <1>3, <1>4, <2>2
  <2>3. CASE i = n
    BY <1>2, <1>3, <1>4, <1>6, <2>3 DEF Consents
  <2>4. CASE i < n
    BY <1>2, <1>3, <1>4, <2>4 DEF Consents
  <2>5. QED
    BY <1>4, <2>2, <2>3, <2>4
<1>8. next.edits = {i \in 1..(n + 1) : next.votes[i] = "edit"}
  <2>1. w.edits = {i \in 1..n : w.votes[i] = "edit"}
    BY <1>2 DEF Consents
  <2>2. QED
    BY <1>3, <1>4, <2>1 DEF Edited
<1>9. QED
  BY <1>3, <1>4, <1>5, <1>7, <1>8 DEF Consents

\* Every step keeps it.
LEMMA ConsentStep ==
  ASSUME Types, ConsentInv, [Next]_vars
  PROVE  ConsentInv'
<1>1. CASE UNCHANGED workers
  BY <1>1 DEF ConsentInv, Consents, Decisive
<1>2. CASE ReadRequest
  <2> DEFINE w == [request |-> Head(wire).request, began |-> FALSE, votes |-> <<>>, edits |-> {}]
  <2>1. workers' = workers \union {w} /\ w.request.kind \in Kinds
    BY <1>2, Messages DEF ReadRequest, Types, HarnessTypes, Request
  <2>2. Len(HooksOf[w.request.kind]) >= 0
    BY <2>1, VotesAreVotes
  <2>3. Consents(w)
    BY <2>2 DEF Consents
  <2>4. QED
    BY <2>1, <2>3 DEF ConsentInv
<1>3. ASSUME NEW w \in workers, Begin(w) PROVE ConsentInv'
  <2>1. Consents([w EXCEPT !.began = TRUE])
    BY DEF ConsentInv, Consents, Types, SDKTypes, WorkerState
  <2>2. QED
    BY <1>3, <2>1, BeginReplaces DEF Replaces, ConsentInv
<1>4. ASSUME NEW w \in workers, RunHook(w) PROVE ConsentInv'
  <2>1. PICK vote \in Votes(w.request.kind) \union {"ok"} :
          Replaces(w, [w EXCEPT !.votes = Append(@, vote),
                                !.edits = Edited(w, Len(w.votes) + 1, vote)])
    BY <1>4, HookSpeaks
  <2>2. Consents([w EXCEPT !.votes = Append(@, vote),
                           !.edits = Edited(w, Len(w.votes) + 1, vote)])
    BY <1>4, HookConsents DEF RunHook, ConsentInv
  <2>3. QED
    BY <2>1, <2>2 DEF Replaces, ConsentInv
<1>5. ASSUME NEW w \in workers, Respond(w) PROVE ConsentInv'
  BY <1>5 DEF Respond, ConsentInv
<1>6. QED
  BY <1>1, <1>2, <1>3, <1>4, <1>5, HarnessLeavesTheSDK
  DEF Next, ReadLoop, ReadUpdate, Worker, sdkVars, vars

----------------------------------------------------------------------------
\* Service.  What the harness waits for is on the wire, once, or in the hands
\* of one goroutine.

Queued == {n \in DOMAIN wire : wire[n].what = "hook"}
EachServed == \A r \in asked : \/ \E w \in workers : w.request = r
                               \/ \E n \in Queued : wire[n].request = r
OnlyAsked == /\ \A w \in workers : w.request \in asked
             /\ \A n \in Queued : wire[n].request \in asked
ByOneWorker == \A v, w \in workers : v.request = w.request => v = w
QueuedOnce == \A m, n \in Queued : wire[m].request = wire[n].request => m = n
NotBoth == \A w \in workers, n \in Queued : wire[n].request # w.request

Serving == EachServed /\ OnlyAsked /\ ByOneWorker /\ QueuedOnce /\ NotBoth

\* A new request is in nobody's hands.
LEMMA MakesServing ==
  ASSUME Types, Serving, NEW r \in Request, Makes(r)
  PROVE  Serving'
<1> DEFINE n == Len(wire) + 1
<1>1. /\ DOMAIN wire' = 1..n /\ DOMAIN wire = 1..(n - 1) /\ n \in Nat
      /\ wire'[n].what = "hook" /\ wire'[n].request = r
      /\ \A i \in 1..(n - 1) : wire'[i] = wire[i]
  BY DEF Makes, Types, HarnessTypes
<1>2. Queued' = Queued \union {n} /\ \A i \in Queued : wire'[i] = wire[i]
  BY <1>1 DEF Queued
<1>3. \A i \in Queued : i # n /\ wire[i].request # r
  BY <1>1 DEF Queued, Serving, OnlyAsked, Makes
<1>4. \A w \in workers : w.request # r
  BY DEF Serving, OnlyAsked, Makes
<1>5. workers' = workers /\ asked' = asked \union {r}
  BY DEF Makes
<1>6. EachServed'
  BY <1>1, <1>2, <1>5 DEF Serving, EachServed
<1>7. OnlyAsked'
  BY <1>1, <1>2, <1>5 DEF Serving, OnlyAsked
<1>8. ByOneWorker'
  BY <1>5 DEF Serving, ByOneWorker
<1>9. QueuedOnce'
  BY <1>1, <1>2, <1>3 DEF Serving, QueuedOnce
<1>10. NotBoth'
  BY <1>1, <1>2, <1>4, <1>5 DEF Serving, NotBoth
<1>11. QED
  BY <1>6, <1>7, <1>8, <1>9, <1>10 DEF Serving

\* An update is no request.
LEMMA TellsServing ==
  ASSUME Types, Serving, NEW u \in StepUpdate, Tells(u)
  PROVE  Serving'
<1> DEFINE n == Len(wire) + 1
<1>1. /\ DOMAIN wire' = 1..n /\ DOMAIN wire = 1..(n - 1) /\ n \in Nat
      /\ wire'[n].what = "update" /\ \A i \in 1..(n - 1) : wire'[i] = wire[i]
  BY DEF Tells, Types, HarnessTypes
<1>2. Queued' = Queued /\ \A i \in Queued : wire'[i] = wire[i]
  BY <1>1 DEF Queued
<1>3. workers' = workers /\ asked' = asked
  BY DEF Tells
<1>4. QED
  BY <1>2, <1>3 DEF Serving, EachServed, OnlyAsked, ByOneWorker, QueuedOnce, NotBoth

\* Places on the wire move up by one when its head is taken.
LEMMA TakingTheHead ==
  ASSUME Types, wire # <<>>, wire' = Tail(wire)
  PROVE  /\ \A n \in Queued : n # 1 => n - 1 \in Queued' /\ wire'[n - 1] = wire[n]
         /\ \A n \in Queued' : n + 1 \in Queued /\ wire[n + 1] = wire'[n]
         /\ Queued \subseteq Nat \ {0} /\ Queued' \subseteq Nat \ {0}
         /\ Head(wire) = wire[1] /\ 1 \in DOMAIN wire
<1>1. wire \in Seq(Message)
  BY DEF Types, HarnessTypes
<1>2. /\ DOMAIN wire = 1..Len(wire) /\ Len(wire) \in Nat \ {0}
      /\ DOMAIN wire' = 1..(Len(wire) - 1)
      /\ \A n \in 1..(Len(wire) - 1) : wire'[n] = wire[n + 1]
      /\ Head(wire) = wire[1]
  BY <1>1
<1>3. QED
  BY <1>2 DEF Queued

\* The read loop drops no request and takes each once.
LEMMA ReadServing ==
  ASSUME Types, Serving, ReadLoop
  PROVE  Serving'
<1>1. wire # <<>> /\ wire' = Tail(wire) /\ asked' = asked
  BY DEF ReadLoop, ReadUpdate, ReadRequest, harnessVars
<1>2. /\ \A n \in Queued : n # 1 => n - 1 \in Queued' /\ wire'[n - 1] = wire[n]
      /\ \A n \in Queued' : n \in Nat \ {0} /\ n + 1 \in Queued /\ wire[n + 1] = wire'[n]
      /\ Head(wire) = wire[1] /\ 1 \in DOMAIN wire
  BY <1>1, TakingTheHead
<1>3. QueuedOnce'
  BY <1>2 DEF Serving, QueuedOnce
<1>4. CASE ReadUpdate
  <2>1. workers' = workers /\ 1 \notin Queued
    BY <1>2, <1>4 DEF ReadUpdate, Queued
  <2>2. ASSUME NEW r \in asked
        PROVE  (\E w \in workers : w.request = r) \/ (\E n \in Queued' : wire'[n].request = r)
    <3>1. CASE \E w \in workers : w.request = r
      BY <3>1
    <3>2. CASE \E n \in Queued : wire[n].request = r
      <4>1. PICK n \in Queued : wire[n].request = r
        BY <3>2
      <4>2. n - 1 \in Queued' /\ wire'[n - 1].request = r
        BY <1>2, <2>1, <4>1
      <4>3. QED
        BY <4>2
    <3>3. QED
      BY <3>1, <3>2 DEF Serving, EachServed
  <2>3. OnlyAsked'
    BY <1>1, <1>2, <2>1 DEF Serving, OnlyAsked
  <2>4. ByOneWorker'
    BY <2>1 DEF Serving, ByOneWorker
  <2>5. NotBoth'
    BY <1>2, <2>1 DEF Serving, NotBoth
  <2>6. QED
    BY <1>1, <1>3, <2>1, <2>2, <2>3, <2>4, <2>5 DEF Serving, EachServed
<1>5. CASE ReadRequest
  <2> DEFINE w == [request |-> Head(wire).request, began |-> FALSE, votes |-> <<>>, edits |-> {}]
  <2>1. workers' = workers \union {w} /\ 1 \in Queued /\ w.request = wire[1].request
    BY <1>2, <1>5 DEF ReadRequest, Queued
  <2>2. \A v \in workers : v.request # w.request
    BY <2>1 DEF Serving, NotBoth
  <2>3. \A n \in Queued' : wire'[n].request # w.request
    BY <1>2, <2>1 DEF Serving, QueuedOnce
  <2>4. ASSUME NEW r \in asked
        PROVE  (\E v \in workers' : v.request = r) \/ (\E n \in Queued' : wire'[n].request = r)
    <3>1. CASE \E v \in workers : v.request = r
      BY <2>1, <3>1
    <3>2. CASE \E n \in Queued : wire[n].request = r
      <4>1. PICK n \in Queued : wire[n].request = r
        BY <3>2
      <4>2. CASE n = 1
        BY <2>1, <4>1, <4>2
      <4>3. CASE n # 1
        <5>1. n - 1 \in Queued' /\ wire'[n - 1].request = r
          BY <1>2, <4>1, <4>3
        <5>2. QED
          BY <5>1
      <4>4. QED
        BY <4>2, <4>3
    <3>3. QED
      BY <3>1, <3>2 DEF Serving, EachServed
  <2>5. OnlyAsked'
    BY <1>1, <1>2, <2>1 DEF Serving, OnlyAsked
  <2>6. ByOneWorker'
    BY <2>1, <2>2 DEF Serving, ByOneWorker
  <2>7. NotBoth'
    BY <1>2, <2>1, <2>3 DEF Serving, NotBoth
  <2>8. QED
    BY <1>1, <1>3, <2>4, <2>5, <2>6, <2>7 DEF Serving, EachServed
<1>6. QED
  BY <1>4, <1>5 DEF ReadLoop

\* A goroutine keeps its request until it answers.
LEMMA ReplacesServing ==
  ASSUME Serving, NEW w \in workers, NEW next, Replaces(w, next),
         wire' = wire, asked' = asked
  PROVE  Serving'
<1>1. Queued' = Queued
  BY DEF Queued
<1>2. EachServed' /\ OnlyAsked' /\ QueuedOnce'
  BY <1>1 DEF Serving, EachServed, OnlyAsked, QueuedOnce, Replaces
<1>3. ByOneWorker' /\ NotBoth'
  BY <1>1 DEF Serving, ByOneWorker, NotBoth, Replaces
<1>4. QED
  BY <1>2, <1>3 DEF Serving

\* What was answered is no longer waited for, and nothing else is.
LEMMA RespondServing ==
  ASSUME Types, Serving, NEW w \in workers, Respond(w)
  PROVE  Serving'
<1>1. w.request \in Request
  BY DEF Types, SDKTypes, WorkerState
<1>2. wire' = wire /\ workers' = workers \ {w} /\ asked' = asked \ {w.request}
  BY <1>1, HearsTypes DEF Respond, Types
<1>3. Queued' = Queued
  BY <1>2 DEF Queued
<1>4. EachServed' /\ ByOneWorker'
  BY <1>2, <1>3 DEF Serving, EachServed, ByOneWorker
<1>5. OnlyAsked'
  BY <1>2, <1>3 DEF Serving, OnlyAsked, ByOneWorker, NotBoth
<1>6. QueuedOnce' /\ NotBoth'
  BY <1>2, <1>3 DEF Serving, QueuedOnce, NotBoth
<1>7. QED
  BY <1>4, <1>5, <1>6 DEF Serving

----------------------------------------------------------------------------
\* The invariant.

HooksInv == Types /\ ConsentInv /\ Serving

\* A session begins with nobody waiting.
LEMMA InitHooks == Init => HooksInv
<1> SUFFICES ASSUME Init PROVE HooksInv
  OBVIOUS
<1>1. HarnessTypes
  <2>1. Resting \in StepState
    BY DEF Resting, StepState, KindsOfStep, Stages
  <2>2. QED
    BY <2>1 DEF Init, HarnessTypes, Phases
<1>2. SDKTypes
  BY FS_EmptySet DEF Init, SDKTypes, NoContext
<1>3. ConsentInv
  BY DEF Init, ConsentInv
<1>4. Serving
  BY DEF Init, Serving, EachServed, OnlyAsked, ByOneWorker, QueuedOnce, NotBoth, Queued
<1>5. QED
  BY <1>1, <1>2, <1>3, <1>4 DEF HooksInv, Types

\* A step of the harness makes at most one request.
LEMMA HarnessStep ==
  ASSUME Types, Serving, TurnLevel \/ (\E j \in Trajectories : StepLevel(j))
  PROVE  Types' /\ Serving'
<1>1. Effect /\ phase' \in Phases /\ turn' \in Nat /\ work' \in [Trajectories -> StepState]
  BY TurnLevelEffect, StepLevelEffect DEF Types
<1>2. Types'
  BY <1>1, EffectTypes, HarnessLeavesTheSDK DEF Types, HarnessTypes, SDKTypes, sdkVars
<1>3. CASE Quiet
  BY <1>2, <1>3 DEF Quiet, Serving, EachServed, OnlyAsked, ByOneWorker, QueuedOnce, NotBoth, Queued
<1>4. QED
  BY <1>1, <1>2, <1>3, MakesServing, TellsServing DEF Effect

\* Every step keeps the invariant.
LEMMA HooksStep == HooksInv /\ [Next]_vars => HooksInv'
<1> SUFFICES ASSUME HooksInv, [Next]_vars PROVE HooksInv'
  OBVIOUS
<1> USE DEF HooksInv
<1>1. ConsentInv'
  BY ConsentStep
<1>2. CASE TurnLevel \/ (\E j \in Trajectories : StepLevel(j))
  BY <1>1, <1>2, HarnessStep
<1>3. CASE ReadLoop
  BY <1>1, <1>3, ReadTypes, ReadServing
<1>4. ASSUME NEW w \in workers, Begin(w) \/ RunHook(w) \/ Respond(w)
      PROVE  HooksInv'
  <2>1. Types'
    BY <1>4, WorkerTypes
  <2>2. CASE Begin(w)
    BY <1>1, <2>1, <2>2, BeginReplaces, ReplacesServing DEF Begin, harnessVars
  <2>3. CASE RunHook(w)
    BY <1>1, <2>1, <2>3, HookSpeaks, ReplacesServing DEF RunHook, harnessVars
  <2>4. CASE Respond(w)
    BY <1>1, <2>1, <2>4, RespondServing
  <2>5. QED
    BY <1>4, <2>2, <2>3, <2>4
<1>5. CASE UNCHANGED vars
  BY <1>1, <1>5 DEF vars, harnessVars, sdkVars, Types, HarnessTypes, SDKTypes, Serving,
     EachServed, OnlyAsked, ByOneWorker, QueuedOnce, NotBoth, Queued
<1>6. QED
  BY <1>2, <1>3, <1>4, <1>5 DEF Next, Worker

\* The requests, their goroutines and the votes of the hooks, in every state.
THEOREM HooksInvariant == Spec => []HooksInv
<1>1. QED
  BY InitHooks, HooksStep, PTL DEF Spec

\* One goroutine to a request that was read.
LEMMA OneWorkerEach ==
  ASSUME Types, ByOneWorker
  PROVE  Cardinality(workers) = Cardinality({w.request : w \in workers})
<1> DEFINE served == {w.request : w \in workers}
           f == [w \in workers |-> w.request]
<1>1. f \in [workers -> served] /\ \A t \in served : \E w \in workers : f[w] = t
  OBVIOUS
<1>2. \A v, w \in workers : f[v] = f[w] => v = w
  BY DEF ByOneWorker
<1>3. f \in Surjection(workers, served)
  BY <1>1 DEF Surjection
<1>4. f \in Injection(workers, served)
  BY <1>1, <1>2 DEF Injection, IsInjective
<1>5. QED
  BY <1>3, <1>4, FS_Surjection DEF Types, SDKTypes

\* Every request the harness waits for is on the wire or with exactly one
\* goroutine, and no goroutine serves anything else: none is lost, none is
\* answered twice (hookrouter.go), whatever the hooks do.
THEOREM HooksTypes == Spec => []TypeOK
<1>1. HooksInv => TypeOK
  <2> SUFFICES ASSUME HooksInv PROVE TypeOK
    OBVIOUS
  <2> DEFINE served == {w.request : w \in workers}
             queued == {wire[i].request : i \in {n \in DOMAIN wire : wire[n].what = "hook"}}
  <2>1. asked = served \union queued
    BY DEF HooksInv, Serving, EachServed, OnlyAsked, Queued
  <2>2. served \intersect queued = {}
    BY DEF HooksInv, Serving, NotBoth, Queued
  <2>3. Cardinality(workers) = Cardinality(served)
    BY OneWorkerEach DEF HooksInv, Serving
  <2>4. QED
    BY <2>1, <2>2, <2>3 DEF HooksInv, Types, HarnessTypes, SDKTypes, Phases, TypeOK
<1>2. QED
  BY <1>1, HooksInvariant, PTL

\* A hook that does not overrule a turn or a call has agreed to it.
LEMMA AgreementIsTheRest ==
  ASSUME NEW kind \in {"pre_turn", "pre_tool"}, NEW vote \in Votes(kind) \union {"ok"},
         ~Decisive(kind, vote)
  PROVE  vote \in {"ok", "allow", "edit"}
BY DEF Votes, Decisive

\* A turn or a tool call goes on only when every hook of its kind was asked
\* and agreed, with the edits of all of them: dispatchPreTurn and
\* dispatchPreTool (hookrunner.go) never pass what a hook could not judge.
THEOREM ConsentIsUnanimousAlways == Spec => ConsentIsUnanimous
<1> DEFINE Unanimous ==
      \A w \in workers :
        w \notin workers' /\ w.began /\ Decided(w)
          /\ w.request.kind \in {"pre_turn", "pre_tool"} /\ Answer(w) = "allow"
        => /\ Len(w.votes) = Len(HooksOf[w.request.kind])
           /\ \A i \in DOMAIN w.votes : w.votes[i] \in {"ok", "allow", "edit"}
           /\ w.edits = {i \in DOMAIN w.votes : w.votes[i] = "edit"}
<1>1. HooksInv => Unanimous
  <2> SUFFICES ASSUME HooksInv, NEW w \in workers, Decided(w),
                      w.request.kind \in {"pre_turn", "pre_tool"}, Answer(w) = "allow"
               PROVE  /\ Len(w.votes) = Len(HooksOf[w.request.kind])
                      /\ \A i \in DOMAIN w.votes : w.votes[i] \in {"ok", "allow", "edit"}
                      /\ w.edits = {i \in DOMAIN w.votes : w.votes[i] = "edit"}
    OBVIOUS
  <2> DEFINE kind == w.request.kind
  <2>1. w.votes \in Seq(AnyVote) /\ Consents(w)
    BY DEF HooksInv, Types, SDKTypes, WorkerState, ConsentInv
  <2>2. ~Decisive(kind, Last(w.votes))
    <3>1. Last(w.votes) # "panic"
      BY DEF Answer
    <3>2. Answer(w) = IF Decisive(kind, Last(w.votes)) THEN "deny" ELSE "allow"
      BY <3>1 DEF Answer
    <3>3. QED
      BY <3>2
  <2>3. Len(w.votes) = Len(HooksOf[kind])
    BY <2>2 DEF Decided
  <2>4. \A i \in DOMAIN w.votes : ~Decisive(kind, w.votes[i])
    BY <2>1, <2>2 DEF Consents, Last
  <2>5. QED
    BY <2>1, <2>3, <2>4, AgreementIsTheRest DEF Consents
<1>2. QED
  BY <1>1, HooksInvariant, PTL DEF ConsentIsUnanimous

----------------------------------------------------------------------------
\* Scope.  One request at a time.

\* Where the harness is while it waits for a hook of a kind.
PhaseOf(kind) ==
  CASE kind = "session_start" -> "starting"
    [] kind = "pre_turn" -> "opening"
    [] kind = "stop" -> "stopping"
    [] kind = "post_turn" -> "closing"
    [] kind = "session_end" -> "ending"
    [] OTHER -> "running"

\* A request is of the turn the harness is in, and of a kind that has a hook.
\* One of a subagent is made within its delegation, which goes on as long as the
\* subagent is at a step.
Fits(r) ==
  /\ r.turn = turn /\ phase = PhaseOf(r.kind) /\ r.kind \in enabledHooks
  /\ r.call[1] # Main =>
       /\ phase = "running" /\ work[Main].kind = "delegate" /\ work[Main].stage = "running"
       /\ r.call[1] = delegates + 1 /\ work[r.call[1]].stage \notin {"none", "over"}

OneAtATime == \A q, r \in asked : q = r
AskedFit == \A r \in asked : Fits(r)
OpeningAsks == phase = "opening" => \E r \in asked : r.kind = "pre_turn"

AskedInv == OneAtATime /\ AskedFit /\ OpeningAsks

\* The harness asks only when nothing is asked.
LEMMA AsksAlone ==
  ASSUME HarnessTypes, AskedInv,
         \/ StartSession \/ PromptTurn \/ TriggerTurn \/ Compact \/ StopTurn
         \/ HaltTurn \/ CloseTurn \/ EndSession
         \/ \E j \in Trajectories : GateTool(j) \/ FailTool(j) \/ ReportTool(j)
  PROVE  asked = {}
<1> SUFFICES ASSUME NEW r \in asked PROVE FALSE
  OBVIOUS
<1> USE DEF AskedInv, AskedFit
<1>1. Fits(r) /\ r.call[1] \in Trajectories
  BY DEF HarnessTypes, Request
<1>2. CASE StartSession
  BY <1>1, <1>2 DEF StartSession, Ask, Paused, Session, Fits
<1>3. CASE PromptTurn \/ TriggerTurn
  BY <1>1, <1>3 DEF PromptTurn, TriggerTurn, BeginTurn, Fits, PhaseOf
<1>4. CASE Compact
  BY <1>1, <1>4 DEF Compact, IsOver, Ask, Paused, Fits
<1>5. CASE StopTurn
  BY <1>1, <1>5 DEF StopTurn, IsOver, Ask, Paused, Session, Fits
<1>6. CASE HaltTurn \/ EndSession
  BY <1>6 DEF HaltTurn, EndSession
<1>7. CASE CloseTurn
  BY <1>1, <1>7 DEF CloseTurn, Ask, Paused, Session, Fits
<1>8. ASSUME NEW j \in Trajectories, GateTool(j) \/ FailTool(j) \/ ReportTool(j)
      PROVE  FALSE
  <2>1. r.call[1] # j /\ Working(j)
    BY <1>8 DEF GateTool, FailTool, ReportTool, AskAbout, Ask, Paused
  <2>2. CASE j = Main
    <3>1. work[Main].stage = "running" /\ work[Main].kind = "delegate" /\ ~IsOver(delegates + 1)
      BY <1>1, <2>1, <2>2 DEF Fits, IsOver
    <3>2. QED
      BY <1>8, <2>2, <3>1 DEF GateTool, FailTool, ReportTool, HasRun
  <2>3. CASE j # Main
    BY <1>1, <2>1, <2>3 DEF Working, Delegating, Paused, Fits
  <2>4. QED
    BY <2>2, <2>3
<1>9. QED
  BY <1>2, <1>3, <1>4, <1>5, <1>6, <1>7, <1>8

\* A request that is alone and fits is all there is to know.
LEMMA OneFits ==
  ASSUME asked = {}, NEW kind, NEW call, NEW of, Ask(kind, call, of),
         Fits([kind |-> kind, call |-> call, turn |-> of])'
  PROVE  /\ asked' = {[kind |-> kind, call |-> call, turn |-> of]}
         /\ OneAtATime' /\ AskedFit' /\ (kind = "pre_turn" \/ phase' # "opening" => OpeningAsks')
<1>1. asked' = {[kind |-> kind, call |-> call, turn |-> of]}
  BY DEF Ask
<1>2. QED
  BY <1>1 DEF OneAtATime, AskedFit, OpeningAsks

\* The life of session and turn.
LEMMA TurnLevelAsked ==
  ASSUME HarnessTypes, AskedInv, TurnLevel
  PROVE  AskedInv'
<1> USE DEF AskedInv
<1>1. asked = {}
  BY AsksAlone DEF TurnLevel
<1>2. ASSUME NEW kind, NEW of, Ask(kind, Session, of), turn' = of, phase' = PhaseOf(kind)
      PROVE  AskedInv'
  <2>1. Fits([kind |-> kind, call |-> Session, turn |-> of])'
    BY <1>2 DEF Fits, Session, Ask
  <2>2. kind = "pre_turn" \/ phase' # "opening"
    BY <1>2 DEF PhaseOf
  <2>3. QED
    BY <1>1, <1>2, <2>1, <2>2, OneFits
<1>3. CASE StartSession
  BY <1>2, <1>3 DEF StartSession, PhaseOf
<1>4. CASE PromptTurn
  BY <1>2, <1>4 DEF PromptTurn, BeginTurn, PhaseOf
<1>5. CASE TriggerTurn \/ HaltTurn
  BY <1>1, <1>5 DEF TriggerTurn, HaltTurn, OneAtATime, AskedFit, OpeningAsks
<1>6. CASE Compact
  <2>1. Fits([kind |-> "compaction", call |-> <<Main, work[Main].index>>, turn |-> turn])'
    BY <1>6 DEF Compact, Fits, PhaseOf, Ask
  <2>2. QED
    BY <1>1, <1>6, <2>1, OneFits DEF Compact
<1>7. CASE StopTurn
  BY <1>2, <1>7 DEF StopTurn, PhaseOf
<1>8. CASE CloseTurn
  BY <1>2, <1>8 DEF CloseTurn, PhaseOf
<1>9. CASE EndSession
  BY <1>2, <1>9 DEF EndSession, PhaseOf
<1>10. QED
  BY <1>3, <1>4, <1>5, <1>6, <1>7, <1>8, <1>9 DEF TurnLevel

\* The life of a step.
LEMMA StepLevelAsked ==
  ASSUME HarnessTypes, AskedInv, NEW j \in Trajectories, StepLevel(j)
  PROVE  AskedInv'
<1> USE DEF AskedInv
<1>1. Working(j) /\ phase = "running" /\ phase' = phase /\ turn' = turn
  BY DEF StepLevel, BeginStep, RepeatUpdate, SettleStep, GateTool, FailTool, ReportTool,
     SkipHook, AskAbout, Shows, Working
<1>2. CASE GateTool(j) \/ FailTool(j) \/ ReportTool(j)
  <2>1. asked = {}
    BY <1>2, AsksAlone
  <2>2. PICK kind \in {"pre_tool", "tool_error", "post_tool"} : AskAbout(kind, j)
    BY <1>2 DEF GateTool, FailTool, ReportTool
  <2>3. work[j].stage \notin {"none", "over"}
    BY <1>2 DEF GateTool, FailTool, ReportTool, HasRun
  <2>4. Fits([kind |-> kind, call |-> <<j, work[j].index>>, turn |-> turn])'
    BY <1>1, <2>2, <2>3 DEF AskAbout, Fits, PhaseOf, Working, Delegating, Ask
  <2>5. QED
    BY <1>1, <2>1, <2>2, <2>4, OneFits DEF AskAbout
<1>3. ASSUME asked' = asked, \A r \in asked : r.call[1] # Main => Fits(r)'
      PROVE  AskedInv'
  BY <1>1, <1>3 DEF OneAtATime, AskedFit, OpeningAsks, Fits
<1>4. ASSUME \/ \E kind \in StepKinds : BeginStep(j, kind)
             \/ RepeatUpdate(j) \/ SettleStep(j) \/ SkipHook(j)
      PROVE  AskedInv'
  <2>1. asked' = asked
    BY <1>4 DEF BeginStep, RepeatUpdate, SettleStep, SkipHook, Shows
  <2>2. ASSUME NEW r \in asked, r.call[1] # Main PROVE Fits(r)'
    <3>1. /\ Fits(r) /\ Main \in Trajectories /\ r.call[1] \in Trajectories
          /\ work[Main].stage = "running" /\ work[r.call[1]].stage \notin {"none", "over"}
      BY <2>2, MainIsATrajectory DEF AskedFit, Fits, HarnessTypes, Request
    <3>2. j = Main \/ j = r.call[1]
      BY <1>1, <2>2, <3>1 DEF Working, Fits
    <3>3. r.call[1] = j => Paused(j)
      BY DEF Paused
    <3>4. ~IsOver(Main)
      BY <3>1 DEF IsOver
    <3>5. /\ \A kind \in StepKinds : ~BeginStep(j, kind)
          /\ ~SkipHook(j)
      BY <3>1, <3>2, <3>3, <3>4, SkipMoves DEF BeginStep, SkipHook, HasRun, IsOver, Fits
    <3>6. delegates' = delegates
      BY <1>4, <3>5 DEF RepeatUpdate, SettleStep
    <3>7. /\ work'[Main].stage = work[Main].stage /\ work'[Main].kind = work[Main].kind
          /\ work'[r.call[1]].stage = work[r.call[1]].stage
      <4>1. CASE RepeatUpdate(j)
        BY <3>1, <4>1 DEF RepeatUpdate, Shows, HarnessTypes
      <4>2. CASE SettleStep(j)
        BY <3>1, <4>2 DEF SettleStep, Shows, HarnessTypes, StepState
      <4>3. QED
        BY <1>4, <3>5, <4>1, <4>2
    <3>8. QED
      BY <1>1, <3>1, <3>6, <3>7 DEF Fits
  <2>3. QED
    BY <1>3, <2>1, <2>2
<1>5. QED
  BY <1>2, <1>4 DEF StepLevel

\* After an answer nothing is asked.
LEMMA RespondAsked ==
  ASSUME Types, Serving, AskedInv, NEW w \in workers, Respond(w)
  PROVE  AskedInv' /\ asked' = {}
<1>1. w.request \in asked /\ w.request \in Request
  BY DEF Serving, OnlyAsked, Types, SDKTypes, WorkerState
<1>2. asked' = {}
  BY <1>1 DEF Respond, Hears, AskedInv, OneAtATime
<1>3. phase' # "opening"
  BY <1>1 DEF Respond, Hears, AskedInv, AskedFit, Fits, PhaseOf
<1>4. QED
  BY <1>2, <1>3 DEF AskedInv, OneAtATime, AskedFit, OpeningAsks

\* Every step keeps it.
LEMMA AskedStep ==
  ASSUME Types, Serving, AskedInv, [Next]_vars
  PROVE  AskedInv'
<1>1. CASE UNCHANGED harnessVars
  BY <1>1 DEF harnessVars, AskedInv, OneAtATime, AskedFit, OpeningAsks, Fits
<1>2. QED
  BY <1>1, TurnLevelAsked, StepLevelAsked, RespondAsked
  DEF Types, Next, ReadLoop, ReadUpdate, ReadRequest, Worker, Begin, RunHook, vars

----------------------------------------------------------------------------
\* Scope.  What is on the wire is of the turn the harness is in, and nothing
\* comes behind the requests a session or a turn begins or ends with.

IsUpdate(n) == wire[n].what = "update"
UpdatesOfTurn ==
  \A n \in DOMAIN wire : IsUpdate(n) =>
    wire[n].step.of = turn /\ phase \in {"running", "stopping", "closing", "ending"}

Barriers == {"session_start", "pre_turn", "post_turn", "session_end"}
BarriersLast ==
  \A r \in asked : r.kind \in Barriers =>
    wire = <<>> \/ wire[Len(wire)] = [what |-> "hook", request |-> r]
QuietBetween == phase \in {"idle", "ended"} => wire = <<>>

WireInv == UpdatesOfTurn /\ BarriersLast /\ QuietBetween

\* Frames behind those that are on the wire.
LEMMA AppendedFrame ==
  ASSUME HarnessTypes, NEW m \in Message, wire' = Append(wire, m)
  PROVE  /\ Len(wire') = Len(wire) + 1 /\ wire' # <<>> /\ wire'[Len(wire')] = m
         /\ \A n \in DOMAIN wire' : (n \in DOMAIN wire /\ wire'[n] = wire[n]) \/ wire'[n] = m
BY DEF HarnessTypes

\* A request goes behind the updates of its turn.
LEMMA AskWire ==
  ASSUME HarnessTypes, UpdatesOfTurn, asked = {},
         NEW kind \in Kinds, NEW call \in Trajectories \X Nat, NEW of \in Nat,
         Ask(kind, call, of),
         \/ wire = <<>>
         \/ turn' = turn /\ phase' \in {"starting", "running", "stopping", "closing", "ending"},
         phase = "starting" \/ phase' # "starting",
         phase' \notin {"idle", "ended"}
  PROVE  WireInv'
<1> DEFINE r == [kind |-> kind, call |-> call, turn |-> of]
           m == [what |-> "hook", request |-> r]
<1>1. wire' = Append(wire, m) /\ asked' = {r}
  BY DEF Ask, Sends
<1>2. m \in Message
  BY Messages DEF Request
<1>3. /\ wire' # <<>> /\ wire'[Len(wire')] = m
      /\ \A n \in DOMAIN wire' : (n \in DOMAIN wire /\ wire'[n] = wire[n]) \/ wire'[n] = m
  BY <1>1, <1>2, AppendedFrame
<1>4. UpdatesOfTurn'
  <2> SUFFICES ASSUME NEW n \in DOMAIN wire', wire'[n].what = "update"
               PROVE  wire'[n].step.of = turn'
                      /\ phase' \in {"running", "stopping", "closing", "ending"}
    BY DEF UpdatesOfTurn, IsUpdate
  <2>1. n \in DOMAIN wire /\ wire'[n] = wire[n]
    BY <1>3
  <2>2. wire[n].step.of = turn /\ phase \in {"running", "stopping", "closing", "ending"}
    BY <2>1 DEF UpdatesOfTurn, IsUpdate
  <2>3. wire # <<>>
    BY <2>1
  <2>4. QED
    BY <2>1, <2>2, <2>3
<1>5. BarriersLast'
  BY <1>1, <1>3 DEF BarriersLast
<1>6. QED
  BY <1>4, <1>5 DEF WireInv, QuietBetween

\* The life of session and turn.
LEMMA TurnLevelWire ==
  ASSUME HarnessTypes, AskedInv, WireInv, TurnLevel
  PROVE  WireInv'
<1> USE MainIsATrajectory DEF WireInv
<1>1. asked = {}
  BY AsksAlone DEF TurnLevel
<1>2. Session \in Trajectories \X Nat /\ turn \in Nat
  BY DEF Session, HarnessTypes
<1>3. CASE StartSession
  BY <1>1, <1>2, <1>3, AskWire DEF StartSession, Kinds
<1>4. CASE PromptTurn
  BY <1>1, <1>2, <1>4, AskWire DEF PromptTurn, BeginTurn, Kinds, QuietBetween
<1>5. CASE TriggerTurn
  BY <1>1, <1>5
  DEF TriggerTurn, BeginTurn, UpdatesOfTurn, IsUpdate, BarriersLast, QuietBetween
<1>6. CASE Compact
  <2>1. <<Main, work[Main].index>> \in Trajectories \X Nat
    BY DEF HarnessTypes, StepState
  <2>2. QED
    BY <1>1, <1>2, <1>6, <2>1, AskWire DEF Compact, Kinds
<1>7. CASE StopTurn
  BY <1>1, <1>2, <1>7, AskWire DEF StopTurn, Kinds
<1>8. CASE HaltTurn
  BY <1>1, <1>8 DEF HaltTurn, UpdatesOfTurn, IsUpdate, BarriersLast, QuietBetween
<1>9. CASE CloseTurn
  BY <1>1, <1>2, <1>9, AskWire DEF CloseTurn, Kinds
<1>10. CASE EndSession
  BY <1>1, <1>2, <1>10, AskWire DEF EndSession, Kinds
<1>11. QED
  BY <1>3, <1>4, <1>5, <1>6, <1>7, <1>8, <1>9, <1>10 DEF TurnLevel

\* The life of a step.
LEMMA StepLevelWire ==
  ASSUME HarnessTypes, AskedInv, WireInv, NEW j \in Trajectories, StepLevel(j)
  PROVE  WireInv'
<1> USE DEF WireInv
<1>1. phase = "running" /\ phase' = phase /\ turn' = turn
  BY DEF StepLevel, BeginStep, RepeatUpdate, SettleStep, GateTool, FailTool, ReportTool,
     SkipHook, AskAbout, Shows, Working
<1>2. CASE GateTool(j) \/ FailTool(j) \/ ReportTool(j)
  <2>1. asked = {}
    BY <1>2, AsksAlone
  <2>2. PICK kind \in {"pre_tool", "tool_error", "post_tool"} : AskAbout(kind, j)
    BY <1>2 DEF GateTool, FailTool, ReportTool
  <2>3. <<j, work[j].index>> \in Trajectories \X Nat /\ turn \in Nat
    BY DEF HarnessTypes, StepState
  <2>4. QED
    BY <1>1, <2>1, <2>2, <2>3, AskWire DEF AskAbout, Kinds
<1>3. \A r \in asked : r.kind \notin Barriers
  BY <1>1 DEF AskedInv, AskedFit, Fits, PhaseOf, Barriers
<1>4. ASSUME NEW s \in StepState, Shows(j, s) PROVE WireInv'
  <2>1. UpdateOf(j, s) \in Message /\ UpdateOf(j, s).step.of = turn
    BY Messages DEF UpdateOf, StepState, StepUpdate, HarnessTypes
  <2>2. wire' = Append(wire, UpdateOf(j, s)) /\ asked' = asked
    BY <1>4 DEF Shows, Sends
  <2>3. \A n \in DOMAIN wire' : (n \in DOMAIN wire /\ wire'[n] = wire[n])
                                  \/ wire'[n] = UpdateOf(j, s)
    BY <2>1, <2>2, AppendedFrame
  <2>4. UpdatesOfTurn'
    BY <1>1, <2>1, <2>3 DEF UpdatesOfTurn, IsUpdate
  <2>5. QED
    BY <1>1, <1>3, <2>2, <2>4 DEF BarriersLast, QuietBetween
<1>5. ASSUME NEW kind \in StepKinds, BeginStep(j, kind) PROVE WireInv'
  <2> DEFINE s == [index |-> work[j].index + 1, kind |-> kind,
                   stage |-> IF kind = "text" THEN "over" ELSE "announced", done |-> FALSE]
  <2>1. s \in StepState
    BY HooksAssumption DEF HarnessTypes, StepState, KindsOfStep, Stages
  <2>2. Shows(j, s)
    BY <1>5 DEF BeginStep
  <2>3. QED
    BY <1>4, <2>1, <2>2
<1>6. CASE RepeatUpdate(j)
  BY <1>4, <1>6 DEF RepeatUpdate, HarnessTypes
<1>7. CASE SettleStep(j)
  <2>1. [work[j] EXCEPT !.done = TRUE] \in StepState
    BY DEF HarnessTypes, StepState
  <2>2. QED
    BY <1>4, <1>7, <2>1 DEF SettleStep
<1>8. CASE SkipHook(j)
  BY <1>1, <1>8 DEF SkipHook, UpdatesOfTurn, IsUpdate, BarriersLast, QuietBetween
<1>9. QED
  BY <1>2, <1>5, <1>6, <1>7, <1>8 DEF StepLevel

\* The read loop takes the head and leaves the rest.
LEMMA ReadWire ==
  ASSUME HarnessTypes, WireInv, ReadLoop
  PROVE  WireInv'
<1> USE DEF WireInv
<1>1. wire # <<>> /\ wire' = Tail(wire) /\ UNCHANGED <<phase, turn, asked>>
  BY DEF ReadLoop, ReadUpdate, ReadRequest, harnessVars
<1>2. /\ Len(wire) \in Nat \ {0} /\ DOMAIN wire = 1..Len(wire)
      /\ Len(wire') = Len(wire) - 1 /\ DOMAIN wire' = 1..(Len(wire) - 1)
      /\ \A n \in DOMAIN wire' : wire'[n] = wire[n + 1] /\ n + 1 \in DOMAIN wire
  BY <1>1 DEF HarnessTypes
<1>3. UpdatesOfTurn'
  BY <1>1, <1>2 DEF UpdatesOfTurn, IsUpdate
<1>4. wire' = <<>> \/ wire'[Len(wire')] = wire[Len(wire)]
  <2>1. CASE Len(wire') = 0
    BY <1>1, <2>1 DEF HarnessTypes
  <2>2. CASE Len(wire') # 0
    <3>1. Len(wire') \in DOMAIN wire' /\ Len(wire') + 1 = Len(wire)
      BY <1>2, <2>2
    <3>2. QED
      BY <1>2, <3>1
  <2>3. QED
    BY <2>1, <2>2
<1>5. BarriersLast'
  BY <1>1, <1>4 DEF BarriersLast
<1>6. QED
  BY <1>1, <1>3, <1>5 DEF QuietBetween

\* What began or ended a turn or the session is answered with nothing behind.
LEMMA RespondsLast ==
  ASSUME Types, Serving, BarriersLast, NEW w \in workers, w.request.kind \in Barriers
  PROVE  wire = <<>>
<1>1. w.request \in asked /\ wire \in Seq(Message)
  BY DEF Serving, OnlyAsked, Types, HarnessTypes
<1>2. SUFFICES ASSUME wire # <<>>,
                      wire[Len(wire)] = [what |-> "hook", request |-> w.request]
               PROVE  FALSE
  BY <1>1 DEF BarriersLast
<1>3. Len(wire) \in DOMAIN wire
  BY <1>1, <1>2
<1>4. Len(wire) \in Queued /\ wire[Len(wire)].request = w.request
  BY <1>2, <1>3 DEF Queued
<1>5. QED
  BY <1>4 DEF Serving, NotBoth

\* An answer puts nothing on the wire.
LEMMA RespondWire ==
  ASSUME Types, Serving, AskedInv, WireInv, NEW w \in workers, Respond(w)
  PROVE  WireInv'
<1> USE DEF WireInv
<1>1. w.request \in asked /\ asked' = {} /\ Fits(w.request) /\ w.request.kind \in Kinds
  BY RespondAsked DEF Serving, OnlyAsked, AskedInv, AskedFit, Types, HarnessTypes, Request
<1>2. wire' = wire /\ turn' = turn
  BY DEF Respond, Hears
<1>3. CASE w.request.kind \in Barriers
  <2>1. wire = <<>>
    BY <1>3, RespondsLast
  <2>2. QED
    BY <1>1, <1>2, <2>1 DEF UpdatesOfTurn, IsUpdate, BarriersLast, QuietBetween
<1>4. CASE w.request.kind \notin Barriers
  <2>1. phase' \in {"running", "closing"} /\ phase \in {"running", "stopping"}
    BY <1>1, <1>4 DEF Respond, Hears, Fits, PhaseOf, Barriers, Kinds
  <2>2. QED
    BY <1>1, <1>2, <2>1 DEF UpdatesOfTurn, IsUpdate, BarriersLast, QuietBetween
<1>5. QED
  BY <1>3, <1>4

\* Every step keeps it.
LEMMA WireStep ==
  ASSUME Types, Serving, AskedInv, WireInv, [Next]_vars
  PROVE  WireInv'
<1>1. CASE UNCHANGED <<harnessVars, wire>>
  BY <1>1 DEF harnessVars, WireInv, UpdatesOfTurn, IsUpdate, BarriersLast, QuietBetween
<1>2. QED
  BY <1>1, TurnLevelWire, StepLevelWire, ReadWire, RespondWire
  DEF Types, Next, Worker, Begin, RunHook, vars

----------------------------------------------------------------------------
\* Scope.  The contexts of turns.

ContextsUsed ==
  /\ used \subseteq Nat \X Nat /\ prompted \subseteq Nat /\ closed \subseteq Nat
  /\ \A u \in used : u[1] <= turn /\ 1 <= u[2] /\ u[2] <= contexts
  /\ \A k \in prompted \union closed : k <= turn

\* The context of a closed turn is never taken up again.
ClosedGone == \A u \in used : u[1] \in closed => u[2] # turnContext

\* Whether the pre-turn hooks have begun, and whether something of the turn
\* may still be shown or asked in its context.
Started == \E w \in workers : w.request.kind = "pre_turn" /\ w.began
Updating == phase = "ending" /\ \E n \in DOMAIN wire : IsUpdate(n)
Scoping ==
  \/ phase \in {"running", "stopping", "closing"}
  \/ phase = "opening" /\ Started
  \/ Updating

\* Then the turn has had no context but the present one, and if a prompt
\* began it no turn before it has had that.
Scoped ==
  /\ turn \notin closed
  /\ \A u \in used : u[1] = turn => u[2] = turnContext
  /\ turn \in prompted =>
       turnContext # NoContext /\ \A u \in used : u[1] < turn => u[2] # turnContext

\* A turn whose pre-turn hooks have not begun has had none.
Unused == turn \notin closed /\ \A u \in used : u[1] # turn

ScopeInv ==
  /\ ContextsUsed /\ ClosedGone /\ TurnScope
  /\ Scoping => Scoped
  /\ phase = "opening" /\ ~Started => Unused

\* Hooks and observers of a turn run in its context, or in a new one if there
\* is none.
LEMMA CurrentScoped ==
  ASSUME Types, ContextsUsed, ClosedGone, TurnScope, Scoped,
         NEW kind, kind \notin {"session_start", "session_end", "pre_turn"},
         Enters(kind, turn), UNCHANGED <<turn, prompted, closed>>
  PROVE  ContextsUsed' /\ ClosedGone' /\ TurnScope' /\ Scoped'
<1>1. PICK c : c = IF turnContext = 0 THEN contexts + 1 ELSE turnContext
  OBVIOUS
<1>2. /\ turnContext' = c /\ contexts' \in {contexts, contexts + 1} /\ c <= contexts'
      /\ c \in Nat /\ 1 <= c /\ contexts \in Nat /\ turn \in Nat
      /\ used' = used \union {<<turn, c>>}
  BY <1>1 DEF Enters, Scope, Current, NoContext, SessionContext, Types, HarnessTypes, SDKTypes
<1>3. \A u \in used : u[1] \in Nat /\ u[2] \in Nat /\ u[1] <= turn /\ 1 <= u[2] /\ u[2] <= contexts
  BY DEF ContextsUsed
<1>4. ContextsUsed'
  BY <1>2, <1>3 DEF ContextsUsed
<1>5. \A u \in used : u[1] = turn => u[2] = c
  BY <1>1, <1>2, <1>3 DEF Scoped
<1>6. \A u \in used : u[1] < turn /\ u[2] = c => u[2] = turnContext
  BY <1>1, <1>2, <1>3
<1>7. \A u \in used : u[1] < turn /\ u[2] = c => turn \notin prompted /\ u[1] \notin closed
  BY <1>6 DEF Scoped, ClosedGone
<1>8. ClosedGone'
  BY <1>2, <1>3, <1>5, <1>7 DEF ClosedGone, Scoped
<1>9. TurnScope'
  <2> SUFFICES ASSUME NEW a \in used', NEW b \in used'
               PROVE  /\ a[1] = b[1] => a[2] = b[2]
                      /\ a[1] < b[1] /\ a[2] = b[2] => b[1] \notin prompted /\ a[1] \notin closed
    BY DEF TurnScope
  <2>1. CASE a \in used /\ b \in used
    BY <2>1 DEF TurnScope
  <2>2. CASE a \in used /\ b = <<turn, c>>
    BY <1>3, <1>5, <1>7, <2>2
  <2>3. CASE a = <<turn, c>> /\ b \in used
    BY <1>2, <1>3, <1>5, <2>3
  <2>4. CASE a = <<turn, c>> /\ b = <<turn, c>>
    BY <1>2, <2>4
  <2>5. QED
    BY <1>2, <2>1, <2>2, <2>3, <2>4
<1>10. Scoped'
  <2>1. turn' \notin closed' /\ \A u \in used' : u[1] = turn' => u[2] = turnContext'
    BY <1>2, <1>5 DEF Scoped
  <2>2. turn' \in prompted' => turnContext' # NoContext
                               /\ \A u \in used' : u[1] < turn' => u[2] # turnContext'
    BY <1>2, <1>7 DEF NoContext
  <2>3. QED
    BY <2>1, <2>2 DEF Scoped
<1>11. QED
  BY <1>4, <1>8, <1>9, <1>10

\* Pre-turn hooks begin with a context nobody has had.
LEMMA NewScoped ==
  ASSUME Types, ContextsUsed, ClosedGone, TurnScope, Unused,
         Enters("pre_turn", turn), UNCHANGED <<turn, prompted, closed>>
  PROVE  ContextsUsed' /\ ClosedGone' /\ TurnScope' /\ Scoped'
<1>1. PICK c : c = contexts + 1
  OBVIOUS
<1>2. /\ turnContext' = c /\ contexts' = c /\ used' = used \union {<<turn, c>>}
      /\ c \in Nat /\ 1 <= c /\ contexts \in Nat /\ turn \in Nat /\ c > contexts
  BY <1>1 DEF Enters, Scope, SessionContext, Types, HarnessTypes, SDKTypes
<1>3. \A u \in used : u[1] \in Nat /\ u[2] \in Nat /\ u[1] < turn /\ 1 <= u[2] /\ u[2] < c
  BY <1>2 DEF ContextsUsed, Unused
<1>4. ContextsUsed'
  BY <1>2, <1>3 DEF ContextsUsed
<1>5. ClosedGone' /\ Scoped'
  BY <1>2, <1>3 DEF ClosedGone, Scoped, Unused, NoContext
<1>6. TurnScope'
  <2> SUFFICES ASSUME NEW a \in used', NEW b \in used'
               PROVE  /\ a[1] = b[1] => a[2] = b[2]
                      /\ a[1] < b[1] /\ a[2] = b[2] => b[1] \notin prompted /\ a[1] \notin closed
    BY DEF TurnScope
  <2>1. CASE a \in used /\ b \in used
    BY <2>1 DEF TurnScope
  <2>2. CASE a = <<turn, c>> \/ b = <<turn, c>>
    BY <1>2, <1>3, <2>2
  <2>3. QED
    BY <1>2, <2>1, <2>2
<1>7. QED
  BY <1>4, <1>5, <1>6

\* The contexts as they are, of the turn as it was.
LEMMA ScopeStays ==
  ASSUME ScopeInv, UNCHANGED <<turn, prompted, contexts, turnContext, used, closed>>
  PROVE  /\ ContextsUsed' /\ ClosedGone' /\ TurnScope'
         /\ Scoped' <=> Scoped
         /\ Unused' <=> Unused
BY DEF ScopeInv, ContextsUsed, ClosedGone, TurnScope, Scoped, Unused

\* A new turn has used nothing.
LEMMA NewTurnUnused ==
  ASSUME Types, ScopeInv, BeginTurn, UNCHANGED sdkVars,
         prompted' \in {prompted, prompted \union {turn + 1}}
  PROVE  /\ ContextsUsed' /\ ClosedGone' /\ TurnScope' /\ Unused'
         /\ prompted' = prompted => Scoped'
<1> USE DEF ScopeInv, sdkVars, BeginTurn
<1>1. turn \in Nat /\ turn' = turn + 1
  BY DEF Types, HarnessTypes
<1>2. \A u \in used : u[1] \in Nat /\ u[1] <= turn
  BY DEF ContextsUsed
<1>3. ContextsUsed'
  BY <1>1 DEF ContextsUsed
<1>4. \A k \in closed \union prompted : k <= turn
  BY DEF ContextsUsed
<1>5. Unused'
  BY <1>1, <1>2, <1>4 DEF Unused
<1>6. TurnScope'
  BY <1>1, <1>2 DEF TurnScope
<1>7. turn + 1 \notin prompted
  BY <1>1, <1>4
<1>8. QED
  BY <1>1, <1>3, <1>5, <1>6, <1>7 DEF ClosedGone, Scoped, Unused

\* The life of session, turn and steps.
LEMMA HarnessScope ==
  ASSUME Types, Serving, AskedInv, WireInv, ScopeInv,
         TurnLevel \/ (\E j \in Trajectories : StepLevel(j))
  PROVE  ScopeInv'
<1>1. UNCHANGED sdkVars
  BY HarnessLeavesTheSDK
<1>2. Started' <=> Started
  BY <1>1 DEF Started, sdkVars
<1>3. ASSUME UNCHANGED <<turn, prompted>>, Scoping' => Scoping, phase' # "opening"
      PROVE  ScopeInv'
  BY <1>1, <1>3, ScopeStays DEF ScopeInv, sdkVars
<1>4. CASE StartSession
  BY <1>3, <1>4 DEF StartSession, Scoping, Updating
<1>5. CASE PromptTurn
  <2>1. ContextsUsed' /\ ClosedGone' /\ TurnScope' /\ Unused'
    BY <1>1, <1>5, NewTurnUnused DEF PromptTurn
  <2>2. asked = {}
    BY <1>5, AsksAlone DEF Types
  <2>3. ~Started'
    BY <1>2, <2>2 DEF Started, Serving, OnlyAsked
  <2>4. phase' = "opening"
    BY <1>5 DEF PromptTurn
  <2>5. QED
    BY <2>1, <2>3, <2>4 DEF ScopeInv, Scoping, Updating
<1>6. CASE TriggerTurn
  BY <1>1, <1>6, NewTurnUnused DEF TriggerTurn, ScopeInv
<1>7. CASE Compact \/ StopTurn \/ HaltTurn
  BY <1>3, <1>7 DEF Compact, StopTurn, HaltTurn, Scoping
<1>8. CASE CloseTurn
  BY <1>3, <1>8 DEF CloseTurn, Scoping
<1>9. CASE EndSession
  <2>1. CASE phase = "running"
    BY <1>3, <1>9, <2>1 DEF EndSession, Scoping
  <2>2. CASE phase = "idle"
    <3> DEFINE r == [kind |-> "session_end", call |-> Session, turn |-> turn]
    <3>1. wire = <<>> /\ wire' = Append(wire, [what |-> "hook", request |-> r])
      BY <1>9, <2>2 DEF EndSession, Ask, Sends, WireInv, QuietBetween
    <3>2. \A n \in DOMAIN wire' : wire'[n].what = "hook"
      BY <3>1
    <3>3. ~Scoping' /\ phase' # "opening" /\ UNCHANGED <<turn, prompted>>
      BY <1>9, <3>2 DEF EndSession, Scoping, Updating, IsUpdate
    <3>4. QED
      BY <1>3, <3>3
  <2>3. QED
    BY <1>9, <2>1, <2>2 DEF EndSession
<1>10. ASSUME NEW j \in Trajectories, StepLevel(j) PROVE ScopeInv'
  <2>1. phase = "running" /\ phase' = phase /\ turn' = turn /\ prompted' = prompted
    BY <1>10 DEF StepLevel, BeginStep, RepeatUpdate, SettleStep, GateTool, FailTool, ReportTool,
       SkipHook, AskAbout, Shows, Working
  <2>2. QED
    BY <1>3, <2>1 DEF Scoping
<1>11. QED
  BY <1>4, <1>5, <1>6, <1>7, <1>8, <1>9, <1>10 DEF TurnLevel

\* The read loop.
LEMMA ReadScope ==
  ASSUME Types, WireInv, ScopeInv, ReadLoop
  PROVE  ScopeInv'
<1>1. /\ wire # <<>> /\ wire' = Tail(wire) /\ UNCHANGED <<phase, turn, prompted, closed>>
      /\ Head(wire) = wire[1] /\ 1 \in DOMAIN wire
      /\ \A n \in DOMAIN wire' : wire'[n] = wire[n + 1] /\ n + 1 \in DOMAIN wire
  BY DEF ReadLoop, ReadUpdate, ReadRequest, harnessVars, Types, HarnessTypes
<1>2. Updating' => Updating
  BY <1>1 DEF Updating, IsUpdate
<1>3. CASE ReadUpdate
  <2>1. Head(wire).step.of = turn /\ Scoping /\ phase # "opening"
    BY <1>1, <1>3 DEF ReadUpdate, WireInv, UpdatesOfTurn, IsUpdate, Scoping, Updating
  <2>2. Enters("step", turn)
    BY <1>3, <2>1 DEF ReadUpdate
  <2>3. ContextsUsed' /\ ClosedGone' /\ TurnScope' /\ Scoped'
    BY <1>1, <2>1, <2>2, CurrentScoped DEF ScopeInv
  <2>4. QED
    BY <1>1, <2>1, <2>3 DEF ScopeInv
<1>4. CASE ReadRequest
  <2>1. Started' <=> Started
    BY <1>4 DEF ReadRequest, Started
  <2>2. (Scoping' => Scoping) /\ UNCHANGED <<contexts, turnContext, used>>
    BY <1>1, <1>2, <1>4, <2>1 DEF ReadRequest, Scoping
  <2>3. QED
    BY <1>1, <2>1, <2>2, ScopeStays DEF ScopeInv
<1>5. QED
  BY <1>3, <1>4 DEF ReadLoop

\* A goroutine takes its context.
LEMMA BeginScope ==
  ASSUME Types, Serving, AskedInv, ScopeInv, NEW w \in workers, Begin(w)
  PROVE  ScopeInv'
<1> DEFINE next == [w EXCEPT !.began = TRUE]
<1>1. workers' = (workers \ {w}) \union {next} /\ next.request = w.request
  BY BeginReplaces DEF Replaces
<1>2. w.request \in asked /\ Fits(w.request) /\ w.request.kind \in Kinds
  BY DEF Serving, OnlyAsked, AskedInv, AskedFit, Types, HarnessTypes, Request
<1>3. /\ UNCHANGED <<phase, turn, prompted, closed, wire>>
      /\ Enters(w.request.kind, turn)
  BY <1>2 DEF Begin, harnessVars, Fits
<1>4. CASE w.request.kind \in {"session_start", "session_end"}
  <2>1. UNCHANGED <<contexts, turnContext, used>>
    BY <1>3, <1>4 DEF Enters, Scope
  <2>2. Started' <=> Started
    BY <1>1, <1>4 DEF Started
  <2>3. Scoping' <=> Scoping
    BY <1>3, <2>2 DEF Scoping, Updating, IsUpdate
  <2>4. QED
    BY <1>3, <2>1, <2>2, <2>3, ScopeStays DEF ScopeInv
<1>5. CASE w.request.kind = "pre_turn"
  <2>1. phase = "opening"
    BY <1>2, <1>5 DEF Fits, PhaseOf
  <2>2. ~Started
    <3> SUFFICES ASSUME NEW v \in workers, v.request.kind = "pre_turn", v.began PROVE FALSE
      BY DEF Started
    <3>1. v.request = w.request
      BY DEF Serving, OnlyAsked, AskedInv, OneAtATime
    <3>2. QED
      BY <3>1 DEF Serving, ByOneWorker, Begin
  <2>3. Started'
    <3>1. next.began
      BY DEF Types, SDKTypes, WorkerState
    <3>2. QED
      BY <1>1, <1>5, <3>1 DEF Started
  <2>4. ContextsUsed' /\ ClosedGone' /\ TurnScope' /\ Scoped'
    BY <1>3, <1>5, <2>1, <2>2, NewScoped DEF ScopeInv
  <2>5. QED
    BY <2>3, <2>4 DEF ScopeInv
<1>6. CASE w.request.kind \notin {"session_start", "session_end", "pre_turn"}
  <2>1. phase \in {"running", "stopping", "closing"}
    BY <1>2, <1>6 DEF Fits, PhaseOf
  <2>2. ContextsUsed' /\ ClosedGone' /\ TurnScope' /\ Scoped'
    BY <1>3, <1>6, <2>1, CurrentScoped DEF ScopeInv, Scoping
  <2>3. QED
    BY <1>3, <2>1, <2>2 DEF ScopeInv
<1>7. QED
  BY <1>4, <1>5, <1>6

\* A hook that runs changes no context.
LEMMA HookScope ==
  ASSUME Types, ScopeInv, NEW w \in workers, RunHook(w)
  PROVE  ScopeInv'
<1>1. UNCHANGED <<phase, turn, prompted, wire, contexts, turnContext, used, closed>>
  BY DEF RunHook, harnessVars
<1>2. PICK next : Replaces(w, next) /\ next.began /\ w.began
  BY HookSpeaks DEF RunHook, Types, SDKTypes, WorkerState
<1>3. Started' <=> Started
  BY <1>2 DEF Started, Replaces
<1>4. Scoping' <=> Scoping
  BY <1>1, <1>3 DEF Scoping, Updating, IsUpdate
<1>5. QED
  BY <1>1, <1>3, <1>4, ScopeStays DEF ScopeInv

\* The answer of the post-turn hooks closes the turn's context.
LEMMA RespondScope ==
  ASSUME Types, Serving, AskedInv, WireInv, ScopeInv, NEW w \in workers, Respond(w)
  PROVE  ScopeInv'
<1>1. w.request \in asked /\ Fits(w.request) /\ w.request.kind \in Kinds
  BY DEF Serving, OnlyAsked, AskedInv, AskedFit, Types, HarnessTypes, Request
<1>2. /\ UNCHANGED <<turn, prompted, wire, contexts, used>> /\ Hears(w.request, Answer(w))
      /\ turnContext' = (IF Closes(w) THEN NoContext ELSE turnContext)
      /\ closed' = (IF Closes(w) THEN closed \union {turn} ELSE closed)
  BY <1>1 DEF Respond, Hears, Fits
<1>3. CASE Closes(w)
  <2>1. phase' = "idle"
    BY <1>2, <1>3 DEF Closes, Hears
  <2>2. turnContext' = 0 /\ closed' = closed \union {turn} /\ turn \in Nat
    BY <1>2, <1>3 DEF NoContext, Types, HarnessTypes
  <2>3. \A u \in used : u[1] \in Nat /\ u[1] <= turn /\ u[2] # 0
    BY DEF ScopeInv, ContextsUsed
  <2>4. ContextsUsed'
    BY <1>2, <2>2 DEF ScopeInv, ContextsUsed
  <2>5. ClosedGone'
    BY <1>2, <2>2, <2>3 DEF ClosedGone
  <2>6. TurnScope'
    BY <1>2, <2>2, <2>3 DEF ScopeInv, TurnScope
  <2>7. QED
    BY <2>1, <2>4, <2>5, <2>6 DEF ScopeInv, Scoping, Updating
<1>4. CASE ~Closes(w)
  <2>1. phase' # "opening" /\ phase' # "ending"
    BY <1>1, <1>2 DEF Hears, Fits, PhaseOf
  <2>2. Scoping' => Scoping
    <3>1. CASE w.request.kind = "pre_turn"
      BY <1>1, <3>1 DEF Fits, PhaseOf, Scoping, Started, Respond
    <3>2. CASE w.request.kind \in {"session_start", "session_end", "post_turn"}
      BY <1>2, <2>1, <3>2 DEF Hears, Scoping, Updating
    <3>3. CASE w.request.kind \notin {"pre_turn", "session_start", "session_end", "post_turn"}
      BY <1>1, <3>3 DEF Fits, PhaseOf, Scoping
    <3>4. QED
      BY <3>1, <3>2, <3>3
  <2>3. QED
    BY <1>2, <1>4, <2>1, <2>2, ScopeStays DEF ScopeInv
<1>5. QED
  BY <1>3, <1>4

\* Every step keeps it.
LEMMA ScopeStep ==
  ASSUME Types, Serving, AskedInv, WireInv, ScopeInv, [Next]_vars
  PROVE  ScopeInv'
<1>1. CASE UNCHANGED vars
  BY <1>1 DEF vars, harnessVars, sdkVars, ScopeInv, ContextsUsed, ClosedGone, TurnScope,
     Scoping, Started, Updating, IsUpdate, Scoped, Unused
<1>2. QED
  BY <1>1, HarnessScope, ReadScope, BeginScope, HookScope, RespondScope
  DEF Next, Worker

\* One request at a time, the updates and the contexts of its turn.
LEMMA ScopeInvariant == Spec => [](AskedInv /\ WireInv /\ ScopeInv)
<1>1. Init => AskedInv /\ WireInv /\ ScopeInv
  BY DEF Init, AskedInv, OneAtATime, AskedFit, OpeningAsks, WireInv, UpdatesOfTurn, BarriersLast,
     QuietBetween, ScopeInv, ContextsUsed, ClosedGone, TurnScope, Scoping, Updating
<1>2. HooksInv /\ AskedInv /\ WireInv /\ ScopeInv /\ [Next]_vars
        => (AskedInv /\ WireInv /\ ScopeInv)'
  BY AskedStep, WireStep, ScopeStep DEF HooksInv
<1>3. QED
  BY <1>1, <1>2, HooksInvariant, PTL DEF Spec

\* All hooks and observers of a turn share one context, no two prompted turns
\* share one, and a context that dispatchPostTurn closed is never used again
\* (hookrunner.go), for a program with hooks before and after its turns, whatever
\* other hooks it has, however turns are opened, denied, continued, halted between
\* two hooks or left by a panic.
THEOREM TurnsHaveTheirScope == Spec => []TurnScope
<1>1. QED
  BY ScopeInvariant, PTL DEF ScopeInv

----------------------------------------------------------------------------
\* Spans.  What a tracer is between two of its methods.

Span == [traj : Trajectories, index : Nat, of : Nat, turn : Nat, child : BOOLEAN]
Indices(m) == DOMAIN m \subseteq Trajectories /\ \A j \in DOMAIN m : m[j] \in Nat

IsTracer(t) ==
  /\ t = [session |-> t.session, turn |-> t.turn, mainTrajectory |-> t.mainTrajectory,
          steps |-> t.steps, closed |-> t.closed, subagents |-> t.subagents,
          trajectoryOfCall |-> t.trajectoryOfCall, pendingSubagents |-> t.pendingSubagents,
          tools |-> t.tools, unended |-> t.unended, log |-> t.log]
  /\ t.session \in BOOLEAN /\ t.turn \in Nat
  /\ Indices(t.steps) /\ Indices(t.closed)
  /\ t.subagents \subseteq Trajectories /\ IsFiniteSet(t.tools)
  /\ t.log \in Seq(Span)

\* Every span that was started was ended or is still in the tracer's maps,
\* which are empty between turns.
Accounted(t) ==
  /\ t.unended = SpansOpen(t)
  /\ t.turn = NoTurn => DOMAIN t.steps = {} /\ t.subagents = {} /\ t.tools = {}

\* A trajectory's latest span is its open one or, when none is open, the last
\* that was closed; no step has two.
Remembered(t, e) ==
  \/ e.traj \in DOMAIN t.steps /\ e.index <= t.steps[e.traj]
  \/ /\ e.traj \notin DOMAIN t.steps
     /\ e.traj \in DOMAIN t.closed /\ e.index <= t.closed[e.traj]
OnceEach(t) ==
  /\ \A i \in DOMAIN t.log : Remembered(t, t.log[i])
  /\ \A i, n \in DOMAIN t.log :
       t.log[n].traj = t.log[i].traj /\ t.log[n].index = t.log[i].index => n = i

Kept(t) == IsTracer(t) /\ Accounted(t) /\ OnceEach(t)

LEMMA FiniteSpans ==
  ASSUME NEW t, IsTracer(t)
  PROVE  /\ IsFiniteSet(DOMAIN t.steps) /\ Cardinality(DOMAIN t.steps) \in Nat
         /\ IsFiniteSet(t.subagents) /\ Cardinality(t.subagents) \in Nat
         /\ IsFiniteSet(t.tools) /\ Cardinality(t.tools) \in Nat
<1>1. IsFiniteSet(Trajectories)
  <2>1. MaxDelegates \in Nat
    BY HooksAssumption
  <2>2. QED
    BY <2>1, FS_Interval DEF Trajectories
<1>2. DOMAIN t.steps \in SUBSET Trajectories /\ t.subagents \in SUBSET Trajectories
  BY DEF IsTracer, Indices
<1>3. IsFiniteSet(DOMAIN t.steps) /\ IsFiniteSet(t.subagents) /\ IsFiniteSet(t.tools)
  BY <1>1, <1>2, FS_Subset DEF IsTracer
<1>4. QED
  BY <1>3, FS_CardinalityType

\* A new tracer has nothing open.
LEMMA NewTracerKept ==
  /\ Kept(NewTracer) /\ SpansOpen(NewTracer) = 0
<1>1. DOMAIN Empty = {} /\ Cardinality({}) = 0 /\ IsFiniteSet({})
  BY FS_EmptySet DEF Empty
<1>2. IsTracer(NewTracer)
  BY <1>1 DEF IsTracer, NewTracer, Indices, NoTurn
<1>3. SpansOpen(NewTracer) = 0
  BY <1>1 DEF SpansOpen, NewTracer
<1>4. Accounted(NewTracer)
  BY <1>1, <1>3 DEF Accounted, NewTracer
<1>5. OnceEach(NewTracer)
  BY DEF OnceEach, NewTracer
<1>6. QED
  BY <1>2, <1>3, <1>4, <1>5 DEF Kept

\* The end of a turn leaves at most the span of the session.
LEMMA EndTurnKept ==
  ASSUME NEW t, Kept(t)
  PROVE  /\ Kept(endTurn(t)) /\ endTurn(t).turn = NoTurn /\ endTurn(t).session = t.session
         /\ endTurn(t).unended = IF t.session THEN 1 ELSE 0
         /\ endTurn(t).log = <<>> \/ endTurn(t).log = t.log
         /\ endTurn(t).mainTrajectory \in {NoTrajectory, t.mainTrajectory}
<1> USE DEF Kept
<1>1. Cardinality({}) = 0
  BY FS_EmptySet
<1>2. CASE t.turn = NoTurn
  <2>1. t.unended = IF t.session THEN 1 ELSE 0
    BY <1>1, <1>2 DEF Accounted, SpansOpen
  <2>2. QED
    BY <1>2, <2>1 DEF endTurn
<1>3. CASE t.turn # NoTurn
  <2>1. PICK e : e = endTurn(t)
    OBVIOUS
  <2>2. SpansOpen(t) \in Nat /\ t.unended = SpansOpen(t)
    BY FiniteSpans DEF Accounted, SpansOpen, IsTracer
  <2>3. NewTracer.unended + t.unended - SpansOpen(t) + (IF t.session THEN 1 ELSE 0)
          = IF t.session THEN 1 ELSE 0
    BY <2>2 DEF NewTracer
  <2>4. e = [NewTracer EXCEPT !.session = t.session,
                              !.unended = IF t.session THEN 1 ELSE 0]
    BY <1>3, <2>1, <2>3 DEF endTurn
  <2>5. /\ e.session = t.session /\ e.turn = NoTurn /\ e.mainTrajectory = NoTrajectory
        /\ e.steps = Empty /\ e.closed = Empty /\ e.subagents = {} /\ e.tools = {}
        /\ e.log = <<>> /\ e.unended = (IF t.session THEN 1 ELSE 0)
        /\ DOMAIN Empty = {} /\ t.session \in BOOLEAN
    BY <2>4 DEF NewTracer, IsTracer, Empty
  <2>6. IsTracer(e)
    <3>1. e = [session |-> e.session, turn |-> e.turn, mainTrajectory |-> e.mainTrajectory,
               steps |-> e.steps, closed |-> e.closed, subagents |-> e.subagents,
               trajectoryOfCall |-> e.trajectoryOfCall, pendingSubagents |-> e.pendingSubagents,
               tools |-> e.tools, unended |-> e.unended, log |-> e.log]
      BY <2>4 DEF NewTracer
    <3>2. IsFiniteSet({}) /\ e.log \in Seq(Span) /\ Indices(e.steps) /\ Indices(e.closed)
      BY <2>5, FS_EmptySet DEF Indices
    <3>3. QED
      BY <2>5, <3>1, <3>2 DEF IsTracer, NoTurn
  <2>7. Accounted(e)
    BY <1>1, <2>5 DEF Accounted, SpansOpen
  <2>8. OnceEach(e)
    BY <2>5 DEF OnceEach
  <2>9. QED
    BY <2>1, <2>5, <2>6, <2>7, <2>8
<1>4. QED
  BY <1>2, <1>3

\* The span of the session.
LEMMA SessionStartKept ==
  ASSUME NEW t, Kept(t), ~t.session
  PROVE  /\ Kept(sessionStart(t)) /\ sessionStart(t).turn = t.turn
         /\ sessionStart(t).log = t.log /\ sessionStart(t).mainTrajectory = t.mainTrajectory
<1> USE DEF Kept
<1>1. PICK e : e = sessionStart(t)
  OBVIOUS
<1>2. /\ e.session = TRUE /\ e.turn = t.turn /\ e.mainTrajectory = t.mainTrajectory
      /\ e.steps = t.steps /\ e.closed = t.closed /\ e.subagents = t.subagents
      /\ e.tools = t.tools /\ e.log = t.log /\ e.unended = t.unended + 1
      /\ IsTracer(e)
  BY <1>1 DEF sessionStart, IsTracer
<1>3. Accounted(e)
  BY <1>2, FiniteSpans DEF Accounted, SpansOpen
<1>4. OnceEach(e)
  BY <1>2 DEF OnceEach, Remembered
<1>5. QED
  BY <1>1, <1>2, <1>3, <1>4

LEMMA SessionEndKept ==
  ASSUME NEW t, Kept(t)
  PROVE  /\ Kept(sessionEnd(t)) /\ sessionEnd(t).turn = NoTurn /\ sessionEnd(t).session = FALSE
         /\ sessionEnd(t).log = <<>> \/ sessionEnd(t).log = t.log
         /\ sessionEnd(t).mainTrajectory \in {NoTrajectory, t.mainTrajectory}
<1> USE DEF Kept
<1>1. PICK s : s = endTurn(t)
  OBVIOUS
<1>2. /\ Kept(s) /\ s.turn = NoTurn /\ s.session = t.session
      /\ s.unended = (IF t.session THEN 1 ELSE 0)
      /\ s.log = <<>> \/ s.log = t.log
      /\ s.mainTrajectory \in {NoTrajectory, t.mainTrajectory}
  BY <1>1, EndTurnKept
<1>3. PICK e : e = sessionEnd(t)
  OBVIOUS
<1>4. e = [s EXCEPT !.session = FALSE, !.unended = @ - (IF t.session THEN 1 ELSE 0)]
  BY <1>1, <1>3 DEF sessionEnd
<1>5. /\ e.session = FALSE /\ e.turn = NoTurn /\ e.mainTrajectory = s.mainTrajectory
      /\ e.steps = s.steps /\ e.closed = s.closed /\ e.subagents = s.subagents
      /\ e.tools = s.tools /\ e.log = s.log /\ IsTracer(e)
  BY <1>2, <1>4 DEF IsTracer
<1>6. Accounted(e)
  <2>1. e.unended = s.unended - (IF t.session THEN 1 ELSE 0)
    BY <1>2, <1>4 DEF IsTracer
  <2>2. e.unended = 0
    BY <1>2, <2>1
  <2>3. DOMAIN e.steps = {} /\ e.subagents = {} /\ e.tools = {} /\ Cardinality({}) = 0
    BY <1>2, <1>5, FS_EmptySet DEF Accounted
  <2>4. SpansOpen(e) = 0
    BY <1>5, <2>3 DEF SpansOpen
  <2>5. QED
    BY <2>2, <2>3, <2>4 DEF Accounted
<1>7. OnceEach(e)
  BY <1>2, <1>5 DEF OnceEach, Remembered
<1>8. QED
  BY <1>2, <1>3, <1>5, <1>6, <1>7

\* The span of a turn.
LEMMA PreTurnKept ==
  ASSUME NEW t, Kept(t), NEW k \in Nat \ {NoTurn}
  PROVE  /\ Kept(preTurn(t, k)) /\ preTurn(t, k).turn = k
         /\ preTurn(t, k).session = t.session
         /\ preTurn(t, k).log = <<>> \/ preTurn(t, k).log = t.log
         /\ preTurn(t, k).mainTrajectory \in {NoTrajectory, t.mainTrajectory}
<1> USE DEF Kept
<1>1. PICK s : s = endTurn(t)
  OBVIOUS
<1>2. /\ Kept(s) /\ s.turn = NoTurn /\ s.session = t.session
      /\ s.unended = (IF t.session THEN 1 ELSE 0)
      /\ s.log = <<>> \/ s.log = t.log
      /\ s.mainTrajectory \in {NoTrajectory, t.mainTrajectory}
  BY <1>1, EndTurnKept
<1>3. PICK e : e = preTurn(t, k)
  OBVIOUS
<1>4. /\ e.session = s.session /\ e.turn = k /\ e.mainTrajectory = s.mainTrajectory
      /\ e.steps = s.steps /\ e.closed = s.closed /\ e.subagents = s.subagents
      /\ e.tools = s.tools /\ e.log = s.log /\ e.unended = s.unended + 1 /\ IsTracer(e)
  BY <1>1, <1>2, <1>3 DEF IsTracer, preTurn
<1>5. Accounted(e)
  <2>1. DOMAIN e.steps = {} /\ e.subagents = {} /\ e.tools = {} /\ Cardinality({}) = 0
    BY <1>2, <1>4, FS_EmptySet DEF Accounted
  <2>2. SpansOpen(e) = (IF t.session THEN 1 ELSE 0) + 1
    BY <1>2, <1>4, <2>1 DEF SpansOpen
  <2>3. QED
    BY <1>2, <1>4, <2>2 DEF Accounted
<1>6. OnceEach(e)
  BY <1>2, <1>4 DEF OnceEach, Remembered
<1>7. QED
  BY <1>2, <1>3, <1>4, <1>5, <1>6

\* A step's span that is closed is remembered.
LEMMA EndStepKept ==
  ASSUME NEW t, Kept(t), NEW traj
  PROVE  LET e == endStep(t, traj)
         IN /\ Kept(e) /\ e.session = t.session /\ e.turn = t.turn /\ e.log = t.log
            /\ e.mainTrajectory = t.mainTrajectory /\ e.subagents = t.subagents
            /\ e.tools = t.tools /\ DOMAIN e.steps = DOMAIN t.steps \ {traj}
<1> USE DEF Kept
<1>1. CASE traj \notin DOMAIN t.steps
  BY <1>1 DEF endStep
<1>2. CASE traj \in DOMAIN t.steps
  <2>1. PICK e : e = endStep(t, traj)
    OBVIOUS
  <2>2. /\ e.session = t.session /\ e.turn = t.turn /\ e.mainTrajectory = t.mainTrajectory
        /\ e.subagents = t.subagents /\ e.tools = t.tools /\ e.log = t.log
        /\ e.steps = Without(t.steps, {traj}) /\ e.unended = t.unended - 1
        /\ e.closed = With(t.closed, traj, t.steps[traj])
    BY <1>2, <2>1 DEF endStep, IsTracer
  <2>3. e = [session |-> e.session, turn |-> e.turn, mainTrajectory |-> e.mainTrajectory,
                steps |-> e.steps, closed |-> e.closed, subagents |-> e.subagents,
                trajectoryOfCall |-> e.trajectoryOfCall,
                pendingSubagents |-> e.pendingSubagents,
                tools |-> e.tools, unended |-> e.unended, log |-> e.log]
    BY <1>2, <2>1 DEF endStep, IsTracer
  <2>4. /\ DOMAIN e.steps = DOMAIN t.steps \ {traj}
        /\ \A j \in DOMAIN e.steps : e.steps[j] = t.steps[j]
    BY <2>2 DEF Without
  <2>5. /\ DOMAIN e.closed = DOMAIN t.closed \union {traj}
        /\ e.closed[traj] = t.steps[traj]
        /\ \A j \in DOMAIN t.closed : j # traj => e.closed[j] = t.closed[j]
    BY <2>2 DEF With
  <2>6. Indices(e.steps) /\ Indices(e.closed)
    BY <1>2, <2>4, <2>5 DEF IsTracer, Indices
  <2>7. IsTracer(e)
    BY <2>2, <2>3, <2>6 DEF IsTracer
  <2>8. Cardinality(DOMAIN e.steps) = Cardinality(DOMAIN t.steps) - 1
    <3>1. IsFiniteSet(DOMAIN t.steps)
      BY FiniteSpans
    <3>2. QED
      BY <1>2, <2>4, <3>1, FS_RemoveElement
  <2>9. Accounted(e)
    <3>1. SpansOpen(e) = SpansOpen(t) - 1
      BY <2>2, <2>8, FiniteSpans DEF SpansOpen
    <3>2. QED
      BY <1>2, <2>2, <2>4, <3>1 DEF Accounted
  <2>10. \A i \in DOMAIN e.log : Remembered(e, e.log[i])
    <3> SUFFICES ASSUME NEW i \in DOMAIN t.log PROVE Remembered(e, t.log[i])
      BY <2>2
    <3>1. Remembered(t, t.log[i])
      BY DEF OnceEach
    <3>2. CASE t.log[i].traj = traj
      BY <1>2, <2>4, <2>5, <3>1, <3>2 DEF Remembered
    <3>3. CASE t.log[i].traj # traj
      BY <2>4, <2>5, <3>1, <3>3 DEF Remembered
    <3>4. QED
      BY <3>2, <3>3
  <2>11. OnceEach(e)
    BY <2>2, <2>10 DEF OnceEach
  <2>12. QED
    BY <2>1, <2>2, <2>4, <2>7, <2>9, <2>11
<1>3. QED
  BY <1>1, <1>2

\* A subagent has one span.
LEMMA SubagentKept ==
  ASSUME NEW t, Kept(t), t.turn # NoTurn, NEW traj \in Trajectories
  PROVE  LET e == subagent(t, traj)
         IN /\ Kept(e) /\ e.session = t.session /\ e.turn = t.turn /\ e.log = t.log
            /\ e.mainTrajectory = t.mainTrajectory /\ e.steps = t.steps /\ e.closed = t.closed
<1> USE DEF Kept
<1>1. CASE traj \in t.subagents
  BY <1>1 DEF subagent
<1>2. CASE traj \notin t.subagents
  <2>1. PICK e : e = subagent(t, traj)
    OBVIOUS
  <2>2. /\ e.session = t.session /\ e.turn = t.turn /\ e.mainTrajectory = t.mainTrajectory
        /\ e.subagents = t.subagents \union {traj} /\ e.tools = t.tools /\ e.log = t.log
        /\ e.steps = t.steps /\ e.closed = t.closed /\ e.unended = t.unended + 1
    BY <1>2, <2>1 DEF subagent, IsTracer
  <2>3. e = [session |-> e.session, turn |-> e.turn, mainTrajectory |-> e.mainTrajectory,
             steps |-> e.steps, closed |-> e.closed, subagents |-> e.subagents,
             trajectoryOfCall |-> e.trajectoryOfCall, pendingSubagents |-> e.pendingSubagents,
             tools |-> e.tools, unended |-> e.unended, log |-> e.log]
    BY <1>2, <2>1 DEF subagent, IsTracer
  <2>4. IsTracer(e)
    BY <2>2, <2>3 DEF IsTracer
  <2>5. Cardinality(e.subagents) = Cardinality(t.subagents) + 1
    <3>1. IsFiniteSet(t.subagents)
      BY FiniteSpans
    <3>2. QED
      BY <1>2, <2>2, <3>1, FS_AddElement
  <2>6. Accounted(e)
    <3>1. SpansOpen(e) = SpansOpen(t) + 1
      BY <2>2, <2>5, FiniteSpans DEF SpansOpen
    <3>2. QED
      BY <2>2, <3>1 DEF Accounted
  <2>7. OnceEach(e)
    BY <2>2 DEF OnceEach, Remembered
  <2>8. QED
    BY <2>1, <2>2, <2>4, <2>6, <2>7
<1>3. QED
  BY <1>1, <1>2

\* A step's span is opened beneath the turn or its subagent, if the step is a
\* new one of its trajectory.
LEMMA StartStepKept ==
  ASSUME NEW t, Kept(t), t.turn # NoTurn, NEW u \in StepUpdate,
         u.traj \notin DOMAIN t.steps,
         u.traj \in DOMAIN t.closed => t.closed[u.traj] < u.index
  PROVE  LET e == startStep(t, u)
         IN /\ Kept(e) /\ e.session = t.session /\ e.turn = t.turn
            /\ e.mainTrajectory = t.mainTrajectory
            /\ e.log = Append(t.log, [traj |-> u.traj, index |-> u.index, of |-> u.of,
                                      turn |-> t.turn, child |-> u.traj # t.mainTrajectory])
<1> USE DEF Kept
<1> DEFINE span == [traj |-> u.traj, index |-> u.index, of |-> u.of,
                    turn |-> t.turn, child |-> u.traj # t.mainTrajectory]
<1>1. PICK s : s = IF u.traj # t.mainTrajectory THEN subagent(t, u.traj) ELSE t
  OBVIOUS
<1>2. u.traj \in Trajectories /\ u.index \in Nat /\ u.of \in Nat
  BY DEF StepUpdate
<1>3. /\ Kept(s) /\ s.session = t.session /\ s.turn = t.turn /\ s.log = t.log
      /\ s.mainTrajectory = t.mainTrajectory /\ s.steps = t.steps /\ s.closed = t.closed
  <2>1. CASE u.traj # t.mainTrajectory
    BY <1>1, <1>2, <2>1, SubagentKept
  <2>2. CASE u.traj = t.mainTrajectory
    BY <1>1, <2>2
  <2>3. QED
    BY <2>1, <2>2
<1>4. PICK e : e = startStep(t, u)
  OBVIOUS
<1>5. e = [s EXCEPT !.steps = With(@, u.traj, u.index), !.unended = @ + 1,
                    !.log = Append(@, span)]
  BY <1>1, <1>4 DEF startStep
<1>6. /\ e.session = s.session /\ e.turn = s.turn /\ e.mainTrajectory = s.mainTrajectory
      /\ e.subagents = s.subagents /\ e.tools = s.tools /\ e.log = Append(s.log, span)
      /\ e.steps = With(s.steps, u.traj, u.index) /\ e.closed = s.closed
      /\ e.unended = s.unended + 1
  BY <1>3, <1>5 DEF IsTracer
<1>7. e = [session |-> e.session, turn |-> e.turn, mainTrajectory |-> e.mainTrajectory,
           steps |-> e.steps, closed |-> e.closed, subagents |-> e.subagents,
           trajectoryOfCall |-> e.trajectoryOfCall, pendingSubagents |-> e.pendingSubagents,
           tools |-> e.tools, unended |-> e.unended, log |-> e.log]
  BY <1>3, <1>5 DEF IsTracer
<1>8. /\ DOMAIN e.steps = DOMAIN t.steps \union {u.traj} /\ e.steps[u.traj] = u.index
      /\ \A j \in DOMAIN t.steps : e.steps[j] = t.steps[j]
  BY <1>3, <1>6 DEF With
<1>9. span \in Span
  BY <1>2 DEF Span, IsTracer
<1>10. IsTracer(e)
  <2>1. Indices(e.steps)
    BY <1>2, <1>8 DEF IsTracer, Indices
  <2>2. e.log \in Seq(Span)
    BY <1>3, <1>6, <1>9 DEF IsTracer
  <2>3. QED
    BY <1>3, <1>6, <1>7, <2>1, <2>2 DEF IsTracer
<1>11. Accounted(e)
  <2>1. IsFiniteSet(DOMAIN t.steps)
    BY FiniteSpans
  <2>2. Cardinality(DOMAIN e.steps) = Cardinality(DOMAIN s.steps) + 1
    BY <1>3, <1>8, <2>1, FS_AddElement
  <2>3. SpansOpen(e) = SpansOpen(s) + 1
    <3>1. /\ Cardinality(DOMAIN s.steps) \in Nat /\ Cardinality(s.subagents) \in Nat
          /\ Cardinality(s.tools) \in Nat
      BY <1>3, FiniteSpans
    <3>2. QED
      BY <1>6, <2>2, <3>1 DEF SpansOpen
  <2>4. QED
    BY <1>3, <1>6, <2>3 DEF Accounted
<1>12. OnceEach(e)
  <2>1. /\ t.log \in Seq(Span) /\ e.log = Append(t.log, span)
        /\ DOMAIN e.log = DOMAIN t.log \union {Len(t.log) + 1}
        /\ e.log[Len(t.log) + 1] = span /\ \A i \in DOMAIN t.log : e.log[i] = t.log[i]
    BY <1>3, <1>6 DEF IsTracer
  <2>2. \A i \in DOMAIN t.log : Remembered(t, t.log[i]) /\ t.log[i] \in Span
    BY <2>1 DEF OnceEach
  <2>3. \A i \in DOMAIN t.log : t.log[i].traj = u.traj => t.log[i].index < u.index
    BY <1>2, <2>2 DEF Remembered, IsTracer, Indices, Span
  <2>4. \A i \in DOMAIN t.log : Remembered(e, t.log[i])
    <3> SUFFICES ASSUME NEW i \in DOMAIN t.log PROVE Remembered(e, t.log[i])
      OBVIOUS
    <3>1. CASE t.log[i].traj = u.traj
      <4>1. t.log[i].index \in Nat /\ t.log[i].index < u.index
        BY <2>2, <2>3, <3>1 DEF Span
      <4>2. QED
        BY <1>2, <1>8, <3>1, <4>1 DEF Remembered
    <3>2. CASE t.log[i].traj # u.traj
      BY <1>3, <1>6, <1>8, <2>2, <3>2 DEF Remembered
    <3>3. QED
      BY <3>1, <3>2
  <2>5. Remembered(e, span)
    BY <1>2, <1>8 DEF Remembered
  <2>6. \A i \in DOMAIN e.log : Remembered(e, e.log[i])
    BY <2>1, <2>4, <2>5
  <2>7. ASSUME NEW i \in DOMAIN e.log, NEW n \in DOMAIN e.log,
               e.log[n].traj = e.log[i].traj, e.log[n].index = e.log[i].index
        PROVE  n = i
    <3>1. CASE i \in DOMAIN t.log /\ n \in DOMAIN t.log
      BY <2>1, <2>7, <3>1 DEF OnceEach
    <3>2. ASSUME NEW k \in DOMAIN t.log
          PROVE  ~(span.traj = t.log[k].traj /\ span.index = t.log[k].index)
      BY <1>2, <2>2, <2>3 DEF Span
    <3>3. QED
      BY <2>1, <2>7, <3>1, <3>2
  <2>8. QED
    BY <2>6, <2>7 DEF OnceEach
<1>13. QED
  BY <1>3, <1>4, <1>6, <1>10, <1>11, <1>12

\* A call has one span while it is open.
LEMMA StartToolKept ==
  ASSUME NEW t, Kept(t), t.turn # NoTurn, NEW u
  PROVE  LET e == startTool(t, u)
         IN /\ Kept(e) /\ e.session = t.session /\ e.turn = t.turn /\ e.log = t.log
            /\ e.mainTrajectory = t.mainTrajectory
<1> USE DEF Kept
<1>1. CASE u.kind = "text" \/ CallOf(u) \in t.tools
  BY <1>1 DEF startTool
<1>2. CASE ~(u.kind = "text" \/ CallOf(u) \in t.tools)
  <2>1. PICK e : e = startTool(t, u)
    OBVIOUS
  <2>2. /\ e.session = t.session /\ e.turn = t.turn /\ e.mainTrajectory = t.mainTrajectory
        /\ e.subagents = t.subagents /\ e.tools = t.tools \union {CallOf(u)} /\ e.log = t.log
        /\ e.steps = t.steps /\ e.closed = t.closed /\ e.unended = t.unended + 1
    BY <1>2, <2>1 DEF startTool, IsTracer
  <2>3. e = [session |-> e.session, turn |-> e.turn, mainTrajectory |-> e.mainTrajectory,
             steps |-> e.steps, closed |-> e.closed, subagents |-> e.subagents,
             trajectoryOfCall |-> e.trajectoryOfCall, pendingSubagents |-> e.pendingSubagents,
             tools |-> e.tools, unended |-> e.unended, log |-> e.log]
    BY <1>2, <2>1 DEF startTool, IsTracer
  <2>4. IsFiniteSet(e.tools) /\ Cardinality(e.tools) = Cardinality(t.tools) + 1
    BY <1>2, <2>2, FS_AddElement DEF IsTracer
  <2>5. IsTracer(e)
    BY <2>2, <2>3, <2>4 DEF IsTracer
  <2>6. Accounted(e)
    <3>1. SpansOpen(e) = SpansOpen(t) + 1
      BY <2>2, <2>4, FiniteSpans DEF SpansOpen
    <3>2. QED
      BY <2>2, <3>1 DEF Accounted
  <2>7. OnceEach(e)
    BY <2>2 DEF OnceEach, Remembered
  <2>8. QED
    BY <2>1, <2>2, <2>5, <2>6, <2>7
<1>3. QED
  BY <1>1, <1>2

LEMMA ToolErrorKept ==
  ASSUME NEW t, Kept(t), NEW call
  PROVE  LET e == toolError(t, call)
         IN /\ Kept(e) /\ e.session = t.session /\ e.turn = t.turn /\ e.log = t.log
            /\ e.mainTrajectory = t.mainTrajectory
<1> USE DEF Kept
<1>1. CASE call \notin t.tools
  BY <1>1 DEF toolError
<1>2. CASE call \in t.tools
  <2>1. PICK e : e = toolError(t, call)
    OBVIOUS
  <2>2. /\ e.session = t.session /\ e.turn = t.turn /\ e.mainTrajectory = t.mainTrajectory
        /\ e.subagents = t.subagents /\ e.tools = t.tools \ {call} /\ e.log = t.log
        /\ e.steps = t.steps /\ e.closed = t.closed /\ e.unended = t.unended - 1
    BY <1>2, <2>1 DEF toolError, IsTracer
  <2>3. e = [session |-> e.session, turn |-> e.turn, mainTrajectory |-> e.mainTrajectory,
             steps |-> e.steps, closed |-> e.closed, subagents |-> e.subagents,
             trajectoryOfCall |-> e.trajectoryOfCall, pendingSubagents |-> e.pendingSubagents,
             tools |-> e.tools, unended |-> e.unended, log |-> e.log]
    BY <1>2, <2>1 DEF toolError, IsTracer
  <2>4. IsFiniteSet(e.tools) /\ Cardinality(e.tools) = Cardinality(t.tools) - 1
    BY <1>2, <2>2, FS_RemoveElement DEF IsTracer
  <2>5. IsTracer(e)
    BY <2>2, <2>3, <2>4 DEF IsTracer
  <2>6. Accounted(e)
    <3>1. SpansOpen(e) = SpansOpen(t) - 1
      BY <2>2, <2>4, FiniteSpans DEF SpansOpen
    <3>2. QED
      BY <1>2, <2>2, <3>1 DEF Accounted
  <2>7. OnceEach(e)
    BY <2>2 DEF OnceEach, Remembered
  <2>8. QED
    BY <2>1, <2>2, <2>5, <2>6, <2>7
<1>3. QED
  BY <1>1, <1>2

\* The result of a delegation closes the spans of its subagent.
LEMMA PostToolKept ==
  ASSUME NEW t, Kept(t), NEW call
  PROVE  LET e == postToolCall(t, call)
         IN /\ Kept(e) /\ e.session = t.session /\ e.turn = t.turn /\ e.log = t.log
            /\ e.mainTrajectory = t.mainTrajectory
<1> USE DEF Kept
<1>1. PICK told : told = toolError(t, call)
  OBVIOUS
<1>2. /\ Kept(told) /\ told.session = t.session /\ told.turn = t.turn /\ told.log = t.log
      /\ told.mainTrajectory = t.mainTrajectory
  BY <1>1, ToolErrorKept
<1>3. CASE call \notin DOMAIN t.trajectoryOfCall
  BY <1>1, <1>2, <1>3 DEF postToolCall
<1>4. CASE call \in DOMAIN t.trajectoryOfCall
  <2>1. PICK traj : traj = t.trajectoryOfCall[call]
    OBVIOUS
  <2>2. PICK s : s = endStep(told, traj)
    OBVIOUS
  <2>3. /\ Kept(s) /\ s.session = t.session /\ s.turn = t.turn /\ s.log = t.log
        /\ s.mainTrajectory = t.mainTrajectory /\ s.subagents = told.subagents
        /\ s.tools = told.tools
    BY <1>2, <2>2, EndStepKept
  <2>4. PICK e : e = postToolCall(t, call)
    OBVIOUS
  <2>5. PICK d : d = Cardinality({traj} \intersect t.subagents)
    OBVIOUS
  <2>6. e = [s EXCEPT !.subagents = @ \ {traj}, !.unended = @ - d,
                      !.trajectoryOfCall = Without(@, {call})]
    BY <1>1, <1>4, <2>1, <2>2, <2>4, <2>5 DEF postToolCall
  <2>7. /\ e.session = s.session /\ e.turn = s.turn /\ e.mainTrajectory = s.mainTrajectory
        /\ e.subagents = s.subagents \ {traj} /\ e.tools = s.tools /\ e.log = s.log
        /\ e.steps = s.steps /\ e.closed = s.closed /\ e.unended = s.unended - d
    BY <2>3, <2>6 DEF IsTracer
  <2>8. e = [session |-> e.session, turn |-> e.turn, mainTrajectory |-> e.mainTrajectory,
             steps |-> e.steps, closed |-> e.closed, subagents |-> e.subagents,
             trajectoryOfCall |-> e.trajectoryOfCall, pendingSubagents |-> e.pendingSubagents,
             tools |-> e.tools, unended |-> e.unended, log |-> e.log]
    BY <2>3, <2>6 DEF IsTracer
  <2>9. s.subagents = t.subagents
    BY <1>1, <2>3 DEF toolError, IsTracer
  <2>10. d = IF traj \in s.subagents THEN 1 ELSE 0
    <3>1. CASE traj \in s.subagents
      <4>1. {traj} \intersect t.subagents = {traj}
        BY <2>9, <3>1
      <4>2. QED
        BY <2>5, <3>1, <4>1, FS_Singleton
    <3>2. CASE traj \notin s.subagents
      <4>1. {traj} \intersect t.subagents = {}
        BY <2>9, <3>2
      <4>2. QED
        BY <2>5, <3>2, <4>1, FS_EmptySet
    <3>3. QED
      BY <3>1, <3>2
  <2>11. /\ IsFiniteSet(s.subagents)
         /\ Cardinality(DOMAIN s.steps) \in Nat /\ Cardinality(s.subagents) \in Nat
         /\ Cardinality(s.tools) \in Nat
    BY <2>3, FiniteSpans
  <2>12. Cardinality(e.subagents)
           = Cardinality(s.subagents) - (IF traj \in s.subagents THEN 1 ELSE 0)
    <3>1. Cardinality(s.subagents \ {traj})
            = IF traj \in s.subagents THEN Cardinality(s.subagents) - 1
              ELSE Cardinality(s.subagents)
      BY <2>11, FS_RemoveElement
    <3>2. QED
      BY <2>7, <2>11, <3>1
  <2>13. IsTracer(e)
    BY <2>3, <2>7, <2>8 DEF IsTracer
  <2>14. Accounted(e)
    <3>1. SpansOpen(e) = SpansOpen(s) - d
      BY <2>7, <2>10, <2>11, <2>12 DEF SpansOpen
    <3>2. QED
      BY <2>3, <2>7, <3>1 DEF Accounted
  <2>15. OnceEach(e)
    BY <2>3, <2>7 DEF OnceEach, Remembered
  <2>16. QED
    BY <2>3, <2>4, <2>7, <2>13, <2>14, <2>15
<1>5. QED
  BY <1>3, <1>4

\* The main trajectory is named by the first update of a turn.
LEMMA NamedKept ==
  ASSUME NEW t, Kept(t), NEW traj
  PROVE  LET e == [t EXCEPT !.mainTrajectory = traj]
         IN /\ Kept(e) /\ e.session = t.session /\ e.turn = t.turn /\ e.log = t.log
            /\ e.steps = t.steps /\ e.closed = t.closed /\ e.mainTrajectory = traj
<1> USE DEF Kept
<1>1. PICK e : e = [t EXCEPT !.mainTrajectory = traj]
  OBVIOUS
<1>2. /\ e.session = t.session /\ e.turn = t.turn /\ e.mainTrajectory = traj
      /\ e.steps = t.steps /\ e.closed = t.closed /\ e.subagents = t.subagents
      /\ e.tools = t.tools /\ e.log = t.log /\ e.unended = t.unended /\ IsTracer(e)
  BY <1>1 DEF IsTracer
<1>3. Accounted(e)
  BY <1>2 DEF Accounted, SpansOpen
<1>4. OnceEach(e)
  BY <1>2 DEF OnceEach, Remembered
<1>5. QED
  BY <1>1, <1>2, <1>3, <1>4

\* An update opens a span beneath the present turn, or none.
LEMMA ObserveKept ==
  ASSUME NEW t, Kept(t), t.turn # NoTurn, NEW u \in StepUpdate,
         t.mainTrajectory \in {NoTrajectory, Main},
         t.mainTrajectory = NoTrajectory => u.traj = Main
  PROVE  LET e == observeStep(t, u)
         IN /\ Kept(e) /\ e.session = t.session /\ e.turn = t.turn /\ e.mainTrajectory = Main
            /\ \/ e.log = t.log
               \/ e.log = Append(t.log, [traj |-> u.traj, index |-> u.index, of |-> u.of,
                                         turn |-> t.turn, child |-> u.traj # Main])
<1> DEFINE named == IF t.mainTrajectory = NoTrajectory
                    THEN [t EXCEPT !.mainTrajectory = u.traj] ELSE t
           moves == u.traj \in DOMAIN t.steps /\ t.steps[u.traj] # u.index
           moved == IF moves THEN endStep(named, u.traj) ELSE named
           over == /\ u.traj \notin DOMAIN moved.steps
                   /\ u.traj \in DOMAIN moved.closed /\ u.index <= moved.closed[u.traj]
           begun == IF u.traj \in DOMAIN moved.steps THEN moved ELSE startStep(moved, u)
           called == startTool(begun, u)
           span == [traj |-> u.traj, index |-> u.index, of |-> u.of,
                    turn |-> t.turn, child |-> u.traj # Main]
           Goes(e) == /\ Kept(e) /\ e.session = t.session /\ e.turn = t.turn
                      /\ e.mainTrajectory = Main
<1>1. observeStep(t, u) = IF over THEN moved ELSE IF u.done THEN endStep(called, u.traj) ELSE called
  BY DEF observeStep
<1>2. Goes(named) /\ named.log = t.log /\ named.steps = t.steps
  BY NamedKept
<1>3. Goes(moved) /\ moved.log = t.log
  BY <1>2, EndStepKept
<1>4. CASE over
  BY <1>1, <1>3, <1>4
<1>5. CASE ~over
  <2>1. Goes(begun) /\ begun.log \in {t.log, Append(t.log, span)}
    <3>1. CASE u.traj \in DOMAIN moved.steps
      BY <1>3, <3>1
    <3>2. CASE u.traj \notin DOMAIN moved.steps
      <4>1. u.traj \in DOMAIN moved.closed => moved.closed[u.traj] < u.index
        <5> HAVE u.traj \in DOMAIN moved.closed
        <5>1. moved.closed[u.traj] \in Nat /\ u.index \in Nat
          BY <1>3 DEF Kept, IsTracer, Indices, StepUpdate
        <5>2. QED
          BY <1>5, <3>2, <5>1
      <4>2. begun = startStep(moved, u)
        BY <3>2
      <4> HIDE DEF moved, begun
      <4>3. QED
        BY <1>3, <3>2, <4>1, <4>2, StartStepKept
    <3>3. QED
      BY <3>1, <3>2
  <2> HIDE DEF begun
  <2>2. Goes(called) /\ called.log = begun.log
    BY <2>1, StartToolKept
  <2> HIDE DEF called
  <2>3. Goes(endStep(called, u.traj)) /\ endStep(called, u.traj).log = begun.log
    BY <2>2, EndStepKept
  <2>4. QED
    BY <1>1, <1>5, <2>1, <2>2, <2>3
<1>6. QED
  BY <1>4, <1>5

----------------------------------------------------------------------------
\* Spans.  The harness: between turns no trajectory is at a step, and the tool
\* hooks are about a step that was begun.

Settled == \A j \in Trajectories : work[j].stage = "none"
SettledBetween ==
  phase \in {"starting", "idle", "opening"} \/ (phase = "closing" /\ asked # {}) => Settled
AskedAtWork ==
  \A r \in asked :
    r.kind \in {"pre_tool", "tool_error", "post_tool"} => work[r.call[1]].stage # "none"
Numbered == phase = "opening" => turn # NoTurn

WorkInv == SettledBetween /\ AskedAtWork /\ Numbered

\* The life of session and turn.
LEMMA TurnLevelWork ==
  ASSUME HarnessTypes, AskedInv, WorkInv, TurnLevel
  PROVE  WorkInv'
<1> USE DEF WorkInv
<1>1. asked = {}
  BY AsksAlone DEF TurnLevel
<1>2. ASSUME NEW kind \in {"session_start", "pre_turn", "compaction", "stop", "post_turn",
                           "session_end"},
             NEW call, NEW of, Ask(kind, call, of)
      PROVE  AskedAtWork'
  BY <1>1, <1>2 DEF Ask, AskedAtWork
<1>3. \A j \in Trajectories : Abandoned[j].stage = "none"
  BY DEF Abandoned, Resting
<1>4. CASE StartSession
  BY <1>2, <1>4 DEF StartSession, SettledBetween, Settled, Numbered
<1>5. CASE PromptTurn
  <2>1. turn' # NoTurn
    BY <1>5 DEF PromptTurn, BeginTurn, HarnessTypes, NoTurn
  <2>2. QED
    BY <1>2, <1>5, <2>1 DEF PromptTurn, BeginTurn, SettledBetween, Settled, Numbered
<1>6. CASE TriggerTurn
  BY <1>1, <1>6 DEF TriggerTurn, SettledBetween, AskedAtWork, Numbered
<1>7. CASE Compact
  BY <1>2, <1>7 DEF Compact, SettledBetween, Numbered
<1>8. CASE StopTurn
  BY <1>2, <1>8 DEF StopTurn, SettledBetween, Numbered
<1>9. CASE HaltTurn
  BY <1>1, <1>9 DEF HaltTurn, SettledBetween, AskedAtWork, Numbered
<1>10. CASE CloseTurn
  BY <1>2, <1>3, <1>10 DEF CloseTurn, SettledBetween, Settled, Numbered
<1>11. CASE EndSession
  BY <1>2, <1>11 DEF EndSession, SettledBetween, Numbered
<1>12. QED
  BY <1>4, <1>5, <1>6, <1>7, <1>8, <1>9, <1>10, <1>11 DEF TurnLevel

\* The life of a step.
LEMMA StepLevelWork ==
  ASSUME HarnessTypes, WorkInv, NEW j \in Trajectories, StepLevel(j)
  PROVE  WorkInv'
<1> USE DEF WorkInv
<1>1. phase = "running" /\ phase' = phase
  BY DEF StepLevel, BeginStep, RepeatUpdate, SettleStep, GateTool, FailTool, ReportTool,
     SkipHook, AskAbout, Shows, Working
<1>2. SettledBetween' /\ Numbered'
  BY <1>1 DEF SettledBetween, Numbered
<1>3. CASE GateTool(j) \/ FailTool(j) \/ ReportTool(j)
  <2>1. work[j].stage # "none" /\ work' = work
    BY <1>3 DEF GateTool, FailTool, ReportTool, HasRun, AskAbout
  <2>2. PICK kind : asked' = asked \union {[kind |-> kind, call |-> <<j, work[j].index>>,
                                            turn |-> turn]}
    BY <1>3 DEF GateTool, FailTool, ReportTool, AskAbout, Ask
  <2>3. QED
    BY <1>2, <2>1, <2>2 DEF AskedAtWork
<1>4. ASSUME asked' = asked,
             NEW s \in StepState, work' = [work EXCEPT ![j] = s],
             s.stage # "none" \/ s.stage = work[j].stage
      PROVE  WorkInv'
  <2>1. \A r \in asked : r.call[1] \in Trajectories
    BY DEF HarnessTypes, Request
  <2>2. QED
    BY <1>2, <1>4, <2>1 DEF AskedAtWork, HarnessTypes
<1>5. work[j] \in StepState
  BY DEF HarnessTypes
<1>6. ASSUME NEW kind \in StepKinds, BeginStep(j, kind)
      PROVE  WorkInv'
  <2> DEFINE s == [index |-> work[j].index + 1, kind |-> kind,
                   stage |-> IF kind = "text" THEN "over" ELSE "announced", done |-> FALSE]
  <2>1. s \in StepState /\ s.stage # "none"
    BY <1>5, HooksAssumption DEF StepState, KindsOfStep, Stages
  <2>2. QED
    BY <1>4, <1>6, <2>1 DEF BeginStep, Shows
<1>7. CASE RepeatUpdate(j)
  BY <1>4, <1>5, <1>7 DEF RepeatUpdate, Shows
<1>8. CASE SettleStep(j)
  <2>1. /\ [work[j] EXCEPT !.done = TRUE] \in StepState
        /\ [work[j] EXCEPT !.done = TRUE].stage = work[j].stage
    BY <1>5 DEF StepState
  <2>2. QED
    BY <1>4, <1>8, <2>1 DEF SettleStep, Shows
<1>9. CASE SkipHook(j)
  <2>1. PICK stage \in Stages \ {"none"} :
          work' = [work EXCEPT ![j] = [work[j] EXCEPT !.stage = stage]]
    BY <1>9, SkipMoves
  <2>2. /\ [work[j] EXCEPT !.stage = stage] \in StepState
        /\ [work[j] EXCEPT !.stage = stage].stage = stage
    BY <1>5 DEF StepState
  <2>3. QED
    BY <1>4, <1>9, <2>1, <2>2 DEF SkipHook
<1>10. QED
  BY <1>3, <1>6, <1>7, <1>8, <1>9 DEF StepLevel

\* A goroutine with a request is alone.
LEMMA WorksAlone ==
  ASSUME Types, Serving, AskedInv, NEW w \in workers
  PROVE  /\ workers = {w} /\ w \in WorkerState
         /\ w.request \in asked /\ w.request \in Request /\ Fits(w.request)
         /\ asked = {w.request}
<1>1. \A v \in workers : v.request \in asked
  BY DEF Serving, OnlyAsked
<1>2. \A v \in workers : v = w
  BY <1>1 DEF AskedInv, OneAtATime, Serving, ByOneWorker
<1>3. QED
  BY <1>1, <1>2 DEF AskedInv, OneAtATime, AskedFit, Types, SDKTypes, WorkerState

\* An answer.
LEMMA RespondWork ==
  ASSUME Types, Serving, AskedInv, WorkInv, NEW w \in workers, Respond(w)
  PROVE  WorkInv'
<1>1. w.request \in asked /\ Fits(w.request) /\ w.request.kind \in Kinds
  BY WorksAlone DEF Request
<1>2. asked' = {} /\ Hears(w.request, Answer(w)) /\ turn' = turn
  BY RespondAsked DEF Respond, Hears
<1>3. CASE w.request.kind \in {"session_start", "pre_turn", "post_turn"}
  <2>1. Settled
    BY <1>1, <1>3 DEF WorkInv, SettledBetween, Fits, PhaseOf
  <2>2. work' = work /\ phase' # "opening"
    BY <1>2, <1>3 DEF Hears
  <2>3. QED
    BY <1>2, <2>1, <2>2 DEF WorkInv, SettledBetween, Settled, AskedAtWork, Numbered
<1>4. CASE w.request.kind \notin {"session_start", "pre_turn", "post_turn"}
  <2>1. phase' \in {"running", "closing", "ended"}
    BY <1>1, <1>2, <1>4 DEF Hears, Fits, PhaseOf, Kinds
  <2>2. QED
    BY <1>2, <2>1 DEF WorkInv, SettledBetween, AskedAtWork, Numbered
<1>5. QED
  BY <1>3, <1>4

\* Every step keeps it.
LEMMA WorkStep ==
  ASSUME Types, Serving, AskedInv, WorkInv, [Next]_vars
  PROVE  WorkInv'
<1>1. CASE UNCHANGED harnessVars
  BY <1>1 DEF harnessVars, WorkInv, SettledBetween, Settled, AskedAtWork, Numbered
<1>2. QED
  BY <1>1, TurnLevelWork, StepLevelWork, RespondWork
  DEF Types, Next, ReadLoop, ReadUpdate, ReadRequest, Worker, Begin, RunHook, vars

----------------------------------------------------------------------------
\* Spans.  The tracer in a session.

\* The package comment of tracing puts its options before the caller's, once: no
\* other hook of a session's end or a turn's begin can end a dispatch before its own.
TracerIsFirst ==
  /\ HooksOf["pre_turn"][1] = "tracer" /\ HooksOf["session_end"][1] = "tracer"
  /\ \A i, j \in DOMAIN HooksOf["session_start"] :
       HooksOf["session_start"][i] = "tracer" /\ HooksOf["session_start"][j] = "tracer" => i = j

\* The session's span is begun by one hook, and after the session's end, or
\* from the first of its hooks on, nothing is open.
TracerSpoke(w) == \E i \in DOMAIN w.votes : HooksOf["session_start"][i] = "tracer"
SessionBegins ==
  tracer.session /\ phase = "starting" =>
    \E w \in workers : w.request.kind = "session_start" /\ TracerSpoke(w)
Swept == tracer.session = FALSE /\ tracer.turn = NoTurn
SessionEnds ==
  /\ phase = "ended" => Swept
  /\ \A w \in workers : w.request.kind = "session_end" /\ w.votes # <<>> => Swept

\* The main trajectory has its name, or the first update to come gives it.
NothingShown == Settled /\ \A n \in DOMAIN wire : ~IsUpdate(n)
MainFirst ==
  \E m \in DOMAIN wire :
    /\ IsUpdate(m) /\ wire[m].step.traj = Main
    /\ \A n \in DOMAIN wire : n < m => ~IsUpdate(n)
MainNamed ==
  /\ tracer.mainTrajectory \in {NoTrajectory, Main}
  /\ tracer.turn # NoTurn /\ tracer.mainTrajectory = NoTrajectory => NothingShown \/ MainFirst

\* A prompted turn that may show something is the tracer's.
Observed ==
  \/ phase \in {"running", "stopping"}
  \/ phase = "opening" /\ \E w \in workers : w.request.kind = "pre_turn" /\ w.votes # <<>>
  \/ phase \in {"closing", "ending"} /\ \E n \in DOMAIN wire : IsUpdate(n)
Traced == turn \in prompted /\ Observed => tracer.turn = turn

\* What the spans say they are beneath is what they are beneath.
Placed(span) ==
  /\ span.of <= turn
  /\ span.of \in prompted => span.turn = span.of
  /\ span.child = (span.traj # Main)
AllPlaced == \A i \in DOMAIN tracer.log : Placed(tracer.log[i])

TracerInv == Kept(tracer) /\ SessionBegins /\ SessionEnds /\ MainNamed /\ Traced /\ AllPlaced

\* Steps of the harness.

\* What is put on the wire is behind what is there.
LEMMA MainFirstStays ==
  ASSUME HarnessTypes, Effect, MainFirst
  PROVE  MainFirst'
<1>1. /\ \A m \in DOMAIN wire : m \in DOMAIN wire' /\ wire'[m] = wire[m]
      /\ \A m \in DOMAIN wire, n \in DOMAIN wire' : n < m => n \in DOMAIN wire
  <2>1. ASSUME NEW f \in Message, wire' = Append(wire, f)
        PROVE  /\ \A m \in DOMAIN wire : m \in DOMAIN wire' /\ wire'[m] = wire[m]
               /\ \A m \in DOMAIN wire, n \in DOMAIN wire' : n < m => n \in DOMAIN wire
    BY <2>1 DEF HarnessTypes
  <2>2. wire' = wire \/ \E f \in Message : wire' = Append(wire, f)
    BY Messages DEF Effect, Makes, Tells, Quiet
  <2>3. QED
    BY <2>1, <2>2
<1>2. PICK m \in DOMAIN wire : /\ IsUpdate(m) /\ wire[m].step.traj = Main
                               /\ \A n \in DOMAIN wire : n < m => ~IsUpdate(n)
  BY DEF MainFirst
<1>3. QED
  BY <1>1, <1>2 DEF MainFirst, IsUpdate

\* A request is no update.
LEMMA NothingShownStays ==
  ASSUME HarnessTypes, NothingShown, work' \in {work, Abandoned},
         (\E r \in Request : Makes(r)) \/ Quiet
  PROVE  NothingShown'
<1>1. Settled'
  BY DEF NothingShown, Settled, Abandoned, Resting
<1>2. CASE \E r \in Request : Makes(r)
  <2>1. PICK m : wire' = Append(wire, m) /\ m.what = "hook" /\ m \in Message
    BY <1>2, Messages DEF Makes
  <2>2. \A n \in DOMAIN wire' : (n \in DOMAIN wire /\ wire'[n] = wire[n]) \/ wire'[n] = m
    BY <2>1, AppendedFrame
  <2>3. QED
    BY <1>1, <2>1, <2>2 DEF NothingShown, IsUpdate
<1>3. CASE Quiet
  BY <1>1, <1>3 DEF Quiet, NothingShown, IsUpdate
<1>4. QED
  BY <1>2, <1>3

\* The life of session and turn: nothing is shown.
LEMMA TurnLevelShows ==
  ASSUME HarnessTypes, TurnLevel
  PROVE  /\ work' \in {work, Abandoned}
         /\ (\E r \in Request : Makes(r)) \/ Quiet
<1> USE MainIsATrajectory
<1>1. Session \in Trajectories \X Nat
  BY DEF Session
<1>2. <<Main, work[Main].index>> \in Trajectories \X Nat /\ turn \in Nat
  BY DEF HarnessTypes, StepState
<1>3. CASE StartSession
  BY <1>1, <1>2, <1>3, AskMakes DEF StartSession, Kinds
<1>4. CASE PromptTurn
  BY <1>1, <1>2, <1>4, AskMakes DEF PromptTurn, BeginTurn, Kinds
<1>5. CASE TriggerTurn
  BY <1>5 DEF TriggerTurn, BeginTurn, Quiet, sdkVars
<1>6. CASE Compact
  BY <1>2, <1>6, AskMakes DEF Compact, Kinds
<1>7. CASE StopTurn
  BY <1>1, <1>2, <1>7, AskMakes DEF StopTurn, Kinds
<1>8. CASE HaltTurn
  BY <1>8 DEF HaltTurn, Quiet, sdkVars
<1>9. CASE CloseTurn
  BY <1>1, <1>2, <1>9, AskMakes DEF CloseTurn, Kinds
<1>10. CASE EndSession
  BY <1>1, <1>2, <1>10, AskMakes DEF EndSession, Kinds
<1>11. QED
  BY <1>3, <1>4, <1>5, <1>6, <1>7, <1>8, <1>9, <1>10 DEF TurnLevel

\* The first step of a turn is one of the main agent.
LEMMA FirstStepIsMain ==
  ASSUME HarnessTypes, NothingShown, NEW j \in Trajectories, StepLevel(j)
  PROVE  MainFirst'
<1> USE MainIsATrajectory
<1>1. work[j].stage = "none" /\ work[Main].stage = "none"
  BY DEF NothingShown, Settled
<1>2. /\ ~RepeatUpdate(j) /\ ~SettleStep(j) /\ ~GateTool(j) /\ ~FailTool(j)
      /\ ~ReportTool(j) /\ ~SkipHook(j)
  BY <1>1, SkipMoves DEF RepeatUpdate, SettleStep, GateTool, FailTool, ReportTool, HasRun
<1>3. PICK kind \in StepKinds : BeginStep(j, kind)
  BY <1>2 DEF StepLevel
<1>4. j = Main
  BY <1>1, <1>3 DEF BeginStep, Working, Delegating
<1>5. PICK s : s = [index |-> work[j].index + 1, kind |-> kind,
                    stage |-> IF kind = "text" THEN "over" ELSE "announced", done |-> FALSE]
  OBVIOUS
<1>6. s \in StepState
  BY <1>5, HooksAssumption DEF HarnessTypes, StepState, KindsOfStep, Stages
<1>7. wire' = Append(wire, UpdateOf(j, s))
  BY <1>3, <1>5 DEF BeginStep, Shows, Sends
<1>8. UpdateOf(j, s) \in Message
  BY <1>6, Messages DEF UpdateOf, StepState, StepUpdate, HarnessTypes
<1>9. /\ Len(wire') = Len(wire) + 1 /\ wire'[Len(wire')] = UpdateOf(j, s)
      /\ DOMAIN wire' = 1..Len(wire') /\ Len(wire) \in Nat
      /\ \A n \in DOMAIN wire' : n < Len(wire') => n \in DOMAIN wire /\ wire'[n] = wire[n]
  BY <1>7, <1>8 DEF HarnessTypes
<1>10. UpdateOf(j, s).what = "update" /\ UpdateOf(j, s).step.traj = Main
  BY <1>4 DEF UpdateOf
<1>11. QED
  BY <1>9, <1>10 DEF MainFirst, IsUpdate, NothingShown

\* A step of the harness leaves the tracer alone.
LEMMA HarnessSpans ==
  ASSUME Types, Serving, AskedInv, WireInv, ScopeInv, WorkInv, TracerInv,
         TurnLevel \/ (\E j \in Trajectories : StepLevel(j))
  PROVE  TracerInv'
<1> USE DEF TracerInv, Types
<1>1. UNCHANGED <<tracer, workers>>
  BY HarnessLeavesTheSDK DEF sdkVars
<1>2. Effect
  BY TurnLevelEffect, StepLevelEffect
<1>3. /\ phase' = "starting" => phase = "starting"
      /\ phase' = "ended" => phase = "ended"
  <2>1. CASE TurnLevel
    BY <2>1 DEF TurnLevel, StartSession, PromptTurn, TriggerTurn, BeginTurn, Compact, StopTurn,
       HaltTurn, CloseTurn, EndSession
  <2>2. ASSUME NEW j \in Trajectories, StepLevel(j) PROVE phase' = phase
    BY <2>2 DEF StepLevel, BeginStep, RepeatUpdate, SettleStep, GateTool, FailTool, ReportTool,
       SkipHook, AskAbout, Shows
  <2>3. QED
    BY <2>1, <2>2
<1>4. Kept(tracer)' /\ SessionBegins' /\ SessionEnds'
  BY <1>1, <1>3 DEF SessionBegins, SessionEnds, Swept, TracerSpoke
<1>5. MainNamed'
  <2>1. MainFirst => MainFirst'
    BY <1>2, MainFirstStays
  <2>2. NothingShown => NothingShown' \/ MainFirst'
    BY TurnLevelShows, NothingShownStays, FirstStepIsMain
  <2>3. QED
    BY <1>1, <2>1, <2>2 DEF MainNamed
<1>6. /\ turn \in Nat /\ turn' \in {turn, turn + 1}
      /\ prompted' \in {prompted, prompted \union {turn + 1}}
      /\ (turn' = turn => prompted' = prompted)
  <2>1. CASE TurnLevel
    BY <2>1 DEF TurnLevel, StartSession, PromptTurn, TriggerTurn, BeginTurn, Compact, StopTurn,
       HaltTurn, CloseTurn, EndSession, HarnessTypes
  <2>2. ASSUME NEW j \in Trajectories, StepLevel(j) PROVE turn' = turn /\ prompted' = prompted
    BY <2>2 DEF StepLevel, BeginStep, RepeatUpdate, SettleStep, GateTool, FailTool, ReportTool,
       SkipHook, AskAbout, Shows
  <2>3. QED
    BY <2>1, <2>2 DEF HarnessTypes
<1>7. \A i \in DOMAIN tracer.log : tracer.log[i] \in Span
  BY DEF Kept, IsTracer
<1>8. AllPlaced'
  BY <1>1, <1>6, <1>7 DEF AllPlaced, Placed, Span
<1>9. CASE turn' = turn
  <2>1. Observed' => Observed
    <3>1. CASE TurnLevel
      <4>1. (\E n \in DOMAIN wire' : wire'[n].what = "update") => \E n \in DOMAIN wire : IsUpdate(n)
        <5>1. CASE \E r \in Request : Makes(r)
          <6>1. PICK m \in Message : wire' = Append(wire, m) /\ m.what = "hook"
            BY <5>1, Messages DEF Makes
          <6>2. QED
            BY <6>1, AppendedFrame DEF IsUpdate
        <5>2. CASE Quiet
          BY <5>2 DEF Quiet, IsUpdate
        <5>3. QED
          BY <3>1, <5>1, <5>2, TurnLevelShows
      <4>2. CASE StartSession \/ Compact \/ StopTurn \/ CloseTurn
        BY <1>1, <4>1, <4>2 DEF StartSession, Compact, StopTurn, CloseTurn, Observed, IsUpdate
      <4>3. CASE HaltTurn
        BY <4>3 DEF HaltTurn, Observed
      <4>4. CASE EndSession
        BY <4>1, <4>4 DEF EndSession, Observed, IsUpdate, WireInv, QuietBetween
      <4>5. CASE PromptTurn \/ TriggerTurn
        BY <1>6, <1>9, <4>5 DEF PromptTurn, TriggerTurn, BeginTurn
      <4>6. QED
        BY <3>1, <4>2, <4>3, <4>4, <4>5 DEF TurnLevel
    <3>2. ASSUME NEW j \in Trajectories, StepLevel(j) PROVE Observed
      BY <3>2 DEF StepLevel, BeginStep, RepeatUpdate, SettleStep, GateTool, FailTool, ReportTool,
         SkipHook, AskAbout, Working, Observed
    <3>3. QED
      BY <3>1, <3>2
  <2>2. Traced'
    BY <1>1, <1>6, <1>9, <2>1 DEF Traced
  <2>3. QED
    BY <1>4, <1>5, <1>8, <2>2
<1>10. CASE turn' # turn
  <2>1. turn' = turn + 1 /\ (PromptTurn \/ TriggerTurn)
    <3>1. CASE TurnLevel
      BY <1>6, <1>10, <3>1 DEF TurnLevel, StartSession, Compact, StopTurn, HaltTurn, CloseTurn,
         EndSession
    <3>2. ASSUME NEW j \in Trajectories, StepLevel(j) PROVE turn' = turn
      BY <3>2 DEF StepLevel, BeginStep, RepeatUpdate, SettleStep, GateTool, FailTool,
         ReportTool, SkipHook, AskAbout, Shows
    <3>3. QED
      BY <1>6, <1>10, <3>1, <3>2
  <2>2. CASE PromptTurn
    <3>1. asked = {} /\ phase' = "opening"
      BY <2>2, AsksAlone DEF PromptTurn
    <3>2. workers = {}
      BY <3>1 DEF Serving, OnlyAsked
    <3>3. ~Observed'
      BY <1>1, <3>1, <3>2 DEF Observed
    <3>4. QED
      BY <1>4, <1>5, <1>8, <3>3 DEF Traced
  <2>3. CASE TriggerTurn
    <3>1. \A k \in prompted : k <= turn
      BY DEF ScopeInv, ContextsUsed
    <3>2. turn' \notin prompted'
      BY <1>6, <2>1, <2>3, <3>1 DEF TriggerTurn
    <3>3. QED
      BY <1>4, <1>5, <1>8, <3>2 DEF Traced
  <2>4. QED
    BY <2>1, <2>2, <2>3
<1>11. QED
  BY <1>9, <1>10

\* The read loop shows an update to the tracer.
LEMMA ReadUpdateSpans ==
  ASSUME Types, WireInv, ScopeInv, WorkInv, TracerInv, ReadUpdate
  PROVE  TracerInv'
<1> USE DEF TracerInv
<1>1. /\ wire # <<>> /\ wire' = Tail(wire) /\ Head(wire) = wire[1] /\ 1 \in DOMAIN wire
      /\ \A n \in DOMAIN wire' : wire'[n] = wire[n + 1] /\ n + 1 \in DOMAIN wire
      /\ IsUpdate(1) /\ wire[1] \in Message
      /\ UNCHANGED <<phase, turn, prompted, work, asked, workers>>
  BY DEF ReadUpdate, harnessVars, Types, HarnessTypes, IsUpdate
<1>2. PICK u : u = wire[1].step
  OBVIOUS
<1>3. u \in StepUpdate /\ u.of = turn /\ phase \in {"running", "stopping", "closing", "ending"}
  BY <1>1, <1>2 DEF Message, WireInv, UpdatesOfTurn, IsUpdate
<1>4. tracer' = observeStep(tracer, u)
  BY <1>1, <1>2 DEF ReadUpdate
<1>5. Observed' => Observed
  BY <1>1 DEF Observed, IsUpdate
<1>6. Observed
  BY <1>1, <1>3 DEF Observed
<1>7. CASE tracer.turn = NoTurn
  <2>1. tracer' = tracer
    BY <1>4, <1>7 DEF observeStep
  <2>2. SessionBegins' /\ SessionEnds' /\ AllPlaced'
    BY <1>1, <2>1 DEF SessionBegins, SessionEnds, Swept, TracerSpoke, AllPlaced, Placed
  <2>3. MainNamed' /\ Traced'
    BY <1>1, <1>5, <1>7, <2>1 DEF MainNamed, Traced
  <2>4. QED
    BY <2>1, <2>2, <2>3
<1>8. CASE tracer.turn # NoTurn
  <2>1. tracer.mainTrajectory = NoTrajectory => u.traj = Main
    <3> HAVE tracer.mainTrajectory = NoTrajectory
    <3>1. ~NothingShown
      BY <1>1 DEF NothingShown
    <3>2. PICK m \in DOMAIN wire : /\ IsUpdate(m) /\ wire[m].step.traj = Main
                                   /\ \A n \in DOMAIN wire : n < m => ~IsUpdate(n)
      BY <1>8, <3>1 DEF MainNamed, MainFirst
    <3>3. m = 1
      BY <1>1, <3>2 DEF Types, HarnessTypes
    <3>4. QED
      BY <1>2, <3>2, <3>3
  <2> DEFINE span == [traj |-> u.traj, index |-> u.index, of |-> u.of,
                      turn |-> tracer.turn, child |-> u.traj # Main]
  <2>2. /\ Kept(tracer)' /\ tracer'.session = tracer.session /\ tracer'.turn = tracer.turn
        /\ tracer'.mainTrajectory = Main
        /\ tracer'.log = tracer.log \/ tracer'.log = Append(tracer.log, span)
    BY <1>3, <1>4, <1>8, <2>1, ObserveKept DEF MainNamed
  <2>3. SessionBegins' /\ SessionEnds'
    BY <1>1, <1>8, <2>2 DEF SessionBegins, SessionEnds, Swept, TracerSpoke
  <2>4. MainNamed' /\ Traced'
    BY <1>1, <1>5, <2>2 DEF MainNamed, Traced, NoTrajectory, Main
  <2>5. Placed(span)
    BY <1>3, <1>6 DEF Placed, Traced, Types, HarnessTypes
  <2>6. AllPlaced'
    <3>1. \A i \in DOMAIN tracer'.log : Placed(tracer'.log[i])
      <4>1. tracer.log \in Seq(Span) /\ span \in Span
        BY <1>3 DEF Kept, IsTracer, Span, StepUpdate
      <4>2. CASE tracer'.log = tracer.log
        BY <4>2 DEF AllPlaced
      <4>3. CASE tracer'.log = Append(tracer.log, span)
        <5>1. \A i \in DOMAIN tracer'.log :
                (i \in DOMAIN tracer.log /\ tracer'.log[i] = tracer.log[i]) \/ tracer'.log[i] = span
          BY <4>1, <4>3
        <5>2. QED
          BY <2>5, <5>1 DEF AllPlaced
      <4>4. QED
        BY <2>2, <4>2, <4>3
    <3>2. QED
      BY <1>1, <3>1 DEF AllPlaced, Placed
  <2>7. QED
    BY <2>2, <2>3, <2>4, <2>6
<1>9. QED
  BY <1>7, <1>8

\* A request that is read leaves the updates where they are.
LEMMA ReadRequestSpans ==
  ASSUME Types, TracerInv, ReadRequest
  PROVE  TracerInv'
<1> USE DEF TracerInv
<1>1. /\ wire # <<>> /\ wire' = Tail(wire) /\ 1 \in DOMAIN wire /\ ~IsUpdate(1)
      /\ \A n \in DOMAIN wire' : wire'[n] = wire[n + 1] /\ n + 1 \in DOMAIN wire
      /\ \A n \in DOMAIN wire : n # 1 => n - 1 \in DOMAIN wire' /\ wire'[n - 1] = wire[n]
      /\ DOMAIN wire \subseteq Nat /\ DOMAIN wire' \subseteq Nat
      /\ UNCHANGED <<phase, turn, prompted, work, asked, tracer>>
  <2>1. /\ wire # <<>> /\ wire' = Tail(wire) /\ Head(wire).what = "hook"
        /\ UNCHANGED <<phase, turn, prompted, work, asked, tracer>>
    BY DEF ReadRequest, harnessVars
  <2>2. /\ Len(wire) \in Nat \ {0} /\ DOMAIN wire = 1..Len(wire) /\ Head(wire) = wire[1]
        /\ DOMAIN wire' = 1..(Len(wire) - 1)
        /\ \A n \in DOMAIN wire' : wire'[n] = wire[n + 1]
    BY <2>1 DEF Types, HarnessTypes
  <2>3. \A n \in DOMAIN wire : n # 1 => n - 1 \in DOMAIN wire' /\ wire'[n - 1] = wire[n]
    <3> SUFFICES ASSUME NEW n \in DOMAIN wire, n # 1
                 PROVE  n - 1 \in DOMAIN wire' /\ wire'[n - 1] = wire[n]
      OBVIOUS
    <3>1. n - 1 \in DOMAIN wire' /\ (n - 1) + 1 = n
      BY <2>2
    <3>2. QED
      BY <2>2, <3>1
  <2>4. QED
    BY <2>1, <2>2, <2>3 DEF IsUpdate
<1>2. PICK w : workers' = workers \union {w} /\ w.votes = <<>>
  <2> DEFINE new == [request |-> Head(wire).request, began |-> FALSE, votes |-> <<>>,
                     edits |-> {}]
  <2>1. workers' = workers \union {new} /\ new.votes = <<>>
    BY DEF ReadRequest
  <2> HIDE DEF new
  <2>2. QED
    BY <2>1
<1>3. SessionBegins' /\ SessionEnds'
  BY <1>1, <1>2 DEF SessionBegins, SessionEnds, Swept
<1>4. MainFirst => MainFirst'
  <2> HAVE MainFirst
  <2>1. PICK m \in DOMAIN wire : /\ IsUpdate(m) /\ wire[m].step.traj = Main
                                 /\ \A n \in DOMAIN wire : n < m => ~IsUpdate(n)
    BY DEF MainFirst
  <2>2. m # 1 /\ m \in Nat
    BY <1>1, <2>1
  <2>3. m - 1 \in DOMAIN wire' /\ wire'[m - 1] = wire[m]
    BY <1>1, <2>2
  <2>4. \A n \in DOMAIN wire' : n < m - 1 => wire'[n].what # "update"
    BY <1>1, <2>1, <2>2 DEF IsUpdate
  <2>5. QED
    BY <2>1, <2>3, <2>4 DEF MainFirst, IsUpdate
<1>5. NothingShown => NothingShown'
  BY <1>1 DEF NothingShown, Settled, IsUpdate
<1>6. MainNamed'
  BY <1>1, <1>4, <1>5 DEF MainNamed
<1>7. Observed' => Observed
  BY <1>1, <1>2 DEF Observed, IsUpdate
<1>8. Traced' /\ AllPlaced'
  BY <1>1, <1>7 DEF Traced, AllPlaced, Placed
<1>9. QED
  BY <1>1, <1>3, <1>6, <1>8

\* What is left where it is, apart from the goroutine that runs hooks.
Elsewhere == UNCHANGED <<phase, turn, prompted, work, asked, wire>>
LEMMA ElsewhereStays ==
  ASSUME Elsewhere
  PROVE  /\ NothingShown' <=> NothingShown
         /\ MainFirst' <=> MainFirst
BY DEF Elsewhere, NothingShown, Settled, MainFirst, IsUpdate

\* A goroutine that takes its context.
LEMMA BeginSpans ==
  ASSUME Types, TracerInv, NEW w \in workers, Begin(w)
  PROVE  TracerInv'
<1> USE DEF TracerInv
<1> DEFINE next == [w EXCEPT !.began = TRUE]
<1>1. /\ workers' = (workers \ {w}) \union {next} /\ next.request = w.request
      /\ next.votes = w.votes
  BY BeginReplaces DEF Replaces, Types, SDKTypes, WorkerState
<1>2. Elsewhere /\ tracer' = tracer
  BY DEF Begin, harnessVars, Elsewhere
<1>3. SessionBegins'
  BY <1>1, <1>2 DEF SessionBegins, TracerSpoke, Elsewhere
<1>4. SessionEnds'
  BY <1>1, <1>2 DEF SessionEnds, Swept, Elsewhere
<1>5. MainNamed'
  BY <1>2, ElsewhereStays DEF MainNamed
<1>6. Observed' => Observed
  BY <1>1, <1>2 DEF Observed, IsUpdate, Elsewhere
<1>7. Traced' /\ AllPlaced'
  BY <1>2, <1>6 DEF Traced, AllPlaced, Placed, Elsewhere
<1>8. QED
  BY <1>2, <1>3, <1>4, <1>5, <1>7

\* What a hook that runs makes of the tracer, and who has spoken after it.
LEMMA HookRuns ==
  ASSUME Types, Serving, AskedInv, NEW w \in workers, RunHook(w)
  PROVE  \E next : /\ workers = {w} /\ workers' = {next} /\ next.request = w.request
                   /\ Len(w.votes) \in Nat /\ DOMAIN w.votes = 1..Len(w.votes)
                   /\ DOMAIN next.votes = 1..(Len(w.votes) + 1) /\ next.votes # <<>>
                   /\ tracer' = IF HooksOf[w.request.kind][Len(w.votes) + 1] = "tracer"
                                THEN TracerHook(w.request) ELSE tracer
<1>1. PICK vote \in Votes(w.request.kind) \union {"ok"} :
        Replaces(w, [w EXCEPT !.votes = Append(@, vote),
                              !.edits = Edited(w, Len(w.votes) + 1, vote)])
  BY HookSpeaks
<1> DEFINE next == [w EXCEPT !.votes = Append(@, vote),
                             !.edits = Edited(w, Len(w.votes) + 1, vote)]
<1>2. workers = {w} /\ w \in WorkerState /\ w.request.kind \in Kinds
  BY WorksAlone DEF Request
<1>3. workers' = {next} /\ next.request = w.request
  BY <1>1, <1>2 DEF Replaces
<1>4. vote \in AnyVote
  BY <1>1, <1>2, VotesAreVotes DEF AnyVote
<1>5. next.votes = Append(w.votes, vote) /\ w.votes \in Seq(AnyVote)
  BY <1>2 DEF WorkerState
<1>6. /\ Len(w.votes) \in Nat /\ DOMAIN w.votes = 1..Len(w.votes)
      /\ DOMAIN next.votes = 1..(Len(w.votes) + 1) /\ next.votes # <<>>
  <2>1. /\ Append(w.votes, vote) \in Seq(AnyVote)
        /\ Len(Append(w.votes, vote)) = Len(w.votes) + 1
        /\ Len(w.votes) \in Nat /\ DOMAIN w.votes = 1..Len(w.votes)
    BY <1>4, <1>5
  <2>2. /\ DOMAIN Append(w.votes, vote) = 1..(Len(w.votes) + 1)
        /\ Append(w.votes, vote) # <<>>
    BY <2>1
  <2>3. QED
    BY <1>5, <2>1, <2>2
<1>7. tracer' = IF HooksOf[w.request.kind][Len(w.votes) + 1] = "tracer"
                THEN TracerHook(w.request) ELSE tracer
  BY DEF RunHook
<1> HIDE DEF next
<1>8. QED
  BY <1>2, <1>3, <1>6, <1>7

\* A hook of the tracer, or of somebody else.
LEMMA HookSpans ==
  ASSUME TracerIsFirst, Types, Serving, AskedInv, WireInv, ConsentInv, WorkInv, TracerInv,
         NEW w \in workers, RunHook(w)
  PROVE  TracerInv'
<1> USE DEF TracerInv
<1>1. PICK next :
        /\ workers = {w} /\ workers' = {next} /\ next.request = w.request
        /\ Len(w.votes) \in Nat /\ DOMAIN w.votes = 1..Len(w.votes)
        /\ DOMAIN next.votes = 1..(Len(w.votes) + 1) /\ next.votes # <<>>
        /\ tracer' = IF HooksOf[w.request.kind][Len(w.votes) + 1] = "tracer"
                     THEN TracerHook(w.request) ELSE tracer
  BY HookRuns
<1>2. Elsewhere
  BY DEF RunHook, harnessVars, Elsewhere
<1>3. Fits(w.request) /\ w.request \in Request /\ w.request.kind \in Kinds
  BY WorksAlone DEF Request
<1>4. w.votes # <<>> <=> Len(w.votes) # 0
  BY WorksAlone DEF WorkerState
<1>5. phase # "ended"
  BY <1>3 DEF Fits, PhaseOf, Kinds
<1> DEFINE r == w.request
           i == Len(w.votes) + 1
\* Any other kind, and the hooks of others.
<1>6. ASSUME /\ Kept(tracer)' /\ tracer'.session = tracer.session /\ tracer'.turn = tracer.turn
             /\ tracer'.log = tracer.log /\ tracer'.mainTrajectory = tracer.mainTrajectory,
             r.kind \in {"pre_turn", "session_end"} => w.votes # <<>>
      PROVE  TracerInv'
  <2>1. SessionBegins'
    BY <1>1, <1>2, <1>6 DEF SessionBegins, TracerSpoke, Elsewhere
  <2>2. SessionEnds'
    BY <1>1, <1>2, <1>5, <1>6 DEF SessionEnds, Swept, Elsewhere
  <2>3. MainNamed'
    BY <1>2, <1>6, ElsewhereStays DEF MainNamed
  <2>4. Observed' => Observed
    BY <1>1, <1>2, <1>6 DEF Observed, IsUpdate, Elsewhere
  <2>5. Traced' /\ AllPlaced'
    BY <1>2, <1>6, <2>4 DEF Traced, AllPlaced, Placed, Elsewhere
  <2>6. QED
    BY <1>6, <2>1, <2>2, <2>3, <2>5
<1>7. CASE HooksOf[r.kind][i] # "tracer"
  <2>1. tracer' = tracer
    BY <1>1, <1>7
  <2>2. r.kind \in {"pre_turn", "session_end"} => w.votes # <<>>
    BY <1>1, <1>4, <1>7 DEF TracerIsFirst
  <2>3. QED
    BY <1>6, <2>1, <2>2
<1>8. CASE HooksOf[r.kind][i] = "tracer"
  <2>1. tracer' = TracerHook(r)
    BY <1>1, <1>8
  <2>2. CASE r.kind = "session_start"
    <3>1. phase = "starting" /\ ~Observed' /\ phase' = phase
      BY <1>2, <1>3, <2>2 DEF Fits, PhaseOf, Observed, Elsewhere
    <3>2. ~TracerSpoke(w)
      <4> SUFFICES ASSUME NEW k \in 1..Len(w.votes), HooksOf["session_start"][k] = "tracer"
                   PROVE  FALSE
        BY <1>1 DEF TracerSpoke
      <4>1. i <= Len(HooksOf["session_start"])
        BY <1>1, <2>2, WorksAlone DEF ConsentInv, Consents, RunHook, Decided
      <4>2. k \in DOMAIN HooksOf["session_start"] /\ i \in DOMAIN HooksOf["session_start"]
        BY <1>1, <1>3, <2>2, <4>1, VotesAreVotes
      <4>3. k = i
        BY <1>8, <2>2, <4>2 DEF TracerIsFirst
      <4>4. QED
        BY <1>1, <4>3
    <3>3. ~tracer.session
      BY <1>1, <3>1, <3>2 DEF SessionBegins
    <3>4. tracer' = sessionStart(tracer)
      BY <2>1, <2>2 DEF TracerHook
    <3>5. /\ Kept(tracer)' /\ tracer'.turn = tracer.turn /\ tracer'.log = tracer.log
          /\ tracer'.mainTrajectory = tracer.mainTrajectory
      BY <3>3, <3>4, SessionStartKept
    <3>6. SessionBegins'
      <4>1. i \in DOMAIN next.votes /\ next.request.kind = "session_start"
        BY <1>1, <2>2
      <4>2. HooksOf["session_start"][i] = "tracer"
        BY <1>8, <2>2
      <4>3. TracerSpoke(next)
        BY <4>1, <4>2 DEF TracerSpoke
      <4>4. QED
        BY <1>1, <4>1, <4>3 DEF SessionBegins, TracerSpoke
    <3>7. SessionEnds'
      BY <1>1, <2>2, <3>1 DEF SessionEnds
    <3>8. MainNamed'
      BY <1>2, <3>5, ElsewhereStays DEF MainNamed
    <3>9. Traced' /\ AllPlaced'
      BY <1>2, <3>1, <3>5 DEF Traced, AllPlaced, Placed, Elsewhere
    <3>10. QED
      BY <3>5, <3>6, <3>7, <3>8, <3>9
  <2>3. CASE r.kind \in {"session_end", "post_turn"}
    <3>1. wire = <<>> /\ phase \in {"ending", "closing"}
      BY <1>3, <2>3, RespondsLast DEF Fits, PhaseOf, Barriers, WireInv
    <3>2. ~Observed'
      BY <1>2, <3>1 DEF Observed, IsUpdate, Elsewhere
    <3>3. /\ Kept(tracer)' /\ tracer'.turn = NoTurn
          /\ tracer'.log = <<>> \/ tracer'.log = tracer.log
          /\ tracer'.mainTrajectory \in {NoTrajectory, tracer.mainTrajectory}
          /\ r.kind = "session_end" => tracer'.session = FALSE
      <4>1. CASE r.kind = "session_end"
        <5>1. tracer' = sessionEnd(tracer)
          BY <2>1, <4>1 DEF TracerHook
        <5>2. QED
          BY <5>1, SessionEndKept
      <4>2. CASE r.kind = "post_turn"
        <5>1. tracer' = endTurn(tracer)
          BY <2>1, <4>2 DEF TracerHook, postTurn
        <5>2. QED
          BY <4>2, <5>1, EndTurnKept
      <4>3. QED
        BY <2>3, <4>1, <4>2
    <3>4. SessionBegins' /\ SessionEnds'
      BY <1>1, <1>2, <3>1, <3>3 DEF SessionBegins, SessionEnds, Swept, Elsewhere
    <3>5. MainNamed'
      BY <3>3 DEF MainNamed
    <3>6. Traced' /\ AllPlaced'
      BY <1>2, <3>2, <3>3 DEF Traced, AllPlaced, Placed, Elsewhere
    <3>7. QED
      BY <3>3, <3>4, <3>5, <3>6
  <2>4. CASE r.kind = "pre_turn"
    <3>1. wire = <<>> /\ phase = "opening" /\ r.turn = turn /\ turn \in Nat \ {NoTurn}
      BY <1>3, <2>4, RespondsLast
      DEF Fits, PhaseOf, Barriers, WireInv, WorkInv, Numbered, Types, HarnessTypes
    <3>2. NothingShown
      BY <3>1 DEF NothingShown, WorkInv, SettledBetween
    <3>3. tracer' = preTurn(tracer, turn)
      BY <2>1, <2>4, <3>1 DEF TracerHook
    <3>4. /\ Kept(tracer)' /\ tracer'.turn = turn /\ tracer'.session = tracer.session
          /\ tracer'.log = <<>> \/ tracer'.log = tracer.log
          /\ tracer'.mainTrajectory \in {NoTrajectory, tracer.mainTrajectory}
      BY <3>1, <3>3, PreTurnKept
    <3>5. SessionBegins' /\ SessionEnds'
      BY <1>1, <1>2, <2>4, <3>1, <3>4 DEF SessionBegins, SessionEnds, Elsewhere
    <3>6. MainNamed'
      BY <1>2, <3>2, <3>4, ElsewhereStays DEF MainNamed
    <3>7. Traced' /\ AllPlaced'
      BY <1>2, <3>4 DEF Traced, AllPlaced, Placed, Elsewhere
    <3>8. QED
      BY <3>4, <3>5, <3>6, <3>7
  <2>5. CASE r.kind \in {"post_tool", "tool_error"}
    <3>1. tracer' \in {postToolCall(tracer, r.call), toolError(tracer, r.call)}
      BY <2>1, <2>5 DEF TracerHook
    <3>2. QED
      BY <1>6, <2>5, <3>1, PostToolKept, ToolErrorKept
  <2>6. CASE r.kind \notin {"session_start", "session_end", "pre_turn", "post_turn",
                            "post_tool", "tool_error"}
    <3>1. tracer' = tracer
      BY <2>1, <2>6 DEF TracerHook
    <3>2. QED
      BY <1>6, <2>6, <3>1
  <2>7. QED
    BY <2>2, <2>3, <2>4, <2>5, <2>6
<1>9. QED
  BY <1>7, <1>8

\* An answer: the harness goes on.
LEMMA RespondSpans ==
  ASSUME Types, Serving, AskedInv, WireInv, WorkInv, TracerInv, NEW w \in workers, Respond(w)
  PROVE  TracerInv'
<1> USE DEF TracerInv
<1>1. workers = {w} /\ Fits(w.request) /\ w.request.kind \in Kinds /\ w.request \in asked
  BY WorksAlone DEF Request
<1>2. /\ workers' = {} /\ Hears(w.request, Answer(w))
      /\ UNCHANGED <<tracer, wire, turn, prompted>>
  BY <1>1 DEF Respond, Hears
<1>3. w.votes # <<>>
  BY <1>1, VotesAreVotes DEF Respond, Decided, Fits, enabledHooks
<1>4. SessionBegins'
  <2>1. phase' # "starting"
    BY <1>1, <1>2 DEF Hears, Fits, PhaseOf, Kinds
  <2>2. QED
    BY <2>1 DEF SessionBegins
<1>5. SessionEnds'
  <2>1. phase' = "ended" => w.request.kind = "session_end"
    BY <1>1, <1>2 DEF Hears, Fits, PhaseOf, Kinds
  <2>2. QED
    BY <1>1, <1>2, <1>3, <2>1 DEF SessionEnds, Swept
<1>6. MainNamed'
  <2>1. MainFirst' <=> MainFirst
    BY <1>2 DEF MainFirst, IsUpdate
  <2>2. NothingShown => NothingShown'
    <3> HAVE NothingShown
    <3>1. w.request.call[1] \in Trajectories
      BY WorksAlone DEF Request
    <3>2. w.request.kind \notin {"pre_tool", "tool_error", "post_tool"}
      BY <1>1, <3>1 DEF WorkInv, AskedAtWork, NothingShown, Settled
    <3>3. work' = work
      BY <1>2, <3>2 DEF Hears
    <3>4. QED
      BY <1>2, <3>3 DEF NothingShown, Settled, IsUpdate
  <2>3. QED
    BY <1>2, <2>1, <2>2 DEF MainNamed
<1>7. Observed' => Observed
  <2> HAVE Observed'
  <2>1. CASE w.request.kind \in {"pre_turn", "stop"}
    BY <1>1, <1>3, <2>1 DEF Fits, PhaseOf, Observed
  <2>2. CASE w.request.kind \in {"session_start", "session_end", "post_turn"}
    BY <1>2, <2>2 DEF Hears, Observed
  <2>3. CASE w.request.kind \notin {"pre_turn", "stop", "session_start", "session_end",
                                    "post_turn"}
    BY <1>1, <2>3 DEF Fits, PhaseOf, Observed
  <2>4. QED
    BY <2>1, <2>2, <2>3
<1>8. Traced' /\ AllPlaced'
  BY <1>2, <1>7 DEF Traced, AllPlaced, Placed
<1>9. QED
  BY <1>2, <1>4, <1>5, <1>6, <1>8

\* Every step keeps it.
LEMMA TracerStep ==
  ASSUME TracerIsFirst, Types, Serving, ConsentInv, AskedInv, WireInv, ScopeInv, WorkInv,
         TracerInv, [Next]_vars
  PROVE  TracerInv'
<1>1. CASE UNCHANGED vars
  BY <1>1 DEF vars, harnessVars, sdkVars, TracerInv, SessionBegins, TracerSpoke, SessionEnds,
     Swept, MainNamed, NothingShown, Settled, MainFirst, IsUpdate, Traced, Observed, AllPlaced,
     Placed
<1>2. QED
  BY <1>1, HarnessSpans, ReadUpdateSpans, ReadRequestSpans, BeginSpans, HookSpans, RespondSpans
  DEF Next, ReadLoop, Worker

\* The tracer's maps, its session and turn, and what it is going to hear.
THEOREM TracerInvariant ==
  ASSUME TracerIsFirst
  PROVE  Spec => [](WorkInv /\ TracerInv)
<1>1. Init => WorkInv /\ TracerInv
  <2> SUFFICES ASSUME Init PROVE WorkInv /\ TracerInv
    OBVIOUS
  <2>1. WorkInv
    BY DEF Init, WorkInv, SettledBetween, Settled, Resting, AskedAtWork, Numbered
  <2>2. Kept(tracer)
    BY NewTracerKept DEF Init
  <2>3. QED
    BY <2>1, <2>2 DEF Init, NewTracer, TracerInv, SessionBegins, SessionEnds, MainNamed, Traced,
       Observed, AllPlaced
<1>2. HooksInv /\ AskedInv /\ WireInv /\ ScopeInv /\ WorkInv /\ TracerInv /\ [Next]_vars
        => (WorkInv /\ TracerInv)'
  BY WorkStep, TracerStep DEF HooksInv
<1>3. QED
  BY <1>1, <1>2, HooksInvariant, ScopeInvariant, PTL DEF Spec

\* tracing.go: a step of a prompted turn has one span, however often it is
\* reported, beneath the span of its turn or of its subagent.
THEOREM SpansAlwaysNest ==
  ASSUME TracerIsFirst
  PROVE  Spec => []SpansNest
<1>1. TracerInv => SpansNest
  BY DEF TracerInv, SpansNest, AllPlaced, Placed, Kept, OnceEach
<1>2. QED
  BY <1>1, TracerInvariant, PTL

\* tracing.go: nothing stays open beneath a turn that is over, and nothing at
\* all when the session has ended ("an unclosed span is never exported").
THEOREM NoSpanIsLost ==
  ASSUME TracerIsFirst
  PROVE  Spec => []NoSpanLost
<1>1. TracerInv => NoSpanLost
  <2> SUFFICES ASSUME TracerInv PROVE NoSpanLost
    OBVIOUS
  <2>1. Accounted(tracer)
    BY DEF TracerInv, Kept
  <2>2. Swept => SpansOpen(tracer) = 0
    BY <2>1, FS_EmptySet DEF Swept, Accounted, SpansOpen
  <2>3. QED
    BY <2>1, <2>2 DEF NoSpanLost, Accounted, TracerInv, SessionEnds
<1>2. QED
  BY <1>1, TracerInvariant, PTL
=============================================================================
