-------------------------------- MODULE Hooks --------------------------------
(***************************************************************************)
(* hookrouter.go and hookrunner.go: the lifecycle hooks of a session, with *)
(* the tracer (Tracing) installed as one of them.  The harness pauses the  *)
(* agent at each point of its work that has hooks, sends a request and     *)
(* waits.  The read loop takes updates and requests off the wire in order; *)
(* it shows an update to the step observers itself, and gives a request to *)
(* a goroutine (a worker) that runs the hooks of its kind one by one and   *)
(* answers.  Workers share the context of the turn and the tracer with the *)
(* read loop.                                                              *)
(*                                                                         *)
(* The harness here is external: it is what the requests and the updates   *)
(* the code expects say of it.  It asks about a point of its work when a   *)
(* hook is registered for it.  A trajectory works on one step at a time,   *)
(* and a turn is halted only while the harness waits for no hook.          *)
(***************************************************************************)
EXTENDS Tracing, SequencesExt

CONSTANTS
  HooksOf,      \* kind -> the hooks registered for it, in order
  Outcomes,     \* kind -> what a hook of the user may do
  StepKinds,    \* what the main agent's steps are
  MaxTurns, MaxSteps,   \* turns of the session, steps of a trajectory
  MaxDelegates, \* subagents of the session
  MaxExtras,    \* compactions and continuations of the session
  MaxWire       \* messages on the wire at once

Kinds == {"session_start", "session_end", "pre_turn", "post_turn", "pre_tool",
          "post_tool", "tool_error", "compaction", "stop"}

\* What a hook of a kind can do: its result, an error or a panic.
Votes(kind) ==
  {"error", "panic"} \union
    CASE kind = "pre_turn" -> {"allow", "deny"}
      [] kind = "pre_tool" -> {"allow", "edit", "deny", "unencodable"}
      [] kind = "tool_error" -> {"ok", "reword"}
      [] kind = "stop" -> {"stop", "continue"}
      [] OTHER -> {"ok"}

\* Turns and session have hooks, for the tracer has; other points may have none.
ASSUME HooksAssumption ==
  /\ HooksOf \in [Kinds -> Seq({"tracer", "user"})]
  /\ \A kind \in {"session_start", "session_end", "pre_turn", "post_turn"} : HooksOf[kind] # <<>>
  /\ \A kind \in Kinds : Outcomes[kind] \subseteq Votes(kind)
  /\ StepKinds \subseteq {"text", "tool", "delegate"}
  /\ {MaxTurns, MaxSteps, MaxDelegates, MaxExtras, MaxWire} \subseteq Nat

enabledHooks == {kind \in Kinds : HooksOf[kind] # <<>>}

Main == 1
Trajectories == 1..(MaxDelegates + 1)
Turns == 1..MaxTurns
NoContext == 0
SessionContext == 0

VARIABLES
  \* The harness.
  phase,      \* starting, idle, opening, running, stopping, closing, ending, ended
  turn,       \* the turn it is in, or was in last
  prompted,   \* the turns a prompt began; a trigger began the others
  work,       \* the step each trajectory is at
  delegates,  \* subagents begun so far
  extras,
  asked,      \* the requests it waits for
  \* The SDK.
  wire,       \* what the read loop has not read
  workers,    \* the goroutines that run hooks
  contexts,   \* turn contexts made so far
  turnContext,\* hookRunner.turn
  tracer,
  used,       \* ghost: which turn's hooks ran under which context
  closed      \* ghost: the turns whose scope dispatchPostTurn closed

harnessVars == <<phase, turn, prompted, work, delegates, extras, asked>>
sdkVars == <<workers, contexts, turnContext, tracer, used, closed>>
vars == <<harnessVars, wire, sdkVars>>

\* No step of this turn yet.
Resting == [index |-> 0, kind |-> "text", stage |-> "none", done |-> TRUE]

Init ==
  /\ phase = "starting" /\ turn = 0 /\ prompted = {}
  /\ work = [j \in Trajectories |-> Resting]
  /\ delegates = 0 /\ extras = 0 /\ asked = {}
  /\ wire = <<>> /\ workers = {} /\ contexts = 0 /\ turnContext = NoContext
  /\ tracer = NewTracer /\ used = {} /\ closed = {}

----------------------------------------------------------------------------
\* The harness.

Session == <<Main, 0>>   \* where a request that is about no step comes from
Paused(j) == \E r \in asked : r.call[1] = j

Sends(message) == Len(wire) < MaxWire /\ wire' = Append(wire, message)

Ask(kind, call, of) ==
  LET request == [kind |-> kind, call |-> call, turn |-> of]
  IN /\ kind \in enabledHooks /\ ~Paused(call[1])
     /\ asked' = asked \union {request}
     /\ Sends([what |-> "hook", request |-> request])
     /\ UNCHANGED sdkVars

UpdateOf(j, s) ==
  [what |-> "update",
   step |-> [traj |-> j, index |-> s.index, kind |-> s.kind, done |-> s.done, of |-> turn]]

Shows(j, s) ==
  /\ work' = [work EXCEPT ![j] = s]
  /\ Sends(UpdateOf(j, s))
  /\ UNCHANGED <<phase, turn, prompted, extras, asked, sdkVars>>

StartSession ==
  /\ phase = "starting" /\ Ask("session_start", Session, turn)
  /\ UNCHANGED <<phase, turn, prompted, work, delegates, extras>>

BeginTurn ==
  /\ phase = "idle" /\ turn < MaxTurns /\ turn' = turn + 1
  /\ UNCHANGED <<work, delegates, extras>>

PromptTurn ==
  /\ BeginTurn /\ prompted' = prompted \union {turn + 1} /\ phase' = "opening"
  /\ Ask("pre_turn", Session, turn + 1)

TriggerTurn ==
  /\ BeginTurn /\ phase' = "running"
  /\ UNCHANGED <<prompted, asked, wire, sdkVars>>

\* A subagent works while the delegation that began it runs.
Delegating ==
  work[Main].kind = "delegate" /\ work[Main].stage = "running" /\ ~Paused(Main)
Working(j) == phase = "running" /\ (j # Main => Delegating /\ j = delegates + 1)
IsOver(j) == work[j].done /\ work[j].stage \in {"none", "over"}

BeginStep(j, kind) ==
  /\ Working(j) /\ ~Paused(j) /\ IsOver(j) /\ work[j].index < MaxSteps
  /\ j # Main => kind # "delegate"
  /\ kind = "delegate" => delegates < MaxDelegates
  /\ Shows(j, [index |-> work[j].index + 1, kind |-> kind,
               stage |-> IF kind = "text" THEN "over" ELSE "announced", done |-> FALSE])
  /\ delegates' = IF kind = "delegate" THEN delegates + 1 ELSE delegates

\* A delegation is over when its subagent's work is.
HasRun(j) == work[j].stage = "running" /\ (work[j].kind = "delegate" => IsOver(delegates + 1))

\* Deltas and late repetitions of a step, and the update that settles it:
\* before, while or after its result is reported to the post_tool hooks.
RepeatUpdate(j) ==
  /\ Working(j) /\ work[j].stage # "none" /\ Shows(j, work[j]) /\ UNCHANGED delegates

SettleStep(j) ==
  /\ Working(j) /\ ~work[j].done /\ (work[j].stage = "over" \/ HasRun(j))
  /\ Shows(j, [work[j] EXCEPT !.done = TRUE]) /\ UNCHANGED delegates

AskAbout(kind, j) ==
  /\ Working(j) /\ Ask(kind, <<j, work[j].index>>, turn)
  /\ UNCHANGED <<phase, turn, prompted, work, delegates, extras>>

GateTool(j) == work[j].stage = "announced" /\ AskAbout("pre_tool", j)

FailTool(j) == HasRun(j) /\ AskAbout("tool_error", j)
ReportTool(j) == (HasRun(j) \/ work[j].stage = "failed") /\ AskAbout("post_tool", j)

\* Where a step gets without a hook: a failed tool needs no post_tool, and what
\* no hook is registered for is not asked about.
Move == [pre_tool |-> <<"announced", "running">>, tool_error |-> <<"running", "failed">>,
         post_tool |-> <<"running", "over">>]
SkipHook(j) ==
  /\ Working(j) /\ ~Paused(j) /\ (work[j].stage = "running" => HasRun(j))
  /\ \E move \in {<<"failed", "over">>} \union {Move[kind] : kind \in DOMAIN Move \ enabledHooks} :
       work[j].stage = move[1] /\ work' = [work EXCEPT ![j].stage = move[2]]
  /\ UNCHANGED <<phase, turn, prompted, delegates, extras, asked, wire, sdkVars>>

Compact ==
  /\ extras < MaxExtras /\ extras' = extras + 1
  /\ phase = "running" /\ IsOver(Main) /\ Ask("compaction", <<Main, work[Main].index>>, turn)
  /\ UNCHANGED <<phase, turn, prompted, work, delegates>>

StopTurn ==
  /\ phase = "running" /\ IsOver(Main) /\ phase' = "stopping"
  /\ Ask("stop", Session, turn)
  /\ UNCHANGED <<turn, prompted, work, delegates, extras>>

\* A turn that is halted leaves its steps as they are.
Abandoned == [j \in Trajectories |-> [Resting EXCEPT !.index = work[j].index]]

HaltTurn ==
  /\ phase = "running" /\ asked = {}
  /\ phase' = "closing" /\ work' = Abandoned
  /\ UNCHANGED <<turn, prompted, delegates, extras, asked, wire, sdkVars>>

CloseTurn ==
  /\ phase = "closing" /\ work' = Abandoned /\ Ask("post_turn", Session, turn)
  /\ UNCHANGED <<phase, turn, prompted, delegates, extras>>

EndSession ==
  /\ phase \in {"idle", "running"} /\ asked = {}
  /\ phase' = "ending" /\ work' = Abandoned
  /\ Ask("session_end", Session, turn)
  /\ UNCHANGED <<turn, prompted, delegates, extras>>

\* What the harness does with an answer.  It is its own affair whether an
\* error counts as a yes or a no, and whether a denied turn has a post_turn.
Hears(r, answer) ==
  LET j == r.call[1]
      Becomes(stages) == \E s \in stages : work' = [work EXCEPT ![j].stage = s]
  IN /\ CASE r.kind = "session_start" -> phase' = "idle"
          [] r.kind = "session_end" -> phase' = "ended"
          [] r.kind = "post_turn" -> phase' = "idle"
          [] r.kind = "pre_turn" -> phase' \in
               IF answer = "allow" THEN {"running"}
               ELSE {"closing", "idle"} \union IF answer = "error" THEN {"running"} ELSE {}
          [] r.kind = "stop" -> phase' =
               IF answer = "continue" /\ extras < MaxExtras THEN "running" ELSE "closing"
          [] OTHER -> phase' = phase
     /\ extras' = IF r.kind = "stop" /\ phase' = "running" THEN extras + 1 ELSE extras
     /\ CASE r.kind = "pre_tool" -> Becomes(
               IF answer = "allow" THEN {"running"}
               ELSE {"over"} \union IF answer = "error" THEN {"running"} ELSE {})
          [] r.kind = "tool_error" -> Becomes({"failed"})
          [] r.kind = "post_tool" -> Becomes({"over"})
          [] OTHER -> work' = work
     /\ asked' = asked \ {r}
     /\ UNCHANGED <<turn, prompted, delegates>>

----------------------------------------------------------------------------
\* The hook runner.

\* Scope: the context hooks of a kind run in (or under, for those that get a
\* context of their own operation), the turn's context after, and the number
\* of contexts after.  turnContext() makes a detached context when there is
\* none; dispatchPreTurn always makes a new one.
Current ==
  IF turnContext = NoContext THEN <<contexts + 1, contexts + 1, contexts + 1>>
  ELSE <<turnContext, turnContext, contexts>>
Scope_Reuses(kind) ==
  IF kind \in {"session_start", "session_end"}
  THEN <<SessionContext, turnContext, contexts>> ELSE Current
Scope(kind) ==
  CASE kind \in {"session_start", "session_end"} -> <<SessionContext, turnContext, contexts>>
    [] kind = "pre_turn" -> <<contexts + 1, contexts + 1, contexts + 1>>
    [] OTHER -> Current

Enters(kind, of) ==
  LET s == Scope(kind)
  IN /\ turnContext' = s[2] /\ contexts' = s[3]
     /\ used' = IF s[1] = SessionContext THEN used ELSE used \union {<<of, s[1]>>}

\* The read loop.
ReadUpdate ==
  /\ wire # <<>> /\ Head(wire).what = "update" /\ wire' = Tail(wire)
  /\ Enters("step", Head(wire).step.of)
  /\ tracer' = observeStep(tracer, Head(wire).step)
  /\ UNCHANGED <<harnessVars, workers, closed>>

ReadRequest_Skips ==
  /\ wire # <<>> /\ Head(wire).what = "hook" /\ wire' = Tail(wire)
  /\ workers' = IF Head(wire).request.kind = "compaction" THEN workers
                ELSE workers \union {[request |-> Head(wire).request, began |-> FALSE,
                                      votes |-> <<>>, edits |-> {}]}
  /\ UNCHANGED <<harnessVars, contexts, turnContext, tracer, used, closed>>
ReadRequest ==
  /\ wire # <<>> /\ Head(wire).what = "hook" /\ wire' = Tail(wire)
  /\ workers' = workers \union
       {[request |-> Head(wire).request, began |-> FALSE, votes |-> <<>>, edits |-> {}]}
  /\ UNCHANGED <<harnessVars, contexts, turnContext, tracer, used, closed>>

Begin(w) ==
  /\ ~w.began
  /\ workers' = (workers \ {w}) \union {[w EXCEPT !.began = TRUE]}
  /\ Enters(w.request.kind, w.request.turn)
  /\ UNCHANGED <<harnessVars, wire, tracer, closed>>

\* A hook's word that ends the dispatch: the hooks after it are not asked.
Decisive_ErrorPasses(kind, vote) ==
  \/ vote = "panic"
  \/ kind \in {"pre_turn", "pre_tool"} /\ vote = "deny"
  \/ kind = "pre_tool" /\ vote = "unencodable"
  \/ kind = "tool_error" /\ vote \in {"error", "reword"}
  \/ kind = "stop" /\ vote = "continue"
Decisive(kind, vote) ==
  \/ vote = "panic"
  \/ kind \in {"pre_turn", "pre_tool"} /\ vote \in {"deny", "error"}
  \/ kind = "pre_tool" /\ vote = "unencodable"
  \/ kind = "tool_error" /\ vote \in {"error", "reword"}
  \/ kind = "stop" /\ vote = "continue"

Decided(w) ==
  \/ Len(w.votes) = Len(HooksOf[w.request.kind])
  \/ w.votes # <<>> /\ Decisive(w.request.kind, Last(w.votes))

TracerHook(r) ==
  CASE r.kind = "session_start" -> sessionStart(tracer)
    [] r.kind = "session_end" -> sessionEnd(tracer)
    [] r.kind = "pre_turn" -> preTurn(tracer, r.turn)
    [] r.kind = "post_turn" -> postTurn(tracer)
    [] r.kind = "post_tool" -> postToolCall(tracer, r.call)
    [] r.kind = "tool_error" -> toolError(tracer, r.call)
    [] OTHER -> tracer

\* The arguments each pre-tool hook sees hold the edits of those before it.
Edited(w, i, vote) == IF vote = "edit" THEN w.edits \union {i} ELSE w.edits

RunHook(w) ==
  LET kind == w.request.kind
      i == Len(w.votes) + 1
  IN /\ w.began /\ ~Decided(w)
     /\ \E vote \in IF HooksOf[kind][i] = "tracer" THEN {"ok"} ELSE Outcomes[kind] :
          workers' = (workers \ {w}) \union
            {[w EXCEPT !.votes = Append(@, vote), !.edits = Edited(w, i, vote)]}
     /\ tracer' = IF HooksOf[kind][i] = "tracer" THEN TracerHook(w.request) ELSE tracer
     /\ UNCHANGED <<harnessVars, wire, contexts, turnContext, used, closed>>

Answer(w) ==
  LET kind == w.request.kind
      last == Last(w.votes)
  IN CASE last = "panic" -> "error"
       [] last # "panic" /\ kind \in {"pre_turn", "pre_tool"} ->
            IF Decisive(kind, last) THEN "deny" ELSE "allow"
       [] last # "panic" /\ kind = "tool_error" ->
            IF last = "reword" THEN "reword" ELSE "empty"
       [] last # "panic" /\ kind = "stop" ->
            IF last = "continue" THEN "continue" ELSE "allow"
       [] OTHER -> "empty"

\* A panic leaves dispatchPostTurn before it closes the turn's scope.
Closes(w) == w.request.kind = "post_turn" /\ Last(w.votes) # "panic"

\* handleHookRequest: runHook recovers a panic, so every worker answers.
Respond_Crashes(w) ==
  /\ w.began /\ Decided(w) /\ Last(w.votes) # "panic"
  /\ workers' = workers \ {w}
  /\ turnContext' = IF Closes(w) THEN NoContext ELSE turnContext
  /\ closed' = IF Closes(w) THEN closed \union {w.request.turn} ELSE closed
  /\ Hears(w.request, Answer(w))
  /\ UNCHANGED <<wire, contexts, tracer, used>>
Respond(w) ==
  /\ w.began /\ Decided(w)
  /\ workers' = workers \ {w}
  /\ turnContext' = IF Closes(w) THEN NoContext ELSE turnContext
  /\ closed' = IF Closes(w) THEN closed \union {w.request.turn} ELSE closed
  /\ Hears(w.request, Answer(w))
  /\ UNCHANGED <<wire, contexts, tracer, used>>

----------------------------------------------------------------------------
TurnLevel == StartSession \/ PromptTurn \/ TriggerTurn \/ Compact \/ StopTurn
               \/ HaltTurn \/ CloseTurn \/ EndSession
StepLevel(j) ==
  \/ \E kind \in StepKinds : BeginStep(j, kind)
  \/ RepeatUpdate(j) \/ SettleStep(j)
  \/ GateTool(j) \/ FailTool(j) \/ ReportTool(j) \/ SkipHook(j)
ReadLoop == ReadUpdate \/ ReadRequest
Worker == \E w \in workers : Begin(w) \/ RunHook(w) \/ Respond(w)

Next == TurnLevel \/ (\E j \in Trajectories : StepLevel(j)) \/ ReadLoop \/ Worker

\* The Go scheduler runs the read loop and the workers, and hooks return.
\* The harness owes nothing: it may stop asking at any time.
Fairness == WF_vars(ReadLoop) /\ WF_vars(Worker)

Spec == Init /\ [][Next]_vars /\ Fairness

----------------------------------------------------------------------------
\* Properties.

\* Every request the harness waits for is on the wire or with one worker,
\* and every worker serves a request that is waited for: no request is lost
\* and none is answered twice (hookrouter.go:28-30).
TypeOK ==
  LET served == {w.request : w \in workers}
      queued == {wire[i].request : i \in {n \in DOMAIN wire : wire[n].what = "hook"}}
  IN /\ phase \in {"starting", "idle", "opening", "running", "stopping", "closing",
                   "ending", "ended"}
     /\ asked = served \union queued /\ served \intersect queued = {}
     /\ Cardinality(workers) = Cardinality(served)
     /\ turnContext \in 0..contexts

\* All hooks and observers of a turn share one context (so what a pre-turn
\* hook stores is what its post-turn hook finds), no two prompted turns share
\* one, and a context whose turn was closed is never used by another turn.
TurnScope ==
  \A a, b \in used :
    /\ a[1] = b[1] => a[2] = b[2]
    /\ a[1] < b[1] /\ a[2] = b[2] => b[1] \notin prompted /\ a[1] \notin closed

\* A turn or a tool call is let through only when every hook registered for
\* it was asked and agreed, and a call goes on with the edits of all of them:
\* a gate that could not run is not a gate that passed.
ConsentIsUnanimous ==
  [][\A w \in workers :
       w \notin workers' /\ w.began /\ Decided(w)
         /\ w.request.kind \in {"pre_turn", "pre_tool"} /\ Answer(w) = "allow"
       => /\ Len(w.votes) = Len(HooksOf[w.request.kind])
          /\ \A i \in DOMAIN w.votes : w.votes[i] \in {"ok", "allow", "edit"}
          /\ w.edits = {i \in DOMAIN w.votes : w.votes[i] = "edit"}]_vars

\* The spans of the steps of a prompted turn hang from that turn, one span to
\* a step however often it is reported, and those of a subagent from its own
\* span (tracing.go: "a trailing update must not resurrect it").
SpansNest ==
  \A i \in DOMAIN tracer.log :
    LET span == tracer.log[i]
    IN span.of \in prompted =>
         /\ span.turn = span.of
         /\ span.child = (span.traj # Main)
         /\ \A n \in DOMAIN tracer.log :
              tracer.log[n].traj = span.traj /\ tracer.log[n].index = span.index => n = i

\* Every span that was started was ended or can still be: nothing is open
\* beneath a turn that is over, and nothing at all after the session's end,
\* whatever was halted, denied or left unsettled ("an unclosed span is never
\* exported at all").
NoSpanLost ==
  /\ tracer.unended = SpansOpen(tracer)
  /\ tracer.turn = NoTurn =>
       DOMAIN tracer.steps = {} /\ tracer.subagents = {} /\ tracer.tools = {}
  /\ phase = "ended" => SpansOpen(tracer) = 0

\* Once the result of a delegation was reported, the span of its subagent is
\* closed: the call "that produced it" is found again, "which is what lets the
\* call's result close the span" (tracing.go:156-158).
SubagentEndsWithItsCall ==
  [][\A w \in workers :
       w \notin workers' /\ w.began /\ Decided(w) /\ w.request.kind = "post_tool"
         /\ w.request.call[1] = Main /\ work[Main].kind = "delegate"
       => delegates + 1 \notin tracer.subagents]_vars

\* The agent, paused for a hook, always goes on, also when a hook panics.
HooksAnswered == []<>(asked = {})
=============================================================================
