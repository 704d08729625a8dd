------------------------------- MODULE Tracing -------------------------------
(***************************************************************************)
(* tracing/tracing.go: the spans of a session as turns, steps, tool calls  *)
(* and subagents come and go.  Every method of the tracer holds its mutex  *)
(* from beginning to end, so each is an operator from a tracer to a        *)
(* tracer.  A map is a function whose domain is its keys.                  *)
(*                                                                         *)
(* A step makes at most one tool call (stepFromProto), so a call is named  *)
(* by the trajectory and the index of its step.                            *)
(***************************************************************************)
EXTENDS Naturals, Sequences, FiniteSets

NoTurn == 0
NoTrajectory == 0
Empty == <<>>   \* a map without keys
Without(map, keys) == [k \in DOMAIN map \ keys |-> map[k]]
With(map, key, value) ==
  [k \in DOMAIN map \union {key} |-> IF k = key THEN value ELSE map[k]]

\* An update of a step.  `of` is a ghost: the turn the harness is in.
CallOf(u) == <<u.traj, u.index>>

\* Ghosts: unended counts the spans that were started and have not been ended,
\* log lists the step spans since the last turn was ended.
NewTracer ==
  [session |-> FALSE, turn |-> NoTurn, mainTrajectory |-> NoTrajectory,
   steps |-> Empty, closed |-> Empty, subagents |-> {},
   trajectoryOfCall |-> Empty, pendingSubagents |-> <<>>, tools |-> {},
   unended |-> 0, log |-> <<>>]

SpansOpen(t) ==
  (IF t.session THEN 1 ELSE 0) + (IF t.turn = NoTurn THEN 0 ELSE 1)
    + Cardinality(DOMAIN t.steps) + Cardinality(t.subagents) + Cardinality(t.tools)

----------------------------------------------------------------------------
\* Session and turn.

endStep_Remembers(t, traj) ==
  IF traj \notin DOMAIN t.steps THEN t
  ELSE [t EXCEPT !.steps = Without(@, {traj}), !.unended = @ - 1]

endStep(t, traj) ==
  IF traj \notin DOMAIN t.steps THEN t
  ELSE [t EXCEPT !.steps = Without(@, {traj}), !.unended = @ - 1,
                 !.closed = With(@, traj, t.steps[traj])]

\* endTurnLocked: the turn and everything still open beneath it.
endTurn(t) ==
  IF t.turn = NoTurn THEN t
  ELSE [NewTracer EXCEPT
          !.session = t.session,
          !.unended = @ + t.unended - SpansOpen(t) + (IF t.session THEN 1 ELSE 0)]

sessionStart(t) == [t EXCEPT !.session = TRUE, !.unended = @ + 1]

sessionEnd(t) ==
  LET swept == endTurn(t)
  IN [swept EXCEPT !.session = FALSE, !.unended = @ - (IF t.session THEN 1 ELSE 0)]

preTurn(t, k) == [endTurn(t) EXCEPT !.turn = k, !.unended = @ + 1]

postTurn(t) == endTurn(t)

----------------------------------------------------------------------------
\* Steps.

\* subagentLocked: delegations meet their trajectories in order of request.
subagent(t, traj) ==
  IF traj \in t.subagents THEN t
  ELSE LET opened == [t EXCEPT !.subagents = @ \union {traj}, !.unended = @ + 1]
       IN IF t.pendingSubagents = <<>> THEN opened
          ELSE [opened EXCEPT
                  !.pendingSubagents = Tail(@),
                  !.trajectoryOfCall = With(@, Head(t.pendingSubagents), traj)]

startStep(t, u) ==
  LET child == u.traj # t.mainTrajectory
      parented == IF child THEN subagent(t, u.traj) ELSE t
      span == [traj |-> u.traj, index |-> u.index, of |-> u.of,
               turn |-> t.turn, child |-> child]
  IN [parented EXCEPT !.steps = With(@, u.traj, u.index), !.unended = @ + 1,
                      !.log = Append(@, span)]

startTool(t, u) ==
  IF u.kind = "text" \/ CallOf(u) \in t.tools THEN t
  ELSE [t EXCEPT !.tools = @ \union {CallOf(u)}, !.unended = @ + 1,
                 !.pendingSubagents = IF u.kind = "delegate"
                                      THEN Append(@, CallOf(u)) ELSE @]

\* Opens, keeps or closes the span of a step, as its updates come.
observeStep(t, u) ==
  LET named == IF t.mainTrajectory = NoTrajectory
               THEN [t EXCEPT !.mainTrajectory = u.traj] ELSE t
      moved == IF u.traj \in DOMAIN t.steps /\ t.steps[u.traj] # u.index
               THEN endStep(named, u.traj) ELSE named
      over == /\ u.traj \notin DOMAIN moved.steps
              /\ u.traj \in DOMAIN moved.closed /\ u.index <= moved.closed[u.traj]
      begun == IF u.traj \in DOMAIN moved.steps THEN moved ELSE startStep(moved, u)
      called == startTool(begun, u)
  IN CASE t.turn = NoTurn -> t
       [] t.turn # NoTurn /\ over -> moved
       [] OTHER -> IF u.done THEN endStep(called, u.traj) ELSE called

----------------------------------------------------------------------------
\* Tools.

toolError(t, call) ==
  IF call \in t.tools THEN [t EXCEPT !.tools = @ \ {call}, !.unended = @ - 1] ELSE t

\* The result of a delegation is all the notice there is that it is over.
postToolCall_DropsSubagent(t, call) ==
  LET told == toolError(t, call)
  IN IF call \notin DOMAIN t.trajectoryOfCall THEN told
     ELSE LET traj == t.trajectoryOfCall[call]
          IN [endStep(told, traj) EXCEPT
                !.subagents = @ \ {traj},
                !.trajectoryOfCall = Without(@, {call})]

postToolCall(t, call) ==
  LET told == toolError(t, call)
  IN IF call \notin DOMAIN t.trajectoryOfCall THEN told
     ELSE LET traj == t.trajectoryOfCall[call]
          IN [endStep(told, traj) EXCEPT
                !.subagents = @ \ {traj},
                !.unended = @ - Cardinality({traj} \intersect t.subagents),
                !.trajectoryOfCall = Without(@, {call})]
=============================================================================
