# TLA+ models of the Antigravity SDK for Go

The SDK drives a closed agent binary, the *localharness*. A program creates an
`Agent`; the agent starts the harness as a subprocess, talks to it over a
websocket, sends prompts, and streams what the agent does back to the program.
Nearly all of the SDK's difficulty is in the middle: one read loop, one bounded
queue, one gate that says whether the agent is idle, a handful of goroutines
that answer the harness's requests, and a conversation on top that must look
like a plain exchange of prompts and answers.

This directory models that middle, checks it with TLC on small instances, and
proves what can be proved for every instance with TLAPS.

Around it are modelled what the harness asks of the program in the middle of a
turn (policy verdicts, questions, confirmations, hooks), the tracer that hooks
feed, and a whole session in a terminal from `New` to `Close`.

    cd tla
    tlc -config polite.cfg MCConversation     # one of the runs below
    tlapm Turns_proofs.tla                    # one of the proof modules

## 1. The system

### Components

| Component | State it keeps | Operations |
|---|---|---|
| Harness (external binary) | turn in progress, accepted requests, tool calls it waits for | accepts prompts, triggers, halts, tool responses and the end of the session; reports steps, trajectory states and requests |
| Connection, `internal/harness/conn.go` | the websocket | `Send`, `Recv`, `Close`, `Initialize` |
| Harness process, `internal/harness/process.go` | the subprocess and its pipes | `Start` with its handshake, `Close` with its timeout and kill |
| Event processor, `eventproc.go` | event queue (64), idle gate, end-of-session signal, main trajectory, handled wait requests, cumulative usage, stop reason | the read loop; goroutines for tool calls, questions, confirmations, policy decisions and hooks; what `Conversation` calls to send |
| Conversation, `conversation.go` | history, turn starts, compactions, usage at the start of the turn, the outstanding response; three mutexes | `Send`, `Steps`, `Chunks`, `Chat`, `WaitForIdle`, `Cancel`, `Trigger`, `ClearHistory` |
| Chat response, `chatresponse.go` | a pulled iterator, a buffer, a done flag | cursors, `Cancel`, `Close`, `Resolve`, `Wait` |
| Hooks, `hooks.go`, `hookrunner.go`, `hookrouter.go` | contexts of the session, the turn and the operations | runs inspect, decide and transform hooks, answers the harness |
| Tracing, `tracing/tracing.go` | open spans of session, turn, steps, subagents and tools; which steps are closed; delegations waiting for their trajectory | hooks and a step observer |
| Policies, `policy.go`, `policyproto.go` | none after construction | ranks rules, evaluates a tool call |
| Triggers, `triggers.go` | a goroutine per trigger, file snapshots | `Every`, `After`, `OnFileChange`, stop |
| Terminal interaction, `interactive.go` | a reader goroutine and a spinner | reads lines with a context, asks questions |
| Agent, `agent.go` | all of the above | `New` with its failure paths, `Close` |
| Configuration, conversion, schemas, errors | none, or derived | see the table of section 9 |

### How they interact

- The **read loop** is the only reader of the connection. It puts steps, errors
  and an end-of-turn marker on the queue and opens the gate. Requests of the
  harness (run this tool, answer this question) go to goroutines of their own,
  which put steps on the same queue and write to the same connection.
- **Readers** (`Steps`, and the drain inside `Send`) take events off the queue
  under `recvMu`. **Senders** hold `sendMu`. Triggers, `Cancel` and tool
  responses take neither.
- A **chat response** reads through an iterator that is suspended inside
  `Steps`, and so keeps `recvMu` between two reads. The next `Send` closes it.
- **The harness waits** for the answer to whatever it asks: a tool to run, a
  policy to decide, a question, a confirmation, a hook. The read loop gives each
  request to a goroutine. Workers share the hook runner's contexts and, through
  hooks and step observers, the tracer; handlers of policies and questions may
  share the terminal with the loop that reads prompts.
- **`Agent.Close`** stops the triggers, asks for the end of the session, waits
  for the answer to come through the read loop, closes the connection and waits
  for the loop and all goroutines.

### What is hard

- *The queue and the gate are two channels.* A turn's end is put on one and
  then shown on the other; `Send` looks at both, at two moments, and then resets
  both.
- *The queue is bounded and its reader is optional.* A turn nobody reads blocks
  the read loop, and everything else comes through the read loop.
- *Turns start on their own*, by triggers, while others send.
- *Tool calls outlive turns.* A cancelled turn leaves goroutines that still
  announce and answer.
- *Crashes*: the connection ends cleanly, or with an error, at any point, with
  a reader blocked, a sender draining or a close in progress.
- *Responses outlive turns too*: cursors on several goroutines, abandoned
  halfway, closed by a `Send` that does not know them.
- *Indices into a history that is trimmed from the front.*
- *Requests repeat*: the update of a step that waits for the user is sent again
  as the step evolves, while a goroutine is making the answer.
- *Two engines decide on policies*: the harness applies static rules and asks
  about the others; the SDK has an evaluator of its own.
- *Hooks see a turn from several goroutines*, and a gate must not pass because it
  could not run.
- *Spans are opened by updates and closed by other updates, results or the end of
  the turn*, which come repeated, late or never.
- *A read of stdin cannot be interrupted*, and two goroutines prompt.
- *A session starts and ends in steps*, each of which may fail.

`PROJECT.json` lists the hazards one by one, each at its line.

### What makes each component correct

- Event processor: the gate is open only when all of the turn's events can be
  read; the marker comes after everything it marks the end of; only the main
  trajectory ends a turn; every tool call gets one response; blocked readers are
  released whatever happens to the connection.
- Conversation: turns do not interleave; no event is lost between them; `Send`,
  `Steps` and `Close` return.
- Chat response: it holds its own turn, from the start, in order; it gives the
  stream back; it blocks nobody who does not wait at the live edge.
- History: the latest steps, with indices that still point to the right ones;
  the usage of a turn is what it consumed.
- Policies: the rule that decides is the documented one, wherever it is evaluated;
  what is uncertain denies.
- Requests: each is answered, once, for the wait it belongs to.
- Hooks: consent is unanimous; a turn's hooks share a context that no other prompt's
  hooks see; a paused agent goes on.
- Tracing: every span is closed, once, under the right parent.
- Terminal: a command that needs a yes gets it from a line typed to that question;
  the end of input ends the session.
- Agent and process: a failed start leaves nothing running; a finished session
  leaves nothing at all.

## 2. Modules

    Harness  <-  EventProcessor  <-  Conversation  <-  MCConversation, ChatResponse
                                        |   \
                                   TurnStream  Conversation_proofs <- Turns_proofs
    ChatResponse         <-  MCChatResponse
        |
    ChatResponse_proofs  ->  Turns_proofs
    ConversationHistory  <-  MCHistory, ConversationHistory_proofs
    Policies  <-  Requests  <-  MCRequests
        |            |
    Policies_proofs  <-  Requests_proofs
    Tracing   <-  Hooks     <-  MCHooks, Hooks_proofs
    Terminal  <-  Session   <-  Session_proofs

`A <- B` reads "`A` is extended by `B`"; `ChatResponse_proofs` extends
`ChatResponse` and `Turns_proofs`; `TurnStream` is instantiated by `Conversation`
as the abstract specification it implements. In every module a definition named
`X_Y` is `X` with the mistake `Y` in it: it is never part of a specification and
serves to see that a property notices the mistake.

### `Harness`

The environment: two sequences of frames (`inbox`, `wire`), the state of the
link, and a harness that accepts requests, runs one turn at a time, makes tool
calls and may crash. Nothing in it is translated from the harness, whose code is
not in the repository. It follows the requests `eventproc.go` handles, the
transcripts in `eventproc_test.go` and `conversation_test.go`, and these
assumptions:

- a turn starts with a RUNNING state and ends with one FULLY_IDLE or CANCELLED
  state of the main trajectory, after all its tool calls are answered;
- subagents report their states on the same connection, after some step of the
  main trajectory has been sent;
- a halt ends the turn in progress and does nothing when there is none;
- frames can be parsed: one that cannot ends the read loop with the connection
  open (internal/harness/conn.go 180), where `Finish` has it broken;
- a tool call has an id: `sendToolResponse` refuses to answer one without (eventproc.go
  563), and `AnswerTool` has no such refusal;
- a write on a broken connection may succeed until the failure has been noticed
  by a failed read, and fails afterwards and after a local close.

### `EventProcessor` (`eventproc.go`)

`queue` is `p.steps`; `idle` says whether `p.idleCh` is closed; `sessionEnd`
whether `p.sessionEnd` is; `main` is `mainTrajectoryID`. The read loop is split
where other goroutines can come in between: receiving an event decides what to
do (that part runs under `p.mu`), and `loop` holds what is left to do, such as
`<<Emit("idle", t), MarkIdle>>`, one step at a time. `Emit` waits for room in
the queue, or gives the event up once the session has ended, as the `select` in
`emit` does; when both are possible either may happen. `tools` is the set of
`handleToolCall` goroutines, which announce the call and then answer it. The
result, error or panic of a tool makes no difference to the rest: one response
goes back.

Questions, confirmations and policy decisions (`Requests`) and hook requests
(`Hooks`) run on goroutines too, but put nothing on the queue, and have models of
their own.

### `Conversation` (`conversation.go`, `agent.go` Close)

Each caller is a goroutine with a program counter. `Send` is `waitIdle` (the
program's own `WaitForIdle`, if that is its habit), `lock`, `checkIdle`,
`checkPending`, `lockDrain`, `drain`, `reset`, `markRunning`, `discard`,
`input`: every look at shared state is a step. `Steps` is `lockSteps`, `steps`.
`closer` walks through `Agent.Close` from the request on. `Habits` says what the
program does (waits for idle, abandons turns, cancels, has triggers, closes; reads
or cancels turns on goroutines that did not send), so that a configuration asks
about one kind of program. `WaitForIdle` looks at the gate of the moment; the code
waits on the channel it took once, which a later turn cannot close again, so it may
return when the gate is shut once more. For a goroutine that is alone in sending, as
wherever something is proved or holds of `waitForIdle`, there is no later turn; with two,
as in `concurrent_chats`, the model does less than the code and what it refutes is
refuted.

Ghosts: turns carry numbers, `produced` and `recorded` count what each turn had
to show and what was read of it, `discarded` keeps what `resetForTurn` threw
away.

### `TurnStream`

The promise: one turn at a time, everything it has to show is shown before it
is over, and the next one is asked for only then. `Conversation` implements it
under the mapping in `Stream`.

### `ConversationHistory` (`conversation.go`)

`record`, `trimLocked`, the indices, `ClearHistory`, and the usage of a turn,
computed by `finishTurn` from a figure read before the lock is taken. Steps are
reduced to whether they are compactions, and carry ghost numbers. `compactions`
is a set because the slice is in increasing order; entries of `turnStarts` carry
their prompt's number because two of them can be equal.

### `ChatResponse` (`chatresponse.go`, `conversation.go` 124-135)

It extends `Conversation`, and adds nothing to the agent beneath: the gate and the
marker, the two looks of `Send`, its drain with the error it may meet, tool goroutines
and prompts that fail are those of `EventProcessor` and `Conversation`. A goroutine
inside `Chat` is a caller of `Conversation` that also has a place in `where`:
`ChatLocks` is `LockSend`, then come `ReleasePrevious` and `ClosePrevious`, which
`Conversation` leaves out, then the rest of `Send` (`SendGoesFurther`,
`ChatLocksDrain`, and what ends it: `DrainFails`, `ChatFails`, `ChatGivesUp`,
`ChatAsks`), then `Register`.

The coroutine of a response is a caller too: `iter.Pull2` runs `Steps` on a goroutine
of its own, so the response to turn r is the caller r, whose `Steps` moves only when
some cursor pulls (`OpenStream`, `Pull`), or is stopped by `Close` (`CloseEffect`) or
by the end of the context Chat was called with (`PullContextEnds`, `PullEnded`).
`iter` is the state of that iterator, `buf` the buffer, `mu` the holder of its mutex,
`registered` is `c.current`. `at` is `LockResponse` followed by `ReadBuffered`,
`ReadEnd`, or `OpenStream` and `Pull`; the mutex is held all along, as in the code. An
entry stands for a chunk or for an error, which `chunkEntry` treats alike.

### `Policies` (`policy.go`, `policyproto.go`)

Operators, no state. A policy is a record: the pair `parseTarget` makes of its
tool name, its decision, whether it is the workspace marker, and, in place of its
functions, what its predicate and its `AskUser` handler would say of the call at
hand. `Precedes` is the comparison of the stable sort, with the place of
declaration for stability; `Evaluate` is the loop of `Enforcer.Evaluate` as the
first position that decides; `policyConfig` gives the harness its rules, and
`PolicyDecision` answers for the dynamic ones. `Evaluate` is not called by the SDK
in a session: it is exported, and tests call it. That it agrees with what harness
and client decide together is `VerdictIsEvaluates`.

### `Requests` (`eventproc.go` step trackers, questions, confirmations, decisions)

`trackers` is `p.trackers`, `workers` the goroutines of `p.background`, `wire` and
`inbox` the two directions of the connection. A step goes through the positions of
`at`: its call is checked (`CheckCall`, with `AskUnknownRule` for an id nobody
gave), then it may wait for its user several times (`WaitForUser`), its update is
repeated meanwhile, and goes on once what it asked for is answered. Answers name
the step and not the wait: the harness takes any answer, and `stray` counts those
that came when it waited for none. What the hooks reply is chosen freely, options
out of range and too many or too few answers included.

Assumed of the harness: it considers rules in the documented order, and a step
that waits sends an update that says it no longer does before it waits again. The
code needs the second: a step that asks for the same again without such an update,
or that leaves a wait because its turn was halted, would get no answer, or an
answer that was made for the wait before. A `Policy` whose `Decision` was never
set is left out: `Evaluate` falls through it to allow, `handlePolicyDecision`
denies, and `NewEnforcer` does not refuse it.

### `Tracing` (`tracing/tracing.go`)

Operators from a tracer to a tracer, one for each method, since each holds `t.mu`
from beginning to end. Maps keyed by trajectory are functions; `pendingSubagents`
is the queue of delegations that have no trajectory yet. `endTurn` is
`endTurnLocked`. Two ghosts: `unended` counts starts less ends, so a span dropped
from a map without `End` shows; `log` keeps which step spans were started under
which turn.

### `Hooks` (`hookrouter.go`, `hookrunner.go`)

The harness goes through `phase` (session, turn, stop) and each trajectory's step
through its stages (announced, running, failed, over), asking for a hook at each
point and sending updates in between. `ReadUpdate` and `ReadRequest` are the read
loop; a worker has `Begin` (it takes its context), one `RunHook` per hook, and
`Respond`. The tracer is one of the hooks, first in line, and one of the step
observers. `turnContext` numbers the contexts that were made: `Current` is
`hookRunner.turnContext`, which makes a detached one when there is none. Panics
leave the dispatch at once and are answered with an error; a post-turn hook that
panics therefore leaves the turn's context in place.

A kind without hooks is not asked about (`enabledHooks`): a step then passes its gate,
or ends, by `SkipHook`. Assumed: session and turns have hooks, as with a tracer they
have. A program without hooks before and after its turns is not modelled: what its
other hooks share may then be the context of several turns. Assumed of the harness: a
trajectory works on one step at a time, and a turn is halted only when no hook is
outstanding (`HaltTurn`); with a halt in the middle of a request the late `post_turn`
of one turn could clear the context of the next (hookrunner.go 89). Nothing in the
repository says whether the harness waits for the hook then. What the harness makes of
an error, and whether a denied turn gets a `post_turn`, is left open.

### `Terminal` and `Session` (`interactive.go`, `agent.go`, `internal/harness`, `triggers.go`)

`Terminal` is the line reader: a request is in `waiting` until the reader
goroutine takes it (`reqs` is unbuffered), and `holder` is whose it is; a
goroutine that leaves its read after that leaves it to `"gone"`, and the next line
with it. The user types when somebody waits, in answer to the prompt shown last,
so each line carries that prompt (`for`).

`Session` is `RunInteractive` over one agent: `main` walks through `New`
(`Configure`, `StartProcess`, `Handshake`, `Dial`, `Initialize`, each with its
failure), the loop of prompts and turns, and `Close`. Next to it run the reader,
the read loop until the connection is lost, one handler that prompts, one trigger,
the harness, and the world: crashes, a cancelled context, Ctrl-D. `Configs` are
what the caller may have passed; what `interactiveDefaults` and `checkSupervision`
make of it is `confirmInsteadOfDeny` and `resolve`.

## 3. Runs

| Run | Program | Bounds | Shows |
|---|---|---|---|
| `polite` | one caller; waits for idle before it sends; may abandon turns; turns may fail | queue 3, 3 turns, 2 steps, 2 tool calls | `IdleMeansAllQueued`, `MarkerComesLast`, `TurnIsolation`, `NothingDiscarded`, `EndsOnlyWhenEnded`, and that it implements `TurnStream` |
| `polite_live` | the same, and the harness may crash | queue 6, 2 turns, 2 steps, 1 call | `SendReturns`, `ReaderReleased`, `TurnsFinish` |
| `closing` | one caller with triggers and cancels, that closes the agent at any moment; crashes, prompts that cannot be sent | queue 6, 1 turn, 1 step, 1 call | `CloseReturns`, `ToolCallsInHand`, `ToolCallsRunOnce` |
| `history` | triggers, cleared histories | cap 3, 6 steps, 3 prompts, 2 tokens | `KeepsTheLatest`, `CompactionsExact`, `StartsSeparateTurns`, `TurnUsageExact` |
| `chat` | one goroutine waits for idle, chats, abandons, closes and cancels, its prompts may fail, its contexts may end; another walks the responses | queue 5, 2 turns, 1 step | `ResponseIsItsTurn`, `DrainedIsComplete`, `OpenHoldsStream`, `ChatReturns`, `CursorsReturn` |
| `requests` | lists of policies and calls; two steps at a time that are decided on, or wait for the user | every list of up to two of 18 rules, and longer ones; 2 steps, 2 waits, 1 repetition, 2 hooks, 2 options | `NoStrayAnswer`, `EveryRequestAnswered`, `VerdictIsEvaluates`, `EvaluateAsDocumented`, `AnswersLineUp` |
| `hooks` | a traced session with prompts, triggers, tools, a subagent, halts, denials and panics | 2 turns, 2 steps, 1 delegation, 1 compaction or continuation, 2 messages on the wire | `TurnScope`, `ConsentIsUnanimous`, `SpansNest`, `NoSpanLost`, `HooksAnswered` |
| `session` | `RunInteractive` with failures of every step, crashes, a cancelled context, a trigger and Ctrl-D | 2 lines, 2 requests, 1 firing of the trigger | `NothingOutlivesTheSession`, `ApprovedByAYes`, `CtrlDEndsTheSession` |

Runs that find the code at odds with what it says (section 5): `gate_race`,
`failed_send`, `close_full`, `concurrent_chats`.

### The bounds

- *Queue.* 64 in the source. Safety wants it small, so that the loop blocks with
  events in hand: 3 holds a step, a failure and a marker and overflows with the
  next step. Liveness wants room for what nobody reads, because a full queue
  that nobody reads stops the loop for good (`close_full`); 6 is more than the
  turns of `polite_live` and `closing` can produce unread.
- *Turns.* An event can cross into the next turn, and be mistaken for one of the
  turn after, with three. A gate left in the wrong state shows with two.
- *Steps and calls.* One step before a tool call, one after, and two calls in
  progress at once.
- *History.* A cap of 3 with 6 steps trims every position out of the history, and
  the recorded turn starts fall before, on and after the cut.
- *Chat.* Two turns make one abandoned response and its successor. What a gate opened
  too late does to a response shows with three (section 5): the safety properties were
  also checked with three turns (5.9 million states), and with a tool call and turn
  errors but no halt, and are proved for any number of these. `ChatReturns` asks
  nothing of the `Chat` after one whose prompt could not be sent (`failed_send`).
- *Requests.* Two rules make an order, and the lists the constructors build add a
  third behind; the 18 rules have each scope, each decision, and each thing a
  predicate or a handler can say. Two steps are answered by one read loop, each
  with two waits, so an answer of the first wait can meet the second; one
  repetition is enough to be claimed twice. Replies are too few, too many and out
  of range.
- *Hooks.* Every kind has a hook in the run; the properties were also checked with none
  before tools, with none after tools and at a stop, and with none of these at all.
  Two turns make one context too many or one kept too long; two steps, a
  step that is left and one that begins; two messages on the wire, an update that
  overtakes nothing while a worker runs.
- *Session.* Two lines are one for the prompt and one for its handler, and enough
  to give one to the wrong reader (section 5); two requests make a handler that asks
  again.

`CHECK_DEADLOCK FALSE` everywhere: a program that sends no more prompts stops,
and the bounds stop every other one.

## 4. Fairness

Safety runs use `Spec`. `FairSpec` adds weak fairness for

- the read loop and each goroutine, the Go scheduler's promise; it includes that
  the user's tools return, without which the harness waits forever;
- the harness's requests, its start and its end of a turn. It owes no steps and
  no tool calls, so its turns may be as short as it likes;
- each `Send` and each `Steps` once begun, and each step of `Close` once begun.

Nothing obliges the program to send, read, abandon, cancel or close.
`Requests` adds to the loop and the goroutines (with the user's handlers) that the
harness goes on with a check it began, reads its answers and lets an answered step
go on. `Hooks` is fair to the read loop and the workers only: hooks return, and the
harness owes nothing. `Session` is fair to `RunInteractive`, the handler, the
reader, the end of the read loop and of a cancelled trigger; and a harness that
lives ends its turns and acknowledges the end of the session. Nothing obliges the
user to type: `CtrlDEndsTheSession` supposes only that Ctrl-D was pressed.

`ChatFairSpec` takes over the fairness of the harness, the read loop and the tool
goroutines, is fair to each `Chat` and to each cursor once begun, and needs strong
fairness for a `Send` that waits for a mutex which cursors take again and again;
`sync.Mutex` hands itself over to a goroutine that has waited for a millisecond.

## 5. Where the code and its words part

Each of these is a run that TLC refutes, with a `findings` entry in
`PROJECT.json` that quotes the line.

- **`gate_race`**: a caller that reads a turn to its end and sends again at once
  can block for ever. The read loop queues the marker and then opens the gate;
  the reader may take the marker in between, and the next `Send` finds the gate
  closed, decides to drain, and waits for a marker that is gone. Waiting for idle
  first avoids it, which is why the passing runs have `waitForIdle`.
- **`failed_send`**: `resetForTurn` closes the gate before `sendUserInput`, which
  may fail. No turn runs, so nothing opens the gate: the next `Send` or
  `WaitForIdle` never returns.
- **`close_full`**: if more events than the queue holds were never read, the read
  loop is stuck in `emit` and cannot receive the session-end response that `Close`
  waits for with a context that never ends.
- **`concurrent_chats`**: the documentation of `Agent` allows concurrent `Chat`s.
  A response is registered after `Send` has released `sendMu`, and is bound to no
  turn: another `Chat` may drain its turn first, and then it streams the other's.

### Other configurations

The same properties under other habits, not kept as runs because they show a
variation of the above or a program the code does not promise anything to:

| Change | Property violated | Why |
|---|---|---|
| `polite` with `crash` | `NothingDiscarded` | the error of a crash that arrives between the check and the reset is thrown away |
| `polite` with `trigger` | `NothingDiscarded`, `EndsOnlyWhenEnded` | a trigger's turn starts between the check and the reset; the reset forgets its main trajectory, and a subagent's idle ends it |
| `polite` with `halt` | `MarkerComesLast` | a tool goroutine announces its call after the turn was cancelled |
| `polite` without `waitForIdle` | `IdleMeansAllQueued` | the gate of the last turn is opened during the next |
| `polite_live` with two callers | `SendReturns` | the second one drains for a marker that the first one read |
| `polite_live` with queue 1 and `trigger` | `TurnsFinish` | a turn that nobody reads does not go on when the queue is full, contrary to triggers.go 58-60 |
| `polite_live` with `close` | `ReaderReleased` | after the session end is acknowledged `emit` may drop the marker that a reader waits for |
| `history` with `clearMid` | `TurnUsageExact` | `ClearHistory` during a turn resets the figure the turn started with |
| `chat` without `waitForIdle`, walkers, faults and halts | `ChatReturns` | `gate_race`, with responses: a `Chat` right after the last one was read to its end |
| the same with three turns | `ResponseIsItsTurn`, `DrainedIsComplete` | turn 1 is abandoned; the next `Chat` drains its marker before the read loop opens the gate, which then opens during turn 2; that response is abandoned too, and the third `Chat` finds the agent idle with nothing pending: response 3 streams turn 2 |
| `chat` with a tool call | `ResponseIsItsTurn`, `DrainedIsComplete`, `ChatReturns` | the announcement of a call comes after its turn was cancelled (eventproc.go 486), and lands in the next response or in none |
| `chat` with `haltElsewhere` | `CancelsOwnTurn` (in `ChatResponse`) | between `finished` and the halt the turn may end and the next one start, which is then halted |
| `hooks` with `StepKinds` delegate and text, one turn, two delegations | `SubagentEndsWithItsCall` (in `Hooks`) | a `start_subagent` call that a pre-tool hook denied stays in `pendingSubagents`; the next subagent takes its name and call, and its own result does not close it (tracing.go 371, against 156-158) |
| `session` with `trigger` in `AskingTurns` | `ApprovedByAYes` | a trigger's turn asks for a confirmation while the program reads the next prompt: the line typed to "You:" may be taken as the answer, and a "yes" runs the command |

`TurnCount` (conversation.go 316) counts turn starts: it falls when the history
is trimmed, and includes prompts that could not be sent.

Read while modelling, and outside what the models distinguish:

- *Panics.* Hooks recover theirs (hookrouter.go 42). A predicate, an `AskUser`
  handler and an interaction hook run on goroutines without a recover: a panic in
  one ends the program, although "every path answers" (eventproc.go 690).
- *Start.* A process that fails after it was started is killed and never waited
  for: it stays a zombie until the program ends. The write of the handshake to its
  stdin is not under the handshake's timeout.
- *Close and the terminal.* The session's context is never cancelled and
  `eventProcessor.stop` waits for every goroutine: `Close` waits for the next line
  when a handler sits in a prompt.
- *`checkSupervision`* does not look at the write tools of subagents.
- *Hooks.* A tracer registered after a user's session-end hook that panics leaves
  its spans open. An update that says a tool step is done, after its `post_tool`,
  can open a second tool span (`startToolLocked`). The tool span of a built-in tool
  is keyed by the step and its result by the call.

## 6. What is proved

All theorems hold for every value of the constants that satisfies the named
assumptions, and for `Spec`, so with or without fairness.

- **`ConversationHistory_proofs`.** From `HistoryAssumption` only. The inductive
  invariant `HistoryInv` adds two facts to the properties that `history` checks:
  `TurnsInOrder` (turn numbers of the kept steps never decrease and do not exceed
  the last prompt's) and `LastTurnMarked` (as long as the last turn has no step,
  its start is recorded at the end of the history). The second is what makes
  `StartsSeparateTurns` inductive when the step arrives. It gives
  `HistoryKeepsTheLatest`, `CompactionsAreExact`, `TurnStartsSeparate` and
  `HistoryTypes`. `TurnUsageIsExact` rests on `UsageInv`, which follows the figure
  through the phases of a turn, and assumes that the program does not clear the
  history during one: the assumption is needed (section 5).
- **`Conversation_proofs`.** `ConversationTypes`: the types of all three layers,
  the bound on the queue included, for any number of callers, habits and faults.
  `ToolCallsStayInHand` and `ToolCallsRunOnlyOnce`, for the
  whole system: any number of callers, crashes, halts, triggers and close. The
  invariant `ToolInv` says of each call where it can be: not yet made, or in
  exactly one of wire, goroutine and inbox, or gone and not awaited; and that a
  harness that is gone awaits nothing.
- **`Turns_proofs`.** What the program of `polite` can rely on, for any size of the
  queue, any numbers of turns, steps and tool calls, with subagents, failing turns,
  abandoned turns and prompts that cannot be sent. `OnePoliteCaller(c)` names what is
  assumed of the program: one goroutine, which waits for idle before each `Send`; no
  triggers, no `Cancel`, no `Close`; and a harness that stays. Section 5 shows what
  breaks without each of these. `TurnInv` puts the turn of the last prompt in one of
  five stages, each of which says what may be on the wire, in the loop and on the
  queue, and in which order: `Waiting` (its prompt is on its way), `Running`, `Ending`
  (the frame that ends it is the last one on the wire), `Concluding` (the loop has
  received that frame and is queuing the marker or opening the gate) and `Concluded`.
  `CallerFits` says what the goroutine can have seen at each place of its `Send`:
  while it checks, the agent is idle; when it resets, the turn is over and the loop at
  rest. `Balance` counts: what was read of a turn, and its steps on the queue, in the
  loop, on the wire and in goroutines that have a call to announce, are together what
  the turn produced. An end frame cannot be followed by a call's announcement because
  a harness ends a turn when no call is awaited; that a goroutine has only awaited
  calls is `ToolInv` again. It gives `IdleMeansTheTurnIsQueued`, `MarkersComeLast`,
  `TurnsAreIsolated`, `NothingIsDiscarded` and `TurnsEndWhenEnded`. `TurnsAreAStream`
  is the refinement of `TurnStream`: each step asks for a turn, makes or shows one of
  its steps, concludes it, or leaves the stream as it is (`TurnStep`).
- **`ChatResponse_proofs`.** `ChatIsAConversation`: every behaviour of `ChatSpec` is
  one of `Conversation.Spec` with the responses among its callers, so `ToolInv` and the
  types hold beneath Chat. `ChatTypes` and `StreamHasOneHolder` are for any goroutines
  that chat, walk, cancel and abandon, any habits and faults: the iterator inside
  `Steps` and no other holds `recvMu`, the coroutine of a response is inside `Steps`
  exactly when its iterator is open (`StreamInv`). It holds of concurrent chats too:
  what fails there is which turn the stream carries, not who holds it.
  `ResponsesAreTheirTurns` and `DrainedResponsesAreComplete` are of the program that
  `OneChatter(c)` names: one goroutine chats, waits for idle before it does and halts
  nothing, and the harness stays. Tool calls, subagents, turn errors, prompts that fail,
  responses that are abandoned, closed or out of their context, and any number of
  walkers are allowed. Section 5 shows that without the wait, with a halt in a turn that
  has tool calls, or with a second chatter each of them fails. They rest on
  `OneChatterInvariant`: the stages of the turn asked for last and the balance of its
  events, as in `Turns_proofs`, read off a stream that responses and drains take turns
  in, and that what an open response has buffered is what has left the queue of its turn.
- **`Policies_proofs`.** For lists of any length. `Precedes` is a strict total order
  on the positions of a list (`OrderIsTotal`), so `Sorted` is
  a bijection that enumerates them by it (`SortedIsTheOrder`). `EvaluateIsDocumented`: the loop over the
  sorted list, and what the doc of `Policy` says (`Documented`: of the policies that
  apply the most specific, of these the most restrictive, of these the first declared),
  give the same answer. The existence of a least position is an induction over a
  well-founded order.
- **`Requests_proofs`.** From `RequestsAssumption`, which types the lists and the
  calls. `TypesInv` has the messages on the two queues and in the goroutines.
  `AnswersInv` says of each request that it is in one place (`RequestsAreAlone`), that
  the harness waits for it (`RequestsAreOutstanding`), and of each step what its updates
  on the wire mean. An update that waits for nothing has behind it only updates of the
  wait the harness is in, and before it only what the tracker has claimed already
  (`EndsSeparate`); with none of these on the wire all are of the present wait
  (`NoEndAllCurrent`); the tracker has claimed what the harness asked for once the read
  loop has seen it (`TrackerKnows`), and nothing is in anybody's hands before
  (`NothingInHand`). `NoAnswerIsStray`
  follows at the step where the harness takes an answer. `ChecksInv` follows a call
  through the rules: every rule before the one it is at passed (`ChecksGoOn`), a
  request names the rule it is at (`RequestsNameTheRule`), and a verdict is that of
  `Evaluate`; `VerdictsAreEvaluates` rests on it and on the lemmas of
  `Policies_proofs`, `EvaluationIsDocumented` on these alone. `AnswersAlwaysLineUp` rests
  on `QuestionsInv`, that what is in the hands of goroutines and on its way back was made
  by `Answers`, and on `AskedInOrder`: the loop of `answerQuestions` collects each
  multiple-choice question once, at the place that is the number of those up to it.
- **`Hooks_proofs`.** From `HooksAssumption` (each hook does what its kind can do, and
  session and turns have hooks; other points may have none). The inductive invariant `HooksInv` has three
  parts. `Types`. `ConsentInv`: what a goroutine has heard comes from the hooks of
  its request in order, only the last can have been decisive, and the edits are
  theirs. `Serving`: what the harness waits for is on the wire or with a
  goroutine, nothing else is, no request twice (`ByOneWorker`, `QueuedOnce`,
  `NotBoth`). `HooksTypes` counts goroutines by `Serving`;
  `ConsentIsUnanimousAlways` follows from `ConsentInv` at the step that answers,
  for any number and order of hooks. `TurnsHaveTheirScope` needs three more parts,
  and rests on two assumptions: that there are hooks before and after each turn, and
  that a turn is halted between hooks (section 2).
  `AskedInv`: one request is outstanding at a time, and it fits the phase of the
  session and the stage of its step, a subagent's within its delegation. `WireInv`: the
  updates on the wire are of the present turn, and nothing is behind a request that
  begins or ends a turn or the session. `ScopeInv`: which contexts the hooks and
  observers of the present turn have had, at each moment between the pre-turn hooks and
  the reset that `dispatchPostTurn` makes, and that a closed turn's context is not the
  current one.
  `SpansAlwaysNest` and `NoSpanIsLost` assume `TracerIsFirst`: the tracer is the first
  hook before a turn and at the end of a session, and there once at its start, which is
  how the comment of package `tracing` installs it. Without it they fail: a hook of
  another's that panics or denies ends the dispatch before the tracer hears of it
  (section 5). Three parts more. `Kept`, of a tracer between two of its methods, whatever
  it is told: what was started less what was ended is what is in its maps, which are
  empty between turns (`Accounted`), and a trajectory's latest index is remembered, open
  or closed, so that a late update opens nothing twice (`OnceEach`). `WorkInv`, of the
  harness: between turns no trajectory is at a step, and a hook is about a step that was
  begun. `TracerInv`, of the two together: when the session's span is open
  (`SessionBegins`, `SessionEnds`), that a turn's first update names the main trajectory
  (`MainNamed`), that the tracer's turn is the one whose updates it observes (`Traced`),
  and that every step logged has its place beneath it (`AllPlaced`). One lemma for each
  of the tracer's methods says that it preserves `Kept`, and what else it leaves alone.
- **`Session_proofs`.** From `SessionAssumption` and `TextsAssumption`. `SessionInv`
  has the domains (`Places`, `Flags`, `Counts`, `AtTheTerminal`); `Begun`, what
  exists at each place of `main`; `ReadersApart`, a reader's request is in one place
  and only while it reads; `Asked`, whose turn it is and who may be asking;
  `Supervised`, only a configuration that `checkSupervision` accepted goes on; and
  `Typing`, in the turn of a prompt a typed line was typed for the one who will get
  it. It gives `SessionTypes` and `SessionEndsEverything`, and with `Typing`
  `CommandsNeedAYes`, which assumes that only the turns of prompts ask
  (`AskingTurns`): section 5 shows that the assumption is needed.

Two definitions were wrong in a way only the proofs showed, though not in what TLC
computed: `CASE` with overlapping guards in `Policies` is a choice nobody made, and is
an `IF` now; and a difference under `SUBSET` in `Requests` lacked its parentheses.
`Tracing` writes its map assignments as `With`, which the provers can reason about,
where it had used `:>` and `@@`, and `Requests` collects the places of questions by the
code's loop, where it had used `SelectSeq`.

Only model-checked: all liveness (the prover has no `ENABLED`, so no fairness),
`HooksAnswered` and `CtrlDEndsTheSession` included. What concurrent callers, triggers,
halts, crashes and `Close` do to turns is model-checked too, or refuted (section 5). No
module that is proved about declares a recursive operator; the one recursive function,
`AskedUpTo`, is shown to exist, and to collect each place once, by least counterexample
(`LeastNatural`), since the library's induction cannot be instantiated.

## 7. What a model leaves out

Frame formats, logging, the wording of errors, contexts other than as "the caller
gives up", and the content of steps, except that a history tells compactions
apart. `Send` validates its prompt before anything else (`validatePrompt`): a
prompt it refuses changes nothing and is not an action. Timing is left out:
everything may take any time.

## 8. Hazards

`PROJECT.json` lists them with the properties that watch them. Those without a
property are named in section 5, or are in what section 9 leaves out.

## 9. Not modelled

| Part | Why |
|---|---|
| Spinner of the terminal | it only writes; a prompt that resumes it after `stopAndClear` leaves it spinning (interactive.go 200) |
| `parseAnswer`, layout of questions | parsing of text; what an answer may contain is chosen freely in `Requests` |
| Lines typed before a prompt is shown | the user of `Terminal` answers the prompt it sees |
| `Every`, `After`, `OnFileChange` and snapshots | timers; a firing is any moment in the model; nothing else depends on what a snapshot reports |
| Temporary save directory | created by `New` and never removed; no state of the session |
| Options and their conversion, models, MCP servers, instructions, capabilities | sequential validation: `Session` keeps whether it refuses, and the one rule that relates options (`checkSupervision`) |
| Wire forms: content, argument paths, usage tiers, hook and policy messages | conversions without state |
| Reflection and JSON schemas of tools | no state; recursion over Go types |
| Panics outside hooks, tools and triggers | they end the program |
| Generated protocol code | generated |
| Fake transport | a test double; it informed the models of the harness |

## 10. Plan

1. *Done*: `Harness`, `EventProcessor`, `Conversation`, `TurnStream`,
   `ConversationHistory`, `ChatResponse`; `Policies` and `Requests`; `Tracing` and
   `Hooks`; `Terminal` and `Session`; the proofs of section 6.
2. To prove next: of `Turns_proofs`, what is left of it for a program with triggers.
3. Worth adding if the code grows around them: the differences of snapshots against
   sets of changes, and the spinner, as modules of their own.
