------------------------------- MODULE Session -------------------------------
(***************************************************************************)
(* A session in a terminal from end to end: RunInteractive (interactive.go)*)
(* over New and Close (agent.go), the harness process and its connection   *)
(* (internal/harness), the read loop, one trigger (triggers.go) and the    *)
(* handlers that prompt the user in the middle of a turn (Terminal).       *)
(*                                                                         *)
(* Left to Conversation: the event queue and the idle gate.  Here a turn   *)
(* leaves one marker, and Send waits until the agent is idle.              *)
(***************************************************************************)
EXTENDS Terminal

CONSTANTS
  AskingTurns,   \* the turns whose tool calls need the user: "prompt", "trigger"
  MaxCalls, MaxTriggers   \* of the session

ASSUME SessionAssumption ==
  /\ AskingTurns \subseteq {"prompt", "trigger"}
  /\ MaxCalls \in Nat /\ MaxTriggers \in Nat

\* What the caller configured: whether names, paths and models are in order,
\* what its policies say of run_command ("none": it passed an empty policy
\* set), whether write tools or MCP servers are active, whether it registered a
\* pre-tool hook, and a trigger.
Configs == [valid : BOOLEAN, rule : {"deny", "allow", "none"}, writes : BOOLEAN,
            hook : BOOLEAN, trigger : BOOLEAN]

VARIABLES
  main,      \* where RunInteractive is
  cfg, rule, \* the caller's configuration, and the rule after interactiveDefaults
  process,   \* the subprocess: none, up, dead (not waited for), reaped
  conn,      \* the WebSocket: none, open, closed
  loop,      \* the read loop: none, running, ended
  handler,   \* the goroutine that answers the harness: none, or what it asks
  trigger,   \* the trigger's goroutine: none, waiting, done
  cancelled, \* the triggers' context
  ctxDone,   \* the context RunInteractive was given
  agent,     \* the harness: idle, working, asking, ended
  turnOf,    \* what began its turn
  marker,    \* the end of the prompt's turn waits to be read
  ending,    \* a SessionEndRequest was sent
  sessionEnd,\* eventProcessor.sessionEnd is closed
  calls, fired,   \* counters against the bounds
  ran        \* ghost: the answers by which commands ran

\* Where RunInteractive may be: in New, in Interact, in Close.
Starting == {"new", "start", "handshake", "dial", "initialize"}
Interacting == {"prompt", "read", "send", "turn"}
Closing == {"stopTriggers", "waitTriggers", "waitEnd", "shutdown", "waitLoop"}
Mains == Starting \union Interacting \union Closing \union {"returned", "failed"}

procVars == <<process, conn, loop>>
agentVars == <<agent, turnOf, marker, ending, sessionEnd, calls, fired, ran>>
handVars == <<handler, trigger, cancelled>>
fixed == <<cfg, ctxDone>>
vars == <<main, cfg, rule, ctxDone, procVars, handVars, agentVars, termVars>>

Init ==
  /\ cfg \in Configs /\ rule = "none" /\ main = "new" /\ ctxDone = FALSE
  /\ process = "none" /\ conn = "none" /\ loop = "none"
  /\ handler = "none" /\ trigger = "none" /\ cancelled = FALSE
  /\ agent = "idle" /\ turnOf = "prompt" /\ marker = FALSE /\ ending = FALSE
  /\ sessionEnd = FALSE /\ calls = 0 /\ fired = 0 /\ ran = {}
  /\ TermInit

Up == process = "up" /\ conn = "open"

----------------------------------------------------------------------------
\* New.

confirmInsteadOfDeny(r) == IF r = "deny" THEN "ask" ELSE r

checkSupervision_Lax(c) == c.writes => c.rule # "none" \/ ~c.hook
checkSupervision(c) == c.writes => c.rule # "none" \/ c.hook

resolve(c) == c.valid /\ checkSupervision(c)

Configure ==
  /\ main = "new" /\ rule' = confirmInsteadOfDeny(cfg.rule)
  /\ main' = IF resolve(cfg) THEN "start" ELSE "failed"
  /\ UNCHANGED <<fixed, procVars, handVars, agentVars, termVars>>

\* FindBinary, MkdirTemp and the pipes may fail before there is a process.
StartProcess ==
  /\ main = "start"
  /\ \/ main' = "failed" /\ UNCHANGED process
     \/ main' = "handshake" /\ process' = "up"
  /\ UNCHANGED <<fixed, rule, conn, loop, handVars, agentVars, termVars>>

\* A harness that dies, lies or says nothing for too long, or a context that
\* ends: Start kills the process and does not wait for it.
StartFails == main' = "failed" /\ process' = "dead" /\ UNCHANGED conn

Handshake ==
  /\ main = "handshake"
  /\ \/ process = "up" /\ main' = "dial" /\ UNCHANGED <<process, conn>>
     \/ StartFails
  /\ UNCHANGED <<fixed, rule, loop, handVars, agentVars, termVars>>

Dial ==
  /\ main = "dial"
  /\ \/ process = "up" /\ main' = "initialize" /\ conn' = "open" /\ UNCHANGED process
     \/ StartFails
  /\ UNCHANGED <<fixed, rule, loop, handVars, agentVars, termVars>>

\* A failed Initialize kills the process; the deferred Close of New shuts the
\* connection and waits for the process.
Initialize_Abandons ==
  /\ main = "initialize"
  /\ \/ Up /\ main' = "prompt" /\ loop' = "running"
        /\ trigger' = (IF cfg.trigger THEN "waiting" ELSE "none") /\ UNCHANGED <<process, conn>>
     \/ main' = "failed" /\ process' = "dead" /\ UNCHANGED <<conn, loop, trigger>>
  /\ UNCHANGED <<fixed, rule, handler, cancelled, agentVars, termVars>>
Initialize ==
  /\ main = "initialize"
  /\ \/ Up /\ main' = "prompt" /\ loop' = "running"
        /\ trigger' = (IF cfg.trigger THEN "waiting" ELSE "none") /\ UNCHANGED <<process, conn>>
     \/ main' = "failed" /\ process' = "reaped" /\ conn' = "closed" /\ UNCHANGED <<loop, trigger>>
  /\ UNCHANGED <<fixed, rule, handler, cancelled, agentVars, termVars>>

----------------------------------------------------------------------------
\* Interact.

AskForPrompt ==
  /\ main = "prompt" /\ main' = "read" /\ Prompt("main", "you")
  /\ UNCHANGED <<fixed, rule, procVars, handVars, agentVars>>

ReadPrompt ==
  /\ main = "read" /\ TakeLine("main")
  /\ main' = CASE got["main"].text \in {"eof", "exit"} -> "stopTriggers"
               [] got["main"].text = "blank" -> "prompt"
               [] OTHER -> "send"
  /\ UNCHANGED <<fixed, rule, procVars, handVars, agentVars>>

GiveUpPrompt ==
  /\ main = "read" /\ ctxDone /\ main' = "stopTriggers" /\ LeaveRead("main")
  /\ UNCHANGED <<fixed, rule, procVars, handVars, agentVars>>

\* runTurn: Send waits for the agent to be idle, which the end of the stream
\* makes it too.
SendPrompt ==
  /\ main = "send"
  /\ \/ Up /\ agent = "idle" /\ loop = "running"
        /\ main' = "turn" /\ agent' = "working" /\ turnOf' = "prompt"
        /\ marker' = FALSE
     \/ (~Up \/ ctxDone) /\ main' = "stopTriggers" /\ UNCHANGED <<agent, turnOf, marker>>
  /\ UNCHANGED <<fixed, rule, procVars, handVars, ending, sessionEnd, calls, fired, ran, termVars>>

EndTurn ==
  /\ main = "turn"
  /\ \/ (marker \/ loop = "ended") /\ main' = "prompt"
     \/ ctxDone /\ main' = "stopTriggers"
  /\ UNCHANGED <<fixed, rule, procVars, handVars, agentVars, termVars>>

----------------------------------------------------------------------------
\* Close.

StopTriggers ==
  /\ main = "stopTriggers" /\ cancelled' = TRUE /\ main' = "waitTriggers"
  /\ UNCHANGED <<fixed, rule, procVars, handler, trigger, agentVars, termVars>>

RequestSessionEnd ==
  /\ main = "waitTriggers" /\ trigger # "waiting"
  /\ ending' = Up
  /\ main' = IF Up THEN "waitEnd" ELSE "shutdown"
  /\ UNCHANGED <<fixed, rule, procVars, handVars, agent, turnOf, marker, sessionEnd,
                 calls, fired, ran, termVars>>

AwaitSessionEnd ==
  /\ main = "waitEnd" /\ sessionEnd /\ main' = "shutdown"
  /\ UNCHANGED <<fixed, rule, procVars, handVars, agentVars, termVars>>

\* Process.Close: the socket, then the process, which exits or is killed.
CloseTransport ==
  /\ main = "shutdown" /\ conn' = "closed" /\ process' = "reaped" /\ main' = "waitLoop"
  /\ UNCHANGED <<fixed, rule, loop, handVars, agentVars, termVars>>

\* eventProcessor.stop.
AwaitLoop ==
  /\ main = "waitLoop" /\ loop = "ended" /\ handler = "none" /\ main' = "returned"
  /\ UNCHANGED <<fixed, rule, procVars, handVars, agentVars, termVars>>

----------------------------------------------------------------------------
\* The goroutines of the session.

\* readLoop and finish.
LoseConnection ==
  /\ loop = "running" /\ ~Up /\ loop' = "ended" /\ sessionEnd' = TRUE
  /\ UNCHANGED <<main, fixed, rule, process, conn, handVars, agent, turnOf, marker, ending,
                 calls, fired, ran, termVars>>

FireTrigger ==
  /\ trigger = "waiting" /\ fired < MaxTriggers /\ fired' = fired + 1
  /\ agent' = IF Up /\ agent = "idle" THEN "working" ELSE agent
  /\ turnOf' = IF Up /\ agent = "idle" THEN "trigger" ELSE turnOf
  /\ UNCHANGED <<main, fixed, rule, procVars, handVars, marker, ending, sessionEnd,
                 calls, ran, termVars>>

\* A trigger may return, fail or panic at any time; Every, After and
\* OnFileChange return when their context is cancelled.
EndTrigger ==
  /\ trigger = "waiting" /\ trigger' = "done"
  /\ UNCHANGED <<main, fixed, rule, procVars, handler, cancelled, agentVars, termVars>>

\* handler = "confirm" or "question" before it prompts, "...ing" while it reads.
HandlerPrompts ==
  /\ handler \in {"confirm", "question"} /\ Prompt("worker", handler)
  /\ handler' = IF handler = "confirm" THEN "confirming" ELSE "questioning"
  /\ UNCHANGED <<main, fixed, rule, procVars, trigger, cancelled, agentVars>>

HandlerAnswers ==
  /\ handler \in {"confirming", "questioning"} /\ TakeLine("worker")
  /\ handler' = "none"
  /\ agent' = IF Up /\ agent = "asking" THEN "working" ELSE agent
  /\ ran' = IF handler = "confirming" /\ Up /\ agent = "asking" /\ Approves(got["worker"])
            THEN ran \union {got["worker"]} ELSE ran
  /\ UNCHANGED <<main, fixed, rule, procVars, trigger, cancelled, turnOf, marker, ending,
                 sessionEnd, calls, fired>>

----------------------------------------------------------------------------
\* The harness and the world.  A tool call waits for the policy's answer, a
\* question for the interaction hook's; both reach a handler by the read loop.

Ask(what) ==
  /\ Up /\ loop = "running" /\ agent = "working" /\ turnOf \in AskingTurns
  /\ handler = "none" /\ calls < MaxCalls
  /\ agent' = "asking" /\ handler' = what /\ calls' = calls + 1
  /\ UNCHANGED <<main, fixed, rule, procVars, trigger, cancelled, turnOf, marker, ending,
                 sessionEnd, fired, ran, termVars>>

CallCommand == rule = "ask" /\ Ask("confirm")
AskQuestion == Ask("question")

FinishTurn ==
  /\ Up /\ agent = "working" /\ agent' = "idle"
  /\ marker' = (marker \/ turnOf = "prompt")
  /\ UNCHANGED <<main, fixed, rule, procVars, handVars, turnOf, ending, sessionEnd, calls,
                 fired, ran, termVars>>

AnswerSessionEnd ==
  /\ Up /\ ending /\ ~sessionEnd /\ sessionEnd' = TRUE /\ agent' = "ended"
  /\ UNCHANGED <<main, fixed, rule, procVars, handVars, turnOf, marker, ending, calls, fired,
                 ran, termVars>>

Crash ==
  /\ process = "up" /\ process' = "dead"
  /\ UNCHANGED <<main, fixed, rule, conn, loop, handVars, agentVars, termVars>>

CancelContext ==
  /\ ~ctxDone /\ ctxDone' = TRUE
  /\ UNCHANGED <<main, cfg, rule, procVars, handVars, agentVars, termVars>>

User ==
  /\ Type \/ PressCtrlD
  /\ UNCHANGED <<main, fixed, rule, procVars, handVars, agentVars>>

Reader == Serve /\ UNCHANGED <<main, fixed, rule, procVars, handVars, agentVars>>

----------------------------------------------------------------------------
New == Configure \/ StartProcess \/ Handshake \/ Dial \/ Initialize
Interact == AskForPrompt \/ ReadPrompt \/ GiveUpPrompt \/ SendPrompt \/ EndTurn
Close == StopTriggers \/ RequestSessionEnd \/ AwaitSessionEnd \/ CloseTransport \/ AwaitLoop
RunInteractive == New \/ Interact \/ Close
Handler == HandlerPrompts \/ HandlerAnswers
Harness == CallCommand \/ AskQuestion \/ FinishTurn \/ AnswerSessionEnd

Next ==
  \/ RunInteractive \/ Handler \/ Reader \/ LoseConnection
  \/ FireTrigger \/ EndTrigger
  \/ Harness \/ Crash \/ CancelContext \/ User

\* Goroutines are scheduled, triggers return when they are cancelled, and a
\* harness that lives ends its turns and acknowledges the session's end.
Fairness ==
  /\ WF_vars(RunInteractive) /\ WF_vars(Handler) /\ WF_vars(Reader)
  /\ WF_vars(LoseConnection) /\ WF_vars(cancelled /\ EndTrigger)
  /\ WF_vars(FinishTurn) /\ WF_vars(AnswerSessionEnd)

Spec == Init /\ [][Next]_vars /\ Fairness

----------------------------------------------------------------------------
\* Properties.

\* No agent with write tools runs without a policy or a hook to decide
\* (options.go:680-684), the handler answers only what the harness asked, and
\* one goroutine at most holds a place with the reader.
TypeOK ==
  /\ TermTypeOK /\ cfg \in Configs
  /\ main \in Mains /\ rule \in {"none", "allow", "ask"}
  /\ process \in {"none", "up", "dead", "reaped"}
  /\ conn \in {"none", "open", "closed"} /\ loop \in {"none", "running", "ended"}
  /\ handler \in {"none", "confirm", "confirming", "question", "questioning"}
  /\ trigger \in {"none", "waiting", "done"}
  /\ agent \in {"idle", "working", "asking", "ended"} /\ turnOf \in {"prompt", "trigger"}
  /\ cancelled \in BOOLEAN /\ ctxDone \in BOOLEAN /\ marker \in BOOLEAN
  /\ ending \in BOOLEAN /\ sessionEnd \in BOOLEAN
  /\ calls \in 0..MaxCalls /\ fired \in 0..MaxTriggers /\ ran \subseteq Line
  /\ main \notin {"new", "failed"} /\ cfg.writes => cfg.rule # "none" \/ cfg.hook
  /\ handler # "none" => agent \in {"asking", "ended"}
  /\ holder \notin waiting
  /\ main # "read" => "main" \notin waiting /\ holder # "main"

\* What the session started ends with it.  A failed New leaves no process, no
\* connection and no goroutine ("On failure the subprocess is cleaned up before
\* returning"); when RunInteractive returns the process was waited for, the
\* read loop, the handlers and the triggers are gone; and no trigger is left to
\* send into a session that is going away (agent.go:192-197).
NothingOutlivesTheSession ==
  /\ main = "failed" =>
       process # "up" /\ conn # "open" /\ loop # "running" /\ trigger # "waiting"
  /\ main = "returned" =>
       process = "reaped" /\ conn = "closed" /\ loop = "ended" /\ handler = "none"
  /\ main \in Closing \ {"stopTriggers", "waitTriggers"} => trigger # "waiting"

\* A command that a policy denied and RunInteractive turned into a question
\* runs only by a "yes" the user typed to that question: no line meant for
\* another prompt, no end of input, no crash and no cancelled read approves it
\* ("an unattended run must not approve by accident").
ApprovedByAYes == \A line \in ran : line = [text |-> "yes", for |-> "confirm"]

\* Ctrl-D ends the session, whoever was reading: each reader in turn is told of
\* the end of input, and Close returns though a handler was in the middle of a
\* question, the harness died or the context ended.
CtrlDEndsTheSession == eof ~> main \in {"failed", "returned"}
=============================================================================
