--------------------------- MODULE Session_proofs ---------------------------
(***************************************************************************)
(* For any texts, bounds and configuration: what Session.tla says of its   *)
(* types, that nothing outlives the session, and, of programs whose        *)
(* triggers' turns do not ask the user, that commands are approved only by *)
(* a yes to their own question.                                            *)
(***************************************************************************)
EXTENDS Session, TLAPS

\* The domains of the variables.
Places ==
  /\ main \in Mains /\ rule \in {"none", "allow", "ask"}
  /\ process \in {"none", "up", "dead", "reaped"}
  /\ conn \in {"none", "open", "closed"} /\ loop \in {"none", "running", "ended"}
  /\ handler \in {"none", "confirm", "confirming", "question", "questioning"}
  /\ trigger \in {"none", "waiting", "done"}
  /\ agent \in {"idle", "working", "asking", "ended"} /\ turnOf \in {"prompt", "trigger"}

Flags ==
  /\ cancelled \in BOOLEAN /\ ctxDone \in BOOLEAN /\ marker \in BOOLEAN
  /\ ending \in BOOLEAN /\ sessionEnd \in BOOLEAN /\ eof \in BOOLEAN

Counts == calls \in 0..MaxCalls /\ fired \in 0..MaxTriggers /\ lines \in 0..MaxLines

AtTheTerminal ==
  /\ cfg \in Configs /\ ran \subseteq Line
  /\ shown \in Prompts /\ typed \in Seq(Line)
  /\ waiting \subseteq Prompters /\ holder \in Prompters \union {"none", "gone"}
  /\ got \in [Prompters -> Line]

Domains == Places /\ Flags /\ Counts /\ AtTheTerminal

\* What has begun, by where RunInteractive is.
Begun ==
  /\ main \in Starting =>
       /\ loop = "none" /\ trigger = "none" /\ handler = "none" /\ agent = "idle"
       /\ ~marker /\ ~ending
  /\ main \in {"new", "start"} => process = "none"
  /\ main \in Starting \ {"initialize"} => conn = "none"
  /\ main = "failed" =>
       /\ process # "up" /\ conn # "open" /\ loop = "none" /\ trigger = "none"
       /\ handler = "none"
  /\ main \in {"waitLoop", "returned"} => process = "reaped" /\ conn = "closed"
  /\ main = "returned" => loop = "ended" /\ handler = "none"
  /\ main \in Closing \ {"stopTriggers", "waitTriggers"} => trigger # "waiting"
  /\ main = "returned" => trigger # "waiting"
  /\ loop = "ended" => ~Up

\* A reply channel holds nothing, the end of input, or a line.
LEMMA Lines == NoLine \in Line /\ Eof \in Line /\ NoLine # Eof
BY DEF Line, NoLine, Eof

----------------------------------------------------------------------------
\* Every step keeps the domains and what has begun.

\* The places are those the code names.
LEMMA PlacesStep ==
  ASSUME Places, AtTheTerminal, [Next]_vars
  PROVE  Places'
<1>1. CASE New
  BY <1>1 DEF New, Configure, StartProcess, Handshake, StartFails, Dial, Initialize,
    Places, Mains, Starting, Interacting, Closing, confirmInsteadOfDeny, AtTheTerminal, Configs,
    fixed, procVars, handVars, agentVars, termVars
<1>2. CASE Interact
  BY <1>2 DEF Interact, AskForPrompt, ReadPrompt, GiveUpPrompt, SendPrompt, EndTurn,
    Places, Mains, Starting, Interacting, Closing,
    fixed, procVars, handVars, agentVars, termVars
<1>3. CASE Close
  BY <1>3 DEF Close, StopTriggers, RequestSessionEnd, AwaitSessionEnd, CloseTransport, AwaitLoop,
    Places, Mains, Starting, Interacting, Closing,
    fixed, procVars, handVars, agentVars, termVars
<1>4. CASE Handler
  BY <1>4 DEF Handler, HandlerPrompts, HandlerAnswers,
    Places, Mains, Starting, Interacting, Closing,
    fixed, procVars, handVars, agentVars, termVars
<1>5. CASE Reader \/ LoseConnection \/ FireTrigger \/ EndTrigger
  BY <1>5 DEF Reader, LoseConnection, FireTrigger, EndTrigger,
    Places, Mains, Starting, Interacting, Closing,
    fixed, procVars, handVars, agentVars, termVars
<1>6. CASE Harness
  BY <1>6 DEF Harness, CallCommand, AskQuestion, Ask, FinishTurn, AnswerSessionEnd,
    Places, Mains, Starting, Interacting, Closing,
    fixed, procVars, handVars, agentVars, termVars
<1>7. CASE Crash \/ CancelContext \/ User
  BY <1>7 DEF Crash, CancelContext, User,
    Places, Mains, Starting, Interacting, Closing,
    fixed, procVars, handVars, agentVars, termVars
<1>8. CASE UNCHANGED vars
  BY <1>8 DEF vars, Places, Mains, Starting, Interacting, Closing,
    fixed, procVars, handVars, agentVars, termVars
<1>9. QED
  BY <1>1, <1>2, <1>3, <1>4, <1>5, <1>6, <1>7, <1>8 DEF Next, RunInteractive

\* Flags stay flags.
LEMMA FlagsStep ==
  ASSUME Flags, [Next]_vars
  PROVE  Flags'
<1>1. CASE New
  BY <1>1 DEF New, Configure, StartProcess, Handshake, StartFails, Dial, Initialize,
    Flags,
    fixed, procVars, handVars, agentVars, termVars
<1>2. CASE Interact
  BY <1>2 DEF Interact, AskForPrompt, ReadPrompt, GiveUpPrompt, SendPrompt, EndTurn,
    Flags, Prompt, TakeLine, LeaveRead,
    fixed, procVars, handVars, agentVars, termVars
<1>3. CASE Close
  BY <1>3 DEF Close, StopTriggers, RequestSessionEnd, AwaitSessionEnd, CloseTransport, AwaitLoop,
    Flags, Up,
    fixed, procVars, handVars, agentVars, termVars
<1>4. CASE Handler
  BY <1>4 DEF Handler, HandlerPrompts, HandlerAnswers,
    Flags, Prompt, TakeLine,
    fixed, procVars, handVars, agentVars, termVars
<1>5. CASE Reader \/ LoseConnection \/ FireTrigger \/ EndTrigger
  BY <1>5 DEF Reader, LoseConnection, FireTrigger, EndTrigger,
    Flags, Serve, TakeRequest, ServeLine, ServeEof,
    fixed, procVars, handVars, agentVars, termVars
<1>6. CASE Harness
  BY <1>6 DEF Harness, CallCommand, AskQuestion, Ask, FinishTurn, AnswerSessionEnd,
    Flags,
    fixed, procVars, handVars, agentVars, termVars
<1>7. CASE Crash \/ CancelContext \/ User
  BY <1>7 DEF Crash, CancelContext, User,
    Flags, Type, PressCtrlD,
    fixed, procVars, handVars, agentVars, termVars
<1>8. CASE UNCHANGED vars
  BY <1>8 DEF vars, Flags,
    fixed, procVars, handVars, agentVars, termVars
<1>9. QED
  BY <1>1, <1>2, <1>3, <1>4, <1>5, <1>6, <1>7, <1>8 DEF Next, RunInteractive

\* The bounds bound.
LEMMA CountsStep ==
  ASSUME Counts, [Next]_vars
  PROVE  Counts'
<1>1. CASE New
  BY <1>1 DEF New, Configure, StartProcess, Handshake, StartFails, Dial, Initialize,
    Counts,
    fixed, procVars, handVars, agentVars, termVars
<1>2. CASE Interact
  BY <1>2 DEF Interact, AskForPrompt, ReadPrompt, GiveUpPrompt, SendPrompt, EndTurn,
    Counts, Prompt, TakeLine, LeaveRead,
    fixed, procVars, handVars, agentVars, termVars
<1>3. CASE Close
  BY <1>3 DEF Close, StopTriggers, RequestSessionEnd, AwaitSessionEnd, CloseTransport, AwaitLoop,
    Counts,
    fixed, procVars, handVars, agentVars, termVars
<1>4. CASE Handler
  BY <1>4 DEF Handler, HandlerPrompts, HandlerAnswers,
    Counts, Prompt, TakeLine,
    fixed, procVars, handVars, agentVars, termVars
<1>5. CASE Reader \/ LoseConnection \/ FireTrigger \/ EndTrigger
  BY <1>5, SessionAssumption, TextsAssumption DEF Reader, LoseConnection, FireTrigger, EndTrigger,
    Counts, Serve, TakeRequest, ServeLine, ServeEof,
    fixed, procVars, handVars, agentVars, termVars
<1>6. CASE Harness
  BY <1>6, SessionAssumption, TextsAssumption DEF Harness, CallCommand, AskQuestion, Ask, FinishTurn, AnswerSessionEnd,
    Counts,
    fixed, procVars, handVars, agentVars, termVars
<1>7. CASE Crash \/ CancelContext \/ User
  BY <1>7, SessionAssumption, TextsAssumption DEF Crash, CancelContext, User,
    Counts, Type, PressCtrlD,
    fixed, procVars, handVars, agentVars, termVars
<1>8. CASE UNCHANGED vars
  BY <1>8 DEF vars, Counts,
    fixed, procVars, handVars, agentVars, termVars
<1>9. QED
  BY <1>1, <1>2, <1>3, <1>4, <1>5, <1>6, <1>7, <1>8 DEF Next, RunInteractive

\* Lines and requests stay where lines and requests may be.
LEMMA TerminalStep ==
  ASSUME AtTheTerminal, [Next]_vars
  PROVE  AtTheTerminal'
<1> USE Lines DEF AtTheTerminal
<1>1. CASE New
  BY <1>1 DEF New, Configure, StartProcess, Handshake, StartFails, Dial, Initialize,
    fixed, handVars, agentVars, termVars
<1>2. CASE Interact
  <2>1. CASE AskForPrompt
    BY <2>1 DEF AskForPrompt, Prompt, Prompters, Prompts, fixed, agentVars
  <2>2. CASE ReadPrompt
    BY <2>2 DEF ReadPrompt, TakeLine, fixed, agentVars
  <2>3. CASE GiveUpPrompt
    BY <2>3 DEF GiveUpPrompt, LeaveRead, fixed, agentVars
  <2>4. CASE SendPrompt \/ EndTurn
    BY <2>4 DEF SendPrompt, EndTurn, fixed, agentVars, termVars
  <2>5. QED
    BY <1>2, <2>1, <2>2, <2>3, <2>4 DEF Interact
<1>3. CASE Close
  BY <1>3 DEF Close, StopTriggers, RequestSessionEnd, AwaitSessionEnd, CloseTransport, AwaitLoop,
    fixed, agentVars, termVars
<1>4. CASE Handler
  <2>1. CASE HandlerPrompts
    BY <2>1 DEF HandlerPrompts, Prompt, Prompters, Prompts, fixed, agentVars
  <2>2. CASE HandlerAnswers
    BY <2>2 DEF HandlerAnswers, TakeLine, Prompters, fixed
  <2>3. QED
    BY <1>4, <2>1, <2>2 DEF Handler
<1>5. CASE Reader
  <2>1. CASE TakeRequest
    BY <1>5, <2>1 DEF Reader, TakeRequest, fixed, agentVars
  <2>2. CASE ServeLine
    BY <1>5, <2>2 DEF Reader, ServeLine, Reply, fixed, agentVars
  <2>3. CASE ServeEof
    BY <1>5, <2>3 DEF Reader, ServeEof, Reply, fixed, agentVars
  <2>4. QED
    BY <1>5, <2>1, <2>2, <2>3 DEF Reader, Serve
<1>6. CASE LoseConnection \/ FireTrigger \/ EndTrigger
  BY <1>6 DEF LoseConnection, FireTrigger, EndTrigger, fixed, agentVars, termVars
<1>7. CASE Harness
  BY <1>7 DEF Harness, CallCommand, AskQuestion, Ask, FinishTurn, AnswerSessionEnd,
    fixed, agentVars, termVars
<1>8. CASE Crash \/ CancelContext
  BY <1>8 DEF Crash, CancelContext, fixed, agentVars, termVars
<1>9. CASE User
  <2>1. CASE Type
    <3>1. PICK text \in Texts : typed' = <<[text |-> text, for |-> shown]>>
      BY <1>9, <2>1 DEF User, Type
    <3>2. [text |-> text, for |-> shown] \in Line
      BY <3>1 DEF Line
    <3>3. QED
      BY <1>9, <2>1, <3>1, <3>2 DEF User, Type, fixed, agentVars
  <2>2. CASE PressCtrlD
    BY <1>9, <2>2 DEF User, PressCtrlD, fixed, agentVars
  <2>3. QED
    BY <1>9, <2>1, <2>2 DEF User
<1>10. CASE UNCHANGED vars
  BY <1>10 DEF vars, fixed, agentVars, termVars
<1>11. QED
  BY <1>1, <1>2, <1>3, <1>4, <1>5, <1>6, <1>7, <1>8, <1>9, <1>10 DEF Next, RunInteractive

\* What has begun is known from where RunInteractive is.
LEMMA BegunStep ==
  ASSUME Places, Begun, [Next]_vars
  PROVE  Begun'
<1> USE DEF Places, Begun, Up, Starting, Closing
<1>1. CASE New
  BY <1>1 DEF New, Configure, StartProcess, Handshake, StartFails, Dial, Initialize,
    fixed, procVars, handVars, agentVars, termVars
<1>2. CASE Interact
  BY <1>2 DEF Interact, AskForPrompt, ReadPrompt, GiveUpPrompt, SendPrompt, EndTurn, Interacting,
    fixed, procVars, handVars, agentVars, termVars
<1>3. CASE Close
  BY <1>3 DEF Close, StopTriggers, RequestSessionEnd, AwaitSessionEnd, CloseTransport, AwaitLoop,
    fixed, procVars, handVars, agentVars, termVars
<1>4. CASE Handler
  BY <1>4 DEF Handler, HandlerPrompts, HandlerAnswers,
    fixed, procVars, handVars, agentVars, termVars
<1>5. CASE Reader \/ LoseConnection \/ FireTrigger \/ EndTrigger
  BY <1>5 DEF Reader, LoseConnection, FireTrigger, EndTrigger,
    fixed, procVars, handVars, agentVars, termVars
<1>6. CASE Harness
  BY <1>6 DEF Harness, CallCommand, AskQuestion, Ask, FinishTurn, AnswerSessionEnd,
    fixed, procVars, handVars, agentVars, termVars
<1>7. CASE Crash \/ CancelContext \/ User
  BY <1>7 DEF Crash, CancelContext, User,
    fixed, procVars, handVars, agentVars, termVars
<1>8. CASE UNCHANGED vars
  BY <1>8 DEF vars, fixed, procVars, handVars, agentVars, termVars
<1>9. QED
  BY <1>1, <1>2, <1>3, <1>4, <1>5, <1>6, <1>7, <1>8 DEF Next, RunInteractive

----------------------------------------------------------------------------
\* Who reads, and whose turn it is.

AskingNow == {"confirming", "questioning"}
AskedBy(h) == IF h = "confirming" THEN "confirm" ELSE "question"

\* A goroutine's request is in one place, and only while it reads.
Requesting(g) == g \in waiting \/ holder = g \/ got[g] # NoLine
ReadersApart ==
  /\ holder \notin waiting
  /\ \A g \in Prompters : got[g] # NoLine => g \notin waiting /\ holder # g
  /\ Requesting("main") => main = "read"
  /\ Requesting("worker") => handler \in AskingNow

\* The turn of a prompt goes on only while its end has not been read.
PromptTurn == Up /\ agent \in {"working", "asking"} /\ turnOf = "prompt"
Asked ==
  /\ handler # "none" => agent \in {"asking", "ended"}
  /\ agent = "asking" => turnOf \in AskingTurns
  /\ PromptTurn => main \notin {"prompt", "read", "send"} /\ ~marker

Supervised == main \notin {"new", "failed"} /\ cfg.writes => cfg.rule # "none" \/ cfg.hook

\* A request is put in one place, and moves from there to the reply.
LEMMA ReadersApartStep ==
  ASSUME Places, Begun, AtTheTerminal, ReadersApart, [Next]_vars
  PROVE  ReadersApart'
<1> USE Lines DEF AtTheTerminal, ReadersApart, Requesting, AskingNow, Prompters, Begun, Places
<1>1. CASE New
  BY <1>1 DEF New, Configure, StartProcess, Handshake, StartFails, Dial, Initialize, Starting,
    fixed, procVars, handVars, agentVars, termVars
<1>2. CASE Interact
  BY <1>2 DEF Interact, AskForPrompt, ReadPrompt, GiveUpPrompt, SendPrompt, EndTurn, Prompt, TakeLine, LeaveRead,
    fixed, procVars, handVars, agentVars, termVars
<1>3. CASE Close
  BY <1>3 DEF Close, StopTriggers, RequestSessionEnd, AwaitSessionEnd, CloseTransport, AwaitLoop,
    fixed, procVars, handVars, agentVars, termVars
<1>4. CASE Handler
  BY <1>4 DEF Handler, HandlerPrompts, HandlerAnswers, Prompt, TakeLine,
    fixed, procVars, handVars, agentVars, termVars
<1>5. CASE Reader \/ LoseConnection \/ FireTrigger \/ EndTrigger
  BY <1>5 DEF Reader, LoseConnection, FireTrigger, EndTrigger, Serve, TakeRequest, ServeLine, ServeEof, Reply,
    fixed, procVars, handVars, agentVars, termVars
<1>6. CASE Harness
  BY <1>6 DEF Harness, CallCommand, AskQuestion, Ask, FinishTurn, AnswerSessionEnd,
    fixed, procVars, handVars, agentVars, termVars
<1>7. CASE Crash \/ CancelContext \/ User
  BY <1>7 DEF Crash, CancelContext, User, Type, PressCtrlD,
    fixed, procVars, handVars, agentVars, termVars
<1>8. CASE UNCHANGED vars
  BY <1>8 DEF vars, fixed, procVars, handVars, agentVars, termVars
<1>9. QED
  BY <1>1, <1>2, <1>3, <1>4, <1>5, <1>6, <1>7, <1>8 DEF Next, RunInteractive

\* A prompt is sent to an agent that is idle, and its end comes after its requests.
LEMMA AskedStep ==
  ASSUME Places, Begun, AtTheTerminal, ReadersApart, Asked, [Next]_vars
  PROVE  Asked'
<1> USE DEF Asked, PromptTurn, Up, Begun, Places
<1>1. CASE New
  BY <1>1 DEF New, Configure, StartProcess, Handshake, StartFails, Dial, Initialize, Starting,
    fixed, procVars, handVars, agentVars, termVars
<1>2. CASE Interact
  BY <1>2 DEF Interact, AskForPrompt, ReadPrompt, GiveUpPrompt, SendPrompt, EndTurn,
    fixed, procVars, handVars, agentVars, termVars
<1>3. CASE Close
  BY <1>3 DEF Close, StopTriggers, RequestSessionEnd, AwaitSessionEnd, CloseTransport, AwaitLoop,
    fixed, procVars, handVars, agentVars, termVars
<1>4. CASE Handler
  BY <1>4 DEF Handler, HandlerPrompts, HandlerAnswers, ReadersApart, Requesting, AskingNow, TakeLine,
    fixed, procVars, handVars, agentVars, termVars
<1>5. CASE Reader \/ LoseConnection \/ FireTrigger \/ EndTrigger
  BY <1>5 DEF Reader, LoseConnection, FireTrigger, EndTrigger,
    fixed, procVars, handVars, agentVars, termVars
<1>6. CASE Harness
  BY <1>6 DEF Harness, CallCommand, AskQuestion, Ask, FinishTurn, AnswerSessionEnd,
    fixed, procVars, handVars, agentVars, termVars
<1>7. CASE Crash \/ CancelContext \/ User
  BY <1>7 DEF Crash, CancelContext, User,
    fixed, procVars, handVars, agentVars, termVars
<1>8. CASE UNCHANGED vars
  BY <1>8 DEF vars, fixed, procVars, handVars, agentVars, termVars
<1>9. QED
  BY <1>1, <1>2, <1>3, <1>4, <1>5, <1>6, <1>7, <1>8 DEF Next, RunInteractive

\* Only what resolve accepted goes on.
LEMMA SupervisedStep ==
  ASSUME Places, AtTheTerminal, Supervised, [Next]_vars
  PROVE  Supervised'
<1> USE DEF Supervised, Places
<1>1. CASE New
  BY <1>1 DEF New, Configure, StartProcess, Handshake, StartFails, Dial, Initialize, resolve, checkSupervision,
    fixed, procVars, handVars, agentVars, termVars
<1>2. CASE Interact
  BY <1>2 DEF Interact, AskForPrompt, ReadPrompt, GiveUpPrompt, SendPrompt, EndTurn,
    fixed, procVars, handVars, agentVars, termVars
<1>3. CASE Close
  BY <1>3 DEF Close, StopTriggers, RequestSessionEnd, AwaitSessionEnd, CloseTransport, AwaitLoop,
    fixed, procVars, handVars, agentVars, termVars
<1>4. CASE Handler
  BY <1>4 DEF Handler, HandlerPrompts, HandlerAnswers,
    fixed, procVars, handVars, agentVars, termVars
<1>5. CASE Reader \/ LoseConnection \/ FireTrigger \/ EndTrigger
  BY <1>5 DEF Reader, LoseConnection, FireTrigger, EndTrigger,
    fixed, procVars, handVars, agentVars, termVars
<1>6. CASE Harness
  BY <1>6 DEF Harness, CallCommand, AskQuestion, Ask, FinishTurn, AnswerSessionEnd,
    fixed, procVars, handVars, agentVars, termVars
<1>7. CASE Crash \/ CancelContext \/ User
  BY <1>7 DEF Crash, CancelContext, User,
    fixed, procVars, handVars, agentVars, termVars
<1>8. CASE UNCHANGED vars
  BY <1>8 DEF vars, fixed, procVars, handVars, agentVars, termVars
<1>9. QED
  BY <1>1, <1>2, <1>3, <1>4, <1>5, <1>6, <1>7, <1>8 DEF Next, RunInteractive

----------------------------------------------------------------------------
\* What was typed, and for whom.

\* A line that was typed has a reader, as long as the session goes on, and in
\* the turn of a prompt it answers the handler's own question.
Typing ==
  /\ typed # <<>> => Tail(typed) = <<>>
  /\ main \in Starting => holder = "none" /\ waiting = {} /\ typed = <<>>
  /\ Up /\ main \in Interacting => holder # "gone" /\ (typed # <<>> => Reading)
  /\ PromptTurn =>
       /\ holder # "gone"
       /\ typed # <<>> =>
            Head(typed).for = AskedBy(handler) /\ ("worker" \in waiting \/ holder = "worker")
       /\ handler \in AskingNow => shown = AskedBy(handler)
       /\ got["worker"] \notin {NoLine, Eof} => got["worker"].for = AskedBy(handler)

SessionInv == Domains /\ Begun /\ ReadersApart /\ Asked /\ Supervised /\ Typing

\* The line the handler is about to get.
LEMMA LineForHandler ==
  ASSUME Typing, PromptTurn, typed # <<>>
  PROVE  Head(typed).for = AskedBy(handler)
BY DEF Typing

\* Each line goes to the reader it was typed for.
LEMMA TypingStep ==
  ASSUME Places, Begun, AtTheTerminal, ReadersApart, Asked, Typing, [Next]_vars
  PROVE  Typing'
<1> USE Lines DEF AtTheTerminal, ReadersApart, Requesting, AskingNow, AskedBy, Prompters, Begun, Places, Asked, Typing, PromptTurn, Up, Starting, Interacting, Closing, Reading
<1>1. CASE New
  BY <1>1 DEF New, Configure, StartProcess, Handshake, StartFails, Dial, Initialize,
    fixed, procVars, handVars, agentVars, termVars
<1>2. CASE Interact
  BY <1>2 DEF Interact, AskForPrompt, ReadPrompt, GiveUpPrompt, SendPrompt, EndTurn, Prompt, TakeLine, LeaveRead,
    fixed, procVars, handVars, agentVars, termVars
<1>3. CASE Close
  BY <1>3 DEF Close, StopTriggers, RequestSessionEnd, AwaitSessionEnd, CloseTransport, AwaitLoop,
    fixed, procVars, handVars, agentVars, termVars
<1>4. CASE Handler
  BY <1>4 DEF Handler, HandlerPrompts, HandlerAnswers, Prompt, TakeLine,
    fixed, procVars, handVars, agentVars, termVars
<1>5. CASE Reader \/ LoseConnection \/ FireTrigger \/ EndTrigger
  <2>1. CASE Reader /\ TakeRequest
    BY <2>1 DEF Reader, TakeRequest, fixed, procVars, handVars, agentVars, termVars
  <2>2. CASE Reader /\ ServeLine
    <3>1. typed' = <<>> /\ holder' = "none"
      BY <2>2 DEF ServeLine
    <3>2. ASSUME PromptTurn PROVE holder = "worker" /\ got'["worker"].for = AskedBy(handler)
      <4>1. holder = "worker"
        BY <2>2, <3>2 DEF ServeLine
      <4>2. got' = [got EXCEPT !["worker"] = Head(typed)]
        BY <2>2, <4>1 DEF ServeLine, Reply
      <4>3. got'["worker"] = Head(typed)
        BY <4>2
      <4>4. Head(typed).for = AskedBy(handler)
        BY <2>2, <3>2, LineForHandler DEF ServeLine
      <4>5. QED
        BY <4>1, <4>3, <4>4
    <3>3. QED
      BY <2>2, <3>1, <3>2 DEF Reader, ServeLine, fixed, procVars, handVars, agentVars, termVars
  <2>3. CASE Reader /\ ServeEof
    BY <2>3 DEF Reader, ServeEof, Reply, fixed, procVars, handVars, agentVars, termVars
  <2>4. CASE LoseConnection \/ FireTrigger \/ EndTrigger
    BY <2>4 DEF LoseConnection, FireTrigger, EndTrigger, fixed, procVars, handVars, agentVars, termVars
  <2>5. QED
    BY <1>5, <2>1, <2>2, <2>3, <2>4 DEF Reader, Serve
<1>6. CASE Harness
  BY <1>6 DEF Harness, CallCommand, AskQuestion, Ask, FinishTurn, AnswerSessionEnd,
    fixed, procVars, handVars, agentVars, termVars
<1>7. CASE Crash \/ CancelContext \/ User
  <2>1. CASE User /\ Type
    <3>1. PICK text \in Texts : typed' = <<[text |-> text, for |-> shown]>>
      BY <2>1 DEF Type
    <3>2. Head(typed').for = shown /\ Tail(typed') = <<>>
      BY <3>1
    <3>3. main \notin Starting
      BY <2>1 DEF Type
    <3>4. PromptTurn => shown = AskedBy(handler) /\ ("worker" \in waiting \/ holder = "worker")
      BY <2>1 DEF Type
    <3>5. QED
      BY <2>1, <3>2, <3>3, <3>4 DEF User, Type, fixed, procVars, handVars, agentVars, termVars
  <2>2. CASE User /\ PressCtrlD
    BY <2>2 DEF User, PressCtrlD, fixed, procVars, handVars, agentVars, termVars
  <2>3. CASE Crash \/ CancelContext
    BY <2>3 DEF Crash, CancelContext, fixed, procVars, handVars, agentVars, termVars
  <2>4. QED
    BY <1>7, <2>1, <2>2, <2>3 DEF User
<1>8. CASE UNCHANGED vars
  BY <1>8 DEF vars, fixed, procVars, handVars, agentVars, termVars
<1>9. QED
  BY <1>1, <1>2, <1>3, <1>4, <1>5, <1>6, <1>7, <1>8 DEF Next, RunInteractive

----------------------------------------------------------------------------
\* Init: nothing has begun.
LEMMA SessionInvInit == Init => SessionInv
<1>1. SUFFICES ASSUME Init PROVE SessionInv
  OBVIOUS
<1>2. Places
  BY <1>1 DEF Init, Places, Mains, Starting
<1>3. Flags
  BY <1>1 DEF Init, TermInit, Flags
<1>4. Counts
  BY <1>1, SessionAssumption, TextsAssumption DEF Init, TermInit, Counts
<1>5. AtTheTerminal
  BY <1>1, Lines DEF Init, TermInit, AtTheTerminal, Prompts
<1>6. Begun
  BY <1>1 DEF Init, Begun, Starting, Closing, Up
<1>7. ReadersApart /\ Asked /\ Supervised
  BY <1>1 DEF Init, TermInit, ReadersApart, Requesting, Asked, PromptTurn, Supervised, Prompters
<1>8. Typing
  BY <1>1 DEF Init, TermInit, Typing, PromptTurn, Up
<1>9. QED
  BY <1>2, <1>3, <1>4, <1>5, <1>6, <1>7, <1>8 DEF SessionInv, Domains

\* All of it, in every behaviour.
THEOREM SessionInvariant == Spec => []SessionInv
<1>1. SessionInv /\ [Next]_vars => SessionInv'
  BY PlacesStep, FlagsStep, CountsStep, TerminalStep, BegunStep, ReadersApartStep, AskedStep,
     SupervisedStep, TypingStep DEF SessionInv, Domains
<1>2. QED
  BY <1>1, SessionInvInit, PTL DEF Spec

\* The type invariant of Session and Terminal, with what is supervised and who
\* may be reading.
THEOREM SessionTypes == Spec => []TypeOK
<1>1. SessionInv => TypeOK
  <2>1. SUFFICES ASSUME SessionInv PROVE TypeOK
    OBVIOUS
  <2>2. TermTypeOK
    BY <2>1 DEF SessionInv, Domains, Flags, Counts, AtTheTerminal, TermTypeOK
  <2>3. Requesting("main") => main = "read"
    BY <2>1 DEF SessionInv, ReadersApart
  <2>4. QED
    BY <2>1, <2>2, <2>3 DEF SessionInv, Domains, Places, Flags, Counts, AtTheTerminal,
       ReadersApart, Requesting, Asked, Supervised, TypeOK
<1>2. QED
  BY <1>1, SessionInvariant, PTL

\* A New that fails leaves nothing running, and a session that is over nothing
\* at all.
THEOREM SessionEndsEverything == Spec => []NothingOutlivesTheSession
<1>1. SessionInv => NothingOutlivesTheSession
  BY DEF SessionInv, Begun, NothingOutlivesTheSession
<1>2. QED
  BY <1>1, SessionInvariant, PTL

\* A line is its text and the prompt it was typed for.
LEMMA ConfirmingYes ==
  ASSUME NEW line \in Line, line \notin {NoLine, Eof}, line.text = "yes", line.for = "confirm"
  PROVE  line = [text |-> "yes", for |-> "confirm"]
BY DEF Line

\* When only the turns of prompts ask the user, a command that needs a yes runs
\* only by a yes that was typed to its own question.
THEOREM CommandsNeedAYes ==
  ASSUME AskingTurns \subseteq {"prompt"}
  PROVE  Spec => []ApprovedByAYes
<1>1. Init => ApprovedByAYes
  BY DEF Init, ApprovedByAYes
<1>2. SessionInv /\ ApprovedByAYes /\ [Next]_vars => ApprovedByAYes'
  <2>1. SUFFICES ASSUME SessionInv, ApprovedByAYes, [Next]_vars PROVE ApprovedByAYes'
    OBVIOUS
  <2>2. CASE HandlerAnswers
    <3>1. CASE handler = "confirming" /\ Up /\ agent = "asking" /\ Approves(got["worker"])
      <4>1. PromptTurn
        BY <2>1, <3>1 DEF SessionInv, Asked, PromptTurn
      <4>2. got["worker"] \in Line /\ got["worker"] # NoLine
        BY <2>1, <2>2 DEF SessionInv, Domains, AtTheTerminal, Prompters, HandlerAnswers, TakeLine
      <4>3. got["worker"].text = "yes" /\ got["worker"] # Eof
        BY <3>1 DEF Approves, Eof
      <4>4. got["worker"].for = "confirm"
        BY <2>1, <3>1, <4>1, <4>2, <4>3 DEF SessionInv, Typing, AskedBy
      <4>5. QED
        BY <2>1, <2>2, <4>2, <4>3, <4>4, ConfirmingYes DEF HandlerAnswers, ApprovedByAYes
    <3>2. QED
      BY <2>1, <2>2, <3>1 DEF HandlerAnswers, ApprovedByAYes
  <2>3. CASE ~HandlerAnswers
    <3>1. ran' = ran
      BY <2>1, <2>3 DEF Next, RunInteractive, New, Configure, StartProcess, Handshake, Dial,
         Initialize, Interact, AskForPrompt, ReadPrompt, GiveUpPrompt, SendPrompt, EndTurn,
         Close, StopTriggers, RequestSessionEnd, AwaitSessionEnd, CloseTransport, AwaitLoop,
         Handler, HandlerPrompts, Reader, LoseConnection, FireTrigger, EndTrigger, Harness,
         CallCommand, AskQuestion, Ask, FinishTurn, AnswerSessionEnd, Crash, CancelContext,
         User, vars, agentVars
    <3>2. QED
      BY <2>1, <3>1 DEF ApprovedByAYes
  <2>4. QED
    BY <2>2, <2>3
<1>3. QED
  BY <1>1, <1>2, SessionInvariant, PTL DEF Spec
=============================================================================
