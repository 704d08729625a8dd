------------------------------ MODULE Requests ------------------------------
(***************************************************************************)
(* What the harness asks of the client in the middle of a step, and how    *)
(* eventproc.go answers: verdicts on deferred policy rules, questions to   *)
(* the user, confirmations.  A step update that waits for the user is      *)
(* repeated as the step evolves, so the read loop keeps a tracker for each *)
(* step; every answer is made on a goroutine of its own.                   *)
(*                                                                         *)
(* The harness is a closed binary: its steps here are what the requests    *)
(* and the tests of eventproc.go show of it.                               *)
(***************************************************************************)
EXTENDS Policies

CONSTANTS
  MaxSteps,     \* steps a session has
  Sessions,     \* what sessions may have: policies, the call each of their
                \* steps makes, how often steps wait for the user
  Servers,      \* MCP servers that are registered
  QuestionSets, \* sequences of "choice" and "other" questions
  ReplySets,    \* sequences of answers an interaction hook may return
  Options,      \* how many options a multiple-choice question has
  NumHooks,     \* interaction hooks that are registered
  MaxRepeats    \* times an update that waits is repeated, in a behaviour

Kinds == {"questions", "confirmation"}
Skipped == [skipped |-> TRUE, picked |-> {}]

\* What an interaction hook returns; nothing, or an error, is a refusal.
Declined == [given |-> FALSE, answers |-> <<>>]
Replies == [given : {TRUE}, answers : ReplySets] \union {Declined}

ASSUME RequestsAssumption ==
  /\ \A q \in QuestionSets : q \in Seq({"choice", "other"})
  /\ \A r \in ReplySets : r \in Seq([skipped : BOOLEAN, picked : SUBSET Int])
  /\ Options \in Nat /\ NumHooks \in Nat
  /\ MaxRepeats \in Nat /\ MaxSteps \in Nat
  /\ \A x \in Sessions :
       /\ x.policies \in Seq(Policy) /\ x.waits \in Nat
       /\ x.call \in [DOMAIN x.call -> Targets]
       /\ DOMAIN x.call \subseteq 1..MaxSteps

VARIABLES
  policies,   \* the list the program configured
  call,       \* the tool call of each step
  rules,      \* the rules of the harness
  waits,      \* waits the steps of the session have left
  at,         \* where each step is, in the harness
  rule,       \* position of the rule the check of a step has come to
  verdict,    \* outcome of the check of a step
  episode,    \* waits of each step so far
  asked,      \* kinds of request in the present wait of each step
  pending,    \* those of them the harness has no answer for
  questions,  \* the questions of the present wait
  repeats,    \* updates repeated so far
  wire,       \* frames to the client, in order
  inbox,      \* frames from the client, in order
  trackers,   \* p.trackers
  workers,    \* goroutines that make an answer
  stray,      \* ghost: answers that came when nobody waited for them
  misasked    \* ghost: steps whose check met a rule id that is not known

session == <<policies, call, rules>>
harnessVars == <<waits, at, rule, verdict, episode, asked, pending, questions,
                 repeats>>
ghosts == <<stray, misasked>>
vars == <<session, harnessVars, wire, inbox, trackers, workers, ghosts>>

Steps == DOMAIN call
Is(s, position) == s \in Steps /\ at[s] = position

Positions == {"new", "checking", "deciding", "ready", "waiting", "refused"}

\* stepTracker.  A step no update of which has come has no state to leave.
Tracker == [waiting : BOOLEAN, handled : SUBSET Kinds]
NewTracker == [waiting |-> FALSE, handled |-> {}]

TypeOK ==
  /\ policies \in Seq(Policy)
  /\ \A i \in DOMAIN policies :
       policies[i].decision = "ask" => policies[i].asker # "none"
  /\ call \in [Steps -> Targets] /\ waits \in Nat
  /\ at \in [Steps -> Positions]
  /\ rule \in [Steps -> Nat]
  /\ verdict \in [Steps -> {"none", "allow", "deny"}]
  /\ episode \in [Steps -> Nat]
  /\ asked \in [Steps -> SUBSET Kinds]
  /\ \A s \in Steps : pending[s] \subseteq asked[s]
  /\ questions \in [Steps -> QuestionSets \union {<<>>}]
  /\ repeats \in 0..MaxRepeats
  /\ trackers \in [Steps -> Tracker]
  /\ \A i \in DOMAIN workers : workers[i].step \in Steps
  /\ stray \in Nat /\ misasked \subseteq Steps

\* The rules the harness was given, in the order it considers them.
RulesInOrder(ps) ==
  LET given == policyConfig(ps).rules
  IN [k \in DOMAIN given |-> given[Sorted(given)[k]]]

Init ==
  /\ \E x \in Sessions :
       /\ Accepted(x.policies, Servers)
       /\ policies = x.policies /\ call = x.call /\ waits = x.waits
       /\ rules = RulesInOrder(x.policies)
  /\ at = [s \in Steps |-> "new"]
  /\ rule = [s \in Steps |-> 0]
  /\ verdict = [s \in Steps |-> "none"]
  /\ episode = [s \in Steps |-> 0]
  /\ asked = [s \in Steps |-> {}] /\ pending = asked
  /\ questions = [s \in Steps |-> <<>>]
  /\ repeats = 0
  /\ wire = <<>> /\ inbox = <<>>
  /\ trackers = [s \in Steps |-> NewTracker]
  /\ workers = <<>>
  /\ stray = 0 /\ misasked = {}

Update(s) == [kind |-> "update", step |-> s, waiting |-> at'[s] = "waiting",
              asks |-> asked'[s], questions |-> questions'[s],
              episode |-> episode'[s]]
PolicyRequest(s, id) == [kind |-> "policy", step |-> s, id |-> id]

----------------------------------------------------------------------------
\* The harness: a call is checked against the rules it was given, in the
\* documented order; it applies a static rule itself and asks about another.

RulesLeft(s) == {k \in DOMAIN rules : /\ k > rule[s] /\ ~rules[k].marker
                                     /\ matchesTarget(rules[k], call[s])}

Settle(s, outcome) ==
  /\ verdict' = [verdict EXCEPT ![s] = outcome]
  /\ at' = [at EXCEPT ![s] = IF outcome = "allow" THEN "ready" ELSE "refused"]
  /\ UNCHANGED <<rule, wire>>

CheckCall(s) ==
  /\ at[s] \in {"new", "checking"}
  /\ \/ RulesLeft(s) = {} /\ Settle(s, "allow")
     \/ \E k \in RulesLeft(s) :
          /\ \A l \in RulesLeft(s) : k <= l
          /\ IF rules[k].id = 0
             THEN Settle(s, IF rules[k].decision = "approve" THEN "allow" ELSE "deny")
             ELSE /\ rule' = [rule EXCEPT ![s] = k]
                  /\ at' = [at EXCEPT ![s] = "deciding"]
                  /\ wire' = Append(wire, PolicyRequest(s, rules[k].id))
                  /\ UNCHANGED verdict
  /\ UNCHANGED <<session, waits, episode, asked, pending, questions, repeats,
                 inbox, trackers, workers, ghosts>>

\* The harness asks about a rule the client never gave it.
AskUnknownRule(s) ==
  /\ at[s] = "new"
  /\ at' = [at EXCEPT ![s] = "deciding"]
  /\ wire' = Append(wire, PolicyRequest(s, Len(policies) + 1))
  /\ misasked' = misasked \union {s}
  /\ UNCHANGED <<session, waits, rule, verdict, episode, asked, pending,
                 questions, repeats, inbox, trackers, workers, stray>>

\* A step that goes on may stop and wait for its user, with questions, for a
\* confirmation, or for both.
WaitForUser(s) ==
  /\ at[s] = "ready" /\ waits > 0
  /\ waits' = waits - 1
  /\ at' = [at EXCEPT ![s] = "waiting"]
  /\ episode' = [episode EXCEPT ![s] = @ + 1]
  /\ \E kinds \in (SUBSET Kinds) \ {{}} :
       /\ asked' = [asked EXCEPT ![s] = kinds]
       /\ pending' = [pending EXCEPT ![s] = kinds]
       /\ \E q \in (IF "questions" \in kinds THEN QuestionSets ELSE {<<>>}) :
            questions' = [questions EXCEPT ![s] = q]
  /\ wire' = Append(wire, Update(s))
  /\ UNCHANGED <<session, rule, verdict, repeats, inbox, trackers,
                 workers, ghosts>>

\* The update is sent again while the step waits, answered or not.
RepeatUpdate(s) ==
  /\ at[s] = "waiting" /\ repeats < MaxRepeats
  /\ repeats' = repeats + 1
  /\ UNCHANGED <<at, asked, questions, episode>>
  /\ wire' = Append(wire, Update(s))
  /\ UNCHANGED <<session, waits, rule, verdict, pending, inbox, trackers,
                 workers, ghosts>>

\* Every request answered, the step goes on, and says so.
Resume(s) ==
  /\ at[s] = "waiting" /\ pending[s] = {}
  /\ at' = [at EXCEPT ![s] = "ready"]
  /\ asked' = [asked EXCEPT ![s] = {}]
  /\ questions' = [questions EXCEPT ![s] = <<>>]
  /\ UNCHANGED episode
  /\ wire' = Append(wire, Update(s))
  /\ UNCHANGED <<session, waits, rule, verdict, pending, repeats, inbox,
                 trackers, workers, ghosts>>

Outstanding(m) ==
  IF m.kind = "policy" THEN at[m.step] = "deciding"
  ELSE /\ at[m.step] = "waiting" /\ m.kind \in pending[m.step]
       /\ m.episode = episode[m.step]

\* An answer names the step (or the request), not the wait it is for.
TakeAnswer ==
  /\ inbox # <<>> /\ inbox' = Tail(inbox)
  /\ LET m == Head(inbox)
         s == m.step
     IN /\ stray' = IF Outstanding(m) THEN stray ELSE stray + 1
        /\ IF m.kind # "policy"
           THEN /\ pending' = [pending EXCEPT ![s] = @ \ {m.kind}]
                /\ UNCHANGED <<at, verdict>>
           ELSE /\ at' = [at EXCEPT ![s] =
                            CASE m.outcome = "allow" -> "ready"
                              [] m.outcome = "deny"  -> "refused"
                              [] OTHER               -> "checking"]
                /\ verdict' = [verdict EXCEPT ![s] =
                                 IF m.outcome = "noMatch" THEN @ ELSE m.outcome]
                /\ UNCHANGED pending
  /\ UNCHANGED <<session, waits, rule, episode, asked, questions, repeats,
                 wire, trackers, workers, misasked>>

HarnessAsks(s) ==
  \/ CheckCall(s) \/ AskUnknownRule(s) \/ WaitForUser(s) \/ RepeatUpdate(s)

----------------------------------------------------------------------------
\* The read loop.

\* stepTracker.setState: a wait that is over is forgotten.
setState_Keeps(t, waiting) == [t EXCEPT !.waiting = waiting]
setState_Forgets(t, waiting) == [waiting |-> waiting, handled |-> {}]
setState(t, waiting) ==
  [waiting |-> waiting,
   handled |-> IF t.waiting /\ ~waiting THEN {} ELSE t.handled]

\* claim, for each kind of request in the update.
Claims(t, f) == IF f.waiting THEN f.asks \ t.handled ELSE {}

Recv(kind) ==
  /\ wire # <<>> /\ Head(wire).kind = kind /\ wire' = Tail(wire)
  /\ UNCHANGED <<session, harnessVars, inbox, ghosts>>

\* handleStepUpdate.  Emitting the step can hold the loop up, between setting
\* the state and claiming; nobody else looks at a tracker.
HandleStepUpdate ==
  /\ Recv("update")
  /\ LET f == Head(wire)
         t == setState(trackers[f.step], f.waiting)
         claimed == Claims(t, f)
         Worker(k) == [kind |-> k, step |-> f.step, episode |-> f.episode,
                       questions |-> f.questions]
     IN /\ trackers' = [trackers EXCEPT ![f.step] =
                          [t EXCEPT !.handled = @ \union claimed]]
        /\ workers' = workers \o SetToSeq({Worker(k) : k \in claimed})

StartPolicyDecision ==
  /\ Recv("policy")
  /\ workers' = Append(workers, Head(wire))
  /\ UNCHANGED trackers

----------------------------------------------------------------------------
\* The goroutines.  A handler of the user's may take any time to return.

\* dispatchInteraction: the first hook that answers.
FirstReply(replies) ==
  LET given == {i \in DOMAIN replies : replies[i].given}
  IN IF given = {} THEN <<>> ELSE replies[Min(given)].answers

\* questionAnswerProto: options that the question does not have are dropped.
questionAnswer(a) ==
  IF a.skipped THEN Skipped
  ELSE [a EXCEPT !.picked = @ \intersect 0..(Options - 1)]

\* answerQuestions: replies are to the multiple-choice questions, in order, whose
\* places are collected one after the other.
Answers_ByPosition(raw, reply) ==
  [i \in DOMAIN raw |->
     IF raw[i] = "choice" /\ i <= Len(reply) THEN questionAnswer(reply[i])
     ELSE Skipped]

AskedUpTo(raw) ==
  LET upTo[i \in 0..Len(raw)] ==
        IF i = 0 THEN <<>>
        ELSE IF raw[i] = "choice" THEN Append(upTo[i - 1], i) ELSE upTo[i - 1]
  IN upTo

Answers(raw, reply) ==
  LET askedAt == AskedUpTo(raw)[Len(raw)]
  IN [i \in DOMAIN raw |->
        IF \E n \in DOMAIN askedAt : askedAt[n] = i /\ n <= Len(reply)
        THEN questionAnswer(reply[CHOOSE n \in DOMAIN askedAt : askedAt[n] = i])
        ELSE Skipped]

Send(w, m) ==
  /\ inbox' = Append(inbox, m)
  /\ workers' = RemoveAt(workers, w)
  /\ UNCHANGED <<session, harnessVars, wire, trackers, ghosts>>

\* With no question it can represent, or no hook, nobody is asked.
answerQuestions(w) ==
  /\ workers[w].kind = "questions"
  /\ LET raw == workers[w].questions IN
     \E replies \in (IF "choice" \in ToSet(raw) THEN [1..NumHooks -> Replies]
                     ELSE {<<>>}) :
       LET reply == FirstReply(replies) IN
       Send(w, [kind |-> "questions", step |-> workers[w].step,
                episode |-> workers[w].episode, questions |-> raw,
                reply |-> reply, answers |-> Answers(raw, reply)])

sendToolConfirmation(w) ==
  /\ workers[w].kind = "confirmation"
  /\ Send(w, [kind |-> "confirmation", step |-> workers[w].step,
              episode |-> workers[w].episode])

handlePolicyDecision(w) ==
  /\ workers[w].kind = "policy"
  /\ Send(w, [kind |-> "policy", step |-> workers[w].step,
              outcome |-> PolicyDecision(policies, workers[w].id)])

Answer ==
  \E w \in DOMAIN workers :
    answerQuestions(w) \/ sendToolConfirmation(w) \/ handlePolicyDecision(w)

----------------------------------------------------------------------------
Next ==
  \/ \E s \in Steps : HarnessAsks(s) \/ Resume(s)
  \/ TakeAnswer \/ HandleStepUpdate \/ StartPolicyDecision \/ Answer

\* The loop and the goroutines run; the harness checks a call it has begun to
\* check, reads its answers and lets a step whose requests are answered go on.
Fairness ==
  /\ WF_vars(HandleStepUpdate) /\ WF_vars(StartPolicyDecision)
  /\ WF_vars(Answer) /\ WF_vars(TakeAnswer)
  /\ \A s \in 1..MaxSteps : WF_vars(s \in Steps /\ CheckCall(s))
                            /\ WF_vars(s \in Steps /\ Resume(s))

Spec == Init /\ [][Next]_vars /\ Fairness

----------------------------------------------------------------------------
\* An answer is sent only for a request the harness waits on: one answer for
\* each, and none of an earlier wait given to a later one, however often the
\* update that asks is repeated and whenever the answers are ready.
NoStrayAnswer == stray = 0

\* A step that needs its client is never left waiting: verdicts, questions and
\* confirmations are answered whatever the handlers of the user say.
EveryRequestAnswered ==
  \A s \in 1..MaxSteps :
    /\ Is(s, "deciding") ~> ~Is(s, "deciding")
    /\ Is(s, "waiting") ~> Is(s, "ready")

\* Rules the harness applies and rules it asks about come to the same verdict
\* as Enforcer.Evaluate, and a rule id that is not known never to an approval.
VerdictIsEvaluates ==
  \A s \in Steps :
    /\ s \notin misasked /\ verdict[s] # "none" =>
         verdict[s] = Evaluate(policies, call[s])
    /\ s \in misasked => verdict[s] # "allow"

\* Whatever the list, Evaluate answers what the doc of Policy says of it (module
\* Policies, Documented), for every call of the session.
EvaluateAsDocumented ==
  \A s \in Steps : Evaluate(policies, call[s]) = Documented(policies, call[s])

\* The answers sent for a batch of questions are one for each question, each
\* multiple-choice question gets the reply given to it and no other, and no
\* option that was not offered is ever selected.
AnswersLineUp ==
  \A i \in DOMAIN inbox :
    inbox[i].kind = "questions" =>
      LET m == inbox[i] IN
      /\ Len(m.answers) = Len(m.questions)
      /\ \A j \in DOMAIN m.answers :
           LET n == Cardinality({l \in 1..j : m.questions[l] = "choice"})
               a == m.answers[j]
           IN /\ a.picked \subseteq 0..(Options - 1)
              /\ IF m.questions[j] = "other" \/ n > Len(m.reply) THEN a = Skipped
                 ELSE /\ a.skipped = m.reply[n].skipped
                      /\ ~a.skipped => \A o \in 0..(Options - 1) :
                                         o \in a.picked <=> o \in m.reply[n].picked
=============================================================================
