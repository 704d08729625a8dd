--------------------------- MODULE Requests_proofs ---------------------------
(***************************************************************************)
(* For any policies, calls, questions and numbers of steps: every answer   *)
(* is sent to a request that waits for it, the verdict on a call is the    *)
(* one of Enforcer.Evaluate, whoever applies which rule, and the answers   *)
(* to questions are at their places.                                       *)
(***************************************************************************)
EXTENDS Requests, Policies_proofs

----------------------------------------------------------------------------
\* The types of frames, of goroutines and of answers.

IsSeq(q) == \E S : q \in Seq(S)

IsFrame(f) ==
  /\ f.step \in Steps /\ f.kind \in {"update", "policy"}
  /\ f.kind = "update" => /\ f.waiting \in BOOLEAN /\ f.asks \in SUBSET Kinds
                          /\ f.episode \in Nat
                          /\ f.questions \in QuestionSets \union {<<>>}
  /\ f.kind = "policy" => f.id \in Nat

IsRequest(m) ==
  /\ m.step \in Steps /\ m.kind \in Kinds \union {"policy"}
  /\ m.kind \in Kinds => m.episode \in Nat
  /\ m.kind = "policy" => m.id \in Nat

IsAnswer(m) ==
  /\ m.step \in Steps /\ m.kind \in Kinds \union {"policy"}
  /\ m.kind = "policy" => m.outcome \in {"allow", "deny", "noMatch"}

TypesInv ==
  /\ TypeOK
  /\ pending \in [Steps -> SUBSET Kinds]
  /\ misasked \subseteq Steps
  /\ IsSeq(wire) /\ \A i \in DOMAIN wire : IsFrame(wire[i])
  /\ IsSeq(workers) /\ \A i \in DOMAIN workers : IsRequest(workers[i])
  /\ IsSeq(inbox) /\ \A i \in DOMAIN inbox : IsAnswer(inbox[i])

----------------------------------------------------------------------------
\* A request is in one place only: a frame, a goroutine or an answer.

Same(a, b) == a.kind = b.kind /\ a.step = b.step
Alone(q) ==
  \A i, j \in DOMAIN q : i # j /\ q[i].kind # "update" => ~Same(q[i], q[j])
Apart(q, r) ==
  \A i \in DOMAIN q, j \in DOMAIN r : q[i].kind # "update" => ~Same(q[i], r[j])

RequestsAreAlone ==
  /\ Alone(wire) /\ Alone(workers) /\ Alone(inbox)
  /\ Apart(wire, workers) /\ Apart(wire, inbox) /\ Apart(workers, inbox)

\* And the harness waits for it.
RequestsAreOutstanding ==
  /\ \A i \in DOMAIN wire : wire[i].kind = "policy" => at[wire[i].step] = "deciding"
  /\ \A i \in DOMAIN workers : Outstanding(workers[i])
  /\ \A i \in DOMAIN inbox : Outstanding(inbox[i])

----------------------------------------------------------------------------
\* Updates on their way, and what the tracker of their step makes of them.

Updates(s) == {i \in DOMAIN wire : wire[i].kind = "update" /\ wire[i].step = s}
Ends(s) == {i \in Updates(s) : ~wire[i].waiting}

\* Frame i is about the present wait of its step.
Current(s, i) ==
  /\ at[s] = "waiting" /\ wire[i].waiting
  /\ wire[i].episode = episode[s] /\ wire[i].asks = asked[s]

\* The tracker is about the present wait.
Reached(s) == trackers[s].waiting /\ Ends(s) = {}

\* The end of a wait separates its updates, which have nothing new to ask,
\* from those of the next one.
EndsSeparate(s) ==
  \A i \in Ends(s) :
    /\ trackers[s].waiting
    /\ \A j \in Updates(s) : j > i => Current(s, j)
    /\ \A j \in Updates(s) : j < i => wire[j].waiting /\ wire[j].asks \subseteq trackers[s].handled

NoEndAllCurrent(s) == Ends(s) = {} => \A i \in Updates(s) : Current(s, i)

TrackerKnows(s) ==
  /\ ~trackers[s].waiting => trackers[s].handled = {}
  /\ at[s] # "waiting" => ~Reached(s)
  /\ at[s] = "waiting" => asked[s] # {}
  /\ at[s] = "waiting" /\ Reached(s) => trackers[s].handled = asked[s]
  /\ at[s] = "waiting" /\ ~Reached(s) => pending[s] = asked[s]

NothingInHand(s) ==
  at[s] = "waiting" /\ ~Reached(s) =>
    /\ \A i \in DOMAIN workers : workers[i].step # s
    /\ \A i \in DOMAIN inbox : inbox[i].step # s

StepInv(s) == EndsSeparate(s) /\ NoEndAllCurrent(s) /\ TrackerKnows(s) /\ NothingInHand(s)

WaitsInv == \A s \in Steps : StepInv(s)

AnswersInv == RequestsAreAlone /\ RequestsAreOutstanding /\ WaitsInv

----------------------------------------------------------------------------
\* The check of a call.

Order == Sorted(policies)
Passed(s, k) == Considered(policies[Order[k]], call[s]) = "continue"

\* The rule a request of step s is about.
IdOf(s) == IF s \in misasked THEN Len(policies) + 1 ELSE rules[rule[s]].id

ChecksGoOn(s) ==
  /\ rule[s] \in 0..Len(policies)
  /\ s \in misasked => at[s] \in {"deciding", "refused"} /\ verdict[s] \in {"none", "deny"}
  /\ at[s] = "new" => rule[s] = 0
  /\ at[s] \in {"new", "checking", "deciding"} => verdict[s] = "none"
  /\ s \notin misasked /\ at[s] \in {"new", "checking"} =>
       \A k \in 1..rule[s] : Passed(s, k)
  /\ s \notin misasked /\ at[s] = "deciding" =>
       /\ rule[s] \in DOMAIN policies /\ rules[rule[s]].id # 0
       /\ \A k \in 1..(rule[s] - 1) : Passed(s, k)
       /\ ~rules[rule[s]].marker /\ matchesTarget(rules[rule[s]], call[s])

RequestsNameTheRule ==
  /\ \A i \in DOMAIN wire : wire[i].kind = "policy" => wire[i].id = IdOf(wire[i].step)
  /\ \A i \in DOMAIN workers : workers[i].kind = "policy" => workers[i].id = IdOf(workers[i].step)
  /\ \A i \in DOMAIN inbox : inbox[i].kind = "policy" =>
       inbox[i].outcome = PolicyDecision(policies, IdOf(inbox[i].step))

ChecksInv ==
  /\ \A s \in Steps : ChecksGoOn(s)
  /\ RequestsNameTheRule
  /\ VerdictIsEvaluates

----------------------------------------------------------------------------
\* Queues.

LEMMA Appended ==
  ASSUME NEW q, IsSeq(q), NEW e
  PROVE  LET r == Append(q, e)
             n == Len(q) + 1
         IN /\ IsSeq(r) /\ n \in Nat /\ DOMAIN q = 1..Len(q) /\ DOMAIN r = 1..n
            /\ DOMAIN r = DOMAIN q \union {n} /\ n \notin DOMAIN q
            /\ r[n] = e /\ \A i \in DOMAIN q : r[i] = q[i] /\ i < n /\ i \in Nat
<1>1. PICK S : q \in Seq(S)
  BY DEF IsSeq
<1>2. q \in Seq(S \union {e}) /\ e \in S \union {e}
  BY <1>1
<1>3. Append(q, e) \in Seq(S \union {e})
  BY <1>2
<1>4. DOMAIN q = 1..Len(q) /\ Len(q) \in Nat
  BY <1>1
<1>5. /\ DOMAIN Append(q, e) = 1..(Len(q) + 1) /\ Append(q, e)[Len(q) + 1] = e
      /\ \A i \in 1..Len(q) : Append(q, e)[i] = q[i]
  BY <1>2
<1>6. QED
  BY <1>3, <1>4, <1>5 DEF IsSeq

LEMMA Shortened ==
  ASSUME NEW q, IsSeq(q), q # <<>>
  PROVE  LET r == Tail(q)
         IN /\ IsSeq(r) /\ Head(q) = q[1] /\ 1 \in DOMAIN q /\ DOMAIN q = 1..Len(q)
            /\ Len(q) \in Nat /\ DOMAIN r = 1..(Len(q) - 1)
            /\ \A i \in DOMAIN r : i + 1 \in DOMAIN q /\ r[i] = q[i + 1] /\ i \in Nat /\ i > 0
            /\ \A i \in DOMAIN q : i # 1 => i - 1 \in DOMAIN r /\ r[i - 1] = q[i]
<1>1. PICK S : q \in Seq(S)
  BY DEF IsSeq
<1>2. Tail(q) \in Seq(S) /\ Len(Tail(q)) = Len(q) - 1 /\ Head(q) = q[1]
  BY <1>1
<1>3. Len(q) \in Nat /\ Len(q) > 0 /\ DOMAIN q = 1..Len(q) /\ DOMAIN Tail(q) = 1..(Len(q) - 1)
  BY <1>1, <1>2
<1>4. \A i \in 1..(Len(q) - 1) : Tail(q)[i] = q[i + 1]
  BY <1>1
<1> HIDE <1>1
<1>5. QED
  BY <1>2, <1>3, <1>4 DEF IsSeq

\* The elements of r are elements of q at different places.
Selected(r, q) ==
  \E f \in [DOMAIN r -> DOMAIN q] :
    /\ \A i, j \in DOMAIN r : i # j => f[i] # f[j]
    /\ \A i \in DOMAIN r : r[i] = q[f[i]]

LEMMA TailSelected ==
  ASSUME NEW q, IsSeq(q), q # <<>>
  PROVE  /\ Selected(Tail(q), q)
         /\ Alone(q) => \A i \in DOMAIN Tail(q) : Head(q).kind # "update" => ~Same(Tail(q)[i], Head(q))
<1> DEFINE r == Tail(q)
           f == [i \in DOMAIN r |-> i + 1]
<1>1. f \in [DOMAIN r -> DOMAIN q]
  BY Shortened
<1>2. \A i, j \in DOMAIN r : i # j => f[i] # f[j]
  BY Shortened
<1>3. \A i \in DOMAIN r : r[i] = q[f[i]]
  BY Shortened
<1>4. Selected(r, q)
  BY <1>1, <1>2, <1>3 DEF Selected
<1>5. ASSUME Alone(q), Head(q).kind # "update", NEW i \in DOMAIN r
      PROVE  ~Same(r[i], Head(q))
  <2>1. i + 1 \in DOMAIN q /\ i + 1 # 1 /\ 1 \in DOMAIN q /\ r[i] = q[i + 1] /\ Head(q) = q[1]
    BY Shortened
  <2>2. ~Same(q[1], q[i + 1])
    BY <1>5, <2>1 DEF Alone
  <2>3. QED
    BY <2>1, <2>2 DEF Same
<1>6. QED
  BY <1>4, <1>5

LEMMA RemovedIs ==
  ASSUME NEW q, IsSeq(q), NEW w \in DOMAIN q
  PROVE  /\ IsSeq(RemoveAt(q, w)) /\ Selected(RemoveAt(q, w), q)
         /\ Alone(q) => \A i \in DOMAIN RemoveAt(q, w) :
                          q[w].kind # "update" => ~Same(RemoveAt(q, w)[i], q[w])
<1>1. PICK S : q \in Seq(S)
  BY DEF IsSeq
<1> DEFINE n == Len(q)
           a == SubSeq(q, 1, w - 1)
           b == SubSeq(q, w + 1, n)
           r == RemoveAt(q, w)
           f == [i \in DOMAIN r |-> IF i < w THEN i ELSE i + 1]
<1>2. n \in Nat /\ w \in 1..n /\ DOMAIN q = 1..n
  BY <1>1
<1>3. /\ a \in Seq(S) /\ Len(a) = w - 1
      /\ \A i \in 1..(w - 1) : a[i] = q[i]
  BY <1>1, <1>2
<1>4. /\ b \in Seq(S) /\ Len(b) = n - w
      /\ \A i \in 1..(n - w) : b[i] = q[w + i]
  BY <1>1, <1>2
<1>5. r = a \o b
  BY DEF RemoveAt
<1> HIDE DEF a, b, r, n
<1>6. /\ r \in Seq(S) /\ Len(r) = n - 1
      /\ \A i \in 1..(n - 1) : r[i] = IF i <= w - 1 THEN a[i] ELSE b[i - (w - 1)]
  <2>1. /\ r \in Seq(S) /\ Len(r) = Len(a) + Len(b)
        /\ \A i \in 1..(Len(a) + Len(b)) : r[i] = IF i <= Len(a) THEN a[i] ELSE b[i - Len(a)]
    BY <1>3, <1>4, <1>5
  <2>2. Len(a) + Len(b) = n - 1
    BY <1>2, <1>3, <1>4
  <2>3. QED
    BY <1>3, <2>1, <2>2
<1>7. DOMAIN r = 1..(n - 1)
  BY <1>6
<1>8. \A i \in DOMAIN r : f[i] \in DOMAIN q /\ f[i] # w /\ r[i] = q[f[i]]
  <2>1. TAKE i \in DOMAIN r
  <2>2. CASE i < w
    BY <1>2, <1>3, <1>6, <1>7, <2>2
  <2>3. CASE i >= w
    <3>1. i - (w - 1) \in 1..(n - w) /\ w + (i - (w - 1)) = i + 1
      BY <1>2, <1>7, <2>3
    <3>2. r[i] = b[i - (w - 1)]
      BY <1>2, <1>6, <1>7, <2>3
    <3>3. QED
      BY <1>2, <1>4, <1>7, <2>3, <3>1, <3>2
  <2>4. QED
    BY <1>2, <1>7, <2>2, <2>3
<1>9. \A i, j \in DOMAIN r : i # j => f[i] # f[j]
  BY <1>2, <1>7
<1>10. f \in [DOMAIN r -> DOMAIN q]
  BY <1>8
<1> HIDE DEF f
<1>11. IsSeq(r) /\ Selected(r, q)
  BY <1>6, <1>8, <1>9, <1>10 DEF IsSeq, Selected
<1>12. Alone(q) => \A i \in DOMAIN r : q[w].kind # "update" => ~Same(r[i], q[w])
  BY <1>8 DEF Alone, Same
<1>13. QED
  BY <1>11, <1>12 DEF r

\* Who is selected was alone, and stays so.
LEMMA SelectedStayAlone ==
  ASSUME NEW q, NEW r, Selected(r, q)
  PROVE  /\ Alone(q) => Alone(r)
         /\ \A x : Apart(q, x) => Apart(r, x)
         /\ \A x : Apart(x, q) => Apart(x, r)
<1>1. PICK f \in [DOMAIN r -> DOMAIN q] :
        /\ \A i, j \in DOMAIN r : i # j => f[i] # f[j]
        /\ \A i \in DOMAIN r : r[i] = q[f[i]]
  BY DEF Selected
<1>2. \A i \in DOMAIN r : f[i] \in DOMAIN q
  OBVIOUS
<1>3. Alone(q) => Alone(r)
  BY <1>1, <1>2 DEF Alone
<1>4. \A x : Apart(q, x) => Apart(r, x)
  BY <1>1, <1>2 DEF Apart
<1>5. \A x : Apart(x, q) => Apart(x, r)
  BY <1>1, <1>2 DEF Apart
<1>6. QED
  BY <1>3, <1>4, <1>5

\* Who joins a queue has to be unlike those who are there.
Unlike(e, q) == e.kind # "update" => \A i \in DOMAIN q : ~Same(q[i], e)

LEMMA AppendedStayAlone ==
  ASSUME NEW q, IsSeq(q), NEW e
  PROVE  /\ Alone(q) /\ Unlike(e, q) => Alone(Append(q, e))
         /\ \A x : Apart(q, x) /\ Unlike(e, x) => Apart(Append(q, e), x)
         /\ \A x : Apart(x, q) /\ Unlike(e, x) => Apart(x, Append(q, e))
<1> DEFINE r == Append(q, e)
           n == Len(q) + 1
<1>1. /\ DOMAIN r = DOMAIN q \union {n} /\ n \notin DOMAIN q /\ r[n] = e
      /\ \A i \in DOMAIN q : r[i] = q[i]
  BY Appended
<1> HIDE DEF r, n
<1>2. Alone(q) /\ Unlike(e, q) => Alone(r)
  BY <1>1 DEF Alone, Unlike, Same
<1>3. \A x : Apart(q, x) /\ Unlike(e, x) => Apart(r, x)
  BY <1>1 DEF Apart, Unlike, Same
<1>4. \A x : Apart(x, q) /\ Unlike(e, x) => Apart(x, r)
  BY <1>1 DEF Apart, Unlike, Same
<1>5. QED
  BY <1>2, <1>3, <1>4 DEF r

\* A set joins a queue, each of its elements once.
LEMMA SetAppended ==
  ASSUME NEW q, IsSeq(q), NEW W, IsFiniteSet(W)
  PROVE  LET r == q \o SetToSeq(W)
         IN /\ IsSeq(r) /\ DOMAIN q \subseteq DOMAIN r
            /\ \A i \in DOMAIN q : r[i] = q[i]
            /\ \A i \in DOMAIN r \ DOMAIN q : r[i] \in W
            /\ \A i, j \in DOMAIN r \ DOMAIN q : i # j => r[i] # r[j]
            /\ W = {} => r = q
<1> DEFINE t == SetToSeq(W)
           r == q \o t
           m == Cardinality(W)
           n == Len(q)
<1>1. m \in Nat /\ \E f \in [1..m -> W] : IsInjective(f)
  <2>1. m \in Nat /\ ExistsBijection(1..m, W)
    BY FS_CardinalityType
  <2>2. QED
    BY <2>1 DEF ExistsBijection, Bijection, Injection
<1>2. t \in [1..m -> W] /\ IsInjective(t)
  BY <1>1 DEF SetToSeq
<1>3. W = {} => m = 0
  BY FS_EmptySet
<1> HIDE DEF t, m
<1>4. t \in Seq(W) /\ Len(t) = m
  BY <1>1, <1>2
<1>5. PICK S : q \in Seq(S)
  BY DEF IsSeq
<1>6. t \in Seq(S \union W) /\ q \in Seq(S \union W) /\ n \in Nat /\ DOMAIN q = 1..n
  BY <1>4, <1>5
<1>7. /\ r \in Seq(S \union W) /\ Len(r) = n + m
      /\ \A i \in 1..(n + m) : r[i] = IF i <= n THEN q[i] ELSE t[i - n]
  BY <1>4, <1>6
<1> HIDE DEF r, n
<1>8. DOMAIN r = 1..(n + m)
  BY <1>7
<1>9. \A i \in DOMAIN r \ DOMAIN q : i - n \in 1..m /\ r[i] = t[i - n] /\ i \in Nat
  BY <1>1, <1>6, <1>7, <1>8
<1>10. \A i \in DOMAIN r \ DOMAIN q : r[i] \in W
  BY <1>2, <1>9
<1>11. \A i, j \in DOMAIN r \ DOMAIN q : i # j => r[i] # r[j]
  <2>1. TAKE i, j \in DOMAIN r \ DOMAIN q
  <2>2. HAVE i # j
  <2>3. i - n # j - n
    BY <1>6, <1>9, <2>2
  <2>4. t[i - n] # t[j - n]
    BY <1>2, <1>9, <2>3 DEF IsInjective
  <2>5. QED
    BY <1>9, <2>4
<1>12. ASSUME W = {} PROVE r = q
  <2>1. Len(r) = Len(q) /\ \A i \in 1..Len(q) : r[i] = q[i]
    BY <1>3, <1>6, <1>7, <1>12 DEF n
  <2>2. QED
    BY <1>6, <1>7, <2>1
<1>13. DOMAIN q \subseteq DOMAIN r /\ \A i \in DOMAIN q : r[i] = q[i]
  BY <1>1, <1>6, <1>7, <1>8
<1>14. IsSeq(r)
  BY <1>7 DEF IsSeq
<1>15. QED
  BY <1>10, <1>11, <1>12, <1>13, <1>14 DEF r, t

----------------------------------------------------------------------------
\* Types.

LEMMA TypesInit == Init => TypesInv
<1>1. SUFFICES ASSUME Init PROVE TypesInv
  OBVIOUS
<1>2. PICK x \in Sessions : /\ Accepted(x.policies, Servers)
                            /\ policies = x.policies /\ call = x.call /\ waits = x.waits
  BY <1>1 DEF Init
<1>3. policies \in Seq(Policy) /\ call \in [Steps -> Targets] /\ waits \in Nat
  BY <1>2, RequestsAssumption DEF Steps
<1>4. \A i \in DOMAIN policies : policies[i].decision = "ask" => policies[i].asker # "none"
  BY <1>2 DEF Accepted
<1>5. wire = <<>> /\ workers = <<>> /\ inbox = <<>>
  BY <1>1 DEF Init
<1>6. IsSeq(wire) /\ IsSeq(workers) /\ IsSeq(inbox)
  BY <1>5 DEF IsSeq
<1>7. /\ at \in [Steps -> Positions] /\ rule \in [Steps -> Nat]
      /\ verdict \in [Steps -> {"none", "allow", "deny"}] /\ episode \in [Steps -> Nat]
      /\ asked \in [Steps -> SUBSET Kinds] /\ pending \in [Steps -> SUBSET Kinds]
      /\ questions \in [Steps -> QuestionSets \union {<<>>}]
  BY <1>1 DEF Init, Positions
<1>8. trackers \in [Steps -> Tracker]
  BY <1>1 DEF Init, Tracker, NewTracker
<1>9. \A s \in Steps : pending[s] \subseteq asked[s]
  BY <1>1 DEF Init
<1>10. repeats \in 0..MaxRepeats /\ stray \in Nat /\ misasked \subseteq Steps
  BY <1>1, RequestsAssumption DEF Init
<1>11. QED
  BY <1>3, <1>4, <1>5, <1>6, <1>7, <1>8, <1>9, <1>10 DEF TypesInv, TypeOK

\* What a frame, a goroutine or an answer may be does not change.
LEMMA QueuesTypes ==
  ASSUME call' = call
  PROVE  /\ (\A i \in DOMAIN wire' : IsFrame(wire'[i])) => (\A i \in DOMAIN wire : IsFrame(wire[i]))'
         /\ (\A i \in DOMAIN workers' : IsRequest(workers'[i]))
              => (\A i \in DOMAIN workers : IsRequest(workers[i]))'
         /\ (\A i \in DOMAIN inbox' : IsAnswer(inbox'[i])) => (\A i \in DOMAIN inbox : IsAnswer(inbox[i]))'
         /\ (IsSeq(wire') => IsSeq(wire)') /\ (IsSeq(workers') => IsSeq(workers)')
         /\ (IsSeq(inbox') => IsSeq(inbox)')
BY DEF IsFrame, IsRequest, IsAnswer, Steps, IsSeq

\* Frames are well-formed, and so are the updates the harness sends.
LEMMA SendingTypes ==
  ASSUME TypesInv, NEW e, wire' = Append(wire, e), call' = call,
         e.step \in Steps, e.kind \in {"update", "policy"},
         e.kind = "update" => /\ e.waiting \in BOOLEAN /\ e.asks \in SUBSET Kinds
                              /\ e.episode \in Nat
                              /\ e.questions \in QuestionSets \union {<<>>},
         e.kind = "policy" => e.id \in Nat
  PROVE  (IsSeq(wire) /\ \A i \in DOMAIN wire : IsFrame(wire[i]))'
<1>1. IsSeq(wire) /\ \A i \in DOMAIN wire : IsFrame(wire[i])
  BY DEF TypesInv
<1> DEFINE n == Len(wire) + 1
<1>2. /\ IsSeq(wire') /\ DOMAIN wire' = DOMAIN wire \union {n} /\ wire'[n] = e
      /\ \A i \in DOMAIN wire : wire'[i] = wire[i]
  BY <1>1, Appended
<1> HIDE DEF n
<1>4. IsFrame(e)
  BY DEF IsFrame
<1>5. \A i \in DOMAIN wire' : IsFrame(wire'[i])
  BY <1>1, <1>2, <1>4
<1>6. QED
  BY <1>2, <1>5, QueuesTypes

\* The harness checks a call: with Settle, or by asking.
LEMMA CheckTypes ==
  ASSUME TypesInv, NEW s \in Steps, CheckCall(s) \/ AskUnknownRule(s),
         \A k \in DOMAIN rules : k \in Nat /\ rules[k].id \in Nat
  PROVE  TypesInv'
<1> USE DEF session, ghosts
<1>1. UNCHANGED <<policies, call, waits, episode, asked, pending, questions, repeats, inbox,
                  trackers, workers, stray>> /\ Steps' = Steps
  BY DEF CheckCall, AskUnknownRule, Steps
<1>2. /\ at \in [Steps -> Positions] /\ rule \in [Steps -> Nat] /\ misasked \subseteq Steps
      /\ verdict \in [Steps -> {"none", "allow", "deny"}]
  BY DEF TypesInv, TypeOK
<1>3. at' \in [Steps -> Positions]
  <2>1. \E to \in Positions : at' = [at EXCEPT ![s] = to]
    BY DEF CheckCall, AskUnknownRule, Settle, Positions
  <2>2. QED
    BY <1>2, <2>1
<1>4. rule' \in [Steps -> Nat]
  <2>1. rule' = rule \/ \E k \in RulesLeft(s) : rule' = [rule EXCEPT ![s] = k]
    BY DEF CheckCall, AskUnknownRule, Settle
  <2>2. QED
    BY <1>2, <2>1 DEF RulesLeft
<1>5. verdict' \in [Steps -> {"none", "allow", "deny"}]
  <2>1. verdict' = verdict \/ \E o \in {"allow", "deny"} : verdict' = [verdict EXCEPT ![s] = o]
    BY DEF CheckCall, AskUnknownRule, Settle
  <2>2. QED
    BY <1>2, <2>1
<1>6. misasked' \subseteq Steps
  BY <1>2 DEF CheckCall, AskUnknownRule
<1>7. (IsSeq(wire) /\ \A i \in DOMAIN wire : IsFrame(wire[i]))'
  <2>1. wire' = wire \/ \E id \in Nat : wire' = Append(wire, PolicyRequest(s, id))
    <3>1. Len(policies) + 1 \in Nat
      BY DEF TypesInv, TypeOK
    <3>2. QED
      BY <3>1 DEF CheckCall, AskUnknownRule, Settle, RulesLeft
  <2>2. CASE wire' = wire
    BY <1>1, <2>2 DEF TypesInv, IsFrame
  <2>3. ASSUME NEW id \in Nat, wire' = Append(wire, PolicyRequest(s, id))
        PROVE  (IsSeq(wire) /\ \A i \in DOMAIN wire : IsFrame(wire[i]))'
    <3> DEFINE e == PolicyRequest(s, id)
    <3>1. e.step = s /\ e.kind = "policy" /\ e.id = id
      BY DEF PolicyRequest
    <3> HIDE DEF e
    <3>2. QED
      BY <1>1, <2>3, <3>1, SendingTypes DEF e
  <2>4. QED
    BY <2>1, <2>2, <2>3
<1>8. QED
  BY <1>1, <1>3, <1>4, <1>5, <1>6, <1>7 DEF TypesInv, TypeOK, IsRequest, IsAnswer

\* An update says of its step what the harness has of it.
LEMMA UpdateTypes ==
  ASSUME NEW s \in Steps, at' \in [Steps -> Positions], asked' \in [Steps -> SUBSET Kinds],
         episode' \in [Steps -> Nat], questions' \in [Steps -> QuestionSets \union {<<>>}]
  PROVE  /\ Update(s).step = s /\ Update(s).kind = "update"
         /\ Update(s).waiting = (at'[s] = "waiting") /\ Update(s).waiting \in BOOLEAN
         /\ Update(s).asks = asked'[s] /\ Update(s).asks \in SUBSET Kinds
         /\ Update(s).episode = episode'[s] /\ Update(s).episode \in Nat
         /\ Update(s).questions = questions'[s] /\ Update(s).questions \in QuestionSets \union {<<>>}
BY DEF Update

LEMMA WaitTypes ==
  ASSUME TypesInv, NEW s \in Steps, WaitForUser(s) \/ RepeatUpdate(s) \/ Resume(s)
  PROVE  TypesInv'
<1> USE DEF session, ghosts
<1>1. UNCHANGED <<policies, call, rule, verdict, inbox, trackers, workers, stray, misasked>>
      /\ Steps' = Steps
  BY DEF WaitForUser, RepeatUpdate, Resume, Steps
<1>2. /\ at \in [Steps -> Positions] /\ episode \in [Steps -> Nat] /\ waits \in Nat
      /\ asked \in [Steps -> SUBSET Kinds] /\ pending \in [Steps -> SUBSET Kinds]
      /\ questions \in [Steps -> QuestionSets \union {<<>>}] /\ repeats \in 0..MaxRepeats
      /\ \A t \in Steps : pending[t] \subseteq asked[t]
  BY DEF TypesInv, TypeOK
<1>3. at' \in [Steps -> Positions] /\ episode' \in [Steps -> Nat]
  <2>1. at' = at \/ \E to \in Positions : at' = [at EXCEPT ![s] = to]
    BY DEF WaitForUser, RepeatUpdate, Resume, Positions
  <2>2. episode' = episode \/ episode' = [episode EXCEPT ![s] = @ + 1]
    BY DEF WaitForUser, RepeatUpdate, Resume
  <2>3. at' \in [Steps -> Positions]
    BY <1>2, <2>1
  <2>4. QED
    BY <1>2, <2>2, <2>3
<1>4. waits' \in Nat /\ repeats' \in 0..MaxRepeats
  BY <1>2, RequestsAssumption DEF WaitForUser, RepeatUpdate, Resume
<1>5. /\ asked' \in [Steps -> SUBSET Kinds] /\ pending' \in [Steps -> SUBSET Kinds]
      /\ \A t \in Steps : pending'[t] \subseteq asked'[t]
  <2>1. CASE WaitForUser(s)
    BY <1>2, <2>1 DEF WaitForUser
  <2>2. CASE RepeatUpdate(s)
    BY <1>2, <2>2 DEF RepeatUpdate
  <2>3. CASE Resume(s)
    BY <1>2, <2>3 DEF Resume
  <2>4. QED
    BY <2>1, <2>2, <2>3
<1>6. questions' \in [Steps -> QuestionSets \union {<<>>}]
  <2>1. questions' = questions \/ \E q \in QuestionSets \union {<<>>} : questions' = [questions EXCEPT ![s] = q]
    BY DEF WaitForUser, RepeatUpdate, Resume
  <2>2. QED
    BY <1>2, <2>1
<1>7. (IsSeq(wire) /\ \A i \in DOMAIN wire : IsFrame(wire[i]))'
  <2>1. wire' = Append(wire, Update(s))
    BY DEF WaitForUser, RepeatUpdate, Resume
  <2> DEFINE e == Update(s)
  <2>2. /\ e.step = s /\ e.kind = "update" /\ e.waiting \in BOOLEAN /\ e.asks \in SUBSET Kinds
        /\ e.episode \in Nat /\ e.questions \in QuestionSets \union {<<>>}
    BY <1>3, <1>5, <1>6, UpdateTypes
  <2>3. wire' = Append(wire, e)
    BY <2>1
  <2> HIDE DEF e
  <2>4. QED
    BY <1>1, <2>2, <2>3, SendingTypes
<1>8. QED
  BY <1>1, <1>3, <1>4, <1>5, <1>6, <1>7 DEF TypesInv, TypeOK, IsRequest, IsAnswer

LEMMA TakeTypes ==
  ASSUME TypesInv, TakeAnswer
  PROVE  TypesInv'
<1> USE DEF session
<1> DEFINE m == Head(inbox)
<1>1. UNCHANGED <<policies, call, waits, rule, episode, asked, questions, repeats, wire,
                  trackers, workers, misasked>> /\ Steps' = Steps
  BY DEF TakeAnswer, Steps
<1>2. IsSeq(inbox) /\ inbox # <<>> /\ inbox' = Tail(inbox) /\ \A i \in DOMAIN inbox : IsAnswer(inbox[i])
  BY DEF TypesInv, TakeAnswer
<1>3. IsAnswer(m) /\ IsSeq(inbox') /\ \A i \in DOMAIN inbox' : IsAnswer(inbox'[i])
  BY <1>2, Shortened
<1>4. stray' \in Nat
  BY DEF TakeAnswer, TypesInv, TypeOK
<1>5. /\ at \in [Steps -> Positions] /\ verdict \in [Steps -> {"none", "allow", "deny"}]
      /\ pending \in [Steps -> SUBSET Kinds] /\ \A t \in Steps : pending[t] \subseteq asked[t]
  BY DEF TypesInv, TypeOK
<1>6. /\ pending' \in [Steps -> SUBSET Kinds] /\ \A t \in Steps : pending'[t] \subseteq asked[t]
  <2>1. pending' = pending \/ pending' = [pending EXCEPT ![m.step] = @ \ {m.kind}]
    BY DEF TakeAnswer
  <2>2. QED
    BY <1>5, <2>1
<1>7. at' \in [Steps -> Positions]
  <2>1. at' = at \/ \E to \in {"ready", "refused", "checking"} : at' = [at EXCEPT ![m.step] = to]
    BY DEF TakeAnswer
  <2>2. QED
    BY <1>5, <2>1 DEF Positions
<1>8. verdict' \in [Steps -> {"none", "allow", "deny"}]
  <2>1. \/ verdict' = verdict
        \/ /\ m.kind = "policy"
           /\ verdict' = [verdict EXCEPT ![m.step] = IF m.outcome = "noMatch" THEN @ ELSE m.outcome]
    BY DEF TakeAnswer
  <2>2. m.kind = "policy" => m.outcome \in {"allow", "deny", "noMatch"}
    BY <1>3 DEF IsAnswer
  <2> HIDE DEF m
  <2>3. QED
    BY <1>5, <2>1, <2>2
<1>9. (IsSeq(inbox) /\ \A i \in DOMAIN inbox : IsAnswer(inbox[i]))'
  BY <1>1, <1>3, QueuesTypes
<1>10. (IsSeq(wire) /\ \A i \in DOMAIN wire : IsFrame(wire[i]))'
  BY <1>1, QueuesTypes DEF TypesInv
<1>11. (IsSeq(workers) /\ \A i \in DOMAIN workers : IsRequest(workers[i]))'
  BY <1>1, QueuesTypes DEF TypesInv
<1> HIDE DEF m
<1>12. TypeOK'
  BY <1>1, <1>4, <1>6, <1>7, <1>8 DEF TypesInv, TypeOK
<1>13. QED
  BY <1>1, <1>6, <1>9, <1>10, <1>11, <1>12 DEF TypesInv, TypeOK

\* What the read loop makes of the update at the head of the wire.
Foremost == Head(wire)
FrontTracker == setState(trackers[Foremost.step], Foremost.waiting)
Claimed == Claims(FrontTracker, Foremost)

\* A goroutine for each kind of request that is claimed.
LEMMA UpdateClaims ==
  ASSUME TypesInv, HandleStepUpdate
  PROVE  /\ wire # <<>> /\ wire' = Tail(wire) /\ Foremost.kind = "update" /\ IsFrame(Foremost)
         /\ Claimed \subseteq Kinds
         /\ trackers' = [trackers EXCEPT ![Foremost.step] =
                           [waiting |-> Foremost.waiting, handled |-> FrontTracker.handled \union Claimed]]
         /\ IsSeq(workers') /\ DOMAIN workers \subseteq DOMAIN workers'
         /\ \A i \in DOMAIN workers : workers'[i] = workers[i]
         /\ \A i \in DOMAIN workers' \ DOMAIN workers :
              /\ workers'[i].kind \in Claimed /\ workers'[i].step = Foremost.step
              /\ workers'[i].episode = Foremost.episode
              /\ workers'[i].questions = Foremost.questions
         /\ \A i, j \in DOMAIN workers' \ DOMAIN workers : i # j => workers'[i].kind # workers'[j].kind
         /\ Claimed = {} => workers' = workers
<1> DEFINE Worker(k) == [kind |-> k, step |-> Foremost.step, episode |-> Foremost.episode,
                         questions |-> Foremost.questions]
           W == {Worker(k) : k \in Claimed}
<1>1. /\ wire # <<>> /\ wire' = Tail(wire) /\ Foremost.kind = "update"
      /\ workers' = workers \o SetToSeq(W)
      /\ trackers' = [trackers EXCEPT ![Foremost.step] = [FrontTracker EXCEPT !.handled = @ \union Claimed]]
  BY DEF HandleStepUpdate, Recv, Foremost, FrontTracker, Claimed
<1>2. [FrontTracker EXCEPT !.handled = @ \union Claimed]
        = [waiting |-> Foremost.waiting, handled |-> FrontTracker.handled \union Claimed]
  BY DEF FrontTracker, setState
<1>3. IsFrame(Foremost)
  BY <1>1, Shortened DEF TypesInv, Foremost
<1>4. Claimed \subseteq Kinds
  BY <1>1, <1>3 DEF Claimed, Claims, IsFrame
<1>5. IsFiniteSet(W)
  <2>1. W \subseteq {Worker("questions")} \union {Worker("confirmation")}
    BY <1>4 DEF Kinds
  <2>2. IsFiniteSet({Worker("questions")}) /\ IsFiniteSet({Worker("confirmation")})
    BY FS_Singleton
  <2>3. IsFiniteSet({Worker("questions")} \union {Worker("confirmation")})
    BY <2>2, FS_Union
  <2>4. QED
    BY <2>1, <2>3, FS_Subset
<1>6. \A x \in W : /\ x.kind \in Claimed /\ x.step = Foremost.step
                   /\ x.episode = Foremost.episode /\ x.questions = Foremost.questions
  OBVIOUS
<1>7. \A x, y \in W : x.kind = y.kind => x = y
  OBVIOUS
<1>8. Claimed = {} => W = {}
  OBVIOUS
<1> HIDE DEF W, Worker
<1>9. IsSeq(workers)
  BY DEF TypesInv
<1>10. LET r == workers \o SetToSeq(W)
       IN /\ IsSeq(r) /\ DOMAIN workers \subseteq DOMAIN r
          /\ \A i \in DOMAIN workers : r[i] = workers[i]
          /\ \A i \in DOMAIN r \ DOMAIN workers : r[i] \in W
          /\ \A i, j \in DOMAIN r \ DOMAIN workers : i # j => r[i] # r[j]
          /\ W = {} => r = workers
  BY <1>5, <1>9, SetAppended
<1>11. QED
  BY <1>1, <1>2, <1>3, <1>4, <1>6, <1>7, <1>8, <1>10

LEMMA LoopTypes ==
  ASSUME TypesInv, HandleStepUpdate \/ StartPolicyDecision
  PROVE  TypesInv'
<1> USE DEF session, harnessVars, ghosts
<1>1. /\ UNCHANGED <<policies, call, waits, rule, episode, asked, questions, repeats, inbox,
                     at, verdict, pending, stray, misasked>> /\ Steps' = Steps
      /\ wire # <<>> /\ wire' = Tail(wire)
  BY DEF HandleStepUpdate, StartPolicyDecision, Recv, Steps
<1>2. IsSeq(wire') /\ IsFrame(Foremost) /\ \A i \in DOMAIN wire' : IsFrame(wire'[i])
  BY <1>1, Shortened DEF TypesInv, Foremost
<1>3. trackers \in [Steps -> Tracker]
  BY DEF TypesInv, TypeOK
<1>4. /\ trackers' \in [Steps -> Tracker]
      /\ IsSeq(workers') /\ \A i \in DOMAIN workers' : IsRequest(workers'[i])
  <2>1. CASE HandleStepUpdate
    <3>1. trackers' \in [Steps -> Tracker]
      <4>1. FrontTracker.handled \subseteq Kinds
        <5>1. trackers[Foremost.step] \in Tracker
          BY <1>2, <1>3 DEF IsFrame
        <5>2. QED
          BY <5>1 DEF FrontTracker, setState, Tracker
      <4>2. Foremost.waiting \in BOOLEAN
        BY <1>2, <2>1, UpdateClaims DEF IsFrame
      <4> DEFINE n == [waiting |-> Foremost.waiting, handled |-> FrontTracker.handled \union Claimed]
      <4>3. n \in Tracker
        BY <2>1, <4>1, <4>2, UpdateClaims DEF Tracker
      <4>4. trackers' = [trackers EXCEPT ![Foremost.step] = n]
        BY <2>1, UpdateClaims
      <4> HIDE DEF n
      <4>5. QED
        BY <1>3, <4>3, <4>4
    <3>2. \A i \in DOMAIN workers' : IsRequest(workers'[i])
      <4>1. TAKE i \in DOMAIN workers'
      <4>2. CASE i \in DOMAIN workers
        BY <2>1, <4>2, UpdateClaims DEF TypesInv
      <4>3. CASE i \notin DOMAIN workers
        <5>1. /\ workers'[i].kind \in Kinds /\ workers'[i].step = Foremost.step
              /\ workers'[i].episode = Foremost.episode /\ Foremost.kind = "update"
          BY <2>1, <4>3, UpdateClaims
        <5>2. QED
          BY <1>2, <5>1 DEF IsFrame, IsRequest, Kinds
      <4>4. QED
        BY <4>2, <4>3
    <3>3. QED
      BY <2>1, <3>1, <3>2, UpdateClaims
  <2>2. CASE StartPolicyDecision
    <3>1. workers' = Append(workers, Foremost) /\ Foremost.kind = "policy" /\ trackers' = trackers
      BY <2>2 DEF StartPolicyDecision, Recv, Foremost
    <3>2. IsRequest(Foremost)
      BY <1>2, <3>1 DEF IsFrame, IsRequest, Kinds
    <3>3. IsSeq(workers) /\ \A i \in DOMAIN workers : IsRequest(workers[i])
      BY DEF TypesInv
    <3>4. QED
      BY <1>3, <3>1, <3>2, <3>3, Appended
  <2>3. QED
    BY <2>1, <2>2
<1>5. TypeOK'
  <2>1. \A i \in DOMAIN workers' : workers'[i].step \in Steps
    BY <1>4 DEF IsRequest
  <2>2. QED
    BY <1>1, <1>4, <2>1 DEF TypesInv, TypeOK
<1>6. /\ (IsSeq(wire) /\ \A i \in DOMAIN wire : IsFrame(wire[i]))'
      /\ (IsSeq(workers) /\ \A i \in DOMAIN workers : IsRequest(workers[i]))'
      /\ (IsSeq(inbox) /\ \A i \in DOMAIN inbox : IsAnswer(inbox[i]))'
  BY <1>1, <1>2, <1>4, QueuesTypes DEF TypesInv
<1>7. QED
  BY <1>1, <1>5, <1>6 DEF TypesInv, TypeOK

\* A goroutine turns a request into the answer to it.
Answers_(w, m) ==
  /\ m.kind = workers[w].kind /\ m.step = workers[w].step
  /\ m.kind \in Kinds => m.episode = workers[w].episode
  /\ m.kind = "policy" => m.outcome = PolicyDecision(policies, workers[w].id)

LEMMA AnswerSends ==
  ASSUME TypesInv, Answer
  PROVE  \E w \in DOMAIN workers : \E m : Answers_(w, m) /\ Send(w, m)
<1>1. PICK w \in DOMAIN workers :
        answerQuestions(w) \/ sendToolConfirmation(w) \/ handlePolicyDecision(w)
  BY DEF Answer
<1>2. CASE answerQuestions(w)
  BY <1>2 DEF answerQuestions, Answers_
<1>3. CASE sendToolConfirmation(w)
  BY <1>3 DEF sendToolConfirmation, Answers_
<1>4. CASE handlePolicyDecision(w)
  BY <1>4 DEF handlePolicyDecision, Answers_, Kinds
<1>5. QED
  BY <1>1, <1>2, <1>3, <1>4

LEMMA AnswerTypes ==
  ASSUME TypesInv, Answer,
         \A id \in Nat : PolicyDecision(policies, id) \in {"allow", "deny", "noMatch"}
  PROVE  TypesInv'
<1> USE DEF session, harnessVars, ghosts
<1>0. PICK w \in DOMAIN workers : \E m : Answers_(w, m) /\ Send(w, m)
  BY AnswerSends
<1>1. PICK m : Answers_(w, m) /\ Send(w, m)
  BY <1>0
<1>2. /\ UNCHANGED <<policies, call, waits, rule, episode, asked, questions, repeats, wire,
                     at, verdict, pending, stray, misasked, trackers>> /\ Steps' = Steps
      /\ inbox' = Append(inbox, m) /\ workers' = RemoveAt(workers, w)
  BY <1>1 DEF Send, Steps
<1>3. /\ IsSeq(workers) /\ \A i \in DOMAIN workers : IsRequest(workers[i])
      /\ IsSeq(inbox) /\ \A i \in DOMAIN inbox : IsAnswer(inbox[i])
  BY DEF TypesInv
<1>4. IsAnswer(m)
  BY <1>1, <1>3 DEF Answers_, IsAnswer, IsRequest
<1>5. IsSeq(inbox') /\ \A i \in DOMAIN inbox' : IsAnswer(inbox'[i])
  BY <1>2, <1>3, <1>4, Appended
<1>6. IsSeq(workers') /\ \A i \in DOMAIN workers' : IsRequest(workers'[i])
  BY <1>2, <1>3, RemovedIs DEF Selected
<1>7. TypeOK'
  <2>1. \A i \in DOMAIN workers' : workers'[i].step \in Steps
    BY <1>6 DEF IsRequest
  <2>2. QED
    BY <1>2, <2>1 DEF TypesInv, TypeOK
<1>8. /\ (IsSeq(wire) /\ \A i \in DOMAIN wire : IsFrame(wire[i]))'
      /\ (IsSeq(workers) /\ \A i \in DOMAIN workers : IsRequest(workers[i]))'
      /\ (IsSeq(inbox) /\ \A i \in DOMAIN inbox : IsAnswer(inbox[i]))'
  BY <1>2, <1>5, <1>6, QueuesTypes DEF TypesInv
<1>9. QED
  BY <1>2, <1>7, <1>8 DEF TypesInv, TypeOK

\* The rules of the harness are the policies, in the order of evaluation.
RulesInv == policies \in Seq(Policy) /\ rules = RulesInOrder(policies)

LEMMA RulesAreInOrder ==
  ASSUME RulesInv
  PROVE  /\ DOMAIN rules = 1..Len(policies) /\ DOMAIN policies = 1..Len(policies)
         /\ Len(policies) \in Nat
         /\ \A k \in DOMAIN rules :
              LET i == Order[k]
              IN /\ k \in Nat /\ i \in DOMAIN policies /\ i \in Nat /\ i > 0
                 /\ rules[k].server = policies[i].server /\ rules[k].tool = policies[i].tool
                 /\ rules[k].decision = policies[i].decision
                 /\ rules[k].marker = policies[i].marker
                 /\ rules[k].id = IF isDynamic(policies[i]) THEN i ELSE 0
                 /\ rules[k].id \in Nat
<1> DEFINE given == policyConfig(policies).rules
<1>1. policies \in Seq(Policy) /\ rules = [k \in DOMAIN given |-> given[Sorted(given)[k]]]
  BY DEF RulesInv, RulesInOrder
<1>2. /\ DOMAIN given = DOMAIN policies /\ Sorted(given) = Order
      /\ \A i \in DOMAIN policies :
           given[i] = [server |-> policies[i].server, tool |-> policies[i].tool,
                       decision |-> policies[i].decision, marker |-> policies[i].marker,
                       id |-> IF isDynamic(policies[i]) THEN i ELSE 0]
  BY <1>1, RulesAre DEF Order
<1> HIDE DEF given
<1>3. DOMAIN policies = 1..Len(policies) /\ Len(policies) \in Nat
  BY <1>1, PlacesAre
<1>4. Order \in [DOMAIN policies -> DOMAIN policies]
  BY <1>1, SortedIsTheOrder DEF Order
<1>5. \A k \in DOMAIN rules : /\ k \in DOMAIN policies /\ k \in Nat
                              /\ Order[k] \in DOMAIN policies /\ rules[k] = given[Order[k]]
                              /\ Order[k] \in Nat /\ Order[k] > 0
  BY <1>1, <1>2, <1>3, <1>4
<1>6. QED
  BY <1>1, <1>2, <1>3, <1>5

LEMMA TypesStep ==
  ASSUME TypesInv, RulesInv, [Next]_vars
  PROVE  TypesInv' /\ RulesInv'
<1>1. \A k \in DOMAIN rules : k \in Nat /\ rules[k].id \in Nat
  BY RulesAreInOrder
<1>2. \A id \in Nat : PolicyDecision(policies, id) \in {"allow", "deny", "noMatch"}
  BY DecisionsAre DEF RulesInv
<1>3. RulesInv'
  <2>1. UNCHANGED session
    BY DEF Next, HarnessAsks, CheckCall, AskUnknownRule, WaitForUser, RepeatUpdate, Resume,
           TakeAnswer, HandleStepUpdate, StartPolicyDecision, Recv, Answer, answerQuestions,
           sendToolConfirmation, handlePolicyDecision, Send, vars
  <2>2. QED
    BY <2>1 DEF session, RulesInv
<1>4. ASSUME NEW s \in Steps, HarnessAsks(s) \/ Resume(s) PROVE TypesInv'
  BY <1>1, <1>4, CheckTypes, WaitTypes DEF HarnessAsks
<1>5. CASE TakeAnswer
  BY <1>3, <1>5, TakeTypes
<1>6. CASE HandleStepUpdate \/ StartPolicyDecision
  BY <1>3, <1>6, LoopTypes
<1>7. CASE Answer
  BY <1>2, <1>3, <1>7, AnswerTypes
<1>8. CASE UNCHANGED vars
  <2>1. (\A i \in DOMAIN wire : IsFrame(wire[i]))' /\ (\A i \in DOMAIN workers : IsRequest(workers[i]))'
        /\ (\A i \in DOMAIN inbox : IsAnswer(inbox[i]))'
    BY <1>8, QueuesTypes DEF vars, session, TypesInv
  <2>2. QED
    BY <1>3, <1>8, <2>1 DEF TypesInv, TypeOK, vars, session, harnessVars, ghosts, Steps
<1>9. QED
  BY <1>3, <1>4, <1>5, <1>6, <1>7, <1>8 DEF Next

LEMMA TypesHold == Spec => [](TypesInv /\ RulesInv)
<1>1. Init => TypesInv /\ RulesInv
  <2>1. Init => RulesInv
    BY RequestsAssumption DEF Init, RulesInv
  <2>2. QED
    BY <2>1, TypesInit
<1>2. TypesInv /\ RulesInv /\ [Next]_vars => (TypesInv /\ RulesInv)'
  BY TypesStep
<1>3. QED
  BY <1>1, <1>2, PTL DEF Spec

\* The state of the harness, of the read loop and of the goroutines is always
\* well-formed, whatever the policies, the calls and the questions.
THEOREM RequestsTypes == Spec => []TypeOK
<1>1. TypesInv => TypeOK
  BY DEF TypesInv
<1>2. QED
  BY <1>1, TypesHold, PTL

\* Enforcer.Evaluate answers what the doc of Policy says of the list, for every
\* list, and every call a step may make.
THEOREM EvaluationIsDocumented == Spec => []EvaluateAsDocumented
<1>1. TypesInv => EvaluateAsDocumented
  BY EvaluateIsDocumented DEF TypesInv, TypeOK, EvaluateAsDocumented
<1>2. QED
  BY <1>1, TypesHold, PTL

----------------------------------------------------------------------------
\* Updates on their way, as frames join and leave the wire.

LEMMA UpdatesAppended ==
  ASSUME TypesInv, NEW e, wire' = Append(wire, e), NEW t
  PROVE  LET n == Len(wire) + 1
         IN /\ Updates(t)' = Updates(t) \union (IF e.kind = "update" /\ e.step = t THEN {n} ELSE {})
            /\ n \in Nat /\ n \notin Updates(t) /\ wire'[n] = e
            /\ \A i \in Updates(t) : i \in Nat /\ i < n /\ wire'[i] = wire[i]
<1> DEFINE n == Len(wire) + 1
<1>1. /\ n \in Nat /\ DOMAIN wire' = DOMAIN wire \union {n} /\ n \notin DOMAIN wire /\ wire'[n] = e
      /\ \A i \in DOMAIN wire : wire'[i] = wire[i] /\ i < n /\ i \in Nat
  BY Appended DEF TypesInv
<1> HIDE DEF n
<1>2. Updates(t)' = {i \in DOMAIN wire' : wire'[i].kind = "update" /\ wire'[i].step = t}
  BY DEF Updates
<1>3. QED
  BY <1>1, <1>2 DEF Updates, n

LEMMA UpdatesShifted ==
  ASSUME TypesInv, wire # <<>>, wire' = Tail(wire), NEW t
  PROVE  /\ 1 \in Updates(t) <=> (Foremost.kind = "update" /\ Foremost.step = t)
         /\ wire[1] = Foremost
         /\ \A i \in Updates(t)' : i \in Nat /\ i > 0 /\ i + 1 \in Updates(t) /\ wire'[i] = wire[i + 1]
         /\ \A j \in Updates(t) : /\ j \in Nat /\ j > 0
                                  /\ j # 1 => j - 1 \in Updates(t)' /\ wire'[j - 1] = wire[j]
<1>1. /\ Foremost = wire[1] /\ 1 \in DOMAIN wire /\ DOMAIN wire = 1..Len(wire) /\ Len(wire) \in Nat
      /\ \A i \in DOMAIN wire' : i + 1 \in DOMAIN wire /\ wire'[i] = wire[i + 1] /\ i \in Nat /\ i > 0
      /\ \A i \in DOMAIN wire : i # 1 => i - 1 \in DOMAIN wire' /\ wire'[i - 1] = wire[i]
  BY Shortened DEF TypesInv, Foremost
<1>2. Updates(t)' = {i \in DOMAIN wire' : wire'[i].kind = "update" /\ wire'[i].step = t}
  BY DEF Updates
<1>3. QED
  BY <1>1, <1>2 DEF Updates

\* A step no part of which moves keeps what it has, whether the wire gets
\* longer (d = 0) or shorter by its head (d = 1).
LEMMA WaitsKept ==
  ASSUME NEW t, NEW d \in {0, 1},
         \A i \in Updates(t)' : i \in Nat /\ i + d \in Updates(t) /\ wire'[i] = wire[i + d],
         \A j \in Updates(t) : j \in Nat,
         \A j \in Ends(t) : j - d \in Updates(t)' /\ wire'[j - d] = wire[j],
         trackers'[t] = trackers[t], asked'[t] = asked[t], episode'[t] = episode[t],
         at'[t] = "waiting" <=> at[t] = "waiting",
         pending'[t] = pending[t] \/ Reached(t),
         EndsSeparate(t), NoEndAllCurrent(t), TrackerKnows(t)
  PROVE  /\ EndsSeparate(t)' /\ NoEndAllCurrent(t)' /\ TrackerKnows(t)'
         /\ Reached(t)' <=> Reached(t)
<1>1. Ends(t)' = {i \in Updates(t)' : ~wire'[i].waiting}
  BY DEF Ends
<1>2. \A i \in Ends(t)' : i + d \in Ends(t)
  BY <1>1 DEF Ends
<1>3. \A j \in Ends(t) : j - d \in Ends(t)'
  BY <1>1 DEF Ends
<1>4. Ends(t)' = {} <=> Ends(t) = {}
  BY <1>2, <1>3
<1>5. Reached(t)' <=> Reached(t)
  BY <1>4 DEF Reached
<1>6. ASSUME NEW i \in Updates(t)', Current(t, i + d)
      PROVE  Current(t, i)'
  BY <1>6 DEF Current
<1>7. EndsSeparate(t)'
  <2>1. ASSUME NEW i \in Ends(t)'
        PROVE  /\ trackers'[t].waiting
               /\ \A j \in Updates(t)' : j > i => Current(t, j)'
               /\ \A j \in Updates(t)' : j < i => wire'[j].waiting /\ wire'[j].asks \subseteq trackers'[t].handled
    <3>1. i + d \in Ends(t) /\ i \in Nat
      BY <1>1, <1>2, <2>1
    <3>2. ASSUME NEW j \in Updates(t)', j > i PROVE Current(t, j)'
      <4>1. j + d \in Updates(t) /\ j + d > i + d
        BY <3>1, <3>2
      <4>2. QED
        BY <1>6, <3>1, <4>1 DEF EndsSeparate
    <3>3. ASSUME NEW j \in Updates(t)', j < i
          PROVE  wire'[j].waiting /\ wire'[j].asks \subseteq trackers'[t].handled
      <4>1. j + d \in Updates(t) /\ j + d < i + d /\ wire'[j] = wire[j + d]
        BY <3>1, <3>3
      <4>2. QED
        BY <3>1, <4>1 DEF EndsSeparate
    <3>4. QED
      BY <3>1, <3>2, <3>3 DEF EndsSeparate
  <2>2. QED
    BY <2>1 DEF EndsSeparate
<1>8. NoEndAllCurrent(t)'
  BY <1>4, <1>6 DEF NoEndAllCurrent
<1>9. TrackerKnows(t)'
  BY <1>5 DEF TrackerKnows
<1>10. QED
  BY <1>5, <1>7, <1>8, <1>9

\* Requests of a step that a goroutine has, or an answer to one.
Held(s) == \/ \E i \in DOMAIN workers : workers[i].step = s
           \/ \E i \in DOMAIN inbox : inbox[i].step = s

LEMMA HandIs ==
  ASSUME NEW s
  PROVE  /\ NothingInHand(s) <=> (at[s] = "waiting" /\ ~Reached(s) => ~Held(s))
         /\ NothingInHand(s)' <=> (at'[s] = "waiting" /\ ~Reached(s)' => ~Held(s)')
BY DEF NothingInHand, Held

LEMMA StepKept ==
  ASSUME NEW t, NEW d \in {0, 1},
         \A i \in Updates(t)' : i \in Nat /\ i + d \in Updates(t) /\ wire'[i] = wire[i + d],
         \A j \in Updates(t) : j \in Nat,
         \A j \in Ends(t) : j - d \in Updates(t)' /\ wire'[j - d] = wire[j],
         trackers'[t] = trackers[t], asked'[t] = asked[t], episode'[t] = episode[t],
         at'[t] = "waiting" <=> at[t] = "waiting",
         pending'[t] = pending[t] \/ Reached(t),
         at[t] = "waiting" /\ Held(t)' => Held(t),
         StepInv(t)
  PROVE  StepInv(t)'
<1>1. /\ EndsSeparate(t)' /\ NoEndAllCurrent(t)' /\ TrackerKnows(t)'
      /\ Reached(t)' <=> Reached(t)
  BY WaitsKept DEF StepInv
<1>2. NothingInHand(t)'
  BY <1>1, HandIs DEF StepInv
<1>3. QED
  BY <1>1, <1>2 DEF StepInv

\* The two ways a step is not concerned.
LEMMA AppendKeeps ==
  ASSUME TypesInv, NEW t, wire' = wire \/ \E e : wire' = Append(wire, e) /\ ~(e.kind = "update" /\ e.step = t),
         trackers'[t] = trackers[t], asked'[t] = asked[t], episode'[t] = episode[t],
         at'[t] = "waiting" <=> at[t] = "waiting",
         pending'[t] = pending[t] \/ Reached(t),
         at[t] = "waiting" /\ Held(t)' => Held(t),
         StepInv(t)
  PROVE  StepInv(t)'
<1>1. /\ Updates(t)' = Updates(t)
      /\ \A i \in Updates(t) : i \in Nat /\ wire'[i] = wire[i]
  <2>1. CASE wire' = wire
    <3>1. DOMAIN wire = 1..Len(wire)
      BY DEF TypesInv, IsSeq
    <3>2. QED
      BY <2>1, <3>1 DEF Updates
  <2>2. CASE \E e : wire' = Append(wire, e) /\ ~(e.kind = "update" /\ e.step = t)
    <3>1. PICK e : wire' = Append(wire, e) /\ ~(e.kind = "update" /\ e.step = t)
      BY <2>2
    <3>2. Updates(t)' = Updates(t) \union
            (IF e.kind = "update" /\ e.step = t THEN {Len(wire) + 1} ELSE {})
      BY <3>1, UpdatesAppended
    <3>3. \A i \in Updates(t) : i \in Nat /\ wire'[i] = wire[i]
      BY <3>1, UpdatesAppended
    <3>4. QED
      BY <3>1, <3>2, <3>3
  <2>3. QED
    BY <2>1, <2>2
<1>2. \A i \in Updates(t) : i + 0 = i /\ i - 0 = i
  BY <1>1
<1>3. 0 \in {0, 1} /\ Ends(t) \subseteq Updates(t)
  BY DEF Ends
<1>4. /\ \A i \in Updates(t)' : i \in Nat /\ i + 0 \in Updates(t) /\ wire'[i] = wire[i + 0]
      /\ \A j \in Updates(t) : j \in Nat
      /\ \A j \in Ends(t) : j - 0 \in Updates(t)' /\ wire'[j - 0] = wire[j]
  BY <1>1, <1>2, <1>3
<1>5. QED
  BY <1>3, <1>4, StepKept

LEMMA TailKeeps ==
  ASSUME TypesInv, NEW t, wire # <<>>, wire' = Tail(wire),
         Foremost.kind = "update" /\ Foremost.step = t => Foremost.waiting,
         trackers'[t] = trackers[t], asked'[t] = asked[t], episode'[t] = episode[t],
         at'[t] = at[t], pending'[t] = pending[t],
         at[t] = "waiting" /\ Held(t)' => Held(t),
         StepInv(t)
  PROVE  StepInv(t)'
<1>1. \A i \in Updates(t)' : i \in Nat /\ i + 1 \in Updates(t) /\ wire'[i] = wire[i + 1]
  BY UpdatesShifted
<1>2. \A j \in Updates(t) : j \in Nat
  BY UpdatesShifted
<1>3. \A j \in Ends(t) : j - 1 \in Updates(t)' /\ wire'[j - 1] = wire[j]
  <2>1. TAKE j \in Ends(t)
  <2>2. j \in Updates(t) /\ ~wire[j].waiting
    BY DEF Ends
  <2>3. j # 1
    BY <2>2, UpdatesShifted
  <2>4. QED
    BY <2>2, <2>3, UpdatesShifted
<1>4. 1 \in {0, 1}
  OBVIOUS
<1>5. QED
  BY <1>1, <1>2, <1>3, <1>4, StepKept

----------------------------------------------------------------------------
\* What each action does to the waits.

\* A step somebody holds a request of is being decided, or waits.
LEMMA HeldIsOutstanding ==
  ASSUME TypesInv, RequestsAreOutstanding, NEW s \in Steps
  PROVE  /\ Held(s) => at[s] \in {"deciding", "waiting"}
         /\ Held(s) /\ at[s] = "waiting" => pending[s] # {}
BY DEF RequestsAreOutstanding, Outstanding, Held

LEMMA AsksKeepWaits ==
  ASSUME TypesInv, WaitsInv, NEW s \in Steps, CheckCall(s) \/ AskUnknownRule(s)
  PROVE  WaitsInv'
<1> USE DEF session, ghosts
<1>1. /\ UNCHANGED <<call, episode, asked, pending, inbox, trackers, workers>> /\ Steps' = Steps
      /\ at[s] \in {"new", "checking"}
  BY DEF CheckCall, AskUnknownRule, Steps
<1>2. \E to \in {"ready", "refused", "deciding"} : at' = [at EXCEPT ![s] = to]
  BY DEF CheckCall, AskUnknownRule, Settle
<1>3. wire' = wire \/ \E e : wire' = Append(wire, e) /\ e.kind = "policy"
  <2>1. \A id : PolicyRequest(s, id).kind = "policy"
    BY DEF PolicyRequest
  <2>2. wire' = wire \/ \E id : wire' = Append(wire, PolicyRequest(s, id))
    BY DEF CheckCall, AskUnknownRule, Settle
  <2>3. QED
    BY <2>1, <2>2
<1>4. SUFFICES ASSUME NEW t \in Steps PROVE StepInv(t)'
  BY <1>1 DEF WaitsInv
<1>5. at'[t] = "waiting" <=> at[t] = "waiting"
  BY <1>1, <1>2 DEF TypesInv, TypeOK
<1>6. Held(t)' <=> Held(t)
  BY <1>1 DEF Held
<1>7. wire' = wire \/ \E e : wire' = Append(wire, e) /\ ~(e.kind = "update" /\ e.step = t)
  BY <1>3
<1>8. StepInv(t)
  BY DEF WaitsInv
<1>9. QED
  BY <1>1, <1>5, <1>6, <1>7, <1>8, AppendKeeps

\* The step that begins, goes on with or ends its wait.
LEMMA WaitBegins ==
  ASSUME TypesInv, TypesInv', RequestsAreOutstanding, NEW s \in Steps, WaitForUser(s), StepInv(s)
  PROVE  StepInv(s)'
<1>1. /\ at[s] = "ready" /\ at'[s] = "waiting" /\ asked'[s] # {} /\ pending'[s] = asked'[s]
      /\ trackers' = trackers /\ workers' = workers /\ inbox' = inbox
      /\ wire' = Append(wire, Update(s))
  <2>1. /\ at \in [Steps -> Positions] /\ asked \in [Steps -> SUBSET Kinds]
        /\ pending \in [Steps -> SUBSET Kinds]
    BY DEF TypesInv, TypeOK
  <2>2. PICK kinds \in (SUBSET Kinds) \ {{}} : /\ asked' = [asked EXCEPT ![s] = kinds]
                                             /\ pending' = [pending EXCEPT ![s] = kinds]
    BY DEF WaitForUser
  <2>3. asked'[s] # {} /\ pending'[s] = asked'[s]
    BY <2>1, <2>2
  <2>4. at[s] = "ready" /\ at'[s] = "waiting"
    BY <2>1 DEF WaitForUser
  <2>5. QED
    BY <2>3, <2>4 DEF WaitForUser
<1>2. PICK n, e : /\ n = Len(wire) + 1 /\ wire' = Append(wire, e)
                   /\ e.kind = "update" /\ e.step = s /\ e.waiting
                   /\ e.asks = asked'[s] /\ e.episode = episode'[s]
  <2>1. /\ Update(s).kind = "update" /\ Update(s).step = s /\ Update(s).waiting
        /\ Update(s).asks = asked'[s] /\ Update(s).episode = episode'[s]
    BY <1>1 DEF Update
  <2>2. QED
    BY <1>1, <2>1
<1>3. /\ Updates(s)' = Updates(s) \union {n} /\ n \in Nat /\ n \notin Updates(s) /\ wire'[n] = e
      /\ \A i \in Updates(s) : i \in Nat /\ i < n /\ wire'[i] = wire[i]
  BY <1>2, UpdatesAppended
<1>4. Current(s, n)'
  BY <1>1, <1>2, <1>3 DEF Current
<1>5. Ends(s)' = Ends(s)
  BY <1>1, <1>2, <1>3 DEF Ends
<1>6. ~Reached(s)' /\ ~Reached(s)
  BY <1>1, <1>5 DEF StepInv, TrackerKnows, Reached
<1>7. ~Held(s)'
  <2>1. Held(s)' <=> Held(s)
    BY <1>1 DEF Held
  <2>2. QED
    BY <1>1, <2>1, HeldIsOutstanding
\* A wait that ended has no update behind its end: the new one is the first.
<1>8. EndsSeparate(s)'
  <2>1. SUFFICES ASSUME NEW i \in Ends(s)
                 PROVE  /\ trackers'[s].waiting
                        /\ \A j \in Updates(s)' : j > i => Current(s, j)'
                        /\ \A j \in Updates(s)' : j < i => /\ wire'[j].waiting
                                                           /\ wire'[j].asks \subseteq trackers'[s].handled
    BY <1>5 DEF EndsSeparate
  <2>2. i \in Updates(s) /\ i \in Nat /\ i < n
    BY <1>3 DEF Ends
  <2>3. trackers'[s].waiting
    BY <1>1 DEF StepInv, EndsSeparate
  <2>4. \A j \in Updates(s) : ~(j > i)
    BY <1>1 DEF StepInv, EndsSeparate, Current
  <2>5. \A j \in Updates(s) : j < i => wire'[j].waiting /\ wire'[j].asks \subseteq trackers'[s].handled
    BY <1>1, <1>3 DEF StepInv, EndsSeparate
  <2>6. ~(n < i)
    BY <1>3, <2>2
  <2>7. QED
    BY <1>3, <1>4, <2>3, <2>4, <2>5, <2>6
<1>9. NoEndAllCurrent(s)'
  BY <1>1, <1>3, <1>4, <1>5 DEF StepInv, NoEndAllCurrent, Current
<1>10. TrackerKnows(s)'
  BY <1>1, <1>6 DEF StepInv, TrackerKnows
<1>11. QED
  BY <1>7, <1>8, <1>9, <1>10, HandIs DEF StepInv

LEMMA WaitGoesOn ==
  ASSUME TypesInv, NEW s \in Steps, RepeatUpdate(s), StepInv(s)
  PROVE  StepInv(s)'
<1>1. /\ at[s] = "waiting" /\ UNCHANGED <<at, asked, episode, pending, trackers, workers, inbox>>
      /\ wire' = Append(wire, Update(s))
  BY DEF RepeatUpdate
<1>2. PICK n, e : /\ n = Len(wire) + 1 /\ wire' = Append(wire, e)
                   /\ e.kind = "update" /\ e.step = s /\ e.waiting
                   /\ e.asks = asked'[s] /\ e.episode = episode'[s]
  <2>1. /\ Update(s).kind = "update" /\ Update(s).step = s /\ Update(s).waiting
        /\ Update(s).asks = asked'[s] /\ Update(s).episode = episode'[s]
    BY <1>1 DEF Update
  <2>2. QED
    BY <1>1, <2>1
<1>3. /\ Updates(s)' = Updates(s) \union {n} /\ n \in Nat /\ n \notin Updates(s) /\ wire'[n] = e
      /\ \A i \in Updates(s) : i \in Nat /\ i < n /\ wire'[i] = wire[i]
  BY <1>2, UpdatesAppended
<1>4. Current(s, n)' /\ \A i \in Updates(s) : Current(s, i)' <=> Current(s, i)
  BY <1>1, <1>2, <1>3 DEF Current
<1>5. Ends(s)' = Ends(s)
  BY <1>1, <1>2, <1>3 DEF Ends
<1>6. Reached(s)' <=> Reached(s)
  BY <1>1, <1>5 DEF Reached
<1>7. Held(s)' <=> Held(s)
  BY <1>1 DEF Held
<1>8. EndsSeparate(s)'
  <2>1. SUFFICES ASSUME NEW i \in Ends(s)
                 PROVE  /\ trackers'[s].waiting
                        /\ \A j \in Updates(s)' : j > i => Current(s, j)'
                        /\ \A j \in Updates(s)' : j < i => /\ wire'[j].waiting
                                                           /\ wire'[j].asks \subseteq trackers'[s].handled
    BY <1>5 DEF EndsSeparate
  <2>2. i \in Updates(s) /\ i \in Nat /\ i < n
    BY <1>3 DEF Ends
  <2>3. trackers'[s].waiting
    BY <1>1 DEF StepInv, EndsSeparate
  <2>4. \A j \in Updates(s) : j > i => Current(s, j)
    BY DEF StepInv, EndsSeparate
  <2>5. \A j \in Updates(s) : j < i => wire'[j].waiting /\ wire'[j].asks \subseteq trackers'[s].handled
    BY <1>1, <1>3 DEF StepInv, EndsSeparate
  <2>6. ~(n < i)
    BY <1>3, <2>2
  <2>7. QED
    BY <1>3, <1>4, <2>3, <2>4, <2>5, <2>6
<1>9. NoEndAllCurrent(s)'
  BY <1>3, <1>4, <1>5 DEF StepInv, NoEndAllCurrent
<1>10. TrackerKnows(s)'
  BY <1>1, <1>6 DEF StepInv, TrackerKnows
<1>11. QED
  BY <1>1, <1>6, <1>7, <1>8, <1>9, <1>10, HandIs DEF StepInv

LEMMA WaitEnds ==
  ASSUME TypesInv, NEW s \in Steps, Resume(s), StepInv(s)
  PROVE  StepInv(s)'
<1>1. /\ at[s] = "waiting" /\ at'[s] = "ready" /\ pending[s] = {}
      /\ trackers' = trackers /\ wire' = Append(wire, Update(s))
  BY DEF Resume, TypesInv, TypeOK
<1>2. PICK n, e : /\ n = Len(wire) + 1 /\ wire' = Append(wire, e)
                   /\ e.kind = "update" /\ e.step = s /\ ~e.waiting
  <2>1. /\ Update(s).kind = "update" /\ Update(s).step = s /\ ~Update(s).waiting
        /\ Update(s).asks = asked'[s] /\ Update(s).episode = episode'[s]
    BY <1>1 DEF Update
  <2>2. QED
    BY <1>1, <2>1
<1>3. /\ Updates(s)' = Updates(s) \union {n} /\ n \in Nat /\ n \notin Updates(s) /\ wire'[n] = e
      /\ \A i \in Updates(s) : i \in Nat /\ i < n /\ wire'[i] = wire[i]
  BY <1>2, UpdatesAppended
\* The wait is over, so its requests were answered: the tracker knew them.
<1>4. /\ Reached(s) /\ trackers[s].waiting /\ trackers[s].handled = asked[s]
      /\ \A i \in Updates(s) : wire[i].waiting /\ wire[i].asks = asked[s]
  <2>1. Reached(s)
    BY <1>1 DEF StepInv, TrackerKnows
  <2>2. trackers[s].handled = asked[s]
    BY <1>1, <2>1 DEF StepInv, TrackerKnows
  <2>3. QED
    BY <2>1, <2>2 DEF Reached, StepInv, NoEndAllCurrent, Current
<1>5. Ends(s)' = {n}
  BY <1>1, <1>2, <1>3, <1>4 DEF Ends
<1>6. ~Reached(s)'
  BY <1>5 DEF Reached
<1>7. EndsSeparate(s)'
  <2>1. \A j \in Updates(s)' : ~(j > n)
    BY <1>3
  <2>2. ASSUME NEW j \in Updates(s)', j < n
        PROVE  wire'[j].waiting /\ wire'[j].asks \subseteq trackers'[s].handled
    <3>1. j # n
      BY <1>3, <2>2
    <3>2. j \in Updates(s) /\ wire'[j] = wire[j]
      BY <1>3, <3>1
    <3>3. QED
      BY <1>1, <1>4, <3>2
  <2>3. trackers'[s].waiting
    BY <1>1, <1>4
  <2>4. QED
    BY <1>5, <2>1, <2>2, <2>3 DEF EndsSeparate
<1>8. NoEndAllCurrent(s)'
  BY <1>5 DEF NoEndAllCurrent
<1>9. TrackerKnows(s)'
  BY <1>1, <1>4, <1>6 DEF TrackerKnows
<1>10. QED
  BY <1>1, <1>7, <1>8, <1>9, HandIs DEF StepInv

LEMMA WaitsKeepWaits ==
  ASSUME TypesInv, TypesInv', RequestsAreOutstanding, WaitsInv, NEW s \in Steps,
         WaitForUser(s) \/ RepeatUpdate(s) \/ Resume(s)
  PROVE  WaitsInv'
<1> USE DEF session
<1>1. /\ UNCHANGED <<call, inbox, trackers, workers>> /\ Steps' = Steps
      /\ wire' = Append(wire, Update(s)) /\ Update(s).step = s
  BY DEF WaitForUser, RepeatUpdate, Resume, Steps, Update
<1>2. \A t \in Steps : t # s => /\ at'[t] = at[t] /\ pending'[t] = pending[t]
                                /\ asked'[t] = asked[t] /\ episode'[t] = episode[t]
  BY DEF WaitForUser, RepeatUpdate, Resume, TypesInv, TypeOK
<1>3. SUFFICES ASSUME NEW t \in Steps PROVE StepInv(t)'
  BY <1>1 DEF WaitsInv
<1>4. StepInv(t)
  BY DEF WaitsInv
<1>5. CASE t = s
  BY <1>4, <1>5, WaitBegins, WaitGoesOn, WaitEnds
<1>6. CASE t # s
  <2>1. \E e : wire' = Append(wire, e) /\ ~(e.kind = "update" /\ e.step = t)
    BY <1>1, <1>6
  <2>2. Held(t)' <=> Held(t)
    BY <1>1 DEF Held
  <2>3. at'[t] = at[t] /\ pending'[t] = pending[t] /\ asked'[t] = asked[t] /\ episode'[t] = episode[t]
    BY <1>2, <1>6
  <2>4. trackers'[t] = trackers[t]
    BY <1>1
  <2>5. QED
    BY <1>4, <2>1, <2>2, <2>3, <2>4, AppendKeeps
<1>7. QED
  BY <1>5, <1>6

\* An answer that is taken was waited for.
LEMMA TakenIsAwaited ==
  ASSUME TypesInv, RequestsAreOutstanding, TakeAnswer
  PROVE  LET m == Head(inbox)
         IN /\ IsAnswer(m) /\ Outstanding(m) /\ Held(m.step) /\ m.step \in Steps
            /\ m.kind = "policy" => /\ at[m.step] = "deciding" /\ m.outcome \in {"allow", "deny", "noMatch"}
                                    /\ at'[m.step] # "waiting" /\ pending' = pending
                                    /\ \A t \in Steps : t # m.step => at'[t] = at[t]
            /\ m.kind # "policy" => /\ at[m.step] = "waiting" /\ at' = at
                                    /\ m.kind \in pending[m.step] /\ m.kind \in Kinds
                                    /\ pending'[m.step] = pending[m.step] \ {m.kind}
                                    /\ \A t \in Steps : t # m.step => pending'[t] = pending[t]
<1> DEFINE m == Head(inbox)
<1>1. IsAnswer(m) /\ Outstanding(m) /\ \E i \in DOMAIN inbox : inbox[i] = m
  BY Shortened DEF TakeAnswer, TypesInv, RequestsAreOutstanding
<1>2. at \in [Steps -> Positions] /\ pending \in [Steps -> SUBSET Kinds]
  BY DEF TypesInv, TypeOK
<1>3. IF m.kind # "policy"
      THEN pending' = [pending EXCEPT ![m.step] = @ \ {m.kind}] /\ at' = at
      ELSE /\ at' = [at EXCEPT ![m.step] = CASE m.outcome = "allow" -> "ready"
                                             [] m.outcome = "deny"  -> "refused"
                                             [] OTHER               -> "checking"]
           /\ pending' = pending
  BY DEF TakeAnswer
<1> HIDE DEF m
<1>4. Held(m.step) /\ m.step \in Steps /\ m.kind \in Kinds \union {"policy"}
  BY <1>1 DEF Held, IsAnswer
<1>5. ASSUME m.kind = "policy"
      PROVE  /\ at[m.step] = "deciding" /\ m.outcome \in {"allow", "deny", "noMatch"}
             /\ at'[m.step] # "waiting" /\ pending' = pending
             /\ \A t \in Steps : t # m.step => at'[t] = at[t]
  <2>1. at[m.step] = "deciding" /\ m.outcome \in {"allow", "deny", "noMatch"}
    BY <1>1, <1>5 DEF Outstanding, IsAnswer
  <2>2. \E to \in {"ready", "refused", "checking"} : at' = [at EXCEPT ![m.step] = to]
    BY <1>3, <1>5
  <2>3. QED
    BY <1>2, <1>3, <1>4, <1>5, <2>1, <2>2
<1>6. ASSUME m.kind # "policy"
      PROVE  /\ at[m.step] = "waiting" /\ at' = at
             /\ m.kind \in pending[m.step] /\ m.kind \in Kinds
             /\ pending'[m.step] = pending[m.step] \ {m.kind}
             /\ \A t \in Steps : t # m.step => pending'[t] = pending[t]
  <2>1. at[m.step] = "waiting" /\ m.kind \in pending[m.step]
    BY <1>1, <1>6 DEF Outstanding
  <2>2. QED
    BY <1>2, <1>3, <1>4, <1>6, <2>1
<1>7. QED
  BY <1>1, <1>4, <1>5, <1>6 DEF m

LEMMA AnswersKeepWaits ==
  ASSUME TypesInv, RequestsAreOutstanding, WaitsInv, TakeAnswer \/ Answer
  PROVE  WaitsInv'
<1> USE DEF session, harnessVars
<1>1. /\ UNCHANGED <<call, episode, asked, wire, trackers>> /\ Steps' = Steps
  <2>1. CASE TakeAnswer
    BY <2>1 DEF TakeAnswer, Steps
  <2>2. CASE Answer
    BY <2>2, AnswerSends DEF Send, Steps
  <2>3. QED
    BY <2>1, <2>2
<1>2. SUFFICES ASSUME NEW t \in Steps PROVE StepInv(t)'
  BY <1>1 DEF WaitsInv
<1>3. StepInv(t)
  BY DEF WaitsInv
<1>4. CASE TakeAnswer
  <2>1. at'[t] = "waiting" <=> at[t] = "waiting"
    BY <1>4, TakenIsAwaited
  <2>2. pending'[t] = pending[t] \/ Reached(t)
    BY <1>3, <1>4, TakenIsAwaited, HandIs DEF StepInv
  <2>3. Held(t)' => Held(t)
    <3>1. \A i \in DOMAIN inbox' : \E j \in DOMAIN inbox : inbox'[i] = inbox[j]
      BY <1>4, Shortened DEF TakeAnswer, TypesInv
    <3>2. workers' = workers
      BY <1>4 DEF TakeAnswer
    <3>3. QED
      BY <3>1, <3>2 DEF Held
  <2>4. QED
    BY <1>1, <1>3, <2>1, <2>2, <2>3, AppendKeeps
<1>5. CASE Answer
  <2>0. PICK w \in DOMAIN workers : \E m : Answers_(w, m) /\ Send(w, m)
    BY <1>5, AnswerSends
  <2>1. PICK m : Answers_(w, m) /\ Send(w, m)
    BY <2>0
  <2>2. Held(t)' => Held(t)
    <3>1. \A i \in DOMAIN workers' : \E j \in DOMAIN workers : workers'[i] = workers[j]
      BY <2>1, RemovedIs DEF Send, TypesInv, Selected
    <3>2. \A i \in DOMAIN inbox' : inbox'[i] = m \/ \E j \in DOMAIN inbox : inbox'[i] = inbox[j]
      BY <2>1, Appended DEF Send, TypesInv
    <3>3. m.step = workers[w].step
      BY <2>1 DEF Answers_
    <3>4. QED
      BY <3>1, <3>2, <3>3 DEF Held
  <2>3. at' = at /\ pending' = pending
    BY <2>1 DEF Send
  <2>4. QED
    BY <1>1, <1>3, <2>2, <2>3, AppendKeeps
<1>6. QED
  BY <1>4, <1>5

LEMMA StartKeepsWaits ==
  ASSUME TypesInv, RequestsAreOutstanding, WaitsInv, StartPolicyDecision
  PROVE  WaitsInv'
<1> USE DEF session, harnessVars
<1>1. /\ UNCHANGED <<call, episode, asked, at, pending, inbox, trackers>> /\ Steps' = Steps
      /\ wire # <<>> /\ wire' = Tail(wire) /\ Foremost.kind = "policy"
      /\ workers' = Append(workers, Foremost)
  BY DEF StartPolicyDecision, Recv, Foremost, Steps
<1>2. SUFFICES ASSUME NEW t \in Steps PROVE StepInv(t)'
  BY <1>1 DEF WaitsInv
<1>3. StepInv(t)
  BY DEF WaitsInv
<1>4. at[Foremost.step] = "deciding"
  BY <1>1, Shortened DEF RequestsAreOutstanding, TypesInv, Foremost
<1>5. at[t] = "waiting" /\ Held(t)' => Held(t)
  <2>1. \A i \in DOMAIN workers' : workers'[i] = Foremost \/ \E j \in DOMAIN workers : workers'[i] = workers[j]
    BY <1>1, Appended DEF TypesInv
  <2>2. QED
    BY <1>1, <1>4, <2>1 DEF Held
<1>6. QED
  BY <1>1, <1>3, <1>5, TailKeeps

\* Only the first update of a wait claims, and it claims all that is asked:
\* behind an end that is still to come there is nothing new to ask, and in a
\* wait the tracker has reached everything is handled.
LEMMA ClaimIsOfTheWait ==
  ASSUME TypesInv, WaitsInv, HandleStepUpdate
  PROVE  LET s == Foremost.step
         IN /\ s \in Steps /\ s \in DOMAIN trackers /\ 1 \in Updates(s) /\ wire[1] = Foremost
            /\ ~Foremost.waiting => /\ Claimed = {} /\ trackers[s].waiting
                                 /\ FrontTracker.handled = {}
                                 /\ \A j \in Updates(s) : j # 1 => Current(s, j)
            /\ Foremost.waiting /\ Claimed = {} =>
                 /\ trackers[s].waiting
                 /\ FrontTracker.handled = trackers[s].handled
            /\ Claimed # {} => /\ Foremost.waiting /\ at[s] = "waiting" /\ ~Reached(s) /\ Ends(s) = {}
                               /\ Claimed = asked[s] /\ pending[s] = asked[s]
                               /\ Foremost.episode = episode[s]
                               /\ FrontTracker.handled = {}
<1> DEFINE s == Foremost.step
<1>1. /\ wire # <<>> /\ wire' = Tail(wire) /\ Foremost.kind = "update" /\ IsFrame(Foremost)
  BY UpdateClaims
<1>2. s \in Steps /\ 1 \in Updates(s) /\ wire[1] = Foremost
  BY <1>1, UpdatesShifted DEF IsFrame
<1>3. /\ trackers \in [Steps -> Tracker] /\ Foremost.waiting \in BOOLEAN
  BY <1>1 DEF TypesInv, TypeOK, IsFrame
<1>4. EndsSeparate(s) /\ NoEndAllCurrent(s) /\ TrackerKnows(s)
  BY <1>2 DEF WaitsInv, StepInv
<1>5. /\ Claimed = IF Foremost.waiting THEN Foremost.asks \ FrontTracker.handled ELSE {}
      /\ FrontTracker.handled = IF trackers[s].waiting /\ ~Foremost.waiting THEN {} ELSE trackers[s].handled
  BY DEF Claimed, Claims, FrontTracker, setState
<1>6. \A j \in Updates(s) : j # 1 => j > 1
  BY <1>1, UpdatesShifted
<1> HIDE DEF s
<1>7. ASSUME ~Foremost.waiting
      PROVE  /\ Claimed = {} /\ trackers[s].waiting /\ FrontTracker.handled = {}
             /\ \A j \in Updates(s) : j # 1 => Current(s, j)
  <2>1. 1 \in Ends(s)
    BY <1>2, <1>7 DEF Ends
  <2>2. QED
    BY <1>4, <1>5, <1>6, <1>7, <2>1 DEF EndsSeparate
<1>8. ASSUME Foremost.waiting, Ends(s) # {}
      PROVE  Claimed = {} /\ trackers[s].waiting /\ FrontTracker.handled = trackers[s].handled
  <2>1. PICK i \in Ends(s) : TRUE
    BY <1>8
  <2>2. i # 1 /\ i \in Updates(s)
    BY <1>2, <1>8, <2>1 DEF Ends
  <2>3. 1 < i
    BY <1>6, <2>2
  <2>4. trackers[s].waiting /\ Foremost.asks \subseteq trackers[s].handled
    BY <1>2, <1>4, <2>1, <2>3 DEF EndsSeparate
  <2>5. QED
    BY <1>5, <1>8, <2>4
<1>9. ASSUME Foremost.waiting, Ends(s) = {}
      PROVE  /\ FrontTracker.handled = trackers[s].handled
             /\ trackers[s].waiting => Claimed = {}
             /\ ~trackers[s].waiting =>
                  /\ at[s] = "waiting" /\ ~Reached(s) /\ Claimed = asked[s] /\ Claimed # {}
                  /\ pending[s] = asked[s] /\ Foremost.episode = episode[s]
                  /\ FrontTracker.handled = {}
  <2>1. at[s] = "waiting" /\ Foremost.asks = asked[s] /\ Foremost.episode = episode[s]
    BY <1>2, <1>4, <1>9 DEF NoEndAllCurrent, Current
  <2>2. FrontTracker.handled = trackers[s].handled /\ Claimed = asked[s] \ trackers[s].handled
    BY <1>5, <1>9, <2>1
  <2>3. trackers[s].waiting => Claimed = {}
    BY <1>4, <1>9, <2>1, <2>2 DEF TrackerKnows, Reached
  <2>4. ASSUME ~trackers[s].waiting
        PROVE  /\ ~Reached(s) /\ Claimed = asked[s] /\ Claimed # {} /\ pending[s] = asked[s]
               /\ FrontTracker.handled = {}
    <3>1. trackers[s].handled = {} /\ ~Reached(s)
      BY <1>4, <2>4 DEF TrackerKnows, Reached
    <3>2. QED
      BY <1>4, <2>1, <2>2, <3>1 DEF TrackerKnows
  <2>5. QED
    BY <2>1, <2>2, <2>3, <2>4
<1>10. s \in DOMAIN trackers
  BY <1>2, <1>3
<1>11. QED
  BY <1>2, <1>3, <1>7, <1>8, <1>9, <1>10 DEF s

LEMMA UpdateKeepsWaits ==
  ASSUME TypesInv, WaitsInv, HandleStepUpdate
  PROVE  WaitsInv'
<1> USE DEF session, harnessVars
<1> DEFINE s == Foremost.step
<1>1. /\ UNCHANGED <<call, episode, asked, at, pending, inbox>> /\ Steps' = Steps
      /\ wire # <<>> /\ wire' = Tail(wire)
  BY DEF HandleStepUpdate, Recv, Steps
<1>2. SUFFICES ASSUME NEW t \in Steps PROVE StepInv(t)'
  BY <1>1 DEF WaitsInv
<1>3. StepInv(t)
  BY DEF WaitsInv
<1>4. /\ \A i \in DOMAIN workers : workers'[i] = workers[i]
      /\ DOMAIN workers \subseteq DOMAIN workers'
      /\ \A i \in DOMAIN workers' \ DOMAIN workers : workers'[i].step = s
      /\ Claimed = {} => workers' = workers
  BY UpdateClaims
<1>5. t # s \/ Claimed = {} => (Held(t)' => Held(t))
  BY <1>1, <1>4 DEF Held
<1>6. /\ trackers \in [Steps -> Tracker] /\ s \in Steps
      /\ trackers' = [trackers EXCEPT ![s] =
                        [waiting |-> Foremost.waiting, handled |-> FrontTracker.handled \union Claimed]]
  BY UpdateClaims, ClaimIsOfTheWait DEF TypesInv, TypeOK
<1> HIDE DEF s
<1>7. /\ \A r \in Steps : r # s => trackers'[r] = trackers[r]
      /\ trackers'[s].waiting = Foremost.waiting
      /\ trackers'[s].handled = FrontTracker.handled \union Claimed
  BY <1>6
<1>8. CASE t # s
  BY <1>1, <1>3, <1>5, <1>7, <1>8, TailKeeps DEF s
<1>9. CASE t = s /\ Foremost.waiting /\ Claimed = {}
  <2>1. trackers'[t] = trackers[t]
    <3>1. trackers[s].waiting /\ FrontTracker.handled = trackers[s].handled
      BY <1>9, ClaimIsOfTheWait DEF s
    <3>2. trackers[s] \in Tracker
      BY <1>6
    <3>3. trackers'[s] = [waiting |-> Foremost.waiting, handled |-> FrontTracker.handled \union Claimed]
      BY <1>6
    <3>4. Foremost.waiting \in BOOLEAN
      BY UpdateClaims DEF IsFrame
    <3>5. QED
      BY <1>9, <3>1, <3>2, <3>3, <3>4 DEF Tracker
  <2>2. QED
    BY <1>1, <1>3, <1>5, <1>9, <2>1, TailKeeps
\* The end of a wait: its successor's updates are all that is left.
<1>10. CASE t = s /\ ~Foremost.waiting
  <2>1. /\ Claimed = {} /\ trackers[t].waiting /\ FrontTracker.handled = {} /\ 1 \in Updates(t)
        /\ wire[1] = Foremost /\ \A j \in Updates(t) : j # 1 => Current(t, j)
    BY <1>10, ClaimIsOfTheWait DEF s
  <2>2. \A i \in Updates(t)' : Current(t, i)' /\ wire'[i].waiting
    <3>1. TAKE i \in Updates(t)'
    <3>2. i + 1 \in Updates(t) /\ wire'[i] = wire[i + 1] /\ i \in Nat /\ i > 0
      BY <1>1, UpdatesShifted
    <3>3. i + 1 # 1
      BY <3>2
    <3>4. Current(t, i + 1)
      BY <2>1, <3>2, <3>3
    <3>5. QED
      BY <1>1, <3>2, <3>4 DEF Current
  <2>3. Ends(t)' = {}
    BY <2>2 DEF Ends
  <2>4. ~trackers'[t].waiting /\ trackers'[t].handled = {}
    BY <1>7, <1>10, <2>1
  <2>5. ~Reached(t)'
    BY <2>4 DEF Reached
  <2>6. ~Reached(t)
    BY <1>10, <2>1 DEF Reached, Ends
  <2>7. EndsSeparate(t)' /\ NoEndAllCurrent(t)'
    BY <2>2, <2>3 DEF EndsSeparate, NoEndAllCurrent
  <2>8. TrackerKnows(t)'
    BY <1>1, <1>3, <2>4, <2>5, <2>6 DEF StepInv, TrackerKnows
  <2>9. NothingInHand(t)'
    BY <1>1, <1>3, <1>5, <2>1, <2>5, <2>6, HandIs DEF StepInv
  <2>10. QED
    BY <2>7, <2>8, <2>9 DEF StepInv
\* The first update of a wait.
<1>11. CASE t = s /\ Claimed # {}
  <2>1. /\ Foremost.waiting /\ at[t] = "waiting" /\ Ends(t) = {} /\ Claimed = asked[t]
        /\ FrontTracker.handled = {} /\ pending[t] = asked[t]
    BY <1>11, ClaimIsOfTheWait DEF s
  <2>2. \A i \in Updates(t)' : Current(t, i)' /\ wire'[i].waiting
    <3>1. TAKE i \in Updates(t)'
    <3>2. i + 1 \in Updates(t) /\ wire'[i] = wire[i + 1]
      BY <1>1, UpdatesShifted
    <3>3. Current(t, i + 1)
      BY <1>3, <2>1, <3>2 DEF StepInv, NoEndAllCurrent
    <3>4. QED
      BY <1>1, <3>2, <3>3 DEF Current
  <2>3. Ends(t)' = {}
    BY <2>2 DEF Ends
  <2>4. trackers'[t].waiting /\ trackers'[t].handled = asked[t]
    BY <1>7, <1>11, <2>1
  <2>5. Reached(t)'
    BY <2>3, <2>4 DEF Reached
  <2>6. EndsSeparate(t)' /\ NoEndAllCurrent(t)'
    BY <2>2, <2>3 DEF EndsSeparate, NoEndAllCurrent
  <2>7. TrackerKnows(t)'
    BY <1>1, <1>3, <2>1, <2>4, <2>5 DEF StepInv, TrackerKnows
  <2>8. NothingInHand(t)'
    BY <2>5, HandIs
  <2>9. QED
    BY <2>6, <2>7, <2>8 DEF StepInv
<1>12. QED
  BY <1>8, <1>9, <1>10, <1>11

----------------------------------------------------------------------------
\* What each action does to the requests.

\* The harness asks about a rule: nobody has a request of that step.
LEMMA AsksKeepRequests ==
  ASSUME TypesInv, RequestsAreAlone, RequestsAreOutstanding, NEW s \in Steps,
         CheckCall(s) \/ AskUnknownRule(s)
  PROVE  RequestsAreAlone' /\ RequestsAreOutstanding'
<1> USE DEF session, ghosts
<1>1. /\ UNCHANGED <<episode, pending, inbox, workers>>
      /\ at[s] \in {"new", "checking"} /\ at \in [Steps -> Positions]
  BY DEF CheckCall, AskUnknownRule, TypesInv, TypeOK
<1>2. \/ /\ wire' = wire
         /\ \E to : at' = [at EXCEPT ![s] = to]
      \/ /\ at' = [at EXCEPT ![s] = "deciding"]
         /\ \E id : wire' = Append(wire, PolicyRequest(s, id))
  BY DEF CheckCall, AskUnknownRule, Settle
<1>3. /\ \A i \in DOMAIN wire : wire[i].step = s => wire[i].kind # "policy"
      /\ \A i \in DOMAIN workers : workers[i].step # s
      /\ \A i \in DOMAIN inbox : inbox[i].step # s
  BY <1>1, HeldIsOutstanding DEF RequestsAreOutstanding, Held
<1>4. \A t \in Steps : t # s => at'[t] = at[t]
  BY <1>1, <1>2
<1>5. /\ \A i \in DOMAIN wire : wire[i].step \in Steps
      /\ \A i \in DOMAIN workers : workers[i].step \in Steps
      /\ \A i \in DOMAIN inbox : inbox[i].step \in Steps
  BY DEF TypesInv, IsFrame, IsRequest, IsAnswer
<1>6. /\ \A i \in DOMAIN workers : Outstanding(workers[i])'
      /\ \A i \in DOMAIN inbox : Outstanding(inbox[i])'
  BY <1>1, <1>3, <1>4, <1>5 DEF RequestsAreOutstanding, Outstanding
<1>7. CASE wire' = wire
  <2>1. RequestsAreAlone'
    BY <1>1, <1>7 DEF RequestsAreAlone, Alone, Apart
  <2>2. RequestsAreOutstanding'
    BY <1>1, <1>3, <1>4, <1>5, <1>6, <1>7 DEF RequestsAreOutstanding
  <2>3. QED
    BY <2>1, <2>2
<1>8. CASE at' = [at EXCEPT ![s] = "deciding"] /\ \E id : wire' = Append(wire, PolicyRequest(s, id))
  <2>1. PICK e : wire' = Append(wire, e) /\ e.kind = "policy" /\ e.step = s
    BY <1>8 DEF PolicyRequest
  <2>2. Unlike(e, wire) /\ Unlike(e, workers) /\ Unlike(e, inbox)
    BY <1>3, <2>1 DEF Unlike, Same
  <2>3. /\ Alone(wire') /\ Apart(wire', workers) /\ Apart(wire', inbox)
    BY <2>1, <2>2, AppendedStayAlone DEF RequestsAreAlone, TypesInv
  <2>4. RequestsAreAlone'
    BY <1>1, <2>3 DEF RequestsAreAlone, Alone, Apart
  <2>5. at'[s] = "deciding"
    BY <1>1, <1>8
  <2>6. \A i \in DOMAIN wire' : wire'[i].kind = "policy" => at'[wire'[i].step] = "deciding"
    <3>1. \A i \in DOMAIN wire' : wire'[i] = e \/ \E j \in DOMAIN wire : wire'[i] = wire[j]
      BY <2>1, Appended DEF TypesInv
    <3>2. \A j \in DOMAIN wire : wire[j].kind = "policy" => at'[wire[j].step] = "deciding"
      BY <1>3, <1>4, <1>5 DEF RequestsAreOutstanding
    <3>3. QED
      BY <2>1, <2>5, <3>1, <3>2
  <2>7. RequestsAreOutstanding'
    BY <1>1, <1>6, <2>6 DEF RequestsAreOutstanding
  <2>8. QED
    BY <2>4, <2>7
<1>9. QED
  BY <1>2, <1>7, <1>8

\* Updates ask nothing of their own, and a wait begins and ends with no request
\* of its step in anybody's hands.
LEMMA WaitsKeepRequests ==
  ASSUME TypesInv, RequestsAreAlone, RequestsAreOutstanding, NEW s \in Steps,
         WaitForUser(s) \/ RepeatUpdate(s) \/ Resume(s)
  PROVE  RequestsAreAlone' /\ RequestsAreOutstanding'
<1> USE DEF session
<1>1. UNCHANGED <<inbox, workers>> /\ wire' = Append(wire, Update(s)) /\ Update(s).kind = "update"
  BY DEF WaitForUser, RepeatUpdate, Resume, Update
<1>2. PICK e : wire' = Append(wire, e) /\ e.kind = "update"
  BY <1>1
<1>3. Unlike(e, wire) /\ Unlike(e, workers) /\ Unlike(e, inbox)
  BY <1>2 DEF Unlike
<1>4. Alone(wire') /\ Apart(wire', workers) /\ Apart(wire', inbox)
  BY <1>2, <1>3, AppendedStayAlone DEF RequestsAreAlone, TypesInv
<1>5. RequestsAreAlone'
  BY <1>1, <1>4 DEF RequestsAreAlone, Alone, Apart
<1>6. \A t \in Steps : t # s => /\ at'[t] = at[t] /\ pending'[t] = pending[t]
                                /\ episode'[t] = episode[t]
  BY DEF WaitForUser, RepeatUpdate, Resume, TypesInv, TypeOK
<1>7. \/ at'[s] = at[s] /\ pending'[s] = pending[s] /\ episode'[s] = episode[s]
      \/ /\ at[s] # "deciding" /\ ~Held(s)
  <2>1. CASE WaitForUser(s)
    BY <2>1, HeldIsOutstanding DEF WaitForUser
  <2>2. CASE RepeatUpdate(s)
    BY <2>2 DEF RepeatUpdate
  <2>3. CASE Resume(s)
    BY <2>3, HeldIsOutstanding DEF Resume
  <2>4. QED
    BY <2>1, <2>2, <2>3
<1>8. /\ \A i \in DOMAIN wire : wire[i].step \in Steps
      /\ \A i \in DOMAIN workers : workers[i].step \in Steps
      /\ \A i \in DOMAIN inbox : inbox[i].step \in Steps
  BY DEF TypesInv, IsFrame, IsRequest, IsAnswer
<1>9. /\ \A i \in DOMAIN workers : Outstanding(workers[i])'
      /\ \A i \in DOMAIN inbox : Outstanding(inbox[i])'
  BY <1>1, <1>6, <1>7, <1>8 DEF RequestsAreOutstanding, Outstanding, Held
<1>10. \A i \in DOMAIN wire' : wire'[i].kind = "policy" => at'[wire'[i].step] = "deciding"
  <2>1. \A i \in DOMAIN wire' : wire'[i] = e \/ \E j \in DOMAIN wire : wire'[i] = wire[j]
    BY <1>2, Appended DEF TypesInv
  <2>2. \A j \in DOMAIN wire : wire[j].kind = "policy" => at'[wire[j].step] = "deciding"
    BY <1>6, <1>7, <1>8 DEF RequestsAreOutstanding
  <2>3. QED
    BY <1>2, <2>1, <2>2
<1>11. RequestsAreOutstanding'
  BY <1>1, <1>9, <1>10 DEF RequestsAreOutstanding
<1>12. QED
  BY <1>5, <1>11

LEMMA TakeKeepsRequests ==
  ASSUME TypesInv, RequestsAreAlone, RequestsAreOutstanding, TakeAnswer
  PROVE  RequestsAreAlone' /\ RequestsAreOutstanding'
<1> DEFINE m == Head(inbox)
<1>1. /\ inbox # <<>> /\ inbox' = Tail(inbox) /\ UNCHANGED <<wire, workers, episode>>
      /\ IsSeq(inbox)
  BY DEF TakeAnswer, TypesInv
<1>2. Selected(inbox', inbox)
  BY <1>1, TailSelected
<1>3. RequestsAreAlone'
  <2>1. Alone(inbox') /\ Apart(wire, inbox') /\ Apart(workers, inbox')
    BY <1>2, SelectedStayAlone DEF RequestsAreAlone
  <2>2. QED
    BY <1>1, <2>1 DEF RequestsAreAlone, Alone, Apart
<1>4. /\ IsAnswer(m) /\ m.step \in Steps
      /\ m.kind = "policy" => /\ at[m.step] = "deciding" /\ pending' = pending
                              /\ \A t \in Steps : t # m.step => at'[t] = at[t]
      /\ m.kind # "policy" => /\ at[m.step] = "waiting" /\ at' = at
                              /\ pending'[m.step] = pending[m.step] \ {m.kind}
                              /\ \A t \in Steps : t # m.step => pending'[t] = pending[t]
  BY TakenIsAwaited
<1>5. /\ \A i \in DOMAIN wire : wire[i].kind # "update" => ~Same(wire[i], m)
      /\ \A i \in DOMAIN workers : workers[i].kind # "update" => ~Same(workers[i], m)
      /\ \A i \in DOMAIN inbox' : m.kind # "update" => ~Same(inbox'[i], m)
  <2>1. 1 \in DOMAIN inbox /\ m = inbox[1]
    BY <1>1, Shortened
  <2>2. QED
    BY <1>1, <2>1, TailSelected DEF RequestsAreAlone, Apart
<1> HIDE DEF m
<1>6. /\ \A i \in DOMAIN wire : wire[i].step \in Steps
      /\ \A i \in DOMAIN workers : workers[i].step \in Steps /\ workers[i].kind \in Kinds \union {"policy"}
      /\ \A i \in DOMAIN inbox' : /\ inbox'[i].step \in Steps /\ inbox'[i].kind \in Kinds \union {"policy"}
                                  /\ Outstanding(inbox'[i])
  BY <1>1, Shortened DEF TypesInv, IsFrame, IsRequest, IsAnswer, RequestsAreOutstanding
<1>7. m.kind \in Kinds \union {"policy"} /\ m.kind # "update"
  BY <1>4 DEF IsAnswer, Kinds
<1>8. ASSUME NEW r, r.step \in Steps, r.kind \in Kinds \union {"policy"}, Outstanding(r), ~Same(r, m)
      PROVE  Outstanding(r)'
  <2>1. CASE r.step # m.step
    BY <1>1, <1>4, <1>8, <2>1 DEF Outstanding
  <2>2. CASE r.step = m.step
    <3>1. r.kind # m.kind
      BY <1>8, <2>2 DEF Same
    <3>2. QED
      BY <1>1, <1>4, <1>8, <2>2, <3>1 DEF Outstanding
  <2>3. QED
    BY <2>1, <2>2
<1>9. \A i \in DOMAIN workers : Outstanding(workers[i])'
  <2>1. TAKE i \in DOMAIN workers
  <2>2. PICK r : r = workers[i]
    OBVIOUS
  <2>3. r.step \in Steps /\ r.kind \in Kinds \union {"policy"} /\ Outstanding(r) /\ ~Same(r, m)
    BY <1>5, <1>6, <2>2 DEF RequestsAreOutstanding, Kinds
  <2>4. Outstanding(r)'
    BY <1>8, <2>3
  <2>5. QED
    BY <1>1, <2>2, <2>4 DEF Outstanding
<1>10. \A i \in DOMAIN inbox' : ~Same(inbox'[i], m)
  BY <1>5, <1>7
<1>11. \A i \in DOMAIN wire : wire[i].kind = "policy" => at'[wire[i].step] = "deciding"
  <2>1. SUFFICES ASSUME NEW i \in DOMAIN wire, wire[i].kind = "policy"
                 PROVE  at'[wire[i].step] = "deciding"
    OBVIOUS
  <2>2. at[wire[i].step] = "deciding" /\ ~Same(wire[i], m)
    BY <1>5, <2>1 DEF RequestsAreOutstanding
  <2>3. QED
    BY <1>4, <1>6, <2>1, <2>2 DEF Same
<1>12. QED
  BY <1>1, <1>3, <1>6, <1>8, <1>9, <1>10, <1>11 DEF RequestsAreOutstanding

LEMMA StartKeepsRequests ==
  ASSUME TypesInv, RequestsAreAlone, RequestsAreOutstanding, StartPolicyDecision
  PROVE  RequestsAreAlone' /\ RequestsAreOutstanding'
<1> USE DEF session, harnessVars
<1>1. /\ UNCHANGED <<at, pending, episode, inbox>> /\ wire # <<>> /\ wire' = Tail(wire)
      /\ Foremost.kind = "policy" /\ workers' = Append(workers, Foremost)
      /\ IsSeq(wire) /\ IsSeq(workers)
  BY DEF StartPolicyDecision, Recv, Foremost, TypesInv
<1>2. 1 \in DOMAIN wire /\ Foremost = wire[1] /\ Selected(wire', wire)
  BY <1>1, Shortened, TailSelected DEF Foremost
<1>3. PICK e : e = Foremost
  OBVIOUS
<1>4. Alone(wire') /\ Apart(wire', workers) /\ Apart(wire', inbox)
  BY <1>2, SelectedStayAlone DEF RequestsAreAlone
<1>5. Unlike(e, wire') /\ Unlike(e, workers) /\ Unlike(e, inbox)
  <2>1. Unlike(e, wire')
    BY <1>1, <1>3, TailSelected DEF RequestsAreAlone, Unlike, Foremost
  <2>2. Unlike(e, workers) /\ Unlike(e, inbox)
    BY <1>1, <1>2, <1>3 DEF RequestsAreAlone, Unlike, Apart, Same
  <2>3. QED
    BY <2>1, <2>2
<1>6. workers' = Append(workers, e)
  BY <1>1, <1>3
<1>7. Alone(workers') /\ Apart(workers', inbox) /\ Apart(wire', workers')
  BY <1>1, <1>4, <1>5, <1>6, AppendedStayAlone DEF RequestsAreAlone
<1>8. RequestsAreAlone'
  BY <1>1, <1>4, <1>7 DEF RequestsAreAlone, Alone, Apart
<1>9. Outstanding(e)
  BY <1>1, <1>2, <1>3 DEF RequestsAreOutstanding, Outstanding
<1>10. \A i \in DOMAIN workers' : workers'[i] = e \/ \E j \in DOMAIN workers : workers'[i] = workers[j]
  BY <1>1, <1>6, Appended
<1>11. \A i \in DOMAIN workers' : Outstanding(workers'[i])
  BY <1>9, <1>10 DEF RequestsAreOutstanding
<1>12. \A i \in DOMAIN wire' : \E j \in DOMAIN wire : wire'[i] = wire[j]
  BY <1>1, Shortened
<1>13. RequestsAreOutstanding'
  BY <1>1, <1>11, <1>12 DEF RequestsAreOutstanding, Outstanding
<1>14. QED
  BY <1>8, <1>13

LEMMA SendKeepsRequests ==
  ASSUME TypesInv, RequestsAreAlone, RequestsAreOutstanding, Answer
  PROVE  RequestsAreAlone' /\ RequestsAreOutstanding'
<1> USE DEF session, harnessVars
<1>0. PICK w \in DOMAIN workers : \E m : Answers_(w, m) /\ Send(w, m)
  BY AnswerSends
<1>1. PICK m : Answers_(w, m) /\ Send(w, m)
  BY <1>0
<1>2. /\ UNCHANGED <<at, pending, episode, wire>> /\ inbox' = Append(inbox, m)
      /\ workers' = RemoveAt(workers, w) /\ IsSeq(inbox) /\ IsSeq(workers)
  BY <1>1 DEF Send, TypesInv
<1>3. /\ m.kind = workers[w].kind /\ m.step = workers[w].step
      /\ m.kind \in Kinds \union {"policy"} /\ m.kind # "update"
      /\ m.kind \in Kinds => m.episode = workers[w].episode
  BY <1>1 DEF Answers_, TypesInv, IsRequest, Kinds
<1>4. Selected(workers', workers) /\ \A i \in DOMAIN workers' : ~Same(workers'[i], m)
  BY <1>2, <1>3, RemovedIs DEF RequestsAreAlone, Same
<1>5. Alone(workers') /\ Apart(workers', inbox) /\ Apart(wire, workers')
  BY <1>4, SelectedStayAlone DEF RequestsAreAlone
<1>6. Unlike(m, workers') /\ Unlike(m, inbox) /\ Unlike(m, wire)
  <2>1. Unlike(m, workers')
    BY <1>4 DEF Unlike
  <2>2. Unlike(m, inbox)
    BY <1>3 DEF RequestsAreAlone, Apart, Unlike, Same
  <2>3. Unlike(m, wire)
    BY <1>3 DEF RequestsAreAlone, Apart, Unlike, Same
  <2>4. QED
    BY <2>1, <2>2, <2>3
<1>7. Alone(inbox') /\ Apart(workers', inbox') /\ Apart(wire, inbox')
  BY <1>2, <1>5, <1>6, AppendedStayAlone DEF RequestsAreAlone
<1>8. RequestsAreAlone'
  BY <1>2, <1>5, <1>7 DEF RequestsAreAlone, Alone, Apart
<1>9. Outstanding(m)
  <2>1. Outstanding(workers[w])
    BY DEF RequestsAreOutstanding
  <2>2. QED
    BY <1>3, <2>1 DEF Outstanding
<1>10. \A i \in DOMAIN inbox' : Outstanding(inbox'[i])
  <2>1. \A i \in DOMAIN inbox' : inbox'[i] = m \/ \E j \in DOMAIN inbox : inbox'[i] = inbox[j]
    BY <1>2, Appended
  <2>2. QED
    BY <1>9, <2>1 DEF RequestsAreOutstanding
<1>11. \A i \in DOMAIN workers' : Outstanding(workers'[i])
  BY <1>4 DEF RequestsAreOutstanding, Selected
<1>12. RequestsAreOutstanding'
  BY <1>2, <1>10, <1>11 DEF RequestsAreOutstanding, Outstanding
<1>13. QED
  BY <1>8, <1>12

\* A claim is of a wait nobody has a request of yet.
LEMMA UpdateKeepsRequests ==
  ASSUME TypesInv, AnswersInv, HandleStepUpdate
  PROVE  RequestsAreAlone' /\ RequestsAreOutstanding'
<1> USE DEF session, harnessVars
<1> DEFINE s == Foremost.step
           New == DOMAIN workers' \ DOMAIN workers
<1>1. /\ UNCHANGED <<at, pending, episode, inbox>> /\ wire # <<>> /\ wire' = Tail(wire)
      /\ IsSeq(wire) /\ IsSeq(workers)
  BY DEF HandleStepUpdate, Recv, TypesInv
<1>2. /\ IsSeq(workers') /\ DOMAIN workers \subseteq DOMAIN workers'
      /\ \A i \in DOMAIN workers : workers'[i] = workers[i]
      /\ \A i \in New : /\ workers'[i].kind \in Claimed /\ workers'[i].step = s
                        /\ workers'[i].episode = Foremost.episode
      /\ \A i, j \in New : i # j => workers'[i].kind # workers'[j].kind
      /\ Claimed \subseteq Kinds
  BY UpdateClaims
<1>3. Claimed # {} => /\ at[s] = "waiting" /\ ~Reached(s) /\ s \in Steps
                      /\ Claimed = pending[s] /\ Foremost.episode = episode[s]
  BY ClaimIsOfTheWait DEF AnswersInv
<1>4. Claimed # {} => ~Held(s)
  BY <1>3, HandIs DEF AnswersInv, WaitsInv, StepInv
<1>5. \A i \in DOMAIN wire : wire[i].kind \notin Kinds
  BY DEF TypesInv, IsFrame, Kinds
<1> HIDE DEF s, New
<1>6. Selected(wire', wire)
  BY <1>1, TailSelected
<1>7. Alone(wire') /\ Apart(wire', workers) /\ Apart(wire', inbox) /\ Alone(workers) /\ Apart(workers, inbox)
      /\ Alone(inbox)
  BY <1>6, SelectedStayAlone DEF AnswersInv, RequestsAreAlone
<1>8. \A i \in DOMAIN wire' : wire'[i].kind \notin Kinds
  BY <1>5, <1>6 DEF Selected
<1>9. \A i \in New : /\ \A j \in DOMAIN wire' : ~Same(wire'[j], workers'[i])
                     /\ \A j \in DOMAIN workers : workers[j].step # s
                     /\ \A j \in DOMAIN inbox : inbox[j].step # s
  BY <1>2, <1>4, <1>8 DEF Same, Held
<1>10. \A i \in DOMAIN workers' : i \in DOMAIN workers \/ i \in New
  BY DEF New
<1>11. Alone(workers')
  <2>1. SUFFICES ASSUME NEW i \in DOMAIN workers', NEW j \in DOMAIN workers', i # j
                 PROVE  ~Same(workers'[i], workers'[j])
    BY DEF Alone
  <2>2. CASE i \in New \/ j \in New
    BY <1>2, <1>9, <1>10, <2>1, <2>2 DEF Same
  <2>3. CASE i \in DOMAIN workers /\ j \in DOMAIN workers
    <3>1. \A k \in DOMAIN workers : workers[k].kind # "update"
      BY DEF TypesInv, IsRequest, Kinds
    <3>2. QED
      BY <1>2, <1>7, <2>1, <2>3, <3>1 DEF Alone
  <2>4. QED
    BY <1>10, <2>2, <2>3
<1>12. Apart(wire', workers')
  BY <1>2, <1>7, <1>9, <1>10 DEF Apart
<1>13. Apart(workers', inbox)
  BY <1>2, <1>7, <1>9, <1>10 DEF Apart, Same
<1>14. RequestsAreAlone'
  BY <1>1, <1>7, <1>11, <1>12, <1>13 DEF RequestsAreAlone, Alone, Apart
<1>15. \A i \in DOMAIN workers' : Outstanding(workers'[i])
  <2>1. TAKE i \in DOMAIN workers'
  <2>2. CASE i \in DOMAIN workers
    BY <1>2, <2>2 DEF AnswersInv, RequestsAreOutstanding
  <2>3. CASE i \in New
    <3>1. /\ workers'[i].kind \in pending[s] /\ workers'[i].step = s /\ at[s] = "waiting"
          /\ workers'[i].episode = episode[s] /\ workers'[i].kind # "policy"
      BY <1>2, <1>3, <2>3 DEF Kinds
    <3>2. QED
      BY <3>1 DEF Outstanding
  <2>4. QED
    BY <1>10, <2>2, <2>3
<1>16. \A i \in DOMAIN wire' : \E j \in DOMAIN wire : wire'[i] = wire[j]
  BY <1>1, Shortened
<1>17. RequestsAreOutstanding'
  BY <1>1, <1>15, <1>16 DEF AnswersInv, RequestsAreOutstanding, Outstanding
<1>18. QED
  BY <1>14, <1>17

----------------------------------------------------------------------------
\* Every answer has a request that waits for it.

LEMMA AnswersStep ==
  ASSUME TypesInv, TypesInv', AnswersInv, [Next]_vars
  PROVE  AnswersInv' /\ stray' = stray
<1>1. ASSUME NEW s \in Steps, HarnessAsks(s) \/ Resume(s) PROVE AnswersInv' /\ stray' = stray
  <2>1. CASE CheckCall(s) \/ AskUnknownRule(s)
    <3>1. stray' = stray
      BY <2>1 DEF CheckCall, AskUnknownRule, ghosts
    <3>2. QED
      BY <2>1, <3>1, AsksKeepRequests, AsksKeepWaits DEF AnswersInv
  <2>2. CASE WaitForUser(s) \/ RepeatUpdate(s) \/ Resume(s)
    <3>1. stray' = stray
      BY <2>2 DEF WaitForUser, RepeatUpdate, Resume, ghosts
    <3>2. QED
      BY <2>2, <3>1, WaitsKeepRequests, WaitsKeepWaits DEF AnswersInv
  <2>3. QED
    BY <1>1, <2>1, <2>2 DEF HarnessAsks
<1>2. CASE TakeAnswer
  <2>1. stray' = stray
    <3>1. Outstanding(Head(inbox))
      BY <1>2, TakenIsAwaited DEF AnswersInv
    <3>2. QED
      BY <1>2, <3>1 DEF TakeAnswer
  <2>2. QED
    BY <1>2, <2>1, TakeKeepsRequests, AnswersKeepWaits DEF AnswersInv
<1>3. CASE HandleStepUpdate
  <2>1. stray' = stray
    BY <1>3 DEF HandleStepUpdate, Recv, ghosts
  <2>2. QED
    BY <1>3, <2>1, UpdateKeepsRequests, UpdateKeepsWaits DEF AnswersInv
<1>4. CASE StartPolicyDecision
  <2>1. stray' = stray
    BY <1>4 DEF StartPolicyDecision, Recv, ghosts
  <2>2. QED
    BY <1>4, <2>1, StartKeepsRequests, StartKeepsWaits DEF AnswersInv
<1>5. CASE Answer
  <2>1. stray' = stray
    BY <1>5, AnswerSends DEF Send, ghosts
  <2>2. QED
    BY <1>5, <2>1, SendKeepsRequests, AnswersKeepWaits DEF AnswersInv
<1>6. CASE UNCHANGED vars
  <2> USE <1>6 DEF vars, session, harnessVars, ghosts
  <2>1. RequestsAreAlone'
    BY DEF AnswersInv, RequestsAreAlone, Alone, Apart
  <2>2. RequestsAreOutstanding'
    BY DEF AnswersInv, RequestsAreOutstanding, Outstanding
  <2>3. WaitsInv'
    BY DEF AnswersInv, WaitsInv, StepInv, EndsSeparate, NoEndAllCurrent, TrackerKnows,
           NothingInHand, Reached, Current, Ends, Updates, Steps
  <2>4. QED
    BY <2>1, <2>2, <2>3 DEF AnswersInv
<1>7. QED
  BY <1>1, <1>2, <1>3, <1>4, <1>5, <1>6 DEF Next

LEMMA AnswersInit == Init => AnswersInv /\ NoStrayAnswer
<1>1. SUFFICES ASSUME Init PROVE AnswersInv /\ NoStrayAnswer
  OBVIOUS
<1>2. /\ wire = <<>> /\ inbox = <<>> /\ workers = <<>> /\ stray = 0
      /\ at = [s \in Steps |-> "new"] /\ trackers = [s \in Steps |-> NewTracker]
  BY <1>1 DEF Init
<1>3. DOMAIN wire = {} /\ DOMAIN inbox = {} /\ DOMAIN workers = {}
  BY <1>2
<1>4. RequestsAreAlone /\ RequestsAreOutstanding
  BY <1>3 DEF RequestsAreAlone, Alone, Apart, RequestsAreOutstanding
<1>5. \A s \in Steps : Updates(s) = {} /\ Ends(s) = {}
  BY <1>3 DEF Updates, Ends
<1>6. ASSUME NEW s \in Steps PROVE StepInv(s)
  <2>1. at[s] = "new" /\ trackers[s].waiting = FALSE /\ trackers[s].handled = {}
    BY <1>2 DEF NewTracker
  <2>2. ~Reached(s)
    BY <2>1 DEF Reached
  <2>3. QED
    BY <1>5, <2>1, <2>2 DEF StepInv, EndsSeparate, NoEndAllCurrent, TrackerKnows, NothingInHand
<1>7. QED
  BY <1>2, <1>4, <1>6 DEF AnswersInv, WaitsInv, NoStrayAnswer

LEMMA AnswersHold == Spec => [](TypesInv /\ RulesInv /\ AnswersInv /\ NoStrayAnswer)
<1>1. Init => AnswersInv /\ NoStrayAnswer
  BY AnswersInit
<1>2. TypesInv /\ TypesInv' /\ AnswersInv /\ NoStrayAnswer /\ [Next]_vars
        => (AnswersInv /\ NoStrayAnswer)'
  BY AnswersStep DEF NoStrayAnswer
<1>3. QED
  BY <1>1, <1>2, TypesHold, PTL DEF Spec

\* However often the update of a step that waits is repeated, and whenever the
\* goroutines make their answers: no answer comes to a harness that does not
\* wait for it, none twice, and none of an earlier wait of the step to a later.
THEOREM NoAnswerIsStray == Spec => []NoStrayAnswer
BY AnswersHold, PTL

----------------------------------------------------------------------------
\* The verdict on a call is the one of Enforcer.Evaluate.

\* A rule that is passed over is one Evaluate passes over, and a rule that
\* applies has the policy Evaluate comes to.
LEMMA RuleIsPolicy ==
  ASSUME RulesInv, NEW k \in DOMAIN rules, NEW s
  PROVE  LET p == policies[Order[k]]
         IN /\ rules[k].marker \/ ~matchesTarget(rules[k], call[s]) => Passed(s, k)
            /\ ~rules[k].marker /\ matchesTarget(rules[k], call[s]) /\ rules[k].id = 0 =>
                 Considered(p, call[s]) = IF rules[k].decision = "approve" THEN "allow" ELSE "deny"
            /\ matchesTarget(rules[k], call[s]) /\ rules[k].id # 0 =>
                 Considered(p, call[s]) =
                   IF PolicyDecision(policies, rules[k].id) = "noMatch" THEN "continue"
                   ELSE PolicyDecision(policies, rules[k].id)
<1> DEFINE i == Order[k]
           p == policies[i]
<1>1. /\ policies \in Seq(Policy) /\ i \in DOMAIN policies /\ i > 0 /\ i \in Nat
      /\ rules[k].server = p.server /\ rules[k].tool = p.tool
      /\ rules[k].decision = p.decision /\ rules[k].marker = p.marker
      /\ rules[k].id = IF isDynamic(p) THEN i ELSE 0
  BY RulesAreInOrder DEF RulesInv
<1> HIDE DEF i
<1>2. matchesTarget(rules[k], call[s]) <=> matchesTarget(p, call[s])
  BY <1>1 DEF matchesTarget
<1>3. /\ rules[k].id = 0 <=> ~isDynamic(p)
      /\ isDynamic(p) => rules[k].id = i
  BY <1>1
<1>4. rules[k].marker \/ ~matchesTarget(rules[k], call[s]) => Considered(p, call[s]) = "continue"
  BY <1>1, <1>2 DEF Considered
<1>5. PICK c : c = call[s]
  OBVIOUS
<1>6. /\ ~p.marker /\ matchesTarget(p, c) /\ ~isDynamic(p) =>
           Considered(p, c) = IF p.decision = "approve" THEN "allow" ELSE "deny"
      /\ matchesTarget(p, c) /\ isDynamic(p) =>
           Considered(p, c) = IF PolicyDecision(policies, i) = "noMatch" THEN "continue"
                              ELSE PolicyDecision(policies, i)
  BY <1>1, RulesAnswerAlike
<1>7. QED
  BY <1>1, <1>2, <1>3, <1>4, <1>5, <1>6 DEF Passed, i

\* What Evaluate answers, from what it passes over.
LEMMA EvaluateKnows ==
  ASSUME RulesInv, NEW s
  PROVE  /\ (\A k \in DOMAIN rules : Passed(s, k)) => Evaluate(policies, call[s]) = "allow"
         /\ \A k \in DOMAIN rules :
              LET p == policies[Order[k]]
              IN /\ Considered(p, call[s]) # "continue"
                 /\ \A l \in DOMAIN rules : l < k => Passed(s, l)
                 => Evaluate(policies, call[s]) = Considered(p, call[s])
<1>1. /\ policies \in Seq(Policy) /\ DOMAIN rules = DOMAIN policies
      /\ DOMAIN policies = 1..Len(policies) /\ Len(policies) \in Nat
  BY RulesAreInOrder DEF RulesInv
<1>2. PICK c : c = call[s]
  OBVIOUS
<1>3. /\ (\A k \in DOMAIN policies : Considered(policies[Order[k]], c) = "continue") =>
           Evaluate(policies, c) = "allow"
      /\ \A k \in DOMAIN policies :
           /\ Considered(policies[Order[k]], c) # "continue"
           /\ \A l \in 1..(k - 1) : Considered(policies[Order[l]], c) = "continue"
           => Evaluate(policies, c) = Considered(policies[Order[k]], c)
  BY <1>1, EvaluateInOrder DEF Order
<1>4. \A k \in DOMAIN policies : \A l \in 1..(k - 1) : l \in DOMAIN rules /\ l < k
  BY <1>1
<1>5. QED
  BY <1>1, <1>2, <1>3, <1>4 DEF Passed

\* The harness checks a call.
LEMMA CheckKeepsVerdicts ==
  ASSUME TypesInv, RulesInv, ChecksInv, NEW s \in Steps, CheckCall(s)
  PROVE  ChecksGoOn(s)' /\ (s \notin misasked' /\ verdict'[s] # "none" =>
                              verdict'[s] = Evaluate(policies, call[s]))
         /\ s \notin misasked'
<1> USE DEF session, ghosts
<1>1. /\ UNCHANGED <<policies, call, rules, misasked>> /\ at[s] \in {"new", "checking"}
      /\ at \in [Steps -> Positions] /\ rule \in [Steps -> Nat]
      /\ verdict \in [Steps -> {"none", "allow", "deny"}]
  BY DEF CheckCall, TypesInv, TypeOK
<1>2. /\ s \notin misasked /\ verdict[s] = "none" /\ rule[s] \in 0..Len(policies)
      /\ \A k \in 1..rule[s] : Passed(s, k)
  BY <1>1 DEF ChecksInv, ChecksGoOn
<1>3. /\ DOMAIN rules = 1..Len(policies) /\ Len(policies) \in Nat /\ DOMAIN policies = DOMAIN rules
      /\ \A k \in DOMAIN rules : k \in Nat
  BY RulesAreInOrder
<1>4. \A k \in DOMAIN rules : k \notin RulesLeft(s) => Passed(s, k)
  <2>1. TAKE k \in DOMAIN rules
  <2>2. HAVE k \notin RulesLeft(s)
  <2>3. CASE k > rule[s]
    BY <2>2, <2>3, RuleIsPolicy DEF RulesLeft
  <2>4. CASE ~(k > rule[s])
    <3>1. k \in 1..rule[s]
      BY <1>2, <1>3, <2>4
    <3>2. QED
      BY <1>2, <3>1
  <2>5. QED
    BY <2>3, <2>4
<1>5. ASSUME NEW o \in {"allow", "deny"}, Settle(s, o), Evaluate(policies, call[s]) = o
      PROVE  ChecksGoOn(s)' /\ verdict'[s] = Evaluate(policies, call[s])
  <2>1. verdict'[s] = o /\ at'[s] \in {"ready", "refused"} /\ rule'[s] = rule[s]
    BY <1>1, <1>5 DEF Settle
  <2>2. QED
    BY <1>1, <1>2, <1>5, <2>1 DEF ChecksGoOn
<1>6. CASE RulesLeft(s) = {} /\ Settle(s, "allow")
  <2>1. Evaluate(policies, call[s]) = "allow"
    BY <1>4, <1>6, EvaluateKnows
  <2>2. QED
    BY <1>1, <1>2, <1>5, <1>6, <2>1
<1>7. ASSUME NEW k \in RulesLeft(s), \A l \in RulesLeft(s) : k <= l,
             IF rules[k].id = 0
             THEN Settle(s, IF rules[k].decision = "approve" THEN "allow" ELSE "deny")
             ELSE /\ rule' = [rule EXCEPT ![s] = k]
                  /\ at' = [at EXCEPT ![s] = "deciding"]
                  /\ UNCHANGED verdict
      PROVE  /\ ChecksGoOn(s)'
             /\ verdict'[s] # "none" => verdict'[s] = Evaluate(policies, call[s])
  <2>1. k \in DOMAIN rules /\ ~rules[k].marker /\ matchesTarget(rules[k], call[s])
    BY DEF RulesLeft
  <2>2. \A l \in DOMAIN rules : l < k => Passed(s, l)
    <3>1. TAKE l \in DOMAIN rules
    <3>2. HAVE l < k
    <3>3. l \notin RulesLeft(s)
      BY <1>3, <1>7, <2>1, <3>2
    <3>4. QED
      BY <1>4, <3>3
  <2>3. CASE rules[k].id = 0
    <3> DEFINE o == IF rules[k].decision = "approve" THEN "allow" ELSE "deny"
    <3>1. Considered(policies[Order[k]], call[s]) = o
      BY <2>1, <2>3, RuleIsPolicy
    <3>2. o \in {"allow", "deny"} /\ o # "continue" /\ Settle(s, o)
      BY <1>7, <2>3
    <3> HIDE DEF o
    <3>3. Evaluate(policies, call[s]) = o
      BY <2>1, <2>2, <3>1, <3>2, EvaluateKnows
    <3>4. QED
      BY <1>5, <3>2, <3>3
  <2>4. CASE rules[k].id # 0
    <3>1. rule'[s] = k /\ at'[s] = "deciding" /\ verdict'[s] = "none"
      BY <1>1, <1>2, <1>7, <2>4
    <3>2. \A l \in 1..(k - 1) : Passed(s, l)
      BY <1>3, <2>1, <2>2
    <3>3. \A l : Passed(s, l)' <=> Passed(s, l)
      BY <1>1 DEF Passed, Order
    <3>4. k \in 0..Len(policies) /\ k \in DOMAIN policies
      BY <1>3, <2>1
    <3>5. QED
      BY <1>1, <1>2, <2>1, <2>4, <3>1, <3>2, <3>3, <3>4 DEF ChecksGoOn
  <2>5. QED
    BY <2>3, <2>4
<1>8. QED
  BY <1>1, <1>2, <1>6, <1>7 DEF CheckCall

\* A step nobody checks keeps what it has.
LEMMA CheckKept ==
  ASSUME UNCHANGED <<policies, call, rules>>, NEW t,
         at'[t] = at[t] \/ {at[t], at'[t]} \subseteq {"ready", "waiting"},
         rule'[t] = rule[t], verdict'[t] = verdict[t], t \in misasked' <=> t \in misasked
  PROVE  (ChecksGoOn(t) => ChecksGoOn(t)') /\ IdOf(t)' = IdOf(t)
<1>1. \A l : Passed(t, l)' <=> Passed(t, l)
  BY DEF Passed, Order
<1>2. IdOf(t)' = IdOf(t)
  BY DEF IdOf
<1>3. ASSUME ChecksGoOn(t) PROVE ChecksGoOn(t)'
  <2>1. CASE at'[t] = at[t]
    BY <1>1, <1>3, <2>1 DEF ChecksGoOn
  <2>2. CASE {at[t], at'[t]} \subseteq {"ready", "waiting"}
    <3>1. at[t] \in {"ready", "waiting"} /\ at'[t] \in {"ready", "waiting"}
      BY <2>2
    <3>2. t \notin misasked /\ t \notin misasked' /\ at'[t] \notin {"new", "checking", "deciding"}
      BY <1>3, <3>1 DEF ChecksGoOn
    <3>3. rule'[t] \in 0..Len(policies')
      BY <1>3 DEF ChecksGoOn
    <3>4. QED
      BY <3>2, <3>3 DEF ChecksGoOn
  <2>3. QED
    BY <2>1, <2>2
<1>4. QED
  BY <1>2, <1>3

\* What the requests name, by step, after the step that is taken.
NextIds == [t \in Steps |-> IdOf(t)']

NextId(t) == IF t \in misasked' THEN Len(policies') + 1 ELSE rules'[rule'[t]].id

LEMMA NamesNext ==
  ASSUME UNCHANGED policies, NEW a, a = NextIds,
         \A i \in DOMAIN wire' : wire'[i].kind = "policy" =>
           wire'[i].step \in Steps /\ wire'[i].id = a[wire'[i].step],
         \A i \in DOMAIN workers' : workers'[i].kind = "policy" =>
           workers'[i].step \in Steps /\ workers'[i].id = a[workers'[i].step],
         \A i \in DOMAIN inbox' : inbox'[i].kind = "policy" =>
           /\ inbox'[i].step \in Steps
           /\ inbox'[i].outcome = PolicyDecision(policies, a[inbox'[i].step])
  PROVE  RequestsNameTheRule'
<1>1. \A t \in Steps : a[t] = IF t \in misasked' THEN Len(policies') + 1 ELSE rules'[rule'[t]].id
  BY DEF NextIds, IdOf
<1>2. RequestsNameTheRule' <=>
        /\ \A i \in DOMAIN wire' : wire'[i].kind = "policy" => wire'[i].id = NextId(wire'[i].step)
        /\ \A i \in DOMAIN workers' : workers'[i].kind = "policy" => workers'[i].id = NextId(workers'[i].step)
        /\ \A i \in DOMAIN inbox' : inbox'[i].kind = "policy" =>
             inbox'[i].outcome = PolicyDecision(policies, NextId(inbox'[i].step))
  BY DEF RequestsNameTheRule, IdOf, NextId, PolicyDecision, policyConfig
<1>3. \A t \in Steps : a[t] = NextId(t)
  BY <1>1 DEF NextId
<1>4. QED
  BY <1>2, <1>3

LEMMA AsksKeepChecks ==
  ASSUME TypesInv, RulesInv, RequestsAreOutstanding, ChecksInv, NEW s \in Steps,
         CheckCall(s) \/ AskUnknownRule(s)
  PROVE  ChecksInv'
<1> USE DEF session, ghosts
<1>1. /\ UNCHANGED <<policies, call, rules, inbox, workers>> /\ Steps' = Steps
      /\ at[s] \in {"new", "checking"}
      /\ at \in [Steps -> Positions] /\ rule \in [Steps -> Nat]
      /\ verdict \in [Steps -> {"none", "allow", "deny"}]
  BY DEF CheckCall, AskUnknownRule, TypesInv, TypeOK, Steps
<1>2. ASSUME NEW t \in Steps, t # s
      PROVE  /\ at'[t] = at[t] /\ rule'[t] = rule[t] /\ verdict'[t] = verdict[t]
             /\ t \in misasked' <=> t \in misasked
  <2>1. \E to : at' = [at EXCEPT ![s] = to]
    BY DEF CheckCall, AskUnknownRule, Settle
  <2>2. rule' = rule \/ \E k : rule' = [rule EXCEPT ![s] = k]
    BY DEF CheckCall, AskUnknownRule, Settle
  <2>3. verdict' = verdict \/ \E o : verdict' = [verdict EXCEPT ![s] = o]
    BY DEF CheckCall, AskUnknownRule, Settle
  <2>4. misasked' \in {misasked, misasked \union {s}}
    BY DEF CheckCall, AskUnknownRule
  <2>5. QED
    BY <1>1, <1>2, <2>1, <2>2, <2>3, <2>4
<1>3. ASSUME NEW t \in Steps, t # s PROVE ChecksGoOn(t)' /\ IdOf(t)' = IdOf(t)
  BY <1>1, <1>2, <1>3, CheckKept DEF ChecksInv
<1>4. /\ ChecksGoOn(s)'
      /\ s \notin misasked' /\ verdict'[s] # "none" => verdict'[s] = Evaluate(policies, call[s])
      /\ s \in misasked' => verdict'[s] # "allow"
  <2>1. CASE CheckCall(s)
    BY <2>1, CheckKeepsVerdicts
  <2>2. CASE AskUnknownRule(s)
    <3>1. /\ rule'[s] = 0 /\ at'[s] = "deciding" /\ verdict'[s] = "none" /\ s \in misasked'
      BY <1>1, <2>2 DEF AskUnknownRule, ChecksInv, ChecksGoOn
    <3>2. Len(policies) \in Nat
      BY RulesAreInOrder
    <3>3. QED
      BY <1>1, <3>1, <3>2 DEF ChecksGoOn
  <2>3. QED
    BY <2>1, <2>2
<1>5. /\ \A i \in DOMAIN wire : wire[i].kind = "policy" => wire[i].step \in Steps /\ wire[i].step # s
      /\ \A i \in DOMAIN workers : workers[i].step \in Steps /\ workers[i].step # s
      /\ \A i \in DOMAIN inbox : inbox[i].step \in Steps /\ inbox[i].step # s
  BY <1>1, HeldIsOutstanding DEF RequestsAreOutstanding, Held, TypesInv, IsFrame, IsRequest, IsAnswer
<1>6. wire' = wire \/ \E e : wire' = Append(wire, e) /\ e.kind = "policy" /\ e.step = s /\ e.id = IdOf(s)'
  <2>1. CASE CheckCall(s)
    <3>1. wire' = wire \/ \E k \in DOMAIN rules : /\ wire' = Append(wire, PolicyRequest(s, rules[k].id))
                                                  /\ rule' = [rule EXCEPT ![s] = k]
      BY <2>1 DEF CheckCall, Settle, RulesLeft
    <3>2. s \notin misasked'
      BY <2>1, CheckKeepsVerdicts
    <3>3. ASSUME NEW k \in DOMAIN rules, rule' = [rule EXCEPT ![s] = k] PROVE IdOf(s)' = rules[k].id
      BY <1>1, <3>2, <3>3 DEF IdOf
    <3>4. \A id : /\ PolicyRequest(s, id).kind = "policy" /\ PolicyRequest(s, id).step = s
                  /\ PolicyRequest(s, id).id = id
      BY DEF PolicyRequest
    <3>5. QED
      BY <3>1, <3>3, <3>4
  <2>2. CASE AskUnknownRule(s)
    <3>1. wire' = Append(wire, PolicyRequest(s, Len(policies) + 1)) /\ s \in misasked'
      BY <2>2 DEF AskUnknownRule
    <3>2. IdOf(s)' = Len(policies) + 1
      BY <1>1, <3>1 DEF IdOf
    <3>3. QED
      BY <3>1, <3>2 DEF PolicyRequest
  <2>3. QED
    BY <2>1, <2>2
<1>7. PICK a : a = NextIds
  OBVIOUS
<1>8. /\ a[s] = IdOf(s)'
      /\ \A t \in Steps : t # s => a[t] = IdOf(t)
  BY <1>3, <1>7 DEF NextIds
<1>9. ASSUME NEW i \in DOMAIN wire', wire'[i].kind = "policy"
      PROVE  wire'[i].step \in Steps /\ wire'[i].id = a[wire'[i].step]
  <2>1. ASSUME NEW j \in DOMAIN wire, wire[j] = wire'[i]
        PROVE  wire'[i].step \in Steps /\ wire'[i].id = a[wire'[i].step]
    BY <1>5, <1>8, <1>9, <2>1 DEF ChecksInv, RequestsNameTheRule
  <2>2. CASE wire' = wire
    BY <2>1, <2>2
  <2>3. CASE \E e : wire' = Append(wire, e) /\ e.kind = "policy" /\ e.step = s /\ e.id = IdOf(s)'
    <3>1. PICK e : wire' = Append(wire, e) /\ e.step = s /\ e.id = a[s]
      BY <1>8, <2>3
    <3>2. wire'[i] = e \/ \E j \in DOMAIN wire : wire[j] = wire'[i]
      BY <3>1, Appended DEF TypesInv
    <3>3. QED
      BY <2>1, <3>1, <3>2
  <2>4. QED
    BY <1>6, <2>2, <2>3
<1>10. /\ \A i \in DOMAIN workers' : workers'[i].kind = "policy" =>
             workers'[i].step \in Steps /\ workers'[i].id = a[workers'[i].step]
       /\ \A i \in DOMAIN inbox' : inbox'[i].kind = "policy" =>
             /\ inbox'[i].step \in Steps
             /\ inbox'[i].outcome = PolicyDecision(policies, a[inbox'[i].step])
  BY <1>1, <1>5, <1>8 DEF ChecksInv, RequestsNameTheRule
<1>11. RequestsNameTheRule'
  BY <1>1, <1>7, <1>9, <1>10, NamesNext
<1>12. VerdictIsEvaluates'
  <2>1. ASSUME NEW t \in Steps
        PROVE  /\ t \notin misasked' /\ verdict'[t] # "none" =>
                     verdict'[t] = Evaluate(policies, call[t])
               /\ t \in misasked' => verdict'[t] # "allow"
    BY <1>2, <1>4 DEF ChecksInv, VerdictIsEvaluates
  <2>2. QED
    BY <1>1, <2>1 DEF VerdictIsEvaluates
<1>13. QED
  BY <1>1, <1>3, <1>4, <1>11, <1>12 DEF ChecksInv

\* The verdict of the client: what Evaluate makes of the rule that was asked
\* about, or the check goes on behind it.
LEMMA TakeKeepsVerdicts ==
  ASSUME TypesInv, RulesInv, RequestsAreOutstanding, ChecksInv, TakeAnswer,
         Head(inbox).kind = "policy", NEW s, s = Head(inbox).step
  PROVE  /\ ChecksGoOn(s)'
         /\ s \notin misasked /\ verdict'[s] # "none" => verdict'[s] = Evaluate(policies, call[s])
         /\ s \in misasked => verdict'[s] # "allow"
<1>1. PICK m : m = Head(inbox)
  OBVIOUS
<1>2. /\ m.kind = "policy" /\ s = m.step /\ s \in Steps /\ at[s] = "deciding"
      /\ m.outcome \in {"allow", "deny", "noMatch"}
  BY <1>1, TakenIsAwaited
<1>3. m.outcome = PolicyDecision(policies, IdOf(s))
  <2>1. 1 \in DOMAIN inbox /\ m = inbox[1]
    BY <1>1, Shortened DEF TakeAnswer, TypesInv
  <2>2. QED
    BY <1>2, <2>1 DEF ChecksInv, RequestsNameTheRule
<1>4. /\ UNCHANGED <<policies, call, rules, rule, misasked>>
      /\ at \in [Steps -> Positions] /\ verdict \in [Steps -> {"none", "allow", "deny"}]
  BY DEF TakeAnswer, session, TypesInv, TypeOK
<1>5. /\ at' = [at EXCEPT ![s] = CASE m.outcome = "allow" -> "ready"
                                   [] m.outcome = "deny"  -> "refused"
                                   [] OTHER               -> "checking"]
      /\ verdict' = [verdict EXCEPT ![s] = IF m.outcome = "noMatch" THEN @ ELSE m.outcome]
  BY <1>1, <1>2 DEF TakeAnswer
<1>6. /\ at'[s] = IF m.outcome = "allow" THEN "ready"
                  ELSE IF m.outcome = "deny" THEN "refused" ELSE "checking"
      /\ verdict'[s] = IF m.outcome = "noMatch" THEN "none" ELSE m.outcome
  <2>1. verdict[s] = "none"
    BY <1>2 DEF ChecksInv, ChecksGoOn
  <2>2. QED
    BY <1>2, <1>4, <1>5, <2>1
<1>7. \A l : Passed(s, l)' <=> Passed(s, l)
  BY <1>4 DEF Passed, Order
<1>8. CASE s \in misasked
  <2>1. m.outcome = "deny"
    BY <1>3, <1>8, DecisionsAre DEF IdOf, RulesInv
  <2>2. QED
    BY <1>2, <1>4, <1>6, <1>8, <2>1 DEF ChecksInv, ChecksGoOn
<1>9. CASE s \notin misasked
  <2> DEFINE k == rule[s]
  <2>1. /\ k \in DOMAIN policies /\ rules[k].id # 0 /\ k \in 0..Len(policies)
        /\ \A l \in 1..(k - 1) : Passed(s, l)
        /\ ~rules[k].marker /\ matchesTarget(rules[k], call[s])
    BY <1>2, <1>9 DEF ChecksInv, ChecksGoOn
  <2>2. DOMAIN rules = DOMAIN policies /\ DOMAIN rules = 1..Len(policies) /\ Len(policies) \in Nat
    BY RulesAreInOrder
  <2>3. m.outcome = PolicyDecision(policies, rules[k].id)
    BY <1>3, <1>9 DEF IdOf
  <2>4. Considered(policies[Order[k]], call[s]) = IF m.outcome = "noMatch" THEN "continue" ELSE m.outcome
    BY <2>1, <2>2, <2>3, RuleIsPolicy
  <2> HIDE DEF k
  <2>5. rule'[s] = k
    BY <1>4 DEF k
  <2>6. CASE m.outcome = "noMatch"
    <3>1. Passed(s, k)
      BY <2>4, <2>6 DEF Passed
    <3>2. \A l \in 1..k : l = k \/ l \in 1..(k - 1)
      BY <2>1, <2>2
    <3>3. \A l \in 1..k : Passed(s, l)
      BY <2>1, <3>1, <3>2
    <3>4. at'[s] = "checking" /\ verdict'[s] = "none"
      BY <1>6, <2>6
    <3>5. QED
      BY <1>4, <1>7, <1>9, <2>1, <2>5, <3>3, <3>4 DEF ChecksGoOn
  <2>7. CASE m.outcome # "noMatch"
    <3>1. \A l \in DOMAIN rules : l < k => l \in 1..(k - 1)
      BY <2>1, <2>2
    <3>2. \A l \in DOMAIN rules : l < k => Passed(s, l)
      BY <2>1, <3>1
    <3>3. Considered(policies[Order[k]], call[s]) # "continue"
      BY <1>2, <2>4, <2>7
    <3>4. Evaluate(policies, call[s]) = m.outcome
      BY <2>1, <2>2, <2>4, <2>7, <3>2, <3>3, EvaluateKnows
    <3>5. at'[s] \in {"ready", "refused"} /\ verdict'[s] = m.outcome
      BY <1>2, <1>6, <2>7
    <3>6. QED
      BY <1>4, <1>9, <2>1, <2>5, <3>4, <3>5 DEF ChecksGoOn
  <2>8. QED
    BY <2>6, <2>7
<1>10. QED
  BY <1>8, <1>9

LEMMA TakeKeepsChecks ==
  ASSUME TypesInv, RulesInv, RequestsAreOutstanding, ChecksInv, TakeAnswer
  PROVE  ChecksInv'
<1> USE DEF session
<1>1. PICK m : m = Head(inbox)
  OBVIOUS
<1>2. /\ UNCHANGED <<policies, call, rules, rule, misasked, wire, workers>> /\ Steps' = Steps
      /\ inbox # <<>> /\ inbox' = Tail(inbox) /\ m.step \in Steps
  BY <1>1, TakenIsAwaited DEF TakeAnswer, Steps
<1>3. \A t \in Steps : t # m.step \/ m.kind # "policy" => at'[t] = at[t] /\ verdict'[t] = verdict[t]
  <2>1. verdict \in [Steps -> {"none", "allow", "deny"}]
    BY DEF TypesInv, TypeOK
  <2>2. \/ verdict' = verdict
        \/ m.kind = "policy" /\ \E o : verdict' = [verdict EXCEPT ![m.step] = o]
    BY <1>1 DEF TakeAnswer
  <2>3. \A t \in Steps : t # m.step \/ m.kind # "policy" => at'[t] = at[t]
    BY <1>1, TakenIsAwaited
  <2>4. QED
    BY <2>1, <2>2, <2>3
<1>4. ASSUME NEW t \in Steps
      PROVE  /\ ChecksGoOn(t)' /\ IdOf(t)' = IdOf(t)
             /\ t \notin misasked /\ verdict'[t] # "none" => verdict'[t] = Evaluate(policies, call[t])
             /\ t \in misasked => verdict'[t] # "allow"
  <2>1. IdOf(t)' = IdOf(t)
    BY <1>2 DEF IdOf
  <2>2. CASE t = m.step /\ m.kind = "policy"
    BY <1>1, <2>1, <2>2, TakeKeepsVerdicts
  <2>3. CASE t # m.step \/ m.kind # "policy"
    <3>1. at'[t] = at[t] /\ verdict'[t] = verdict[t] /\ rule'[t] = rule[t]
      BY <1>2, <1>3, <2>3
    <3>2. ChecksGoOn(t)'
      BY <1>2, <3>1, CheckKept DEF ChecksInv
    <3>3. QED
      BY <2>1, <3>1, <3>2 DEF ChecksInv, VerdictIsEvaluates
  <2>4. QED
    BY <2>2, <2>3
<1>5. PICK a : a = NextIds
  OBVIOUS
<1>6. \A t \in Steps : a[t] = IdOf(t)
  BY <1>4, <1>5 DEF NextIds
<1>7. /\ \A i \in DOMAIN wire : wire[i].step \in Steps
      /\ \A i \in DOMAIN workers : workers[i].step \in Steps
      /\ \A i \in DOMAIN inbox : inbox[i].step \in Steps
  BY DEF TypesInv, IsFrame, IsRequest, IsAnswer
<1>8. /\ \A i \in DOMAIN wire' : wire'[i].kind = "policy" =>
            wire'[i].step \in Steps /\ wire'[i].id = a[wire'[i].step]
      /\ \A i \in DOMAIN workers' : workers'[i].kind = "policy" =>
            workers'[i].step \in Steps /\ workers'[i].id = a[workers'[i].step]
  BY <1>2, <1>6, <1>7 DEF ChecksInv, RequestsNameTheRule
<1>9. \A i \in DOMAIN inbox' : inbox'[i].kind = "policy" =>
        /\ inbox'[i].step \in Steps
        /\ inbox'[i].outcome = PolicyDecision(policies, a[inbox'[i].step])
  <2>1. \A i \in DOMAIN inbox' : \E j \in DOMAIN inbox : inbox'[i] = inbox[j]
    BY <1>2, Shortened DEF TypesInv
  <2>2. QED
    BY <1>6, <1>7, <2>1 DEF ChecksInv, RequestsNameTheRule
<1>10. RequestsNameTheRule'
  BY <1>2, <1>5, <1>8, <1>9, NamesNext
<1>11. VerdictIsEvaluates'
  BY <1>2, <1>4 DEF VerdictIsEvaluates
<1>12. QED
  BY <1>2, <1>4, <1>10, <1>11 DEF ChecksInv

\* The other actions: nobody is checked, and requests move on as they are.
LEMMA OthersKeepChecks ==
  ASSUME TypesInv, RulesInv, ChecksInv,
         \/ \E s \in Steps : WaitForUser(s) \/ RepeatUpdate(s) \/ Resume(s)
         \/ HandleStepUpdate \/ StartPolicyDecision \/ Answer
  PROVE  ChecksInv'
<1> USE DEF session, harnessVars, ghosts
<1>1. /\ UNCHANGED <<policies, call, rules, rule, verdict, misasked>> /\ Steps' = Steps
      /\ \A t \in Steps : at'[t] = at[t] \/ {at[t], at'[t]} \subseteq {"ready", "waiting"}
  <2>1. ASSUME NEW s \in Steps, WaitForUser(s) \/ RepeatUpdate(s) \/ Resume(s)
        PROVE  /\ UNCHANGED <<policies, call, rules, rule, verdict, misasked>> /\ Steps' = Steps
               /\ \A t \in Steps : at'[t] = at[t] \/ {at[t], at'[t]} \subseteq {"ready", "waiting"}
    <3>1. UNCHANGED <<policies, call, rules, rule, verdict, misasked>> /\ Steps' = Steps
      BY <2>1 DEF WaitForUser, RepeatUpdate, Resume, Steps
    <3>2. at \in [Steps -> Positions]
      BY DEF TypesInv, TypeOK
    <3>3. at' = at \/ (at[s] \in {"ready", "waiting"} /\ \E to \in {"ready", "waiting"} : at' = [at EXCEPT ![s] = to])
      BY <2>1 DEF WaitForUser, RepeatUpdate, Resume
    <3>4. QED
      BY <3>1, <3>2, <3>3
  <2>2. CASE HandleStepUpdate \/ StartPolicyDecision
    BY <2>2 DEF HandleStepUpdate, StartPolicyDecision, Recv, Steps
  <2>3. CASE Answer
    BY <2>3, AnswerSends DEF Send, Steps
  <2>4. QED
    BY <2>1, <2>2, <2>3
<1>2. ASSUME NEW t \in Steps PROVE ChecksGoOn(t)' /\ IdOf(t)' = IdOf(t)
  BY <1>1, CheckKept DEF ChecksInv
<1>3. PICK a : a = NextIds
  OBVIOUS
<1>4. \A t \in Steps : a[t] = IdOf(t)
  BY <1>2, <1>3 DEF NextIds
<1>5. /\ \A i \in DOMAIN wire : wire[i].kind = "policy" =>
            wire[i].step \in Steps /\ wire[i].id = a[wire[i].step]
      /\ \A i \in DOMAIN workers : workers[i].kind = "policy" =>
            workers[i].step \in Steps /\ workers[i].id = a[workers[i].step]
      /\ \A i \in DOMAIN inbox : inbox[i].kind = "policy" =>
            inbox[i].step \in Steps /\ inbox[i].outcome = PolicyDecision(policies, a[inbox[i].step])
  BY <1>4 DEF ChecksInv, RequestsNameTheRule, TypesInv, IsFrame, IsRequest, IsAnswer
<1>6. /\ \A i \in DOMAIN wire' : wire'[i].kind # "policy" \/ \E j \in DOMAIN wire : wire'[i] = wire[j]
      /\ \A i \in DOMAIN workers' : \/ workers'[i].kind # "policy"
                                    \/ \E j \in DOMAIN workers : workers'[i] = workers[j]
                                    \/ \E j \in DOMAIN wire : workers'[i] = wire[j]
      /\ \A i \in DOMAIN inbox' : \/ \E j \in DOMAIN inbox : inbox'[i] = inbox[j]
                                  \/ inbox'[i].kind # "policy"
                                  \/ /\ inbox'[i].step \in Steps
                                     /\ inbox'[i].outcome = PolicyDecision(policies, a[inbox'[i].step])
  <2>1. ASSUME NEW s \in Steps, WaitForUser(s) \/ RepeatUpdate(s) \/ Resume(s)
        PROVE  /\ UNCHANGED <<workers, inbox>>
               /\ \A i \in DOMAIN wire' : wire'[i].kind # "policy" \/ \E j \in DOMAIN wire : wire'[i] = wire[j]
    <3>1. UNCHANGED <<workers, inbox>> /\ wire' = Append(wire, Update(s)) /\ Update(s).kind = "update"
      BY <2>1 DEF WaitForUser, RepeatUpdate, Resume, Update
    <3>2. PICK e : wire' = Append(wire, e) /\ e.kind = "update"
      BY <3>1
    <3>3. QED
      BY <3>1, <3>2, Appended DEF TypesInv
  <2>2. CASE HandleStepUpdate
    <3>1. wire # <<>> /\ wire' = Tail(wire) /\ inbox' = inbox
      BY <2>2 DEF HandleStepUpdate, Recv
    <3>2. \A i \in DOMAIN workers' : workers'[i].kind # "policy" \/ \E j \in DOMAIN workers : workers'[i] = workers[j]
      BY <2>2, UpdateClaims DEF Kinds
    <3>3. QED
      BY <3>1, <3>2, Shortened DEF TypesInv
  <2>3. CASE StartPolicyDecision
    <3>1. wire # <<>> /\ wire' = Tail(wire) /\ inbox' = inbox /\ workers' = Append(workers, Head(wire))
      BY <2>3 DEF StartPolicyDecision, Recv
    <3>2. \A i \in DOMAIN wire' : \E j \in DOMAIN wire : wire'[i] = wire[j]
      BY <3>1, Shortened DEF TypesInv
    <3>3. Head(wire) = wire[1] /\ 1 \in DOMAIN wire
      BY <3>1, Shortened DEF TypesInv
    <3>4. \A i \in DOMAIN workers' : workers'[i] = Head(wire) \/ \E j \in DOMAIN workers : workers'[i] = workers[j]
      BY <3>1, Appended DEF TypesInv
    <3>5. QED
      BY <3>1, <3>2, <3>3, <3>4
  <2>4. CASE Answer
    <3>0. PICK w \in DOMAIN workers : \E m : Answers_(w, m) /\ Send(w, m)
      BY <2>4, AnswerSends
    <3>1. PICK m : Answers_(w, m) /\ Send(w, m)
      BY <3>0
    <3>2. wire' = wire /\ inbox' = Append(inbox, m) /\ workers' = RemoveAt(workers, w)
      BY <3>1 DEF Send
    <3>3. \A i \in DOMAIN workers' : \E j \in DOMAIN workers : workers'[i] = workers[j]
      BY <3>2, RemovedIs DEF TypesInv, Selected
    <3>4. m.kind = "policy" => m.step \in Steps /\ m.outcome = PolicyDecision(policies, a[m.step])
      BY <1>5, <3>1 DEF Answers_
    <3>5. \A i \in DOMAIN inbox' : inbox'[i] = m \/ \E j \in DOMAIN inbox : inbox'[i] = inbox[j]
      BY <3>2, Appended DEF TypesInv
    <3>6. QED
      BY <3>2, <3>3, <3>4, <3>5
  <2>5. QED
    BY <2>1, <2>2, <2>3, <2>4
<1>7. RequestsNameTheRule'
  BY <1>1, <1>3, <1>5, <1>6, NamesNext
<1>8. VerdictIsEvaluates'
  BY <1>1 DEF ChecksInv, VerdictIsEvaluates
<1>9. QED
  BY <1>1, <1>2, <1>7, <1>8 DEF ChecksInv

LEMMA ChecksStep ==
  ASSUME TypesInv, RulesInv, RequestsAreOutstanding, ChecksInv, [Next]_vars
  PROVE  ChecksInv'
<1>1. ASSUME NEW s \in Steps, HarnessAsks(s) PROVE ChecksInv'
  BY <1>1, AsksKeepChecks, OthersKeepChecks DEF HarnessAsks
<1>2. CASE TakeAnswer
  BY <1>2, TakeKeepsChecks
<1>3. CASE UNCHANGED vars
  <2> USE <1>3 DEF vars, session, harnessVars, ghosts
  <2>1. ASSUME NEW s \in Steps PROVE ChecksGoOn(s)'
    BY CheckKept DEF ChecksInv
  <2>2. RequestsNameTheRule'
    BY DEF ChecksInv, RequestsNameTheRule, IdOf
  <2>3. VerdictIsEvaluates'
    BY DEF ChecksInv, VerdictIsEvaluates, Steps
  <2>4. Steps' = Steps
    BY DEF Steps
  <2>5. QED
    BY <2>1, <2>2, <2>3, <2>4 DEF ChecksInv
<1>4. CASE \E s \in Steps : Resume(s)
  BY <1>4, OthersKeepChecks
<1>5. CASE HandleStepUpdate \/ StartPolicyDecision \/ Answer
  BY <1>5, OthersKeepChecks
<1>6. QED
  BY <1>1, <1>2, <1>3, <1>4, <1>5 DEF Next

LEMMA ChecksInit == Init => ChecksInv
<1>1. SUFFICES ASSUME Init PROVE ChecksInv
  OBVIOUS
<1>2. /\ wire = <<>> /\ inbox = <<>> /\ workers = <<>> /\ misasked = {}
      /\ at = [s \in Steps |-> "new"] /\ rule = [s \in Steps |-> 0]
      /\ verdict = [s \in Steps |-> "none"] /\ policies \in Seq(Policy)
  BY <1>1, RequestsAssumption DEF Init
<1>3. DOMAIN wire = {} /\ DOMAIN inbox = {} /\ DOMAIN workers = {} /\ Len(policies) \in Nat
  BY <1>2
<1>4. RequestsNameTheRule
  BY <1>3 DEF RequestsNameTheRule
<1>5. ASSUME NEW s \in Steps PROVE ChecksGoOn(s)
  <2>1. at[s] = "new" /\ rule[s] = 0 /\ verdict[s] = "none" /\ s \notin misasked
    BY <1>2
  <2>2. 0 \in 0..Len(policies) /\ \A k \in 1..0 : FALSE
    BY <1>3
  <2>3. QED
    BY <2>1, <2>2 DEF ChecksGoOn
<1>6. VerdictIsEvaluates
  BY <1>2 DEF VerdictIsEvaluates
<1>7. QED
  BY <1>4, <1>5, <1>6 DEF ChecksInv

\* Whoever applies which rule, the harness its static ones or the client those
\* it is asked about: the verdict on a call is what Enforcer.Evaluate answers,
\* and a question about a rule that does not exist never ends in an approval.
THEOREM VerdictsAreEvaluates == Spec => []VerdictIsEvaluates
<1>1. Init => ChecksInv
  BY ChecksInit
<1>2. TypesInv /\ RulesInv /\ AnswersInv /\ ChecksInv /\ [Next]_vars => ChecksInv'
  BY ChecksStep DEF AnswersInv
<1>3. ChecksInv => VerdictIsEvaluates
  BY DEF ChecksInv
<1>4. QED
  BY <1>1, <1>2, <1>3, AnswersHold, PTL DEF Spec

----------------------------------------------------------------------------
\* The answers to a batch of questions.

\* Counting up to a number comes by each before it.
LEMMA CountingUp ==
  ASSUME NEW N \in Nat, NEW S, 0 \in S, \A n \in 0..(N - 1) : n \in S => n + 1 \in S
  PROVE  0..N \subseteq S
<1> DEFINE left == (0..N) \ S
<1>1. SUFFICES ASSUME left # {} PROVE FALSE
  OBVIOUS
<1>2. PICK m \in left : \A k \in left : m <= k
  <2>1. left \subseteq Nat
    OBVIOUS
  <2> HIDE DEF left
  <2>2. QED
    BY <1>1, <2>1, LeastNatural, Zenon
<1>3. m \in 1..N
  OBVIOUS
<1>4. m - 1 \in S
  BY <1>2, <1>3
<1>5. QED
  BY <1>3, <1>4

\* The places of the multiple-choice questions among the first n.
ChoicesTo(raw, n) == {l \in 1..n : raw[l] = "choice"}

LEMMA ChoicesCount ==
  ASSUME NEW raw, NEW n \in Nat
  PROVE  /\ IsFiniteSet(ChoicesTo(raw, n)) /\ Cardinality(ChoicesTo(raw, n)) \in Nat
         /\ Cardinality(ChoicesTo(raw, 0)) = 0
         /\ IF raw[n + 1] = "choice"
            THEN /\ ChoicesTo(raw, n + 1) = ChoicesTo(raw, n) \union {n + 1}
                 /\ Cardinality(ChoicesTo(raw, n + 1)) = Cardinality(ChoicesTo(raw, n)) + 1
            ELSE ChoicesTo(raw, n + 1) = ChoicesTo(raw, n)
<1>1. IsFiniteSet(1..n) /\ ChoicesTo(raw, n) \subseteq 1..n
  BY FS_Interval DEF ChoicesTo
<1>2. IsFiniteSet(ChoicesTo(raw, n)) /\ Cardinality(ChoicesTo(raw, n)) \in Nat
  BY <1>1, FS_Subset, FS_CardinalityType
<1>3. Cardinality(ChoicesTo(raw, 0)) = 0
  <2>1. ChoicesTo(raw, 0) = {}
    BY DEF ChoicesTo
  <2>2. QED
    BY <2>1, FS_EmptySet
<1>4. CASE raw[n + 1] = "choice"
  <2>1. ChoicesTo(raw, n + 1) = ChoicesTo(raw, n) \union {n + 1} /\ n + 1 \notin ChoicesTo(raw, n)
    BY <1>4 DEF ChoicesTo
  <2>2. QED
    BY <1>2, <1>3, <1>4, <2>1, FS_AddElement
<1>5. CASE raw[n + 1] # "choice"
  BY <1>2, <1>3, <1>5 DEF ChoicesTo
<1>6. QED
  BY <1>4, <1>5

\* The loop of answerQuestions collects as long as there are questions.
Collecting(raw, f, n) ==
  f = [i \in 0..n |-> IF i = 0 THEN <<>>
                      ELSE IF raw[i] = "choice" THEN Append(f[i - 1], i) ELSE f[i - 1]]

LEMMA AskedIsCollected ==
  ASSUME NEW raw \in Seq({"choice", "other"})
  PROVE  Collecting(raw, AskedUpTo(raw), Len(raw))
<1> DEFINE Able == {n \in Nat : \E f : Collecting(raw, f, n)}
<1>1. 0 \in Able
  <2>1. Collecting(raw, [i \in 0..0 |-> <<>>], 0)
    BY DEF Collecting
  <2>2. QED
    BY <2>1
<1>2. ASSUME NEW n \in Nat, n \in Able PROVE n + 1 \in Able
  <2>1. PICK f : Collecting(raw, f, n)
    BY <1>2
  <2> DEFINE next == IF raw[n + 1] = "choice" THEN Append(f[n], n + 1) ELSE f[n]
             g == [i \in 0..(n + 1) |-> IF i = n + 1 THEN next ELSE f[i]]
  <2>2. \A i \in 0..n : g[i] = f[i] /\ g[n + 1] = next
    OBVIOUS
  <2>3. \A i \in 0..n : f[i] = IF i = 0 THEN <<>>
                               ELSE IF raw[i] = "choice" THEN Append(f[i - 1], i) ELSE f[i - 1]
    BY <2>1 DEF Collecting
  <2> HIDE DEF next
  <2>4. \A i \in 0..(n + 1) :
          g[i] = IF i = 0 THEN <<>>
                 ELSE IF raw[i] = "choice" THEN Append(g[i - 1], i) ELSE g[i - 1]
    <3>1. TAKE i \in 0..(n + 1)
    <3>2. CASE i = n + 1
      BY <2>2, <3>2 DEF next
    <3>3. CASE i = 0
      BY <2>2, <2>3, <3>3
    <3>4. CASE i \in 1..n
      <4>1. i - 1 \in 0..n /\ i \in 0..n /\ i # 0
        BY <3>4
      <4>2. g[i] = f[i] /\ g[i - 1] = f[i - 1]
        BY <2>2, <4>1
      <4>3. QED
        BY <2>3, <4>1, <4>2
    <3>5. QED
      BY <3>2, <3>3, <3>4
  <2>5. Collecting(raw, g, n + 1)
    BY <2>4 DEF Collecting
  <2>6. QED
    BY <2>5
<1>3. Len(raw) \in Nat
  OBVIOUS
<1>4. Len(raw) \in Able
  <2> HIDE DEF Able
  <2>1. 0..Len(raw) \subseteq Able
    BY <1>1, <1>2, <1>3, CountingUp
  <2>2. QED
    BY <1>3, <2>1
<1> DEFINE E(f) == Collecting(raw, f, Len(raw))
<1>5. AskedUpTo(raw) = CHOOSE f : E(f)
  BY Zenon DEF AskedUpTo, Collecting
<1>6. \E f : E(f)
  BY <1>4
<1>7. E(CHOOSE f : E(f))
  <2> HIDE DEF E
  <2>1. QED
    BY <1>6, Zenon
<1>8. QED
  BY <1>5, <1>7, Zenon

\* Each multiple-choice question is collected once, at the place its number has.
LEMMA AskedInOrder ==
  ASSUME NEW raw \in Seq({"choice", "other"})
  PROVE  LET askedAt == AskedUpTo(raw)[Len(raw)]
         IN /\ \A k \in DOMAIN askedAt : askedAt[k] \in ChoicesTo(raw, Len(raw))
            /\ \A k \in DOMAIN askedAt : Cardinality(ChoicesTo(raw, askedAt[k])) = k
            /\ \A i \in ChoicesTo(raw, Len(raw)) :
                 LET k == Cardinality(ChoicesTo(raw, i))
                 IN k \in DOMAIN askedAt /\ askedAt[k] = i
<1> DEFINE f == AskedUpTo(raw)
           Lined(n) ==
             /\ f[n] \in Seq(Nat) /\ Len(f[n]) = Cardinality(ChoicesTo(raw, n))
             /\ \A k \in DOMAIN f[n] : /\ f[n][k] \in ChoicesTo(raw, n)
                                       /\ Cardinality(ChoicesTo(raw, f[n][k])) = k
             /\ \A i \in ChoicesTo(raw, n) :
                  /\ Cardinality(ChoicesTo(raw, i)) \in DOMAIN f[n]
                  /\ f[n][Cardinality(ChoicesTo(raw, i))] = i
           Good == {n \in Nat : Lined(n)}
<1>1. Len(raw) \in Nat
  OBVIOUS
<1>2. \A n \in 0..Len(raw) :
        f[n] = IF n = 0 THEN <<>>
               ELSE IF raw[n] = "choice" THEN Append(f[n - 1], n) ELSE f[n - 1]
  BY AskedIsCollected DEF Collecting
<1> HIDE DEF f
<1>3. 0 \in Good
  <2>1. f[0] = <<>> /\ ChoicesTo(raw, 0) = {}
    BY <1>1, <1>2 DEF ChoicesTo
  <2>2. <<>> \in Seq(Nat) /\ Len(<<>>) = 0 /\ DOMAIN <<>> = {}
    OBVIOUS
  <2>3. Cardinality(ChoicesTo(raw, 0)) = 0
    BY ChoicesCount
  <2>4. Lined(0)
    BY <2>1, <2>2, <2>3
  <2>5. QED
    BY <2>4
<1>4. ASSUME NEW n \in 0..(Len(raw) - 1), n \in Good PROVE n + 1 \in Good
  <2>1. n \in Nat /\ n + 1 \in 0..Len(raw) /\ n + 1 # 0 /\ n + 1 - 1 = n /\ Lined(n)
    BY <1>1, <1>4
  <2>2. CASE raw[n + 1] # "choice"
    <3>1. f[n + 1] = f[n] /\ ChoicesTo(raw, n + 1) = ChoicesTo(raw, n)
      BY <1>2, <2>1, <2>2, ChoicesCount
    <3>2. QED
      BY <2>1, <3>1
  <2>3. CASE raw[n + 1] = "choice"
    <3> DEFINE q == f[n]
               r == f[n + 1]
               c == Cardinality(ChoicesTo(raw, n))
    <3>1. /\ r = Append(q, n + 1) /\ ChoicesTo(raw, n + 1) = ChoicesTo(raw, n) \union {n + 1}
          /\ c \in Nat /\ Cardinality(ChoicesTo(raw, n + 1)) = c + 1
      <4>1. f[n + 1] = Append(f[n], n + 1)
        <5>1. f[n + 1] = IF n + 1 = 0 THEN <<>>
                         ELSE IF raw[n + 1] = "choice" THEN Append(f[n + 1 - 1], n + 1)
                         ELSE f[n + 1 - 1]
          <6>1. n + 1 \in 0..Len(raw)
            BY <2>1
          <6>2. QED
            BY <1>2, <6>1
        <5>2. QED
          BY <2>1, <2>3, <5>1
      <4>2. n \in Nat
        BY <2>1
      <4>3. /\ ChoicesTo(raw, n + 1) = ChoicesTo(raw, n) \union {n + 1}
            /\ Cardinality(ChoicesTo(raw, n)) \in Nat
            /\ Cardinality(ChoicesTo(raw, n + 1)) = Cardinality(ChoicesTo(raw, n)) + 1
        BY <2>3, <4>2, ChoicesCount
      <4>4. QED
        BY <4>1, <4>3
    <3>2. /\ q \in Seq(Nat) /\ Len(q) = c
          /\ \A k \in DOMAIN q : /\ q[k] \in ChoicesTo(raw, n)
                                 /\ Cardinality(ChoicesTo(raw, q[k])) = k
          /\ \A i \in ChoicesTo(raw, n) : /\ Cardinality(ChoicesTo(raw, i)) \in DOMAIN q
                                          /\ q[Cardinality(ChoicesTo(raw, i))] = i
      BY <2>1
    <3> HIDE DEF q, r, c
    <3>3. /\ r \in Seq(Nat) /\ Len(r) = c + 1 /\ DOMAIN q = 1..c /\ DOMAIN r = 1..(c + 1)
          /\ r[c + 1] = n + 1 /\ \A k \in DOMAIN q : r[k] = q[k]
      BY <2>1, <3>1, <3>2
    <3>4. \A k \in DOMAIN r : /\ r[k] \in ChoicesTo(raw, n + 1)
                              /\ Cardinality(ChoicesTo(raw, r[k])) = k
      <4>1. TAKE k \in DOMAIN r
      <4>2. CASE k = c + 1
        BY <3>1, <3>3, <4>2
      <4>3. CASE k \in DOMAIN q
        BY <3>1, <3>2, <3>3, <4>3
      <4>4. QED
        BY <3>1, <3>3, <4>2, <4>3
    <3>5. \A i \in ChoicesTo(raw, n + 1) : /\ Cardinality(ChoicesTo(raw, i)) \in DOMAIN r
                                           /\ r[Cardinality(ChoicesTo(raw, i))] = i
      <4>1. TAKE i \in ChoicesTo(raw, n + 1)
      <4>2. CASE i = n + 1
        BY <3>1, <3>3, <4>2
      <4>3. CASE i \in ChoicesTo(raw, n)
        BY <3>1, <3>2, <3>3, <4>3
      <4>4. QED
        BY <3>1, <4>2, <4>3
    <3>6. Lined(n + 1)
      BY <3>1, <3>3, <3>4, <3>5 DEF r
    <3>7. QED
      BY <2>1, <3>6
  <2>4. QED
    BY <2>2, <2>3
<1>5. Len(raw) \in Good
  <2> HIDE DEF Good
  <2>1. 0..Len(raw) \subseteq Good
    BY <1>1, <1>3, <1>4, CountingUp
  <2>2. QED
    BY <1>1, <2>1
<1>6. QED
  BY <1>5 DEF f

\* A goroutine and an answer about questions.
IsReply(reply) == reply \in Seq([skipped : BOOLEAN, picked : SUBSET Int])
IsAbout(w) == w.kind = "questions" => w.questions \in Seq({"choice", "other"})
IsLinedUp(m) ==
  m.kind = "questions" =>
    /\ m.questions \in Seq({"choice", "other"}) /\ IsReply(m.reply)
    /\ m.answers = Answers(m.questions, m.reply)
QuestionsInv ==
  /\ \A i \in DOMAIN workers : IsAbout(workers[i])
  /\ \A i \in DOMAIN inbox : IsLinedUp(inbox[i])

\* What the hooks reply is a sequence of answers.
LEMMA RepliesAre ==
  ASSUME NEW replies \in [1..NumHooks -> Replies] \union {<<>>}
  PROVE  IsReply(FirstReply(replies))
<1> DEFINE given == {i \in DOMAIN replies : replies[i].given}
<1>1. <<>> \in Seq([skipped : BOOLEAN, picked : SUBSET Int])
  OBVIOUS
<1>2. CASE given = {}
  BY <1>1, <1>2 DEF FirstReply, IsReply
<1>3. CASE given # {}
  <2>1. replies # <<>> /\ replies \in [1..NumHooks -> Replies]
    BY <1>3
  <2>2. given \subseteq 1..NumHooks /\ 1..NumHooks \subseteq Nat
    BY <2>1, RequestsAssumption
  <2>3. Min(given) \in given
    <3> HIDE DEF given
    <3>1. QED
      BY <1>3, <2>2, LeastNatural
  <2>4. replies[Min(given)] \in Replies
    BY <2>1, <2>2, <2>3
  <2>5. replies[Min(given)].answers \in ReplySets \union {<<>>}
    <3>1. CASE replies[Min(given)] = Declined
      BY <3>1 DEF Declined
    <3>2. CASE replies[Min(given)] \in [given : {TRUE}, answers : ReplySets]
      BY <3>2
    <3>3. QED
      BY <2>4, <3>1, <3>2 DEF Replies
  <2>6. QED
    BY <1>1, <1>3, <2>5, RequestsAssumption DEF FirstReply, IsReply
<1>4. QED
  BY <1>2, <1>3

\* Such an answer says to each question what was replied to it.
LEMMA LinedUp ==
  ASSUME NEW raw \in Seq({"choice", "other"}), NEW reply, IsReply(reply),
         NEW j \in DOMAIN raw
  PROVE  LET n == Cardinality(ChoicesTo(raw, j))
             a == Answers(raw, reply)[j]
         IN /\ a.picked \subseteq 0..(Options - 1)
            /\ IF raw[j] = "other" \/ n > Len(reply) THEN a = Skipped
               ELSE /\ a.skipped = reply[n].skipped
                    /\ ~a.skipped => \A o \in 0..(Options - 1) :
                                       o \in a.picked <=> o \in reply[n].picked
<1> DEFINE n == Cardinality(ChoicesTo(raw, j))
           a == Answers(raw, reply)[j]
           askedAt == AskedUpTo(raw)[Len(raw)]
           asked_(k) == k \in DOMAIN askedAt /\ askedAt[k] = j
<1>1. a = IF \E k \in DOMAIN askedAt : askedAt[k] = j /\ k <= Len(reply)
          THEN questionAnswer(reply[CHOOSE k \in DOMAIN askedAt : askedAt[k] = j])
          ELSE Skipped
  BY DEF Answers
<1>2. /\ Len(raw) \in Nat /\ DOMAIN raw = 1..Len(raw) /\ Len(reply) \in Nat
      /\ DOMAIN reply = 1..Len(reply) /\ raw[j] \in {"choice", "other"} /\ j \in Nat
  BY DEF IsReply
<1>3. n \in Nat
  BY <1>2, ChoicesCount
<1>4. raw[j] = "choice" <=> j \in ChoicesTo(raw, Len(raw))
  BY <1>2 DEF ChoicesTo
<1>5. \A k \in DOMAIN askedAt :
        askedAt[k] = j => j \in ChoicesTo(raw, Len(raw)) /\ k = n
  BY AskedInOrder
<1>6. raw[j] = "choice" => n \in DOMAIN askedAt /\ askedAt[n] = j
  BY <1>4, AskedInOrder
<1> HIDE DEF askedAt
<1>7. CASE raw[j] = "other" \/ n > Len(reply)
  <2>1. ~\E k \in DOMAIN askedAt : askedAt[k] = j /\ k <= Len(reply)
    BY <1>2, <1>3, <1>4, <1>5, <1>7
  <2>2. a = Skipped
    BY <1>1, <2>1
  <2> HIDE DEF n, a
  <2>3. a.picked \subseteq 0..(Options - 1)
    BY <2>2 DEF Skipped
  <2>4. QED
    BY <1>7, <2>2, <2>3 DEF n, a
<1>8. CASE ~(raw[j] = "other" \/ n > Len(reply))
  <2>1. raw[j] = "choice" /\ n <= Len(reply)
    BY <1>2, <1>3, <1>8
  <2>2. n \in DOMAIN askedAt /\ askedAt[n] = j
    BY <1>6, <2>1
  <2>3. (CHOOSE k \in DOMAIN askedAt : askedAt[k] = j) = n
    BY <1>5, <2>2
  <2>4. a = questionAnswer(reply[n])
    BY <1>1, <2>1, <2>2, <2>3
  <2>5. n > 0
    <3>1. ChoicesTo(raw, j) # {}
      BY <1>2, <2>1 DEF ChoicesTo
    <3>2. IsFiniteSet(ChoicesTo(raw, j))
      BY <1>2, ChoicesCount
    <3>3. n # 0
      BY <3>1, <3>2, FS_EmptySet
    <3>4. QED
      BY <1>3, <3>3
  <2>6. reply[n] \in [skipped : BOOLEAN, picked : SUBSET Int]
    <3> DEFINE Reply == [skipped : BOOLEAN, picked : SUBSET Int]
    <3>1. reply \in Seq(Reply)
      BY DEF IsReply
    <3> HIDE DEF n, Reply
    <3>2. n \in 1..Len(reply)
      BY <1>2, <1>3, <2>1, <2>5
    <3>3. reply[n] \in Reply
      BY <3>1, <3>2
    <3>4. QED
      BY <3>3 DEF Reply
  <2> HIDE DEF n, a
  <2> DEFINE r == reply[n]
  <2>7. /\ a.picked \subseteq 0..(Options - 1) /\ a.skipped = r.skipped
        /\ ~a.skipped => a.picked = r.picked \intersect 0..(Options - 1)
    BY <2>4, <2>6 DEF questionAnswer, Skipped
  <2>8. QED
    BY <1>8, <2>7 DEF n, a
<1>9. QED
  BY <1>7, <1>8

LEMMA QuestionsStep ==
  ASSUME TypesInv, RulesInv, QuestionsInv, [Next]_vars
  PROVE  QuestionsInv'
<1>1. CASE UNCHANGED <<workers, inbox>>
  BY <1>1 DEF QuestionsInv
<1>2. CASE TakeAnswer
  <2>1. workers' = workers /\ inbox # <<>> /\ inbox' = Tail(inbox) /\ IsSeq(inbox)
    BY <1>2 DEF TakeAnswer, TypesInv
  <2>2. \A i \in DOMAIN inbox' : i + 1 \in DOMAIN inbox /\ inbox'[i] = inbox[i + 1]
    BY <2>1, Shortened
  <2>3. QED
    BY <2>1, <2>2 DEF QuestionsInv
<1>3. CASE HandleStepUpdate
  <2>1. inbox' = inbox
    BY <1>3 DEF HandleStepUpdate, Recv
  <2>2. ASSUME NEW i \in DOMAIN workers' PROVE IsAbout(workers'[i])
    <3>1. CASE i \in DOMAIN workers
      BY <1>3, <3>1, UpdateClaims DEF QuestionsInv
    <3>2. CASE i \notin DOMAIN workers
      <4>1. IsFrame(Foremost) /\ Foremost.kind = "update" /\ workers'[i].questions = Foremost.questions
        BY <1>3, <3>2, UpdateClaims
      <4>2. Foremost.questions \in Seq({"choice", "other"})
        <5>1. Foremost.questions \in QuestionSets \union {<<>>}
          BY <4>1 DEF IsFrame
        <5>2. <<>> \in Seq({"choice", "other"})
          OBVIOUS
        <5>3. QED
          BY <5>1, <5>2, RequestsAssumption
      <4>3. QED
        BY <4>1, <4>2 DEF IsAbout
    <3>3. QED
      BY <3>1, <3>2
  <2>3. QED
    BY <2>1, <2>2 DEF QuestionsInv
<1>4. CASE StartPolicyDecision
  <2>1. inbox' = inbox /\ workers' = Append(workers, Foremost) /\ Foremost.kind = "policy"
    BY <1>4 DEF StartPolicyDecision, Recv, Foremost
  <2>2. IsSeq(workers)
    BY DEF TypesInv
  <2>3. IsAbout(Foremost)
    BY <2>1 DEF IsAbout
  <2>4. \A i \in DOMAIN workers' : IsAbout(workers'[i])
    BY <2>1, <2>2, <2>3, Appended DEF QuestionsInv
  <2>5. QED
    BY <2>1, <2>4 DEF QuestionsInv
<1>5. CASE Answer
  <2>1. PICK w \in DOMAIN workers :
          answerQuestions(w) \/ sendToolConfirmation(w) \/ handlePolicyDecision(w)
    BY <1>5 DEF Answer
  <2>2. \E m : Send(w, m) /\ IsLinedUp(m)
    <3>1. CASE answerQuestions(w)
      <4> DEFINE raw == workers[w].questions
      <4>1. PICK replies \in [1..NumHooks -> Replies] \union {<<>>} :
              Send(w, [kind |-> "questions", step |-> workers[w].step,
                       episode |-> workers[w].episode, questions |-> raw,
                       reply |-> FirstReply(replies),
                       answers |-> Answers(raw, FirstReply(replies))])
        BY <3>1 DEF answerQuestions
      <4>2. raw \in Seq({"choice", "other"})
        BY <3>1 DEF answerQuestions, QuestionsInv, IsAbout
      <4>3. IsReply(FirstReply(replies))
        BY RepliesAre
      <4>4. QED
        BY <4>1, <4>2, <4>3 DEF IsLinedUp
    <3>2. CASE sendToolConfirmation(w) \/ handlePolicyDecision(w)
      BY <3>2 DEF sendToolConfirmation, handlePolicyDecision, IsLinedUp
    <3>3. QED
      BY <2>1, <3>1, <3>2
  <2>3. PICK m : Send(w, m) /\ IsLinedUp(m)
    BY <2>2
  <2>4. inbox' = Append(inbox, m) /\ workers' = RemoveAt(workers, w) /\ IsSeq(inbox) /\ IsSeq(workers)
    BY <2>3 DEF Send, TypesInv
  <2>5. \A i \in DOMAIN inbox' : IsLinedUp(inbox'[i])
    BY <2>3, <2>4, Appended DEF QuestionsInv
  <2>6. \A i \in DOMAIN workers' : IsAbout(workers'[i])
    BY <2>4, RemovedIs DEF Selected, QuestionsInv
  <2>7. QED
    BY <2>5, <2>6 DEF QuestionsInv
<1>6. CASE UNCHANGED vars
  BY <1>1, <1>6 DEF vars
<1>7. ASSUME NEW s \in Steps, HarnessAsks(s) \/ Resume(s)
      PROVE  UNCHANGED <<workers, inbox>>
  BY <1>7 DEF HarnessAsks, CheckCall, AskUnknownRule, WaitForUser, RepeatUpdate, Resume
<1>8. QED
  BY <1>1, <1>2, <1>3, <1>4, <1>5, <1>6, <1>7 DEF Next

\* answerQuestions: one answer for each question, each multiple-choice question
\* with the reply given to it, and no option that was not offered.
THEOREM AnswersAlwaysLineUp == Spec => []AnswersLineUp
<1>1. Init => QuestionsInv
  BY DEF Init, QuestionsInv
<1>2. TypesInv /\ RulesInv /\ QuestionsInv /\ [Next]_vars => QuestionsInv'
  BY QuestionsStep
<1>3. QuestionsInv => AnswersLineUp
  <2> SUFFICES ASSUME QuestionsInv, NEW i \in DOMAIN inbox, inbox[i].kind = "questions"
               PROVE  LET m == inbox[i] IN
                      /\ Len(m.answers) = Len(m.questions)
                      /\ \A j \in DOMAIN m.answers :
                           LET n == Cardinality({l \in 1..j : m.questions[l] = "choice"})
                               a == m.answers[j]
                           IN /\ a.picked \subseteq 0..(Options - 1)
                              /\ IF m.questions[j] = "other" \/ n > Len(m.reply)
                                 THEN a = Skipped
                                 ELSE /\ a.skipped = m.reply[n].skipped
                                      /\ ~a.skipped => \A o \in 0..(Options - 1) :
                                                         o \in a.picked <=> o \in m.reply[n].picked
    BY DEF AnswersLineUp
  <2> DEFINE raw == inbox[i].questions
             reply == inbox[i].reply
  <2>1. /\ raw \in Seq({"choice", "other"}) /\ IsReply(reply)
        /\ inbox[i].answers = Answers(raw, reply)
    BY DEF QuestionsInv, IsLinedUp
  <2>2. DOMAIN Answers(raw, reply) = DOMAIN raw
    BY DEF Answers
  <2>3. Len(Answers(raw, reply)) = Len(raw)
    BY <2>1, <2>2
  <2>4. \A j \in DOMAIN raw :
          LET n == Cardinality(ChoicesTo(raw, j))
              a == Answers(raw, reply)[j]
          IN /\ a.picked \subseteq 0..(Options - 1)
             /\ IF raw[j] = "other" \/ n > Len(reply) THEN a = Skipped
                ELSE /\ a.skipped = reply[n].skipped
                     /\ ~a.skipped => \A o \in 0..(Options - 1) :
                                        o \in a.picked <=> o \in reply[n].picked
    BY <2>1, LinedUp
  <2>5. QED
    BY <2>1, <2>2, <2>3, <2>4 DEF ChoicesTo
<1>4. QED
  BY <1>1, <1>2, <1>3, TypesHold, PTL DEF Spec
=============================================================================
