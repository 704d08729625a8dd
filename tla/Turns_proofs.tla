---------------------------- MODULE Turns_proofs ----------------------------
(***************************************************************************)
(* What a program of one goroutine that waits for the agent to be idle     *)
(* before it sends can rely on: every turn is read whole and in its order. *)
(* The goroutine may stop reading a turn, turns may call tools, run        *)
(* subagents and fail, and prompts may fail to be sent.                    *)
(***************************************************************************)
EXTENDS Conversation_proofs, FunctionTheorems, FiniteSetTheorems

----------------------------------------------------------------------------
\* Sequences of which every element, or every one but the last, is known.

Only(s, S) == \A i \in 1..Len(s) : s[i] \in S
EndsIn(s, S, E) ==
  /\ s # <<>> /\ s[Len(s)] \in E
  /\ \A i \in 1..Len(s) : i < Len(s) => s[i] \in S
\* Before each e there is a d.
Preceded(s, e, d) ==
  \A i \in 1..Len(s) : s[i] = e => \E j \in 1..Len(s) : j < i /\ s[j] = d

LEMMA OnlyEmpty == \A S, e, d : Only(<<>>, S) /\ Preceded(<<>>, e, d)
BY DEF Only, Preceded

LEMMA OnlyLarger ==
  ASSUME NEW s, NEW S, NEW S2, Only(s, S), S \subseteq S2
  PROVE  Only(s, S2)
BY DEF Only

LEMMA OnlyAppend ==
  ASSUME NEW T, NEW s \in Seq(T), NEW a \in T, NEW S, NEW E
  PROVE  /\ Only(s, S) /\ a \in S => Only(Append(s, a), S)
         /\ Only(s, S) /\ a \in E => EndsIn(Append(s, a), S, E)
BY DEF Only, EndsIn

LEMMA OnlyTail ==
  ASSUME NEW T, NEW s \in Seq(T), s # <<>>, NEW S
  PROVE  Only(s, S) => Head(s) \in S /\ Only(Tail(s), S)
BY DEF Only

LEMMA EndsTail ==
  ASSUME NEW T, NEW s \in Seq(T), NEW S, NEW E, EndsIn(s, S, E)
  PROVE  \/ Head(s) \in E /\ Tail(s) = <<>>
         \/ Head(s) \in S /\ EndsIn(Tail(s), S, E)
<1>1. s # <<>>
  BY DEF EndsIn
<1>2. Len(s) \in Nat /\ Len(s) >= 1
  BY <1>1
<1>3. CASE Len(s) = 1
  <2>1. Tail(s) \in Seq(T) /\ Len(Tail(s)) = 0 /\ Head(s) = s[1]
    BY <1>2, <1>3
  <2>2. QED
    BY <1>3, <2>1, EmptySeq DEF EndsIn
<1>4. CASE Len(s) > 1
  <2>1. Len(Tail(s)) = Len(s) - 1 /\ Tail(s) # <<>> /\ Tail(s) \in Seq(T)
    BY <1>4
  <2>2. \A i \in 1..Len(Tail(s)) : Tail(s)[i] = s[i + 1]
    OBVIOUS
  <2>3. QED
    BY <1>4, <2>1, <2>2 DEF EndsIn
<1>5. Len(s) = 1 \/ Len(s) > 1
  BY <1>2
<1>6. QED
  BY <1>3, <1>4, <1>5

LEMMA PrecededAppend ==
  ASSUME NEW T, NEW s \in Seq(T), NEW a \in T, NEW e, NEW d, Preceded(s, e, d),
         a = e => Occurs(s, {d})
  PROVE  Preceded(Append(s, a), e, d)
<1> DEFINE t == Append(s, a)
<1>1. /\ Len(s) \in Nat /\ Len(t) = Len(s) + 1 /\ t[Len(s) + 1] = a
      /\ \A i \in 1..Len(s) : t[i] = s[i]
  OBVIOUS
<1> HIDE DEF t
<1>2. ASSUME NEW i \in 1..Len(t), t[i] = e
      PROVE  \E j \in 1..Len(t) : j < i /\ t[j] = d
  <2>1. CASE i \in 1..Len(s)
    BY <1>1, <1>2, <2>1 DEF Preceded
  <2>2. CASE i = Len(s) + 1
    <3>1. PICK j \in 1..Len(s) : s[j] = d
      BY <1>1, <1>2, <2>2 DEF Occurs
    <3>2. QED
      BY <1>1, <2>2, <3>1
  <2>3. QED
    BY <1>1, <2>1, <2>2
<1>3. QED
  BY <1>2 DEF Preceded, t

LEMMA PrecededTail ==
  ASSUME NEW T, NEW s \in Seq(T), s # <<>>, NEW e, NEW d, Preceded(s, e, d)
  PROVE  /\ Head(s) # e
         /\ Head(s) # d => Preceded(Tail(s), e, d)
<1> DEFINE t == Tail(s)
<1>1. /\ Len(s) \in Nat /\ Len(s) >= 1 /\ Len(t) = Len(s) - 1
      /\ \A i \in 1..Len(t) : t[i] = s[i + 1]
      /\ Head(s) = s[1]
  OBVIOUS
<1> HIDE DEF t
<1>2. Head(s) # e
  BY <1>1 DEF Preceded
<1>3. ASSUME Head(s) # d, NEW i \in 1..Len(t), t[i] = e
      PROVE  \E j \in 1..Len(t) : j < i /\ t[j] = d
  <2>1. i + 1 \in 1..Len(s) /\ s[i + 1] = e
    BY <1>1, <1>3
  <2>2. PICK j \in 1..Len(s) : j < i + 1 /\ s[j] = d
    BY <2>1 DEF Preceded
  <2>3. j # 1
    BY <1>1, <1>3, <2>2
  <2>4. j - 1 \in 1..Len(t) /\ j - 1 < i /\ t[j - 1] = d
    BY <1>1, <2>2, <2>3
  <2>5. QED
    BY <2>4
<1>4. QED
  BY <1>2, <1>3 DEF Preceded, t

----------------------------------------------------------------------------
\* How many elements of a sequence are in a set.

Places(s, S) == {i \in 1..Len(s) : s[i] \in S}
Count(s, S) == Cardinality(Places(s, S))

LEMMA PlacesFinite ==
  ASSUME NEW T, NEW s \in Seq(T), NEW S
  PROVE  IsFiniteSet(Places(s, S)) /\ Count(s, S) \in Nat
<1>1. IsFiniteSet(1..Len(s))
  BY FS_Interval
<1>2. Places(s, S) \in SUBSET (1..Len(s))
  BY DEF Places
<1>3. IsFiniteSet(Places(s, S))
  BY <1>1, <1>2, FS_Subset
<1>4. QED
  BY <1>3, FS_CardinalityType DEF Count

LEMMA CountNone ==
  ASSUME NEW s, NEW S, ~Occurs(s, S)
  PROVE  Count(s, S) = 0
<1>1. Places(s, S) = {}
  BY DEF Places, Occurs
<1>2. QED
  BY <1>1, FS_EmptySet DEF Count

LEMMA CountAppend ==
  ASSUME NEW T, NEW s \in Seq(T), NEW a \in T, NEW S
  PROVE  /\ a \in S => Count(Append(s, a), S) = Count(s, S) + 1
         /\ a \notin S => Count(Append(s, a), S) = Count(s, S)
<1> DEFINE t == Append(s, a)
<1>1. /\ Len(s) \in Nat /\ Len(t) = Len(s) + 1 /\ t[Len(s) + 1] = a
      /\ \A i \in 1..Len(s) : t[i] = s[i]
  OBVIOUS
<1> HIDE DEF t
<1>2. CASE a \in S
  <2>1. Places(t, S) = Places(s, S) \cup {Len(s) + 1}
    BY <1>1, <1>2 DEF Places
  <2>2. Len(s) + 1 \notin Places(s, S)
    BY <1>1 DEF Places
  <2>3. Cardinality(Places(s, S) \cup {Len(s) + 1})
          = Cardinality(Places(s, S)) + 1
    BY <2>2, PlacesFinite, FS_AddElement
  <2>4. QED
    BY <1>2, <2>1, <2>3 DEF Count, t
<1>3. CASE a \notin S
  <2>1. Places(t, S) = Places(s, S)
    BY <1>1, <1>3 DEF Places
  <2>2. QED
    BY <1>3, <2>1, PlacesFinite DEF Count, t
<1>4. QED
  BY <1>2, <1>3

LEMMA CountTail ==
  ASSUME NEW T, NEW s \in Seq(T), s # <<>>, NEW S
  PROVE  /\ Head(s) \in S => Count(s, S) = Count(Tail(s), S) + 1
         /\ Head(s) \notin S => Count(s, S) = Count(Tail(s), S)
<1> DEFINE t == Tail(s)
           f == [i \in Places(t, S) |-> i + 1]
           rest == Places(s, S) \ {1}
<1>1. /\ Len(s) \in Nat /\ Len(s) >= 1 /\ Len(t) = Len(s) - 1
      /\ \A i \in 1..Len(t) : t[i] = s[i + 1]
      /\ Head(s) = s[1] /\ t \in Seq(T)
  OBVIOUS
<1> HIDE DEF t
<1>2. f \in Bijection(Places(t, S), rest)
  <2>1. \A i \in Places(t, S) : i + 1 \in rest
    BY <1>1 DEF Places
  <2>2. \A j \in rest : j - 1 \in Places(t, S) /\ f[j - 1] = j
    BY <1>1 DEF Places
  <2>3. \A i, j \in Places(t, S) : f[i] = f[j] => i = j
    BY DEF Places
  <2>4. f \in [Places(t, S) -> rest]
    BY <2>1
  <2>5. QED
    BY <2>2, <2>3, <2>4, Fun_IsBij
<1>3. Cardinality(rest) = Count(t, S) /\ IsFiniteSet(rest)
  <2>1. ExistsBijection(Places(t, S), rest)
    BY <1>2 DEF ExistsBijection
  <2>2. IsFiniteSet(Places(t, S))
    BY <1>1, PlacesFinite
  <2>3. QED
    BY <2>1, <2>2, FS_Bijection DEF Count
<1>4. CASE Head(s) \in S
  <2>1. Places(s, S) = rest \cup {1} /\ 1 \notin rest
    BY <1>1, <1>4 DEF Places
  <2>2. Cardinality(rest \cup {1}) = Cardinality(rest) + 1
    BY <1>3, <2>1, FS_AddElement
  <2>3. Count(s, S) = Count(t, S) + 1
    BY <1>3, <2>1, <2>2 DEF Count
  <2>4. QED
    BY <1>4, <2>3 DEF t
<1>5. CASE Head(s) \notin S
  <2>1. Places(s, S) = rest
    BY <1>1, <1>5 DEF Places
  <2>2. Count(t, S) \in Nat
    BY <1>1, PlacesFinite
  <2>3. Count(s, S) = Count(t, S)
    BY <1>3, <2>1 DEF Count
  <2>4. QED
    BY <1>5, <2>2, <2>3 DEF t
<1>6. QED
  BY <1>4, <1>5

----------------------------------------------------------------------------
\* Where a turn is.  The program has one turn at a time: `current`.

StepEvent == Event("step", current)
TurnEvents == {StepEvent, Event("err", current)}
Marker == Event("idle", current)

StepFrame == Out("step", "main", current, NoCall)
SubFrame == Out("idle", "sub", current, NoCall)
ToolFrame(k) == Out("tool", "main", current, k)
PlainFrames == {StepFrame, Out("running", "main", current, NoCall), SubFrame}
                 \union {ToolFrame(k) : k \in awaiting}
EndFrames == {Out(kind, "main", current, NoCall) : kind \in {"idle", "failed"}}
Answers == {In("toolResponse", current, k) : k \in awaiting}

StepOps == {<<>>, <<Emit("step", current)>>, <<MarkRunning>>}
EndOps == {<<Emit("err", current), Emit("idle", current), MarkIdle>>,
           <<Emit("idle", current), MarkIdle>>}

\* What the harness still has to say of the turn: the report of a subagent
\* comes after the step that made the main trajectory known.
WireOrdered == main = "main" \/ Preceded(wire, SubFrame, StepFrame)
MainKnown == main = "main" \/ Occurs(wire, {StepFrame})
CallsAwaited ==
  /\ Only(inbox, Answers)
  /\ \A r \in tools : r.turn = current /\ r.call \in awaiting

Still == running = NoTurn /\ awaiting = {} /\ tools = {} /\ wire = <<>>

\* The prompt is on its way, or accepted.
Waiting ==
  /\ current # NoTurn /\ ~idle /\ Still /\ loop = <<>> /\ queue = <<>>
  /\ produced[current] = 0
  /\ \/ inbox = <<In("turn", current, NoCall)>> /\ backlog = <<>>
     \/ inbox = <<>> /\ backlog = <<current>>

Running ==
  /\ current # NoTurn /\ running = current /\ ~idle /\ backlog = <<>>
  /\ loop \in StepOps /\ Only(queue, TurnEvents)
  /\ Only(wire, PlainFrames) /\ WireOrdered /\ CallsAwaited
  /\ produced[current] > 0 => MainKnown

\* The harness has ended the turn, and the read loop has not come to it.
Ending ==
  /\ current # NoTurn /\ running = NoTurn /\ ~idle
  /\ backlog = <<>> /\ inbox = <<>> /\ awaiting = {} /\ tools = {}
  /\ loop \in StepOps /\ Only(queue, TurnEvents)
  /\ EndsIn(wire, PlainFrames, EndFrames) /\ WireOrdered

\* The read loop has the end of the turn in hand.
Concluding ==
  /\ current # NoTurn /\ ~idle /\ Still /\ inbox = <<>> /\ backlog = <<>>
  /\ loop \in EndOps /\ Only(queue, TurnEvents)

\* Whatever the turn had to show was queued, and its marker last: what is left
\* is to open the gate and to read.
Concluded ==
  /\ Still /\ inbox = <<>> /\ backlog = <<>>
  /\ loop = <<>> \/ (loop = <<MarkIdle>> /\ ~idle)
  /\ queue = <<>> \/ (current # NoTurn /\ EndsIn(queue, TurnEvents, {Marker}))

Active == Waiting \/ Running \/ Ending \/ Concluding
Over == Concluded /\ queue = <<>>

\* Nothing that the program of this module does not do has happened.
Undisturbed ==
  /\ link = "open" /\ ~finished /\ ~sessionEnd /\ closer = "open"
  /\ discarded = {} /\ lastTurn = current /\ main \in {NoMain, "main"}
  /\ \A t \in Turns : t > current => produced[t] = 0 /\ recorded[t] = 0

\* Every step that the turn has to show was read or is somewhere on its way.
OnTheQueue == Count(queue, {StepEvent})
InTheLoop == IF loop = <<Emit("step", current)>> THEN 1 ELSE 0
StepFrames == {StepFrame} \union {ToolFrame(k) : k \in Calls}
OnTheWire == Count(wire, StepFrames)
Announced == {r \in tools : r.at = "announce"}
Unread == OnTheQueue + InTheLoop + OnTheWire + Cardinality(Announced)
Balance ==
  current # NoTurn => recorded[current] + Unread = produced[current]

\* A Send that looks sees the agent idle, and so one that asks for a turn
\* finds nothing of the turn before.
Checking == {"lock", "checkIdle", "checkPending", "lockDrain", "drain"}
Asking == {"reset", "markRunning", "discard", "input"}
CallerFits(c) ==
  /\ pc[c] \in Checking => idle
  /\ pc[c] \in Asking => Over /\ loop = <<>>
  /\ pc[c] \in {"discard", "input"} => ~idle

TurnInv(c) ==
  /\ Undisturbed
  /\ Active \/ Concluded
  /\ CallerFits(c)
  /\ Balance

\* The turn in progress goes on.
GoesOn ==
  /\ Active /\ Active' /\ Undisturbed' /\ Balance'
  /\ UNCHANGED <<current, pc>>

----------------------------------------------------------------------------
\* What the names above tell apart.

LEMMA OpsDiffer ==
  ASSUME NEW t
  PROVE  /\ <<Emit("step", t)>> \notin
              {<<>>, <<MarkRunning>>, <<MarkIdle>>,
               <<Emit("idle", t), MarkIdle>>,
               <<Emit("err", t), Emit("idle", t), MarkIdle>>}
         /\ <<MarkRunning>> \notin {<<>>, <<MarkIdle>>}
         /\ <<MarkIdle>> # <<>>
         /\ <<Emit("idle", t), MarkIdle>> \notin {<<>>, <<MarkIdle>>}
         /\ <<Emit("err", t), Emit("idle", t), MarkIdle>>
              \notin {<<>>, <<MarkIdle>>}
<1>1. /\ Emit("step", t) \notin {MarkRunning, MarkIdle, Emit("idle", t),
                                 Emit("err", t)}
      /\ MarkRunning # MarkIdle
      /\ MarkIdle \notin {Emit("idle", t), Emit("err", t)}
  BY DEF Emit, MarkRunning, MarkIdle, Event
<1>2. QED
  BY <1>1

LEMMA ActiveIsNotConcluded == Active => ~idle /\ ~Concluded
<1>1. CASE Waiting
  BY <1>1 DEF Waiting, Concluded
<1>2. CASE Running
  BY <1>2 DEF Running, Concluded, Still
<1>3. CASE Ending
  BY <1>3 DEF Ending, Concluded, Still, EndsIn
<1>4. CASE Concluding
  BY <1>4, OpsDiffer DEF Concluding, Concluded, EndOps
<1>5. QED
  BY <1>1, <1>2, <1>3, <1>4 DEF Active

LEMMA TurnGoesOn ==
  ASSUME NEW c \in Callers, TurnInv(c), GoesOn
  PROVE  TurnInv(c)' /\ ~Over /\ ~Over'
<1>1. (Active => ~idle /\ ~Concluded)'
  BY ActiveIsNotConcluded, PTL
<1>2. CallerFits(c)'
  BY <1>1, ActiveIsNotConcluded DEF TurnInv, CallerFits, GoesOn, Over
<1>3. QED
  BY <1>1, <1>2, ActiveIsNotConcluded DEF TurnInv, GoesOn, Over

LEMMA FramesAre ==
  ASSUME awaiting \subseteq Calls
  PROVE  /\ \A e \in PlainFrames :
              /\ e.turn = current
              /\ e.kind \in {"step", "running", "idle", "tool"}
              /\ e.kind = "step" <=> e = StepFrame
              /\ e.kind = "idle" <=> e = SubFrame
              /\ e.kind \in {"step", "running", "tool"} => e.traj = "main"
              /\ e.kind = "tool" => e.call \in awaiting
              /\ e.kind \in {"step", "tool"} <=> e \in StepFrames
         /\ \A e \in EndFrames :
              /\ e.turn = current /\ e.traj = "main"
              /\ e.kind \in {"idle", "failed"}
              /\ e # SubFrame /\ e # StepFrame
              /\ e \notin StepFrames
BY DEF PlainFrames, EndFrames, StepFrames, StepFrame, SubFrame, ToolFrame, Out

LEMMA OtherFramesAre ==
  /\ Out("running", "main", current, NoCall) \in PlainFrames \ StepFrames
  /\ Out("running", "main", current, NoCall) # SubFrame
  /\ SubFrame \in PlainFrames \ StepFrames
  /\ StepFrame \in PlainFrames /\ StepFrame # SubFrame
  /\ \A k \in awaiting : ToolFrame(k) \in PlainFrames /\ ToolFrame(k) # SubFrame
<1>1. ASSUME NEW e, e.kind \notin {"step", "tool"} PROVE e \notin StepFrames
  BY <1>1 DEF StepFrames, StepFrame, ToolFrame, Out
<1>2. /\ Out("running", "main", current, NoCall).kind = "running"
      /\ SubFrame.kind = "idle" /\ StepFrame.kind = "step"
      /\ \A k : ToolFrame(k).kind = "tool"
  BY DEF StepFrame, ToolFrame, SubFrame, Out
<1>3. QED
  BY <1>1, <1>2 DEF PlainFrames

LEMMA AnswersAre ==
  \A m \in Answers : m.kind = "toolResponse" /\ m.call \in awaiting
BY DEF Answers, In

LEMMA Singletons ==
  ASSUME NEW x
  PROVE  /\ Head(<<x>>) = x /\ Tail(<<x>>) = <<>> /\ <<x>> # <<>>
         /\ Append(<<>>, x) = <<x>> /\ <<>> \in Seq({x})
<1>1. <<x>> \in Seq({x}) /\ <<>> \in Seq({x}) /\ Len(<<x>>) = 1
  OBVIOUS
<1>2. Tail(<<x>>) \in Seq({x}) /\ Len(Tail(<<x>>)) = 0
  BY <1>1
<1>3. Tail(<<x>>) = <<>>
  BY <1>2, EmptySeq
<1>4. QED
  BY <1>1, <1>3

LEMMA EventsAre ==
  /\ StepEvent.kind = "step" /\ StepEvent.turn = current
  /\ Marker.kind = "idle" /\ Marker.turn = current
  /\ \A e \in TurnEvents : /\ e.kind \in {"step", "err"} /\ e.turn = current
                           /\ e.kind = "step" <=> e = StepEvent
                           /\ e # Marker
  /\ StepEvent # Marker
BY DEF StepEvent, Marker, TurnEvents, Event

LEMMA CountsAreNumbers ==
  ASSUME TypeOK
  PROVE  /\ OnTheQueue \in Nat /\ InTheLoop \in Nat /\ OnTheWire \in Nat
         /\ IsFiniteSet(tools) /\ IsFiniteSet(Announced)
         /\ Cardinality(Announced) \in Nat
<1>1. IsFiniteSet(ToolRuns)
  <2>1. IsFiniteSet(Calls) /\ IsFiniteSet(Turns)
    BY FS_Interval, HarnessAssumption DEF Calls, Turns
  <2> DEFINE pairs == Calls \X Turns
             places == {"announce", "invoke"}
             run == [x \in pairs \X places |->
                       [call |-> x[1][1], turn |-> x[1][2], at |-> x[2]]]
  <2>2. IsFiniteSet(places)
    <3>1. IsFiniteSet({} \cup {"announce"})
      BY FS_EmptySet, FS_AddElement
    <3>2. IsFiniteSet(({} \cup {"announce"}) \cup {"invoke"})
      BY <3>1, FS_AddElement
    <3>3. places = ({} \cup {"announce"}) \cup {"invoke"}
      OBVIOUS
    <3>4. QED
      BY <3>2, <3>3
  <2>3. IsFiniteSet(pairs \X places)
    <3>1. IsFiniteSet(pairs)
      BY <2>1, FS_Product
    <3>2. QED
      BY <2>2, <3>1, FS_Product
  <2>4. run \in Surjection(pairs \X places, ToolRuns)
    <3>1. run \in [pairs \X places -> ToolRuns]
      BY DEF ToolRuns
    <3>2. ASSUME NEW r \in ToolRuns
          PROVE  \E x \in pairs \X places : run[x] = r
      <4>1. <<<<r.call, r.turn>>, r.at>> \in pairs \X places
        BY DEF ToolRuns
      <4>2. run[<<<<r.call, r.turn>>, r.at>>] = r
        BY <4>1 DEF ToolRuns
      <4>3. QED
        BY <4>1, <4>2
    <3>3. QED
      BY <3>1, <3>2, Fun_IsSurj
  <2>5. QED
    BY <2>3, <2>4, FS_Surjection
<1>2. IsFiniteSet(tools) /\ IsFiniteSet(Announced)
  <2>1. tools \in SUBSET ToolRuns /\ Announced \in SUBSET tools
    BY DEF TypeOK, ProcessorTypeOK, Announced
  <2>2. QED
    BY <1>1, <2>1, FS_Subset
<1>3. QED
  BY <1>2, PlacesFinite, FS_CardinalityType
     DEF TypeOK, HarnessTypeOK, ProcessorTypeOK, OnTheQueue, InTheLoop,
         OnTheWire

----------------------------------------------------------------------------
\* The harness.

LEMMA UndisturbedKept ==
  ASSUME Undisturbed, main' \in {NoMain, "main"},
         UNCHANGED <<link, finished, sessionEnd, closer, discarded, lastTurn,
                     current>>,
         \A t \in Turns : t > current =>
           produced'[t] = produced[t] /\ recorded'[t] = recorded[t]
  PROVE  Undisturbed'
BY DEF Undisturbed

\* What stays as it is when only the harness moves.
HarnessOnly == UNCHANGED <<processorVars, conversationVars>>

LEMMA HarnessLeavesAlone ==
  ASSUME HarnessOnly
  PROVE  /\ UNCHANGED <<loop, finished, queue, idle, sessionEnd, main, tools>>
         /\ UNCHANGED <<pc, closer, current, recorded, discarded>>
         /\ UNCHANGED <<OnTheQueue, InTheLoop, Announced>>
         /\ UNCHANGED <<StepEvent, TurnEvents, Marker, StepFrame, SubFrame,
                        StepOps, EndOps, EndFrames, StepFrames>>
BY DEF HarnessOnly, processorVars, conversationVars, OnTheQueue, InTheLoop,
       Announced, StepEvent, TurnEvents, Marker, StepFrame, SubFrame,
       StepOps, EndOps, EndFrames, StepFrames, ToolFrame

LEMMA ReadByTheHarness ==
  ASSUME ToolInv, Active \/ Concluded, TakeRequest
  PROVE  /\ \/ Waiting /\ Head(inbox) = In("turn", current, NoCall)
            \/ Running /\ Head(inbox) \in Answers
         /\ inbox \in Seq(InputEvents) /\ Tail(inbox) \in Seq(InputEvents)
<1>1. inbox # <<>> /\ inbox \in Seq(InputEvents)
  BY DEF TakeRequest, ToolInv, TypeOK, HarnessTypeOK
<1>2. Waiting \/ Running
  BY <1>1 DEF Active, Ending, Concluding, Concluded
<1>3. CASE Waiting
  BY <1>1, <1>3 DEF Waiting
<1>4. CASE Running
  BY <1>1, <1>4, OnlyTail DEF Running, CallsAwaited
<1>5. QED
  BY <1>1, <1>2, <1>3, <1>4

LEMMA PromptAccepted ==
  ASSUME ToolInv, NEW c \in Callers, TurnInv(c), AcceptTurn, HarnessOnly
  PROVE  GoesOn
<1>1. /\ TakeRequest /\ Head(inbox).kind = "turn" /\ inbox' = Tail(inbox)
      /\ backlog' = Append(backlog, Head(inbox).turn)
      /\ UNCHANGED <<wire, running, awaiting>>
      /\ UNCHANGED <<link, calls, lastTurn, produced>>
  BY DEF AcceptTurn, TakeRequest
<1>2. Waiting /\ Head(inbox) = In("turn", current, NoCall)
  BY <1>1, ReadByTheHarness, AnswersAre DEF TurnInv
<1>3. inbox' = <<>> /\ backlog' = <<current>>
  <2>1. inbox = <<In("turn", current, NoCall)>> /\ backlog = <<>>
    BY <1>1, <1>2 DEF Waiting, TakeRequest
  <2>2. Head(inbox).turn = current
    BY <1>2 DEF In
  <2>3. QED
    BY <1>1, <2>1, <2>2, Singletons
<1>4. Waiting'
  <2>1. UNCHANGED <<current, idle, running, awaiting, tools, wire, loop,
                    queue, produced>>
    BY <1>1, HarnessLeavesAlone
  <2>2. QED
    BY <1>2, <1>3, <2>1 DEF Waiting, Still
<1>5. Undisturbed'
  BY <1>1, HarnessLeavesAlone, UndisturbedKept DEF TurnInv, Undisturbed
<1>6. Balance'
  BY <1>1, HarnessLeavesAlone DEF TurnInv, Balance, Unread, OnTheWire
<1>7. QED
  BY <1>2, <1>4, <1>5, <1>6, HarnessLeavesAlone DEF GoesOn, Active

LEMMA TurnStarted ==
  ASSUME ToolInv, NEW c \in Callers, TurnInv(c), StartTurn, HarnessOnly
  PROVE  GoesOn
<1> DEFINE frame == Out("running", "main", current, NoCall)
<1>1. /\ running = NoTurn /\ backlog # <<>>
      /\ running' = Head(backlog) /\ backlog' = Tail(backlog)
      /\ wire' = Append(wire, Out("running", "main", Head(backlog), NoCall))
      /\ UNCHANGED <<inbox, link, awaiting, calls, lastTurn, produced>>
  BY DEF StartTurn
<1>2. Waiting /\ inbox = <<>> /\ backlog = <<current>>
  BY <1>1 DEF TurnInv, Active, Waiting, Running, Ending, Concluding, Concluded
<1>3. running' = current /\ backlog' = <<>> /\ wire' = Append(<<>>, frame)
  BY <1>1, <1>2 DEF Waiting, Still
<1>4. /\ <<>> \in Seq({frame}) /\ frame \in PlainFrames \ StepFrames
      /\ frame # SubFrame
  BY OtherFramesAre, Singletons
<1> HIDE DEF frame
<1>5. Only(wire', PlainFrames) /\ Preceded(wire', SubFrame, StepFrame)
  BY <1>3, <1>4, OnlyEmpty, OnlyAppend, PrecededAppend
<1>6. UNCHANGED PlainFrames
  BY <1>1, HarnessLeavesAlone DEF PlainFrames, StepFrame, SubFrame, ToolFrame
<1>7. Running'
  <2>1. WireOrdered' /\ Only(wire, PlainFrames)'
    BY <1>5, <1>6, HarnessLeavesAlone DEF WireOrdered
  <2>2. CallsAwaited'
    BY <1>1, <1>2, HarnessLeavesAlone, OnlyEmpty
       DEF CallsAwaited, Waiting, Still
  <2>3. (loop \in StepOps)' /\ Only(queue, TurnEvents)'
    BY <1>2, HarnessLeavesAlone, OnlyEmpty DEF Waiting, StepOps
  <2>4. QED
    BY <1>1, <1>2, <1>3, <2>1, <2>2, <2>3, HarnessLeavesAlone
       DEF Running, Waiting
<1>8. Undisturbed'
  BY <1>1, HarnessLeavesAlone, UndisturbedKept DEF TurnInv, Undisturbed
<1>9. Balance'
  <2>1. OnTheWire' = OnTheWire
    <3>1. wire = <<>> /\ Count(<<>>, StepFrames) = 0
      BY <1>2, CountNone, EmptyOccurs DEF Waiting, Still
    <3>2. Count(Append(<<>>, frame), StepFrames) = 0
      BY <1>4, <3>1, CountAppend
    <3>3. QED
      BY <1>3, <3>1, <3>2, HarnessLeavesAlone DEF OnTheWire
  <2>2. QED
    BY <1>1, <2>1, HarnessLeavesAlone DEF TurnInv, Balance, Unread
<1>10. QED
  BY <1>2, <1>7, <1>8, <1>9, HarnessLeavesAlone DEF GoesOn, Active

\* A turn in progress, and what one more frame does to it.
LEMMA InProgress ==
  ASSUME ToolInv, Active \/ Concluded, running # NoTurn
  PROVE  Running /\ running = current /\ current \in Turns
BY DEF Active, Waiting, Running, Ending, Concluding, Concluded, Still, ToolInv,
       TypeOK, HarnessTypeOK

LEMMA WireGrows ==
  ASSUME ToolInv, WireOrdered, NEW e \in OutputEvents, HarnessOnly,
         wire' = Append(wire, e)
  PROVE  /\ e \in StepFrames => OnTheWire' = OnTheWire + 1
         /\ e \notin StepFrames => OnTheWire' = OnTheWire
         /\ e # SubFrame \/ MainKnown => WireOrdered'
         /\ e = StepFrame \/ MainKnown => MainKnown'
<1>1. /\ wire \in Seq(OutputEvents)
      /\ UNCHANGED <<main, StepFrames, SubFrame, StepFrame>>
  BY HarnessLeavesAlone DEF ToolInv, TypeOK, HarnessTypeOK
<1>2. /\ e \in StepFrames => OnTheWire' = OnTheWire + 1
      /\ e \notin StepFrames => OnTheWire' = OnTheWire
  BY <1>1, CountAppend DEF OnTheWire
<1>3. ASSUME e # SubFrame \/ MainKnown PROVE WireOrdered'
  <2>1. CASE main = "main"
    BY <1>1, <2>1 DEF WireOrdered
  <2>2. CASE main # "main"
    <3>1. Preceded(wire, SubFrame, StepFrame)
      BY <2>2 DEF WireOrdered
    <3>2. e = SubFrame => Occurs(wire, {StepFrame})
      BY <1>3, <2>2 DEF MainKnown
    <3>3. Preceded(Append(wire, e), SubFrame, StepFrame)
      BY <1>1, <3>1, <3>2, PrecededAppend
    <3>4. QED
      BY <1>1, <3>3 DEF WireOrdered
  <2>3. QED
    BY <2>1, <2>2
<1>4. e = StepFrame \/ MainKnown => MainKnown'
  BY <1>1, AppendOccurs DEF MainKnown
<1>5. QED
  BY <1>2, <1>3, <1>4

\* The parts of Running that the wire and the calls do not concern.
LEMMA StillRunning ==
  ASSUME Running, HarnessOnly, UNCHANGED <<running, backlog>>,
         Only(wire', PlainFrames'), WireOrdered', CallsAwaited',
         (produced[current] > 0)' => MainKnown'
  PROVE  Running'
BY HarnessLeavesAlone DEF Running

LEMMA StepSent ==
  ASSUME ToolInv, NEW c \in Callers, TurnInv(c), SendStep, HarnessOnly
  PROVE  GoesOn /\ produced' = [produced EXCEPT ![current] = @ + 1]
<1>1. Running /\ running = current /\ current \in Turns
  BY InProgress DEF TurnInv, SendStep
<1>2. /\ wire' = Append(wire, StepFrame)
      /\ produced' = [produced EXCEPT ![current] = @ + 1]
      /\ UNCHANGED <<inbox, link, backlog, running, awaiting, calls, lastTurn>>
  BY <1>1 DEF SendStep, StepFrame
<1>3. /\ UNCHANGED <<PlainFrames, Answers>>
      /\ StepFrame \in OutputEvents /\ StepFrame \in StepFrames
  BY <1>1, <1>2, HarnessLeavesAlone, OutputTypes
     DEF PlainFrames, Answers, ToolFrame, StepFrame, StepFrames, Trajectories
<1>4. /\ wire \in Seq(OutputEvents) /\ produced \in [Turns -> Nat]
      /\ produced'[current] = produced[current] + 1
      /\ recorded \in [Turns -> Nat]
  BY <1>1, <1>2 DEF ToolInv, TypeOK, HarnessTypeOK, ConversationTypeOK
<1>5. Running'
  <2>1. Only(wire', PlainFrames)
    BY <1>1, <1>2, <1>3, <1>4, OnlyAppend, OtherFramesAre DEF Running
  <2>2. WireOrdered' /\ MainKnown'
    BY <1>1, <1>2, <1>3, WireGrows, OtherFramesAre DEF Running
  <2>3. CallsAwaited'
    BY <1>1, <1>2, <1>3, HarnessLeavesAlone DEF Running, CallsAwaited
  <2>4. QED
    BY <1>1, <1>2, <1>3, <2>1, <2>2, <2>3, StillRunning
<1>6. Undisturbed'
  <2>1. \A t \in Turns : t > current => produced'[t] = produced[t]
    BY <1>1, <1>2, <1>4 DEF Turns
  <2>2. QED
    BY <1>2, <2>1, HarnessLeavesAlone, UndisturbedKept DEF TurnInv, Undisturbed
<1>7. Balance'
  <2>1. OnTheWire' = OnTheWire + 1
    BY <1>1, <1>2, <1>3, WireGrows DEF Running
  <2>2. QED
    BY <1>1, <1>4, <2>1, HarnessLeavesAlone, CountsAreNumbers
       DEF TurnInv, Balance, Unread, ToolInv
<1>8. QED
  BY <1>1, <1>2, <1>5, <1>6, <1>7, HarnessLeavesAlone DEF GoesOn, Active

LEMMA ToolCalled ==
  ASSUME ToolInv, NEW c \in Callers, TurnInv(c), CallTool, HarnessOnly
  PROVE  GoesOn /\ produced' = [produced EXCEPT ![current] = @ + 1]
<1> DEFINE k == calls + 1
           frame == ToolFrame(k)
<1>1. /\ Running /\ running = current /\ current \in Turns
      /\ produced[current] > 0
  BY InProgress DEF TurnInv, CallTool
<1>2. /\ k \in Calls /\ wire' = Append(wire, frame)
      /\ awaiting' = awaiting \union {k}
      /\ produced' = [produced EXCEPT ![current] = @ + 1]
      /\ UNCHANGED <<inbox, link, backlog, running, lastTurn>>
  BY <1>1, HarnessAssumption
     DEF CallTool, ToolFrame, Calls, ToolInv, TypeOK, HarnessTypeOK
<1> HIDE DEF k
<1>3. /\ PlainFrames \subseteq PlainFrames' /\ Answers \subseteq Answers'
      /\ frame \in PlainFrames'
  BY <1>2, HarnessLeavesAlone DEF PlainFrames, Answers, ToolFrame, SubFrame,
                                  StepFrame
<1>4. /\ frame \in OutputEvents /\ frame \in StepFrames /\ frame # SubFrame
  BY <1>1, <1>2, OutputTypes DEF ToolFrame, StepFrames, Trajectories, SubFrame,
                                 Out
<1> HIDE DEF frame
<1>5. /\ wire \in Seq(OutputEvents) /\ produced \in [Turns -> Nat]
      /\ produced'[current] = produced[current] + 1
      /\ recorded \in [Turns -> Nat]
  BY <1>1, <1>2 DEF ToolInv, TypeOK, HarnessTypeOK, ConversationTypeOK
<1>6. Running'
  <2>1. Only(wire', PlainFrames')
    <3>1. Only(wire, PlainFrames')
      BY <1>1, <1>3, OnlyLarger DEF Running
    <3>2. Only(Append(wire, frame), PlainFrames')
      BY <1>3, <1>4, <1>5, <3>1, OnlyAppend
    <3>3. QED
      BY <1>2, <3>2
  <2>2. WireOrdered' /\ MainKnown'
    BY <1>1, <1>2, <1>4, WireGrows DEF Running
  <2>3. CallsAwaited'
    <3>1. Only(inbox', Answers')
      BY <1>1, <1>2, <1>3, OnlyLarger DEF Running, CallsAwaited
    <3>2. QED
      BY <1>1, <1>2, <3>1, HarnessLeavesAlone DEF Running, CallsAwaited
  <2>4. QED
    BY <1>1, <1>2, <2>1, <2>2, <2>3, StillRunning
<1>7. Undisturbed'
  <2>1. \A t \in Turns : t > current => produced'[t] = produced[t]
    BY <1>1, <1>2, <1>5 DEF Turns
  <2>2. QED
    BY <1>2, <2>1, HarnessLeavesAlone, UndisturbedKept DEF TurnInv, Undisturbed
<1>8. Balance'
  <2>1. OnTheWire' = OnTheWire + 1
    BY <1>1, <1>2, <1>4, WireGrows DEF Running
  <2>2. QED
    BY <1>1, <1>5, <2>1, HarnessLeavesAlone, CountsAreNumbers
       DEF TurnInv, Balance, Unread, ToolInv
<1>9. QED
  BY <1>1, <1>2, <1>6, <1>7, <1>8, HarnessLeavesAlone DEF GoesOn, Active

LEMMA SubagentReported ==
  ASSUME ToolInv, NEW c \in Callers, TurnInv(c), SubagentIdle, HarnessOnly
  PROVE  GoesOn
<1>1. /\ Running /\ running = current /\ current \in Turns
      /\ produced[current] > 0
  BY InProgress DEF TurnInv, SubagentIdle
<1>2. /\ wire' = Append(wire, SubFrame)
      /\ UNCHANGED <<inbox, link, backlog, running, awaiting, calls, lastTurn,
                     produced>>
  BY <1>1 DEF SubagentIdle, SubFrame
<1>3. UNCHANGED <<PlainFrames, Answers>> /\ SubFrame \in OutputEvents
  BY <1>1, <1>2, HarnessLeavesAlone, OutputTypes
     DEF PlainFrames, Answers, ToolFrame, SubFrame, Trajectories
<1>4. wire \in Seq(OutputEvents)
  BY DEF ToolInv, TypeOK, HarnessTypeOK
<1>5. Running'
  <2>1. Only(wire', PlainFrames)
    BY <1>1, <1>2, <1>3, <1>4, OnlyAppend, OtherFramesAre DEF Running
  <2>2. WireOrdered' /\ MainKnown'
    BY <1>1, <1>2, <1>3, WireGrows DEF Running
  <2>3. CallsAwaited'
    BY <1>1, <1>2, <1>3, HarnessLeavesAlone DEF Running, CallsAwaited
  <2>4. QED
    BY <1>1, <1>2, <1>3, <2>1, <2>2, <2>3, StillRunning
<1>6. Undisturbed'
  BY <1>2, HarnessLeavesAlone, UndisturbedKept DEF TurnInv, Undisturbed
<1>7. Balance'
  <2>1. OnTheWire' = OnTheWire
    BY <1>1, <1>2, <1>3, WireGrows, OtherFramesAre DEF Running
  <2>2. QED
    BY <1>2, <2>1, HarnessLeavesAlone DEF TurnInv, Balance, Unread
<1>8. QED
  BY <1>1, <1>5, <1>6, <1>7, HarnessLeavesAlone DEF GoesOn, Active

\* A turn ends when every call was answered, and then none is anywhere.
LEMMA TurnFinished ==
  ASSUME ToolInv, NEW c \in Callers, TurnInv(c), FinishTurn, HarnessOnly
  PROVE  GoesOn
<1>1. /\ Running /\ running = current /\ current \in Turns
      /\ awaiting = {} /\ current # NoTurn
  BY InProgress DEF TurnInv, FinishTurn, Running
<1>2. PICK kind \in {"idle", "failed"} :
        wire' = Append(wire, Out(kind, "main", running, NoCall))
  BY DEF FinishTurn
<1> DEFINE frame == Out(kind, "main", current, NoCall)
<1>3. /\ wire' = Append(wire, frame) /\ running' = NoTurn
      /\ UNCHANGED <<inbox, link, backlog, awaiting, calls, lastTurn, produced>>
  BY <1>1, <1>2 DEF FinishTurn
<1>4. /\ frame \in OutputEvents /\ frame \in EndFrames
      /\ UNCHANGED <<PlainFrames, EndFrames, Answers>>
  BY <1>1, <1>3, HarnessLeavesAlone, OutputTypes
     DEF EndFrames, PlainFrames, Answers, ToolFrame, Trajectories
<1> HIDE DEF frame
<1>5. frame # SubFrame /\ frame \notin StepFrames
  BY <1>1, <1>4, FramesAre
<1>6. inbox = <<>> /\ tools = {}
  <2>1. Answers = {}
    BY <1>1 DEF Answers
  <2>2. inbox = <<>>
    BY <1>1, <2>1, OnlyTail
       DEF Running, CallsAwaited, ToolInv, TypeOK, HarnessTypeOK
  <2>3. QED
    BY <1>1, <2>2 DEF Running, CallsAwaited
<1>7. wire \in Seq(OutputEvents)
  BY DEF ToolInv, TypeOK, HarnessTypeOK
<1>8. Ending'
  <2>1. EndsIn(wire', PlainFrames', EndFrames')
    <3>1. EndsIn(Append(wire, frame), PlainFrames, EndFrames)
      BY <1>1, <1>4, <1>7, OnlyAppend DEF Running
    <3>2. QED
      BY <1>3, <1>4, <3>1
  <2>2. WireOrdered'
    BY <1>1, <1>3, <1>4, <1>5, WireGrows DEF Running
  <2>3. (loop \in StepOps)' /\ Only(queue, TurnEvents)' /\ ~idle'
    BY <1>1, HarnessLeavesAlone DEF Running
  <2>4. backlog = <<>>
    BY <1>1 DEF Running
  <2>5. QED
    BY <1>1, <1>3, <1>6, <2>1, <2>2, <2>3, <2>4, HarnessLeavesAlone DEF Ending
<1>9. Undisturbed'
  BY <1>3, HarnessLeavesAlone, UndisturbedKept DEF TurnInv, Undisturbed
<1>10. Balance'
  <2>1. OnTheWire' = OnTheWire
    BY <1>1, <1>3, <1>4, <1>5, WireGrows DEF Running
  <2>2. QED
    BY <1>3, <2>1, HarnessLeavesAlone DEF TurnInv, Balance, Unread
<1>11. QED
  BY <1>1, <1>8, <1>9, <1>10, HarnessLeavesAlone DEF GoesOn, Active

\* An answer that the harness reads is the only trace of its call.
LEMMA AnswerRead ==
  ASSUME ToolInv, NEW c \in Callers, TurnInv(c), AcceptToolResponse,
         HarnessOnly
  PROVE  GoesOn
<1>1. /\ TakeRequest /\ Head(inbox).kind = "toolResponse"
      /\ inbox' = Tail(inbox) /\ inbox # <<>>
      /\ awaiting' = awaiting \ {Head(inbox).call}
      /\ UNCHANGED <<wire, running, backlog>>
      /\ UNCHANGED <<link, calls, lastTurn, produced>>
  BY DEF AcceptToolResponse, TakeRequest
<1>2. Running /\ Head(inbox) \in Answers /\ inbox \in Seq(InputEvents)
  BY <1>1, ReadByTheHarness DEF TurnInv, In
<1>3. PICK k : k = Head(inbox).call
  OBVIOUS
<1>4. /\ k \in awaiting /\ k \in Calls /\ awaiting' = awaiting \ {k}
      /\ awaiting \subseteq Calls
  BY <1>1, <1>2, <1>3, AnswersAre DEF ToolInv, TypeOK, HarnessTypeOK
<1>5. ~OnWire(k) /\ Held(k) = {} /\ ~Occurs(Tail(inbox), AnswerFrames(k))
  <2>1. Head(inbox) \in AnswerFrames(k)
    BY <1>1, <1>2, <1>3, HeadTail DEF AnswerFrames
  <2>2. InInbox(k) /\ ~Occurs(Tail(inbox), AnswerFrames(k))
    BY <1>1, <1>2, <1>4, <2>1, TailOccurs DEF InInbox, ToolInv, PlacesOf
  <2>3. QED
    BY <1>4, <2>2 DEF ToolInv, PlacesOf
<1>6. Running'
  <2>1. Only(wire', PlainFrames')
    <3>1. ASSUME NEW i \in 1..Len(wire) PROVE wire[i] \in PlainFrames'
      <4>1. wire[i] \in PlainFrames /\ wire[i] \in OutputEvents
        BY <1>2 DEF Running, Only, ToolInv, TypeOK, HarnessTypeOK
      <4>2. wire[i] \notin CallFrames(k)
        BY <1>5 DEF OnWire, Occurs
      <4>3. wire[i] # ToolFrame(k)
        BY <4>1, <4>2 DEF CallFrames, ToolFrame, Out
      <4>4. QED
        BY <1>4, <4>1, <4>3, HarnessLeavesAlone
           DEF PlainFrames, ToolFrame, StepFrame, SubFrame
    <3>2. QED
      BY <1>1, <3>1 DEF Only
  <2>2. WireOrdered' /\ (MainKnown <=> MainKnown')
    BY <1>1, <1>2, HarnessLeavesAlone DEF Running, WireOrdered, MainKnown
  <2>3. CallsAwaited'
    <3>1. \A m \in Answers : m \notin AnswerFrames(k) => m \in Answers' \/
                                                     m \notin InputEvents
      BY <1>4, HarnessLeavesAlone DEF Answers, AnswerFrames, In
    <3>2. Only(Tail(inbox), Answers) /\ Only(Tail(inbox), InputEvents)
      BY <1>1, <1>2, OnlyTail DEF Running, CallsAwaited, Only
    <3>3. Only(inbox', Answers')
      BY <1>1, <1>5, <3>1, <3>2 DEF Only, Occurs
    <3>4. \A r \in tools : r.call # k
      BY <1>5 DEF Held
    <3>5. QED
      BY <1>2, <1>4, <3>3, <3>4, HarnessLeavesAlone DEF Running, CallsAwaited
  <2>4. QED
    BY <1>1, <1>2, <2>1, <2>2, <2>3, StillRunning, HarnessLeavesAlone
       DEF Running
<1>7. Undisturbed'
  BY <1>1, HarnessLeavesAlone, UndisturbedKept DEF TurnInv, Undisturbed
<1>8. Balance'
  BY <1>1, HarnessLeavesAlone DEF TurnInv, Balance, Unread, OnTheWire
<1>9. QED
  BY <1>2, <1>6, <1>7, <1>8, HarnessLeavesAlone DEF GoesOn, Active

LEMMA HarnessGoesOn ==
  ASSUME ToolInv, NEW c \in Callers, TurnInv(c), "crash" \notin Faults,
         HarnessNext, HarnessOnly
  PROVE  /\ GoesOn /\ UNCHANGED recorded
         /\ \/ UNCHANGED produced
            \/ produced' = [produced EXCEPT ![current] = @ + 1]
<1>1. CASE AcceptTurn
  BY <1>1, PromptAccepted, HarnessLeavesAlone DEF AcceptTurn, TakeRequest
<1>2. CASE AcceptToolResponse
  BY <1>2, AnswerRead, HarnessLeavesAlone DEF AcceptToolResponse, TakeRequest
<1>3. ~AcceptHalt /\ ~AcceptSessionEnd
  BY ReadByTheHarness, AnswersAre DEF AcceptHalt, AcceptSessionEnd, TurnInv, In
<1>4. CASE StartTurn
  BY <1>4, TurnStarted, HarnessLeavesAlone DEF StartTurn
<1>5. CASE FinishTurn
  BY <1>5, TurnFinished, HarnessLeavesAlone DEF FinishTurn
<1>6. CASE SendStep
  BY <1>6, StepSent, HarnessLeavesAlone
<1>7. CASE CallTool
  BY <1>7, ToolCalled, HarnessLeavesAlone
<1>8. CASE SubagentIdle
  BY <1>8, SubagentReported, HarnessLeavesAlone DEF SubagentIdle
<1>9. QED
  BY <1>1, <1>2, <1>3, <1>4, <1>5, <1>6, <1>7, <1>8
     DEF HarnessNext, HarnessTurn, Crash

----------------------------------------------------------------------------
\* The read loop and the goroutines that run tools.

ProcessorOnly == UNCHANGED conversationVars

\* The names that hold while the turn and the calls awaited are the same.
LEMMA NamesKept ==
  ASSUME UNCHANGED <<current, awaiting>>
  PROVE  /\ UNCHANGED <<StepEvent, TurnEvents, Marker, StepFrame, SubFrame>>
         /\ UNCHANGED <<StepOps, EndOps, EndFrames, StepFrames>>
         /\ UNCHANGED <<PlainFrames, Answers>>
BY DEF StepEvent, TurnEvents, Marker, StepFrame, SubFrame, StepOps, EndOps,
       EndFrames, StepFrames, ToolFrame, PlainFrames, Answers

LEMMA ReceiveLeavesAlone ==
  ASSUME NEW kinds, Recv(kinds), ProcessorOnly
  PROVE  /\ UNCHANGED <<inbox, link, backlog, running, awaiting, lastTurn>>
         /\ UNCHANGED <<produced, finished, queue, idle>>
         /\ UNCHANGED <<pc, closer, current, recorded, discarded>>
         /\ loop = <<>> /\ wire # <<>> /\ wire' = Tail(wire)
         /\ Head(wire).kind \in kinds
BY DEF Recv, ProcessorOnly, conversationVars

LEMMA WireShrinks ==
  ASSUME ToolInv, wire # <<>>, wire' = Tail(wire), UNCHANGED current
  PROVE  /\ Head(wire) \in StepFrames => OnTheWire = OnTheWire' + 1
         /\ Head(wire) \notin StepFrames => OnTheWire = OnTheWire'
         /\ WireOrdered /\ Head(wire) = SubFrame => main = "main"
         /\ Head(wire) # StepFrame /\ main' = main =>
              /\ WireOrdered => WireOrdered'
              /\ MainKnown => MainKnown'
<1>1. /\ wire \in Seq(OutputEvents)
      /\ UNCHANGED <<StepFrame, SubFrame, StepFrames>>
  BY DEF ToolInv, TypeOK, HarnessTypeOK, StepFrame, SubFrame, StepFrames,
         ToolFrame
<1>2. /\ Head(wire) \in StepFrames => OnTheWire = OnTheWire' + 1
      /\ Head(wire) \notin StepFrames => OnTheWire = OnTheWire'
  BY <1>1, CountTail DEF OnTheWire
<1>3. WireOrdered /\ Head(wire) = SubFrame => main = "main"
  BY <1>1, PrecededTail DEF WireOrdered
<1>4. ASSUME Head(wire) # StepFrame, main' = main
      PROVE  /\ WireOrdered => WireOrdered'
             /\ MainKnown => MainKnown'
  <2>1. Occurs(wire, {StepFrame}) <=> Occurs(Tail(wire), {StepFrame})
    BY <1>1, <1>4, TailOccurs
  <2>2. Preceded(wire, SubFrame, StepFrame) =>
          Preceded(Tail(wire), SubFrame, StepFrame)
    BY <1>1, <1>4, PrecededTail
  <2>3. QED
    BY <1>1, <1>4, <2>1, <2>2 DEF WireOrdered, MainKnown
<1>5. QED
  BY <1>2, <1>3, <1>4

\* What the read loop can receive, and what is behind it.
LEMMA Received ==
  ASSUME ToolInv, Active \/ Concluded, wire # <<>>
  PROVE  /\ Running \/ Ending
         /\ \/ /\ Head(wire) \in PlainFrames
               /\ Running => Only(Tail(wire), PlainFrames)
               /\ Ending => EndsIn(Tail(wire), PlainFrames, EndFrames)
            \/ Ending /\ Head(wire) \in EndFrames /\ Tail(wire) = <<>>
<1>1. Running \/ Ending
  BY DEF Active, Waiting, Concluding, Concluded, Still
<1>2. ~(Running /\ Ending)
  BY DEF Running, Ending
<1>3. wire \in Seq(OutputEvents)
  BY DEF ToolInv, TypeOK, HarnessTypeOK
<1>4. CASE Running
  BY <1>2, <1>3, <1>4, OnlyTail DEF Running
<1>5. CASE Ending
  <2>1. EndsIn(wire, PlainFrames, EndFrames)
    BY <1>5 DEF Ending
  <2>2. QED
    BY <1>2, <1>3, <1>5, <2>1, EndsTail
<1>6. QED
  BY <1>1, <1>4, <1>5

\* A frame that does not end the turn.
LEMMA PlainReceived ==
  ASSUME ToolInv, NEW c \in Callers, TurnInv(c), NEW kinds, Recv(kinds),
         ProcessorOnly, Head(wire) \in PlainFrames,
         sessionEnd' = sessionEnd, loop' \in StepOps,
         main' \in {NoMain, "main"}, WireOrdered', MainKnown => MainKnown',
         \A r \in tools' : r \in tools \/ (/\ r.turn = current
                                           /\ r.call \in awaiting)
  PROVE  /\ Active /\ Active' /\ Undisturbed'
         /\ UNCHANGED <<current, pc, produced, recorded, OnTheQueue>>
         /\ InTheLoop = 0
<1>1. /\ UNCHANGED <<inbox, link, backlog, running, awaiting, lastTurn>>
      /\ UNCHANGED <<produced, finished, queue, idle>>
      /\ UNCHANGED <<pc, closer, current, recorded, discarded>>
      /\ loop = <<>> /\ wire # <<>> /\ wire' = Tail(wire)
  BY ReceiveLeavesAlone
<1>2. /\ UNCHANGED <<StepEvent, TurnEvents, EndFrames, StepOps>>
      /\ UNCHANGED <<PlainFrames, Answers>>
  BY <1>1, NamesKept
<1>3. /\ Running \/ Ending
      /\ Running => Only(wire', PlainFrames)
      /\ Ending => EndsIn(wire', PlainFrames, EndFrames)
  <2>1. awaiting \subseteq Calls
    BY DEF ToolInv, TypeOK, HarnessTypeOK
  <2>2. Head(wire) \notin EndFrames
    <3>1. ASSUME Head(wire) \in EndFrames PROVE FALSE
      <4>1. Head(wire) = SubFrame \/ Head(wire).kind = "failed"
        BY <2>1, <3>1, FramesAre
      <4>2. QED
        BY <2>1, <3>1, <4>1, FramesAre
    <3>2. QED
      BY <3>1
  <2>3. QED
    BY <1>1, <2>2, Received DEF TurnInv
<1>4. CASE Running
  <2>1. CallsAwaited'
    BY <1>1, <1>2, <1>4 DEF Running, CallsAwaited
  <2>2. (produced[current] > 0)' => MainKnown'
    BY <1>1, <1>4 DEF Running
  <2>3. Running'
    BY <1>1, <1>2, <1>3, <1>4, <2>1, <2>2 DEF Running
  <2>4. QED
    BY <1>1, <1>4, <2>3, UndisturbedKept, OpsDiffer
       DEF Active, TurnInv, OnTheQueue, StepEvent, InTheLoop, Undisturbed
<1>5. CASE Ending
  <2>1. tools' = {}
    BY <1>5 DEF Ending
  <2>2. Ending'
    BY <1>1, <1>2, <1>3, <1>5, <2>1 DEF Ending
  <2>3. QED
    BY <1>1, <1>5, <2>2, UndisturbedKept, OpsDiffer
       DEF Active, TurnInv, OnTheQueue, StepEvent, InTheLoop, Undisturbed
<1>6. QED
  BY <1>3, <1>4, <1>5

LEMMA StepReceived ==
  ASSUME ToolInv, NEW c \in Callers, TurnInv(c), HandleStepUpdate,
         ProcessorOnly
  PROVE  GoesOn /\ UNCHANGED <<produced, recorded>>
<1>1. /\ Recv({"step"}) /\ UNCHANGED <<sessionEnd, tools>>
      /\ wire # <<>> /\ wire' = Tail(wire) /\ UNCHANGED <<current, awaiting>>
      /\ Head(wire).kind = "step"
      /\ main' = IF main = NoMain THEN Head(wire).traj ELSE main
      /\ loop' = <<Emit("step", Head(wire).turn)>>
      /\ awaiting \subseteq Calls
  BY ReceiveLeavesAlone DEF HandleStepUpdate, ToolInv, TypeOK, HarnessTypeOK
<1>2. /\ Head(wire) \in PlainFrames /\ Head(wire) = StepFrame
      /\ Head(wire) \in StepFrames
  BY <1>1, Received, FramesAre DEF TurnInv
<1>3. main' = "main" /\ loop' = <<Emit("step", current)>>
  <2>1. Head(wire).traj = "main" /\ Head(wire).turn = current
    BY <1>1, <1>2, FramesAre
  <2>2. QED
    BY <1>1, <2>1 DEF TurnInv, Undisturbed
<1>4. /\ WireOrdered' /\ MainKnown' /\ loop' \in StepOps /\ InTheLoop' = 1
      /\ UNCHANGED Announced
  BY <1>1, <1>3 DEF WireOrdered, MainKnown, StepOps, InTheLoop, Announced
<1>5. /\ Active /\ Active' /\ Undisturbed'
      /\ UNCHANGED <<current, pc, produced, recorded, OnTheQueue>>
      /\ InTheLoop = 0
  BY <1>1, <1>2, <1>3, <1>4, PlainReceived
<1>6. Balance'
  <2>1. OnTheWire = OnTheWire' + 1
    BY <1>1, <1>2, WireShrinks
  <2>2. OnTheWire' \in Nat
    BY <1>1, HeadTail, PlacesFinite
       DEF OnTheWire, ToolInv, TypeOK, HarnessTypeOK
  <2>3. QED
    BY <1>4, <1>5, <2>1, <2>2, CountsAreNumbers
       DEF TurnInv, Balance, Unread, ToolInv
<1>7. QED
  BY <1>5, <1>6 DEF GoesOn

LEMMA StateReceived ==
  ASSUME ToolInv, NEW c \in Callers, TurnInv(c), HandleTrajectoryState,
         ProcessorOnly
  PROVE  GoesOn /\ UNCHANGED <<produced, recorded>>
<1> DEFINE kinds == {"running", "idle", "failed", "cancelled"}
<1>1. /\ Recv(kinds) /\ UNCHANGED <<sessionEnd, main, tools>>
      /\ wire # <<>> /\ wire' = Tail(wire) /\ UNCHANGED <<current, awaiting>>
      /\ Head(wire).kind \in kinds
      /\ loop' = StateOps(Head(wire), main)
      /\ awaiting \subseteq Calls
      /\ main \in {NoMain, "main"}
  BY ReceiveLeavesAlone DEF HandleTrajectoryState, ToolInv, TypeOK,
                            HarnessTypeOK, TurnInv, Undisturbed
<1> HIDE DEF kinds
<1>2. Active \/ Concluded
  BY DEF TurnInv
<1>3. UNCHANGED Announced /\ OnTheWire' \in Nat
  BY <1>1, HeadTail, PlacesFinite
     DEF Announced, OnTheWire, ToolInv, TypeOK, HarnessTypeOK
<1>4. CASE Head(wire) \in PlainFrames
  <2>1. /\ Head(wire).kind \in {"running", "idle"}
        /\ Head(wire) \notin StepFrames /\ Head(wire) # StepFrame
        /\ Head(wire).kind = "running" => Head(wire).traj = "main"
        /\ Head(wire).kind = "idle" => Head(wire) = SubFrame
    BY <1>1, <1>4, FramesAre DEF kinds
  <2>2. WireOrdered
    BY <1>1, <1>2, Received DEF Running, Ending
  <2>3. OnTheWire = OnTheWire' /\ WireOrdered' /\ (MainKnown => MainKnown')
    BY <1>1, <2>1, <2>2, WireShrinks
  <2>4. loop' \in {<<>>, <<MarkRunning>>}
    <3>1. CASE Head(wire).kind = "running"
      BY <1>1, <2>1, <3>1 DEF StateOps
    <3>2. CASE Head(wire).kind = "idle"
      <4>1. main = "main" /\ Head(wire).traj = "sub"
        BY <1>1, <2>1, <2>2, <3>2, WireShrinks DEF SubFrame, Out
      <4>2. QED
        BY <1>1, <4>1 DEF StateOps, NoMain
    <3>3. QED
      BY <2>1, <3>1, <3>2
  <2>5. InTheLoop' = 0 /\ loop' \in StepOps
    BY <2>4, OpsDiffer DEF InTheLoop, StepOps
  <2>6. /\ Active /\ Active' /\ Undisturbed'
        /\ UNCHANGED <<current, pc, produced, recorded, OnTheQueue>>
        /\ InTheLoop = 0
    BY <1>1, <1>4, <2>3, <2>5, PlainReceived
  <2>7. Balance'
    BY <1>3, <2>3, <2>5, <2>6, CountsAreNumbers
       DEF TurnInv, Balance, Unread, ToolInv
  <2>8. QED
    BY <2>6, <2>7 DEF GoesOn
<1>5. CASE Ending /\ Head(wire) \in EndFrames /\ Tail(wire) = <<>>
  <2>1. /\ Head(wire).turn = current /\ Head(wire).traj = "main"
        /\ Head(wire).kind \in {"idle", "failed"}
        /\ Head(wire) \notin StepFrames
    BY <1>1, <1>5, FramesAre
  <2>2. loop' \in EndOps
    <3>1. ~(main # NoMain /\ Head(wire).traj # main)
      BY <1>1, <2>1
    <3>2. CASE Head(wire).kind = "idle"
      BY <1>1, <2>1, <3>1, <3>2 DEF StateOps, EndOps
    <3>3. CASE Head(wire).kind = "failed"
      BY <1>1, <2>1, <3>1, <3>3 DEF StateOps, EndOps
    <3>4. QED
      BY <2>1, <3>2, <3>3
  <2>3. /\ UNCHANGED <<inbox, link, backlog, running, awaiting, lastTurn>>
        /\ UNCHANGED <<produced, finished, queue, idle>>
        /\ UNCHANGED <<pc, closer, current, recorded, discarded>>
        /\ loop = <<>>
    BY <1>1, ReceiveLeavesAlone
  <2>4. UNCHANGED <<TurnEvents, EndOps, OnTheQueue>>
    BY <1>1, <2>3, NamesKept DEF OnTheQueue
  <2>5. Concluding'
    BY <1>1, <1>5, <2>2, <2>3, <2>4 DEF Ending, Concluding, Still
  <2>6. Undisturbed'
    BY <1>1, <2>3, UndisturbedKept DEF TurnInv, Undisturbed
  <2>7. InTheLoop = 0 /\ InTheLoop' = 0 /\ OnTheWire = OnTheWire'
    BY <1>1, <2>1, <2>2, <2>3, OpsDiffer, WireShrinks DEF InTheLoop, EndOps
  <2>8. Balance'
    BY <1>3, <2>3, <2>4, <2>7, CountsAreNumbers
       DEF TurnInv, Balance, Unread, ToolInv
  <2>9. QED
    BY <1>5, <2>3, <2>5, <2>6, <2>8 DEF GoesOn, Active
<1>6. QED
  BY <1>1, <1>2, <1>4, <1>5, Received

LEMMA CallReceived ==
  ASSUME ToolInv, NEW c \in Callers, TurnInv(c), StartToolCall, ProcessorOnly
  PROVE  GoesOn /\ UNCHANGED <<produced, recorded>>
<1> DEFINE r == [call |-> Head(wire).call, turn |-> Head(wire).turn,
                 at |-> "announce"]
<1>1. /\ Recv({"tool"}) /\ UNCHANGED <<loop, sessionEnd, main>>
      /\ wire # <<>> /\ wire' = Tail(wire) /\ UNCHANGED <<current, awaiting>>
      /\ Head(wire).kind = "tool" /\ loop = <<>>
      /\ tools' = tools \union {r}
      /\ awaiting \subseteq Calls
      /\ Head(wire) \in OutputEvents
  BY ReceiveLeavesAlone, HeadTail DEF StartToolCall, ToolInv, TypeOK,
                                      HarnessTypeOK
<1>2. /\ Head(wire) \in PlainFrames /\ Head(wire) # StepFrame
      /\ Head(wire) \in StepFrames
      /\ Head(wire).turn = current /\ Head(wire).call \in awaiting
  BY <1>1, Received, FramesAre DEF TurnInv
<1>3. r.turn = current /\ r.call = Head(wire).call /\ r.at = "announce"
  BY <1>2
<1> HIDE DEF r
<1>4. WireOrdered' /\ (MainKnown => MainKnown') /\ OnTheWire = OnTheWire' + 1
  <2>1. WireOrdered
    BY <1>1, Received DEF TurnInv, Running, Ending
  <2>2. QED
    BY <1>1, <1>2, <2>1, WireShrinks
<1>5. loop' \in StepOps /\ InTheLoop' = InTheLoop
  BY <1>1 DEF StepOps, InTheLoop
<1>6. /\ Active /\ Active' /\ Undisturbed'
      /\ UNCHANGED <<current, pc, produced, recorded, OnTheQueue>>
      /\ InTheLoop = 0
  <2>1. main' \in {NoMain, "main"}
    BY <1>1 DEF TurnInv, Undisturbed
  <2>2. QED
    BY <1>1, <1>2, <1>3, <1>4, <1>5, <2>1, PlainReceived
<1>7. Cardinality(Announced') = Cardinality(Announced) + 1
  <2>1. r \notin tools
    <3>1. Head(wire) \in CallFrames(Head(wire).call)
      BY <1>1 DEF CallFrames
    <3>2. OnWire(Head(wire).call)
      BY <1>1, <3>1, TailOccurs DEF OnWire, ToolInv, TypeOK, HarnessTypeOK
    <3>3. Held(Head(wire).call) = {}
      BY <1>1, <1>2, <3>2 DEF ToolInv, PlacesOf
    <3>4. QED
      BY <1>3, <3>3 DEF Held
  <2>2. Announced' = Announced \cup {r} /\ r \notin Announced
    BY <1>1, <1>3, <2>1 DEF Announced
  <2>3. IsFiniteSet(Announced)
    BY CountsAreNumbers DEF ToolInv
  <2>4. QED
    BY <2>2, <2>3, FS_AddElement
<1>8. Balance'
  <2>1. OnTheWire' \in Nat
    BY <1>1, HeadTail, PlacesFinite
       DEF OnTheWire, ToolInv, TypeOK, HarnessTypeOK
  <2>2. QED
    BY <1>4, <1>5, <1>6, <1>7, <2>1, CountsAreNumbers
       DEF TurnInv, Balance, Unread, ToolInv
<1>9. QED
  BY <1>6, <1>8 DEF GoesOn

LEMMA QueueGrows ==
  ASSUME ToolInv, ~sessionEnd, NEW e \in StepEvents, EmitEvent(e),
         UNCHANGED current
  PROVE  /\ e = StepEvent => OnTheQueue' = OnTheQueue + 1
         /\ e # StepEvent => OnTheQueue' = OnTheQueue
         /\ UNCHANGED <<TurnEvents, Marker>>
         /\ Only(queue, TurnEvents) =>
              /\ e \in TurnEvents => Only(queue', TurnEvents)
              /\ e = Marker => EndsIn(queue', TurnEvents, {Marker})
<1>1. /\ queue' = Append(queue, e) /\ queue \in Seq(StepEvents)
      /\ UNCHANGED <<TurnEvents, Marker, StepEvent>>
  BY DEF EmitEvent, Enqueue, GiveUp, ToolInv, TypeOK, ProcessorTypeOK,
         TurnEvents, Marker, StepEvent
<1>2. /\ e = StepEvent => Count(Append(queue, e), {StepEvent}) = OnTheQueue + 1
      /\ e # StepEvent => Count(Append(queue, e), {StepEvent}) = OnTheQueue
  BY <1>1, CountAppend DEF OnTheQueue
<1>3. Only(queue, TurnEvents) =>
        /\ e \in TurnEvents => Only(Append(queue, e), TurnEvents)
        /\ e = Marker => EndsIn(Append(queue, e), TurnEvents, {Marker})
  BY <1>1, OnlyAppend
<1>4. QED
  BY <1>1, <1>2, <1>3 DEF OnTheQueue

LEMMA Tuples ==
  ASSUME NEW x, NEW y, NEW z
  PROVE  /\ Head(<<x, y>>) = x /\ Tail(<<x, y>>) = <<y>>
         /\ Head(<<x, y, z>>) = x /\ Tail(<<x, y, z>>) = <<y, z>>
OBVIOUS

\* What the read loop can have in hand when it takes its next step.
LEMMA LoopHas ==
  ASSUME Active \/ Concluded, loop # <<>>
  PROVE  \/ (Running \/ Ending) /\ loop = <<Emit("step", current)>>
         \/ (Running \/ Ending) /\ loop = <<MarkRunning>>
         \/ Concluding /\ loop = <<Emit("err", current), Emit("idle", current),
                                   MarkIdle>>
         \/ Concluding /\ loop = <<Emit("idle", current), MarkIdle>>
         \/ Concluded /\ loop = <<MarkIdle>> /\ ~idle
BY DEF Active, Waiting, Running, Ending, Concluding, Concluded, StepOps, EndOps

LEMMA OpKinds ==
  /\ \A k, t : Emit(k, t).op = "emit" /\ Emit(k, t).event = Event(k, t)
  /\ MarkRunning.op = "markRunning" /\ MarkIdle.op = "markIdle"
BY DEF Emit, MarkRunning, MarkIdle

\* A step of the read loop that leaves the stage as it is.
LEMMA StageKept ==
  ASSUME Running \/ Ending, NEW c \in Callers, TurnInv(c), ProcessorOnly,
         UNCHANGED <<harnessVars, finished, sessionEnd, idle, main>>,
         loop' \in StepOps, Only(queue', TurnEvents),
         \A r \in tools' : \E q \in tools : r.call = q.call /\ r.turn = q.turn
  PROVE  /\ Active /\ Active' /\ Undisturbed'
         /\ UNCHANGED <<current, pc, produced, recorded, OnTheWire>>
<1>1. UNCHANGED <<inbox, wire, link, backlog, running, awaiting, lastTurn,
                  produced>>
  BY DEF harnessVars
<1>2. UNCHANGED <<current, pc, closer, discarded, recorded>>
  BY DEF ProcessorOnly, conversationVars
<1>3. /\ UNCHANGED <<TurnEvents, EndFrames, PlainFrames, Answers, StepFrames>>
      /\ UNCHANGED <<StepFrame, SubFrame, StepOps>>
  BY <1>1, <1>2, NamesKept
<1>4. UNCHANGED <<WireOrdered, MainKnown, OnTheWire>>
  BY <1>1, <1>3 DEF WireOrdered, MainKnown, OnTheWire
<1>5. Undisturbed'
  BY <1>1, <1>2, UndisturbedKept DEF TurnInv, Undisturbed
<1>6. CASE Running
  <2>1. CallsAwaited'
    BY <1>1, <1>2, <1>3, <1>6 DEF Running, CallsAwaited
  <2>2. Running'
    BY <1>1, <1>2, <1>3, <1>4, <1>6, <2>1 DEF Running
  <2>3. QED
    BY <1>1, <1>2, <1>4, <1>5, <1>6, <2>2 DEF Active
<1>7. CASE Ending
  <2>1. Ending'
    BY <1>1, <1>2, <1>3, <1>4, <1>7 DEF Ending
  <2>2. QED
    BY <1>1, <1>2, <1>4, <1>5, <1>7, <2>1 DEF Active
<1>8. QED
  BY <1>6, <1>7

\* The step or the gate that an update of the turn is about.
LEMMA LoopShows ==
  ASSUME ToolInv, NEW c \in Callers, TurnInv(c), ProcessorOnly,
         Running \/ Ending,
         \/ LoopEmits /\ loop = <<Emit("step", current)>>
         \/ LoopMarksRunning /\ loop = <<MarkRunning>>
  PROVE  GoesOn /\ UNCHANGED <<produced, recorded>>
<1>1. /\ loop' = <<>> /\ ~idle /\ ~sessionEnd /\ current \in Turns
      /\ UNCHANGED <<harnessVars, finished, sessionEnd, main, tools, idle>>
      /\ current' = current /\ Only(queue, TurnEvents)
  <2>1. loop' = Tail(loop) /\ UNCHANGED <<harnessVars, finished, main, tools>>
    BY DEF LoopEmits, LoopMarksRunning, LoopDoes
  <2>2. ~idle /\ Only(queue, TurnEvents) /\ current # NoTurn
    BY DEF Running, Ending
  <2>3. idle \in BOOLEAN /\ current \in Turns
    BY <2>2 DEF ToolInv, TypeOK, ProcessorTypeOK, ConversationTypeOK
  <2>4. UNCHANGED <<idle, sessionEnd>>
    BY <2>2, <2>3 DEF LoopEmits, LoopMarksRunning
  <2>5. ~sessionEnd /\ current' = current
    BY DEF TurnInv, Undisturbed, ProcessorOnly, conversationVars
  <2>6. QED
    BY <2>1, <2>2, <2>3, <2>4, <2>5, Singletons
<1>2. /\ loop' \in StepOps /\ InTheLoop' = 0 /\ UNCHANGED Announced
  BY <1>1, OpsDiffer DEF StepOps, InTheLoop, Announced
<1>3. CASE LoopEmits /\ loop = <<Emit("step", current)>>
  <2>1. EmitEvent(StepEvent) /\ StepEvent \in StepEvents
    BY <1>1, <1>3, Singletons, OpKinds, EventTypes DEF LoopEmits, StepEvent
  <2>2. Only(queue', TurnEvents) /\ OnTheQueue' = OnTheQueue + 1
    BY <1>1, <2>1, QueueGrows DEF TurnEvents
  <2>3. /\ Active /\ Active' /\ Undisturbed'
        /\ UNCHANGED <<current, pc, produced, recorded, OnTheWire>>
    BY <1>1, <1>2, <2>2, StageKept
  <2>4. Balance'
    BY <1>2, <1>3, <2>2, <2>3, CountsAreNumbers
       DEF TurnInv, Balance, Unread, InTheLoop, ToolInv
  <2>5. QED
    BY <2>3, <2>4 DEF GoesOn
<1>4. CASE LoopMarksRunning /\ loop = <<MarkRunning>>
  <2>1. queue' = queue
    BY <1>4 DEF LoopMarksRunning
  <2>2. /\ Active /\ Active' /\ Undisturbed'
        /\ UNCHANGED <<current, pc, produced, recorded, OnTheWire>>
    BY <1>1, <1>2, <2>1, StageKept
  <2>3. InTheLoop = 0 /\ UNCHANGED OnTheQueue
    BY <1>1, <1>4, <2>1, OpsDiffer DEF InTheLoop, OnTheQueue, StepEvent
  <2>4. Balance'
    BY <1>2, <2>2, <2>3 DEF TurnInv, Balance, Unread
  <2>5. QED
    BY <2>2, <2>4 DEF GoesOn
<1>5. QED
  BY <1>3, <1>4

\* The end of the turn goes on the queue, its marker last.
LEMMA LoopConcludes ==
  ASSUME ToolInv, NEW c \in Callers, TurnInv(c), ProcessorOnly, Concluding,
         LoopEmits
  PROVE  /\ TurnInv(c)' /\ ~Over /\ ~Over'
         /\ UNCHANGED <<current, produced, recorded>>
<1> DEFINE err == Event("err", current)
<1>1. /\ ~idle /\ ~sessionEnd /\ current \in Turns
      /\ loop' = Tail(loop) /\ EmitEvent(Head(loop).event)
      /\ UNCHANGED <<inbox, wire, link, backlog, running, awaiting, lastTurn,
                     produced>>
      /\ UNCHANGED <<finished, sessionEnd, main, tools, idle>>
  BY DEF LoopEmits, LoopDoes, harnessVars, Concluding, TurnInv, Undisturbed,
         ToolInv, TypeOK, ConversationTypeOK
<1>2. UNCHANGED <<pc, closer, current, recorded, discarded>>
  BY DEF ProcessorOnly, conversationVars
<1>3. Undisturbed'
  BY <1>1, <1>2, UndisturbedKept DEF TurnInv, Undisturbed
<1>4. /\ err \in StepEvents /\ Marker \in StepEvents
      /\ err \in TurnEvents /\ err # StepEvent
      /\ Marker # StepEvent
  BY <1>1, EventTypes DEF Marker, TurnEvents, StepEvent, Event
<1>5. /\ UNCHANGED <<TurnEvents, Marker, EndOps, OnTheWire, Announced>>
      /\ Only(queue, TurnEvents)
  BY <1>1, <1>2, NamesKept DEF OnTheWire, Announced, Concluding
<1>6. InTheLoop = 0
  BY OpsDiffer DEF Concluding, EndOps, InTheLoop
<1>7. CASE loop = <<Emit("err", current), Emit("idle", current), MarkIdle>>
  <2>1. /\ Head(loop).event = err
        /\ loop' = <<Emit("idle", current), MarkIdle>>
    BY <1>1, <1>7, Tuples, OpKinds
  <2>2. Only(queue', TurnEvents) /\ OnTheQueue' = OnTheQueue
    BY <1>1, <1>2, <1>4, <1>5, <2>1, QueueGrows
  <2>3. Concluding'
    BY <1>1, <1>2, <1>5, <2>1, <2>2 DEF Concluding, Still, EndOps
  <2>4. InTheLoop' = 0
    BY <1>2, <2>1, OpsDiffer DEF InTheLoop
  <2>5. Balance'
    BY <1>1, <1>2, <1>5, <1>6, <2>2, <2>4 DEF TurnInv, Balance, Unread
  <2>6. GoesOn
    BY <1>2, <1>3, <2>3, <2>5 DEF GoesOn, Active
  <2>7. QED
    BY <1>1, <1>2, <2>6, TurnGoesOn
<1>8. CASE loop = <<Emit("idle", current), MarkIdle>>
  <2>1. Head(loop).event = Marker /\ loop' = <<MarkIdle>>
    BY <1>1, <1>8, Tuples, OpKinds DEF Marker
  <2>2. EndsIn(queue', TurnEvents', {Marker'}) /\ OnTheQueue' = OnTheQueue
    BY <1>1, <1>2, <1>4, <1>5, <2>1, QueueGrows
  <2>3. Concluded' /\ queue' # <<>>
    BY <1>1, <1>2, <1>5, <2>1, <2>2 DEF Concluding, Concluded, Still, EndsIn
  <2>4. InTheLoop' = 0
    BY <1>2, <2>1, OpsDiffer DEF InTheLoop
  <2>5. Balance'
    BY <1>1, <1>2, <1>5, <1>6, <2>2, <2>4 DEF TurnInv, Balance, Unread
  <2>6. ~idle /\ ~Concluded
    BY ActiveIsNotConcluded DEF Active
  <2>7. CallerFits(c)'
    BY <1>1, <1>2, <2>6 DEF TurnInv, CallerFits, Over
  <2>8. QED
    BY <1>1, <1>2, <1>3, <2>3, <2>5, <2>6, <2>7 DEF TurnInv, Over
<1>9. QED
  BY <1>7, <1>8 DEF Concluding, EndOps

\* The gate opens.
LEMMA LoopOpensGate ==
  ASSUME ToolInv, NEW c \in Callers, TurnInv(c), ProcessorOnly, Concluded,
         loop = <<MarkIdle>>, ~idle, LoopMarksIdle
  PROVE  /\ TurnInv(c)' /\ (Over' <=> Over)
         /\ UNCHANGED <<current, produced, recorded>>
<1>1. /\ loop' = <<>> /\ idle'
      /\ UNCHANGED <<inbox, wire, link, backlog, running, awaiting, lastTurn,
                     produced>>
      /\ UNCHANGED <<finished, sessionEnd, main, tools, queue>>
  BY Singletons DEF LoopMarksIdle, LoopDoes, harnessVars
<1>2. UNCHANGED <<pc, closer, current, recorded, discarded>>
  BY DEF ProcessorOnly, conversationVars
<1>3. Undisturbed'
  BY <1>1, <1>2, UndisturbedKept DEF TurnInv, Undisturbed
<1>4. UNCHANGED <<TurnEvents, Marker, OnTheWire, Announced, OnTheQueue>>
  BY <1>1, <1>2, NamesKept DEF OnTheWire, Announced, OnTheQueue
<1>5. Concluded'
  BY <1>1, <1>2, <1>4 DEF Concluded, Still
<1>6. InTheLoop = 0 /\ InTheLoop' = 0
  BY <1>1, OpsDiffer DEF InTheLoop
<1>7. Balance'
  BY <1>1, <1>2, <1>4, <1>6 DEF TurnInv, Balance, Unread
<1>8. CallerFits(c)'
  BY <1>1, <1>2, Singletons DEF TurnInv, CallerFits, Asking
<1>9. QED
  BY <1>1, <1>2, <1>3, <1>5, <1>7, <1>8 DEF TurnInv, Over

LEMMA LoopGoesOn ==
  ASSUME ToolInv, NEW c \in Callers, TurnInv(c), ProcessorOnly, ReadLoop
  PROVE  /\ TurnInv(c)' /\ (Over' <=> Over)
         /\ UNCHANGED <<current, produced, recorded>>
<1>1. ASSUME GoesOn, UNCHANGED <<produced, recorded>>
      PROVE  /\ TurnInv(c)' /\ (Over' <=> Over)
             /\ UNCHANGED <<current, produced, recorded>>
  BY <1>1, TurnGoesOn DEF GoesOn
<1>2. CASE HandleStepUpdate
  BY <1>1, <1>2, StepReceived
<1>3. CASE HandleTrajectoryState
  BY <1>1, <1>3, StateReceived
<1>4. CASE StartToolCall
  BY <1>1, <1>4, CallReceived
<1>5. ~HandleSessionEndResponse
  <2>1. ASSUME HandleSessionEndResponse PROVE FALSE
    <3>1. wire # <<>> /\ Head(wire).kind = "sessionEnd"
      BY <2>1 DEF HandleSessionEndResponse, Recv
    <3>2. awaiting \subseteq Calls
      BY DEF ToolInv, TypeOK, HarnessTypeOK
    <3>3. QED
      BY <3>1, <3>2, Received, FramesAre DEF TurnInv
  <2>2. QED
    BY <2>1
<1>6. ~Finish
  BY DEF Finish, TurnInv, Undisturbed
<1>7. CASE LoopEmits \/ LoopMarksRunning \/ LoopMarksIdle
           \/ LoopClosesSessionEnd
  <2>1. loop # <<>>
    BY <1>7 DEF LoopEmits, LoopMarksRunning, LoopMarksIdle,
                LoopClosesSessionEnd, LoopDoes
  <2>2. CASE (Running \/ Ending) /\ loop = <<Emit("step", current)>>
    <3>1. LoopEmits
      BY <1>7, <2>2, Singletons, OpKinds
         DEF LoopMarksRunning, LoopMarksIdle, LoopClosesSessionEnd, LoopDoes
    <3>2. QED
      BY <1>1, <2>2, <3>1, LoopShows
  <2>3. CASE (Running \/ Ending) /\ loop = <<MarkRunning>>
    <3>1. LoopMarksRunning
      BY <1>7, <2>3, Singletons, OpKinds
         DEF LoopEmits, LoopMarksIdle, LoopClosesSessionEnd, LoopDoes
    <3>2. QED
      BY <1>1, <2>3, <3>1, LoopShows
  <2>4. CASE Concluding
    <3>1. Head(loop).op = "emit"
      BY <2>4, Tuples, OpKinds DEF Concluding, EndOps
    <3>2. LoopEmits
      BY <1>7, <3>1
         DEF LoopMarksRunning, LoopMarksIdle, LoopClosesSessionEnd, LoopDoes
    <3>3. QED
      BY <2>4, <3>2, LoopConcludes
  <2>5. CASE Concluded /\ loop = <<MarkIdle>> /\ ~idle
    <3>1. LoopMarksIdle
      BY <1>7, <2>5, Singletons, OpKinds
         DEF LoopEmits, LoopMarksRunning, LoopClosesSessionEnd, LoopDoes
    <3>2. QED
      BY <2>5, <3>1, LoopOpensGate
  <2>6. QED
    BY <2>1, <2>2, <2>3, <2>4, <2>5, LoopHas DEF TurnInv
<1>8. QED
  BY <1>2, <1>3, <1>4, <1>5, <1>6, <1>7 DEF ReadLoop

LEMMA ToolsAreRunning ==
  ASSUME ToolInv, Active \/ Concluded, NEW r \in tools
  PROVE  /\ Running /\ r.turn = current /\ r.call \in awaiting
         /\ r \in ToolRuns /\ current \in Turns
BY DEF Active, Waiting, Running, Ending, Concluding, Concluded, Still,
       CallsAwaited, ToolInv, TypeOK, ProcessorTypeOK, ConversationTypeOK

\* The call of a tool is shown to the reader before the tool runs.
LEMMA CallAnnounced ==
  ASSUME ToolInv, NEW c \in Callers, TurnInv(c), ProcessorOnly,
         NEW r \in tools, AnnounceTool(r)
  PROVE  GoesOn /\ UNCHANGED <<produced, recorded>>
<1> DEFINE invoked == [r EXCEPT !.at = "invoke"]
<1>1. /\ Running /\ r.turn = current /\ r \in ToolRuns /\ current \in Turns
      /\ r.at = "announce" /\ ~sessionEnd
      /\ EmitEvent(StepEvent) /\ StepEvent \in StepEvents
      /\ tools' = (tools \ {r}) \union {invoked}
      /\ UNCHANGED <<harnessVars, loop, finished, idle, sessionEnd, main>>
      /\ UNCHANGED current
  BY ToolsAreRunning, EventTypes
     DEF TurnInv, Undisturbed, AnnounceTool, StepEvent, ProcessorOnly,
         conversationVars
<1>2. /\ invoked.at = "invoke" /\ invoked.call = r.call
      /\ invoked.turn = r.turn
  BY <1>1 DEF ToolRuns
<1> HIDE DEF invoked
<1>3. /\ Only(queue', TurnEvents) /\ OnTheQueue' = OnTheQueue + 1
  BY <1>1, QueueGrows DEF TurnEvents, Running
<1>4. loop' \in StepOps /\ UNCHANGED InTheLoop
  BY <1>1 DEF Running, StepOps, InTheLoop
<1>5. \A q \in tools' : \E p \in tools : q.call = p.call /\ q.turn = p.turn
  BY <1>1, <1>2
<1>6. /\ Active /\ Active' /\ Undisturbed'
      /\ UNCHANGED <<current, pc, produced, recorded, OnTheWire>>
  BY <1>1, <1>3, <1>4, <1>5, StageKept
<1>7. Cardinality(Announced') = Cardinality(Announced) - 1
  <2>1. Announced' = Announced \ {r} /\ r \in Announced
    BY <1>1, <1>2 DEF Announced
  <2>2. IsFiniteSet(Announced)
    BY CountsAreNumbers DEF ToolInv
  <2>3. QED
    BY <2>1, <2>2, FS_RemoveElement
<1>8. Balance'
  BY <1>3, <1>4, <1>6, <1>7, CountsAreNumbers
     DEF TurnInv, Balance, Unread, ToolInv
<1>9. QED
  BY <1>6, <1>8 DEF GoesOn

LEMMA CallAnswered ==
  ASSUME ToolInv, NEW c \in Callers, TurnInv(c), ProcessorOnly,
         NEW r \in tools, AnswerTool(r)
  PROVE  GoesOn /\ UNCHANGED <<produced, recorded>>
<1> DEFINE answer == In("toolResponse", current, r.call)
<1>1. /\ Running /\ r.turn = current /\ r.call \in awaiting
      /\ r \in ToolRuns /\ r.at = "invoke" /\ current \in Turns
      /\ tools' = tools \ {r}
      /\ inbox' = Append(inbox, answer)
      /\ UNCHANGED <<wire, link, backlog, running, awaiting, calls, lastTurn,
                     produced>>
      /\ UNCHANGED <<loop, finished, queue, idle, sessionEnd, main>>
  BY ToolsAreRunning DEF TurnInv, Undisturbed, AnswerTool, Deliver
<1>2. UNCHANGED <<pc, closer, current, recorded, discarded>>
  BY DEF ProcessorOnly, conversationVars
<1>3. /\ UNCHANGED <<PlainFrames, Answers, StepOps, TurnEvents>>
      /\ UNCHANGED <<WireOrdered, MainKnown, OnTheWire, OnTheQueue, InTheLoop>>
  BY <1>1, <1>2, NamesKept
     DEF WireOrdered, MainKnown, OnTheWire, OnTheQueue, InTheLoop
<1>4. Announced' = Announced
  BY <1>1 DEF Announced
<1>5. Running'
  <2>1. CallsAwaited'
    <3>1. answer \in Answers /\ answer \in InputEvents
      BY <1>1, InputTypes DEF Answers, ToolRuns
    <3>2. Only(Append(inbox, answer), Answers)
      BY <1>1, <3>1, OnlyAppend
         DEF Running, CallsAwaited, ToolInv, TypeOK, HarnessTypeOK
    <3>3. QED
      BY <1>1, <1>2, <1>3, <3>2 DEF Running, CallsAwaited
  <2>2. QED
    BY <1>1, <1>2, <1>3, <2>1 DEF Running
<1>6. Undisturbed'
  BY <1>1, <1>2, UndisturbedKept DEF TurnInv, Undisturbed
<1>7. Balance'
  BY <1>1, <1>2, <1>3, <1>4 DEF TurnInv, Balance, Unread
<1>8. QED
  BY <1>1, <1>2, <1>5, <1>6, <1>7 DEF GoesOn, Active

LEMMA ProcessorGoesOn ==
  ASSUME ToolInv, NEW c \in Callers, TurnInv(c), ProcessorOnly, ProcessorNext
  PROVE  /\ TurnInv(c)' /\ (Over' <=> Over)
         /\ UNCHANGED <<current, produced, recorded>>
<1>1. CASE ReadLoop
  BY <1>1, LoopGoesOn
<1>2. CASE ToolGoroutines
  BY <1>2, CallAnnounced, CallAnswered, TurnGoesOn DEF ToolGoroutines, GoesOn
<1>3. QED
  BY <1>1, <1>2 DEF ProcessorNext

----------------------------------------------------------------------------
\* The program.

\* What a step of the caller that moves nothing but itself and the mutexes
\* leaves alone.
CallerOnly ==
  UNCHANGED <<harnessVars, processorVars, closer, current, recorded, discarded>>

LEMMA CallerMoves ==
  ASSUME NEW c \in Callers, TurnInv(c), CallerOnly
  PROVE  /\ Undisturbed' /\ Balance' /\ (Active \/ Concluded)'
         /\ Over' <=> Over
         /\ UNCHANGED <<current, produced, recorded, loop, queue, idle>>
<1>1. /\ UNCHANGED <<inbox, wire, link, backlog, running, awaiting, calls,
                     lastTurn, produced>>
      /\ UNCHANGED <<loop, finished, queue, idle, sessionEnd, main, tools>>
      /\ UNCHANGED <<closer, current, recorded, discarded>>
  BY DEF CallerOnly, harnessVars, processorVars
<1>2. Undisturbed'
  BY <1>1, UndisturbedKept DEF TurnInv, Undisturbed
<1>3. /\ UNCHANGED <<TurnEvents, Marker, StepOps, EndOps, EndFrames>>
      /\ UNCHANGED <<PlainFrames, Answers>>
  BY <1>1, NamesKept
<1>4. /\ UNCHANGED <<WireOrdered, MainKnown, OnTheWire, OnTheQueue>>
      /\ UNCHANGED <<InTheLoop, Announced, CallsAwaited, Still>>
  BY <1>1, <1>3, NamesKept
     DEF WireOrdered, MainKnown, OnTheWire, OnTheQueue, InTheLoop, Announced,
         CallsAwaited, Still
<1>5. Balance'
  BY <1>1, <1>4 DEF TurnInv, Balance, Unread
<1>6. Waiting' <=> Waiting
  BY <1>1, <1>4 DEF Waiting
<1>7. Running' <=> Running
  BY <1>1, <1>3, <1>4 DEF Running
<1>8. Ending' <=> Ending
  BY <1>1, <1>3, <1>4 DEF Ending
<1>9. Concluding' <=> Concluding
  BY <1>1, <1>3, <1>4 DEF Concluding
<1>10. Concluded' <=> Concluded
  BY <1>1, <1>3, <1>4 DEF Concluded
<1>11. QED
  BY <1>1, <1>2, <1>5, <1>6, <1>7, <1>8, <1>9, <1>10
     DEF TurnInv, Active, Over

\* Only what was concluded is idle, and then nothing is left in the read loop.
LEMMA IdleIsConcluded ==
  ASSUME NEW c \in Callers, TurnInv(c), idle
  PROVE  Concluded /\ loop = <<>>
BY ActiveIsNotConcluded DEF TurnInv, Concluded

LEMMA CallerGoes ==
  ASSUME ToolInv, NEW c \in Callers, TurnInv(c), CallerOnly,
         NEW to, Goto(c, to),
         to \in Checking => idle,
         to \in Asking => Over /\ loop = <<>>,
         to \in {"discard", "input"} => ~idle
  PROVE  /\ TurnInv(c)' /\ (Over' <=> Over)
         /\ UNCHANGED <<current, produced, recorded>>
<1>1. pc'[c] = to
  BY DEF Goto, ToolInv, TypeOK, ConversationTypeOK
<1>2. /\ Undisturbed' /\ Balance' /\ (Active \/ Concluded)'
      /\ Over' <=> Over
      /\ UNCHANGED <<current, produced, recorded, loop, queue, idle>>
  BY CallerMoves
<1>3. CallerFits(c)'
  BY <1>1, <1>2 DEF CallerFits
<1>4. QED
  BY <1>2, <1>3 DEF TurnInv

LEMMA SendGoes ==
  ASSUME ToolInv, NEW c \in Callers, TurnInv(c), "waitForIdle" \in Habits,
         \/ BeginSend(c) \/ WaitForIdle(c) \/ LockSend(c) \/ CheckIdle(c)
         \/ CheckPending(c) \/ NothingLeftover(c) \/ SendInputFails(c)
         \/ BeginSteps(c) \/ LockReceive(c) \/ AbandonTurn(c) \/ AbandonSend(c)
  PROVE  /\ TurnInv(c)' /\ (Over' <=> Over)
         /\ UNCHANGED <<current, produced, recorded>>
<1> USE DEF Checking, Asking, CallerOnly
<1>1. /\ pc[c] \in Checking => idle
      /\ pc[c] \in Asking => Over /\ loop = <<>>
      /\ pc[c] \in {"discard", "input"} => ~idle
  BY DEF TurnInv, CallerFits
<1>2. CASE BeginSend(c)
  BY <1>2, CallerGoes DEF BeginSend
<1>3. CASE WaitForIdle(c)
  BY <1>3, CallerGoes DEF WaitForIdle
<1>4. CASE LockSend(c)
  BY <1>1, <1>4, CallerGoes DEF LockSend, At
<1>5. CASE CheckIdle(c)
  BY <1>1, <1>5, CallerGoes DEF CheckIdle, At
<1>6. CASE CheckPending(c)
  <2>1. idle /\ Concluded /\ loop = <<>> /\ CallerOnly
    BY <1>1, <1>6, IdleIsConcluded DEF CheckPending, At
  <2>2. CASE queue = <<>>
    <3>1. Over /\ Goto(c, "reset")
      BY <1>6, <2>1, <2>2 DEF CheckPending, Over
    <3>2. QED
      BY <2>1, <3>1, CallerGoes
  <2>3. CASE queue # <<>>
    <3>1. Goto(c, "lockDrain")
      BY <1>6, <2>3 DEF CheckPending
    <3>2. QED
      BY <2>1, <3>1, CallerGoes
  <2>4. QED
    BY <2>2, <2>3
<1>7. CASE NothingLeftover(c)
  BY <1>1, <1>7, CallerGoes DEF NothingLeftover, At
<1>8. CASE SendInputFails(c)
  BY <1>8, CallerGoes DEF SendInputFails
<1>9. CASE BeginSteps(c)
  BY <1>9, CallerGoes DEF BeginSteps
<1>10. CASE LockReceive(c)
  <2>1. CASE pc[c] = "lockSteps"
    BY <1>10, <2>1, CallerGoes DEF LockReceive
  <2>2. CASE pc[c] = "lockDrain"
    BY <1>1, <1>10, <2>2, CallerGoes DEF LockReceive
  <2>3. QED
    BY <1>10, <2>1, <2>2 DEF LockReceive
<1>11. CASE AbandonTurn(c) \/ AbandonSend(c)
  BY <1>11, CallerGoes DEF AbandonTurn, AbandonSend
<1>12. QED
  BY <1>2, <1>3, <1>4, <1>5, <1>6, <1>7, <1>8, <1>9, <1>10, <1>11

\* resetForTurn finds nothing of an older turn: it forgets the main trajectory
\* and closes the gate, and there is nothing to throw away.
LEMMA ResetFindsNothing ==
  ASSUME ToolInv, NEW c \in Callers, TurnInv(c),
         ResetTurn(c) \/ ResetGate(c) \/ DiscardLeftover(c)
  PROVE  /\ TurnInv(c)' /\ (Over' <=> Over)
         /\ UNCHANGED <<current, produced, recorded>>
<1>1. /\ Over /\ Concluded /\ loop = <<>> /\ queue = <<>>
      /\ ~DiscardLeftover(c)
  BY DEF ResetTurn, ResetGate, DiscardLeftover, At, TurnInv, CallerFits,
         Asking, Over
<1>2. /\ UNCHANGED <<inbox, wire, link, backlog, running, awaiting, calls,
                     lastTurn, produced>>
      /\ UNCHANGED <<loop, finished, queue, sessionEnd, tools>>
      /\ UNCHANGED <<closer, current, recorded, discarded>>
      /\ main' \in {NoMain, "main"}
  BY <1>1 DEF ResetTurn, ResetGate, harnessVars, TurnInv, Undisturbed
<1>3. Undisturbed'
  BY <1>2, UndisturbedKept DEF TurnInv, Undisturbed
<1>4. Concluded' /\ Over'
  BY <1>1, <1>2 DEF Concluded, Over, Still
<1>5. UNCHANGED <<OnTheWire, OnTheQueue, InTheLoop, Announced>>
  BY <1>2, NamesKept DEF OnTheWire, OnTheQueue, InTheLoop, Announced
<1>6. Balance'
  BY <1>2, <1>5 DEF TurnInv, Balance, Unread
<1>7. CASE ResetTurn(c)
  <2>1. pc'[c] = "markRunning" /\ idle' = idle
    BY <1>7 DEF ResetTurn, Goto, ToolInv, TypeOK, ConversationTypeOK
  <2>2. CallerFits(c)'
    BY <1>1, <1>2, <1>4, <2>1 DEF CallerFits, Checking, Asking
  <2>3. QED
    BY <1>1, <1>2, <1>3, <1>4, <1>6, <2>2 DEF TurnInv
<1>8. CASE ResetGate(c)
  <2>1. pc'[c] = "discard" /\ ~idle'
    BY <1>8 DEF ResetGate, Goto, ToolInv, TypeOK, ConversationTypeOK
  <2>2. CallerFits(c)'
    BY <1>1, <1>2, <1>4, <2>1 DEF CallerFits, Checking, Asking
  <2>3. QED
    BY <1>1, <1>2, <1>3, <1>4, <1>6, <2>2 DEF TurnInv
<1>9. QED
  BY <1>1, <1>7, <1>8

\* A prompt is asked for when the turn before it is over.
LEMMA PromptSent ==
  ASSUME ToolInv, NEW c \in Callers, TurnInv(c), SendInput(c)
  PROVE  /\ TurnInv(c)' /\ Over /\ ~Over'
         /\ current' = current + 1 /\ current' \in Turns
         /\ produced'[current'] = 0 /\ recorded'[current'] = 0
<1>1. /\ Over /\ Concluded /\ loop = <<>> /\ queue = <<>> /\ ~idle
      /\ Still /\ inbox = <<>> /\ backlog = <<>>
  BY DEF SendInput, At, TurnInv, CallerFits, Asking, Over, Concluded
<1>2. /\ current' = current + 1 /\ lastTurn' = current'
      /\ inbox' = Append(<<>>, In("turn", current', NoCall))
      /\ UNCHANGED <<wire, link, backlog, running, awaiting, calls, produced>>
      /\ UNCHANGED <<loop, finished, queue, idle, sessionEnd, main, tools>>
      /\ UNCHANGED <<closer, recorded, discarded>>
  BY <1>1 DEF SendInput, RequestTurn, Deliver, TurnInv, Undisturbed,
              processorVars
<1>3. /\ current' \in Turns /\ current' # NoTurn
      /\ current \in Turns \union {NoTurn} /\ Turns \subseteq Nat
  BY <1>2, RequestTurnTypes
     DEF SendInput, ToolInv, TypeOK, ConversationTypeOK, Turns, NoTurn
<1>4. /\ \A t \in Turns : t > current' => t > current
      /\ current' > current
  BY <1>2, <1>3 DEF NoTurn
<1>5. produced'[current'] = 0 /\ recorded'[current'] = 0
  BY <1>2, <1>3, <1>4 DEF TurnInv, Undisturbed
<1>6. Undisturbed'
  BY <1>2, <1>4 DEF TurnInv, Undisturbed
<1>7. Waiting'
  <2>1. inbox' = <<In("turn", current', NoCall)>>
    BY <1>2, Singletons
  <2>2. QED
    BY <1>1, <1>2, <1>3, <1>5, <2>1 DEF Waiting, Still
<1>8. Balance'
  <2>1. wire = <<>> /\ tools = {}
    BY <1>1 DEF Still
  <2>2. OnTheWire' = 0 /\ OnTheQueue' = 0
    BY <1>1, <1>2, <2>1, CountNone, EmptyOccurs DEF OnTheWire, OnTheQueue
  <2>3. InTheLoop' = 0
    BY <1>1, <1>2, OpsDiffer DEF InTheLoop
  <2>4. Cardinality(Announced') = 0
    BY <1>2, <2>1, FS_EmptySet DEF Announced
  <2>5. QED
    BY <1>5, <2>2, <2>3, <2>4 DEF Balance, Unread
<1>9. pc'[c] = "sent"
  BY DEF SendInput, Goto, ToolInv, TypeOK, ConversationTypeOK
<1>10. CallerFits(c)'
  BY <1>9 DEF CallerFits, Checking, Asking
<1>11. ~Over'
  <2>1. (Active => ~idle /\ ~Concluded)'
    BY ActiveIsNotConcluded, PTL
  <2>2. QED
    BY <1>7, <2>1 DEF Active, Over
<1>12. QED
  BY <1>1, <1>2, <1>3, <1>5, <1>6, <1>7, <1>8, <1>10, <1>11
     DEF TurnInv, Active

\* What a reader finds, and what is behind it.
LEMMA QueueHas ==
  ASSUME ToolInv, Active \/ Concluded, queue # <<>>
  PROVE  /\ current \in Turns /\ queue \in Seq(StepEvents)
         /\ \/ /\ Head(queue) \in TurnEvents
               /\ Active => Only(Tail(queue), TurnEvents)
               /\ Concluded => EndsIn(Tail(queue), TurnEvents, {Marker})
            \/ Concluded /\ Head(queue) = Marker /\ Tail(queue) = <<>>
<1>1. queue \in Seq(StepEvents) /\ current \in Turns \union {NoTurn}
  BY DEF ToolInv, TypeOK, ProcessorTypeOK, ConversationTypeOK
<1>2. CASE Active
  <2>1. Only(queue, TurnEvents) /\ current # NoTurn
    BY <1>2 DEF Active, Waiting, Running, Ending, Concluding
  <2>2. ~Concluded
    BY <1>2, ActiveIsNotConcluded
  <2>3. QED
    BY <1>1, <1>2, <2>1, <2>2, OnlyTail
<1>3. CASE Concluded
  <2>1. EndsIn(queue, TurnEvents, {Marker}) /\ current # NoTurn
    BY <1>3 DEF Concluded
  <2>2. ~Active
    BY <1>3, ActiveIsNotConcluded
  <2>3. QED
    BY <1>1, <1>3, <2>1, <2>2, EndsTail
<1>4. QED
  BY <1>2, <1>3

LEMMA QueueShrinks ==
  ASSUME ToolInv, queue # <<>>, queue' = Tail(queue), UNCHANGED current
  PROVE  /\ Head(queue) = StepEvent => OnTheQueue = OnTheQueue' + 1
         /\ Head(queue) # StepEvent => OnTheQueue = OnTheQueue'
         /\ OnTheQueue' \in Nat
<1>1. queue \in Seq(StepEvents) /\ StepEvent' = StepEvent
  BY DEF ToolInv, TypeOK, ProcessorTypeOK, StepEvent
<1>2. Tail(queue) \in Seq(StepEvents)
  BY <1>1, HeadTail
<1>3. /\ Head(queue) = StepEvent =>
           OnTheQueue = Count(Tail(queue), {StepEvent}) + 1
      /\ Head(queue) # StepEvent =>
           OnTheQueue = Count(Tail(queue), {StepEvent})
  BY <1>1, CountTail DEF OnTheQueue
<1>4. QED
  BY <1>1, <1>2, <1>3, PlacesFinite DEF OnTheQueue

\* A step or an error is taken from the queue: the turn is not over before,
\* and not over after.
LEMMA EventTaken ==
  ASSUME ToolInv, NEW c \in Callers, TurnInv(c), NEW kind,
         TakeEvent(c, kind), Head(queue) \in TurnEvents, pc' = pc,
         \A t \in Turns : t > current => recorded'[t] = recorded[t]
  PROVE  /\ Undisturbed' /\ (Active \/ Concluded)' /\ CallerFits(c)'
         /\ ~Over /\ ~Over'
         /\ UNCHANGED <<current, produced>>
         /\ UNCHANGED <<OnTheWire, InTheLoop, Announced>>
<1>1. /\ UNCHANGED <<inbox, wire, link, backlog, running, awaiting, calls,
                     lastTurn, produced>>
      /\ UNCHANGED <<loop, finished, idle, sessionEnd, main, tools>>
      /\ UNCHANGED <<closer, current, discarded>>
      /\ queue # <<>> /\ queue' = Tail(queue)
      /\ pc[c] \in {"steps", "drain"}
  BY DEF TakeEvent, harnessVars
<1>2. /\ UNCHANGED <<TurnEvents, Marker, StepOps, EndOps, EndFrames>>
      /\ UNCHANGED <<PlainFrames, Answers>>
      /\ UNCHANGED <<WireOrdered, MainKnown, OnTheWire, InTheLoop>>
      /\ UNCHANGED <<Announced, CallsAwaited, Still>>
  BY <1>1, NamesKept
     DEF WireOrdered, MainKnown, OnTheWire, InTheLoop, Announced,
         CallsAwaited, Still, StepFrame
<1>3. Undisturbed'
  BY <1>1, UndisturbedKept DEF TurnInv, Undisturbed
<1>4. Head(queue) # Marker
  BY EventsAre
<1>5. /\ Active => Only(queue', TurnEvents)
      /\ Concluded => EndsIn(queue', TurnEvents, {Marker})
      /\ current # NoTurn
  BY <1>1, <1>4, QueueHas DEF TurnInv, Turns, NoTurn
<1>6. CASE Active
  <2>1. ~Waiting
    BY <1>1 DEF Waiting
  <2>2. Running => Running'
    BY <1>1, <1>2, <1>5, <1>6 DEF Running
  <2>3. Ending => Ending'
    BY <1>1, <1>2, <1>5, <1>6 DEF Ending
  <2>4. Concluding => Concluding'
    BY <1>1, <1>2, <1>5, <1>6 DEF Concluding
  <2>5. Active'
    BY <1>6, <2>1, <2>2, <2>3, <2>4 DEF Active
  <2>6. (Active => ~idle /\ ~Concluded)'
    BY ActiveIsNotConcluded, PTL
  <2>7. CallerFits(c)'
    BY <1>1 DEF TurnInv, CallerFits, Asking, Checking
  <2>8. QED
    BY <1>1, <1>2, <1>3, <2>5, <2>6, <2>7 DEF Over
<1>7. CASE Concluded
  <2>1. Concluded' /\ queue' # <<>>
    BY <1>1, <1>2, <1>5, <1>7 DEF Concluded, EndsIn
  <2>2. CallerFits(c)'
    BY <1>1 DEF TurnInv, CallerFits, Asking, Checking
  <2>3. QED
    BY <1>1, <1>2, <1>3, <2>1, <2>2 DEF Over
<1>8. QED
  BY <1>6, <1>7 DEF TurnInv

LEMMA StepRead ==
  ASSUME ToolInv, NEW c \in Callers, TurnInv(c), ReadStep(c)
  PROVE  /\ TurnInv(c)' /\ ~Over /\ ~Over'
         /\ UNCHANGED <<current, produced>>
         /\ current \in Turns /\ recorded[current] < produced[current]
         /\ recorded' = [recorded EXCEPT ![current] = @ + 1]
<1>1. /\ TakeEvent(c, "step") /\ pc' = pc
      /\ queue # <<>> /\ queue' = Tail(queue) /\ current' = current
      /\ Head(queue).kind = "step"
      /\ recorded' = [recorded EXCEPT ![Head(queue).turn] = @ + 1]
  BY DEF ReadStep, TakeEvent
<1>2. /\ Head(queue) = StepEvent /\ Head(queue) \in TurnEvents
      /\ Head(queue).turn = current /\ current \in Turns
  BY <1>1, QueueHas, EventsAre DEF TurnInv, TurnEvents
<1>3. /\ recorded' = [recorded EXCEPT ![current] = @ + 1]
      /\ recorded \in [Turns -> Nat] /\ produced \in [Turns -> Nat]
      /\ recorded'[current] = recorded[current] + 1
      /\ current \in Nat /\ Turns \subseteq Nat /\ current # NoTurn
  <2>1. recorded \in [Turns -> Nat] /\ produced \in [Turns -> Nat]
    BY DEF ToolInv, TypeOK, HarnessTypeOK, ConversationTypeOK
  <2>2. current \in Nat /\ Turns \subseteq Nat /\ current # NoTurn
    BY <1>2, HarnessAssumption DEF Turns, NoTurn
  <2>3. QED
    BY <1>1, <1>2, <2>1, <2>2
<1>4. \A t \in Turns : t > current => recorded'[t] = recorded[t]
  BY <1>2, <1>3
<1>5. /\ Undisturbed' /\ (Active \/ Concluded)' /\ CallerFits(c)'
      /\ ~Over /\ ~Over'
      /\ UNCHANGED <<current, produced>>
      /\ UNCHANGED <<OnTheWire, InTheLoop, Announced>>
  BY <1>1, <1>2, <1>4, EventTaken
<1>6. OnTheQueue = OnTheQueue' + 1 /\ OnTheQueue' \in Nat
  BY <1>1, <1>2, QueueShrinks
<1>7. Balance' /\ recorded[current] < produced[current]
  BY <1>2, <1>3, <1>5, <1>6, CountsAreNumbers
     DEF TurnInv, Balance, Unread, ToolInv
<1>8. QED
  BY <1>2, <1>3, <1>5, <1>7 DEF TurnInv

LEMMA ErrorRead ==
  ASSUME ToolInv, NEW c \in Callers, TurnInv(c), ReadError(c)
  PROVE  /\ TurnInv(c)' /\ ~Over /\ ~Over'
         /\ UNCHANGED <<current, produced, recorded>>
<1>1. /\ TakeEvent(c, "err") /\ pc' = pc /\ recorded' = recorded
      /\ queue # <<>> /\ queue' = Tail(queue) /\ current' = current
      /\ Head(queue).kind = "err"
  BY DEF ReadError, TakeEvent
<1>2. Head(queue) # StepEvent /\ Head(queue) \in TurnEvents
  BY <1>1, QueueHas, EventsAre DEF TurnInv
<1>3. /\ Undisturbed' /\ (Active \/ Concluded)' /\ CallerFits(c)'
      /\ ~Over /\ ~Over'
      /\ UNCHANGED <<current, produced>>
      /\ UNCHANGED <<OnTheWire, InTheLoop, Announced>>
  BY <1>1, <1>2, EventTaken
<1>4. OnTheQueue = OnTheQueue'
  BY <1>1, <1>2, QueueShrinks
<1>5. Balance'
  BY <1>1, <1>3, <1>4 DEF TurnInv, Balance, Unread
<1>6. QED
  BY <1>1, <1>3, <1>5 DEF TurnInv

\* The marker is read when everything the turn had to show has been.
LEMMA MarkerIsLast ==
  ASSUME ToolInv, NEW c \in Callers, TurnInv(c), queue # <<>>,
         Head(queue).kind = "idle"
  PROVE  /\ Concluded /\ Head(queue) = Marker /\ Tail(queue) = <<>>
         /\ current \in Turns /\ recorded[current] = produced[current]
<1>1. /\ Concluded /\ Head(queue) = Marker /\ Tail(queue) = <<>>
      /\ current \in Turns /\ queue \in Seq(StepEvents)
  BY QueueHas, EventsAre DEF TurnInv
<1>2. OnTheQueue = 0
  <2>1. Head(queue) # StepEvent
    BY <1>1, EventsAre
  <2>2. Count(queue, {StepEvent}) = Count(<<>>, {StepEvent})
    BY <1>1, <2>1, CountTail
  <2>3. QED
    BY <2>2, CountNone, EmptyOccurs DEF OnTheQueue
<1>3. OnTheWire = 0
  BY <1>1, CountNone, EmptyOccurs DEF Concluded, Still, OnTheWire
<1>4. InTheLoop = 0
  BY <1>1, OpsDiffer DEF Concluded, InTheLoop
<1>5. Cardinality(Announced) = 0
  <2>1. Announced = {}
    BY <1>1 DEF Concluded, Still, Announced
  <2>2. QED
    BY <2>1, FS_EmptySet
<1>6. recorded[current] \in Nat /\ current # NoTurn
  BY <1>1 DEF ToolInv, TypeOK, ConversationTypeOK, Turns, NoTurn
<1>7. recorded[current] = produced[current]
  BY <1>2, <1>3, <1>4, <1>5, <1>6 DEF TurnInv, Balance, Unread
<1>8. QED
  BY <1>1, <1>7

LEMMA MarkerRead ==
  ASSUME ToolInv, NEW c \in Callers, TurnInv(c), ReadIdle(c)
  PROVE  /\ TurnInv(c)' /\ ~Over /\ Over'
         /\ UNCHANGED <<current, produced, recorded>>
         /\ current \in Turns /\ recorded[current] = produced[current]
<1>1. /\ queue # <<>> /\ Head(queue).kind = "idle" /\ queue' = Tail(queue)
      /\ pc[c] \in {"steps", "drain"}
      /\ UNCHANGED <<inbox, wire, link, backlog, running, awaiting, calls,
                     lastTurn, produced>>
      /\ UNCHANGED <<loop, finished, idle, sessionEnd, main, tools>>
      /\ UNCHANGED <<closer, current, recorded, discarded>>
  BY DEF ReadIdle, TakeEvent, harnessVars
<1>2. /\ Concluded /\ Head(queue) = Marker /\ Tail(queue) = <<>>
      /\ current \in Turns /\ recorded[current] = produced[current]
  BY <1>1, MarkerIsLast
<1>3. ~Over /\ Concluded' /\ Over'
  BY <1>1, <1>2 DEF Over, Concluded, Still
<1>4. Undisturbed'
  BY <1>1, UndisturbedKept DEF TurnInv, Undisturbed
<1>5. UNCHANGED <<OnTheWire, InTheLoop, Announced, OnTheQueue>>
  <2>1. OnTheQueue = OnTheQueue'
    BY <1>1, <1>2, EventsAre, QueueShrinks
  <2>2. QED
    BY <1>1, <2>1, NamesKept DEF OnTheWire, InTheLoop, Announced
<1>6. Balance'
  BY <1>1, <1>5 DEF TurnInv, Balance, Unread
<1>7. CallerFits(c)'
  <2>1. pc'[c] \in {"reset", "idle"} /\ (pc'[c] = "reset" => pc[c] = "drain")
    BY DEF ReadIdle, At, Goto, ToolInv, TypeOK, ConversationTypeOK
  <2>2. pc[c] = "drain" => idle
    BY DEF TurnInv, CallerFits, Checking
  <2>3. pc'[c] = "reset" => loop' = <<>>
    BY <1>1, <2>1, <2>2, IdleIsConcluded
  <2>4. QED
    BY <1>3, <2>1, <2>3 DEF CallerFits, Checking, Asking
<1>8. QED
  BY <1>1, <1>2, <1>3, <1>4, <1>6, <1>7 DEF TurnInv

----------------------------------------------------------------------------
\* The program of this module: one goroutine, which waits for the agent to be
\* idle before each Send and may stop reading a turn, and does not halt turns,
\* close the agent or have triggers; its harness does not go away.
OnePoliteCaller(c) ==
  /\ Callers = {c}
  /\ "waitForIdle" \in Habits /\ Habits \subseteq {"waitForIdle", "abandon"}
  /\ "crash" \notin Faults

\* What a step does to the turn of the last prompt.
Asks ==
  /\ Over /\ ~Over'
  /\ current' = current + 1 /\ current' \in Turns
  /\ produced'[current'] = 0 /\ recorded'[current'] = 0
Makes ==
  /\ ~Over /\ ~Over' /\ UNCHANGED <<current, recorded>>
  /\ produced' = [produced EXCEPT ![current] = @ + 1]
Shows ==
  /\ ~Over /\ ~Over' /\ UNCHANGED <<current, produced>>
  /\ recorded[current] < produced[current]
  /\ recorded' = [recorded EXCEPT ![current] = @ + 1]
Concludes ==
  /\ ~Over /\ Over' /\ UNCHANGED <<current, produced, recorded>>
  /\ recorded[current] = produced[current]
Leaves == (Over' <=> Over) /\ UNCHANGED <<current, produced, recorded>>
TurnStep == Asks \/ Makes \/ Shows \/ Concludes \/ Leaves

LEMMA TurnInit ==
  ASSUME NEW c \in Callers, Init
  PROVE  TurnInv(c)
<1>1. /\ inbox = <<>> /\ wire = <<>> /\ link = "open" /\ backlog = <<>>
      /\ running = NoTurn /\ awaiting = {} /\ lastTurn = 0
      /\ produced = [t \in Turns |-> 0]
      /\ loop = <<>> /\ ~finished /\ queue = <<>> /\ idle /\ ~sessionEnd
      /\ main = NoMain /\ tools = {} /\ pc[c] = "idle" /\ closer = "open"
      /\ current = NoTurn /\ recorded = [t \in Turns |-> 0]
      /\ discarded = {}
  BY DEF Init, HarnessInit, ProcessorInit
<1>2. Concluded
  BY <1>1 DEF Concluded, Still
<1>3. Undisturbed
  BY <1>1 DEF Undisturbed, NoTurn
<1>4. CallerFits(c) /\ Balance
  BY <1>1 DEF CallerFits, Checking, Asking, Balance
<1>5. QED
  BY <1>2, <1>3, <1>4 DEF TurnInv

LEMMA NextKeepsTurn ==
  ASSUME NEW c, OnePoliteCaller(c), ToolInv, TurnInv(c), [Next]_vars
  PROVE  TurnInv(c)' /\ TurnStep
<1> c \in Callers
  BY DEF OnePoliteCaller
<1> USE DEF TurnStep
<1>1. CASE HarnessNext /\ UNCHANGED <<processorVars, conversationVars>>
  <2>1. /\ GoesOn /\ UNCHANGED recorded
        /\ \/ UNCHANGED produced
           \/ produced' = [produced EXCEPT ![current] = @ + 1]
    BY <1>1, HarnessGoesOn DEF OnePoliteCaller, HarnessOnly
  <2>2. TurnInv(c)' /\ ~Over /\ ~Over' /\ current' = current
    BY <2>1, TurnGoesOn DEF GoesOn
  <2>3. QED
    BY <2>1, <2>2 DEF Makes, Leaves
<1>2. CASE ProcessorNext /\ UNCHANGED conversationVars
  BY <1>2, ProcessorGoesOn DEF ProcessorOnly, Leaves
<1>3. CASE ConversationNext
  <2>1. ~Halt /\ ~Trigger /\ ~BeginClose /\ ~CloseGoesOn
    BY DEF OnePoliteCaller, Halt, Trigger, BeginClose, CloseGoesOn, CloseGoes,
           RequestSessionEnd, RequestSessionEndFails, AwaitSessionEnd,
           CloseTransport, StopProcessor, TurnInv, Undisturbed
  <2>2. \/ BeginSend(c) \/ BeginSteps(c) \/ AbandonTurn(c) \/ AbandonSend(c)
        \/ SendGoesOn(c) \/ StepsGoOn(c)
    BY <1>3, <2>1 DEF ConversationNext, OnePoliteCaller
  <2>3. CASE \/ BeginSend(c) \/ WaitForIdle(c) \/ LockSend(c) \/ CheckIdle(c)
             \/ CheckPending(c) \/ NothingLeftover(c) \/ SendInputFails(c)
             \/ BeginSteps(c) \/ LockReceive(c) \/ AbandonTurn(c)
             \/ AbandonSend(c)
    BY <2>3, SendGoes DEF OnePoliteCaller, Leaves
  <2>4. CASE ResetTurn(c) \/ ResetGate(c) \/ DiscardLeftover(c)
    BY <2>4, ResetFindsNothing DEF Leaves
  <2>5. CASE SendInput(c)
    BY <2>5, PromptSent DEF Asks
  <2>6. CASE ReadStep(c)
    BY <2>6, StepRead DEF Shows
  <2>7. CASE ReadError(c)
    BY <2>7, ErrorRead DEF Leaves
  <2>8. CASE ReadIdle(c)
    BY <2>8, MarkerRead DEF Concludes
  <2>9. QED
    BY <2>2, <2>3, <2>4, <2>5, <2>6, <2>7, <2>8 DEF SendGoesOn, StepsGoOn
<1>4. CASE UNCHANGED vars
  <2>1. CallerOnly /\ pc' = pc
    BY <1>4 DEF vars, CallerOnly, conversationVars
  <2>2. /\ Undisturbed' /\ Balance' /\ (Active \/ Concluded)'
        /\ Over' <=> Over
        /\ UNCHANGED <<current, produced, recorded, loop, queue, idle>>
    BY <2>1, CallerMoves
  <2>3. CallerFits(c)'
    BY <2>1, <2>2 DEF TurnInv, CallerFits
  <2>4. QED
    BY <2>2, <2>3 DEF TurnInv, Leaves
<1>5. QED
  BY <1>1, <1>2, <1>3, <1>4 DEF Next

\* The inductive invariant of this module, with the one it needs.
THEOREM TurnsInvariant ==
  ASSUME NEW c, OnePoliteCaller(c)
  PROVE  Spec => [](ToolInv /\ TurnInv(c))
<1>1. c \in Callers
  BY DEF OnePoliteCaller
<1>2. Init => ToolInv /\ TurnInv(c)
  BY <1>1, InitToolCalls, TurnInit
<1>3. ToolInv /\ TurnInv(c) /\ [Next]_vars => (ToolInv /\ TurnInv(c))'
  BY NextToolCalls, NextKeepsTurn
<1>4. QED
  BY <1>2, <1>3, PTL DEF Spec

----------------------------------------------------------------------------
\* eventproc.go 361-363: whoever sees the agent idle can rely on every event of
\* the turn being on the queue, if it was not read before.
THEOREM IdleMeansTheTurnIsQueued ==
  ASSUME NEW c, OnePoliteCaller(c)
  PROVE  Spec => []IdleMeansAllQueued
<1>1. ToolInv /\ TurnInv(c) => IdleMeansAllQueued
  <2> SUFFICES ASSUME ToolInv, TurnInv(c), idle, current # NoTurn
               PROVE  /\ recorded[current] + Queued(current)
                           = produced[current]
                      /\ \A i \in DOMAIN loop :
                           loop[i].op = "emit" => loop[i].event.turn # current
    BY DEF IdleMeansAllQueued
  <2>1. Concluded /\ loop = <<>>
    BY IdleIsConcluded DEF OnePoliteCaller
  <2>2. OnTheWire = 0 /\ InTheLoop = 0 /\ Cardinality(Announced) = 0
    <3>1. wire = <<>> /\ Announced = {}
      BY <2>1 DEF Concluded, Still, Announced
    <3>2. QED
      BY <2>1, <3>1, CountNone, EmptyOccurs, OpsDiffer, FS_EmptySet
         DEF OnTheWire, InTheLoop
  <2>3. OnTheQueue = Queued(current) /\ OnTheQueue \in Nat
    <3>1. DOMAIN queue = 1..Len(queue)
      BY DEF ToolInv, TypeOK, ProcessorTypeOK
    <3>2. QED
      BY <3>1, CountsAreNumbers
         DEF OnTheQueue, Queued, Count, Places, StepEvent, ToolInv
  <2>4. recorded[current] \in Nat
    BY DEF ToolInv, TypeOK, ConversationTypeOK
  <2>5. QED
    BY <2>1, <2>2, <2>3, <2>4 DEF TurnInv, Balance, Unread
<1>2. QED
  BY <1>1, TurnsInvariant, PTL

\* Steps ends at the idle marker, and by then it has read everything the turn
\* had to show.
THEOREM MarkersComeLast ==
  ASSUME NEW c, OnePoliteCaller(c)
  PROVE  Spec => []MarkerComesLast
<1>1. ToolInv /\ TurnInv(c) => MarkerComesLast
  <2> SUFFICES ASSUME ToolInv, TurnInv(c), NEW t \in Turns, queue # <<>>,
                      Head(queue) = Event("idle", t)
               PROVE  recorded[t] = produced[t]
    BY DEF MarkerComesLast
  <2>1. Head(queue).kind = "idle" /\ Head(queue).turn = t
    BY DEF Event
  <2>2. Head(queue) = Marker /\ recorded[current] = produced[current]
    BY <2>1, MarkerIsLast DEF OnePoliteCaller
  <2>3. t = current
    BY <2>1, <2>2, EventsAre
  <2>4. QED
    BY <2>2, <2>3
<1>2. QED
  BY <1>1, TurnsInvariant, PTL

\* sendMu and the drain: what a reader reads is of the turn of the last prompt.
THEOREM TurnsAreIsolated ==
  ASSUME NEW c, OnePoliteCaller(c)
  PROVE  Spec => []TurnIsolation
<1>1. ToolInv /\ TurnInv(c) => TurnIsolation
  <2> SUFFICES ASSUME ToolInv, TurnInv(c), queue # <<>>
               PROVE  Head(queue).turn = current
    BY DEF TurnIsolation
  <2>1. QED
    BY QueueHas, EventsAre DEF TurnInv
<1>2. QED
  BY <1>1, TurnsInvariant, PTL

\* docs/DESIGN.md 412-416: a turn that ended before anyone read it is drained,
\* and not thrown away by resetForTurn.
THEOREM NothingIsDiscarded ==
  ASSUME NEW c, OnePoliteCaller(c)
  PROVE  Spec => []NothingDiscarded
<1>1. TurnInv(c) => NothingDiscarded
  BY DEF TurnInv, Undisturbed, NothingDiscarded
<1>2. QED
  BY <1>1, TurnsInvariant, PTL

\* eventproc.go 344-346: a subagent going quiet does not end the caller's turn.
THEOREM TurnsEndWhenEnded ==
  ASSUME NEW c, OnePoliteCaller(c)
  PROVE  Spec => []EndsOnlyWhenEnded
<1>1. ToolInv /\ TurnInv(c) => EndsOnlyWhenEnded
  <2> SUFFICES ASSUME ToolInv, TurnInv(c), running # NoTurn
               PROVE  /\ \A i \in DOMAIN queue :
                           queue[i] # Event("idle", running)
                      /\ \A i \in DOMAIN loop : loop[i] # Emit("idle", running)
    BY DEF EndsOnlyWhenEnded
  <2>1. Running /\ running = current
    BY InProgress DEF TurnInv
  <2>2. DOMAIN queue = 1..Len(queue)
    BY DEF ToolInv, TypeOK, ProcessorTypeOK
  <2>3. \A i \in DOMAIN queue : queue[i] # Event("idle", running)
    BY <2>1, <2>2, EventsAre DEF Running, Only, Marker
  <2>4. /\ Emit("step", current) # Emit("idle", current)
        /\ MarkRunning # Emit("idle", current)
    BY DEF Emit, MarkRunning, Event
  <2>5. \A i \in DOMAIN loop : loop[i] # Emit("idle", running)
    BY <2>1, <2>4 DEF Running, StepOps
  <2>6. QED
    BY <2>3, <2>5
<1>2. QED
  BY <1>1, TurnsInvariant, PTL

----------------------------------------------------------------------------
\* The conversation implements the turn stream.

LEMMA OpenUntilOver ==
  ASSUME NEW c \in Callers, ToolInv, TurnInv(c)
  PROVE  current # NoTurn /\ StillOpen <=> ~Over
<1>1. CASE Waiting
  <2>1. ~Over
    BY <1>1, ActiveIsNotConcluded DEF Active, Over
  <2>2. current # NoTurn /\ StillOpen
    BY <1>1 DEF Waiting, StillOpen
  <2>3. QED
    BY <2>1, <2>2
<1>2. CASE Running
  <2>1. ~Over
    BY <1>2, ActiveIsNotConcluded DEF Active, Over
  <2>2. current # NoTurn /\ StillOpen
    BY <1>2 DEF Running, StillOpen
  <2>3. QED
    BY <2>1, <2>2
<1>3. CASE Ending
  <2>1. ~Over
    BY <1>3, ActiveIsNotConcluded DEF Active, Over
  <2>2. /\ wire \in Seq(OutputEvents) /\ wire # <<>>
        /\ wire[Len(wire)] \in EndFrames /\ awaiting \subseteq Calls
    BY <1>3 DEF Ending, EndsIn, ToolInv, TypeOK, HarnessTypeOK
  <2>3. Len(wire) \in DOMAIN wire
    BY <2>2
  <2>4. current # NoTurn /\ StillOpen
    BY <1>3, <2>2, <2>3, FramesAre DEF Ending, StillOpen
  <2>5. QED
    BY <2>1, <2>4
<1>4. CASE Concluding
  <2>1. ~Over
    BY <1>4, ActiveIsNotConcluded DEF Active, Over
  <2>2. \E i \in DOMAIN loop : loop[i] = Emit("idle", current)
    BY <1>4 DEF Concluding, EndOps
  <2>3. current # NoTurn /\ StillOpen
    BY <1>4, <2>2 DEF Concluding, StillOpen
  <2>4. QED
    BY <2>1, <2>3
<1>5. CASE Concluded /\ queue # <<>>
  <2>1. /\ queue \in Seq(StepEvents) /\ current # NoTurn
        /\ queue[Len(queue)] = Event("idle", current)
    BY <1>5 DEF Concluded, EndsIn, ToolInv, TypeOK, ProcessorTypeOK, Marker
  <2>2. Len(queue) \in DOMAIN queue
    BY <1>5, <2>1
  <2>3. QED
    BY <1>5, <2>1, <2>2 DEF StillOpen, Over
<1>6. CASE Over
  <2>1. /\ inbox = <<>> /\ backlog = <<>> /\ running = NoTurn /\ wire = <<>>
        /\ queue = <<>> /\ loop \in {<<>>, <<MarkIdle>>}
    BY <1>6 DEF Over, Concluded, Still
  <2>2. MarkIdle # Emit("idle", current)
    BY DEF MarkIdle, Emit
  <2>3. ~StillOpen
    BY <2>1, <2>2 DEF StillOpen
  <2>4. QED
    BY <1>6, <2>3
<1>7. QED
  BY <1>1, <1>2, <1>3, <1>4, <1>5, <1>6 DEF TurnInv, Active, Over

\* conversation.go 37-38, 110-115, 168-173: one turn at a time; all that a turn
\* has to show is read, by its reader or by the Send that drains it, before it
\* is over; and the next prompt goes out only then.
THEOREM TurnsAreAStream ==
  ASSUME NEW c, OnePoliteCaller(c)
  PROVE  Spec => ImplementsTurnStream
<1> DEFINE open == current # NoTurn /\ StillOpen
           made == CountOf(produced)
           shown == CountOf(recorded)
<1>1. c \in Callers
  BY DEF OnePoliteCaller
<1>2. Init => Stream!StreamInit
  BY DEF Init, Stream!StreamInit, CountOf, NoTurn
<1>3. ASSUME ToolInv, TurnInv(c), ToolInv', TurnInv(c)', [Next]_vars
      PROVE  [Stream!Ask \/ Stream!Make \/ Stream!Show \/ Stream!Conclude]_
               (Stream!streamVars)
  <2>1. TurnStep
    BY <1>3, NextKeepsTurn
  <2>2. open <=> ~Over
    BY <1>1, <1>3, OpenUntilOver
  <2>3. open' <=> ~Over'
    <3>1. (ToolInv /\ TurnInv(c) => (open <=> ~Over))'
      BY <1>1, OpenUntilOver, PTL
    <3>2. QED
      BY <1>3, <3>1
  <2>4. /\ current \in Turns \union {NoTurn} /\ Turns = 1..MaxTurns
        /\ MaxTurns \in Nat /\ NoTurn = 0
        /\ produced \in [Turns -> Nat] /\ recorded \in [Turns -> Nat]
    BY <1>3, HarnessAssumption
       DEF ToolInv, TypeOK, HarnessTypeOK, ConversationTypeOK, Turns, NoTurn
  <2>5. open \in BOOLEAN /\ open' \in BOOLEAN
    OBVIOUS
  <2>6. open => current \in Turns
    BY <2>4
  <2> HIDE DEF open
  <2>7. CASE Asks
    <3>1. made' = 0 /\ shown' = 0
      BY <2>7 DEF Asks, CountOf
    <3>2. ~open /\ open' = TRUE
      BY <2>2, <2>3, <2>5, <2>7 DEF Asks
    <3>3. current < MaxTurns /\ current' \in current + 1..MaxTurns
      BY <2>4, <2>7 DEF Asks
    <3>4. QED
      BY <3>1, <3>2, <3>3 DEF Stream!Ask, open
  <2>8. CASE Makes
    <3>1. open /\ open' = open /\ current' = current
      BY <2>2, <2>3, <2>5, <2>8 DEF Makes
    <3>2. made' = made + 1 /\ shown' = shown
      BY <2>4, <2>6, <2>8, <3>1 DEF Makes, CountOf
    <3>3. QED
      BY <3>1, <3>2 DEF Stream!Make, open
  <2>9. CASE Shows
    <3>1. open /\ open' = open /\ current' = current
      BY <2>2, <2>3, <2>5, <2>9 DEF Shows
    <3>2. shown < made /\ shown' = shown + 1 /\ made' = made
      BY <2>4, <2>6, <2>9, <3>1 DEF Shows, CountOf
    <3>3. QED
      BY <3>1, <3>2 DEF Stream!Show, open
  <2>10. CASE Concludes
    <3>1. open /\ open' = FALSE /\ current' = current
      BY <2>2, <2>3, <2>5, <2>10 DEF Concludes
    <3>2. shown = made /\ shown' = shown /\ made' = made
      BY <2>4, <2>10 DEF Concludes, CountOf
    <3>3. QED
      BY <3>1, <3>2 DEF Stream!Conclude, open
  <2>11. CASE Leaves
    <3>1. open' = open /\ current' = current
      BY <2>2, <2>3, <2>5, <2>11 DEF Leaves
    <3>2. shown' = shown /\ made' = made
      BY <2>11 DEF Leaves, CountOf
    <3>3. QED
      BY <3>1, <3>2 DEF Stream!streamVars, open
  <2>12. QED
    BY <2>1, <2>7, <2>8, <2>9, <2>10, <2>11 DEF TurnStep
<1>4. QED
  BY <1>2, <1>3, TurnsInvariant, PTL
     DEF Spec, ImplementsTurnStream, Stream!StreamSpec
=============================================================================
