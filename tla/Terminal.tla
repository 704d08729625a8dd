------------------------------ MODULE Terminal ------------------------------
(***************************************************************************)
(* interactive.go: one terminal, read by two goroutines.  "main" runs      *)
(* Interact and prompts with "You:"; "worker" is a handler (a confirmation *)
(* of a tool call, or a question of the agent).  A read of stdin cannot be *)
(* interrupted, so a reader goroutine serves one request at a time, and a  *)
(* goroutine that leaves its read leaves the request behind.               *)
(*                                                                         *)
(* The user is external: types a line when somebody waits for one, in      *)
(* answer to the prompt that was shown last, and may press Ctrl-D.         *)
(***************************************************************************)
EXTENDS Naturals, Sequences, FiniteSets

CONSTANTS
  Texts,     \* what the user types: "yes", "text", "blank", "exit"
  MaxLines   \* lines the user types

ASSUME TextsAssumption == Texts \subseteq {"yes", "text", "blank", "exit"} /\ MaxLines \in Nat

Prompters == {"main", "worker"}
Prompts == {"none", "you", "confirm", "question"}

VARIABLES
  shown,    \* the prompt the user saw last
  typed,    \* lines typed and not read
  lines,    \* lines typed in all
  eof,      \* Ctrl-D was pressed
  waiting,  \* whose request the reader has not taken
  holder,   \* whose request it serves; "gone" when that goroutine has left
  got       \* the reply channels

termVars == <<shown, typed, lines, eof, waiting, holder, got>>

\* A line with the prompt it was typed for.
NoLine == [text |-> "none", for |-> "none"]
Eof == [text |-> "eof", for |-> "none"]
Line == {NoLine, Eof} \union [text : Texts, for : Prompts]

TermInit ==
  /\ shown = "none" /\ typed = <<>> /\ lines = 0 /\ eof = FALSE
  /\ waiting = {} /\ holder = "none" /\ got = [g \in Prompters |-> NoLine]

TermTypeOK ==
  /\ shown \in Prompts /\ typed \in Seq(Line) /\ lines \in 0..MaxLines /\ eof \in BOOLEAN
  /\ waiting \subseteq Prompters /\ holder \in Prompters \union {"none", "gone"}
  /\ got \in [Prompters -> Line]

----------------------------------------------------------------------------
\* The user.

Reading == waiting # {} \/ holder \in Prompters

Type ==
  /\ Reading /\ typed = <<>> /\ ~eof /\ lines < MaxLines
  /\ \E text \in Texts : typed' = <<[text |-> text, for |-> shown]>>
  /\ lines' = lines + 1
  /\ UNCHANGED <<shown, eof, waiting, holder, got>>

PressCtrlD ==
  /\ ~eof /\ eof' = TRUE
  /\ UNCHANGED <<shown, typed, lines, waiting, holder, got>>

----------------------------------------------------------------------------
\* The reader goroutine, serve: once input has ended, every later request
\* gets the same answer.

TakeRequest ==
  /\ holder = "none"
  /\ \E g \in waiting : holder' = g /\ waiting' = waiting \ {g}
  /\ UNCHANGED <<shown, typed, lines, eof, got>>

Reply(line) == IF holder = "gone" THEN got ELSE [got EXCEPT ![holder] = line]

ServeLine ==
  /\ holder # "none" /\ typed # <<>>
  /\ got' = Reply(Head(typed)) /\ typed' = Tail(typed) /\ holder' = "none"
  /\ UNCHANGED <<shown, lines, eof, waiting>>

ServeEof_Once ==
  /\ holder # "none" /\ typed = <<>> /\ eof
  /\ got' = Reply(Eof) /\ holder' = "gone"
  /\ UNCHANGED <<shown, typed, lines, eof, waiting>>
ServeEof ==
  /\ holder # "none" /\ typed = <<>> /\ eof
  /\ got' = Reply(Eof) /\ holder' = "none"
  /\ UNCHANGED <<shown, typed, lines, eof, waiting>>

Serve == TakeRequest \/ ServeLine \/ ServeEof

----------------------------------------------------------------------------
\* prompt and readLine, for a goroutine g.

Prompt(g, text) ==
  /\ shown' = text /\ waiting' = waiting \union {g}
  /\ UNCHANGED <<typed, lines, eof, holder, got>>

TakeLine(g) ==
  /\ got[g] # NoLine /\ got' = [got EXCEPT ![g] = NoLine]
  /\ UNCHANGED <<shown, typed, lines, eof, waiting, holder>>

\* The context of the read ends.
LeaveRead(g) ==
  /\ waiting' = waiting \ {g} /\ got' = [got EXCEPT ![g] = NoLine]
  /\ holder' = IF holder = g THEN "gone" ELSE holder
  /\ UNCHANGED <<shown, typed, lines, eof>>

\* ConfirmInTerminal and isYes: the end of input is no yes.
Approves_AtEof(line) == line.text \in {"yes", "eof"}
Approves(line) == line.text = "yes"
=============================================================================
