----------------------------- MODULE TurnStream -----------------------------
(***************************************************************************)
(* What a conversation promises to the program that sends prompts and      *)
(* reads turns (conversation.go 37-38, 110-115, 168-173): one turn at a    *)
(* time; everything a turn has to show is read before the turn is over,    *)
(* by its reader or by the Send that drains it; and the next prompt goes   *)
(* out only when the turn before it is over.                               *)
(***************************************************************************)
EXTENDS Naturals

CONSTANT MaxTurns  \* prompts a behaviour may send

VARIABLES
  turn,  \* the last turn asked for, 0 before the first
  open,  \* that turn is not over
  made,  \* steps the agent has made in it
  shown  \* steps of it that have been read

streamVars == <<turn, open, made, shown>>

StreamInit == turn = 0 /\ open = FALSE /\ made = 0 /\ shown = 0

Ask ==
  /\ ~open /\ turn < MaxTurns
  /\ turn' \in turn + 1..MaxTurns
  /\ open' = TRUE /\ made' = 0 /\ shown' = 0

Make == open /\ made' = made + 1 /\ UNCHANGED <<turn, open, shown>>

Show == open /\ shown < made /\ shown' = shown + 1
        /\ UNCHANGED <<turn, open, made>>

Conclude == open /\ shown = made /\ open' = FALSE
            /\ UNCHANGED <<turn, made, shown>>

StreamSpec == StreamInit /\ [][Ask \/ Make \/ Show \/ Conclude]_streamVars
=============================================================================
