------------------------------- MODULE MCHooks -------------------------------
(* The tracer first, then the caller's own hooks: tracing.Options comes     *)
(* before the options of the session, as its example has it.                *)
EXTENDS Hooks

MCHooksOf ==
  [kind \in Kinds |->
     CASE kind = "pre_tool" -> <<"user", "user">>
       [] kind \in {"compaction", "stop"} -> <<"user">>
       [] OTHER -> <<"tracer", "user">>]

MCOutcomes ==
  [kind \in Kinds |->
     CASE kind = "pre_turn" -> {"allow", "deny", "panic"}
       [] kind = "pre_tool" -> {"allow", "edit", "deny", "error"}
       [] kind = "stop" -> {"stop", "continue"}
       [] kind = "post_turn" -> {"ok", "panic"}
       [] kind = "tool_error" -> {"ok", "reword"}
       [] OTHER -> {"ok"}]
=============================================================================
