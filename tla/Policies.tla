------------------------------ MODULE Policies ------------------------------
(***************************************************************************)
(* policy.go and policyproto.go: what a list of policies says of a tool    *)
(* call, and how the list is handed to the harness.                        *)
(*                                                                         *)
(* A policy is a record.  Its target is the pair that parseTarget makes of *)
(* it; `when` and `asker` are what its predicate and its handler say of    *)
(* the call at hand, "none" if it has none; `marker` is whether its name   *)
(* is workspace_only.                                                      *)
(***************************************************************************)
EXTENDS Integers, SequencesExt, FiniteSetsExt

Wildcard == "*"
NoServer == ""

Decisions == {"deny", "ask", "approve"}
Predicates == {"none", "matches", "differs", "error"}
Askers == {"none", "yes", "no", "error"}

Targets == [server: STRING, tool: STRING]
Policy == [server: STRING, tool: STRING, decision: Decisions,
           when: Predicates, asker: Askers, marker: BOOLEAN]

----------------------------------------------------------------------------
\* The lists a program builds.  mcpPolicies with no tools covers the server.

newPolicy(server, tool, decision, asker) ==
  [server |-> server, tool |-> tool, decision |-> decision, when |-> "none",
   asker |-> asker, marker |-> FALSE]

Allow(tool) == newPolicy(NoServer, tool, "approve", "none")
Deny(tool) == newPolicy(NoServer, tool, "deny", "none")
AskUser(tool, asker) == newPolicy(NoServer, tool, "ask", asker)

mcpPolicies(decision, server, tools, asker) ==
  IF tools = <<>> THEN <<newPolicy(server, Wildcard, decision, asker)>>
  ELSE [i \in DOMAIN tools |-> newPolicy(server, tools[i], decision, asker)]

SafeDefaults(readOnly, asker) ==
  Append([i \in DOMAIN readOnly |-> Allow(readOnly[i])], AskUser(Wildcard, asker))

ConfirmRunCommand(run, asker) ==
  <<IF asker = "none" THEN Deny(run) ELSE AskUser(run, asker), Allow(Wildcard)>>

WorkspaceOnly(fileTools) ==
  [i \in DOMAIN fileTools |-> [Deny(fileTools[i]) EXCEPT !.marker = TRUE]]

----------------------------------------------------------------------------
\* The order of evaluation: the more specific target first, then the more
\* restrictive decision, then the order of declaration.

policyScope(p) ==
  IF p.tool # Wildcard THEN 0 ELSE IF p.server # NoServer THEN 1 ELSE 2

decisionRank(d) == CASE d = "deny" -> 0 [] d = "ask" -> 1 [] OTHER -> 2

Precedes_Backwards(ps, i, j) ==
  LET a == <<policyScope(ps[i]), 2 - decisionRank(ps[i].decision), i>>
      b == <<policyScope(ps[j]), 2 - decisionRank(ps[j].decision), j>>
  IN \E k \in 1..3 : a[k] < b[k] /\ \A l \in 1..(k - 1) : a[l] = b[l]

Precedes(ps, i, j) ==
  LET a == <<policyScope(ps[i]), decisionRank(ps[i].decision), i>>
      b == <<policyScope(ps[j]), decisionRank(ps[j].decision), j>>
  IN \E k \in 1..3 : a[k] < b[k] /\ \A l \in 1..(k - 1) : a[l] = b[l]

\* The declared positions, in the order of evaluation.
Sorted(ps) ==
  [k \in DOMAIN ps |-> CHOOSE i \in DOMAIN ps :
     Cardinality({j \in DOMAIN ps : Precedes(ps, j, i)}) = k - 1]

Accepted_Unchecked(ps, registered) ==
  \A i \in DOMAIN ps : ps[i].server # NoServer => ps[i].server \in registered

\* NewEnforcer refuses every other list.
Accepted(ps, registered) ==
  \A i \in DOMAIN ps :
    /\ ps[i].decision = "ask" => ps[i].asker # "none"
    /\ ps[i].server # NoServer => ps[i].server \in registered

----------------------------------------------------------------------------
\* Enforcer.Evaluate.

matchesTarget(p, call) ==
  \/ p.server = NoServer /\ p.tool = Wildcard
  \/ p.server = call.server /\ p.tool \in {Wildcard, call.tool}

Approves(p) ==
  \/ p.decision = "approve"
  \/ p.decision = "ask" /\ p.asker = "yes"

\* What one turn of the loop comes to: "continue", or a result.
Considered(p, call) ==
  IF p.marker \/ ~matchesTarget(p, call) \/ p.when = "differs" THEN "continue"
  ELSE IF p.when # "error" /\ Approves(p) THEN "allow"
  ELSE "deny"

Evaluate(ps, call) ==
  LET order == Sorted(ps)
      deciding == {k \in DOMAIN order : Considered(ps[order[k]], call) # "continue"}
  IN IF deciding = {} THEN "allow" ELSE Considered(ps[order[Min(deciding)]], call)

\* What the doc of Policy says of a list: of the policies that apply to the
\* call the most specific count, of these the most restrictive, of these the
\* first declared; a predicate or handler that fails denies; no policy, no
\* objection.

Applies(ps, call) == {i \in DOMAIN ps : /\ ~ps[i].marker
                                       /\ matchesTarget(ps[i], call)
                                       /\ ps[i].when # "differs"}
Specific(ps, call) ==
  {i \in Applies(ps, call) : \A j \in Applies(ps, call) :
                               policyScope(ps[i]) <= policyScope(ps[j])}
Restrictive(ps, call) ==
  LET Strict(d) == {i \in Specific(ps, call) : ps[i].decision = d}
  IN IF Strict("deny") # {} THEN Strict("deny")
     ELSE IF Strict("ask") # {} THEN Strict("ask")
     ELSE Specific(ps, call)

Documented(ps, call) ==
  LET first == ps[Min(Restrictive(ps, call))]
  IN IF \/ Applies(ps, call) = {}
        \/ /\ first.when # "error"
           /\ \/ first.decision = "approve"
              \/ first.decision = "ask" /\ first.asker = "yes"
     THEN "allow" ELSE "deny"

----------------------------------------------------------------------------
\* policyConfig: the rules the harness gets, in the order of declaration, and
\* the table of those it has to ask the client about.  A rule's id is its
\* place in that order; 0 stands for no id.

isDynamic(p) == ~p.marker /\ (p.when # "none" \/ p.decision = "ask")

policyConfig(ps) ==
  [rules |-> [i \in DOMAIN ps |->
                [server |-> ps[i].server, tool |-> ps[i].tool,
                 decision |-> ps[i].decision, marker |-> ps[i].marker,
                 id |-> IF isDynamic(ps[i]) THEN i ELSE 0]],
   dynamic |-> [i \in {j \in DOMAIN ps : isDynamic(ps[j])} |-> ps[i]]]

\* handlePolicyDecision: what the client answers about the rule with this id.
PolicyDecision_FailsOpen(ps, id) ==
  LET dynamic == policyConfig(ps).dynamic IN
  IF id \notin DOMAIN dynamic THEN "deny"
  ELSE IF dynamic[id].when \in {"differs", "error"} THEN "noMatch"
  ELSE IF Approves(dynamic[id]) THEN "allow"
  ELSE "deny"

PolicyDecision(ps, id) ==
  LET dynamic == policyConfig(ps).dynamic IN
  IF id \notin DOMAIN dynamic THEN "deny"
  ELSE IF dynamic[id].when = "differs" THEN "noMatch"
  ELSE IF dynamic[id].when # "error" /\ Approves(dynamic[id]) THEN "allow"
  ELSE "deny"
=============================================================================
