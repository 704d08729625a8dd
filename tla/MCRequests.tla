----------------------------- MODULE MCRequests -----------------------------
\* Requests for TLC: the policies, calls, questions and replies to try.
EXTENDS Requests, TLC

\* A rule of each scope, each decision, and each thing a predicate or a
\* handler can say; a containment marker; a rule of a server with a typo.
SomeRules ==
  {Allow("*"), Deny("*"), [AskUser("*", "yes") EXCEPT !.when = "differs"],
   [Allow("run") EXCEPT !.when = "error"], WorkspaceOnly(<<"run">>)[1]}
  \union {[p EXCEPT !.when = w] : p \in {Allow("run"), Deny("run")},
                                 w \in {"none", "matches", "differs"}}
  \union {AskUser("run", a) : a \in Askers}
  \union ToSet(mcpPolicies("ask", "srv", <<>>, "no"))
  \union ToSet(mcpPolicies("approve", "srv", <<"run">>, "none"))
  \union ToSet(mcpPolicies("deny", "srf", <<"run">>, "none"))

Lists ==
  {<<>>} \union {<<p>> : p \in SomeRules} \union (SomeRules \X SomeRules)
  \union {ConfirmRunCommand("run", a) \o <<p>> : a \in Askers, p \in SomeRules}
  \union {SafeDefaults(<<"view">>, a) \o <<p>> : a \in Askers, p \in SomeRules}

Run == [server |-> "", tool |-> "run"]
RunOnServer == [server |-> "srv", tool |-> "run"]

\* Every list, with a call that is only checked; a list with a rule to ask
\* about, with two steps at a time; two steps that wait for their user.
MCSessions ==
  [policies : Lists, waits : {0}, call : {<<Run>>, <<RunOnServer>>}]
  \union [policies : {<<AskUser("run", "no")>> \o mcpPolicies("ask", "srv", <<>>, "yes")},
          waits : {0}, call : {<<Run, RunOnServer>>}]
  \union [policies : {<<>>}, waits : {2}, call : {<<Run, Run>>}]

MCQuestionSets == {<<"other">>, <<"choice">>, <<"other", "choice", "choice">>}

Pick(options) == [skipped |-> FALSE, picked |-> options]
MCReplySets == {<<Pick({0})>>, <<Skipped, Pick({1, 2})>>,
                <<Pick({-1, 0}), Pick({}), Pick({1})>>}
=============================================================================
