---------------------------- MODULE MCFleetMerge ----------------------------
(* What scans report of one finding, for FleetMerge.  A cloud function (identity "function")   *)
(* always has the key "trigger", null for one called over https; a scenario is a workflow or,  *)
(* with an agent module, an agent; an app is an OAuth grant or, without scopes, a bot; the      *)
(* settings of a coding agent may gate actions or bypass approval; a cloud agent that          *)
(* supervises others may yet be gated.                                                         *)
EXTENDS FleetMerge, FiniteSets, TLC

CONSTANTS s1, s2, s3, a1, a2, c1, c2

Base == [identity |-> "function", kind |-> "cloud-resource", kinds |-> {}, facts |-> {},
         trigger |-> "absent", gate |-> "absent", verdict |-> "shadow", card |-> None,
         level |-> NoLevel, interval |-> NoInterval, risk |-> 1, reconciled |-> TRUE, whole |-> TRUE]

ByRequest == [Base EXCEPT !.trigger = "null", !.facts = {"acts"}]
ByEvent == [Base EXCEPT !.trigger = "event", !.facts = {"acts", "autonomous"}, !.risk = 2]

Functions ==
    {ByRequest, ByEvent,
     [ByRequest EXCEPT !.verdict = a1, !.card = c1, !.level = 2],
     [ByEvent EXCEPT !.verdict = a1, !.card = c2, !.level = 3],
     [ByEvent EXCEPT !.verdict = "unassessed", !.reconciled = FALSE, !.whole = FALSE]}

Scenario == [Base EXCEPT !.identity = "scenario"]

Scenarios ==
    {[Scenario EXCEPT !.kind = "workflow", !.verdict = a2, !.level = 3],
     [Scenario EXCEPT !.kind = "agent", !.facts = {"tools"}, !.verdict = a1, !.card = c1, !.risk = 2],
     [Scenario EXCEPT !.kind = "workflow", !.verdict = a1, !.card = c1, !.level = 5],
     [Scenario EXCEPT !.kind = "workflow", !.facts = {"autonomous"},
                      !.verdict = "unassessed", !.reconciled = FALSE]}

Apps ==
    {[Base EXCEPT !.identity = "app", !.kind = "oauth-grant", !.verdict = a1],
     [Base EXCEPT !.identity = "app", !.kind = "bot-app", !.facts = {"acts"}, !.verdict = a1,
                  !.level = 1, !.whole = FALSE]}

Settings == [Base EXCEPT !.identity = "settings", !.kind = "agent-config", !.facts = {"acts"}]

AgentSettings ==
    {[Settings EXCEPT !.gate = "every-action", !.verdict = a1, !.level = 2],
     [Settings EXCEPT !.gate = "some-actions", !.verdict = a1, !.level = 1],
     [Settings EXCEPT !.facts = {"acts", "bypass"}, !.verdict = a1, !.risk = 3]}

Supervisor == [Base EXCEPT !.identity = "agent", !.kind = "agent", !.facts = {"tools", "multi"}]

CloudAgents ==
    {[Supervisor EXCEPT !.gate = "every-action"],
     [Supervisor EXCEPT !.gate = "every-action", !.facts = {"tools"}, !.verdict = a2]}

MCObservations == Functions \cup Scenarios \cup Apps \cup AgentSettings \cup CloudAgents
MCScans == {s1, s2, s3}
MCAgents == {a1, a2}
MCCards == {c1, c2}
MCIdentities == {"function", "scenario", "app", "settings", "agent"}
Sym == Permutations(MCScans)

=============================================================================
