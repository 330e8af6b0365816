------------------------ MODULE MCReportComparison ------------------------
(***************************************************************************)
(* An estate of an agent and a caller of a gateway for model-checking      *)
(* module ReportComparison.                                                *)
(***************************************************************************)
EXTENDS ReportComparison

CONSTANTS agent, caller, cloud, gateway, north, south, k1, k2, tool1, tool2, owner1

AgentAndCaller == {agent, caller}
CloudAndGateway == {cloud, gateway}
NorthSouth == {north, south}
Sites == [t \in Things |-> IF t = caller THEN gateway ELSE cloud]
OnlyAgent == {agent}
Places == [t \in Things |-> IF t = agent THEN south ELSE north]

TwoRules == {"loose", "strict"}
TwoKeys == {k1, k2}

Plain ==
    [kind |-> "agent", tool |-> tool1, items |-> {}, tags |-> {"disabled"},
     interval |-> [floor |-> 1, ceiling |-> 2, oversight |-> 0, initiation |-> 0],
     owner |-> owner1, shadow |-> "registered", match |-> "card",
     status |-> "registered-and-observed"]

\* A finding, without the digest of its definition, and widened in all other ways.
Guises ==
    {Plain, [Plain EXCEPT !.tool = None],
     [Plain EXCEPT !.tool = tool2, !.tags = {}, !.items = {"shell"}, !.interval.floor = 2,
                   !.owner = None, !.shadow = "shadow", !.match = None,
                   !.status = "observed-not-registered"]}

Strictness == [r \in Rules |-> IF r = "strict" THEN Profiles \ {Plain} ELSE Profiles]
OfThings == [t \in Things |-> IF t = agent THEN Guises ELSE {Plain}]

Usual ==
    [view |-> [c \in Connectors |-> IF c = cloud THEN Parts ELSE {north}],
     kind |-> [c \in Connectors |-> IF c = cloud THEN "live" ELSE "gateway"],
     rules |-> "loose", key |-> k1]

Unusual ==
    {Usual, [Usual EXCEPT !.view[cloud] = {north}], [Usual EXCEPT !.rules = "strict", !.key = k2],
     [Usual EXCEPT !.kind[cloud] = "diff", !.key = NoKey],
     [Usual EXCEPT !.view[gateway] = {}, !.kind[cloud] = "static", !.key = NoKey]}

=============================================================================
