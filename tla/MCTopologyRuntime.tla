------------------------- MODULE MCTopologyRuntime -------------------------
(* Three agents, or two of them: agent 1 has room for one link only, and   *)
(* would also do without turns; agent 2 asks for a longer probation, agent *)
(* 3 for smaller payloads.                                                 *)
EXTENDS TopologyRuntime

MCPolicy(maxLinks, modes, cost, need, discovery) ==
    [maxLinks |-> maxLinks, modes |-> modes, cost |-> cost, need |-> need,
     discovery |-> discovery, acceptInbound |-> TRUE, allowProtocolMutation |-> TRUE,
     minCompatibility |-> 1, maxCandidates |-> 2]

Strict == <<"strict_alternation">>
Loose == <<"consensus_turn", "strict_alternation">>

MCThree == <<MCPolicy(1, Loose, 2, 1, "active"), MCPolicy(2, Strict, 2, 2, "active"),
             MCPolicy(2, Strict, 1, 1, "passive")>>
MCTwo == [MCThree EXCEPT ![2].modes = Loose, ![3].discovery = "disabled"]
MCQuick == [MCThree EXCEPT ![2].need = 1, ![3].discovery = "disabled"]

MCScores == [p \in Agent \X Agent |-> IF 1 \in {p[1], p[2]} THEN 2 ELSE 1]

MCTerms == [mode |-> "strict_alternation", cost |-> 2, need |-> 1]

MCScenario(policy, calls, turns, host, agents) ==
    [policy |-> policy, scores |-> MCScores, costs |-> {1, 2}, calls |-> calls,
     turns |-> turns, host |-> host, agents |-> agents,
     lives |-> {<<1, "waiting">>, <<1, "active">>, <<2, "retired">>},
     wires |-> {<<1, 2, MCTerms>>}]

Alone == <<Endless, 0>>

\* One round after the other, with agents of every kind; the same with the host
\* about; two rounds at once between two agents; one during which the host links
\* the agent that has room for one link only.
MCScenarios ==
    {MCScenario(MCThree, Alone, 2, {}, {}),
     MCScenario(MCTwo, Alone, 2, {}, {"decide"}),
     MCScenario(MCTwo, Alone, 2, {"wait", "disconnect", "quarantine"}, {"throw"}),
     MCScenario(MCQuick, <<2, 1>>, 1, {}, {}),
     MCScenario(MCTwo, Alone, 1, {"contradict", "tick"}, {}),
     MCScenario(MCTwo, Alone, 1, {"connect"}, {}),
     MCScenario(MCTwo, Alone, 1, {"agents"}, {}),
     [MCScenario(MCThree, <<1, 0>>, 1, {"connect"}, {})
        EXCEPT !.wires = {<<1, 3, MCTerms>>}]}
=============================================================================
