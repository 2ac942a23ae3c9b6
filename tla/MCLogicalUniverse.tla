------------------------- MODULE MCLogicalUniverse --------------------------
(* Two agents, and the configurations that reach every phase of a tick. *)
EXTENDS LogicalUniverse

Held(c, b) == [k \in Kind |-> IF k = "credits" THEN c ELSE b]

MCInitial == Held(5, 2)
MCTreasury == Held(1, 0)
MCReward == Held(2, 1)
MCCosts ==
    [type \in ActionType |->
        CASE type = "observe" -> Held(0, 0)
          [] type \in {"send", "submit"} -> Held(1, 1)
          [] OTHER -> Held(1, 0)]

\* The tick each pressure is due in; a price or a load doubles, the capacity
\* falls to nothing and half of the agents are retired.
Pressures(price, capacity, load, retire) ==
    LET Pressure(type, tick, value) == [type |-> type, tick |-> tick, value |-> value]
    IN <<Pressure("resource_price_multiplier", price, 4),
         Pressure("bandwidth_capacity_multiplier", capacity, 0),
         Pressure("task_load_multiplier", load, 4),
         Pressure("retire_agent_fraction", retire, 1)>>

Never == Ticks + 1

Work1 == <<Plain("claimTask", 1), Plain("execute", 1), Plain("submit", 1)>>
Guess == <<Plain("claimTask", 1), Action("submit", 1, "wrong", TRUE)>>
Verify(t, result, verdict) == <<Action("verify", t, result, verdict)>>

With(policy, pressures, answers) ==
    [policy |-> policy, pressures |-> pressures, answers |-> answers]

Neutral(pressures) == With("neutral", pressures, [a \in Agent |-> {}])
Cohort(pressures, answers) == With("cohort", pressures, [a \in Agent |-> answers])

\* What agents offer one another: a sum of two fields, and a text made of
\* another that is not what its test says.
SumCapability ==
    [inputs |-> <<"x", "y">>, outputs |-> <<"z">>, primitives |-> <<"execute", "execute">>,
     plan |-> <<Step("sum", <<"x", "y">>, "z", None), Step("copy", <<"z">>, "x", None)>>,
     tests |-> <<[input |-> ("x" :> Number(1)) @@ ("y" :> Number(2)),
                  output |-> ("z" :> Number(3))]>>,
     cost |-> Held(1, 0)]
TextCapability ==
    [inputs |-> <<"x">>, outputs |-> <<"z">>, primitives |-> <<"execute", "execute">>,
     plan |-> <<Step("literal", <<>>, "y", Text(1)),
                Step("concat", <<"x", "y">>, "z", Text(0))>>,
     tests |-> <<[input |-> ("x" :> Text(1)), output |-> ("z" :> Text(1))]>>,
     cost |-> Held(0, 0)]
MCPublications == <<SumCapability, TextCapability>>

MCInputs ==
    [small |-> ("x" :> Number(1)) @@ ("y" :> Number(1)),
     large |-> ("x" :> Number(MaxSafeInteger)) @@ ("y" :> Number(1)),
     partial |-> ("x" :> Number(1))]

Use(input) == Action("useCapability", 1, input, TRUE)
Publish(c) == Plain("publishCapability", c)

MCNeutral ==
    {Neutral(Pressures(Never, Never, Never, Never)),
     Neutral(Pressures(2, Never, Never, 3)),
     Neutral(Pressures(Never, Never, 1, Never))}

MCCohort ==
    {Cohort(Pressures(Never, 2, Never, Never),
            {<<Plain("observe", 0), Plain("execute", Tasks + 1)>>, Work1, Guess,
             Verify(2, "right", TRUE)}),
     Cohort(Pressures(Never, Never, Never, Never),
            {<<Plain("connect", 2), Plain("send", 2)>>, <<Plain("disconnect", 2)>>,
             <<Plain("reason", 0), Plain("spawn", 0)>>, <<Plain("connect", 1)>>})}

\* An owner that earns, and a user that pays it, gives and runs out.
MCCustom ==
    {With("custom", Pressures(Never, Never, Never, 3),
          <<{<<Publish(1), Use("small")>>, <<Publish(2)>>, Throws},
            {<<Use("small"), Transfer(1, "credits", 1)>>, <<Use("large"), Use("partial")>>,
             <<Transfer(1, "credits", 0), Publish(1)>>,
             <<Transfer(1, "bandwidthBytes", 2), Plain("send", 1)>>}>>)}

\* A model that keeps a result of its own making where its agent looks for one.
MCMemory ==
    {Cohort(Pressures(Never, Never, Never, 3),
            {<<Action("store", 1, "wrong", TRUE), Plain("retrieve", Elsewhere)>>,
             <<Transfer(2, "credits", 3), Use("small")>>})}

MCScenarios == MCNeutral \union MCCohort \union MCCustom \union MCMemory
=============================================================================
