---------------------------- MODULE MCRunEvidence ----------------------------
(* Two ticks, with metrics at the second and a checkpoint after the first.   *)
EXTENDS RunEvidence

MCScenario(policy, who, kills, losses, signals) ==
    [policy |-> policy, open |-> FALSE, who |-> who,
     kills |-> kills, losses |-> losses, signals |-> signals,
     addressed |-> TRUE, others |-> FALSE]

TasksOpen(s) == [s EXCEPT !.open = TRUE]

Racing == {"r1", "r2"}
Watched == {"r1", "attester"}

\* Pauses alone, kills, losses of power, with a second runner or an attester
\* beside the first, and one of each; pauses that leave tasks open; a run with
\* recorded answers of a model; an attester that names no run, where there is
\* another one or not.
MCScenarios ==
    {MCScenario("neutral", Process, 0, 0, 2),
     TasksOpen(MCScenario("neutral", Racing, 0, 0, 2)),
     TasksOpen(MCScenario("neutral", {"r1"}, 1, 0, 1)),
     MCScenario("neutral", Racing, 2, 0, 1),
     MCScenario("neutral", Racing, 0, 2, 1),
     MCScenario("neutral", Watched, 1, 0, 0),
     MCScenario("neutral", Watched, 0, 1, 0),
     MCScenario("cohort", {"r1"}, 0, 1, 0),
     MCScenario("cohort", {"r1"}, 1, 0, 0),
     MCScenario("neutral", {"r1"}, 1, 1, 0),
     MCScenario("cohort", {"r1", "attester"}, 0, 0, 0),
     [MCScenario("neutral", Watched, 0, 0, 0) EXCEPT !.addressed = FALSE],
     [MCScenario("neutral", Watched, 0, 0, 0) EXCEPT !.addressed = FALSE, !.others = TRUE]}
=============================================================================
