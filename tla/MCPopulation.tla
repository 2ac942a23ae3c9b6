---------------------------- MODULE MCPopulation ----------------------------
EXTENDS Population

One == {"w1"}
Two == {"w1", "w2"}

MCScenario(universes, pool, kills, errors, aborts, terminal) ==
    [universes |-> universes, pool |-> pool, kills |-> kills, errors |-> errors,
     aborts |-> aborts, terminal |-> terminal, rival |-> pool = One, open |-> FALSE]

TasksOpen(s) == [s EXCEPT !.open = TRUE]

\* Aborts by a message alone and by the terminal; killed processes and commands;
\* runs and spawns that fail; pools that take more universes than they have
\* loops; one whose universes may be taken up again with tasks open.  Another
\* command may publish the population of a pool of one.
MCScenarios ==
    {MCScenario(2, Two, 0, 0, 1, FALSE), MCScenario(2, Two, 0, 0, 1, TRUE),
     MCScenario(2, Two, 0, 1, 1, FALSE), MCScenario(1, One, 2, 0, 1, FALSE),
     MCScenario(2, One, 1, 0, 1, FALSE), MCScenario(3, Two, 0, 0, 0, FALSE),
     MCScenario(3, One, 0, 1, 1, FALSE), TasksOpen(MCScenario(2, One, 0, 0, 1, FALSE))}
=============================================================================
