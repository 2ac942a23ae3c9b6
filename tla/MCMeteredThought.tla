-------------------------- MODULE MCMeteredThought --------------------------
(* Two thoughts of one agent.  The first reserves tokens and credits, the     *)
(* second only tokens: its estimate of the credits is zero.                   *)
EXTENDS MeteredThought, TLC

CONSTANTS t1, t2    \* thoughts

Bill(tokens, credits) == ("tokens" :> tokens) @@ ("credits" :> credits)

Reservations == (t1 :> Bill(2, 2)) @@ (t2 :> Bill(1, 0))

\* Less than the reservation, as much, and more.
AllUsages == {Bill(n, c) : n \in 1 .. 3, c \in 0 .. 3}

\* Enough for either thought but not for an overrun of both, and enough for both
\* with two units of overrun.
ScarceAndAmple == {Bill(3, 3), Bill(5, 5)}

Ample == {Bill(5, 5)}
=============================================================================
