--------------------------- MODULE MCDurableMarket ---------------------------
EXTENDS DurableMarket, TLC

CONSTANTS a1, a2    \* accounts
CONSTANT r1         \* a reservation

\* The accounts are interchangeable.
AccountSymmetry == Permutations(Account)
=============================================================================
