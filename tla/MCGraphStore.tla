---------------------------- MODULE MCGraphStore ----------------------------
EXTENDS GraphStore

CONSTANTS c1, c2, c3    \* commands
=============================================================================
