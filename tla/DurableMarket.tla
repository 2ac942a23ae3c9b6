---------------------------- MODULE DurableMarket ----------------------------
(***************************************************************************)
(* How a mutation of the exchange reaches resource-economy.json            *)
(* (src/v2/persistent-market.ts, open, mutate, enqueue and persist).       *)
(*                                                                         *)
(* `books` is #state, what every reader sees.  A mutation changes it at    *)
(* once and only then awaits the file: a failed write puts the old state   *)
(* back.  The promise chain lets the next mutation begin when this one has *)
(* ended, so one is at work at any time.  The file is replaced by rename.  *)
(***************************************************************************)
EXTENDS Market

CONSTANT Faults     \* what may go wrong in a run, a subset of AllFaults

AllFaults == {"crash", "writeFails"}

ASSUME DurableAssumption == Faults \subseteq AllFaults

VARIABLES
    file,       \* what resource-economy.json holds: Empty where there is none,
                \* which open takes as a reason to write that
    up,         \* whether open has returned
    writing,    \* the mutation at work: none, or one that awaits persist
    before      \* the state it puts back when it fails

durableVars == <<books, file, up, writing, before>>

DurableInit ==
    /\ Init
    /\ file = Empty
    /\ up = FALSE
    /\ writing = FALSE
    /\ before = Empty

\* open: read the file, or write the first one.
Open ==
    /\ ~ up
    /\ up' = TRUE
    /\ books' = file
    /\ UNCHANGED <<file, writing, before>>

\* mutate, up to the await of persist.
Mutate ==
    /\ up
    /\ ~ writing
    /\ Next
    /\ writing' = TRUE
    /\ before' = books
    /\ UNCHANGED <<file, up>>

\* checkpoint: the file is written again with no change before it.
Checkpoint ==
    /\ up
    /\ ~ writing
    /\ writing' = TRUE
    /\ before' = books
    /\ UNCHANGED <<books, file, up>>

\* persist: rename puts the new file in the place of the old one.
Rename ==
    /\ writing
    /\ file # books
    /\ file' = books
    /\ UNCHANGED <<books, up, writing, before>>

\* Fault: the mutation resolves before its file is in place.
ResolveEarly ==
    /\ writing
    /\ writing' = FALSE
    /\ UNCHANGED <<books, file, up, before>>

\* mutate resolves once persist has.
Resolve ==
    /\ writing
    /\ file = books
    /\ writing' = FALSE
    /\ UNCHANGED <<books, file, up, before>>

\* Fault: what was changed in memory stays after a failed write.
WriteFailsWithoutRollback ==
    /\ "writeFails" \in Faults
    /\ writing
    /\ file # books
    /\ writing' = FALSE
    /\ UNCHANGED <<books, file, up, before>>

\* writeFile, sync or rename throws: the file is the old one, and so is the
\* state after the catch.
WriteFails ==
    /\ "writeFails" \in Faults
    /\ writing
    /\ file # books
    /\ writing' = FALSE
    /\ books' = before
    /\ UNCHANGED <<file, up, before>>

Crash ==
    /\ "crash" \in Faults
    /\ up
    /\ up' = FALSE
    /\ writing' = FALSE
    /\ books' = Empty
    /\ before' = Empty
    /\ UNCHANGED file

DurableNext ==
    \/ Open \/ Mutate \/ Checkpoint \/ Rename \/ Resolve \/ WriteFails \/ Crash

DurableSpec == DurableInit /\ [][DurableNext]_durableVars

-----------------------------------------------------------------------------
(* Properties *)

\* What the file holds is always the outcome of whole operations on what it
\* held before: the file behaves as the exchange of module Market does.
Saved == INSTANCE Market WITH books <- file

FileImplementsMarket == Saved!Spec

\* Memory that no mutation is at work on is what a restart would find, so a
\* mutation that has resolved is on the disk: after any number of failed writes
\* and crashes the two do not come apart.
MemoryMatchesFile == up /\ ~ writing => books = file
=============================================================================
