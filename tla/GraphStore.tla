----------------------------- MODULE GraphStore -----------------------------
(***************************************************************************)
(* The durable side of a DistributedGraphNode: the commit chain of         *)
(* src/v1/distributed-node.ts on top of the write-ahead log and snapshot   *)
(* of src/v1/persistence-consensus.ts, and the shutdown handler of         *)
(* src/v1/node-runner.ts that runs beside it.                              *)
(*                                                                         *)
(* Commits are serialised by a promise chain, so at most one is at work;   *)
(* `commit` says at which of its awaits it is.  The process may end at any *)
(* of them.  A graph state is the sequence of the commands applied to it;  *)
(* of the reducer it matters only whether it throws, which transfers do    *)
(* when the account cannot pay.  The hash of a record is the sequence of   *)
(* commands it chains.                                                     *)
(***************************************************************************)
EXTENDS Naturals, Sequences, FiniteSets, SequencesExt

CONSTANTS
    Command,            \* command ids, each certified for the next number
    Credits,            \* the commands that mint one unit to an account
    Debits,             \* the commands that transfer one unit away from it
    CheckpointEvery,    \* checkpointEvery of the configuration
    MaxRecords,         \* bound on the lines of the log
    None,               \* no file, no command
    Torn,               \* a line that JSON.parse rejects
    FaultModels         \* sets of things that may go wrong together

\* "overdraft": a transfer that the account cannot pay is certified.
AllFaults == {"overdraft", "crash", "torn", "syncFails", "shutdown"}

\* A line of the log, and what a snapshot holds.
Record == [sequence : Nat, previousHash : Seq(Command), command : Command]

Image == [sequence : Nat, lastHash : Seq(Command), state : Seq(Command)]

ASSUME StoreAssumption ==
    /\ Torn \notin Record
    /\ None \notin Image
    /\ Credits \subseteq Command
    /\ Debits \subseteq Command
    /\ CheckpointEvery \in Nat \ {0}
    /\ MaxRecords \in Nat
    /\ FaultModels \subseteq SUBSET AllFaults

VARIABLES
    faults,     \* what may go wrong in this behaviour, chosen at first
    wal,        \* graph.wal.jsonl, line by line
    snapshot,   \* graph.snapshot.json, or None
    up,         \* whether the process runs and has recovered
    store,      \* #sequence and #lastHash of the store
    state,      \* #state of the node: the commands applied
    commit,     \* the commit at work: its step and its command
    closing,    \* the shutdown handler: its step, the state and snapshot it holds
    acked       \* commands whose commit has resolved

memory == <<up, store, state, commit, closing>>

vars == <<faults, wal, snapshot, up, store, state, commit, closing, acked>>

Genesis == [sequence |-> 0, lastHash |-> <<>>]

Idle == [step |-> "idle", command |-> None]

Open == [step |-> "open", state |-> <<>>, snapshot |-> None]

Init ==
    /\ faults \in FaultModels
    /\ wal = <<>>
    /\ snapshot = None
    /\ up = FALSE
    /\ store = Genesis
    /\ state = <<>>
    /\ commit = Idle
    /\ closing = Open
    /\ acked = {}

-----------------------------------------------------------------------------
(* The reducer and recovery *)

Throws(s, cmd) ==
    /\ cmd \in Debits \ ToSet(s)
    /\ Cardinality(ToSet(s) \cap Credits) <= Cardinality(ToSet(s) \cap Debits)

reduceRuntimeState(s, cmd) == IF cmd \in ToSet(s) THEN s ELSE Append(s, cmd)

recordHash(record) == Append(record.previousHash, record.command)

\* The snapshot that recovery starts from: sequence 0 when there is no file.
Anchor(snap) ==
    IF snap = None THEN [sequence |-> 0, lastHash |-> <<>>, state |-> <<>>] ELSE snap

\* The lines that end recovery: a line must be one, continue the chain, and
\* hold a command that the state can take when it comes after the anchor.
Breaks(anchor, acc, line) ==
    \/ line = Torn
    \/ line.sequence # acc.sequence + 1
    \/ line.previousHash # acc.lastHash
    \/ line.sequence > anchor.sequence /\ Throws(acc.state, line.command)

\* Fault: the first command after the anchor is skipped.
ReplayAfterNext(anchor, acc, line) ==
    IF Breaks(anchor, acc, line) THEN [acc EXCEPT !.ok = FALSE]
    ELSE [ok |-> acc.ok,
          sequence |-> line.sequence,
          lastHash |-> recordHash(line),
          state |-> IF line.sequence > anchor.sequence + 1
                    THEN reduceRuntimeState(acc.state, line.command)
                    ELSE acc.state]

\* Fault: the whole log is replayed onto the snapshot, unchecked.
ReplayWhole(anchor, acc, line) ==
    IF line = Torn THEN [acc EXCEPT !.ok = FALSE]
    ELSE [ok |-> acc.ok, sequence |-> line.sequence, lastHash |-> recordHash(line),
          state |-> Append(acc.state, line.command)]

Replay(anchor, acc, line) ==
    IF Breaks(anchor, acc, line) THEN [acc EXCEPT !.ok = FALSE]
    ELSE [ok |-> acc.ok,
          sequence |-> line.sequence,
          lastHash |-> recordHash(line),
          state |-> IF line.sequence > anchor.sequence
                    THEN reduceRuntimeState(acc.state, line.command)
                    ELSE acc.state]

\* The loop of recover: what it holds after each number of lines.  It ends with
\* the first line that throws.
Replayed(lines, snap) ==
    LET anchor == Anchor(snap)
        after[i \in 0 .. Len(lines)] ==
            IF i = 0
            THEN [ok |-> TRUE, sequence |-> 0, lastHash |-> <<>>, state |-> anchor.state]
            ELSE LET acc == after[i - 1]
                 IN  IF acc.ok THEN Replay(anchor, acc, lines[i]) ELSE acc
    IN  after

\* recover: what the files give back, or ok = FALSE where the code throws.
Recover(lines, snap) ==
    LET anchor == Anchor(snap)
        end == Replayed(lines, snap)[Len(lines)]
        anchored == /\ anchor.sequence <= end.sequence
                    /\ anchor.sequence > 0 =>
                         recordHash(lines[anchor.sequence]) = anchor.lastHash
    IN  IF end.ok /\ anchored THEN end ELSE [end EXCEPT !.ok = FALSE]

Recovered == Recover(wal, snapshot)

-----------------------------------------------------------------------------
(* The life of the process *)

\* start: recover, or throw and stay down.
Start ==
    /\ ~ up
    /\ Recovered.ok
    /\ up' = TRUE
    /\ store' = [sequence |-> Recovered.sequence, lastHash |-> Recovered.lastHash]
    /\ state' = Recovered.state
    /\ UNCHANGED <<faults, wal, snapshot, commit, closing, acked>>

LoseMemory ==
    /\ up' = FALSE
    /\ store' = Genesis
    /\ state' = <<>>
    /\ commit' = Idle
    /\ closing' = Open

Crash ==
    /\ "crash" \in faults
    /\ up
    /\ LoseMemory
    /\ UNCHANGED <<faults, wal, snapshot, acked>>

\* The process ends while a line is being written: a part of it is in the file.
CrashInWrite ==
    /\ "torn" \in faults
    /\ commit.step = "append"
    /\ wal' = Append(wal, Torn)
    /\ LoseMemory
    /\ UNCHANGED <<faults, snapshot, acked>>

-----------------------------------------------------------------------------
(* commit *)

\* A certificate for the next sequence number of the node, whose command it
\* has not applied; any other is refused or ignored without a trace.
Begin ==
    /\ up
    /\ closing.step # "done"
    /\ commit = Idle
    /\ Len(wal) < MaxRecords
    /\ \E cmd \in Command \ ToSet(state) :
         /\ Throws(state, cmd) => "overdraft" \in faults
         /\ commit' = [step |-> "append", command |-> cmd]
    /\ UNCHANGED <<faults, wal, snapshot, up, store, state, closing, acked>>

\* Fault: the record is left to a later flush that never comes.
WriteLate ==
    /\ commit.step = "append"
    /\ commit' = [commit EXCEPT !.step = "written"]
    /\ UNCHANGED <<faults, wal, snapshot, up, store, state, closing, acked>>

\* append: the record reaches the file.
Write ==
    /\ commit.step = "append"
    /\ wal' = Append(wal, [sequence |-> store.sequence + 1,
                           previousHash |-> store.lastHash,
                           command |-> commit.command])
    /\ commit' = [commit EXCEPT !.step = "written"]
    /\ UNCHANGED <<faults, snapshot, up, store, state, closing, acked>>

\* Fault: the store keeps the hash of the record before.
SyncKeepsHash ==
    /\ commit.step = "written"
    /\ store' = [store EXCEPT !.sequence = @ + 1]
    /\ state' = reduceRuntimeState(state, commit.command)
    /\ commit' = [commit EXCEPT !.step = "reply"]
    /\ UNCHANGED <<faults, wal, snapshot, up, closing, acked>>

\* append returns: the store has moved on, and the node reduces the command.
\* When the reducer throws, the commit fails and the record stays.
Sync ==
    /\ commit.step = "written"
    /\ store' = [sequence |-> store.sequence + 1,
                 lastHash |-> Append(store.lastHash, commit.command)]
    /\ IF Throws(state, commit.command)
       THEN commit' = Idle /\ UNCHANGED state
       ELSE /\ state' = reduceRuntimeState(state, commit.command)
            /\ commit' = [commit EXCEPT !.step =
                            IF Len(state') % CheckpointEvery = 0
                            THEN "checkpoint" ELSE "reply"]
    /\ UNCHANGED <<faults, wal, snapshot, up, closing, acked>>

\* append throws after its write: the line stays, the store does not move.
SyncFails ==
    /\ "syncFails" \in faults
    /\ commit.step = "written"
    /\ commit' = Idle
    /\ UNCHANGED <<faults, wal, snapshot, up, store, state, closing, acked>>

\* checkpoint inside the commit chain: the snapshot is replaced by rename.
Checkpoint ==
    /\ commit.step = "checkpoint"
    /\ snapshot' = [sequence |-> store.sequence, lastHash |-> store.lastHash,
                    state |-> state]
    /\ commit' = [commit EXCEPT !.step = "reply"]
    /\ UNCHANGED <<faults, wal, up, store, state, closing, acked>>

\* Broadcast and commit handlers are done, the caller is answered.
Reply ==
    /\ commit.step = "reply"
    /\ acked' = acked \cup {commit.command}
    /\ commit' = Idle
    /\ UNCHANGED <<faults, wal, snapshot, up, store, state, closing>>

-----------------------------------------------------------------------------
(* shutdown: a last checkpoint, outside the commit chain, then the exit *)

\* The signal: the state is read here, as the argument of checkpoint.
Shutdown ==
    /\ "shutdown" \in faults
    /\ up
    /\ closing.step = "open"
    /\ closing' = [closing EXCEPT !.step = "captured", !.state = state]
    /\ UNCHANGED <<faults, wal, snapshot, up, store, state, commit, acked>>

\* checkpoint after its first await: sequence and hash are read here.
BuildSnapshot ==
    /\ closing.step = "captured"
    /\ closing' = [closing EXCEPT !.step = "built",
                     !.snapshot = [sequence |-> store.sequence,
                                   lastHash |-> store.lastHash,
                                   state |-> closing.state]]
    /\ UNCHANGED <<faults, wal, snapshot, up, store, state, commit, acked>>

RenameSnapshot ==
    /\ closing.step = "built"
    /\ snapshot' = closing.snapshot
    /\ closing' = [closing EXCEPT !.step = "done"]
    /\ UNCHANGED <<faults, wal, up, store, state, commit, acked>>

Exit ==
    /\ closing.step = "done"
    /\ LoseMemory
    /\ UNCHANGED <<faults, wal, snapshot, acked>>

-----------------------------------------------------------------------------

Next ==
    \/ Start \/ Crash \/ CrashInWrite
    \/ Begin \/ Write \/ Sync \/ SyncFails \/ Checkpoint \/ Reply
    \/ Shutdown \/ BuildSnapshot \/ RenameSnapshot \/ Exit

Spec == Init /\ [][Next]_vars

-----------------------------------------------------------------------------
(* Properties *)

\* What docs/DISTRIBUTED_V1.md says of recovery: the node can always be started
\* again from its files.  The code does not keep this after a commit whose
\* reducer threw.
Restartable == Recovered.ok

\* It can when nothing worse happens than that its process ends, at any await:
\* reducers take what was certified, and a write succeeds or does nothing.
RecoverySucceeds == faults \subseteq {"crash"} => Restartable

\* As long as every sync succeeds the snapshot never runs ahead of the log or
\* beside it, so recovery can anchor it, even when the shutdown handler wrote it
\* beside a commit and even when the log holds lines that break recovery.
SnapshotAnchored ==
    "syncFails" \notin faults /\ snapshot # None =>
        /\ snapshot.sequence <= Len(wal)
        /\ snapshot.lastHash = [i \in 1 .. snapshot.sequence |-> wal[i].command]

\* What comes back is what callers were told and readers have seen: every
\* acknowledged command, and the state in memory up to commands that have not
\* become visible yet.  The code does not keep this across a shutdown.
Faithful ==
    Recovered.ok =>
        /\ acked \subseteq ToSet(Recovered.state)
        /\ up => IsPrefix(state, Recovered.state)

\* Where no shutdown handler runs beside the commit chain it does: through
\* crashes, torn lines, failed syncs and commits whose reducer threw, a
\* recovery that succeeds gives back what it must.  That one succeeds is
\* Restartable, which failed syncs and reducers that throw may break.
RecoveryFaithful == "shutdown" \notin faults => Faithful

\* The node keeps the promise of CommandLog, with the log its files hold, when
\* nothing worse happens than that its process ends.
Durable(value, otherwise) == IF faults \subseteq {"crash"} THEN value ELSE otherwise

Log == INSTANCE CommandLog WITH log <- Durable(Recovered.state, <<>>),
                                acked <- Durable(acked, {})

ImplementsCommandLog == Log!Spec
=============================================================================
