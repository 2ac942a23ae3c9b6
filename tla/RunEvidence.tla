----------------------------- MODULE RunEvidence -----------------------------
(* The evidence of one deterministic run on the disk, and the processes that  *)
(* write it: runs of runGenesis (src/lab/genesis.ts), one after the other or  *)
(* at the same time, and of attestRunEvidence, which takes no lease.  Any     *)
(* process may be killed between two of its steps, and the machine may lose   *)
(* power.  The store is src/lab/artifacts.ts, the log                         *)
(* src/lab/event-recorder.ts.                                                 *)
(*                                                                            *)
(* All processes have the same manifest, so the same run id and directory.    *)
(* The engine appears as the kinds of the events it appends.  An event        *)
(* carries the one thing that may differ between two runs, an answer of the   *)
(* model consulted, and names the history before it, which stands for its     *)
(* hash.  Summary, attestation and checkpoint are functions of that history.  *)
(*                                                                            *)
(* Whoever replays a log has the protocol verifier take each event.  Why it   *)
(* would not is the matter of LogicalUniverse; here such an event is          *)
(* Unexpected, and one is recorded where LogicalUniverse finds one: by a run  *)
(* that was resumed with a task open, whose oracles are gone, and after an    *)
(* answer of a model that the verifier has no rule for.                       *)
EXTENDS Naturals, Sequences, SequencesExt, FiniteSets, FiniteSetsExt

CONSTANTS
    Runner, Attester,   \* processes: `anu lab run`, `anu lab attest`
    Answer,
    Unexpected,         \* what an event says that the verifier does not take
    Ticks, MetricEvery, CheckpointEvery,
    Scenarios           \* the policy, and how often what may go wrong

Process == Runner \union Attester

ASSUME EvidenceAssumption ==
    /\ {"free", "stale"} \cap Process = {}
    /\ Answer \subseteq Nat /\ Answer # {} /\ Unexpected \notin Answer
    /\ Ticks \in Nat
    /\ MetricEvery \in Nat \ {0} /\ CheckpointEvery \in Nat \ {0}
    /\ Scenarios \subseteq
          [policy : {"neutral", "cohort"}, who : SUBSET Process,
           open : BOOLEAN,      \* whether a tick may leave a task open
           kills : Nat, losses : Nat, signals : Nat,
           addressed : BOOLEAN, others : BOOLEAN]

VARIABLES
    scenario,
    proc,       \* process -> where it is in its code, and its variables
    disk,       \* the directory of the run
    left        \* how many kills, losses of power and signals are to come

vars == <<scenario, proc, disk, left>>

-----------------------------------------------------------------------------
(* The events of a run, by kind. *)

Kind(type, tick) == [type |-> type, tick |-> tick]

TickEvents(t) ==
    <<Kind("task.evaluated", t)>>
    \o (IF t % MetricEvery = 0 \/ t = Ticks THEN <<Kind("metrics.recorded", t)>> ELSE <<>>)
    \o <<Kind("tick.completed", t)>>

\* The events up to the end of each tick.
Upto[t \in 0 .. Ticks] ==
    IF t = 0 THEN <<Kind("run.started", 0), Kind("agent.created", 0)>>
    ELSE Upto[t - 1] \o TickEvents(t)

Layout == Append(Upto[Ticks], Kind("run.completed", Ticks))

Length == Len(Layout)

History(chain) == [i \in 1 .. Len(chain) |-> chain[i].answer]

\* verifyNextEvent, of every event in turn.
Chained(chain) ==
    \A i \in 1 .. Len(chain) : chain[i].previous = History(SubSeq(chain, 1, i - 1))

Content == Answer \union {Unexpected}

\* verifyNext, of every event in turn.
Accepted(history) == \A i \in DOMAIN history : history[i] \in Answer

Complete(history) == Len(history) = Length

\* finish, of a log whose every event was taken.
Verified(history) == Complete(history) /\ Accepted(history)

\* finish with allowIncompleteBoundary: genesis is whole and no tick is open.
AtBoundary(history) ==
    LET n == Len(history)
    IN n > 0 /\ Layout[n].type \in {"agent.created", "tick.completed"}

TickOf(history) == Layout[Len(history)].tick

\* The rows the replay finds in the events, each with the state it was taken of.
RowsOf(history) ==
    LET rows[n \in 0 .. Len(history)] ==
            IF n = 0 THEN <<>>
            ELSE IF Layout[n].type = "metrics.recorded"
            THEN Append(rows[n - 1], [tick |-> Layout[n].tick, of |-> SubSeq(history, 1, n)])
            ELSE rows[n - 1]
    IN rows[Len(history)]

-----------------------------------------------------------------------------
(* The directory. *)

Named(kind, tick) == [kind |-> kind, tick |-> tick]

Manifest == Named("manifest", 0)
Config == Named("config", 0)
Summary == Named("summary", 0)
Attestation == Named("attestation", 0)
Checkpoint(t) == Named("checkpoint", t)

Artifact == {Manifest, Config, Summary, Attestation} \union {Checkpoint(t) : t \in 0 .. Ticks}

Missing == <<>>
Identity == <<>>    \* what manifest and config say is the same in every process

EmptyDisk ==
    [lock |-> "free",       \* .runner.lock: free, stale, or whose it is
     file |-> [name \in Artifact |-> Missing],
     stray |-> FALSE,       \* a temporary file is left among the checkpoints
     log |-> <<>>,          \* the whole lines of events.jsonl
     torn |-> FALSE,        \* and whether a piece of a line follows them
     synced |-> 0,          \* how many of them a loss of power leaves
     rows |-> <<>>, tornRow |-> FALSE]      \* metrics.jsonl

\* replayFile and scanEventFile of what is on the disk.
Readable == ~disk.torn /\ Chained(disk.log)
Replayed == History(disk.log)

\* readCanonicalJsonl: every row is whole.
RowsReadable == ~disk.tornRow

\* readMetrics, compared with what the replay found.
MetricsMatch(history) == RowsReadable /\ disk.rows = RowsOf(history)

StoredSummary == disk.file[Summary]
StoredAttestation == disk.file[Attestation]

SummaryOf(history) ==
    [events |-> Len(history), eventHash |-> history, latest |-> Last(RowsOf(history))]

\* The commitment is a hash of both.
AttestationOf(summary) == [summary |-> summary, metrics |-> RowsOf(summary.eventHash)]

\* readCheckpoints: any name that is not a tick is an error.
LastCheckpoint == Max({t \in 0 .. Ticks : disk.file[Checkpoint(t)] # Missing})
CheckpointMatches(history) ==
    /\ ~disk.stray
    /\ \E t \in 0 .. Ticks : disk.file[Checkpoint(t)] # Missing
    /\ LastCheckpoint = TickOf(history)
    /\ disk.file[Checkpoint(LastCheckpoint)] = <<history>>

-----------------------------------------------------------------------------
(* Processes. *)

NoTick == Ticks + 1
NoJob == [name |-> Manifest, content |-> Identity, next |-> "none"]

Idle ==
    [at |-> "idle", head |-> <<>>,      \* the recorder's own end of the chain
     metric |-> 0,                      \* #lastMetricTick
     saved |-> NoTick,                  \* #lastCheckpointTick
     job |-> NoJob, end |-> "none",
     blind |-> FALSE,                   \* tasks are open whose oracles are gone
     seen |-> <<0, 0>>]                 \* sizes when the snapshot was opened

\* A process that was paused, killed or found the lease taken has left nothing
\* behind but what is on the disk.
Over == {"idle", "completed", "failed", "refused", "attested"}

Live(p) == proc[p].at \notin Over
At(p, place) == proc[p].at = place

To(r, place) == [r EXCEPT !.at = place]
Becomes(p, r) == proc' = [proc EXCEPT ![p] = r]

\* The catch clause of runGenesis; the attester has none.
Failed(p, r) ==
    IF p \in Runner THEN [r EXCEPT !.at = "abandon", !.end = "failed", !.job = NoJob]
    ELSE Idle

Publishing(r, name, content, next) ==
    [r EXCEPT !.at = "existing", !.job = [name |-> name, content |-> content, next |-> next]]

\* What follows a publication; the attestation follows the summary.
Published(r) ==
    CASE r.job.next = "config" -> Publishing(r, Config, Identity, "open")
      [] r.job.next = "attestation" -> Publishing(r, Attestation, AttestationOf(r.job.content), "settle")
      [] r.job.next = "attested" -> [Idle EXCEPT !.at = "attested", !.head = r.head]
      [] OTHER -> [r EXCEPT !.at = r.job.next, !.job = NoJob]

\* Fault: the attestation is left to a later start.
WriteSummaryAlone(r, history) ==
    Publishing([r EXCEPT !.end = "completed"], Summary, SummaryOf(history), "settle")

WriteSummary(r, history) ==
    Publishing([r EXCEPT !.end = "completed"], Summary, SummaryOf(history), "attestation")

\* Fault: a checkpoint the process has written is not remembered.
EmitCheckpointAgain(r, t, next) == Publishing(r, Checkpoint(t), r.head, next)

EmitCheckpoint(r, t, next) ==
    IF r.saved = t THEN To(r, next)
    ELSE Publishing([r EXCEPT !.saved = t], Checkpoint(t), r.head, next)

-----------------------------------------------------------------------------
(* runGenesis: the lease, the store, and what is already there. *)

Start(p) ==
    /\ ~Live(p) /\ p \in scenario.who
    /\ Becomes(p, To(Idle, IF p \in Runner THEN "lease" ELSE "discovery"))
    /\ UNCHANGED disk

AcquireWriterLease(p) ==
    /\ At(p, "lease")
    /\ IF disk.lock = "free"
       THEN /\ disk' = [disk EXCEPT !.lock = p]
            /\ Becomes(p, Publishing(proc[p], Manifest, Identity, "config"))
       ELSE Becomes(p, Idle) /\ UNCHANGED disk

\* initialize, behind manifest and config: the rows must be whole, the events
\* one chain.  Without a recorder there is nothing to flush.
OpenLog(p) ==
    /\ At(p, "open")
    /\ UNCHANGED disk
    /\ Becomes(p,
        IF Readable /\ RowsReadable
        THEN [proc[p] EXCEPT !.at = "recover", !.head = Replayed,
                             !.metric = IF disk.rows = <<>> THEN 0 ELSE Last(disk.rows).tick]
        ELSE [proc[p] EXCEPT !.at = "release", !.end = "refused"])

Resumable(history) ==
    /\ ~Complete(history) /\ AtBoundary(history) /\ Accepted(history)
    /\ StoredSummary = Missing /\ StoredAttestation = Missing
    /\ CheckpointMatches(history)
    /\ MetricsMatch(history)
    /\ scenario.policy = "neutral"      \* the universe can restore no other

Publishable(history) ==
    /\ Verified(history)
    /\ MetricsMatch(history)
    /\ StoredSummary \in {Missing, <<SummaryOf(history)>>}

RecoverExistingRun(p) ==
    /\ At(p, "recover")
    /\ UNCHANGED disk
    /\ LET r == proc[p]
       IN Becomes(p,
            CASE r.head = <<>> /\ StoredSummary = Missing -> To(r, "append")
              [] r.head # <<>> /\ Publishable(Replayed) -> WriteSummary(r, Replayed)
              [] r.head # <<>> /\ Resumable(Replayed) ->
                     [r EXCEPT !.at = "append", !.saved = LastCheckpoint,
                               !.blind = scenario.open /\ LastCheckpoint > 0]
              [] OTHER -> Failed(p, r))

-----------------------------------------------------------------------------
(* The engine. *)

\* What an event may say.  A task is evaluated by its oracle; without one the
\* violation is recorded that the verifier does not expect.
Recordable(r, type) ==
    (IF scenario.policy = "neutral" THEN {Min(Answer)} ELSE Answer)
    \union {a \in {Unexpected} : type = "task.evaluated" /\ (r.blind \/ scenario.policy = "cohort")}

AppendEvent(p) ==
    /\ At(p, "append")
    /\ ~Complete(proc[p].head)
    /\ \E a \in Recordable(proc[p], Layout[Len(proc[p].head) + 1].type) :
        LET r == [proc[p] EXCEPT !.head = Append(@, a)]
            event == Layout[Len(r.head)]
        IN /\ disk' = [disk EXCEPT !.log = Append(@, [previous |-> proc[p].head, answer |-> a])]
           /\ Becomes(p,
                CASE event.type = "metrics.recorded" -> To(r, "metrics")
                  [] event.type = "tick.completed" /\ event.tick # Ticks
                        /\ event.tick % CheckpointEvery = 0 ->
                        EmitCheckpoint(r, event.tick, "append")
                  [] event.type = "run.completed" -> EmitCheckpoint(r, Ticks, "flush")
                  [] OTHER -> r)

\* appendCanonicalLine; the row is synced at once.
AppendRow(row) == [disk EXCEPT !.rows = Append(@, row)]

AppendMetrics(p) ==
    /\ At(p, "metrics")
    /\ LET r == proc[p]
           tick == TickOf(r.head)
       IN IF tick <= r.metric THEN Becomes(p, Failed(p, r)) /\ UNCHANGED disk
          ELSE /\ disk' = AppendRow([tick |-> tick, of |-> r.head])
               /\ Becomes(p, [r EXCEPT !.at = "append", !.metric = tick])

\* A signal is noticed between two ticks, and before the first.
PauseAtBoundary(p) ==
    /\ At(p, "append") /\ left.signals > 0
    /\ AtBoundary(proc[p].head)
    /\ left' = [left EXCEPT !.signals = @ - 1]
    /\ Becomes(p, EmitCheckpoint([proc[p] EXCEPT !.end = "paused"], TickOf(proc[p].head), "flush"))
    /\ UNCHANGED disk

-----------------------------------------------------------------------------
(* #writeImmutable and atomicCanonicalWrite. *)

LookForExisting(p) ==
    /\ At(p, "existing")
    /\ UNCHANGED disk
    /\ LET r == proc[p]
           found == disk.file[r.job.name]
       IN Becomes(p, CASE found = Missing -> To(r, "temporary")
                       [] found = <<r.job.content>> -> Published(r)
                       [] OTHER -> Failed(p, r))

WriteTemporary(p) ==
    /\ At(p, "temporary")
    /\ Becomes(p, To(proc[p], "link"))
    /\ UNCHANGED disk

\* link does not replace a name: what another process put there must be equal.
Link(p) ==
    /\ At(p, "link")
    /\ LET r == proc[p]
           found == disk.file[r.job.name]
       IN CASE found = Missing ->
                 /\ disk' = [disk EXCEPT !.file[r.job.name] = <<r.job.content>>]
                 /\ Becomes(p, To(r, "unlink"))
            [] found = <<r.job.content>> -> Becomes(p, To(r, "unlink")) /\ UNCHANGED disk
            [] OTHER -> Becomes(p, Failed(p, r)) /\ UNCHANGED disk

UnlinkTemporary(p) ==
    /\ At(p, "unlink")
    /\ Becomes(p, Published(proc[p]))
    /\ UNCHANGED disk

-----------------------------------------------------------------------------
(* runGenesis: the end of a run. *)

\* Fault: flush awaits the queues and leaves the file to the kernel.
FlushQueues == disk

Flushed == [disk EXCEPT !.synced = Len(disk.log)]

Flush(p) ==
    /\ At(p, "flush")
    /\ disk' = Flushed
    /\ Becomes(p, To(proc[p], IF proc[p].end = "paused" THEN "release" ELSE "verify"))

Verify(p) ==
    /\ At(p, "verify")
    /\ UNCHANGED disk
    /\ LET r == proc[p]
       IN Becomes(p,
            IF Readable /\ Verified(Replayed) /\ r.head = Replayed /\ MetricsMatch(Replayed)
            THEN WriteSummary(r, Replayed)
            ELSE Failed(p, r))

\* The flush behind the attestation, or of the catch clause.
Settle(p) ==
    /\ proc[p].at \in {"settle", "abandon"}
    /\ disk' = Flushed
    /\ Becomes(p, To(proc[p], "release"))

\* Fault: a run that pauses keeps its lease.
ReleaseUnlessPaused(p) ==
    /\ At(p, "release")
    /\ disk' = IF proc[p].end = "paused" THEN disk ELSE [disk EXCEPT !.lock = "free"]
    /\ Becomes(p, CASE proc[p].end = "paused" -> Idle
                    [] proc[p].end = "completed" -> [Idle EXCEPT !.at = "completed", !.head = proc[p].head]
                    [] OTHER -> To(Idle, proc[p].end))

Release(p) ==
    /\ At(p, "release")
    /\ disk' = [disk EXCEPT !.lock = "free"]
    /\ Becomes(p, CASE proc[p].end = "paused" -> Idle
                    [] proc[p].end = "completed" -> [Idle EXCEPT !.at = "completed", !.head = proc[p].head]
                    [] OTHER -> To(Idle, proc[p].end))

-----------------------------------------------------------------------------
(* attestRunEvidence. *)

\* openExisting: the run that is named, or the only one there is.
Found == disk.file[Manifest] # Missing

OpenExisting(p) ==
    /\ At(p, "discovery")
    /\ Becomes(p, IF Found /\ (scenario.addressed \/ ~scenario.others)
                  THEN To(proc[p], "snapshot") ELSE Idle)
    /\ UNCHANGED disk

Sizes == <<Len(disk.log), Len(disk.rows)>>

\* Every file is opened before the first is read; the summary is written last.
OpenSnapshot(p) ==
    /\ At(p, "snapshot")
    /\ Becomes(p, IF StoredSummary = Missing THEN Idle
                  ELSE [proc[p] EXCEPT !.at = "replay", !.seen = Sizes])
    /\ UNCHANGED disk

ReplaySnapshot(p) ==
    /\ At(p, "replay")
    /\ Becomes(p, IF Readable /\ Verified(Replayed)
                  THEN [proc[p] EXCEPT !.at = "compare", !.head = Replayed]
                  ELSE Idle)
    /\ UNCHANGED disk

CompareSnapshot(p) ==
    /\ At(p, "compare")
    /\ Becomes(p, IF MetricsMatch(proc[p].head) /\ StoredSummary = <<SummaryOf(proc[p].head)>>
                  THEN To(proc[p], "stable") ELSE Idle)
    /\ UNCHANGED disk

\* What it is then asked for: an attestation, or whether the one there is true.
AssertStable(p) ==
    /\ At(p, "stable")
    /\ \E next \in {"attest", "check"} :
        Becomes(p, IF proc[p].seen = Sizes THEN To(proc[p], next) ELSE Idle)
    /\ UNCHANGED disk

Attested(p) == [Idle EXCEPT !.at = "attested", !.head = proc[p].head]

AttestRunEvidence(p) ==
    /\ At(p, "attest")
    /\ UNCHANGED disk
    /\ LET attestation == AttestationOf(SummaryOf(proc[p].head))
       IN Becomes(p,
            CASE StoredAttestation = Missing ->
                     Publishing(proc[p], Attestation, attestation, "attested")
              [] StoredAttestation = <<attestation>> -> Attested(p)
              [] OTHER -> Idle)

VerifyAttestation(p) ==
    /\ At(p, "check")
    /\ UNCHANGED disk
    /\ Becomes(p, IF StoredAttestation = <<AttestationOf(SummaryOf(proc[p].head))>>
                  THEN Attested(p) ELSE Idle)

-----------------------------------------------------------------------------
(* What may go wrong. *)

Publishes(p) == proc[p].at \in {"temporary", "link", "unlink"} /\ proc[p].job.name.kind = "checkpoint"

\* What the processes that end leave of what they were writing: nothing or a
\* piece, but a temporary file stays until it is unlinked.
Ended(p, r) == IF Live(p) THEN Idle ELSE r

Struck(ended, cut, d) ==
    [d EXCEPT
        !.lock = IF @ \in ended THEN "stale" ELSE @,
        !.stray = @ \/ \E p \in ended : Publishes(p) /\ (cut \/ At(p, "link")),
        !.torn = @ \/ (cut /\ \E p \in ended : At(p, "append") /\ ~Complete(proc[p].head)),
        !.tornRow = @ \/ (cut /\ \E p \in ended : At(p, "metrics"))]

Kill(p) ==
    /\ Live(p) /\ left.kills > 0
    /\ left' = [left EXCEPT !.kills = @ - 1]
    /\ Becomes(p, Idle)
    /\ \E cut \in BOOLEAN : disk' = Struck({p}, cut, disk)
    /\ UNCHANGED scenario

\* Everybody ends, and of the events what was not synced may be lost.
LosePower ==
    /\ left.losses > 0
    /\ left' = [left EXCEPT !.losses = @ - 1]
    /\ proc' = [p \in Process |-> Ended(p, proc[p])]
    /\ \E cut \in BOOLEAN, n \in disk.synced .. Len(disk.log) :
        LET kept == [disk EXCEPT !.log = SubSeq(@, 1, n), !.synced = n,
                                 !.torn = @ \/ (cut /\ n < Len(disk.log))]
        IN disk' = Struck({p \in Process : Live(p)}, cut, kept)
    /\ UNCHANGED scenario

\* An operator removes the lock of a process that is gone.
RemoveStaleLock ==
    /\ disk.lock = "stale"
    /\ disk' = [disk EXCEPT !.lock = "free"]
    /\ UNCHANGED <<scenario, proc, left>>

-----------------------------------------------------------------------------
Init ==
    /\ scenario \in Scenarios
    /\ proc = [p \in Process |-> Idle]
    /\ disk = EmptyDisk
    /\ left = [kills |-> scenario.kills, losses |-> scenario.losses, signals |-> scenario.signals]

Work(p) ==
    /\ \/ Start(p) \/ AcquireWriterLease(p) \/ OpenLog(p) \/ RecoverExistingRun(p)
       \/ AppendEvent(p) \/ AppendMetrics(p)
       \/ LookForExisting(p) \/ WriteTemporary(p) \/ Link(p) \/ UnlinkTemporary(p)
       \/ Flush(p) \/ Verify(p) \/ Settle(p) \/ Release(p)
       \/ OpenExisting(p) \/ OpenSnapshot(p) \/ ReplaySnapshot(p) \/ CompareSnapshot(p)
       \/ AssertStable(p) \/ AttestRunEvidence(p) \/ VerifyAttestation(p)
    /\ UNCHANGED <<scenario, left>>

Pause(p) == PauseAtBoundary(p) /\ UNCHANGED scenario

Next ==
    \/ \E p \in Process : Work(p) \/ Pause(p) \/ Kill(p)
    \/ LosePower \/ RemoveStaleLock

Spec == Init /\ [][Next]_vars

\* Processes go on, and a run that has ended is started again.
FairSpec == Spec /\ \A p \in Runner : WF_vars(Work(p))

-----------------------------------------------------------------------------
(* Properties. *)

\* A run that was killed at its end is completed by the next one, which writes
\* the summary before anything is synced: it may lose events to a loss of power
\* then.  Of such scenarios nothing is said.
OneKindOfHarm == scenario.kills = 0 \/ scenario.losses = 0

\* However runs, kills or losses of power, and attesters follow one another, the
\* events are one chain that only grows once it is synced; a summary is
\* published of the whole chain only and of none with an event the verifier does
\* not take, an attestation of that summary only, each once, and no later loss of
\* power takes an event from under them
\* (src/lab/genesis.ts:116).
EvidenceRecorded ==
    INSTANCE EvidenceRecord WITH
        Answer <- Content, Expected <- Answer,
        events <- IF OneKindOfHarm THEN disk.log ELSE <<>>,
        summary <- IF OneKindOfHarm /\ StoredSummary # Missing
                   THEN <<StoredSummary[1].eventHash>> ELSE <<>>,
        attestation <- IF OneKindOfHarm /\ StoredAttestation # Missing
                       THEN <<StoredAttestation[1].summary.eventHash>> ELSE <<>>

ImplementsEvidenceRecord == EvidenceRecorded!Spec

\* Whoever is told that the run is complete, or attested, finds its summary
\* and its attestation, and they are of the history it was told: whether it
\* ran it, found it complete or completed what another one left.  Whoever is told
\* that the run is complete finds all its events, and no loss of power takes them,
\* whatever was killed before; none of them is one the verifier does not take
\* (src/lab/genesis.ts:106 and :192, src/lab/evidence-attestation.ts:88).
ReturnedIsPublished ==
    \A p \in Process :
        /\ proc[p].at \in {"completed", "attested"} =>
              /\ StoredSummary = <<SummaryOf(proc[p].head)>>
              /\ StoredAttestation = <<AttestationOf(StoredSummary[1])>>
              /\ Accepted(proc[p].head)
        /\ proc[p].at = "completed" =>
              /\ proc[p].head = Replayed /\ Complete(proc[p].head)
              /\ disk.synced = Len(disk.log)

\* Only a neutral run can go on after a pause.
Unharmed ==
    /\ scenario.kills = 0 /\ scenario.losses = 0
    /\ scenario.policy = "neutral" \/ scenario.signals = 0

\* The oracles of tasks that were open at a pause are not made again
\* (src/lab/world.ts:251), and of some answers of a model the verifier knows no rule.
Excused ==
    \/ scenario.policy = "cohort"
    \/ scenario.open /\ left.signals < scenario.signals

\* Where no process was killed and no power lost, no run is refused for what its
\* directory holds, with others trying at the same time, and one is given up only
\* for an event the verifier does not take.  Such an event is in a run with
\* answers of a model, or in one that was paused where tasks may be open; a run
\* whose ticks leave none open goes on after each pause (src/lab/genesis.ts:162;
\* docs/UNIVERSE_LAB.md:249-251 and src/lab/runner.ts:338 state the exception).
RefusedOnlyAfterHarm ==
    Unharmed =>
        /\ \A p \in Runner :
              /\ proc[p].at # "refused"
              /\ proc[p].at \in {"failed", "abandon"} => ~Accepted(Replayed)
        /\ ~Accepted(Replayed) => Excused

\* Started again after each pause, a run comes to its attestation, or to an
\* event the verifier does not take, which RefusedOnlyAfterHarm excuses only
\* where tasks were open at a pause or a model answered.
EventuallyAttested ==
    Unharmed => <>(StoredAttestation # Missing \/ ~Accepted(Replayed))
=============================================================================
