----------------------------- MODULE Population -----------------------------
(* runPopulation (src/lab/population.ts) and its worker processes             *)
(* (src/lab/population-worker.ts): a pool takes the universes in order, each  *)
(* runs in a process of its own, and an abort reaches the processes as a      *)
(* message.  A killed command leaves its processes behind; the next one finds *)
(* them at work.                                                              *)
(*                                                                            *)
(* The evidence of a universe appears as module RunEvidence leaves it: how    *)
(* many ticks are recorded, whether it is published, whether it is sound (a   *)
(* replay takes it), and who holds its lease.  population.json is a function  *)
(* of the summaries of the universes, each of which is written once: two      *)
(* commands never differ in it.                                               *)
EXTENDS Naturals, Sequences, FiniteSets, SequencesExt

CONSTANTS
    Universes, Worker,  \* how many, and the loops of the pool, at most
    Commands,           \* how often the command is given
    Ticks,
    Scenarios           \* the size of the population and its pool, what may
                        \* go wrong and how often

Universe == 1 .. Universes
Child == (1 .. Commands) \X Universe

\* What becomes of a universe, and what a report says of it.
Outcome == {"pending", "none", "summary", "paused", "failed", "error"}

ASSUME PoolAssumption ==
    /\ Universes \in Nat /\ Commands \in Nat \ {0} /\ Ticks \in Nat
    /\ Worker \intersect Outcome = {}
    /\ \A s \in Scenarios :
          /\ s.universes \in Universe
          /\ s.pool \subseteq Worker /\ Cardinality(s.pool) \in 1 .. s.universes
          /\ s.kills \in Nat /\ s.errors \in Nat /\ s.aborts \in Nat
          /\ s.terminal \in BOOLEAN /\ s.rival \in BOOLEAN
          /\ s.open \in BOOLEAN        \* whether a tick may leave a task open

VARIABLES
    scenario,
    left,           \* how much of the scenario is to come
    parent,         \* the command at work
    worker,         \* worker -> "free", "stopped" or the universe it awaits
    outcome,        \* universe -> the last message of its process
    status,         \* universe -> what became of it: an entry of summaries,
                    \* failures or paused, or none of them
    child,          \* the processes of all commands
    evidence,       \* universe -> what is on the disk of it
    populations     \* whether population.json is there, and the commands
                    \* whose temporary file is

vars == <<scenario, left, parent, worker, outcome, status, child, evidence, populations>>

\* step: "pool", then what writePopulationSummary does next.
NewParent(n) == [run |-> n, next |-> 1, aborted |-> FALSE, step |-> "pool", result |-> "none"]

NoReport == [type |-> "none", universe |-> 0]

NoChild ==
    [at |-> "none",         \* forked, running, reporting, leaving, exited, reaped
     told |-> "nothing",    \* how far the command has come in sending `run`
     inbox |-> <<>>, outbox |-> NoReport, connected |-> FALSE,
     aborted |-> FALSE, result |-> "none", code |-> 0,
     blind |-> FALSE]       \* tasks are open whose oracles are gone

NoPopulation == [written |-> FALSE, temporary |-> {}]

NoEvidence == [ticks |-> 0, published |-> FALSE, sound |-> TRUE, lease |-> "free"]

NewPool == [w \in Worker |-> IF w \in scenario.pool THEN "free" ELSE "stopped"]

Running == parent.result = "none"
ChildOf(u) == <<parent.run, u>>

SetChild(c, r) == child' = [child EXCEPT ![c] = r]

-----------------------------------------------------------------------------
(* The pool. *)

\* The abort is looked at before each universe; what follows up to the fork
\* happens at once.
Claim(w) ==
    /\ Running /\ worker[w] = "free"
    /\ IF parent.aborted \/ parent.next > scenario.universes
       THEN worker' = [worker EXCEPT ![w] = "stopped"] /\ UNCHANGED <<parent, status, child>>
       ELSE /\ worker' = [worker EXCEPT ![w] = "waits"]
            /\ parent' = [parent EXCEPT !.next = @ + 1]
            /\ status' = [status EXCEPT ![parent.next] = w]
            /\ SetChild(ChildOf(parent.next), [NoChild EXCEPT !.at = "forked", !.connected = TRUE])
    /\ UNCHANGED <<scenario, left, outcome, evidence, populations>>

Awaited(u) == Running /\ status[u] \in Worker

\* The promise of a universe settles, and its worker goes on unless the
\* universe was paused.
Settled(u, result) ==
    /\ status' = [status EXCEPT ![u] = result]
    /\ worker' = [worker EXCEPT ![status[u]] = IF result = "paused" THEN "stopped" ELSE "free"]

SpawnFails(u) ==
    /\ Awaited(u) /\ left.errors > 0
    /\ child[ChildOf(u)].at = "forked" /\ child[ChildOf(u)].told = "nothing"
    /\ left' = [left EXCEPT !.errors = @ - 1]
    /\ SetChild(ChildOf(u), [NoChild EXCEPT !.at = "reaped"])
    /\ Settled(u, "failed")
    /\ UNCHANGED <<scenario, parent, outcome, evidence, populations>>

\* The spawn event: the options are sent.
Spawned(u) ==
    /\ Awaited(u) /\ child[ChildOf(u)].told = "nothing"
    /\ SetChild(ChildOf(u), [child[ChildOf(u)] EXCEPT !.told = "sending",
                                                      !.inbox = Append(@, "run")])
    /\ UNCHANGED <<scenario, left, parent, worker, outcome, status, evidence, populations>>

\* Fault: the callback of send leaves the abort to the listener.
SentUnchecked(u) ==
    /\ Awaited(u) /\ child[ChildOf(u)].told = "sending"
    /\ SetChild(ChildOf(u), [child[ChildOf(u)] EXCEPT !.told = "sent"])
    /\ UNCHANGED <<scenario, left, parent, worker, outcome, status, evidence, populations>>

\* The callback of send: an abort may have come before `run`, too early for the
\* process to take it.
Sent(u) ==
    LET c == child[ChildOf(u)]
    IN /\ Awaited(u) /\ c.told = "sending"
       /\ SetChild(ChildOf(u), [c EXCEPT !.told = "sent",
              !.inbox = IF parent.aborted /\ c.connected THEN Append(@, "cancel") ELSE @])
       /\ UNCHANGED <<scenario, left, parent, worker, outcome, status, evidence, populations>>

\* A process that was killed may not have taken `run`.
SendFails(u) ==
    /\ Awaited(u)
    /\ child[ChildOf(u)].told = "sending" /\ child[ChildOf(u)].at = "exited"
    /\ "run" \in ToSet(child[ChildOf(u)].inbox)
    /\ SetChild(ChildOf(u), [NoChild EXCEPT !.at = "reaped"])
    /\ Settled(u, "failed")
    /\ UNCHANGED <<scenario, left, parent, outcome, evidence, populations>>

\* What a report is taken for: one of another universe is a broken protocol.
Parsed(u, report) == IF report.universe = u THEN report.type ELSE "error"

\* Fault: the message settles the promise, and nobody waits for the exit.
MessageSettles(u) ==
    LET c == child[ChildOf(u)]
    IN /\ Awaited(u) /\ c.outbox # NoReport
       /\ outcome' = [outcome EXCEPT ![u] = Parsed(u, c.outbox)]
       /\ SetChild(ChildOf(u), [c EXCEPT !.outbox = NoReport])
       /\ Settled(u, IF c.outbox.type = "error" THEN "failed" ELSE c.outbox.type)
       /\ UNCHANGED <<scenario, left, parent, evidence, populations>>

Message(u) ==
    LET c == child[ChildOf(u)]
    IN /\ Awaited(u) /\ c.outbox # NoReport
       /\ outcome' = [outcome EXCEPT ![u] = Parsed(u, c.outbox)]
       /\ SetChild(ChildOf(u), [c EXCEPT !.outbox = NoReport])
       /\ UNCHANGED <<scenario, left, parent, worker, status, evidence, populations>>

Resolution(u) ==
    LET c == child[ChildOf(u)]
    IN CASE outcome[u] = "summary" /\ c.code = 0 -> "summary"
         [] outcome[u] = "paused" -> "paused"
         [] outcome[u] = "error" -> "failed"
         [] OTHER -> IF parent.aborted THEN "paused" ELSE "failed"

\* The exit event, behind the messages of the process.
Exit(u) ==
    LET c == child[ChildOf(u)]
    IN /\ Awaited(u) /\ c.told # "nothing" /\ c.at = "exited" /\ c.outbox = NoReport
       /\ SetChild(ChildOf(u), [NoChild EXCEPT !.at = "reaped"])
       /\ Settled(u, Resolution(u))
       /\ UNCHANGED <<scenario, left, parent, outcome, evidence, populations>>

\* Behind Promise.all: a pause comes before a failure.
Verdict ==
    LET some(result) == \E u \in Universe : status[u] = result
    IN CASE parent.aborted \/ some("paused") -> "paused"
         [] OTHER -> IF some("failed") THEN "failed" ELSE "published"

Conclude ==
    /\ Running /\ parent.step = "pool"
    /\ \A w \in Worker : worker[w] = "stopped"
    /\ parent' = IF Verdict = "published" THEN [parent EXCEPT !.step = "existing"]
                 ELSE [parent EXCEPT !.result = Verdict]
    /\ UNCHANGED <<scenario, left, worker, outcome, status, child, evidence, populations>>

-----------------------------------------------------------------------------
(* writePopulationSummary. *)

Writing(step) == Running /\ parent.step = step

\* An existing file is the same, or the command would be refused.
LookForExisting ==
    /\ Writing("existing")
    /\ parent' = IF populations.written THEN [parent EXCEPT !.result = "published"]
                 ELSE [parent EXCEPT !.step = "temporary"]
    /\ UNCHANGED <<scenario, left, worker, outcome, status, child, evidence, populations>>

WriteTemporary ==
    /\ Writing("temporary")
    /\ parent' = [parent EXCEPT !.step = "link"]
    /\ populations' = [populations EXCEPT !.temporary = @ \union {parent.run}]
    /\ UNCHANGED <<scenario, left, worker, outcome, status, child, evidence>>

\* A write, a sync or a link that fails takes the temporary file with it.
WriteFails ==
    /\ parent.step \in {"temporary", "link"} /\ Running /\ left.errors > 0
    /\ left' = [left EXCEPT !.errors = @ - 1]
    /\ parent' = [parent EXCEPT !.result = "failed"]
    /\ populations' = [populations EXCEPT !.temporary = @ \ {parent.run}]
    /\ UNCHANGED <<scenario, worker, outcome, status, child, evidence>>

\* Where another command was first, the link is refused, and its file read.
LinkPopulation ==
    /\ Writing("link")
    /\ parent' = [parent EXCEPT !.step = "unlink"]
    /\ populations' = [populations EXCEPT !.written = TRUE]
    /\ UNCHANGED <<scenario, left, worker, outcome, status, child, evidence>>

UnlinkTemporary ==
    /\ Writing("unlink")
    /\ parent' = [parent EXCEPT !.result = "published"]
    /\ populations' = [populations EXCEPT !.temporary = @ \ {parent.run}]
    /\ UNCHANGED <<scenario, left, worker, outcome, status, child, evidence>>

\* A signal to the command, which the terminal also gives to its processes:
\* they take it as they take a cancel, once they have run.
Abort ==
    /\ Running /\ ~parent.aborted /\ left.aborts > 0
    /\ left' = [left EXCEPT !.aborts = @ - 1]
    /\ parent' = [parent EXCEPT !.aborted = TRUE]
    /\ child' = [c \in Child |->
          IF c[1] = parent.run /\ Awaited(c[2])
          THEN [child[c] EXCEPT
                   !.inbox = IF child[c].connected THEN Append(@, "cancel") ELSE @,
                   !.aborted = @ \/ (scenario.terminal /\ child[c].at = "running")]
          ELSE child[c]]
    /\ UNCHANGED <<scenario, worker, outcome, status, evidence, populations>>

-----------------------------------------------------------------------------
(* A worker process. *)
\* A run that is taken up again does not find the oracles of its open tasks; an
\* event it records without one is refused by every replay, its own at the end
\* too.

\* Fault: a run that pauses keeps its lease.
FinishedHolding(c, r, result, e) ==
    /\ SetChild(c, [r EXCEPT !.at = "reporting", !.result = result])
    /\ evidence' = [evidence EXCEPT ![c[2]] =
          IF result = "paused" THEN e ELSE [e EXCEPT !.lease = "free"]]

\* Where runGenesis leaves its process: the lease is free again.
Finished(c, r, result, e) ==
    /\ SetChild(c, [r EXCEPT !.at = "reporting", !.result = result])
    /\ evidence' = [evidence EXCEPT ![c[2]] = [e EXCEPT !.lease = "free"]]

Hear(c) ==
    LET r == [child[c] EXCEPT !.inbox = Tail(@)]
        e == evidence[c[2]]
    IN /\ child[c].at \in {"forked", "running", "reporting"} /\ child[c].inbox # <<>>
       /\ \/ /\ Head(child[c].inbox) = "cancel"
             /\ SetChild(c, [r EXCEPT !.aborted = @ \/ r.at = "running"])
             /\ UNCHANGED evidence
          \/ /\ Head(child[c].inbox) # "cancel"
             /\ CASE e.lease # "free" ->
                       /\ SetChild(c, [r EXCEPT !.at = "reporting", !.result = "error"])
                       /\ UNCHANGED evidence
                  [] e.lease = "free" /\ ~e.sound -> Finished(c, r, "error", e)
                  [] e.lease = "free" /\ e.sound /\ e.published -> Finished(c, r, "summary", e)
                  [] OTHER ->
                       /\ SetChild(c, [r EXCEPT !.at = "running",
                                              !.blind = scenario.open /\ e.ticks > 0])
                       /\ evidence' = [evidence EXCEPT ![c[2]].lease = "held"]
       /\ UNCHANGED <<scenario, left, parent, worker, outcome, status, populations>>

\* Between two ticks the signal is looked at.
Advance(c) ==
    LET e == evidence[c[2]]
    IN /\ child[c].at = "running"
       /\ CASE child[c].aborted -> Finished(c, child[c], "paused", e)
            [] ~child[c].aborted /\ e.ticks = Ticks /\ e.sound ->
                 Finished(c, child[c], "summary", [e EXCEPT !.published = TRUE])
            [] ~child[c].aborted /\ e.ticks = Ticks /\ ~e.sound ->
                 Finished(c, child[c], "error", e)
            [] OTHER ->
                 /\ \E sound \in {e.sound, e.sound /\ ~child[c].blind} :
                       evidence' = [evidence EXCEPT ![c[2]].ticks = @ + 1,
                                                    ![c[2]].sound = sound]
                 /\ UNCHANGED child
       /\ UNCHANGED <<scenario, left, parent, worker, outcome, status, populations>>

\* Anything else that makes runGenesis throw, within a tick.
Throw(c) ==
    /\ child[c].at = "running" /\ left.errors > 0
    /\ left' = [left EXCEPT !.errors = @ - 1]
    /\ Finished(c, child[c], "error", [evidence[c[2]] EXCEPT !.sound = FALSE])
    /\ UNCHANGED <<scenario, parent, worker, outcome, status, populations>>

\* The report, and the end; with the command gone the send is refused.
Report(c) ==
    /\ child[c].at = "reporting"
    /\ SetChild(c, IF child[c].connected
                   THEN [child[c] EXCEPT !.at = "leaving", !.outbox = [type |-> child[c].result, universe |-> c[2]]]
                   ELSE [NoChild EXCEPT !.at = "exited", !.code = 1])
    /\ UNCHANGED <<scenario, left, parent, worker, outcome, status, evidence, populations>>

\* Fault: the process keeps its channel, which keeps it alive.
LeaveWithoutDisconnect(c) ==
    /\ child[c].at = "forked" /\ ~child[c].connected /\ child[c].inbox = <<>>
    /\ SetChild(c, [child[c] EXCEPT !.at = "exited", !.connected = FALSE])
    /\ UNCHANGED <<scenario, left, parent, worker, outcome, status, evidence, populations>>

\* disconnect, or nothing left to wait for.
Leave(c) ==
    /\ \/ child[c].at = "leaving"
       \/ child[c].at = "forked" /\ ~child[c].connected /\ child[c].inbox = <<>>
    /\ SetChild(c, [child[c] EXCEPT !.at = "exited", !.connected = FALSE])
    /\ UNCHANGED <<scenario, left, parent, worker, outcome, status, evidence, populations>>

-----------------------------------------------------------------------------
(* What may go wrong, and the operator. *)

\* Another command publishes the same population while this one is at it.
RivalPublishes ==
    /\ Running /\ parent.step # "pool" /\ scenario.rival /\ ~populations.written
    /\ populations' = [populations EXCEPT !.written = TRUE]
    /\ UNCHANGED <<scenario, left, parent, worker, outcome, status, child, evidence>>

\* A killed process leaves its lease, and its universe within a tick or not.
KillChild(c) ==
    /\ child[c].at \in {"forked", "running", "reporting", "leaving"} /\ left.kills > 0
    /\ left' = [left EXCEPT !.kills = @ - 1]
    /\ SetChild(c, [child[c] EXCEPT !.at = "exited", !.connected = FALSE, !.code = 9])
    /\ IF child[c].at = "running"
       THEN \E sound \in {FALSE, evidence[c[2]].sound} :
               evidence' = [evidence EXCEPT ![c[2]].lease = "stale", ![c[2]].sound = sound]
       ELSE UNCHANGED evidence
    /\ UNCHANGED <<scenario, parent, worker, outcome, status, populations>>

\* The processes of a killed command go on.
KillParent ==
    /\ Running /\ left.kills > 0
    /\ left' = [left EXCEPT !.kills = @ - 1]
    /\ parent' = [parent EXCEPT !.result = "killed"]
    /\ child' = [c \in Child |->
          IF child[c].at = "none" THEN child[c]
          ELSE [child[c] EXCEPT !.connected = FALSE, !.outbox = NoReport]]
    /\ UNCHANGED <<scenario, worker, outcome, status, evidence, populations>>

RemoveStaleLease(u) ==
    /\ evidence[u].lease = "stale"
    /\ evidence' = [evidence EXCEPT ![u].lease = "free"]
    /\ UNCHANGED <<scenario, left, parent, worker, outcome, status, child, populations>>

GiveAgain ==
    /\ ~Running /\ parent.run < Commands
    /\ parent' = NewParent(parent.run + 1)
    /\ worker' = NewPool
    /\ status' = [u \in Universe |-> "pending"]
    /\ outcome' = [u \in Universe |-> "none"]
    /\ UNCHANGED <<scenario, left, child, evidence, populations>>

-----------------------------------------------------------------------------
Init ==
    /\ scenario \in Scenarios
    /\ left = [kills |-> scenario.kills, errors |-> scenario.errors, aborts |-> scenario.aborts]
    /\ parent = NewParent(1)
    /\ worker = NewPool
    /\ status = [u \in Universe |-> "pending"]
    /\ outcome = [u \in Universe |-> "none"]
    /\ child = [c \in Child |-> NoChild]
    /\ evidence = [u \in Universe |-> NoEvidence]
    /\ populations = NoPopulation

\* What the event loops of the command and its processes do.
Work ==
    \/ \E w \in Worker : Claim(w)
    \/ \E u \in Universe : Spawned(u) \/ Sent(u) \/ Message(u) \/ Exit(u)
    \/ \E c \in Child : Hear(c) \/ Advance(c) \/ Report(c) \/ Leave(c)
    \/ Conclude \/ LookForExisting \/ WriteTemporary \/ LinkPopulation \/ UnlinkTemporary
    \/ GiveAgain

Fail ==
    \/ \E u \in Universe : SpawnFails(u) \/ SendFails(u)
    \/ \E c \in Child : Throw(c) \/ KillChild(c)
    \/ WriteFails \/ KillParent

Next == Work \/ Fail \/ Abort \/ RivalPublishes \/ \E u \in Universe : RemoveStaleLease(u)

Spec == Init /\ [][Next]_vars

\* An event that has happened is handled, a process that can go on does, and a
\* command that has ended is given again.
FairSpec == Spec /\ WF_vars(Work)

-----------------------------------------------------------------------------
(* Properties. *)

Cancelled(c) ==
    \/ c.aborted
    \/ \E i \in 1 .. Len(c.inbox) :
          c.inbox[i] = "cancel"
          /\ (c.at = "forked" => \E j \in 1 .. i - 1 : c.inbox[j] = "run")

\* An abort at whatever moment of a start reaches the process: the cancel that
\* comes before `run` is lost, and then another one follows it
\* (src/lab/population.ts:208 and :240).
AbortReachesChildren ==
    Running /\ parent.aborted =>
        \A u \in Universe :
            LET c == child[ChildOf(u)]
            IN Awaited(u) /\ c.told = "sent" /\ c.at \in {"forked", "running"} => Cancelled(c)

\* When the command returns, whatever it returns, none of its processes is at
\* work, and no temporary file of it is left; population.json is written of
\* universes that are all published.  Where nothing was killed and nothing else
\* threw, every lease is free, and the command fails only for a universe that its
\* replay refuses: one with tasks open that was taken up again, whose oracles the
\* run does not make anew (src/lab/population.ts:156; src/lab/world.ts:251,
\* docs/UNIVERSE_LAB.md:249-251).
SettledIsQuiet ==
    ~Running /\ parent.result # "killed" =>
        /\ \A u \in Universe : child[ChildOf(u)].at \in {"none", "reaped"}
        /\ parent.run \notin populations.temporary
        /\ parent.result = "published" => populations.written
        /\ populations.written => \A u \in 1 .. scenario.universes : evidence[u].published
        /\ scenario.kills = 0 /\ scenario.errors = 0 =>
              /\ parent.result = "failed" => \E u \in Universe : ~evidence[u].sound
              /\ \A u \in Universe :
                    /\ evidence[u].lease = "free"
                    /\ ~evidence[u].sound => scenario.open /\ parent.run > 1

\* Every command comes to an end, however its processes do.
PopulationSettles == []<>(~Running)

\* Given again after each abort, the command publishes the population, or a
\* universe is lost to its replay, which SettledIsQuiet excuses only where tasks
\* were open when the universe was taken up again.
EventuallyPublished ==
    scenario.kills = 0 /\ scenario.errors = 0 =>
        <>(populations.written \/ \E u \in Universe : ~evidence[u].sound)
=============================================================================
