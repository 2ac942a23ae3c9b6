-------------------------- MODULE LogicalUniverse ---------------------------
(***************************************************************************)
(* A run of the universe lab: the engine of src/lab/world.ts, which draws  *)
(* the events of one tick after another and appends each to the log, and   *)
(* the life of the run around it in src/lab/genesis.ts: pausing at a tick  *)
(* boundary, dying anywhere, and being started again over what was left.   *)
(*                                                                         *)
(* The log itself is not kept.  `world` and `verifier` are what its replay *)
(* makes of it, one event at a time; the live world of the engine is the   *)
(* same function of the same events.  The log, `saved` (the checkpoint)    *)
(* and `rows` (the metrics file) survive a crash, the rest does not.       *)
(*                                                                         *)
(* A policy is the neutral one, the one that follows a model, or `custom`: *)
(* given in code to src/lab/world.ts, free to choose any action and to     *)
(* throw, and unknown to the verifier.  The control arms of                *)
(* src/lab/baselines.ts, a failed append, and the artifacts of a completed *)
(* run (summary, attestation) are left out; a torn append is a log that no *)
(* start accepts any more.                                                 *)
(***************************************************************************)
EXTENDS ProtocolVerifier

CONSTANTS
    Scenarios,        \* the configurations: [policy, pressures, answers],
                      \* answers the actions each agent may be given
    AgentsPerTick,    \* LlmCognition's agentsPerTick
    CheckpointEvery,  \* config.checkpointEvery
    Restarts          \* bound: how often the command is given again

AnyAction ==
    [type : ActionType, ref : Int, result : STRING, verdict : BOOLEAN, amount : Int]

\* What the validation of a model's answer, or the type of a policy's, lets by.
Permitted(action) ==
    /\ action.type = "publishCapability" => action.ref \in Capability
    /\ action.type = "transfer" => action.result \in Kind

ASSUME UniverseAssumption ==
    /\ AgentsPerTick \in Nat \ {0} /\ CheckpointEvery \in Nat \ {0}
    /\ Restarts \in Nat
    /\ \A s \in Scenarios :
        /\ s.policy \in {"neutral", "cohort", "custom"}
        /\ DOMAIN s.answers = Agent
        /\ \A a \in Agent : \A answer \in s.answers[a] :
            answer \in Seq(AnyAction) /\ \A i \in DOMAIN answer : Permitted(answer[i])
        /\ s.pressures \in Seq([type : PressureType, tick : Nat, value : Nat])
        /\ \A type \in PressureType :
            Cardinality({i \in DOMAIN s.pressures : s.pressures[i].type = type}) = 1

VARIABLES
    scenario,   \* the configuration and the policy of the run
    \* The log, by its replay, and the files beside it.
    world,
    verifier,
    prev,       \* the id of the last event
    saved,      \* the latest checkpoint: [tick, sequence, atEnd]
    rows,       \* lines of the metrics file
    \* The memory of the engine.
    stage,      \* where the run is in its course
    nextTick,
    sequence,   \* of the task stream
    oracles,    \* the tasks the evaluator has an oracle for
    records,    \* the answers the policy has loaded
    agenda,     \* events determined and not yet committed
    decisions,  \* ordered, and not yet resolved
    current,    \* the decision whose payment is the last event
    pending,    \* submissions to evaluate
    \* What the seeded streams yield in this tick.
    draw,
    restarts

log == <<world, verifier, prev>>
memory == <<nextTick, sequence, oracles, records, agenda, decisions, current, pending>>
universeVars == <<scenario, log, saved, rows, stage, memory, draw, restarts>>

NoDecision == [actor |-> Nobody, index |-> 0, action |-> Plain("observe", 0)]
NoCheckpoint == [tick |-> 0, sequence |-> 0, atEnd |-> FALSE]

\* Where no process works on the run.
Over == {"paused", "down", "done", "failed", "conflict"}

-----------------------------------------------------------------------------
(* Committing. *)

\* The reducer prepares the event, the recorder appends it, the mutation is
\* published.  An event the reducer refuses is never written.
Commit(e) ==
    /\ Legal(world, e, prev)
    /\ world' = Applied(world, e)
    /\ prev' = EventId(e)
    /\ verifier' = IF scenario.policy = "custom" THEN verifier
                   ELSE VerifyNext(scenario, verifier, e, world, draw)
    /\ saved' = [saved EXCEPT !.atEnd = FALSE]

\* The next event of a loop over events determined beforehand.
CommitNext(phase) ==
    /\ stage = phase /\ agenda # <<>>
    /\ Commit(Head(agenda))
    /\ agenda' = Tail(agenda)

Idle == stage = "boundary" /\ agenda = <<>>
Finished(phase) == stage = phase /\ agenda = <<>>

-----------------------------------------------------------------------------
(* Genesis. *)

GenesisEvents ==
    <<SystemEvent("run.started", 0, 0, [treasury |-> TreasuryResources])>>
    \o [a \in Agent |-> Event("agent.created", 0, a, Nobody, 0, NoCause,
                              [resources |-> InitialResources])]

Genesis ==
    /\ CommitNext("boundary")
    /\ UNCHANGED <<scenario, rows, stage, nextTick, sequence, oracles, records,
                   decisions, current, pending, draw, restarts>>

-----------------------------------------------------------------------------
(* The phases of a tick up to its decisions. *)

\* Pressures are computed before the first event of the tick.
BeginTick ==
    /\ Idle /\ nextTick <= Ticks
    /\ \E gone \in Retirements(world, scenario.pressures, nextTick) :
        /\ agenda' = PressureEvents(scenario.pressures, nextTick, gone)
        /\ draw' = [NoDraw EXCEPT !.retired = gone]
    /\ stage' = "pressure"
    /\ UNCHANGED <<scenario, log, saved, rows, nextTick, sequence, oracles, records,
                   decisions, current, pending, restarts>>

CommitPressure ==
    /\ CommitNext("pressure")
    /\ UNCHANGED <<scenario, rows, stage, nextTick, sequence, oracles, records,
                   decisions, current, pending, draw, restarts>>

\* Fault: a task expires at its deadline.
ExpiredAtDeadline ==
    Ascending({t \in Task : /\ world.task[t].status \in {"available", "claimed"}
                            /\ Deadline(world, t) <= nextTick})

\* Tasks nobody finished; a submitted one does not expire.
Expired ==
    Ascending({t \in Task : /\ world.task[t].status \in {"available", "claimed"}
                            /\ Overdue(world, t, nextTick)})

BeginExpiry ==
    /\ Finished("pressure")
    /\ stage' = "expiry"
    /\ agenda' = [i \in DOMAIN Expired |->
                    SystemEvent("task.expired", nextTick, Expired[i], NoData)]
    /\ UNCHANGED <<scenario, log, saved, rows, nextTick, sequence, oracles, records,
                   decisions, current, pending, draw, restarts>>

CommitExpiry ==
    /\ CommitNext("expiry")
    /\ UNCHANGED <<scenario, rows, stage, nextTick, sequence, oracles, records,
                   decisions, current, pending, draw, restarts>>

\* How many tasks the tick may add to the backlog.
GenerationCount ==
    LET backlog == Cardinality(Open(world))
        capacity == Max({0, MaxBacklog - backlog})
    IN Min({capacity, (TasksPerTick * world.physics.load) \div PPM})

BeginGeneration ==
    LET tasks == StreamTasks(sequence, GenerationCount)
    IN /\ Finished("expiry")
       /\ stage' = "generation"
       /\ agenda' = [i \in DOMAIN tasks |->
                        SystemEvent("task.created", nextTick, tasks[i], NoData)]
       /\ sequence' = sequence + Len(tasks)
       /\ UNCHANGED <<scenario, log, saved, rows, nextTick, oracles, records,
                      decisions, current, pending, draw, restarts>>

\* The oracle is registered before the task is created.
CommitTask ==
    /\ CommitNext("generation")
    /\ oracles' = oracles \union {Head(agenda).about}
    /\ UNCHANGED <<scenario, rows, stage, nextTick, sequence, records,
                   decisions, current, pending, draw, restarts>>

\* What a model may answer: nothing of use, or actions that passed validation.
\* A peer is one it sees; it names a submission it saw, or none that exists.
Answers(a) ==
    LET usable(action) ==
            /\ action.type \in {"connect", "disconnect", "send", "transfer"} =>
                action.ref \in world.active \ {a}
            /\ action.type = "transfer" => action.amount > 0
            /\ action.type # "publishCapability"
            /\ action.type = "verify" /\ action.ref \in Task =>
                Submitted(world, action.ref)
    IN {<<>>} \union {s \in scenario.answers[a] : \A i \in DOMAIN s : usable(s[i])}

Consulted ==
    LET active == Ascending(world.active)
    IN SubSeq(active, 1, Min({AgentsPerTick, Len(active)}))

\* The model is consulted for the lowest ids.  A provider that fails leaves a
\* record without actions.
Consult ==
    LET Record(a, actions) == [agent |-> a, actions |-> actions]
    IN /\ Finished("generation")
       /\ IF scenario.policy # "cohort" THEN records' = <<>>
          ELSE \E answer \in {f \in [1 .. Len(Consulted) -> UNION {Answers(a) : a \in Agent}] :
                                \A i \in DOMAIN f : f[i] \in Answers(Consulted[i])} :
                records' = [i \in DOMAIN answer |-> Record(Consulted[i], answer[i])]
       /\ stage' = "cognition"
       /\ agenda' = [i \in DOMAIN records' |->
                        Event("cognition.recorded", nextTick, records'[i].agent, Nobody, 0,
                              NoCause, [actions |-> records'[i].actions])]
       /\ UNCHANGED <<scenario, log, saved, rows, nextTick, sequence, oracles,
                      decisions, current, pending, draw, restarts>>

CommitRecord ==
    /\ CommitNext("cognition")
    /\ UNCHANGED <<scenario, rows, stage, nextTick, sequence, oracles, records,
                   decisions, current, pending, draw, restarts>>

\* What stands for the choice of a policy that throws.
Throws == <<Action("reason", 0, "right", FALSE)>>

\* The actions of an agent: those recorded for it, or one the neutral policy
\* may choose; a custom policy may choose any.
OptionsOf(a) ==
    LET recorded == {i \in DOMAIN records : records[i].agent = a /\ records[i].actions # <<>>}
    IN IF scenario.policy = "custom" THEN scenario.answers[a]
       ELSE IF recorded # {} THEN {records[i].actions : i \in recorded}
       ELSE NeutralChoices(world, a, nextTick)

\* Every agent decides upon the same world; the decisions are shuffled.  For
\* each policy that threw there is a violation, before any decision.
DecideAll ==
    LET all == UNION {OptionsOf(a) : a \in world.active}
        batches == {f \in [world.active -> all] : \A a \in world.active : f[a] \in OptionsOf(a)}
        threw(f) == {a \in world.active : f[a] = Throws}
        of(f) == UNION {{[actor |-> a, index |-> i, action |-> f[a][i]] : i \in DOMAIN f[a]} :
                        a \in world.active \ threw(f)}
        violation(a) ==
            Event("violation.recorded", nextTick, a, Nobody, 0, NoCause,
                  [action |-> "reason", reason |-> "policy_error"])
    IN /\ Finished("cognition")
       /\ \E f \in batches : \E s \in SetToSeqs(of(f)) :
            /\ decisions' = s
            /\ draw' = [draw EXCEPT !.seen = <<world, records>>, !.schedule = s]
            /\ LET thrown == Ascending(threw(f))
               IN /\ agenda' = [i \in DOMAIN thrown |-> violation(thrown[i])]
                  /\ stage' = IF thrown = <<>> THEN "resolution" ELSE "decided"
       /\ UNCHANGED <<scenario, log, saved, rows, nextTick, sequence, oracles, records,
                      current, pending, restarts>>

CommitPolicyError ==
    /\ CommitNext("decided")
    /\ stage' = IF Len(agenda) = 1 THEN "resolution" ELSE "decided"
    /\ UNCHANGED <<scenario, rows, nextTick, sequence, oracles, records,
                   decisions, current, pending, draw, restarts>>

-----------------------------------------------------------------------------
(* Resolution: every decision is paid for before it is tried. *)

CostBase(d) == Costs[d.action.type]
Costless(d) == Unavailable(CostBase(d), world.physics)

CanPay(d) ==
    /\ d.actor \in world.active /\ ~Costless(d)
    /\ Affords(world.balance[d.actor], ScaledCost(CostBase(d), world.physics))

ViolationEvent(d, cause, reason) ==
    Event("violation.recorded", nextTick, d.actor, Nobody, d.index, cause,
          [action |-> d.action.type, reason |-> reason])

\* An agent that is gone or exhausted leaves no event.
Skip ==
    /\ stage = "resolution" /\ decisions # <<>>
    /\ Head(decisions).actor \in world.active => ~Costless(Head(decisions))
    /\ ~CanPay(Head(decisions))
    /\ decisions' = Tail(decisions)
    /\ UNCHANGED <<scenario, log, saved, rows, stage, nextTick, sequence, oracles, records,
                   agenda, current, pending, draw, restarts>>

CostUnavailable ==
    /\ stage = "resolution" /\ decisions # <<>>
    /\ Head(decisions).actor \in world.active /\ Costless(Head(decisions))
    /\ Commit(ViolationEvent(Head(decisions), NoCause, "cost_unavailable"))
    /\ decisions' = Tail(decisions)
    /\ UNCHANGED <<scenario, rows, stage, nextTick, sequence, oracles, records,
                   agenda, current, pending, draw, restarts>>

Pay ==
    LET d == Head(decisions)
    IN /\ stage = "resolution" /\ decisions # <<>> /\ CanPay(d)
       /\ Commit(Event("resource.spent", nextTick, d.actor, Nobody, d.index, NoCause,
                       [action |-> d.action.type,
                        cost |-> ScaledCost(CostBase(d), world.physics)]))
       /\ stage' = "paid"
       /\ current' = d /\ decisions' = Tail(decisions)
       /\ UNCHANGED <<scenario, rows, nextTick, sequence, oracles, records,
                      agenda, pending, draw, restarts>>

PaymentId == <<"resource.spent", current.actor, current.index>>

\* Nothing is left to do: contention lost, or the link is there already.
Silent(d) ==
    \/ d.action.type \in {"observe", "reason"}
    \/ d.action.type = "claimTask" /\ ~Available(world, d.action.ref)
    \/ d.action.type = "connect" /\ d.action.ref \in world.active \ {d.actor}
       /\ Linked(world, d.actor, d.action.ref)

\* What the checks of the action throw, in their order.
Problem(d) ==
    LET a == d.action
        held == a.type \in {"execute", "submit"} => HeldBy(world, a.ref, d.actor)
        known == a.type = "verify" /\ Submitted(world, a.ref)
        needsPeer == a.type \in {"connect", "send", "transfer"}
        published == a.ref \in Capability /\ world.owner[a.ref] # Nobody
        linked == Linked(world, d.actor, a.ref)
    IN FirstFailure(<<
        <<a.type = "spawn", "unsupported">>,
        <<~held, "not_claimed">>,
        <<a.type = "verify" /\ ~known, "unknown_submission">>,
        <<known /\ world.task[a.ref].by = d.actor, "own_submission">>,
        <<known /\ <<a.ref, d.actor>> \in world.verified, "verified_before">>,
        <<known /\ a.verdict # (a.result = world.task[a.ref].result), "wrong_verdict">>,
        <<needsPeer /\ a.ref = d.actor, "targets_itself">>,
        <<needsPeer /\ a.ref \notin world.active, "target_not_active">>,
        <<a.type = "send" /\ ~linked, "no_link">>,
        <<a.type = "disconnect" /\ ~linked, "not_connected">>,
        <<a.type = "retrieve" /\ world.memory[d.actor][a.ref] = "none", "unknown_key">>,
        <<a.type = "publishCapability" /\ published, "published_before">>,
        <<a.type = "publishCapability" /\ ~ValidPublication(Publications[a.ref]),
          "invalid_capability">>,
        <<a.type = "useCapability" /\ ~published, "unknown_capability">>,
        <<a.type = "transfer" /\ a.amount <= 0, "amount_not_positive">>,
        <<a.type = "transfer" /\ world.balance[d.actor][a.result] < a.amount,
          "insufficient">> >>)

OutcomeEvent(d) ==
    LET a == d.action
        Of(type, target, about, data) ==
            Event(type, nextTick, d.actor, target, about, PaymentId, data)
    IN CASE a.type = "claimTask" -> Of("task.claimed", Nobody, a.ref, NoData)
         [] a.type \in {"execute", "store"} ->
                Of("memory.stored", Nobody, a.ref,
                   [action |-> a.type, result |-> a.result])
         [] a.type = "retrieve" ->
                Of("memory.retrieved", Nobody, a.ref,
                   [result |-> world.memory[d.actor][a.ref]])
         [] a.type = "publishCapability" ->
                Of("capability.published", Nobody, a.ref, NoData)
         [] a.type = "useCapability" ->
                Of("capability.used", world.owner[a.ref], a.ref,
                   [input |-> a.result,
                    outcome |-> InvocationOutcome(world, a.ref, d.actor, a.result)])
         [] a.type = "transfer" ->
                Of("resource.transferred", a.ref, d.index,
                   [kind |-> a.result, amount |-> a.amount])
         [] a.type = "submit" -> Of("task.submitted", Nobody, a.ref, [result |-> a.result])
         [] a.type = "verify" ->
                Of("submission.verified", world.task[a.ref].by, a.ref,
                   [result |-> a.result, verdict |-> a.verdict])
         [] a.type = "connect" -> Of("link.created", a.ref, d.index, NoData)
         [] a.type = "disconnect" -> Of("link.removed", a.ref, d.index, NoData)
         [] a.type = "send" -> Of("message.sent", a.ref, d.index, NoData)

\* What stops the action, be it a check or the reducer, which is asked last.
Obstacle(d) ==
    IF Problem(d) # "none" THEN Problem(d)
    ELSE IF ~Legal(world, OutcomeEvent(d), prev) THEN "reducer" ELSE "none"

ActSilently ==
    /\ stage = "paid" /\ Silent(current)
    /\ stage' = "resolution" /\ current' = NoDecision
    /\ UNCHANGED <<scenario, log, saved, rows, nextTick, sequence, oracles, records,
                   agenda, decisions, pending, draw, restarts>>

ActFails ==
    /\ stage = "paid" /\ ~Silent(current) /\ Obstacle(current) # "none"
    /\ Commit(ViolationEvent(current, PaymentId, Obstacle(current)))
    /\ stage' = "resolution" /\ current' = NoDecision
    /\ UNCHANGED <<scenario, rows, nextTick, sequence, oracles, records,
                   agenda, decisions, pending, draw, restarts>>

Act ==
    LET type == current.action.type
    IN /\ stage = "paid" /\ ~Silent(current) /\ Obstacle(current) = "none"
       /\ Commit(OutcomeEvent(current))
       /\ stage' = IF type = "send" THEN "sent" ELSE "resolution"
       /\ current' = IF type = "send" THEN current ELSE NoDecision
       /\ pending' = IF type = "submit" THEN Append(pending, current.action.ref) ELSE pending
       /\ UNCHANGED <<scenario, rows, nextTick, sequence, oracles, records,
                      agenda, decisions, draw, restarts>>

\* A message is delivered, and its link used, in two events of their own.
Delivery(type, cause) ==
    Event(type, nextTick, current.actor, current.action.ref, current.index, cause, NoData)

Deliver ==
    /\ stage = "sent"
    /\ Commit(Delivery("message.delivered", prev))
    /\ stage' = "delivered"
    /\ UNCHANGED <<scenario, rows, memory, draw, restarts>>

UseLink ==
    /\ stage = "delivered"
    /\ Commit(Delivery("link.used", prev))
    /\ stage' = "resolution" /\ current' = NoDecision
    /\ UNCHANGED <<scenario, rows, nextTick, sequence, oracles, records,
                   agenda, decisions, pending, draw, restarts>>

-----------------------------------------------------------------------------
(* Evaluation, metrics and the end of the tick. *)

Rewards(t, evaluated) ==
    LET kinds == RewardedKinds
    IN IF evaluated.data.accepted /\ Affords(world.treasury, AcceptedTaskReward)
       THEN [i \in DOMAIN kinds |->
                Event("resource.transferred", nextTick, Treasury, world.task[t].by, t,
                      EventId(evaluated),
                      [kind |-> kinds[i], amount |-> AcceptedTaskReward[kinds[i]]])]
       ELSE <<>>

Evaluating == stage = "resolution" /\ decisions = <<>> /\ agenda = <<>>

Evaluation(t) ==
    LET by == world.task[t].by
    IN Event("task.evaluated", nextTick, by, Nobody, t, <<"task.submitted", by, t>>,
             [accepted |-> world.task[t].result = "right"])

Evaluate ==
    LET t == Head(pending)
    IN /\ Evaluating /\ pending # <<>> /\ t \in oracles
       /\ Commit(Evaluation(t))
       /\ agenda' = Rewards(t, Evaluation(t))
       /\ pending' = Tail(pending)
       /\ UNCHANGED <<scenario, rows, stage, nextTick, sequence, oracles, records,
                      decisions, current, draw, restarts>>

\* The evaluator throws, which becomes a violation of the agent.
EvaluationFails ==
    LET t == Head(pending)
    IN /\ Evaluating /\ pending # <<>> /\ t \notin oracles
       /\ Commit(Event("violation.recorded", nextTick, world.task[t].by, Nobody, t, NoCause,
                       [action |-> "verify", reason |-> "no_oracle"]))
       /\ pending' = Tail(pending)
       /\ UNCHANGED <<scenario, rows, stage, nextTick, sequence, oracles, records,
                      agenda, decisions, current, draw, restarts>>

Reward ==
    /\ decisions = <<>>
    /\ CommitNext("resolution")
    /\ UNCHANGED <<scenario, rows, stage, nextTick, sequence, oracles, records,
                   decisions, current, pending, draw, restarts>>

MetricsDue == nextTick % MetricEvery = 0 \/ nextTick = Ticks

SkipMetrics ==
    /\ Evaluating /\ pending = <<>> /\ ~MetricsDue
    /\ stage' = "upkeep"
    /\ UNCHANGED <<scenario, log, saved, rows, memory, draw, restarts>>

RecordMetrics ==
    /\ Evaluating /\ pending = <<>> /\ MetricsDue
    /\ Commit(SystemEvent("metrics.recorded", nextTick, nextTick, NoData))
    /\ stage' = "metrics"
    /\ UNCHANGED <<scenario, rows, memory, draw, restarts>>

AppendMetrics ==
    /\ stage = "metrics"
    /\ stage' = "upkeep" /\ rows' = rows + 1
    /\ UNCHANGED <<scenario, log, saved, memory, draw, restarts>>

\* The streams of the tick are spent.
CompleteTick ==
    /\ stage = "upkeep"
    /\ Commit(SystemEvent("tick.completed", nextTick, nextTick, NoData))
    /\ nextTick' = nextTick + 1
    /\ stage' = IF nextTick % CheckpointEvery = 0 /\ nextTick # Ticks
             THEN "checkpoint" ELSE "boundary"
    /\ records' = <<>> /\ draw' = NoDraw
    /\ UNCHANGED <<scenario, rows, sequence, oracles, agenda, decisions, current,
                   pending, restarts>>

-----------------------------------------------------------------------------
(* The run. *)

\* Fault: a run has one checkpoint.
EmitFirstCheckpoint ==
    saved' = IF saved # NoCheckpoint THEN saved
             ELSE [tick |-> world.tick, sequence |-> sequence, atEnd |-> TRUE]

\* One checkpoint is written per tick.
EmitCheckpoint ==
    saved' = IF saved.tick = world.tick /\ saved # NoCheckpoint THEN saved
             ELSE [tick |-> world.tick, sequence |-> sequence, atEnd |-> TRUE]

PeriodicCheckpoint ==
    /\ stage = "checkpoint" /\ EmitCheckpoint
    /\ stage' = "boundary"
    /\ UNCHANGED <<scenario, log, rows, memory, draw, restarts>>

\* The memory goes with the process.
Forget ==
    /\ nextTick' = 0 /\ sequence' = 0
    /\ oracles' = {} /\ pending' = <<>>
    /\ records' = <<>> /\ agenda' = <<>> /\ decisions' = <<>> /\ current' = NoDecision
    /\ draw' = NoDraw

\* The signal is looked at once the agents exist and after every tick.
Pause ==
    /\ Idle /\ EmitCheckpoint
    /\ stage' = "paused"
    /\ Forget
    /\ UNCHANGED <<scenario, log, rows, restarts>>

CompleteRun ==
    /\ Idle /\ nextTick > Ticks
    /\ Commit(SystemEvent("run.completed", Ticks, Ticks, NoData))
    /\ stage' = "completed"
    /\ UNCHANGED <<scenario, rows, memory, draw, restarts>>

Verified == scenario.policy # "custom" /\ verifier.refused = NoEvent /\ rows = world.metrics

\* The last checkpoint, and the replay a run of the lab ends with.
FinishRun ==
    /\ stage = "completed" /\ EmitCheckpoint
    /\ stage' = IF Verified \/ scenario.policy = "custom" THEN "done" ELSE "failed"
    /\ Forget
    /\ UNCHANGED <<scenario, log, rows, restarts>>

Crash ==
    /\ stage \notin Over
    /\ stage' = "down"
    /\ Forget
    /\ UNCHANGED <<scenario, log, saved, rows, restarts>>

\* recoverExistingRun: the checkpoint is what the verifier regenerates.
Resumable ==
    /\ AtBoundary(verifier) /\ rows = world.metrics
    /\ saved.atEnd /\ saved.sequence = verifier.sequence

\* What the universe asks of the checkpoint it is restored from.
Restorable ==
    /\ saved.atEnd /\ saved.tick = world.tick /\ saved.tick <= Ticks
    /\ world.started /\ ~world.completed
    /\ scenario.policy = "neutral"

\* The oracles of the tasks still open are in no checkpoint.
RestoreFromCheckpoint ==
    /\ stage' = "boundary"
    /\ nextTick' = saved.tick + 1 /\ sequence' = saved.sequence

Recover ==
    /\ stage \in {"paused", "down"} /\ restarts < Restarts
    /\ restarts' = restarts + 1
    /\ CASE prev = NoCause ->
              /\ stage' = "boundary" /\ agenda' = GenesisEvents
              /\ nextTick' = 1 /\ sequence' = 0
         [] prev # NoCause /\ ~world.completed /\ Resumable /\ Restorable ->
              RestoreFromCheckpoint /\ UNCHANGED agenda
         [] OTHER ->
              /\ stage' = IF world.completed /\ Verified THEN "done" ELSE "conflict"
              /\ UNCHANGED <<agenda, nextTick, sequence>>
    /\ UNCHANGED <<scenario, log, saved, rows, oracles, records, decisions, current,
                   pending, draw>>

-----------------------------------------------------------------------------
UniverseInit ==
    /\ scenario \in Scenarios
    /\ world = InitialWorld /\ verifier = NewVerifier /\ prev = NoCause
    /\ saved = NoCheckpoint /\ rows = 0
    /\ stage = "boundary" /\ agenda = GenesisEvents
    /\ nextTick = 1 /\ sequence = 0
    /\ oracles = {} /\ records = <<>>
    /\ decisions = <<>> /\ current = NoDecision /\ pending = <<>>
    /\ draw = NoDraw /\ restarts = 0

Work ==
    \/ Genesis
    \/ BeginTick \/ CommitPressure
    \/ BeginExpiry \/ CommitExpiry
    \/ BeginGeneration \/ CommitTask
    \/ Consult \/ CommitRecord \/ DecideAll \/ CommitPolicyError
    \/ Skip \/ CostUnavailable \/ Pay \/ ActSilently \/ ActFails \/ Act
    \/ Deliver \/ UseLink
    \/ Evaluate \/ EvaluationFails \/ Reward
    \/ SkipMetrics \/ RecordMetrics \/ AppendMetrics \/ CompleteTick
    \/ PeriodicCheckpoint \/ CompleteRun \/ FinishRun

UniverseNext == Work \/ Pause \/ Crash \/ Recover

UniverseSpec == UniverseInit /\ [][UniverseNext]_universeVars

-----------------------------------------------------------------------------
(* Properties. *)

\* What agents hold of a kind.
Together(balance, agents, k) == MapThenSumSet(LAMBDA a : balance[a][k], agents)

\* Payments go to the treasury and rewards come from it, agents pay and give
\* to one another, so at every event, in the middle of a tick too, what the
\* agents and the treasury hold is what they were given: no resource is lost or
\* made, and nobody is overdrawn (src/lab/reducer.ts:623, the debits and
\* credits of resource.spent, resource.transferred and capability.used).
ResourcesConserved ==
    /\ world.balance \in [Agent -> Resources] /\ world.treasury \in Resources
    /\ world.born = Agents =>
        \A k \in Kind :
            world.treasury[k] + Together(world.balance, Agent, k)
                = TreasuryResources[k] + Agents * InitialResources[k]

\* What a pause leaves passes the checks of recoverExistingRun
\* (src/lab/genesis.ts:157): the log ends at a checkpoint that agrees with what
\* the verifier regenerates, and no row of metrics is missing.  A run with
\* recorded answers passes them too, and is refused later, where the world is
\* restored (src/lab/world.ts:278).
PauseIsResumable ==
    stage = "paused" /\ verifier.refused = NoEvent /\ scenario.policy # "custom" =>
        /\ AtBoundary(verifier)
        /\ saved.atEnd /\ saved.sequence = verifier.sequence
        /\ rows = world.metrics

\* The verifier regenerates every event the engine writes: it refuses nothing
\* but the outcomes of actions it does not know, and what follows the loss of
\* the oracles in a resume (src/lab/protocol-verifier.ts:137).
RefusedForKnownReason ==
    LET e == verifier.refused
    IN e # NoEvent =>
        \/ e.type \in {"link.removed", "memory.retrieved"}
        \/ e.type = "memory.stored" /\ e.data.action = "store"
        \/ e.type = "resource.transferred" /\ e.actor # Treasury
        \/ /\ e.type = "violation.recorded"
           /\ \/ e.data.action \in {"disconnect", "retrieve", "useCapability",
                                    "transfer", "spawn"}
              \/ e.data.reason = "no_oracle" /\ restarts > 0

\* What the comment of the verifier and the tests of resuming say: the log of
\* a run of the program is one its verifier accepts.
VerifierAccepts == verifier.refused = NoEvent

\* The engine only catches what an action or its cost throws.  Every other
\* event it determines is one the reducer takes, whatever was committed since
\* it was determined: none stops the run in the middle of a tick
\* (src/lab/world.ts, runTick and #commit).
EngineNeverThrows ==
    LET system(type) == SystemEvent(type, Min({nextTick, Ticks}), nextTick, NoData)
        determined ==
            CASE agenda # <<>> -> Head(agenda)
              [] Idle /\ nextTick > Ticks -> system("run.completed")
              [] stage = "sent" -> Delivery("message.delivered", prev)
              [] stage = "delivered" -> Delivery("link.used", prev)
              [] Evaluating /\ pending # <<>> -> Evaluation(Head(pending))
              [] Evaluating /\ pending = <<>> -> system("metrics.recorded")
              [] stage = "upkeep" -> system("tick.completed")
              [] OTHER -> NoEvent
    IN determined # NoEvent => Legal(world, determined, prev)
=============================================================================
