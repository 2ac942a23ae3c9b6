-------------------------- MODULE ProtocolVerifier --------------------------
(***************************************************************************)
(* The verifier of a lab's evidence: src/lab/protocol-verifier.ts.         *)
(*                                                                         *)
(* It reads the events of a run one by one, beside the world they make,    *)
(* regenerates what the engine's seeded generators must have produced and  *)
(* refuses the first event that differs.  Its state is a record and        *)
(* VerifyNext is what one event makes of it.                               *)
(*                                                                         *)
(* The seeded streams are `draw`: what the streams of the tick yield.  A   *)
(* schedule of decisions is regenerated only from what it was drawn for:   *)
(* the same world, and the same recorded answers of the model.             *)
(***************************************************************************)
EXTENDS LabWorld

NoPayment == [id |-> NoCause, decision |-> <<>>, required |-> FALSE]
NotYet == [known |-> FALSE, left |-> <<>>]
NoDraw == [retired |-> {}, seen |-> <<>>, schedule |-> <<>>]

NewVerifier ==
    [started |-> FALSE, born |-> 0, tick |-> 0, rank |-> 0,
     tickCompleted |-> FALSE, metricsSeen |-> FALSE, completed |-> FALSE,
     pressures |-> <<>>, expiries |-> <<>>, generated |-> NotYet, sequence |-> 0,
     records |-> <<>>, schedule |-> NotYet, payment |-> NoPayment,
     chain |-> NoEvent, submissions |-> <<>>, rewards |-> <<>>,
     oracles |-> {}, refused |-> NoEvent]

PhaseRank(e) ==
    LET type == e.type
    IN CASE type \in {"pressure.applied", "agent.retired"} -> 1
      [] type \in {"task.created", "task.expired"} -> 2
      [] type = "cognition.recorded" -> 3
      [] type = "task.evaluated" -> 6
      [] type = "resource.transferred" -> IF e.actor = Treasury THEN 6 ELSE 5
      [] type = "metrics.recorded" -> 7
      [] type = "tick.completed" -> 8
      [] type = "run.completed" -> 10
      [] OTHER -> 5

-----------------------------------------------------------------------------
(* Genesis, and the entry into a tick. *)

GenesisExpected(v, e) ==
    \/ ~v.started /\ e = SystemEvent("run.started", 0, 0,
                                     [treasury |-> TreasuryResources])
    \/ /\ v.started /\ v.born < Agents
       /\ e = Event("agent.created", 0, v.born + 1, Nobody, 0, NoCause,
                    [resources |-> InitialResources])

AfterGenesis(v, e) ==
    IF v.started THEN [v EXCEPT !.born = @ + 1] ELSE [v EXCEPT !.started = TRUE]

StartsTick(v, e) == v.tick = 0 \/ (v.tickCompleted /\ e.type # "run.completed")

EntersInOrder(v, e) ==
    /\ v.started /\ v.born = Agents /\ ~v.completed
    /\ e.tick = IF StartsTick(v, e) THEN v.tick + 1 ELSE v.tick
    /\ e.tick <= Ticks

\* Every task still open past its deadline, a submitted one too.
ExpectedExpiries(w, tick) ==
    Ascending({t \in Task : /\ w.task[t].status \notin {"none", "completed", "expired"}
                            /\ Overdue(w, t, tick)})

StartTick(c, v, tick, w, draw) ==
    [v EXCEPT !.tick = tick, !.rank = 0, !.tickCompleted = FALSE, !.metricsSeen = FALSE,
              !.generated = NotYet, !.payment = NoPayment,
              !.schedule = NotYet, !.records = <<>>,
              !.pressures = PressureEvents(c.pressures, tick, draw.retired),
              !.expiries = ExpectedExpiries(w, tick)]

-----------------------------------------------------------------------------
(* What is regenerated when the tick first needs it. *)

EnsureGenerated(v, w) ==
    LET backlog == Cardinality({t \in Task :
                        w.task[t].status \notin {"none", "completed", "expired"}})
        capacity == IF backlog > MaxBacklog THEN 0 ELSE MaxBacklog - backlog
        scaled == (TasksPerTick * w.physics.load) \div PPM
        tasks == StreamTasks(v.sequence, Min({capacity, scaled}))
    IN IF v.generated.known THEN v
       ELSE [v EXCEPT !.generated = [known |-> TRUE, left |-> tasks],
                      !.sequence = @ + Len(tasks)]

EnsureSchedule(v, w, draw) ==
    LET drawn == IF draw.seen = <<w, v.records>> THEN draw.schedule ELSE <<>>
    IN IF v.schedule.known THEN v
       ELSE [v EXCEPT !.schedule = [known |-> TRUE, left |-> drawn]]

\* A decision no event is due for: its agent is gone or cannot pay.
PassedOver(d, w) ==
    LET base == Costs[d.action.type]
    IN \/ d.actor \notin w.active
       \/ /\ ~Unavailable(base, w.physics)
          /\ ~Affords(w.balance[d.actor], ScaledCost(base, w.physics))

Due(left, w) ==
    LET payable == {i \in DOMAIN left : ~PassedOver(left[i], w)}
    IN IF payable = {} THEN <<>> ELSE SubSeq(left, Min(payable), Len(left))

Prepared(v, rank, w, draw) ==
    LET generated == IF rank > 2 THEN EnsureGenerated(v, w) ELSE v
        scheduled == IF rank >= 5 THEN EnsureSchedule(generated, w, draw) ELSE generated
    IN [scheduled EXCEPT !.rank = rank,
                         !.schedule.left = IF rank > 5 THEN Due(@, w) ELSE @]

\* finalizeSkippedPhases: an event of a later phase finds the earlier done.
PhasesDone(v, rank) ==
    /\ rank > 1 => v.pressures = <<>>
    /\ rank > 2 => v.expiries = <<>> /\ v.generated.left = <<>>
    /\ rank > 5 => v.schedule.left = <<>>
    /\ rank > 6 => v.submissions = <<>> /\ v.rewards = <<>>

\* A payment whose outcome is not the next event had none to have.
OutcomeMissing(v, e) ==
    v.payment # NoPayment /\ (e.type = "resource.spent" \/ e.cause # v.payment.id)

Settled(v, e) ==
    IF OutcomeMissing(v, e) THEN [v EXCEPT !.payment = NoPayment] ELSE v

-----------------------------------------------------------------------------
(* Pressures, expiries and the tasks of the stream. *)

PressureExpected(v, e) == v.pressures # <<>> /\ e = Head(v.pressures)

ExpiryExpected(v, e) ==
    /\ v.expiries # <<>>
    /\ e = SystemEvent("task.expired", v.tick, Head(v.expiries), NoData)

\* The expiries of a tick come before its tasks.
GeneratedExpected(v, e) ==
    /\ v.expiries = <<>> /\ v.generated.left # <<>>
    /\ e = SystemEvent("task.created", v.tick, Head(v.generated.left), NoData)

-----------------------------------------------------------------------------
(* Payments and their outcomes. *)

\* Fault: a claim that comes too late has to be answered as well.
RequiresOutcomeOfClaims(d, w) ==
    /\ d.action.type \notin {"observe", "reason"}
    /\ d.action.type = "connect" => ~Linked(w, d.actor, d.action.ref)

RequiresOutcome(d, w) ==
    LET a == d.action
    IN CASE a.type \in {"observe", "reason"} -> FALSE
         [] a.type = "claimTask" -> Available(w, a.ref)
         [] a.type = "connect" -> ~Linked(w, d.actor, a.ref)
         [] OTHER -> TRUE

ExpectedPayment(v, d, w) ==
    Event("resource.spent", v.tick, d.actor, Nobody, d.index, NoCause,
          [action |-> d.action.type, cost |-> ScaledCost(Costs[d.action.type], w.physics)])

ExpectedOutcome(v, d, w) ==
    LET a == d.action
        Of(type, target, about, data) ==
            Event(type, v.tick, d.actor, target, about, v.payment.id, data)
    IN CASE a.type = "claimTask" -> Of("task.claimed", Nobody, a.ref, NoData)
         [] a.type = "execute" ->
                Of("memory.stored", Nobody, a.ref, [action |-> "execute", result |-> a.result])
         [] a.type = "submit" ->
                Of("task.submitted", Nobody, a.ref, [result |-> a.result])
         [] a.type = "verify" /\ Submitted(w, a.ref) ->
                Of("submission.verified", w.task[a.ref].by, a.ref,
                   [result |-> a.result, verdict |-> a.verdict])
         [] a.type = "connect" -> Of("link.created", a.ref, d.index, NoData)
         [] a.type = "send" /\ Linked(w, d.actor, a.ref) ->
                Of("message.sent", a.ref, d.index, NoData)
         [] OTHER -> NoEvent

\* Why the action must fail: the engine's checks once more, in its order.
ExpectedViolation(d, w) ==
    LET a == d.action
        onTask == a.type \in {"execute", "submit"}
        verify == a.type = "verify" /\ Submitted(w, a.ref)
        toPeer == a.type \in {"connect", "send"}
    IN FirstFailure(<<
        <<toPeer /\ a.ref = d.actor, "targets_itself">>,
        <<toPeer /\ a.ref \notin w.active, "target_not_active">>,
        <<a.type = "send" /\ ~Linked(w, d.actor, a.ref), "no_link">>,
        <<onTask /\ ~HeldBy(w, a.ref, d.actor), "not_claimed">>,
        <<a.type = "verify" /\ ~verify, "unknown_submission">>,
        <<verify /\ w.task[a.ref].by = d.actor, "own_submission">>,
        <<verify /\ <<a.ref, d.actor>> \in w.verified, "verified_before">>,
        <<verify /\ a.verdict # (a.result = w.task[a.ref].result), "wrong_verdict">> >>)

Violation(tick, d, cause, reason) ==
    Event("violation.recorded", tick, d.actor, Nobody, d.index, cause,
          [action |-> d.action.type, reason |-> reason])

PaymentExpected(v, e, w) ==
    LET due == Due(v.schedule.left, w)
    IN /\ due # <<>>
       /\ ~Unavailable(Costs[Head(due).action.type], w.physics)
       /\ e = ExpectedPayment(v, Head(due), w)

CostFailureExpected(v, e, w) ==
    LET due == Due(v.schedule.left, w)
    IN /\ due # <<>>
       /\ Unavailable(Costs[Head(due).action.type], w.physics)
       /\ e = Violation(v.tick, Head(due), NoCause, "cost_unavailable")

OutcomeExpected(v, e, w) ==
    LET d == v.payment.decision
        reason == ExpectedViolation(d, w)
    IN /\ v.payment # NoPayment /\ e.cause = v.payment.id
       /\ IF e.type = "violation.recorded"
          THEN reason # "none" /\ e = Violation(v.tick, d, e.cause, reason)
          ELSE e = ExpectedOutcome(v, d, w)

-----------------------------------------------------------------------------
(* Evaluations and rewards. *)

ExpectedEvaluation(v, w) ==
    LET t == Head(v.submissions)
        by == w.task[t].by
    IN Event("task.evaluated", v.tick, by, Nobody, t, <<"task.submitted", by, t>>,
             [accepted |-> w.task[t].result = "right"])

ExpectedRewards(e, w) ==
    IF ~e.data.accepted \/ ~Affords(w.treasury, AcceptedTaskReward) THEN <<>>
    ELSE LET kinds == RewardedKinds
         IN [i \in DOMAIN kinds |->
                Event("resource.transferred", e.tick, Treasury, e.actor, e.about, EventId(e),
                      [kind |-> kinds[i], amount |-> AcceptedTaskReward[kinds[i]]])]

MetricsRequired(tick) == tick % MetricEvery = 0 \/ tick = Ticks

-----------------------------------------------------------------------------
(* One event. *)

Expected(c, v, e, w) ==
    CASE e.type \in {"pressure.applied", "agent.retired"} -> PressureExpected(v, e)
      [] e.type = "task.expired" -> ExpiryExpected(v, e)
      [] e.type = "task.created" -> GeneratedExpected(v, e)
      [] e.type = "cognition.recorded" -> c.policy = "cohort" /\ ~v.schedule.known
      [] e.type = "resource.spent" -> PaymentExpected(v, e, w)
      [] e.type = "violation.recorded" /\ e.cause = NoCause -> CostFailureExpected(v, e, w)
      [] e.type \in {"message.delivered", "link.used"} -> e = v.chain
      [] e.type = "task.evaluated" ->
            /\ v.submissions # <<>> /\ Head(v.submissions) \in v.oracles
            /\ e = ExpectedEvaluation(v, w)
      [] e.type = "resource.transferred" /\ e.actor = Treasury ->
            v.rewards # <<>> /\ e = Head(v.rewards)
      [] e.type = "metrics.recorded" -> MetricsRequired(v.tick) /\ ~v.metricsSeen
      [] e.type = "tick.completed" ->
            ~v.tickCompleted /\ (v.metricsSeen <=> MetricsRequired(v.tick))
      [] e.type = "run.completed" -> v.tickCompleted /\ v.tick = Ticks
      [] OTHER -> OutcomeExpected(v, e, w)

\* A message is followed at once by its delivery and by the use of its link,
\* an accepted evaluation by its rewards.
Continues(v, e) ==
    /\ v.chain # NoEvent => e = v.chain
    /\ v.rewards # <<>> => e = Head(v.rewards)

After(v, e, w) ==
    LET paid == [v EXCEPT !.payment = NoPayment]
        due == Due(v.schedule.left, w)
        follow(type) == [e EXCEPT !.type = type, !.cause = EventId(e)]
    IN
    CASE e.type \in {"pressure.applied", "agent.retired"} -> [v EXCEPT !.pressures = Tail(@)]
      [] e.type = "task.expired" ->
            [v EXCEPT !.expiries = Tail(@), !.oracles = @ \ {e.about}]
      [] e.type = "task.created" ->
            [v EXCEPT !.generated.left = Tail(@), !.oracles = @ \union {e.about}]
      [] e.type = "cognition.recorded" ->
            [v EXCEPT !.records = Append(@, [agent |-> e.actor, actions |-> e.data.actions])]
      [] e.type = "resource.spent" ->
            [v EXCEPT !.schedule.left = Tail(due),
                      !.payment = [id |-> EventId(e), decision |-> Head(due),
                                   required |-> RequiresOutcome(Head(due), w)]]
      [] e.type = "violation.recorded" /\ e.cause = NoCause ->
            [v EXCEPT !.schedule.left = Tail(due)]
      [] e.type = "message.sent" -> [paid EXCEPT !.chain = follow("message.delivered")]
      [] e.type = "message.delivered" -> [v EXCEPT !.chain = follow("link.used")]
      [] e.type = "link.used" -> [v EXCEPT !.chain = NoEvent]
      [] e.type = "task.submitted" -> [paid EXCEPT !.submissions = Append(@, e.about)]
      [] e.type = "task.evaluated" ->
            [v EXCEPT !.submissions = Tail(@), !.oracles = @ \ {e.about},
                      !.rewards = ExpectedRewards(e, w)]
      [] e.type = "resource.transferred" -> [v EXCEPT !.rewards = Tail(@)]
      [] e.type = "metrics.recorded" -> [v EXCEPT !.metricsSeen = TRUE]
      [] e.type = "tick.completed" -> [v EXCEPT !.tickCompleted = TRUE]
      [] e.type = "run.completed" -> [v EXCEPT !.completed = TRUE]
      [] OTHER -> paid

\* What the event e, which finds the world w, makes of the verifier v of a run
\* of the configuration c.  The first failure is final.
VerifyNext(c, v, e, w, draw) ==
    LET rank == PhaseRank(e)
        entered == IF StartsTick(v, e) THEN StartTick(c, v, e.tick, w, draw) ELSE v
        generated == IF e.type = "task.created" THEN EnsureGenerated(entered, w) ELSE entered
        ready == Prepared(generated, rank, w, draw)
        settled == Settled(ready, e)
        accepted ==
            /\ EntersInOrder(v, e)
            /\ rank >= entered.rank
            /\ PhasesDone(ready, rank)
            /\ ~(OutcomeMissing(ready, e) /\ ready.payment.required)
            /\ Continues(settled, e)
            /\ Expected(c, settled, e, w)
        refused == [v EXCEPT !.refused = e]
    IN IF v.refused # NoEvent THEN v
       ELSE IF e.tick = 0 THEN IF GenesisExpected(v, e) THEN AfterGenesis(v, e) ELSE refused
       ELSE IF accepted THEN After(settled, e, w) ELSE refused

\* finish, of a stream that may end before the run is complete.
AtBoundary(v) ==
    /\ v.refused = NoEvent
    /\ v.started /\ v.born = Agents
    /\ v.tick = 0 \/ v.tickCompleted
=============================================================================
