------------------------------ MODULE LabWorld ------------------------------
(***************************************************************************)
(* The world of a logical universe as its events make it:                  *)
(* src/lab/reducer.ts, with the costs of src/lab/resource-physics.ts and   *)
(* the choices of src/lab/neutral-policy.ts.                               *)
(*                                                                         *)
(* A world is a record, an event is a record, and everything here is a     *)
(* function of them.  An agent is its place in the order of ids, a task    *)
(* its number in the task stream, a capability its number among the        *)
(* publications.  Names, task inputs and payloads are left out, a result   *)
(* is the one the oracle expects or it is not; so are the inboxes and the  *)
(* counters that only metrics read.                                        *)
(***************************************************************************)
EXTENDS CapabilityPlan

CONSTANTS
    Agents,             \* config.agents
    Ticks,              \* config.ticks
    Tasks,              \* bound: the tasks the stream can generate
    PPM,                \* the unit of prices, capacity and load
    InitialResources,   \* config.initialResources
    TreasuryResources,  \* config.treasuryResources
    Costs,              \* config.costs, by type of action
    AcceptedTaskReward, \* config.acceptedTaskReward
    TasksPerTick,       \* config.taskStream
    DeadlineTicks,
    MaxBacklog,
    MetricEvery,        \* config.metricEvery
    Publications,       \* what agents may publish, a sequence
    Inputs              \* what they invoke a capability on, by name

Agent == 1 .. Agents
Task == 1 .. Tasks
Capability == DOMAIN Publications

\* A memory holds the result of a task, or what an agent stores elsewhere.
Elsewhere == 0
Key == Task \union {Elsewhere}

\* Of the five kinds of resource, one that is only priced and the one that
\* has a capacity as well.
Kind == {"credits", "bandwidthBytes"}
KindOrder == <<"credits", "bandwidthBytes">>
Resources == [Kind -> Nat]

ActionType == {"observe", "claimTask", "execute", "submit", "verify", "connect",
               "disconnect", "reason", "send", "store", "retrieve", "publishCapability",
               "useCapability", "transfer", "spawn"}

\* A configuration has one pressure of each, which may be due after the run.
PressureType == {"resource_price_multiplier", "bandwidth_capacity_multiplier",
                 "task_load_multiplier", "retire_agent_fraction"}

ASSUME LabAssumption ==
    /\ Agents \in Nat \ {0} /\ Ticks \in Nat \ {0} /\ Tasks \in Nat
    /\ PPM \in Nat \ {0}
    /\ InitialResources \in Resources /\ TreasuryResources \in Resources
    /\ Costs \in [ActionType -> Resources]
    /\ AcceptedTaskReward \in Resources
    /\ TasksPerTick \in Nat /\ DeadlineTicks \in Nat \ {0}
    /\ MaxBacklog \in Nat \ {0} /\ MetricEvery \in Nat \ {0}
    /\ \A c \in Capability : Publications[c].cost \in Resources

Nobody == 0               \* no actor, no target
Treasury == Agents + 1    \* "@treasury" as an actor
NoCause == <<>>
NoData == [none |-> TRUE]
Result == {"right", "wrong"}

-----------------------------------------------------------------------------
(* Events and actions. *)

\* What tells an event from every other one: payments and messages are named
\* by their place among the decisions of an actor, within their tick.
EventId(e) == <<e.type, e.actor, e.about>>

Event(type, tick, actor, target, about, cause, data) ==
    [type |-> type, tick |-> tick, actor |-> actor, target |-> target,
     about |-> about, cause |-> cause, data |-> data]

SystemEvent(type, tick, about, data) ==
    Event(type, tick, Nobody, Nobody, about, NoCause, data)

\* ref is a task, the task of a submission, an agent, a key or a capability;
\* result is also what is stored, what kind is transferred, or an input's name.
Action(type, ref, result, verdict) ==
    [type |-> type, ref |-> ref, result |-> result, verdict |-> verdict, amount |-> 0]

Transfer(to, kind, amount) ==
    [Action("transfer", to, kind, TRUE) EXCEPT !.amount = amount]

Plain(type, ref) == Action(type, ref, "right", TRUE)

NoEvent == Event("none", 0, Nobody, Nobody, 0, NoCause, NoData)

\* The numbers of a finite set in their order.
Ascending(S) ==
    [i \in 1 .. Cardinality(S) |-> CHOOSE x \in S : Cardinality({y \in S : y < x}) = i - 1]

\* The elements of a sequence at some of its places.
Selected(s, places) ==
    LET order == Ascending(places)
    IN [i \in DOMAIN order |-> s[order[i]]]

\* The reason of the first check, <<condition, reason>>, that fails.
FirstFailure(checks) ==
    LET failing == {i \in DOMAIN checks : checks[i][1]}
    IN IF failing = {} THEN "none" ELSE checks[Min(failing)][2]

-----------------------------------------------------------------------------
(* Resources. *)

Affords(balance, cost) == \A k \in Kind : balance[k] >= cost[k]
Plus(r, s) == [k \in Kind |-> r[k] + s[k]]
Minus(r, s) == [k \in Kind |-> r[k] - s[k]]

CeilDiv(n, d) == (n + d - 1) \div d

Priced(base, physics) ==
    [base EXCEPT !["credits"] = CeilDiv(@ * physics.price, PPM)]

\* scaledCost throws: something is to be carried and there is no capacity.
Unavailable(base, physics) ==
    Priced(base, physics)["bandwidthBytes"] > 0 /\ physics.capacity = 0

ScaledCost(base, physics) ==
    [Priced(base, physics) EXCEPT !["bandwidthBytes"] =
        IF @ = 0 THEN 0 ELSE CeilDiv(@ * PPM, physics.capacity)]

\* What an accepted task is rewarded with.
RewardedKinds ==
    Selected(KindOrder, {i \in DOMAIN KindOrder : AcceptedTaskReward[KindOrder[i]] > 0})

-----------------------------------------------------------------------------
(* The world. *)

NoTask == [status |-> "none", by |-> Nobody, created |-> 0,
           result |-> "none", accepted |-> FALSE]

NoMessage == [stage |-> "none", from |-> Nobody, to |-> Nobody]

InitialWorld ==
    [tick |-> 0, started |-> FALSE, completed |-> FALSE,
     born |-> 0, active |-> {},
     balance |-> [a \in Agent |-> [k \in Kind |-> 0]],
     treasury |-> [k \in Kind |-> 0],
     physics |-> [price |-> PPM, capacity |-> PPM, load |-> PPM],
     task |-> [t \in Task |-> NoTask],
     memory |-> [a \in Agent |-> [k \in Key |-> "none"]],
     owner |-> [c \in Capability |-> Nobody], verified |-> {}, links |-> {}, message |-> NoMessage, metrics |-> 0]

Deadline(w, t) == w.task[t].created + DeadlineTicks
Open(w) == {t \in Task : w.task[t].status \in {"available", "claimed", "submitted"}}
Overdue(w, t, tick) == Deadline(w, t) < tick
Available(w, t) == t \in Task /\ w.task[t].status = "available"
HeldBy(w, t, a) == t \in Task /\ w.task[t].status = "claimed" /\ w.task[t].by = a
Submitted(w, t) == t \in Task /\ w.task[t].status \in {"submitted", "completed"}
Linked(w, a, b) == {a, b} \in w.links
Neighbors(w, a) == {b \in Agent \ {a} : Linked(w, a, b)}

\* What prepareWorldEventTransition requires of an event that follows the
\* event prev; it throws when it does not get it.  First of every event ...
InCourse(w, e) ==
    /\ e.tick >= w.tick
    /\ ~w.completed
    /\ w.started <=> e.type # "run.started"

\* The actor is there, and the event names what caused it.
ActiveWithCause(w, e) == e.actor \in w.active /\ e.cause # NoCause

\* ... then of agents,
LegalOfAgent(w, e) ==
    /\ e.type = "agent.created" => e.tick = 0 /\ e.actor = w.born + 1
    /\ e.type = "agent.retired" => ActiveWithCause(w, e)

\* of the work on a task,
LegalOfTask(w, e) ==
    LET t == e.about
        inTime == ~Overdue(w, t, e.tick)
    IN /\ e.type = "task.created" => w.task[t].status = "none"
       /\ e.type = "task.claimed" =>
            ActiveWithCause(w, e) /\ Available(w, t) /\ inTime
       /\ e.type = "task.submitted" => ActiveWithCause(w, e) /\ HeldBy(w, t, e.actor) /\ inTime

\* of what an agent remembers,
LegalOfMemory(w, e) ==
    /\ e.type = "memory.stored" =>
        /\ ActiveWithCause(w, e)
        /\ e.data.action = "execute" => HeldBy(w, e.about, e.actor)
    /\ e.type = "memory.retrieved" =>
        /\ ActiveWithCause(w, e)
        /\ w.memory[e.actor][e.about] # "none"
        /\ e.data.result = w.memory[e.actor][e.about]

\* of what becomes of it,
LegalOfJudgement(w, e) ==
    LET t == e.about
    IN /\ e.type = "task.evaluated" =>
            /\ w.task[t].status = "submitted" /\ w.task[t].by = e.actor
            /\ e.cause = <<"task.submitted", e.actor, t>>
       /\ e.type = "submission.verified" =>
            /\ ActiveWithCause(w, e)
            /\ w.task[t].status = "completed"
            /\ e.target = w.task[t].by /\ e.target # e.actor
            /\ <<t, e.actor>> \notin w.verified
            /\ e.data.verdict <=> e.data.result = w.task[t].result
       /\ e.type = "task.expired" =>
            w.task[t].status \in {"available", "claimed"} /\ Overdue(w, t, e.tick)

\* of links,
LegalOfLink(w, e, prev) ==
    LET delivered == [stage |-> "delivered", from |-> e.actor, to |-> e.target]
    IN /\ e.type \in {"link.created", "link.removed"} =>
            /\ ActiveWithCause(w, e)
            /\ Linked(w, e.actor, e.target) <=> e.type = "link.removed"
       /\ e.type = "link.created" => e.target \in w.active \ {e.actor}
       /\ e.type = "link.used" => w.message = delivered /\ e.cause = prev

\* of resources,
LegalOfResource(w, e) ==
    LET t == e.about
    IN /\ e.type = "resource.spent" =>
            /\ e.actor \in w.active /\ e.cause = NoCause
            /\ Affords(w.balance[e.actor], e.data.cost)
       /\ e.type = "resource.transferred" => e.data.amount > 0 /\ e.target # e.actor
       /\ e.type = "resource.transferred" /\ e.actor = Treasury =>
            /\ w.task[t].status = "completed" /\ w.task[t].accepted
            /\ e.target = w.task[t].by /\ e.target \in w.active
            /\ e.cause = <<"task.evaluated", e.target, t>>
            /\ w.treasury[e.data.kind] >= e.data.amount
       /\ e.type = "resource.transferred" /\ e.actor # Treasury =>
            /\ ActiveWithCause(w, e) /\ e.target \in w.active
            /\ w.balance[e.actor][e.data.kind] >= e.data.amount

\* of capabilities,
InvocationOutcome(w, c, caller, input) ==
    LET publication == Publications[c]
    IN IF ExecuteCapabilityPlan(publication, Inputs[input]).failed THEN "execution_failed"
       ELSE IF ~Affords(w.balance[caller], publication.cost) THEN "insufficient_resources"
       ELSE "accepted"

LegalOfCapability(w, e) ==
    LET c == e.about
    IN /\ e.type = "capability.published" =>
            /\ ActiveWithCause(w, e)
            /\ w.owner[c] = Nobody /\ ValidPublication(Publications[c])
       /\ e.type = "capability.used" =>
            /\ ActiveWithCause(w, e)
            /\ w.owner[c] # Nobody /\ e.target = w.owner[c]
            /\ e.data.outcome = InvocationOutcome(w, c, e.actor, e.data.input)

\* and of messages.
LegalOfMessage(w, e, prev) ==
    LET sent == [stage |-> "sent", from |-> e.actor, to |-> e.target]
    IN /\ e.type = "message.sent" => ActiveWithCause(w, e)
       /\ e.type = "message.delivered" =>
            w.message = sent /\ e.actor \in w.active /\ e.cause = prev
       /\ e.type \in {"message.sent", "message.delivered"} =>
            e.target \in w.active \ {e.actor} /\ Linked(w, e.actor, e.target)

Legal(w, e, prev) ==
    /\ InCourse(w, e)
    /\ LegalOfAgent(w, e) /\ LegalOfTask(w, e) /\ LegalOfJudgement(w, e)
    /\ LegalOfLink(w, e, prev) /\ LegalOfResource(w, e) /\ LegalOfMessage(w, e, prev)
    /\ LegalOfMemory(w, e) /\ LegalOfCapability(w, e)
    /\ e.type = "violation.recorded" => e.actor \in w.active

AfterPressure(physics, data) ==
    CASE data.type = "resource_price_multiplier" ->
            [physics EXCEPT !.price = (@ * data.value) \div PPM]
      [] data.type = "bandwidth_capacity_multiplier" ->
            [physics EXCEPT !.capacity = (@ * data.value) \div PPM]
      [] data.type = "task_load_multiplier" ->
            [physics EXCEPT !.load = (@ * data.value) \div PPM]
      [] data.type = "retire_agent_fraction" -> physics

\* Fault: the fee goes to no owner that is retired.
PaidToActive(w, e) ==
    LET cost == Publications[e.about].cost
        charged == [w EXCEPT !.balance[e.actor] = Minus(@, cost)]
    IN IF e.data.outcome # "accepted" THEN w
       ELSE IF e.target \in w.active \ {e.actor}
            THEN [charged EXCEPT !.balance[e.target] = Plus(@, cost)]
       ELSE IF e.target = e.actor THEN [charged EXCEPT !.treasury = Plus(@, cost)]
       ELSE charged

\* The fee of a capability goes to its owner, who may be retired by now.
Paid(w, e) ==
    LET cost == Publications[e.about].cost
        charged == [w EXCEPT !.balance[e.actor] = Minus(@, cost)]
    IN IF e.data.outcome # "accepted" THEN w
       ELSE IF e.target = e.actor THEN [charged EXCEPT !.treasury = Plus(@, cost)]
       ELSE [charged EXCEPT !.balance[e.target] = Plus(@, cost)]

\* From the treasury, or from an agent.
Transferred(w, e) ==
    LET data == e.data
        given == [w EXCEPT !.balance[e.target][data.kind] = @ + data.amount]
    IN IF e.actor = Treasury
       THEN [given EXCEPT !.treasury[data.kind] = @ - data.amount]
       ELSE [given EXCEPT !.balance[e.actor][data.kind] = @ - data.amount]

\* The mutation of a legal event.
Mutated(w, e) ==
    LET t == e.about
        data == e.data
    IN
    CASE e.type = "run.started" ->
            [w EXCEPT !.started = TRUE, !.treasury = data.treasury]
      [] e.type = "agent.created" ->
            [w EXCEPT !.born = @ + 1, !.active = @ \union {e.actor},
                      !.balance[e.actor] = data.resources]
      [] e.type = "agent.retired" -> [w EXCEPT !.active = @ \ {e.actor}]
      [] e.type = "pressure.applied" ->
            [w EXCEPT !.physics = AfterPressure(@, data)]
      [] e.type = "task.created" ->
            [w EXCEPT !.task[t] = [NoTask EXCEPT !.status = "available",
                                                 !.created = e.tick]]
      [] e.type = "task.expired" -> [w EXCEPT !.task[t].status = "expired"]
      [] e.type = "task.claimed" ->
            [w EXCEPT !.task[t].status = "claimed", !.task[t].by = e.actor]
      [] e.type = "memory.stored" ->
            [w EXCEPT !.memory[e.actor][t] = data.result]
      [] e.type = "task.submitted" ->
            [w EXCEPT !.task[t].status = "submitted", !.task[t].result = data.result]
      [] e.type = "task.evaluated" ->
            [w EXCEPT !.task[t].status = "completed",
                      !.task[t].accepted = data.accepted]
      [] e.type = "submission.verified" ->
            [w EXCEPT !.verified = @ \union {<<t, e.actor>>}]
      [] e.type = "link.created" ->
            [w EXCEPT !.links = @ \union {{e.actor, e.target}}]
      [] e.type = "link.removed" ->
            [w EXCEPT !.links = @ \ {{e.actor, e.target}}]
      [] e.type = "message.sent" ->
            [w EXCEPT !.message = [stage |-> "sent", from |-> e.actor, to |-> e.target]]
      [] e.type = "message.delivered" -> [w EXCEPT !.message.stage = "delivered"]
      [] e.type = "link.used" -> [w EXCEPT !.message = NoMessage]
      [] e.type = "resource.spent" ->
            [w EXCEPT !.balance[e.actor] = Minus(@, data.cost),
                      !.treasury = Plus(@, data.cost)]
      [] e.type = "resource.transferred" -> Transferred(w, e)
      [] e.type = "capability.published" -> [w EXCEPT !.owner[t] = e.actor]
      [] e.type = "capability.used" -> Paid(w, e)
      [] e.type = "run.completed" -> [w EXCEPT !.completed = TRUE]
      [] e.type = "metrics.recorded" -> [w EXCEPT !.metrics = @ + 1]
      [] e.type \in {"memory.retrieved", "cognition.recorded",
                     "violation.recorded", "tick.completed"} -> w

Applied(w, e) == [Mutated(w, e) EXCEPT !.tick = e.tick]

-----------------------------------------------------------------------------
(* The generators the live engine and the verifier both run. *)

\* The pressures due in a tick, each announced, then the agents they retire.
PressureEvents(pressures, tick, retired) ==
    LET due == Selected(pressures, {i \in DOMAIN pressures : pressures[i].tick = tick})
        announced == [i \in DOMAIN due |->
                        SystemEvent("pressure.applied", tick, i, due[i])]
        causes == {i \in DOMAIN due : due[i].type = "retire_agent_fraction"}
        gone == Ascending(retired)
    IN announced \o [i \in DOMAIN gone |->
            Event("agent.retired", tick, gone[i], Nobody, tick,
                  EventId(announced[CHOOSE c \in causes : TRUE]), NoData)]

\* The sets of agents a tick may retire, whatever its shuffle.
Retirements(w, pressures, tick) ==
    {gone \in SUBSET w.active :
        \E i \in DOMAIN pressures :
            /\ pressures[i].type = "retire_agent_fraction"
            /\ Cardinality(gone) =
                IF pressures[i].tick # tick THEN 0
                ELSE (Cardinality(w.active) * pressures[i].value) \div PPM}

\* The next tasks of a stream that generated `sequence` of them.
StreamTasks(sequence, count) ==
    [i \in 1 .. Min({count, Tasks - sequence}) |-> sequence + i]

-----------------------------------------------------------------------------
(* The neutral policy: what an agent may choose, whatever its stream draws. *)

NeutralWork(w, a, t) ==
    IF w.memory[a][t] = "none" THEN Plain("execute", t)
    ELSE Action("submit", t, w.memory[a][t], TRUE)

\* exploreTopology.  Links outlive the agents they join, so a neighbour may
\* be retired; an agent without any neighbour always looks for one.
Explorations(w, a) ==
    LET connectable == (w.active \ {a}) \ Neighbors(w, a)
    IN {<<Plain("connect", b)>> : b \in connectable}
       \union {<<Plain("send", b)>> : b \in Neighbors(w, a)}
       \union (IF Neighbors(w, a) = {} /\ connectable # {} THEN {} ELSE {<<>>})

\* With fewer available tasks than agents, one may decline to claim.
NeutralChoices(w, a, tick) ==
    LET viable == {t \in Task : ~Overdue(w, t, tick)}
        claimed == {t \in viable : HeldBy(w, t, a)}
        available == {t \in viable : Available(w, t)}
    IN IF claimed # {} THEN {<<NeutralWork(w, a, t)>> : t \in claimed}
       ELSE {<<Plain("claimTask", t)>> : t \in available}
            \union (IF Cardinality(available) >= Cardinality(w.active) THEN {}
                    ELSE Explorations(w, a))
=============================================================================
