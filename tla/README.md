# Verification of agent-native-universe

This directory is the formal side of the repository: TLA+ modules translated
from the TypeScript under `src/`, configurations with which TLC checks them on
small instances, and theorems that TLAPS proves for every value of the
constants. Paths below are relative to the repository root (`src/v2/...`).

    tlc -workers 2 -config bft_one_view.cfg MCNetworkBft.tla     # one run
    tlapm NetworkBftProofs.tla                                   # the proofs

Contents: 1 the system, 2 the modules, 3 the runs, 4 bounds, 5 fairness,
6 proofs, 7 where the code departs from its documents, 8 what no property
covers, 9 the plan.

## 1. The system

Three generations live side by side. `src/core` and `src/runtime` are an
in-process network of agents whose relationships are themselves stateful
objects. `src/v1` makes the graph of that network durable and distributed. `src/v2`
adds a networked commit protocol, a persistent resource economy, metered thinking,
and discovery between machines. `src/lab` is a deterministic laboratory that runs
populations of agents as event-sourced experiments. Everything runs on the Node.js event
loop: a handler runs to its next `await` without interruption, and whatever is
hard here happens between two awaits, or between two processes.

### Modelled

**Networked BFT committee** (`src/v2/network-consensus.ts`).
State: `#view`, `#sequence`, `#committed`, `#pending` rounds with their timers and
votes, `#viewVotes`. Operations: `propose`, the handlers of `bft.proposal`,
`bft.vote`, `bft.commit` and `bft.view-change`, `requestViewChange`, `start`, `stop`, `restore`.
It talks to its peers by frames on connections of their own, and to its host by
the callbacks `validateCommand` and `applyCommit`. Hard: position is compared
before an await and used after it; votes are not remembered; commits overtake one another; a
round times out while its votes arrive; all state is in memory. Correct when a
sequence number stands for one command, nothing is applied without a
quorum, and proposals and view changes come to an end.

**Durable graph replica** (`src/v1/distributed-node.ts`, `persistence-consensus.ts`,
`node-runner.ts`). State: the hash-chained write-ahead log and the snapshot on disk; sequence, last
hash and graph in memory; the promise chain of commits. Operations: `start` (recovery),
`commit`, `checkpoint`, and the signal handler that checkpoints and exits. Hard: the
process may end at any await, the last line may be torn, the reducer may throw after
the append, and the signal handler does not use the commit chain. Correct when the replica can
always be started from its files and gives back everything it acknowledged.

**Resource economy and market** (`src/v2/persistent-market.ts`). State: balances of accounts and
escrows, a journal, offers, bids and trades, in memory and in one file. Operations: mint, burn,
transfer, reserve, settle and refund reservations, place and cancel orders, expire,
match, settle and refund trades, checkpoint. Every mutation goes through `mutate`:
clone, operate, validate, write, roll back on failure, one after the
other. Hard: partial fills with minimum fills, price improvement and escrow
arithmetic; a write that fails after memory has changed. Correct when escrows cover promises
exactly, matching never throws and respects price priority, and the file only moves by
whole operations.

**Metered cognitive loop** (`MeteredCognitiveLoop` in `src/v2/cognitive-loop.ts`). State: what a
thought has reserved, whether it was answered, and what it has settled. One operation, `think`, with an await
on the economy or the provider at every step and a `catch` that may be entered from any of them.
Hard: other thoughts of the agent spend the same balance in between; a provider may use more than its
cap. Correct when nothing stays reserved, what was delivered is billed, and
nobody is paid more than agreed.

**Remote discovery and relationships** (`src/v2/distributed-discovery.ts`). State: advertisements,
relationships with revision, turn and pending revision, pending negotiations and
synchronisations with their timers. Operations: `tick` (advertise, expire, negotiate,
synchronise), the handlers of `discovery.advertise`, `relationship.propose`, `.decision`, `.boundary`
and `.ack`, `start`, `stop`, `registerAgent`, `unregisterAgent`. Hard: any frame may be lost or late, timers race
their answers, the two sides hold copies of one state machine. Correct when the copies stay within one
revision, agree on the turn, and keep alternating.

**Topology runtime and link protocol** (`src/runtime/topology-runtime.ts`, `universe.ts`, `negotiation.ts`,
`discovery-mesh.ts`, `src/core/link-protocol.ts`, `protocol-terms.ts`, `nano-agent.ts`). State: agents with
a lifecycle and the links they hold; links with terms, lifecycle, turn and counts of exchanges; advertisements and cooldowns;
of every call of `evolve` the phase it is in and what it awaits. Operations: `evolve` (discover, negotiate, synchronise,
review), and of the host connect, disconnect, retire, wait, quarantine, contradictions. Hard: several calls of `evolve`
and the host interleave at every answer an agent owes; links are retired while their participants are asked about them; agents
throw in the middle of a session. Correct when a pair has one link, terms are what both participants support, no
lifecycle outlives its session, and turns come round.

**Logical universe of the lab** (`src/lab/world.ts`, `reducer.ts`, `genesis.ts`, `capability-registry.ts`,
and the generators they call). State: a world that is a function of its events; streams of tasks, decisions and
pressures; oracles of the evaluator; checkpoint and metrics beside the log. A tick applies pressures, expires and generates tasks,
consults models, lets every agent decide upon one snapshot, resolves the shuffled decisions against payment,
evaluates, records metrics. Agents work on tasks, link, send, store and retrieve, give to one another, publish small programs and
use those of others. A run is paused at a boundary, dies anywhere, and is started again over its
evidence. Hard: decisions are stale when resolved; only some exceptions are caught; log, checkpoint and metrics
are three files; what is not in them is lost. Correct when resources are conserved, no event stops a tick
half way, and a paused run goes on as if it had not been.

**Protocol verifier of the lab** (`src/lab/protocol-verifier.ts`). State: what the events so far leave
expected. One operation, `verifyNext`, which regenerates pressures, tasks and decisions and refuses the first
event that differs. Hard: it states every rule of the engine a second time. Correct when it accepts
what the engine writes.

**Evidence of a run** (`src/lab/genesis.ts`, `artifacts.ts`, `event-recorder.ts`, `replay.ts`,
`evidence-verifier.ts`, `evidence-attestation.ts`). State: the directory of a run, with its lease, manifest, configuration, log,
metrics, checkpoints, summary, attestation and temporary files, what of it would survive a loss of power, and of every process
where it is in `runGenesis` or `attestRunEvidence`. Operations: every step of these two that touches a file, signals, kills, losses of power,
the removal of a stale lock. Hard: two runs race for the lease; an attester takes none; a process dies, or the machine does, between
two files that must agree; a resumed run may record what its own replay refuses. Correct when what is published is never contradicted by what is on the
disk afterwards, and a run that was not harmed is refused for such an event only.

**Population** (`src/lab/population.ts`, `population-worker.ts`). State: the pool's loops, the process of each
universe with its inbox, last message and exit, what became of each universe, and population.json. Operations: fork, send `run` and `cancel`, report,
exit, abort by a signal to the command or to the whole group, spawn errors, kills of a worker or of the command, publication of population.json. Hard: an abort
races the start of a process; messages, disconnection and exit come in their order; a killed command leaves
processes that hold leases. Correct when an abort reaches every process, nothing is at work when the command
returns, and commands that are given again finish: with the population published, unless a universe was resumed with tasks open and is refused by its replay.

### Not modelled yet, or in part

| Component | State and operations | What is hard, what would be correct |
|---|---|---|
| Cognitive scheduler (`src/v2/cognitive-loop.ts:303`) | minds, one timer per mind, `#running`; register, wake, runOnce, stop | `wake`, `register` or `start` while a mind thinks starts a second chain of timers, of which `stop` clears one, so a thought may begin after `stop`; one chain per mind, none after `stop` |
| Meta-agent controller (`src/v2/metaagent-controller.ts`) | counters of ticks per cluster; tick folds and unfolds through consensus | projection read before an await; hysteresis without oscillation |
| Autonomous node (`src/v2/autonomous-node.ts`) | composes committee, economy, discovery, minds and controller; guarded `tick` | overlapping ticks, order of start and stop |
| Encrypted transport, identities (`src/v2/encrypted-transport.ts`, `identity.ts`) | sockets, nonce window | a nonce is accepted once within its window |
| Static committee (`src/v1/consensus.ts`) | certificates and view changes over a static membership | no vote lock, no catch-up on receipt |
| Fractal runtime (`src/v1/fractal-runtime.ts`) | agents, links, meta-agents; fold, unfold | `unfold` undoes `fold` |
| Economy and routing v1 (`src/v1/economy-llm.ts`) | ledger, market, provider health | forerunner of the persistent market; fail-over between providers |
| Transport and key files v1 (`src/v1/security-transport.ts`, `identity-store.ts`) | framing, replay window, PEM files | I/O and cryptography |
| Agents (`src/core/nano-agent.ts`, `network-policy.ts`, ...) | budgets, scoring, state; of an agent its lifecycle and links are modelled | pure functions and data |
| Topology: clones, splits and merges, `src/storage/event-store.ts` | what is left of `src/runtime` | data; the event store appends |
| Lab: runner and baselines (`src/lab/runner.ts`, `baselines.ts`, `pareto.ts`, ...) | command line, controls, comparisons | pure functions over finished runs |
| Lab: gateway (`src/lab/gateway.ts`; of `cognition.ts` what a consultation yields is modelled) | concurrency, rate and budget limits, drain | limits are checked before awaits, so as many requests as may be in flight pass after a stop; every handler drained at close |
| Lab: observer (`src/lab/observer.ts`, `observer-ui.ts`) | index cache with leases over HTTP | leased entries are not evicted; the rest is I/O |
| Command line, exports, examples | none | none |

### How the parts meet

The autonomous node owns one of each v2 part and calls them from a periodic tick. The
committee's `applyCommit` folds and unfolds clusters of the graph, and the controller proposes both through
the committee; its frames and those of discovery share the encrypted transport, which opens a connection per frame, so
that frames may overtake one another. The cognitive loop calls the economy once per
await. The durable replica receives certificates of a static committee
and keeps them in its log. In the laboratory a population starts one process per universe, a process runs one universe
over its evidence, and the universe appends events that the verifier takes.

The models meet where the code does. `DurableMarket` extends `Market`, and
`MeteredThought` abstracts each call of the market to one atomic mutation,
which `DurableMarket` shows it to be (`FileImplementsMarket`). `TopologyRuntime` extends `LinkProtocol`. `LogicalUniverse`
extends `ProtocolVerifier`, that `LabWorld` and that `CapabilityPlan`: engine and verifier run side by side, over the
same reducer. Of the three levels of the laboratory each shows the next one what it is: `LogicalUniverse` that the events of a tick are
accepted, but for those of 7.4 to 7.6, and checkpoints are resumable, `RunEvidence` what the directory then holds whatever is killed, `Population` what a command makes of
universes whose evidence is as `RunEvidence` leaves it.

## 2. The modules

An action is the code between two awaits. What a handler has read before an await and
uses after it is part of the state (`validating`, `applying`, `commit`,
`closing`, `deciding`, `at`, `round`, `proc`), so that other handlers run in between. Names are the
source's names where TLA+ allows it. `PROJECT.json` maps every definition to its lines.

Three conventions. *Faults*: what may go wrong in a behaviour is chosen in `Init` from the constant
`FaultModels` or `Scenarios` and kept in a variable (`faults`, `scenario`) that never
changes, with a count of what is still to come (`left`) where harm is counted; one run then covers several fault models, and a
property that needs one of them absent says so in its premise. *Fault operators*: a definition whose comment starts with
"Fault:" is a plausible mistake in the definition that follows it. No specification uses it; replacing
the definition by it makes the named property fail, which shows that the property depends on that code.
*Properties* come last in a module; those that the code does
not keep are worded as the documents have them and say so.

| Module | Models | State and actions |
|---|---|---|
| `NetworkBft` | `NetworkByzantineNode` for a committee of any size | `Propose`/`FinishPropose` and `HandleProposal`/`CastVote` are `propose` and `#handleProposal` before and after the await of `validateCommand`; `ReceiveVote` with `recordVote` and `BroadcastCommit`/`ApplyThrows` are `#recordVote` and `#applyAndBroadcast` around `applyCommit`; `ReceiveCommit`, `RoundTimeout`, `RequestViewChange`, `HandleViewChange`, `Start`, `Stop`, `Restore`; `Crash` is the end of a process, after which a new one starts at view 0 and sequence 0, as the autonomous node constructs it |
| `NetworkBftProofs` | theorems about it | see 6 |
| `CommandLog` | what a durable replica promises: a log that grows by one new command at a time, acknowledgement only of what is in it | abstract |
| `GraphStore` | the commit chain over log and snapshot | `Begin`, `Write`, `Sync`, `Checkpoint`, `Reply` are the awaits of one `commit`; `Recover` is the fold over the lines that `recover` does; `Shutdown`, `BuildSnapshot`, `RenameSnapshot`, `Exit` are the signal handler; `Crash`, `CrashInWrite`, `SyncFails` the failures |
| `GraphStoreProofs` | theorems about it, and that it implements `CommandLog` | see 6 |
| `Market` | every operation of `PersistentResourceEconomy` | an operation is a function from books to books with `ok = FALSE` where the code throws; `match` is two loops over the sorted orders, as in the code, each of them a recursive function |
| `DurableMarket` | `open`, `mutate`, `enqueue`, `persist`, `checkpoint` | `books` in memory, `file` on disk; `Mutate` changes memory and starts to write, `Rename`, `Resolve`, `WriteFails`, `Crash` end it |
| `DurableMarketProofs` | theorems about it and about `Market` | see 6 |
| `MeteredThought` | `MeteredCognitiveLoop.think` for several thoughts of one agent | one action per await; `CatchTokens` and `CatchCredits` are the catch clause |
| `RemoteRelationship` | discovery, negotiation and synchronisation between nodes | `Tick` is `Announce`, `Expire`, `Negotiate` and `Synchronize`; `HandleAdvertisement`, `HandleProposal`/`Decide`, `HandleDecision`, `HandleBoundary`, `HandleAck`; both timers, `Lose`, `Start`, `Stop`, `Register`, `Unregister` |
| `RemoteRelationshipProofs` | theorems about it | see 6 |
| `LinkProtocol` | terms, patches and the lifecycle of a link | pure: a transition is an operator from link to link, with what it refuses beside it |
| `TopologyRuntime` | the universe and `TopologyRuntime.evolve` | `universe` is agents and links, `round[r]` a call of `evolve` with its phase and its open sessions and reviews; `Evolve` takes one answer of one of them further, `Host` is what the host may call in between |
| `TopologyRuntimeProofs` | theorems about both | see 6 |
| `CapabilityPlan` | `capability-registry.ts` | pure: `Execution` folds a plan over a workspace, `ValidPublication` and the checks of an invocation around it |
| `LabWorld` | the reducer, the costs of actions, the neutral policy | pure: `Legal` is what `prepareWorldEventTransition` requires, one named part per family of events, `Applied` its mutation; `PressureEvents`, `StreamTasks`, `NeutralChoices` are the generators |
| `ProtocolVerifier` | `LabProtocolVerifier` | pure: its fields are a record, `VerifyNext` is `verifyNext` |
| `LogicalUniverse` | `LogicalUniverse.run` and `runGenesis` | an action per event that is appended, so a crash may fall between any two; `Commit` is `#commit` and feeds the verifier; `BeginTick`, `Consult`, `DecideAll` draw from the streams; `Pause`, `CompleteRun`, `FinishRun`, `Crash`, `Recover` are the life of the run |
| `AccountingProofs` | theorems about it and about `MeteredThought` | see 6 |
| `EvidenceRecord` | what the evidence of a run promises a reader: a chain that grows, one summary of the whole of it, one attestation of the summary | abstract |
| `RunEvidence` | the steps of `runGenesis` and `attestRunEvidence` at the disk | `disk` is the directory, `proc[p]` where a process is in its code; `Work` is its next step, `Pause`, `Kill`, `LosePower`, `RemoveStaleLock` what happens to it |
| `RunEvidenceProofs` | theorems about it, and that it implements `EvidenceRecord` | see 6 |
| `Population` | `runPopulation` and its workers | `parent` and `worker` are the command and the loops of its pool, `child` the processes, `evidence` and `populations` the disk; `Work` is whatever can go on, `Fail`, `Abort`, `RivalPublishes`, `RemoveStaleLease` the rest |
| `PopulationProofs` | theorems about it | see 6 |
| `MC...` | constants for TLC | `MCMarket` also starts from endowed accounts |

What the models leave out. Committee members are honest: crashes, omissions and
delays are modelled, arbitrary behaviour is not; a signed message is what its
signature covers and a digest is the thing digested. A v1 graph is the sequence of
commands applied to it; of the reducer only its exception matters. Market metadata, the
texts of the journal and ids are left out; the journal is the two sums the code reads
from it. In relationships the terms, payloads and scores are left
out and a node has one agent: a candidate is any node that is known and not related, which includes every choice the scores
could make, and an advertisement is the node it comes from.

Between agents of one process a boundary is whether it was accepted; of a strength the bands its thresholds cut are kept, of a
score the order, of terms the mode of turns, the cost and the length of probation. Time is the host's: a comparison with
it may go either way, as far as a scenario does not say. Clones, splits and merges, reports and metrics are left out.

In the lab a seeded stream is a choice, which the verifier finds again in `draw` as it would by drawing: but only
if it asks for the decisions of the same world with the same recorded answers. A result is the one the
oracle expects or not. Two kinds of resource stand for five: one that is only priced, one that has a
capacity too. A value in a plan is a number, or a text of which the length is kept. The numbers in metrics, the control arms of
`baselines.ts` and the syntax of names are left out. The log is not kept: `world` and `verifier` are what its replay makes of it.

On the disk of a run an event carries the one thing that may differ between two runs, a model's answer, and names the history before
it in place of a hash; or it is `Unexpected`, one that the protocol verifier refuses in every replay (`Accepted`). Why it does is the matter of `LogicalUniverse`;
`RunEvidence` records such an event where that module finds one (`Recordable`): at an evaluation in a run that was resumed with a task open (`open` of a scenario, `blind` of
a process), and in one with answers of a model. In a population evidence with such an event is not `sound`. A directory entry is durable once linked, temporary names of two processes differ, all processes are given the same
manifest; guards against links and oversized files are left out. `RemoveStaleLock` removes only a lock whose owner is gone,
as the operator is told to. In a population the summary of a universe is a function of it, so two commands never differ in population.json, and a message of a
worker is received before its exit is noticed, as libuv has it.

## 3. The runs

| Run | Shows |
|---|---|
| `bft_one_view` | Four members, one view, two commands, four fault models (rejections with timeouts and a throwing `applyCommit`; stops; restores with timeouts; lost processes). A member applies one command per number and none ahead of its position (`OncePerSequence`); members agree (`SameViewAgreement`) and the proposer applies first (`ProposerFirst`) unless a process is replaced; what is applied was accepted by a quorum (`AppliedByQuorum`). |
| `bft_views` | Two commands in one view with all four members or three of them, so that commits may overtake one another; and two views with one command and a member down. A view has a quorum behind it (`ViewBackedByQuorum`). Under fairness a number that is proposed in its turn is applied at every running member, whatever is proposed next and overtakes it, unless a view change is asked for (`ProposalCommits`); what is proposed while a commit is on its way may be lost, see 7.9. And a view that one member enters is entered by all that run (`ViewReachesRunning`). |
| `bft_cross_view` | Counterexample to `Agreement`, see 7. |
| `graph_store` | Three fault models. With crashes only, recovery always succeeds (`RecoverySucceeds`) and the replica implements `CommandLog` (`ImplementsCommandLog`). The snapshot is a prefix of the log, even when the signal handler wrote it (`SnapshotAnchored`). Without the signal handler a recovery that succeeds returns all that was acknowledged and extends what was visible (`RecoveryFaithful`). |
| `market_match` | From endowed accounts, two offers and two bids, placed, cancelled, expired, matched, settled and refunded in every order. Escrows equal promises (`EscrowExact`); from every reachable book `match` does not throw, is not refused by `validateState` and leaves no pair that could trade (`MatchExhausts`), and passes over no better order that would have taken the quantity (`PricePriority`); only settlement changes what an account owns (`OnlySettlementTransfers`). |
| `durable_market` | All operations, crashes, failed writes. The file is an instance of `Market` (`FileImplementsMarket`); memory at rest equals the file (`MemoryMatchesFile`). |
| `thought_paths` | Two thoughts, both policies, scarce and ample funds, failures of provider, decision and economy. A thought that has ended holds nothing, and has paid for its tokens or says what is unbilled (`EndedIsSettled`); the provider is paid what it delivered on success and never more (`PaidAsAgreed`); under fairness an answer is followed by the release of the reservations (`AnsweredIsReleased`). |
| `relation` | Two nodes, four scenarios: losses and early timers; everything else at once with one proposal; a slow network that answers; strangers whose advertisements are lost or expire. `SidesInStep` in all, and in the third under fairness `AlternationContinues` and `RelationshipsMirrored`, through counter-offers and proposals in both directions. |
| `topology` | Three agents, or two of them; one call of `evolve` after the other or two at once; agents that throw or answer anything; a host that waits, disconnects, quarantines, connects, contradicts. A pair has one link, and universe and agents mirror one another where links are made by one call alone (`Integrity`); no agent and no link stays in a session that is over (`NothingLeftNegotiating`); a negotiated link has terms both support and serves its probation (`AgreementKept`); with one call after the other the turn of a link comes round (`TurnComesRound`). |
| `universe` | Seven configurations: three of the neutral policy (undisturbed; price and retirement; load), three with recorded answers (work, also on a task that does not exist, guesses and verification under a lost capacity; links, messages, and actions the world does not know; memory, transfers and uses), one of a policy given in code that publishes, uses, gives and throws; each with pauses, crashes and one restart. Resources are conserved at every event (`ResourcesConserved`), no event the engine determined is refused by the reducer (`EngineNeverThrows`), what a pause leaves is what a resume requires (`PauseIsResumable`), and the verifier refuses nothing but the two kinds of events of 7.5 and 7.6 (`RefusedForKnownReason`). |
| `evidence` | Two runs and an attester over one directory, thirteen scenarios of signals, kills and losses of power between any two steps. What is on the disk implements `EvidenceRecord` unless a kill and a loss of power meet (`ImplementsEvidenceRecord`, see 7.16); whoever is told of a result finds it published and of what it was told (`ReturnedIsPublished`); without harm no run is refused or given up but for an event the verifier does not take, which a neutral run records only after a pause with tasks open (`RefusedOnlyAfterHarm`), and one that is given again comes to its attestation or to such an event (`EventuallyAttested`). The scenarios include pauses that leave tasks open: there the replay of a run that nobody harmed does refuse it, at its end or at its next start (7.4). |
| `population` | One to three universes in pools of one or two, the command given twice, with aborts by a message or by the terminal, failing spawns and runs, killed processes and commands. An abort reaches every process, at whatever moment of its start (`AbortReachesChildren`); a command that returns leaves no process at work, no temporary file, and population.json over published universes only, and fails without harm only for a universe that was taken up again with tasks open (`SettledIsQuiet`); every command ends (`PopulationSettles`), and without harm the population is published or such a universe is refused (`EventuallyPublished`). One scenario has tasks open at its abort. |

`CHECK_DEADLOCK FALSE` is set everywhere except in `evidence`: every one of these systems may come to rest, because nobody
has to call it and because the bounds below stop it. In `evidence` a run can always be given again.

## 4. Bounds

- *Committee*: four members, the least the constructor accepts (f = 1, quorum 3), so a quorum may or may
  not contain any one member. `Command`: two, enough for two rounds to compete for a number or to follow
  one another. `MaxView = 0` where the question is about one view: the position of the leader among the members is
  the only thing a view adds, and members other than the leader are symmetric. `MaxView = 1` for views, where the constraint `CommandsOrViews` takes two commands in one view, and one beside a change of views with a member down
  (`Down` has the sets of members that may be down). What it cuts off begins with a proposal or a request for a view change, which no fairness asks for, so the
  behaviours that stay are fair or not as they were. `bft_cross_view` has the constraint `OneCommitThenViewChange`, which only cuts behaviours
  away from a counterexample.
- *Log*: `MaxRecords = 4` lines with three commands, one a credit and one a debit, and a checkpoint every two:
  a record before, at and after the snapshot, and a line that repeats a number.
- *Market*: quantities and prices in {1, 2}, so that fills are whole or partial, a minimum fill binds or not,
  and a price improves or not; two offers and two bids, so that every order has a competitor; two instants, so
  that orders expire or not. `MaxSafe` stands for `Number.MAX_SAFE_INTEGER` and is reached: 4 in
  `market_match`, 1 in `durable_market`, where one unit of anything is enough for each operation to
  succeed and to fail. `MaxMinted` bounds what is minted: in `market_match` as much of a resource as is a safe number. If more than
  that is minted in all, what a bid gets back for a better price may take its account past a safe number, and `validateState`
  (`src/v2/persistent-market.ts:491`) refuses the round and every one after it; `MatchExhausts` has `MaxMinted <= MaxSafe` as its premise.
- *Thought*: reservations of 2 tokens and 2 credits and of 1 token and none, usages of 1 to 3 and 0 to 3: less
  than, equal to and more than each. `Funds`: scarce enough for top-ups to fail, ample enough for them to succeed.
- *Relationship*: `MaxRevision = 3` (the turn passes and comes back), two nodes, as a relationship has
  two, and up to three proposals: a first one, its counter-offer, and one in the other direction.
- *Topology*: three agents, so that one that is full has two suitors; two ids of links, which are never reused, so that a link
  may be made after one is gone; two calls of `evolve` where they are at once, and no bound on their number where they follow
  one another. `MaxOffers = 2` (`maxNegotiationRounds`): an offer and a counter-offer. `MaxInteractions = 2` and `ReviewEvery = 2`: probation
  and review begin both before and after the other. Strengths are the five bands the thresholds cut.
- *Universe*: two agents, one of them consulted, so that there is always contention and one left to the neutral policy. Four ticks: a
  task is claimed, executed and submitted in three, and one is left for what comes after, be it a verification, or the
  expiry of a task whose two ticks (`DeadlineTicks`) are over. Three tasks over a backlog of two. `PPM = 2`: prices and load
  double, capacity goes to nothing, half of the agents retire. Five credits do not pay for everything, and a
  treasury that starts with one sometimes cannot reward. `Restarts = 1`: one pause or crash and one start after it.
  Of capabilities `MaxPlanSteps = 2`, `MaxInterfaceFields = 2`, `MaxTestVectors = 1`, `MaxConcatLength = 2` and `MaxSafeInteger = 3`
  stand for the limits of the registry: one publication that passes its test, one that does not, inputs whose sum is in range, out of it, and
  incomplete.
- *Evidence*: two ticks with one row of metrics, at the end, and one checkpoint between them: a pause finds something behind it and something
  before it. Two answers, so that two runs may differ, and `Unexpected`. Tasks may be open at up to two pauses of racing runs, and at one pause beside one kill. Up to two kills, losses or signals: one harms a run, the other the one that
  recovers; and one kill with one loss, the least in which the two kinds of harm meet. Two runs, as a third meets only what a second one left; one attester.
- *Population*: two loops and three universes, so that a loop takes a second universe or stops while the other is at
  work; two commands, so that one finds what the other left; two ticks, so that a universe that was paused after one may record in the other what its replay
  refuses.

## 5. Fairness

Weak fairness of handlers and of delivery to running members in `NetworkBft`: the event loop
runs every callback that is due, and TCP delivers to a live peer. Nobody is obliged
to propose, to ask for a view change, to start or to restore: these are calls of the host. Faults have no
fairness.

In `MeteredThought` what follows an answer is fair, since it awaits the economy alone, which
returns or throws; the call of the provider is not, so a thought may stay there for ever.

In `RemoteRelationship` handlers, delivery, decisions, synchronisation timers, and the `Synchronize` of each
relationship whose turn it is are fair: Node.js fires a timer that is due, and the node's
`tick` is a repeating timer that tries every relationship. Announcements are not fair, and no property needs them to be. `"patience"` makes the assumption of
`AlternationContinues` explicit: a timer fires only when the frames it waits for have come to their end. With
`"timeout"` it may fire at any moment, and then the property is false (7.3).

In `TopologyRuntime` the calls of `evolve` go on: an agent that is asked answers or throws, and the host evolves again.
One turn per link
and round (`maxLinkTurnsPerRound`) is enough for `TurnComesRound`, in whatever order a round looks at its links; the property is about a host that calls
one `evolve` after the other and agents that do not throw.

In `RunEvidence` the steps of each run are fair, and a run that has ended is given again, as `docs/UNIVERSE_LAB.md` has the operator do; attesters,
signals, kills and losses are not, and a scenario bounds how many there are. In `Population` what has happened is handled and what can go on does,
as a whole (`WF_vars(Work)`): no process is promised a share, so `PopulationSettles` rests on every course of steps having an end.

`LogicalUniverse` states no fairness: its run is a course of
steps with an end, and that none of them is refused is an invariant. Liveness holds vacuously
of no run: each premise is reachable, which the mutants show.

## 6. Proofs

`NetworkBftProofs` (from `CommitteeAssumption`: at least four members, an order on them, nothing else):

- `TypeCorrect`: `Spec => []TypeOK`.
- `OneCommandPerNumber`: `OncePerSequence`, under all faults. A member applies only the successor of its
  position, which moves with it; `restore` only moves it forward and a new process has applied nothing. It is
  inductive with the bound `p.seq <= sequence[n]`, which is why the property has it.
- `AppliedNeedsQuorum`: `AppliedByQuorum`. `QuorumInv` adds that recorded votes have been cast (`Genuine`),
  and that certificates in `applying` and in flight carry a quorum of them.
- `ViewNeedsQuorum`: `ViewBackedByQuorum`, with `ViewInv`: recorded view changes have been sent.
- `ProposerAppliesFirst` and `AgreementWithinView`: `ProposerFirst` and `SameViewAgreement`. As replicas do not
  remember votes, no argument over intersecting quorums applies. `ProposerInv` says instead, unless
  processes are replaced: a certificate exists outside its proposer only after the proposer has
  applied it (`AppliedByProposer`), so whatever anyone applied the proposer of its view applied; and the proposer
  applies one command per number. The premise about crashes is handled by `FaultsRigid`: `faults` never changes.

`GraphStoreProofs` (from `StoreAssumption`: a torn line is no record, credits and debits are commands, the interval of checkpoints is positive). `StoreInv` says of each kind
of faults what holds of log, snapshot and memory under it; that the log is one chain is of crashes alone, as a failed sync may leave a number twice. `Replayed`, the loop of `recover`, is a recursive function; `ReplayedUnfolds` is
its recursion, and lemmas by induction on the line say what it makes of a longer log and of a chained one.

- `SnapshotIsAnchored`: `SnapshotAnchored`. Where syncs succeed the store is at the end of the log, or one line before it while a record is being synced (`Aligned`).
- `RecoveryIsFaithful`: `RecoveryFaithful`. Without a shutdown handler the state in memory is what the lines up to its sequence replay to, and holds what
  was acknowledged; but only as long as the log is whole, because after a failed sync it need not be (`Following`).
- `RecoveryAlwaysSucceeds`: `RecoverySucceeds`, with crashes alone. Every line can be replayed, and the command that
  is about to be written does not throw (`Replayable`).
- `ReplicaImplementsCommandLog`: `ImplementsCommandLog`, the whole specification of the abstract log, from the same invariant: a step of a commit is a step of the log when the
  record is synced, an acknowledgement is one when it is given, all others stutter.

`DurableMarketProofs`, for all sets of accounts, orders, quantities and prices, from `MarketAssumption` (credits are no goods; quantities and prices are positive; orders are
numbers, in the order of their ids):

- `MemoryIsDurable`: `MemoryMatchesFile`, with `WritingInv`: while nothing is being written memory is the file, and while something is, `before` is, until the rename.
- `FileIsAMarket`: `FileImplementsMarket`, the whole specification of the exchange, of the file alone. `SavingInv` adds that what has not come to the file yet is what
  one operation made of it (`Leads`): so a rename is a step of the exchange, and all other steps stutter.
- `EscrowsCoverPromises` and `EscrowsSurviveCrashes`: `EscrowExact`, of the exchange and of the exchange with its file. `Kept` is the inductive invariant. It says of each offer, bid and
  trade that its escrow holds what it promises, and of each id that is not in use that its escrow is empty; that an offer and a bid meet once, as one of them is used up then; and that what
  a bid has reserved is its quantity at its price, a safe number. Each posting touches two accounts, and lemmas say of each operation which promises those are behind; the loops of `expire`
  and `match` are inductions on the order they have come to.
- `MatchingExhausts`: `RoundExhausts`, which is `MatchExhausts` but for `validateState`, and without its premise. In books that are kept no posting of a round throws; orders only shrink during a round
  (`Shrinks`), so that two orders which have met cannot trade any more (`Done`), and the loops let all of them meet.
- `MatchingHasPriority`: `PricePriority`. When two orders trade, each is done with all that come before the other in its list, and stays so (`Prior`).
- `OnlyMintedIsHeld`: whatever accounts one takes, together they hold no more of a resource than was minted of it (`Covered`). With `Kept`, and with escrows of credits that
  never hold goods (`Barred`), this is `Funded`, the inductive invariant of the next two. What accounts hold together is a fold over a set, of which the lemmas give what a proof needs
  (`Sums`, `SumOfPart`, `TogetherStep`): each is an induction over the subsets of a finite set (`SubsetInduction`).
- `MatchingNeverStops`: `MatchExhausts` whole. One account holds no more than all of them, and they hold no more than `MaxMinted`; so no balance a round leads to exceeds a safe number.
- `OnlySettlementMoves`: `OnlySettlementTransfers`. What an account owns is what it and the escrows of its offers and bids and of its trades hold together (`Estate`). The orders that are open change with each
  operation, so the proof speaks of all escrows it could have (`Wide`), of which those that promise nothing are empty (`EstateHolds`); and each posting outside settlement is between
  two accounts of one owner, so that it flows within an estate or past it (`Flow`), in `expire` and `match` one posting after the other (`Passed`).

`AccountingProofs`, of `MeteredThought` (from `ThoughtAssumption`: every thought reserves some tokens and every answer uses some; amounts are naturals), for every number of thoughts: `ThoughtInvariant`. At each await `AwaitInv` gives what is
reserved, paid and settled, and for the catch clause what all the awaits that lead to it have in common, which is the hard part: tokens that are settled, or a reservation that pays for them as far as
it goes. `EndedSettled` and `PaidFairly` (`EndedIsSettled`, `PaidAsAgreed`) follow. Of delivered credits `EndedIsSettled` says nothing, see 7.8.

The same module, of `LogicalUniverse` (from `LabAssumption` and `UniverseAssumption`: a configuration has the fields of its type, an answer is a list of actions that passed validation, a
policy in code chooses actions of their type), for every number of agents, ticks and tasks, every price, pressure and reward, and whatever agents choose: `NothingIsLostOrMade` (`ResourcesConserved`).
The argument has two halves. An event the reducer takes, if it is one the engine makes (`WellMade`), leaves a world in which resources are conserved such a world (`Conserved`, `LegalConserved`): agents
that are not born hold nothing and own no capability, and what all hold together, a sum over agents, moves by what one event moves. And whatever the engine has in hand, the
rest of the events of a phase, its decisions, the answers recorded and the decision that is paid for, stays such that each event it makes of it is well made (`Accounted`), through pauses, crashes and recoveries.

Of the same universe: `APauseCanBeResumed` (`PauseIsResumable`). `PauseIsResumable` says something at a pause only, and a pause may follow any number of ticks, crashes and recoveries; `Regular` is
what holds in between. Nothing is written, or the genesis is under way and what it lacks is in the agenda (`Unwritten`, `Opening`); or a tick is over and a checkpoint of this tick, if there is one, is a
good one (`Resting`: the engine's place in the task stream is the verifier's); or a tick is under way of which there is no checkpoint (`EarlyInTick`, `LateInTick`). Within a tick the two places differ: the engine draws the tasks
when it begins to generate, the verifier when it sees the first event that needs them, and until then the engine is a batch ahead (`Ahead`), of the length the verifier comes to
from the same world (`RoomIsCount`). Rows and metrics events are counted together (`Counted`). `Accounted` gives what the events are; `CommitFollows` says what an append makes of the verifier that does not refuse it, for every event there is (`TakenOf`, `GrownOf`).
TLC checked `Regular` as an invariant of the configurations of `universe` before it was proved.

And of the same universe: `TheEngineNeverThrows` (`EngineNeverThrows`). The engine determines the events of a phase when the phase begins and commits them one by one; each commit changes the world the later ones are judged in. `Lawful` says, beside
`Accounted` and `Regular`, what keeps them legal: no tick of the world is ahead of the engine's (`Timely`) and a run that goes on is started and not completed (`InRun`); no task is there
of a number the stream has not come to (`Numbered`); the agenda of each phase holds births in order, agents that are there and retired once, tasks overdue and expired once, the next tasks of the stream, violations of agents
that are there, or the rewards of one accepted task, of each kind once and no more than the treasury has (`Listed`); what is to be evaluated was submitted in this tick by agents still there, each once
(`Submissions`); and a message on its way is the one of the decision that is paid for, over a link that is there (`Sending`). `AgendaIsLegal` and `LawfulNeverThrows` draw the legality of the next event from that, one lemma for each action
shows what a commit leaves of it, with what an append makes of the world in one place (`WorldMoves`, `Moves`). The theorem has no "unless the verifier refused". TLC checked `Lawful` on the configurations of `universe` first. The proof
showed where the model was short: an action may name a task that does not exist (an answer of a model names what it likes), of which `requireTask` throws and the verifier expects nothing; the model now says so (`Available`, `HeldBy`), and a configuration has such an action.

`RemoteRelationshipProofs`, for every number of nodes and proposals, from `RelationshipAssumption` (a proposal is between two different nodes), under all faults: `SidesStayInStep` (`SidesInStep`). The frames are what makes it hard: a repeated or late boundary must not move a side twice.
`RelationInv` says that a proposal is in one place (`OnePlace`), that nothing is synchronised before the decision was handled (`NotBefore`),
that no boundary on its way is more than one revision ahead of its sender, and no acknowledgement ahead of it (`Behind`), that who awaits one has the turn (`OwnTurn`); and that the
sides are level with the same turn, or one is a revision ahead and each thinks it is its own (`Alternating`).

`PopulationProofs` (from `PoolAssumption`: a scenario has at least one universe and one loop, and no more loops than universes), for every number of universes, loops, commands and every count of kills, errors and aborts: `PopulationInvariant`, then `AbortsReachChildren` and `SettledQuietly` (`AbortReachesChildren`, `SettledIsQuiet`). The
command awaits exactly the processes it has not reaped (`Accounted`); `run` is in an inbox once and is taken before anything else happens (`RunOnce`); whatever says
that a universe is published is true (`Truthful`); the pool stops for a reason (`Stopped`), the temporary file goes before the command does (`Tidy`); and where nothing is killed and nothing else throws every process leaves evidence that
can be taken up again and a report that says so, or evidence its replay refuses and an error (`Harmless`), the latter only when it was blind, that is, took up a universe with tasks open that an earlier command had begun (`Sighted`).

`RunEvidenceProofs` (from `EvidenceAssumption`: "free" and "stale" are no processes, answers are naturals, periods are positive), for all sets of runs and attesters, all lengths of a run and all
scenarios. `EvidenceInv` speaks of one process beside the disk (`Local`) and of the disk (`Common`), so that a step has two effects: on the process that takes it, and on the others, whose part only
needs to survive that the disk has more than before (`Keeps`).

- `EvidenceInvariant`: the lease has one owner, who is at the end of the log; what is being published follows from what is there; a summary
  is of a complete history that the verifier takes, an attestation of that summary.
- `ReturnedRunsArePublished`: `ReturnedIsPublished`, kills and losses of power together included.
- `DiskImplementsRecord`: `ImplementsEvidenceRecord`. Initial states map to initial states, and each step to `Record`, `Lose`, `Conclude`, `Attest` or none.
- `ArtifactsAreFinal`: no named file that is there is replaced or removed by any step.
- `NobodyRefusedUnharmed`: `RefusedOnlyAfterHarm`. Beside `EvidenceInv` it needs `Harmless`, which TLC checked on the configuration of `evidence` first: the directory
  is `Sound` (whole, one chain, and each checkpoint of the events up to the end of its tick); when the lease is free it is `AtRest` (empty, complete, or ended by a pause at a boundary that has its
  checkpoint); and what a run remembers is what the directory says: of the last row (`MetricRemembered`), so that no tick is measured twice, and of the last
  checkpoint (`SavedRemembered`), so that one that is due finds its name free or has been written. That only an event the verifier does not take makes a run give up is part of
  it; where such an event comes from is `ExcuseInv`: a process is blind only after a pause that left tasks open (`Sighted`), and a history with such an event has an excuse (`Explained`). The lemmas it rests on are about the order of the events
  (`LayoutOrdered`, `OneBoundary`) and about what an event adds to the rows (`RowsGrow`).

- `RecordIsSealed`, `PublishedIsFinal`: what an `EvidenceRecord` is good for, and so of the directory through `DiskImplementsRecord`. What it shows is one chain, a summary of
  the whole of it, with no event the protocol does not allow, and an attestation of that summary; and after a summary no event is lost, added or replaced. The step that records needs that the history of a longer chain extends the one before.

`TopologyRuntimeProofs`, for every set of agents, calls of `evolve` and ids of links, all policies and all scenarios, from `LinkAssumption` and
`TopologyAssumption` (agents, calls and ids are finite sets; bounds are positive; a scenario is of its type). `IInv` speaks of the universe and of each
call; as every action is an answer to one call or a step of the host, a lemma says of each operator of the model what it does to either.

- `IntegrityHolds`: `Integrity`. A pair has one link since a link is made only for members that have none (`OneLink`), also after an await; that is why a session is held by the pair it
  began with (`Held`) whatever its agents counter. The mirror needs that the room found at the start of a negotiation is still there at its end: `RoomKept`,
  of scenarios where one call alone makes links. `IdsSuffice` has an id for each negotiation at work.
- `NothingIsLeftNegotiating`: `NothingLeftNegotiating`. `Quiet` is the invariant with its reason: who negotiates is in the match of a call, and what is renegotiated has its review open. Both
  ends of a negotiation put the lifecycle back, and every end of a review resumes its link, when another call is reviewing it too.
- `AgreementIsKept`: `AgreementKept`. Terms come from a session only when it is accepted, and it is accepted only for what both support (`Held`). A link counts as active when it has served
  (`Agreed`); a task that will settle a link after its await is about one that had served before it (`TaskFits`), and nothing takes the use of a link away.

The reviews of a round go over all links in a fold, which is an induction over the links left to look at. `Discover`, `Candidates` and the tending of links are given by what they choose from, sets
and counts, so that a proof asks of a choice no more than that it is one.

Most of the invariants were checked by TLC on the configurations of section 3 before they were proved; what was not inductive there is what the conjuncts about frames on their way, jobs and inboxes were added for.

Only model-checked: liveness, which is beyond this prover, as `ENABLED` is; and `RefusedForKnownReason` of `LogicalUniverse`: that
the verifier, which follows the run with a state of its own, expects every event the engine makes but those of 7.5 and 7.6. Its proof would relate the two states event by event through all phases (of which
`Regular` has the place in the task stream and the rows), and comes first in the plan. The library's induction rules take an operator as a parameter, which no installed prover can
instantiate; where an induction is needed, over the lines of a log, the events of a run or the accounts of a sum, it is over a set (`NatSetInduction` and `SubsetInduction`, from
the well-foundedness of the naturals), and the loop is a recursive function or a fold.

## 7. Where the code departs from its documents

The first has a run that must find it; the others are seen by changing a configuration, as each of them says.

1. *Agreement across views* (`bft_cross_view`). `docs/NETWORK_BFT.md:33`: "Four replicas therefore tolerate one
   unavailable or Byzantine replica for commit safety". A view change carries neither position nor
   certificate (`src/v2/network-consensus.ts:265`), so a leader that missed a commit gives the number away again.
2. *Last checkpoint*. `docs/MULTI_MACHINE.md:56`: signals "create a final checkpoint before shutdown". It reads the
   state before an await and sequence and hash after it, beside a commit; the snapshot skips a command. Check `Faithful` in
   `graph_store.cfg`.
3. *Alternation*. `docs/AUTONOMOUS_MESH.md:32`: relationships "alternate boundary synchronization". After a
   timer that beats its acknowledgement both sides hold the turn and refuse each other for ever. Check `Alternates` in `relation.cfg`
   with `Scenarios <- Impatient`.
4. *Resume*. `docs/UNIVERSE_LAB.md:148-149`: "Re-running the same deterministic command automatically
   resumes that run". `#restore` (`src/lab/world.ts:251`) does not rebuild the oracles, so a task that was open at the
   pause cannot be evaluated after it; the violation recorded instead is one the verifier refuses. A comment at
   `src/lab/runner.ts:338` knows of it. The test of resuming pauses at tick 0, where no task is open. `docs/UNIVERSE_LAB.md:249-251` has it as
   a known defect. Check `VerifierAccepts` in `universe.cfg`
   with `Scenarios <- MCNeutral`. `evidence` and `population` have the consequence in scenarios with tasks open: without the second
   half of their disjunctions `EventuallyAttested` and `EventuallyPublished` fail there.
5. The oracles of 4 in `universe`: the uncaused violation "no oracle" of a run that was resumed.
6. *Actions without a rule.* `src/lab/protocol-verifier.ts:137-141` says a cognitive run is replayed from its recorded
   answers. `validateAction` lets a model answer with `disconnect`, `store`, `retrieve`, `useCapability`, `transfer`, `spawn` and others; the
   world executes or refuses them, and the verifier has no expectation of either (`#verifyDecisionOutcome` and `#expectedActionViolation`
   end in defaults), so a run is refused after its last tick for one such answer. Check `VerifierAccepts` with `Scenarios <- MCCohort` or `MCMemory`.
7. *Restart after a refused command.* `docs/DISTRIBUTED_V1.md:14`: the log is written before
   the mutation becomes visible and the reducer accepts it. A command the reducer
   refuses is in the log already (`src/v1/distributed-node.ts:229`), and every later recovery throws at it. Check `Restartable`
   in `graph_store.cfg` with `FaultModels = {{"overdraft"}}`.
8. *Refunds.* `src/v2/cognitive-loop.ts:264`: "Only a thought that never reached the
   provider may be refunded whole." Credits are refunded whole when the settlement of the tokens throws. In `thought_paths`:
   an ended thought with credits delivered and none paid.
9. *Catch-up.* `docs/NETWORK_BFT.md:39` describes a request for missing certificates. `receive` has none, and
   a commit that overtakes another is dropped for good. Check `CommitReachesRunning` as a property in `bft_views.cfg`. `ProposalCommits` is what remains:
   of a number proposed in its turn.
10. *A leader that starts again* at sequence 0 has a second command committed under a number of the same view. Check `SameViewAgreement`
    without its premise and `FaultModels = {{"crash"}}`.
11. *One-sided relationships.* A timer that beats the decision leaves the recipient alone with a
    relationship. Check `RelationshipsMirrored` without `Patient` and with `Scenarios <- Impatient`.
12. *Unsendable frames.* The promise of a pending call is not awaited when its send throws; its rejection
    ends the process. Check `FailureIsContained` in `relation.cfg`.
13. *Stop and start.* `stop` leaves `pendingRevision` set, and `synchronize` throws for that relationship ever after: in
    `relation` the second scenario reaches states with a pending revision and nothing in `syncing`.
14. *Retired links come back.* `docs/PROTOCOL.md:72-76` ends the lifecycle in retired. The review of a link awaits a suggestion of its agent, and
    `beginRenegotiation` (`src/runtime/topology-runtime.ts:547`) does not look whether the link was retired or quarantined meanwhile; it
    resumes as active. Check `RetiredIsFinal` in `topology.cfg`.
15. *A link without its agents.* `connect` and `attachLink` (`src/runtime/universe.ts:56-70`) store the link before `addLink` of a
    participant throws for want of room. Check `Mirrored` in
    `topology.cfg`.
16. *Evidence after two harms.* A run that is killed after `run.completed` is completed by the next one, which publishes the summary before the
    log of the first was synced (`src/lab/genesis.ts:176-183`); if the power goes then, the directory holds a summary over an
    incomplete log, and is refused for ever. In `evidence`: a run killed there, then a loss of power; therefore `ImplementsEvidenceRecord` says
    nothing of a scenario with both (`OneKindOfHarm`). Replace `OneKindOfHarm` by `TRUE` to see it fail in the scenario of `evidence` that has one of
    each. The other properties are about that scenario too.
17. *Stray checkpoints.* A process killed between the link of a checkpoint and the unlink of its temporary name leaves a name that
    `readCheckpoints` (`src/lab/artifacts.ts:436`) refuses in every later recovery.
18. *Pauses of cognitive runs.* Such a run pauses like any other, with a checkpoint, and can never be resumed (`src/lab/world.ts:278`).
19. *Turns by consensus.* In `consensus_turn` nothing passes the turn on, so a boundary is due from the same side for ever
    (`src/core/link-protocol.ts`); `TurnComesRound` speaks of strict alternation only.
20. *Populations.* One paused universe hides the failures of others (`src/lab/population.ts:157`); an abort that comes when all universes are
    done throws `PausedError` with nobody paused; processes of a killed command hold their leases, and the next command fails for their
    universes. `SettledIsQuiet` allows each of these.

## 8. Hazards no property covers

`PROJECT.json` lists the hazards with the properties that would catch them. Without one are: view
changes that two members repeat to one another without end (they are a set in the model); a restart inside one process
while a commit of before is at work (the runner exits); readers of the market that see what is rolled back later; relationships
proposed from both sides at once (nothing forbids two); items 11, 12, 13 and 14 above; and the hazards of the parts that are not modelled yet.
In the topology a lifecycle of an agent that overlapping rounds capture and restore may lose a "waiting" the host asked for, and a link is penalised for
"not turn" when two rounds synchronise it. In the laboratory an operator who removes a lock that is still held allows two writers.

## 9. The plan

Done, in this order: the committee, since it orders everything that is replicated; the durable replica and the
durable market, since what they lose is lost; metered thoughts; relationships with their discovery; the
lab's universe with its verifier, then with capabilities, memory, transfers and policies that throw; the evidence of a run and the population of runs; the
topology runtime with its links; and the proofs of section 6.

Next, in order of what depends on it:

1. Proofs: of `LogicalUniverse`, that its verifier expects each event it makes (`RefusedForKnownReason`).
2. `CognitiveScheduler`: chains of timers per mind, composed with `MeteredThought` through `runOnce`.
3. `Gateway`: limits under concurrent handlers, drain at close; then the observer's index cache with its leases.
4. `MetaAgents` with `FractalUniverse`: folds through consensus with hysteresis, then the autonomous node.
5. `ReplicatedGraph`: several `GraphStore`s that exchange certificates of a static committee.

Abstract specifications to state: a lease, a once-only acceptance of nonces, an uninterrupted run.
