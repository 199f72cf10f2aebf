# honk in TLA+

A specification of the parts of honk (a transparent proxy with an eBPF
datapath) in which several tasks and the kernel share ownership of a packet, a
flow or a decision. Each module is a translation of the Rust source it names;
`PROJECT.json` gives, for every definition, the lines it stands for.

Paths below are relative to `src/crates/` unless they start with `src/`.

## 1. Inventory

### The system's parts

| Part | State it keeps | Operations | Hard behaviour |
|---|---|---|---|
| Kernel datapath (`honk-ebpf`) | `CONN_STATE_MAP` (per flow: outbound, mark, decision token, decision state, incarnation, last activity), `REDIRECT_TRACK`, `ROUTING_HANDOFF_MAP`, the pinned token and incarnation sequences, datapath flags, routing maps | parse, classify, stage a UDP decision, forward, redirect, queue to NFQUEUE | runs on every CPU at once; shares records with userspace |
| eBPF backend (`honk-core/src/ebpf`) | map handles, `RETIRE_ACTIVE` and the fences, the grace barrier, two refusal flags | transitions of UDP decisions, retirement of records, quiescence of staging, reset of the token allocator, publication of policies | a record may change between a lookup and a delete; an operation may fail between two of its map writes; a fence may stay behind |
| NFQUEUE listener, ingest actor (`control/nfqueue_runtime.rs`) | bounded channel of held packets | receive, reject, hand over, stop, token recovery | packets wait in the kernel until a verdict: each must get exactly one, within 3 s |
| Admission gate (`control/nfqueue/cell.rs`) | open, epoch, tickets in flight | `try_enter`, `close_and_wait`, `open` | lost wake-ups, stale epochs |
| Correlator (`control/nfqueue`) | cells by tuple, held verdicts, scheduled cleanups, flow slots, commit channel | ingest, activate direct / proxy, block, cancel, expire, drain, watchdog, `cancel_all`, `wait_empty` | five tasks and the kernel race on a flow |
| UDP endpoint pool (`control/udp_endpoint`) | entry by tuple with a generation, leases, tombstones, queues and budgets | reserve or enqueue, commit ready, kernel handoff, retire, acknowledge | identity of successive incarnations of a tuple |
| UDP initializer (`control/connection/udp.rs`) | a task per new flow | sniff, route, decide, dial, cancel | unbounded awaits, cancelled at any of them |
| Retirement worker (`control/retirement_worker.rs`) | queue of retired pins | delete kernel records, acknowledge tombstones | works late: the record may belong to someone else |
| Janitor (`control/janitor.rs`) | scan cursor | expire idle records | stale scans |
| Mode and datapath flags (`mode.rs`) | desired and published mode, READY flag | fence, reopen, persist | fence completed half way |
| Reload (`control/reload`) | generations of registries, policies | prepare, drain, publish, roll back | every wait of the drain |
| DNS (`dns`) | singleflight table, cache slots with revisions, publication epoch, persistence actor and its table, upstream pools | resolve, join, publish, refresh, serve stale, invalidate, mirror, restore | answers that arrive after an invalidation, cancelled leaders, refreshes of a slot that changed, restarts |
| Outbound runtime (`honk-outbound`) | nodes, sessions, groups, health | dial, multiplex, probe, select | retirement of a node in use |
| TCP relay, connection tracker, statistics | per-connection counters | copy, close, count | mostly I/O |
| Subscriptions, configuration, APIs, logging, `honk-tool` | files, documents, views | parse, validate, present | sequential |

The interactions that matter most here:

* the kernel stages a flow under a fresh token and queues its packets; from
  then until a decision every packet of the flow is *held* by userspace;
* the ingest actor moves a packet's guard into the flow's cell, copies its
  payload to the endpoint and starts the initializer;
* the initializer submits a decision to the commit pump and waits;
* the pump changes the kernel record and settles the held guards: `NF_ACCEPT`
  for a direct flow, `NF_DROP` when the proxy's endpoint has the copy or the
  flow is blocked;
* the watchdog, cleanups, the retirement worker and the reload may take the
  flow away at any point, and the kernel may stage the same tuple again.

### What makes the parts correct

* Gate: the count is the tickets alive; when closing returns nobody is inside;
  whoever opens it finds it empty, except as section 5 says;
  nothing that was admitted before a fence is published after it; closing ends.
* Correlator: a guard has one owner and gets one verdict; originals leave in
  order, and only when the kernel agrees; a payload is sent once (by the kernel
  or by the proxy, never both); an armed flow is finished or the process dies;
  a staged record is never left without someone to end it; ordinary races
  never kill the process; leftovers of an old incarnation never
  touch a new one; the hard limits hold; every packet is decided; a reload
  returns.
* Flow maps: a tuple has one owner at a time and no map remembers an earlier
  one; a claim is always finished by its producer; recorded activity is never
  lost; a fence is visible to the kernel or gone; after a quiescence nothing
  staged is left.
* Tokens: a token is handed out only when nothing holds it, over any number of
  rotations and restarts; an exhausted allocator is an outage that ends.
* DNS: an answer an invalidation removed never returns, to memory or, after
  success, to the table; one leader per flight and every query ends; strict
  queries get strictly validated answers; a refresh never overwrites something
  newer; the actor loses no pending row to an epoch; publication always reopens.
* Planned parts are in section 6.

The list of hazards, each at its line, is in `PROJECT.json` (`hazards`).

## 2. Modules

| Module | Models |
|---|---|
| `AdmissionGate` | the gate (`cell.rs`) and the deliveries that pass it (`ingest.rs`), with `tokio::sync::Notify` as external behaviour |
| `AdmissionGate_proofs` | its theorems |
| `NfqueueCorrelator` | the life of held packets: kernel staging, listener, ingest actor, initializers, commit pump, cleanups, watchdog, retirement worker, reload drain |
| `NfqueueCorrelator_proofs` | its theorems: guards, decisions, the reload |
| `NfqueueLimits_proofs` | its theorem on the limits |
| `NfqueueOrder_proofs` | its theorem on the order of releases |
| `DnsCache` | reuse of DNS answers: singleflight, exact cache slots, background refresh and serve-stale, invalidation fence, persistence actor, restore |
| `DnsCache_proofs` | its type invariant and the flight table |
| `DnsAnswers_proofs` | theorems on its answers: slots, strictness, refreshes, the actor, invalidation |
| `FlowLifetime` | abstract specification: what the flow maps promise about one UDP tuple |
| `FlowRetirement` | the three flow maps, the kernel invocations that write them and the backend's fenced operations; implements `FlowLifetime` |
| `FlowRetirement_proofs` | its theorems, the refinement included |
| `DecisionTokens` | the token allocator, what holds tokens, exhaustion and recovery, reloads and restarts |
| `DecisionTokens_proofs` | its theorems |
| `MC...` | the same modules with TLC's symmetry sets; constants are in the `.cfg` files |

Definitions headed *Seeded bug* are plausible mistakes in one place of the
code (a dropped comparison, a missing wait, a kept lease). They are not part of
any specification; each shows that a property notices the mistake.

### AdmissionGate

`open`, `epoch`, `in_flight` are the fields of `AdmissionState`. A handler is
one delivery: the listener captures the epoch (`Receive`), the actor enters
(`TryEnter` or `Refused`), a DNS original is checked again after its awaits
(`Check`, `Abandon`), and the ticket is dropped (`Publish`), which is two steps:
the count under the lock, `notify_waiters` after it. The controller closes
(`Close`), then loops over `Register` (create the `Notified`), `CheckQuiescent`
and `Awake`. A notification reaches only a `Notified` that exists. `OpenGate` is
`AdmissionGate::open` with its assertion: with tickets alive it panics, which
ends the control loop (`closer = "panicked"`) and leaves the gate as it was.

`caller` is the handler of the control loop that works on the gate; they run one
at a time. A reload (or a stage of the teardown) closes with `Close` and leaves
with `Open`, or with `StayShut` when it is degraded. The start of an epoch opens
a new gate if `sequence_ready`. The recovery from token exhaustion closes twice,
around its hard rebind (`FenceExhausted`), and then opens (`Recover`) or gives up
for now (`StayShut`). While `sequence_ready` is false a later turn of it is
`Recover` alone: it does not close, and takes the gate as a reload may have left it.

`era` and `born` are history variables. The real runtime has one ingest actor; the gate
does not depend on it and the model allows any number of handlers.

### NfqueueCorrelator

A token is named by the packet staged with it, a cell and an endpoint generation by the
packet that created them. This loses nothing: tokens and generations are fresh
by construction in the code (`u64`/`u32` sequences), a cell is an `Arc`.

| Variable | Code |
|---|---|
| `conn` | `CONN_STATE_MAP` entry: decision token and state |
| `ready` | `DATAPATH_FLAG_NFQ_READY` |
| `wire`, `queue`, `ing` | kernel queue, actor channel, where the actor is |
| `map`, `cellst`, `held`, `cgen` | `PendingUdpVerdicts.cells` and a cell's `CellState`, verdicts and identity |
| `cleanups`, `drain` | `scheduled_cleanups`, and the one executed but not yet removed |
| `ep`, `lease`, `task`, `cancelled`, `stale`, `served` | endpoint pool entry, `UdpInitLease`, initializer task, its cancellation by its entry or by a newer initialization epoch |
| `commits`, `pump`, `taken` | commit channel, the pump's batch with each request's result, guards taken from an armed cell |
| `open`, `ctl` | gate and reload |
| `rcvd`, `lateN` | receipt order and how many of those packets are past `HARD_HOLD_TIMEOUT` |
| `verdict`, `payload`, `fatal`, `faults` | what was sent, who got the copy, `signal_fatal`, injected failures |

Atomicity. An action is what the code does between two awaits or inside one
critical section. The backend's `RwLock` is explicit: the pump holds it over
its batch (`pump.pc = "apply"`), the actor may hold it for reading
(`existingR`); every other section runs without awaiting and is one step.
`try_entry` and `try_lock` may fail at any time (`contended`). Cell deadlines
run from the receipt of the first held packet, which named the cell, so a cell
is late exactly when that packet is.

Failures. A verdict send may fail (the packet is `lost`), the backend may fail
in a commit batch, a cancellation, a cleanup or an inspection. `MaxFaults`
bounds them.

Gate. The actor is one handler of `AdmissionGate`: here its ticket is
`ing.pc # "idle"`, and `GateClosed` is the return of `close_and_wait`, whose
guarantee and termination the other module establishes.

### DnsCache

An answer is named by the query whose exchange obtained it, so that "the same
answer came back" can be stated; a query stores at most once.

| Variable | Code |
|---|---|
| `slot`, `revision` | `CacheValue` of an exact key (positive with its age and `strict_reusable`, negative, revision); `next_revision` |
| `epoch`, `accepting` | `PublicationState` |
| `flights` | keys of `Singleflight.entries`; who leads and who waits is in `pc` |
| `pc`, `ctx`, `out` | where a resolve call or refresh is, its `ExecutionContext`, its outcome |
| `commands`, `pepoch` | the actor's channel, `DnsCachePersister.epoch` |
| `worker`, `pending`, `db` | `run_loop`'s state, its pending set, the `dns_answer` rows |
| `inv` | the invalidation that holds the mutation lock: reserved, or waiting for its acknowledgement |
| `dropped`, `erased` | history: answers removed from this process, answers whose invalidation reported success |

Atomicity. A step is what a task does under one lock: the publication lock with
a shard inside it, a shard alone, or the flight table; none is held over an
await. Between the reservation of a channel place and the critical section of
`invalidate` the actor's thread may run, so they are two steps; the barrier of a
reservation is lost when the actor stops between them.

Time is three ages of a positive answer and two of a negative one, advancing at
any moment. LRU order is abstracted: any other key may be evicted by an
insertion. A lookup that cannot render its hit, a cancelled caller, a flush
generation and an aborted refresh are all `Cancel`.

Life. `Restart` may happen at any point and keeps only `db`. Rows are restored
one by one, before the persister is installed and before the API that could
invalidate is served (`init_cache_db`), so a restore meets queries but no
invalidation. `store_dns` is on; without it an invalidation is its in-memory
half.

Left out: legacy string slots, `purge_expired` and its relatives (no production
caller), a foreground refresh request joining a refresh flight, preferred-family
flight keys, row maintenance in the state db, byte budgets. The early returns of
`flush`, `invalidate` and `receive_put` for epochs older than the active one are
not reachable, which `ActorInStep` states; they have no action.

### FlowRetirement and FlowLifetime

`conn`, `redirect` and `handoff` are the maps' entries of a tuple. An invocation
(`cpu`) is one run of a tc program: it enters (`Receive`), follows a hit
(`Cached`), or claims the tuple (`ClaimCheck`, `ClaimUdpPreparing`), routes, takes
a token, publishes its auxiliaries and completes or aborts its claim; or it is a
reply that renews its flow (`ReplyLookup`, `ReplyTouch`, `RenewUdpReply`). It is
split between each fence check and the write that follows it, because that is
where a fence may be raised; a lookup and the refresh under the element's spin
lock are one step.

The backend runs one operation at a time (`at`, `mode`, `requests`): it raises
`RETIRE_ACTIVE`, fences each tuple, waits for the invocations that were in flight
(`GraceBarrier` marks them, `GraceOver` waits until each has left), reads again
(`Plan`), writes map by map (`Mutate`), and lowers what it raised. Every step may
fail. `due` is a retirement decided on without the backend's lock, from a scan, a
hint, a closing endpoint or a given-up token; it may be carried out late or
twice. `activate_udp_direct` has no fence and two steps.

`FlowLifetime` has an owner and a set of remembered incarnations per tuple. The
mapping takes the owner from `conn` and the remembered incarnations from the two
auxiliary maps. `ImplementsLifetime` then says that a claim finds nothing of an
earlier flow, that decisions go forward only, that auxiliaries appear only under
the owner they belong to, and that the owner is the last of its lifetime to go,
also when an operation fails between two maps.

Abstractions: entries keep identity, state and activity; auxiliaries have no age
(they may have expired whenever they are looked at); the recorded owner of a
fence is always the running operation. Tokens and incarnations are bounded
counters. Stateless DNS tuples and TCP are left out.

### DecisionTokens

A token is a generation and a sequence number; `next` is the pinned allocator.
`held` is the token each of the four scanned maps holds for a tuple, `producer`
the invocation staging it, `queue` the kernel's queue and `cells` what the
correlator owes (verdict cells and cleanups). The control loop is one task, so
`at` is where it is: fencing (`FenceNfqueue`, `BarrierOver`, `Quiesce`), draining,
rebinding, scanning candidate generations map by map (`Scan`), reopening, or in
the middle of a reload. `sequenceReady`, `healthy`, `quiescenceFailed`,
`incomplete` and `retirementFailed` are the flags that decide who may reopen.
`Restart` keeps only the pinned sequence: every other map is created anew.

A retirement or a commit is one step here, since `FlowRetirement` has its steps;
it never removes a claim that is still being published. A packet between the
listener and the actor is left out: the channel is first in, first out and
bounded, and to confuse it with a new flow 2^28 tokens would have to be drawn
while it waits, which a small `SequenceMask` would turn into one.

## 3. Runs

| Run | Instance | Shows |
|---|---|---|
| `gate` | 2 handlers, 4 closings | all gate properties, and that closing ends |
| `gate_reopen` | the same | violated, see section 5 |
| `correlator_followers` | 1 tuple, 3 packets, 1 expired deadline, queue, held list and flow slots of 2, room for 1 cleanup | order, activation with nothing held, copies reach their own flow, a fresh token is out of reach of leftovers, the hard limits hold, and a staged record always has a packet, a cell or a cleanup that ends it, also when the cleanup set overflows |
| `correlator_reload` | 2 packets, 1 expired deadline; with 1 reload and 1 tuple, or with 1 failure and up to 2 tuples in one batch (constraint `ReloadAlone`) | what the drain leaves; an armed flow is never abandoned; guards have one owner; a payload is sent once; cells agree with records; accept only when direct; no spurious fatal |
| `correlator_verdicts` | 1 tuple, 2 packets | liveness: every packet is decided |
| `correlator_reload_ends` | 1 tuple, 2 packets, 1 reload | liveness: a reload returns |
| `correlator_deadline` | 1 tuple, 2 packets | violated, see section 5 |
| `dns_flights` | 1 key, both modes, 4 queries | one leader per flight; strict queries get strict answers; a refresh replaces what it saw or nothing |
| `dns_invalidation` | 2 keys, 2 queries, 2 invalidations, 1 failure, 1 restart | what was removed stays removed, with a leader or a refresh under way; the actor's epochs; slots hold answers |
| `dns_actor` | 1 key, 2 queries, 1 invalidation, 1 failure, 1 restart | liveness: every started query ends, publication reopens, pending rows drain |
| `flow_retirement` | 1 tuple, 2 invocations, 2 incarnations, 1 token, clock to 2, any failures | claims end, quiescence leaves nothing staged, fences are visible, activity counts, refinement of `FlowLifetime` |
| `decision_tokens` | 2 tuples, 4 generations of 1 token, 2 reloads, 1 failure, any restarts | tokens are fresh; liveness: staging resumes |

Why the bounds are enough. Three packets of one tuple give a first packet, a
follower and a newcomer of the next incarnation, in every assignment to
incarnations; every pair of tasks that can race on a flow does so with two.
Two tuples suffice for what flows of one batch can do to each other, since they
share only the pump, its lock and the sets. Failures and reloads are each
explored alone (one fault, or one reload): their combination is not.
For DNS, three queries of one key give a leader, its waiter and a refresh or a
latecomer, and a fourth overtakes a revision again; two keys are what a
selection needs to spare one; a channel of two holds a put and a barrier in
either order, and one pending row is at its limit.
For the flow maps, one tuple is enough for everything but a batch, whose
requests share only the fences: two invocations are a producer and a follower,
or two producers, and two incarnations an owner and its successor. The
constraint `ClockOrCompany` lets the two race while the clock stands, and one
run beside the backend while it moves; a clock of 2 with a timeout of 1 ages an
owner past its timeout after it was refreshed. One token is the allocator at its
end. In `DecisionTokens` a generation has one token (`SequenceMask = 1`), so that
two tuples exhaust several generations and the allocator wraps around all four
while old tokens are still held; `GenerationMask = 3` is the code's.

Symmetry. Packets, tuples, kernel invocations, and DNS queries and keys, are interchangeable in the safety
runs: no definition tells them apart or orders them. Runs with liveness do not use it.

Deadlock. The correlator, DNS and flow-map runs allow it: packets, queries and
incarnations are finite,
and when all have been decided and nothing is scheduled the system rightly
rests. That nothing is stuck earlier is what the liveness properties say. The gate's run stops
only after a panic of the control loop, or at the bound on closings, with the
deliveries still going round, so there it is checked; so it is for the tokens, whose allocator never ends.

Fairness. Weak fairness of: time; the listener; the ingest actor; the pump;
the 100 ms watchdog with its cleanups; the retirement worker; a reload that
has begun. All are tasks of one tokio runtime that are never blocked except
where a guard says so. An initializer is fair only in hearing its
cancellation and acting on the pump's answer: nothing makes routing or dialing
end, so neither liveness property may rely on it. The start of a reload,
faults, kernel ingress, decisions and endpoint deaths are not fair. In
`DnsCache`, a started query is fair (each exchange has a timeout, and locks are
not held over awaits), and so are the actor's thread and the return of an
acknowledged invalidation; nothing makes anyone start, cancel or invalidate, an
answer age, or the process restart. In `DecisionTokens`, fair are: a kernel
invocation that has begun (the verifier bounds it), the ingest actor, the
watchdog, which ends every cell at its deadline, and the control loop, whose
timer reads the allocator every watchdog interval, or within 30 s after a rotation
that found no free generation. Packets, expiry, commits,
reloads and restarts are not fair.

## 4. Proofs

`AdmissionGate_proofs` proves, for any finite set of handlers and any number
of closings, the type invariant and the five safety properties of the `gate` run. The
inductive invariant `GateInv` adds two facts to them:

* `ClosingIsShut`: the gate is open exactly when no closing is under way or
  done. It is what makes `Close` move the epoch on every time tickets might be left;
* `CapturedEpochIsCurrent`: a captured epoch equals the gate's only if the
  gate is open and has not been closed since. Without it nothing connects the
  equality the code tests with the history `NoStalePublication` speaks of.

`ReopenPanicsOnlyInOutage` is how much of the assertion in `AdmissionGate::open`
holds (section 5): every opening of a shut gate finds it empty, by
`ClosedIsQuiescent`; what is left is the recovery's retry on an open gate.

The counter step rests on two lemmas on cardinality (a holder added, a holder
removed). The assumption is that the set of handlers is finite.

`NfqueueCorrelator_proofs` proves eight invariants and three action properties
of the correlator runs, for any tuples and packets, any bounds, and any number
of expired deadlines, failures and reloads. The model has fifty-odd actions and the
invariant `CorrInv` twenty-odd parts, so neither is done case by case against
the other. Every action but one is shown to obey contracts on what one step may
do to the records and cells (`FlowMove`), to the guards (`GuardMove`), to
verdicts and payloads (`VerdictMove`), to the actor, the pump's requests, the
initializers, the endpoints and the cleanups; then each part is preserved by the
contracts. The exception is `KernelIngress`, which gives a packet its identity:
every other step leaves tuples and tokens alone. The parts that carry the
argument:

* `PacketShape`, `CellShape`, `MapShape`: a token is the packet staged with it;
  an undecided cell is the one its tuple maps to, and only it holds guards. Hence
  a tuple has at most one undecided cell (`OnePending`), which is what every
  "not twice" below comes from;
* `OwnerInv`, `TransitShape`, `HeldShape`: a guard is on the wire, in the queue,
  in the actor's hand, held or taken, in one place, with the guards of one token.
  `OneOwnerPerGuard` is counting on top of it;
* `ArmedRecord`, `ArmedEntry`, `ArmedHasEntry`: the record of an armed cell is
  armed, and cell and request name each other, with at most one such request per
  token even after a failed cell has left the armed phase under the pump;
* `DirectRecord`, `SidesExclude`, `AcceptedIsDirect`: a direct cell's record
  stays while a packet of its token is undecided, and a token is decided one way.
  They make `AcceptOnlyDirect` and `DirectExcludesProxy` hold also for cells built
  from a retained record after the first one was evicted;
* `RequestShape`: a scheduled cleanup is for a token that is no longer fresh;
* `CtlInv`: what each stage of the reload has achieved.

The assumptions are those of the module: `None` is no packet and no tuple, the
limits are positive. The set of packets may be infinite.

`NfqueueLimits_proofs` adds `LimitsHold`. Its invariant, `LimitInv`, is the three
limits with finiteness of the counted sets, and `OneRequest`: no two requests, in
the channel or in the batch, are of the same cell. A slot is freed with the last
reference of a cell and not with its map entry, so the step that matters is the
one that replaces a terminal cell: the new cell counts against what the old one's
requests still reference, and `OneRequest` makes the channel no longer than the
cells it references.

`NfqueueOrder_proofs` adds `AcceptInOrder`. Everything a guard passes through is
FIFO, and `Ordered` says that the channel, the actor, a cell's verdicts and those
the pump has taken are each sorted by receipt and lie behind one another. That
settles a release against the packets of its own cell. For the packets of other
cells of the token the argument is about records: a staged cell's record is
pending (`UnarmedRecord`), an armed request is that of the token's armed cell
(`ArmedPair`), so next to a packet that may be released no second cell owns any.

`DnsCache_proofs` proves, for any keys, queries, modes and bounds, the type
invariant (`TypeCorrect`) and that the flight table and its leaders correspond
one to one (`FlightsSound`). The second is inductive once `pc` and `ctx` are
known to be functions: the argument is three lemmas about how the set of leaders
may change (one leaves with its entry, one enters with a new one, nobody does),
and each action is shown to be an instance of one of them; `Start` and
`SpawnRefresh` also need the types of the epoch and of the revision they copy.
The assumptions are those of the module: finite sets, `None` outside the
queries, modes among the two of the code.

`DnsAnswers_proofs` extends it with the five safety properties of the answers.
Every action is first shown to obey contracts on what one step may do to the
cache (`CacheMove`: answers fade, an admitted query stores, a row is restored),
to the channel, to the rows, to the fence and to the queries; the invariants are
then preserved by the contracts, not by thirty actions one by one.

* `SlotsHoldAnswers` (`SlotHasAnswer`) and `StrictAnswers` (`StrictAdmission`):
  the second needs that queries in one flight have one mode and that a query
  which is not done has no outcome (`StrictInv`). It covers rows restored after
  a restart, which the instance of `dns_flights` does not have.
* `RefreshesReplace` (`RefreshReplacesWhatItSaw`): equality of revisions must
  mean equality of answers. `SlotInv` says that revisions are below the counter,
  `HitInv` that the revision a refresh remembers was that of the answer it saw.
* `ActorStaysInStep` (`ActorInStep`): `StepInv` orders the channel. The epochs in
  it lie between the actor's and the persister's, barriers ascend, a put carries
  the epoch of the last barrier in front of it, and the last epoch is queued.
* `InvalidatedStaysAway` (`NoResurrection`): `AnswerInv`. What an invalidation
  dooms was stored under keys its barrier selects (`HomeInv`, `CoverInv`), no
  doomed put stands behind the barrier, a query of the doomed era cannot publish
  (`EraInv`), the pending set and the table hold nothing that a barrier in the
  channel will not remove (`StoreIsClean`), and the history sets nest. Restarts
  are covered by `LifeInv`: no invalidation runs before the restore has ended.

`FlowRetirement_proofs` proves the five safety properties of the `flow_retirement`
run and that `FlowRetirement` implements `FlowLifetime`, for any tuples, any
number of invocations, incarnations and tokens, and any failures. A kernel
invocation obeys one contract (`KernelMove`: it refreshes an owner's clock,
claims a free tuple, settles its own claim, or writes an auxiliary of the
incarnation it carries); the backend's actions are taken one by one. The parts of the
inductive invariant `FlowInv` that carry the argument:

* `CarrierOwns`, `HolderClaim`, `ClaimHeld`: an invocation on its way to publish
  holds the claim of its tuple, alone, and a claim is held by such an invocation;
* `BatchIsAlone`: the tuples of a batch are fenced; after the barrier whoever is
  in flight on them is marked; when a plan runs nobody is in flight on them.
  Without it nothing keeps the maps still between `Plan` and `Mutate`;
* `StepsAreCurrent`, `ActivateIsCurrent`: hence what was planned, or copied for an
  activation, is what the map still holds. The refinement and `ActivityCounts`
  rest on these: the owner goes last, and no clock is rolled back;
* `AuxiliaryOwned`: no auxiliary outlives its owner, in particular not when a
  batch fails between two maps;
* `ModeInv`, `QuiesceInv`: with READY clear no token-bound owner appears, and the
  ones the quiescence saw are among its requests until they are gone;
* `ExpiryInv`: what a scan found expired stays so, since a clock only advances.

The assumptions are that the set of tuples is finite, the timeout and the bounds
are natural numbers, and the absent entry (`None`) is not an entry.

`DecisionTokens_proofs` proves `TokensAreFresh`, for any widths of generation and
sequence, any tuples, reloads, failures and restarts. Every live token is at most
`next` (`TokensBelowNext`), which settles everything but the reset. For the
reset, `OutageIsQuiet` follows the recovery from its fence to the scan: at
each stage it says what can no longer hold a token, so that before the scan only
the maps do; `ScanIsCurrent` says that the maps scanned so far hold nothing of
the candidate generation. Freshness then is arithmetic on generations
(`ScaleStep`, `BelowGeneration`).

Only model-checked: liveness (the prover has no fairness reasoning), and
two safety properties of `NfqueueCorrelator`: `NoSpuriousFatal` (it relates every
lease to the caller and the request that may return it) and
`StagedTokenIsTracked`. The liveness
properties are `QueryEnds`, `PublicationReopens`, `PendingDrains`,
`StagingResumes` and those of the correlator.

## 5. Findings

`ActorDelayFailsClosed` states what `src/doc/en/design/nfqueue.md:103` says:
one absolute three-second receipt-to-verdict deadline that actor delay
consumes. `ingest_existing` and `ingest_vacant` accept an original of an
ActiveDirect flow without looking at its receipt time, so a packet that waited
in the actor's queue beyond the deadline is still released. The run
`correlator_deadline` shows it in a few steps: the first packet activates the
flow while the second waits in the channel.

`ReopenFindsNobody` is the assertion of `AdmissionGate::open`
(`src/crates/honk-core/src/control/nfqueue/cell.rs:276`, "NFQUEUE admission
reopened before quiescence"). `recover_nfqueue_token_exhaustion` closes and
drains only in the call that starts the outage; a retry skips that and, once a
generation is free, calls `open_admission`. A reload in between has reopened the
gate, so the ingest actor may be inside, and the control loop panics. The run
`gate_reopen` shows it: a start with exhausted tokens, a reload, a delivery that
enters, the retry. `DecisionTokens` allows for it (`ReopenFails` may end the
process whenever the gate is open already), and its properties hold.

The reload that comes first is itself at odds with
`src/doc/en/design/nfqueue.md:137`: "Reopen admission and readiness only after
the locked allocator reset succeeds." It ends with `open_pending_udp_admission`
and `reopen_nfqueue`, whether it commits or is rejected, without asking whether
the allocator was reset (the state before the retry has `open` and not
`sequence_ready`). That alone has little effect: the
allocator refuses the next packet and its claim is aborted, so it is dropped as
it would have been, and `TokensAreFresh` holds all the same. In the other
direction, a rotation that succeeds reopens READY in a datapath that a degraded
reload had left fenced on purpose.

## 6. What is left out, and the plan

Within the modelled parts:

* a backend failure inside `cancel_all` (it aborts the drain), and failures
  together with a reload;
* the pump's shutdown, listener start-up and stop, statistics;
* the canceller's own short-lived reference to a cell is not counted as a flow
  slot (`LiveCells`);
* tokens are never reused in `NfqueueCorrelator`; that they are fresh is what
  `DecisionTokens` shows;
* the janitor reclaims a direct or blocked record only when no packet of its
  token is undecided: its 120 s are far beyond the 3 s hold;
* an `Enqueued` answer of the pool in `ingest_vacant` is folded into
  `VacantDead`, the same outcome;
* routing, sniffing, wire formats and budgets in bytes are nondeterministic
  choices.

Within the flow maps and tokens: TCP owners and their pins, stateless UDP/53,
routing generations, admission pressure, the janitor's cursors and budgets; in
`DecisionTokens` a failure of the scans themselves (it ends the process as the
other errors of the recovery do) and a start-up without NFQUEUE.

Not modelled: wire protocols, cryptography and TLS, configuration parsing, the
APIs and views, logging, the offline tool, nftables and netlink (I/O, or
sequential code without shared state).

Planned, in this order:

1. proofs of `NoSpuriousFatal` and `StagedTokenIsTracked`;
2. the shutdown stages of the NFQUEUE runtime and of the lifecycle;
3. the endpoint pool: queues, budgets, idle expiry; TCP owners and their pins;
4. outbound sessions and health; registry publication in a reload; mode
   persistence; generations of the DNS service;
5. an abstract specification of a held packet (undecided, then accepted, dropped
   or lost, once) implemented by `NfqueueCorrelator`.
