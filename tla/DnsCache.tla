------------------------------ MODULE DnsCache ------------------------------
(***************************************************************************)
(* The reuse of DNS answers in honk (crates/honk-core/src/dns): the        *)
(* singleflight table, the exact-identity answer cache with background     *)
(* refresh and serve-stale, the invalidation fence, and the actor that     *)
(* mirrors answers into the state db and restores them at start-up.        *)
(*                                                                         *)
(* An answer is named by the query whose exchange obtained it; a query     *)
(* stores at most once, so Queries bounds the answers too.  A step is what *)
(* a task does under one lock: publication (with the shard inside it), a   *)
(* shard, or the flight table, none of which is held across an await.      *)
(* store_dns is on: without it an invalidation is its in-memory half.      *)
(***************************************************************************)
EXTENDS Naturals, Sequences, FiniteSets

CONSTANTS
    Keys,             \* exact cache keys
    Queries,          \* resolve calls and background refreshes
    Modes,            \* the ResolveModes callers use
    None,             \* no answer
    MaxFlights,       \* MAX_ACTIVE_FLIGHTS
    MaxWaiters,       \* MAX_WAITERS_PER_FLIGHT
    MaxCommands,      \* COMMAND_CAPACITY
    MaxPending,       \* PENDING_CAPACITY
    MaxInvalidations, \* invalidations explored
    MaxRestarts,      \* process restarts explored
    MaxFaults         \* failing database operations explored

ASSUME NoneAssumption == None \notin Queries
ASSUME FiniteAssumption == IsFiniteSet(Keys) /\ IsFiniteSet(Queries)
ASSUME ModesAssumption == Modes \subseteq {"strict", "compat"}
ASSUME BoundsAssumption ==
    /\ MaxFlights \in Nat /\ MaxWaiters \in Nat /\ MaxCommands \in Nat
    /\ MaxPending \in Nat /\ MaxInvalidations \in Nat /\ MaxRestarts \in Nat
    /\ MaxFaults \in Nat

VARIABLES
    slot,        \* CacheValue of a key; Empty when the shard has none
    revision,    \* next_revision
    epoch,       \* PublicationState.epoch
    accepting,   \* PublicationState.accepting
    flights,     \* the keys of Singleflight.entries
    pc,          \* where a query is
    ctx,         \* its ExecutionContext
    out,         \* its outcome, on the way to the flight and the caller
    commands,    \* the persistence actor's channel
    pepoch,      \* DnsCachePersister.epoch
    worker,      \* the actor: what it does, its active epoch, rows to restore
    pending,     \* its pending set
    db,          \* dns_answer rows
    inv,         \* the invalidation that holds the mutation lock
    ninv,        \* invalidations so far
    restarts,    \* restarts so far
    faults,      \* failed database operations so far
    dropped,     \* history: answers an invalidation removed from this process
    erased       \* history: answers whose invalidation reported success

cacheVars == <<slot, revision>>
fenceVars == <<epoch, accepting>>
queryVars == <<pc, ctx, out>>
chanVars == <<commands, pepoch>>
actorVars == <<worker, pending, db>>
invVars == <<inv, ninv, dropped, erased>>
lifeVars == <<restarts, faults>>

vars == <<cacheVars, fenceVars, flights, queryVars, chanVars, actorVars,
          invVars, lifeVars>>

-----------------------------------------------------------------------------
(* CacheValue: the positive answer, its age (fresh, expired but retained,   *)
(* beyond STALE_RETENTION), strict_reusable; the negative answer and        *)
(* whether it is current; the slot's revision.                              *)
Slot(p, age, strict, n, negAge, rev) ==
    [pos |-> p, age |-> age, strict |-> strict, neg |-> n, negAge |-> negAge, rev |-> rev]
Empty == Slot(None, "fresh", TRUE, None, "fresh", 0)

(* CachedEntry fresh from an exchange, or from a restored row.              *)
Positive(a, strict, rev) == Slot(a, "fresh", strict, None, "fresh", rev)

Present(s) == s.rev # 0
Current(s) == s.neg # None /\ s.negAge = "fresh"

(* CacheShard::drop_positive and drop_negative: the slot goes with its last *)
(* answer.                                                                  *)
DropPositive(s) == IF s.neg = None THEN Empty
                   ELSE Slot(None, "fresh", TRUE, s.neg, s.negAge, s.rev)
(* Seeded bug for SlotHasAnswer: the slot stays without an answer.          *)
DropNegativeKeepsSlot(s) == Slot(s.pos, s.age, s.strict, None, "fresh", s.rev)

DropNegative(s) == IF s.pos = None THEN Empty
                   ELSE Slot(s.pos, s.age, s.strict, None, "fresh", s.rev)

(* What lookup_exact leaves in the slot: an expired negative is removed,    *)
(* and so is a positive past retention that no current negative shadows.    *)
Swept(s) ==
    LET t == IF s.neg # None /\ s.negAge # "fresh" THEN DropNegative(s) ELSE s
    IN  IF t.neg = None /\ t.pos # None /\ t.age = "dead" THEN DropPositive(t) ELSE t

(* ExactLookup::Positive, and get_stale_exact, for a resolve mode.          *)
Usable(s, m) == s.pos # None /\ (m = "strict" => s.strict)
PositiveHit(s, m) == ~Current(s) /\ Usable(s, m) /\ s.age = "fresh"
StaleHit(s, m) == Usable(s, m) /\ s.age = "stale"

(* DnsOutcome: the answer, whether it passed strict admission, and the      *)
(* revision of the slot it was read from.                                   *)
NoOutcome == [ans |-> None, strict |-> TRUE, rev |-> 0]
Outcome(a, strict, rev) == [ans |-> a, strict |-> strict, rev |-> rev]

Context(k, m, kind, e, rev) == [key |-> k, mode |-> m, kind |-> kind, epoch |-> e, rev |-> rev]
NoContext(k) == Context(k, "strict", "resolve", 0, 0)
NoRow == [ans |-> None, epoch |-> 0]
Working(st, active, rows) == [st |-> st, active |-> active, rows |-> rows]
Invalidation(p, e, doomed, ack) == [pc |-> p, epoch |-> e, doomed |-> doomed, ack |-> ack]
NoInvalidation == Invalidation("idle", 0, {}, "none")

(* Seeded bug for TypeOK: the key carries the kind, not the mode.           *)
FlightByKind(q) == <<ctx[q].key, ctx[q].kind>>

(* Seeded bug for StrictAdmission: both modes share a flight.               *)
FlightIgnoresMode(q) ==
    <<ctx[q].key, IF ctx[q].kind = "refresh" THEN "refresh" ELSE "strict">>

(* FlightKey::Resolve carries the mode, FlightKey::Refresh does not.        *)
Flight(q) ==
    <<ctx[q].key, IF ctx[q].kind = "refresh" THEN "refresh" ELSE ctx[q].mode>>

LeaderStates == {"recheck", "leadhit", "serve", "exchange", "servfail", "publish"}
Leading(q) == pc[q] \in LeaderStates
Waiting(f) == {q \in Queries : pc[q] = "wait" /\ Flight(q) = f}

-----------------------------------------------------------------------------
(* The first process, over an empty state db.                               *)
Init ==
    /\ slot = [k \in Keys |-> Empty]
    /\ revision = 1
    /\ epoch = 0 /\ accepting = TRUE
    /\ flights = {}
    /\ pc = [q \in Queries |-> "idle"]
    /\ ctx \in {[q \in Queries |-> NoContext(k)] : k \in Keys}
    /\ out = [q \in Queries |-> NoOutcome]
    /\ commands = <<>> /\ pepoch = 0
    /\ worker = Working("run", 0, {})
    /\ pending = [k \in Keys |-> NoRow]
    /\ db = [k \in Keys |-> None]
    /\ inv = NoInvalidation /\ ninv = 0
    /\ restarts = 0 /\ faults = 0
    /\ dropped = {} /\ erased = {}

-----------------------------------------------------------------------------
(* Resolving a query (engine/pipeline.rs).                                  *)

(* resolve_inner: the publication epoch is captured before anything else.   *)
Start(q, k, m) ==
    /\ pc[q] = "idle"
    /\ pc' = [pc EXCEPT ![q] = "lookup"]
    /\ ctx' = [ctx EXCEPT ![q] = Context(k, m, "resolve", epoch, 0)]
    /\ UNCHANGED <<cacheVars, fenceVars, flights, out, chanVars, actorVars,
                   invVars, lifeVars>>

(* pipeline::cache::lookup at its three call sites: before acquiring a      *)
(* flight, again as its leader, and as a waiter that was told an answer.    *)
Then(p, first, leader) ==
    IF p = "lookup" THEN first ELSE IF p = "recheck" THEN leader ELSE "done"

Lookup(q) ==
    LET k == ctx[q].key
        s == slot[k]
    IN  /\ pc[q] \in {"lookup", "recheck", "told"}
        /\ slot' = [slot EXCEPT ![k] = Swept(s)]
        /\ \/ /\ Current(s)
              /\ out' = [out EXCEPT ![q] = Outcome(s.neg, TRUE, s.rev)]
              /\ pc' = [pc EXCEPT ![q] = Then(pc[q], "done", "serve")]
           \/ /\ PositiveHit(s, ctx[q].mode)
              /\ out' = [out EXCEPT ![q] = Outcome(s.pos, s.strict, s.rev)]
              /\ pc' = [pc EXCEPT ![q] = Then(pc[q], "hit", "leadhit")]
           \/ /\ ~Current(s) /\ ~PositiveHit(s, ctx[q].mode)
              /\ pc' = [pc EXCEPT ![q] = Then(pc[q], "acquire", "exchange")]
              /\ UNCHANGED out
        /\ UNCHANGED <<revision, fenceVars, flights, ctx, chanVars, actorVars,
                       invVars, lifeVars>>

(* A positive hit near its expiry spawns a refresh when maybe_spawn_refresh *)
(* becomes the leader of the refresh flight; then the hit is returned, and  *)
(* published when a leader made it.                                         *)
AfterServe(q) == IF pc[q] = "hit" THEN "done" ELSE "serve"

SpawnRefresh(q, r) ==
    /\ pc[q] \in {"hit", "leadhit"} /\ pc[r] = "idle"
    /\ <<ctx[q].key, "refresh">> \notin flights
    /\ Cardinality(flights) < MaxFlights
    /\ flights' = flights \cup {<<ctx[q].key, "refresh">>}
    /\ ctx' = [ctx EXCEPT ![r] =
                 Context(ctx[q].key, ctx[q].mode, "refresh", ctx[q].epoch, out[q].rev)]
    /\ out' = [out EXCEPT ![r] = out[q]]
    /\ pc' = [pc EXCEPT ![q] = AfterServe(q), ![r] = "exchange"]
    /\ UNCHANGED <<cacheVars, fenceVars, chanVars, actorVars, invVars, lifeVars>>

ServeHit(q) ==
    /\ pc[q] \in {"hit", "leadhit"}
    /\ pc' = [pc EXCEPT ![q] = AfterServe(q)]
    /\ UNCHANGED <<cacheVars, fenceVars, flights, ctx, out, chanVars, actorVars,
                   invVars, lifeVars>>

(* Singleflight::acquire: join a flight, lead a new one, or be rejected as  *)
(* Overloaded.                                                              *)
Acquire(q) ==
    LET f == Flight(q)
    IN  /\ pc[q] = "acquire"
        /\ \/ /\ f \in flights
              /\ pc' = [pc EXCEPT ![q] =
                    IF Cardinality(Waiting(f)) >= MaxWaiters THEN "done" ELSE "wait"]
              /\ UNCHANGED flights
           \/ /\ f \notin flights /\ Cardinality(flights) < MaxFlights
              /\ pc' = [pc EXCEPT ![q] = "recheck"]
              /\ flights' = flights \cup {f}
           \/ /\ f \notin flights /\ Cardinality(flights) >= MaxFlights
              /\ pc' = [pc EXCEPT ![q] = "done"]
              /\ UNCHANGED flights
        /\ UNCHANGED <<cacheVars, fenceVars, ctx, out, chanVars, actorVars,
                       invVars, lifeVars>>

-----------------------------------------------------------------------------
(* Publication into the cache (cache/store.rs).                             *)

(* Seeded bug for NoResurrection: the captured epoch is not compared.       *)
InEpochIfOpen(q) == accepting

(* What every *_if_current checks: publication accepts the epoch the query  *)
(* captured, and a refresh still finds the revision it started from.        *)
InEpoch(q) == accepting /\ ctx[q].epoch = epoch

(* Seeded bug for RefreshReplacesWhatItSaw: the revision is not compared.   *)
AdmitsAnyRevision(q) == InEpoch(q)

Admits(q) ==
    /\ InEpoch(q)
    /\ ctx[q].kind = "refresh" =>
         slot[ctx[q].key].rev = ctx[q].rev /\ slot[ctx[q].key].pos # None

(* CacheShard::put: the value goes in, and the least recently used others   *)
(* go out until the shard fits its entry and byte budgets.                  *)
Inserted(k, s, evicted) ==
    [j \in Keys |-> IF j = k THEN s ELSE IF j \in evicted THEN Empty ELSE slot[j]]

(* A place in the actor's channel that no reserved permit holds.            *)
HasRoom == Len(commands) + (IF inv.pc = "reserved" THEN 1 ELSE 0) < MaxCommands

(* DnsCachePersister::save: a put that is oversize, or that a full or       *)
(* closed channel refuses, is dropped.                                      *)
Save(k, a) ==
    \/ UNCHANGED chanVars
    \/ /\ worker.st = "run" /\ HasRoom
       /\ commands' = Append(commands, [t |-> "put", epoch |-> pepoch, key |-> k, ans |-> a])
       /\ UNCHANGED pepoch

(* put_exact_if_current with publish_exact: a cacheable positive or NODATA. *)
StorePositive(q) ==
    LET k == ctx[q].key
    IN  /\ pc[q] = "exchange"
        /\ \/ /\ Admits(q)
              /\ \E evicted \in SUBSET (Keys \ {k}) :
                    slot' = Inserted(k, Positive(q, TRUE, revision), evicted)
              /\ revision' = revision + 1
              /\ Save(k, q)
           \/ /\ ~Admits(q)
              /\ UNCHANGED <<cacheVars, chanVars>>
        /\ pc' = [pc EXCEPT ![q] = "publish"]
        /\ out' = [out EXCEPT ![q] = Outcome(q, TRUE, 0)]
        /\ UNCHANGED <<fenceVars, flights, ctx, actorVars, invVars, lifeVars>>

(* put_negative_if_current: the negative is merged into the slot under a    *)
(* new revision.  NXDOMAIN found by a refresh removes the positive first.   *)
Merged(s, q) == Slot(s.pos, s.age, s.strict, q, "fresh", revision)

StoreNegative(q) ==
    LET k == ctx[q].key
        s == slot[k]
        nxdomain == pc[q] = "exchange"
    IN  /\ pc[q] \in {"exchange", "servfail"}
        /\ \/ /\ Admits(q)
              /\ \E evicted \in SUBSET (Keys \ {k}) :
                    /\ Present(s) => evicted = {}
                    /\ slot' = Inserted(k,
                          Merged(IF ctx[q].kind = "refresh" /\ nxdomain
                                 THEN DropPositive(s) ELSE s, q), evicted)
              /\ revision' = revision + 1
           \/ /\ ~Admits(q)
              /\ UNCHANGED cacheVars
        /\ pc' = [pc EXCEPT ![q] = "publish"]
        /\ out' = [out EXCEPT ![q] = Outcome(q, TRUE, 0)]
        /\ UNCHANGED <<fenceVars, flights, ctx, chanVars, actorVars, invVars, lifeVars>>

(* supersede_exact_if_current: an answer without a usable lifetime removes  *)
(* the whole slot.                                                          *)
Supersede(q) ==
    LET k == ctx[q].key
    IN  /\ pc[q] = "exchange"
        /\ \/ /\ Admits(q) /\ Present(slot[k])
              /\ slot' = [slot EXCEPT ![k] = Empty]
              /\ revision' = revision + 1
           \/ /\ ~(Admits(q) /\ Present(slot[k]))
              /\ UNCHANGED cacheVars
        /\ pc' = [pc EXCEPT ![q] = "publish"]
        /\ out' = [out EXCEPT ![q] = Outcome(q, TRUE, 0)]
        /\ UNCHANGED <<fenceVars, flights, ctx, chanVars, actorVars, invVars, lifeVars>>

(* An answer that store leaves out of the cache: a fixed TTL of zero, a     *)
(* truncated or oversize answer, or one only compatibility mode accepts     *)
(* (a refresh is always analyzed strictly).                                 *)
Unstored(q, strict) ==
    /\ pc[q] \in {"exchange", "servfail"}
    /\ strict \/ (ctx[q].mode = "compat" /\ ctx[q].kind = "resolve")
    /\ pc' = [pc EXCEPT ![q] = "publish"]
    /\ out' = [out EXCEPT ![q] = Outcome(q, strict, 0)]
    /\ UNCHANGED <<cacheVars, fenceVars, flights, ctx, chanVars, actorVars,
                   invVars, lifeVars>>

(* stale_outcome after an exchange error or an accepted SERVFAIL.           *)
ServeStale(q) ==
    LET s == slot[ctx[q].key]
    IN  /\ pc[q] = "exchange"
        /\ StaleHit(s, ctx[q].mode)
        /\ pc' = [pc EXCEPT ![q] = "publish"]
        /\ out' = [out EXCEPT ![q] = Outcome(s.pos, s.strict, s.rev)]
        /\ UNCHANGED <<cacheVars, fenceVars, flights, ctx, chanVars, actorVars,
                       invVars, lifeVars>>

(* An accepted SERVFAIL that found nothing stale to serve, or a rejected    *)
(* one, which does not look, goes on to be stored.                          *)
NoStale(q) ==
    /\ pc[q] = "exchange"
    /\ pc' = [pc EXCEPT ![q] = "servfail"]
    /\ UNCHANGED <<cacheVars, fenceVars, flights, ctx, out, chanVars, actorVars,
                   invVars, lifeVars>>

-----------------------------------------------------------------------------
(* The end of a flight (singleflight.rs).                                   *)

(* Seeded bug for FlightHasOneLeader and QueryEnds: the entry stays in the  *)
(* table.                                                                   *)
PublishKeepsEntry(q) ==
    LET told == Waiting(Flight(q))
    IN  /\ pc[q] \in {"serve", "publish"}
        /\ UNCHANGED flights
        /\ pc' = [p \in Queries |-> IF p = q THEN "done"
                                    ELSE IF p \in told THEN "told" ELSE pc[p]]
        /\ out' = [p \in Queries |-> IF p \in told THEN out[q] ELSE out[p]]
        /\ UNCHANGED <<cacheVars, fenceVars, ctx, chanVars, actorVars, invVars, lifeVars>>

(* FlightLeader::publish removes the entry and sends under the table lock,  *)
(* so every attached waiter is told before a successor can lead.            *)
Publish(q) ==
    LET told == Waiting(Flight(q))
    IN  /\ pc[q] \in {"serve", "publish"}
        /\ flights' = flights \ {Flight(q)}
        /\ pc' = [p \in Queries |-> IF p = q THEN "done"
                                    ELSE IF p \in told THEN "told" ELSE pc[p]]
        /\ out' = [p \in Queries |-> IF p \in told THEN out[q] ELSE out[p]]
        /\ UNCHANGED <<cacheVars, fenceVars, ctx, chanVars, actorVars, invVars, lifeVars>>

(* Dropping the leader: its entry goes and attached waiters retry acquire.  *)
Released(q, outcome) ==
    LET retry == IF Leading(q) THEN Waiting(Flight(q)) ELSE {}
    IN  /\ flights' = IF Leading(q) THEN flights \ {Flight(q)} ELSE flights
        /\ pc' = [p \in Queries |-> IF p = q THEN "done"
                                    ELSE IF p \in retry THEN "acquire" ELSE pc[p]]
        /\ out' = [out EXCEPT ![q] = outcome]
        /\ UNCHANGED <<cacheVars, fenceVars, ctx, chanVars, actorVars, invVars, lifeVars>>

(* publish_outcome without a validated template, which only an answer of    *)
(* compatibility mode can lack: the caller is served, the flight is not.    *)
PublishUntemplated(q) ==
    /\ pc[q] \in {"serve", "publish"} /\ ~out[q].strict
    /\ Released(q, out[q])

(* The caller goes away, a flush generation cancels the operation, the      *)
(* refresh task is aborted, or a lookup cannot render its hit: as leader it *)
(* then returns without failing the flight.                                 *)
Cancel(q) ==
    /\ pc[q] \notin {"idle", "done"}
    /\ Released(q, NoOutcome)

(* run fails (an exchange error with nothing stale, a packet rejection, a   *)
(* response that cannot be accepted or rendered): FlightLeader::fail tells  *)
(* the waiters.                                                             *)
Fail(q) ==
    LET told == Waiting(Flight(q))
    IN  /\ pc[q] \in {"exchange", "publish"}
        /\ flights' = flights \ {Flight(q)}
        /\ pc' = [p \in Queries |-> IF p \in told \cup {q} THEN "done" ELSE pc[p]]
        /\ out' = [out EXCEPT ![q] = NoOutcome]
        /\ UNCHANGED <<cacheVars, fenceVars, ctx, chanVars, actorVars, invVars, lifeVars>>

-----------------------------------------------------------------------------
(* Time: a positive answer expires, then leaves stale retention; a negative *)
(* one expires.                                                             *)
Aged(s) == Slot(s.pos, IF s.age = "fresh" THEN "stale" ELSE "dead", s.strict,
                s.neg, s.negAge, s.rev)
NegativeAged(s) == Slot(s.pos, s.age, s.strict, s.neg, "expired", s.rev)

AgePositive(k) ==
    /\ slot[k].pos # None /\ slot[k].age # "dead"
    /\ slot' = [slot EXCEPT ![k] = Aged(slot[k])]
    /\ UNCHANGED <<revision, fenceVars, flights, queryVars, chanVars, actorVars,
                   invVars, lifeVars>>

AgeNegative(k) ==
    /\ Current(slot[k])
    /\ slot' = [slot EXCEPT ![k] = NegativeAged(slot[k])]
    /\ UNCHANGED <<revision, fenceVars, flights, queryVars, chanVars, actorVars,
                   invVars, lifeVars>>

-----------------------------------------------------------------------------
(* Explicit invalidation (cache/control.rs).  The mutation lock admits one  *)
(* at a time, and a place in the channel is reserved before memory is       *)
(* touched; a stopped actor is reported then.                               *)
Reserve ==
    /\ inv.pc = "idle" /\ ninv < MaxInvalidations
    /\ worker.st = "run" /\ HasRoom
    /\ inv' = Invalidation("reserved", 0, {}, "none")
    /\ ninv' = ninv + 1
    /\ UNCHANGED <<cacheVars, fenceVars, flights, queryVars, chanVars, actorVars,
                   dropped, erased, lifeVars>>

Barrier(t, ks) == [t |-> t, epoch |-> pepoch + 1, keys |-> ks]

(* Every answer for those keys that any step before this one may have       *)
(* obtained.                                                                *)
Doomed(ks) == {q \in Queries : pc[q] # "idle" /\ ctx[q].key \in ks}

(* One critical section of publication raises the fence, removes the        *)
(* selected slots and queues the barrier, which is lost if the actor has    *)
(* stopped since.                                                           *)
RaiseFence(t, ks) ==
    /\ inv.pc = "reserved"
    /\ epoch' = epoch + 1 /\ accepting' = FALSE
    /\ slot' = [k \in Keys |-> IF k \in ks THEN Empty ELSE slot[k]]
    /\ pepoch' = pepoch + 1
    /\ commands' = IF worker.st = "run" THEN Append(commands, Barrier(t, ks)) ELSE commands
    /\ inv' = Invalidation("wait", pepoch + 1, Doomed(ks), "none")
    /\ dropped' = dropped \cup Doomed(ks)
    /\ UNCHANGED <<revision, flights, queryVars, actorVars, ninv, erased, lifeVars>>

(* A flush selects every key; a name with types selects theirs; an id       *)
(* selects its key, or none once it is gone.                                *)
Invalidate ==
    \/ RaiseFence("flush", Keys)
    \/ \E ks \in SUBSET Keys : RaiseFence("invalidate", ks)

(* PublicationFence::drop.                                                  *)
LowerFence ==
    /\ epoch' = epoch + 1 /\ accepting' = TRUE
    /\ inv' = NoInvalidation
    /\ UNCHANGED <<cacheVars, flights, queryVars, chanVars, actorVars, ninv,
                   dropped, lifeVars>>

(* complete: the acknowledgement arrived, or the stopped actor dropped it.  *)
InvalidateReturns ==
    /\ inv.pc = "wait"
    /\ inv.ack # "none" \/ worker.st = "stopped"
    /\ LowerFence
    /\ erased' = IF inv.ack = "ok" THEN erased \cup inv.doomed ELSE erased

(* The API request is dropped while it waits.                               *)
InvalidateDropped ==
    /\ inv.pc = "wait"
    /\ LowerFence
    /\ UNCHANGED erased

-----------------------------------------------------------------------------
(* The persistence actor (persist/worker.rs): one thread, one command or    *)
(* one tick at a time.                                                      *)
Row(a, e) == [ans |-> a, epoch |-> e]
PendingKeys == {k \in Keys : pending[k].ans # None}

(* Seeded bug for PublicationReopens: the acknowledgement is not sent.      *)
AckedNobody(e, result) == UNCHANGED inv

(* Acknowledge the invalidation that sent the barrier, if it still waits.   *)
Acked(e, result) ==
    inv' = IF inv.pc = "wait" /\ inv.epoch = e
           THEN Invalidation("wait", e, inv.doomed, result) ELSE inv

(* write_active on a pending set: the rows of the active epoch leave it and *)
(* are written, or are skipped over budget, or come back on failure.        *)
WriteActive(rows, active) ==
    LET batch == {k \in Keys : rows[k].ans # None /\ rows[k].epoch = active}
        left == [k \in Keys |-> IF k \in batch THEN NoRow ELSE rows[k]]
    IN  \/ /\ pending' = left
           /\ db' = [k \in Keys |-> IF k \in batch THEN rows[k].ans ELSE db[k]]
           /\ UNCHANGED faults
        \/ /\ batch # {}
           /\ pending' = left
           /\ UNCHANGED <<db, faults>>
        \/ /\ batch # {} /\ faults < MaxFaults
           /\ pending' = rows
           /\ faults' = faults + 1
           /\ UNCHANGED db

Tick ==
    /\ worker.st = "run" /\ PendingKeys # {}
    /\ WriteActive(pending, worker.active)
    /\ UNCHANGED <<cacheVars, fenceVars, flights, queryVars, chanVars, worker,
                   invVars, restarts>>

Receive(t) == worker.st = "run" /\ commands # <<>> /\ Head(commands).t = t

(* receive_put, with its stale-epoch, oversize and full-set early returns.  *)
ReceivePut ==
    LET c == Head(commands)
    IN  /\ Receive("put")
        /\ commands' = Tail(commands)
        /\ \/ UNCHANGED pending
           \/ /\ c.epoch >= worker.active
              /\ pending[c.key].ans # None => pending[c.key].epoch <= c.epoch
              /\ pending[c.key].ans # None \/ Cardinality(PendingKeys) < MaxPending
              /\ pending' = [pending EXCEPT ![c.key] = Row(c.ans, c.epoch)]
        /\ UNCHANGED <<cacheVars, fenceVars, flights, queryVars, pepoch, worker,
                       db, invVars, lifeVars>>

(* Seeded bug for ActorInStep: older rows stay in the pending set.          *)
DiscardNothing(e) == pending

(* flush: older pending rows go before the table is cleared.  Every row was *)
(* older (ActorInStep), so that write_active is left with nothing to write, *)
(* and a barrier is never older than the active epoch.                      *)
DiscardBefore(e) ==
    [k \in Keys |-> IF pending[k].epoch < e THEN NoRow ELSE pending[k]]

ReceiveFlush ==
    LET e == Head(commands).epoch
    IN  /\ Receive("flush")
        /\ commands' = Tail(commands)
        /\ worker' = Working("run", e, worker.rows)
        /\ pending' = DiscardBefore(e)
        /\ \/ /\ db' = [k \in Keys |-> None]
              /\ Acked(e, "ok")
              /\ UNCHANGED faults
           \/ /\ faults < MaxFaults
              /\ faults' = faults + 1
              /\ Acked(e, "err")
              /\ UNCHANGED db
        /\ UNCHANGED <<cacheVars, fenceVars, flights, queryVars, pepoch, ninv,
                       dropped, erased, restarts>>

(* Seeded bug for PendingDrains: spared rows keep their epoch.              *)
SurvivorsKeepEpoch(e, ks) ==
    [k \in Keys |->
        IF pending[k].ans = None \/ (k \in ks /\ pending[k].epoch < e) THEN NoRow
        ELSE pending[k]]

(* invalidate: selected older rows leave the pending set, the others move   *)
(* to the new epoch so that they are still written.                         *)
Survivors(e, ks) ==
    [k \in Keys |->
        IF pending[k].ans = None \/ (k \in ks /\ pending[k].epoch < e) THEN NoRow
        ELSE Row(pending[k].ans, IF pending[k].epoch < e THEN e ELSE pending[k].epoch)]

ReceiveInvalidate ==
    LET c == Head(commands)
    IN  /\ Receive("invalidate")
        /\ commands' = Tail(commands)
        /\ worker' = Working("run", c.epoch, worker.rows)
        /\ pending' = Survivors(c.epoch, c.keys)
        /\ \/ /\ db' = [k \in Keys |-> IF k \in c.keys THEN None ELSE db[k]]
              /\ Acked(c.epoch, "ok")
              /\ UNCHANGED faults
           \/ /\ faults < MaxFaults
              /\ faults' = faults + 1
              /\ Acked(c.epoch, "err")
              /\ UNCHANGED db
        /\ UNCHANGED <<cacheVars, fenceVars, flights, queryVars, pepoch, ninv,
                       dropped, erased, restarts>>

-----------------------------------------------------------------------------
(* Process life.                                                            *)

(* finalize_shutdown queues the shutdown; the actor then writes the rows of *)
(* the newest epoch and stops, closing its channel.                         *)
Shutdown ==
    /\ worker.st = "run" /\ HasRoom /\ restarts < MaxRestarts
    /\ \A i \in DOMAIN commands : commands[i].t # "shutdown"
    /\ commands' = Append(commands, [t |-> "shutdown"])
    /\ UNCHANGED <<cacheVars, fenceVars, flights, queryVars, pepoch, actorVars,
                   invVars, lifeVars>>

Newest(e) == \A k \in Keys : e >= worker.active /\ e >= pending[k].epoch

ReceiveShutdown ==
    /\ Receive("shutdown")
    /\ commands' = <<>>
    /\ \E e \in {worker.active} \cup {pending[k].epoch : k \in Keys} :
          /\ Newest(e)
          /\ worker' = Working("stopped", e, {})
          /\ WriteActive(DiscardBefore(e), e)
    /\ UNCHANGED <<cacheVars, fenceVars, flights, queryVars, pepoch, invVars, restarts>>

(* The process ends, by exit or crash, at any point and starts again: the   *)
(* rows survive, everything else is new, and queries under way are gone.    *)
(* init_cache_db restores the rows before it installs the persister, and    *)
(* before an API that could invalidate is served.                           *)
Restart ==
    /\ restarts < MaxRestarts
    /\ restarts' = restarts + 1
    /\ slot' = [k \in Keys |-> Empty] /\ revision' = 1
    /\ epoch' = 0 /\ accepting' = TRUE
    /\ flights' = {}
    /\ pc' = [q \in Queries |-> IF pc[q] = "idle" THEN "idle" ELSE "done"]
    /\ out' = [q \in Queries |-> IF pc[q] = "done" THEN out[q] ELSE NoOutcome]
    /\ commands' = <<>> /\ pepoch' = 0
    /\ worker' = Working("restore", 0, {k \in Keys : db[k] # None})
    /\ pending' = [k \in Keys |-> NoRow]
    /\ inv' = NoInvalidation
    /\ dropped' = erased
    /\ UNCHANGED <<ctx, db, ninv, erased, faults>>

(* restore visits one row at a time: a usable row is published, for         *)
(* compatibility mode only; an expired, corrupt or foreign one is skipped.  *)
RestoreRow(k) ==
    /\ worker.st = "restore" /\ k \in worker.rows
    /\ worker' = Working("restore", worker.active, worker.rows \ {k})
    /\ \/ /\ \E evicted \in SUBSET (Keys \ {k}) :
                slot' = Inserted(k, Positive(db[k], FALSE, revision), evicted)
          /\ revision' = revision + 1
       \/ UNCHANGED cacheVars
    /\ UNCHANGED <<fenceVars, flights, queryVars, chanVars, pending, db, invVars, lifeVars>>

(* Restore was acknowledged: the cache mirrors into the actor from here on. *)
InstallPersister ==
    /\ worker.st = "restore" /\ worker.rows = {}
    /\ worker' = Working("run", worker.active, {})
    /\ UNCHANGED <<cacheVars, fenceVars, flights, queryVars, chanVars, pending, db,
                   invVars, lifeVars>>

-----------------------------------------------------------------------------
Resolve(q) ==
    \/ \E k \in Keys, m \in Modes : Start(q, k, m)
    \/ Lookup(q)
    \/ \E r \in Queries : SpawnRefresh(q, r)
    \/ ServeHit(q)
    \/ Acquire(q)
    \/ StorePositive(q)
    \/ StoreNegative(q)
    \/ Supersede(q)
    \/ \E strict \in BOOLEAN : Unstored(q, strict)
    \/ ServeStale(q)
    \/ NoStale(q)
    \/ Publish(q)
    \/ PublishUntemplated(q)
    \/ Fail(q)

Actor == Tick \/ ReceivePut \/ ReceiveFlush \/ ReceiveInvalidate \/ ReceiveShutdown
         \/ (\E k \in Keys : RestoreRow(k)) \/ InstallPersister

Next ==
    \/ \E q \in Queries : Resolve(q)
    \/ \E q \in Queries : Cancel(q)
    \/ \E k \in Keys : AgePositive(k)
    \/ \E k \in Keys : AgeNegative(k)
    \/ Reserve
    \/ Invalidate
    \/ InvalidateReturns
    \/ InvalidateDropped
    \/ Actor
    \/ Shutdown
    \/ Restart

Spec == Init /\ [][Next]_vars

(* A started query goes on (every exchange is bounded by a timeout), the    *)
(* actor's thread takes its commands, and an acknowledged invalidation      *)
(* returns.  Nothing makes a caller start, cancel or invalidate, a row age, *)
(* or the process restart.                                                  *)
Advance(q) == pc[q] # "idle" /\ Resolve(q)
Fairness ==
    /\ \A q \in Queries : WF_vars(Advance(q))
    /\ WF_vars(Actor)
    /\ WF_vars(InvalidateReturns)

FairSpec == Spec /\ Fairness

-----------------------------------------------------------------------------
(* The shape of the state.                                                  *)
Answers == Queries \cup {None}
Slots == [pos : Answers, age : {"fresh", "stale", "dead"}, strict : BOOLEAN,
          neg : Answers, negAge : {"fresh", "expired"}, rev : Nat]
Contexts == [key : Keys, mode : {"strict", "compat"}, kind : {"resolve", "refresh"},
             epoch : Nat, rev : Nat]
PcStates == LeaderStates \cup {"idle", "lookup", "hit", "acquire", "wait", "told", "done"}
Outcomes == [ans : Answers, strict : BOOLEAN, rev : Nat]
Puts == [t : {"put"}, epoch : Nat, key : Keys, ans : Queries]
Barriers == [t : {"flush", "invalidate"}, epoch : Nat, keys : SUBSET Keys]
Rows == [ans : Answers, epoch : Nat]
Workers == [st : {"run", "restore", "stopped"}, active : Nat, rows : SUBSET Keys]
Invalidations == [pc : {"idle", "reserved", "wait"}, epoch : Nat, doomed : SUBSET Queries,
                  ack : {"none", "ok", "err"}]
Commands == Puts \cup Barriers \cup {[t |-> "shutdown"]}

TypeOK ==
    /\ slot \in [Keys -> Slots] /\ revision \in Nat
    /\ epoch \in Nat /\ accepting \in BOOLEAN
    /\ flights \subseteq Keys \X {"strict", "compat", "refresh"}
    /\ pc \in [Queries -> PcStates] /\ ctx \in [Queries -> Contexts]
    /\ out \in [Queries -> Outcomes]
    /\ commands \in Seq(Commands) /\ pepoch \in Nat
    /\ worker \in Workers
    /\ pending \in [Keys -> Rows]
    /\ db \in [Keys -> Answers]
    /\ inv \in Invalidations
    /\ ninv \in Nat /\ restarts \in Nat /\ faults \in Nat
    /\ dropped \subseteq Queries /\ erased \subseteq Queries

(* After an invalidation raised its fence (cache/control.rs), none of the   *)
(* answers it selected is in a slot again in this process, whatever query,  *)
(* refresh or stored row was under way; once it reported success, none is   *)
(* in the state db either, across ticks, failed writes, a shutdown and      *)
(* restarts.                                                                *)
NoResurrection ==
    \A k \in Keys : /\ slot[k].pos \notin dropped /\ slot[k].neg \notin dropped
                    /\ db[k] \notin erased

(* Every entry of the flight table has exactly one leader (singleflight.rs):*)
(* no key is exchanged twice at once, and no entry outlives the task that   *)
(* would wake its waiters.                                                  *)
FlightHasOneLeader ==
    /\ \A p, q \in Queries : Leading(p) /\ Leading(q) /\ Flight(p) = Flight(q) => p = q
    /\ flights = {Flight(q) : q \in {p \in Queries : Leading(p)}}

(* A strict query is only ever given an answer that passed strict           *)
(* admission in this process: not a restored row, not one that              *)
(* compatibility mode accepted, neither from the cache nor from a flight    *)
(* (cache/store.rs lookup_exact, FlightKey::resolve).                       *)
StrictAdmission ==
    \A q \in Queries :
        ctx[q].mode = "strict" /\ ctx[q].kind = "resolve" /\ out[q].ans # None
            => out[q].strict

(* A retained slot holds an answer, as inspect_exact relies on with         *)
(* unreachable!("retained cache slots contain an answer"), and a missing    *)
(* one holds none.                                                          *)
SlotHasAnswer ==
    \A k \in Keys : Present(slot[k]) <=> slot[k].pos # None \/ slot[k].neg # None

(* The actor is never behind itself (persist/worker.rs): a queued command   *)
(* is never older than the active epoch, so no barrier is superseded and no *)
(* put discarded, and a pending row always belongs to the active epoch, so  *)
(* that the next tick writes it.                                            *)
ActorInStep ==
    /\ \A i \in DOMAIN commands :
          /\ commands[i].t = "put" => commands[i].epoch >= worker.active
          /\ commands[i].t \in {"flush", "invalidate"} => commands[i].epoch > worker.active
    /\ \A k \in PendingKeys : pending[k].epoch = worker.active

(* A background refresh changes its slot only while the slot still holds    *)
(* the answer whose hit spawned it, and leaves any newer publication alone  *)
(* (maybe_spawn_refresh and the revision check of cache/store.rs).          *)
RefreshReplacesWhatItSaw ==
    [][\A r \in Queries :
         /\ ctx[r].kind = "refresh"
         /\ pc[r] \in {"exchange", "servfail"} /\ pc'[r] = "publish"
         /\ slot'[ctx[r].key] # slot[ctx[r].key]
         => slot[ctx[r].key].pos = out[r].ans]_vars

(* Every query that was started ends: a waiter is told, failed, or retries  *)
(* when its leader goes away (singleflight.rs, engine/pipeline.rs).         *)
QueryEnds == \A q \in Queries : pc[q] # "idle" ~> pc[q] = "done"

(* Publication reopens after every invalidation, successful, failed or      *)
(* abandoned (PublicationFence).                                            *)
PublicationReopens == ~accepting ~> accepting

(* A row in the pending set is written or given up, unless the process      *)
(* stops first (write_active, and the epochs invalidate raises).            *)
PendingDrains ==
    \A k \in Keys : pending[k].ans # None ~> pending[k].ans = None \/ worker.st # "run"

=============================================================================
