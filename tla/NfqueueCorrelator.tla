-------------------------- MODULE NfqueueCorrelator --------------------------
(***************************************************************************)
(* The held-first-packet UDP path of honk (crates/honk-core/src/control/   *)
(* nfqueue): the kernel stages a new flow as Pending under a fresh token   *)
(* and queues its packets; the ingest actor holds each packet's verdict    *)
(* guard in the flow's cell and starts an initializer; the initializer     *)
(* asks the commit pump for direct, proxy or block; the pump commits the   *)
(* decision to the kernel record and settles the held verdicts.            *)
(* Cancellations, the watchdog, the retirement worker and a reload race    *)
(* with all of that.                                                       *)
(*                                                                         *)
(* Names.  A token is named by the packet that was staged with it, and a   *)
(* cell and an endpoint generation by the packet that created them, so     *)
(* Packets bounds everything.  The backend's write lock (W) is the pump's  *)
(* while it applies a batch; every other W section runs without awaiting   *)
(* and is one step, enabled when W is free.                                *)
(***************************************************************************)
EXTENDS Naturals, Sequences, FiniteSets, SequencesExt

CONSTANTS
    Keys,          \* UDP flows (client, destination)
    Packets,       \* packets of those flows
    None,          \* no packet, cell, token or generation
    MaxQueue,      \* NFQUEUE_INGEST_QUEUE_LEN
    MaxHeld,       \* MAX_HELD_VERDICTS_PER_FLOW
    MaxFlows,      \* MAX_CORRELATOR_FLOWS (also the commit queue's bound)
    MaxCleanups,   \* MAX_SCHEDULED_CLEANUPS
    MaxBatch,      \* RETIRE_BATCH_CAPACITY
    MaxLate,       \* expired deadlines explored
    MaxFaults,     \* verdict or backend failures explored
    MaxReloads     \* reloads explored

ASSUME NoneAssumption == None \notin Packets /\ None \notin Keys
ASSUME BoundsAssumption ==
    /\ MaxQueue \in Nat \ {0} /\ MaxHeld \in Nat \ {0}
    /\ MaxFlows \in Nat \ {0} /\ MaxCleanups \in Nat \ {0}
    /\ MaxBatch \in Nat \ {0}
    /\ MaxLate \in Nat /\ MaxFaults \in Nat /\ MaxReloads \in Nat

VARIABLES
    conn,       \* kernel CONN_STATE_MAP: token and decision state of a flow
    ready,      \* DATAPATH_FLAG_NFQ_READY
    pkey,       \* the flow of a packet that was queued
    ptok,       \* the token in its mark
    rcvd,       \* packets in the order the listener received them
    lateN,      \* how many of rcvd are past HARD_HOLD_TIMEOUT
    verdict,    \* what VerdictGuard sent for a packet
    payload,    \* the endpoint generation a packet's payload went to
    wire,       \* kernel NFQUEUE, in order
    queue,      \* the ingest actor's channel
    ing,        \* what the ingest actor is doing
    open,       \* AdmissionGate.open; see module AdmissionGate
    map,        \* PendingUdpVerdicts.cells
    cellst,     \* CellState of a cell
    held,       \* its verdicts, FIFO
    cgen,       \* identity.endpoint_generation
    cleanups,   \* scheduled_cleanups
    drain,      \* the cleanup a drainer has executed but not removed yet
    ep,         \* UdpEndpointPool.endpoints: generation and entry kind
    served,     \* generations that became Ready
    task,       \* where a generation's initializer task is
    lease,      \* who holds its UdpInitLease
    cancelled,  \* initializers told to stop because their entry retired
    stale,      \* initializers of an earlier initialization epoch
    commits,    \* the commit pump's channel
    pump,       \* the pump: pc and batch
    taken,      \* verdicts the pump took out of a cell
    ctl,        \* where the reload is
    reloads,    \* reloads so far
    fatal,      \* signal_fatal, or the retirement worker's fatal channel
    faults      \* failures injected so far

kernelVars == <<conn, ready>>
packetVars == <<pkey, ptok, rcvd, lateN>>
queueVars == <<wire, queue>>
cellVars == <<map, cellst, held, cgen>>
cleanupVars == <<cleanups, drain>>
endpointVars == <<ep, served, cancelled>>
taskVars == <<task, lease, stale>>
pumpVars == <<commits, pump, taken>>
ctlVars == <<open, ctl, reloads>>
failVars == <<fatal, faults>>

vars == <<kernelVars, packetVars, verdict, payload, queueVars, ing, cellVars,
          cleanupVars, endpointVars, taskVars, pumpVars, ctlVars, failVars>>

-----------------------------------------------------------------------------
Decisions == {"direct", "proxy", "block"}
CellStates == {"none", "pending", "cancelling", "armed",
               "direct", "proxy", "block", "dead"}

(* CellState::Pending; cancelling and armed exclude each other.             *)
Unarmed(c) == cellst[c] \in {"pending", "cancelling"}
IsPending(c) == Unarmed(c) \/ cellst[c] = "armed"

(* Both deadlines run from receipt: a packet's, and (started_at of the      *)
(* first held packet) its cell's.                                           *)
Late(p) == \E i \in 1..lateN : rcvd[i] = p

(* The backend lock: a reader excludes only writers.                        *)
ReadFree == pump.pc # "apply"
WriteFree == ReadFree /\ ing.pc # "existingR"

(* Seeded bug for TypeOK: the request carries the tuple, not the token.     *)
FlowReqOfTuple(c) == [kind |-> "flow", tok |-> pkey[c], gen |-> cgen[c]]

FlowReq(c) == [kind |-> "flow", tok |-> ptok[c], gen |-> cgen[c]]
TokenReq(t) == [kind |-> "token", tok |-> t, gen |-> None]

(* matching_cell: the cell in the map whose identity has generation g.      *)
Matches(c, g) == c # None /\ cgen[c] = g
CellOf(g) == map[pkey[g]]

Inserted(c) == cellst[c] # "none" /\ map[pkey[c]] = c
InBatch(c) == \E i \in 1..Len(pump.batch) : pump.batch[i].cell = c
Queued(c) == \E i \in 1..Len(commits) : commits[i].cell = c
Submitting(c) == task[c] \in Decisions
(* A cell's flow slot is freed with its last reference: the map's, or that  *)
(* of a request on its way, queued or in the pump's batch.                  *)
Referenced(c) == Submitting(c) \/ Queued(c) \/ InBatch(c)
LiveCells == {c \in Packets : cellst[c] # "none"
                                /\ (map[pkey[c]] = c \/ Referenced(c))}

(* commits.is_idle() and is_empty().                                        *)
PumpIdle == commits = <<>> /\ pump.batch = <<>>
IsEmpty == (\A k \in Keys : map[k] = None) /\ cleanups = {} /\ PumpIdle

Init ==
    /\ conn = [k \in Keys |-> [tok |-> None, st |-> "absent"]]
    /\ ready = TRUE
    /\ pkey = [p \in Packets |-> None]
    /\ ptok = [p \in Packets |-> None]
    /\ rcvd = <<>>
    /\ lateN = 0
    /\ verdict = [p \in Packets |-> "none"]
    /\ payload = [p \in Packets |-> None]
    /\ wire = <<>>
    /\ queue = <<>>
    /\ ing = [pc |-> "idle", p |-> None, c |-> None]
    /\ open = TRUE
    /\ map = [k \in Keys |-> None]
    /\ cellst = [p \in Packets |-> "none"]
    /\ held = [p \in Packets |-> <<>>]
    /\ cgen = [p \in Packets |-> None]
    /\ cleanups = {}
    /\ drain = None
    /\ ep = [k \in Keys |-> [gen |-> None, st |-> "absent"]]
    /\ served = {}
    /\ task = [p \in Packets |-> "none"]
    /\ lease = [p \in Packets |-> "none"]
    /\ cancelled = {}
    /\ stale = {}
    /\ commits = <<>>
    /\ pump = [pc |-> "idle", batch |-> <<>>]
    /\ taken = [p \in Packets |-> <<>>]
    /\ ctl = "run"
    /\ reloads = 0
    /\ fatal = FALSE
    /\ faults = 0

-----------------------------------------------------------------------------
(* Effects shared by several handlers *)

(* VerdictGuard::commit for every packet of ps.  A failed send is the       *)
(* guard's only send and is fatal; drop_many's early return leaves the rest *)
(* to VerdictGuard::drop, which also sends NF_DROP.                         *)
Settle(ps, o, alsoFatal) ==
    \E lost \in {{}} \cup {{p} : p \in {q \in ps : faults < MaxFaults}} :
        /\ verdict' = [q \in Packets |-> IF q \in lost THEN "lost"
                                         ELSE IF q \in ps THEN o ELSE verdict[q]]
        /\ fatal' = (fatal \/ alsoFatal \/ lost # {})
        /\ faults' = faults + Cardinality(lost)

(* schedule_cleanup: a set with a hard bound.                               *)
Overflows(rs) == rs \ cleanups # {} /\ Cardinality(cleanups) >= MaxCleanups
(* Seeded bug for StagedTokenIsTracked: the request is turned away one too  *)
(* early, where nobody reports it.                                          *)
ScheduledTooFew(rs) ==
    IF rs \ cleanups # {} /\ Cardinality(cleanups) + 1 >= MaxCleanups
    THEN cleanups ELSE cleanups \cup rs

Scheduled(rs) == IF Overflows(rs) THEN cleanups ELSE cleanups \cup rs

(* schedule_cleanup_for_key; contended is a failed try_entry or try_lock.   *)
KeyCleanup(k, t, contended) ==
    LET c == map[k]
    IN  IF contended \/ c = None \/ (c # None /\ ptok[c] # t)
        THEN {TokenReq(t)}
        ELSE IF cellst[c] = "armed" THEN {} ELSE {FlowReq(c)}

KeyCancelling(k, t, contended) ==
    LET c == map[k]
    IN  IF ~contended /\ c # None /\ ptok[c] = t /\ Unarmed(c)
        THEN [cellst EXCEPT ![c] = "cancelling"] ELSE cellst

(* reject_held_packet: schedule the cleanup, then drop.                     *)
RejectHeld(p) ==
    \E contended \in BOOLEAN :
        LET rs == KeyCleanup(pkey[p], ptok[p], contended)
        IN  /\ cellst' = KeyCancelling(pkey[p], ptok[p], contended)
            /\ cleanups' = Scheduled(rs)
            /\ Settle({p}, "drop", Overflows(rs))

(* retire_exact: a live entry of this generation becomes a tombstone whose  *)
(* removal the retirement worker acknowledges; an initializer is told.      *)
EntryLive(g) == ep[pkey[g]].gen = g /\ ep[pkey[g]].st \in {"init", "ready"}
EntryInit(g) == ep[pkey[g]].gen = g /\ ep[pkey[g]].st = "init"
RetireExact(g) ==
    /\ ep' = IF EntryLive(g) THEN [ep EXCEPT ![pkey[g]].st = "retiring"] ELSE ep
    /\ cancelled' = IF EntryInit(g) THEN cancelled \cup {g} ELSE cancelled

(* retire_pending on the kernel record (validate_conn_retirement with       *)
(* pending_only): only the same token, and only a staged state.             *)
Absent == [tok |-> None, st |-> "absent"]
(* Seeded bug for FreshTokenSurvives: a staged record of any token goes.    *)
RetirePendingAnyToken(k, t) ==
    IF conn[k].st = "pending" THEN [conn EXCEPT ![k] = Absent] ELSE conn

RetirePending(k, t) ==
    IF conn[k] = [tok |-> t, st |-> "pending"]
    THEN [conn EXCEPT ![k] = Absent] ELSE conn
StateMismatch(k, t) == conn[k].tok = t /\ conn[k].st # "pending"

(* cancel_unarmed once it has W, on a cell whose deadline has not passed.   *)
CancelPending(c) ==
    /\ Unarmed(c)
    /\ ~Late(c)
    /\ WriteFree
    /\ conn' = RetirePending(pkey[c], ptok[c])
    /\ cellst' = [cellst EXCEPT ![c] = "dead"]
    /\ held' = [held EXCEPT ![c] = <<>>]
    /\ Settle(ToSet(held[c]), "drop", StateMismatch(pkey[c], ptok[c]))
    /\ RetireExact(c)
    /\ UNCHANGED cleanups

(* ... or the backend fails to retire the record: fatal, the cell stays.    *)
CancelFails(c) ==
    /\ Unarmed(c)
    /\ ~Late(c)
    /\ WriteFree
    /\ faults < MaxFaults
    /\ faults' = faults + 1
    /\ fatal' = TRUE
    /\ UNCHANGED <<conn, cellst, held, verdict, ep, cancelled, cleanups>>

(* expire_unarmed_pending: no W; the kernel record is left to a cleanup.    *)
ExpireUnarmed(c) ==
    /\ Unarmed(c)
    /\ cellst' = [cellst EXCEPT ![c] = "dead"]
    /\ held' = [held EXCEPT ![c] = <<>>]
    /\ RetireExact(c)
    /\ cleanups' = Scheduled({TokenReq(ptok[c])})
    /\ Settle(ToSet(held[c]), "drop", Overflows({TokenReq(ptok[c])}))

(* Seeded bug for ArmedIsOwned: the armed flow fails like a pending one.    *)
FailArmedQuietly(c) ==
    /\ cellst[c] = "armed"
    /\ cellst' = [cellst EXCEPT ![c] = "dead"]
    /\ held' = [held EXCEPT ![c] = <<>>]
    /\ RetireExact(c)
    /\ Settle(ToSet(held[c]), "drop", FALSE)
    /\ UNCHANGED cleanups

(* fail_armed: always process-fatal.                                        *)
FailArmed(c) ==
    /\ cellst[c] = "armed"
    /\ cellst' = [cellst EXCEPT ![c] = "dead"]
    /\ held' = [held EXCEPT ![c] = <<>>]
    /\ RetireExact(c)
    /\ Settle(ToSet(held[c]), "drop", TRUE)
    /\ UNCHANGED cleanups

(* expire_commit, and cancel_unarmed past the deadline.  A request that has *)
(* the lease drops it with its answer.                                      *)
ExpireCommit(c) ==
    \/ ExpireUnarmed(c)
    \/ FailArmed(c)
    \/ /\ ~IsPending(c)
       /\ IF lease[c] = "request" THEN RetireExact(c) ELSE UNCHANGED <<ep, cancelled>>
       /\ UNCHANGED <<cellst, held, cleanups, verdict, fatal, faults>>

-----------------------------------------------------------------------------
(* The kernel and the listener *)

(* LAN ingress queues the packet of a flow it stages under a new token, or  *)
(* of a flow that is Pending or DirectArmed.  In every other state it       *)
(* forwards, redirects or drops the packet and nothing here sees it.        *)
KernelIngress(p, k) ==
    /\ pkey[p] = None
    /\ ready
    /\ \/ /\ conn[k].st = "absent"
          /\ conn' = [conn EXCEPT ![k] = [tok |-> p, st |-> "pending"]]
          /\ ptok' = [ptok EXCEPT ![p] = p]
       \/ /\ conn[k].st \in {"pending", "armed"}
          /\ ptok' = [ptok EXCEPT ![p] = conn[k].tok]
          /\ UNCHANGED conn
    /\ pkey' = [pkey EXCEPT ![p] = k]
    /\ wire' = Append(wire, p)
    /\ UNCHANGED <<ready, rcvd, lateN, verdict, payload, queue, ing, cellVars,
                   cleanupVars, endpointVars, taskVars, pumpVars, ctlVars,
                   failVars>>

(* The janitor reclaims the record of a direct or blocked flow gone idle:   *)
(* its 120 s outlast every hold (3 s), so nothing of the token is in flight.*)
ConnExpire(k) ==
    /\ conn[k].st \in {"direct", "block"}
    /\ \A p \in Packets : ptok[p] = conn[k].tok => verdict[p] # "none"
    /\ WriteFree
    /\ conn' = [conn EXCEPT ![k] = Absent]
    /\ UNCHANGED <<ready, packetVars, verdict, payload, queueVars, ing,
                   cellVars, cleanupVars, endpointVars, taskVars, pumpVars,
                   ctlVars, failVars>>

(* HARD_HOLD_TIMEOUT passes for the next packet in order of receipt.        *)
Tick ==
    /\ lateN < Len(rcvd) /\ lateN < MaxLate
    /\ lateN' = lateN + 1
    /\ UNCHANGED <<kernelVars, pkey, ptok, rcvd, verdict, payload, queueVars,
                   ing, cellVars, cleanupVars, endpointVars, taskVars,
                   pumpVars, ctlVars, failVars>>

Receive ==
    /\ wire # <<>>
    /\ wire' = Tail(wire)
    /\ rcvd' = Append(rcvd, Head(wire))

(* The listener callback stamps the packet and hands it to the actor.       *)
ListenerDeliver ==
    /\ Receive
    /\ Len(queue) < MaxQueue
    /\ queue' = Append(queue, Head(wire))
    /\ UNCHANGED <<kernelVars, pkey, ptok, lateN, verdict, payload, ing,
                   cellVars, cleanupVars, endpointVars, taskVars, pumpVars,
                   ctlVars, failVars>>

(* reject_actor_queue (the channel or its byte budget is full) and          *)
(* reject_packet (a truncated or corrupt datagram).                         *)
ListenerReject ==
    /\ Receive
    /\ RejectHeld(Head(wire))
    /\ UNCHANGED <<kernelVars, pkey, ptok, lateN, payload, queue, ing, map,
                   held, cgen, drain, endpointVars, taskVars, pumpVars,
                   ctlVars>>

-----------------------------------------------------------------------------
(* The ingest actor: one packet at a time, inside an admission ticket *)

Idle == [pc |-> "idle", p |-> None, c |-> None]

(* terminal_cell_is_stale; a terminal cell's grace may end at any moment.   *)
Terminal(c) == cellst[c] \in {"direct", "proxy", "block", "dead"}

(* The gate is closed: the packet's token is handed to a cleanup.           *)
IngestRefused ==
    /\ ing.pc = "idle" /\ queue # <<>>
    /\ ~open
    /\ queue' = Tail(queue)
    /\ RejectHeld(Head(queue))
    /\ UNCHANGED <<kernelVars, packetVars, payload, wire, ing, map, held, cgen,
                   drain, endpointVars, taskVars, pumpVars, ctlVars>>

(* try_entry finds a cell that is not stale; the map entry is released      *)
(* before ingest_existing locks the cell.                                   *)
IngestFound ==
    /\ ing.pc = "idle" /\ queue # <<>>
    /\ open
    /\ LET p == Head(queue) c == map[pkey[p]]
       IN  /\ c # None
           /\ Terminal(c) => ptok[c] = ptok[p]
           /\ ing' = [pc |-> "existing", p |-> p, c |-> c]
    /\ queue' = Tail(queue)
    /\ UNCHANGED <<kernelVars, packetVars, verdict, payload, wire, cellVars,
                   cleanupVars, endpointVars, taskVars, pumpVars, ctlVars,
                   failVars>>

(* No cell, a stale one, or a contended entry: wait for the backend.        *)
IngestAwait ==
    /\ ing.pc = "idle" /\ queue # <<>>
    /\ open
    /\ ing' = [pc |-> "wait", p |-> Head(queue), c |-> None]
    /\ queue' = Tail(queue)
    /\ UNCHANGED <<kernelVars, packetVars, verdict, payload, wire, cellVars,
                   cleanupVars, endpointVars, taskVars, pumpVars, ctlVars,
                   failVars>>

(* timeout_at around ebpf.read().                                           *)
IngestTimeout ==
    /\ ing.pc = "wait"
    /\ Late(ing.p)
    /\ RejectHeld(ing.p)
    /\ ing' = Idle
    /\ UNCHANGED <<kernelVars, packetVars, payload, queueVars, map, held, cgen,
                   drain, endpointVars, taskVars, pumpVars, ctlVars>>

(* ingest_admitted_with_backend, contended.                                 *)
IngestContended ==
    /\ ing.pc = "wait" /\ ReadFree
    /\ cleanups' = Scheduled({TokenReq(ptok[ing.p])})
    /\ Settle({ing.p}, "drop", Overflows({TokenReq(ptok[ing.p])}))
    /\ ing' = Idle
    /\ UNCHANGED <<kernelVars, packetVars, payload, queueVars, cellVars, drain,
                   endpointVars, taskVars, pumpVars, ctlVars>>

(* ... finds a cell that is not stale: ingest_existing under the read lock. *)
IngestRecheck ==
    /\ ing.pc = "wait" /\ ReadFree
    /\ LET c == map[pkey[ing.p]]
       IN  /\ c # None
           /\ Terminal(c) => ptok[c] = ptok[ing.p]
           /\ ing' = [ing EXCEPT !.pc = "existingR", !.c = c]
    /\ UNCHANGED <<kernelVars, packetVars, verdict, payload, queueVars,
                   cellVars, cleanupVars, endpointVars, taskVars, pumpVars,
                   ctlVars, failVars>>

(* ingest_existing *)

AtCell(c) ==
    /\ ing.pc \in {"existing", "existingR"}
    /\ ing.c = c
    /\ ing' = Idle

(* Seeded bug for CopyReachesOwnFlow: a tuple's cell takes every token.     *)
SameTuple(c) == pkey[c] = pkey[ing.p]

SameToken(c) == ptok[c] = ptok[ing.p]

(* reserve_owned_or_enqueue_at with the cell's exact generation.            *)
EntryIs(c) == ep[pkey[c]].gen = cgen[c] /\ ep[pkey[c]].st # "absent"
EntryTakes(c) == EntryIs(c) /\ ep[pkey[c]].st \in {"init", "ready"}

(* The packet's token is not the cell's.                                    *)
ExistingOtherToken(c) ==
    /\ AtCell(c)
    /\ ~SameToken(c)
    /\ cleanups' = Scheduled({TokenReq(ptok[ing.p])})
    /\ Settle({ing.p}, "drop", Overflows({TokenReq(ptok[ing.p])}))
    /\ UNCHANGED <<kernelVars, packetVars, payload, queueVars, cellVars, drain,
                   endpointVars, taskVars, pumpVars, ctlVars>>

(* Nothing but the verdict: a full or cancelling cell, no slow permit, a    *)
(* full or closed endpoint queue, a proxy flow whose endpoint is gone, and  *)
(* the block and dead states.                                               *)
MayDrop(c) ==
    \/ IsPending(c) /\ Len(held[c]) >= MaxHeld
    \/ cellst[c] = "cancelling"
    \/ cellst[c] = "pending" /\ ~Late(c)
    \/ cellst[c] \in {"proxy", "block", "dead"}

ExistingDrop(c) ==
    /\ AtCell(c)
    /\ SameToken(c)
    /\ MayDrop(c)
    /\ Settle({ing.p}, "drop", FALSE)
    /\ UNCHANGED <<kernelVars, packetVars, payload, queueVars, cellVars,
                   cleanupVars, endpointVars, taskVars, pumpVars, ctlVars>>

(* Seeded bug for AcceptInOrder: push_front.                                *)
ExistingArmedFront(c) ==
    /\ AtCell(c)
    /\ SameToken(c)
    /\ cellst[c] = "armed"
    /\ Len(held[c]) < MaxHeld
    /\ held' = [held EXCEPT ![c] = <<ing.p>> \o @]
    /\ UNCHANGED <<kernelVars, packetVars, verdict, payload, queueVars, map,
                   cellst, cgen, cleanupVars, endpointVars, taskVars, pumpVars,
                   ctlVars, failVars>>

(* An armed cell takes the guard and forgets the payload.                   *)
ExistingArmed(c) ==
    /\ AtCell(c)
    /\ SameToken(c)
    /\ cellst[c] = "armed"
    /\ Len(held[c]) < MaxHeld
    /\ held' = [held EXCEPT ![c] = Append(@, ing.p)]
    /\ UNCHANGED <<kernelVars, packetVars, verdict, payload, queueVars, map,
                   cellst, cgen, cleanupVars, endpointVars, taskVars, pumpVars,
                   ctlVars, failVars>>

(* A pending cell past its deadline gives everything up.                    *)
ExistingOverdue(c) ==
    /\ AtCell(c)
    /\ SameToken(c)
    /\ cellst[c] = "pending"
    /\ Len(held[c]) < MaxHeld
    /\ Late(c)
    /\ cellst' = [cellst EXCEPT ![c] = "cancelling"]
    /\ held' = [held EXCEPT ![c] = <<>>]
    /\ cleanups' = Scheduled({FlowReq(c)})
    /\ Settle(ToSet(held[c]) \cup {ing.p}, "drop", Overflows({FlowReq(c)}))
    /\ UNCHANGED <<kernelVars, packetVars, payload, queueVars, map, cgen, drain,
                   endpointVars, taskVars, pumpVars, ctlVars>>

(* A pending cell copies the payload to its endpoint and holds the guard.   *)
ExistingEnqueue(c) ==
    /\ AtCell(c)
    /\ SameToken(c)
    /\ cellst[c] = "pending"
    /\ Len(held[c]) < MaxHeld
    /\ ~Late(c)
    /\ EntryTakes(c)
    /\ held' = [held EXCEPT ![c] = Append(@, ing.p)]
    /\ payload' = [payload EXCEPT ![ing.p] = cgen[c]]
    /\ UNCHANGED <<kernelVars, packetVars, verdict, queueVars, map, cellst,
                   cgen, cleanupVars, endpointVars, taskVars, pumpVars, ctlVars,
                   failVars>>

(* The endpoint of a pending cell is another one, or gone.                  *)
ExistingOrphan(c) ==
    /\ AtCell(c)
    /\ SameToken(c)
    /\ cellst[c] = "pending"
    /\ Len(held[c]) < MaxHeld
    /\ ~Late(c)
    /\ ~EntryIs(c)
    /\ cellst' = [cellst EXCEPT ![c] = "cancelling"]
    /\ cleanups' = Scheduled({FlowReq(c)})
    /\ Settle({ing.p}, "drop", Overflows({FlowReq(c)}))
    /\ UNCHANGED <<kernelVars, packetVars, payload, queueVars, map, held, cgen,
                   drain, endpointVars, taskVars, pumpVars, ctlVars>>

(* ActiveDirect: the original is released with the final mark.              *)
ExistingDirect(c) ==
    /\ AtCell(c)
    /\ SameToken(c)
    /\ cellst[c] = "direct"
    /\ Settle({ing.p}, "accept", FALSE)
    /\ UNCHANGED <<kernelVars, packetVars, payload, queueVars, cellVars,
                   cleanupVars, endpointVars, taskVars, pumpVars, ctlVars>>

(* Proxy: the copy goes to the endpoint, the original is dropped.           *)
ExistingProxy(c) ==
    /\ AtCell(c)
    /\ SameToken(c)
    /\ cellst[c] = "proxy"
    /\ EntryTakes(c)
    /\ payload' = [payload EXCEPT ![ing.p] = cgen[c]]
    /\ Settle({ing.p}, "copied", FALSE)
    /\ UNCHANGED <<kernelVars, packetVars, queueVars, cellVars, cleanupVars,
                   endpointVars, taskVars, pumpVars, ctlVars>>

IngestExisting(c) ==
    \/ ExistingOtherToken(c) \/ ExistingDrop(c) \/ ExistingArmed(c)
    \/ ExistingOverdue(c) \/ ExistingEnqueue(c) \/ ExistingOrphan(c)
    \/ ExistingDirect(c) \/ ExistingProxy(c)

(* ingest_vacant: no cell, or a stale terminal one that is removed first *)

Record(p) == conn[pkey[p]]

(* Seeded bug for LimitsHold: a slot is freed when its cell leaves the map. *)
SlotFreeOfMap(k) == Cardinality({j \in Keys : map[j] # None /\ j # k}) < MaxFlows

SlotFree(k) ==
    Cardinality({c \in LiveCells : c # map[k] \/ Referenced(c)}) < MaxFlows

AtVacant(p) ==
    /\ ing.pc = "wait" /\ ing.p = p
    /\ ReadFree
    /\ map[pkey[p]] # None => Terminal(map[pkey[p]])
    /\ ing' = Idle

(* The record belongs to the packet's token and a flow slot is available.   *)
AtRecord(p, st) ==
    /\ AtVacant(p)
    /\ SlotFree(pkey[p])
    /\ Record(p) = [tok |-> ptok[p], st |-> st]

(* A cell in state st, with generation g in its identity, enters the map.   *)
Insert(p, st, g) ==
    /\ map' = [map EXCEPT ![pkey[p]] = p]
    /\ cellst' = [cellst EXCEPT ![p] = st]
    /\ cgen' = [cgen EXCEPT ![p] = g]

Vacate(p) ==
    /\ map' = [map EXCEPT ![pkey[p]] = None]
    /\ UNCHANGED <<cellst, cgen>>

(* No flow slot, or (a fault) the record cannot be inspected.               *)
VacantRefused(p) ==
    /\ AtVacant(p)
    /\ Vacate(p)
    /\ cleanups' = Scheduled({TokenReq(ptok[p])})
    /\ \/ ~SlotFree(pkey[p]) /\ Settle({p}, "drop", Overflows({TokenReq(ptok[p])}))
       \/ /\ SlotFree(pkey[p]) /\ faults < MaxFaults
          /\ faults' = faults + 1 /\ fatal' = TRUE
          /\ verdict' = [verdict EXCEPT ![p] = "drop"]
    /\ UNCHANGED <<kernelVars, packetVars, payload, queueVars, held, drain,
                   endpointVars, taskVars, pumpVars, ctlVars>>

(* The record is gone or carries another token, or the retained proxy's     *)
(* endpoint cannot take the packet.                                         *)
VacantDrop(p) ==
    /\ AtVacant(p)
    /\ SlotFree(pkey[p])
    /\ Record(p).tok # ptok[p] \/ Record(p).st = "proxy"
    /\ Vacate(p)
    /\ Settle({p}, "drop", FALSE)
    /\ UNCHANGED <<kernelVars, packetVars, payload, queueVars, held,
                   cleanupVars, endpointVars, taskVars, pumpVars, ctlVars>>

(* Pending, and the endpoint pool reserved a new generation: the flow's     *)
(* first packet is held and its initializer starts.                         *)
VacantInitialize(p) ==
    /\ AtRecord(p, "pending")
    /\ ep[pkey[p]].st = "absent"
    /\ Insert(p, "pending", p)
    /\ held' = [held EXCEPT ![p] = <<p>>]
    /\ payload' = [payload EXCEPT ![p] = p]
    /\ ep' = [ep EXCEPT ![pkey[p]] = [gen |-> p, st |-> "init"]]
    /\ task' = [task EXCEPT ![p] = "run"]
    /\ lease' = [lease EXCEPT ![p] = "task"]
    /\ UNCHANGED <<kernelVars, packetVars, verdict, queueVars, cleanupVars,
                   served, cancelled, stale, pumpVars, ctlVars, failVars>>

(* Pending, but no permit, no capacity, or a tuple still owned by another   *)
(* entry: a dead cell and a cleanup of the token.                           *)
VacantDead(p) ==
    /\ AtRecord(p, "pending")
    /\ Insert(p, "dead", None)
    /\ cleanups' = Scheduled({TokenReq(ptok[p])})
    /\ Settle({p}, "drop", Overflows({TokenReq(ptok[p])}))
    /\ UNCHANGED <<kernelVars, packetVars, payload, queueVars, held, drain,
                   endpointVars, taskVars, pumpVars, ctlVars>>

VacantDirect(p) ==
    /\ AtRecord(p, "direct")
    /\ Insert(p, "direct", None)
    /\ Settle({p}, "accept", FALSE)
    /\ UNCHANGED <<kernelVars, packetVars, payload, queueVars, held,
                   cleanupVars, endpointVars, taskVars, pumpVars, ctlVars>>

VacantBlock(p) ==
    /\ AtRecord(p, "block")
    /\ Insert(p, "block", None)
    /\ Settle({p}, "drop", FALSE)
    /\ UNCHANGED <<kernelVars, packetVars, payload, queueVars, held,
                   cleanupVars, endpointVars, taskVars, pumpVars, ctlVars>>

(* enqueue_owned_by_token_at: the same token's live entry takes the copy.   *)
VacantProxy(p) ==
    /\ AtRecord(p, "proxy")
    /\ LET e == ep[pkey[p]]
       IN  /\ e.st \in {"init", "ready"} /\ ptok[e.gen] = ptok[p]
           /\ Insert(p, "proxy", e.gen)
           /\ payload' = [payload EXCEPT ![p] = e.gen]
    /\ Settle({p}, "copied", FALSE)
    /\ UNCHANGED <<kernelVars, packetVars, queueVars, held, cleanupVars,
                   endpointVars, taskVars, pumpVars, ctlVars>>

(* DirectArmed without a cell: armed reconstruction is fatal.               *)
VacantArmed(p) ==
    /\ AtRecord(p, "armed")
    /\ Vacate(p)
    /\ Settle({p}, "drop", TRUE)
    /\ UNCHANGED <<kernelVars, packetVars, payload, queueVars, held,
                   cleanupVars, endpointVars, taskVars, pumpVars, ctlVars>>

IngestVacant(p) ==
    \/ VacantRefused(p) \/ VacantDrop(p) \/ VacantInitialize(p)
    \/ VacantDead(p) \/ VacantDirect(p) \/ VacantBlock(p)
    \/ VacantProxy(p) \/ VacantArmed(p)

-----------------------------------------------------------------------------
(* Initializers: serve_udp_connection and initialize_udp_connection *)

HasCell(g) == Matches(CellOf(g), g)

(* activate_direct, activate_proxy, block: commit_pending reads a matching  *)
(* pending cell, and reserves a slot of the pump's channel.                 *)
InitDecide(g, d) ==
    /\ task[g] = "run"
    /\ HasCell(g) /\ IsPending(CellOf(g))
    /\ task' = [task EXCEPT ![g] = d]
    /\ UNCHANGED <<kernelVars, packetVars, verdict, payload, queueVars, ing,
                   cellVars, cleanupVars, endpointVars, lease, stale, pumpVars,
                   ctlVars, failVars>>

(* Seeded bug for DirectExcludesProxy: the caller keeps the lease, so the   *)
(* flow goes on to dial.                                                    *)
InitSubmitKeepsLease(g) ==
    /\ task[g] \in Decisions
    /\ Len(commits) < MaxFlows
    /\ commits' = Append(commits, [cell |-> g, decision |-> task[g], res |-> "todo"])
    /\ task' = [task EXCEPT ![g] = "wait"]
    /\ UNCHANGED <<kernelVars, packetVars, verdict, payload, queueVars, ing,
                   cellVars, cleanupVars, endpointVars, lease, stale, pump,
                   taken, ctlVars, failVars>>

(* The request enters the channel, whatever became of the cell meanwhile;   *)
(* direct and block move the lease into it.                                 *)
InitSubmit(g) ==
    /\ task[g] \in Decisions
    /\ Len(commits) < MaxFlows
    /\ commits' = Append(commits, [cell |-> g, decision |-> task[g], res |-> "todo"])
    /\ lease' = [lease EXCEPT ![g] = IF task[g] = "proxy" THEN "task" ELSE "request"]
    /\ task' = [task EXCEPT ![g] = "wait"]
    /\ UNCHANGED <<kernelVars, packetVars, verdict, payload, queueVars, ing,
                   cellVars, cleanupVars, endpointVars, stale, pump, taken,
                   ctlVars, failVars>>

(* Dropping an uncommitted lease retires its endpoint (UdpInitLease::drop). *)
DropLease(g) ==
    /\ lease' = [lease EXCEPT ![g] = "gone"]
    /\ RetireExact(g)

(* Initialization fails: routing, dialing, a decision for a cell that is    *)
(* gone or decided, an error from the pump, or a refused commit_ready.      *)
InitFail(g) ==
    /\ task[g] \in {"run", "dial", "err"}
    /\ task' = [task EXCEPT ![g] = "cancel"]
    /\ IF lease[g] = "task" THEN DropLease(g) ELSE UNCHANGED <<lease, ep, cancelled>>
    /\ UNCHANGED <<kernelVars, packetVars, verdict, payload, queueVars, ing,
                   cellVars, cleanupVars, served, stale, pumpVars, ctlVars,
                   failVars>>

(* Seeded bug for NoSpuriousFatal: the caller's cancellation drops the      *)
(* lease the pump owns.                                                     *)
InitCancelledDropsLease(g) ==
    /\ task[g] \in {"run", "skip", "wait", "ok", "err", "dial"} \cup Decisions
    /\ g \in cancelled \cup stale
    /\ task' = [task EXCEPT ![g] = "cancel"]
    /\ DropLease(g)
    /\ UNCHANGED <<kernelVars, packetVars, verdict, payload, queueVars, ing,
                   cellVars, cleanupVars, served, stale, pumpVars, ctlVars,
                   failVars>>

(* The cancellation branch of the select!: the initialization future goes,  *)
(* with its lease unless the pump owns it.                                  *)
InitCancelled(g) ==
    /\ task[g] \in {"run", "skip", "wait", "ok", "err", "dial"} \cup Decisions
    /\ g \in cancelled \cup stale
    /\ task' = [task EXCEPT ![g] = "cancel"]
    /\ IF lease[g] = "task" THEN DropLease(g) ELSE UNCHANGED <<lease, ep, cancelled>>
    /\ UNCHANGED <<kernelVars, packetVars, verdict, payload, queueVars, ing,
                   cellVars, cleanupVars, served, stale, pumpVars, ctlVars,
                   failVars>>

(* An internal or multicast address, or an unresolved QUIC hello: the flow  *)
(* is cancelled while the lease is still held.                              *)
InitSkip(g) ==
    /\ task[g] = "run"
    /\ task' = [task EXCEPT ![g] = "skip"]
    /\ UNCHANGED <<kernelVars, packetVars, verdict, payload, queueVars, ing,
                   cellVars, cleanupVars, endpointVars, lease, stale, pumpVars,
                   ctlVars, failVars>>

(* The pump answered Ok: direct and block are finished, proxy dials.        *)
InitDecided(g) ==
    /\ task[g] = "ok"
    /\ task' = [task EXCEPT ![g] = IF lease[g] = "task" THEN "dial" ELSE "done"]
    /\ UNCHANGED <<kernelVars, packetVars, verdict, payload, queueVars, ing,
                   cellVars, cleanupVars, endpointVars, lease, stale, pumpVars,
                   ctlVars, failVars>>

(* commit_ready: in place, and never over a newer or cancelled incarnation. *)
InitReady(g) ==
    /\ task[g] = "dial"
    /\ EntryInit(g)
    /\ g \notin stale
    /\ ep' = [ep EXCEPT ![pkey[g]].st = "ready"]
    /\ served' = served \cup {g}
    /\ task' = [task EXCEPT ![g] = "done"]
    /\ lease' = [lease EXCEPT ![g] = "gone"]
    /\ UNCHANGED <<kernelVars, packetVars, verdict, payload, queueVars, ing,
                   cellVars, cleanupVars, cancelled, stale, pumpVars, ctlVars,
                   failVars>>

(* cancel(identity): an unmatched or terminal cell needs nothing, an        *)
(* unarmed one is cancelled, an armed one is waited for until its deadline. *)
CancelDone(g) ==
    LET c == CellOf(g)
    IN  \/ /\ HasCell(g) => ~IsPending(c)
           /\ IF lease[g] = "task" THEN RetireExact(g) ELSE UNCHANGED <<ep, cancelled>>
           /\ UNCHANGED <<conn, cellst, held, cleanups, verdict, fatal, faults>>
        \/ HasCell(g) /\ (CancelPending(c) \/ CancelFails(c))
        \/ /\ HasCell(g) /\ IsPending(c) /\ Late(c)
           /\ ExpireCommit(c)
           /\ UNCHANGED conn

InitCancel(g) ==
    /\ task[g] \in {"cancel", "skip"}
    /\ CancelDone(g)
    /\ task' = [task EXCEPT ![g] = "done"]
    /\ lease' = IF task[g] = "skip" THEN [lease EXCEPT ![g] = "gone"] ELSE lease
    /\ UNCHANGED <<ready, packetVars, payload, queueVars, ing, map, cgen, drain,
                   served, stale, pumpVars, ctlVars>>

Initializer(g) ==
    \/ \E d \in Decisions : InitDecide(g, d)
    \/ InitSubmit(g) \/ InitFail(g) \/ InitCancelled(g) \/ InitSkip(g)
    \/ InitDecided(g) \/ InitReady(g) \/ InitCancel(g)

-----------------------------------------------------------------------------
(* The commit pump: run_commits and process_commits *)

Entry(i) == pump.batch[i]
Indices == 1..Len(pump.batch)
Mark(i, r) == [pump EXCEPT !.batch[i].res = r]
Outstanding(i, rs) == i \in Indices /\ Entry(i).res \in rs
ArmedPhases == {"armed", "accept"}

(* CommitRequest::respond: the lease goes, a caller still there is told.    *)
Respond(i, r) ==
    LET g == Entry(i).cell
    IN  /\ task' = IF task[g] = "wait" THEN [task EXCEPT ![g] = r] ELSE task
        /\ lease' = IF lease[g] = "request" THEN [lease EXCEPT ![g] = "gone"] ELSE lease
        /\ pump' = Mark(i, "gone")

RespondErr(i) ==
    /\ Respond(i, "err")
    /\ IF lease[Entry(i).cell] = "request"
       THEN RetireExact(Entry(i).cell) ELSE UNCHANGED <<ep, cancelled>>

PumpTake(n) ==
    /\ pump.pc = "idle"
    /\ n <= Len(commits) /\ n <= MaxBatch
    /\ pump' = [pc |-> "lock", batch |-> SubSeq(commits, 1, n)]
    /\ commits' = SubSeq(commits, n + 1, Len(commits))
    /\ UNCHANGED <<kernelVars, packetVars, verdict, payload, queueVars, ing,
                   cellVars, cleanupVars, endpointVars, taskVars, taken,
                   ctlVars, failVars>>

(* A request whose deadline passed: before the lock is taken, or found so   *)
(* under it and expired after the unlock.  The record is not touched.       *)
PumpExpire(i) ==
    /\ \/ pump.pc = "lock" /\ Outstanding(i, {"todo"}) /\ Late(Entry(i).cell)
       \/ pump.pc = "complete" /\ Outstanding(i, {"late", "expired"})
    /\ ExpireCommit(Entry(i).cell)
    /\ Respond(i, "err")
    /\ UNCHANGED <<kernelVars, packetVars, payload, queueVars, ing, map, cgen,
                   drain, served, stale, commits, taken, ctlVars>>

(* W is taken; what is late already is set aside.                           *)
PumpLock ==
    /\ pump.pc = "lock"
    /\ \E i \in Indices : Entry(i).res = "todo"
    /\ WriteFree
    /\ pump' = [pc |-> "apply",
                batch |-> [i \in Indices |->
                             IF Entry(i).res = "todo" /\ Late(Entry(i).cell)
                             THEN [Entry(i) EXCEPT !.res = "late"]
                             ELSE Entry(i)]]
    /\ UNCHANGED <<kernelVars, packetVars, verdict, payload, queueVars, ing,
                   cellVars, cleanupVars, endpointVars, taskVars, commits,
                   taken, ctlVars, failVars>>

(* Seeded bug for AcceptOnlyDirect: the record's token is not compared.     *)
AppliesToCell(c) == ~Late(c) /\ cellst[c] = "pending"

(* apply_pending_commit, in batch order, under W and the cell's lock.       *)
Applies(c) ==
    /\ ~Late(c)
    /\ cellst[c] = "pending"
    /\ conn[pkey[c]] = [tok |-> ptok[c], st |-> "pending"]

NextTodo(i) ==
    /\ pump.pc = "apply"
    /\ Outstanding(i, {"todo"})
    /\ \A j \in 1..(i - 1) : Entry(j).res # "todo"

PumpRefuse(i) ==
    /\ NextTodo(i)
    /\ ~Applies(Entry(i).cell)
    /\ pump' = Mark(i, IF Late(Entry(i).cell) THEN "expired" ELSE "refused")
    /\ UNCHANGED <<kernelVars, packetVars, verdict, payload, queueVars, ing,
                   cellVars, cleanupVars, endpointVars, taskVars, commits,
                   taken, ctlVars, failVars>>

PumpArm(i) ==
    /\ NextTodo(i)
    /\ Entry(i).decision = "direct"
    /\ LET c == Entry(i).cell
       IN  /\ Applies(c)
           /\ conn' = [conn EXCEPT ![pkey[c]].st = "armed"]
           /\ cellst' = [cellst EXCEPT ![c] = "armed"]
    /\ pump' = Mark(i, "armed")
    /\ UNCHANGED <<ready, packetVars, verdict, payload, queueVars, ing, map,
                   held, cgen, cleanupVars, endpointVars, taskVars, commits,
                   taken, ctlVars, failVars>>

(* Seeded bug for CellAgreesWithRecord: the backend result is ignored and   *)
(* only the cell becomes terminal.                                          *)
PumpTerminalCellOnly(i) ==
    /\ NextTodo(i)
    /\ Entry(i).decision # "direct"
    /\ LET c == Entry(i).cell
       IN  /\ Applies(c)
           /\ cellst' = [cellst EXCEPT ![c] = Entry(i).decision]
           /\ taken' = [taken EXCEPT ![c] = held[c]]
           /\ held' = [held EXCEPT ![c] = <<>>]
    /\ pump' = Mark(i, "terminal")
    /\ UNCHANGED <<kernelVars, packetVars, verdict, payload, queueVars, ing,
                   map, cgen, cleanupVars, endpointVars, taskVars, commits,
                   ctlVars, failVars>>

PumpTerminal(i) ==
    /\ NextTodo(i)
    /\ Entry(i).decision # "direct"
    /\ LET c == Entry(i).cell
       IN  /\ Applies(c)
           /\ conn' = [conn EXCEPT ![pkey[c]].st = Entry(i).decision]
           /\ cellst' = [cellst EXCEPT ![c] = Entry(i).decision]
           /\ taken' = [taken EXCEPT ![c] = held[c]]
           /\ held' = [held EXCEPT ![c] = <<>>]
    /\ pump' = Mark(i, "terminal")
    /\ UNCHANGED <<ready, packetVars, verdict, payload, queueVars, ing, map,
                   cgen, cleanupVars, endpointVars, taskVars, commits, ctlVars,
                   failVars>>

(* The whole batch is applied, or (a fault) commit_udp_batch fails.         *)
PumpUnlock ==
    /\ pump.pc = "apply"
    /\ \A i \in Indices : Entry(i).res # "todo"
    /\ pump' = [pump EXCEPT !.pc = "complete"]
    /\ UNCHANGED <<kernelVars, packetVars, verdict, payload, queueVars, ing,
                   cellVars, cleanupVars, endpointVars, taskVars, commits,
                   taken, ctlVars, failVars>>

PumpBatchFails ==
    /\ pump.pc = "apply"
    /\ faults < MaxFaults
    /\ faults' = faults + 1
    /\ fatal' = TRUE
    /\ pump' = [pc |-> "complete",
                batch |-> [i \in Indices |-> [Entry(i) EXCEPT !.res =
                    CASE @ = "armed" -> "failArmed"
                      [] @ = "terminal" -> "failTerminal"
                      [] @ \in {"late", "gone"} -> @
                      [] OTHER -> "refused"]]]
    /\ UNCHANGED <<kernelVars, packetVars, verdict, payload, queueVars, ing,
                   cellVars, cleanupVars, endpointVars, taskVars, commits,
                   taken, ctlVars>>

(* complete_request.  Terminal verdicts go first, so that they never wait   *)
(* for another flow's second acquisition of W; then the armed ones in order.*)
Turn(i, rs) ==
    /\ pump.pc = "complete"
    /\ Outstanding(i, rs)
    /\ Entry(i).res \in ArmedPhases =>
         \A j \in Indices : /\ Entry(j).res \in ArmedPhases \cup {"gone"} \/ j = i
                            /\ j < i => Entry(j).res \notin ArmedPhases

PumpAnswerErr(i) ==
    /\ Turn(i, {"refused"})
    /\ RespondErr(i)
    /\ UNCHANGED <<kernelVars, packetVars, verdict, payload, queueVars, ing,
                   cellVars, cleanupVars, served, stale, commits, taken,
                   ctlVars, failVars>>

(* The originals of a proxy or blocked flow are dropped; a failed verdict   *)
(* turns the answer into the fatal error.                                   *)
PumpDropTerminal(i) ==
    /\ Turn(i, {"terminal", "failTerminal"})
    /\ LET c == Entry(i).cell
       IN  /\ Settle(ToSet(taken[c]),
                     IF Entry(i).decision = "proxy" /\ Entry(i).res = "terminal"
                     THEN "copied" ELSE "drop", FALSE)
           /\ taken' = [taken EXCEPT ![c] = <<>>]
    /\ pump' = Mark(i, IF faults' = faults /\ Entry(i).res = "terminal"
                       THEN "ok" ELSE "refused")
    /\ UNCHANGED <<kernelVars, packetVars, payload, queueVars, ing, cellVars,
                   cleanupVars, endpointVars, taskVars, commits, ctlVars>>

(* commit_kernel_handoff, outside W: the Initializing entry becomes a       *)
(* tombstone that leaves the kernel record alone.                           *)
PumpHandoff(i) ==
    /\ Turn(i, {"ok"})
    /\ LET g == Entry(i).cell
       IN  /\ lease[g] = "request"
           /\ IF EntryInit(g)
              THEN /\ ep' = [ep EXCEPT ![pkey[g]].st = "handoff"]
                   /\ Respond(i, "ok")
                   /\ UNCHANGED <<cancelled, fatal>>
              ELSE /\ RespondErr(i)
                   /\ fatal' = (fatal \/ g \notin stale)
    /\ UNCHANGED <<kernelVars, packetVars, verdict, payload, queueVars, ing,
                   cellVars, cleanupVars, served, stale, commits, taken,
                   ctlVars, faults>>

PumpAnswerOk(i) ==
    /\ Turn(i, {"ok"})
    /\ lease[Entry(i).cell] # "request"
    /\ Respond(i, "ok")
    /\ UNCHANGED <<kernelVars, packetVars, verdict, payload, queueVars, ing,
                   cellVars, cleanupVars, endpointVars, stale, commits, taken,
                   ctlVars, failVars>>

(* finish_armed_direct: past the deadline the armed flow fails.             *)
ArmedExpire(i) ==
    /\ Turn(i, ArmedPhases \cup {"failArmed"})
    /\ Entry(i).res # "failArmed" => Late(Entry(i).cell) /\ taken[Entry(i).cell] = <<>>
    /\ FailArmed(Entry(i).cell)
    /\ pump' = Mark(i, "refused")
    /\ UNCHANGED <<kernelVars, packetVars, payload, queueVars, ing, map, cgen,
                   drain, served, taskVars, commits, taken, ctlVars>>

(* The cell left the armed phase under the pump: fatal.                     *)
ArmedLost(i) ==
    /\ Turn(i, ArmedPhases \cup {"failArmed"})
    /\ cellst[Entry(i).cell] # "armed"
    /\ taken[Entry(i).cell] = <<>>
    /\ pump' = Mark(i, "refused")
    /\ fatal' = TRUE
    /\ UNCHANGED <<kernelVars, packetVars, verdict, payload, queueVars, ing,
                   cellVars, cleanupVars, endpointVars, taskVars, commits,
                   taken, ctlVars, faults>>

(* Seeded bug for OneOwnerPerGuard: the FIFO is copied out, not taken.      *)
ArmedTakeCopy(i) ==
    /\ Turn(i, {"armed"})
    /\ LET c == Entry(i).cell
       IN  /\ cellst[c] = "armed"
           /\ ~Late(c)
           /\ taken' = [taken EXCEPT ![c] = held[c]]
    /\ pump' = Mark(i, "accept")
    /\ UNCHANGED <<kernelVars, packetVars, verdict, payload, queueVars, ing,
                   cellVars, cleanupVars, endpointVars, taskVars, commits,
                   ctlVars, failVars>>

ArmedTake(i) ==
    /\ Turn(i, {"armed"})
    /\ LET c == Entry(i).cell
       IN  /\ cellst[c] = "armed"
           /\ ~Late(c)
           /\ taken' = [taken EXCEPT ![c] = held[c]]
           /\ held' = [held EXCEPT ![c] = <<>>]
    /\ pump' = Mark(i, "accept")
    /\ UNCHANGED <<kernelVars, packetVars, verdict, payload, queueVars, ing,
                   map, cellst, cgen, cleanupVars, endpointVars, taskVars,
                   commits, ctlVars, failVars>>

(* accept_one_fatal in FIFO order; a failure drops the rest of the batch.   *)
ArmedAccept(i) ==
    /\ Turn(i, {"accept"})
    /\ LET c == Entry(i).cell
       IN  /\ taken[c] # <<>>
           /\ \/ /\ verdict' = [verdict EXCEPT ![Head(taken[c])] = "accept"]
                 /\ taken' = [taken EXCEPT ![c] = Tail(@)]
                 /\ UNCHANGED <<pump, fatal, faults>>
              \/ /\ faults < MaxFaults
                 /\ verdict' = [q \in Packets |->
                                  IF q = Head(taken[c]) THEN "lost"
                                  ELSE IF q \in ToSet(taken[c]) THEN "drop"
                                  ELSE verdict[q]]
                 /\ taken' = [taken EXCEPT ![c] = <<>>]
                 /\ pump' = Mark(i, "refused")
                 /\ fatal' = TRUE /\ faults' = faults + 1
    /\ UNCHANGED <<kernelVars, packetVars, payload, queueVars, ing, cellVars,
                   cleanupVars, endpointVars, taskVars, commits, ctlVars>>

(* Seeded bug for ActivateWithNothingHeld: no second look at the FIFO.      *)
NothingTaken(c) == taken[c] = <<>>

(* Under W: back to the FIFO if a follower came, otherwise ActivateDirect.  *)
NothingHeld(c) == held[c] = <<>>

ArmedActivate(i) ==
    /\ Turn(i, {"accept"})
    /\ WriteFree
    /\ LET c == Entry(i).cell
       IN  /\ taken[c] = <<>>
           /\ cellst[c] = "armed" /\ ~Late(c)
           /\ NothingHeld(c)
           /\ IF conn[pkey[c]] = [tok |-> ptok[c], st |-> "armed"]
              THEN /\ conn' = [conn EXCEPT ![pkey[c]].st = "direct"]
                   /\ cellst' = [cellst EXCEPT ![c] = "direct"]
                   /\ pump' = Mark(i, "ok")
                   /\ UNCHANGED fatal
              ELSE /\ pump' = Mark(i, "refused")
                   /\ fatal' = TRUE
                   /\ UNCHANGED <<conn, cellst>>
    /\ UNCHANGED <<ready, packetVars, verdict, payload, queueVars, ing, map,
                   held, cgen, cleanupVars, endpointVars, taskVars, commits,
                   taken, ctlVars, faults>>

ArmedAgain(i) ==
    /\ Turn(i, {"accept"})
    /\ WriteFree
    /\ LET c == Entry(i).cell
       IN  taken[c] = <<>> /\ cellst[c] = "armed" /\ ~Late(c) /\ ~NothingHeld(c)
    /\ pump' = Mark(i, "armed")
    /\ UNCHANGED <<kernelVars, packetVars, verdict, payload, queueVars, ing,
                   cellVars, cleanupVars, endpointVars, taskVars, commits,
                   taken, ctlVars, failVars>>

(* batch.clear(): the requests are dropped and commits.work goes down.      *)
PumpEnd ==
    /\ pump.pc \in {"lock", "complete"}
    /\ \A i \in Indices : Entry(i).res = "gone"
    /\ pump' = [pc |-> "idle", batch |-> <<>>]
    /\ UNCHANGED <<kernelVars, packetVars, verdict, payload, queueVars, ing,
                   cellVars, cleanupVars, endpointVars, taskVars, commits,
                   taken, ctlVars, failVars>>

Pump ==
    \/ \E n \in 1..MaxBatch : PumpTake(n)
    \/ PumpLock \/ PumpUnlock \/ PumpBatchFails \/ PumpEnd
    \/ \E i \in 1..MaxBatch :
         \/ PumpExpire(i) \/ PumpRefuse(i) \/ PumpArm(i) \/ PumpTerminal(i)
         \/ PumpAnswerErr(i) \/ PumpDropTerminal(i) \/ PumpHandoff(i)
         \/ PumpAnswerOk(i) \/ ArmedExpire(i) \/ ArmedLost(i) \/ ArmedTake(i)
         \/ ArmedAccept(i) \/ ArmedActivate(i) \/ ArmedAgain(i)

-----------------------------------------------------------------------------
(* Cleanups, the watchdog and the retirement worker *)

(* drain_scheduled_cleanups, a Token request: try_write succeeded.  The     *)
(* request leaves the set only in a later critical section.                 *)
DrainToken(r) ==
    /\ drain = None /\ r \in cleanups /\ r.kind = "token"
    /\ WriteFree
    /\ \/ conn' = RetirePending(pkey[r.tok], r.tok) /\ UNCHANGED failVars
       \/ /\ faults < MaxFaults
          /\ faults' = faults + 1 /\ fatal' = TRUE
          /\ UNCHANGED conn
    /\ drain' = r
    /\ UNCHANGED <<ready, packetVars, verdict, payload, queueVars, ing,
                   cellVars, cleanups, endpointVars, taskVars, pumpVars,
                   ctlVars>>

(* Seeded bug for ReloadReturns: a request whose cell is gone is retried.   *)
DrainFlowOfCell(r) ==
    /\ drain = None /\ r \in cleanups /\ r.kind = "flow"
    /\ LET c == map[pkey[r.tok]]
           hit == c # None /\ ptok[c] = r.tok /\ cgen[c] = r.gen
       IN  \/ hit /\ CancelPending(c)
           \/ hit /\ Late(c) /\ ExpireUnarmed(c) /\ UNCHANGED conn
    /\ drain' = r
    /\ UNCHANGED <<ready, packetVars, payload, queueVars, ing, map, cgen,
                   served, taskVars, pumpVars, ctlVars>>

(* ... a Flow request: cancel_unarmed.  An armed cell keeps the request.    *)
DrainFlow(r) ==
    /\ drain = None /\ r \in cleanups /\ r.kind = "flow"
    /\ LET c == map[pkey[r.tok]]
           hit == c # None /\ ptok[c] = r.tok /\ cgen[c] = r.gen
       IN  \/ /\ hit => ~IsPending(c)
              /\ UNCHANGED <<conn, cellst, held, cleanups, verdict, fatal,
                             faults, ep, cancelled>>
           \/ hit /\ (CancelPending(c) \/ CancelFails(c))
           \/ hit /\ Late(c) /\ ExpireUnarmed(c) /\ UNCHANGED conn
    /\ drain' = r
    /\ UNCHANGED <<ready, packetVars, payload, queueVars, ing, map, cgen,
                   served, taskVars, pumpVars, ctlVars>>

DrainRemove ==
    /\ drain # None
    /\ cleanups' = cleanups \ {drain}
    /\ drain' = None
    /\ UNCHANGED <<kernelVars, packetVars, verdict, payload, queueVars, ing,
                   cellVars, endpointVars, taskVars, pumpVars, ctlVars,
                   failVars>>

(* Seeded bug for EveryPacketDecided: a flow whose initializer still runs   *)
(* is left to it.                                                           *)
WatchdogOverdueIdle(c) ==
    /\ Inserted(c) /\ Late(c)
    /\ task[c] = "done"
    /\ ExpireUnarmed(c)
    /\ UNCHANGED <<kernelVars, packetVars, payload, queueVars, ing, map, cgen,
                   drain, served, taskVars, pumpVars, ctlVars>>

(* watchdog_tick: an overdue unarmed cell.                                  *)
WatchdogOverdue(c) ==
    /\ Inserted(c) /\ Late(c)
    /\ ExpireUnarmed(c)
    /\ UNCHANGED <<kernelVars, packetVars, payload, queueVars, ing, map, cgen,
                   drain, served, taskVars, pumpVars, ctlVars>>

(* remove_if_expired.                                                       *)
WatchdogExpired(k) ==
    /\ map[k] # None /\ Terminal(map[k])
    /\ map' = [map EXCEPT ![k] = None]
    /\ UNCHANGED <<kernelVars, packetVars, verdict, payload, queueVars, ing,
                   cellst, held, cgen, cleanupVars, endpointVars, taskVars,
                   pumpVars, ctlVars, failVars>>

(* A Ready endpoint dies or is closed; so may a dialing one with its node.  *)
EndpointRetire(k) ==
    /\ \/ ep[k].st = "ready"
       \/ ep[k].st = "init" /\ task[ep[k].gen] = "dial"
    /\ RetireExact(ep[k].gen)
    /\ UNCHANGED <<kernelVars, packetVars, verdict, payload, queueVars, ing,
                   cellVars, cleanupVars, served, taskVars, pumpVars, ctlVars,
                   failVars>>

(* Seeded bug for NoSpuriousFatal: a staged record counts as the kernel's.  *)
ProxyOwned == {"proxy"}

(* The retirement worker deletes the record of a tombstone's own token if   *)
(* userspace owns it, and acknowledges; a record the kernel owns is a       *)
(* mismatch: fatal, and the tombstone stays.                                *)
UserspaceOwned == {"pending", "proxy"}

RetireWorker(k) ==
    /\ ep[k].st = "retiring"
    /\ WriteFree
    /\ LET mine == conn[k].tok = ptok[ep[k].gen]
       IN  IF mine /\ conn[k].st \notin UserspaceOwned
           THEN /\ ep' = [ep EXCEPT ![k].st = "stuck"]
                /\ fatal' = TRUE
                /\ UNCHANGED conn
           ELSE /\ ep' = [ep EXCEPT ![k] = [gen |-> None, st |-> "absent"]]
                /\ conn' = IF mine THEN [conn EXCEPT ![k] = Absent] ELSE conn
                /\ UNCHANGED fatal
    /\ UNCHANGED <<ready, packetVars, verdict, payload, queueVars, ing,
                   cellVars, cleanupVars, served, cancelled, taskVars, pumpVars,
                   ctlVars, faults>>

(* A kernel handoff has nothing to delete.                                  *)
RetireHandoff(k) ==
    /\ ep[k].st = "handoff"
    /\ WriteFree
    /\ ep' = [ep EXCEPT ![k] = [gen |-> None, st |-> "absent"]]
    /\ UNCHANGED <<kernelVars, packetVars, verdict, payload, queueVars, ing,
                   cellVars, cleanupVars, served, cancelled, taskVars, pumpVars,
                   ctlVars, failVars>>

Drain == (\E r \in cleanups : DrainToken(r) \/ DrainFlow(r)) \/ DrainRemove
Watchdog == \/ \E c \in Packets : WatchdogOverdue(c)
            \/ \E k \in Keys : WatchdogExpired(k)
Retirement == \E k \in Keys : RetireWorker(k) \/ RetireHandoff(k)

-----------------------------------------------------------------------------
(* Reload: fence, cancel_all, cancel_initializers_and_wait, wait_empty,     *)
(* wait_for_retirements, and reopen *)

CtlTo(from, to) == ctl = from /\ ctl' = to

(* Seeded bug for AcceptOnlyDirect: the fence removes armed records too.    *)
FenceArmed ==
    /\ CtlTo("run", "fenced")
    /\ reloads < MaxReloads
    /\ WriteFree
    /\ ready' = FALSE
    /\ conn' = [k \in Keys |-> IF conn[k].st \in {"pending", "armed"}
                               THEN Absent ELSE conn[k]]
    /\ reloads' = reloads + 1
    /\ UNCHANGED <<packetVars, verdict, payload, queueVars, ing, cellVars,
                   cleanupVars, endpointVars, taskVars, pumpVars, open,
                   failVars>>

(* fence_nfqueue: one W section clears READY and removes staged records.    *)
Fence ==
    /\ CtlTo("run", "fenced")
    /\ reloads < MaxReloads
    /\ WriteFree
    /\ ready' = FALSE
    /\ conn' = [k \in Keys |-> IF conn[k].st = "pending" THEN Absent ELSE conn[k]]
    /\ reloads' = reloads + 1
    /\ UNCHANGED <<packetVars, verdict, payload, queueVars, ing, cellVars,
                   cleanupVars, endpointVars, taskVars, pumpVars, open,
                   failVars>>

(* close_and_wait: the gate closes, and the actor's ticket is waited for.   *)
CloseGate ==
    /\ CtlTo("fenced", "closing")
    /\ open' = FALSE
    /\ UNCHANGED <<kernelVars, packetVars, verdict, payload, queueVars, ing,
                   cellVars, cleanupVars, endpointVars, taskVars, pumpVars,
                   reloads, failVars>>

(* Seeded bug for DrainedHoldsNothing: the gate closes, nobody waits.       *)
TicketsIgnored == ~open

TicketsGone == ing.pc = "idle"

GateClosed ==
    /\ CtlTo("closing", "drain")
    /\ TicketsGone
    /\ UNCHANGED <<kernelVars, packetVars, verdict, payload, queueVars, ing,
                   cellVars, cleanupVars, endpointVars, taskVars, pumpVars,
                   open, reloads, failVars>>

(* cancel_all: pending cells are cancelled, armed ones waited for.          *)
CancelAllPending(c) ==
    /\ ctl = "drain"
    /\ Inserted(c) /\ IsPending(c)
    /\ \/ CancelPending(c)
       \/ Late(c) /\ ExpireCommit(c) /\ UNCHANGED conn
    /\ UNCHANGED <<ready, packetVars, payload, queueVars, ing, map, cgen, drain,
                   served, taskVars, pumpVars, ctlVars>>

(* ... and remove_cell_now takes terminal ones out of the map.              *)
CancelAllRemove(k) ==
    /\ ctl = "drain"
    /\ map[k] # None /\ Terminal(map[k])
    /\ map' = [map EXCEPT ![k] = None]
    /\ UNCHANGED <<kernelVars, packetVars, verdict, payload, queueVars, ing,
                   cellst, held, cgen, cleanupVars, endpointVars, taskVars,
                   pumpVars, ctlVars, failVars>>

Initializing == {g \in Packets : lease[g] \in {"task", "request"}}

(* advance_initialization_epoch.                                            *)
CancelInitializers ==
    /\ CtlTo("drain", "initializers")
    /\ \A k \in Keys : map[k] = None
    /\ stale' = stale \cup Initializing
    /\ UNCHANGED <<kernelVars, packetVars, verdict, payload, queueVars, ing,
                   cellVars, cleanupVars, endpointVars, task, lease, pumpVars,
                   open, reloads, failVars>>

(* The waits.  The ones with a timeout reject the reload, which also leads  *)
(* to reopening.                                                            *)
Wait ==
    /\ \/ CtlTo("initializers", "empty") /\ Initializing = {}
       \/ CtlTo("initializers", "reopen") /\ Initializing # {}
       \/ CtlTo("empty", "retirements") /\ IsEmpty
       \/ CtlTo("retirements", "reopen")
    /\ UNCHANGED <<kernelVars, packetVars, verdict, payload, queueVars, ing,
                   cellVars, cleanupVars, endpointVars, taskVars, pumpVars,
                   open, reloads, failVars>>

(* open_admission, then reopen_nfqueue.                                     *)
OpenGate ==
    /\ CtlTo("reopen", "opened")
    /\ open' = TRUE
    /\ UNCHANGED <<kernelVars, packetVars, verdict, payload, queueVars, ing,
                   cellVars, cleanupVars, endpointVars, taskVars, pumpVars,
                   reloads, failVars>>

Reopen ==
    /\ CtlTo("opened", "run")
    /\ WriteFree
    /\ ready' = TRUE
    /\ UNCHANGED <<conn, packetVars, verdict, payload, queueVars, ing,
                   cellVars, cleanupVars, endpointVars, taskVars, pumpVars,
                   open, reloads, failVars>>

Reload ==
    \/ CloseGate \/ GateClosed \/ CancelInitializers \/ Wait \/ OpenGate
    \/ Reopen
    \/ \E c \in Packets : CancelAllPending(c)
    \/ \E k \in Keys : CancelAllRemove(k)

-----------------------------------------------------------------------------
Listener == ListenerDeliver \/ ListenerReject
Ingest ==
    \/ IngestRefused \/ IngestFound \/ IngestAwait
    \/ IngestTimeout \/ IngestContended \/ IngestRecheck
    \/ \E c \in Packets : IngestExisting(c)
    \/ \E p \in Packets : IngestVacant(p)

Next ==
    \/ \E p \in Packets, k \in Keys : KernelIngress(p, k)
    \/ \E k \in Keys : ConnExpire(k)
    \/ Tick
    \/ Listener
    \/ Ingest
    \/ \E g \in Packets : Initializer(g)
    \/ Pump
    \/ Drain
    \/ Watchdog
    \/ \E k \in Keys : EndpointRetire(k)
    \/ Retirement
    \/ Fence
    \/ Reload

(* Time passes, and the runtime schedules its tasks: the listener, the      *)
(* ingest actor, the pump, the 100 ms watchdog with its cleanups, the       *)
(* retirement worker and a reload that has begun.  An initializer hears of  *)
(* its cancellation and acts on the pump's answer, but nothing makes        *)
(* routing or dialing end.                                                  *)
Fairness ==
    /\ WF_vars(Tick) /\ WF_vars(Listener) /\ WF_vars(Ingest) /\ WF_vars(Pump)
    /\ WF_vars(Drain) /\ WF_vars(Watchdog) /\ WF_vars(Retirement)
    /\ WF_vars(Reload)
    /\ \A g \in Packets :
         WF_vars(InitCancelled(g) \/ InitDecided(g) \/ InitCancel(g)
                 \/ (task[g] = "err" /\ InitFail(g)))

Spec == Init /\ [][Next]_vars /\ Fairness

-----------------------------------------------------------------------------
Verdicts == {"none", "accept", "drop", "copied", "lost"}
ConnStates == {"absent", "pending", "armed", "direct", "proxy", "block"}
EntryStates == {"absent", "init", "ready", "retiring", "handoff", "stuck"}
TaskStates == Decisions \cup
    {"none", "run", "skip", "wait", "ok", "err", "dial", "cancel", "done"}
Requests == [kind : {"flow", "token"}, tok : Packets, gen : Packets \cup {None}]
Results == {"todo", "late", "expired", "refused", "armed", "accept", "terminal", "ok",
            "failArmed", "failTerminal", "gone"}
Commits == [cell : Packets, decision : Decisions, res : Results]

TypeOK ==
    LET Maybe == Packets \cup {None}
    IN  /\ conn \in [Keys -> [tok : Maybe, st : ConnStates]]
        /\ ready \in BOOLEAN
        /\ pkey \in [Packets -> Keys \cup {None}]
        /\ ptok \in [Packets -> Maybe]
        /\ rcvd \in Seq(Packets)
        /\ lateN \in 0..Len(rcvd)
        /\ verdict \in [Packets -> Verdicts]
        /\ payload \in [Packets -> Maybe]
        /\ wire \in Seq(Packets)
        /\ queue \in Seq(Packets)
        /\ ing \in [pc : {"idle", "wait", "existing", "existingR"},
                    p : Maybe, c : Maybe]
        /\ open \in BOOLEAN
        /\ map \in [Keys -> Maybe]
        /\ cellst \in [Packets -> CellStates]
        /\ held \in [Packets -> Seq(Packets)]
        /\ cgen \in [Packets -> Maybe]
        /\ cleanups \subseteq Requests
        /\ drain \in Requests \cup {None}
        /\ ep \in [Keys -> [gen : Maybe, st : EntryStates]]
        /\ served \subseteq Packets
        /\ task \in [Packets -> TaskStates]
        /\ lease \in [Packets -> {"none", "task", "request", "gone"}]
        /\ cancelled \subseteq Packets
        /\ stale \subseteq Packets
        /\ commits \in Seq(Commits)
        /\ pump \in [pc : {"idle", "lock", "apply", "complete"}, batch : Seq(Commits)]
        /\ taken \in [Packets -> Seq(Packets)]
        /\ ctl \in {"run", "fenced", "closing", "drain", "initializers", "empty",
                    "retirements", "reopen", "opened"}
        /\ reloads \in 0..MaxReloads
        /\ fatal \in BOOLEAN
        /\ faults \in 0..MaxFaults

(* How many owners a packet's verdict guard has.                            *)
OwnersIn(s, p) == Cardinality({i \in 1..Len(s) : s[i] = p})
InCells(q, p) == {c \in Packets : p \in ToSet(q[c])}
Owners(p) ==
    OwnersIn(wire, p) + OwnersIn(queue, p) + (IF ing.p = p THEN 1 ELSE 0)
    + Cardinality(InCells(held, p)) + Cardinality(InCells(taken, p))

(* A held original has exactly one owner until its verdict and none after:  *)
(* no guard is forgotten or settled twice, however takes, cancellations,    *)
(* expiries and reloads interleave (HeldVerdict is moved, never cloned).    *)
OneOwnerPerGuard ==
    \A p \in Packets :
        pkey[p] # None => Owners(p) = (IF verdict[p] = "none" THEN 1 ELSE 0)

(* Direct releases originals in order of receipt: when one is accepted no   *)
(* earlier packet of its token is still undecided (FIFO accept loop,        *)
(* followers appended, direct accepts only once the cell is ActiveDirect).  *)
Before(q, p) == \E i, j \in 1..Len(rcvd) : i < j /\ rcvd[i] = q /\ rcvd[j] = p
Accepts(p) == verdict[p] = "none" /\ verdict'[p] = "accept"
AcceptInOrder ==
    [][\A p \in Packets : Accepts(p) =>
         \A q \in Packets : Before(q, p) /\ ptok[q] = ptok[p] => verdict[q] # "none"]_vars

(* An original is released only while the kernel record of its own token    *)
(* says direct: the commit precedes every NF_ACCEPT.                        *)
AcceptOnlyDirect ==
    [][\A p \in Packets : Accepts(p) =>
         conn[pkey[p]].tok = ptok[p] /\ conn[pkey[p]].st \in {"armed", "direct"}]_vars

(* ActivateDirect lets the kernel forward the flow by itself; no original   *)
(* of it may still be held then, or it would be overtaken.                  *)
ActivateWithNothingHeld ==
    [][\A k \in Keys : conn[k].st = "armed" /\ conn'[k].st = "direct" =>
         \A c \in Packets : ptok[c] = conn[k].tok => held[c] = <<>> /\ taken[c] = <<>>]_vars

(* One send per packet: no token has both an original released directly     *)
(* and an endpoint that came up to send copies of its payloads.             *)
DirectExcludesProxy ==
    \A p \in Packets : verdict[p] = "accept" =>
        /\ \A g \in served : ptok[g] # ptok[p]
        /\ \A q \in Packets : verdict[q] = "copied" => ptok[q] # ptok[p]

(* A payload only ever reaches an endpoint of its own token, and an         *)
(* original is given up as copied only if its payload did.                  *)
CopyReachesOwnFlow ==
    \A p \in Packets :
        /\ payload[p] # None => ptok[payload[p]] = ptok[p]
        /\ verdict[p] = "copied" => payload[p] # None

(* DirectArmed is never abandoned: as long as a record says so the pump has *)
(* the armed cell in its batch, or the process has been told to die.        *)
ArmedIsOwned ==
    \A k \in Keys : conn[k].st = "armed" =>
        \/ fatal
        \/ /\ map[k] # None /\ cellst[map[k]] = "armed"
           /\ ptok[map[k]] = conn[k].tok /\ InBatch(map[k])

(* A cell's decision and the kernel record of the same token agree, after   *)
(* its eviction from the map too.                                           *)
CellAgreesWithRecord ==
    \A c \in Packets :
        (cellst[c] \in {"armed", "direct", "proxy", "block"}
            /\ conn[pkey[c]].tok = ptok[c])
        => conn[pkey[c]].st = cellst[c]

(* A newly staged token is out of reach of everything its tuple's earlier   *)
(* incarnations left behind (cleanups, tombstones, late requests): until    *)
(* one of its packets is decided or given a cell, its record only changes   *)
(* at a fence.                                                              *)
Fresh(t) == \A p \in Packets : ptok[p] = t => verdict[p] = "none" /\ cellst[p] = "none"
FreshTokenSurvives ==
    [][\A k \in Keys : conn[k].tok # None /\ Fresh(conn[k].tok) /\ ready' =>
         conn'[k] = conn[k]]_vars

(* Ordinary races are never mistaken for ambiguity: while no deadline has   *)
(* passed, no verdict or backend call has failed and the cleanup set has    *)
(* room, no step tells the process to die.                                  *)
NoSpuriousFatal ==
    [][lateN = 0 /\ faults' = 0 /\ Cardinality(cleanups) < MaxCleanups =>
         fatal' = fatal]_vars

(* After wait_empty the runtime may change owners: no guard is held, no     *)
(* request is in the pump and no record is staged, until the gate reopens.  *)
DrainedHoldsNothing ==
    ctl = "retirements" =>
        /\ \A c \in Packets : held[c] = <<>> /\ taken[c] = <<>>
        /\ PumpIdle /\ ing.p = None
        /\ \A k \in Keys : map[k] = None
        /\ fatal \/ \A k \in Keys : conn[k].st \notin {"pending", "armed"}

(* A flow the kernel staged always has someone who will end its record: a   *)
(* packet without verdict, a cell still undecided, or a scheduled cleanup.  *)
(* If the cleanup set could not take the request the process is fatal, so   *)
(* no rejection, expiry or cancellation leaves a token behind for good.     *)
StagedTokenIsTracked ==
    \A k \in Keys :
        conn[k].st = "pending" =>
            \/ fatal
            \/ \E p \in Packets : ptok[p] = conn[k].tok /\ verdict[p] = "none"
            \/ \E c \in Packets : ptok[c] = conn[k].tok /\ Unarmed(c) /\ Inserted(c)
            \/ \E r \in cleanups : r.tok = conn[k].tok

(* The hard limits hold together: a cell has at most one request, so the    *)
(* flow slots bound the commit channel as well, and an initializer never    *)
(* waits for room in it (its own cell has a slot and no request yet).       *)
Requested == {c \in Packets : Queued(c) \/ InBatch(c)}
LimitsHold ==
    /\ Cardinality(LiveCells) <= MaxFlows
    /\ Cardinality(Requested) = Len(commits) + Len(pump.batch)
    /\ \A g \in Packets : Submitting(g) => Len(commits) < MaxFlows
    /\ \A c \in Packets : Len(held[c]) <= MaxHeld
    /\ Cardinality(cleanups) <= MaxCleanups

(* Every queued packet gets its verdict, whatever its flow's initializer    *)
(* does; or the process has been told to die.                               *)
EveryPacketDecided ==
    \A p \in Packets : pkey[p] # None ~> (verdict[p] # "none" \/ fatal)

(* A reload comes back: none of its waits can block for ever.               *)
ReloadReturns == ctl # "run" ~> (ctl = "run" \/ fatal)

(* doc/en/design/nfqueue.md: every packet has one absolute three-second     *)
(* receipt-to-verdict deadline, actor delay consumes it, and a packet past  *)
(* it is dropped.                                                           *)
ActorDelayFailsClosed ==
    [][\A p \in Packets : Accepts(p) /\ ing.p = p => ~Late(p)]_vars
=============================================================================
