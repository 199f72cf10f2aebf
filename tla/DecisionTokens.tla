--------------------------- MODULE DecisionTokens ---------------------------
(***************************************************************************)
(* The allocator of UDP decision tokens (UDP_DECISION_SEQUENCE) at the end *)
(* of a generation: the kernel producers that draw tokens from it, the     *)
(* maps, queued packets and verdict cells that hold them, and the control  *)
(* loop, which on exhaustion fences NFQUEUE, drains it, hard-rebinds the   *)
(* queue and rolls the allocator over to a generation nothing holds, and   *)
(* which fences and reopens NFQUEUE around a reload as well.               *)
(*                                                                         *)
(* A token is generation * 2^28 + sequence in the code; SequenceMask and   *)
(* GenerationMask make the modulus small.  A retirement or a commit under  *)
(* fences is one step here (module FlowRetirement has its steps): it waits *)
(* for the tuple's producer, because the grace barrier does.  A packet in  *)
(* the ingest actor's channel is left out: see the README.                 *)
(***************************************************************************)
EXTENDS Integers, Sequences, FiniteSets

CONSTANTS
    Keys,            \* UDP tuples
    SequenceMask,    \* UDP_DECISION_SEQUENCE_MASK
    GenerationMask,  \* UDP_DECISION_GENERATION_MASK
    MaxReloads,      \* bound on reloads
    MaxFaults        \* bound on backend errors

ASSUME MasksAreUsable ==
    /\ SequenceMask \in Nat \ {0}
    /\ GenerationMask \in Nat
    /\ MaxReloads \in Nat /\ MaxFaults \in Nat

VARIABLES
    next,          \* UDP_DECISION_SEQUENCE.next
    st, held, fence, \* conn states; the token each map holds for a tuple; fenced tuples
    producer,      \* the kernel invocation staging a tuple
    queue, cells,  \* packets in the kernel queue; what the correlator owes
    ready, admission, quiescenceFailed, incomplete, retirementFailed,
                   \* NFQ_READY, the gate, and what refuses a reopening
    sequenceReady, healthy, fatal,
    at, returnTo, offset, scanned, barrier,  \* the control loop
    reloads, faults

kernel == <<next, st, held, fence, producer, queue>>
flags == <<ready, quiescenceFailed, incomplete, retirementFailed>>
loop == <<at, returnTo, offset, scanned, barrier>>
bounds == <<reloads, faults>>
control == <<sequenceReady, healthy, fatal>>
vars == <<kernel, cells, flags, admission, control, loop, bounds>>

-----------------------------------------------------------------------------
(* Tokens.                                                                 *)

Generation(token) == token \div (SequenceMask + 1)

FirstOf(generation) == generation * (SequenceMask + 1)

LastToken == FirstOf(GenerationMask) + SequenceMask

Exhausted == next % (SequenceMask + 1) >= SequenceMask

\* The maps a reset scans, in its order.
ScanOrder == <<"CONN_STATE_MAP", "RETIRE_FENCE", "ROUTING_HANDOFF_MAP", "REDIRECT_TRACK">>

Maps == {ScanOrder[i] : i \in DOMAIN ScanOrder}

Staged(state) == state \in {"Preparing", "Pending", "Aborted"}

States == {"absent", "Preparing", "Pending", "Aborted", "Direct", "Proxy", "Block"}

Idle == [pc |-> "idle", token |-> 0]

\* Every token a map, a producer, a queued packet or a cell holds.
LiveTokens ==
    {held[m][k] : m \in Maps, k \in Keys}
    \cup {producer[k].token : k \in Keys}
    \cup {p.token : p \in queue \cup cells}

Hold(m, k, token) == [held EXCEPT ![m][k] = token]

\* Map entries of the tuples K removed, whatever their map.
Removed(K) == [m \in Maps |-> [k \in Keys |-> IF k \in K THEN 0 ELSE held[m][k]]]

Absent(K) == [k \in Keys |-> IF k \in K THEN "absent" ELSE st[k]]

Fault == faults < MaxFaults /\ faults' = faults + 1

Init ==
    /\ next \in {FirstOf(g) + SequenceMask - 1 : g \in 0..GenerationMask}
    /\ st = [k \in Keys |-> "absent"]
    /\ held = [m \in Maps |-> [k \in Keys |-> 0]]
    /\ fence = {}
    /\ producer = [k \in Keys |-> Idle]
    /\ queue = {} /\ cells = {}
    /\ ready = TRUE /\ admission = TRUE
    /\ quiescenceFailed = FALSE /\ incomplete = FALSE /\ retirementFailed = FALSE
    /\ sequenceReady = TRUE /\ healthy = TRUE /\ fatal = FALSE
    /\ at = "idle" /\ returnTo = "none" /\ offset = 0 /\ scanned = 0 /\ barrier = {}
    /\ reloads = 0 /\ faults = 0

-----------------------------------------------------------------------------
(* A kernel producer: claim_udp_preparing, the re-read of READY and        *)
(* stage_udp_decision.                                                     *)

ProducerFrame ==
    UNCHANGED <<fence, cells, flags, admission, control, loop, bounds>>

Goto(k, pc) == producer' = [producer EXCEPT ![k].pc = pc]

Claim(k) ==
    /\ at # "stopped"
    /\ producer[k] = Idle /\ st[k] = "absent"
    /\ k \notin fence
    /\ st' = [st EXCEPT ![k] = "Preparing"]
    /\ Goto(k, "claimed")
    /\ UNCHANGED <<next, held, queue>> /\ ProducerFrame

\* abort_udp_preparing: the unpublished claim, which no retirement has removed
\* from under its producer, becomes Aborted with its token.
Abort(k) ==
    /\ st' = [st EXCEPT ![k] = "Aborted"]
    /\ held' = Hold("CONN_STATE_MAP", k, producer[k].token)
    /\ producer' = [producer EXCEPT ![k] = Idle]
    /\ UNCHANGED <<next, queue>>

ReadReady(k) ==
    /\ producer[k].pc = "claimed"
    /\ IF ready
       THEN Goto(k, "allocate") /\ UNCHANGED <<next, st, held, queue>>
       ELSE Abort(k)
    /\ ProducerFrame

\* allocate_udp_decision_token, under the sequence's spin lock.
Allocate(k) ==
    /\ producer[k].pc = "allocate"
    /\ IF Exhausted
       THEN Abort(k)
       ELSE /\ next' = next + 1
            /\ producer' = [producer EXCEPT ![k] = [pc |-> "redirect", token |-> next + 1]]
            /\ UNCHANGED <<st, held, queue>>
    /\ ProducerFrame

\* publish_redirect, publish_handoff: refused by a full map, or by the fence of
\* an operation on an earlier flow of the tuple.
PublishAuxiliary(k, m, from, to) ==
    /\ producer[k].pc = from
    /\ \/ /\ held' = Hold(m, k, producer[k].token)
          /\ Goto(k, to)
          /\ UNCHANGED <<next, st, queue>>
       \/ Abort(k)
    /\ ProducerFrame

\* publish_claimed_udp_state, and the packet enters the queue with its mark.
Publish(k) ==
    /\ producer[k].pc = "publish"
    /\ \/ /\ st' = [st EXCEPT ![k] = "Pending"]
          /\ held' = Hold("CONN_STATE_MAP", k, producer[k].token)
          /\ queue' = queue \cup {[key |-> k, token |-> producer[k].token]}
          /\ producer' = [producer EXCEPT ![k] = Idle]
          /\ UNCHANGED next
       \/ Abort(k)
    /\ ProducerFrame

RunProducer(k) ==
    \/ ReadReady(k) \/ Allocate(k)
    \/ PublishAuxiliary(k, "REDIRECT_TRACK", "redirect", "handoff")
    \/ PublishAuxiliary(k, "ROUTING_HANDOFF_MAP", "handoff", "publish")
    \/ Publish(k)

Produce == \E k \in Keys : Claim(k) \/ RunProducer(k)

-----------------------------------------------------------------------------
(* The correlator.  A queued packet becomes a verdict cell, or a cleanup    *)
(* while the gate is closed; both end by a retirement of their token, a     *)
(* cell also by a commit.  A terminal operation does nothing to a tuple     *)
(* that holds another token.  Every operation owns the backend, which a     *)
(* rotation and a quiescence hold to their end.                             *)

BackendFree == at \notin {"barrier", "retire", "scan", "stopped"}

Ingest(p) ==
    /\ at # "stopped"
    /\ queue' = queue \ {p}
    /\ cells' = cells \cup
           {[key |-> p.key, token |-> p.token, kind |-> IF admission THEN "cell" ELSE "cleanup"]}
    /\ UNCHANGED <<next, st, held, fence, producer, flags, admission, control, loop, bounds>>

Owns(c) == held["CONN_STATE_MAP"][c.key] = c.token

UserspaceFrame == UNCHANGED <<next, producer, queue, admission, control, loop>>

\* commit_udp_fenced: the handoff goes, the redirect stays with a proxied flow.
Commit(c, to) ==
    /\ BackendFree /\ c.kind = "cell"
    /\ ~retirementFailed
    /\ cells' = cells \ {c}
    /\ IF Owns(c) /\ st[c.key] = "Pending"
       THEN /\ st' = [st EXCEPT ![c.key] = to]
            /\ held' = [held EXCEPT !["ROUTING_HANDOFF_MAP"][c.key] = 0,
                                    !["REDIRECT_TRACK"][c.key] = IF to = "Proxy" THEN @ ELSE 0]
       ELSE UNCHANGED <<st, held>>
    /\ UNCHANGED <<fence, flags, bounds>> /\ UserspaceFrame

\* Watchdog cleanup (retire_pending): a staged tuple with this token goes.
CleanUp(c) ==
    LET K == IF Owns(c) /\ Staged(st[c.key]) THEN {c.key} ELSE {} IN
    /\ BackendFree
    /\ ~retirementFailed
    /\ cells' = cells \ {c}
    /\ st' = Absent(K) /\ held' = Removed(K)
    /\ UNCHANGED <<fence, flags, bounds>> /\ UserspaceFrame

\* The janitor retires a flow: an aborted one, or one idle for its timeout.
Expire(k) ==
    /\ BackendFree /\ producer[k] = Idle
    /\ st[k] \in States \ {"absent", "Preparing"}
    /\ ~retirementFailed
    /\ st' = Absent({k}) /\ held' = Removed({k})
    /\ UNCHANGED <<fence, cells, flags, bounds>> /\ UserspaceFrame

\* A fence that cannot be released stays, and the backend refuses everything after it.
ReleaseFails(k) ==
    /\ BackendFree /\ producer[k] = Idle /\ Fault
    /\ st[k] \in States \ {"absent", "Preparing"}
    /\ ~retirementFailed /\ retirementFailed' = TRUE
    /\ fence' = fence \cup {k}
    /\ \/ /\ st' = Absent({k})
          /\ held' = [Removed({k}) EXCEPT !["RETIRE_FENCE"][k] = held["CONN_STATE_MAP"][k]]
       \/ /\ held' = Hold("RETIRE_FENCE", k, held["CONN_STATE_MAP"][k])
          /\ UNCHANGED st
    /\ UNCHANGED <<cells, ready, quiescenceFailed, incomplete, reloads>> /\ UserspaceFrame

\* After that the removal worker reports its next request to the control loop as
\* fatal, and so does the correlator.
WorkerFatal(k) ==
    /\ BackendFree /\ retirementFailed /\ ~fatal
    /\ st[k] \in States \ {"absent", "Preparing"}
    /\ fatal' = TRUE
    /\ UNCHANGED <<kernel, cells, flags, admission, sequenceReady, healthy, loop, bounds>>

CellFatal(c) ==
    /\ BackendFree /\ retirementFailed
    /\ cells' = cells \ {c}
    /\ fatal' = TRUE
    /\ UNCHANGED <<kernel, flags, admission, sequenceReady, healthy, loop, bounds>>

Correlate ==
    \/ \E p \in queue : Ingest(p)
    \/ \E c \in cells : CleanUp(c) \/ CellFatal(c)
    \/ \E c \in cells, to \in {"Direct", "Proxy", "Block"} : Commit(c, to)
    \/ \E k \in Keys : Expire(k) \/ ReleaseFails(k) \/ WorkerFatal(k)

-----------------------------------------------------------------------------
(* The flags writer and the quiescence of staged tuples, on behalf of the   *)
(* step `returnTo` of the control loop.                                     *)

LoopFrame == UNCHANGED <<st, held, fence, producer>>

Step(pc) == at' = pc /\ UNCHANGED <<returnTo, offset, scanned, barrier>>

\* An error of a fence rejects a reload; recovery and startup end with it.
OnError == IF returnTo = "reloadDrain" THEN "restoreDrain" ELSE "stopped"

CanReopen == ~quiescenceFailed /\ ~incomplete /\ ~retirementFailed

\* quiesce_staged_udp begins: the grace barrier takes in the producers in flight.
StartQuiesce(to) ==
    /\ incomplete' = TRUE
    /\ returnTo' = to
    /\ at' = "barrier"
    /\ barrier' = {k \in Keys : producer[k] # Idle}

\* fence_nfqueue: READY is cleared, then staging is quiesced under the same lock.
FenceNfqueue ==
    /\ at = "fence"
    /\ ready' = FALSE
    /\ StartQuiesce(returnTo)
    /\ UNCHANGED <<next, queue, cells, quiescenceFailed, retirementFailed, admission, control,
                   offset, scanned, reloads, faults>> /\ LoopFrame

FenceWriteFails ==
    /\ at = "fence" /\ Fault
    /\ Step(OnError)
    /\ UNCHANGED <<next, queue, cells, flags, admission, control, reloads>> /\ LoopFrame

BarrierOver ==
    /\ at = "barrier" /\ ~retirementFailed
    /\ \A k \in barrier : producer[k] = Idle
    /\ at' = "retire" /\ barrier' = {}
    /\ UNCHANGED <<next, queue, cells, flags, admission, control, returnTo, offset, scanned,
                   reloads, faults>> /\ LoopFrame

\* Every staged tuple is fenced, its producer waited for, and retired.
Quiesce ==
    LET K == {k \in Keys : Staged(st[k])} IN
    /\ at = "retire"
    /\ \A k \in K : producer[k] = Idle
    /\ st' = Absent(K) /\ held' = Removed(K)
    /\ incomplete' = FALSE
    /\ quiescenceFailed' = (quiescenceFailed /\ returnTo = "scan")
    /\ Step(returnTo)
    /\ UNCHANGED <<next, fence, producer, queue, cells, ready, retirementFailed, admission,
                   control, bounds>>

QuiesceFails ==
    /\ at \in {"barrier", "retire"}
    /\ IF retirementFailed THEN UNCHANGED faults ELSE Fault
    /\ quiescenceFailed' = (quiescenceFailed \/ returnTo # "scan")
    /\ at' = OnError /\ barrier' = {}
    /\ UNCHANGED <<next, queue, cells, ready, incomplete, retirementFailed, admission, control,
                   returnTo, offset, scanned, reloads>> /\ LoopFrame

-----------------------------------------------------------------------------
(* recover_nfqueue_token_exhaustion and rotate_udp_decision_generation.     *)

\* Seeded bug for StagingResumes: an outage that began is never retried.
TokenExhaustedOnce ==
    /\ at = "idle" /\ Exhausted /\ sequenceReady
    /\ at' = "fence" /\ returnTo' = "drain"
    /\ UNCHANGED <<kernel, cells, flags, admission, control, offset, scanned, barrier, bounds>>

\* The periodic read of the sequence (next_event), an event of the control loop.
TokenExhausted ==
    /\ at = "idle" /\ Exhausted
    /\ at' = IF sequenceReady THEN "fence" ELSE "rotate"
    /\ returnTo' = "drain"
    /\ UNCHANGED <<kernel, cells, flags, admission, control, offset, scanned, barrier, bounds>>

Cancelled == {[c EXCEPT !.kind = "cleanup"] : c \in cells}

\* cancel_all: the gate closes and every cell is turned into a cleanup.
CancelAll(from, to) ==
    /\ at = from
    /\ admission' = FALSE
    /\ cells' = Cancelled
    /\ sequenceReady' = (sequenceReady /\ from # "drain")
    /\ Step(to)
    /\ UNCHANGED <<kernel, flags, healthy, fatal, bounds>>

WaitEmpty(from, to) ==
    /\ at = from /\ cells = {}
    /\ Step(to)
    /\ UNCHANGED <<kernel, cells, flags, admission, control, bounds>>

\* hard_rebind_service: the kernel drops what the old queue held.
HardRebind ==
    /\ at = "rebind"
    /\ queue' = {}
    /\ cells' = Cancelled
    /\ \/ ~fatal /\ Step("waitAgain") /\ UNCHANGED faults
       \/ fatal /\ Step("stopped") /\ UNCHANGED faults
       \/ Fault /\ Step("stopped")
    /\ UNCHANGED <<next, flags, admission, control, reloads>> /\ LoopFrame

Rotate ==
    /\ at = "rotate"
    /\ IF Exhausted
       THEN StartQuiesce("scan") /\ offset' = 1 /\ scanned' = 0
       ELSE Step("reopen") /\ UNCHANGED incomplete
    /\ UNCHANGED <<kernel, cells, ready, quiescenceFailed, retirementFailed, admission, control,
                   bounds>>

Candidate == (Generation(next) + offset) % (GenerationMask + 1)

\* Seeded bug for TokensAreFresh: only later generations count as conflicts.
ConflictsAbove(token, generation) == token # 0 /\ Generation(token) > generation

ConflictsWithRollback(token, generation) == token # 0 /\ Generation(token) >= generation

LiveIn(m, generation) == \E k \in Keys : ConflictsWithRollback(held[m][k], generation)

\* reset_udp_decision_sequence reads map after map; the reset itself is locked.
Scan ==
    /\ at = "scan"
    /\ IF scanned = Len(ScanOrder)
       THEN /\ next' = FirstOf(Candidate)
            /\ at' = "reopen" /\ scanned' = 0 /\ offset' = 0
       ELSE IF ~LiveIn(ScanOrder[scanned + 1], Candidate)
       THEN scanned' = scanned + 1 /\ UNCHANGED <<next, at, offset>>
       ELSE IF offset <= GenerationMask
       THEN offset' = offset + 1 /\ scanned' = 0 /\ UNCHANGED <<next, at>>
       ELSE at' = "idle" /\ offset' = 0 /\ scanned' = 0 /\ UNCHANGED next
    /\ UNCHANGED <<st, held, fence, producer, queue, cells, flags, admission, control, returnTo,
                   barrier, bounds>>

\* check_startup_health, open_admission, reopen_nfqueue; at startup, open_epoch.
Reopen ==
    /\ at = "reopen" /\ ~fatal /\ CanReopen
    /\ admission' = TRUE /\ ready' = TRUE /\ sequenceReady' = TRUE
    /\ Step("idle")
    /\ UNCHANGED <<kernel, cells, quiescenceFailed, incomplete, retirementFailed, healthy, fatal,
                   bounds>>

\* A failed health check or reopening.  On a gate that a reload has opened in the
\* outage, the assertion of AdmissionGate::open may panic as well.
ReopenFails ==
    /\ at = "reopen"
    /\ IF fatal \/ ~CanReopen \/ admission THEN UNCHANGED faults ELSE Fault
    /\ Step("stopped")
    /\ UNCHANGED <<next, queue, cells, flags, admission, control, reloads>> /\ LoopFrame

Recover ==
    \/ TokenExhausted
    \/ CancelAll("drain", "wait") \/ WaitEmpty("wait", "rebind")
    \/ HardRebind \/ WaitEmpty("waitAgain", "rotate")
    \/ Rotate \/ Scan \/ Reopen \/ ReopenFails

-----------------------------------------------------------------------------
(* A reload, as far as it touches NFQUEUE.                                  *)

Reload ==
    /\ at = "idle" /\ ~fatal /\ reloads < MaxReloads
    /\ reloads' = reloads + 1
    /\ at' = "fence" /\ returnTo' = "reloadDrain"
    /\ UNCHANGED <<kernel, cells, flags, admission, control, offset, scanned, barrier, faults>>

\* Initializers or retirements that do not drain in time, or a publication that fails.
ReloadRejected ==
    /\ at \in {"reloadWait", "reloadCommit"}
    /\ Step("restore")
    /\ UNCHANGED <<kernel, cells, flags, admission, control, bounds>>

\* mode_reset_failed: the commit is degraded and NFQUEUE stays fenced.
ModeResetFails ==
    /\ at = "reloadCommit" /\ Fault
    /\ healthy' = FALSE
    /\ Step("idle")
    /\ UNCHANGED <<next, queue, cells, flags, admission, sequenceReady, fatal, reloads>> /\ LoopFrame

\* open_pending_udp_admission and reopen_nfqueue, after a commit or a rejection.
ReloadReopens ==
    /\ at = "reloadCommit" \/ (at = "restore" /\ healthy)
    /\ CanReopen
    /\ admission' = TRUE /\ ready' = TRUE /\ healthy' = TRUE
    /\ Step("idle")
    /\ UNCHANGED <<kernel, cells, quiescenceFailed, incomplete, retirementFailed, sequenceReady,
                   fatal, bounds>>

ReloadReopenFails ==
    /\ at = "reloadCommit" \/ (at = "restore" /\ healthy)
    /\ IF CanReopen THEN Fault ELSE UNCHANGED faults
    /\ healthy' = FALSE
    /\ Step("closeDrain")
    /\ UNCHANGED <<next, queue, cells, flags, admission, sequenceReady, fatal, reloads>> /\ LoopFrame

\* restore_datapath_flags_after_rejected_reload leaves an unhealthy datapath as it is.
RestoreUnhealthy ==
    /\ at = "restore" /\ ~healthy
    /\ Step("idle")
    /\ UNCHANGED <<kernel, cells, flags, admission, control, bounds>>

ReloadStep ==
    \/ Reload
    \/ CancelAll("reloadDrain", "reloadWait") \/ WaitEmpty("reloadWait", "reloadCommit")
    \/ CancelAll("restoreDrain", "restoreWait") \/ WaitEmpty("restoreWait", "restore")
    \/ CancelAll("closeDrain", "closeWait") \/ WaitEmpty("closeWait", "idle")
    \/ ReloadRejected \/ ModeResetFails \/ ReloadReopens \/ ReloadReopenFails \/ RestoreUnhealthy

-----------------------------------------------------------------------------
(* The process stops on a fatal event.  A new one finds the pinned sequence *)
(* and nothing else: every other map is created anew.                       *)

Fatal ==
    /\ at = "idle" /\ fatal
    /\ Step("stopped")
    /\ UNCHANGED <<kernel, cells, flags, admission, control, bounds>>

Restart ==
    /\ at = "stopped"
    /\ st' = [k \in Keys |-> "absent"]
    /\ held' = [m \in Maps |-> [k \in Keys |-> 0]]
    /\ fence' = {}
    /\ producer' = [k \in Keys |-> Idle]
    /\ queue' = {} /\ cells' = {}
    /\ ready' = FALSE /\ admission' = FALSE
    /\ quiescenceFailed' = FALSE /\ incomplete' = FALSE /\ retirementFailed' = FALSE
    /\ sequenceReady' = FALSE /\ healthy' = TRUE /\ fatal' = FALSE
    /\ at' = "rotate" /\ returnTo' = "none" /\ offset' = 0 /\ scanned' = 0 /\ barrier' = {}
    /\ UNCHANGED <<next, reloads, faults>>

Control ==
    \/ FenceNfqueue \/ FenceWriteFails \/ BarrierOver \/ Quiesce \/ QuiesceFails
    \/ Recover \/ ReloadStep \/ Fatal

Next == Produce \/ Correlate \/ Control \/ Restart

\* A kernel invocation runs to its end; the actor, the watchdog (a cell has a
\* deadline) and the control loop (its timer recurs) keep running.
Fairness ==
    /\ \A k \in Keys : WF_vars(RunProducer(k))
    /\ WF_vars(\E p \in queue : Ingest(p))
    /\ WF_vars(\E c \in cells : CleanUp(c) \/ CellFatal(c))
    /\ WF_vars(Control)

Spec == Init /\ [][Next]_vars /\ Fairness

-----------------------------------------------------------------------------
(* Properties.                                                             *)

\* Every token in a map, a producer, the queue or a cell is one the allocator can name.
TypeOK ==
    /\ next \in 0..LastToken
    /\ st \in [Keys -> States]
    /\ held \in [Maps -> [Keys -> 0..LastToken]]
    /\ producer \in [Keys -> [pc : {"idle", "claimed", "allocate", "redirect", "handoff", "publish"},
                              token : 0..LastToken]]
    /\ queue \subseteq [key : Keys, token : 1..LastToken]
    /\ cells \subseteq [key : Keys, token : 1..LastToken, kind : {"cell", "cleanup"}]
    /\ barrier \subseteq Keys
    /\ \A b \in {ready, admission, quiescenceFailed, incomplete, retirementFailed,
                 sequenceReady, healthy, fatal} : b \in BOOLEAN

\* A token handed out by allocate_udp_decision_token is held by no map entry,
\* producer, queued packet, verdict cell or cleanup, after any number of
\* rotations (reset_udp_decision_sequence): an old packet or an old owner can
\* never be taken for the new flow.
TokensAreFresh ==
    [][\A k \in Keys :
         producer'[k].token > 0 /\ producer[k].token = 0 => producer'[k].token \notin LiveTokens]_vars

\* Exhaustion is an outage that ends: unless the process stops or a reload
\* leaves the datapath unhealthy, staging is open again with tokens to hand
\* out whenever some generation is free of live tokens in the four maps.
StagingResumes ==
    []<>(\/ at = "stopped"
         \/ ~healthy
         \/ \E m \in Maps : LiveIn(m, GenerationMask)
         \/ ready /\ admission /\ ~Exhausted)
=============================================================================
