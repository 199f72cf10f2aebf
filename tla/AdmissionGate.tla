---------------------------- MODULE AdmissionGate ----------------------------
(***************************************************************************)
(* The gate in front of the NFQUEUE correlator (control/nfqueue/cell.rs,   *)
(* AdmissionGate and AdmissionTicket).                                     *)
(*                                                                         *)
(* Handlers are the deliveries of queued packets: the listener captures    *)
(* the gate's epoch, the ingest actor enters the gate, works while it      *)
(* holds a ticket, and drops the ticket.  The controller (reload, token    *)
(* recovery, teardown) closes the gate, waits for the tickets, and may     *)
(* reopen it.  The wait uses tokio's Notify: a wake-up reaches the closer  *)
(* only if its Notified future exists when notify_waiters is called.       *)
(* Opening asserts that no ticket is alive; a failed assertion ends the    *)
(* control loop, and the gate is not touched again (closer = "panicked").  *)
(* The runtime starts one ingest actor; the gate does not rely on that, so *)
(* here any number of handlers may be inside at once.                      *)
(***************************************************************************)
EXTENDS Integers, FiniteSets

CONSTANTS
    Handlers,    \* packet deliveries that may be in the system at once
    MaxEpoch     \* bound on the number of closings TLC explores

ASSUME HandlersAssumption == IsFiniteSet(Handlers)
ASSUME MaxEpochAssumption == MaxEpoch \in Nat

VARIABLES
    open,        \* AdmissionState.open
    epoch,       \* AdmissionState.epoch
    in_flight,   \* AdmissionState.in_flight
    pc,          \* where each delivery is
    kind,        \* "udp" (token owned) or "dns" (a routed UDP/53 original)
    captured,    \* Option<u64> captured by the listener, or NoEpoch
    ticket,      \* AdmissionTicket.epoch of the ticket a handler holds
    sequence_ready, \* NfqueueRuntime.sequence_ready: FALSE in a token outage
    caller,      \* the handler of the control loop that works on the gate
    closer,      \* where that handler is in close_and_wait / open
    wake,        \* has the closer's Notified future been notified
    era,         \* history: completed close_and_wait calls
    born         \* history: the era in which a delivery was captured

vars == <<open, epoch, in_flight, pc, kind, captured, ticket, sequence_ready,
          caller, closer, wake, era, born>>

NoEpoch == -1

Holding(h) == pc[h] \in {"ticket", "checked"}
Holders == {h \in Handlers : Holding(h)}

Init ==
    /\ open = FALSE
    /\ epoch = 0
    /\ in_flight = 0
    /\ pc = [h \in Handlers |-> "idle"]
    /\ kind = [h \in Handlers |-> "udp"]
    /\ captured = [h \in Handlers |-> NoEpoch]
    /\ ticket = [h \in Handlers |-> 0]
    /\ sequence_ready \in BOOLEAN
    /\ caller = "start"
    /\ closer = "closed"
    /\ wake = FALSE
    /\ era = 0
    /\ born = [h \in Handlers |-> 0]

-----------------------------------------------------------------------------
(* Deliveries *)

(* The delivery returned: its locals are gone.                              *)
Forget(h) ==
    /\ kind' = [kind EXCEPT ![h] = "udp"]
    /\ captured' = [captured EXCEPT ![h] = NoEpoch]
    /\ ticket' = [ticket EXCEPT ![h] = 0]
    /\ born' = [born EXCEPT ![h] = 0]

(* The listener callback: AdmissionGate::epoch() is Some only while open.   *)
Receive(h, k) ==
    /\ pc[h] = "idle"
    /\ pc' = [pc EXCEPT ![h] = "received"]
    /\ kind' = [kind EXCEPT ![h] = k]
    /\ captured' = [captured EXCEPT ![h] = IF open THEN epoch ELSE NoEpoch]
    /\ born' = [born EXCEPT ![h] = era]
    /\ UNCHANGED <<open, epoch, in_flight, ticket, sequence_ready, caller,
                   closer, wake, era>>

(* Seeded bug for InFlightCountsTickets: the counter is a flag.             *)
TryEnterUncounted(h) ==
    /\ pc[h] = "received"
    /\ open
    /\ kind[h] = "dns" => captured[h] # NoEpoch
    /\ in_flight' = IF in_flight = 0 THEN 1 ELSE in_flight
    /\ ticket' = [ticket EXCEPT ![h] = epoch]
    /\ pc' = [pc EXCEPT ![h] = "ticket"]
    /\ UNCHANGED <<open, epoch, kind, captured, sequence_ready, caller,
                   closer, wake, era, born>>

(* try_enter: the gate is open, so a ticket of the current epoch is issued. *)
(* DNS reaches it only with a captured epoch.                               *)
TryEnter(h) ==
    /\ pc[h] = "received"
    /\ open
    /\ kind[h] = "dns" => captured[h] # NoEpoch
    /\ in_flight' = in_flight + 1
    /\ ticket' = [ticket EXCEPT ![h] = epoch]
    /\ pc' = [pc EXCEPT ![h] = "ticket"]
    /\ UNCHANGED <<open, epoch, kind, captured, sequence_ready, caller,
                   closer, wake, era, born>>

(* The gate is closed, or a DNS original has no epoch: it is dropped.       *)
Refused(h) ==
    /\ pc[h] = "received"
    /\ ~open \/ (kind[h] = "dns" /\ captured[h] = NoEpoch)
    /\ pc' = [pc EXCEPT ![h] = "idle"]
    /\ Forget(h)
    /\ UNCHANGED <<open, epoch, in_flight, sequence_ready, caller, closer,
                   wake, era>>

(* Seeded bug for NoStalePublication: the gate is open again, its epoch is  *)
(* not compared.                                                            *)
EpochIgnored(h) == open

(* A DNS original is published only if try_enter_at saw its epoch and the   *)
(* gate still shows that epoch after the asynchronous admission work.       *)
EpochStillCurrent(h) ==
    /\ ticket[h] = captured[h]
    /\ open
    /\ epoch = captured[h]

EpochCheckPasses(h) == kind[h] = "dns" => EpochStillCurrent(h)

Check(h) ==
    /\ pc[h] = "ticket"
    /\ EpochCheckPasses(h)
    /\ pc' = [pc EXCEPT ![h] = "checked"]
    /\ UNCHANGED <<open, epoch, in_flight, kind, captured, ticket,
                   sequence_ready, caller, closer, wake, era, born>>

(* Seeded bug for CloseTerminates: the count is tested before it goes down. *)
DropTicketEarlyTest(h) ==
    /\ in_flight' = in_flight - 1
    /\ pc' = [pc EXCEPT ![h] = IF in_flight = 0 THEN "notify" ELSE "idle"]
    /\ Forget(h)
    /\ UNCHANGED <<open, epoch, sequence_ready, caller, closer, wake, era>>

(* AdmissionTicket::drop, the part under the lock; the handler that takes   *)
(* the count to zero still has to call notify_waiters.                      *)
DropTicket(h) ==
    /\ in_flight' = in_flight - 1
    /\ pc' = [pc EXCEPT ![h] = IF in_flight = 1 THEN "notify" ELSE "idle"]
    /\ Forget(h)
    /\ UNCHANGED <<open, epoch, sequence_ready, caller, closer, wake, era>>

(* notify_waiters, after the lock: it reaches only an existing Notified.    *)
NotifyWaiters(h) ==
    /\ pc[h] = "notify"
    /\ wake' = (wake \/ closer \in {"check", "await"})
    /\ pc' = [pc EXCEPT ![h] = "idle"]
    /\ UNCHANGED <<open, epoch, in_flight, kind, captured, ticket,
                   sequence_ready, caller, closer, era, born>>

(* The handler published its work, and leaves.                              *)
Publish(h) == pc[h] = "checked" /\ DropTicket(h)

(* A DNS original whose epoch or deadline has passed leaves without it.     *)
Abandon(h) == pc[h] = "ticket" /\ kind[h] = "dns" /\ DropTicket(h)

-----------------------------------------------------------------------------
(* The controller *)

(* AdmissionGate::open asserts that nobody is inside, whoever calls it; the *)
(* panic releases the lock and leaves the gate as it was.                   *)
OpenGate ==
    /\ IF in_flight = 0
       THEN open' = TRUE /\ closer' = "idle"
       ELSE open' = open /\ closer' = "panicked"
    /\ UNCHANGED <<epoch, in_flight, pc, kind, captured, ticket, wake, era,
                   born>>

(* A reload that commits or is rejected opens the gate it has closed.  The  *)
(* start of an epoch opens a new gate, unless the tokens are exhausted.     *)
Open ==
    /\ closer = "closed"
    /\ caller = "reload" \/ (caller = "start" /\ sequence_ready)
    /\ OpenGate
    /\ caller' = "none"
    /\ UNCHANGED sequence_ready

(* The handler returns with the gate shut: an exhausted start, a degraded   *)
(* reload, a stage of the teardown, a rotation that found no generation.    *)
StayShut ==
    /\ closer = "closed"
    /\ caller \in {"reload", "rebound"} \/ (caller = "start" /\ ~sequence_ready)
    /\ caller' = "none"
    /\ UNCHANGED <<open, epoch, in_flight, pc, kind, captured, ticket,
                   sequence_ready, closer, wake, era, born>>

(* A rotation of recover_nfqueue_token_exhaustion that succeeds opens the   *)
(* gate as it finds it.  The call that fenced staging has closed it; a      *)
(* retry neither fences nor drains, and a reload may have opened it since.  *)
Recover ==
    /\ \/ caller = "rebound" /\ closer = "closed"
       \/ caller = "none" /\ closer \in {"idle", "closed"}
    /\ ~sequence_ready
    /\ OpenGate
    /\ caller' = "none"
    /\ sequence_ready' = (in_flight = 0)

(* Seeded bug for TicketEpochCurrent: the epoch moves, the gate stays open. *)
CloseGateStaysOpen ==
    /\ closer \in {"idle", "closed"}
    /\ era < MaxEpoch
    /\ epoch' = IF open THEN epoch + 1 ELSE epoch
    /\ closer' = "register"
    /\ UNCHANGED <<open, in_flight, pc, kind, captured, ticket, wake, era, born>>

(* The locked prologue of close_and_wait; closing twice keeps the epoch.    *)
CloseGate ==
    /\ closer \in {"idle", "closed"}
    /\ era < MaxEpoch
    /\ open' = FALSE
    /\ epoch' = IF open THEN epoch + 1 ELSE epoch
    /\ closer' = "register"
    /\ UNCHANGED <<in_flight, pc, kind, captured, ticket, wake, era, born>>

(* cancel_all of a reload, or of a stage of the teardown.                   *)
Close ==
    /\ caller = "none"
    /\ caller' = "reload"
    /\ CloseGate
    /\ UNCHANGED sequence_ready

(* cancel_all of the recovery that starts a token outage, before its hard   *)
(* rebind and again after it.                                               *)
FenceExhausted ==
    /\ \/ caller = "none" /\ sequence_ready /\ caller' = "recover"
       \/ caller = "recover" /\ caller' = "rebound"
    /\ sequence_ready' = FALSE
    /\ CloseGate

(* let notified = self.quiesced.notified();                                 *)
Register ==
    /\ closer = "register"
    /\ closer' = "check"
    /\ wake' = FALSE
    /\ UNCHANGED <<open, epoch, in_flight, pc, kind, captured, ticket,
                   sequence_ready, caller, era, born>>

(* Seeded bug for ClosedIsQuiescent and ReopenPanicsOnlyInOutage: one       *)
(* ticket left counts as none.                                              *)
CheckNearlyQuiescent ==
    /\ closer = "check"
    /\ IF in_flight <= 1
       THEN closer' = "closed" /\ era' = era + 1
       ELSE closer' = "await" /\ era' = era
    /\ UNCHANGED <<open, epoch, in_flight, pc, kind, captured, ticket,
                   sequence_ready, caller, wake, born>>

(* if in_flight == 0 { return } else { notified.await }                     *)
CheckQuiescent ==
    /\ closer = "check"
    /\ IF in_flight = 0
       THEN closer' = "closed" /\ era' = era + 1
       ELSE closer' = "await" /\ era' = era
    /\ UNCHANGED <<open, epoch, in_flight, pc, kind, captured, ticket,
                   sequence_ready, caller, wake, born>>

Awake ==
    /\ closer = "await"
    /\ wake
    /\ closer' = "register"
    /\ UNCHANGED <<open, epoch, in_flight, pc, kind, captured, ticket,
                   sequence_ready, caller, wake, era, born>>

-----------------------------------------------------------------------------
Leave(h) ==
    \/ TryEnter(h) \/ Refused(h) \/ Check(h)
    \/ Publish(h) \/ Abandon(h) \/ NotifyWaiters(h)
CloserStep == Register \/ CheckQuiescent \/ Awake

Next ==
    \/ \E h \in Handlers : \E k \in {"udp", "dns"} : Receive(h, k)
    \/ \E h \in Handlers : Leave(h)
    \/ Open
    \/ StayShut
    \/ Recover
    \/ Close
    \/ FenceExhausted
    \/ CloserStep

(* Every handler step is one bounded await of the ingest actor, and the     *)
(* closer is a task of the runtime: both are always scheduled again.        *)
Fairness ==
    /\ \A h \in Handlers : WF_vars(Leave(h))
    /\ WF_vars(CloserStep)

Spec == Init /\ [][Next]_vars /\ Fairness

-----------------------------------------------------------------------------
TypeOK ==
    /\ open \in BOOLEAN
    /\ epoch \in Nat
    /\ in_flight \in Nat
    /\ pc \in [Handlers -> {"idle", "received", "ticket", "checked", "notify"}]
    /\ kind \in [Handlers -> {"udp", "dns"}]
    /\ captured \in [Handlers -> Int]
    /\ ticket \in [Handlers -> Nat]
    /\ sequence_ready \in BOOLEAN
    /\ caller \in {"start", "none", "reload", "recover", "rebound"}
    /\ closer \in {"idle", "register", "check", "await", "closed", "panicked"}
    /\ wake \in BOOLEAN
    /\ era \in Nat
    /\ born \in [Handlers -> Nat]

(* The counter is exactly the tickets alive: no underflow expect in         *)
(* AdmissionTicket::drop, and zero means that nobody is inside.             *)
InFlightCountsTickets == in_flight = Cardinality(Holders)

(* Once close_and_wait has returned nobody is inside the gate until it is   *)
(* reopened.  cancel_all rests on it: no cell appears while it scans.       *)
ClosedIsQuiescent == closer = "closed" => in_flight = 0

(* The assert_eq!(in_flight, 0) of AdmissionGate::open: "NFQUEUE admission  *)
(* reopened before quiescence" is never reported.                           *)
ReopenFindsNobody == closer # "panicked"

(* How far that assertion can be trusted: it fails only for the retry of a  *)
(* rotation, during a token outage, on a gate that was already open.        *)
(* Neither a reload, nor the start of an epoch, nor the recovery that       *)
(* closed the gate itself, can meet a ticket of before the closing.         *)
ReopenPanicsOnlyInOutage == closer = "panicked" => open /\ ~sequence_ready

(* The debug_assert! of AdmissionTicket::drop: a ticket is of the current   *)
(* epoch, or the gate is closed.                                            *)
TicketEpochCurrent == \A h \in Handlers : Holding(h) => ticket[h] = epoch \/ ~open

(* A DNS original captured before a fence is never published after it: the  *)
(* delivery that passed its checks was captured in the era it publishes in. *)
NoStalePublication ==
    \A h \in Handlers : pc[h] = "checked" /\ kind[h] = "dns" => born[h] = era

(* The controller and the gate agree on whether it is open.                 *)
ClosingIsShut == open <=> closer \in {"idle", "panicked"}

(* An epoch captured by the listener is the gate's epoch only if the gate   *)
(* has not been closed since: capturing needs an open gate, closing it      *)
(* moves the epoch on.                                                      *)
CapturedEpochIsCurrent ==
    \A h \in Handlers :
        captured[h] # NoEpoch =>
            /\ captured[h] <= epoch
            /\ captured[h] = epoch => open /\ born[h] = era

(* The inductive invariant behind the safety properties.                    *)
GateInv ==
    /\ TypeOK
    /\ InFlightCountsTickets
    /\ ClosedIsQuiescent
    /\ ReopenPanicsOnlyInOutage
    /\ ClosingIsShut
    /\ TicketEpochCurrent
    /\ CapturedEpochIsCurrent
    /\ NoStalePublication

(* close_and_wait returns: no wake-up is lost between the last ticket's     *)
(* drop and the closer's wait.                                              *)
CloseTerminates == closer = "register" ~> closer = "closed"
=============================================================================
