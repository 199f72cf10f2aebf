------------------------ MODULE AdmissionGate_proofs ------------------------
(***************************************************************************)
(* The safety of the admission gate, for every set of handlers and every   *)
(* number of closings.  GateInv is inductive; the properties are conjuncts *)
(* of it.                                                                  *)
(***************************************************************************)
EXTENDS AdmissionGate, FiniteSetTheorems, TLAPS

(* The steps of the control loop.                                           *)
ControllerAction ==
    \/ Open \/ StayShut \/ Recover \/ Close \/ FenceExhausted \/ CloserStep

(* Holders is a finite set, so its cardinality is a natural number that is  *)
(* zero exactly when nobody holds a ticket.                                 *)
LEMMA HoldersFinite ==
    /\ IsFiniteSet(Holders)
    /\ Cardinality(Holders) \in Nat
    /\ Cardinality(Holders) = 0 <=> Holders = {}
<1>1. Holders \subseteq Handlers
  BY DEF Holders
<1>2. IsFiniteSet(Holders)
  BY <1>1, HandlersAssumption, FS_Subset
<1> QED
  BY <1>2, FS_CardinalityType, FS_EmptySet

(* The initial state satisfies the invariant: a new gate is closed and empty. *)
LEMMA InitGateInv == Init => GateInv
<1> SUFFICES ASSUME Init PROVE GateInv
  OBVIOUS
<1>1. Holders = {}
  BY DEF Init, Holders, Holding
<1>2. Cardinality(Holders) = 0
  BY <1>1, FS_EmptySet
<1>3. TypeOK
  <2>1. open \in BOOLEAN /\ wake \in BOOLEAN /\ sequence_ready \in BOOLEAN
    BY Zenon DEF Init
  <2>2. /\ epoch \in Nat /\ in_flight \in Nat /\ era \in Nat
        /\ captured \in [Handlers -> Int]
        /\ ticket \in [Handlers -> Nat] /\ born \in [Handlers -> Nat]
    BY SMT DEF Init, NoEpoch
  <2>3. /\ pc \in [Handlers -> {"idle", "received", "ticket", "checked", "notify"}]
        /\ kind \in [Handlers -> {"udp", "dns"}]
        /\ caller \in {"start", "none", "reload", "recover", "rebound"}
        /\ closer \in {"idle", "register", "check", "await", "closed", "panicked"}
    BY DEF Init
  <2> QED
    BY <2>1, <2>2, <2>3, Zenon DEF TypeOK
<1>4. /\ InFlightCountsTickets /\ ClosedIsQuiescent /\ ClosingIsShut
      /\ ReopenPanicsOnlyInOutage
  BY <1>2 DEF Init, InFlightCountsTickets, ClosedIsQuiescent, ClosingIsShut,
     ReopenPanicsOnlyInOutage
<1>5. TicketEpochCurrent /\ CapturedEpochIsCurrent /\ NoStalePublication
  BY DEF Init, TicketEpochCurrent, Holding, CapturedEpochIsCurrent,
     NoStalePublication, NoEpoch
<1> QED
  BY <1>3, <1>4, <1>5 DEF GateInv

(* TypeOK is preserved by every step.                                       *)
LEMMA TypeStep == GateInv /\ [Next]_vars => TypeOK'
<1> SUFFICES ASSUME GateInv, [Next]_vars PROVE TypeOK'
  OBVIOUS
<1>0. TypeOK
  BY DEF GateInv
<1>1. ASSUME NEW h \in Handlers, NEW k \in {"udp", "dns"}, Receive(h, k)
      PROVE TypeOK'
  BY <1>0, <1>1 DEF TypeOK, Receive, NoEpoch
<1>2. ASSUME NEW h \in Handlers, TryEnter(h) PROVE TypeOK'
  BY <1>0, <1>2 DEF TypeOK, TryEnter
<1>3. ASSUME NEW h \in Handlers, Refused(h) PROVE TypeOK'
  BY <1>0, <1>3 DEF TypeOK, Refused, Forget, NoEpoch
<1>4. ASSUME NEW h \in Handlers, Check(h) PROVE TypeOK'
  BY <1>0, <1>4 DEF TypeOK, Check
<1>5. ASSUME NEW h \in Handlers, Publish(h) \/ Abandon(h) PROVE TypeOK'
  <2>1. h \in Holders
    BY <1>5 DEF Publish, Abandon, Holders, Holding
  <2>2. in_flight - 1 \in Nat
    BY <2>1, <1>0, HoldersFinite DEF GateInv, InFlightCountsTickets, TypeOK
  <2>3. DropTicket(h)
    BY <1>5 DEF Publish, Abandon
  <2> QED
    BY <2>2, <2>3, <1>0 DEF TypeOK, DropTicket, Forget, NoEpoch
<1>6. ASSUME NEW h \in Handlers, NotifyWaiters(h) PROVE TypeOK'
  BY <1>0, <1>6 DEF TypeOK, NotifyWaiters
<1>7. CASE Open \/ StayShut \/ Recover
  <2>1. /\ open' \in BOOLEAN /\ sequence_ready' \in BOOLEAN
        /\ closer' \in {"idle", "register", "check", "await", "closed", "panicked"}
        /\ caller' \in {"start", "none", "reload", "recover", "rebound"}
    BY <1>0, <1>7 DEF TypeOK, Open, StayShut, Recover, OpenGate
  <2>2. UNCHANGED <<epoch, in_flight, pc, kind, captured, ticket, wake, era, born>>
    BY <1>7 DEF Open, StayShut, Recover, OpenGate
  <2> QED
    BY <1>0, <2>1, <2>2, Zenon DEF TypeOK
<1>8. CASE Close \/ FenceExhausted
  <2>1. epoch' \in Nat
    BY <1>0, <1>8 DEF TypeOK, Close, FenceExhausted, CloseGate
  <2>2. /\ open' \in BOOLEAN /\ sequence_ready' \in BOOLEAN
        /\ closer' \in {"idle", "register", "check", "await", "closed", "panicked"}
        /\ caller' \in {"start", "none", "reload", "recover", "rebound"}
    BY <1>0, <1>8 DEF TypeOK, Close, FenceExhausted, CloseGate
  <2>3. UNCHANGED <<in_flight, pc, kind, captured, ticket, wake, era, born>>
    BY <1>8 DEF Close, FenceExhausted, CloseGate
  <2> QED
    BY <1>0, <2>1, <2>2, <2>3, Zenon DEF TypeOK
<1>9. CASE CloserStep
  <2>1. CASE Register
    BY <1>0, <2>1 DEF TypeOK, Register
  <2>2. CASE CheckQuiescent
    BY <1>0, <2>2 DEF TypeOK, CheckQuiescent
  <2>3. CASE Awake
    BY <1>0, <2>3 DEF TypeOK, Awake
  <2> QED
    BY <1>9, <2>1, <2>2, <2>3 DEF CloserStep
<1>10. CASE UNCHANGED vars
  BY <1>0, <1>10, Zenon DEF TypeOK, vars
<1> QED
  BY <1>1, <1>2, <1>3, <1>4, <1>5, <1>6, <1>7, <1>8, <1>9, <1>10
     DEF Next, Leave

(* The counter and the set of tickets move together.                        *)
LEMMA CountStep == GateInv /\ [Next]_vars => InFlightCountsTickets'
<1> SUFFICES ASSUME GateInv, [Next]_vars PROVE InFlightCountsTickets'
  OBVIOUS
<1>0. TypeOK /\ in_flight = Cardinality(Holders)
  BY DEF GateInv, InFlightCountsTickets
<1>1. ASSUME Holders' = Holders, in_flight' = in_flight
      PROVE InFlightCountsTickets'
  BY <1>0, <1>1 DEF InFlightCountsTickets
<1>2. ASSUME NEW h \in Handlers, TryEnter(h) PROVE InFlightCountsTickets'
  <2>1. h \notin Holders /\ Holders' = Holders \cup {h}
    BY <1>2, <1>0 DEF TryEnter, Holders, Holding, TypeOK
  <2>2. Cardinality(Holders \cup {h}) = Cardinality(Holders) + 1
    BY <2>1, HoldersFinite, FS_AddElement
  <2> QED
    BY <2>1, <2>2, <1>0, <1>2 DEF TryEnter, InFlightCountsTickets
<1>3. ASSUME NEW h \in Handlers, Publish(h) \/ Abandon(h)
      PROVE InFlightCountsTickets'
  <2>1. h \in Holders /\ Holders' = Holders \ {h}
    BY <1>3, <1>0 DEF Publish, Abandon, DropTicket, Holders, Holding, TypeOK
  <2>2. Cardinality(Holders \ {h}) = Cardinality(Holders) - 1
    BY <2>1, HoldersFinite, FS_RemoveElement
  <2> QED
    BY <2>1, <2>2, <1>0, <1>3
       DEF Publish, Abandon, DropTicket, InFlightCountsTickets
<1>4. ASSUME NEW h \in Handlers, NEW k \in {"udp", "dns"}, Receive(h, k)
      PROVE InFlightCountsTickets'
  BY <1>0, <1>1, <1>4 DEF Receive, Holders, Holding, TypeOK
<1>5. ASSUME NEW h \in Handlers, Refused(h) \/ Check(h) \/ NotifyWaiters(h)
      PROVE InFlightCountsTickets'
  BY <1>0, <1>1, <1>5 DEF Refused, Check, NotifyWaiters, Holders, Holding, TypeOK
<1>6. CASE ControllerAction
  BY <1>1, <1>6
     DEF ControllerAction, Open, StayShut, Recover, OpenGate, Close, FenceExhausted,
         CloseGate, CloserStep, Register, CheckQuiescent, Awake, Holders, Holding
<1>7. CASE UNCHANGED vars
  BY <1>1, <1>7 DEF vars, Holders, Holding
<1> QED
  BY <1>2, <1>3, <1>4, <1>5, <1>6, <1>7 DEF Next, Leave, ControllerAction

(* The rest of the invariant is preserved by the deliveries' steps.         *)
LEMMA DeliveryStep ==
    ASSUME GateInv, NEW h \in Handlers,
           Leave(h) \/ \E k \in {"udp", "dns"} : Receive(h, k)
    PROVE  /\ ClosedIsQuiescent' /\ ClosingIsShut' /\ TicketEpochCurrent'
           /\ CapturedEpochIsCurrent' /\ NoStalePublication'
           /\ ReopenPanicsOnlyInOutage'
<1>0. /\ TypeOK /\ ClosedIsQuiescent /\ ClosingIsShut /\ TicketEpochCurrent
      /\ CapturedEpochIsCurrent /\ NoStalePublication /\ ReopenPanicsOnlyInOutage
  BY DEF GateInv
<1>1. ASSUME NEW k \in {"udp", "dns"}, Receive(h, k)
      PROVE  /\ ClosedIsQuiescent' /\ ClosingIsShut' /\ TicketEpochCurrent'
             /\ CapturedEpochIsCurrent' /\ NoStalePublication'
             /\ ReopenPanicsOnlyInOutage'
  BY <1>0, <1>1 DEF Receive, TypeOK, ClosedIsQuiescent, ClosingIsShut,
     TicketEpochCurrent, CapturedEpochIsCurrent, NoStalePublication,
     ReopenPanicsOnlyInOutage, Holding, NoEpoch
<1>2. CASE TryEnter(h)
  BY <1>0, <1>2 DEF TryEnter, TypeOK, ClosedIsQuiescent, ClosingIsShut,
     TicketEpochCurrent, CapturedEpochIsCurrent, NoStalePublication,
     ReopenPanicsOnlyInOutage, Holding, NoEpoch
<1>3. CASE Refused(h)
  BY <1>0, <1>3 DEF Refused, Forget, TypeOK, ClosedIsQuiescent, ClosingIsShut,
     TicketEpochCurrent, CapturedEpochIsCurrent, NoStalePublication,
     ReopenPanicsOnlyInOutage, Holding, NoEpoch
<1>4. CASE Check(h)
  BY <1>0, <1>4 DEF Check, EpochCheckPasses, EpochStillCurrent, TypeOK,
     ClosedIsQuiescent, ClosingIsShut, TicketEpochCurrent,
     CapturedEpochIsCurrent, NoStalePublication,
     ReopenPanicsOnlyInOutage, Holding, NoEpoch
<1>5. CASE Publish(h) \/ Abandon(h)
  <2>1. h \in Holders
    BY <1>5 DEF Publish, Abandon, Holders, Holding
  <2>2. in_flight # 0
    BY <2>1, HoldersFinite DEF GateInv, InFlightCountsTickets
  <2>3. DropTicket(h)
    BY <1>5 DEF Publish, Abandon
  <2> QED
    BY <2>2, <2>3, <1>0 DEF DropTicket, Forget, TypeOK, ClosedIsQuiescent,
       ClosingIsShut, TicketEpochCurrent, CapturedEpochIsCurrent,
       NoStalePublication,
     ReopenPanicsOnlyInOutage, Holding, NoEpoch
<1>6. CASE NotifyWaiters(h)
  BY <1>0, <1>6 DEF NotifyWaiters, TypeOK, ClosedIsQuiescent, ClosingIsShut,
     TicketEpochCurrent, CapturedEpochIsCurrent, NoStalePublication,
     ReopenPanicsOnlyInOutage, Holding, NoEpoch
<1> QED
  BY <1>1, <1>2, <1>3, <1>4, <1>5, <1>6 DEF Leave

(* ... and by the controller's.  Closing completes, and a shut gate         *)
(* reopens, only when nobody holds a ticket, which is where the epochs may  *)
(* move; opening an open gate changes nothing or ends the control loop.     *)
LEMMA ControllerStep ==
    ASSUME GateInv, ControllerAction
    PROVE  /\ ClosedIsQuiescent' /\ ClosingIsShut' /\ TicketEpochCurrent'
           /\ CapturedEpochIsCurrent' /\ NoStalePublication'
           /\ ReopenPanicsOnlyInOutage'
<1>0. /\ TypeOK /\ ClosedIsQuiescent /\ ClosingIsShut /\ TicketEpochCurrent
      /\ CapturedEpochIsCurrent /\ NoStalePublication /\ ReopenPanicsOnlyInOutage
  BY DEF GateInv
<1>1. in_flight = 0 => \A h \in Handlers : ~Holding(h)
  BY HoldersFinite DEF GateInv, InFlightCountsTickets, Holders
<1>2. CASE Open \/ StayShut \/ Recover
  BY <1>0, <1>1, <1>2 DEF Open, StayShut, Recover, OpenGate, TypeOK,
     ClosedIsQuiescent, ClosingIsShut, TicketEpochCurrent,
     CapturedEpochIsCurrent, NoStalePublication, ReopenPanicsOnlyInOutage, Holding
<1>3. CASE Close \/ FenceExhausted
  BY <1>0, <1>3 DEF Close, FenceExhausted, CloseGate, TypeOK,
     ClosedIsQuiescent, ClosingIsShut, TicketEpochCurrent,
     CapturedEpochIsCurrent, NoStalePublication, ReopenPanicsOnlyInOutage,
     Holding, NoEpoch
<1>4. CASE CheckQuiescent
  BY <1>0, <1>1, <1>4 DEF CheckQuiescent, TypeOK, ClosedIsQuiescent,
     ClosingIsShut, TicketEpochCurrent, CapturedEpochIsCurrent,
     NoStalePublication,
     ReopenPanicsOnlyInOutage, Holding
<1>5. CASE Register \/ Awake
  BY <1>0, <1>5 DEF Register, Awake, TypeOK, ClosedIsQuiescent, ClosingIsShut,
     TicketEpochCurrent, CapturedEpochIsCurrent, NoStalePublication,
     ReopenPanicsOnlyInOutage, Holding
<1> QED
  BY <1>2, <1>3, <1>4, <1>5 DEF ControllerAction, CloserStep

(* GateInv is an invariant of the gate.                                     *)
THEOREM GateInvariant == Spec => []GateInv
<1>1. GateInv /\ [Next]_vars => GateInv'
  <2> SUFFICES ASSUME GateInv, [Next]_vars PROVE GateInv'
    OBVIOUS
  <2>1. TypeOK' /\ InFlightCountsTickets'
    BY TypeStep, CountStep
  <2>2. CASE \E h \in Handlers :
               Leave(h) \/ \E k \in {"udp", "dns"} : Receive(h, k)
    BY <2>1, <2>2, DeliveryStep DEF GateInv
  <2>3. CASE ControllerAction
    BY <2>1, <2>3, ControllerStep DEF GateInv
  <2>4. CASE UNCHANGED vars
    BY <2>1, <2>4 DEF vars, GateInv, ClosedIsQuiescent, ClosingIsShut,
       TicketEpochCurrent, CapturedEpochIsCurrent, NoStalePublication,
       ReopenPanicsOnlyInOutage, Holding
  <2> QED
    BY <2>2, <2>3, <2>4 DEF Next, ControllerAction
<1> QED
  BY <1>1, InitGateInv, PTL DEF Spec

(* The state of the gate keeps its type.                                    *)
THEOREM GateTypeCorrect == Spec => []TypeOK
<1>1. GateInv => TypeOK
  BY DEF GateInv
<1> QED
  BY <1>1, GateInvariant, PTL

(* in_flight is the number of tickets alive: neither the underflow expect   *)
(* of AdmissionTicket::drop nor a count stuck above zero is possible.       *)
THEOREM CounterExact == Spec => []InFlightCountsTickets
<1>1. GateInv => InFlightCountsTickets
  BY DEF GateInv
<1> QED
  BY <1>1, GateInvariant, PTL

(* After close_and_wait nobody is inside until the gate is reopened, which  *)
(* is what the scan of cancel_all relies on.                                *)
THEOREM ClosedQuiescent == Spec => []ClosedIsQuiescent
<1>1. GateInv => ClosedIsQuiescent
  BY DEF GateInv
<1> QED
  BY <1>1, GateInvariant, PTL

(* The assertion of AdmissionGate::open can fail only for the retry of a    *)
(* token rotation that finds the gate open: no opening of a shut gate, by a *)
(* reload, a start or a recovery, ever meets a ticket.                      *)
THEOREM ReopenPanics == Spec => []ReopenPanicsOnlyInOutage
<1>1. GateInv => ReopenPanicsOnlyInOutage
  BY DEF GateInv
<1> QED
  BY <1>1, GateInvariant, PTL

(* The debug assertion of AdmissionTicket::drop holds.                      *)
THEOREM TicketEpochs == Spec => []TicketEpochCurrent
<1>1. GateInv => TicketEpochCurrent
  BY DEF GateInv
<1> QED
  BY <1>1, GateInvariant, PTL

(* A DNS original captured before a fence is never published after it.      *)
THEOREM StaleDnsNeverPublished == Spec => []NoStalePublication
<1>1. GateInv => NoStalePublication
  BY DEF GateInv
<1> QED
  BY <1>1, GateInvariant, PTL
=============================================================================
