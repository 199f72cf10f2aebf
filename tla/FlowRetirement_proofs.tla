------------------------ MODULE FlowRetirement_proofs ------------------------
(***************************************************************************)
(* The retirement protocol of the flow maps, for every finite set of       *)
(* tuples, every set of kernel invocations and every bound.                *)
(*                                                                         *)
(* The argument: an operation of the backend mutates a tuple only once no  *)
(* kernel invocation is in flight on it (BatchIsAlone: the grace barrier   *)
(* waited for those that could have missed the fence, and the fence keeps  *)
(* later ones out).  An owner therefore never disappears under an          *)
(* invocation that carries its incarnation (CarrierOwns, HolderClaim), and *)
(* what an operation read when it planned is still so when it writes       *)
(* (StepsAreCurrent).                                                      *)
(***************************************************************************)
EXTENDS FlowRetirement, FiniteSetTheorems, SequenceTheorems, TLAPS

-----------------------------------------------------------------------------
(* The inductive invariant.                                                *)

RetireKinds == {"pending", "endpoint", "expiredConn", "hint", "expiredRedirect", "expiredHandoff"}

Requests ==
    [kind : RetireKinds \cup Transitions \cup {"activate"}, key : Keys, token : 0..MaxToken,
     inc : 0..MaxInc, entry : ConnStates \cup Auxiliaries \cup {None}, cutoff : 0..MaxNow]

\* What is left of a plan: deletions, ending with the owner's or without it,
\* or the two deletions and the write of a commit.
DeletePlans ==
    {<<"handoff", "redirect", "conn">>, <<"handoff", "conn">>, <<"redirect", "conn">>, <<"conn">>}
AuxiliaryPlans == {<<"handoff", "redirect">>, <<"handoff">>, <<"redirect">>}
WritePlans ==
    {<<"handoff", "redirect", "write">>, <<"handoff", "write">>, <<"redirect", "write">>, <<"write">>}

BatchType ==
    /\ requests \in Seq(Requests)
    /\ due \in Requests \cup {None}
    /\ steps \in {<<>>} \cup DeletePlans \cup AuxiliaryPlans \cup WritePlans

\* Which invocation may be where.
ShapeOf(v) ==
    /\ v.pc = "idle" => v = Idle
    /\ v.pc # "idle" => v.key \in Keys
    /\ v.pc \in {"claim", "insert", "route"} => v.mode = "none"
    /\ v.pc = "lookup" => v.mode = "again"
    /\ v.pc \in {"redirect", "redirectInsert", "handoff", "handoffInsert"} =>
          v.mode \in {"stage", "cached"}
    /\ v.pc \in {"publish", "write"} => v.mode \in {"stage", "native"}
    /\ v.pc = "abort" => v.mode \in {"none", "stage", "native"}
    /\ v.pc \in {"replyTouch", "replyRenew"} => v.mode = "reply"
    /\ v.pc \in {"claim", "insert", "route", "publish", "write", "abort"} /\ v.mode # "stage" =>
          v.token = 0

InvocationShape == \A c \in Cpus : ShapeOf(cpu[c])

\* Between its claim and its publication or abort.
Holds(v) == v.pc \in {"route", "publish", "write", "abort"} \/ v.mode = "stage"

Holder(c) == Holds(cpu[c])

CarrierPcs ==
    {"route", "redirect", "redirectInsert", "handoff", "handoffInsert", "publish", "write", "abort"}

\* An invocation that carries an incarnation finds its owner in the map.
CarrierOwns ==
    \A c \in Cpus : cpu[c].pc \in CarrierPcs =>
        conn[cpu[c].key] # None /\ conn[cpu[c].key].inc = cpu[c].inc

HolderClaim ==
    /\ \A c \in Cpus : Holder(c) => Claimed(c)
    /\ \A c, d \in Cpus : Holder(c) /\ Holder(d) /\ cpu[c].key = cpu[d].key => c = d

ClaimHeld ==
    \A k \in Keys : conn[k] # None /\ conn[k].state = "Preparing" =>
        \E c \in Cpus : Holder(c) /\ cpu[c].key = k

\* No auxiliary without the owner of its incarnation.
AuxiliaryOwned ==
    \A k \in Keys :
        /\ redirect[k] # None => conn[k] # None /\ conn[k].inc = redirect[k].inc
        /\ handoff[k] # None => conn[k] # None /\ conn[k].inc = handoff[k].inc

Fenced == at \in {"acquire", "execute", "release"}

FenceInv ==
    /\ fence # {} => active
    /\ at # "idle" => ~retirementFailed
    /\ Fenced => active /\ held \subseteq fence /\ (unresolved \/ fence = held)
    /\ ~Fenced => held = {} /\ toFence = {}
    /\ ~Fenced /\ ~retirementFailed => ~active
    /\ at = "acquire" => ~unresolved

RequestKeys == {requests[i].key : i \in DOMAIN requests}

\* Every tuple of the batch is fenced before the barrier; after it, whoever is
\* still in flight on one of them is waited for, and nobody is once a plan runs.
BatchIsAlone ==
    /\ at = "acquire" => requests # <<>> /\ RequestKeys \subseteq held \cup toFence
    /\ at = "execute" => /\ requests # <<>> /\ RequestKeys \subseteq held
                         /\ \A c \in Cpus : cpu[c].pc # "idle" /\ cpu[c].key \in RequestKeys =>
                               cpu[c].grace
    /\ at \in {"idle", "quiesce", "quiesceGrace", "release"} => requests = <<>>
    /\ steps # <<>> => /\ at = "execute"
                       /\ \A c \in Cpus : cpu[c].pc # "idle" => cpu[c].key \notin RequestKeys

\* What a plan was made from is still so.
StepsAreCurrent ==
    LET r == Head(requests)
        k == r.key
    IN  /\ steps \in DeletePlans =>
              /\ handoff[k] # None => Head(steps) = "handoff"
              /\ redirect[k] # None => steps \notin {<<"handoff", "conn">>, <<"conn">>}
              /\ r.kind \in {"expiredConn", "hint"} => conn[k] # None /\ ConnExpired(conn[k], now)
        /\ steps \in AuxiliaryPlans => r.kind \in {"hint", "expiredRedirect", "expiredHandoff"}
        /\ steps \in WritePlans =>
              /\ conn[k] # None /\ conn[k].state = "Pending"
              /\ r.kind \in Transitions
              /\ image = [conn[k] EXCEPT !.state = r.kind]

\* The element that activate_udp_direct copies over does not move meanwhile.
ActivateIsCurrent ==
    at = "activate" =>
        LET k == Head(requests).key
        IN  /\ requests # <<>>
            /\ conn[k] # None /\ conn[k].state = "DirectArmed"
            /\ image = [conn[k] EXCEPT !.state = "None"]

ModeInv ==
    /\ at \in {"quiesce", "quiesceGrace"} => mode = "quiesce"
    /\ mode = "quiesce" => ~ready /\ incomplete
    /\ at = "idle" => mode = "none"
    /\ mode = "commit" => \A i \in DOMAIN requests : requests[i].kind \in Transitions
    /\ mode = "quiesce" => \A i \in DOMAIN requests : requests[i].kind = "pending"

TokenBound(k) == conn[k] # None /\ Staged(conn[k].state) /\ conn[k].token # 0

\* READY is clear: no new token-bound owner appears, and the ones there were
\* when the quiescence scanned are all among its requests.
QuiesceInv ==
    /\ at = "quiesceGrace" => \A c \in Cpus : cpu[c].mode = "stage" => cpu[c].grace
    /\ mode = "quiesce" /\ Fenced => \A c \in Cpus : cpu[c].mode # "stage"
    /\ mode = "quiesce" /\ Fenced /\ ~failure /\ ~refused =>
          \A k \in Keys : TokenBound(k) =>
              \E i \in DOMAIN requests :
                  /\ requests[i].key = k
                  /\ requests[i].token = conn[k].token /\ requests[i].inc = conn[k].inc
    /\ ~ready /\ ~incomplete =>
          (\A c \in Cpus : cpu[c].mode # "stage") /\ (\A k \in Keys : ~TokenBound(k))

\* What was expired stays expired: the clock does not go back.
Expired(r) ==
    /\ r.kind = "expiredConn" => r.entry \in ConnStates /\ ConnExpired(r.entry, now)
    /\ r.kind = "hint" => r.cutoff <= now

ExpiryInv ==
    /\ due # None => Expired(due)
    /\ \A i \in DOMAIN requests : Expired(requests[i])

FlowInv ==
    /\ TypeOK /\ BatchType /\ InvocationShape
    /\ CarrierOwns /\ HolderClaim /\ ClaimHeld /\ AuxiliaryOwned
    /\ FenceInv /\ BatchIsAlone /\ StepsAreCurrent /\ ActivateIsCurrent
    /\ ModeInv /\ QuiesceInv /\ ExpiryInv

-----------------------------------------------------------------------------
(* What a step of a kernel invocation may do.  Invocation c, which becomes  *)
(* p, works on the tuple k: it leaves the owner alone or moves its clock,   *)
(* claims the tuple, settles its own claim, or writes an auxiliary of the   *)
(* incarnation it carries.                                                  *)

TouchesOwner(k) ==
    /\ UNCHANGED <<redirect, handoff>>
    /\ incs' \in {incs, incs + 1}
    /\ \/ UNCHANGED conn
       \/ /\ conn[k] # None /\ conn[k].state \notin {"Preparing", "DirectArmed"}
          /\ \E t \in 0..MaxNow :
                t >= conn[k].seen /\ conn' = [conn EXCEPT ![k] = [conn[k] EXCEPT !.seen = t]]

ClaimsTuple(k, p) ==
    /\ UNCHANGED <<redirect, handoff>>
    /\ conn[k] = None /\ incs' = incs + 1
    /\ conn' = [conn EXCEPT ![k] = ConnState("Preparing", 0, incs + 1, now, FALSE)]
    /\ p.pc = "route" /\ p.inc = incs + 1

SettlesClaim(c, k, p) ==
    /\ UNCHANGED <<redirect, handoff, incs>>
    /\ Holder(c) /\ ~Holds(p)
    /\ \E e \in ConnStates :
          /\ e.inc = conn[k].inc /\ e.state \in {"Pending", "None", "Aborted"}
          /\ e.token # 0 => cpu[c].mode = "stage"
          /\ conn' = [conn EXCEPT ![k] = e]

WritesTrace(c, k) ==
    /\ UNCHANGED <<conn, incs>>
    /\ cpu[c].pc \in CarrierPcs
    /\ \/ redirect' = [redirect EXCEPT ![k] = Own(c)] /\ UNCHANGED handoff
       \/ handoff' = [handoff EXCEPT ![k] = Own(c)] /\ UNCHANGED redirect

KernelMove(c, k, p) ==
    /\ KernelFrame /\ incs' \in 0..MaxInc /\ tokens' \in 0..MaxToken
    /\ p \in Invocation /\ ShapeOf(p) /\ cpu' = [cpu EXCEPT ![c] = p]
    /\ p # Idle => p.key = k /\ p.grace = cpu[c].grace
    /\ cpu[c].pc # "idle" => cpu[c].key = k
    /\ cpu[c].pc = "idle" /\ TupleRetiring(k) => p = Idle /\ UNCHANGED maps
    /\ \/ TouchesOwner(k) /\ (Holds(p) <=> Holder(c))
       \/ ClaimsTuple(k, p) /\ ~Holder(c)
       \/ SettlesClaim(c, k, p)
       \/ WritesTrace(c, k) /\ (Holds(p) <=> Holder(c))
    /\ Holds(p) /\ Holder(c) => p.inc = cpu[c].inc
    /\ p.pc \in CarrierPcs => conn'[k] # None /\ conn'[k].inc = p.inc
    /\ p.mode = "stage" => cpu[c].mode = "stage" \/ ready

(* The invariant's parts under a kernel move.                               *)
LEMMA IdleInvocation ==
    Idle \in Invocation /\ ShapeOf(Idle) /\ ~Holds(Idle) /\ Idle.pc \notin CarrierPcs
    /\ Idle.mode = "none" /\ Idle.pc = "idle" /\ Idle.grace = FALSE
BY BoundsAreNaturals DEF Idle, Invocation, ShapeOf, Holds, CarrierPcs, KernelPcs

(* What a move does to the owner of its tuple and to the others.             *)
LEMMA MoveConn ==
    ASSUME FlowInv, NEW c \in Cpus, NEW k \in Keys, NEW p, KernelMove(c, k, p)
    PROVE  /\ conn' \in [Keys -> ConnStates \cup {None}]
           /\ \A j \in Keys : j # k => conn'[j] = conn[j]
           /\ conn[k] # None => conn'[k] # None /\ conn'[k].inc = conn[k].inc
           /\ conn'[k] # conn[k] =>
                 \/ conn[k] = None /\ ClaimsTuple(k, p)
                 \/ conn[k] # None /\ conn[k].state \notin {"Preparing", "DirectArmed"}
                 \/ Holder(c) /\ SettlesClaim(c, k, p)
           /\ conn[k] # None /\ conn[k].state # "Preparing" => conn'[k].seen >= conn[k].seen
<1>0. conn \in [Keys -> ConnStates \cup {None}] /\ incs \in 0..MaxInc /\ now \in 0..MaxNow
  BY DEF FlowInv, TypeOK
<1>1. Holder(c) => cpu[c].key = k /\ conn[k] # None /\ conn[k].state = "Preparing"
  <2>1. Holder(c) => cpu[c].pc # "idle"
    BY IdleInvocation DEF FlowInv, InvocationShape, ShapeOf, Holder, Holds
  <2>2. cpu[c].pc # "idle" => cpu[c].key = k
    BY DEF KernelMove
  <2>3. Holder(c) => Claimed(c)
    BY DEF FlowInv, HolderClaim
  <2> QED
    BY <2>1, <2>2, <2>3 DEF Claimed
<1>2. CASE TouchesOwner(k)
  <2>1. CASE UNCHANGED conn
    BY <2>1, <1>0 DEF ConnStates
  <2>2. CASE ~UNCHANGED conn
    <3>1. PICK t \in 0..MaxNow :
            t >= conn[k].seen /\ conn' = [conn EXCEPT ![k] = [conn[k] EXCEPT !.seen = t]]
      BY <1>2, <2>2 DEF TouchesOwner
    <3>2. conn[k] # None /\ conn[k].state \notin {"Preparing", "DirectArmed"}
      BY <1>2, <2>2 DEF TouchesOwner
    <3>3. conn[k] \in ConnStates
      BY <1>0, <3>2
    <3>4. [conn[k] EXCEPT !.seen = t] \in ConnStates
      BY <3>3 DEF ConnStates
    <3>5. conn'[k] = [conn[k] EXCEPT !.seen = t] /\ conn'[k] # None
      BY <1>0, <3>1, <3>4, NoneIsNoEntry
    <3>6. conn'[k].inc = conn[k].inc /\ conn'[k].seen = t
      BY <3>3, <3>5 DEF ConnStates
    <3> QED
      BY <1>0, <3>1, <3>2, <3>4, <3>5, <3>6
  <2> QED
    BY <2>1, <2>2
<1>3. CASE ClaimsTuple(k, p)
  <2>1. ConnState("Preparing", 0, incs + 1, now, FALSE) \in ConnStates
    BY <1>0, <1>3, BoundsAreNaturals DEF ClaimsTuple, KernelMove, ConnState, ConnStates, UdpDecisionState
  <2> QED
    BY <1>0, <1>3, <2>1 DEF ClaimsTuple
<1>4. CASE SettlesClaim(c, k, p)
  <2>1. PICK e \in ConnStates : e.inc = conn[k].inc /\ conn' = [conn EXCEPT ![k] = e]
    BY <1>4 DEF SettlesClaim
  <2>2. Holder(c)
    BY <1>4 DEF SettlesClaim
  <2> QED
    BY <1>0, <1>1, <1>4, <2>1, <2>2, NoneIsNoEntry
<1>5. CASE WritesTrace(c, k)
  BY <1>0, <1>5 DEF WritesTrace, ConnStates
<1> QED
  BY <1>2, <1>3, <1>4, <1>5 DEF KernelMove

(* What a move does to the invocations.                                      *)
LEMMA MoveCpu ==
    ASSUME FlowInv, NEW c \in Cpus, NEW k \in Keys, NEW p, KernelMove(c, k, p)
    PROVE  /\ cpu' \in [Cpus -> Invocation]
           /\ cpu'[c] = p
           /\ \A d \in Cpus : d # c => cpu'[d] = cpu[d]
           /\ cpu[c].pc = "idle" => cpu[c] = Idle
           /\ Holder(c) => cpu[c].pc # "idle" /\ cpu[c].key = k /\ Claimed(c)
           /\ Holds(p) => p # Idle /\ p.key = k
           /\ p.pc # "idle" => p # Idle /\ p.key = k
           /\ \A d \in Cpus : cpu[d].pc # "idle" => cpu[d].key \in Keys
           /\ \A d \in Cpus : Holder(d) => cpu[d].pc # "idle"
<1>1. cpu \in [Cpus -> Invocation] /\ p \in Invocation /\ cpu' = [cpu EXCEPT ![c] = p]
  BY DEF FlowInv, TypeOK, KernelMove
<1>2. \A d \in Cpus : Holder(d) => cpu[d].pc # "idle"
  BY IdleInvocation DEF FlowInv, InvocationShape, ShapeOf, Holder, Holds
<1>3. cpu[c].pc = "idle" => cpu[c] = Idle
  BY DEF FlowInv, InvocationShape, ShapeOf
<1>4. \A d \in Cpus : cpu[d].pc # "idle" => cpu[d].key \in Keys
  BY DEF FlowInv, InvocationShape, ShapeOf
<1>5. Holder(c) => cpu[c].key = k /\ Claimed(c)
  BY <1>2 DEF KernelMove, FlowInv, HolderClaim
<1>6. p # Idle => p.key = k
  BY DEF KernelMove
<1> QED
  BY <1>1, <1>2, <1>3, <1>4, <1>5, <1>6, IdleInvocation

LEMMA MoveTyped ==
    ASSUME FlowInv, NEW c \in Cpus, NEW k \in Keys, NEW p, KernelMove(c, k, p)
    PROVE  TypeOK' /\ BatchType' /\ InvocationShape'
<1>1. TypeOK /\ BatchType /\ InvocationShape /\ KernelFrame
  BY DEF FlowInv, KernelMove
<1>2. Own(c) \in Auxiliaries \/ cpu[c].pc \notin CarrierPcs
  <2>1. SUFFICES ASSUME cpu[c].pc \in CarrierPcs PROVE Own(c) \in Auxiliaries
    OBVIOUS
  <2>2. conn[cpu[c].key] # None /\ conn[cpu[c].key].inc = cpu[c].inc /\ cpu[c].key \in Keys
    BY <2>1, MoveCpu DEF FlowInv, CarrierOwns, CarrierPcs
  <2>3. conn[cpu[c].key] \in ConnStates
    BY <2>2, <1>1 DEF TypeOK
  <2>4. cpu[c].inc \in 1..MaxInc
    BY <2>2, <2>3 DEF ConnStates
  <2>5. cpu[c].token \in 0..MaxToken
    BY <1>1 DEF TypeOK, Invocation
  <2> QED
    BY <2>4, <2>5 DEF Own, Auxiliary, Auxiliaries
<1>3. /\ redirect' \in [Keys -> Auxiliaries \cup {None}]
      /\ handoff' \in [Keys -> Auxiliaries \cup {None}]
  <2>1. CASE WritesTrace(c, k)
    BY <1>1, <1>2, <2>1 DEF WritesTrace, TypeOK
  <2>2. CASE ~WritesTrace(c, k)
    <3>1. UNCHANGED <<redirect, handoff>>
      BY <2>2 DEF KernelMove, TouchesOwner, ClaimsTuple, SettlesClaim
    <3> QED
      BY <3>1, <1>1 DEF TypeOK
  <2> QED
    BY <2>1, <2>2
<1>4. TypeOK'
  <2>1. incs' \in 0..MaxInc /\ tokens' \in 0..MaxToken
    BY DEF KernelMove
  <2>2. conn' \in [Keys -> ConnStates \cup {None}] /\ cpu' \in [Cpus -> Invocation]
    BY MoveConn, MoveCpu
  <2> QED
    BY <1>1, <1>3, <2>1, <2>2 DEF TypeOK, KernelFrame, fences, flags, batch
<1>5. BatchType'
  BY <1>1 DEF BatchType, KernelFrame, batch
<1>6. InvocationShape'
  BY <1>1, MoveCpu DEF InvocationShape, KernelMove
<1> QED
  BY <1>4, <1>5, <1>6

LEMMA MoveOwners ==
    ASSUME FlowInv, NEW c \in Cpus, NEW k \in Keys, NEW p, KernelMove(c, k, p)
    PROVE  CarrierOwns' /\ HolderClaim' /\ ClaimHeld'
<1>1. CarrierOwns'
  <2>1. SUFFICES ASSUME NEW d \in Cpus, cpu'[d].pc \in CarrierPcs
                 PROVE  conn'[cpu'[d].key] # None /\ conn'[cpu'[d].key].inc = cpu'[d].inc
    BY DEF CarrierOwns
  <2>2. CASE d = c
    BY ZenonT(40), <2>1, <2>2, MoveCpu, IdleInvocation DEF KernelMove
  <2>3. CASE d # c
    <3>1. cpu'[d] = cpu[d] /\ cpu[d].pc # "idle"
      BY <2>1, <2>3, MoveCpu DEF CarrierPcs
    <3>2. cpu[d].key \in Keys
      BY <3>1, MoveCpu
    <3>3. conn[cpu[d].key] # None /\ conn[cpu[d].key].inc = cpu[d].inc
      BY <2>1, <3>1 DEF FlowInv, CarrierOwns
    <3> QED
      BY <3>1, <3>2, <3>3, MoveConn
  <2> QED
    BY <2>2, <2>3
<1>2. (TouchesOwner(k) \/ WritesTrace(c, k)) /\ conn[k] # None /\ conn[k].state = "Preparing" => conn'[k] = conn[k]
  BY DEF TouchesOwner, WritesTrace
<1>3. Holder(c) => conn[k] # None /\ conn[k].state = "Preparing"
  BY MoveCpu DEF Claimed
<1>4. ASSUME NEW d \in Cpus, d # c, Holder(d) PROVE Claimed(d)' /\ (cpu[d].key = k => ~Holds(p))
  <2>1. cpu'[d] = cpu[d] /\ cpu[d].key \in Keys /\ Claimed(d)
    BY <1>4, MoveCpu DEF FlowInv, HolderClaim
  <2>2. CASE cpu[d].key # k
    BY <2>1, <2>2, MoveConn DEF Claimed
  <2>3. CASE cpu[d].key = k
    <3>1. ~Holder(c)
      BY <2>3, <1>4, MoveCpu DEF FlowInv, HolderClaim
    <3>2. conn[k] # None /\ conn[k].state = "Preparing"
      BY <2>1, <2>3 DEF Claimed
    <3>3. ~ClaimsTuple(k, p) /\ ~SettlesClaim(c, k, p)
      BY <3>1, <3>2 DEF ClaimsTuple, SettlesClaim
    <3>4. TouchesOwner(k) \/ WritesTrace(c, k)
      BY <3>3 DEF KernelMove
    <3>5. ~Holds(p)
      BY <3>1, <3>3 DEF KernelMove
    <3> QED
      BY <2>1, <2>3, <1>2, <3>2, <3>4, <3>5 DEF Claimed
  <2> QED
    BY <2>2, <2>3
<1>5. Holds(p) => Claimed(c)'
  <2>1. SUFFICES ASSUME Holds(p) PROVE Claimed(c)'
    OBVIOUS
  <2>2. cpu'[c] = p /\ p.key = k
    BY <2>1, MoveCpu
  <2>3. CASE ClaimsTuple(k, p)
    <3>1. conn'[k] = ConnState("Preparing", 0, incs + 1, now, FALSE) /\ p.inc = incs + 1
      BY <2>3 DEF ClaimsTuple, FlowInv, TypeOK
    <3>2. conn'[k] # None
      BY <2>3, MoveConn DEF ClaimsTuple, KernelMove, CarrierPcs
    <3> QED
      BY <2>2, <3>1, <3>2 DEF Claimed, ConnState
  <2>4. CASE TouchesOwner(k) \/ WritesTrace(c, k)
    <3>1. CASE Holder(c)
      <4>1. p.inc = cpu[c].inc
        BY <2>1, <3>1 DEF KernelMove
      <4>2. conn'[k] = conn[k] /\ Claimed(c) /\ cpu[c].key = k
        BY <2>4, <3>1, <1>2, <1>3, MoveCpu
      <4> QED
        BY <2>2, <4>1, <4>2 DEF Claimed
    <3>2. CASE ~Holder(c)
      BY <2>1, <2>3, <3>2 DEF KernelMove, SettlesClaim
    <3> QED
      BY <3>1, <3>2
  <2> QED
    BY <2>1, <2>3, <2>4 DEF KernelMove, SettlesClaim
<1>6. HolderClaim'
  <2>1. ASSUME NEW d \in Cpus, Holder(d)' PROVE Claimed(d)' /\ (d # c => Holder(d))
    BY <2>1, <1>4, <1>5, MoveCpu DEF Holder
  <2>2. ASSUME NEW d \in Cpus, NEW b \in Cpus, Holder(d)', Holder(b)', cpu'[d].key = cpu'[b].key
        PROVE  d = b
    <3>1. CASE d # c /\ b # c
      BY <2>1, <2>2, <3>1, MoveCpu DEF FlowInv, HolderClaim
    <3>2. CASE d = c /\ b # c
      BY <2>1, <2>2, <3>2, <1>4, MoveCpu DEF Holder
    <3>3. CASE d # c /\ b = c
      BY <2>1, <2>2, <3>3, <1>4, MoveCpu DEF Holder
    <3> QED
      BY <3>1, <3>2, <3>3
  <2> QED
    BY <2>1, <2>2 DEF HolderClaim
<1>7. ClaimHeld'
  <2>1. SUFFICES ASSUME NEW j \in Keys, conn'[j] # None, conn'[j].state = "Preparing"
                 PROVE  \E d \in Cpus : Holder(d)' /\ cpu'[d].key = j
    BY DEF ClaimHeld
  <2>2. CASE j # k
    <3>1. PICK d \in Cpus : Holder(d) /\ cpu[d].key = j
      BY <2>1, <2>2, MoveConn DEF FlowInv, ClaimHeld
    <3>2. d # c
      BY <2>2, <3>1, MoveCpu
    <3> QED
      BY <3>1, <3>2, MoveCpu DEF Holder
  <2>3. CASE j = k
    <3>1. CASE ClaimsTuple(k, p)
      BY <2>3, <3>1, MoveCpu DEF ClaimsTuple, Holder, Holds
    <3>2. CASE SettlesClaim(c, k, p)
      BY <2>1, <2>3, <3>2 DEF SettlesClaim, FlowInv, TypeOK
    <3>3. CASE (TouchesOwner(k) \/ WritesTrace(c, k)) /\ (Holds(p) <=> Holder(c))
      <4>1. conn[k] # None /\ conn[k].state = "Preparing"
        <5>1. CASE UNCHANGED conn
          BY <5>1, <2>1, <2>3
        <5>2. CASE ~UNCHANGED conn
          <6>1. PICK t \in 0..MaxNow : conn' = [conn EXCEPT ![k] = [conn[k] EXCEPT !.seen = t]]
            BY <5>2, <3>3 DEF TouchesOwner, WritesTrace
          <6>2. conn[k] # None /\ conn[k] \in ConnStates
            BY <5>2, <3>3 DEF TouchesOwner, WritesTrace, FlowInv, TypeOK
          <6>3. conn'[k].state = conn[k].state
            BY <6>1, <6>2 DEF ConnStates, FlowInv, TypeOK
          <6> QED
            BY <6>2, <6>3, <2>1, <2>3
        <5> QED
          BY <5>1, <5>2
      <4>2. PICK d \in Cpus : Holder(d) /\ cpu[d].key = k
        BY <4>1 DEF FlowInv, ClaimHeld
      <4> QED
        BY <2>3, <3>3, <4>2, MoveCpu DEF Holder
    <3> QED
      BY <3>1, <3>2, <3>3 DEF KernelMove
  <2> QED
    BY <2>2, <2>3
<1> QED
  BY <1>1, <1>6, <1>7

LEMMA MoveAuxiliaries ==
    ASSUME FlowInv, NEW c \in Cpus, NEW k \in Keys, NEW p, KernelMove(c, k, p)
    PROVE  /\ \A j \in Keys : j # k => redirect'[j] = redirect[j] /\ handoff'[j] = handoff[j]
           /\ AuxiliaryOwned'
<1>0. /\ redirect \in [Keys -> Auxiliaries \cup {None}]
      /\ handoff \in [Keys -> Auxiliaries \cup {None}]
  BY DEF FlowInv, TypeOK
<1>1. AuxiliaryOwned
  BY DEF FlowInv
<1>2. CASE WritesTrace(c, k)
  <2>1. UNCHANGED conn
    BY <1>2 DEF WritesTrace
  <2>2. conn[k] # None /\ conn[k].inc = cpu[c].inc
    BY <1>2 DEF WritesTrace, FlowInv, CarrierOwns, KernelMove, CarrierPcs
  <2>3. Own(c).inc = cpu[c].inc
    BY DEF Own, Auxiliary
  <2>4. \A j \in Keys : redirect'[j] \in {redirect[j], Own(c)} /\ handoff'[j] \in {handoff[j], Own(c)}
    BY <1>0, <1>2 DEF WritesTrace
  <2>5. \A j \in Keys : j # k => redirect'[j] = redirect[j] /\ handoff'[j] = handoff[j]
    BY <1>0, <1>2 DEF WritesTrace
  <2> QED
    BY <1>1, <2>1, <2>2, <2>3, <2>4, <2>5 DEF AuxiliaryOwned
<1>3. CASE ~WritesTrace(c, k)
  <2>1. UNCHANGED <<redirect, handoff>>
    BY <1>3 DEF KernelMove, TouchesOwner, ClaimsTuple, SettlesClaim
  <2> QED
    BY <1>1, <2>1, MoveConn DEF AuxiliaryOwned
<1> QED
  BY <1>2, <1>3

(* The tuples a batch works on are out of the kernel's reach.                *)
LEMMA FencedTuples ==
    ASSUME FlowInv, at = "execute"
    PROVE  /\ requests # <<>> /\ Head(requests) \in Requests /\ Head(requests).key \in RequestKeys
           /\ RequestKeys \subseteq Keys
           /\ \A k \in RequestKeys : TupleRetiring(k)
<1>1. requests \in Seq(Requests) /\ requests # <<>> /\ RequestKeys \subseteq held
  BY DEF FlowInv, BatchType, BatchIsAlone
<1>2. held \subseteq fence /\ active
  BY DEF FlowInv, FenceInv, Fenced
<1>3. 1 \in DOMAIN requests /\ Head(requests) = requests[1]
  BY <1>1
<1>4. \A i \in DOMAIN requests : requests[i] \in Requests /\ requests[i].key \in Keys
  <2>1. \A i \in DOMAIN requests : requests[i] \in Requests
    BY <1>1
  <2>2. \A r \in Requests : r.key \in Keys
    BY DEF Requests
  <2> QED
    BY <2>1, <2>2
<1>5. RequestKeys \subseteq Keys /\ requests[1].key \in RequestKeys
  BY <1>3, <1>4 DEF RequestKeys
<1> QED
  BY <1>1, <1>2, <1>3, <1>4, <1>5 DEF TupleRetiring

LEMMA MoveBatch ==
    ASSUME FlowInv, NEW c \in Cpus, NEW k \in Keys, NEW p, KernelMove(c, k, p)
    PROVE  /\ FenceInv' /\ ModeInv' /\ ExpiryInv'
           /\ BatchIsAlone' /\ StepsAreCurrent' /\ ActivateIsCurrent'
<1>0. KernelFrame
  BY DEF KernelMove
<1>1. FenceInv' /\ ModeInv'
  BY <1>0 DEF FlowInv, FenceInv, Fenced, ModeInv, KernelFrame, fences, flags, batch
<1>2. ExpiryInv'
  BY <1>0 DEF FlowInv, ExpiryInv, Expired, KernelFrame, batch
<1>3. at = "execute" /\ k \in RequestKeys /\ p.pc # "idle" => cpu[c].pc # "idle" /\ cpu[c].key = k /\ p.grace = cpu[c].grace
  BY FencedTuples, MoveCpu, IdleInvocation DEF KernelMove
<1>4. BatchIsAlone'
  <2>1. BatchIsAlone /\ RequestKeys' = RequestKeys
    BY <1>0 DEF FlowInv, KernelFrame, batch, RequestKeys
  <2>2. at' = at /\ requests' = requests /\ steps' = steps /\ held' = held /\ toFence' = toFence
    BY <1>0 DEF KernelFrame, batch
  <2>3. ASSUME NEW d \in Cpus, cpu'[d].pc # "idle", cpu'[d].key \in RequestKeys, at = "execute"
        PROVE  cpu'[d].grace /\ steps = <<>>
    <3>1. CASE d # c
      BY <2>1, <2>3, <3>1, MoveCpu DEF BatchIsAlone
    <3>2. CASE d = c
      <4>1. cpu'[c] = p /\ p.key = k
        BY <2>3, <3>2, MoveCpu
      <4>2. cpu[c].pc # "idle" /\ cpu[c].key = k /\ p.grace = cpu[c].grace
        BY <2>3, <3>2, <4>1, <1>3
      <4> QED
        BY <2>1, <2>3, <3>2, <4>1, <4>2 DEF BatchIsAlone
    <3> QED
      BY <3>1, <3>2
  <2> QED
    BY <2>1, <2>2, <2>3 DEF BatchIsAlone
<1>5. StepsAreCurrent'
  <2>1. CASE steps = <<>>
    BY <1>0, <2>1 DEF StepsAreCurrent, DeletePlans, AuxiliaryPlans, WritePlans, KernelFrame, batch
  <2>2. CASE steps # <<>>
    <3>1. at = "execute" /\ (cpu[c].pc # "idle" => k \notin RequestKeys)
      BY <2>2 DEF FlowInv, BatchIsAlone, KernelMove
    <3> DEFINE j == Head(requests).key
    <3>2. j \in RequestKeys /\ j \in Keys
      BY <3>1, FencedTuples
    <3>3. conn'[j] = conn[j] /\ redirect'[j] = redirect[j] /\ handoff'[j] = handoff[j]
      <4>1. CASE j = k
        BY <3>1, <3>2, <4>1, FencedTuples DEF KernelMove, maps
      <4>2. CASE j # k
        BY <3>2, <4>2, MoveConn, MoveAuxiliaries
      <4> QED
        BY <4>1, <4>2
    <3>4. requests' = requests /\ steps' = steps /\ image' = image /\ now' = now
      BY <1>0 DEF KernelFrame, batch
    <3>5. StepsAreCurrent
      BY DEF FlowInv
    <3> QED
      BY <3>3, <3>4, <3>5 DEF StepsAreCurrent, ConnExpired
  <2> QED
    BY <2>1, <2>2
<1>6. ActivateIsCurrent'
  <2>1. SUFFICES ASSUME at = "activate" PROVE ActivateIsCurrent'
    BY <1>0 DEF ActivateIsCurrent, KernelFrame, batch
  <2> DEFINE j == Head(requests).key
  <2>2. ActivateIsCurrent /\ requests \in Seq(Requests)
    BY DEF FlowInv, BatchType
  <2>3. requests # <<>> /\ Head(requests) \in Requests
    BY <2>1, <2>2 DEF ActivateIsCurrent
  <2>4. j \in Keys /\ conn[j] # None /\ conn[j].state = "DirectArmed"
    BY <2>1, <2>2, <2>3 DEF ActivateIsCurrent, Requests
  <2>5. conn'[j] = conn[j]
    <3>1. j = k => ~Holder(c)
      BY <2>4, MoveCpu DEF Claimed
    <3> QED
      BY <2>4, <3>1, MoveConn
  <2> QED
    BY <1>0, <2>1, <2>2, <2>5 DEF ActivateIsCurrent, KernelFrame, batch
<1> QED
  BY <1>1, <1>2, <1>4, <1>5, <1>6

(* READY clear keeps every move from staging.                                *)
LEMMA MoveQuiesce ==
    ASSUME FlowInv, NEW c \in Cpus, NEW k \in Keys, NEW p, KernelMove(c, k, p)
    PROVE  QuiesceInv'
<1>0. QuiesceInv /\ KernelFrame
  BY DEF FlowInv, KernelMove
<1>1. ASSUME NEW j \in Keys, TokenBound(j)', cpu[c].mode # "stage"
      PROVE  TokenBound(j) /\ conn'[j].token = conn[j].token /\ conn'[j].inc = conn[j].inc
  <2>1. CASE UNCHANGED conn \/ j # k
    BY <1>1, <2>1, MoveConn DEF TokenBound
  <2>2. CASE ~UNCHANGED conn /\ j = k
    <3>1. CASE TouchesOwner(k)
      <4>1. PICK t \in 0..MaxNow : conn' = [conn EXCEPT ![k] = [conn[k] EXCEPT !.seen = t]]
        BY <3>1, <2>2 DEF TouchesOwner
      <4>2. conn[k] # None /\ conn[k] \in ConnStates
        BY <3>1, <2>2 DEF TouchesOwner, FlowInv, TypeOK
      <4>3. conn'[k].state = conn[k].state /\ conn'[k].token = conn[k].token /\ conn'[k].inc = conn[k].inc
        BY <4>1, <4>2 DEF ConnStates, FlowInv, TypeOK
      <4> QED
        BY <1>1, <2>2, <4>2, <4>3 DEF TokenBound
    <3>2. CASE ClaimsTuple(k, p)
      <4>1. conn'[k].token = 0
        BY <3>2 DEF ClaimsTuple, ConnState, FlowInv, TypeOK
      <4> QED
        BY <4>1, <1>1, <2>2 DEF TokenBound
    <3>3. CASE SettlesClaim(c, k, p)
      <4>1. conn'[k].token = 0
        BY <3>3, <1>1 DEF SettlesClaim, FlowInv, TypeOK
      <4> QED
        BY <4>1, <1>1, <2>2 DEF TokenBound
    <3>4. CASE WritesTrace(c, k)
      BY <3>4, <2>2 DEF WritesTrace
    <3> QED
      BY <3>1, <3>2, <3>3, <3>4 DEF KernelMove
  <2> QED
    BY <2>1, <2>2
<1>2. ASSUME NEW d \in Cpus, cpu'[d].mode = "stage", ~ready
      PROVE  cpu[d].mode = "stage" /\ cpu'[d].grace = cpu[d].grace
  <2>1. CASE d # c
    BY <1>2, <2>1, MoveCpu
  <2>2. CASE d = c
    BY <1>2, <2>2, MoveCpu, IdleInvocation DEF KernelMove
  <2> QED
    BY <2>1, <2>2
<1>3. /\ at' = at /\ mode' = mode /\ requests' = requests /\ failure' = failure /\ refused' = refused
      /\ ready' = ready /\ incomplete' = incomplete
  BY <1>0 DEF KernelFrame, batch, flags
<1>4. (Fenced' <=> Fenced) /\ (at = "quiesceGrace" => ~ready) /\ (mode = "quiesce" => ~ready)
  BY <1>3 DEF Fenced, FlowInv, ModeInv
<1>5. at' = "quiesceGrace" => \A d \in Cpus : cpu'[d].mode = "stage" => cpu'[d].grace
  BY <1>0, <1>2, <1>3, <1>4 DEF QuiesceInv
<1>6. mode' = "quiesce" /\ Fenced' => \A d \in Cpus : cpu'[d].mode # "stage"
  BY <1>0, <1>2, <1>3, <1>4 DEF QuiesceInv
<1>7. ASSUME mode' = "quiesce", Fenced', ~failure', ~refused', NEW j \in Keys, TokenBound(j)'
      PROVE  \E i \in DOMAIN requests' :
                  /\ requests'[i].key = j
                  /\ requests'[i].token = conn'[j].token /\ requests'[i].inc = conn'[j].inc
  <2>1. cpu[c].mode # "stage"
    BY <1>0, <1>3, <1>4, <1>7 DEF QuiesceInv
  <2>2. TokenBound(j) /\ conn'[j].token = conn[j].token /\ conn'[j].inc = conn[j].inc
    BY <1>1, <1>7, <2>1
  <2>3. \E i \in DOMAIN requests :
                  /\ requests[i].key = j
                  /\ requests[i].token = conn[j].token /\ requests[i].inc = conn[j].inc
    BY <1>0, <1>3, <1>4, <1>7, <2>2 DEF QuiesceInv
  <2> QED
    BY <1>3, <2>2, <2>3
<1>8. ~ready' /\ ~incomplete' =>
        (\A d \in Cpus : cpu'[d].mode # "stage") /\ (\A j \in Keys : ~TokenBound(j)')
  BY <1>0, <1>1, <1>2, <1>3 DEF QuiesceInv
<1> QED
  BY <1>5, <1>6, <1>7, <1>8 DEF QuiesceInv

(* A step of a kernel invocation preserves the invariant.                    *)
LEMMA MovePreserves ==
    ASSUME FlowInv, NEW c \in Cpus, NEW k \in Keys, NEW p, KernelMove(c, k, p)
    PROVE  FlowInv'
BY MoveTyped, MoveOwners, MoveAuxiliaries, MoveBatch, MoveQuiesce DEF FlowInv

-----------------------------------------------------------------------------
(* Every step of a kernel invocation is a move.                              *)

Moves(c) == \E k \in Keys : \E p : KernelMove(c, k, p)

(* Facts about an invocation in flight.                                      *)
LEMMA InFlight ==
    ASSUME FlowInv, NEW c \in Cpus, cpu[c].pc # "idle"
    PROVE  /\ cpu[c] \in Invocation /\ ShapeOf(cpu[c]) /\ cpu[c].key \in Keys
           /\ cpu[c].pc \in CarrierPcs =>
                conn[cpu[c].key] # None /\ conn[cpu[c].key].inc = cpu[c].inc
BY DEF FlowInv, TypeOK, InvocationShape, ShapeOf, CarrierOwns

LEMMA Stepping ==
    ASSUME NEW v \in Invocation, NEW x \in KernelPcs
    PROVE  LET w == [v EXCEPT !.pc = x]
           IN  /\ w \in Invocation /\ w.pc = x
               /\ w.key = v.key /\ w.inc = v.inc /\ w.token = v.token /\ w.mode = v.mode
               /\ w.grace = v.grace
BY DEF Invocation

(* A move that only reads the maps.                                          *)
LEMMA QuietMove ==
    ASSUME FlowInv, NEW c \in Cpus, NEW k \in Keys, NEW p \in Invocation,
           ShapeOf(p), cpu' = [cpu EXCEPT ![c] = p],
           UNCHANGED <<maps, incs>>, tokens' \in 0..MaxToken, KernelFrame,
           p # Idle => p.key = k /\ p.grace = cpu[c].grace,
           cpu[c].pc # "idle" => cpu[c].key = k,
           cpu[c].pc = "idle" /\ TupleRetiring(k) => p = Idle,
           Holds(p) <=> Holder(c),
           Holds(p) => p.inc = cpu[c].inc,
           p.pc \in CarrierPcs => conn[k] # None /\ conn[k].inc = p.inc,
           p.mode = "stage" => cpu[c].mode = "stage" \/ ready
    PROVE  KernelMove(c, k, p)
<1>1. TouchesOwner(k)
  BY DEF TouchesOwner, maps
<1>2. incs' \in 0..MaxInc
  BY DEF FlowInv, TypeOK
<1>3. conn' = conn
  BY DEF maps
<1> QED
  BY <1>1, <1>2, <1>3 DEF KernelMove

LEMMA TokensTyped ==
    ASSUME FlowInv PROVE tokens \in 0..MaxToken /\ incs \in 0..MaxInc /\ now \in 0..MaxNow
BY DEF FlowInv, TypeOK

(* An invocation in flight moves on to x, or leaves, without a write.        *)
LEMMA QuietStep ==
    ASSUME FlowInv, NEW c \in Cpus, cpu[c].pc # "idle", NEW x \in KernelPcs \ {"idle"},
           Go(c, x), ShapeOf([cpu[c] EXCEPT !.pc = x]),
           Holds([cpu[c] EXCEPT !.pc = x]) <=> Holder(c),
           x \in CarrierPcs => cpu[c].pc \in CarrierPcs,
           UNCHANGED <<maps, incs, tokens>>, KernelFrame
    PROVE  Moves(c)
<1> DEFINE p == [cpu[c] EXCEPT !.pc = x]
<1>1. p \in Invocation /\ p.pc = x /\ p.key = cpu[c].key /\ p.inc = cpu[c].inc
      /\ p.grace = cpu[c].grace /\ p.mode = cpu[c].mode
  BY InFlight, Stepping
<1>2. cpu' = [cpu EXCEPT ![c] = p]
  BY DEF Go
<1>3. KernelMove(c, cpu[c].key, p)
  <2>1. ShapeOf(p) /\ (Holds(p) <=> Holder(c))
    OBVIOUS
  <2> HIDE DEF p
  <2> QED
    BY <1>1, <1>2, <2>1, InFlight, QuietMove, TokensTyped
<1> QED
  BY <1>3, InFlight DEF Moves

LEMMA QuietLeave ==
    ASSUME FlowInv, NEW c \in Cpus, cpu[c].pc # "idle", Leave(c), ~Holder(c),
           UNCHANGED maps, incs' \in {incs, incs + 1}, incs' \in 0..MaxInc, UNCHANGED tokens, KernelFrame
    PROVE  Moves(c)
<1>1. TouchesOwner(cpu[c].key)
  BY DEF TouchesOwner, maps
<1>2. KernelMove(c, cpu[c].key, Idle)
  BY <1>1, IdleInvocation, TokensTyped DEF KernelMove, Leave
<1> QED
  BY <1>2, InFlight DEF Moves

(* A refused publication.                                                    *)
LEMMA GiveUpMoves ==
    ASSUME FlowInv, NEW c \in Cpus, GiveUp(c), UNCHANGED <<maps, incs, tokens>>, KernelFrame,
           cpu[c].pc \in {"redirect", "redirectInsert", "handoff", "handoffInsert"}
    PROVE  Moves(c)
<1>1. cpu[c] \in Invocation /\ ShapeOf(cpu[c])
  BY InFlight
<1>2. CASE cpu[c].mode = "stage"
  <2>1. Go(c, "abort")
    BY <1>2 DEF GiveUp
  <2>2. ShapeOf([cpu[c] EXCEPT !.pc = "abort"])
    BY <1>1, <1>2 DEF ShapeOf, Invocation
  <2>3. Holds([cpu[c] EXCEPT !.pc = "abort"]) /\ Holder(c)
    BY <1>1, <1>2 DEF Holder, Holds, Invocation
  <2> QED
    BY <2>1, <2>2, <2>3, QuietStep DEF KernelPcs, CarrierPcs
<1>3. CASE cpu[c].mode # "stage"
  <2>1. Leave(c) /\ ~Holder(c)
    BY <1>3 DEF GiveUp, Holder, Holds
  <2> QED
    BY <2>1, QuietLeave, TokensTyped
<1> QED
  BY <1>2, <1>3

LEMMA RefreshTouches ==
    ASSUME FlowInv, NEW k \in Keys, conn[k] # None, UNCHANGED <<redirect, handoff, incs>>,
           conn' = [conn EXCEPT ![k] = Refreshed(conn[k], now)]
    PROVE  /\ TouchesOwner(k)
           /\ conn'[k] # None /\ conn'[k].inc = conn[k].inc
<1>0. conn \in [Keys -> ConnStates \cup {None}] /\ conn[k] \in ConnStates /\ now \in 0..MaxNow
  BY DEF FlowInv, TypeOK
<1>1. CASE Refreshed(conn[k], now) = conn[k]
  BY <1>0, <1>1 DEF TouchesOwner
<1>2. CASE Refreshed(conn[k], now) # conn[k]
  <2>1. /\ conn[k].state \notin {"Preparing", "Pending", "DirectArmed"} /\ now > conn[k].seen
        /\ Refreshed(conn[k], now) = [conn[k] EXCEPT !.seen = now]
    BY <1>2 DEF Refreshed
  <2>2. now >= conn[k].seen
    BY <1>0, <2>1 DEF ConnStates
  <2>3. TouchesOwner(k)
    BY <1>0, <2>1, <2>2 DEF TouchesOwner
  <2>4. [conn[k] EXCEPT !.seen = now] \in ConnStates
    BY <1>0 DEF ConnStates
  <2>5. conn'[k] = [conn[k] EXCEPT !.seen = now]
    BY <1>0, <2>1
  <2> QED
    BY <1>0, <2>3, <2>4, <2>5, NoneIsNoEntry DEF ConnStates
<1> QED
  BY <1>1, <1>2

LEMMA LookupMoves ==
    ASSUME FlowInv, NEW c \in Cpus, NEW inv \in Invocation, inv.key \in Keys,
           LookupUdpSeen(c, inv), inv.grace = cpu[c].grace, ~Holder(c),
           cpu[c].pc # "idle" => cpu[c].key = inv.key
    PROVE  Moves(c)
<1> DEFINE k == inv.key
           e == conn[k]
           live == ~TupleRetiring(k) /\ e # None /\ ~ConnExpired(e, now)
<1>0. KernelFrame /\ UNCHANGED <<redirect, handoff, incs, tokens>>
  BY DEF LookupUdpSeen
<1>1. CASE live
  <2> DEFINE p == Cached(inv, e)
  <2>1. cpu' = [cpu EXCEPT ![c] = p] /\ conn' = [conn EXCEPT ![k] = Refreshed(e, now)]
    BY <1>1 DEF LookupUdpSeen
  <2>2. TouchesOwner(k) /\ conn'[k] # None /\ conn'[k].inc = e.inc
    BY <1>0, <1>1, <2>1, RefreshTouches
  <2>3. e \in ConnStates
    BY <1>1 DEF FlowInv, TypeOK
  <2>4. e.inc \in 0..MaxInc /\ e.token \in 0..MaxToken
    BY <2>3 DEF ConnStates
  <2>5. /\ p \in Invocation /\ ShapeOf(p) /\ ~Holds(p) /\ p.mode # "stage"
        /\ p # Idle => p.key = k /\ p.grace = cpu[c].grace
        /\ p.pc \in CarrierPcs => p.inc = e.inc
    <3>1. CASE p = Idle
      BY <3>1, IdleInvocation
    <3>2. CASE p # Idle
      <4>1. PICK pc \in {"redirect", "handoff"} :
              p = [inv EXCEPT !.pc = pc, !.inc = e.inc, !.token = e.token, !.mode = "cached"]
        BY <3>2 DEF Cached
      <4>2. /\ p \in Invocation /\ p.pc \in {"redirect", "handoff"} /\ p.mode = "cached"
            /\ p.key = k /\ p.grace = inv.grace /\ p.inc = e.inc
        BY <2>4, <4>1 DEF Invocation, KernelPcs
      <4> HIDE DEF p
      <4> QED
        BY <4>2 DEF ShapeOf, Holds
    <3> QED
      BY <3>1, <3>2
  <2>6. KernelMove(c, k, p)
    <3> HIDE DEF p
    <3> QED
      BY <1>0, <1>1, <2>1, <2>2, <2>5, TokensTyped DEF KernelMove
  <2> QED
    BY <2>6 DEF Moves
<1>2. CASE ~live
  <2>1. cpu' = [cpu EXCEPT ![c] = Idle] /\ conn' = conn
    BY <1>2 DEF LookupUdpSeen
  <2>2. KernelMove(c, k, Idle)
    <3>1. UNCHANGED <<maps, incs>>
      BY <1>0, <2>1 DEF maps
    <3> QED
      BY <3>1, <1>0, <2>1, IdleInvocation, TokensTyped, QuietMove
  <2> QED
    BY <2>2 DEF Moves
<1> QED
  BY <1>1, <1>2

LEMMA ReceiveMoves ==
    ASSUME FlowInv, NEW c \in Cpus, NEW k \in Keys, Receive(c, k) PROVE Moves(c)
<1> DEFINE inv == [Idle EXCEPT !.key = k]
           miss == ~TupleRetiring(k) /\ conn[k] = None
<1>1. cpu[c].pc = "idle" /\ cpu[c] = Idle
  BY DEF Receive, At, FlowInv, InvocationShape, ShapeOf
<1>2. ~Holder(c)
  BY <1>1, IdleInvocation DEF Holder
<1>3. inv \in Invocation /\ inv.key = k /\ inv.grace = FALSE
  BY IdleInvocation DEF Idle, Invocation
<1>4. CASE miss
  <2> DEFINE p == [inv EXCEPT !.pc = "claim"]
  <2>1. /\ cpu' = [cpu EXCEPT ![c] = p]
        /\ UNCHANGED <<maps, incs, tokens>> /\ KernelFrame
    BY <1>4 DEF Receive
  <2>2. p \in Invocation /\ p.pc = "claim" /\ p.key = k /\ p.grace = FALSE /\ p.mode = "none" /\ p.token = 0
    BY <1>3 DEF Invocation, KernelPcs, Idle
  <2>3. KernelMove(c, k, p)
    <3> HIDE DEF p
    <3>1. ShapeOf(p) /\ ~Holds(p) /\ p.pc \notin CarrierPcs
      BY <2>2 DEF ShapeOf, Holds, CarrierPcs
    <3> QED
      BY <1>1, <1>2, <1>4, <2>1, <2>2, <3>1, IdleInvocation, TokensTyped, QuietMove
  <2> QED
    BY <2>3 DEF Moves
<1>5. CASE ~miss
  <2>1. LookupUdpSeen(c, inv)
    BY <1>5 DEF Receive
  <2> HIDE DEF inv
  <2> QED
    BY <1>1, <1>2, <1>3, <2>1, IdleInvocation, LookupMoves
<1> QED
  BY <1>4, <1>5

LEMMA LookupAgainMoves ==
    ASSUME FlowInv, NEW c \in Cpus, LookupAgain(c) PROVE Moves(c)
<1>1. cpu[c].pc = "lookup" /\ LookupUdpSeen(c, cpu[c])
  BY DEF LookupAgain, At
<1>2. cpu[c] \in Invocation /\ ShapeOf(cpu[c]) /\ cpu[c].key \in Keys
  BY <1>1, InFlight
<1>3. ~Holder(c)
  BY <1>1, <1>2 DEF ShapeOf, Holder, Holds
<1> QED
  BY <1>1, <1>2, <1>3, LookupMoves

LEMMA ClaimCheckMoves ==
    ASSUME FlowInv, NEW c \in Cpus, ClaimCheck(c) PROVE Moves(c)
<1>1. cpu[c].pc = "claim" /\ UNCHANGED <<maps, incs, tokens>> /\ KernelFrame
  BY DEF ClaimCheck, At
<1>2. cpu[c] \in Invocation /\ ShapeOf(cpu[c]) /\ cpu[c].key \in Keys
  BY <1>1, InFlight
<1>3. cpu[c].mode = "none" /\ cpu[c].token = 0 /\ ~Holder(c) /\ ready \in BOOLEAN
  BY <1>1, <1>2 DEF ShapeOf, Holder, Holds, FlowInv, TypeOK
<1>4. CASE TupleRetiring(cpu[c].key)
  <2>1. Leave(c)
    BY <1>4 DEF ClaimCheck, Leave
  <2> QED
    BY <1>1, <1>3, <2>1, QuietLeave, TokensTyped
<1>5. CASE ~TupleRetiring(cpu[c].key)
  <2> DEFINE p == [cpu[c] EXCEPT !.pc = "insert", !.ready = ready]
  <2>1. cpu' = [cpu EXCEPT ![c] = p]
    BY <1>5 DEF ClaimCheck
  <2>2. p \in Invocation /\ p.pc = "insert" /\ p.key = cpu[c].key /\ p.mode = "none" /\ p.token = 0
        /\ p.grace = cpu[c].grace
    BY <1>2, <1>3 DEF Invocation, KernelPcs
  <2> HIDE DEF p
  <2>3. ShapeOf(p) /\ ~Holds(p) /\ p.pc \notin CarrierPcs
    BY <1>2, <2>2 DEF ShapeOf, Holds, CarrierPcs
  <2>4. KernelMove(c, cpu[c].key, p)
    BY <1>1, <1>2, <1>3, <2>1, <2>2, <2>3, TokensTyped, QuietMove
  <2> QED
    BY <1>2, <2>4 DEF Moves
<1> QED
  BY <1>4, <1>5

LEMMA ClaimMoves ==
    ASSUME FlowInv, NEW c \in Cpus, ClaimUdpPreparing(c) PROVE Moves(c)
<1> DEFINE k == cpu[c].key
<1>1. /\ cpu[c].pc = "insert" /\ UNCHANGED <<redirect, handoff, tokens>> /\ KernelFrame
      /\ incs < MaxInc /\ incs' = incs + 1
  BY DEF ClaimUdpPreparing, At
<1>2. cpu[c] \in Invocation /\ ShapeOf(cpu[c]) /\ k \in Keys
  BY <1>1, InFlight
<1>3. cpu[c].mode = "none" /\ cpu[c].token = 0 /\ ~Holder(c)
  BY <1>1, <1>2 DEF ShapeOf, Holder, Holds
<1>4. incs' \in 0..MaxInc /\ incs + 1 \in 0..MaxInc /\ incs + 1 \in 1..MaxInc
  BY <1>1, TokensTyped, BoundsAreNaturals
<1>5. CASE /\ conn[k] = None
           /\ conn' = [conn EXCEPT ![k] = ConnState("Preparing", 0, incs + 1, now, FALSE)]
           /\ cpu' = [cpu EXCEPT ![c] = [@ EXCEPT !.pc = "route", !.inc = incs + 1]]
  <2> DEFINE p == [cpu[c] EXCEPT !.pc = "route", !.inc = incs + 1]
  <2>1. cpu' = [cpu EXCEPT ![c] = p]
    BY <1>5
  <2>2. /\ p \in Invocation /\ p.pc = "route" /\ p.key = k /\ p.mode = "none" /\ p.token = 0
        /\ p.grace = cpu[c].grace /\ p.inc = incs + 1
    BY <1>2, <1>3, <1>4 DEF Invocation, KernelPcs
  <2> HIDE DEF p
  <2>3. ShapeOf(p) /\ Holds(p)
    BY <1>2, <2>2 DEF ShapeOf, Holds
  <2>4. ClaimsTuple(k, p)
    BY <1>1, <1>5, <2>2 DEF ClaimsTuple
  <2>5. conn'[k] # None /\ conn'[k].inc = p.inc
    <3>1. ConnState("Preparing", 0, incs + 1, now, FALSE) \in ConnStates
      BY <1>4, TokensTyped, BoundsAreNaturals DEF ConnState, ConnStates, UdpDecisionState
    <3>2. conn'[k] = ConnState("Preparing", 0, incs + 1, now, FALSE)
      BY <1>2, <1>5 DEF FlowInv, TypeOK
    <3>3. ConnState("Preparing", 0, incs + 1, now, FALSE).inc = incs + 1
      BY DEF ConnState
    <3> QED
      BY <2>2, <3>1, <3>2, <3>3, NoneIsNoEntry
  <2>6. KernelMove(c, k, p)
    BY <1>1, <1>3, <1>4, <2>1, <2>2, <2>3, <2>4, <2>5, TokensTyped DEF KernelMove
  <2> QED
    BY <1>2, <2>6 DEF Moves
<1>6. CASE /\ cpu' = [cpu EXCEPT ![c] = [@ EXCEPT !.pc = "lookup", !.mode = "again"]]
           /\ UNCHANGED conn
  <2> DEFINE p == [cpu[c] EXCEPT !.pc = "lookup", !.mode = "again"]
  <2>1. cpu' = [cpu EXCEPT ![c] = p]
    BY <1>6
  <2>2. p \in Invocation /\ p.pc = "lookup" /\ p.key = k /\ p.mode = "again" /\ p.grace = cpu[c].grace
    BY <1>2 DEF Invocation, KernelPcs
  <2> HIDE DEF p
  <2>3. ShapeOf(p) /\ ~Holds(p) /\ p.pc \notin CarrierPcs
    BY <1>2, <2>2 DEF ShapeOf, Holds, CarrierPcs
  <2>4. TouchesOwner(k)
    BY <1>1, <1>6 DEF TouchesOwner
  <2>5. KernelMove(c, k, p)
    BY <1>1, <1>3, <1>4, <2>1, <2>2, <2>3, <2>4, TokensTyped DEF KernelMove
  <2> QED
    BY <1>2, <2>5 DEF Moves
<1>7. CASE Leave(c) /\ UNCHANGED conn
  BY <1>1, <1>3, <1>4, <1>7, QuietLeave DEF maps
<1> QED
  BY <1>5, <1>6, <1>7 DEF ClaimUdpPreparing

LEMMA RouteMoves ==
    ASSUME FlowInv, NEW c \in Cpus, Route(c) PROVE Moves(c)
<1>1. cpu[c].pc = "route" /\ UNCHANGED <<maps, incs>> /\ KernelFrame
  BY DEF Route, At
<1>2. cpu[c] \in Invocation /\ ShapeOf(cpu[c]) /\ cpu[c].key \in Keys
      /\ conn[cpu[c].key] # None /\ conn[cpu[c].key].inc = cpu[c].inc
  BY <1>1, InFlight DEF CarrierPcs
<1>3. cpu[c].mode = "none" /\ cpu[c].token = 0 /\ Holder(c)
  BY <1>1, <1>2 DEF ShapeOf, Holder, Holds
<1>4. ASSUME NEW p \in Invocation, cpu' = [cpu EXCEPT ![c] = p], tokens' \in 0..MaxToken,
             p.pc \in {"publish", "redirect", "abort"}, p.key = cpu[c].key,
             p.inc = cpu[c].inc, p.grace = cpu[c].grace,
             p.pc = "publish" => p.mode = "native" /\ p.token = 0,
             p.pc = "abort" => p.mode = "none" /\ p.token = 0,
             p.pc = "redirect" => p.mode = "stage" /\ ready
      PROVE  Moves(c)
  <2>1. ShapeOf(p) /\ Holds(p) /\ p.pc \in CarrierPcs
    BY <1>2, <1>4 DEF ShapeOf, Holds, CarrierPcs
  <2>2. p.mode = "stage" => ready
    BY <1>4
  <2>3. KernelMove(c, cpu[c].key, p)
    BY <1>1, <1>2, <1>3, <1>4, <2>1, <2>2, QuietMove
  <2> QED
    BY <1>2, <2>3 DEF Moves
<1>5. ASSUME NEW user \in BOOLEAN, UNCHANGED tokens,
             cpu' = [cpu EXCEPT ![c] = [[cpu[c] EXCEPT !.pc = "publish", !.ready = FALSE]
                                            EXCEPT !.mode = "native", !.user = user]]
      PROVE  Moves(c)
  <2> DEFINE p == [[cpu[c] EXCEPT !.pc = "publish", !.ready = FALSE] EXCEPT !.mode = "native", !.user = user]
  <2>1. /\ p \in Invocation /\ p.pc = "publish" /\ p.mode = "native" /\ p.token = 0
        /\ p.key = cpu[c].key /\ p.inc = cpu[c].inc /\ p.grace = cpu[c].grace
    BY <1>2, <1>3 DEF Invocation, KernelPcs
  <2>2. cpu' = [cpu EXCEPT ![c] = p]
    BY <1>5
  <2> HIDE DEF p
  <2> QED
    BY <1>4, <1>5, <2>1, <2>2, TokensTyped
<1>6. ASSUME ready, tokens < MaxToken, tokens' = tokens + 1,
             cpu' = [cpu EXCEPT ![c] = [[cpu[c] EXCEPT !.pc = "redirect", !.ready = FALSE]
                                            EXCEPT !.mode = "stage", !.token = tokens + 1]]
      PROVE  Moves(c)
  <2> DEFINE p == [[cpu[c] EXCEPT !.pc = "redirect", !.ready = FALSE] EXCEPT !.mode = "stage", !.token = tokens + 1]
  <2>0. tokens + 1 \in 0..MaxToken
    BY <1>6, TokensTyped, BoundsAreNaturals
  <2>1. /\ p \in Invocation /\ p.pc = "redirect" /\ p.mode = "stage"
        /\ p.key = cpu[c].key /\ p.inc = cpu[c].inc /\ p.grace = cpu[c].grace
    BY <1>2, <1>3, <2>0 DEF Invocation, KernelPcs
  <2>2. cpu' = [cpu EXCEPT ![c] = p]
    BY <1>6
  <2> HIDE DEF p
  <2> QED
    BY <1>4, <1>6, <2>0, <2>1, <2>2
<1>7. ASSUME UNCHANGED tokens, cpu' = [cpu EXCEPT ![c] = [cpu[c] EXCEPT !.pc = "abort", !.ready = FALSE]]
      PROVE  Moves(c)
  <2> DEFINE p == [cpu[c] EXCEPT !.pc = "abort", !.ready = FALSE]
  <2>1. /\ p \in Invocation /\ p.pc = "abort" /\ p.mode = "none" /\ p.token = 0
        /\ p.key = cpu[c].key /\ p.inc = cpu[c].inc /\ p.grace = cpu[c].grace
    BY <1>2, <1>3 DEF Invocation, KernelPcs
  <2>2. cpu' = [cpu EXCEPT ![c] = p]
    BY <1>7
  <2> HIDE DEF p
  <2> QED
    BY <1>4, <1>7, <2>1, <2>2, TokensTyped
<1> QED
  BY <1>5, <1>6, <1>7 DEF Route

LEMMA RedirectCheckMoves ==
    ASSUME FlowInv, NEW c \in Cpus, RedirectCheck(c) PROVE Moves(c)
<1>1. cpu[c].pc = "redirect" /\ UNCHANGED <<maps, incs, tokens>> /\ KernelFrame
  BY DEF RedirectCheck, At
<1>2. cpu[c] \in Invocation /\ ShapeOf(cpu[c])
  BY <1>1, InFlight
<1>3. CASE GiveUp(c)
  BY <1>1, <1>3, GiveUpMoves
<1>4. CASE Go(c, "redirectInsert")
  <2>1. ShapeOf([cpu[c] EXCEPT !.pc = "redirectInsert"])
    BY <1>1, <1>2 DEF ShapeOf, Invocation
  <2>2. Holds([cpu[c] EXCEPT !.pc = "redirectInsert"]) <=> Holder(c)
    BY <1>1, <1>2 DEF Holder, Holds, Invocation
  <2> QED
    BY <1>1, <1>4, <2>1, <2>2, QuietStep DEF KernelPcs, CarrierPcs
<1>5. CASE Leave(c) /\ cpu[c].mode # "stage"
  <2>1. ~Holder(c)
    BY <1>1, <1>5 DEF Holder, Holds
  <2> QED
    BY <1>1, <1>5, <2>1, QuietLeave, TokensTyped
<1> QED
  BY <1>3, <1>4, <1>5 DEF RedirectCheck

LEMMA HandoffCheckMoves ==
    ASSUME FlowInv, NEW c \in Cpus, HandoffCheck(c) PROVE Moves(c)
<1>1. cpu[c].pc = "handoff" /\ UNCHANGED <<maps, incs, tokens>> /\ KernelFrame
  BY DEF HandoffCheck, At
<1>2. cpu[c] \in Invocation /\ ShapeOf(cpu[c])
  BY <1>1, InFlight
<1>3. CASE GiveUp(c)
  BY <1>1, <1>3, GiveUpMoves
<1>4. ASSUME NEW x \in {"handoffInsert", "redirect"}, Go(c, x) PROVE Moves(c)
  <2>1. ShapeOf([cpu[c] EXCEPT !.pc = x])
    BY <1>1, <1>2, <1>4 DEF ShapeOf, Invocation
  <2>2. Holds([cpu[c] EXCEPT !.pc = x]) <=> Holder(c)
    BY <1>1, <1>2, <1>4 DEF Holder, Holds, Invocation
  <2> QED
    BY <1>1, <1>4, <2>1, <2>2, QuietStep DEF KernelPcs, CarrierPcs
<1>5. CASE Leave(c) /\ cpu[c].mode # "stage"
  <2>1. ~Holder(c)
    BY <1>1, <1>5 DEF Holder, Holds
  <2> QED
    BY <1>1, <1>5, <2>1, QuietLeave, TokensTyped
<1> QED
  BY <1>3, <1>4, <1>5 DEF HandoffCheck

LEMMA PublishCheckMoves ==
    ASSUME FlowInv, NEW c \in Cpus, PublishCheck(c) PROVE Moves(c)
<1>1. cpu[c].pc = "publish" /\ UNCHANGED <<maps, incs, tokens>> /\ KernelFrame
  BY DEF PublishCheck, At
<1>2. cpu[c] \in Invocation /\ ShapeOf(cpu[c])
  BY <1>1, InFlight
<1>3. PICK x \in {"abort", "write"} : Go(c, x)
  BY DEF PublishCheck, Go
<1>4. ShapeOf([cpu[c] EXCEPT !.pc = x])
  BY <1>1, <1>2, <1>3 DEF ShapeOf, Invocation
<1>5. Holds([cpu[c] EXCEPT !.pc = x]) <=> Holder(c)
  BY <1>1, <1>2, <1>3 DEF Holder, Holds, Invocation
<1> QED
  BY <1>1, <1>3, <1>4, <1>5, QuietStep DEF KernelPcs, CarrierPcs

(* An auxiliary is written; the invocation goes on to x or leaves.           *)
LEMMA TraceStep ==
    ASSUME FlowInv, NEW c \in Cpus, cpu[c].pc \in {"redirectInsert", "handoffInsert"},
           WritesTrace(c, cpu[c].key), UNCHANGED tokens, KernelFrame,
           NEW x \in {"redirect", "handoff", "publish"},
           x = "publish" => cpu[c].mode = "stage",
           Go(c, x) \/ (Leave(c) /\ cpu[c].mode # "stage")
    PROVE  Moves(c)
<1>1. /\ cpu[c] \in Invocation /\ ShapeOf(cpu[c]) /\ cpu[c].key \in Keys
      /\ conn[cpu[c].key] # None /\ conn[cpu[c].key].inc = cpu[c].inc
  BY InFlight DEF CarrierPcs
<1>2. UNCHANGED <<conn, incs>>
  BY DEF WritesTrace
<1>3. CASE Go(c, x)
  <2> DEFINE p == [cpu[c] EXCEPT !.pc = x]
  <2>1. cpu' = [cpu EXCEPT ![c] = p]
    BY <1>3 DEF Go
  <2>0. x \in KernelPcs
    BY DEF KernelPcs
  <2>2. /\ p \in Invocation /\ p.pc = x /\ p.key = cpu[c].key /\ p.mode = cpu[c].mode
        /\ p.grace = cpu[c].grace /\ p.inc = cpu[c].inc /\ p.token = cpu[c].token
    BY <1>1, <2>0, Stepping
  <2> HIDE DEF p
  <2>3. ShapeOf(p) /\ (Holds(p) <=> Holder(c))
    BY <1>1, <2>2 DEF ShapeOf, Holds, Holder
  <2>4. KernelMove(c, cpu[c].key, p)
    BY <1>1, <1>2, <2>1, <2>2, <2>3, TokensTyped DEF KernelMove
  <2> QED
    BY <1>1, <2>4 DEF Moves
<1>4. CASE Leave(c) /\ cpu[c].mode # "stage"
  <2>1. ~Holder(c)
    BY <1>4 DEF Holder, Holds
  <2>2. KernelMove(c, cpu[c].key, Idle)
    BY <1>1, <1>2, <1>4, <2>1, IdleInvocation, TokensTyped DEF KernelMove, Leave
  <2> QED
    BY <1>1, <2>2 DEF Moves
<1> QED
  BY <1>3, <1>4

LEMMA PublishRedirectMoves ==
    ASSUME FlowInv, NEW c \in Cpus, PublishRedirect(c) PROVE Moves(c)
<1>1. cpu[c].pc = "redirectInsert" /\ UNCHANGED <<conn, handoff, incs, tokens>> /\ KernelFrame
  BY DEF PublishRedirect, At
<1>2. CASE redirect' = [redirect EXCEPT ![cpu[c].key] = Own(c)]
           /\ (IF cpu[c].mode = "stage" THEN Go(c, "handoff") ELSE Leave(c))
  <2>1. WritesTrace(c, cpu[c].key)
    BY <1>1, <1>2 DEF WritesTrace, CarrierPcs
  <2> QED
    BY <1>1, <1>2, <2>1, TraceStep
<1>3. CASE GiveUp(c) /\ UNCHANGED redirect
  BY <1>1, <1>3, GiveUpMoves DEF maps
<1> QED
  BY <1>2, <1>3 DEF PublishRedirect

LEMMA PublishHandoffMoves ==
    ASSUME FlowInv, NEW c \in Cpus, PublishHandoff(c) PROVE Moves(c)
<1>1. cpu[c].pc = "handoffInsert" /\ UNCHANGED <<conn, redirect, incs, tokens>> /\ KernelFrame
  BY DEF PublishHandoff, At
<1>2. CASE handoff' = [handoff EXCEPT ![cpu[c].key] = Own(c)]
           /\ Go(c, IF cpu[c].mode = "stage" THEN "publish" ELSE "redirect")
  <2>1. WritesTrace(c, cpu[c].key)
    BY <1>1, <1>2 DEF WritesTrace, CarrierPcs
  <2> QED
    BY <1>1, <1>2, <2>1, TraceStep
<1>3. CASE GiveUp(c) /\ UNCHANGED handoff
  BY <1>1, <1>3, GiveUpMoves DEF maps
<1> QED
  BY <1>2, <1>3 DEF PublishHandoff

(* A claim is settled, by its own invocation.                                *)
LEMMA SettleMoves ==
    ASSUME FlowInv, NEW c \in Cpus, cpu[c].pc \in {"write", "abort"}, NEW e \in ConnStates,
           conn' = [conn EXCEPT ![cpu[c].key] = e], e.inc = cpu[c].inc,
           e.state \in {"Pending", "None", "Aborted"}, e.token = cpu[c].token,
           UNCHANGED <<redirect, handoff, incs, tokens>>, KernelFrame,
           NEW p \in Invocation, ShapeOf(p), ~Holds(p), cpu' = [cpu EXCEPT ![c] = p],
           p # Idle => p.key = cpu[c].key /\ p.grace = cpu[c].grace /\ p.inc = cpu[c].inc
    PROVE  Moves(c)
<1> DEFINE k == cpu[c].key
<1>1. cpu[c] \in Invocation /\ ShapeOf(cpu[c]) /\ k \in Keys /\ conn[k].inc = cpu[c].inc
  BY InFlight DEF CarrierPcs
<1>2. Holder(c) /\ (cpu[c].token # 0 => cpu[c].mode = "stage")
  BY <1>1 DEF Holder, Holds, ShapeOf
<1>3. SettlesClaim(c, k, p)
  BY <1>1, <1>2 DEF SettlesClaim
<1>4. conn'[k] = e /\ conn'[k] # None
  BY <1>1, NoneIsNoEntry DEF FlowInv, TypeOK
<1>5. p.mode # "stage"
  BY DEF Holds
<1>6. KernelMove(c, k, p)
  BY <1>1, <1>2, <1>3, <1>4, <1>5, IdleInvocation, TokensTyped DEF KernelMove
<1> QED
  BY <1>1, <1>6 DEF Moves

LEMMA PublishMoves ==
    ASSUME FlowInv, NEW c \in Cpus, PublishClaimedUdpState(c) PROVE Moves(c)
<1> DEFINE k == cpu[c].key
           stage == cpu[c].mode = "stage"
           e == ConnState(IF stage THEN "Pending" ELSE "None", cpu[c].token, cpu[c].inc, now, cpu[c].user)
           p == IF ~stage /\ cpu[c].user
                THEN [cpu[c] EXCEPT !.pc = "handoff", !.mode = "cached", !.user = FALSE]
                ELSE Idle
<1>1. cpu[c].pc = "write" /\ UNCHANGED <<redirect, handoff, incs, tokens>> /\ KernelFrame
  BY DEF PublishClaimedUdpState, At
<1>2. cpu[c] \in Invocation /\ ShapeOf(cpu[c]) /\ k \in Keys
  BY <1>1, InFlight
<1>3. Claimed(c)
  BY <1>1 DEF Holder, Holds, FlowInv, HolderClaim
<1>4. conn' = [conn EXCEPT ![k] = e] /\ cpu' = [cpu EXCEPT ![c] = p]
  BY <1>3 DEF PublishClaimedUdpState
<1>5. cpu[c].inc \in 1..MaxInc
  <2>1. conn[k] \in ConnStates /\ conn[k].inc = cpu[c].inc
    BY <1>2, <1>3 DEF Claimed, FlowInv, TypeOK
  <2> QED
    BY <2>1 DEF ConnStates
<1>6. /\ e \in ConnStates /\ e.inc = cpu[c].inc
      /\ e.state \in {"Pending", "None", "Aborted"} /\ e.token = cpu[c].token
  BY <1>2, <1>5, TokensTyped DEF ConnState, ConnStates, UdpDecisionState, Invocation
<1>7. /\ p \in Invocation /\ ShapeOf(p) /\ ~Holds(p)
      /\ p # Idle => p.key = cpu[c].key /\ p.grace = cpu[c].grace /\ p.inc = cpu[c].inc
  <2>1. CASE ~stage /\ cpu[c].user
    <3>1. /\ p \in Invocation /\ p.pc = "handoff" /\ p.mode = "cached"
          /\ p.key = cpu[c].key /\ p.grace = cpu[c].grace /\ p.inc = cpu[c].inc
      BY <1>2, <2>1 DEF Invocation, KernelPcs
    <3> HIDE DEF p
    <3> QED
      BY <1>2, <3>1 DEF ShapeOf, Holds
  <2>2. CASE ~(~stage /\ cpu[c].user)
    BY <2>2, IdleInvocation
  <2> QED
    BY <2>1, <2>2
<1> HIDE DEF e, p
<1> QED
  BY <1>1, <1>4, <1>6, <1>7, SettleMoves

LEMMA AbortMoves ==
    ASSUME FlowInv, NEW c \in Cpus, AbortUdpPreparing(c) PROVE Moves(c)
<1> DEFINE k == cpu[c].key
           e == ConnState("Aborted", cpu[c].token, cpu[c].inc, conn[k].seen, FALSE)
<1>1. cpu[c].pc = "abort" /\ Leave(c) /\ UNCHANGED <<redirect, handoff, incs, tokens>> /\ KernelFrame
  BY DEF AbortUdpPreparing, At
<1>2. cpu[c] \in Invocation /\ ShapeOf(cpu[c]) /\ k \in Keys
  BY <1>1, InFlight
<1>3. Claimed(c)
  BY <1>1 DEF Holder, Holds, FlowInv, HolderClaim
<1>4. conn' = [conn EXCEPT ![k] = e]
  BY <1>3 DEF AbortUdpPreparing
<1>5. cpu[c].inc \in 1..MaxInc /\ conn[k].seen \in 0..MaxNow
  <2>1. conn[k] \in ConnStates /\ conn[k].inc = cpu[c].inc
    BY <1>2, <1>3 DEF Claimed, FlowInv, TypeOK
  <2> QED
    BY <2>1 DEF ConnStates
<1>6. e \in ConnStates /\ e.inc = cpu[c].inc /\ e.state = "Aborted" /\ e.token = cpu[c].token
  BY <1>2, <1>5 DEF ConnState, ConnStates, UdpDecisionState, Invocation
<1>7. cpu' = [cpu EXCEPT ![c] = Idle]
  BY <1>1 DEF Leave
<1> HIDE DEF e
<1> QED
  BY <1>1, <1>4, <1>6, <1>7, IdleInvocation, SettleMoves

LEMMA ReplyLookupMoves ==
    ASSUME FlowInv, NEW c \in Cpus, NEW k \in Keys, ReplyLookup(c, k) PROVE Moves(c)
<1>1. cpu[c] = Idle /\ UNCHANGED <<maps, incs, tokens>> /\ KernelFrame /\ ~TupleRetiring(k)
  BY DEF ReplyLookup, At, FlowInv, InvocationShape, ShapeOf
<1>2. ~Holder(c)
  BY <1>1, IdleInvocation DEF Holder
<1>3. conn[k] \in ConnStates \cup {None}
  BY DEF FlowInv, TypeOK
<1>4. conn[k] # None => conn[k].inc \in 0..MaxInc
  BY <1>3 DEF ConnStates
<1> DEFINE keeps == conn[k] # None /\ conn[k].state \in {"None", "Proxy"} /\ now > conn[k].seen
           i == IF keeps THEN conn[k].inc ELSE 0
<1>5. i \in 0..MaxInc /\ cpu' = [cpu EXCEPT ![c] =
            [Idle EXCEPT !.pc = "replyTouch", !.key = k, !.now = now, !.mode = "reply", !.inc = i]]
  <2>1. i \in 0..MaxInc
    BY <1>4, BoundsAreNaturals
  <2> QED
    BY <2>1 DEF ReplyLookup
<1> HIDE DEF i
<1> DEFINE p == [Idle EXCEPT !.pc = "replyTouch", !.key = k, !.now = now, !.mode = "reply", !.inc = i]
<1>6. p \in Invocation /\ p.pc = "replyTouch" /\ p.key = k /\ p.mode = "reply" /\ p.grace = FALSE
  BY <1>5, IdleInvocation, TokensTyped DEF Invocation, KernelPcs, Idle
<1>7. cpu' = [cpu EXCEPT ![c] = p]
  BY <1>5
<1> HIDE DEF p
<1>8. ShapeOf(p) /\ ~Holds(p) /\ p.pc \notin CarrierPcs
  BY <1>6 DEF ShapeOf, Holds, CarrierPcs
<1>9. KernelMove(c, k, p)
  BY <1>1, <1>2, <1>6, <1>7, <1>8, IdleInvocation, TokensTyped, QuietMove
<1> QED
  BY <1>9 DEF Moves

LEMMA ReplyTouchMoves ==
    ASSUME FlowInv, NEW c \in Cpus, ReplyTouch(c) PROVE Moves(c)
<1> DEFINE k == cpu[c].key
<1>1. cpu[c].pc = "replyTouch" /\ UNCHANGED <<maps, incs, tokens>> /\ KernelFrame
  BY DEF ReplyTouch, At
<1>2. cpu[c] \in Invocation /\ ShapeOf(cpu[c]) /\ k \in Keys
  BY <1>1, InFlight
<1>3. ~Holder(c) /\ cpu[c].mode = "reply"
  BY <1>1, <1>2 DEF ShapeOf, Holder, Holds
<1>4. CASE Leave(c)
  BY <1>1, <1>3, <1>4, QuietLeave, TokensTyped
<1>5. CASE redirect[k] # None
           /\ cpu' = [cpu EXCEPT ![c] = [@ EXCEPT !.pc = "replyRenew", !.token = redirect[k].token]]
  <2> DEFINE p == [cpu[c] EXCEPT !.pc = "replyRenew", !.token = redirect[k].token]
  <2>0. redirect[k].token \in 0..MaxToken
    BY <1>2, <1>5 DEF FlowInv, TypeOK, Auxiliaries
  <2>1. p \in Invocation /\ p.pc = "replyRenew" /\ p.key = k /\ p.mode = "reply" /\ p.grace = cpu[c].grace
    BY <1>2, <1>3, <2>0 DEF Invocation, KernelPcs
  <2>2. cpu' = [cpu EXCEPT ![c] = p]
    BY <1>5
  <2> HIDE DEF p
  <2>3. ShapeOf(p) /\ ~Holds(p) /\ p.pc \notin CarrierPcs
    BY <1>2, <2>1 DEF ShapeOf, Holds, CarrierPcs
  <2>4. KernelMove(c, k, p)
    BY <1>1, <1>2, <1>3, <2>1, <2>2, <2>3, TokensTyped, QuietMove
  <2> QED
    BY <1>2, <2>4 DEF Moves
<1> QED
  BY <1>4, <1>5 DEF ReplyTouch

LEMMA RenewMoves ==
    ASSUME FlowInv, NEW c \in Cpus, RenewUdpReply(c) PROVE Moves(c)
<1> DEFINE k == cpu[c].key
           e == conn[k]
<1>1. /\ cpu[c].pc = "replyRenew" /\ Leave(c)
      /\ UNCHANGED <<redirect, handoff, incs, tokens>> /\ KernelFrame
  BY DEF RenewUdpReply, At
<1>2. cpu[c] \in Invocation /\ ShapeOf(cpu[c]) /\ k \in Keys
  BY <1>1, InFlight
<1>3. ~Holder(c)
  BY <1>1, <1>2 DEF ShapeOf, Holder, Holds
<1>4. CASE UNCHANGED conn
  BY <1>1, <1>3, <1>4, QuietLeave, TokensTyped DEF maps
<1>5. CASE ~UNCHANGED conn
  <2>1. /\ e # None /\ e.state \in {"None", "Proxy"}
        /\ conn' = [conn EXCEPT ![k] = Touched(e, cpu[c].now)]
    BY <1>5 DEF RenewUdpReply
  <2>2. conn \in [Keys -> ConnStates \cup {None}] /\ e \in ConnStates /\ cpu[c].now \in 0..MaxNow
    BY <1>2, <2>1 DEF FlowInv, TypeOK, Invocation
  <2>3. Touched(e, cpu[c].now) # e
    BY <1>5, <2>1, <2>2
  <2>4. cpu[c].now > e.seen /\ Touched(e, cpu[c].now) = [e EXCEPT !.seen = cpu[c].now]
    BY <2>3 DEF Touched
  <2>5. cpu[c].now >= e.seen
    BY <2>2, <2>4 DEF ConnStates
  <2>6. TouchesOwner(k)
    BY <1>1, <2>1, <2>2, <2>4, <2>5 DEF TouchesOwner
  <2>7. KernelMove(c, k, Idle)
    BY <1>1, <1>2, <1>3, <2>6, IdleInvocation, TokensTyped DEF KernelMove, Leave
  <2> QED
    BY <1>2, <2>7 DEF Moves
<1> QED
  BY <1>4, <1>5

(* The kernel's part of Next preserves the invariant.                        *)
LEMMA KernelMoves ==
    ASSUME FlowInv, NEW c \in Cpus,
           KernelStep(c) \/ \E k \in Keys : Receive(c, k) \/ ReplyLookup(c, k)
    PROVE  Moves(c)
BY ReceiveMoves, ReplyLookupMoves, LookupAgainMoves, ClaimCheckMoves, ClaimMoves, RouteMoves,
   RedirectCheckMoves, PublishRedirectMoves, HandoffCheckMoves, PublishHandoffMoves,
   PublishCheckMoves, PublishMoves, AbortMoves, ReplyTouchMoves, RenewMoves DEF KernelStep

-----------------------------------------------------------------------------
(* What is left of a plan after its first step.                              *)

LEMMA DeleteTails ==
    ASSUME NEW s \in DeletePlans
    PROVE  /\ s # <<>> /\ Head(s) \in {"handoff", "redirect", "conn"}
           /\ s \notin AuxiliaryPlans /\ s \notin WritePlans
           /\ Head(s) = "conn" => s = <<"conn">>
           /\ Len(s) = 1 <=> s = <<"conn">>
           /\ s = <<"conn">> => Head(s) = "conn" /\ Tail(s) = <<>>
           /\ s # <<"conn">> => Tail(s) \in DeletePlans
           /\ Head(s) = "redirect" => Tail(s) = <<"conn">>
           /\ Head(s) = "handoff" /\ s # <<"handoff", "conn">> => Tail(s) = <<"redirect", "conn">>
           /\ s = <<"handoff", "conn">> => Head(s) = "handoff" /\ Tail(s) = <<"conn">>
<1>1. CASE s = <<"handoff", "redirect", "conn">>
  BY <1>1 DEF DeletePlans, AuxiliaryPlans, WritePlans
<1>2. CASE s = <<"handoff", "conn">>
  BY <1>2 DEF DeletePlans, AuxiliaryPlans, WritePlans
<1>3. CASE s = <<"redirect", "conn">>
  BY <1>3 DEF DeletePlans, AuxiliaryPlans, WritePlans
<1>4. CASE s = <<"conn">>
  BY <1>4 DEF DeletePlans, AuxiliaryPlans, WritePlans
<1> QED
  BY <1>1, <1>2, <1>3, <1>4 DEF DeletePlans

LEMMA AuxiliaryTails ==
    ASSUME NEW s \in AuxiliaryPlans
    PROVE  /\ s # <<>> /\ Head(s) \in {"handoff", "redirect"}
           /\ s \notin DeletePlans /\ s \notin WritePlans
           /\ Len(s) = 1 => Tail(s) = <<>>
           /\ Len(s) # 1 => Tail(s) \in AuxiliaryPlans
<1>1. CASE s = <<"handoff", "redirect">>
  BY <1>1 DEF DeletePlans, AuxiliaryPlans, WritePlans
<1>2. CASE s = <<"handoff">>
  BY <1>2 DEF DeletePlans, AuxiliaryPlans, WritePlans
<1>3. CASE s = <<"redirect">>
  BY <1>3 DEF DeletePlans, AuxiliaryPlans, WritePlans
<1> QED
  BY <1>1, <1>2, <1>3 DEF AuxiliaryPlans

LEMMA WriteTails ==
    ASSUME NEW s \in WritePlans
    PROVE  /\ s # <<>> /\ Head(s) \in {"handoff", "redirect", "write"}
           /\ s \notin DeletePlans /\ s \notin AuxiliaryPlans
           /\ Head(s) = "write" <=> Len(s) = 1
           /\ Len(s) = 1 => Tail(s) = <<>>
           /\ Len(s) # 1 => Tail(s) \in WritePlans
<1>1. CASE s = <<"handoff", "redirect", "write">>
  BY <1>1 DEF DeletePlans, AuxiliaryPlans, WritePlans
<1>2. CASE s = <<"handoff", "write">>
  BY <1>2 DEF DeletePlans, AuxiliaryPlans, WritePlans
<1>3. CASE s = <<"redirect", "write">>
  BY <1>3 DEF DeletePlans, AuxiliaryPlans, WritePlans
<1>4. CASE s = <<"write">>
  BY <1>4 DEF DeletePlans, AuxiliaryPlans, WritePlans
<1> QED
  BY <1>1, <1>2, <1>3, <1>4 DEF WritePlans

-----------------------------------------------------------------------------
(* The clock, and the backend's operations.                                  *)

(* What lies in the maps and in the kernel is left alone.                    *)
LEMMA OwnersFrame ==
    ASSUME FlowInv, UNCHANGED <<maps, cpu>>
    PROVE  InvocationShape' /\ CarrierOwns' /\ HolderClaim' /\ ClaimHeld' /\ AuxiliaryOwned'
<1>1. UNCHANGED <<conn, redirect, handoff, cpu>>
  BY DEF maps
<1>2. InvocationShape' /\ CarrierOwns' /\ AuxiliaryOwned'
  BY <1>1 DEF FlowInv, InvocationShape, CarrierOwns, AuxiliaryOwned
<1>3. HolderClaim' /\ ClaimHeld'
  BY <1>1 DEF FlowInv, HolderClaim, ClaimHeld, Holder, Claimed
<1> QED
  BY <1>2, <1>3

LEMMA ExpiryMonotone ==
    ASSUME NEW e \in ConnStates, NEW t \in Nat, ConnExpired(e, t)
    PROVE  ConnExpired(e, t + 1)
<1>1. e.seen \in Nat
  BY BoundsAreNaturals DEF ConnStates
<1> QED
  BY <1>1, BoundsAreNaturals DEF ConnExpired

LEMMA RequestTyped ==
    ASSUME BatchType, NEW i \in DOMAIN requests
    PROVE  requests[i] \in Requests /\ requests[i].key \in Keys /\ requests[i].cutoff \in 0..MaxNow
<1>1. requests[i] \in Requests
  BY DEF BatchType
<1> QED
  BY <1>1 DEF Requests

(* What an idle backend looks like.                                          *)
LEMMA AtRest ==
    ASSUME FlowInv, at \in {"idle", "quiesce", "quiesceGrace", "activate"}
    PROVE  /\ steps = <<>> /\ held = {} /\ toFence = {} /\ ~Fenced
           /\ ~retirementFailed => ~active /\ fence = {}
           /\ at # "activate" => requests = <<>>
<1>1. ~Fenced
  BY DEF Fenced
<1> QED
  BY <1>1 DEF FlowInv, FenceInv, BatchIsAlone

LEMMA TickPreserves ==
    ASSUME FlowInv, Tick PROVE FlowInv'
<1>1. /\ now' = now + 1 /\ now' \in 0..MaxNow /\ now \in Nat
      /\ UNCHANGED <<maps, cpu>>
  BY BoundsAreNaturals DEF Tick, FlowInv, TypeOK
<1>2. TypeOK'
  BY <1>1 DEF Tick, FlowInv, TypeOK, maps, fences, flags, batch
<1>3. BatchType' /\ ModeInv'
  BY DEF Tick, FlowInv, BatchType, ModeInv, batch, flags
<1>4. FenceInv' /\ BatchIsAlone'
  BY DEF Tick, FlowInv, FenceInv, Fenced, BatchIsAlone, RequestKeys, batch, fences, flags
<1>5. QuiesceInv' /\ ActivateIsCurrent'
  BY DEF Tick, FlowInv, QuiesceInv, ActivateIsCurrent, Fenced, TokenBound, batch, flags, maps
<1>6. StepsAreCurrent'
  <2> DEFINE k == Head(requests).key
  <2>1. UNCHANGED <<conn, redirect, handoff, requests, steps, image>>
    BY DEF Tick, batch, maps
  <2>2. ASSUME steps # <<>>, conn[k] # None, ConnExpired(conn[k], now) PROVE ConnExpired(conn[k], now')
    <3>1. k \in Keys
      BY <2>2, FencedTuples DEF FlowInv, BatchIsAlone
    <3>2. conn[k] \in ConnStates
      BY <2>2, <3>1 DEF FlowInv, TypeOK
    <3> QED
      BY <1>1, <2>2, <3>2, ExpiryMonotone
  <2>3. StepsAreCurrent /\ (steps \in DeletePlans => steps # <<>>)
    BY DEF FlowInv, DeletePlans
  <2> QED
    BY <2>1, <2>2, <2>3 DEF StepsAreCurrent
<1>7. ExpiryInv'
  <2>1. ASSUME NEW r \in Requests, Expired(r)
        PROVE  /\ r.kind = "expiredConn" => r.entry \in ConnStates /\ ConnExpired(r.entry, now')
               /\ r.kind = "hint" => r.cutoff <= now'
    <3>1. r.cutoff \in 0..MaxNow
      BY DEF Requests
    <3> QED
      BY <1>1, <2>1, <3>1, ExpiryMonotone, BoundsAreNaturals DEF Expired
  <2>2. UNCHANGED <<due, requests>>
    BY DEF Tick, batch
  <2>3. BatchType /\ ExpiryInv
    BY DEF FlowInv
  <2>4. due' # None => Expired(due)'
    BY <2>1, <2>2, <2>3 DEF BatchType, ExpiryInv, Expired
  <2>5. ASSUME NEW i \in DOMAIN requests' PROVE Expired(requests[i])'
    <3>1. i \in DOMAIN requests /\ Expired(requests[i]) /\ requests[i] \in Requests
      BY <2>2, <2>3, <2>5, RequestTyped DEF ExpiryInv
    <3> QED
      BY <2>1, <2>2, <3>1 DEF Expired
  <2> QED
    BY <2>4, <2>5 DEF ExpiryInv
<1> QED
  BY <1>1, <1>2, <1>3, <1>4, <1>5, <1>6, <1>7, OwnersFrame DEF FlowInv

(* A request that may be decided on from the maps as they are.               *)
LEMMA DecidableRequests ==
    ASSUME FlowInv, NEW k \in Keys, NEW r \in Decidable(k)
    PROVE  r \in Requests /\ Expired(r)
<1>0. /\ conn[k] \in ConnStates \cup {None} /\ now \in 0..MaxNow
      /\ redirect[k] \in Auxiliaries \cup {None} /\ handoff[k] \in Auxiliaries \cup {None}
  BY DEF FlowInv, TypeOK
<1>1. /\ \A e \in ConnStates : e.token \in 0..MaxToken /\ e.inc \in 0..MaxInc
      /\ \A e \in Auxiliaries : e.token \in 0..MaxToken
      /\ 0 \in 0..MaxToken /\ 0 \in 0..MaxInc /\ 0 \in 0..MaxNow /\ 0 <= now
      /\ Before(now, ConnTimeout) \in 0..MaxNow
  BY <1>0, BoundsAreNaturals DEF ConnStates, Auxiliaries, Before
<1>2. ASSUME NEW kind \in RetireKinds, NEW t \in 0..MaxToken, NEW i \in 0..MaxInc,
             NEW e \in ConnStates \cup Auxiliaries \cup {None}, NEW cutoff \in 0..MaxNow,
             r = Request(kind, k, t, i, e, cutoff),
             kind = "expiredConn" => e \in ConnStates /\ ConnExpired(e, now),
             kind = "hint" => cutoff = 0
      PROVE  r \in Requests /\ Expired(r)
  BY <1>1, <1>2 DEF Request, Requests, Expired
<1>3. CASE conn[k] # None /\ r = Request("endpoint", k, conn[k].token, conn[k].inc, None, 0)
  BY <1>0, <1>1, <1>2, <1>3 DEF RetireKinds
<1>4. CASE conn[k] # None /\ \E i \in {0, conn[k].inc} : r = Request("pending", k, conn[k].token, i, None, 0)
  BY <1>0, <1>1, <1>2, <1>4 DEF RetireKinds
<1>5. CASE conn[k] # None /\ r = Request("hint", k, 0, conn[k].inc, None, 0)
  BY <1>0, <1>1, <1>2, <1>5 DEF RetireKinds
<1>6. CASE /\ conn[k] # None /\ ConnExpired(conn[k], now)
           /\ r = Request("expiredConn", k, conn[k].token, 0, conn[k], Before(now, ConnTimeout))
  BY <1>0, <1>1, <1>2, <1>6 DEF RetireKinds
<1>7. CASE redirect[k] # None /\ r = Request("expiredRedirect", k, redirect[k].token, 0, redirect[k], 0)
  BY <1>0, <1>1, <1>2, <1>7 DEF RetireKinds
<1>8. CASE handoff[k] # None /\ r = Request("expiredHandoff", k, handoff[k].token, 0, handoff[k], 0)
  BY <1>0, <1>1, <1>2, <1>8 DEF RetireKinds
<1> QED
  BY <1>3, <1>4, <1>5, <1>6, <1>7, <1>8 DEF Decidable

LEMMA DecideRetirementPreserves ==
    ASSUME FlowInv, DecideRetirement PROVE FlowInv'
<1>1. PICK k \in Keys : due' \in Decidable(k)
  BY DEF DecideRetirement
<1>2. due' \in Requests /\ Expired(due') /\ now' = now
  BY <1>1, DecidableRequests DEF DecideRetirement, BackendFrame, counters
<1>3. Expired(due)'
  BY <1>2 DEF Expired
<1>4. UNCHANGED <<maps, cpu>>
  BY DEF DecideRetirement
<1>5. TypeOK' /\ BatchType'
  BY <1>2 DEF DecideRetirement, BackendFrame, FlowInv, TypeOK, BatchType, maps, fences, flags, batch, counters
<1>6. FenceInv' /\ BatchIsAlone' /\ ModeInv'
  BY DEF DecideRetirement, FlowInv, FenceInv, ModeInv, Fenced, BatchIsAlone, RequestKeys, batch, fences, flags
<1>7. QuiesceInv' /\ ActivateIsCurrent'
  BY DEF DecideRetirement, FlowInv, QuiesceInv, ActivateIsCurrent, Fenced, TokenBound, batch, flags, maps
<1>8. StepsAreCurrent'
  BY <1>2 DEF DecideRetirement, FlowInv, StepsAreCurrent, ConnExpired, batch, maps
<1>9. ExpiryInv'
  BY <1>2, <1>3 DEF DecideRetirement, FlowInv, ExpiryInv, Expired, batch
<1> QED
  BY <1>4, <1>5, <1>6, <1>7, <1>8, <1>9, OwnersFrame DEF FlowInv

(* An operation begins: nothing is fenced yet.                               *)
LEMMA StartPreserves ==
    ASSUME FlowInv, NEW m \in {"retire", "commit", "quiesce"}, NEW rs \in Seq(Requests), rs # <<>>,
           Start(m, rs), at \in {"idle", "quiesceGrace"}, ~retirementFailed,
           UNCHANGED <<maps, cpu, flags, due, counters>>,
           \A i \in DOMAIN rs : Expired(rs[i]),
           m = "commit" => \A i \in DOMAIN rs : rs[i].kind \in Transitions,
           m = "quiesce" =>
              /\ ~ready /\ incomplete
              /\ \A i \in DOMAIN rs : rs[i].kind = "pending"
              /\ \A c \in Cpus : cpu[c].mode # "stage"
              /\ \A k \in Keys : TokenBound(k) =>
                    \E i \in DOMAIN rs :
                        /\ rs[i].key = k
                        /\ rs[i].token = conn[k].token /\ rs[i].inc = conn[k].inc
    PROVE  FlowInv'
<1>1. /\ at' = "acquire" /\ mode' = m /\ requests' = rs
      /\ toFence' = {rs[i].key : i \in DOMAIN rs} /\ active' = TRUE
      /\ failure' = FALSE /\ unresolved' = FALSE /\ refused' = FALSE
      /\ UNCHANGED <<fence, held, steps, image>>
  BY DEF Start
<1>2. steps = <<>> /\ held = {} /\ fence = {}
  BY AtRest
<1>3. UNCHANGED <<conn, redirect, handoff, cpu, ready, incomplete, retirementFailed, due, incs, tokens, now>>
  BY DEF maps, flags, counters
<1>4. TypeOK'
  <2>1. toFence' \subseteq Keys
    <3>1. \A i \in DOMAIN rs : rs[i] \in Requests
      OBVIOUS
    <3>2. \A r \in Requests : r.key \in Keys
      BY DEF Requests
    <3> QED
      BY <1>1, <3>1, <3>2
  <2> QED
    BY <1>1, <1>3, <2>1 DEF FlowInv, TypeOK
<1>5. BatchType'
  BY <1>1, <1>3 DEF FlowInv, BatchType
<1>6. FenceInv'
  BY <1>1, <1>2, <1>3 DEF FenceInv, Fenced
<1>7. BatchIsAlone'
  BY <1>1, <1>2 DEF BatchIsAlone, RequestKeys
<1>8. StepsAreCurrent' /\ ActivateIsCurrent'
  BY <1>1, <1>2 DEF StepsAreCurrent, ActivateIsCurrent, DeletePlans, AuxiliaryPlans, WritePlans
<1>9. ModeInv'
  BY <1>1, <1>3 DEF ModeInv
<1>10. QuiesceInv'
  BY <1>1, <1>3 DEF FlowInv, QuiesceInv, Fenced, TokenBound
<1>11. ExpiryInv'
  BY <1>1, <1>3 DEF FlowInv, ExpiryInv, Expired
<1> QED
  BY <1>4, <1>5, <1>6, <1>7, <1>8, <1>9, <1>10, <1>11, OwnersFrame DEF FlowInv

LEMMA RetireFlowsPreserves ==
    ASSUME FlowInv, RetireFlows PROVE FlowInv'
<1> DEFINE r == IF due.kind = "hint" THEN [due EXCEPT !.cutoff = now] ELSE due
<1>1. due \in Requests /\ Expired(due) /\ now \in 0..MaxNow
  BY DEF RetireFlows, FlowInv, BatchType, ExpiryInv, TypeOK
<1>2. r \in Requests
  BY <1>1 DEF Requests
<1>3. Expired(r)
  <2>1. CASE due.kind = "hint"
    <3>1. r.kind = "hint" /\ r.cutoff = now
      BY <1>1, <2>1 DEF Requests
    <3> HIDE DEF r
    <3> QED
      BY <1>1, <3>1 DEF Expired
  <2>2. CASE due.kind # "hint"
    BY <1>1, <2>2
  <2> QED
    BY <2>1, <2>2
<1>4. Start("retire", <<r>>) /\ at = "idle" /\ ~retirementFailed
  BY DEF RetireFlows
<1>5. UNCHANGED <<maps, cpu, flags, due, counters>>
  BY DEF RetireFlows, BackendFrame
<1> HIDE DEF r
<1>6. <<r>> \in Seq(Requests) /\ <<r>> # <<>> /\ \A i \in DOMAIN <<r>> : Expired(<<r>>[i])
  BY <1>2, <1>3
<1> QED
  BY <1>4, <1>5, <1>6, StartPreserves

LEMMA CommitPreserves ==
    ASSUME FlowInv, CommitUdpFenced PROVE FlowInv'
<1>1. PICK k \in Keys, t \in 1..tokens, to \in Transitions :
        conn[k] # None /\ Start("commit", <<Request(to, k, t, conn[k].inc, None, 0)>>)
  BY DEF CommitUdpFenced
<1> DEFINE r == Request(to, k, t, conn[k].inc, None, 0)
<1>2. at = "idle" /\ ~retirementFailed /\ UNCHANGED <<maps, cpu, flags, due, counters>>
  BY DEF CommitUdpFenced, BackendFrame
<1>3. t \in 0..MaxToken /\ conn[k].inc \in 0..MaxInc /\ 0 \in 0..MaxNow
  BY <1>1, TokensTyped, BoundsAreNaturals DEF FlowInv, TypeOK, ConnStates
<1>4. r \in Requests /\ r.kind = to
  BY <1>1, <1>3 DEF Request, Requests
<1>5. Expired(r)
  BY <1>1, <1>4 DEF Expired, Transitions
<1>6. Start("commit", <<r>>)
  BY <1>1
<1> HIDE DEF r
<1>7. <<r>> \in Seq(Requests) /\ <<r>> # <<>> /\ \A i \in DOMAIN <<r>> : Expired(<<r>>[i]) /\ <<r>>[i].kind \in Transitions
  BY <1>4, <1>5
<1> QED
  BY <1>2, <1>6, <1>7, StartPreserves

LEMMA FenceReadyPreserves ==
    ASSUME FlowInv, FenceReady PROVE FlowInv'
<1>1. /\ at = "idle" /\ ready' = FALSE /\ incomplete' = TRUE
      /\ UNCHANGED <<maps, cpu, fences, retirementFailed, due, requests, toFence, held, steps, image,
                     failure, unresolved, refused, counters>>
  BY DEF FenceReady, BackendFrame
<1>0. (at' = at /\ mode' = mode) \/ (~retirementFailed /\ at' = "quiesce" /\ mode' = "quiesce")
  BY DEF FenceReady
<1>2. UNCHANGED <<conn, redirect, handoff, active, fence, incs, tokens, now>>
  BY <1>1 DEF maps, fences, counters
<1>3. steps = <<>> /\ requests = <<>> /\ held = {} /\ toFence = {}
  BY <1>1, AtRest
<1>4. TypeOK' /\ BatchType'
  <2>1. at' \in {"idle", "quiesce"} /\ mode' \in {"none", "quiesce"}
    BY <1>0, <1>1 DEF FlowInv, ModeInv
  <2>2. TypeOK /\ BatchType
    BY DEF FlowInv
  <2>3. TypeOK'
    BY <1>1, <1>2, <2>1, <2>2 DEF TypeOK
  <2>4. BatchType'
    BY <1>1, <1>2, <2>2 DEF BatchType
  <2> QED
    BY <2>3, <2>4
<1>5. FenceInv'
  BY <1>0, <1>1, <1>2, <1>3 DEF FlowInv, FenceInv, Fenced
<1>6. BatchIsAlone'
  BY <1>0, <1>1, <1>3 DEF BatchIsAlone
<1>7. StepsAreCurrent' /\ ActivateIsCurrent'
  BY <1>0, <1>1, <1>3 DEF StepsAreCurrent, ActivateIsCurrent, DeletePlans, AuxiliaryPlans, WritePlans
<1>8. ModeInv'
  BY <1>0, <1>1, <1>3 DEF FlowInv, ModeInv
<1>9. QuiesceInv'
  BY <1>0, <1>1 DEF QuiesceInv, Fenced
<1>10. ExpiryInv'
  BY <1>1, <1>2 DEF FlowInv, ExpiryInv, Expired
<1> QED
  BY <1>1, <1>4, <1>5, <1>6, <1>7, <1>8, <1>9, <1>10, OwnersFrame DEF FlowInv

LEMMA ReopenReadyPreserves ==
    ASSUME FlowInv, ReopenReady PROVE FlowInv'
<1>1. /\ at = "idle" /\ ready' = TRUE
      /\ UNCHANGED <<maps, cpu, fences, incomplete, retirementFailed, due, batch, counters>>
  BY DEF ReopenReady, BackendFrame
<1>2. TypeOK' /\ BatchType'
  BY <1>1 DEF FlowInv, TypeOK, BatchType, maps, fences, batch, counters
<1>3. FenceInv' /\ BatchIsAlone'
  BY <1>1 DEF FlowInv, FenceInv, Fenced, BatchIsAlone, RequestKeys, fences, batch
<1>4. StepsAreCurrent' /\ ActivateIsCurrent'
  BY <1>1 DEF FlowInv, StepsAreCurrent, ActivateIsCurrent, batch, maps, counters
<1>5. ModeInv' /\ QuiesceInv'
  BY <1>1 DEF FlowInv, ModeInv, QuiesceInv, Fenced, batch
<1>6. ExpiryInv'
  BY <1>1 DEF FlowInv, ExpiryInv, Expired, batch, counters
<1> QED
  BY <1>1, <1>2, <1>3, <1>4, <1>5, <1>6, OwnersFrame DEF FlowInv

(* A barrier marks invocations and nothing else of them.                     *)
LEMMA Marked ==
    ASSUME NEW v \in Invocation, NEW w,
           w = [v EXCEPT !.grace = TRUE] \/ w = [v EXCEPT !.grace = FALSE]
    PROVE  /\ w \in Invocation
           /\ w.pc = v.pc /\ w.key = v.key /\ w.inc = v.inc /\ w.token = v.token
           /\ w.mode = v.mode
BY DEF Invocation

LEMMA Unmarked ==
    ASSUME NEW v, v = Idle PROVE [v EXCEPT !.grace = FALSE] = Idle
<1>1. v \in Invocation /\ v.grace = FALSE
  BY IdleInvocation
<1>2. [v EXCEPT !.grace = FALSE] = v
  BY <1>1 DEF Invocation
<1> QED
  BY <1>2

LEMMA GraceFrame ==
    ASSUME FlowInv, UNCHANGED maps, cpu' = [c \in Cpus |-> cpu'[c]],
           \A c \in Cpus : \/ cpu'[c] = [cpu[c] EXCEPT !.grace = TRUE] /\ cpu[c].pc # "idle"
                          \/ cpu'[c] = [cpu[c] EXCEPT !.grace = FALSE]
    PROVE  /\ cpu' \in [Cpus -> Invocation]
           /\ \A c \in Cpus : /\ cpu'[c].pc = cpu[c].pc /\ cpu'[c].key = cpu[c].key
                              /\ cpu'[c].mode = cpu[c].mode
           /\ InvocationShape' /\ CarrierOwns' /\ HolderClaim' /\ ClaimHeld' /\ AuxiliaryOwned'
<1>0. cpu \in [Cpus -> Invocation] /\ UNCHANGED <<conn, redirect, handoff>>
  BY DEF FlowInv, TypeOK, maps
<1>3. ASSUME NEW c \in Cpus
      PROVE  /\ cpu'[c] \in Invocation
             /\ cpu'[c].pc = cpu[c].pc /\ cpu'[c].key = cpu[c].key
             /\ cpu'[c].inc = cpu[c].inc /\ cpu'[c].token = cpu[c].token
             /\ cpu'[c].mode = cpu[c].mode
             /\ cpu[c] = Idle => cpu'[c] = Idle
  <2>1. cpu[c] \in Invocation
    BY <1>0
  <2>2. cpu[c] = Idle => cpu'[c] = Idle
    BY IdleInvocation, Unmarked
  <2> QED
    BY <2>1, <2>2, Marked
<1>4. cpu' \in [Cpus -> Invocation]
  BY <1>3
<1>5. InvocationShape'
  BY <1>3 DEF FlowInv, InvocationShape, ShapeOf
<1>6. CarrierOwns' /\ AuxiliaryOwned'
  BY <1>0, <1>3 DEF FlowInv, CarrierOwns, AuxiliaryOwned
<1>7. \A c \in Cpus : (Holder(c)' <=> Holder(c)) /\ (Claimed(c)' <=> Claimed(c))
  BY <1>0, <1>3 DEF Holder, Holds, Claimed
<1>8. HolderClaim' /\ ClaimHeld'
  BY <1>0, <1>3, <1>7 DEF FlowInv, HolderClaim, ClaimHeld
<1> QED
  BY <1>3, <1>4, <1>5, <1>6, <1>8

LEMMA GraceBarrierPreserves ==
    ASSUME FlowInv, GraceBarrier PROVE FlowInv'
<1>1. /\ toFence = {}
      /\ (at = "acquire" /\ at' = "execute") \/ (at = "quiesce" /\ at' = "quiesceGrace")
      /\ UNCHANGED <<maps, fences, flags, due, mode, requests, toFence, held, steps, image,
                     failure, unresolved, refused, counters>>
  BY DEF GraceBarrier, Barrier, BackendFrame
<1>2. cpu' = [c \in Cpus |-> [cpu[c] EXCEPT !.grace = (cpu[c].pc # "idle")]]
  BY DEF GraceBarrier, Barrier
<1>3. /\ cpu' \in [Cpus -> Invocation]
      /\ \A c \in Cpus : /\ cpu'[c].pc = cpu[c].pc /\ cpu'[c].key = cpu[c].key
                         /\ cpu'[c].mode = cpu[c].mode /\ cpu'[c].grace = (cpu[c].pc # "idle")
      /\ InvocationShape' /\ CarrierOwns' /\ HolderClaim' /\ ClaimHeld' /\ AuxiliaryOwned'
  <2>1. cpu' = [c \in Cpus |-> cpu'[c]]
    BY <1>2
  <2>2. \A c \in Cpus : cpu'[c] = [cpu[c] EXCEPT !.grace = (cpu[c].pc # "idle")]
    BY <1>2
  <2>3. \A c \in Cpus : \/ cpu'[c] = [cpu[c] EXCEPT !.grace = TRUE] /\ cpu[c].pc # "idle"
                        \/ cpu'[c] = [cpu[c] EXCEPT !.grace = FALSE]
    BY <2>2
  <2>4. \A c \in Cpus : cpu'[c].grace = (cpu[c].pc # "idle")
    BY <2>2 DEF FlowInv, TypeOK, Invocation
  <2>5. UNCHANGED maps
    BY <1>1
  <2>6. /\ cpu' \in [Cpus -> Invocation]
        /\ \A c \in Cpus : /\ cpu'[c].pc = cpu[c].pc /\ cpu'[c].key = cpu[c].key
                           /\ cpu'[c].mode = cpu[c].mode
        /\ InvocationShape' /\ CarrierOwns' /\ HolderClaim' /\ ClaimHeld' /\ AuxiliaryOwned'
    BY <2>1, <2>3, <2>5, GraceFrame
  <2> QED
    BY <2>4, <2>6
<1>4. TypeOK' /\ BatchType'
  BY <1>1, <1>3 DEF FlowInv, TypeOK, BatchType, maps, fences, flags, counters
<1>5. FenceInv'
  BY <1>1 DEF FlowInv, FenceInv, Fenced, fences, flags
<1>6. steps = <<>>
  BY <1>1 DEF FlowInv, BatchIsAlone
<1>7. BatchIsAlone'
  BY ZenonT(40), <1>1, <1>3, <1>6 DEF FlowInv, BatchIsAlone, RequestKeys
<1>8. StepsAreCurrent' /\ ActivateIsCurrent'
  BY <1>1, <1>6 DEF StepsAreCurrent, ActivateIsCurrent, DeletePlans, AuxiliaryPlans, WritePlans
<1>9. ModeInv'
  BY <1>1 DEF FlowInv, ModeInv, flags
<1>10. QuiesceInv'
  <2>1. \A c \in Cpus : cpu[c].mode = "stage" => cpu[c].pc # "idle"
    BY IdleInvocation DEF FlowInv, InvocationShape, ShapeOf
  <2>2. /\ at' = "quiesceGrace" => \A c \in Cpus : cpu'[c].mode = "stage" => cpu'[c].grace
        /\ at' = "execute" => Fenced
        /\ \A c \in Cpus : cpu'[c].mode = cpu[c].mode
    BY <1>1, <1>3, <2>1 DEF Fenced
  <2>3. /\ UNCHANGED <<conn, mode, requests, failure, refused, ready, incomplete>>
        /\ at' \in {"execute", "quiesceGrace"}
    BY <1>1 DEF flags, maps
  <2>4. QuiesceInv
    BY DEF FlowInv
  <2> QED
    BY <2>2, <2>3, <2>4 DEF QuiesceInv, Fenced, TokenBound
<1>11. ExpiryInv'
  BY <1>1 DEF FlowInv, ExpiryInv, Expired, counters
<1> QED
  BY <1>3, <1>4, <1>5, <1>7, <1>8, <1>9, <1>10, <1>11 DEF FlowInv

(* The backend comes to rest.                                                *)
LEMMA SettleFrame ==
    ASSUME FlowInv, Settle, UNCHANGED <<due, now>>
    PROVE  /\ BatchType' /\ BatchIsAlone' /\ StepsAreCurrent' /\ ActivateIsCurrent'
           /\ ModeInv' /\ ExpiryInv'
           /\ at' = "idle" /\ mode' = "none" /\ held' = {} /\ toFence' = {} /\ image' = None
           /\ failure' = FALSE /\ unresolved' = FALSE /\ refused' = FALSE
<1>1. /\ at' = "idle" /\ mode' = "none" /\ requests' = <<>>
      /\ toFence' = {} /\ held' = {} /\ steps' = <<>> /\ image' = None
      /\ failure' = FALSE /\ unresolved' = FALSE /\ refused' = FALSE
  BY DEF Settle
<1>2. BatchType' /\ BatchIsAlone' /\ ModeInv'
  BY <1>1 DEF FlowInv, BatchType, BatchIsAlone, ModeInv
<1>3. StepsAreCurrent' /\ ActivateIsCurrent'
  BY <1>1 DEF StepsAreCurrent, ActivateIsCurrent, DeletePlans, AuxiliaryPlans, WritePlans
<1>4. ExpiryInv'
  BY <1>1 DEF FlowInv, ExpiryInv, Expired
<1> QED
  BY <1>1, <1>2, <1>3, <1>4

(* The requests of a quiescence name every token-bound owner.                *)
LEMMA StagedAreRequested ==
    ASSUME FlowInv, NEW rs \in StagedRequests
    PROVE  /\ rs \in Seq(Requests)
           /\ \A i \in DOMAIN rs : rs[i].kind = "pending"
           /\ \A k \in Keys : TokenBound(k) =>
                 \E i \in DOMAIN rs :
                     /\ rs[i].key = k
                     /\ rs[i].token = conn[k].token /\ rs[i].inc = conn[k].inc
<1> DEFINE staged == {k \in Keys : conn[k] # None /\ Staged(conn[k].state)}
           request(k) == Request("pending", k, conn[k].token, conn[k].inc, None, 0)
<1>1. Cardinality(staged) \in Nat
  BY KeysAreFinite, FS_Subset, FS_CardinalityType
<1>2. /\ rs \in [1..Cardinality(staged) -> {request(k) : k \in staged}]
      /\ {rs[i].key : i \in DOMAIN rs} = staged
  BY DEF StagedRequests
<1>3. \A k \in staged : /\ request(k) \in Requests /\ request(k).kind = "pending" /\ request(k).key = k
                        /\ request(k).token = conn[k].token /\ request(k).inc = conn[k].inc
  <2>1. ASSUME NEW k \in staged
        PROVE  conn[k].token \in 0..MaxToken /\ conn[k].inc \in 0..MaxInc /\ 0 \in 0..MaxNow
    <3>1. conn[k] \in ConnStates
      BY DEF FlowInv, TypeOK
    <3> QED
      BY <3>1, BoundsAreNaturals DEF ConnStates
  <2> QED
    BY <2>1 DEF Request, Requests, RetireKinds
<1>4. ASSUME NEW i \in DOMAIN rs
      PROVE  /\ rs[i] \in Requests /\ rs[i].kind = "pending"
             /\ rs[i].token = conn[rs[i].key].token /\ rs[i].inc = conn[rs[i].key].inc
  <2>1. PICK k \in staged : rs[i] = request(k)
    BY <1>2, <1>4
  <2> HIDE DEF request, staged
  <2> QED
    BY <1>3, <2>1
<1>5. rs \in Seq(Requests)
  <2> HIDE DEF request, staged
  <2>1. DOMAIN rs = 1..Cardinality(staged) /\ rs = [i \in 1..Cardinality(staged) |-> rs[i]]
    BY <1>2
  <2> QED
    BY <1>1, <1>4, <2>1
<1>6. ASSUME NEW k \in Keys, TokenBound(k)
      PROVE  \E i \in DOMAIN rs : rs[i].key = k
  <2>1. k \in staged
    BY <1>6 DEF TokenBound
  <2> QED
    BY <1>2, <2>1
<1> QED
  BY <1>4, <1>5, <1>6

LEMMA QuiesceScanPreserves ==
    ASSUME FlowInv, QuiesceScan PROVE FlowInv'
<1>1. at = "quiesceGrace" /\ GraceOver /\ UNCHANGED <<maps, cpu, ready, retirementFailed, due, counters>>
  BY DEF QuiesceScan, BackendFrame
<1>2. ~ready /\ incomplete /\ mode = "quiesce" /\ ~retirementFailed
  BY <1>1 DEF FlowInv, ModeInv, FenceInv
<1>3. \A c \in Cpus : cpu[c].mode # "stage"
  BY <1>1 DEF FlowInv, QuiesceInv, GraceOver
<1>4. PICK rs \in StagedRequests :
        IF rs = <<>> THEN Settle /\ incomplete' = FALSE /\ UNCHANGED fences
        ELSE Start("quiesce", rs) /\ UNCHANGED incomplete
  BY DEF QuiesceScan
<1>5. CASE rs = <<>>
  <2>1. Settle /\ incomplete' = FALSE /\ UNCHANGED <<fences, due, now>>
    BY <1>1, <1>4, <1>5 DEF counters
  <2>2. \A k \in Keys : ~TokenBound(k)
    BY <1>5, StagedAreRequested
  <2>3. ~active /\ fence = {}
    BY <1>1, <1>2, AtRest
  <2>4. TypeOK'
    BY <1>1, <2>1, SettleFrame DEF FlowInv, TypeOK, maps, fences, counters
  <2>5. FenceInv'
    BY <2>1, <2>3, SettleFrame DEF FenceInv, Fenced, fences
  <2>6. QuiesceInv'
    BY <1>1, <1>3, <2>1, <2>2, SettleFrame DEF QuiesceInv, Fenced, TokenBound, maps
  <2> QED
    BY <1>1, <2>1, <2>4, <2>5, <2>6, SettleFrame, OwnersFrame DEF FlowInv
<1>6. CASE rs # <<>>
  <2>1. Start("quiesce", rs) /\ UNCHANGED <<maps, cpu, flags, due, counters>>
    BY <1>1, <1>4, <1>6 DEF flags
  <2>2. \A i \in DOMAIN rs : Expired(rs[i])
    BY StagedAreRequested DEF Expired
  <2> QED
    BY <1>1, <1>2, <1>3, <1>6, <2>1, <2>2, StagedAreRequested, StartPreserves
<1> QED
  BY <1>5, <1>6

LEMMA AcquireFencePreserves ==
    ASSUME FlowInv, AcquireFence PROVE FlowInv'
<1>1. PICK k \in toFence : fence' = fence \cup {k} /\ held' = held \cup {k} /\ toFence' = toFence \ {k}
  BY DEF AcquireFence
<1>2. /\ at = "acquire"
      /\ UNCHANGED <<maps, cpu, active, flags, due, at, mode, requests, steps, image,
                     failure, unresolved, refused, counters>>
  BY DEF AcquireFence, BackendFrame
<1>3. TypeOK' /\ BatchType'
  BY <1>1, <1>2 DEF FlowInv, TypeOK, BatchType, maps, flags, counters
<1>4. FenceInv'
  BY <1>1, <1>2 DEF FlowInv, FenceInv, Fenced, flags
<1>5. BatchIsAlone' /\ steps = <<>>
  BY <1>1, <1>2 DEF FlowInv, BatchIsAlone, RequestKeys
<1>6. StepsAreCurrent' /\ ActivateIsCurrent'
  BY <1>2, <1>5 DEF StepsAreCurrent, ActivateIsCurrent, DeletePlans, AuxiliaryPlans, WritePlans
<1>7. ModeInv' /\ QuiesceInv'
  BY <1>2 DEF FlowInv, ModeInv, QuiesceInv, Fenced, TokenBound, flags, maps
<1>8. ExpiryInv'
  BY <1>2 DEF FlowInv, ExpiryInv, Expired, counters
<1> QED
  BY <1>2, <1>3, <1>4, <1>5, <1>6, <1>7, <1>8, OwnersFrame DEF FlowInv

(* An operation gives up its batch and goes on to release its fences.        *)
LEMMA BatchAbandoned ==
    ASSUME FlowInv, Fenced, failure' = TRUE, at' = "release", requests' = <<>>, steps' = <<>>,
           image' \in {None, image}, UNCHANGED <<conn, ready, incomplete, retirementFailed, mode, due, now>>,
           (\A c \in Cpus : cpu'[c].mode = cpu[c].mode)
    PROVE  /\ BatchType' /\ BatchIsAlone' /\ StepsAreCurrent' /\ ActivateIsCurrent'
           /\ ModeInv' /\ QuiesceInv' /\ ExpiryInv'
<1>1. BatchType' /\ BatchIsAlone'
  BY DEF FlowInv, BatchType, BatchIsAlone
<1>2. StepsAreCurrent' /\ ActivateIsCurrent'
  BY DEF StepsAreCurrent, ActivateIsCurrent, DeletePlans, AuxiliaryPlans, WritePlans
<1>3. ModeInv'
  BY DEF FlowInv, ModeInv
<1>4. QuiesceInv'
  BY DEF FlowInv, QuiesceInv, Fenced, TokenBound
<1>5. ExpiryInv'
  BY DEF FlowInv, ExpiryInv, Expired
<1> QED
  BY <1>1, <1>2, <1>3, <1>4, <1>5

LEMMA AcquireFenceFailsPreserves ==
    ASSUME FlowInv, AcquireFenceFails PROVE FlowInv'
<1>1. /\ at = "acquire" /\ failure' = TRUE /\ toFence' = {} /\ at' = "release" /\ requests' = <<>>
      /\ UNCHANGED <<maps, cpu, active, flags, due, mode, held, steps, image, refused, counters>>
  BY DEF AcquireFenceFails, BackendFrame
<1>2. PICK k \in toFence : \/ fence' = fence \cup {k} /\ unresolved' = TRUE
                           \/ fence' = fence /\ unresolved' \in BOOLEAN
  BY DEF AcquireFenceFails
<1>3. TypeOK'
  BY <1>1, <1>2 DEF FlowInv, TypeOK, maps, flags, counters
<1>4. FenceInv'
  BY <1>1, <1>2 DEF FlowInv, FenceInv, Fenced, flags
<1>5. Fenced /\ steps = <<>>
  BY <1>1 DEF FlowInv, BatchIsAlone, Fenced
<1>6. UNCHANGED <<conn, ready, incomplete, retirementFailed, mode, due, now, cpu>>
  BY <1>1 DEF maps, flags, counters
<1> QED
  BY <1>1, <1>3, <1>4, <1>5, <1>6, BatchAbandoned, OwnersFrame DEF FlowInv

LEMMA MutateFailsPreserves ==
    ASSUME FlowInv, MutateFails PROVE FlowInv'
<1>1. /\ at = "execute" /\ failure' = TRUE /\ at' = "release" /\ requests' = <<>> /\ steps' = <<>>
      /\ image' = None
      /\ UNCHANGED <<maps, cpu, fences, flags, due, mode, toFence, held, unresolved, refused, counters>>
  BY DEF MutateFails, BackendFrame
<1>2. TypeOK'
  BY <1>1 DEF FlowInv, TypeOK, maps, fences, flags, counters
<1>3. FenceInv' /\ Fenced
  BY <1>1 DEF FlowInv, FenceInv, Fenced, fences, flags
<1>4. UNCHANGED <<conn, ready, incomplete, retirementFailed, mode, due, now, cpu>>
  BY <1>1 DEF maps, flags, counters
<1> QED
  BY <1>1, <1>2, <1>3, <1>4, BatchAbandoned, OwnersFrame DEF FlowInv

LEMMA BarrierFailsPreserves ==
    ASSUME FlowInv, BarrierFails PROVE FlowInv'
<1>1. /\ cpu' = [c \in Cpus |-> [cpu[c] EXCEPT !.grace = FALSE]]
      /\ UNCHANGED <<maps, fences, flags, due, counters>>
  BY DEF BarrierFails, BackendFrame
<1>2. UNCHANGED <<conn, redirect, handoff, active, fence, ready, incomplete, retirementFailed, incs, tokens, now>>
  BY <1>1 DEF maps, fences, flags, counters
<1>3. /\ cpu' \in [Cpus -> Invocation]
      /\ \A c \in Cpus : cpu'[c].mode = cpu[c].mode
      /\ InvocationShape' /\ CarrierOwns' /\ HolderClaim' /\ ClaimHeld' /\ AuxiliaryOwned'
  <2>1. cpu' = [c \in Cpus |-> cpu'[c]]
    BY <1>1
  <2>2. \A c \in Cpus : cpu'[c] = [cpu[c] EXCEPT !.grace = FALSE]
    BY <1>1
  <2> QED
    BY <1>1, <2>1, <2>2, GraceFrame
<1>4. CASE at \in {"quiesce", "quiesceGrace"}
  <2>1. Settle
    BY <1>4 DEF BarrierFails
  <2>2. incomplete /\ ~active /\ fence = {}
    BY <1>4, AtRest DEF FlowInv, ModeInv, FenceInv
  <2>3. TypeOK'
    BY <1>2, <1>3, <2>1, SettleFrame, <1>1 DEF FlowInv, TypeOK
  <2>4. FenceInv' /\ QuiesceInv'
    BY <1>1, <1>2, <2>1, <2>2, SettleFrame DEF FenceInv, QuiesceInv, Fenced
  <2> QED
    BY <1>1, <1>2, <1>3, <2>1, <2>3, <2>4, SettleFrame DEF FlowInv
<1>5. CASE at = "acquire"
  <2>1. /\ failure' = TRUE /\ at' = "release" /\ requests' = <<>>
        /\ UNCHANGED <<mode, toFence, held, steps, image, unresolved, refused>>
    BY <1>5 DEF BarrierFails
  <2>2. TypeOK'
    BY <1>2, <1>3, <2>1 DEF FlowInv, TypeOK
  <2>3. FenceInv' /\ Fenced
    BY <1>2, <1>5, <2>1 DEF FlowInv, FenceInv, Fenced
  <2>4. steps' = <<>>
    BY <1>5, <2>1 DEF FlowInv, BatchIsAlone
  <2> QED
    BY <1>1, <1>2, <1>3, <2>1, <2>2, <2>3, <2>4, BatchAbandoned DEF FlowInv
<1> QED
  BY <1>4, <1>5 DEF BarrierFails

LEMMA ReleasePreserves ==
    ASSUME FlowInv, ReleaseFence \/ ReleaseFenceFails PROVE FlowInv'
<1>1. PICK k \in held :
        /\ held' = held \ {k}
        /\ \/ fence' = fence \ {k} /\ UNCHANGED <<failure, unresolved>>
           \/ UNCHANGED fence /\ failure' = TRUE /\ unresolved' = TRUE
  BY DEF ReleaseFence, ReleaseFenceFails, fences
<1>2. /\ at = "release"
      /\ UNCHANGED <<maps, cpu, active, flags, due, at, mode, requests, toFence, steps, image,
                     refused, counters>>
  BY DEF ReleaseFence, ReleaseFenceFails, fences, BackendFrame
<1>3. TypeOK'
  BY ZenonT(40), <1>1, <1>2 DEF FlowInv, TypeOK, maps, flags, counters
<1>4. BatchType'
  BY <1>2 DEF FlowInv, BatchType
<1>5. FenceInv'
  BY <1>1, <1>2 DEF FlowInv, FenceInv, Fenced, flags
<1>6. BatchIsAlone' /\ steps = <<>>
  BY <1>2 DEF FlowInv, BatchIsAlone
<1>7. StepsAreCurrent' /\ ActivateIsCurrent'
  BY <1>2, <1>6 DEF StepsAreCurrent, ActivateIsCurrent, DeletePlans, AuxiliaryPlans, WritePlans
<1>8. ModeInv' /\ QuiesceInv'
  BY <1>1, <1>2 DEF FlowInv, ModeInv, QuiesceInv, Fenced, TokenBound, flags, maps
<1>9. ExpiryInv'
  BY <1>2 DEF FlowInv, ExpiryInv, Expired, counters
<1> QED
  BY <1>2, <1>3, <1>4, <1>5, <1>6, <1>7, <1>8, <1>9, OwnersFrame DEF FlowInv

LEMMA FinishPreserves ==
    ASSUME FlowInv, Finish PROVE FlowInv'
<1>1. /\ at = "release" /\ held = {} /\ Settle
      /\ UNCHANGED <<maps, cpu, fence, ready, due, counters>>
  BY DEF Finish, BackendFrame
<1>2. UNCHANGED <<conn, redirect, handoff, incs, tokens, now>>
  BY <1>1 DEF maps, counters
<1>3. \/ retirementFailed' = TRUE /\ UNCHANGED <<active, incomplete>>
      \/ /\ ~unresolved /\ active' = FALSE /\ UNCHANGED retirementFailed
         /\ \/ UNCHANGED incomplete
            \/ mode = "quiesce" /\ ~failure /\ ~refused /\ incomplete' = FALSE
  BY DEF Finish
<1>4. TypeOK'
  BY <1>1, <1>2, <1>3, SettleFrame DEF FlowInv, TypeOK
<1>5. FenceInv'
  BY <1>1, <1>2, <1>3, SettleFrame DEF FlowInv, FenceInv, Fenced
<1>6. mode = "quiesce" /\ ~failure /\ ~refused =>
        (\A c \in Cpus : cpu[c].mode # "stage") /\ \A k \in Keys : ~TokenBound(k)
  BY <1>1 DEF FlowInv, QuiesceInv, BatchIsAlone, Fenced
<1>7. QuiesceInv'
  BY <1>1, <1>2, <1>3, <1>6, SettleFrame DEF FlowInv, QuiesceInv, Fenced, TokenBound
<1> QED
  BY <1>1, <1>2, <1>4, <1>5, <1>7, SettleFrame, OwnersFrame DEF FlowInv

LEMMA ActivateReadPreserves ==
    ASSUME FlowInv, ActivateRead PROVE FlowInv'
<1>1. PICK k \in Keys, t \in 1..tokens :
        /\ conn[k] # None /\ conn[k].state = "DirectArmed"
        /\ requests' = <<Request("activate", k, t, conn[k].inc, None, 0)>>
        /\ image' = [conn[k] EXCEPT !.state = "None"]
  BY DEF ActivateRead
<1>2. /\ at = "idle" /\ ~retirementFailed /\ at' = "activate" /\ mode' = "activate"
      /\ UNCHANGED <<maps, cpu, fences, flags, due, toFence, held, steps, failure, unresolved, refused, counters>>
  BY DEF ActivateRead, BackendFrame
<1> DEFINE r == Request("activate", k, t, conn[k].inc, None, 0)
<1>3. conn[k] \in ConnStates /\ image' \in ConnStates
  <2>1. conn[k] \in ConnStates
    BY <1>1 DEF FlowInv, TypeOK
  <2> QED
    BY <1>1, <2>1 DEF ConnStates, UdpDecisionState
<1>4. t \in 0..MaxToken /\ conn[k].inc \in 0..MaxInc /\ 0 \in 0..MaxNow
  BY <1>3, TokensTyped, BoundsAreNaturals DEF ConnStates
<1>5. r \in Requests /\ r.kind = "activate" /\ r.key = k
  BY <1>4 DEF Request, Requests
<1>6. requests' = <<r>>
  BY <1>1
<1> HIDE DEF r
<1>7. TypeOK'
  BY <1>2, <1>3 DEF FlowInv, TypeOK, maps, fences, flags, counters
<1>8. BatchType'
  BY <1>2, <1>5, <1>6 DEF FlowInv, BatchType
<1>9. FenceInv'
  BY <1>2 DEF FlowInv, FenceInv, Fenced, fences, flags
<1>10. steps = <<>>
  BY <1>2, AtRest
<1>11. BatchIsAlone'
  BY <1>2, <1>10 DEF BatchIsAlone
<1>12. StepsAreCurrent'
  BY <1>2, <1>10 DEF StepsAreCurrent, DeletePlans, AuxiliaryPlans, WritePlans
<1>13. ActivateIsCurrent'
  <2>1. Head(requests') = r /\ requests' # <<>> /\ conn' = conn
    BY <1>2, <1>6 DEF maps
  <2> QED
    BY <1>1, <1>5, <2>1 DEF ActivateIsCurrent
<1>14. ModeInv' /\ QuiesceInv'
  BY <1>2 DEF FlowInv, ModeInv, QuiesceInv, Fenced, TokenBound, flags, maps
<1>15. ExpiryInv'
  <2>1. ~(r.kind = "expiredConn") /\ ~(r.kind = "hint")
    BY <1>5
  <2>2. \A i \in DOMAIN requests' : requests'[i] = r
    BY <1>6
  <2> QED
    BY <1>2, <2>1, <2>2 DEF FlowInv, ExpiryInv, Expired, counters
<1> QED
  BY <1>2, <1>7, <1>8, <1>9, <1>11, <1>12, <1>13, <1>14, <1>15, OwnersFrame DEF FlowInv

(* The owner of a tuple decides further, keeping its incarnation: nobody in  *)
(* the kernel holds a claim on it.                                           *)
LEMMA OwnerDecides ==
    ASSUME FlowInv, NEW k \in Keys, NEW e \in ConnStates, conn[k] # None,
           conn[k].state # "Preparing", e.inc = conn[k].inc, e.state # "Preparing",
           conn' = [conn EXCEPT ![k] = e], UNCHANGED <<redirect, handoff, cpu>>
    PROVE  /\ conn' \in [Keys -> ConnStates \cup {None}]
           /\ InvocationShape' /\ CarrierOwns' /\ HolderClaim' /\ ClaimHeld' /\ AuxiliaryOwned'
<1>0. conn \in [Keys -> ConnStates \cup {None}]
  BY DEF FlowInv, TypeOK
<1>1. conn'[k] = e /\ e # None /\ \A j \in Keys : j # k => conn'[j] = conn[j]
  BY <1>0, NoneIsNoEntry
<1>2. \A j \in Keys : (conn'[j] # None <=> conn[j] # None) /\ (conn[j] # None => conn'[j].inc = conn[j].inc)
  BY <1>1
<1>3. \A d \in Cpus : cpu[d].pc # "idle" => cpu[d].key \in Keys
  BY DEF FlowInv, InvocationShape, ShapeOf
<1>4. InvocationShape'
  BY DEF FlowInv, InvocationShape
<1>5. CarrierOwns'
  <2>1. \A d \in Cpus : cpu[d].pc \in CarrierPcs => cpu[d].key \in Keys
    BY <1>3 DEF CarrierPcs
  <2> QED
    BY <1>2, <2>1 DEF FlowInv, CarrierOwns
<1>6. AuxiliaryOwned'
  BY <1>2 DEF FlowInv, AuxiliaryOwned
<1>7. \A d \in Cpus : Holder(d) => Claimed(d) /\ cpu[d].key \in Keys /\ cpu[d].key # k
  <2>1. \A d \in Cpus : Holder(d) => cpu[d].pc # "idle"
    BY IdleInvocation DEF FlowInv, InvocationShape, ShapeOf, Holder, Holds
  <2> QED
    BY <1>3, <2>1 DEF FlowInv, HolderClaim, Claimed
<1>8. HolderClaim'
  BY <1>1, <1>7 DEF FlowInv, HolderClaim, Holder, Claimed
<1>9. ClaimHeld'
  BY <1>1 DEF FlowInv, ClaimHeld, Holder
<1> QED
  BY <1>0, <1>1, <1>4, <1>5, <1>6, <1>8, <1>9

LEMMA ActivateWritePreserves ==
    ASSUME FlowInv, ActivateWrite PROVE FlowInv'
<1> DEFINE k == Head(requests).key
<1>1. at = "activate" /\ Settle /\ UNCHANGED <<redirect, handoff, cpu, fences, flags, due, counters>>
  BY DEF ActivateWrite, BackendFrame
<1>2. ActivateIsCurrent /\ requests \in Seq(Requests) /\ image \in ConnStates \cup {None}
  BY DEF FlowInv, BatchType, TypeOK
<1>3. requests # <<>> /\ Head(requests) \in Requests
  BY <1>1, <1>2 DEF ActivateIsCurrent
<1>4. /\ k \in Keys /\ conn[k] # None /\ conn[k].state = "DirectArmed"
      /\ image = [conn[k] EXCEPT !.state = "None"]
  BY <1>1, <1>2, <1>3 DEF ActivateIsCurrent, Requests
<1>5. conn' = [conn EXCEPT ![k] = image]
  BY <1>4 DEF ActivateWrite
<1>6. image \in ConnStates /\ image.inc = conn[k].inc /\ image.state = "None"
  <2>1. conn[k] \in ConnStates
    BY <1>4 DEF FlowInv, TypeOK
  <2> QED
    BY <1>4, <2>1 DEF ConnStates, UdpDecisionState
<1>7. /\ conn' \in [Keys -> ConnStates \cup {None}]
      /\ InvocationShape' /\ CarrierOwns' /\ HolderClaim' /\ ClaimHeld' /\ AuxiliaryOwned'
  BY <1>1, <1>4, <1>5, <1>6, OwnerDecides
<1>8. UNCHANGED now
  BY <1>1 DEF counters
<1>9. TypeOK'
  BY <1>1, <1>7, <1>8, SettleFrame DEF FlowInv, TypeOK, fences, flags, counters
<1>10. FenceInv'
  BY <1>1, <1>8, SettleFrame DEF FlowInv, FenceInv, Fenced, fences, flags
<1>11. QuiesceInv'
  <2>1. \A j \in Keys : TokenBound(j)' => TokenBound(j)
    <3>1. conn'[k] = image /\ \A j \in Keys : j # k => conn'[j] = conn[j]
      BY <1>4, <1>5 DEF FlowInv, TypeOK
    <3> QED
      BY <1>6, <3>1 DEF TokenBound, Staged
  <2>2. UNCHANGED <<cpu, ready, incomplete>> /\ at' = "idle" /\ mode' = "none"
    BY <1>1, <1>8, SettleFrame DEF flags
  <2> QED
    BY <2>1, <2>2 DEF FlowInv, QuiesceInv, Fenced
<1> QED
  BY <1>1, <1>7, <1>8, <1>9, <1>10, <1>11, SettleFrame DEF FlowInv

LEMMA TailRequests ==
    ASSUME NEW rs \in Seq(Requests), rs # <<>>
    PROVE  /\ Tail(rs) \in Seq(Requests) /\ 1 \in DOMAIN rs /\ Head(rs) = rs[1]
           /\ \A i \in DOMAIN Tail(rs) : i + 1 \in DOMAIN rs /\ Tail(rs)[i] = rs[i + 1]
           /\ \A i \in DOMAIN rs : i # 1 => i - 1 \in DOMAIN Tail(rs) /\ Tail(rs)[i - 1] = rs[i]
OBVIOUS

(* The batch goes on to its next step or request.                            *)
LEMMA AdvanceFrame ==
    ASSUME FlowInv, at = "execute", NEW rest, rest = requests \/ (rest = Tail(requests) /\ steps' = <<>>),
           Advance(rest), \A c \in Cpus : cpu[c].pc # "idle" => cpu[c].key \notin RequestKeys,
           UNCHANGED <<fences, flags, due, mode, toFence, held, failure, unresolved, cpu, now>>
    PROVE  /\ FenceInv' /\ BatchIsAlone' /\ ActivateIsCurrent' /\ ModeInv' /\ ExpiryInv'
           /\ requests' \in Seq(Requests)
           /\ at' \in {"execute", "release"}
           /\ rest = requests => at' = at /\ requests' = requests
<1>1. requests \in Seq(Requests) /\ requests # <<>>
  BY DEF FlowInv, BatchType, BatchIsAlone
<1>2. requests' = rest /\ at' = IF rest = <<>> THEN "release" ELSE at
  BY DEF Advance
<1>3. /\ rest \in Seq(Requests)
      /\ \A i \in DOMAIN rest : \E j \in DOMAIN requests : rest[i] = requests[j]
  <2>1. CASE rest = requests
    BY <1>1, <2>1
  <2>2. CASE rest = Tail(requests)
    BY <1>1, <2>2, TailRequests
  <2> QED
    BY <2>1, <2>2
<1>4. FenceInv'
  BY <1>2 DEF FlowInv, FenceInv, Fenced, fences, flags
<1>5. RequestKeys' \subseteq RequestKeys
  BY <1>2, <1>3 DEF RequestKeys
<1>6. BatchIsAlone'
  <2>1. RequestKeys \subseteq held
    BY DEF FlowInv, BatchIsAlone
  <2>2. steps' # <<>> => at' = "execute"
    BY <1>1, <1>2
  <2> QED
    BY <1>2, <1>5, <2>1, <2>2 DEF BatchIsAlone
<1>7. ActivateIsCurrent'
  BY <1>2 DEF ActivateIsCurrent
<1>8. ModeInv'
  <2>1. mode = "commit" => \A i \in DOMAIN rest : rest[i].kind \in Transitions
    BY <1>3 DEF FlowInv, ModeInv
  <2>2. mode = "quiesce" => \A i \in DOMAIN rest : rest[i].kind = "pending"
    BY <1>3 DEF FlowInv, ModeInv
  <2> QED
    BY <1>2, <2>1, <2>2 DEF FlowInv, ModeInv, flags
<1>9. ExpiryInv'
  <2>1. \A i \in DOMAIN rest : Expired(rest[i])
    BY <1>3 DEF FlowInv, ExpiryInv
  <2> QED
    BY <1>2, <2>1 DEF FlowInv, ExpiryInv, Expired
<1> QED
  BY <1>1, <1>2, <1>3, <1>4, <1>6, <1>7, <1>8, <1>9

(* Short sequences, put together.                                            *)
LEMMA Concats ==
    ASSUME NEW a, NEW b, NEW c
    PROVE  /\ <<a>> \o <<b>> = <<a, b>>
           /\ <<a, b>> \o <<c>> = <<a, b, c>>
           /\ <<>> \o <<a>> = <<a>> /\ <<a>> \o <<>> = <<a>> /\ <<>> \o <<>> = <<>>
<1> DEFINE S == {a, b, c}
<1>1. <<>> \in Seq(S) /\ <<a>> \in Seq(S) /\ <<b>> \in Seq(S) /\ <<c>> \in Seq(S)
      /\ <<a, b>> \in Seq(S) /\ <<a, b, c>> \in Seq(S)
  OBVIOUS
<1>2. <<a>> \o <<b>> = <<a, b>>
  <2> DEFINE s == <<a>> \o <<b>>
             t == <<a, b>>
  <2>1. s \in Seq(S) /\ Len(s) = 2 /\ s[1] = a /\ s[2] = b
    BY <1>1
  <2>2. t \in Seq(S) /\ Len(t) = 2 /\ t[1] = a /\ t[2] = b
    BY <1>1
  <2> HIDE DEF s, t, S
  <2>3. \A i \in 1..Len(s) : s[i] = t[i]
    BY <2>1, <2>2
  <2>4. s = t
    BY <2>1, <2>2, <2>3, SeqEqual
  <2> QED
    BY <2>4 DEF s, t
<1>3. <<a, b>> \o <<c>> = <<a, b, c>>
  <2> DEFINE s == <<a, b>> \o <<c>>
             t == <<a, b, c>>
  <2>1. s \in Seq(S) /\ Len(s) = 3 /\ s[1] = a /\ s[2] = b /\ s[3] = c
    BY <1>1
  <2>2. t \in Seq(S) /\ Len(t) = 3 /\ t[1] = a /\ t[2] = b /\ t[3] = c
    BY <1>1
  <2> HIDE DEF s, t, S
  <2>3. \A i \in 1..Len(s) : s[i] = t[i]
    BY <2>1, <2>2
  <2>4. s = t
    BY <2>1, <2>2, <2>3, SeqEqual
  <2> QED
    BY <2>4 DEF s, t
<1>4. <<>> \o <<a>> = <<a>> /\ <<a>> \o <<>> = <<a>> /\ <<>> \o <<>> = <<>>
  BY <1>1, ConcatEmptySeq
<1> QED
  BY <1>2, <1>3, <1>4

(* The deletions of a plan start with the auxiliaries there are.             *)
LEMMA ConnPlanShape ==
    ASSUME NEW k
    PROVE  /\ ConnPlan(k) \in DeletePlans
           /\ handoff[k] # None => Head(ConnPlan(k)) = "handoff"
           /\ redirect[k] # None => ConnPlan(k) \notin {<<"handoff", "conn">>, <<"conn">>}
<1>1. CASE handoff[k] # None /\ redirect[k] # None
  <2>1. ConnPlan(k) = <<"handoff", "redirect", "conn">>
    <3>1. Present("handoff", handoff[k]) = <<"handoff">> /\ Present("redirect", redirect[k]) = <<"redirect">>
      BY <1>1 DEF Present
    <3> QED
      BY <3>1, Concats DEF ConnPlan
  <2> QED
    BY <2>1 DEF DeletePlans
<1>2. CASE handoff[k] # None /\ redirect[k] = None
  <2>1. ConnPlan(k) = <<"handoff", "conn">>
    <3>1. Present("handoff", handoff[k]) = <<"handoff">> /\ Present("redirect", redirect[k]) = <<>>
      BY <1>2 DEF Present
    <3> QED
      BY <3>1, Concats DEF ConnPlan
  <2> QED
    BY <1>2, <2>1 DEF DeletePlans
<1>3. CASE handoff[k] = None /\ redirect[k] # None
  <2>1. ConnPlan(k) = <<"redirect", "conn">>
    <3>1. Present("handoff", handoff[k]) = <<>> /\ Present("redirect", redirect[k]) = <<"redirect">>
      BY <1>3 DEF Present
    <3> QED
      BY <3>1, Concats DEF ConnPlan
  <2> QED
    BY <1>3, <2>1 DEF DeletePlans
<1>4. CASE handoff[k] = None /\ redirect[k] = None
  <2>1. ConnPlan(k) = <<"conn">>
    BY <1>4 DEF ConnPlan, Present
  <2> QED
    BY <1>4, <2>1 DEF DeletePlans
<1> QED
  BY <1>1, <1>2, <1>3, <1>4

(* What a retirement plans: deletions of an owner the request may remove, or *)
(* of auxiliaries alone.                                                     *)
LEMMA RetirementPlans ==
    ASSUME FlowInv, NEW r \in Requests, Expired(r), NEW plan \in PlanRetirement(r)
    PROVE  \/ plan = <<>>
           \/ plan \in AuxiliaryPlans /\ r.kind \in {"hint", "expiredRedirect", "expiredHandoff"}
           \/ /\ plan = ConnPlan(r.key) /\ ConnResult(r) = "Applied"
              /\ r.kind \in {"expiredConn", "hint"} => conn[r.key] # None /\ ConnExpired(conn[r.key], now)
<1> DEFINE k == r.key
<1>0. k \in Keys /\ now \in Nat /\ r.cutoff \in Nat
  BY BoundsAreNaturals DEF FlowInv, TypeOK, Requests
<1>1. CASE r.kind \in {"expiredRedirect", "expiredHandoff"}
  <2>1. plan \in {<<>>, <<"redirect">>, <<"handoff">>}
    BY <1>1 DEF PlanRetirement
  <2> QED
    BY <1>1, <2>1 DEF AuxiliaryPlans
<1>2. CASE r.kind = "hint" /\ ConnResult(r) \in {"Missing", "StateMismatch"}
  <2>1. plan \in HintAuxiliaryPlans(r)
    BY <1>2 DEF PlanRetirement
  <2>2. \A h : Present("handoff", h) \in {<<>>, <<"handoff">>} /\ Present("redirect", h) \in {<<>>, <<"redirect">>}
    BY DEF Present
  <2>3. \A s \in {<<>>, <<"handoff">>}, u \in {<<>>, <<"redirect">>} :
          s \o u \in {<<>>, <<"handoff">>, <<"redirect">>, <<"handoff", "redirect">>}
    BY Concats
  <2>4. plan \in {<<>>, <<"handoff">>, <<"redirect">>, <<"handoff", "redirect">>}
    BY ZenonT(40), <2>1, <2>2, <2>3 DEF HintAuxiliaryPlans
  <2> QED
    BY <1>2, <2>4 DEF AuxiliaryPlans
<1>3. CASE ~(r.kind \in {"expiredRedirect", "expiredHandoff"}) /\ ~(r.kind = "hint" /\ ConnResult(r) \in {"Missing", "StateMismatch"})
  <2>1. plan = IF ConnResult(r) = "Applied" THEN ConnPlan(k) ELSE <<>>
    BY <1>3 DEF PlanRetirement
  <2>2. ASSUME ConnResult(r) = "Applied", r.kind \in {"expiredConn", "hint"}
        PROVE  conn[k] # None /\ ConnExpired(conn[k], now)
    <3>1. conn[k] # None
      BY <2>2 DEF ConnResult
    <3>2. conn[k] \in ConnStates
      BY <1>0, <3>1 DEF FlowInv, TypeOK
    <3>3. ValidateConn(r, conn[k]) = "Applied"
      BY <2>2, <3>1 DEF ConnResult
    <3>4. CASE r.kind = "expiredConn"
      <4>1. conn[k] = r.entry
        BY <3>3, <3>4 DEF ValidateConn
      <4> QED
        BY <3>1, <3>4, <4>1 DEF Expired
    <3>5. CASE r.kind = "hint"
      <4>1. ConnExpired(conn[k], r.cutoff) /\ r.cutoff <= now
        BY <3>3, <3>5 DEF ValidateConn, Expired
      <4>2. conn[k].seen \in Nat
        BY <3>2, BoundsAreNaturals DEF ConnStates
      <4> QED
        BY <1>0, <3>1, <4>1, <4>2, BoundsAreNaturals DEF ConnExpired
    <3> QED
      BY <2>2, <3>4, <3>5
  <2> QED
    BY <2>1, <2>2
<1> QED
  BY <1>1, <1>2, <1>3

LEMMA CommitPlans ==
    ASSUME NEW r
    PROVE  \/ CommitPlan(r) = <<>>
           \/ /\ CommitPlan(r) \in WritePlans
              /\ conn[r.key] # None /\ conn[r.key].state = "Pending"
<1>1. /\ <<"handoff">> \o <<>> \o <<"write">> \in WritePlans
      /\ <<"handoff">> \o <<"redirect">> \o <<"write">> \in WritePlans
  <2>1. /\ <<"handoff">> \o <<>> \o <<"write">> = <<"handoff", "write">>
        /\ <<"handoff">> \o <<"redirect">> \o <<"write">> = <<"handoff", "redirect", "write">>
    BY Concats
  <2> QED
    BY <2>1 DEF WritePlans
<1> QED
  BY <1>1 DEF CommitPlan

LEMMA PlanPreserves ==
    ASSUME FlowInv, Plan PROVE FlowInv'
<1> DEFINE r == Head(requests)
           k == r.key
<1>1. /\ at = "execute" /\ GraceOver /\ steps = <<>>
      /\ UNCHANGED <<maps, cpu, fences, flags, due, mode, toFence, held, failure, unresolved, counters>>
  BY DEF Plan, BackendFrame
<1>2. PICK plan \in IF mode = "commit" THEN {CommitPlan(r)} ELSE PlanRetirement(r) :
        /\ steps' = plan
        /\ image' = IF mode = "commit" /\ plan # <<>> THEN [conn[k] EXCEPT !.state = r.kind] ELSE None
        /\ refused' = (refused \/ (mode = "quiesce" /\ Refuses(r)))
        /\ Advance(IF plan = <<>> THEN Tail(requests) ELSE requests)
  BY DEF Plan
<1>3. requests \in Seq(Requests) /\ requests # <<>> /\ r \in Requests /\ k \in Keys /\ r = requests[1] /\ 1 \in DOMAIN requests
  <2>1. requests \in Seq(Requests) /\ requests # <<>>
    BY <1>1 DEF FlowInv, BatchType, BatchIsAlone
  <2> QED
    BY <1>1, <2>1, TailRequests, FencedTuples
<1>4. Expired(r) /\ (mode = "commit" => r.kind \in Transitions) /\ (mode = "quiesce" => r.kind = "pending")
  BY <1>3 DEF FlowInv, ExpiryInv, ModeInv
<1>5. \A c \in Cpus : cpu[c].pc # "idle" => cpu[c].key \notin RequestKeys
  BY <1>1 DEF FlowInv, BatchIsAlone, GraceOver
<1> DEFINE rest == IF plan = <<>> THEN Tail(requests) ELSE requests
<1>6. /\ FenceInv' /\ BatchIsAlone' /\ ActivateIsCurrent' /\ ModeInv' /\ ExpiryInv'
      /\ requests' \in Seq(Requests) /\ at' \in {"execute", "release"}
      /\ plan # <<>> => requests' = requests
      /\ plan = <<>> => requests' = Tail(requests)
  <2>1. Advance(rest) /\ (rest = requests \/ (rest = Tail(requests) /\ steps' = <<>>))
    BY <1>2
  <2>2. (plan # <<>> => rest = requests) /\ (plan = <<>> => rest = Tail(requests))
    OBVIOUS
  <2>3. UNCHANGED <<fences, flags, due, mode, toFence, held, failure, unresolved, cpu, now>>
    BY <1>1 DEF counters
  <2> HIDE DEF rest
  <2>4. requests' = rest
    BY <2>1 DEF Advance
  <2> QED
    BY <1>1, <1>5, <2>1, <2>2, <2>3, <2>4, AdvanceFrame
<1>7. CASE mode = "commit"
  <2>1. plan = CommitPlan(r)
    BY <1>2, <1>7
  <2>2. plan = <<>> \/ (plan \in WritePlans /\ conn[k] # None /\ conn[k].state = "Pending")
    BY <2>1, CommitPlans
  <2> QED
    <3>1. plan # <<>> => image' = [conn[k] EXCEPT !.state = r.kind]
      BY <1>2, <1>7
    <3>2. image' \in ConnStates \cup {None}
      <4>1. CASE plan # <<>>
        <5>1. conn[k] \in ConnStates /\ r.kind \in UdpDecisionState
          BY <1>3, <1>4, <1>7, <2>2, <4>1 DEF FlowInv, TypeOK, Transitions, UdpDecisionState
        <5> QED
          BY <3>1, <4>1, <5>1 DEF ConnStates
      <4>2. CASE plan = <<>>
        BY <1>2, <4>2
      <4> QED
        BY <4>1, <4>2
    <3>3. refused' \in BOOLEAN
      BY <1>2, <1>7 DEF FlowInv, TypeOK
    <3>4. TypeOK' /\ BatchType'
      BY <1>1, <1>2, <1>6, <2>2, <3>2, <3>3
         DEF FlowInv, TypeOK, BatchType, maps, fences, flags, counters
    <3>5. StepsAreCurrent'
      <4>1. CASE plan = <<>>
        BY <1>2, <4>1 DEF StepsAreCurrent, DeletePlans, AuxiliaryPlans, WritePlans
      <4>2. CASE plan # <<>>
        <5>1. steps' \notin DeletePlans /\ steps' \notin AuxiliaryPlans
          BY <1>2, <2>2, <4>2, WriteTails
        <5>2. conn' = conn /\ Head(requests') = r
          BY <1>1, <1>6, <4>2 DEF maps
        <5> QED
          BY <1>4, <1>7, <2>2, <3>1, <4>2, <5>1, <5>2 DEF StepsAreCurrent
      <4> QED
        BY <4>1, <4>2
    <3>6. QuiesceInv'
      BY <1>1, <1>6, <1>7 DEF FlowInv, QuiesceInv, Fenced, TokenBound, flags, maps
    <3> QED
      BY <1>1, <1>6, <3>4, <3>5, <3>6, OwnersFrame DEF FlowInv
<1>8. CASE mode # "commit"
  <2>1. plan \in PlanRetirement(r) /\ image' = None
    BY <1>2, <1>8
  <2>2. \/ plan = <<>>
        \/ plan \in AuxiliaryPlans /\ r.kind \in {"hint", "expiredRedirect", "expiredHandoff"}
        \/ /\ plan = ConnPlan(k) /\ ConnResult(r) = "Applied"
           /\ r.kind \in {"expiredConn", "hint"} => conn[k] # None /\ ConnExpired(conn[k], now)
    BY <1>3, <1>4, <2>1, RetirementPlans
  <2>3. refused' \in BOOLEAN
    BY <1>2 DEF FlowInv, TypeOK, Refuses
  <2>4. TypeOK'
    BY <1>1, <1>6, <2>1, <2>3 DEF FlowInv, TypeOK, maps, fences, flags, counters
  <2>5. BatchType'
    BY <1>1, <1>2, <1>6, <2>2, ConnPlanShape DEF FlowInv, BatchType
  <2>6. StepsAreCurrent'
    <3>1. CASE plan = <<>>
      BY <1>2, <3>1 DEF StepsAreCurrent, DeletePlans, AuxiliaryPlans, WritePlans
    <3>2. CASE plan # <<>>
      <4>1. UNCHANGED <<conn, redirect, handoff, now>> /\ Head(requests') = r
        BY <1>1, <1>6, <3>2 DEF maps, counters
      <4>2. CASE plan \in AuxiliaryPlans /\ r.kind \in {"hint", "expiredRedirect", "expiredHandoff"}
        BY <1>2, <4>1, <4>2, AuxiliaryTails DEF StepsAreCurrent
      <4>3. CASE /\ plan = ConnPlan(k)
                 /\ r.kind \in {"expiredConn", "hint"} => conn[k] # None /\ ConnExpired(conn[k], now)
        <5>1. plan \in DeletePlans /\ plan \notin AuxiliaryPlans /\ plan \notin WritePlans
          BY <4>3, ConnPlanShape, DeleteTails
        <5>2. /\ handoff[k] # None => Head(plan) = "handoff"
              /\ redirect[k] # None => plan \notin {<<"handoff", "conn">>, <<"conn">>}
          BY <4>3, ConnPlanShape
        <5>3. ConnExpired(conn[k], now) <=> ConnExpired(conn'[k], now')
          BY <4>1
        <5> QED
          BY <1>2, <4>1, <4>3, <5>1, <5>2, <5>3 DEF StepsAreCurrent
      <4> QED
        BY <2>2, <3>2, <4>2, <4>3
    <3> QED
      BY <3>1, <3>2
  <2>7. QuiesceInv'
    <3>1. /\ UNCHANGED <<conn, cpu, mode, failure, ready, incomplete>>
          /\ at' \in {"execute", "release"} /\ Fenced
      BY <1>1, <1>6 DEF maps, flags, Fenced
    <3>2. ASSUME mode = "quiesce", ~failure, ~refused', NEW j \in Keys, TokenBound(j)
          PROVE  \E i \in DOMAIN requests' :
                    /\ requests'[i].key = j
                    /\ requests'[i].token = conn[j].token /\ requests'[i].inc = conn[j].inc
      <4>1. ~refused /\ ~Refuses(r)
        BY <1>2, <3>2
      <4>2. PICK i \in DOMAIN requests :
                    /\ requests[i].key = j
                    /\ requests[i].token = conn[j].token /\ requests[i].inc = conn[j].inc
        BY <3>1, <3>2, <4>1 DEF FlowInv, QuiesceInv
      <4>3. CASE plan # <<>>
        BY <1>6, <4>2, <4>3
      <4>4. CASE plan = <<>> /\ i # 1
        <5>1. i - 1 \in DOMAIN Tail(requests) /\ Tail(requests)[i - 1] = requests[i]
          BY <1>3, <4>2, <4>4, TailRequests
        <5> QED
          BY <1>6, <4>2, <4>4, <5>1
      <4>5. CASE plan = <<>> /\ i = 1
        <5>1. r.key = j /\ r.token = conn[j].token /\ r.inc = conn[j].inc /\ r.kind = "pending"
          BY <1>3, <1>4, <3>2, <4>2, <4>5
        <5>2. conn[j] # None /\ Staged(conn[j].state)
          BY <3>2 DEF TokenBound
        <5>3. ValidateConn(r, conn[j]) = "Applied"
          BY <5>1, <5>2 DEF ValidateConn
        <5>4. ConnResult(r) \in {"Applied", "TokenMismatch"}
          BY <5>1, <5>2, <5>3 DEF ConnResult
        <5>5. ConnResult(r) # "TokenMismatch"
          BY <4>1 DEF Refuses
        <5>6. plan = ConnPlan(r.key)
          BY <2>1, <5>1, <5>4, <5>5 DEF PlanRetirement
        <5> QED
          BY <4>5, <5>6, ConnPlanShape, DeleteTails
      <4> QED
        BY <4>3, <4>4, <4>5
    <3> QED
      BY <3>1, <3>2 DEF FlowInv, QuiesceInv, Fenced, TokenBound
  <2> QED
    BY <1>1, <1>6, <2>4, <2>5, <2>6, <2>7, OwnersFrame DEF FlowInv
<1> QED
  BY <1>7, <1>8

(* The owner goes last, and nobody is in flight on its tuple.                *)
LEMMA OwnerRetires ==
    ASSUME FlowInv, NEW k \in Keys, redirect[k] = None, handoff[k] = None,
           \A c \in Cpus : cpu[c].pc # "idle" => cpu[c].key # k,
           conn' = [conn EXCEPT ![k] = None], UNCHANGED <<redirect, handoff, cpu>>
    PROVE  /\ conn' \in [Keys -> ConnStates \cup {None}]
           /\ InvocationShape' /\ CarrierOwns' /\ HolderClaim' /\ ClaimHeld' /\ AuxiliaryOwned'
<1>0. conn \in [Keys -> ConnStates \cup {None}]
  BY DEF FlowInv, TypeOK
<1>1. conn'[k] = None /\ \A j \in Keys : j # k => conn'[j] = conn[j]
  BY <1>0
<1>2. \A d \in Cpus : cpu[d].pc # "idle" => cpu[d].key \in Keys
  BY DEF FlowInv, InvocationShape, ShapeOf
<1>3. InvocationShape'
  BY DEF FlowInv, InvocationShape
<1>4. CarrierOwns'
  <2>1. \A d \in Cpus : cpu[d].pc \in CarrierPcs => cpu[d].key \in Keys /\ cpu[d].key # k
    BY <1>2 DEF CarrierPcs
  <2> QED
    BY <1>1, <2>1 DEF FlowInv, CarrierOwns
<1>5. AuxiliaryOwned'
  BY <1>1 DEF FlowInv, AuxiliaryOwned
<1>6. \A d \in Cpus : Holder(d) => Claimed(d) /\ cpu[d].key \in Keys /\ cpu[d].key # k
  <2>1. \A d \in Cpus : Holder(d) => cpu[d].pc # "idle"
    BY IdleInvocation DEF FlowInv, InvocationShape, ShapeOf, Holder, Holds
  <2> QED
    BY <1>2, <2>1 DEF FlowInv, HolderClaim
<1>7. HolderClaim'
  BY <1>1, <1>6 DEF FlowInv, HolderClaim, Holder, Claimed
<1>8. ClaimHeld'
  BY <1>1 DEF FlowInv, ClaimHeld, Holder
<1> QED
  BY <1>0, <1>1, <1>3, <1>4, <1>5, <1>7, <1>8

LEMMA AuxiliaryGoes ==
    ASSUME FlowInv, NEW k \in Keys, UNCHANGED <<conn, cpu>>,
           \/ handoff' = [handoff EXCEPT ![k] = None] /\ UNCHANGED redirect
           \/ redirect' = [redirect EXCEPT ![k] = None] /\ UNCHANGED handoff
    PROVE  /\ redirect' \in [Keys -> Auxiliaries \cup {None}]
           /\ handoff' \in [Keys -> Auxiliaries \cup {None}]
           /\ InvocationShape' /\ CarrierOwns' /\ HolderClaim' /\ ClaimHeld' /\ AuxiliaryOwned'
<1>1. /\ redirect \in [Keys -> Auxiliaries \cup {None}]
      /\ handoff \in [Keys -> Auxiliaries \cup {None}]
  BY DEF FlowInv, TypeOK
<1>2. /\ redirect' \in [Keys -> Auxiliaries \cup {None}]
      /\ handoff' \in [Keys -> Auxiliaries \cup {None}]
      /\ \A j \in Keys : redirect'[j] \in {redirect[j], None} /\ handoff'[j] \in {handoff[j], None}
  BY <1>1
<1>3. InvocationShape' /\ CarrierOwns'
  BY DEF FlowInv, InvocationShape, CarrierOwns
<1>4. HolderClaim' /\ ClaimHeld'
  BY DEF FlowInv, HolderClaim, ClaimHeld, Holder, Claimed
<1>5. AuxiliaryOwned'
  BY <1>2 DEF FlowInv, AuxiliaryOwned
<1> QED
  BY <1>2, <1>3, <1>4, <1>5

(* What one map operation does, by the plan it belongs to.                   *)
LEMMA MutateCases ==
    ASSUME FlowInv, Mutate
    PROVE  LET r == Head(requests)
               k == r.key
           IN  /\ at = "execute" /\ k \in Keys /\ r \in Requests /\ steps # <<>>
               /\ \A c \in Cpus : cpu[c].pc # "idle" => cpu[c].key \notin RequestKeys /\ cpu[c].key # k
               /\ \/ /\ steps = <<"conn">> /\ steps' = <<>>
                     /\ redirect[k] = None /\ handoff[k] = None
                     /\ conn' = [conn EXCEPT ![k] = None] /\ UNCHANGED <<redirect, handoff>>
                  \/ /\ steps \in WritePlans /\ Len(steps) = 1 /\ steps' = <<>>
                     /\ conn' = [conn EXCEPT ![k] = image] /\ UNCHANGED <<redirect, handoff>>
                  \/ /\ Head(steps) = "handoff"
                     /\ handoff' = [handoff EXCEPT ![k] = None] /\ UNCHANGED <<conn, redirect>>
                  \/ /\ Head(steps) = "redirect"
                     /\ redirect' = [redirect EXCEPT ![k] = None] /\ UNCHANGED <<conn, handoff>>
<1> DEFINE r == Head(requests)
           k == r.key
<1>1. at = "execute" /\ steps # <<>> /\ steps' = Tail(steps)
  BY DEF Mutate
<1>2. k \in Keys /\ r \in Requests /\ k \in RequestKeys
  BY <1>1, FencedTuples
<1>3. \A c \in Cpus : cpu[c].pc # "idle" => cpu[c].key \notin RequestKeys /\ cpu[c].key # k
  BY <1>1, <1>2 DEF FlowInv, BatchIsAlone
<1>4. steps \in DeletePlans \cup AuxiliaryPlans \cup WritePlans /\ StepsAreCurrent
  BY <1>1 DEF FlowInv, BatchType
<1>5. CASE Head(steps) = "handoff"
  BY <1>1, <1>2, <1>3, <1>5 DEF Mutate
<1>6. CASE Head(steps) = "redirect"
  BY <1>1, <1>2, <1>3, <1>6 DEF Mutate
<1>7. CASE Head(steps) = "conn"
  <2>1. steps = <<"conn">> /\ steps \in DeletePlans /\ Tail(steps) = <<>>
    BY <1>4, <1>7, DeleteTails, AuxiliaryTails, WriteTails
  <2>2. redirect[k] = None /\ handoff[k] = None
    BY <1>4, <1>7, <2>1 DEF StepsAreCurrent
  <2>3. conn' = [conn EXCEPT ![k] = None] /\ UNCHANGED <<redirect, handoff>>
    BY <1>7 DEF Mutate
  <2> QED
    BY <1>1, <1>2, <1>3, <2>1, <2>2, <2>3
<1>8. CASE Head(steps) = "write"
  <2>1. steps \in WritePlans /\ Len(steps) = 1 /\ Tail(steps) = <<>>
    BY <1>4, <1>8, DeleteTails, AuxiliaryTails, WriteTails
  <2>2. conn' = [conn EXCEPT ![k] = image] /\ UNCHANGED <<redirect, handoff>>
    BY <1>8 DEF Mutate
  <2> QED
    BY <1>1, <1>2, <1>3, <2>1, <2>2
<1>9. Head(steps) \in {"handoff", "redirect", "conn", "write"}
  BY <1>4, DeleteTails, AuxiliaryTails, WriteTails
<1> QED
  BY <1>5, <1>6, <1>7, <1>8, <1>9

(* A commit writes what it read, with its decision.                          *)
LEMMA WriteDecides ==
    ASSUME FlowInv, at = "execute", steps \in WritePlans
    PROVE  LET r == Head(requests)
               k == r.key
           IN  /\ conn[k] # None /\ conn[k] \in ConnStates /\ conn[k].state = "Pending"
               /\ image \in ConnStates /\ image.inc = conn[k].inc /\ image.seen = conn[k].seen
               /\ image.state = r.kind /\ r.kind \in Transitions
<1> DEFINE r == Head(requests)
           k == r.key
<1>1. k \in Keys
  BY FencedTuples
<1>2. /\ conn[k] # None /\ conn[k].state = "Pending" /\ r.kind \in Transitions
      /\ image = [conn[k] EXCEPT !.state = r.kind]
  BY DEF FlowInv, StepsAreCurrent
<1>3. conn[k] \in ConnStates /\ r.kind \in UdpDecisionState
  BY <1>1, <1>2 DEF FlowInv, TypeOK, Transitions, UdpDecisionState
<1>4. /\ image \in ConnStates /\ image.inc = conn[k].inc /\ image.seen = conn[k].seen
      /\ image.state = r.kind
  BY <1>2, <1>3 DEF ConnStates
<1> QED
  BY <1>2, <1>3, <1>4

LEMMA MutateOwners ==
    ASSUME FlowInv, Mutate
    PROVE  /\ conn' \in [Keys -> ConnStates \cup {None}]
           /\ redirect' \in [Keys -> Auxiliaries \cup {None}]
           /\ handoff' \in [Keys -> Auxiliaries \cup {None}]
           /\ InvocationShape' /\ CarrierOwns' /\ HolderClaim' /\ ClaimHeld' /\ AuxiliaryOwned'
<1> DEFINE r == Head(requests)
           k == r.key
<1>0. /\ conn \in [Keys -> ConnStates \cup {None}]
      /\ redirect \in [Keys -> Auxiliaries \cup {None}]
      /\ handoff \in [Keys -> Auxiliaries \cup {None}]
      /\ cpu' = cpu /\ at = "execute" /\ k \in Keys
  BY MutateCases DEF FlowInv, TypeOK, Mutate
<1>1. CASE /\ redirect[k] = None /\ handoff[k] = None
           /\ conn' = [conn EXCEPT ![k] = None] /\ UNCHANGED <<redirect, handoff>>
  BY <1>0, <1>1, MutateCases, OwnerRetires
<1>2. CASE /\ steps \in WritePlans
           /\ conn' = [conn EXCEPT ![k] = image] /\ UNCHANGED <<redirect, handoff>>
  BY <1>0, <1>2, WriteDecides, OwnerDecides DEF Transitions
<1>3. CASE UNCHANGED conn
           /\ (\/ handoff' = [handoff EXCEPT ![k] = None] /\ UNCHANGED redirect
               \/ redirect' = [redirect EXCEPT ![k] = None] /\ UNCHANGED handoff)
  BY <1>0, <1>3, AuxiliaryGoes
<1> QED
  BY <1>1, <1>2, <1>3, MutateCases

LEMMA MutatePreserves ==
    ASSUME FlowInv, Mutate PROVE FlowInv'
<1> DEFINE r == Head(requests)
           k == r.key
<1>1. /\ at = "execute" /\ steps # <<>> /\ steps' = Tail(steps)
      /\ image' = IF Len(steps) = 1 THEN None ELSE image
      /\ Advance(IF Len(steps) = 1 THEN Tail(requests) ELSE requests)
      /\ UNCHANGED <<cpu, fences, flags, due, mode, toFence, held, failure, unresolved, refused, counters>>
  BY DEF Mutate, BackendFrame
<1>2. requests \in Seq(Requests) /\ requests # <<>> /\ r \in Requests /\ k \in Keys /\ r = requests[1]
  <2>1. requests \in Seq(Requests) /\ requests # <<>>
    BY <1>1 DEF FlowInv, BatchType, BatchIsAlone
  <2> QED
    BY <1>1, <2>1, TailRequests, FencedTuples
<1>3. StepsAreCurrent /\ steps \in DeletePlans \cup AuxiliaryPlans \cup WritePlans
  BY <1>1 DEF FlowInv, BatchType
<1>4. Len(steps) = 1 <=> steps' = <<>>
  BY <1>1, <1>3, DeleteTails, AuxiliaryTails, WriteTails
<1>5. steps' \in {<<>>} \cup DeletePlans \cup AuxiliaryPlans \cup WritePlans
  BY <1>1, <1>3, DeleteTails, AuxiliaryTails, WriteTails
<1> DEFINE rest == IF Len(steps) = 1 THEN Tail(requests) ELSE requests
<1>6. /\ FenceInv' /\ BatchIsAlone' /\ ActivateIsCurrent' /\ ModeInv' /\ ExpiryInv'
      /\ requests' \in Seq(Requests) /\ at' \in {"execute", "release"}
      /\ steps' # <<>> => requests' = requests
      /\ steps' = <<>> => requests' = Tail(requests)
  <2>1. Advance(rest) /\ (rest = requests \/ (rest = Tail(requests) /\ steps' = <<>>))
    BY <1>1, <1>4
  <2>2. (steps' # <<>> => rest = requests) /\ (steps' = <<>> => rest = Tail(requests))
    BY <1>4
  <2>3. UNCHANGED <<fences, flags, due, mode, toFence, held, failure, unresolved, cpu, now>>
    BY <1>1 DEF counters
  <2> HIDE DEF rest
  <2>4. requests' = rest
    BY <2>1 DEF Advance
  <2>5. \A c \in Cpus : cpu[c].pc # "idle" => cpu[c].key \notin RequestKeys
    BY MutateCases
  <2> QED
    BY <1>1, <2>1, <2>2, <2>3, <2>4, <2>5, AdvanceFrame
<1>7. TypeOK'
  <2>1. image' \in ConnStates \cup {None}
    BY <1>1 DEF FlowInv, TypeOK
  <2> QED
    BY <1>1, <1>6, <2>1, MutateOwners DEF FlowInv, TypeOK, fences, flags, counters
<1>8. BatchType'
  BY <1>1, <1>5, <1>6 DEF FlowInv, BatchType
<1>9. StepsAreCurrent'
  <2>1. CASE steps' = <<>>
    BY <2>1 DEF StepsAreCurrent, DeletePlans, AuxiliaryPlans, WritePlans
  <2>2. CASE steps' # <<>>
    <3>1. Head(requests') = r /\ image' = image /\ now' = now /\ UNCHANGED conn
      <4>1. ~(steps = <<"conn">> /\ steps' = <<>>) /\ ~(Len(steps) = 1)
        BY <2>2, <1>4
      <4>2. UNCHANGED conn
        BY <2>2, <4>1, MutateCases
      <4> QED
        BY <1>1, <1>6, <2>2, <4>1, <4>2 DEF counters
    <3>2. CASE steps \in WritePlans
      <4>1. steps' \notin DeletePlans /\ steps' \notin AuxiliaryPlans
        BY <1>1, <1>4, <2>2, <3>2, WriteTails
      <4> QED
        BY <1>3, <3>1, <3>2, <4>1 DEF StepsAreCurrent
    <3>3. CASE steps \in AuxiliaryPlans
      <4>1. steps' \notin DeletePlans /\ steps' \notin WritePlans
        BY <1>1, <1>4, <2>2, <3>3, AuxiliaryTails
      <4> QED
        BY <1>3, <3>1, <3>3, <4>1 DEF StepsAreCurrent
    <3>4. CASE steps \in DeletePlans
      <4>1. steps' \in DeletePlans /\ steps' \notin AuxiliaryPlans /\ steps' \notin WritePlans
        BY <1>1, <1>4, <2>2, <3>4, DeleteTails
      <4>2. ConnExpired(conn[k], now) <=> ConnExpired(conn'[k], now')
        BY <3>1
      <4>3. handoff[k] # None => Head(steps) = "handoff"
        BY <1>3, <3>4 DEF StepsAreCurrent
      <4>4. redirect[k] # None => steps \notin {<<"handoff", "conn">>, <<"conn">>}
        BY <1>3, <3>4 DEF StepsAreCurrent
      <4>5. /\ redirect \in [Keys -> Auxiliaries \cup {None}]
            /\ handoff \in [Keys -> Auxiliaries \cup {None}]
        BY DEF FlowInv, TypeOK
      <4>6. /\ handoff'[k] # None => Head(steps') = "handoff"
            /\ redirect'[k] # None => steps' \notin {<<"handoff", "conn">>, <<"conn">>}
        <5>1. CASE Head(steps) = "handoff"
          <6>1. handoff'[k] = None /\ redirect'[k] = redirect[k]
            BY <1>2, <2>2, <4>5, <5>1, MutateCases
          <6>2. redirect[k] # None => steps' = <<"redirect", "conn">>
            BY <1>1, <3>4, <4>4, <5>1, DeleteTails
          <6>3. <<"redirect", "conn">> \notin {<<"handoff", "conn">>, <<"conn">>}
            OBVIOUS
          <6> QED
            BY <6>1, <6>2, <6>3
        <5>2. CASE Head(steps) = "redirect"
          <6>1. handoff'[k] = handoff[k] /\ redirect'[k] = None
            BY <1>2, <2>2, <4>5, <5>2, MutateCases
          <6> QED
            BY <4>3, <5>2, <6>1
        <5>3. Head(steps) # "conn"
          BY <1>1, <2>2, <3>4, DeleteTails
        <5> QED
          BY <3>4, <5>1, <5>2, <5>3, DeleteTails
      <4>7. r.kind \in {"expiredConn", "hint"} => conn[k] # None /\ ConnExpired(conn[k], now)
        BY <1>3, <3>4 DEF StepsAreCurrent
      <4> QED
        BY <3>1, <4>1, <4>2, <4>6, <4>7 DEF StepsAreCurrent
    <3> QED
      BY <1>3, <3>2, <3>3, <3>4
  <2> QED
    BY <2>1, <2>2
<1>10. QuiesceInv'
  <2>1. /\ UNCHANGED <<cpu, mode, failure, refused, ready, incomplete>>
        /\ at' \in {"execute", "release"} /\ Fenced
    BY <1>1, <1>6 DEF flags, Fenced
  <2>2. ASSUME NEW j \in Keys, TokenBound(j)'
        PROVE  TokenBound(j) /\ conn'[j] = conn[j]
               /\ (j = k => steps \notin DeletePlans \/ steps' # <<>>)
    <3>1. conn \in [Keys -> ConnStates \cup {None}]
      BY DEF FlowInv, TypeOK
    <3>2. CASE UNCHANGED conn
      <4>1. steps = <<"conn">> => conn'[k] = None
        <5>1. steps = <<"conn">> => Head(steps) = "conn" /\ steps \in DeletePlans
          BY DEF DeletePlans
        <5> QED
          BY <1>2, <3>1, <3>2, <5>1, MutateCases, DeleteTails, WriteTails
      <4>2. steps \in DeletePlans /\ steps' = <<>> => steps = <<"conn">>
        BY <1>4, DeleteTails
      <4> QED
        BY <2>2, <3>2, <4>1, <4>2 DEF TokenBound
    <3>3. CASE conn' = [conn EXCEPT ![k] = None]
      <4>1. j # k
        BY <1>2, <2>2, <3>1, <3>3 DEF TokenBound
      <4> QED
        BY <2>2, <3>1, <3>3, <4>1 DEF TokenBound
    <3>4. CASE steps \in WritePlans /\ conn' = [conn EXCEPT ![k] = image]
      <4>1. j # k
        BY <1>1, <1>2, <2>2, <3>1, <3>4, WriteDecides DEF TokenBound, Staged, Transitions
      <4> QED
        BY <2>2, <3>1, <3>4, <4>1 DEF TokenBound
    <3> QED
      BY <3>2, <3>3, <3>4, MutateCases
  <2>3. ASSUME mode = "quiesce", ~failure, ~refused, NEW j \in Keys, TokenBound(j)'
        PROVE  \E i \in DOMAIN requests' :
                  /\ requests'[i].key = j
                  /\ requests'[i].token = conn'[j].token /\ requests'[i].inc = conn'[j].inc
    <3>1. TokenBound(j) /\ conn'[j] = conn[j] /\ (j = k => steps \notin DeletePlans \/ steps' # <<>>)
      BY <2>2, <2>3
    <3>2. PICK i \in DOMAIN requests :
                  /\ requests[i].key = j
                  /\ requests[i].token = conn[j].token /\ requests[i].inc = conn[j].inc
      BY <2>1, <2>3, <3>1 DEF FlowInv, QuiesceInv
    <3>3. CASE steps' # <<>>
      BY <1>6, <3>1, <3>2, <3>3
    <3>4. CASE steps' = <<>>
      <4>1. r.kind = "pending"
        <5>1. 1 \in DOMAIN requests
          BY <1>2
        <5> QED
          BY <1>2, <2>3, <5>1 DEF FlowInv, ModeInv
      <4>2. steps \in DeletePlans
        BY <1>3, <4>1 DEF StepsAreCurrent, Transitions
      <4>3. i # 1
        BY <1>2, <3>1, <3>2, <3>4, <4>2
      <4>4. i - 1 \in DOMAIN Tail(requests) /\ Tail(requests)[i - 1] = requests[i]
        BY <1>2, <3>2, <4>3, TailRequests
      <4> QED
        BY <1>6, <3>1, <3>2, <3>4, <4>4
    <3> QED
      BY <3>3, <3>4
  <2> QED
    BY <2>1, <2>2, <2>3 DEF FlowInv, QuiesceInv, Fenced
<1> QED
  BY <1>6, <1>7, <1>8, <1>9, <1>10, MutateOwners DEF FlowInv

-----------------------------------------------------------------------------
(* The theorems.                                                             *)

LEMMA InitFlow == Init => FlowInv
<1> SUFFICES ASSUME Init PROVE FlowInv
  OBVIOUS
<1>1. \A c \in Cpus : cpu[c] = Idle
  BY DEF Init
<1>2. \A k \in Keys : conn[k] = None /\ redirect[k] = None /\ handoff[k] = None
  BY DEF Init
<1>3. TypeOK
  <2>1. /\ conn \in [Keys -> ConnStates \cup {None}]
        /\ redirect \in [Keys -> Auxiliaries \cup {None}]
        /\ handoff \in [Keys -> Auxiliaries \cup {None}]
        /\ cpu \in [Cpus -> Invocation]
    BY IdleInvocation DEF Init
  <2>2. incs \in 0..MaxInc /\ tokens \in 0..MaxToken /\ now \in 0..MaxNow
    BY BoundsAreNaturals DEF Init
  <2> QED
    BY <2>1, <2>2 DEF Init, TypeOK
<1>4. BatchType /\ BatchIsAlone /\ FenceInv /\ ModeInv /\ ExpiryInv
  BY DEF Init, BatchType, BatchIsAlone, FenceInv, Fenced, ModeInv, ExpiryInv
<1>5. StepsAreCurrent /\ ActivateIsCurrent
  BY DEF Init, StepsAreCurrent, ActivateIsCurrent, DeletePlans, AuxiliaryPlans, WritePlans
<1>6. InvocationShape /\ CarrierOwns
  BY <1>1, IdleInvocation DEF InvocationShape, CarrierOwns
<1>7. HolderClaim /\ ClaimHeld /\ AuxiliaryOwned
  BY <1>1, <1>2, IdleInvocation DEF HolderClaim, ClaimHeld, AuxiliaryOwned, Holder
<1>8. QuiesceInv
  BY DEF Init, QuiesceInv, Fenced
<1> QED
  BY <1>3, <1>4, <1>5, <1>6, <1>7, <1>8 DEF FlowInv

LEMMA StutterPreserves ==
    ASSUME FlowInv, UNCHANGED vars PROVE FlowInv'
<1>1. /\ UNCHANGED <<maps, cpu, due, now, batch>>
      /\ UNCHANGED <<conn, redirect, handoff, incs, tokens, active, fence, ready, incomplete, retirementFailed,
                     at, mode, requests, toFence, held, steps, image, failure, unresolved, refused>>
  BY DEF vars, maps, counters, fences, flags, batch
<1>2. TypeOK' /\ BatchType' /\ FenceInv' /\ ModeInv'
  BY <1>1 DEF FlowInv, TypeOK, BatchType, FenceInv, Fenced, ModeInv
<1>3. BatchIsAlone' /\ ActivateIsCurrent'
  BY <1>1 DEF FlowInv, BatchIsAlone, RequestKeys, ActivateIsCurrent
<1>4. StepsAreCurrent' /\ ExpiryInv'
  BY <1>1 DEF FlowInv, StepsAreCurrent, ConnExpired, ExpiryInv, Expired
<1>5. QuiesceInv'
  BY <1>1 DEF FlowInv, QuiesceInv, Fenced, TokenBound
<1> QED
  BY <1>1, <1>2, <1>3, <1>4, <1>5, OwnersFrame DEF FlowInv

LEMMA BackendPreserves ==
    ASSUME FlowInv, Backend PROVE FlowInv'
BY DecideRetirementPreserves, RetireFlowsPreserves, CommitPreserves, FenceReadyPreserves,
   ReopenReadyPreserves, GraceBarrierPreserves, QuiesceScanPreserves, AcquireFencePreserves,
   AcquireFenceFailsPreserves, BarrierFailsPreserves, PlanPreserves, MutatePreserves,
   MutateFailsPreserves, ReleasePreserves, FinishPreserves, ActivateReadPreserves,
   ActivateWritePreserves DEF Backend

LEMMA NextPreserves == FlowInv /\ [Next]_vars => FlowInv'
<1> SUFFICES ASSUME FlowInv, [Next]_vars PROVE FlowInv'
  OBVIOUS
<1>1. ASSUME NEW c \in Cpus, Moves(c) PROVE FlowInv'
  BY <1>1, MovePreserves DEF Moves
<1>2. CASE \E c \in Cpus : KernelStep(c) \/ \E k \in Keys : Receive(c, k) \/ ReplyLookup(c, k)
  BY <1>1, <1>2, KernelMoves
<1> QED
  BY <1>2, TickPreserves, BackendPreserves, StutterPreserves DEF Next

(* The protocol's inductive invariant holds throughout, for any finite set   *)
(* of tuples and any number of kernel invocations.                           *)
THEOREM FlowsAreConsistent == Spec => []FlowInv
<1>1. Init => FlowInv
  BY InitFlow
<1>2. FlowInv /\ [Next]_vars => FlowInv'
  BY NextPreserves
<1> QED
  BY <1>1, <1>2, PTL DEF Spec

(* Every map entry, invocation and step of an operation is one the code can  *)
(* name.                                                                     *)
THEOREM TypeCorrect == Spec => []TypeOK
<1>1. FlowInv => TypeOK
  BY DEF FlowInv
<1> QED
  BY <1>1, FlowsAreConsistent, PTL

(* A Preparing claim is never orphaned: the invocation that made it is still *)
(* on its way to publish_claimed_udp_state or abort_udp_preparing.           *)
THEOREM ClaimsHaveProducers == Spec => []ClaimHasProducer
<1>1. FlowInv => ClaimHasProducer
  <2> SUFFICES ASSUME FlowInv, NEW k \in Keys, conn[k] # None, conn[k].state = "Preparing"
               PROVE  \E c \in Cpus : /\ cpu[c].key = k /\ cpu[c].inc = conn[k].inc
                                      /\ cpu[c].mode \in {"none", "stage", "native"}
    BY DEF ClaimHasProducer
  <2>1. PICK c \in Cpus : Holder(c) /\ cpu[c].key = k
    BY DEF FlowInv, ClaimHeld
  <2>2. cpu[c].inc = conn[k].inc
    BY <2>1 DEF FlowInv, HolderClaim, Claimed
  <2>3. cpu[c].mode \in {"none", "stage", "native"}
    BY <2>1 DEF FlowInv, InvocationShape, ShapeOf, Holder, Holds
  <2> QED
    BY <2>1, <2>2, <2>3
<1> QED
  BY <1>1, FlowsAreConsistent, PTL

(* A completed quiescence leaves no token-bound staged owner behind, and     *)
(* none in the making.                                                       *)
THEOREM QuiescenceIsComplete == Spec => []QuiescedHoldsNoToken
<1>1. FlowInv => QuiescedHoldsNoToken
  BY DEF FlowInv, QuiesceInv, TokenBound, QuiescedHoldsNoToken
<1> QED
  BY <1>1, FlowsAreConsistent, PTL

(* A fence is there only while RETIRE_ACTIVE makes the kernel look for it,   *)
(* and a backend that could not take one down accepts nothing more.          *)
THEOREM FencesStayVisible == Spec => []FencesAreVisible
<1>1. FlowInv => FencesAreVisible
  BY DEF FlowInv, FenceInv, Fenced, FencesAreVisible
<1> QED
  BY <1>1, FlowsAreConsistent, PTL

-----------------------------------------------------------------------------
(* Activity.                                                                 *)

(* The backend's only writes to an owner are a deletion, a commit and an     *)
(* activation.                                                               *)
LEMMA BackendWrites ==
    ASSUME Tick \/ Backend \/ UNCHANGED vars
    PROVE  UNCHANGED maps \/ Mutate \/ ActivateWrite
BY DEF Tick, Backend, DecideRetirement, RetireFlows, CommitUdpFenced, FenceReady, ReopenReady,
       GraceBarrier, QuiesceScan, AcquireFence, AcquireFenceFails, BarrierFails, Plan, MutateFails,
       ReleaseFence, ReleaseFenceFails, Finish, ActivateRead, vars

LEMMA ActivateDecides ==
    ASSUME FlowInv, ActivateWrite
    PROVE  LET k == Head(requests).key
           IN  /\ k \in Keys /\ conn[k] # None /\ conn[k].state = "DirectArmed"
               /\ image \in ConnStates /\ image.inc = conn[k].inc /\ image.seen = conn[k].seen
               /\ image.state = "None"
               /\ conn' = [conn EXCEPT ![k] = image] /\ UNCHANGED <<redirect, handoff, incs>>
<1> DEFINE k == Head(requests).key
<1>1. at = "activate" /\ UNCHANGED <<redirect, handoff, incs>>
  BY DEF ActivateWrite, BackendFrame, counters
<1>2. requests \in Seq(Requests) /\ ActivateIsCurrent
  BY DEF FlowInv, BatchType
<1>3. requests # <<>> /\ Head(requests) \in Requests
  BY <1>1, <1>2 DEF ActivateIsCurrent
<1>4. /\ k \in Keys /\ conn[k] # None /\ conn[k].state = "DirectArmed"
      /\ image = [conn[k] EXCEPT !.state = "None"]
  BY <1>1, <1>2, <1>3 DEF ActivateIsCurrent, Requests
<1>5. conn[k] \in ConnStates
  BY <1>4 DEF FlowInv, TypeOK
<1>6. /\ image \in ConnStates /\ image.inc = conn[k].inc /\ image.seen = conn[k].seen
      /\ image.state = "None"
  BY <1>4, <1>5 DEF ConnStates, UdpDecisionState
<1>7. conn' = [conn EXCEPT ![k] = image]
  BY <1>4 DEF ActivateWrite
<1> QED
  BY <1>1, <1>4, <1>6, <1>7

ActivityKept(k) ==
    /\ conn[k] # None /\ conn[k].state # "Preparing" /\ conn'[k] # None =>
        conn'[k].seen >= conn[k].seen
    /\ conn[k] # None /\ conn'[k] = None /\ Head(requests).kind \in {"expiredConn", "hint"} =>
        ConnExpired(conn[k], now)

LEMMA StepKeepsActivity ==
    ASSUME FlowInv, [Next]_vars, NEW k \in Keys PROVE ActivityKept(k)
<1>0. conn \in [Keys -> ConnStates \cup {None}]
  BY DEF FlowInv, TypeOK
<1>1. conn[k] # None => conn[k].seen \in Nat
  BY <1>0, BoundsAreNaturals DEF ConnStates
<1>2. ASSUME conn'[k] = conn[k] PROVE ActivityKept(k)
  BY <1>1, <1>2 DEF ActivityKept
<1>3. ASSUME NEW c \in Cpus, Moves(c) PROVE ActivityKept(k)
  <2>1. PICK j \in Keys : \E p : KernelMove(c, j, p)
    BY <1>3 DEF Moves
  <2>2. PICK p : KernelMove(c, j, p)
    BY <2>1
  <2>3. CASE j # k
    BY <1>2, <2>2, <2>3, MoveConn
  <2>4. CASE j = k
    BY <2>2, <2>4, MoveConn DEF ActivityKept
  <2> QED
    BY <2>3, <2>4
<1>4. CASE Mutate
  <2> DEFINE r == Head(requests)
             j == r.key
  <2>1. j \in Keys /\ at = "execute" /\ StepsAreCurrent
    BY <1>4, MutateCases DEF FlowInv
  <2>2. CASE j # k
    <3>1. conn'[k] = conn[k]
      BY <1>0, <1>4, <2>1, <2>2, MutateCases
    <3> QED
      BY <3>1, <1>2
  <2>3. CASE j = k /\ steps = <<"conn">>
    <3>1. steps \in DeletePlans
      BY <2>3 DEF DeletePlans
    <3>2. r.kind \in {"expiredConn", "hint"} => ConnExpired(conn[k], now)
      BY <2>1, <2>3, <3>1 DEF StepsAreCurrent
    <3>3. conn'[k] = None
      <4>1. Head(steps) = "conn" /\ steps \notin WritePlans
        BY <2>3, <3>1, DeleteTails
      <4> QED
        BY <1>0, <1>4, <2>3, <4>1, MutateCases
    <3> QED
      BY <3>2, <3>3 DEF ActivityKept
  <2>4. CASE j = k /\ steps \in WritePlans /\ conn' = [conn EXCEPT ![j] = image]
    <3>1. conn'[k] = image /\ image.seen = conn[k].seen /\ image # None
      BY <1>0, <2>1, <2>4, WriteDecides, NoneIsNoEntry
    <3> QED
      BY <1>1, <3>1 DEF ActivityKept
  <2>5. CASE UNCHANGED conn
    BY <1>2, <2>5
  <2> QED
    BY <1>4, <2>2, <2>3, <2>4, <2>5, MutateCases
<1>5. CASE ActivateWrite
  <2> DEFINE j == Head(requests).key
  <2>1. CASE j # k
    BY <1>0, <1>2, <1>5, <2>1, ActivateDecides
  <2>2. CASE j = k
    <3>1. conn'[k] = image /\ image.seen = conn[k].seen /\ image # None
      BY <1>0, <1>5, <2>2, ActivateDecides, NoneIsNoEntry
    <3> QED
      BY <1>1, <3>1 DEF ActivityKept
  <2> QED
    BY <2>1, <2>2
<1>6. CASE UNCHANGED maps
  BY <1>2, <1>6 DEF maps
<1>7. CASE \E c \in Cpus : KernelStep(c) \/ \E j \in Keys : Receive(c, j) \/ ReplyLookup(c, j)
  BY <1>3, <1>7, KernelMoves
<1>8. CASE Tick \/ Backend \/ UNCHANGED vars
  BY <1>4, <1>5, <1>6, <1>8, BackendWrites
<1> QED
  BY <1>7, <1>8 DEF Next

(* Recorded activity is never lost: no commit, activation or refresh rolls   *)
(* an owner's clock back, and only an owner past its timeout is deleted for  *)
(* its age.                                                                  *)
THEOREM ActivityIsKept == Spec => ActivityCounts
<1>1. FlowInv /\ [Next]_vars => \A k \in Keys : ActivityKept(k)
  BY StepKeepsActivity
<1>2. FlowInv /\ [Next]_vars =>
        [\A k \in Keys :
            /\ conn[k] # None /\ conn[k].state # "Preparing" /\ conn'[k] # None =>
                conn'[k].seen >= conn[k].seen
            /\ conn[k] # None /\ conn'[k] = None /\ Head(requests).kind \in {"expiredConn", "hint"} =>
                ConnExpired(conn[k], now)]_vars
  BY <1>1 DEF ActivityKept
<1> QED
  BY <1>2, FlowsAreConsistent, PTL DEF Spec, ActivityCounts

-----------------------------------------------------------------------------
(* The refinement of FlowLifetime.                                           *)

OwnerOf(e) == IF e = None THEN None ELSE [inc |-> e.inc, phase |-> e.state]

FlowOf == [k \in Keys |->
                IF conn[k] = None THEN None
                ELSE [inc |-> conn[k].inc, phase |-> conn[k].state]]

TracesOf == [k \in Keys |-> {e.inc : e \in {redirect[k], handoff[k]} \ {None}}]

LifetimeStep ==
    \/ UNCHANGED <<incs, FlowOf, TracesOf>>
    \/ Lifetime!Next

(* An owner in the map is an owner of the lifetime.                          *)
LEMMA OwnerMaps ==
    ASSUME FlowInv, NEW k \in Keys
    PROVE  /\ FlowOf[k] = OwnerOf(conn[k])
           /\ conn[k] = None <=> FlowOf[k] = None
           /\ conn[k] # None => FlowOf[k].inc = conn[k].inc /\ FlowOf[k].phase = conn[k].state
           /\ TracesOf[k] \in {{}, {conn[k].inc}}
           /\ conn[k] = None => TracesOf[k] = {}
           /\ redirect[k] = None /\ handoff[k] = None => TracesOf[k] = {}
<1>1. FlowOf[k] = OwnerOf(conn[k])
  BY DEF FlowOf, OwnerOf
<1>2. conn[k] # None =>
        /\ OwnerOf(conn[k]) # None
        /\ OwnerOf(conn[k]).inc = conn[k].inc /\ OwnerOf(conn[k]).phase = conn[k].state
  <2> SUFFICES ASSUME conn[k] # None
               PROVE  /\ OwnerOf(conn[k]) # None
                      /\ OwnerOf(conn[k]).inc = conn[k].inc /\ OwnerOf(conn[k]).phase = conn[k].state
    OBVIOUS
  <2>1. conn[k] \in ConnStates
    BY DEF FlowInv, TypeOK
  <2>2. OwnerOf(conn[k]) = [inc |-> conn[k].inc, phase |-> conn[k].state]
    BY DEF OwnerOf
  <2>3. OwnerOf(conn[k]) \in [inc : 1..MaxInc, phase : UdpDecisionState]
    BY <2>1, <2>2 DEF ConnStates
  <2> QED
    BY <2>2, <2>3, NoneIsNoEntry
<1>3. TracesOf[k] = {e.inc : e \in {redirect[k], handoff[k]} \ {None}}
  BY DEF TracesOf
<1>4. /\ redirect[k] # None => conn[k] # None /\ conn[k].inc = redirect[k].inc
      /\ handoff[k] # None => conn[k] # None /\ conn[k].inc = handoff[k].inc
  BY DEF FlowInv, AuxiliaryOwned
<1>5. \A e \in {redirect[k], handoff[k]} \ {None} : e.inc = conn[k].inc /\ conn[k] # None
  BY <1>4
<1> QED
  BY <1>1, <1>2, <1>3, <1>5 DEF OwnerOf

LEMMA FlowUpdate ==
    ASSUME NEW k \in Keys, \A j \in Keys : j # k => OwnerOf(conn'[j]) = OwnerOf(conn[j])
    PROVE  FlowOf' = [FlowOf EXCEPT ![k] = OwnerOf(conn'[k])]
<1>1. FlowOf = [j \in Keys |-> OwnerOf(conn[j])]
  BY DEF FlowOf, OwnerOf
<1>2. FlowOf' = [j \in Keys |-> OwnerOf(conn'[j])]
  BY DEF FlowOf, OwnerOf
<1> QED
  BY <1>1, <1>2

LEMMA FlowSame ==
    ASSUME \A j \in Keys : OwnerOf(conn'[j]) = OwnerOf(conn[j])
    PROVE  FlowOf' = FlowOf
<1>1. FlowOf = [j \in Keys |-> OwnerOf(conn[j])]
  BY DEF FlowOf, OwnerOf
<1>2. FlowOf' = [j \in Keys |-> OwnerOf(conn'[j])]
  BY DEF FlowOf, OwnerOf
<1> QED
  BY <1>1, <1>2

LEMMA TracesUpdate ==
    ASSUME NEW k \in Keys, \A j \in Keys : j # k => redirect'[j] = redirect[j] /\ handoff'[j] = handoff[j]
    PROVE  TracesOf' = [TracesOf EXCEPT ![k] = TracesOf'[k]]
BY DEF TracesOf

(* The lifetime's actions, over the maps.                                    *)
LEMMA ClaimStep ==
    ASSUME NEW k \in Keys, FlowOf[k] = None, TracesOf[k] = {}, incs' = incs + 1,
           FlowOf' = [FlowOf EXCEPT ![k] = [inc |-> incs + 1, phase |-> "Preparing"]], UNCHANGED TracesOf
    PROVE  LifetimeStep
BY DEF LifetimeStep, Lifetime!Next, Lifetime!Claim, Lifetime!Owner, FlowOf, TracesOf

LEMMA WasteStep ==
    ASSUME incs' = incs + 1, UNCHANGED <<FlowOf, TracesOf>> PROVE LifetimeStep
BY DEF LifetimeStep, Lifetime!Next, Lifetime!Waste, FlowOf, TracesOf

LEMMA DecideStep ==
    ASSUME NEW k \in Keys, FlowOf[k] # None,
           NEW phase \in Lifetime!NextPhases(FlowOf[k].phase),
           FlowOf' = [FlowOf EXCEPT ![k] = [inc |-> FlowOf[k].inc, phase |-> phase]],
           UNCHANGED <<incs, TracesOf>>
    PROVE  LifetimeStep
BY DEF LifetimeStep, Lifetime!Next, Lifetime!Decide, Lifetime!Owner, FlowOf, TracesOf

LEMMA TraceLifetimeStep ==
    ASSUME NEW k \in Keys, FlowOf[k] # None, NEW kept \in {{}, {FlowOf[k].inc}},
           TracesOf' = [TracesOf EXCEPT ![k] = kept], UNCHANGED <<incs, FlowOf>>
    PROVE  LifetimeStep
BY DEF LifetimeStep, Lifetime!Next, Lifetime!Trace, FlowOf, TracesOf

LEMMA RetireStep ==
    ASSUME NEW k \in Keys, FlowOf[k] # None, TracesOf[k] = {},
           FlowOf' = [FlowOf EXCEPT ![k] = None], UNCHANGED <<incs, TracesOf>>
    PROVE  LifetimeStep
BY DEF LifetimeStep, Lifetime!Next, Lifetime!Retire, FlowOf, TracesOf

(* The same, from what happened to the maps.                                 *)
LEMMA StutterInMaps ==
    ASSUME FlowInv, UNCHANGED <<redirect, handoff>>, incs' \in {incs, incs + 1},
           \A j \in Keys : \/ conn'[j] = conn[j]
                           \/ /\ conn[j] # None /\ conn'[j] # None
                              /\ conn'[j].inc = conn[j].inc /\ conn'[j].state = conn[j].state
    PROVE  LifetimeStep
<1>1. FlowOf' = FlowOf
  BY FlowSame DEF OwnerOf
<1>2. TracesOf' = TracesOf
  BY DEF TracesOf
<1> QED
  BY <1>1, <1>2, WasteStep DEF LifetimeStep

LEMMA DecidesInMaps ==
    ASSUME FlowInv, NEW k \in Keys, conn[k] # None, conn'[k] # None, conn'[k].inc = conn[k].inc,
           conn'[k].state \in Lifetime!NextPhases(conn[k].state),
           \A j \in Keys : j # k => conn'[j] = conn[j], UNCHANGED <<redirect, handoff, incs>>
    PROVE  LifetimeStep
<1>1. FlowOf' = [FlowOf EXCEPT ![k] = OwnerOf(conn'[k])]
  BY FlowUpdate
<1>2. OwnerOf(conn'[k]) = [inc |-> conn[k].inc, phase |-> conn'[k].state]
  BY DEF OwnerOf
<1>3. FlowOf[k] # None /\ FlowOf[k].inc = conn[k].inc /\ FlowOf[k].phase = conn[k].state
  BY OwnerMaps
<1>4. TracesOf' = TracesOf
  BY DEF TracesOf
<1> QED
  BY <1>1, <1>2, <1>3, <1>4, DecideStep

LEMMA TracesInMaps ==
    ASSUME FlowInv, AuxiliaryOwned', NEW k \in Keys, UNCHANGED <<conn, incs>>,
           \A j \in Keys : j # k => redirect'[j] = redirect[j] /\ handoff'[j] = handoff[j]
    PROVE  LifetimeStep
<1>1. FlowOf' = FlowOf
  BY FlowSame
<1>2. TracesOf' = [TracesOf EXCEPT ![k] = TracesOf'[k]]
  BY TracesUpdate
<1>3. TracesOf'[k] = {e.inc : e \in {redirect'[k], handoff'[k]} \ {None}}
  BY DEF TracesOf
<1>4. \A e \in {redirect'[k], handoff'[k]} \ {None} : e.inc = conn[k].inc /\ conn[k] # None
  BY DEF AuxiliaryOwned
<1>5. CASE conn[k] # None
  <2>1. TracesOf'[k] \in {{}, {conn[k].inc}}
    BY <1>3, <1>4
  <2>2. FlowOf[k] # None /\ FlowOf[k].inc = conn[k].inc
    BY <1>5, OwnerMaps
  <2> QED
    BY <1>1, <1>2, <2>1, <2>2, TraceLifetimeStep
<1>6. CASE conn[k] = None
  <2>1. TracesOf'[k] = {} /\ TracesOf[k] = {}
    BY <1>3, <1>4, <1>6, OwnerMaps
  <2>2. TracesOf' = TracesOf
    BY <1>2, <2>1 DEF TracesOf
  <2> QED
    BY <1>1, <2>2 DEF LifetimeStep
<1> QED
  BY <1>5, <1>6

LEMMA MoveIsLifetimeStep ==
    ASSUME FlowInv, NEW c \in Cpus, NEW k \in Keys, NEW p, KernelMove(c, k, p)
    PROVE  LifetimeStep
<1>0. conn \in [Keys -> ConnStates \cup {None}] /\ incs \in Nat
  BY BoundsAreNaturals DEF FlowInv, TypeOK
<1>1. CASE TouchesOwner(k)
  <2>1. UNCHANGED <<redirect, handoff>> /\ incs' \in {incs, incs + 1}
    BY <1>1 DEF TouchesOwner
  <2>2. CASE UNCHANGED conn
    BY <2>1, <2>2, StutterInMaps
  <2>3. CASE ~UNCHANGED conn
    <3>1. PICK t \in 0..MaxNow : conn' = [conn EXCEPT ![k] = [conn[k] EXCEPT !.seen = t]]
      BY <1>1, <2>3 DEF TouchesOwner
    <3>2. conn[k] # None /\ conn[k] \in ConnStates
      BY <1>0, <1>1, <2>3 DEF TouchesOwner
    <3>3. conn'[k].inc = conn[k].inc /\ conn'[k].state = conn[k].state
      BY <1>0, <3>1, <3>2 DEF ConnStates
    <3>4. \A j \in Keys : j # k => conn'[j] = conn[j]
      BY MoveConn
    <3>5. conn'[k] # None
      BY <3>2, MoveConn
    <3> QED
      BY <2>1, <3>2, <3>3, <3>4, <3>5, StutterInMaps
  <2> QED
    BY <2>2, <2>3
<1>2. CASE ClaimsTuple(k, p)
  <2>1. /\ conn[k] = None /\ incs' = incs + 1 /\ UNCHANGED <<redirect, handoff>>
        /\ conn'[k] = ConnState("Preparing", 0, incs + 1, now, FALSE)
    BY <1>0, <1>2 DEF ClaimsTuple
  <2>2. conn'[k] # None
    BY <1>2 DEF ClaimsTuple, KernelMove, CarrierPcs
  <2>3. OwnerOf(conn'[k]) = [inc |-> incs + 1, phase |-> "Preparing"]
    <3>1. conn'[k].inc = incs + 1 /\ conn'[k].state = "Preparing"
      BY <2>1 DEF ConnState
    <3> QED
      BY <2>2, <3>1 DEF OwnerOf
  <2>4. FlowOf' = [FlowOf EXCEPT ![k] = OwnerOf(conn'[k])]
    BY FlowUpdate, MoveConn
  <2>5. TracesOf' = TracesOf
    BY <2>1 DEF TracesOf
  <2>6. FlowOf[k] = None /\ TracesOf[k] = {}
    BY <2>1, OwnerMaps
  <2> QED
    BY <2>1, <2>3, <2>4, <2>5, <2>6, ClaimStep
<1>3. CASE SettlesClaim(c, k, p)
  <2>1. PICK e \in ConnStates : /\ e.inc = conn[k].inc /\ e.state \in {"Pending", "None", "Aborted"}
                                /\ conn' = [conn EXCEPT ![k] = e]
    BY <1>3 DEF SettlesClaim
  <2>2. Holder(c) /\ UNCHANGED <<redirect, handoff, incs>>
    BY <1>3 DEF SettlesClaim
  <2>3. conn[k] # None /\ conn[k].state = "Preparing"
    BY <2>2, MoveCpu DEF Claimed
  <2>4. conn'[k] = e /\ conn'[k] # None
    BY <1>0, <2>1, NoneIsNoEntry
  <2>5. conn'[k].state \in Lifetime!NextPhases(conn[k].state)
    BY <2>1, <2>3, <2>4 DEF Lifetime!NextPhases
  <2> QED
    BY <2>1, <2>2, <2>3, <2>4, <2>5, MoveConn, DecidesInMaps
<1>4. CASE WritesTrace(c, k)
  BY <1>4, MoveAuxiliaries, TracesInMaps DEF WritesTrace
<1> QED
  BY <1>1, <1>2, <1>3, <1>4 DEF KernelMove

LEMMA MutateIsLifetimeStep ==
    ASSUME FlowInv, Mutate PROVE LifetimeStep
<1> DEFINE r == Head(requests)
           k == r.key
<1>0. /\ conn \in [Keys -> ConnStates \cup {None}] /\ k \in Keys /\ at = "execute"
      /\ redirect \in [Keys -> Auxiliaries \cup {None}]
      /\ handoff \in [Keys -> Auxiliaries \cup {None}]
      /\ UNCHANGED incs /\ AuxiliaryOwned'
  BY MutateCases, MutateOwners DEF FlowInv, TypeOK, Mutate, BackendFrame, counters
<1>1. CASE /\ redirect[k] = None /\ handoff[k] = None
           /\ conn' = [conn EXCEPT ![k] = None] /\ UNCHANGED <<redirect, handoff>>
  <2>1. CASE conn[k] = None
    <3>1. conn' = conn
      BY <1>0, <1>1, <2>1
    <3> QED
      BY <1>0, <1>1, <3>1, StutterInMaps
  <2>2. CASE conn[k] # None
    <3>1. conn'[k] = None /\ \A j \in Keys : j # k => conn'[j] = conn[j]
      BY <1>0, <1>1
    <3>2. FlowOf' = [FlowOf EXCEPT ![k] = None]
      BY <1>0, <3>1, FlowUpdate DEF OwnerOf
    <3>3. FlowOf[k] # None /\ TracesOf[k] = {}
      BY <1>0, <1>1, <2>2, OwnerMaps
    <3>4. TracesOf' = TracesOf
      BY <1>1 DEF TracesOf
    <3> QED
      BY <1>0, <3>2, <3>3, <3>4, RetireStep
  <2> QED
    BY <2>1, <2>2
<1>2. CASE /\ steps \in WritePlans
           /\ conn' = [conn EXCEPT ![k] = image] /\ UNCHANGED <<redirect, handoff>>
  <2>1. /\ conn[k] # None /\ conn[k].state = "Pending" /\ image \in ConnStates
        /\ image.inc = conn[k].inc /\ image.state \in Transitions
    BY <1>0, <1>2, WriteDecides
  <2>2. conn'[k] = image /\ image # None /\ \A j \in Keys : j # k => conn'[j] = conn[j]
    BY <1>0, <1>2, <2>1, NoneIsNoEntry
  <2>3. conn'[k].state \in Lifetime!NextPhases(conn[k].state)
    BY <2>1, <2>2 DEF Lifetime!NextPhases, Transitions
  <2> QED
    BY <1>0, <1>2, <2>1, <2>2, <2>3, DecidesInMaps
<1>3. CASE UNCHANGED conn
           /\ (\/ handoff' = [handoff EXCEPT ![k] = None] /\ UNCHANGED redirect
               \/ redirect' = [redirect EXCEPT ![k] = None] /\ UNCHANGED handoff)
  <2>1. \A j \in Keys : j # k => redirect'[j] = redirect[j] /\ handoff'[j] = handoff[j]
    BY <1>0, <1>3
  <2> QED
    BY <1>0, <1>3, <2>1, TracesInMaps
<1> QED
  BY <1>1, <1>2, <1>3, MutateCases

LEMMA ActivateIsLifetimeStep ==
    ASSUME FlowInv, ActivateWrite PROVE LifetimeStep
<1> DEFINE k == Head(requests).key
<1>0. conn \in [Keys -> ConnStates \cup {None}]
  BY DEF FlowInv, TypeOK
<1>1. /\ k \in Keys /\ conn[k] # None /\ conn[k].state = "DirectArmed"
      /\ image \in ConnStates /\ image.inc = conn[k].inc /\ image.state = "None"
      /\ conn' = [conn EXCEPT ![k] = image] /\ UNCHANGED <<redirect, handoff, incs>>
  BY ActivateDecides
<1>2. conn'[k] = image /\ image # None /\ \A j \in Keys : j # k => conn'[j] = conn[j]
  BY <1>0, <1>1, NoneIsNoEntry
<1>3. conn'[k].state \in Lifetime!NextPhases(conn[k].state)
  BY <1>1, <1>2 DEF Lifetime!NextPhases
<1> QED
  BY <1>1, <1>2, <1>3, DecidesInMaps

LEMMA NextIsLifetimeStep ==
    FlowInv /\ [Next]_vars => LifetimeStep
<1> SUFFICES ASSUME FlowInv, [Next]_vars PROVE LifetimeStep
  OBVIOUS
<1>1. CASE \E c \in Cpus : KernelStep(c) \/ \E k \in Keys : Receive(c, k) \/ ReplyLookup(c, k)
  <2>1. PICK c \in Cpus : Moves(c)
    BY <1>1, KernelMoves
  <2> QED
    BY <2>1, MoveIsLifetimeStep DEF Moves
<1>2. CASE Tick \/ Backend \/ UNCHANGED vars
  <2>1. CASE UNCHANGED maps
    <3>1. UNCHANGED incs
      BY <1>2 DEF Tick, Backend, DecideRetirement, RetireFlows, CommitUdpFenced, FenceReady, ReopenReady,
           GraceBarrier, QuiesceScan, AcquireFence, AcquireFenceFails, BarrierFails, Plan, Mutate, MutateFails,
           ReleaseFence, ReleaseFenceFails, Finish, ActivateRead, ActivateWrite, BackendFrame, counters, vars
    <3> QED
      BY <2>1, <3>1, StutterInMaps DEF maps
  <2> QED
    BY <1>2, <2>1, BackendWrites, MutateIsLifetimeStep, ActivateIsLifetimeStep
<1> QED
  BY <1>1, <1>2 DEF Next

(* The three maps, written by concurrent invocations and by a backend that   *)
(* fences, waits and deletes map by map, implement the lifetime of a flow.   *)
THEOREM LifetimeIsImplemented == Spec => ImplementsLifetime
<1>1. Init => Lifetime!Init
  BY DEF Init, Lifetime!Init
<1>2. FlowInv /\ [Next]_vars => [Lifetime!Next]_(Lifetime!vars)
  BY NextIsLifetimeStep DEF LifetimeStep, FlowOf, TracesOf, Lifetime!vars
<1> QED
  BY <1>1, <1>2, FlowsAreConsistent, PTL DEF Spec, ImplementsLifetime, Lifetime!Spec
=============================================================================
