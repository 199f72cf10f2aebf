--------------------------- MODULE FlowRetirement ---------------------------
(***************************************************************************)
(* The three maps that hold a UDP tuple's state (CONN_STATE_MAP,           *)
(* REDIRECT_TRACK and ROUTING_HANDOFF_MAP), the kernel invocations that    *)
(* claim, publish and refresh them, and the userspace backend that         *)
(* retires, commits and quiesces them: raise RETIRE_ACTIVE, fence the      *)
(* tuples, wait for the invocations that may have missed the fence (a      *)
(* replacement in a map of maps returns only after every earlier BPF       *)
(* reader has left), read again, mutate map by map, release the fences.    *)
(*                                                                         *)
(* Any number of kernel invocations run at once.  Each is split between a  *)
(* fence check and the insertion, publication or abort that follows it; a  *)
(* lookup and the refresh of the entry it found are one step.  The backend *)
(* is owned exclusively (a write lock), so one operation runs at a time;   *)
(* the owner recorded in a fence is then always the running operation and  *)
(* a fence is a member of a set.  Only UDP tuples other than DNS are       *)
(* modelled.  Time is a bounded clock in units of the refresh interval.    *)
(***************************************************************************)
EXTENDS Naturals, Sequences, FiniteSets

CONSTANTS
    Keys,        \* UDP tuples
    Cpus,        \* kernel invocations that can be in flight at once
    None,        \* an absent map entry
    ConnTimeout, \* UDP_CONN_STATE_TIMEOUT_NS
    MaxInc,      \* bound on incarnations handed out
    MaxToken,    \* tokens the allocator has left before it is exhausted
    MaxNow       \* bound on the clock

ASSUME BoundsAreNaturals ==
    /\ ConnTimeout \in Nat
    /\ MaxInc \in Nat
    /\ MaxToken \in Nat
    /\ MaxNow \in Nat

VARIABLES
    conn, redirect, handoff,  \* the maps
    incs, tokens, now,        \* FLOW_INCARNATION_SEQUENCE, UDP_DECISION_SEQUENCE, the clock
    cpu,                      \* kernel invocations in flight
    active, fence,            \* RETIRE_ACTIVE, RETIRE_FENCE
    ready, incomplete, retirementFailed,
                              \* NFQ_READY, udp_staging_quiesce_incomplete, retirement_failed
    due,                      \* a retirement decided on but not yet carried out
    at, mode, requests, toFence, held, steps, image, failure, unresolved, refused
                              \* the operation the backend is running

maps == <<conn, redirect, handoff>>
counters == <<incs, tokens, now>>
fences == <<active, fence>>
flags == <<ready, incomplete, retirementFailed>>
batch == <<at, mode, requests, toFence, held, steps, image, failure, unresolved, refused>>
vars == <<maps, counters, cpu, fences, flags, due, batch>>

-----------------------------------------------------------------------------
(* Map entries.                                                            *)

UdpDecisionState ==
    {"None", "Preparing", "Pending", "DirectArmed", "Proxy", "Block", "Aborted"}

\* user: a native decision that goes through userspace (not block, not offloaded).
ConnState(state, token, inc, seen, user) ==
    [state |-> state, token |-> token, inc |-> inc, seen |-> seen, user |-> user]

\* The age of an auxiliary is left out: it may have expired whenever it is looked at.
Auxiliary(token, inc) == [token |-> token, inc |-> inc]

ConnStates ==
    [state : UdpDecisionState, token : 0..MaxToken, inc : 1..MaxInc, seen : 0..MaxNow, user : BOOLEAN]

Auxiliaries == [token : 0..MaxToken, inc : 1..MaxInc]

\* A map without an entry is told from every entry, and holds finitely many tuples.
ASSUME NoneIsNoEntry ==
    /\ None \notin ConnStates /\ None \notin Auxiliaries
    /\ None \notin [inc : 1..MaxInc, phase : UdpDecisionState]

ASSUME KeysAreFinite == IsFiniteSet(Keys)

Staged(state) == state \in {"Preparing", "Pending", "Aborted"}

UserspaceOwned(state) == Staged(state) \/ state = "Proxy"

LegacyUserspaceOwned(e) == e.token = 0 /\ e.state = "None" /\ e.user

ConnExpired(e, t) == e.state = "Aborted" \/ t > e.seen + ConnTimeout

\* RETIRE_ACTIVE is raised before the first fence and lowered after the last,
\* so that one read of both decides as the code's two reads do.
TupleRetiring(k) == active /\ k \in fence

-----------------------------------------------------------------------------
(* A kernel invocation.  `now` is the clock a reply read, `grace` that a   *)
(* barrier waits for it.                                                   *)

Idle ==
    [pc |-> "idle", key |-> None, now |-> 0, inc |-> 0, token |-> 0,
     mode |-> "none", ready |-> FALSE, user |-> FALSE, grace |-> FALSE]

KernelPcs ==
    {"idle", "lookup", "claim", "insert", "route", "redirect", "redirectInsert", "handoff",
     "handoffInsert", "publish", "write", "abort", "replyTouch", "replyRenew"}

Invocation ==
    [pc : KernelPcs, key : Keys \cup {None}, now : 0..MaxNow, inc : 0..MaxInc,
     token : 0..MaxToken, mode : {"none", "again", "stage", "native", "cached", "reply"},
     ready : BOOLEAN, user : BOOLEAN, grace : BOOLEAN]

At(c, pc) == cpu[c].pc = pc

Leave(c) == cpu' = [cpu EXCEPT ![c] = Idle]

Go(c, pc) == cpu' = [cpu EXCEPT ![c].pc = pc]

\* Everything but the maps, the sequences and the invocation itself.
KernelFrame == UNCHANGED <<now, fences, flags, due, batch>>

Init ==
    /\ conn = [k \in Keys |-> None]
    /\ redirect = [k \in Keys |-> None]
    /\ handoff = [k \in Keys |-> None]
    /\ incs = 0 /\ tokens = 0 /\ now = 0
    /\ cpu = [c \in Cpus |-> Idle]
    /\ active = FALSE /\ fence = {}
    /\ ready = TRUE /\ incomplete = FALSE /\ retirementFailed = FALSE
    /\ due = None
    /\ at = "idle" /\ mode = "none" /\ requests = <<>>
    /\ toFence = {} /\ held = {} /\ steps = <<>> /\ image = None
    /\ failure = FALSE /\ unresolved = FALSE /\ refused = FALSE

Tick ==
    /\ now < MaxNow
    /\ now' = now + 1
    /\ UNCHANGED <<maps, incs, tokens, cpu, fences, flags, due, batch>>

\* Seeded bug: armed owners are refreshed like any other.
RefreshedEveryState(e, t) ==
    IF e.state \notin {"Preparing", "Pending"} /\ t > e.seen
    THEN [e EXCEPT !.seen = t]
    ELSE e

\* Staged snapshots are frozen; others are refreshed lazily.
Refreshed(e, t) ==
    IF e.state \notin {"Preparing", "Pending", "DirectArmed"} /\ t > e.seen
    THEN [e EXCEPT !.seen = t]
    ELSE e

\* What a packet of an already decided flow does next.
Cached(inv, e) ==
    LET next(pc) ==
            [inv EXCEPT !.pc = pc, !.inc = e.inc, !.token = e.token, !.mode = "cached"]
    IN  CASE e.state = "Proxy" -> next("redirect")
          [] LegacyUserspaceOwned(e) -> next("handoff")
          [] OTHER -> Idle

\* A hit is refreshed and followed; a fenced, expired or preparing tuple
\* refuses the packet.
LookupUdpSeen(c, inv) ==
    LET k == inv.key
        e == conn[k]
        live == ~TupleRetiring(k) /\ e # None /\ ~ConnExpired(e, now)
    IN  /\ cpu' = [cpu EXCEPT ![c] = IF live THEN Cached(inv, e) ELSE Idle]
        /\ conn' = IF live THEN [conn EXCEPT ![k] = Refreshed(e, now)] ELSE conn
        /\ UNCHANGED <<redirect, handoff, incs, tokens>>
        /\ KernelFrame

\* A UDP packet enters the classifier (lookup_udp_available); only a miss may claim.
Receive(c, k) ==
    LET inv == [Idle EXCEPT !.key = k]
        miss == ~TupleRetiring(k) /\ conn[k] = None
    IN  /\ At(c, "idle")
        /\ \/ /\ miss
              /\ cpu' = [cpu EXCEPT ![c] = [inv EXCEPT !.pc = "claim"]]
              /\ UNCHANGED <<maps, incs, tokens>>
              /\ KernelFrame
           \/ /\ ~miss
              /\ LookupUdpSeen(c, inv)

\* After a lost claim the winner's entry is looked up.
LookupAgain(c) ==
    /\ At(c, "lookup")
    /\ LookupUdpSeen(c, cpu[c])

\* claim_udp_preparing asks for the fence, having read the readiness flag.
ClaimCheck(c) ==
    /\ At(c, "claim")
    /\ cpu' = [cpu EXCEPT ![c] =
                IF TupleRetiring(cpu[c].key)
                THEN Idle
                ELSE [cpu[c] EXCEPT !.pc = "insert", !.ready = ready]]
    /\ UNCHANGED <<maps, incs, tokens>>
    /\ KernelFrame

\* It reserves the tuple; the incarnation is spent even when another invocation
\* was first, or when the map is full.
ClaimUdpPreparing(c) ==
    LET k == cpu[c].key
    IN  /\ At(c, "insert")
        /\ incs < MaxInc
        /\ incs' = incs + 1
        /\ \/ /\ conn[k] = None
              /\ conn' = [conn EXCEPT ![k] = ConnState("Preparing", 0, incs + 1, now, FALSE)]
              /\ cpu' = [cpu EXCEPT ![c] = [@ EXCEPT !.pc = "route", !.inc = incs + 1]]
           \/ /\ conn[k] # None
              /\ cpu' = [cpu EXCEPT ![c] = [@ EXCEPT !.pc = "lookup", !.mode = "again"]]
              /\ UNCHANGED conn
           \/ /\ conn[k] = None
              /\ Leave(c)
              /\ UNCHANGED conn
        /\ UNCHANGED <<redirect, handoff, tokens>>
        /\ KernelFrame

\* Seeded bug: the allocator does not stop at its last token.
RouteExhausted(c) ==
    LET next(pc) == [cpu[c] EXCEPT !.pc = pc, !.ready = FALSE]
    IN  /\ At(c, "route")
        /\ \/ /\ \E user \in BOOLEAN :
                  cpu' = [cpu EXCEPT ![c] = [next("publish") EXCEPT !.mode = "native", !.user = user]]
              /\ UNCHANGED tokens
           \/ /\ cpu[c].ready /\ ready
              /\ tokens' = tokens + 1
              /\ cpu' = [cpu EXCEPT ![c] =
                            [next("redirect") EXCEPT !.mode = "stage", !.token = tokens + 1]]
           \/ /\ cpu' = [cpu EXCEPT ![c] = next("abort")]
              /\ UNCHANGED tokens
        /\ UNCHANGED <<maps, incs>>
        /\ KernelFrame

\* Routing decides: it fails, publishes natively, or has to stage.  Staging
\* reads the readiness flag a second time and takes a token.
Route(c) ==
    LET next(pc) == [cpu[c] EXCEPT !.pc = pc, !.ready = FALSE]
    IN  /\ At(c, "route")
        /\ \/ /\ \E user \in BOOLEAN :
                  cpu' = [cpu EXCEPT ![c] = [next("publish") EXCEPT !.mode = "native", !.user = user]]
              /\ UNCHANGED tokens
           \/ /\ cpu[c].ready /\ ready
              /\ tokens < MaxToken
              /\ tokens' = tokens + 1
              /\ cpu' = [cpu EXCEPT ![c] =
                            [next("redirect") EXCEPT !.mode = "stage", !.token = tokens + 1]]
           \/ /\ cpu' = [cpu EXCEPT ![c] = next("abort")]
              /\ UNCHANGED tokens
        /\ UNCHANGED <<maps, incs>>
        /\ KernelFrame

\* The entry an invocation publishes or refreshes under its own identity.
Own(c) == Auxiliary(cpu[c].token, cpu[c].inc)

Owns(c, e) == e.inc = cpu[c].inc /\ e.token = cpu[c].token

\* Lazily move an entry's clock forward.
Touched(e, t) == IF t > e.seen THEN [e EXCEPT !.seen = t] ELSE e

\* A staged publication that is refused aborts its claim; a cached one drops the packet.
GiveUp(c) == IF cpu[c].mode = "stage" THEN Go(c, "abort") ELSE Leave(c)

\* refresh_redirect, or for a staged packet the fence check of publish_redirect.
RedirectCheck(c) ==
    LET k == cpu[c].key
        missing == cpu[c].mode = "stage" \/ redirect[k] = None
    IN  /\ At(c, "redirect")
        /\ IF TupleRetiring(k) THEN GiveUp(c)
           ELSE IF missing THEN Go(c, "redirectInsert")
           ELSE Leave(c)
        /\ UNCHANGED <<maps, incs, tokens>>
        /\ KernelFrame

\* The insertion itself: BPF_NOEXIST, so it fails over an existing entry or in a full map.
PublishRedirect(c) ==
    LET k == cpu[c].key
    IN  /\ At(c, "redirectInsert")
        /\ \/ /\ redirect[k] = None
              /\ redirect' = [redirect EXCEPT ![k] = Own(c)]
              /\ IF cpu[c].mode = "stage" THEN Go(c, "handoff") ELSE Leave(c)
           \/ /\ GiveUp(c)
              /\ UNCHANGED redirect
        /\ UNCHANGED <<conn, handoff, incs, tokens>>
        /\ KernelFrame

\* refresh_handoff, or for a staged packet the fence check of publish_handoff.
HandoffCheck(c) ==
    LET k == cpu[c].key
        missing == cpu[c].mode = "stage" \/ handoff[k] = None
    IN  /\ At(c, "handoff")
        /\ IF TupleRetiring(k) THEN GiveUp(c)
           ELSE IF missing THEN Go(c, "handoffInsert")
           ELSE IF Owns(c, handoff[k]) THEN Go(c, "redirect")
           ELSE Leave(c)
        /\ UNCHANGED <<maps, incs, tokens>>
        /\ KernelFrame

PublishHandoff(c) ==
    LET k == cpu[c].key
    IN  /\ At(c, "handoffInsert")
        /\ \/ /\ handoff[k] = None
              /\ handoff' = [handoff EXCEPT ![k] = Own(c)]
              /\ Go(c, IF cpu[c].mode = "stage" THEN "publish" ELSE "redirect")
           \/ /\ GiveUp(c)
              /\ UNCHANGED handoff
        /\ UNCHANGED <<conn, redirect, incs, tokens>>
        /\ KernelFrame

\* publish_claimed_udp_state asks for the fence.
PublishCheck(c) ==
    /\ At(c, "publish")
    /\ cpu' = [cpu EXCEPT ![c] =
                IF TupleRetiring(cpu[c].key)
                THEN [@ EXCEPT !.pc = "abort"]
                ELSE [@ EXCEPT !.pc = "write"]]
    /\ UNCHANGED <<maps, incs, tokens>>
    /\ KernelFrame

\* The claim this invocation made and nobody has published.
Claimed(c) ==
    LET e == conn[cpu[c].key]
    IN  e # None /\ e.state = "Preparing" /\ e.token = 0 /\ e.inc = cpu[c].inc

\* It completes its own claim only.  A staged packet is then queued, a native
\* one that userspace handles goes on to its auxiliaries.
PublishClaimedUdpState(c) ==
    LET k == cpu[c].key
        stage == cpu[c].mode = "stage"
    IN  /\ At(c, "write")
        /\ conn' = IF Claimed(c)
                   THEN [conn EXCEPT ![k] =
                            ConnState(IF stage THEN "Pending" ELSE "None",
                                      cpu[c].token, cpu[c].inc, now, cpu[c].user)]
                   ELSE conn
        /\ cpu' = [cpu EXCEPT ![c] =
                    IF ~Claimed(c) THEN [@ EXCEPT !.pc = "abort"]
                    ELSE IF ~stage /\ @.user
                    THEN [@ EXCEPT !.pc = "handoff", !.mode = "cached", !.user = FALSE]
                    ELSE Idle]
        /\ UNCHANGED <<redirect, handoff, incs, tokens>>
        /\ KernelFrame

\* Seeded bug: the abort respects the fence as a publication does.
AbortUnlessFenced(c) ==
    LET k == cpu[c].key
    IN  /\ At(c, "abort")
        /\ conn' = IF Claimed(c) /\ ~TupleRetiring(k)
                   THEN [conn EXCEPT ![k] =
                            ConnState("Aborted", cpu[c].token, cpu[c].inc, conn[k].seen, FALSE)]
                   ELSE conn
        /\ Leave(c)
        /\ UNCHANGED <<redirect, handoff, incs, tokens>>
        /\ KernelFrame

\* An admitted producer may cancel its claim through a fence installed since.
AbortUdpPreparing(c) ==
    LET k == cpu[c].key
    IN  /\ At(c, "abort")
        /\ conn' = IF Claimed(c)
                   THEN [conn EXCEPT ![k] =
                            ConnState("Aborted", cpu[c].token, cpu[c].inc, conn[k].seen, FALSE)]
                   ELSE conn
        /\ Leave(c)
        /\ UNCHANGED <<redirect, handoff, incs, tokens>>
        /\ KernelFrame

\* dae0_ingress: a reply comes back from the proxy.  The tuple must be
\* available; a lifecycle snapshot that is due for renewal is kept.
ReplyLookup(c, k) ==
    LET e == conn[k]
        available ==
            ~TupleRetiring(k) /\ (e # None => e.state # "Preparing" /\ ~ConnExpired(e, now))
        keeps == e # None /\ e.state \in {"None", "Proxy"} /\ now > e.seen
    IN  /\ At(c, "idle")
        /\ available
        /\ cpu' = [cpu EXCEPT ![c] =
                [Idle EXCEPT !.pc = "replyTouch", !.key = k, !.now = now, !.mode = "reply",
                             !.inc = IF keeps THEN e.inc ELSE 0]]
        /\ UNCHANGED <<maps, incs, tokens>>
        /\ KernelFrame

\* reverse_redirect: the reply follows a live redirect entry and renews the
\* owner only when both are of one incarnation.
ReplyTouch(c) ==
    LET k == cpu[c].key
        e == redirect[k]
    IN  /\ At(c, "replyTouch")
        /\ \/ Leave(c)
           \/ /\ ~TupleRetiring(k)
              /\ e # None
              /\ cpu[c].inc = e.inc
              /\ cpu' = [cpu EXCEPT ![c] = [@ EXCEPT !.pc = "replyRenew", !.token = e.token]]
        /\ UNCHANGED <<maps, incs, tokens>>
        /\ KernelFrame

\* renew_udp_reply: a reply keeps the flow it belongs to alive.
RenewUdpReply(c) ==
    LET k == cpu[c].key
        e == conn[k]
        renews ==
            /\ ~TupleRetiring(k)
            /\ e # None
            /\ Owns(c, e)
            /\ e.state \in {"None", "Proxy"}
            /\ ~ConnExpired(e, cpu[c].now)
    IN  /\ At(c, "replyRenew")
        /\ conn' = IF renews THEN [conn EXCEPT ![k] = Touched(e, cpu[c].now)] ELSE conn
        /\ Leave(c)
        /\ UNCHANGED <<redirect, handoff, incs, tokens>>
        /\ KernelFrame

KernelStep(c) ==
    \/ LookupAgain(c)
    \/ ClaimCheck(c)
    \/ ClaimUdpPreparing(c)
    \/ Route(c)
    \/ RedirectCheck(c)
    \/ PublishRedirect(c)
    \/ HandoffCheck(c)
    \/ PublishHandoff(c)
    \/ PublishCheck(c)
    \/ PublishClaimedUdpState(c)
    \/ AbortUdpPreparing(c)
    \/ ReplyTouch(c)
    \/ RenewUdpReply(c)

-----------------------------------------------------------------------------
(* Retirement requests.  `inc` 0 stands for an owner without an incarnation *)
(* (a token alone), `entry` is the snapshot an expiry was decided on and   *)
(* `cutoff` the clock reading that goes with it.                           *)

Request(kind, k, token, inc, entry, cutoff) ==
    [kind |-> kind, key |-> k, token |-> token, inc |-> inc, entry |-> entry, cutoff |-> cutoff]

Before(t, timeout) == IF t > timeout THEN t - timeout ELSE 0

\* What may be decided on from the maps as they are: a staged packet's token
\* is given up, an endpoint closes, the janitor's scan or a packet's hint
\* finds an owner expired, the janitor's scan finds an auxiliary expired.
Decidable(k) ==
    LET e == conn[k]
    IN  (IF e = None THEN {}
         ELSE {Request("endpoint", k, e.token, e.inc, None, 0)})
        \cup
        (IF e = None \/ e.token = 0 THEN {}
         ELSE {Request("pending", k, e.token, i, None, 0) : i \in {0, e.inc}})
        \cup
        (IF e = None \/ ~ConnExpired(e, now) THEN {}
         ELSE {Request("hint", k, 0, e.inc, None, 0),
               Request("expiredConn", k, e.token, 0, e, Before(now, ConnTimeout))})
        \cup {Request("expiredRedirect", k, r.token, 0, r, 0) : r \in {redirect[k]} \ {None}}
        \cup {Request("expiredHandoff", k, h.token, 0, h, 0) : h \in {handoff[k]} \ {None}}

AuxiliariesMatch(inc, token, h, r) ==
    \A e \in {h, r} \ {None} : e.inc = inc /\ e.token = token

\* validate_conn_retirement: may this request remove this owner?
ValidateConn(r, e) ==
    CASE r.kind = "pending" ->
            IF e.token # r.token \/ (r.inc # 0 /\ r.inc # e.inc) THEN "TokenMismatch"
            ELSE IF Staged(e.state) THEN "Applied" ELSE "StateMismatch"
      [] r.kind = "endpoint" ->
            IF e.token # r.token \/ (r.inc # 0 /\ r.inc # e.inc) THEN "Superseded"
            ELSE IF r.token # 0 THEN IF UserspaceOwned(e.state) THEN "Applied" ELSE "StateMismatch"
            ELSE IF LegacyUserspaceOwned(e) \/ (e.state = "Aborted" /\ r.inc = e.inc)
                 THEN "Applied" ELSE "Superseded"
      [] r.kind = "expiredConn" ->
            IF e = r.entry /\ (e.state = "Aborted" \/ e.seen <= r.cutoff)
            THEN "Applied" ELSE "Superseded"
      [] r.kind = "hint" ->
            IF e.inc # r.inc THEN "Superseded"
            ELSE IF ConnExpired(e, r.cutoff) THEN "Applied" ELSE "StateMismatch"

\* conn_plan: the owner goes only with auxiliaries of its own identity.
ConnResult(r) ==
    LET k == r.key
        e == conn[k]
    IN  IF e = None THEN "Missing"
        ELSE IF ValidateConn(r, e) # "Applied" THEN ValidateConn(r, e)
        ELSE IF AuxiliariesMatch(e.inc, e.token, handoff[k], redirect[k])
             THEN "Applied" ELSE "TokenMismatch"

Present(map, e) == IF e = None THEN <<>> ELSE <<map>>

\* Seeded bug: the owner is deleted before its auxiliaries.
ConnPlanOwnerFirst(k) == <<"conn">> \o Present("handoff", handoff[k]) \o Present("redirect", redirect[k])

\* Auxiliaries before the owner, so that a failure part-way never leaves
\* auxiliaries that have outlived it.
ConnPlan(k) == Present("handoff", handoff[k]) \o Present("redirect", redirect[k]) \o <<"conn">>

\* expiry_hint_auxiliary_plan: without a removable owner only auxiliaries of
\* the hinted incarnation go, those that have expired.
HintAuxiliaryPlans(r) ==
    LET mine(e) == IF e # None /\ e.inc = r.inc THEN e ELSE None
        h == mine(handoff[r.key])
        t == mine(redirect[r.key])
        token == IF conn[r.key] # None THEN conn[r.key].token
                 ELSE IF h # None THEN h.token
                 ELSE IF t # None THEN t.token ELSE 0
    IN  IF AuxiliariesMatch(r.inc, token, h, t)
        THEN {<<>>, Present("handoff", h), Present("redirect", t),
              Present("handoff", h) \o Present("redirect", t)}
        ELSE {<<>>}

\* plan_retirement: the maps to delete from, in order; none when it refuses.
PlanRetirement(r) ==
    LET k == r.key
        stale(map, e) == IF e = r.entry THEN {<<map>>, <<>>} ELSE {<<>>}
    IN  CASE r.kind = "expiredRedirect" -> stale("redirect", redirect[k])
          [] r.kind = "expiredHandoff" -> stale("handoff", handoff[k])
          [] r.kind = "hint" /\ ConnResult(r) \in {"Missing", "StateMismatch"} -> HintAuxiliaryPlans(r)
          [] OTHER -> {IF ConnResult(r) = "Applied" THEN ConnPlan(k) ELSE <<>>}

\* retire_staged_udp: an owner that is neither gone nor superseded fails the
\* quiescence, but for a token-zero claim published since the scan.
Refuses(r) ==
    ConnResult(r) \notin
        {"Applied", "Missing", "Superseded"} \cup (IF r.token = 0 THEN {"StateMismatch"} ELSE {})

-----------------------------------------------------------------------------
(* The backend's operations.                                               *)

BackendFrame == UNCHANGED counters

\* The backend is idle again.
Settle ==
    /\ at' = "idle" /\ mode' = "none" /\ requests' = <<>>
    /\ toFence' = {} /\ held' = {} /\ steps' = <<>> /\ image' = None
    /\ failure' = FALSE /\ unresolved' = FALSE /\ refused' = FALSE

\* with_retirement_fences: raise RETIRE_ACTIVE, then fence every tuple once.
Start(newMode, rs) ==
    /\ at' = "acquire"
    /\ mode' = newMode
    /\ requests' = rs
    /\ toFence' = {rs[i].key : i \in DOMAIN rs}
    /\ active' = TRUE
    /\ failure' = FALSE /\ unresolved' = FALSE /\ refused' = FALSE
    /\ UNCHANGED <<fence, held, steps, image>>

\* A retirement is decided on; whoever decided holds no lock while it waits
\* for the backend, so the maps move on.
DecideRetirement ==
    /\ at = "idle"
    /\ \E k \in Keys : \E r \in Decidable(k) : due' = r
    /\ UNCHANGED <<maps, cpu, fences, flags, batch>>
    /\ BackendFrame

\* It is carried out, and may be carried out again.  A hint reads the clock here.
RetireFlows ==
    /\ at = "idle"
    /\ ~retirementFailed
    /\ due # None
    /\ Start("retire", <<IF due.kind = "hint" THEN [due EXCEPT !.cutoff = now] ELSE due>>)
    /\ UNCHANGED <<maps, cpu, flags, due>>
    /\ BackendFrame

\* commit_udp_fenced captures the incarnation before it fences.
Transitions == {"DirectArmed", "Proxy", "Block"}

CommitUdpFenced ==
    /\ at = "idle"
    /\ ~retirementFailed
    /\ \E k \in Keys, t \in 1..tokens, to \in Transitions :
        /\ conn[k] # None
        /\ Start("commit", <<Request(to, k, t, conn[k].inc, None, 0)>>)
    /\ UNCHANGED <<maps, cpu, flags, due>>
    /\ BackendFrame

\* The flags coordinator clears READY and quiesces under one backend lock;
\* a rotation quiesces again while READY is already clear.
FenceReady ==
    /\ at = "idle"
    /\ ready' = FALSE
    /\ incomplete' = TRUE
    /\ IF retirementFailed
       THEN UNCHANGED <<at, mode>>
       ELSE at' = "quiesce" /\ mode' = "quiesce"
    /\ UNCHANGED <<maps, cpu, fences, retirementFailed, due, requests, toFence, held, steps, image,
                   failure, unresolved, refused>>
    /\ BackendFrame

ReopenReady ==
    /\ at = "idle"
    /\ ~ready /\ ~incomplete /\ ~retirementFailed
    /\ ready' = TRUE
    /\ UNCHANGED <<maps, cpu, fences, incomplete, retirementFailed, due, batch>>
    /\ BackendFrame

\* grace_barrier: replacing the inner map waits for every invocation in flight.
Barrier(from, to) ==
    /\ at = from
    /\ cpu' = [c \in Cpus |-> [cpu[c] EXCEPT !.grace = (cpu[c].pc # "idle")]]
    /\ at' = to

GraceBarrier ==
    /\ toFence = {}
    /\ Barrier("acquire", "execute") \/ Barrier("quiesce", "quiesceGrace")
    /\ UNCHANGED <<maps, fences, flags, due, mode, requests, toFence, held, steps, image,
                   failure, unresolved, refused>>
    /\ BackendFrame

GraceOver == \A c \in Cpus : ~cpu[c].grace

\* The staged owners found after the barrier, each retired by its identity.
StagedRequests ==
    LET staged == {k \in Keys : conn[k] # None /\ Staged(conn[k].state)}
        request(k) == Request("pending", k, conn[k].token, conn[k].inc, None, 0)
    IN  {rs \in [1..Cardinality(staged) -> {request(k) : k \in staged}] :
            {rs[i].key : i \in DOMAIN rs} = staged}
QuiesceScan ==
    /\ at = "quiesceGrace"
    /\ GraceOver
    /\ \E rs \in StagedRequests :
        IF rs = <<>>
        THEN /\ Settle
             /\ incomplete' = FALSE
             /\ UNCHANGED fences
        ELSE /\ Start("quiesce", rs)
             /\ UNCHANGED incomplete
    /\ UNCHANGED <<maps, cpu, ready, retirementFailed, due>>
    /\ BackendFrame

AcquireFence ==
    /\ at = "acquire"
    /\ \E k \in toFence :
        /\ fence' = fence \cup {k}
        /\ held' = held \cup {k}
        /\ toFence' = toFence \ {k}
    /\ UNCHANGED <<maps, cpu, active, flags, due, at, mode, requests, steps, image,
                   failure, unresolved, refused>>
    /\ BackendFrame

\* A failed insertion: the fence may be there all the same, and when that
\* cannot be ruled out the ownership stays unresolved.
AcquireFenceFails ==
    /\ at = "acquire"
    /\ \E k \in toFence, present, unknown \in BOOLEAN :
        /\ fence' = IF present THEN fence \cup {k} ELSE fence
        /\ unresolved' = (present \/ unknown)
    /\ failure' = TRUE
    /\ toFence' = {}
    /\ at' = "release"
    /\ requests' = <<>>
    /\ UNCHANGED <<maps, cpu, active, flags, due, mode, held, steps, image, refused>>
    /\ BackendFrame

\* The barrier fails: nothing is mutated.
BarrierFails ==
    /\ \/ at = "acquire" /\ toFence = {}
       \/ at \in {"quiesce", "quiesceGrace"}
    /\ IF at \in {"quiesce", "quiesceGrace"}
       THEN Settle
       ELSE /\ failure' = TRUE
            /\ at' = "release"
            /\ requests' = <<>>
            /\ UNCHANGED <<mode, toFence, held, steps, image, unresolved, refused>>
    /\ cpu' = [c \in Cpus |-> [cpu[c] EXCEPT !.grace = FALSE]]
    /\ UNCHANGED <<maps, fences, flags, due>>
    /\ BackendFrame

\* plan_udp_commit: the captured owner, still Pending, with both auxiliaries of
\* its identity.  A proxy decision rewrites the redirect in place.
CommitPlan(r) ==
    LET k == r.key
        e == conn[k]
    IN  IF /\ e # None
           /\ e.token = r.token /\ e.inc = r.inc
           /\ e.state = "Pending"
           /\ handoff[k] # None /\ redirect[k] # None
           /\ AuxiliariesMatch(e.inc, r.token, handoff[k], redirect[k])
        THEN <<"handoff">> \o (IF r.kind = "Proxy" THEN <<>> ELSE <<"redirect">>) \o <<"write">>
        ELSE <<>>

\* The batch is through once its last request is.
Advance(rest) ==
    /\ requests' = rest
    /\ at' = IF rest = <<>> THEN "release" ELSE at

\* Read the owners again, behind the fence, and decide.
Plan ==
    /\ at = "execute"
    /\ GraceOver
    /\ steps = <<>>
    /\ LET r == Head(requests)
       IN  \E plan \in IF mode = "commit" THEN {CommitPlan(r)} ELSE PlanRetirement(r) :
           /\ steps' = plan
           /\ image' = IF mode = "commit" /\ plan # <<>>
                       THEN [conn[r.key] EXCEPT !.state = r.kind]
                       ELSE None
           /\ refused' = (refused \/ (mode = "quiesce" /\ Refuses(r)))
           /\ Advance(IF plan = <<>> THEN Tail(requests) ELSE requests)
    /\ UNCHANGED <<maps, cpu, fences, flags, due, mode, toFence, held, failure, unresolved>>
    /\ BackendFrame

\* One map operation of the plan.
Mutate ==
    /\ at = "execute"
    /\ steps # <<>>
    /\ LET k == Head(requests).key
           step == Head(steps)
       IN  /\ handoff' = IF step = "handoff" THEN [handoff EXCEPT ![k] = None] ELSE handoff
           /\ redirect' = IF step = "redirect" THEN [redirect EXCEPT ![k] = None] ELSE redirect
           /\ conn' = CASE step = "conn" -> [conn EXCEPT ![k] = None]
                        [] step = "write" -> [conn EXCEPT ![k] = image]
                        [] OTHER -> conn
    /\ steps' = Tail(steps)
    /\ image' = IF Len(steps) = 1 THEN None ELSE image
    /\ Advance(IF Len(steps) = 1 THEN Tail(requests) ELSE requests)
    /\ UNCHANGED <<cpu, fences, flags, due, mode, toFence, held, failure,
                   unresolved, refused>>
    /\ BackendFrame

\* The check of the fences after the barrier, a lookup or a deletion fails:
\* the rest of the batch does not run.
MutateFails ==
    /\ at = "execute"
    /\ GraceOver
    /\ failure' = TRUE
    /\ at' = "release"
    /\ requests' = <<>> /\ steps' = <<>> /\ image' = None
    /\ UNCHANGED <<maps, cpu, fences, flags, due, mode, toFence, held, unresolved, refused>>
    /\ BackendFrame

ReleaseFence ==
    /\ at = "release"
    /\ \E k \in held :
        /\ fence' = fence \ {k}
        /\ held' = held \ {k}
    /\ UNCHANGED <<maps, cpu, active, flags, due, at, mode, requests, toFence, steps, image,
                   failure, unresolved, refused>>
    /\ BackendFrame

\* A fence that cannot be released stays, with RETIRE_ACTIVE raised, and no
\* later operation of this backend is accepted.
ReleaseFenceFails ==
    /\ at = "release"
    /\ \E k \in held : held' = held \ {k}
    /\ failure' = TRUE
    /\ unresolved' = TRUE
    /\ UNCHANGED <<maps, cpu, fences, flags, due, at, mode, requests, toFence, steps, image, refused>>
    /\ BackendFrame

\* Seeded bug: RETIRE_ACTIVE is lowered although a fence stayed behind.
FinishLowers ==
    /\ at = "release"
    /\ held = {}
    /\ \/ /\ retirementFailed' = TRUE
          /\ active' = FALSE
          /\ UNCHANGED incomplete
       \/ /\ ~unresolved
          /\ active' = FALSE
          /\ incomplete' \in
                {incomplete} \cup (IF mode = "quiesce" /\ ~failure /\ ~refused THEN {FALSE} ELSE {})
          /\ UNCHANGED retirementFailed
    /\ Settle
    /\ UNCHANGED <<maps, cpu, fence, ready, due>>
    /\ BackendFrame

\* Seeded bug: a quiescence whose batch failed counts as complete.
FinishQuiesced ==
    /\ at = "release"
    /\ held = {}
    /\ \/ /\ retirementFailed' = TRUE
          /\ UNCHANGED <<active, incomplete>>
       \/ /\ ~unresolved
          /\ active' = FALSE
          /\ incomplete' \in
                {incomplete} \cup (IF mode = "quiesce" THEN {FALSE} ELSE {})
          /\ UNCHANGED retirementFailed
    /\ Settle
    /\ UNCHANGED <<maps, cpu, fence, ready, due>>
    /\ BackendFrame

\* RETIRE_ACTIVE is lowered unless a fence may have been left behind, or
\* lowering it fails.  A quiescence is complete when its batch went through,
\* every staged owner settled and a new routing generation is published.
Finish ==
    /\ at = "release"
    /\ held = {}
    /\ \/ /\ retirementFailed' = TRUE
          /\ UNCHANGED <<active, incomplete>>
       \/ /\ ~unresolved
          /\ active' = FALSE
          /\ incomplete' \in
                {incomplete} \cup (IF mode = "quiesce" /\ ~failure /\ ~refused THEN {FALSE} ELSE {})
          /\ UNCHANGED retirementFailed
    /\ Settle
    /\ UNCHANGED <<maps, cpu, fence, ready, due>>
    /\ BackendFrame

\* activate_udp_direct runs without a fence: it reads, then copies over the
\* same element, relying on the kernel never writing a DirectArmed one.
ActivateRead ==
    /\ at = "idle"
    /\ ~retirementFailed
    /\ \E k \in Keys, t \in 1..tokens :
        /\ conn[k] # None
        /\ conn[k].token = t
        /\ conn[k].state = "DirectArmed"
        /\ handoff[k] = None /\ redirect[k] = None
        /\ requests' = <<Request("activate", k, t, conn[k].inc, None, 0)>>
        /\ image' = [conn[k] EXCEPT !.state = "None"]
    /\ at' = "activate"
    /\ mode' = "activate"
    /\ UNCHANGED <<maps, cpu, fences, flags, due, toFence, held, steps, failure, unresolved, refused>>
    /\ BackendFrame

ActivateWrite ==
    /\ at = "activate"
    /\ LET k == Head(requests).key
       IN  conn' = IF conn[k] # None THEN [conn EXCEPT ![k] = image] ELSE conn
    /\ Settle
    /\ UNCHANGED <<redirect, handoff, cpu, fences, flags, due>>
    /\ BackendFrame

Backend ==
    \/ DecideRetirement
    \/ RetireFlows
    \/ CommitUdpFenced
    \/ FenceReady
    \/ ReopenReady
    \/ GraceBarrier
    \/ QuiesceScan
    \/ AcquireFence
    \/ AcquireFenceFails
    \/ BarrierFails
    \/ Plan
    \/ Mutate
    \/ MutateFails
    \/ ReleaseFence
    \/ ReleaseFenceFails
    \/ Finish
    \/ ActivateRead
    \/ ActivateWrite

Next ==
    \/ Tick
    \/ \E c \in Cpus, k \in Keys : Receive(c, k) \/ ReplyLookup(c, k)
    \/ \E c \in Cpus : KernelStep(c)
    \/ Backend

Spec == Init /\ [][Next]_vars

-----------------------------------------------------------------------------
(* Properties.                                                             *)

\* Every map entry, invocation and step of an operation is one the code can name.
TypeOK ==
    /\ conn \in [Keys -> ConnStates \cup {None}]
    /\ redirect \in [Keys -> Auxiliaries \cup {None}]
    /\ handoff \in [Keys -> Auxiliaries \cup {None}]
    /\ incs \in 0..MaxInc /\ tokens \in 0..MaxToken /\ now \in 0..MaxNow
    /\ cpu \in [Cpus -> Invocation]
    /\ active \in BOOLEAN /\ fence \subseteq Keys
    /\ ready \in BOOLEAN /\ incomplete \in BOOLEAN /\ retirementFailed \in BOOLEAN
    /\ at \in {"idle", "quiesce", "quiesceGrace", "acquire", "execute", "release", "activate"}
    /\ mode \in {"none", "retire", "commit", "quiesce", "activate"}
    /\ toFence \subseteq Keys /\ held \subseteq Keys
    /\ image \in ConnStates \cup {None}
    /\ failure \in BOOLEAN /\ unresolved \in BOOLEAN /\ refused \in BOOLEAN

\* A Preparing claim never outlives the invocation that made it: while the
\* entry is there, exactly that invocation is on its way to publish or abort
\* it.  A claim left behind would refuse every packet of the tuple until it
\* ages out.
ClaimHasProducer ==
    \A k \in Keys :
        conn[k] # None /\ conn[k].state = "Preparing" =>
            \E c \in Cpus :
                /\ cpu[c].key = k /\ cpu[c].inc = conn[k].inc
                /\ cpu[c].mode \in {"none", "stage", "native"}

\* Once a quiescence has completed, and until READY is set again, no map holds
\* a token-bound staged owner and no invocation is on its way to publish one:
\* what the allocator reset and the queue teardown rely on.
QuiescedHoldsNoToken ==
    ~ready /\ ~incomplete =>
        /\ \A k \in Keys : conn[k] # None /\ Staged(conn[k].state) => conn[k].token = 0
        /\ \A c \in Cpus : cpu[c].mode # "stage"

\* Fences exist only while RETIRE_ACTIVE makes the kernel look at them, and an
\* idle backend that has left one behind accepts nothing more.
FencesAreVisible ==
    /\ fence # {} => active
    /\ at = "idle" /\ active => retirementFailed

\* Recorded activity is never lost.  A commit or an activation, which write a
\* copy read earlier, do not roll an owner's clock back, and an owner deleted
\* for its age is past its timeout at that moment: a packet or a reply since
\* the scan or the hint has saved it.
ActivityCounts ==
    [][\A k \in Keys :
        /\ conn[k] # None /\ conn[k].state # "Preparing" /\ conn'[k] # None =>
            conn'[k].seen >= conn[k].seen
        /\ conn[k] # None /\ conn'[k] = None /\ Head(requests).kind \in {"expiredConn", "hint"} =>
            ConnExpired(conn[k], now)]_vars

\* The lifetime the three maps implement together.
Lifetime == INSTANCE FlowLifetime WITH
    issued <- incs,
    flow <- [k \in Keys |->
                IF conn[k] = None THEN None
                ELSE [inc |-> conn[k].inc, phase |-> conn[k].state]],
    traces <- [k \in Keys |-> {e.inc : e \in {redirect[k], handoff[k]} \ {None}}]

\* However invocations, retirements, commits and failures interleave, a tuple
\* has one owner at a time, decides in one direction, and no auxiliary entry
\* exists before the claim or after the retirement of its incarnation.
ImplementsLifetime == Lifetime!Spec
=============================================================================
