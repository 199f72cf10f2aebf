---------------------------- MODULE FlowLifetime ----------------------------
(***************************************************************************)
(* What the flow maps promise about one UDP tuple: it has one owner at a   *)
(* time, every owner is a fresh incarnation, an owner walks through its    *)
(* decision in one direction only, and no map remembers an incarnation     *)
(* before its claim or after its retirement.  FlowRetirement, in which the *)
(* three maps are written by concurrent kernel invocations and by a        *)
(* userspace that fences, waits and deletes map by map, implements it.     *)
(***************************************************************************)
EXTENDS Naturals

CONSTANTS
    Keys,   \* UDP tuples
    None    \* no owner

VARIABLES
    issued, \* the last incarnation handed out
    flow,   \* per tuple, its owner: an incarnation and how far it is decided
    traces  \* per tuple, the incarnations its auxiliary maps remember

vars == <<issued, flow, traces>>

Owner(inc, phase) == [inc |-> inc, phase |-> phase]

Init ==
    /\ issued = 0
    /\ flow = [k \in Keys |-> None]
    /\ traces = [k \in Keys |-> {}]

\* An incarnation may be handed out and never used.
Waste ==
    /\ issued' = issued + 1
    /\ UNCHANGED <<flow, traces>>

\* A tuple that nothing remembers takes a fresh owner.
Claim(k) ==
    /\ flow[k] = None
    /\ traces[k] = {}
    /\ issued' = issued + 1
    /\ flow' = [flow EXCEPT ![k] = Owner(issued + 1, "Preparing")]
    /\ UNCHANGED traces

\* The decisions an owner may take next.
NextPhases(phase) ==
    CASE phase = "Preparing" -> {"Pending", "None", "Aborted"}
      [] phase = "Pending" -> {"DirectArmed", "Proxy", "Block"}
      [] phase = "DirectArmed" -> {"None"}
      [] OTHER -> {}

Decide(k) ==
    /\ flow[k] # None
    /\ \E phase \in NextPhases(flow[k].phase) :
        flow' = [flow EXCEPT ![k] = Owner(flow[k].inc, phase)]
    /\ UNCHANGED <<issued, traces>>

\* Auxiliary state comes and goes while its own incarnation owns the tuple.
Trace(k) ==
    /\ flow[k] # None
    /\ \E kept \in {{}, {flow[k].inc}} : traces' = [traces EXCEPT ![k] = kept]
    /\ UNCHANGED <<issued, flow>>

\* The owner is the last thing of its lifetime to go.
Retire(k) ==
    /\ flow[k] # None
    /\ traces[k] = {}
    /\ flow' = [flow EXCEPT ![k] = None]
    /\ UNCHANGED <<issued, traces>>

Next ==
    \/ Waste
    \/ \E k \in Keys : Claim(k) \/ Decide(k) \/ Trace(k) \/ Retire(k)

Spec == Init /\ [][Next]_vars
=============================================================================
