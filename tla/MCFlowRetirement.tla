-------------------------- MODULE MCFlowRetirement --------------------------
EXTENDS FlowRetirement, TLC

\* Two invocations race while the clock stands; while it runs one is in flight.
ClockOrCompany ==
    now = 0 \/ \A c, d \in Cpus : cpu[c].pc # "idle" /\ cpu[d].pc # "idle" => c = d

CpuSymmetry == Permutations(Cpus)
=============================================================================
