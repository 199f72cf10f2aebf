------------------------ MODULE NfqueueLimits_proofs ------------------------
(***************************************************************************)
(* Proof that the correlator's hard limits hold, for any flows, packets    *)
(* and bounds: LimitsHold of NfqueueCorrelator.  The inductive invariant   *)
(* adds to CorrInv that the limited sets are finite and that no two        *)
(* requests, queued or in the pump's batch, are of one cell.               *)
(***************************************************************************)
EXTENDS NfqueueCorrelator_proofs

-----------------------------------------------------------------------------
(* The invariant *)

DistinctCells(s) == \A i, j \in 1..Len(s) : s[i].cell = s[j].cell => i = j

\* Every request is of a cell of its own.
OneRequest ==
    /\ DistinctCells(commits) /\ DistinctCells(pump.batch)
    /\ \A i \in 1..Len(commits), j \in 1..Len(pump.batch) : commits[i].cell # pump.batch[j].cell

\* The correlator's own limits: flow slots, verdicts per flow, cleanups.
FlowLimit == IsFiniteSet(LiveCells) /\ Cardinality(LiveCells) <= MaxFlows
HeldLimit == \A c \in Packets : Len(held[c]) <= MaxHeld
CleanupLimit == IsFiniteSet(cleanups) /\ Cardinality(cleanups) <= MaxCleanups

LimitInv == OneRequest /\ FlowLimit /\ HeldLimit /\ CleanupLimit

-----------------------------------------------------------------------------
(* What a step does to the limited sets *)

\* A cell gets a reference only from the initializer that finds it in the map.
LEMMA ReferenceSteps ==
    ASSUME CorrInv, Move, NEW c \in Packets, Referenced(c)'
    PROVE  Referenced(c) \/ (map[pkey[c]] = c /\ ing' = ing)
<1>1. CASE Submitting(c)'
  <2>1. task'[c] \in Decisions
    BY <1>1 DEF Submitting
  <2>2. CASE task'[c] = task[c]
    BY <2>1, <2>2 DEF Referenced, Submitting
  <2>3. CASE TaskStep(c, task'[c], lease'[c])
    BY <2>1, <2>3 DEF TaskStep, Decisions, Begun
  <2> QED
    BY <2>2, <2>3, TaskSteps
<1>2. CASE Queued(c)'
  <2>1. PICK m \in 1..Len(commits') : commits'[m].cell = c
    BY <1>2 DEF Queued
  <2>2. \/ \E n \in 1..Len(commits) : commits'[m] = commits[n]
        \/ \E g \in Packets : Submits(g) /\ commits'[m] = [cell |-> g, decision |-> task[g], res |-> "todo"]
    BY ChannelSteps
  <2>3. CASE \E n \in 1..Len(commits) : commits'[m] = commits[n]
    BY <2>1, <2>3 DEF Referenced, Queued
  <2>4. ASSUME NEW g \in Packets, Submits(g), commits'[m] = [cell |-> g, decision |-> task[g], res |-> "todo"]
        PROVE  Submitting(c)
    <3>1. g = c
      BY <2>1, <2>4
    <3> QED
      BY <2>4, <3>1 DEF Submits, Submitting
  <2> QED
    BY <2>2, <2>3, <2>4 DEF Referenced
<1>3. CASE InBatch(c)'
  <2>1. PICK j \in 1..Len(pump'.batch) : pump'.batch[j].cell = c
    BY <1>3 DEF InBatch
  <2>2. \/ \E m \in 1..Len(commits) : pump'.batch[j] = commits[m]
        \/ j \in Indices /\ pump'.batch[j].cell = Entry(j).cell
    BY BatchSteps
  <2> QED
    BY <2>1, <2>2 DEF Referenced, Queued, InBatch, Indices, Entry
<1> QED
  BY <1>1, <1>2, <1>3 DEF Referenced

LEMMA LiveFacts ==
    ASSUME CorrInv, NEW c \in LiveCells
    PROVE  c \in Packets /\ Inside(c) /\ pkey[c] \in Keys
<1>1. c \in Packets /\ Inside(c)
  BY DEF LiveCells, Inside
<1> QED
  BY <1>1, InsideFacts

LEMMA OneMore ==
    ASSUME NEW S, IsFiniteSet(S), NEW x
    PROVE  /\ IsFiniteSet(S \cup {x}) /\ Cardinality(S \cup {x}) \in Nat
           /\ Cardinality(S \cup {x}) <= Cardinality(S) + 1
<1>1. IsFiniteSet(S \cup {x})
      /\ Cardinality(S \cup {x}) = IF x \in S THEN Cardinality(S) ELSE Cardinality(S) + 1
  BY FS_AddElement, Zenon
<1>2. Cardinality(S) \in Nat
  BY FS_CardinalityType
<1> QED
  BY <1>1, <1>2

\* Without a new cell, no cell becomes live.
LEMMA LiveShrinks ==
    ASSUME CorrInv, Move,
           \A p \in Packets, st \in CellStates, g \in Maybe, h \in Seq(Packets) : ~Creates(p, st, g, h)
    PROVE  LiveCells' \subseteq LiveCells
<1>1. CellType /\ UNCHANGED pkey
  BY Types DEF Move
<1>2. /\ \A c \in Packets : cellst'[c] # "none" => cellst[c] # "none"
      /\ \A k \in Keys : map'[k] = map[k] \/ map'[k] = None
  <2>1. CASE Quiet
    BY <2>1 DEF Quiet
  <2>2. ASSUME NEW c \in Packets, NEW st \in CellStates, Sunk(c, st) \/ Fails(c)
        PROVE  (\A d \in Packets : cellst'[d] # "none" => cellst[d] # "none") /\ UNCHANGED map
    BY <1>1, <2>2 DEF Sunk, Fails, CellType, Unarmed
  <2>3. ASSUME NEW c \in Packets, NEW i \in Indices, NEW st \in CellStates,
               Decides(i, c, st) \/ Activates(i, c)
        PROVE  (\A d \in Packets : cellst'[d] # "none" => cellst[d] # "none") /\ UNCHANGED map
    BY <1>1, <2>3 DEF Decides, Activates, CellType
  <2>4. "dead" \in CellStates
    BY DEF CellStates
  <2> QED
    BY <2>1, <2>2, <2>3, <2>4, FlowKinds
<1> SUFFICES ASSUME NEW c \in LiveCells' PROVE c \in LiveCells
  OBVIOUS
<1>3. c \in Packets /\ cellst'[c] # "none" /\ (map'[pkey[c]] = c \/ Referenced(c)')
  BY <1>1 DEF LiveCells
<1>4. Inside(c) /\ pkey[c] \in Keys
  BY <1>2, <1>3, InsideFacts DEF Inside
<1>5. map[pkey[c]] = c \/ Referenced(c)
  BY <1>2, <1>3, <1>4, ReferenceSteps, NoneAssumption
<1> QED
  BY <1>3, <1>4, <1>5 DEF LiveCells, Inside

\* A new cell takes the slot that was found free for it.
LEMMA LiveGrows ==
    ASSUME CorrInv, Move, NEW p \in Packets, NEW st \in CellStates, NEW g \in Maybe,
           NEW h \in Seq(Packets), Creates(p, st, g, h)
    PROVE  LiveCells' \subseteq {c \in LiveCells : c # map[pkey[p]] \/ Referenced(c)} \cup {p}
<1>1. CellType /\ UNCHANGED pkey
  BY Types DEF Move
<1>2. /\ ing.pc = "wait" /\ ing' = Idle /\ map' = [map EXCEPT ![pkey[p]] = p]
      /\ cellst' = [cellst EXCEPT ![p] = st]
  BY DEF Creates
<1>3. ing' # ing
  BY <1>2 DEF Idle
<1> SUFFICES ASSUME NEW c \in LiveCells', c # p
             PROVE  c \in LiveCells /\ (c # map[pkey[p]] \/ Referenced(c))
  OBVIOUS
<1>4. c \in Packets /\ cellst'[c] # "none" /\ (map'[pkey[c]] = c \/ Referenced(c)')
  BY <1>1 DEF LiveCells
<1>5. Inside(c) /\ pkey[c] \in Keys
  <2>1. Inside(c)
    BY <1>1, <1>2, <1>4 DEF CellType, Inside
  <2> QED
    BY <2>1, <1>4, InsideFacts
<1>6. CASE map'[pkey[c]] = c
  <2>1. pkey[c] # pkey[p] /\ map[pkey[c]] = c
    BY <1>1, <1>2, <1>5, <1>6 DEF CellType
  <2>2. c # map[pkey[p]]
    <3> SUFFICES ASSUME c = map[pkey[p]] PROVE FALSE
      OBVIOUS
    <3>1. CASE pkey[p] \in Keys
      BY <3>1, <2>1, <1>4, NoneAssumption DEF CorrInv, MapShape
    <3>2. pkey[p] \in Keys
      BY KnownFacts DEF CorrInv, TransitShape, Transit, Creates
    <3> QED
      BY <3>1, <3>2
  <2> QED
    BY <1>4, <1>5, <2>1, <2>2 DEF LiveCells, Inside
<1>7. CASE Referenced(c)'
  <2>1. Referenced(c)
    BY <1>3, <1>4, <1>7, ReferenceSteps
  <2> QED
    BY <1>4, <1>5, <2>1 DEF LiveCells, Inside
<1> QED
  BY <1>4, <1>6, <1>7

LEMMA FlowLimitKept ==
    ASSUME CorrInv, Move, FlowLimit
    PROVE  FlowLimit'
<1>1. IsFiniteSet(LiveCells) /\ Cardinality(LiveCells) \in Nat /\ Cardinality(LiveCells) <= MaxFlows
      /\ MaxFlows \in Nat
  BY FS_CardinalityType, BoundsAssumption DEF FlowLimit
<1>2. ASSUME LiveCells' \subseteq LiveCells PROVE FlowLimit'
  <2>1. IsFiniteSet(LiveCells') /\ Cardinality(LiveCells') <= Cardinality(LiveCells)
        /\ Cardinality(LiveCells') \in Nat
    BY <1>1, <1>2, FS_Subset, FS_CardinalityType
  <2> QED
    BY <1>1, <2>1 DEF FlowLimit
<1>3. ASSUME NEW p \in Packets, NEW st \in CellStates, NEW g \in Maybe, NEW h \in Seq(Packets),
             Creates(p, st, g, h)
      PROVE  FlowLimit'
  <2> DEFINE S == {c \in LiveCells : c # map[pkey[p]] \/ Referenced(c)}
  <2>1. LiveCells' \subseteq S \cup {p}
    BY <1>3, LiveGrows
  <2>2. Cardinality(S) < MaxFlows
    BY <1>3 DEF Creates, SlotFree
  <2>3. S \subseteq LiveCells
    OBVIOUS
  <2> HIDE DEF S
  <2>4. IsFiniteSet(S) /\ Cardinality(S) \in Nat
    BY <1>1, <2>3, FS_Subset, FS_CardinalityType
  <2>5. /\ IsFiniteSet(S \cup {p}) /\ Cardinality(S \cup {p}) \in Nat
        /\ Cardinality(S \cup {p}) <= Cardinality(S) + 1
    BY <2>4, OneMore
  <2>6. /\ IsFiniteSet(LiveCells') /\ Cardinality(LiveCells') \in Nat
        /\ Cardinality(LiveCells') <= Cardinality(S \cup {p})
    BY <2>1, <2>5, FS_Subset, FS_CardinalityType
  <2> QED
    BY <1>1, <2>2, <2>4, <2>5, <2>6 DEF FlowLimit
<1> QED
  BY <1>2, <1>3, LiveShrinks

LEMMA HeldLimitKept ==
    ASSUME CorrInv, Move, HeldLimit
    PROVE  HeldLimit'
<1>1. CellType /\ MaxHeld \in Nat \ {0} /\ (\A c \in Packets : held[c] \in Seq(Packets))
  BY Types, BoundsAssumption DEF CellType
<1>2. \A c \in Packets : Len(held[c]) \in Nat /\ Len(held[c]) <= MaxHeld
  BY <1>1 DEF HeldLimit
<1> SUFFICES ASSUME NEW d \in Packets PROVE Len(held'[d]) <= MaxHeld
  BY DEF HeldLimit
<1>3. CASE held'[d] = held[d] \/ held'[d] = <<>>
  BY <1>1, <1>2, <1>3
<1>4. ASSUME NEW p \in Packets, NEW st \in CellStates, NEW g \in Maybe, NEW h \in Seq(Packets),
             Creates(p, st, g, h)
      PROVE  Len(held'[d]) <= MaxHeld
  <2>1. held' = [held EXCEPT ![p] = h] /\ (h = <<p>> \/ h = <<>>)
    BY <1>4 DEF Creates
  <2>2. CASE d = p /\ h = <<p>>
    <3>1. held'[d] = <<p>>
      BY <1>1, <2>1, <2>2 DEF CellType
    <3> QED
      BY <1>1, <3>1
  <2>3. CASE ~(d = p /\ h = <<p>>)
    <3>1. held'[d] = held[d] \/ held'[d] = <<>>
      BY <1>1, <2>1, <2>3 DEF CellType
    <3> QED
      BY <3>1, <1>3
  <2> QED
    BY <2>2, <2>3
<1>5. ASSUME NEW c \in Packets, Holds(c) PROVE Len(held'[d]) <= MaxHeld
  <2>1. held' = [held EXCEPT ![c] = Append(held[c], ing.p)] /\ ing.p \in Packets /\ Len(held[c]) < MaxHeld
    BY <1>5 DEF Holds
  <2>2. CASE d = c
    <3>1. held'[d] = Append(held[c], ing.p) /\ held[c] \in Seq(Packets)
      BY <1>1, <2>1, <2>2 DEF CellType
    <3>2. Len(held'[d]) = Len(held[c]) + 1
      BY <2>1, <3>1
    <3> QED
      BY <1>1, <1>2, <2>1, <3>2
  <2>3. CASE d # c
    BY <1>1, <1>3, <2>1, <2>3 DEF CellType
  <2> QED
    BY <2>2, <2>3
<1>6. ASSUME NEW c \in Packets, NEW st \in CellStates, NEW h \in Seq(Packets), Sinks(c, st, h)
      PROVE  held'[d] = held[d] \/ held'[d] = <<>>
  BY <1>1, <1>6 DEF Sinks, CellType
<1>7. ASSUME NEW c \in Packets, Fails(c) \/ Takes(c)
      PROVE  held'[d] = held[d] \/ held'[d] = <<>>
  BY <1>1, <1>7 DEF Fails, Takes, CellType
<1>8. ASSUME NEW c \in Packets, NEW i \in Indices, NEW st \in CellStates, Decides(i, c, st)
      PROVE  held'[d] = held[d] \/ held'[d] = <<>>
  BY <1>1, <1>8 DEF Decides, CellType
<1>9. ASSUME NEW c \in Packets, NEW i \in Indices, Activates(i, c)
      PROVE  held'[d] = held[d]
  BY <1>9 DEF Activates
<1>10. ASSUME NEW k \in Keys, Evicts(k) PROVE held'[d] = held[d]
  BY <1>10 DEF Evicts
<1> QED
  BY <1>3, <1>4, <1>5, <1>6, <1>7, <1>8, <1>9, <1>10 DEF Move, FlowMove

LEMMA CleanupLimitKept ==
    ASSUME CorrInv, Move, CleanupLimit
    PROVE  CleanupLimit'
<1>1. IsFiniteSet(cleanups) /\ Cardinality(cleanups) \in Nat /\ Cardinality(cleanups) <= MaxCleanups
      /\ MaxCleanups \in Nat
  BY FS_CardinalityType, BoundsAssumption DEF CleanupLimit
<1>2. CASE cleanups' \subseteq cleanups
  <2>1. IsFiniteSet(cleanups') /\ Cardinality(cleanups') <= Cardinality(cleanups)
        /\ Cardinality(cleanups') \in Nat
    BY <1>1, <1>2, FS_Subset, FS_CardinalityType
  <2> QED
    BY <1>1, <2>1 DEF CleanupLimit
<1>3. ASSUME ~(Cardinality(cleanups) >= MaxCleanups), NEW r, cleanups' = cleanups \cup {r}
      PROVE  CleanupLimit'
  <2>1. /\ IsFiniteSet(cleanups') /\ Cardinality(cleanups') \in Nat
        /\ Cardinality(cleanups') <= Cardinality(cleanups) + 1
    BY <1>1, <1>3, OneMore
  <2> QED
    BY <1>1, <1>3, <2>1 DEF CleanupLimit
<1> QED
  BY <1>2, <1>3 DEF Move, CleanupMove, CleanupRoom

\* A cell that is still to be submitted has no request.
LEMMA SubmittingIsNew ==
    ASSUME CorrInv, NEW g \in Packets, Submitting(g)
    PROVE  /\ \A m \in 1..Len(commits) : commits[m].cell # g
           /\ \A j \in 1..Len(pump.batch) : pump.batch[j].cell # g
<1>1. ~Begun(g)
  BY DEF Submitting, Begun
<1>2. \A m \in 1..Len(commits) : commits[m].cell # g
  BY <1>1, ChannelFacts
<1>3. \A j \in 1..Len(pump.batch) : pump.batch[j].cell # g
  BY <1>1, EntryFacts DEF Indices, Entry
<1> QED
  BY <1>2, <1>3

LEMMA OneRequestKept ==
    ASSUME CorrInv, Move, OneRequest
    PROVE  OneRequest'
<1>1. PumpType /\ PumpMove /\ commits \in Seq(Commits) /\ Len(commits) \in Nat
  BY Types DEF Move, PumpType
<1>2. CASE UNCHANGED <<commits, pump>>
  BY <1>2 DEF OneRequest, DistinctCells
<1>3. ASSUME NEW g \in Packets, Submits(g) PROVE OneRequest'
  <2> DEFINE e == [cell |-> g, decision |-> task[g], res |-> "todo"]
             n == Len(commits)
  <2>1. commits' = Append(commits, e) /\ e \in Commits /\ UNCHANGED pump
    BY <1>3 DEF Submits, Commits, Results
  <2>2. e.cell = g
    OBVIOUS
  <2>3. /\ \A m \in 1..n : commits[m].cell # g
        /\ \A j \in 1..Len(pump.batch) : pump.batch[j].cell # g
    BY <1>3, SubmittingIsNew DEF Submits, Submitting
  <2> HIDE DEF e
  <2>4. Len(commits') = n + 1 /\ \A m \in 1..(n + 1) : commits'[m] = IF m = n + 1 THEN e ELSE commits[m]
    BY <1>1, <2>1
  <2>5. \A m \in 1..(n + 1) : m = n + 1 \/ m \in 1..n
    BY <1>1
  <2>6. DistinctCells(commits)'
    BY <2>2, <2>3, <2>4, <2>5 DEF DistinctCells, OneRequest
  <2>7. \A i \in 1..Len(commits'), j \in 1..Len(pump'.batch) : commits'[i].cell # pump'.batch[j].cell
    BY <2>1, <2>2, <2>3, <2>4, <2>5 DEF OneRequest
  <2> QED
    BY <2>1, <2>6, <2>7 DEF OneRequest, DistinctCells
<1>4. ASSUME NEW n \in 1..MaxBatch, Fetches(n) PROVE OneRequest'
  <2>1. /\ n \in 1..Len(commits) /\ pump'.batch = SubSeq(commits, 1, n)
        /\ commits' = SubSeq(commits, n + 1, Len(commits))
    BY <1>4 DEF Fetches
  <2>2. Len(commits') = Len(commits) - n
        /\ \A m \in 1..Len(commits') : commits'[m] = commits[n + m] /\ n + m \in (n + 1)..Len(commits)
    BY <1>1, <2>1
  <2>3. Len(pump'.batch) = n
        /\ \A j \in 1..n : pump'.batch[j] = commits[j] /\ j \in 1..Len(commits)
    BY <1>1, <2>1
  <2>4. \A i, j \in 1..Len(commits) : commits[i].cell = commits[j].cell => i = j
    BY DEF OneRequest, DistinctCells
  <2>5. DistinctCells(commits)'
    <3> SUFFICES ASSUME NEW i \in 1..Len(commits'), NEW j \in 1..Len(commits'),
                        commits'[i].cell = commits'[j].cell
                 PROVE  i = j
      BY DEF DistinctCells
    <3>1. n + i \in 1..Len(commits) /\ n + j \in 1..Len(commits) /\ n \in Nat /\ i \in Nat /\ j \in Nat
      BY <1>1, <2>1, <2>2
    <3>2. n + i = n + j
      BY <2>2, <2>4, <3>1
    <3> QED
      BY <3>1, <3>2
  <2>6. DistinctCells(pump.batch)'
    BY <2>3, <2>4 DEF DistinctCells
  <2>7. ASSUME NEW i \in 1..Len(commits'), NEW j \in 1..Len(pump'.batch)
        PROVE  commits'[i].cell # pump'.batch[j].cell
    <3>1. n + i \in 1..Len(commits) /\ n + i # j /\ j \in 1..Len(commits)
      BY <1>1, <2>1, <2>2, <2>3
    <3> QED
      BY <2>2, <2>3, <2>4, <3>1
  <2> QED
    BY <2>5, <2>6, <2>7 DEF OneRequest
<1>5. ASSUME UNCHANGED commits, Len(pump'.batch) = Len(pump.batch),
             \A j \in 1..Len(pump.batch) : pump'.batch[j].cell = pump.batch[j].cell
      PROVE  OneRequest'
  BY <1>5 DEF OneRequest, DistinctCells
<1>6. ASSUME NEW pc \in {"apply", "complete"}, NEW b \in Seq(Commits), Sweeps(pc, b) PROVE OneRequest'
  BY <1>5, <1>6 DEF Sweeps, Indices, Entry
<1>7. ASSUME NEW i \in Indices, NEW r \in Results, Marks(i, r) PROVE OneRequest'
  <2>1. pump' = Mark(i, r) /\ UNCHANGED commits
    BY <1>7 DEF Marks
  <2>2. Len(pump'.batch) = Len(pump.batch)
    BY <2>1, MarkFacts
  <2>3. \A j \in Indices : pump'.batch[j].cell = pump.batch[j].cell
    <3>1. pump'.batch[i] = [cell |-> Entry(i).cell, decision |-> Entry(i).decision, res |-> r]
      BY <2>1, MarkFacts
    <3>2. \A j \in Indices : j # i => pump'.batch[j] = Entry(j)
      BY <2>1, MarkFacts
    <3> QED
      BY <3>1, <3>2 DEF Entry
  <2> QED
    BY <1>5, <2>1, <2>2, <2>3 DEF Indices
<1>8. CASE Ends
  BY <1>8 DEF Ends, OneRequest, DistinctCells
<1> QED
  BY <1>1, <1>2, <1>3, <1>4, <1>6, <1>7, <1>8 DEF PumpMove, Drains

-----------------------------------------------------------------------------
(* The limits *)

LEMMA LimitsKept ==
    ASSUME CorrInv, LimitInv, [Next]_vars
    PROVE  LimitInv'
<1>1. CASE Move
  BY <1>1, OneRequestKept, FlowLimitKept, HeldLimitKept, CleanupLimitKept DEF LimitInv
<1>2. ASSUME UNCHANGED <<map, cellst, held, cgen, cleanups, task, commits, pump>>,
             \A c \in Packets : Inside(c) => pkey'[c] = pkey[c]
      PROVE  LimitInv'
  <2>1. LiveCells' = LiveCells
    BY <1>2 DEF LiveCells, Referenced, Submitting, Queued, InBatch, Inside
  <2> QED
    BY <1>2, <2>1 DEF LimitInv, OneRequest, DistinctCells, FlowLimit, HeldLimit, CleanupLimit
<1>3. ASSUME NEW p \in Packets, NEW k \in Keys, KernelIngress(p, k) PROVE LimitInv'
  <2>1. ~Inside(p) /\ IdentityType
    BY <1>3, Types DEF KernelIngress, CorrInv, PacketShape, Known
  <2>2. \A c \in Packets : Inside(c) => pkey'[c] = pkey[c]
    BY <1>3, <2>1 DEF KernelIngress, IdentityType
  <2> QED
    BY <1>2, <1>3, <2>2 DEF KernelIngress, cellVars, cleanupVars, taskVars, pumpVars
<1>4. CASE UNCHANGED vars
  BY <1>2, <1>4 DEF vars, packetVars, cellVars, cleanupVars, taskVars, pumpVars
<1> QED
  BY <1>1, <1>3, <1>4, NextMoves

LEMMA LimitsInit ==
    ASSUME Init
    PROVE  LimitInv
<1>1. LiveCells = {}
  BY DEF Init, LiveCells
<1>2. FlowLimit /\ CleanupLimit
  BY <1>1, FS_EmptySet, BoundsAssumption DEF Init, FlowLimit, CleanupLimit
<1>3. HeldLimit
  BY BoundsAssumption DEF Init, HeldLimit
<1>4. OneRequest
  BY DEF Init, OneRequest, DistinctCells
<1> QED
  BY <1>2, <1>3, <1>4 DEF LimitInv

\* Distinct requests are as many as their cells.
LEMMA CellCount ==
    ASSUME NEW s \in Seq(Commits), DistinctCells(s)
    PROVE  LET S == {c \in Packets : \E i \in 1..Len(s) : s[i].cell = c}
           IN  IsFiniteSet(S) /\ Cardinality(S) = Len(s)
<1> DEFINE S == {c \in Packets : \E i \in 1..Len(s) : s[i].cell = c}
           f == [i \in 1..Len(s) |-> s[i].cell]
<1>1. Len(s) \in Nat /\ \A i \in 1..Len(s) : s[i].cell \in Packets
  <2>1. Len(s) \in Nat /\ \A i \in 1..Len(s) : s[i] \in Commits
    OBVIOUS
  <2> QED
    BY <2>1 DEF Commits
<1>2. f \in [1..Len(s) -> S]
  BY <1>1
<1>3. \A i, j \in 1..Len(s) : f[i] = f[j] => i = j
  BY DEF DistinctCells
<1>4. \A c \in S : \E i \in 1..Len(s) : f[i] = c
  OBVIOUS
<1> HIDE DEF S, f
<1>5. f \in Bijection(1..Len(s), S)
  BY <1>2, <1>3, <1>4 DEF IsInjective, Bijection, Injection, Surjection
<1>6. IsFiniteSet(1..Len(s)) /\ Cardinality(1..Len(s)) = Len(s)
  <2>1. /\ IsFiniteSet(1..Len(s))
        /\ Cardinality(1..Len(s)) = IF 1 > Len(s) THEN 0 ELSE Len(s) - 1 + 1
    <3>1. 1 \in Int /\ Len(s) \in Int
      BY <1>1
    <3> QED
      BY <3>1, FS_Interval
  <2> QED
    BY <1>1, <2>1
<1>7. IsFiniteSet(S) /\ Cardinality(S) = Cardinality(1..Len(s))
  BY <1>5, <1>6, FS_Bijection DEF ExistsBijection
<1> QED
  BY <1>6, <1>7 DEF S

LEMMA RequestCount ==
    ASSUME CorrInv, OneRequest
    PROVE  IsFiniteSet(Requested) /\ Cardinality(Requested) = Len(commits) + Len(pump.batch)
<1> DEFINE Q == {c \in Packets : Queued(c)}
           B == {c \in Packets : InBatch(c)}
<1>1. commits \in Seq(Commits) /\ pump.batch \in Seq(Commits)
  BY Types DEF PumpType
<1>2. IsFiniteSet(Q) /\ Cardinality(Q) = Len(commits)
  <2>1. Q = {c \in Packets : \E i \in 1..Len(commits) : commits[i].cell = c}
    BY DEF Queued
  <2> QED
    BY <1>1, <2>1, CellCount DEF OneRequest
<1>3. IsFiniteSet(B) /\ Cardinality(B) = Len(pump.batch)
  <2>1. B = {c \in Packets : \E i \in 1..Len(pump.batch) : pump.batch[i].cell = c}
    BY DEF InBatch
  <2> QED
    BY <1>1, <2>1, CellCount DEF OneRequest
<1>4. Requested = Q \cup B /\ Q \cap B = {}
  BY DEF Requested, OneRequest, Queued, InBatch
<1> HIDE DEF Q, B
<1>5. IsFiniteSet(Q \cup B) /\ Cardinality(Q \cup B) = Cardinality(Q) + Cardinality(B) - Cardinality(Q \cap B)
  BY <1>2, <1>3, FS_Union, Zenon
<1>6. Cardinality(Q \cap B) = 0
  BY <1>4, FS_EmptySet
<1> QED
  BY <1>1, <1>2, <1>3, <1>4, <1>5, <1>6

\* The cells of the requests, and one about to be submitted, hold flow slots.
LEMMA RoomToSubmit ==
    ASSUME CorrInv, LimitInv, NEW g \in Packets, Submitting(g)
    PROVE  Len(commits) < MaxFlows
<1>1. IsFiniteSet(Requested) /\ Cardinality(Requested) = Len(commits) + Len(pump.batch)
  BY RequestCount DEF LimitInv
<1>2. \A c \in Packets : task[c] # "none" => cellst[c] # "none"
  BY NoneAssumption DEF CorrInv, TaskShape, CellShape, Inside
<1>3. g \in LiveCells
  BY <1>2 DEF LiveCells, Referenced, Submitting, Decisions
<1>4. Requested \subseteq LiveCells
  <2> SUFFICES ASSUME NEW c \in Requested PROVE c \in LiveCells
    OBVIOUS
  <2>1. c \in Packets /\ (Queued(c) \/ InBatch(c))
    BY DEF Requested
  <2>2. Begun(c)
    BY <2>1, ChannelFacts, EntryFacts DEF Queued, InBatch, Indices, Entry
  <2> QED
    BY <1>2, <2>1, <2>2 DEF LiveCells, Referenced, Begun
<1>5. g \notin Requested
  BY SubmittingIsNew DEF Requested, Queued, InBatch
<1>6. Cardinality(Requested \cup {g}) = Cardinality(Requested) + 1 /\ IsFiniteSet(Requested \cup {g})
  BY <1>1, <1>5, FS_AddElement
<1>7. IsFiniteSet(LiveCells) /\ Cardinality(LiveCells) <= MaxFlows
  BY DEF LimitInv, FlowLimit
<1>8. Requested \cup {g} \subseteq LiveCells
  BY <1>3, <1>4
<1>9. Cardinality(Requested \cup {g}) <= Cardinality(LiveCells)
  BY <1>7, <1>8, FS_Subset
<1>10. Cardinality(LiveCells) \in Nat
  BY <1>7, FS_CardinalityType
<1>11. Len(commits) \in Nat /\ Len(pump.batch) \in Nat
  BY Types DEF PumpType
<1> QED
  BY <1>1, <1>6, <1>7, <1>9, <1>10, <1>11, BoundsAssumption

(* The hard limits hold together in every state: at most MaxFlows live      *)
(* cells (dead ones with a request on its way included), at most MaxHeld    *)
(* verdicts in a cell and MaxCleanups scheduled cleanups, one request per   *)
(* cell, and so always room in the commit channel for an initializer that   *)
(* has decided: reserving its permit never waits.                           *)
THEOREM LimitsAreHard == Spec => []LimitsHold
<1>1. Init => LimitInv
  BY LimitsInit
<1>2. CorrInv /\ LimitInv /\ [Next]_vars => LimitInv'
  BY LimitsKept
<1>3. CorrInv /\ LimitInv => LimitsHold
  BY RequestCount, RoomToSubmit DEF LimitsHold, LimitInv, FlowLimit, HeldLimit, CleanupLimit
<1> QED
  BY <1>1, <1>2, <1>3, Invariant, PTL DEF Spec
=============================================================================
