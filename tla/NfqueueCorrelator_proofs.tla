---------------------- MODULE NfqueueCorrelator_proofs ----------------------
(***************************************************************************)
(* Proofs about NfqueueCorrelator, for any flows, packets and bounds.      *)
(*                                                                         *)
(* The inductive invariant is a conjunction of named parts.  Every action  *)
(* is shown to obey contracts on what one step may do to the flows, to the *)
(* verdict guards, to the pump's requests, to the initializers, to the     *)
(* endpoints, to the cleanups and to the reload; the parts are then        *)
(* preserved by the contracts.  Kernel ingress, the only step that gives a *)
(* packet its identity, is treated by itself.                              *)
(***************************************************************************)
EXTENDS NfqueueCorrelator, FiniteSetTheorems, SequenceTheorems, TLAPS

-----------------------------------------------------------------------------
(* The type invariant in parts *)

Maybe == Packets \cup {None}
IngestPcs == {"idle", "wait", "existing", "existingR"}
Leases == {"none", "task", "request", "gone"}
PumpPcs == {"idle", "lock", "apply", "complete"}
CtlStates == {"run", "fenced", "closing", "drain", "initializers", "empty",
              "retirements", "reopen", "opened"}

IdentityType == pkey \in [Packets -> Keys \cup {None}] /\ ptok \in [Packets -> Maybe]
RecordType == conn \in [Keys -> [tok : Maybe, st : ConnStates]]
ClockType == rcvd \in Seq(Packets) /\ lateN \in 0..Len(rcvd)
VerdictType == verdict \in [Packets -> Verdicts] /\ payload \in [Packets -> Maybe]
TransitType ==
    /\ wire \in Seq(Packets) /\ queue \in Seq(Packets)
    /\ ing \in [pc : IngestPcs, p : Maybe, c : Maybe]
CellType ==
    /\ map \in [Keys -> Maybe] /\ cellst \in [Packets -> CellStates]
    /\ held \in [Packets -> Seq(Packets)] /\ cgen \in [Packets -> Maybe]
CleanupType == cleanups \subseteq Requests /\ drain \in Requests \cup {None}
PoolType ==
    /\ ep \in [Keys -> [gen : Maybe, st : EntryStates]]
    /\ served \subseteq Packets /\ cancelled \subseteq Packets
TaskType ==
    /\ task \in [Packets -> TaskStates] /\ lease \in [Packets -> Leases]
    /\ stale \subseteq Packets
PumpType ==
    /\ commits \in Seq(Commits)
    /\ pump \in [pc : PumpPcs, batch : Seq(Commits)]
    /\ taken \in [Packets -> Seq(Packets)]
CtlType ==
    /\ ready \in BOOLEAN /\ open \in BOOLEAN /\ ctl \in CtlStates
    /\ reloads \in 0..MaxReloads
FailType == fatal \in BOOLEAN /\ faults \in 0..MaxFaults

LEMMA TypeParts ==
    TypeOK <=> /\ IdentityType /\ RecordType /\ ClockType /\ VerdictType
               /\ TransitType /\ CellType /\ CleanupType /\ PoolType
               /\ TaskType /\ PumpType /\ CtlType /\ FailType
BY DEF TypeOK, Maybe, IngestPcs, Leases, PumpPcs, CtlStates, IdentityType,
       RecordType, ClockType, VerdictType, TransitType, CellType, CleanupType,
       PoolType, TaskType, PumpType, CtlType, FailType

-----------------------------------------------------------------------------
(* The inductive invariant *)

Known(p) == pkey[p] # None
Inside(c) == cellst[c] # "none"
Undecided(p) == verdict[p] = "none"
Distinct(s) == \A i, j \in 1..Len(s) : s[i] = s[j] => i = j

\* A token is the packet that was staged with it, of the same tuple.
PacketShape ==
    \A p \in Packets :
        /\ ~Known(p) => ptok[p] = None /\ ~Inside(p) /\ Undecided(p) /\ payload[p] = None
        /\ Known(p) => /\ ptok[p] \in Packets
                       /\ pkey[ptok[p]] = pkey[p] /\ ptok[ptok[p]] = ptok[p]

RecordShape ==
    \A k \in Keys :
        /\ conn[k].tok = None <=> conn[k].st = "absent"
        /\ conn[k].tok # None => pkey[conn[k].tok] = k /\ ptok[conn[k].tok] = conn[k].tok

\* An undecided cell is in the map, and only it holds guards.
CellShape ==
    \A c \in Packets :
        /\ ~Inside(c) => cgen[c] = None
        /\ cgen[c] # None => cgen[cgen[c]] = cgen[c] /\ ptok[cgen[c]] = ptok[c]
        /\ IsPending(c) => map[pkey[c]] = c /\ cgen[c] = c
        /\ ~IsPending(c) => held[c] = <<>>
        /\ ~Inside(c) \/ Unarmed(c) => taken[c] = <<>>

TaskShape ==
    \A c \in Packets :
        /\ task[c] # "none" => cgen[c] = c
        /\ task[c] = "none" <=> lease[c] = "none"
        /\ task[c] \in Decisions \cup {"run"} => lease[c] = "task"

MapShape ==
    \A k \in Keys : map[k] # None => pkey[map[k]] = k /\ Inside(map[k])

EntryShape ==
    \A k \in Keys :
        /\ ep[k].gen = None <=> ep[k].st = "absent"
        /\ ep[k].gen # None => pkey[ep[k].gen] = k /\ cgen[ep[k].gen] = ep[k].gen

IngestShape ==
    /\ ing.pc = "idle" <=> ing.p = None
    /\ ing.pc \in {"existing", "existingR"} =>
          ing.c # None /\ Inside(ing.c) /\ pkey[ing.c] = pkey[ing.p]

\* A scheduled cleanup is for a token that has been given up or has a cell.
RequestShape == \A r \in cleanups : ptok[r.tok] = r.tok /\ ~Fresh(r.tok)

\* A task whose decision has been submitted never decides again.
Begun(c) == task[c] \notin {"none", "run"} \cup Decisions

CommitShape ==
    /\ \A i \in 1..Len(commits) :
          /\ commits[i].res = "todo" /\ Begun(commits[i].cell)
          /\ commits[i].decision # "proxy" => lease[commits[i].cell] # "task"
    /\ \A i \in Indices :
          /\ Begun(Entry(i).cell)
          /\ Entry(i).decision # "proxy" => lease[Entry(i).cell] # "task"

UnderLock == {"todo", "gone", "late", "expired", "refused", "armed", "terminal"}

\* Which results the pump's phases have, and what they say of the cell.
PhaseInv ==
    /\ pump.pc = "idle" => pump.batch = <<>>
    /\ \A i \in Indices :
          /\ pump.pc = "lock" => Entry(i).res \in {"todo", "gone"}
          /\ pump.pc = "apply" => Entry(i).res \in UnderLock
          /\ pump.pc = "complete" => Entry(i).res # "todo"
          /\ Entry(i).res \in ArmedPhases \cup {"failArmed"} => Entry(i).decision = "direct"
          /\ Entry(i).res \in {"terminal", "failTerminal"} => Entry(i).decision # "direct"
          /\ Entry(i).res \in {"terminal", "failTerminal", "ok"}
                /\ Entry(i).decision # "direct" =>
                   cellst[Entry(i).cell] = Entry(i).decision

\* A packet in transit has no cell yet; wherever a guard is, it is alone.
Transit(p) == p \in ToSet(wire) \/ p \in ToSet(queue) \/ ing.p = p
TransitShape == \A p \in Packets : Transit(p) => Known(p) /\ ~Inside(p) /\ Undecided(p)

HeldShape ==
    \A c \in Packets : \A p \in ToSet(held[c]) \cup ToSet(taken[c]) :
        ptok[p] = ptok[c] /\ Undecided(p) /\ ~Transit(p)

OwnerInv ==
    /\ Distinct(wire) /\ Distinct(queue)
    /\ \A c \in Packets : Distinct(held[c]) /\ Distinct(taken[c])
    /\ \A p \in ToSet(wire) : p \notin ToSet(queue) /\ p # ing.p
    /\ \A p \in ToSet(queue) : p # ing.p
    /\ \A c, d \in Packets : \A p \in ToSet(held[c]) : p \in ToSet(held[d]) => c = d
    /\ \A c, d \in Packets : \A p \in ToSet(taken[c]) : p \in ToSet(taken[d]) => c = d
    /\ \A c, d \in Packets : \A p \in ToSet(held[c]) : p \notin ToSet(taken[d])
    /\ \A p \in Packets : Known(p) /\ Undecided(p) =>
          Transit(p) \/ \E c \in Packets : p \in ToSet(held[c]) \cup ToSet(taken[c])

\* The record of an armed cell is armed, and no second cell of its token is.
RecordArmed(c) == conn[pkey[c]] = [tok |-> ptok[c], st |-> "armed"]
ArmedRecord ==
    /\ \A c \in Packets : cellst[c] = "armed" => RecordArmed(c)
    /\ \A c, d \in Packets :
          cellst[c] = "armed" /\ cellst[d] = "armed" /\ ptok[c] = ptok[d] => c = d

\* The same of the requests, which may outlive the armed phase of the cell.
ArmedEntry ==
    /\ \A i \in Indices : Entry(i).res \in ArmedPhases => RecordArmed(Entry(i).cell)
    /\ \A i, j \in Indices :
          /\ Entry(i).res \in ArmedPhases /\ Entry(j).res \in ArmedPhases
          /\ ptok[Entry(i).cell] = ptok[Entry(j).cell]
          => i = j

\* Until the process is told to die, an armed record has its cell, and an armed
\* cell its request.
ArmedHasEntry ==
    \/ fatal
    \/ /\ \A k \in Keys : conn[k].st = "armed" =>
             \E c \in Packets : cellst[c] = "armed" /\ ptok[c] = conn[k].tok
       /\ \A c \in Packets : cellst[c] = "armed" =>
             \E i \in Indices : Entry(i).cell = c /\ Entry(i).res \in ArmedPhases

TakenHasEntry ==
    \A c \in Packets : taken[c] # <<>> =>
        \E i \in Indices :
            Entry(i).cell = c /\ Entry(i).res \in {"accept", "terminal", "failTerminal"}

\* The record of a direct cell stays while a packet of the token is undecided.
DirectRecord ==
    /\ \A c \in Packets : cellst[c] = "direct" =>
          \A p \in Packets : ptok[p] = ptok[c] /\ Undecided(p) => conn[pkey[c]].tok = ptok[c]
    /\ \A k \in Keys : conn[k].st = "direct" =>
          \E c \in Packets : cellst[c] = "direct" /\ ptok[c] = conn[k].tok

\* A token is decided one way.
SidesExclude ==
    \A c, d \in Packets :
        cellst[c] \in {"armed", "direct"} /\ cellst[d] \in {"proxy", "block"} =>
            ptok[c] # ptok[d]

AcceptedIsDirect ==
    \A p \in Packets : verdict[p] = "accept" =>
        \/ \E c \in Packets : cellst[c] = "direct" /\ ptok[c] = ptok[p]
        \/ RecordArmed(p)

CopiedIsProxy ==
    \A p \in Packets : verdict[p] = "copied" =>
        \E c \in Packets : cellst[c] = "proxy" /\ ptok[c] = ptok[p]

ServedIsProxy ==
    \A g \in Packets :
        g \in served \/ task[g] = "dial" \/ (task[g] = "ok" /\ lease[g] = "task") =>
            cellst[g] = "proxy"

\* What a cell holds before it is armed has been copied to its endpoint.
CopyInv ==
    /\ \A c \in Packets : Unarmed(c) => \A p \in ToSet(held[c]) : payload[p] # None
    /\ \A c \in Packets : cellst[c] \in {"proxy", "block"} =>
          \A p \in ToSet(taken[c]) : payload[p] # None

\* What a reload has achieved when it has come to a stage.
Closed == {"drain", "initializers", "empty", "retirements", "reopen"}
CtlInv ==
    /\ ready <=> ctl = "run"
    /\ open <=> ctl \in {"run", "fenced", "opened"}
    /\ ctl \in Closed => ing.pc = "idle"
    /\ ctl \in {"initializers", "empty", "retirements"} => \A k \in Keys : map[k] = None
    /\ ctl \in {"empty", "retirements"} => \A g \in Packets : lease[g] \in {"none", "gone"}
    /\ ctl = "retirements" => commits = <<>> /\ pump.batch = <<>>
    /\ ~ready => \A k \in Keys : conn[k].st # "pending"

CorrInv ==
    /\ TypeOK
    /\ PacketShape /\ RecordShape /\ CellShape /\ TaskShape /\ MapShape
    /\ EntryShape /\ IngestShape /\ RequestShape /\ CommitShape /\ PhaseInv
    /\ TransitShape /\ HeldShape /\ OwnerInv
    /\ ArmedRecord /\ ArmedEntry /\ ArmedHasEntry /\ TakenHasEntry
    /\ CellAgreesWithRecord /\ DirectRecord /\ SidesExclude
    /\ AcceptedIsDirect /\ CopiedIsProxy /\ ServedIsProxy
    /\ CopyReachesOwnFlow /\ CopyInv
    /\ CtlInv

-----------------------------------------------------------------------------
(* What one step may do to the flows: their records and their cells *)

\* A record leaves the map only if nothing fresh or undecided needs it.
Removable(k) ==
    \/ conn[k].st \in {"pending", "proxy"} /\ (ready' => ~Fresh(conn[k].tok))
    \/ /\ conn[k].st \in {"direct", "block"}
       /\ \A p \in Packets : ptok[p] = conn[k].tok => ~Undecided(p)
Removes(S) ==
    /\ S \subseteq Keys /\ \A k \in S : Removable(k)
    /\ conn' = [k \in Keys |-> IF k \in S THEN Absent ELSE conn[k]]

Evicts(k) ==
    /\ map[k] # None => Terminal(map[k])
    /\ map' = [map EXCEPT ![k] = None]
    /\ UNCHANGED <<conn, cellst, held, cgen>>

RecordIs(c, st) == conn[pkey[c]] = [tok |-> ptok[c], st |-> st]

Creates(p, st, g, h) ==
    /\ ing.pc = "wait" /\ ing.p = p /\ ing' = Idle
    /\ map[pkey[p]] # None => Terminal(map[pkey[p]])
    /\ SlotFree(pkey[p])
    /\ map' = [map EXCEPT ![pkey[p]] = p]
    /\ cellst' = [cellst EXCEPT ![p] = st]
    /\ cgen' = [cgen EXCEPT ![p] = g]
    /\ held' = [held EXCEPT ![p] = h]
    /\ UNCHANGED conn
    /\ \/ st = "pending" /\ g = p /\ h = <<p>> /\ payload'[p] = p /\ RecordIs(p, st)
       \/ st = "dead" /\ g = None /\ h = <<>>
       \/ st \in {"direct", "block"} /\ g = None /\ h = <<>> /\ RecordIs(p, st)
       \/ /\ st = "proxy" /\ g \in Packets /\ h = <<>> /\ RecordIs(p, st)
          /\ cgen[g] = g /\ ptok[g] = ptok[p] /\ g # p

Sinks(c, st, h) ==
    /\ Unarmed(c)
    /\ cellst' = [cellst EXCEPT ![c] = st] /\ held' = [held EXCEPT ![c] = h]
    /\ UNCHANGED <<map, cgen>>
    /\ \/ st = "cancelling" /\ h \in {held[c], <<>>} /\ UNCHANGED conn
       \/ st = "dead" /\ h = <<>> /\ (UNCHANGED conn \/ \E S \in SUBSET Keys : Removes(S))

Fails(c) ==
    /\ cellst[c] = "armed" /\ fatal'
    /\ cellst' = [cellst EXCEPT ![c] = "dead"] /\ held' = [held EXCEPT ![c] = <<>>]
    /\ UNCHANGED <<conn, map, cgen>>

Holds(c) ==
    /\ ing.p \in Packets /\ ptok[c] = ptok[ing.p] /\ cellst[c] \in {"pending", "armed"}
    /\ cellst[c] = "pending" => payload'[ing.p] # None
    /\ Len(held[c]) < MaxHeld
    /\ held' = [held EXCEPT ![c] = Append(held[c], ing.p)]
    /\ UNCHANGED <<conn, map, cellst, cgen>>

Marked(i, c, r) == i \in Indices /\ Entry(i).cell = c /\ pump' = Mark(i, r)

Decides(i, c, st) ==
    /\ st \in {"armed", "proxy", "block"}
    /\ cellst[c] = "pending" /\ RecordIs(c, "pending")
    /\ conn' = [conn EXCEPT ![pkey[c]] = [tok |-> ptok[c], st |-> st]]
    /\ cellst' = [cellst EXCEPT ![c] = st]
    /\ held' = [held EXCEPT ![c] = IF st = "armed" THEN held[c] ELSE <<>>]
    /\ UNCHANGED <<map, cgen>>
    /\ Marked(i, c, IF st = "armed" THEN "armed" ELSE "terminal")
    /\ Entry(i).res = "todo"

Takes(c) ==
    /\ cellst[c] = "armed" /\ held' = [held EXCEPT ![c] = <<>>]
    /\ UNCHANGED <<conn, map, cellst, cgen>>

Activates(i, c) ==
    /\ cellst[c] = "armed" /\ RecordIs(c, "armed") /\ held[c] = <<>> /\ taken[c] = <<>>
    /\ conn' = [conn EXCEPT ![pkey[c]] = [tok |-> ptok[c], st |-> "direct"]]
    /\ cellst' = [cellst EXCEPT ![c] = "direct"]
    /\ UNCHANGED <<map, held, cgen>>
    /\ Marked(i, c, "ok") /\ Entry(i).res = "accept"

FlowMove ==
    \/ UNCHANGED <<conn, map, cellst, held, cgen>>
    \/ (\E S \in SUBSET Keys : Removes(S)) /\ UNCHANGED <<map, cellst, held, cgen>>
    \/ \E k \in Keys : Evicts(k)
    \/ \E p \in Packets, st \in CellStates, g \in Maybe, h \in Seq(Packets) : Creates(p, st, g, h)
    \/ \E c \in Packets, st \in CellStates, h \in Seq(Packets) : Sinks(c, st, h)
    \/ \E c \in Packets : Fails(c)
    \/ \E c \in Packets : Holds(c)
    \/ \E c \in Packets : \E i \in Indices : \E st \in CellStates : Decides(i, c, st)
    \/ \E c \in Packets : Takes(c)
    \/ \E c \in Packets : \E i \in Indices : Activates(i, c)

(* ... to the verdict guards *)

\* Exactly the packets of ps get a verdict.
Settles(ps) ==
    /\ verdict' \in [Packets -> Verdicts]
    /\ \A p \in Packets : p \notin ps => verdict'[p] = verdict[p]
    /\ \A p \in ps : verdict'[p] # "none"

Keeps == UNCHANGED <<verdict, wire, queue, held, taken>> /\ ing'.p = ing.p
Delivers ==
    /\ wire # <<>> /\ wire' = Tail(wire) /\ queue' = Append(queue, Head(wire))
    /\ rcvd' = Append(rcvd, Head(wire))
    /\ UNCHANGED <<verdict, held, taken>> /\ ing'.p = ing.p
Rejects ==
    /\ wire # <<>> /\ wire' = Tail(wire) /\ Settles({Head(wire)})
    /\ UNCHANGED <<queue, held, taken>> /\ ing'.p = ing.p
Refuses ==
    /\ queue # <<>> /\ queue' = Tail(queue) /\ Settles({Head(queue)})
    /\ UNCHANGED <<wire, held, taken>> /\ ing'.p = ing.p
Starts ==
    /\ queue # <<>> /\ queue' = Tail(queue) /\ ing.p = None /\ ing'.p = Head(queue)
    /\ UNCHANGED <<verdict, wire, held, taken>>
Finishes ==
    /\ ing.p \in Packets /\ ing'.p = None /\ Settles({ing.p})
    /\ UNCHANGED <<wire, queue, held, taken>>
Stores(c) ==
    /\ ing.p \in Packets /\ ing'.p = None /\ ptok[ing.p] = ptok[c]
    /\ held' = [held EXCEPT ![c] = Append(held[c], ing.p)]
    /\ UNCHANGED <<verdict, wire, queue, taken>>
Empties(c) ==
    /\ held' = [held EXCEPT ![c] = <<>>]
    /\ UNCHANGED <<wire, queue, taken>>
    /\ \/ ing'.p = ing.p /\ Settles(ToSet(held[c]))
       \/ ing.p \in Packets /\ ing'.p = None /\ Settles(ToSet(held[c]) \cup {ing.p})
Moves(i, c) ==
    /\ taken[c] = <<>> /\ taken' = [taken EXCEPT ![c] = held[c]]
    /\ held' = [held EXCEPT ![c] = <<>>]
    /\ UNCHANGED <<verdict, wire, queue>> /\ ing'.p = ing.p
    /\ cellst[c] \in {"pending", "armed"} /\ cellst'[c] \in {"armed", "proxy", "block"}
    /\ cellst[c] = "armed" => cellst'[c] = "armed"
    /\ \E r \in {"accept", "terminal"} : Marked(i, c, r)
Shifts(c) ==
    /\ taken[c] # <<>> /\ taken' = [taken EXCEPT ![c] = Tail(taken[c])]
    /\ Settles({Head(taken[c])})
    /\ UNCHANGED <<wire, queue, held>> /\ ing'.p = ing.p
Clears(c) ==
    /\ taken' = [taken EXCEPT ![c] = <<>>] /\ Settles(ToSet(taken[c]))
    /\ UNCHANGED <<wire, queue, held>> /\ ing'.p = ing.p

GuardMove ==
    \/ Keeps \/ Delivers \/ Rejects \/ Refuses \/ Starts \/ Finishes
    \/ \E c \in Packets : Stores(c) \/ Empties(c) \/ Shifts(c) \/ Clears(c)
    \/ \E c \in Packets : \E i \in Indices : Moves(i, c)

\* An accepted packet is the one being ingested, of a direct flow, or the first
\* of those the pump has taken from an armed cell.
Releases(p) ==
    \/ ing.p = p /\ \E c \in Packets : cellst[c] = "direct" /\ ptok[c] = ptok[p] /\ Undecided(p)
    \/ ing.p = p /\ cellst'[p] = "direct" /\ RecordIs(p, "direct")
    \/ /\ RecordArmed(p) /\ UNCHANGED conn
       /\ \E c \in Packets : taken[c] # <<>> /\ Head(taken[c]) = p

VerdictMove ==
    /\ \A p \in Packets : verdict'[p] # verdict[p] =>
          \/ verdict'[p] \in {"drop", "lost"}
          \/ verdict'[p] = "accept" /\ Releases(p)
          \/ /\ verdict'[p] = "copied" /\ payload'[p] # None
             /\ \E c \in Packets : cellst'[c] = "proxy" /\ ptok[c] = ptok[p]
    /\ payload' \in [Packets -> Maybe]
    /\ \A p \in Packets : payload'[p] # payload[p] =>
          Known(p) /\ payload'[p] # None /\ ptok[payload'[p]] = ptok[p]

IngestMove ==
    \/ ing' = ing
    \/ ing' = Idle
    \/ ing.pc = "idle" /\ open /\ queue # <<>> /\ ing' = [pc |-> "wait", p |-> Head(queue), c |-> None]
    \/ \E x \in {"existing", "existingR"}, p \in Packets, c \in Packets :
          /\ ing' = [pc |-> x, p |-> p, c |-> c]
          /\ Inside(c) /\ pkey[c] = pkey[p]
          /\ ing.p = p \/ (ing.pc = "idle" /\ open)

(* ... to the pump's requests and the initializers *)

Submits(g) ==
    /\ task[g] \in Decisions
    /\ commits' = Append(commits, [cell |-> g, decision |-> task[g], res |-> "todo"])
    /\ task' = [task EXCEPT ![g] = "wait"]
    /\ lease' = [lease EXCEPT ![g] = IF task[g] = "proxy" THEN "task" ELSE "request"]
    /\ UNCHANGED <<pump, taken>>

Fetches(n) ==
    /\ pump.pc = "idle" /\ n \in 1..Len(commits)
    /\ pump' = [pc |-> "lock", batch |-> SubSeq(commits, 1, n)]
    /\ commits' = SubSeq(commits, n + 1, Len(commits))
    /\ UNCHANGED taken

\* The batch goes on to its next phase.
Sweeps(pc, b) ==
    /\ pump' = [pc |-> pc, batch |-> b]
    /\ Len(b) = Len(pump.batch)
    /\ \A i \in Indices :
          /\ b[i].cell = Entry(i).cell /\ b[i].decision = Entry(i).decision
          /\ \/ b[i].res = Entry(i).res
             \/ /\ Entry(i).res \in {"todo", "expired", "refused"}
                /\ b[i].res \in {"late", "refused"}
             \/ Entry(i).res = "armed" /\ b[i].res = "failArmed" /\ fatal'
             \/ Entry(i).res = "terminal" /\ b[i].res = "failTerminal"
    /\ pc = "apply" => /\ pump.pc = "lock"
                       /\ \A i \in Indices : b[i].res \in {"todo", "late", "gone"}
    /\ pc = "complete" => pump.pc = "apply" /\ \A i \in Indices : b[i].res # "todo"
    /\ UNCHANGED <<commits, taken>>

\* One request is marked.
Marks(i, r) ==
    /\ i \in Indices /\ pump' = Mark(i, r) /\ UNCHANGED commits
    /\ \/ /\ Entry(i).res \in {"todo", "late", "expired", "refused", "ok"}
          /\ r \in {"expired", "refused", "gone"} /\ UNCHANGED taken
          /\ pump.pc = "lock" => r = "gone"
          /\ pump.pc = "apply" => Entry(i).res = "todo"
       \/ /\ Entry(i).res = "todo" /\ r = "armed" /\ pump.pc = "apply"
          /\ Entry(i).decision = "direct" /\ Decides(i, Entry(i).cell, "armed")
          /\ UNCHANGED taken
       \/ /\ Entry(i).res = "todo" /\ r = "terminal" /\ pump.pc = "apply"
          /\ Entry(i).decision # "direct"
          /\ Decides(i, Entry(i).cell, Entry(i).decision) /\ Moves(i, Entry(i).cell)
       \/ /\ pump.pc = "complete" /\ Entry(i).res = "armed" /\ r = "accept"
          /\ Moves(i, Entry(i).cell)
       \/ /\ pump.pc = "complete" /\ Entry(i).res = "accept" /\ r \in {"armed", "ok"}
          /\ r = "ok" => Activates(i, Entry(i).cell)
          /\ taken[Entry(i).cell] = <<>> /\ UNCHANGED taken
       \/ /\ pump.pc = "complete" /\ Entry(i).res \in ArmedPhases \cup {"failArmed"}
          /\ r = "refused" /\ fatal'
          /\ Entry(i).res = "accept" => taken'[Entry(i).cell] = <<>>
          /\ UNCHANGED taken \/ taken' = [taken EXCEPT ![Entry(i).cell] = <<>>]
       \/ /\ pump.pc = "complete" /\ Entry(i).res \in {"terminal", "failTerminal"}
          /\ r \in {"ok", "refused"}
          /\ taken' = [taken EXCEPT ![Entry(i).cell] = <<>>]

Ends ==
    /\ \A i \in Indices : Entry(i).res = "gone"
    /\ pump' = [pc |-> "idle", batch |-> <<>>]
    /\ UNCHANGED <<commits, taken>>

\* The pump's loop over taken guards, which marks nothing.
Drains(c) ==
    /\ UNCHANGED <<commits, pump>>
    /\ taken[c] # <<>> /\ taken' = [taken EXCEPT ![c] = Tail(taken[c])]

PumpMove ==
    \/ UNCHANGED <<commits, pump, taken>>
    \/ \E g \in Packets : Submits(g)
    \/ \E n \in 1..MaxBatch : Fetches(n)
    \/ \E pc \in {"apply", "complete"}, b \in Seq(Commits) : Sweeps(pc, b)
    \/ \E i \in Indices, r \in Results : Marks(i, r)
    \/ Ends
    \/ \E c \in Packets : Drains(c)

TaskStep(g, s, l) ==
    \/ task[g] = "none" /\ s = "run" /\ l = "task" /\ ing.pc = "wait" /\ cgen'[g] = g
    \/ task[g] = "run" /\ s \in Decisions /\ l = lease[g]
       /\ map[pkey[g]] = g /\ ing' = ing
    \/ Submits(g) /\ s = "wait" /\ l = IF task[g] = "proxy" THEN "task" ELSE "request"
    \/ /\ task[g] # "none" /\ l \in {lease[g], "gone"}
       /\ \/ s = task[g] /\ Begun(g)
          \/ s \in {"skip", "cancel", "done", "err"}
          \/ s = "ok" /\ (lease[g] = "task" => cellst[g] = "proxy")
          \/ s = "dial" /\ task[g] = "ok" /\ lease[g] = "task"

TaskMove ==
    /\ \/ UNCHANGED <<task, lease>>
       \/ \E g \in Packets, s \in TaskStates, l \in Leases :
             /\ task' = [task EXCEPT ![g] = s] /\ lease' = [lease EXCEPT ![g] = l]
             /\ TaskStep(g, s, l)
    /\ stale' \subseteq Packets
    /\ served' \subseteq Packets
    /\ \A g \in served' : g \in served \/ task[g] = "dial"

(* ... to the endpoints, the cleanups and the flags *)

PoolMove ==
    /\ cancelled' \subseteq Packets
    /\ \/ UNCHANGED ep
       \/ \E k \in Keys, s \in EntryStates \ {"absent"} :
             ep[k].st # "absent" /\ ep' = [ep EXCEPT ![k] = [gen |-> ep[k].gen, st |-> s]]
       \/ \E k \in Keys : ep' = [ep EXCEPT ![k] = [gen |-> None, st |-> "absent"]]
       \/ \E p \in Packets : /\ Known(p) /\ cgen'[p] = p
                             /\ ep' = [ep EXCEPT ![pkey[p]] = [gen |-> p, st |-> "init"]]

\* The set of cleanups shrinks, or takes one more while it has room.
CleanupRoom ==
    \/ cleanups' \subseteq cleanups
    \/ ~(Cardinality(cleanups) >= MaxCleanups) /\ \E r \in Requests : cleanups' = cleanups \cup {r}

CleanupMove ==
    /\ cleanups' \subseteq Requests /\ drain' \in Requests \cup {None}
    /\ CleanupRoom
    /\ \A r \in cleanups' : r \in cleanups \/
          /\ ptok[r.tok] = r.tok
          /\ \E p \in Packets : ptok[p] = r.tok /\ (verdict'[p] # "none" \/ cellst'[p] # "none")

FailMove ==
    /\ fatal' \in BOOLEAN /\ (fatal => fatal') /\ faults' \in 0..MaxFaults
    /\ rcvd' \in Seq(Packets) /\ lateN' \in 0..Len(rcvd')
    /\ UNCHANGED rcvd \/ Receive

Move ==
    /\ UNCHANGED <<pkey, ptok>>
    /\ FlowMove /\ GuardMove /\ VerdictMove /\ IngestMove
    /\ PumpMove /\ TaskMove /\ PoolMove /\ CleanupMove /\ FailMove

-----------------------------------------------------------------------------
(* Sequences as sets *)

LEMMA ToSetRange ==
    ASSUME NEW S, NEW s \in Seq(S)
    PROVE  /\ ToSet(s) \subseteq S
           /\ \A x : x \in ToSet(s) <=> \E i \in 1..Len(s) : s[i] = x
BY DEF ToSet

LEMMA ToSetEmpty == ToSet(<<>>) = {}
BY DEF ToSet

LEMMA ToSetAppend ==
    ASSUME NEW S, NEW s \in Seq(S), NEW x \in S
    PROVE  /\ Append(s, x) \in Seq(S)
           /\ ToSet(Append(s, x)) = ToSet(s) \cup {x}
           /\ Distinct(s) /\ x \notin ToSet(s) => Distinct(Append(s, x))
<1>1. /\ Append(s, x) \in Seq(S) /\ Len(Append(s, x)) = Len(s) + 1
      /\ \A i \in 1..Len(s) : Append(s, x)[i] = s[i]
      /\ Append(s, x)[Len(s) + 1] = x
  OBVIOUS
<1>2. \A y : y \in ToSet(s) <=> \E i \in 1..Len(s) : s[i] = y
  BY ToSetRange
<1>3. \A y : y \in ToSet(Append(s, x)) <=> \E i \in 1..(Len(s) + 1) : Append(s, x)[i] = y
  <2> DEFINE t == Append(s, x)
  <2>1. t \in Seq(S) /\ Len(t) = Len(s) + 1
    BY <1>1
  <2> HIDE DEF t
  <2>2. \A y : y \in ToSet(t) <=> \E i \in 1..Len(t) : t[i] = y
    BY <2>1, ToSetRange
  <2>3. \A y : y \in ToSet(t) <=> \E i \in 1..(Len(s) + 1) : t[i] = y
    BY <2>1, <2>2
  <2> QED
    BY <2>3 DEF t
<1>4. Len(s) \in Nat
  OBVIOUS
<1>5. \A y : y \in ToSet(Append(s, x)) <=> y \in ToSet(s) \/ y = x
  BY <1>1, <1>2, <1>3, <1>4
<1>6. ToSet(Append(s, x)) = ToSet(s) \cup {x}
  BY <1>5
<1>7. ASSUME Distinct(s), x \notin ToSet(s)
      PROVE  Distinct(Append(s, x))
  BY <1>1, <1>2, <1>4, <1>7 DEF Distinct
<1> QED
  BY <1>1, <1>6, <1>7

LEMMA ToSetTail ==
    ASSUME NEW S, NEW s \in Seq(S), s # <<>>
    PROVE  /\ Head(s) \in S /\ Head(s) \in ToSet(s) /\ Tail(s) \in Seq(S)
           /\ ToSet(s) = ToSet(Tail(s)) \cup {Head(s)}
           /\ Distinct(s) => Distinct(Tail(s)) /\ Head(s) \notin ToSet(Tail(s))
<1>1. /\ Tail(s) \in Seq(S) /\ Len(s) \in Nat /\ Len(s) >= 1 /\ Len(Tail(s)) = Len(s) - 1
      /\ \A i \in 1..(Len(s) - 1) : Tail(s)[i] = s[i + 1]
      /\ Head(s) = s[1] /\ Head(s) \in S
  OBVIOUS
<1>2. \A y : y \in ToSet(s) <=> \E i \in 1..Len(s) : s[i] = y
  BY ToSetRange
<1>3. \A y : y \in ToSet(Tail(s)) <=> \E i \in 1..(Len(s) - 1) : s[i + 1] = y
  <2> DEFINE t == Tail(s)
  <2>1. /\ t \in Seq(S) /\ Len(t) = Len(s) - 1
        /\ \A i \in 1..(Len(s) - 1) : t[i] = s[i + 1]
    BY <1>1
  <2> HIDE DEF t
  <2>2. \A y : y \in ToSet(t) <=> \E i \in 1..Len(t) : t[i] = y
    BY <2>1, ToSetRange
  <2>3. \A y : y \in ToSet(t) <=> \E i \in 1..(Len(s) - 1) : s[i + 1] = y
    BY <2>1, <2>2
  <2> QED
    BY <2>3 DEF t
<1>4. \A y : y \in ToSet(s) <=> y \in ToSet(Tail(s)) \/ y = Head(s)
  <2>1. ASSUME NEW y, y \in ToSet(s) PROVE y \in ToSet(Tail(s)) \/ y = Head(s)
    <3>1. PICK i \in 1..Len(s) : s[i] = y
      BY <2>1, <1>2
    <3>2. CASE i = 1
      BY <3>1, <3>2, <1>1
    <3>3. CASE i # 1
      <4>1. i - 1 \in 1..(Len(s) - 1) /\ s[(i - 1) + 1] = y
        BY <3>1, <3>3, <1>1
      <4> QED
        BY <4>1, <1>3
    <3> QED
      BY <3>2, <3>3
  <2>2. ASSUME NEW y, y \in ToSet(Tail(s)) PROVE y \in ToSet(s)
    BY <2>2, <1>1, <1>2, <1>3
  <2>3. Head(s) \in ToSet(s)
    BY <1>1, <1>2
  <2> QED
    BY <2>1, <2>2, <2>3
<1>5. ASSUME Distinct(s) PROVE Distinct(Tail(s)) /\ Head(s) \notin ToSet(Tail(s))
  <2>1. ASSUME NEW i \in 1..Len(Tail(s)), NEW j \in 1..Len(Tail(s)), Tail(s)[i] = Tail(s)[j]
        PROVE  i = j
    <3>1. s[i + 1] = s[j + 1] /\ i + 1 \in 1..Len(s) /\ j + 1 \in 1..Len(s)
      BY <2>1, <1>1
    <3>2. i + 1 = j + 1
      BY <3>1, <1>5 DEF Distinct
    <3> QED
      BY <3>2, <1>1
  <2>2. ASSUME Head(s) \in ToSet(Tail(s)) PROVE FALSE
    <3>1. PICK i \in 1..(Len(s) - 1) : s[i + 1] = s[1]
      BY <2>2, <1>1, <1>3
    <3>2. i + 1 \in 1..Len(s) /\ 1 \in 1..Len(s)
      BY <1>1
    <3>3. i + 1 = 1
      BY <3>1, <3>2, <1>5 DEF Distinct
    <3> QED
      BY <3>3, <1>1
  <2> QED
    BY <2>1, <2>2 DEF Distinct
<1> QED
  BY <1>1, <1>4, <1>5

-----------------------------------------------------------------------------
(* Effects shared by several handlers *)

LEMMA Types ==
    ASSUME CorrInv
    PROVE  /\ IdentityType /\ RecordType /\ ClockType /\ VerdictType
           /\ TransitType /\ CellType /\ CleanupType /\ PoolType
           /\ TaskType /\ PumpType /\ CtlType /\ FailType
BY TypeParts DEF CorrInv

LEMMA SettleEffect ==
    ASSUME VerdictType, FailType, NEW ps \in SUBSET Packets, NEW also,
           NEW o \in {"drop", "accept", "copied"}, Settle(ps, o, also)
    PROVE  /\ Settles(ps)
           /\ \A p \in Packets : verdict'[p] # verdict[p] => p \in ps /\ verdict'[p] \in {o, "lost"}
           /\ fatal' \in BOOLEAN /\ (fatal => fatal') /\ (also => fatal')
           /\ faults' \in 0..MaxFaults
<1>1. PICK lost \in {{}} \cup {{p} : p \in {q \in ps : faults < MaxFaults}} :
        /\ verdict' = [q \in Packets |-> IF q \in lost THEN "lost"
                                         ELSE IF q \in ps THEN o ELSE verdict[q]]
        /\ fatal' = (fatal \/ also \/ lost # {})
        /\ faults' = faults + Cardinality(lost)
  BY DEF Settle
<1>2. lost \subseteq ps /\ Cardinality(lost) \in {0, 1} /\ (lost # {} => faults < MaxFaults)
      /\ (lost = {} => Cardinality(lost) = 0)
  <2>1. CASE lost = {}
    BY <2>1, FS_EmptySet
  <2>2. CASE lost # {}
    <3>1. PICK p \in ps : lost = {p} /\ faults < MaxFaults
      BY <2>2, <1>1
    <3> QED
      BY <3>1, FS_Singleton
  <2> QED
    BY <2>1, <2>2
<1>3. faults' \in 0..MaxFaults
  BY <1>1, <1>2, BoundsAssumption DEF FailType
<1>4. fatal' \in BOOLEAN /\ (fatal => fatal') /\ (also => fatal')
  BY <1>1
<1>5. /\ verdict' \in [Packets -> Verdicts]
      /\ \A p \in Packets : p \notin ps => verdict'[p] = verdict[p]
      /\ \A p \in ps : verdict'[p] \in {o, "lost"}
  BY <1>1, <1>2 DEF VerdictType, Verdicts
<1> QED
  BY <1>3, <1>4, <1>5 DEF Settles

LEMMA ScheduledEffect ==
    ASSUME NEW rs, cleanups' = Scheduled(rs)
    PROVE  cleanups' \subseteq cleanups \cup rs
BY DEF Scheduled

LEMMA ScheduledRoom ==
    ASSUME NEW r \in Requests, NEW rs \in SUBSET {r}, cleanups' = Scheduled(rs)
    PROVE  CleanupRoom
<1>1. CASE Overflows(rs) \/ rs \subseteq cleanups
  BY <1>1 DEF Scheduled, CleanupRoom
<1>2. CASE ~Overflows(rs) /\ ~(rs \subseteq cleanups)
  <2>1. rs = {r} /\ cleanups' = cleanups \cup {r}
    BY <1>2 DEF Scheduled
  <2>2. ~(Cardinality(cleanups) >= MaxCleanups)
    BY <1>2 DEF Overflows
  <2> QED
    BY <2>1, <2>2 DEF CleanupRoom
<1> QED
  BY <1>1, <1>2

LEMMA RetireExactEffect ==
    ASSUME PoolType, IdentityType, EntryShape, NEW g \in Packets, pkey[g] \in Keys, RetireExact(g)
    PROVE  PoolMove
<1>1. cancelled' \subseteq Packets
  BY DEF RetireExact, PoolType
<1>2. CASE EntryLive(g)
  <2>1. ep' = [ep EXCEPT ![pkey[g]] = [gen |-> ep[pkey[g]].gen, st |-> "retiring"]]
    <3>1. ep' = [ep EXCEPT ![pkey[g]] = [ep[pkey[g]] EXCEPT !.st = "retiring"]]
      BY <1>2 DEF RetireExact
    <3>2. [ep[pkey[g]] EXCEPT !.st = "retiring"] = [gen |-> ep[pkey[g]].gen, st |-> "retiring"]
      BY DEF PoolType
    <3> QED
      BY <3>1, <3>2
  <2>2. ep[pkey[g]].st # "absent" /\ "retiring" \in EntryStates \ {"absent"}
    BY <1>2 DEF EntryLive, EntryStates
  <2> QED
    BY <1>1, <2>1, <2>2 DEF PoolMove
<1>3. CASE ~EntryLive(g)
  BY <1>1, <1>3 DEF RetireExact, PoolMove
<1> QED
  BY <1>2, <1>3

LEMMA KnownFacts ==
    ASSUME CorrInv, NEW p \in Packets, Known(p)
    PROVE  /\ pkey[p] \in Keys /\ ptok[p] \in Packets
           /\ pkey[ptok[p]] = pkey[p] /\ ptok[ptok[p]] = ptok[p]
BY Types DEF CorrInv, IdentityType, PacketShape, Known

LEMMA InsideFacts ==
    ASSUME CorrInv, NEW c \in Packets, Inside(c)
    PROVE  /\ Known(c) /\ pkey[c] \in Keys /\ ptok[c] \in Packets
           /\ pkey[ptok[c]] = pkey[c] /\ ptok[ptok[c]] = ptok[c] /\ ~Fresh(ptok[c])
<1>1. Known(c)
  BY DEF CorrInv, PacketShape
<1>2. ~Fresh(ptok[c])
  BY DEF Fresh, Inside
<1> QED
  BY <1>1, <1>2, KnownFacts

LEMMA RequestTypes ==
    /\ \A t \in Packets : TokenReq(t) \in Requests /\ TokenReq(t).tok = t
    /\ CellType /\ IdentityType =>
          \A c \in Packets : ptok[c] \in Packets => FlowReq(c) \in Requests /\ FlowReq(c).tok = ptok[c]
BY DEF TokenReq, FlowReq, Requests, CellType, IdentityType, Maybe

(* What is left alone by the effects on a cell.                             *)
Aside ==
    /\ UNCHANGED <<pkey, ptok, rcvd, lateN, payload, wire, queue, ing, map, cgen, taken>>
    /\ drain' \in Requests \cup {None}

CellMove ==
    /\ FlowMove /\ GuardMove /\ VerdictMove /\ IngestMove /\ PoolMove /\ CleanupMove /\ FailMove

\* One request, for a token that has a cell or a verdict.
LEMMA CleanupEffect ==
    ASSUME CleanupType, NEW r \in Requests, ptok[r.tok] = r.tok,
           cleanups' = Scheduled({r}), drain' \in Requests \cup {None},
           \E p \in Packets : ptok[p] = r.tok /\ (verdict'[p] # "none" \/ cellst'[p] # "none")
    PROVE  CleanupMove
<1>1. cleanups' \subseteq cleanups \cup {r} /\ CleanupRoom
  BY ScheduledEffect, ScheduledRoom
<1> QED
  BY <1>1 DEF CleanupMove, CleanupType

LEMMA QuietCleanups ==
    ASSUME CleanupType, cleanups' \subseteq cleanups, drain' \in Requests \cup {None}
    PROVE  CleanupMove
BY DEF CleanupMove, CleanupRoom, CleanupType

LEMMA QuietClock ==
    ASSUME ClockType, UNCHANGED <<rcvd, lateN>>
    PROVE  rcvd' \in Seq(Packets) /\ lateN' \in 0..Len(rcvd') /\ (UNCHANGED rcvd \/ Receive)
BY DEF ClockType

\* The guards of a cell are dropped.
LEMMA DropHeld ==
    ASSUME CorrInv, NEW c \in Packets, NEW also, Settle(ToSet(held[c]), "drop", also),
           held' = [held EXCEPT ![c] = <<>>],
           UNCHANGED <<payload, wire, queue, ing, taken, rcvd, lateN>>
    PROVE  GuardMove /\ VerdictMove /\ IngestMove /\ FailMove /\ (also => fatal')
<1>1. ToSet(held[c]) \in SUBSET Packets
  BY Types, ToSetRange DEF CellType
<1>2. /\ Settles(ToSet(held[c]))
      /\ \A p \in Packets : verdict'[p] # verdict[p] => p \in ToSet(held[c]) /\ verdict'[p] \in {"drop", "lost"}
      /\ fatal' \in BOOLEAN /\ (fatal => fatal') /\ (also => fatal')
      /\ faults' \in 0..MaxFaults
  BY <1>1, Types, SettleEffect
<1>3. GuardMove
  BY <1>2 DEF GuardMove, Empties
<1>4. VerdictMove
  BY <1>2, Types DEF VerdictMove, VerdictType
<1> QED
  BY <1>2, <1>3, <1>4, Types, QuietClock DEF IngestMove, FailMove

LEMMA ExpireUnarmedMoves ==
    ASSUME CorrInv, NEW c \in Packets, ExpireUnarmed(c), Aside, UNCHANGED conn
    PROVE  CellMove
<1>1. Unarmed(c) /\ Inside(c)
  BY DEF ExpireUnarmed, Unarmed, Inside
<1>2. /\ pkey[c] \in Keys /\ ptok[c] \in Packets /\ ptok[ptok[c]] = ptok[c]
  BY <1>1, InsideFacts
<1>3. Sinks(c, "dead", <<>>)
  BY <1>1 DEF ExpireUnarmed, Sinks, Aside
<1>4. FlowMove
  <2>1. "dead" \in CellStates /\ <<>> \in Seq(Packets)
    BY DEF CellStates
  <2> QED
    BY <1>3, <2>1 DEF FlowMove
<1>5. GuardMove /\ VerdictMove /\ IngestMove /\ FailMove
  BY DropHeld DEF ExpireUnarmed, Aside
<1>6. PoolMove
  BY <1>2, Types, RetireExactEffect DEF ExpireUnarmed, CorrInv
<1>7. cellst'[c] # "none"
  BY Types DEF ExpireUnarmed, CellType
<1>8. CleanupMove
  BY <1>2, <1>7, RequestTypes, CleanupEffect, Types DEF ExpireUnarmed, Aside
<1> QED
  BY <1>4, <1>5, <1>6, <1>8 DEF CellMove

LEMMA FailArmedMoves ==
    ASSUME CorrInv, NEW c \in Packets, FailArmed(c), Aside, UNCHANGED conn
    PROVE  CellMove /\ fatal' /\ cellst[c] = "armed"
<1>1. cellst[c] = "armed" /\ Inside(c)
  BY DEF FailArmed, Inside
<1>2. pkey[c] \in Keys
  BY <1>1, InsideFacts
<1>3. GuardMove /\ VerdictMove /\ IngestMove /\ FailMove /\ fatal'
  BY DropHeld DEF FailArmed, Aside
<1>4. FlowMove
  BY <1>1, <1>3 DEF FlowMove, Fails, FailArmed, Aside
<1>5. PoolMove
  BY <1>2, Types, RetireExactEffect DEF FailArmed, CorrInv
<1>6. CleanupMove
  BY Types, QuietCleanups DEF FailArmed, Aside
<1> QED
  BY <1>1, <1>3, <1>4, <1>5, <1>6 DEF CellMove

LEMMA RetirePendingRemoves ==
    ASSUME CorrInv, NEW t \in Packets, ptok[t] = t, pkey[t] \in Keys, ~Fresh(t),
           conn' = RetirePending(pkey[t], t)
    PROVE  UNCHANGED conn \/ \E S \in SUBSET Keys : Removes(S)
<1>1. CASE conn[pkey[t]] = [tok |-> t, st |-> "pending"]
  <2>1. conn' = [conn EXCEPT ![pkey[t]] = Absent]
    BY <1>1 DEF RetirePending
  <2>2. conn' = [k \in Keys |-> IF k \in {pkey[t]} THEN Absent ELSE conn[k]]
    BY <2>1, Types DEF RecordType
  <2>3. Removable(pkey[t])
    BY <1>1 DEF Removable
  <2>4. Removes({pkey[t]})
    BY <2>2, <2>3 DEF Removes
  <2> QED
    BY <2>4
<1>2. CASE conn[pkey[t]] # [tok |-> t, st |-> "pending"]
  BY <1>2 DEF RetirePending
<1> QED
  BY <1>1, <1>2

LEMMA CancelPendingMoves ==
    ASSUME CorrInv, NEW c \in Packets, CancelPending(c), Aside
    PROVE  CellMove
<1>1. Unarmed(c) /\ Inside(c)
  BY DEF CancelPending, Unarmed, Inside
<1>2. /\ pkey[c] \in Keys /\ ptok[c] \in Packets /\ ptok[ptok[c]] = ptok[c]
      /\ pkey[ptok[c]] = pkey[c] /\ ~Fresh(ptok[c])
  BY <1>1, InsideFacts
<1>3. UNCHANGED conn \/ \E S \in SUBSET Keys : Removes(S)
  BY <1>2, RetirePendingRemoves DEF CancelPending
<1>4. Sinks(c, "dead", <<>>)
  BY <1>1, <1>3 DEF CancelPending, Sinks, Aside
<1>5. FlowMove
  <2>1. "dead" \in CellStates /\ <<>> \in Seq(Packets)
    BY DEF CellStates
  <2> QED
    BY <1>4, <2>1 DEF FlowMove
<1>6. GuardMove /\ VerdictMove /\ IngestMove /\ FailMove
  BY DropHeld DEF CancelPending, Aside
<1>7. PoolMove
  BY <1>2, Types, RetireExactEffect DEF CancelPending, CorrInv
<1>8. CleanupMove
  BY Types, QuietCleanups DEF CancelPending, Aside
<1> QED
  BY <1>5, <1>6, <1>7, <1>8 DEF CellMove

(* Nothing happens to the cell but, perhaps, a failure is counted.          *)
LEMMA IdleMoves ==
    ASSUME CorrInv, Aside, UNCHANGED <<conn, cellst, held, verdict, cleanups>>,
           PoolMove, fatal' \in BOOLEAN, fatal => fatal', faults' \in 0..MaxFaults
    PROVE  CellMove
<1>1. FlowMove /\ GuardMove /\ IngestMove
  BY DEF FlowMove, GuardMove, Keeps, IngestMove, Aside
<1>2. VerdictMove
  BY Types DEF VerdictMove, VerdictType, Aside
<1>3. CleanupMove
  BY Types, QuietCleanups DEF Aside
<1>4. FailMove
  BY Types, QuietClock DEF FailMove, Aside
<1> QED
  BY <1>1, <1>2, <1>3, <1>4 DEF CellMove

LEMMA StillPool ==
    ASSUME CorrInv, UNCHANGED <<ep, cancelled>>
    PROVE  PoolMove
BY Types DEF PoolMove, PoolType

LEMMA StillFails ==
    ASSUME CorrInv, UNCHANGED <<fatal, faults>>
    PROVE  fatal' \in BOOLEAN /\ (fatal => fatal') /\ faults' \in 0..MaxFaults
BY Types DEF FailType

LEMMA OneFault ==
    ASSUME CorrInv, faults < MaxFaults, faults' = faults + 1, fatal' = TRUE
    PROVE  fatal' \in BOOLEAN /\ (fatal => fatal') /\ faults' \in 0..MaxFaults
BY Types, BoundsAssumption DEF FailType

LEMMA CancelFailsMoves ==
    ASSUME CorrInv, NEW c \in Packets, CancelFails(c), Aside
    PROVE  CellMove
BY IdleMoves, StillPool, OneFault DEF CancelFails

LEMMA ExpireCommitMoves ==
    ASSUME CorrInv, NEW c \in Packets, Inside(c), ExpireCommit(c), Aside, UNCHANGED conn
    PROVE  CellMove
<1>1. CASE ExpireUnarmed(c)
  BY <1>1, ExpireUnarmedMoves
<1>2. CASE FailArmed(c)
  BY <1>2, FailArmedMoves
<1>3. CASE /\ ~IsPending(c)
           /\ IF lease[c] = "request" THEN RetireExact(c) ELSE UNCHANGED <<ep, cancelled>>
           /\ UNCHANGED <<cellst, held, cleanups, verdict, fatal, faults>>
  <2>1. PoolMove
    <3>1. pkey[c] \in Keys
      BY InsideFacts
    <3> QED
      BY <1>3, <3>1, Types, RetireExactEffect, StillPool DEF CorrInv
  <2> QED
    BY <1>3, <2>1, IdleMoves, StillFails
<1> QED
  BY <1>1, <1>2, <1>3 DEF ExpireCommit

LEMMA StillPump ==
    ASSUME UNCHANGED <<commits, pump, taken>>
    PROVE  PumpMove
BY DEF PumpMove

LEMMA StillTasks ==
    ASSUME CorrInv, UNCHANGED <<task, lease, stale, served>>
    PROVE  TaskMove
BY Types DEF TaskMove, TaskType, PoolType

LEMMA StillRest ==
    ASSUME CorrInv,
           UNCHANGED <<ep, served, cancelled, task, lease, stale, commits, pump, taken>>
    PROVE  PumpMove /\ TaskMove /\ PoolMove
BY StillPump, StillTasks, StillPool

LEMMA StillFlows ==
    ASSUME UNCHANGED <<conn, map, cellst, held, cgen>>
    PROVE  FlowMove
BY DEF FlowMove

LEMMA StillVerdicts ==
    ASSUME CorrInv, UNCHANGED <<verdict, payload>>
    PROVE  VerdictMove
BY Types DEF VerdictMove, VerdictType

LEMMA StillFail ==
    ASSUME CorrInv, UNCHANGED <<fatal, faults, rcvd, lateN>>
    PROVE  FailMove
BY StillFails, QuietClock, Types DEF FailMove

LEMMA StillCleanups ==
    ASSUME CorrInv, UNCHANGED <<cleanups, drain>>
    PROVE  CleanupMove
BY Types, QuietCleanups DEF CleanupType

-----------------------------------------------------------------------------
(* The kernel, time and the listener *)

LEMMA ConnExpireMoves ==
    ASSUME CorrInv, NEW k \in Keys, ConnExpire(k)
    PROVE  Move
<1>1. Removes({k})
  BY Types DEF ConnExpire, Removes, Removable, Undecided, RecordType
<1>2. FlowMove
  BY <1>1 DEF FlowMove, ConnExpire, cellVars
<1>3. GuardMove /\ IngestMove
  BY DEF ConnExpire, GuardMove, Keeps, IngestMove, queueVars, cellVars, pumpVars
<1> QED
  BY <1>2, <1>3, StillVerdicts, StillRest, StillCleanups, StillFail
     DEF Move, ConnExpire, packetVars, cellVars, cleanupVars, endpointVars, taskVars,
         pumpVars, failVars

LEMMA TickMoves ==
    ASSUME CorrInv, Tick
    PROVE  Move
<1>1. FlowMove
  BY StillFlows DEF Tick, kernelVars, cellVars
<1>2. GuardMove /\ IngestMove
  BY DEF Tick, GuardMove, Keeps, IngestMove, queueVars, cellVars, pumpVars
<1>3. FailMove
  BY StillFails, Types DEF Tick, FailMove, ClockType, failVars
<1> QED
  BY <1>1, <1>2, <1>3, StillVerdicts, StillRest, StillCleanups
     DEF Move, Tick, cleanupVars, endpointVars, taskVars, pumpVars

LEMMA ReceiveFacts ==
    ASSUME CorrInv, Receive
    PROVE  /\ wire # <<>> /\ Head(wire) \in Packets /\ Known(Head(wire))
           /\ rcvd' \in Seq(Packets) /\ (lateN' = lateN => lateN' \in 0..Len(rcvd'))
<1>1. wire # <<>> /\ Head(wire) \in Packets /\ Head(wire) \in ToSet(wire)
  BY Types, ToSetTail DEF Receive, TransitType
<1>2. Known(Head(wire))
  BY <1>1 DEF CorrInv, TransitShape, Transit
<1>3. rcvd' \in Seq(Packets) /\ (lateN' = lateN => lateN' \in 0..Len(rcvd'))
  BY <1>1, Types DEF Receive, ClockType
<1> QED
  BY <1>1, <1>2, <1>3

LEMMA ListenerDeliverMoves ==
    ASSUME CorrInv, ListenerDeliver
    PROVE  Move
<1>1. FlowMove
  BY StillFlows DEF ListenerDeliver, kernelVars, cellVars
<1>2. GuardMove
  <2>1. Delivers
    BY DEF ListenerDeliver, Receive, Delivers, cellVars, pumpVars
  <2> QED
    BY <2>1 DEF GuardMove
<1>3. IngestMove
  BY DEF ListenerDeliver, IngestMove
<1>4. FailMove
  BY ReceiveFacts, StillFails DEF ListenerDeliver, FailMove, failVars
<1> QED
  BY <1>1, <1>2, <1>3, <1>4, StillVerdicts, StillRest, StillCleanups
     DEF Move, ListenerDeliver, cleanupVars, endpointVars, taskVars, pumpVars

(* reject_held_packet *)
LEMMA RejectHeldMoves ==
    ASSUME CorrInv, NEW p \in Packets, Known(p), RejectHeld(p),
           UNCHANGED <<conn, map, held, cgen, payload, drain>>
    PROVE  /\ FlowMove /\ Settles({p}) /\ VerdictMove /\ CleanupMove
           /\ fatal' \in BOOLEAN /\ (fatal => fatal') /\ faults' \in 0..MaxFaults
<1> DEFINE k == pkey[p]
           t == ptok[p]
<1>1. k \in Keys /\ t \in Packets /\ ptok[t] = t
  BY KnownFacts
<1>2. PICK contended \in BOOLEAN :
        /\ cellst' = KeyCancelling(k, t, contended)
        /\ cleanups' = Scheduled(KeyCleanup(k, t, contended))
        /\ Settle({p}, "drop", Overflows(KeyCleanup(k, t, contended)))
  BY DEF RejectHeld
<1>3. /\ Settles({p})
      /\ \A q \in Packets : verdict'[q] # verdict[q] => q \in {p} /\ verdict'[q] \in {"drop", "lost"}
      /\ fatal' \in BOOLEAN /\ (fatal => fatal') /\ faults' \in 0..MaxFaults
  BY <1>2, Types, SettleEffect
<1>4. map[k] \in Maybe
  BY <1>1, Types DEF CellType
<1>5. FlowMove
  <2>1. CASE cellst' = cellst
    BY <2>1, StillFlows
  <2>2. CASE cellst' # cellst
    <3>1. map[k] \in Packets /\ Unarmed(map[k]) /\ cellst' = [cellst EXCEPT ![map[k]] = "cancelling"]
      BY <1>2, <1>4, <2>2 DEF KeyCancelling, Maybe
    <3>2. held' = [held EXCEPT ![map[k]] = held[map[k]]]
      BY Types DEF CellType
    <3>3. Sinks(map[k], "cancelling", held[map[k]])
      BY <3>1, <3>2 DEF Sinks
    <3>4. "cancelling" \in CellStates /\ held[map[k]] \in Seq(Packets)
      BY <3>1, Types DEF CellStates, CellType
    <3> QED
      BY <3>1, <3>3, <3>4 DEF FlowMove
  <2> QED
    BY <2>1, <2>2
<1>6. VerdictMove
  BY <1>3, Types DEF VerdictMove, VerdictType
<1>7. CleanupMove
  <2>1. \A r \in KeyCleanup(k, t, contended) : r \in Requests /\ r.tok = t
    <3>1. CASE contended \/ map[k] = None \/ ptok[map[k]] # t
      BY <3>1, <1>1, RequestTypes DEF KeyCleanup
    <3>2. CASE ~(contended \/ map[k] = None \/ ptok[map[k]] # t)
      <4>1. map[k] \in Packets /\ ptok[map[k]] = t
        BY <3>2, <1>4 DEF Maybe
      <4>2. KeyCleanup(k, t, contended) \subseteq {FlowReq(map[k])}
        BY <3>2 DEF KeyCleanup
      <4> QED
        BY <4>1, <4>2, <1>1, RequestTypes, Types
    <3> QED
      BY <3>1, <3>2
  <2>2. cleanups' \subseteq cleanups \cup KeyCleanup(k, t, contended)
    BY <1>2, ScheduledEffect
  <2>3. verdict'[p] # "none"
    BY <1>3 DEF Settles
  <2>4. \A r \in cleanups' : r \in cleanups \/
            /\ r \in Requests /\ ptok[r.tok] = r.tok
            /\ \E q \in Packets : ptok[q] = r.tok /\ (verdict'[q] # "none" \/ cellst'[q] # "none")
    BY <2>1, <2>2, <2>3, <1>1
  <2>5. PICK x : KeyCleanup(k, t, contended) \subseteq {x}
    BY DEF KeyCleanup
  <2>6. CleanupRoom
    <3>1. CASE KeyCleanup(k, t, contended) = {}
      BY <3>1, <1>2 DEF Scheduled, CleanupRoom
    <3>2. CASE KeyCleanup(k, t, contended) # {}
      BY <3>2, <2>1, <2>5, <1>2, ScheduledRoom
    <3> QED
      BY <3>1, <3>2
  <2> QED
    BY <2>4, <2>6, Types DEF CleanupMove, CleanupType
<1> QED
  BY <1>3, <1>5, <1>6, <1>7

LEMMA ListenerRejectMoves ==
    ASSUME CorrInv, ListenerReject
    PROVE  Move
<1>1. /\ wire # <<>> /\ Head(wire) \in Packets /\ Known(Head(wire))
      /\ rcvd' \in Seq(Packets) /\ lateN' \in 0..Len(rcvd')
  BY ReceiveFacts DEF ListenerReject
<1>2. /\ FlowMove /\ Settles({Head(wire)}) /\ VerdictMove /\ CleanupMove
      /\ fatal' \in BOOLEAN /\ (fatal => fatal') /\ faults' \in 0..MaxFaults
  BY <1>1, RejectHeldMoves DEF ListenerReject, kernelVars
<1>3. GuardMove
  <2>1. Rejects
    BY <1>1, <1>2 DEF ListenerReject, Receive, Rejects, pumpVars
  <2> QED
    BY <2>1 DEF GuardMove
<1>4. IngestMove /\ FailMove
  BY <1>1, <1>2 DEF ListenerReject, IngestMove, FailMove
<1> QED
  BY <1>2, <1>3, <1>4, StillRest
     DEF Move, ListenerReject, endpointVars, taskVars, pumpVars

-----------------------------------------------------------------------------
(* The ingest actor *)

LEMMA QueueFacts ==
    ASSUME CorrInv, queue # <<>>
    PROVE  Head(queue) \in Packets /\ Known(Head(queue))
<1>1. Head(queue) \in Packets /\ Head(queue) \in ToSet(queue)
  BY Types, ToSetTail DEF TransitType
<1> QED
  BY <1>1 DEF CorrInv, TransitShape, Transit

LEMMA IngestFacts ==
    ASSUME CorrInv, ing.pc # "idle"
    PROVE  ing.p \in Packets /\ Known(ing.p) /\ ~Inside(ing.p) /\ Undecided(ing.p)
<1>1. ing.p \in Packets
  BY Types DEF CorrInv, IngestShape, TransitType, Maybe
<1> QED
  BY <1>1 DEF CorrInv, TransitShape, Transit

LEMMA IngestRefusedMoves ==
    ASSUME CorrInv, IngestRefused
    PROVE  Move
<1>1. Head(queue) \in Packets /\ Known(Head(queue)) /\ queue # <<>>
  BY QueueFacts DEF IngestRefused
<1>2. /\ FlowMove /\ Settles({Head(queue)}) /\ VerdictMove /\ CleanupMove
      /\ fatal' \in BOOLEAN /\ (fatal => fatal') /\ faults' \in 0..MaxFaults
  BY <1>1, RejectHeldMoves DEF IngestRefused, kernelVars
<1>3. GuardMove
  <2>1. Refuses
    BY <1>1, <1>2 DEF IngestRefused, Refuses, pumpVars
  <2> QED
    BY <2>1 DEF GuardMove
<1>4. IngestMove /\ FailMove
  BY <1>2, QuietClock, Types DEF IngestRefused, IngestMove, FailMove, packetVars
<1> QED
  BY <1>2, <1>3, <1>4, StillRest
     DEF Move, IngestRefused, packetVars, endpointVars, taskVars, pumpVars

LEMMA IngestFoundMoves ==
    ASSUME CorrInv, IngestFound
    PROVE  Move
<1> DEFINE p == Head(queue)
           c == map[pkey[p]]
<1>1. p \in Packets /\ Known(p) /\ queue # <<>> /\ pkey[p] \in Keys
  BY QueueFacts, KnownFacts DEF IngestFound
<1>2. c # None /\ ing' = [pc |-> "existing", p |-> p, c |-> c] /\ ing.pc = "idle" /\ open
  BY DEF IngestFound
<1>3. c \in Packets /\ Inside(c) /\ pkey[c] = pkey[p]
  BY <1>1, <1>2, Types DEF CorrInv, MapShape, CellType, Maybe
<1>4. IngestMove
  BY <1>1, <1>2, <1>3 DEF IngestMove
<1>5. ing.p = None
  BY <1>2 DEF CorrInv, IngestShape
<1>6. GuardMove
  <2>1. Starts
    BY <1>1, <1>2, <1>5 DEF IngestFound, Starts, cellVars, pumpVars
  <2> QED
    BY <2>1 DEF GuardMove
<1> QED
  BY <1>4, <1>6, StillFlows, StillVerdicts, StillRest, StillCleanups, StillFail
     DEF Move, IngestFound, kernelVars, packetVars, cellVars, cleanupVars, endpointVars,
         taskVars, pumpVars, failVars

LEMMA IngestAwaitMoves ==
    ASSUME CorrInv, IngestAwait
    PROVE  Move
<1>1. ing.p = None
  BY DEF IngestAwait, CorrInv, IngestShape
<1>2. IngestMove
  BY DEF IngestAwait, IngestMove
<1>3. GuardMove
  <2>1. Starts
    BY <1>1 DEF IngestAwait, Starts, cellVars, pumpVars
  <2> QED
    BY <2>1 DEF GuardMove
<1> QED
  BY <1>2, <1>3, StillFlows, StillVerdicts, StillRest, StillCleanups, StillFail
     DEF Move, IngestAwait, kernelVars, packetVars, cellVars, cleanupVars, endpointVars,
         taskVars, pumpVars, failVars

\* The packet in hand gets its verdict.
LEMMA FinishSettles ==
    ASSUME CorrInv, ing.p \in Packets, NEW also, NEW o \in {"drop", "accept", "copied"},
           Settle({ing.p}, o, also), ing' = Idle,
           UNCHANGED <<wire, queue, held, taken, rcvd, lateN>>
    PROVE  /\ GuardMove /\ IngestMove /\ FailMove /\ (also => fatal')
           /\ \A p \in Packets : verdict'[p] # verdict[p] =>
                 p = ing.p /\ verdict'[p] \in {o, "lost"}
           /\ verdict'[ing.p] # "none"
<1>1. /\ Settles({ing.p})
      /\ \A p \in Packets : verdict'[p] # verdict[p] => p \in {ing.p} /\ verdict'[p] \in {o, "lost"}
      /\ fatal' \in BOOLEAN /\ (fatal => fatal') /\ (also => fatal') /\ faults' \in 0..MaxFaults
  BY Types, SettleEffect
<1>2. Finishes
  BY <1>1 DEF Finishes, Idle
<1> QED
  BY <1>1, <1>2, Types, QuietClock DEF GuardMove, IngestMove, FailMove, Settles

LEMMA FinishDrops ==
    ASSUME CorrInv, ing.p \in Packets, NEW also, Settle({ing.p}, "drop", also), ing' = Idle,
           UNCHANGED <<wire, queue, held, taken, payload, rcvd, lateN>>
    PROVE  /\ GuardMove /\ VerdictMove /\ IngestMove /\ FailMove /\ (also => fatal')
           /\ verdict'[ing.p] # "none"
<1>1. /\ GuardMove /\ IngestMove /\ FailMove /\ (also => fatal')
      /\ \A p \in Packets : verdict'[p] # verdict[p] =>
            p = ing.p /\ verdict'[p] \in {"drop", "lost"}
      /\ verdict'[ing.p] # "none"
  BY FinishSettles
<1>2. VerdictMove
  BY <1>1, Types DEF VerdictMove, VerdictType
<1> QED
  BY <1>1, <1>2

LEMMA IngestTimeoutMoves ==
    ASSUME CorrInv, IngestTimeout
    PROVE  Move
<1>1. ing.p \in Packets /\ Known(ing.p)
  BY IngestFacts DEF IngestTimeout
<1>2. /\ FlowMove /\ Settles({ing.p}) /\ VerdictMove /\ CleanupMove
      /\ fatal' \in BOOLEAN /\ (fatal => fatal') /\ faults' \in 0..MaxFaults
  BY <1>1, RejectHeldMoves DEF IngestTimeout, kernelVars
<1>3. GuardMove
  <2>1. Finishes
    BY <1>1, <1>2 DEF IngestTimeout, Finishes, Idle, queueVars, pumpVars
  <2> QED
    BY <2>1 DEF GuardMove
<1>4. IngestMove /\ FailMove
  BY <1>2, QuietClock, Types DEF IngestTimeout, IngestMove, FailMove, packetVars
<1> QED
  BY <1>2, <1>3, <1>4, StillRest
     DEF Move, IngestTimeout, packetVars, endpointVars, taskVars, pumpVars

\* The packet is dropped and its token handed to a cleanup.
LEMMA FinishCleans ==
    ASSUME CorrInv, ing.pc # "idle", ing' = Idle,
           cleanups' = Scheduled({TokenReq(ptok[ing.p])}),
           Settle({ing.p}, "drop", Overflows({TokenReq(ptok[ing.p])})),
           UNCHANGED <<wire, queue, held, taken, payload, rcvd, lateN, drain>>
    PROVE  GuardMove /\ VerdictMove /\ IngestMove /\ FailMove /\ CleanupMove
<1>1. ing.p \in Packets /\ Known(ing.p)
  BY IngestFacts
<1>2. ptok[ing.p] \in Packets /\ ptok[ptok[ing.p]] = ptok[ing.p]
  BY <1>1, KnownFacts
<1>3. /\ GuardMove /\ VerdictMove /\ IngestMove /\ FailMove
      /\ verdict'[ing.p] # "none"
  BY <1>1, FinishDrops
<1>4. CleanupMove
  BY <1>1, <1>2, <1>3, RequestTypes, CleanupEffect, Types DEF CleanupType
<1> QED
  BY <1>3, <1>4

LEMMA IngestContendedMoves ==
    ASSUME CorrInv, IngestContended
    PROVE  Move
<1>1. ing.pc # "idle"
  BY DEF IngestContended
<1>2. GuardMove /\ VerdictMove /\ IngestMove /\ FailMove /\ CleanupMove
  BY <1>1, FinishCleans DEF IngestContended, queueVars, packetVars, cellVars, pumpVars
<1> QED
  BY <1>2, StillFlows, StillRest
     DEF Move, IngestContended, kernelVars, packetVars, cellVars, endpointVars, taskVars, pumpVars

LEMMA IngestRecheckMoves ==
    ASSUME CorrInv, IngestRecheck
    PROVE  Move
<1> DEFINE p == ing.p
           c == map[pkey[p]]
<1>1. p \in Packets /\ Known(p) /\ pkey[p] \in Keys
  BY IngestFacts, KnownFacts DEF IngestRecheck
<1>2. c # None /\ ing' = [ing EXCEPT !.pc = "existingR", !.c = c]
  BY DEF IngestRecheck
<1>3. c \in Packets /\ Inside(c) /\ pkey[c] = pkey[p]
  BY <1>1, <1>2, Types DEF CorrInv, MapShape, CellType, Maybe
<1>4. ing' = [pc |-> "existingR", p |-> p, c |-> c]
  BY <1>2, Types DEF TransitType
<1>5. IngestMove
  BY <1>1, <1>3, <1>4 DEF IngestMove
<1>6. GuardMove
  BY <1>4 DEF IngestRecheck, GuardMove, Keeps, queueVars, cellVars, pumpVars
<1> QED
  BY <1>5, <1>6, StillFlows, StillVerdicts, StillRest, StillCleanups, StillFail
     DEF Move, IngestRecheck, kernelVars, packetVars, cellVars, cleanupVars, endpointVars,
         taskVars, pumpVars, failVars

(* ingest_existing *)

LEMMA AtCellFacts ==
    ASSUME CorrInv, NEW c \in Packets, AtCell(c)
    PROVE  /\ ing.pc # "idle" /\ ing.p \in Packets /\ Known(ing.p) /\ Undecided(ing.p)
           /\ Inside(c) /\ pkey[c] = pkey[ing.p] /\ pkey[c] \in Keys
           /\ ptok[c] \in Packets /\ ptok[ptok[c]] = ptok[c]
           /\ ing' = Idle
<1>1. ing.pc \in {"existing", "existingR"} /\ ing.c = c /\ ing' = Idle
  BY DEF AtCell
<1>2. ing.p \in Packets /\ Known(ing.p) /\ Undecided(ing.p)
  BY <1>1, IngestFacts
<1>3. Inside(c) /\ pkey[c] = pkey[ing.p]
  BY <1>1 DEF CorrInv, IngestShape
<1> QED
  BY <1>1, <1>2, <1>3, InsideFacts

LEMMA ExistingOtherTokenMoves ==
    ASSUME CorrInv, NEW c \in Packets, ExistingOtherToken(c)
    PROVE  Move
<1>1. ing.pc # "idle" /\ ing' = Idle
  BY AtCellFacts DEF ExistingOtherToken
<1>2. GuardMove /\ VerdictMove /\ IngestMove /\ FailMove /\ CleanupMove
  BY <1>1, FinishCleans DEF ExistingOtherToken, queueVars, packetVars, cellVars, pumpVars
<1> QED
  BY <1>2, StillFlows, StillRest
     DEF Move, ExistingOtherToken, kernelVars, packetVars, cellVars, endpointVars, taskVars, pumpVars

LEMMA ExistingDropMoves ==
    ASSUME CorrInv, NEW c \in Packets, ExistingDrop(c)
    PROVE  Move
<1>1. ing.p \in Packets /\ ing' = Idle
  BY AtCellFacts DEF ExistingDrop
<1>2. GuardMove /\ VerdictMove /\ IngestMove /\ FailMove
  BY <1>1, FinishDrops DEF ExistingDrop, queueVars, packetVars, cellVars, pumpVars
<1> QED
  BY <1>2, StillFlows, StillRest, StillCleanups
     DEF Move, ExistingDrop, kernelVars, packetVars, cellVars, cleanupVars, endpointVars,
         taskVars, pumpVars

LEMMA ExistingArmedMoves ==
    ASSUME CorrInv, NEW c \in Packets, ExistingArmed(c)
    PROVE  Move
<1>1. ing.p \in Packets /\ ing' = Idle
  BY AtCellFacts DEF ExistingArmed
<1>2. held' = [held EXCEPT ![c] = Append(held[c], ing.p)]
  BY DEF ExistingArmed
<1>3. Holds(c) /\ Stores(c)
  BY <1>1, <1>2 DEF ExistingArmed, SameToken, Holds, Stores, Idle, kernelVars, queueVars, pumpVars
<1>4. FlowMove /\ GuardMove /\ IngestMove
  BY <1>1, <1>3 DEF FlowMove, GuardMove, IngestMove
<1> QED
  BY <1>4, StillVerdicts, StillRest, StillCleanups, StillFail
     DEF Move, ExistingArmed, packetVars, cleanupVars, endpointVars, taskVars, pumpVars, failVars

LEMMA ExistingEnqueueMoves ==
    ASSUME CorrInv, NEW c \in Packets, ExistingEnqueue(c)
    PROVE  Move
<1>1. ing.p \in Packets /\ ing' = Idle /\ Known(ing.p)
  BY AtCellFacts DEF ExistingEnqueue
<1>2. held' = [held EXCEPT ![c] = Append(held[c], ing.p)]
  BY DEF ExistingEnqueue
<1>3. cgen[c] = c /\ payload' = [payload EXCEPT ![ing.p] = c] /\ ptok[c] = ptok[ing.p]
  BY DEF ExistingEnqueue, SameToken, CorrInv, CellShape, IsPending, Unarmed
<1>4. payload'[ing.p] # None
  BY <1>1, <1>3, Types, NoneAssumption DEF VerdictType
<1>5. Holds(c) /\ Stores(c)
  BY <1>1, <1>2, <1>4 DEF ExistingEnqueue, SameToken, Holds, Stores, Idle, kernelVars, queueVars, pumpVars
<1>6. FlowMove /\ GuardMove /\ IngestMove
  BY <1>1, <1>5 DEF FlowMove, GuardMove, IngestMove
<1>7. VerdictMove
  <2>1. UNCHANGED verdict /\ payload' \in [Packets -> Maybe]
    BY <1>3, Types DEF ExistingEnqueue, VerdictType, Maybe
  <2>2. \A p \in Packets : payload'[p] # payload[p] => p = ing.p /\ payload'[p] = c
    BY <1>1, <1>3, Types DEF VerdictType
  <2> QED
    BY <1>1, <1>3, <2>1, <2>2, NoneAssumption DEF VerdictMove
<1> QED
  BY <1>6, <1>7, StillRest, StillCleanups, StillFail
     DEF Move, ExistingEnqueue, packetVars, cleanupVars, endpointVars, taskVars, pumpVars, failVars

LEMMA ExistingOverdueMoves ==
    ASSUME CorrInv, NEW c \in Packets, ExistingOverdue(c)
    PROVE  Move
<1>1. /\ ing.p \in Packets /\ ing' = Idle /\ Inside(c)
      /\ ptok[c] \in Packets /\ ptok[ptok[c]] = ptok[c]
  BY AtCellFacts DEF ExistingOverdue
<1>2. ToSet(held[c]) \cup {ing.p} \in SUBSET Packets
  BY <1>1, Types, ToSetRange DEF CellType
<1>3. /\ Settles(ToSet(held[c]) \cup {ing.p})
      /\ \A p \in Packets : verdict'[p] # verdict[p] => verdict'[p] \in {"drop", "lost"}
      /\ fatal' \in BOOLEAN /\ (fatal => fatal') /\ faults' \in 0..MaxFaults
  BY <1>2, Types, SettleEffect DEF ExistingOverdue
<1>4. Empties(c)
  BY <1>1, <1>3 DEF ExistingOverdue, Empties, Idle, queueVars, pumpVars
<1>5. Sinks(c, "cancelling", <<>>)
  BY DEF ExistingOverdue, Sinks, Unarmed, kernelVars
<1>6. FlowMove
  <2>1. "cancelling" \in CellStates /\ <<>> \in Seq(Packets)
    BY DEF CellStates
  <2> QED
    BY <1>5, <2>1 DEF FlowMove
<1>7. VerdictMove
  BY <1>3, Types DEF VerdictMove, VerdictType, ExistingOverdue
<1>8. CleanupMove
  <2>1. FlowReq(c) \in Requests /\ FlowReq(c).tok = ptok[c]
    BY <1>1, RequestTypes, Types
  <2>2. cellst'[c] # "none"
    BY Types DEF ExistingOverdue, CellType
  <2> QED
    BY <1>1, <2>1, <2>2, CleanupEffect, Types DEF ExistingOverdue, CleanupType
<1>9. GuardMove /\ IngestMove /\ FailMove
  BY <1>1, <1>3, <1>4, Types, QuietClock DEF GuardMove, IngestMove, FailMove, ExistingOverdue, packetVars
<1> QED
  BY <1>6, <1>7, <1>8, <1>9, StillRest
     DEF Move, ExistingOverdue, packetVars, endpointVars, taskVars, pumpVars

LEMMA ExistingOrphanMoves ==
    ASSUME CorrInv, NEW c \in Packets, ExistingOrphan(c)
    PROVE  Move
<1>1. /\ ing.p \in Packets /\ ing' = Idle /\ Inside(c)
      /\ ptok[c] \in Packets /\ ptok[ptok[c]] = ptok[c]
  BY AtCellFacts DEF ExistingOrphan
<1>2. GuardMove /\ VerdictMove /\ IngestMove /\ FailMove
  BY <1>1, FinishDrops DEF ExistingOrphan, queueVars, packetVars, pumpVars
<1>3. Sinks(c, "cancelling", held[c])
  <2>1. held' = [held EXCEPT ![c] = held[c]]
    BY Types DEF ExistingOrphan, CellType
  <2> QED
    BY <2>1 DEF ExistingOrphan, Sinks, Unarmed, kernelVars
<1>4. FlowMove
  <2>1. "cancelling" \in CellStates /\ held[c] \in Seq(Packets)
    BY Types DEF CellStates, CellType
  <2> QED
    BY <1>3, <2>1 DEF FlowMove
<1>5. CleanupMove
  <2>1. FlowReq(c) \in Requests /\ FlowReq(c).tok = ptok[c]
    BY <1>1, RequestTypes, Types
  <2>2. cellst'[c] # "none"
    BY Types DEF ExistingOrphan, CellType
  <2> QED
    BY <1>1, <2>1, <2>2, CleanupEffect, Types DEF ExistingOrphan, CleanupType
<1> QED
  BY <1>2, <1>4, <1>5, StillRest
     DEF Move, ExistingOrphan, packetVars, endpointVars, taskVars, pumpVars

LEMMA ExistingDirectMoves ==
    ASSUME CorrInv, NEW c \in Packets, ExistingDirect(c)
    PROVE  Move
<1>1. ing.p \in Packets /\ ing' = Idle /\ Undecided(ing.p)
  BY AtCellFacts DEF ExistingDirect
<1>2. /\ GuardMove /\ IngestMove /\ FailMove
      /\ \A p \in Packets : verdict'[p] # verdict[p] => p = ing.p /\ verdict'[p] \in {"accept", "lost"}
  BY <1>1, FinishSettles DEF ExistingDirect, queueVars, packetVars, cellVars, pumpVars
<1>3. Releases(ing.p)
  BY <1>1 DEF ExistingDirect, SameToken, Releases
<1>4. VerdictMove
  BY <1>2, <1>3, Types DEF VerdictMove, VerdictType, ExistingDirect
<1> QED
  BY <1>2, <1>4, StillFlows, StillRest, StillCleanups
     DEF Move, ExistingDirect, kernelVars, packetVars, cellVars, cleanupVars, endpointVars,
         taskVars, pumpVars

LEMMA ExistingProxyMoves ==
    ASSUME CorrInv, NEW c \in Packets, ExistingProxy(c)
    PROVE  Move
<1>1. ing.p \in Packets /\ ing' = Idle /\ pkey[c] \in Keys /\ Known(ing.p)
  BY AtCellFacts DEF ExistingProxy
<1>2. /\ GuardMove /\ IngestMove /\ FailMove
      /\ \A p \in Packets : verdict'[p] # verdict[p] => p = ing.p /\ verdict'[p] \in {"copied", "lost"}
  BY <1>1, FinishSettles DEF ExistingProxy, queueVars, packetVars, cellVars, pumpVars
<1>3. cgen[c] # None /\ cgen[c] \in Packets /\ ptok[cgen[c]] = ptok[c] /\ ptok[c] = ptok[ing.p]
  <2>1. ep[pkey[c]].gen = cgen[c] /\ ep[pkey[c]].st # "absent"
    BY DEF ExistingProxy, EntryTakes, EntryIs
  <2>2. cgen[c] # None
    BY <1>1, <2>1 DEF CorrInv, EntryShape
  <2> QED
    BY <2>2, Types DEF CorrInv, CellShape, CellType, Maybe, ExistingProxy, SameToken
<1>4. payload' = [payload EXCEPT ![ing.p] = cgen[c]] /\ cellst' = cellst /\ cellst[c] = "proxy"
  BY DEF ExistingProxy, cellVars
<1>5. payload' \in [Packets -> Maybe] /\ payload'[ing.p] = cgen[c]
      /\ \A p \in Packets : payload'[p] # payload[p] => p = ing.p
  BY <1>1, <1>3, <1>4, Types DEF VerdictType, Maybe
<1>6. VerdictMove
  BY <1>1, <1>2, <1>3, <1>4, <1>5 DEF VerdictMove
<1> QED
  BY <1>2, <1>6, StillFlows, StillRest, StillCleanups
     DEF Move, ExistingProxy, kernelVars, packetVars, cellVars, cleanupVars, endpointVars,
         taskVars, pumpVars

LEMMA IngestExistingMoves ==
    ASSUME CorrInv, NEW c \in Packets, IngestExisting(c)
    PROVE  Move
BY ExistingOtherTokenMoves, ExistingDropMoves, ExistingArmedMoves, ExistingOverdueMoves,
   ExistingEnqueueMoves, ExistingOrphanMoves, ExistingDirectMoves, ExistingProxyMoves
   DEF IngestExisting

(* ingest_vacant *)

LEMMA AtVacantFacts ==
    ASSUME CorrInv, NEW p \in Packets, AtVacant(p)
    PROVE  /\ ing.pc = "wait" /\ ing.p = p /\ ing' = Idle
           /\ Known(p) /\ pkey[p] \in Keys /\ ptok[p] \in Packets /\ ptok[ptok[p]] = ptok[p]
           /\ Undecided(p) /\ cellst[p] = "none" /\ cgen[p] = None
           /\ held[p] = <<>> /\ taken[p] = <<>> /\ task[p] = "none"
           /\ map[pkey[p]] # None => Terminal(map[pkey[p]])
<1>1. /\ ing.pc = "wait" /\ ing.p = p /\ ing' = Idle
      /\ map[pkey[p]] # None => Terminal(map[pkey[p]])
  BY DEF AtVacant
<1>2. Known(p) /\ ~Inside(p) /\ Undecided(p)
  BY <1>1, IngestFacts
<1>3. /\ pkey[p] \in Keys /\ ptok[p] \in Packets /\ ptok[ptok[p]] = ptok[p]
  BY <1>2, KnownFacts
<1>4. cellst[p] = "none" /\ cgen[p] = None /\ held[p] = <<>> /\ taken[p] = <<>>
  BY <1>2 DEF CorrInv, CellShape, Inside, IsPending, Unarmed
<1>5. task[p] = "none"
  BY <1>4, NoneAssumption DEF CorrInv, TaskShape
<1> QED
  BY <1>1, <1>2, <1>3, <1>4, <1>5

LEMMA VacateMoves ==
    ASSUME CorrInv, NEW p \in Packets, AtVacant(p), Vacate(p), UNCHANGED <<conn, held>>
    PROVE  FlowMove
<1>1. pkey[p] \in Keys /\ Evicts(pkey[p])
  BY AtVacantFacts DEF Vacate, Evicts
<1> QED
  BY <1>1 DEF FlowMove

LEMMA VacantRefusedMoves ==
    ASSUME CorrInv, NEW p \in Packets, VacantRefused(p)
    PROVE  Move
<1>1. AtVacant(p) /\ ing.pc = "wait" /\ ing.p = p /\ ing' = Idle /\ ptok[p] \in Packets /\ ptok[ptok[p]] = ptok[p]
  BY AtVacantFacts DEF VacantRefused
<1>2. FlowMove
  BY <1>1, VacateMoves DEF VacantRefused, kernelVars
<1>3. GuardMove /\ VerdictMove /\ IngestMove /\ FailMove /\ CleanupMove
  <2>1. CASE Settle({p}, "drop", Overflows({TokenReq(ptok[p])}))
    BY <2>1, <1>1, FinishCleans DEF VacantRefused, queueVars, packetVars, pumpVars
  <2>2. CASE /\ faults < MaxFaults /\ faults' = faults + 1 /\ fatal' = TRUE
             /\ verdict' = [verdict EXCEPT ![p] = "drop"]
    <3>1. Settles({p})
      BY <2>2, Types DEF Settles, VerdictType, Verdicts
    <3>2. Finishes
      BY <1>1, <3>1 DEF Finishes, Idle, VacantRefused, queueVars, pumpVars
    <3>3. VerdictMove
      BY <2>2, Types DEF VacantRefused, VerdictMove, VerdictType
    <3>4. FailMove
      BY <2>2, OneFault, QuietClock, Types DEF FailMove, VacantRefused, packetVars
    <3>5. verdict'[p] # "none"
      BY <3>1 DEF Settles
    <3>6. CleanupMove
      BY <1>1, <3>5, RequestTypes, CleanupEffect, Types DEF VacantRefused, CleanupType
    <3> QED
      BY <1>1, <3>2, <3>3, <3>4, <3>6 DEF GuardMove, IngestMove
  <2> QED
    BY <2>1, <2>2 DEF VacantRefused
<1> QED
  BY <1>2, <1>3, StillRest
     DEF Move, VacantRefused, packetVars, endpointVars, taskVars, pumpVars

LEMMA VacantDropMoves ==
    ASSUME CorrInv, NEW p \in Packets, VacantDrop(p)
    PROVE  Move
<1>1. AtVacant(p) /\ ing.p = p /\ ing' = Idle
  BY AtVacantFacts DEF VacantDrop
<1>2. FlowMove
  BY <1>1, VacateMoves DEF VacantDrop, kernelVars
<1>3. GuardMove /\ VerdictMove /\ IngestMove /\ FailMove
  BY <1>1, FinishDrops DEF VacantDrop, queueVars, packetVars, pumpVars
<1> QED
  BY <1>2, <1>3, StillRest, StillCleanups
     DEF Move, VacantDrop, packetVars, cleanupVars, endpointVars, taskVars, pumpVars

LEMMA VacantArmedMoves ==
    ASSUME CorrInv, NEW p \in Packets, VacantArmed(p)
    PROVE  Move
<1>1. AtVacant(p) /\ ing.p = p /\ ing' = Idle
  BY AtVacantFacts DEF VacantArmed, AtRecord
<1>2. FlowMove
  BY <1>1, VacateMoves DEF VacantArmed, kernelVars
<1>3. GuardMove /\ VerdictMove /\ IngestMove /\ FailMove
  BY <1>1, FinishDrops DEF VacantArmed, queueVars, packetVars, pumpVars
<1> QED
  BY <1>2, <1>3, StillRest, StillCleanups
     DEF Move, VacantArmed, packetVars, cleanupVars, endpointVars, taskVars, pumpVars

\* A cell without guards enters the map.
LEMMA InsertMoves ==
    ASSUME CorrInv, NEW p \in Packets, AtVacant(p), SlotFree(pkey[p]),
           NEW st \in CellStates, NEW g \in Maybe, Insert(p, st, g), UNCHANGED <<conn, held>>,
           \/ st = "dead" /\ g = None
           \/ st \in {"direct", "block"} /\ g = None /\ RecordIs(p, st)
           \/ st = "proxy" /\ g \in Packets /\ RecordIs(p, st) /\ cgen[g] = g /\ ptok[g] = ptok[p]
    PROVE  FlowMove /\ cellst'[p] = st
<1>1. /\ ing.pc = "wait" /\ ing.p = p /\ ing' = Idle /\ cgen[p] = None /\ held[p] = <<>>
      /\ map[pkey[p]] # None => Terminal(map[pkey[p]])
  BY AtVacantFacts
<1>2. held' = [held EXCEPT ![p] = <<>>] /\ <<>> \in Seq(Packets)
  BY <1>1, Types DEF CellType
<1>3. g \in Packets /\ cgen[g] = g => g # p
  BY <1>1, NoneAssumption
<1>4. Creates(p, st, g, <<>>)
  BY <1>1, <1>2, <1>3 DEF Creates, Insert
<1>5. cellst'[p] = st
  BY Types DEF Insert, CellType
<1> QED
  BY <1>2, <1>4, <1>5 DEF FlowMove

LEMMA VacantDeadMoves ==
    ASSUME CorrInv, NEW p \in Packets, VacantDead(p)
    PROVE  Move
<1>1. AtVacant(p) /\ ing.pc = "wait" /\ ing.p = p /\ ing' = Idle
  BY AtVacantFacts DEF VacantDead, AtRecord
<1>2. FlowMove
  BY <1>1, InsertMoves DEF AtRecord, VacantDead, kernelVars, CellStates, Maybe
<1>3. GuardMove /\ VerdictMove /\ IngestMove /\ FailMove /\ CleanupMove
  BY <1>1, FinishCleans DEF VacantDead, queueVars, packetVars, pumpVars
<1> QED
  BY <1>2, <1>3, StillRest
     DEF Move, VacantDead, packetVars, endpointVars, taskVars, pumpVars

LEMMA VacantBlockMoves ==
    ASSUME CorrInv, NEW p \in Packets, VacantBlock(p)
    PROVE  Move
<1>1. AtVacant(p) /\ ing.p = p /\ ing' = Idle /\ RecordIs(p, "block")
  BY AtVacantFacts DEF VacantBlock, AtRecord, Record, RecordIs
<1>2. FlowMove
  BY <1>1, InsertMoves DEF AtRecord, VacantBlock, kernelVars, CellStates, Maybe
<1>3. GuardMove /\ VerdictMove /\ IngestMove /\ FailMove
  BY <1>1, FinishDrops DEF VacantBlock, queueVars, packetVars, pumpVars
<1> QED
  BY <1>2, <1>3, StillRest, StillCleanups
     DEF Move, VacantBlock, packetVars, cleanupVars, endpointVars, taskVars, pumpVars

LEMMA VacantDirectMoves ==
    ASSUME CorrInv, NEW p \in Packets, VacantDirect(p)
    PROVE  Move
<1>1. AtVacant(p) /\ ing.p = p /\ ing' = Idle /\ RecordIs(p, "direct")
  BY AtVacantFacts DEF VacantDirect, AtRecord, Record, RecordIs
<1>2. FlowMove /\ cellst'[p] = "direct"
  BY <1>1, InsertMoves DEF AtRecord, VacantDirect, kernelVars, CellStates, Maybe
<1>3. /\ GuardMove /\ IngestMove /\ FailMove
      /\ \A q \in Packets : verdict'[q] # verdict[q] => q = p /\ verdict'[q] \in {"accept", "lost"}
  BY <1>1, FinishSettles DEF VacantDirect, queueVars, packetVars, pumpVars
<1>4. VerdictMove
  BY <1>1, <1>2, <1>3, Types DEF VerdictMove, VerdictType, Releases, VacantDirect
<1> QED
  BY <1>2, <1>3, <1>4, StillRest, StillCleanups
     DEF Move, VacantDirect, packetVars, cleanupVars, endpointVars, taskVars, pumpVars

LEMMA VacantProxyMoves ==
    ASSUME CorrInv, NEW p \in Packets, VacantProxy(p)
    PROVE  Move
<1> DEFINE e == ep[pkey[p]]
           g == e.gen
<1>1. AtVacant(p) /\ ing.p = p /\ ing' = Idle /\ RecordIs(p, "proxy") /\ pkey[p] \in Keys
      /\ Known(p)
  BY AtVacantFacts DEF VacantProxy, AtRecord, Record, RecordIs
<1>2. /\ e.st \in {"init", "ready"} /\ ptok[g] = ptok[p] /\ Insert(p, "proxy", g)
      /\ payload' = [payload EXCEPT ![p] = g]
  BY DEF VacantProxy
<1>3. g # None
  BY <1>1, <1>2 DEF CorrInv, EntryShape
<1>4. g \in Packets /\ cgen[g] = g /\ g \in Maybe
  BY <1>1, <1>3, Types DEF CorrInv, EntryShape, PoolType, Maybe
<1> HIDE DEF g, e
<1>5. FlowMove /\ cellst'[p] = "proxy"
  BY <1>1, <1>2, <1>4, InsertMoves DEF AtRecord, VacantProxy, kernelVars, CellStates
<1>6. /\ GuardMove /\ IngestMove /\ FailMove
      /\ \A q \in Packets : verdict'[q] # verdict[q] => q = p /\ verdict'[q] \in {"copied", "lost"}
  BY <1>1, FinishSettles DEF VacantProxy, queueVars, packetVars, pumpVars
<1>7. payload' \in [Packets -> Maybe] /\ payload'[p] = g
      /\ \A q \in Packets : payload'[q] # payload[q] => q = p
  BY <1>2, <1>4, Types DEF VerdictType
<1>8. VerdictMove
  BY <1>1, <1>2, <1>3, <1>5, <1>6, <1>7 DEF VerdictMove
<1> QED
  BY <1>5, <1>6, <1>8, StillRest, StillCleanups
     DEF Move, VacantProxy, packetVars, cleanupVars, endpointVars, taskVars, pumpVars

LEMMA VacantInitializeMoves ==
    ASSUME CorrInv, NEW p \in Packets, VacantInitialize(p)
    PROVE  Move
<1>1. /\ ing.pc = "wait" /\ ing.p = p /\ ing' = Idle /\ RecordIs(p, "pending") /\ Known(p)
      /\ pkey[p] \in Keys /\ held[p] = <<>> /\ task[p] = "none"
      /\ (map[pkey[p]] # None => Terminal(map[pkey[p]])) /\ SlotFree(pkey[p])
  BY AtVacantFacts DEF VacantInitialize, AtRecord, Record, RecordIs
<1>2. /\ payload' = [payload EXCEPT ![p] = p] /\ payload' \in [Packets -> Maybe]
      /\ payload'[p] = p /\ \A q \in Packets : payload'[q] # payload[q] => q = p
  BY Types DEF VacantInitialize, VerdictType, Maybe
<1>3. Creates(p, "pending", p, <<p>>)
  BY <1>1, <1>2 DEF VacantInitialize, Creates, Insert, kernelVars
<1>4. FlowMove
  <2>1. "pending" \in CellStates /\ p \in Maybe /\ <<p>> \in Seq(Packets)
    BY DEF CellStates, Maybe
  <2> QED
    BY <1>3, <2>1 DEF FlowMove
<1>5. GuardMove
  <2>1. Append(<<>>, p) = <<p>>
    OBVIOUS
  <2>2. Stores(p)
    BY <1>1, <2>1 DEF VacantInitialize, Stores, Idle, queueVars, pumpVars
  <2> QED
    BY <2>2 DEF GuardMove
<1>6. VerdictMove
  BY <1>1, <1>2, NoneAssumption DEF VerdictMove, VacantInitialize
<1>7. cgen'[p] = p
  BY Types DEF VacantInitialize, Insert, CellType
<1>8. TaskMove
  <2>1. TaskStep(p, "run", "task")
    BY <1>1, <1>7 DEF TaskStep
  <2>2. "run" \in TaskStates /\ "task" \in Leases
    BY DEF TaskStates, Leases
  <2> QED
    BY <2>1, <2>2, Types DEF TaskMove, VacantInitialize, TaskType, PoolType
<1>9. PoolMove
  BY <1>1, <1>7, Types DEF PoolMove, VacantInitialize, PoolType
<1> QED
  BY <1>1, <1>4, <1>5, <1>6, <1>8, <1>9, StillPump, StillCleanups, StillFail
     DEF Move, VacantInitialize, IngestMove, packetVars, cleanupVars, pumpVars, failVars

LEMMA IngestVacantMoves ==
    ASSUME CorrInv, NEW p \in Packets, IngestVacant(p)
    PROVE  Move
BY VacantRefusedMoves, VacantDropMoves, VacantInitializeMoves, VacantDeadMoves,
   VacantDirectMoves, VacantBlockMoves, VacantProxyMoves, VacantArmedMoves
   DEF IngestVacant

LEMMA IngestMoves ==
    ASSUME CorrInv, Ingest
    PROVE  Move
BY IngestRefusedMoves, IngestFoundMoves, IngestAwaitMoves, IngestTimeoutMoves,
   IngestContendedMoves, IngestRecheckMoves, IngestExistingMoves, IngestVacantMoves
   DEF Ingest

-----------------------------------------------------------------------------
(* Initializers *)

\* Neither flows nor guards nor the ingest actor take part in the step.
LEMMA StillTraffic ==
    ASSUME CorrInv, UNCHANGED <<conn, map, cellst, held, cgen, verdict, payload, wire, queue, ing, taken>>
    PROVE  FlowMove /\ GuardMove /\ VerdictMove /\ IngestMove
<1>1. FlowMove /\ GuardMove /\ IngestMove
  BY DEF FlowMove, GuardMove, Keeps, IngestMove
<1> QED
  BY <1>1, StillVerdicts

LEMMA TaskFacts ==
    ASSUME CorrInv, NEW g \in Packets, task[g] # "none"
    PROVE  cgen[g] = g /\ Inside(g) /\ pkey[g] \in Keys
<1>1. cgen[g] = g
  BY DEF CorrInv, TaskShape
<1>2. Inside(g)
  BY <1>1, NoneAssumption DEF CorrInv, CellShape
<1> QED
  BY <1>1, <1>2, InsideFacts

\* The pending cell an initializer finds under its own generation is its own.
LEMMA PendingOwns ==
    ASSUME CorrInv, NEW g \in Packets, task[g] # "none", Matches(CellOf(g), g), IsPending(CellOf(g))
    PROVE  map[pkey[g]] = g
<1>1. Inside(g)
  BY NoneAssumption DEF CorrInv, TaskShape, CellShape
<1>2. map[pkey[g]] \in Packets
  BY <1>1, InsideFacts, Types DEF Matches, CellOf, CellType, Maybe
<1>3. cgen[map[pkey[g]]] = map[pkey[g]]
  BY <1>2 DEF CorrInv, CellShape, CellOf
<1> QED
  BY <1>3 DEF Matches, CellOf

LEMMA InitDecideMoves ==
    ASSUME CorrInv, NEW g \in Packets, NEW d \in Decisions, InitDecide(g, d)
    PROVE  Move
<1>1. FlowMove /\ GuardMove /\ VerdictMove /\ IngestMove
  BY StillTraffic DEF InitDecide, kernelVars, cellVars, queueVars, pumpVars
<1>2. TaskMove
  <2>1. lease[g] \in Leases /\ d \in TaskStates /\ lease' = [lease EXCEPT ![g] = lease[g]]
    BY Types DEF TaskType, TaskStates, InitDecide
  <2>2. map[pkey[g]] = g
    BY PendingOwns DEF InitDecide, HasCell, Matches, CellOf
  <2>3. TaskStep(g, d, lease[g])
    BY <2>2 DEF TaskStep, InitDecide
  <2> QED
    BY <2>1, <2>3, Types DEF TaskMove, InitDecide, TaskType, PoolType, endpointVars
<1> QED
  BY <1>1, <1>2, StillPump, StillPool, StillCleanups, StillFail
     DEF Move, InitDecide, packetVars, cleanupVars, endpointVars, pumpVars, failVars

LEMMA InitSubmitMoves ==
    ASSUME CorrInv, NEW g \in Packets, InitSubmit(g)
    PROVE  Move
<1>1. FlowMove /\ GuardMove /\ VerdictMove /\ IngestMove
  BY StillTraffic DEF InitSubmit, kernelVars, cellVars, queueVars
<1>2. Submits(g)
  BY DEF InitSubmit, Submits
<1>3. PumpMove
  BY <1>2 DEF PumpMove
<1>4. TaskMove
  <2> DEFINE l == IF task[g] = "proxy" THEN "task" ELSE "request"
  <2>1. TaskStep(g, "wait", l)
    BY <1>2 DEF TaskStep
  <2>2. l \in Leases /\ "wait" \in TaskStates
    BY DEF Leases, TaskStates
  <2>3. task' = [task EXCEPT ![g] = "wait"] /\ lease' = [lease EXCEPT ![g] = l]
    BY DEF InitSubmit
  <2>4. stale' \subseteq Packets /\ served' = served /\ served' \subseteq Packets
    BY Types DEF InitSubmit, TaskType, PoolType, endpointVars
  <2> HIDE DEF l
  <2> QED
    BY <2>1, <2>2, <2>3, <2>4 DEF TaskMove
<1> QED
  BY <1>1, <1>3, <1>4, StillPool, StillCleanups, StillFail
     DEF Move, InitSubmit, packetVars, cleanupVars, endpointVars, failVars

\* The task stops, with or without its lease.
LEMMA StopTask ==
    ASSUME CorrInv, NEW g \in Packets, NEW s \in {"skip", "cancel", "done"}, task[g] # "none",
           task' = [task EXCEPT ![g] = s], NEW l \in {lease[g], "gone"},
           lease' = [lease EXCEPT ![g] = l], UNCHANGED <<stale, served>>
    PROVE  TaskMove
<1>1. TaskStep(g, s, l) /\ s \in TaskStates /\ l \in Leases
  BY Types DEF TaskStep, TaskStates, Leases, TaskType
<1> QED
  BY <1>1, Types DEF TaskMove, TaskType, PoolType

LEMMA SameLease ==
    ASSUME CorrInv, NEW g \in Packets, UNCHANGED lease
    PROVE  lease' = [lease EXCEPT ![g] = lease[g]]
BY Types DEF TaskType

\* InitFail and the cancellation branch: a lease of the task's own is dropped.
LEMMA GiveUp ==
    ASSUME CorrInv, NEW g \in Packets, task[g] # "none",
           task' = [task EXCEPT ![g] = "cancel"],
           IF lease[g] = "task" THEN DropLease(g) ELSE UNCHANGED <<lease, ep, cancelled>>,
           UNCHANGED <<stale, served>>
    PROVE  TaskMove /\ PoolMove
<1>1. CASE lease[g] = "task"
  BY <1>1, TaskFacts, Types, RetireExactEffect, StopTask DEF DropLease, CorrInv
<1>2. CASE lease[g] # "task"
  BY <1>2, StopTask, SameLease, StillPool
<1> QED
  BY <1>1, <1>2

LEMMA InitFailMoves ==
    ASSUME CorrInv, NEW g \in Packets, InitFail(g)
    PROVE  Move
<1>1. FlowMove /\ GuardMove /\ VerdictMove /\ IngestMove
  BY StillTraffic DEF InitFail, kernelVars, cellVars, queueVars, pumpVars
<1>2. TaskMove /\ PoolMove
  BY GiveUp DEF InitFail
<1> QED
  BY <1>1, <1>2, StillPump, StillCleanups, StillFail
     DEF Move, InitFail, packetVars, cleanupVars, pumpVars, failVars

LEMMA InitCancelledMoves ==
    ASSUME CorrInv, NEW g \in Packets, InitCancelled(g)
    PROVE  Move
<1>1. FlowMove /\ GuardMove /\ VerdictMove /\ IngestMove
  BY StillTraffic DEF InitCancelled, kernelVars, cellVars, queueVars, pumpVars
<1>2. TaskMove /\ PoolMove
  BY GiveUp DEF InitCancelled, Decisions
<1> QED
  BY <1>1, <1>2, StillPump, StillCleanups, StillFail
     DEF Move, InitCancelled, packetVars, cleanupVars, pumpVars, failVars

LEMMA InitSkipMoves ==
    ASSUME CorrInv, NEW g \in Packets, InitSkip(g)
    PROVE  Move
<1>1. FlowMove /\ GuardMove /\ VerdictMove /\ IngestMove
  BY StillTraffic DEF InitSkip, kernelVars, cellVars, queueVars, pumpVars
<1>2. TaskMove
  BY StopTask, SameLease DEF InitSkip, endpointVars
<1> QED
  BY <1>1, <1>2, StillPump, StillPool, StillCleanups, StillFail
     DEF Move, InitSkip, packetVars, cleanupVars, endpointVars, pumpVars, failVars

LEMMA InitDecidedMoves ==
    ASSUME CorrInv, NEW g \in Packets, InitDecided(g)
    PROVE  Move
<1>1. FlowMove /\ GuardMove /\ VerdictMove /\ IngestMove
  BY StillTraffic DEF InitDecided, kernelVars, cellVars, queueVars, pumpVars
<1>2. TaskMove
  <2>1. CASE lease[g] = "task"
    <3>1. TaskStep(g, "dial", lease[g]) /\ "dial" \in TaskStates /\ lease[g] \in Leases
      BY <2>1, Types DEF TaskStep, TaskStates, InitDecided, TaskType
    <3> QED
      BY <2>1, <3>1, SameLease, Types DEF TaskMove, InitDecided, TaskType, PoolType, endpointVars
  <2>2. CASE lease[g] # "task"
    BY <2>2, StopTask, SameLease DEF InitDecided, endpointVars
  <2> QED
    BY <2>1, <2>2
<1> QED
  BY <1>1, <1>2, StillPump, StillPool, StillCleanups, StillFail
     DEF Move, InitDecided, packetVars, cleanupVars, endpointVars, pumpVars, failVars

\* An entry changes its state and keeps its generation.
LEMMA EntryMoves ==
    ASSUME CorrInv, NEW k \in Keys, ep[k].st # "absent", NEW s \in EntryStates \ {"absent"},
           ep' = [ep EXCEPT ![k].st = s], cancelled' \subseteq Packets
    PROVE  PoolMove
<1>1. [ep[k] EXCEPT !.st = s] = [gen |-> ep[k].gen, st |-> s]
  BY Types DEF PoolType
<1>2. ep' = [ep EXCEPT ![k] = [gen |-> ep[k].gen, st |-> s]]
  BY <1>1
<1> QED
  BY <1>2 DEF PoolMove

LEMMA InitReadyMoves ==
    ASSUME CorrInv, NEW g \in Packets, InitReady(g)
    PROVE  Move
<1>1. FlowMove /\ GuardMove /\ VerdictMove /\ IngestMove
  BY StillTraffic DEF InitReady, kernelVars, cellVars, queueVars, pumpVars
<1>2. TaskMove
  <2>1. TaskStep(g, "done", "gone") /\ "done" \in TaskStates /\ "gone" \in Leases
    BY DEF TaskStep, TaskStates, Leases, InitReady
  <2> QED
    BY <2>1, Types DEF TaskMove, InitReady, TaskType, PoolType
<1>3. PoolMove
  BY TaskFacts, EntryMoves, Types DEF InitReady, EntryInit, EntryStates, PoolType
<1> QED
  BY <1>1, <1>2, <1>3, StillPump, StillCleanups, StillFail
     DEF Move, InitReady, packetVars, cleanupVars, pumpVars, failVars

LEMMA InitCancelMoves ==
    ASSUME CorrInv, NEW g \in Packets, InitCancel(g)
    PROVE  Move
<1>1. task[g] # "none" /\ pkey[g] \in Keys
  BY TaskFacts DEF InitCancel
<1>2. Aside
  BY Types DEF Aside, InitCancel, packetVars, queueVars, pumpVars, CleanupType
<1>3. CellMove
  <2> DEFINE c == CellOf(g)
  <2>1. HasCell(g) => c \in Packets /\ Inside(c)
    BY <1>1, Types DEF HasCell, Matches, CellOf, CellType, Maybe, CorrInv, MapShape
  <2>2. CASE /\ IF lease[g] = "task" THEN RetireExact(g) ELSE UNCHANGED <<ep, cancelled>>
             /\ UNCHANGED <<conn, cellst, held, cleanups, verdict, fatal, faults>>
    <3>1. PoolMove
      BY <1>1, <2>2, Types, RetireExactEffect, StillPool DEF CorrInv
    <3> QED
      BY <1>2, <2>2, <3>1, IdleMoves, StillFails
  <2>3. CASE HasCell(g) /\ CancelPending(c)
    BY <1>2, <2>1, <2>3, CancelPendingMoves
  <2>4. CASE HasCell(g) /\ CancelFails(c)
    BY <1>2, <2>1, <2>4, CancelFailsMoves
  <2>5. CASE HasCell(g) /\ ExpireCommit(c) /\ UNCHANGED conn
    BY <1>2, <2>1, <2>5, ExpireCommitMoves
  <2> QED
    BY <2>2, <2>3, <2>4, <2>5 DEF InitCancel, CancelDone
<1>4. TaskMove
  <2>1. CASE task[g] = "skip"
    BY <1>1, <2>1, StopTask DEF InitCancel
  <2>2. CASE task[g] # "skip"
    BY <1>1, <2>2, StopTask, SameLease DEF InitCancel
  <2> QED
    BY <2>1, <2>2
<1> QED
  BY <1>3, <1>4, StillPump DEF Move, CellMove, InitCancel, packetVars, pumpVars

LEMMA InitializerMoves ==
    ASSUME CorrInv, NEW g \in Packets, Initializer(g)
    PROVE  Move
BY InitDecideMoves, InitSubmitMoves, InitFailMoves, InitCancelledMoves, InitSkipMoves,
   InitDecidedMoves, InitReadyMoves, InitCancelMoves
   DEF Initializer

-----------------------------------------------------------------------------
(* The commit pump *)

LEMMA EntryFacts ==
    ASSUME CorrInv, NEW i \in Indices
    PROVE  /\ Entry(i) \in Commits /\ Entry(i).cell \in Packets
           /\ Entry(i).decision \in Decisions /\ Entry(i).res \in Results
           /\ Begun(Entry(i).cell) /\ task[Entry(i).cell] # "none"
           /\ cgen[Entry(i).cell] = Entry(i).cell
           /\ Inside(Entry(i).cell) /\ pkey[Entry(i).cell] \in Keys
           /\ ptok[Entry(i).cell] \in Packets
           /\ ptok[ptok[Entry(i).cell]] = ptok[Entry(i).cell]
<1>1. Entry(i) \in Commits
  BY Types DEF PumpType, Entry, Indices
<1>2. Begun(Entry(i).cell)
  BY DEF CorrInv, CommitShape
<1>3. Entry(i).cell \in Packets /\ Entry(i).decision \in Decisions /\ Entry(i).res \in Results
  BY <1>1 DEF Commits
<1>4. task[Entry(i).cell] # "none"
  BY <1>2 DEF Begun
<1> QED
  BY <1>1, <1>2, <1>3, <1>4, TaskFacts, InsideFacts

LEMMA RespondMoves ==
    ASSUME CorrInv, NEW i \in Indices, NEW r \in {"err", "ok"}, Respond(i, r),
           UNCHANGED <<served, stale>>,
           r = "ok" /\ lease[Entry(i).cell] = "task" => cellst[Entry(i).cell] = "proxy"
    PROVE  TaskMove /\ pump' = Mark(i, "gone")
<1> DEFINE g == Entry(i).cell
           s == IF task[g] = "wait" THEN r ELSE task[g]
           l == IF lease[g] = "request" THEN "gone" ELSE lease[g]
<1>1. g \in Packets /\ Begun(g) /\ task[g] # "none"
  BY EntryFacts
<1>2. task' = [task EXCEPT ![g] = s] /\ lease' = [lease EXCEPT ![g] = l] /\ pump' = Mark(i, "gone")
  BY Types DEF Respond, TaskType
<1>3. s \in TaskStates /\ l \in Leases
  BY <1>1, Types DEF TaskType, TaskStates, Leases
<1>4. TaskStep(g, s, l)
  BY <1>1 DEF TaskStep
<1> HIDE DEF g, s, l
<1>5. TaskMove
  BY <1>1, <1>2, <1>3, <1>4, Types DEF TaskMove, TaskType, PoolType
<1> QED
  BY <1>2, <1>5

LEMMA PumpTakeMoves ==
    ASSUME CorrInv, NEW n \in 1..MaxBatch, PumpTake(n)
    PROVE  Move
<1>1. FlowMove /\ GuardMove /\ VerdictMove /\ IngestMove
  BY StillTraffic DEF PumpTake, kernelVars, cellVars, queueVars
<1>2. Fetches(n)
  BY Types, BoundsAssumption DEF PumpTake, Fetches, PumpType
<1>3. PumpMove
  BY <1>2 DEF PumpMove
<1> QED
  BY <1>1, <1>3, StillTasks, StillPool, StillCleanups, StillFail
     DEF Move, PumpTake, packetVars, cleanupVars, endpointVars, taskVars, failVars

LEMMA PumpExpireMoves ==
    ASSUME CorrInv, NEW i \in Indices, PumpExpire(i)
    PROVE  Move
<1>1. Aside
  BY Types DEF Aside, PumpExpire, packetVars, queueVars, CleanupType
<1>2. CellMove
  BY <1>1, EntryFacts, ExpireCommitMoves DEF PumpExpire, kernelVars
<1>3. TaskMove /\ pump' = Mark(i, "gone")
  BY RespondMoves DEF PumpExpire
<1>4. Marks(i, "gone")
  BY <1>3 DEF Marks, PumpExpire, Outstanding
<1>5. PumpMove
  BY <1>4 DEF PumpMove, Results
<1> QED
  BY <1>2, <1>3, <1>5 DEF Move, CellMove, PumpExpire, packetVars

LEMMA PumpLockMoves ==
    ASSUME CorrInv, PumpLock
    PROVE  Move
<1>1. FlowMove /\ GuardMove /\ VerdictMove /\ IngestMove
  BY StillTraffic DEF PumpLock, kernelVars, cellVars, queueVars
<1> DEFINE b == [i \in Indices |-> IF Entry(i).res = "todo" /\ Late(Entry(i).cell)
                                   THEN [Entry(i) EXCEPT !.res = "late"] ELSE Entry(i)]
<1>2. pump.pc = "lock" /\ pump' = [pc |-> "apply", batch |-> b] /\ UNCHANGED <<commits, taken>>
  BY DEF PumpLock
<1>3. /\ Len(pump.batch) \in Nat /\ Indices = 1..Len(pump.batch)
      /\ \A i \in Indices : Entry(i) \in Commits
  BY Types DEF PumpType, Indices, Entry
<1>4. \A i \in Indices :
        /\ b[i] \in Commits /\ b[i].cell = Entry(i).cell /\ b[i].decision = Entry(i).decision
        /\ b[i].res = Entry(i).res \/ (Entry(i).res = "todo" /\ b[i].res = "late")
  <2> SUFFICES ASSUME NEW i \in Indices
               PROVE  /\ b[i] \in Commits /\ b[i].cell = Entry(i).cell
                      /\ b[i].decision = Entry(i).decision
                      /\ b[i].res = Entry(i).res \/ (Entry(i).res = "todo" /\ b[i].res = "late")
    OBVIOUS
  <2>1. CASE Entry(i).res = "todo" /\ Late(Entry(i).cell)
    <3>1. b[i] = [Entry(i) EXCEPT !.res = "late"]
      BY <2>1
    <3>2. b[i] = [cell |-> Entry(i).cell, decision |-> Entry(i).decision, res |-> "late"]
      BY <1>3, <3>1 DEF Commits
    <3> QED
      BY <1>3, <2>1, <3>2 DEF Commits, Results
  <2>2. CASE ~(Entry(i).res = "todo" /\ Late(Entry(i).cell))
    <3>1. b[i] = Entry(i)
      BY <2>2
    <3> HIDE DEF b
    <3> QED
      BY <1>3, <3>1
  <2> QED
    BY <2>1, <2>2
<1>5. b \in Seq(Commits) /\ Len(b) = Len(pump.batch)
  <2>1. b \in [1..Len(pump.batch) -> Commits]
    BY <1>3, <1>4
  <2>2. DOMAIN b = 1..Len(pump.batch)
    BY <1>3
  <2> HIDE DEF b
  <2>3. b \in Seq(Commits)
    BY <1>3, <2>1
  <2> QED
    BY <1>3, <2>2, <2>3
<1>6. \A i \in Indices : Entry(i).res \in {"todo", "gone"}
  BY <1>2 DEF CorrInv, PhaseInv
<1> HIDE DEF b
<1>7. Sweeps("apply", b)
  BY <1>2, <1>4, <1>5, <1>6 DEF Sweeps
<1>8. PumpMove
  BY <1>5, <1>7 DEF PumpMove, PumpPcs
<1> QED
  BY <1>1, <1>8, StillTasks, StillPool, StillCleanups, StillFail
     DEF Move, PumpLock, packetVars, cleanupVars, endpointVars, taskVars, failVars

LEMMA PumpUnlockMoves ==
    ASSUME CorrInv, PumpUnlock
    PROVE  Move
<1>1. FlowMove /\ GuardMove /\ VerdictMove /\ IngestMove
  BY StillTraffic DEF PumpUnlock, kernelVars, cellVars, queueVars
<1>2. pump' = [pc |-> "complete", batch |-> pump.batch] /\ pump.batch \in Seq(Commits)
  BY Types DEF PumpUnlock, PumpType
<1>3. Sweeps("complete", pump.batch)
  BY <1>2 DEF Sweeps, PumpUnlock, Entry
<1>4. PumpMove
  BY <1>2, <1>3 DEF PumpMove, PumpPcs
<1> QED
  BY <1>1, <1>4, StillTasks, StillPool, StillCleanups, StillFail
     DEF Move, PumpUnlock, packetVars, cleanupVars, endpointVars, taskVars, failVars

LEMMA PumpBatchFailsMoves ==
    ASSUME CorrInv, PumpBatchFails
    PROVE  Move
<1>1. FlowMove /\ GuardMove /\ VerdictMove /\ IngestMove
  BY StillTraffic DEF PumpBatchFails, kernelVars, cellVars, queueVars
<1> DEFINE failed(r) == CASE r = "armed" -> "failArmed"
                          [] r = "terminal" -> "failTerminal"
                          [] r \in {"late", "gone"} -> r
                          [] OTHER -> "refused"
           b == [i \in Indices |-> [Entry(i) EXCEPT !.res = failed(Entry(i).res)]]
<1>2. /\ pump.pc = "apply" /\ pump' = [pc |-> "complete", batch |-> b] /\ UNCHANGED <<commits, taken>>
      /\ faults < MaxFaults /\ faults' = faults + 1 /\ fatal' = TRUE
  BY DEF PumpBatchFails
<1>3. /\ Len(pump.batch) \in Nat /\ Indices = 1..Len(pump.batch)
      /\ \A i \in Indices : Entry(i) \in Commits
  BY Types DEF PumpType, Indices, Entry
<1>4. \A i \in Indices : Entry(i).res \in UnderLock
  BY <1>2 DEF CorrInv, PhaseInv
<1>5. \A r \in UnderLock :
        /\ failed(r) \in Results /\ failed(r) # "todo"
        /\ \/ failed(r) = r
           \/ r \in {"todo", "expired", "refused"} /\ failed(r) \in {"late", "refused"}
           \/ r = "armed" /\ failed(r) = "failArmed"
           \/ r = "terminal" /\ failed(r) = "failTerminal"
  BY DEF UnderLock, Results
<1> HIDE DEF failed
<1>6. \A i \in Indices :
        /\ b[i] \in Commits /\ b[i].cell = Entry(i).cell /\ b[i].decision = Entry(i).decision
        /\ b[i].res = failed(Entry(i).res)
  BY <1>3, <1>4, <1>5 DEF Commits
<1>7. b \in Seq(Commits) /\ Len(b) = Len(pump.batch)
  <2>1. b \in [1..Len(pump.batch) -> Commits]
    BY <1>3, <1>6
  <2>2. DOMAIN b = 1..Len(pump.batch)
    BY <1>3
  <2> HIDE DEF b
  <2>3. b \in Seq(Commits)
    BY <1>3, <2>1
  <2> QED
    BY <1>3, <2>2, <2>3
<1> HIDE DEF b
<1>8. Sweeps("complete", b)
  BY <1>2, <1>4, <1>5, <1>6, <1>7 DEF Sweeps
<1>9. PumpMove
  BY <1>7, <1>8 DEF PumpMove, PumpPcs
<1>10. FailMove
  BY <1>2, OneFault, QuietClock, Types DEF FailMove, PumpBatchFails, packetVars
<1> QED
  BY <1>1, <1>9, <1>10, StillTasks, StillPool, StillCleanups
     DEF Move, PumpBatchFails, packetVars, cleanupVars, endpointVars, taskVars

LEMMA PumpRefuseMoves ==
    ASSUME CorrInv, NEW i \in Indices, PumpRefuse(i)
    PROVE  Move
<1>1. FlowMove /\ GuardMove /\ VerdictMove /\ IngestMove
  BY StillTraffic DEF PumpRefuse, kernelVars, cellVars, queueVars
<1>2. PICK r \in {"expired", "refused"} : Marks(i, r)
  BY DEF PumpRefuse, NextTodo, Outstanding, Marks
<1>3. PumpMove
  BY <1>2 DEF PumpMove, Results
<1> QED
  BY <1>1, <1>3, StillTasks, StillPool, StillCleanups, StillFail
     DEF Move, PumpRefuse, packetVars, cleanupVars, endpointVars, taskVars, failVars

LEMMA PumpArmMoves ==
    ASSUME CorrInv, NEW i \in Indices, PumpArm(i)
    PROVE  Move
<1> DEFINE c == Entry(i).cell
<1>1. c \in Packets /\ pkey[c] \in Keys
  BY EntryFacts
<1>2. /\ cellst[c] = "pending" /\ conn[pkey[c]] = [tok |-> ptok[c], st |-> "pending"]
      /\ conn' = [conn EXCEPT ![pkey[c]].st = "armed"] /\ cellst' = [cellst EXCEPT ![c] = "armed"]
      /\ pump' = Mark(i, "armed") /\ Entry(i).decision = "direct"
      /\ pump.pc = "apply" /\ Entry(i).res = "todo"
  BY DEF PumpArm, Applies, NextTodo, Outstanding
<1>3. conn' = [conn EXCEPT ![pkey[c]] = [tok |-> ptok[c], st |-> "armed"]]
  <2>1. [conn[pkey[c]] EXCEPT !.st = "armed"] = [tok |-> ptok[c], st |-> "armed"]
    BY <1>2
  <2>2. conn' = [conn EXCEPT ![pkey[c]] = [conn[pkey[c]] EXCEPT !.st = "armed"]]
    BY <1>2
  <2> QED
    BY <2>1, <2>2
<1>4. held' = [held EXCEPT ![c] = held[c]]
  BY Types DEF PumpArm, CellType
<1>5. Decides(i, c, "armed")
  BY <1>1, <1>2, <1>3, <1>4 DEF Decides, RecordIs, Marked, PumpArm
<1>6. FlowMove
  BY <1>1, <1>5 DEF FlowMove, CellStates
<1>7. GuardMove /\ IngestMove
  BY DEF GuardMove, Keeps, IngestMove, PumpArm, queueVars
<1>8. Marks(i, "armed")
  BY <1>2, <1>5 DEF Marks, PumpArm
<1>9. PumpMove
  BY <1>8 DEF PumpMove, Results
<1> QED
  BY <1>6, <1>7, <1>9, StillVerdicts, StillTasks, StillPool, StillCleanups, StillFail
     DEF Move, PumpArm, packetVars, cleanupVars, endpointVars, taskVars, failVars

LEMMA PumpTerminalMoves ==
    ASSUME CorrInv, NEW i \in Indices, PumpTerminal(i)
    PROVE  Move
<1> DEFINE c == Entry(i).cell
           d == Entry(i).decision
<1>1. c \in Packets /\ pkey[c] \in Keys /\ d \in Decisions
  BY EntryFacts
<1>2. /\ cellst[c] = "pending" /\ conn[pkey[c]] = [tok |-> ptok[c], st |-> "pending"]
      /\ conn' = [conn EXCEPT ![pkey[c]].st = d] /\ cellst' = [cellst EXCEPT ![c] = d]
      /\ taken' = [taken EXCEPT ![c] = held[c]] /\ held' = [held EXCEPT ![c] = <<>>]
      /\ pump' = Mark(i, "terminal") /\ d # "direct"
      /\ pump.pc = "apply" /\ Entry(i).res = "todo"
  BY DEF PumpTerminal, Applies, NextTodo, Outstanding
<1>3. conn' = [conn EXCEPT ![pkey[c]] = [tok |-> ptok[c], st |-> d]]
  <2>1. [conn[pkey[c]] EXCEPT !.st = d] = [tok |-> ptok[c], st |-> d]
    BY <1>2
  <2>2. conn' = [conn EXCEPT ![pkey[c]] = [conn[pkey[c]] EXCEPT !.st = d]]
    BY <1>2
  <2> QED
    BY <2>1, <2>2
<1>4. d \in {"proxy", "block"} /\ d \in CellStates
  BY <1>1, <1>2 DEF Decisions, CellStates
<1>5. Decides(i, c, d)
  BY <1>1, <1>2, <1>3, <1>4 DEF Decides, RecordIs, Marked, PumpTerminal
<1>6. FlowMove
  BY <1>1, <1>4, <1>5 DEF FlowMove
<1>7. taken[c] = <<>>
  BY <1>1, <1>2 DEF CorrInv, CellShape, Unarmed
<1>8. cellst'[c] = d
  BY <1>1, <1>2, Types DEF CellType
<1>9. Moves(i, c)
  BY <1>2, <1>4, <1>7, <1>8 DEF Moves, Marked, PumpTerminal, queueVars
<1>10. GuardMove /\ IngestMove
  BY <1>1, <1>9 DEF GuardMove, IngestMove, PumpTerminal
<1>11. Marks(i, "terminal")
  BY <1>2, <1>5, <1>9 DEF Marks, PumpTerminal
<1>12. PumpMove
  BY <1>11 DEF PumpMove, Results
<1> QED
  BY <1>6, <1>10, <1>12, StillVerdicts, StillTasks, StillPool, StillCleanups, StillFail
     DEF Move, PumpTerminal, packetVars, cleanupVars, endpointVars, taskVars, failVars

LEMMA RespondErrMoves ==
    ASSUME CorrInv, NEW i \in Indices, RespondErr(i), UNCHANGED <<served, stale>>
    PROVE  TaskMove /\ PoolMove /\ pump' = Mark(i, "gone")
<1>1. TaskMove /\ pump' = Mark(i, "gone")
  BY RespondMoves DEF RespondErr
<1>2. PoolMove
  BY EntryFacts, Types, RetireExactEffect, StillPool DEF RespondErr, CorrInv
<1> QED
  BY <1>1, <1>2

LEMMA PumpAnswerErrMoves ==
    ASSUME CorrInv, NEW i \in Indices, PumpAnswerErr(i)
    PROVE  Move
<1>1. FlowMove /\ GuardMove /\ VerdictMove /\ IngestMove
  BY StillTraffic DEF PumpAnswerErr, kernelVars, cellVars, queueVars
<1>2. TaskMove /\ PoolMove /\ pump' = Mark(i, "gone")
  BY RespondErrMoves DEF PumpAnswerErr
<1>3. Marks(i, "gone")
  BY <1>2 DEF Marks, PumpAnswerErr, Turn, Outstanding
<1>4. PumpMove
  BY <1>3 DEF PumpMove, Results
<1> QED
  BY <1>1, <1>2, <1>4, StillCleanups, StillFail
     DEF Move, PumpAnswerErr, packetVars, cleanupVars, failVars

LEMMA PumpDropTerminalMoves ==
    ASSUME CorrInv, NEW i \in Indices, PumpDropTerminal(i)
    PROVE  Move
<1> DEFINE c == Entry(i).cell
           o == IF Entry(i).decision = "proxy" /\ Entry(i).res = "terminal" THEN "copied" ELSE "drop"
<1>1. c \in Packets /\ taken[c] \in Seq(Packets)
  BY EntryFacts, Types DEF PumpType
<1>2. /\ pump.pc = "complete" /\ Entry(i).res \in {"terminal", "failTerminal"}
      /\ Settle(ToSet(taken[c]), o, FALSE) /\ taken' = [taken EXCEPT ![c] = <<>>]
  BY DEF PumpDropTerminal, Turn, Outstanding
<1>3. ToSet(taken[c]) \in SUBSET Packets
  BY <1>1, ToSetRange
<1>4. /\ Settles(ToSet(taken[c]))
      /\ \A p \in Packets : verdict'[p] # verdict[p] => p \in ToSet(taken[c]) /\ verdict'[p] \in {o, "lost"}
      /\ fatal' \in BOOLEAN /\ (fatal => fatal') /\ faults' \in 0..MaxFaults
  BY <1>2, <1>3, Types, SettleEffect
<1>5. Clears(c)
  BY <1>2, <1>4 DEF Clears, PumpDropTerminal, queueVars, cellVars
<1>6. o = "copied" => cellst[c] = "proxy" /\ \A p \in ToSet(taken[c]) : payload[p] # None /\ ptok[p] = ptok[c]
  BY <1>1 DEF CorrInv, PhaseInv, CopyInv, HeldShape
<1>7. VerdictMove
  BY <1>1, <1>4, <1>6, Types DEF VerdictMove, VerdictType, PumpDropTerminal, cellVars
<1>8. GuardMove /\ IngestMove /\ FailMove
  BY <1>1, <1>4, <1>5, QuietClock, Types
     DEF GuardMove, IngestMove, FailMove, PumpDropTerminal, packetVars
<1>9. PICK r \in {"ok", "refused"} : Marks(i, r)
  BY <1>2 DEF Marks, PumpDropTerminal
<1>10. PumpMove
  BY <1>9 DEF PumpMove, Results
<1> QED
  BY <1>7, <1>8, <1>10, StillFlows, StillTasks, StillPool, StillCleanups
     DEF Move, PumpDropTerminal, kernelVars, packetVars, cellVars, cleanupVars, endpointVars, taskVars

LEMMA PumpHandoffMoves ==
    ASSUME CorrInv, NEW i \in Indices, PumpHandoff(i)
    PROVE  Move
<1> DEFINE g == Entry(i).cell
<1>1. FlowMove /\ GuardMove /\ VerdictMove /\ IngestMove
  BY StillTraffic DEF PumpHandoff, kernelVars, cellVars, queueVars
<1>2. TaskMove /\ PoolMove /\ pump' = Mark(i, "gone") /\ fatal' \in BOOLEAN /\ (fatal => fatal')
  <2>1. CASE EntryInit(g)
    <3>1. TaskMove /\ pump' = Mark(i, "gone")
      BY <2>1, RespondMoves DEF PumpHandoff
    <3>2. PoolMove
      <4>1. pkey[g] \in Keys /\ ep[pkey[g]].st # "absent" /\ "handoff" \in EntryStates \ {"absent"}
        BY <2>1, EntryFacts DEF EntryInit, EntryStates
      <4>2. ep' = [ep EXCEPT ![pkey[g]].st = "handoff"] /\ cancelled' = cancelled
        BY <2>1 DEF PumpHandoff
      <4>3. cancelled' \subseteq Packets
        BY <4>2, Types DEF PoolType
      <4> QED
        BY <4>1, <4>2, <4>3, EntryMoves
    <3> QED
      BY <2>1, <3>1, <3>2, Types DEF PumpHandoff, FailType
  <2>2. CASE ~EntryInit(g)
    BY <2>2, RespondErrMoves DEF PumpHandoff
  <2> QED
    BY <2>1, <2>2
<1>3. Marks(i, "gone")
  BY <1>2 DEF Marks, PumpHandoff, Turn, Outstanding
<1>4. PumpMove
  BY <1>3 DEF PumpMove, Results
<1>5. FailMove
  BY <1>2, QuietClock, Types DEF FailMove, PumpHandoff, packetVars, FailType
<1> QED
  BY <1>1, <1>2, <1>4, <1>5, StillCleanups
     DEF Move, PumpHandoff, packetVars, cleanupVars

LEMMA PumpAnswerOkMoves ==
    ASSUME CorrInv, NEW i \in Indices, PumpAnswerOk(i)
    PROVE  Move
<1> DEFINE g == Entry(i).cell
<1>1. FlowMove /\ GuardMove /\ VerdictMove /\ IngestMove
  BY StillTraffic DEF PumpAnswerOk, kernelVars, cellVars, queueVars
<1>2. lease[g] = "task" => cellst[g] = "proxy"
  BY DEF PumpAnswerOk, Turn, Outstanding, CorrInv, PhaseInv, CommitShape
<1>3. TaskMove /\ pump' = Mark(i, "gone")
  BY <1>2, RespondMoves DEF PumpAnswerOk, endpointVars
<1>4. Marks(i, "gone")
  BY <1>3 DEF Marks, PumpAnswerOk, Turn, Outstanding
<1>5. PumpMove
  BY <1>4 DEF PumpMove, Results
<1> QED
  BY <1>1, <1>3, <1>5, StillPool, StillCleanups, StillFail
     DEF Move, PumpAnswerOk, packetVars, cleanupVars, endpointVars, failVars

(* finish_armed_direct *)

LEMMA TurnFacts ==
    ASSUME NEW i, NEW rs, Turn(i, rs)
    PROVE  pump.pc = "complete" /\ i \in Indices /\ Entry(i).res \in rs
BY DEF Turn, Outstanding

LEMMA ArmedExpireMoves ==
    ASSUME CorrInv, NEW i \in Indices, ArmedExpire(i)
    PROVE  Move
<1>1. pump.pc = "complete" /\ Entry(i).res \in ArmedPhases \cup {"failArmed"}
  BY TurnFacts DEF ArmedExpire
<1>2. Aside
  BY Types DEF Aside, ArmedExpire, packetVars, queueVars, CleanupType
<1>3. CellMove /\ fatal'
  BY <1>2, EntryFacts, FailArmedMoves DEF ArmedExpire, kernelVars
<1>4. Marks(i, "refused")
  BY <1>1, <1>3 DEF Marks, ArmedExpire
<1>5. PumpMove
  BY <1>4 DEF PumpMove, Results
<1> QED
  BY <1>3, <1>5, StillTasks DEF Move, CellMove, ArmedExpire, packetVars, taskVars

LEMMA ArmedLostMoves ==
    ASSUME CorrInv, NEW i \in Indices, ArmedLost(i)
    PROVE  Move
<1>1. pump.pc = "complete" /\ Entry(i).res \in ArmedPhases \cup {"failArmed"}
  BY TurnFacts DEF ArmedLost
<1>2. FlowMove /\ GuardMove /\ VerdictMove /\ IngestMove
  BY StillTraffic DEF ArmedLost, kernelVars, cellVars, queueVars
<1>3. Marks(i, "refused")
  BY <1>1 DEF Marks, ArmedLost
<1>4. PumpMove
  BY <1>3 DEF PumpMove, Results
<1>5. FailMove
  BY QuietClock, Types DEF FailMove, ArmedLost, packetVars, FailType
<1> QED
  BY <1>2, <1>4, <1>5, StillTasks, StillPool, StillCleanups
     DEF Move, ArmedLost, packetVars, cleanupVars, endpointVars, taskVars

LEMMA ArmedTakeMoves ==
    ASSUME CorrInv, NEW i \in Indices, ArmedTake(i)
    PROVE  Move
<1> DEFINE c == Entry(i).cell
<1>1. /\ pump.pc = "complete" /\ Entry(i).res = "armed" /\ c \in Packets
  BY TurnFacts, EntryFacts DEF ArmedTake
<1>2. /\ cellst[c] = "armed" /\ taken' = [taken EXCEPT ![c] = held[c]]
      /\ held' = [held EXCEPT ![c] = <<>>] /\ pump' = Mark(i, "accept")
  BY DEF ArmedTake
<1>3. taken[c] = <<>>
  <2>1. SUFFICES ASSUME taken[c] # <<>> PROVE FALSE
    OBVIOUS
  <2>2. PICK j \in Indices : Entry(j).cell = c /\ Entry(j).res \in {"accept", "terminal", "failTerminal"}
    BY <1>1, <2>1 DEF CorrInv, TakenHasEntry
  <2>3. CASE Entry(j).res = "accept"
    <3>1. i = j
      BY <1>1, <2>2, <2>3 DEF CorrInv, ArmedEntry, ArmedPhases
    <3> QED
      BY <1>1, <2>3, <3>1
  <2>4. CASE Entry(j).res \in {"terminal", "failTerminal"}
    <3>1. cellst[c] = Entry(j).decision /\ Entry(j).decision \in Decisions
      BY <2>2, <2>4, EntryFacts DEF CorrInv, PhaseInv
    <3> QED
      BY <1>2, <3>1 DEF Decisions
  <2> QED
    BY <2>2, <2>3, <2>4
<1>4. Moves(i, c)
  BY <1>2, <1>3 DEF Moves, Marked, ArmedTake, queueVars
<1>5. Takes(c)
  BY <1>2 DEF Takes, ArmedTake, kernelVars
<1>6. FlowMove /\ GuardMove /\ IngestMove
  BY <1>1, <1>4, <1>5 DEF FlowMove, GuardMove, IngestMove, ArmedTake
<1>7. Marks(i, "accept")
  BY <1>1, <1>2, <1>4 DEF Marks, ArmedTake
<1>8. PumpMove
  BY <1>7 DEF PumpMove, Results
<1> QED
  BY <1>6, <1>8, StillVerdicts, StillTasks, StillPool, StillCleanups, StillFail
     DEF Move, ArmedTake, packetVars, cleanupVars, endpointVars, taskVars, failVars

\* The guards the pump took belong to the entry's flow.
LEMMA TakenFacts ==
    ASSUME CorrInv, NEW c \in Packets, Inside(c), NEW p \in ToSet(taken[c])
    PROVE  /\ p \in Packets /\ ptok[p] = ptok[c] /\ Undecided(p) /\ pkey[p] = pkey[c]
<1>1. p \in Packets
  BY Types, ToSetRange DEF PumpType
<1>2. ptok[p] = ptok[c] /\ Undecided(p)
  BY <1>1 DEF CorrInv, HeldShape
<1>3. ptok[c] \in Packets /\ pkey[ptok[c]] = pkey[c]
  BY InsideFacts
<1>4. Known(p)
  BY <1>1, <1>2, <1>3, NoneAssumption DEF CorrInv, PacketShape
<1> QED
  BY <1>1, <1>2, <1>3, <1>4, KnownFacts

LEMMA ArmedAcceptMoves ==
    ASSUME CorrInv, NEW i \in Indices, ArmedAccept(i)
    PROVE  Move
<1> DEFINE c == Entry(i).cell
           h == Head(taken[c])
<1>1. /\ pump.pc = "complete" /\ Entry(i).res = "accept" /\ c \in Packets /\ Inside(c)
      /\ RecordArmed(c)
  BY TurnFacts, EntryFacts DEF ArmedAccept, CorrInv, ArmedEntry, ArmedPhases
<1>2. taken[c] # <<>> /\ taken[c] \in Seq(Packets)
  BY <1>1, Types DEF ArmedAccept, PumpType
<1>3. h \in Packets /\ h \in ToSet(taken[c]) /\ ToSet(taken[c]) \subseteq Packets
  BY <1>2, ToSetTail, ToSetRange
<1>4. ptok[h] = ptok[c] /\ pkey[h] = pkey[c]
  BY <1>1, <1>3, TakenFacts
<1> HIDE DEF h
<1>5. Releases(h)
  BY <1>1, <1>2, <1>4 DEF h, Releases, RecordArmed, ArmedAccept, kernelVars
<1>6. GuardMove /\ VerdictMove /\ FailMove /\ PumpMove
  <2>1. CASE /\ verdict' = [verdict EXCEPT ![h] = "accept"]
             /\ taken' = [taken EXCEPT ![c] = Tail(@)]
             /\ UNCHANGED <<pump, fatal, faults>>
    <3>1. Settles({h}) /\ \A p \in Packets : verdict'[p] # verdict[p] => p = h /\ verdict'[p] = "accept"
      BY <1>3, <2>1, Types DEF Settles, VerdictType, Verdicts
    <3>2. taken' = [taken EXCEPT ![c] = Tail(taken[c])]
      BY <2>1
    <3>3. Shifts(c)
      BY <1>2, <3>1, <3>2 DEF Shifts, ArmedAccept, queueVars, cellVars, h
    <3>4. Drains(c)
      BY <1>2, <2>1, <3>2 DEF Drains, ArmedAccept
    <3>5. VerdictMove
      BY <1>5, <3>1, Types DEF VerdictMove, VerdictType, ArmedAccept
    <3>6. FailMove
      BY <2>1, StillFail DEF ArmedAccept, packetVars
    <3> QED
      BY <1>1, <3>3, <3>4, <3>5, <3>6 DEF GuardMove, PumpMove
  <2>2. CASE /\ faults < MaxFaults
             /\ verdict' = [q \in Packets |-> IF q = h THEN "lost"
                                              ELSE IF q \in ToSet(taken[c]) THEN "drop" ELSE verdict[q]]
             /\ taken' = [taken EXCEPT ![c] = <<>>]
             /\ pump' = Mark(i, "refused")
             /\ fatal' = TRUE /\ faults' = faults + 1
    <3>1. /\ Settles(ToSet(taken[c]))
          /\ \A p \in Packets : verdict'[p] # verdict[p] => verdict'[p] \in {"drop", "lost"}
      BY <1>3, <2>2, Types DEF Settles, VerdictType, Verdicts
    <3>2. Clears(c)
      BY <2>2, <3>1 DEF Clears, ArmedAccept, queueVars, cellVars
    <3>3. taken'[c] = <<>>
      BY <1>1, <2>2, Types DEF PumpType
    <3>4. Marks(i, "refused")
      BY <1>1, <2>2, <3>3 DEF Marks, ArmedAccept, ArmedPhases
    <3>5. VerdictMove
      BY <3>1, Types DEF VerdictMove, VerdictType, ArmedAccept
    <3>6. FailMove
      BY <2>2, OneFault, QuietClock, Types DEF FailMove, ArmedAccept, packetVars
    <3> QED
      BY <1>1, <3>2, <3>4, <3>5, <3>6 DEF GuardMove, PumpMove, Results
  <2> QED
    BY <2>1, <2>2 DEF ArmedAccept, h
<1> QED
  BY <1>6, StillFlows, StillTasks, StillPool, StillCleanups
     DEF Move, IngestMove, ArmedAccept, kernelVars, packetVars, cellVars, cleanupVars, endpointVars, taskVars

LEMMA ArmedActivateMoves ==
    ASSUME CorrInv, NEW i \in Indices, ArmedActivate(i)
    PROVE  Move
<1> DEFINE c == Entry(i).cell
<1>1. /\ pump.pc = "complete" /\ Entry(i).res = "accept" /\ c \in Packets
      /\ taken[c] = <<>> /\ held[c] = <<>> /\ cellst[c] = "armed" /\ UNCHANGED taken
  BY TurnFacts, EntryFacts DEF ArmedActivate, NothingHeld
<1>2. GuardMove /\ VerdictMove /\ IngestMove
  BY StillVerdicts DEF GuardMove, Keeps, IngestMove, ArmedActivate, queueVars
<1>3. FlowMove /\ PumpMove /\ FailMove
  <2>1. CASE RecordIs(c, "armed")
    <3>1. /\ conn' = [conn EXCEPT ![pkey[c]].st = "direct"]
          /\ cellst' = [cellst EXCEPT ![c] = "direct"]
          /\ pump' = Mark(i, "ok") /\ UNCHANGED fatal
      BY <2>1 DEF ArmedActivate, RecordIs
    <3>2. conn' = [conn EXCEPT ![pkey[c]] = [tok |-> ptok[c], st |-> "direct"]]
      <4>1. [conn[pkey[c]] EXCEPT !.st = "direct"] = [tok |-> ptok[c], st |-> "direct"]
        BY <2>1 DEF RecordIs
      <4>2. conn' = [conn EXCEPT ![pkey[c]] = [conn[pkey[c]] EXCEPT !.st = "direct"]]
        BY <3>1
      <4> QED
        BY <4>1, <4>2
    <3>3. Activates(i, c)
      BY <1>1, <2>1, <3>1, <3>2 DEF Activates, Marked, ArmedActivate
    <3>4. Marks(i, "ok")
      BY <1>1, <3>1, <3>3 DEF Marks, ArmedActivate
    <3>5. FailMove
      BY <3>1, StillFail DEF ArmedActivate, packetVars
    <3> QED
      BY <1>1, <3>3, <3>4, <3>5 DEF FlowMove, PumpMove, Results
  <2>2. CASE ~RecordIs(c, "armed")
    <3>1. pump' = Mark(i, "refused") /\ fatal' = TRUE /\ UNCHANGED <<conn, cellst>>
      BY <2>2 DEF ArmedActivate, RecordIs
    <3>2. Marks(i, "refused")
      BY <1>1, <3>1 DEF Marks, ArmedActivate, ArmedPhases
    <3>3. FailMove
      BY <3>1, QuietClock, Types DEF FailMove, ArmedActivate, packetVars, FailType
    <3> QED
      BY <3>1, <3>2, <3>3, StillFlows DEF ArmedActivate, PumpMove, Results
  <2> QED
    BY <2>1, <2>2
<1> QED
  BY <1>2, <1>3, StillTasks, StillPool, StillCleanups
     DEF Move, ArmedActivate, packetVars, cleanupVars, endpointVars, taskVars

LEMMA ArmedAgainMoves ==
    ASSUME CorrInv, NEW i \in Indices, ArmedAgain(i)
    PROVE  Move
<1>1. pump.pc = "complete" /\ Entry(i).res = "accept"
  BY TurnFacts DEF ArmedAgain
<1>2. FlowMove /\ GuardMove /\ VerdictMove /\ IngestMove
  BY StillTraffic DEF ArmedAgain, kernelVars, cellVars, queueVars
<1>3. Marks(i, "armed")
  BY <1>1 DEF Marks, ArmedAgain
<1>4. PumpMove
  BY <1>3 DEF PumpMove, Results
<1> QED
  BY <1>2, <1>4, StillTasks, StillPool, StillCleanups, StillFail
     DEF Move, ArmedAgain, packetVars, cleanupVars, endpointVars, taskVars, failVars

LEMMA PumpEndMoves ==
    ASSUME CorrInv, PumpEnd
    PROVE  Move
<1>1. FlowMove /\ GuardMove /\ VerdictMove /\ IngestMove
  BY StillTraffic DEF PumpEnd, kernelVars, cellVars, queueVars
<1>2. PumpMove
  BY DEF PumpMove, Ends, PumpEnd
<1> QED
  BY <1>1, <1>2, StillTasks, StillPool, StillCleanups, StillFail
     DEF Move, PumpEnd, packetVars, cleanupVars, endpointVars, taskVars, failVars

\* Every step on a request of the batch is on one that is there.
LEMMA PumpIndices ==
    ASSUME NEW i,
           \/ PumpExpire(i) \/ PumpRefuse(i) \/ PumpArm(i) \/ PumpTerminal(i)
           \/ PumpAnswerErr(i) \/ PumpDropTerminal(i) \/ PumpHandoff(i)
           \/ PumpAnswerOk(i) \/ ArmedExpire(i) \/ ArmedLost(i) \/ ArmedTake(i)
           \/ ArmedAccept(i) \/ ArmedActivate(i) \/ ArmedAgain(i)
    PROVE  i \in Indices
BY DEF PumpExpire, PumpRefuse, PumpArm, PumpTerminal, PumpAnswerErr, PumpDropTerminal,
       PumpHandoff, PumpAnswerOk, ArmedExpire, ArmedLost, ArmedTake, ArmedAccept,
       ArmedActivate, ArmedAgain, Turn, NextTodo, Outstanding

LEMMA PumpMoves ==
    ASSUME CorrInv, Pump
    PROVE  Move
BY PumpTakeMoves, PumpExpireMoves, PumpLockMoves, PumpUnlockMoves, PumpBatchFailsMoves,
   PumpRefuseMoves, PumpArmMoves, PumpTerminalMoves, PumpAnswerErrMoves,
   PumpDropTerminalMoves, PumpHandoffMoves, PumpAnswerOkMoves, ArmedExpireMoves,
   ArmedLostMoves, ArmedTakeMoves, ArmedAcceptMoves, ArmedActivateMoves,
   ArmedAgainMoves, PumpEndMoves, PumpIndices
   DEF Pump

-----------------------------------------------------------------------------
(* Cleanups, the watchdog and the retirement worker *)

LEMMA RequestFacts ==
    ASSUME CorrInv, NEW r \in cleanups
    PROVE  /\ r \in Requests /\ r.tok \in Packets /\ pkey[r.tok] \in Keys
           /\ ptok[r.tok] = r.tok /\ ~Fresh(r.tok)
<1>1. r \in Requests /\ r.tok \in Packets
  BY Types DEF CleanupType, Requests
<1>2. ptok[r.tok] = r.tok /\ ~Fresh(r.tok)
  BY DEF CorrInv, RequestShape
<1>3. Known(r.tok)
  BY <1>1, <1>2, NoneAssumption DEF CorrInv, PacketShape
<1> QED
  BY <1>1, <1>2, <1>3, KnownFacts

LEMMA DrainTokenMoves ==
    ASSUME CorrInv, NEW r \in cleanups, DrainToken(r)
    PROVE  Move
<1>1. r \in Requests /\ r.tok \in Packets /\ pkey[r.tok] \in Keys /\ ptok[r.tok] = r.tok /\ ~Fresh(r.tok)
  BY RequestFacts
<1>2. UNCHANGED conn \/ \E S \in SUBSET Keys : Removes(S)
  BY <1>1, RetirePendingRemoves DEF DrainToken
<1>3. FlowMove
  BY <1>2 DEF FlowMove, DrainToken, cellVars
<1>4. GuardMove /\ IngestMove
  BY DEF GuardMove, Keeps, IngestMove, DrainToken, queueVars, cellVars, pumpVars
<1>5. FailMove
  BY OneFault, StillFails, QuietClock, Types DEF FailMove, DrainToken, packetVars, failVars
<1>6. CleanupMove
  BY <1>1, Types, QuietCleanups DEF DrainToken, CleanupType
<1> QED
  BY <1>3, <1>4, <1>5, <1>6, StillVerdicts, StillRest
     DEF Move, DrainToken, packetVars, endpointVars, taskVars, pumpVars

LEMMA DrainFlowMoves ==
    ASSUME CorrInv, NEW r \in cleanups, DrainFlow(r)
    PROVE  Move
<1> DEFINE c == map[pkey[r.tok]]
           hit == c # None /\ ptok[c] = r.tok /\ cgen[c] = r.gen
<1>1. r \in Requests /\ pkey[r.tok] \in Keys
  BY RequestFacts
<1>2. Aside
  BY <1>1 DEF Aside, DrainFlow, packetVars, queueVars, pumpVars
<1>3. hit => c \in Packets
  BY <1>1, Types DEF CellType, Maybe
<1>4. CellMove
  <2>1. CASE UNCHANGED <<conn, cellst, held, cleanups, verdict, fatal, faults, ep, cancelled>>
    BY <1>2, <2>1, IdleMoves, StillPool, StillFails
  <2>2. CASE hit /\ CancelPending(c)
    BY <1>2, <1>3, <2>2, CancelPendingMoves
  <2>3. CASE hit /\ CancelFails(c)
    BY <1>2, <1>3, <2>3, CancelFailsMoves
  <2>4. CASE hit /\ ExpireUnarmed(c) /\ UNCHANGED conn
    BY <1>2, <1>3, <2>4, ExpireUnarmedMoves
  <2> QED
    BY <2>1, <2>2, <2>3, <2>4 DEF DrainFlow
<1> QED
  BY <1>4, StillPump, StillTasks DEF Move, CellMove, DrainFlow, packetVars, taskVars, pumpVars

LEMMA DrainRemoveMoves ==
    ASSUME CorrInv, DrainRemove
    PROVE  Move
<1>1. FlowMove /\ GuardMove /\ VerdictMove /\ IngestMove
  BY StillTraffic DEF DrainRemove, kernelVars, cellVars, queueVars, pumpVars
<1>2. CleanupMove
  BY Types, QuietCleanups DEF DrainRemove
<1> QED
  BY <1>1, <1>2, StillRest, StillFail
     DEF Move, DrainRemove, packetVars, endpointVars, taskVars, pumpVars, failVars

LEMMA WatchdogOverdueMoves ==
    ASSUME CorrInv, NEW c \in Packets, WatchdogOverdue(c)
    PROVE  Move
<1>1. Aside
  BY Types DEF Aside, WatchdogOverdue, packetVars, queueVars, pumpVars, CleanupType
<1>2. CellMove
  BY <1>1, ExpireUnarmedMoves DEF WatchdogOverdue, kernelVars
<1> QED
  BY <1>2, StillPump, StillTasks DEF Move, CellMove, WatchdogOverdue, packetVars, taskVars, pumpVars

\* A terminal cell leaves the map and nothing else happens.
LEMMA EvictMoves ==
    ASSUME CorrInv, NEW k \in Keys, Terminal(map[k]), map' = [map EXCEPT ![k] = None],
           UNCHANGED <<conn, packetVars, verdict, payload, queueVars, ing, cellst, held, cgen,
                       cleanupVars, endpointVars, taskVars, pumpVars, failVars>>
    PROVE  Move
<1>1. Evicts(k)
  BY DEF Evicts
<1>2. FlowMove
  BY <1>1 DEF FlowMove
<1>3. GuardMove /\ IngestMove
  BY DEF GuardMove, Keeps, IngestMove, queueVars, pumpVars
<1> QED
  BY <1>2, <1>3, StillVerdicts, StillRest, StillCleanups, StillFail
     DEF Move, packetVars, cleanupVars, endpointVars, taskVars, pumpVars, failVars

LEMMA WatchdogExpiredMoves ==
    ASSUME CorrInv, NEW k \in Keys, WatchdogExpired(k)
    PROVE  Move
BY EvictMoves DEF WatchdogExpired, kernelVars

LEMMA PoolFacts ==
    ASSUME CorrInv, NEW k \in Keys, ep[k].st # "absent"
    PROVE  /\ ep[k].gen \in Packets /\ pkey[ep[k].gen] = k /\ Inside(ep[k].gen)
           /\ ~Fresh(ptok[ep[k].gen])
<1>1. ep[k].gen # None /\ ep[k].gen \in Packets
  BY Types DEF CorrInv, EntryShape, PoolType, Maybe
<1>2. pkey[ep[k].gen] = k /\ cgen[ep[k].gen] = ep[k].gen
  BY <1>1 DEF CorrInv, EntryShape
<1>3. Inside(ep[k].gen)
  BY <1>1, <1>2 DEF CorrInv, CellShape
<1> QED
  BY <1>1, <1>2, <1>3, InsideFacts

LEMMA EndpointRetireMoves ==
    ASSUME CorrInv, NEW k \in Keys, EndpointRetire(k)
    PROVE  Move
<1>1. FlowMove /\ GuardMove /\ VerdictMove /\ IngestMove
  BY StillTraffic DEF EndpointRetire, kernelVars, cellVars, queueVars, pumpVars
<1>2. PoolMove
  BY PoolFacts, Types, RetireExactEffect DEF EndpointRetire, CorrInv
<1> QED
  BY <1>1, <1>2, StillPump, StillTasks, StillCleanups, StillFail
     DEF Move, EndpointRetire, packetVars, cleanupVars, taskVars, pumpVars, failVars

LEMMA RetireWorkerMoves ==
    ASSUME CorrInv, NEW k \in Keys, RetireWorker(k)
    PROVE  Move
<1> DEFINE mine == conn[k].tok = ptok[ep[k].gen]
<1>1. ep[k].st # "absent" /\ ~Fresh(ptok[ep[k].gen])
  BY PoolFacts DEF RetireWorker
<1>2. FlowMove /\ PoolMove /\ fatal' \in BOOLEAN /\ (fatal => fatal')
  <2>1. CASE mine /\ conn[k].st \notin UserspaceOwned
    <3>1. ep' = [ep EXCEPT ![k].st = "stuck"] /\ fatal' = TRUE /\ UNCHANGED conn
      BY <2>1 DEF RetireWorker
    <3>2. PoolMove
      BY <1>1, <3>1, EntryMoves, Types DEF EntryStates, RetireWorker, PoolType
    <3> QED
      BY <3>1, <3>2, StillFlows DEF RetireWorker, cellVars
  <2>2. CASE ~(mine /\ conn[k].st \notin UserspaceOwned)
    <3>1. /\ ep' = [ep EXCEPT ![k] = [gen |-> None, st |-> "absent"]]
          /\ conn' = IF mine THEN [conn EXCEPT ![k] = Absent] ELSE conn
          /\ UNCHANGED fatal
      BY <2>2 DEF RetireWorker
    <3>2. PoolMove
      BY <3>1, Types DEF PoolMove, RetireWorker, PoolType
    <3>3. FlowMove
      <4>1. CASE mine
        <5>1. conn[k].st \in {"pending", "proxy"} /\ ~Fresh(conn[k].tok)
          BY <1>1, <2>2, <4>1 DEF UserspaceOwned
        <5>2. conn' = [j \in Keys |-> IF j \in {k} THEN Absent ELSE conn[j]]
          BY <3>1, <4>1, Types DEF RecordType
        <5>3. Removes({k})
          BY <5>1, <5>2 DEF Removes, Removable
        <5> QED
          BY <5>3 DEF FlowMove, RetireWorker, cellVars
      <4>2. CASE ~mine
        BY <3>1, <4>2, StillFlows DEF RetireWorker, cellVars
      <4> QED
        BY <4>1, <4>2
    <3> QED
      BY <3>1, <3>2, <3>3, Types DEF FailType
  <2> QED
    BY <2>1, <2>2
<1>3. GuardMove /\ IngestMove
  BY DEF GuardMove, Keeps, IngestMove, RetireWorker, queueVars, cellVars, pumpVars
<1>4. FailMove
  BY <1>2, QuietClock, Types DEF FailMove, RetireWorker, packetVars, FailType
<1> QED
  BY <1>2, <1>3, <1>4, StillVerdicts, StillPump, StillTasks, StillCleanups
     DEF Move, RetireWorker, packetVars, cleanupVars, taskVars, pumpVars

LEMMA RetireHandoffMoves ==
    ASSUME CorrInv, NEW k \in Keys, RetireHandoff(k)
    PROVE  Move
<1>1. FlowMove /\ GuardMove /\ VerdictMove /\ IngestMove
  BY StillTraffic DEF RetireHandoff, kernelVars, cellVars, queueVars, pumpVars
<1>2. PoolMove
  BY Types DEF PoolMove, RetireHandoff, PoolType
<1> QED
  BY <1>1, <1>2, StillPump, StillTasks, StillCleanups, StillFail
     DEF Move, RetireHandoff, packetVars, cleanupVars, taskVars, pumpVars, failVars

-----------------------------------------------------------------------------
(* Reload *)

\* A step of the reload that touches only the flags.
LEMMA FlagMoves ==
    ASSUME CorrInv,
           UNCHANGED <<conn, packetVars, verdict, payload, queueVars, ing, cellVars,
                       cleanupVars, endpointVars, task, lease, pumpVars, failVars>>,
           stale' \subseteq Packets
    PROVE  Move
<1>1. FlowMove /\ GuardMove /\ VerdictMove /\ IngestMove
  BY StillTraffic DEF cellVars, queueVars, pumpVars
<1>2. TaskMove
  BY Types DEF TaskMove, PoolType, endpointVars
<1> QED
  BY <1>1, <1>2, StillPump, StillPool, StillCleanups, StillFail
     DEF Move, packetVars, cleanupVars, endpointVars, pumpVars, failVars

LEMMA FenceMoves ==
    ASSUME CorrInv, Fence
    PROVE  Move
<1> DEFINE S == {k \in Keys : conn[k].st = "pending"}
<1>1. Removes(S)
  BY DEF Removes, Removable, Fence
<1>2. S \in SUBSET Keys
  OBVIOUS
<1>3. FlowMove
  BY <1>1, <1>2 DEF FlowMove, Fence, cellVars
<1>4. GuardMove /\ IngestMove
  BY DEF GuardMove, Keeps, IngestMove, Fence, queueVars, cellVars, pumpVars
<1> QED
  BY <1>3, <1>4, StillVerdicts, StillRest, StillCleanups, StillFail
     DEF Move, Fence, packetVars, cleanupVars, endpointVars, taskVars, pumpVars, failVars

LEMMA CancelAllPendingMoves ==
    ASSUME CorrInv, NEW c \in Packets, CancelAllPending(c)
    PROVE  Move
<1>1. Aside
  BY Types DEF Aside, CancelAllPending, packetVars, queueVars, pumpVars, CleanupType
<1>2. CellMove
  BY <1>1, CancelPendingMoves, ExpireCommitMoves DEF CancelAllPending, Inserted, Inside
<1> QED
  BY <1>2, StillPump, StillTasks DEF Move, CellMove, CancelAllPending, packetVars, taskVars, pumpVars

LEMMA ReloadMoves ==
    ASSUME CorrInv, Reload
    PROVE  Move
<1>1. stale \subseteq Packets /\ stale \cup Initializing \subseteq Packets
  BY Types DEF TaskType, Initializing
<1>2. CASE CloseGate
  BY <1>1, <1>2, FlagMoves DEF CloseGate, kernelVars, taskVars
<1>3. CASE GateClosed
  BY <1>1, <1>3, FlagMoves DEF GateClosed, kernelVars, taskVars
<1>4. CASE CancelInitializers
  BY <1>1, <1>4, FlagMoves DEF CancelInitializers, kernelVars
<1>5. CASE Wait
  BY <1>1, <1>5, FlagMoves DEF Wait, kernelVars, taskVars
<1>6. CASE OpenGate
  BY <1>1, <1>6, FlagMoves DEF OpenGate, kernelVars, taskVars
<1>7. CASE Reopen
  BY <1>1, <1>7, FlagMoves DEF Reopen, taskVars
<1>8. ASSUME NEW k \in Keys, CancelAllRemove(k) PROVE Move
  BY <1>8, EvictMoves DEF CancelAllRemove, kernelVars
<1> QED
  BY <1>2, <1>3, <1>4, <1>5, <1>6, <1>7, <1>8, CancelAllPendingMoves DEF Reload

\* Every step is a kernel ingress or obeys the contracts.
LEMMA NextMoves ==
    ASSUME CorrInv, Next
    PROVE  Move \/ \E p \in Packets, k \in Keys : KernelIngress(p, k)
BY ConnExpireMoves, TickMoves, ListenerDeliverMoves, ListenerRejectMoves, IngestMoves,
   InitializerMoves, PumpMoves, DrainTokenMoves, DrainFlowMoves, DrainRemoveMoves,
   WatchdogOverdueMoves, WatchdogExpiredMoves, EndpointRetireMoves, RetireWorkerMoves,
   RetireHandoffMoves, FenceMoves, ReloadMoves
   DEF Next, Listener, Drain, Watchdog, Retirement

-----------------------------------------------------------------------------
(* The contracts preserve the invariant: the types *)

LEMMA FlowTypes ==
    ASSUME CorrInv, FlowMove
    PROVE  RecordType' /\ CellType'
<1>1. RecordType /\ CellType /\ IdentityType
  BY Types
<1>2. CASE UNCHANGED <<conn, map, cellst, held, cgen>>
  BY <1>1, <1>2 DEF RecordType, CellType
<1>3. ASSUME NEW S \in SUBSET Keys, Removes(S) PROVE RecordType'
  BY <1>1, <1>3 DEF RecordType, Removes, Absent, ConnStates, Maybe
<1>4. ASSUME NEW k \in Keys, Evicts(k) PROVE RecordType' /\ CellType'
  BY <1>1, <1>4 DEF RecordType, CellType, Evicts, Maybe
<1>5. ASSUME NEW p \in Packets, NEW st \in CellStates, NEW g \in Maybe, NEW h \in Seq(Packets),
             Creates(p, st, g, h)
      PROVE  RecordType' /\ CellType'
  BY <1>1, <1>5 DEF RecordType, CellType, Creates, Maybe
<1>6. ASSUME NEW c \in Packets, NEW st \in CellStates, NEW h \in Seq(Packets), Sinks(c, st, h)
      PROVE  RecordType' /\ CellType'
  BY <1>1, <1>3, <1>6 DEF RecordType, CellType, Sinks
<1>7. ASSUME NEW c \in Packets, Fails(c) PROVE RecordType' /\ CellType'
  BY <1>1, <1>7 DEF RecordType, CellType, Fails, CellStates
<1>8. ASSUME NEW c \in Packets, Holds(c) PROVE RecordType' /\ CellType'
  <2>1. Append(held[c], ing.p) \in Seq(Packets)
    BY <1>1, <1>8 DEF Holds, CellType
  <2> QED
    BY <1>1, <1>8, <2>1 DEF RecordType, CellType, Holds
<1>9. ASSUME NEW c \in Packets, NEW i \in Indices, NEW st \in CellStates, Decides(i, c, st)
      PROVE  RecordType' /\ CellType'
  <2>1. Inside(c)
    BY <1>9 DEF Decides, Inside
  <2>2. [tok |-> ptok[c], st |-> st] \in [tok : Maybe, st : ConnStates]
    BY <2>1, <1>9, InsideFacts DEF Decides, ConnStates, Maybe
  <2>3. RecordType'
    BY <1>1, <1>9, <2>2 DEF RecordType, Decides
  <2>4. (IF st = "armed" THEN held[c] ELSE <<>>) \in Seq(Packets)
    BY <1>1 DEF CellType
  <2>5. held' \in [Packets -> Seq(Packets)]
    BY <1>1, <1>9, <2>4 DEF CellType, Decides
  <2> QED
    BY <1>1, <1>9, <2>3, <2>5 DEF CellType, Decides
<1>10. ASSUME NEW c \in Packets, Takes(c) PROVE RecordType' /\ CellType'
  BY <1>1, <1>10 DEF RecordType, CellType, Takes
<1>11. ASSUME NEW c \in Packets, NEW i \in Indices, Activates(i, c) PROVE RecordType' /\ CellType'
  <2>1. Inside(c)
    BY <1>11 DEF Activates, Inside
  <2>2. [tok |-> ptok[c], st |-> "direct"] \in [tok : Maybe, st : ConnStates]
    BY <2>1, InsideFacts DEF ConnStates, Maybe
  <2> QED
    BY <1>1, <1>11, <2>2 DEF RecordType, CellType, Activates, CellStates
<1> QED
  BY <1>1, <1>2, <1>3, <1>4, <1>5, <1>6, <1>7, <1>8, <1>9, <1>10, <1>11
     DEF FlowMove, CellType

LEMMA GuardTypes ==
    ASSUME CorrInv, GuardMove, VerdictMove, IngestMove
    PROVE  VerdictType' /\ TransitType'
<1>1. VerdictType /\ TransitType /\ CellType
  BY Types
<1>2. verdict' \in [Packets -> Verdicts]
  BY <1>1 DEF VerdictType, GuardMove, Keeps, Delivers, Rejects, Refuses, Starts, Finishes,
         Stores, Empties, Shifts, Clears, Moves, Settles
<1>3. VerdictType'
  BY <1>2 DEF VerdictType, VerdictMove
<1>4. wire' \in Seq(Packets) /\ queue' \in Seq(Packets)
  <2>1. wire # <<>> => Tail(wire) \in Seq(Packets) /\ Append(queue, Head(wire)) \in Seq(Packets)
    BY <1>1 DEF TransitType
  <2>2. queue # <<>> => Tail(queue) \in Seq(Packets)
    BY <1>1 DEF TransitType
  <2> QED
    BY <1>1, <2>1, <2>2 DEF TransitType, GuardMove, Keeps, Delivers, Rejects, Refuses, Starts,
           Finishes, Stores, Empties, Shifts, Clears, Moves
<1>5. ing' \in [pc : IngestPcs, p : Maybe, c : Maybe]
  <2>1. queue # <<>> => Head(queue) \in Packets
    BY <1>1 DEF TransitType
  <2> QED
    BY <1>1, <2>1 DEF TransitType, IngestMove, Idle, IngestPcs, Maybe
<1> QED
  BY <1>3, <1>4, <1>5 DEF TransitType

\* What marking one request does to the batch.
LEMMA MarkFacts ==
    ASSUME CorrInv, NEW i \in Indices, NEW r \in Results, pump' = Mark(i, r)
    PROVE  /\ pump' \in [pc : PumpPcs, batch : Seq(Commits)]
           /\ pump'.pc = pump.pc /\ Len(pump'.batch) = Len(pump.batch)
           /\ pump'.batch[i] = [cell |-> Entry(i).cell, decision |-> Entry(i).decision, res |-> r]
           /\ \A j \in Indices : j # i => pump'.batch[j] = Entry(j)
<1> DEFINE b == pump.batch
           e == [cell |-> Entry(i).cell, decision |-> Entry(i).decision, res |-> r]
<1>1. pump \in [pc : PumpPcs, batch : Seq(Commits)] /\ Indices = 1..Len(b) /\ Entry(i) = b[i]
  BY Types DEF PumpType, Indices, Entry
<1>2. e \in Commits
  BY EntryFacts DEF Commits
<1>3. [b[i] EXCEPT !.res = r] = e
  BY <1>1, EntryFacts DEF Commits
<1>4. pump' = [pump EXCEPT !.batch = [b EXCEPT ![i] = [b[i] EXCEPT !.res = r]]]
  BY DEF Mark
<1>5. pump' = [pump EXCEPT !.batch = [b EXCEPT ![i] = e]]
  BY <1>3, <1>4
<1> HIDE DEF e
<1>6. /\ [b EXCEPT ![i] = e] \in Seq(Commits) /\ Len([b EXCEPT ![i] = e]) = Len(b)
      /\ [b EXCEPT ![i] = e][i] = e
      /\ \A j \in Indices : j # i => [b EXCEPT ![i] = e][j] = b[j]
  BY <1>1, <1>2
<1>7. pump'.batch = [b EXCEPT ![i] = e] /\ pump'.pc = pump.pc
  BY <1>1, <1>5
<1>8. pump' \in [pc : PumpPcs, batch : Seq(Commits)]
  BY <1>1, <1>5, <1>6
<1>9. \A j \in Indices : Entry(j) = b[j]
  BY DEF Entry
<1> QED
  BY <1>6, <1>7, <1>8, <1>9 DEF e

LEMMA PumpTypes ==
    ASSUME CorrInv, PumpMove
    PROVE  PumpType'
<1>1. PumpType /\ CellType
  BY Types
<1>2. CASE UNCHANGED <<commits, pump, taken>>
  BY <1>1, <1>2 DEF PumpType
<1>3. ASSUME NEW g \in Packets, Submits(g) PROVE PumpType'
  <2>1. [cell |-> g, decision |-> task[g], res |-> "todo"] \in Commits
    BY <1>3 DEF Submits, Commits, Results
  <2>2. Append(commits, [cell |-> g, decision |-> task[g], res |-> "todo"]) \in Seq(Commits)
    BY <1>1, <2>1 DEF PumpType
  <2> QED
    BY <1>1, <1>3, <2>2 DEF PumpType, Submits
<1>4. ASSUME NEW n \in 1..MaxBatch, Fetches(n) PROVE PumpType'
  <2>1. Len(commits) \in Nat /\ n \in 1..Len(commits) /\ commits \in Seq(Commits)
    BY <1>1, <1>4 DEF Fetches, PumpType
  <2>2. SubSeq(commits, 1, n) \in Seq(Commits) /\ SubSeq(commits, n + 1, Len(commits)) \in Seq(Commits)
    BY <2>1, SubSeqProperties
  <2> QED
    BY <1>1, <1>4, <2>2 DEF PumpType, Fetches, PumpPcs
<1>5. ASSUME NEW pc \in {"apply", "complete"}, NEW b \in Seq(Commits), Sweeps(pc, b) PROVE PumpType'
  BY <1>1, <1>5 DEF PumpType, Sweeps, PumpPcs
<1>6. ASSUME NEW i \in Indices, NEW r \in Results, Marks(i, r) PROVE PumpType'
  <2>1. pump' \in [pc : PumpPcs, batch : Seq(Commits)] /\ commits' = commits
    BY <1>6, MarkFacts DEF Marks
  <2>2. \/ UNCHANGED taken \/ taken' = [taken EXCEPT ![Entry(i).cell] = <<>>]
        \/ taken' = [taken EXCEPT ![Entry(i).cell] = held[Entry(i).cell]]
    BY <1>6 DEF Marks, Moves
  <2>3. Entry(i).cell \in Packets /\ held[Entry(i).cell] \in Seq(Packets) /\ <<>> \in Seq(Packets)
    BY <1>1, EntryFacts DEF CellType
  <2>4. taken' \in [Packets -> Seq(Packets)]
    BY <1>1, <2>2, <2>3 DEF PumpType
  <2> QED
    BY <1>1, <2>1, <2>4 DEF PumpType
<1>7. CASE Ends
  BY <1>1, <1>7 DEF PumpType, Ends, PumpPcs
<1>8. ASSUME NEW c \in Packets, Drains(c) PROVE PumpType'
  <2>1. Tail(taken[c]) \in Seq(Packets)
    BY <1>1, <1>8 DEF PumpType, Drains
  <2> QED
    BY <1>1, <1>8, <2>1 DEF PumpType, Drains
<1> QED
  BY <1>2, <1>3, <1>4, <1>5, <1>6, <1>7, <1>8 DEF PumpMove

LEMMA TypeKept ==
    ASSUME CorrInv, Move, CtlType'
    PROVE  TypeOK'
<1>1. /\ IdentityType /\ PoolType /\ TaskType
  BY Types
<1>2. RecordType' /\ CellType' /\ VerdictType' /\ TransitType' /\ PumpType'
  BY FlowTypes, GuardTypes, PumpTypes DEF Move
<1>3. IdentityType' /\ ClockType' /\ FailType' /\ CleanupType'
  BY <1>1 DEF Move, FailMove, CleanupMove, IdentityType, ClockType, FailType, CleanupType
<1>4. TaskType' /\ served' \subseteq Packets
  BY <1>1 DEF Move, TaskMove, TaskType
<1>5. ep' \in [Keys -> [gen : Maybe, st : EntryStates]] /\ cancelled' \subseteq Packets
  <2>1. ep \in [Keys -> [gen : Maybe, st : EntryStates]] /\ PoolMove
    BY <1>1 DEF Move, PoolType
  <2>2. ASSUME NEW k \in Keys, NEW s \in EntryStates,
               ep' = [ep EXCEPT ![k] = [gen |-> ep[k].gen, st |-> s]]
        PROVE  ep' \in [Keys -> [gen : Maybe, st : EntryStates]]
    BY <2>1, <2>2
  <2>3. ASSUME NEW k, NEW g \in Maybe, NEW s \in {"absent", "init"},
               ep' = [ep EXCEPT ![k] = [gen |-> g, st |-> s]]
        PROVE  ep' \in [Keys -> [gen : Maybe, st : EntryStates]]
    <3>1. [gen |-> g, st |-> s] \in [gen : Maybe, st : EntryStates]
      BY DEF EntryStates
    <3> QED
      BY <2>1, <2>3, <3>1
  <2> QED
    BY <2>1, <2>2, <2>3 DEF PoolMove, Maybe
<1>6. PoolType'
  BY <1>4, <1>5 DEF PoolType
<1>7. (TypeOK <=> /\ IdentityType /\ RecordType /\ ClockType /\ VerdictType
                  /\ TransitType /\ CellType /\ CleanupType /\ PoolType
                  /\ TaskType /\ PumpType /\ CtlType /\ FailType)'
  BY TypeParts, PTL
<1> QED
  BY <1>2, <1>3, <1>4, <1>6, <1>7

-----------------------------------------------------------------------------
(* The contracts preserve the invariant: who owns a guard *)

\* Guards only go forward, from the wire through the queue and the actor's hand
\* to a cell and from there to the pump; what is settled leaves.
GuardFlow ==
    /\ \A p \in ToSet(wire') : p \in ToSet(wire)
    /\ \A p \in ToSet(queue') :
          p \in ToSet(queue) \/ (p \in ToSet(wire) /\ p \notin ToSet(wire'))
    /\ ing'.p # None => \/ ing'.p = ing.p
                        \/ ing.p = None /\ ing'.p \in ToSet(queue) /\ ing'.p \notin ToSet(queue')
    /\ \A c \in Packets : \A p \in ToSet(held'[c]) :
          p \in ToSet(held[c]) \/ (p = ing.p /\ ing'.p = None /\ ptok[p] = ptok[c])
    /\ \A c, d \in Packets : ing.p \in ToSet(held'[c]) /\ ing.p \in ToSet(held'[d]) => c = d
    /\ \A c \in Packets : \A p \in ToSet(taken'[c]) :
          p \in ToSet(taken[c]) \/ (p \in ToSet(held[c]) /\ held'[c] = <<>>)
    /\ Distinct(wire') /\ Distinct(queue')
    /\ \A c \in Packets : Distinct(held'[c]) /\ Distinct(taken'[c])
GuardSettles ==
    \A p \in Packets :
        /\ verdict'[p] # verdict[p] => Known(p) /\ Undecided(p) /\ verdict'[p] # "none"
        /\ p \in ToSet(wire') \/ p \in ToSet(queue') \/ ing'.p = p => verdict'[p] = "none"
        /\ \A c \in Packets : p \in ToSet(held'[c]) \/ p \in ToSet(taken'[c]) => verdict'[p] = "none"
        /\ Known(p) /\ verdict'[p] = "none" =>
              \/ p \in ToSet(wire') \/ p \in ToSet(queue') \/ ing'.p = p
              \/ \E c \in Packets : p \in ToSet(held'[c]) \/ p \in ToSet(taken'[c])

LEMMA OwnerTypes ==
    ASSUME CorrInv
    PROVE  /\ wire \in Seq(Packets) /\ queue \in Seq(Packets) /\ ing.p \in Maybe
           /\ held \in [Packets -> Seq(Packets)] /\ taken \in [Packets -> Seq(Packets)]
           /\ ToSet(wire) \subseteq Packets /\ ToSet(queue) \subseteq Packets
           /\ \A c \in Packets : ToSet(held[c]) \subseteq Packets /\ ToSet(taken[c]) \subseteq Packets
<1>1. /\ wire \in Seq(Packets) /\ queue \in Seq(Packets) /\ ing.p \in Maybe
      /\ held \in [Packets -> Seq(Packets)] /\ taken \in [Packets -> Seq(Packets)]
  BY Types DEF TransitType, CellType, PumpType
<1> QED
  BY <1>1, ToSetRange

LEMMA OwnerFacts ==
    ASSUME CorrInv
    PROVE  /\ Distinct(wire) /\ Distinct(queue)
           /\ \A c \in Packets : Distinct(held[c]) /\ Distinct(taken[c])
           /\ \A p \in ToSet(wire) : p \notin ToSet(queue) /\ p # ing.p
           /\ \A p \in ToSet(queue) : p # ing.p
           /\ \A c, d \in Packets : \A p \in ToSet(held[c]) : p \in ToSet(held[d]) => c = d
           /\ \A c, d \in Packets : \A p \in ToSet(taken[c]) : p \in ToSet(taken[d]) => c = d
           /\ \A c, d \in Packets : \A p \in ToSet(held[c]) : p \notin ToSet(taken[d])
           /\ \A p \in Packets : Known(p) /\ Undecided(p) =>
                 \/ p \in ToSet(wire) \/ p \in ToSet(queue) \/ ing.p = p
                 \/ \E c \in Packets : p \in ToSet(held[c]) \/ p \in ToSet(taken[c])
           /\ \A p \in Packets : p \in ToSet(wire) \/ p \in ToSet(queue) \/ ing.p = p =>
                 Known(p) /\ Undecided(p)
           /\ \A c \in Packets : \A p \in Packets :
                 p \in ToSet(held[c]) \/ p \in ToSet(taken[c]) =>
                    /\ Known(p) /\ Undecided(p) /\ ptok[p] = ptok[c]
                    /\ p \notin ToSet(wire) /\ p \notin ToSet(queue) /\ p # ing.p
<1>1. ASSUME NEW c \in Packets, NEW p \in Packets, p \in ToSet(held[c]) \/ p \in ToSet(taken[c])
      PROVE  /\ Known(p) /\ Undecided(p) /\ ptok[p] = ptok[c]
             /\ p \notin ToSet(wire) /\ p \notin ToSet(queue) /\ p # ing.p
  <2>1. ptok[p] = ptok[c] /\ Undecided(p) /\ ~Transit(p)
    BY <1>1 DEF CorrInv, HeldShape
  <2>2. held[c] # <<>> \/ taken[c] # <<>>
    BY <1>1, ToSetEmpty
  <2>3. Inside(c)
    BY <2>2 DEF CorrInv, CellShape, Inside, IsPending, Unarmed
  <2>4. ptok[c] \in Packets
    BY <2>3, InsideFacts
  <2>5. Known(p)
    BY <2>1, <2>4, NoneAssumption DEF CorrInv, PacketShape
  <2> QED
    BY <2>1, <2>5 DEF Transit
<1>2. \A p \in Packets : p \in ToSet(wire) \/ p \in ToSet(queue) \/ ing.p = p => Known(p) /\ Undecided(p)
  BY DEF CorrInv, TransitShape, Transit
<1>3. \A p \in Packets : Known(p) /\ Undecided(p) =>
         \/ p \in ToSet(wire) \/ p \in ToSet(queue) \/ ing.p = p
         \/ \E c \in Packets : p \in ToSet(held[c]) \/ p \in ToSet(taken[c])
  BY DEF CorrInv, OwnerInv, Transit
<1> QED
  BY <1>1, <1>2, <1>3 DEF CorrInv, OwnerInv

LEMMA KeepsFlow ==
    ASSUME CorrInv, Keeps
    PROVE  GuardFlow /\ GuardSettles
BY OwnerTypes, OwnerFacts, NoneAssumption DEF Keeps, GuardFlow, GuardSettles, Undecided, Maybe

LEMMA DeliversFlow ==
    ASSUME CorrInv, Delivers
    PROVE  GuardFlow /\ GuardSettles
<1> DEFINE h == Head(wire)
<1>1. /\ h \in Packets /\ h \in ToSet(wire) /\ wire' = Tail(wire) /\ queue' = Append(queue, h)
      /\ ToSet(wire) = ToSet(wire') \cup {h} /\ Distinct(wire') /\ h \notin ToSet(wire')
  BY OwnerTypes, OwnerFacts, ToSetTail DEF Delivers
<1>2. h \notin ToSet(queue)
  BY <1>1, OwnerFacts
<1> HIDE DEF h
<1>3. ToSet(queue') = ToSet(queue) \cup {h} /\ Distinct(queue')
  BY <1>1, <1>2, OwnerTypes, OwnerFacts, ToSetAppend
<1>4. UNCHANGED <<verdict, held, taken>> /\ ing'.p = ing.p
  BY DEF Delivers
<1>5. GuardFlow
  BY <1>1, <1>3, <1>4, OwnerTypes, OwnerFacts DEF GuardFlow, Maybe
<1>6. GuardSettles
  BY <1>1, <1>3, <1>4, OwnerFacts DEF GuardSettles, Undecided
<1> QED
  BY <1>5, <1>6

LEMMA RejectsFlow ==
    ASSUME CorrInv, Rejects
    PROVE  GuardFlow /\ GuardSettles
<1> DEFINE h == Head(wire)
<1>1. /\ h \in Packets /\ h \in ToSet(wire) /\ Settles({h})
      /\ ToSet(wire) = ToSet(wire') \cup {h} /\ Distinct(wire') /\ h \notin ToSet(wire')
  BY OwnerTypes, OwnerFacts, ToSetTail DEF Rejects
<1> HIDE DEF h
<1>2. UNCHANGED <<queue, held, taken>> /\ ing'.p = ing.p
  BY DEF Rejects
<1>3. GuardFlow
  BY <1>1, <1>2, OwnerTypes, OwnerFacts DEF GuardFlow, Maybe
<1>4. GuardSettles
  BY <1>1, <1>2, OwnerFacts DEF GuardSettles, Settles, Undecided
<1> QED
  BY <1>3, <1>4

LEMMA RefusesFlow ==
    ASSUME CorrInv, Refuses
    PROVE  GuardFlow /\ GuardSettles
<1> DEFINE h == Head(queue)
<1>1. /\ h \in Packets /\ h \in ToSet(queue) /\ Settles({h})
      /\ ToSet(queue) = ToSet(queue') \cup {h} /\ Distinct(queue') /\ h \notin ToSet(queue')
  BY OwnerTypes, OwnerFacts, ToSetTail DEF Refuses
<1> HIDE DEF h
<1>2. UNCHANGED <<wire, held, taken>> /\ ing'.p = ing.p
  BY DEF Refuses
<1>3. GuardFlow
  BY <1>1, <1>2, OwnerTypes, OwnerFacts DEF GuardFlow, Maybe
<1>4. GuardSettles
  BY <1>1, <1>2, OwnerFacts DEF GuardSettles, Settles, Undecided
<1> QED
  BY <1>3, <1>4

LEMMA StartsFlow ==
    ASSUME CorrInv, Starts
    PROVE  GuardFlow /\ GuardSettles
<1> DEFINE h == Head(queue)
<1>1. /\ h \in Packets /\ h \in ToSet(queue) /\ ing'.p = h /\ ing.p = None
      /\ ToSet(queue) = ToSet(queue') \cup {h} /\ Distinct(queue') /\ h \notin ToSet(queue')
  BY OwnerTypes, OwnerFacts, ToSetTail DEF Starts
<1> HIDE DEF h
<1>2. UNCHANGED <<verdict, wire, held, taken>>
  BY DEF Starts
<1>3. GuardFlow
  BY <1>1, <1>2, OwnerTypes, OwnerFacts, NoneAssumption DEF GuardFlow
<1>4. GuardSettles
  BY <1>1, <1>2, OwnerFacts, NoneAssumption DEF GuardSettles, Undecided
<1> QED
  BY <1>3, <1>4

LEMMA FinishesFlow ==
    ASSUME CorrInv, Finishes
    PROVE  GuardFlow /\ GuardSettles
<1>1. GuardFlow
  BY OwnerTypes, OwnerFacts DEF GuardFlow, Finishes
<1>2. GuardSettles
  BY OwnerFacts, NoneAssumption DEF GuardSettles, Finishes, Settles, Undecided
<1> QED
  BY <1>1, <1>2

LEMMA StoresFlow ==
    ASSUME CorrInv, NEW c \in Packets, Stores(c)
    PROVE  GuardFlow /\ GuardSettles
<1> DEFINE q == ing.p
<1>1. /\ q \in Packets /\ ing'.p = None /\ ptok[q] = ptok[c] /\ UNCHANGED <<verdict, wire, queue, taken>>
      /\ held' = [held EXCEPT ![c] = Append(held[c], q)]
  BY DEF Stores
<1>2. q \notin ToSet(held[c])
  BY <1>1, OwnerFacts
<1>3. held'[c] = Append(held[c], q) /\ \A d \in Packets : d # c => held'[d] = held[d]
  BY <1>1, OwnerTypes
<1>4. ToSet(Append(held[c], q)) = ToSet(held[c]) \cup {q} /\ Distinct(Append(held[c], q))
  BY <1>1, <1>2, OwnerTypes, OwnerFacts, ToSetAppend
<1>5. ToSet(held'[c]) = ToSet(held[c]) \cup {q} /\ Distinct(held'[c])
  BY <1>3, <1>4
<1>6. GuardFlow
  BY <1>1, <1>3, <1>5, OwnerTypes, OwnerFacts DEF GuardFlow
<1>7. GuardSettles
  BY <1>1, <1>3, <1>5, OwnerFacts, NoneAssumption DEF GuardSettles, Undecided
<1> QED
  BY <1>6, <1>7

LEMMA EmptiesFlow ==
    ASSUME CorrInv, NEW c \in Packets, Empties(c)
    PROVE  GuardFlow /\ GuardSettles
<1>1. UNCHANGED <<wire, queue, taken>> /\ held' = [held EXCEPT ![c] = <<>>]
  BY DEF Empties
<1>2. held'[c] = <<>> /\ \A d \in Packets : d # c => held'[d] = held[d]
  BY <1>1, OwnerTypes
<1>3. ToSet(held'[c]) = {} /\ Distinct(held'[c])
  BY <1>2, ToSetEmpty DEF Distinct
<1>4. \/ ing'.p = ing.p /\ Settles(ToSet(held[c]))
      \/ ing.p \in Packets /\ ing'.p = None /\ Settles(ToSet(held[c]) \cup {ing.p})
  BY DEF Empties
<1>5. GuardFlow
  BY <1>1, <1>2, <1>3, <1>4, OwnerTypes, OwnerFacts DEF GuardFlow, Maybe
<1>6. ASSUME ing'.p = ing.p, Settles(ToSet(held[c])) PROVE GuardSettles
  <2> SUFFICES ASSUME NEW p \in Packets
               PROVE  /\ verdict'[p] # verdict[p] => Known(p) /\ Undecided(p) /\ verdict'[p] # "none"
                      /\ p \in ToSet(wire') \/ p \in ToSet(queue') \/ ing'.p = p => verdict'[p] = "none"
                      /\ \A d \in Packets : p \in ToSet(held'[d]) \/ p \in ToSet(taken'[d]) => verdict'[p] = "none"
                      /\ Known(p) /\ verdict'[p] = "none" =>
                            \/ p \in ToSet(wire') \/ p \in ToSet(queue') \/ ing'.p = p
                            \/ \E d \in Packets : p \in ToSet(held'[d]) \/ p \in ToSet(taken'[d])
    BY DEF GuardSettles
  <2>1. verdict'[p] # verdict[p] => Known(p) /\ Undecided(p) /\ verdict'[p] # "none"
    BY <1>1, <1>2, <1>3, <1>6, OwnerFacts DEF Settles, Undecided
  <2>2. p \in ToSet(wire') \/ p \in ToSet(queue') \/ ing'.p = p => verdict'[p] = "none"
    BY <1>1, <1>2, <1>3, <1>6, OwnerFacts, NoneAssumption DEF Settles, Undecided
  <2>3. \A d \in Packets : p \in ToSet(held'[d]) \/ p \in ToSet(taken'[d]) => verdict'[p] = "none"
    <3> SUFFICES ASSUME NEW d \in Packets, p \in ToSet(held'[d]) \/ p \in ToSet(taken'[d])
                 PROVE  verdict'[p] = "none"
      OBVIOUS
    <3>1. p \in ToSet(taken[d]) \/ (d # c /\ p \in ToSet(held[d]))
      BY <1>1, <1>2, <1>3
    <3>2. Undecided(p) /\ p \notin ToSet(held[c])
      BY <3>1, OwnerFacts
    <3> QED
      BY <1>6, <3>2 DEF Settles, Undecided
  <2>4. ASSUME Known(p), verdict'[p] = "none"
        PROVE  \/ p \in ToSet(wire') \/ p \in ToSet(queue') \/ ing'.p = p
               \/ \E d \in Packets : p \in ToSet(held'[d]) \/ p \in ToSet(taken'[d])
    <3>1. Undecided(p)
      BY <2>1, <2>4 DEF Undecided
    <3>2. CASE p \in ToSet(wire) \/ p \in ToSet(queue) \/ ing.p = p
      BY <2>4, <3>2, <1>1, <1>2, <1>3, <1>6 DEF Settles, Undecided
    <3>3. ASSUME NEW d \in Packets, p \in ToSet(held[d]) \/ p \in ToSet(taken[d])
          PROVE  \E x \in Packets : p \in ToSet(held'[x]) \/ p \in ToSet(taken'[x])
      BY <2>4, <3>3, <1>1, <1>2, <1>3, <1>6 DEF Settles, Undecided
    <3> QED
      BY <2>4, <3>1, <3>2, <3>3, OwnerFacts
  <2> QED
    BY <2>1, <2>2, <2>3, <2>4
<1>7. ASSUME ing.p \in Packets, ing'.p = None, Settles(ToSet(held[c]) \cup {ing.p}) PROVE GuardSettles
  <2> SUFFICES ASSUME NEW p \in Packets
               PROVE  /\ verdict'[p] # verdict[p] => Known(p) /\ Undecided(p) /\ verdict'[p] # "none"
                      /\ p \in ToSet(wire') \/ p \in ToSet(queue') \/ ing'.p = p => verdict'[p] = "none"
                      /\ \A d \in Packets : p \in ToSet(held'[d]) \/ p \in ToSet(taken'[d]) => verdict'[p] = "none"
                      /\ Known(p) /\ verdict'[p] = "none" =>
                            \/ p \in ToSet(wire') \/ p \in ToSet(queue') \/ ing'.p = p
                            \/ \E d \in Packets : p \in ToSet(held'[d]) \/ p \in ToSet(taken'[d])
    BY DEF GuardSettles
  <2>1. verdict'[p] # verdict[p] => Known(p) /\ Undecided(p) /\ verdict'[p] # "none"
    BY <1>1, <1>2, <1>3, <1>7, OwnerFacts DEF Settles, Undecided
  <2>2. p \in ToSet(wire') \/ p \in ToSet(queue') \/ ing'.p = p => verdict'[p] = "none"
    BY <1>1, <1>2, <1>3, <1>7, OwnerFacts, NoneAssumption DEF Settles, Undecided
  <2>3. \A d \in Packets : p \in ToSet(held'[d]) \/ p \in ToSet(taken'[d]) => verdict'[p] = "none"
    <3> SUFFICES ASSUME NEW d \in Packets, p \in ToSet(held'[d]) \/ p \in ToSet(taken'[d])
                 PROVE  verdict'[p] = "none"
      OBVIOUS
    <3>1. p \in ToSet(taken[d]) \/ (d # c /\ p \in ToSet(held[d]))
      BY <1>1, <1>2, <1>3
    <3>2. Undecided(p) /\ p \notin ToSet(held[c]) /\ p # ing.p
      BY <3>1, OwnerFacts
    <3> QED
      BY <1>7, <3>2 DEF Settles, Undecided
  <2>4. ASSUME Known(p), verdict'[p] = "none"
        PROVE  \/ p \in ToSet(wire') \/ p \in ToSet(queue') \/ ing'.p = p
               \/ \E d \in Packets : p \in ToSet(held'[d]) \/ p \in ToSet(taken'[d])
    <3>1. Undecided(p)
      BY <2>1, <2>4 DEF Undecided
    <3>2. CASE p \in ToSet(wire) \/ p \in ToSet(queue) \/ ing.p = p
      BY <2>4, <3>2, <1>1, <1>2, <1>3, <1>7 DEF Settles, Undecided
    <3>3. ASSUME NEW d \in Packets, p \in ToSet(held[d]) \/ p \in ToSet(taken[d])
          PROVE  \E x \in Packets : p \in ToSet(held'[x]) \/ p \in ToSet(taken'[x])
      BY <2>4, <3>3, <1>1, <1>2, <1>3, <1>7 DEF Settles, Undecided
    <3> QED
      BY <2>4, <3>1, <3>2, <3>3, OwnerFacts
  <2> QED
    BY <2>1, <2>2, <2>3, <2>4
<1> QED
  BY <1>4, <1>5, <1>6, <1>7

LEMMA ShiftsFlow ==
    ASSUME CorrInv, NEW c \in Packets, Shifts(c)
    PROVE  GuardFlow /\ GuardSettles
<1> DEFINE h == Head(taken[c])
           t == Tail(taken[c])
<1>1. /\ taken[c] # <<>> /\ taken' = [taken EXCEPT ![c] = t] /\ Settles({h})
      /\ UNCHANGED <<wire, queue, held>> /\ ing'.p = ing.p
  BY DEF Shifts
<1>2. h \in Packets /\ ToSet(taken[c]) = ToSet(t) \cup {h} /\ Distinct(t) /\ h \notin ToSet(t)
  BY <1>1, OwnerTypes, OwnerFacts, ToSetTail
<1> HIDE DEF h, t
<1>3. taken'[c] = t /\ \A d \in Packets : d # c => taken'[d] = taken[d]
  BY <1>1, OwnerTypes
<1>4. ToSet(taken[c]) = ToSet(taken'[c]) \cup {h} /\ Distinct(taken'[c]) /\ h \notin ToSet(taken'[c])
  BY <1>2, <1>3
<1>5. GuardFlow
  BY <1>1, <1>3, <1>4, OwnerTypes, OwnerFacts DEF GuardFlow, Maybe
<1>6. GuardSettles
  <2> SUFFICES ASSUME NEW p \in Packets
               PROVE  /\ verdict'[p] # verdict[p] => Known(p) /\ Undecided(p) /\ verdict'[p] # "none"
                      /\ p \in ToSet(wire') \/ p \in ToSet(queue') \/ ing'.p = p => verdict'[p] = "none"
                      /\ \A d \in Packets : p \in ToSet(held'[d]) \/ p \in ToSet(taken'[d]) => verdict'[p] = "none"
                      /\ Known(p) /\ verdict'[p] = "none" =>
                            \/ p \in ToSet(wire') \/ p \in ToSet(queue') \/ ing'.p = p
                            \/ \E d \in Packets : p \in ToSet(held'[d]) \/ p \in ToSet(taken'[d])
    BY DEF GuardSettles
  <2>1. verdict'[p] # verdict[p] => Known(p) /\ Undecided(p) /\ verdict'[p] # "none"
    BY <1>1, <1>2, <1>3, <1>4, OwnerFacts DEF Settles, Undecided
  <2>2. p \in ToSet(wire') \/ p \in ToSet(queue') \/ ing'.p = p => verdict'[p] = "none"
    BY <1>1, <1>2, <1>3, <1>4, OwnerFacts, NoneAssumption DEF Settles, Undecided
  <2>3. \A d \in Packets : p \in ToSet(held'[d]) \/ p \in ToSet(taken'[d]) => verdict'[p] = "none"
    <3> SUFFICES ASSUME NEW d \in Packets, p \in ToSet(held'[d]) \/ p \in ToSet(taken'[d])
                 PROVE  verdict'[p] = "none"
      OBVIOUS
    <3>1. p \in ToSet(held[d]) \/ p \in ToSet(taken[d])
      BY <1>1, <1>3, <1>4
    <3>2. p # h
      BY <1>1, <1>3, <1>4, OwnerFacts
    <3>3. verdict[p] = "none"
      BY <3>1, OwnerFacts DEF Undecided
    <3> QED
      BY <1>1, <3>2, <3>3 DEF Settles
  <2>4. ASSUME Known(p), verdict'[p] = "none"
        PROVE  \/ p \in ToSet(wire') \/ p \in ToSet(queue') \/ ing'.p = p
               \/ \E d \in Packets : p \in ToSet(held'[d]) \/ p \in ToSet(taken'[d])
    <3>1. Undecided(p)
      BY <2>1, <2>4 DEF Undecided
    <3>2. CASE p \in ToSet(wire) \/ p \in ToSet(queue) \/ ing.p = p
      BY <2>4, <3>2, <1>1, <1>2, <1>3, <1>4 DEF Settles, Undecided
    <3>3. ASSUME NEW d \in Packets, p \in ToSet(held[d]) \/ p \in ToSet(taken[d])
          PROVE  \E x \in Packets : p \in ToSet(held'[x]) \/ p \in ToSet(taken'[x])
      BY <2>4, <3>3, <1>1, <1>2, <1>3, <1>4 DEF Settles, Undecided
    <3> QED
      BY <2>4, <3>1, <3>2, <3>3, OwnerFacts
  <2> QED
    BY <2>1, <2>2, <2>3, <2>4
<1> QED
  BY <1>5, <1>6

LEMMA ClearsFlow ==
    ASSUME CorrInv, NEW c \in Packets, Clears(c)
    PROVE  GuardFlow /\ GuardSettles
<1>1. /\ taken' = [taken EXCEPT ![c] = <<>>] /\ Settles(ToSet(taken[c]))
      /\ UNCHANGED <<wire, queue, held>> /\ ing'.p = ing.p
  BY DEF Clears
<1>2. taken'[c] = <<>> /\ \A d \in Packets : d # c => taken'[d] = taken[d]
  BY <1>1, OwnerTypes
<1>3. ToSet(taken'[c]) = {} /\ Distinct(taken'[c])
  BY <1>2, ToSetEmpty DEF Distinct
<1>4. GuardFlow
  BY <1>1, <1>2, <1>3, OwnerTypes, OwnerFacts DEF GuardFlow, Maybe
<1>5. GuardSettles
  <2> SUFFICES ASSUME NEW p \in Packets
               PROVE  /\ verdict'[p] # verdict[p] => Known(p) /\ Undecided(p) /\ verdict'[p] # "none"
                      /\ p \in ToSet(wire') \/ p \in ToSet(queue') \/ ing'.p = p => verdict'[p] = "none"
                      /\ \A d \in Packets : p \in ToSet(held'[d]) \/ p \in ToSet(taken'[d]) => verdict'[p] = "none"
                      /\ Known(p) /\ verdict'[p] = "none" =>
                            \/ p \in ToSet(wire') \/ p \in ToSet(queue') \/ ing'.p = p
                            \/ \E d \in Packets : p \in ToSet(held'[d]) \/ p \in ToSet(taken'[d])
    BY DEF GuardSettles
  <2>1. verdict'[p] # verdict[p] => Known(p) /\ Undecided(p) /\ verdict'[p] # "none"
    BY <1>1, <1>2, <1>3, OwnerFacts DEF Settles, Undecided
  <2>2. p \in ToSet(wire') \/ p \in ToSet(queue') \/ ing'.p = p => verdict'[p] = "none"
    BY <1>1, <1>2, <1>3, OwnerFacts, NoneAssumption DEF Settles, Undecided
  <2>3. \A d \in Packets : p \in ToSet(held'[d]) \/ p \in ToSet(taken'[d]) => verdict'[p] = "none"
    <3> SUFFICES ASSUME NEW d \in Packets, p \in ToSet(held'[d]) \/ p \in ToSet(taken'[d])
                 PROVE  verdict'[p] = "none"
      OBVIOUS
    <3>1. p \in ToSet(held[d]) \/ (d # c /\ p \in ToSet(taken[d]))
      BY <1>1, <1>2, <1>3
    <3>2. Undecided(p) /\ p \notin ToSet(taken[c])
      BY <3>1, OwnerFacts
    <3> QED
      BY <1>1, <3>2 DEF Settles, Undecided
  <2>4. ASSUME Known(p), verdict'[p] = "none"
        PROVE  \/ p \in ToSet(wire') \/ p \in ToSet(queue') \/ ing'.p = p
               \/ \E d \in Packets : p \in ToSet(held'[d]) \/ p \in ToSet(taken'[d])
    <3>1. Undecided(p)
      BY <2>1, <2>4 DEF Undecided
    <3>2. CASE p \in ToSet(wire) \/ p \in ToSet(queue) \/ ing.p = p
      BY <2>4, <3>2, <1>1, <1>2, <1>3 DEF Settles, Undecided
    <3>3. ASSUME NEW d \in Packets, p \in ToSet(held[d]) \/ p \in ToSet(taken[d])
          PROVE  \E x \in Packets : p \in ToSet(held'[x]) \/ p \in ToSet(taken'[x])
      BY <2>4, <3>3, <1>1, <1>2, <1>3 DEF Settles, Undecided
    <3> QED
      BY <2>4, <3>1, <3>2, <3>3, OwnerFacts
  <2> QED
    BY <2>1, <2>2, <2>3, <2>4
<1> QED
  BY <1>4, <1>5

LEMMA MovesFlow ==
    ASSUME CorrInv, NEW c \in Packets, NEW i \in Indices, Moves(i, c)
    PROVE  GuardFlow /\ GuardSettles
<1>1. /\ taken' = [taken EXCEPT ![c] = held[c]] /\ held' = [held EXCEPT ![c] = <<>>]
      /\ UNCHANGED <<verdict, wire, queue>> /\ ing'.p = ing.p /\ taken[c] = <<>>
  BY DEF Moves
<1>2. /\ taken'[c] = held[c] /\ held'[c] = <<>>
      /\ \A d \in Packets : d # c => taken'[d] = taken[d] /\ held'[d] = held[d]
  BY <1>1, OwnerTypes
<1>3. ToSet(held'[c]) = {} /\ Distinct(held'[c]) /\ ToSet(taken[c]) = {}
  BY <1>1, <1>2, ToSetEmpty DEF Distinct
<1>4. GuardFlow
  BY <1>1, <1>2, <1>3, OwnerTypes, OwnerFacts DEF GuardFlow, Maybe
<1>5. GuardSettles
  <2> SUFFICES ASSUME NEW p \in Packets
               PROVE  /\ verdict'[p] # verdict[p] => Known(p) /\ Undecided(p) /\ verdict'[p] # "none"
                      /\ p \in ToSet(wire') \/ p \in ToSet(queue') \/ ing'.p = p => verdict'[p] = "none"
                      /\ \A d \in Packets : p \in ToSet(held'[d]) \/ p \in ToSet(taken'[d]) => verdict'[p] = "none"
                      /\ Known(p) /\ verdict'[p] = "none" =>
                            \/ p \in ToSet(wire') \/ p \in ToSet(queue') \/ ing'.p = p
                            \/ \E d \in Packets : p \in ToSet(held'[d]) \/ p \in ToSet(taken'[d])
    BY DEF GuardSettles
  <2>1. verdict'[p] # verdict[p] => Known(p) /\ Undecided(p) /\ verdict'[p] # "none"
    BY <1>1, <1>2, <1>3, OwnerFacts DEF Undecided
  <2>2. p \in ToSet(wire') \/ p \in ToSet(queue') \/ ing'.p = p => verdict'[p] = "none"
    BY <1>1, <1>2, <1>3, OwnerFacts, NoneAssumption DEF Undecided
  <2>3. \A d \in Packets : p \in ToSet(held'[d]) \/ p \in ToSet(taken'[d]) => verdict'[p] = "none"
    BY <1>1, <1>2, <1>3, OwnerFacts DEF Undecided
  <2>4. ASSUME Known(p), verdict'[p] = "none"
        PROVE  \/ p \in ToSet(wire') \/ p \in ToSet(queue') \/ ing'.p = p
               \/ \E d \in Packets : p \in ToSet(held'[d]) \/ p \in ToSet(taken'[d])
    <3>1. Undecided(p)
      BY <2>1, <2>4 DEF Undecided
    <3>2. CASE p \in ToSet(wire) \/ p \in ToSet(queue) \/ ing.p = p
      BY <2>4, <3>2, <1>1, <1>2, <1>3 DEF Undecided
    <3>3. ASSUME NEW d \in Packets, p \in ToSet(held[d]) \/ p \in ToSet(taken[d])
          PROVE  \E x \in Packets : p \in ToSet(held'[x]) \/ p \in ToSet(taken'[x])
      BY <2>4, <3>3, <1>1, <1>2, <1>3 DEF Undecided
    <3> QED
      BY <2>4, <3>1, <3>2, <3>3, OwnerFacts
  <2> QED
    BY <2>1, <2>2, <2>3, <2>4
<1> QED
  BY <1>4, <1>5

LEMMA GuardsFlow ==
    ASSUME CorrInv, Move
    PROVE  GuardFlow /\ GuardSettles
BY KeepsFlow, DeliversFlow, RejectsFlow, RefusesFlow, StartsFlow, FinishesFlow, StoresFlow,
   EmptiesFlow, ShiftsFlow, ClearsFlow, MovesFlow
   DEF Move, GuardMove

LEMMA OwnerKept ==
    ASSUME CorrInv, Move
    PROVE  OwnerInv'
<1>1. GuardFlow /\ GuardSettles
  BY GuardsFlow
<1>2. ing.p \in Maybe /\ TransitType' /\ CellType' /\ PumpType'
  BY OwnerTypes, FlowTypes, GuardTypes, PumpTypes DEF Move
<1>3. /\ ToSet(wire') \subseteq Packets /\ ToSet(queue') \subseteq Packets /\ ing'.p \in Maybe
      /\ \A c \in Packets : ToSet(held'[c]) \subseteq Packets /\ ToSet(taken'[c]) \subseteq Packets
  BY <1>2, ToSetRange DEF TransitType, CellType, PumpType
<1>4. /\ \A p \in ToSet(wire') : p \notin ToSet(queue') /\ p # ing'.p
      /\ \A p \in ToSet(queue') : p # ing'.p
  BY <1>1, <1>3, OwnerFacts, NoneAssumption DEF GuardFlow
<1>5. \A c, d \in Packets : \A p \in ToSet(held'[c]) : p \in ToSet(held'[d]) => c = d
  BY <1>1, <1>3, OwnerFacts DEF GuardFlow
<1>6. \A c, d \in Packets : \A p \in ToSet(taken'[c]) : p \in ToSet(taken'[d]) => c = d
  <2> SUFFICES ASSUME NEW c \in Packets, NEW d \in Packets, NEW p \in ToSet(taken'[c]),
                      p \in ToSet(taken'[d])
               PROVE  c = d
    OBVIOUS
  <2>1. (p \in ToSet(taken[c]) \/ p \in ToSet(held[c])) /\ (p \in ToSet(taken[d]) \/ p \in ToSet(held[d]))
    BY <1>1 DEF GuardFlow
  <2> QED
    BY <2>1, OwnerFacts
<1>7. \A c, d \in Packets : \A p \in ToSet(held'[c]) : p \notin ToSet(taken'[d])
  <2> SUFFICES ASSUME NEW c \in Packets, NEW d \in Packets, NEW p \in ToSet(held'[c]),
                      p \in ToSet(taken'[d])
               PROVE  FALSE
    OBVIOUS
  <2>1. p \in Packets
    BY <1>3
  <2>2. p \in ToSet(taken[d]) \/ (p \in ToSet(held[d]) /\ held'[d] = <<>>)
    BY <1>1 DEF GuardFlow
  <2>3. p \in ToSet(held[c]) \/ p = ing.p
    BY <1>1 DEF GuardFlow
  <2>4. p \in ToSet(held[c]) /\ p \in ToSet(held[d]) /\ held'[d] = <<>>
    BY <2>1, <2>2, <2>3, OwnerFacts
  <2>5. c = d
    BY <2>4, OwnerFacts
  <2> QED
    BY <2>4, <2>5, ToSetEmpty
<1>8. \A p \in Packets : Known(p) /\ verdict'[p] = "none" =>
         \/ p \in ToSet(wire') \/ p \in ToSet(queue') \/ ing'.p = p
         \/ \E c \in Packets : p \in ToSet(held'[c]) \/ p \in ToSet(taken'[c])
  BY <1>1 DEF GuardSettles
<1>9. Distinct(wire') /\ Distinct(queue') /\ \A c \in Packets : Distinct(held'[c]) /\ Distinct(taken'[c])
  BY <1>1 DEF GuardFlow
<1> QED
  BY <1>4, <1>5, <1>6, <1>7, <1>8, <1>9 DEF OwnerInv, Move, Known, Undecided, Transit, Distinct

-----------------------------------------------------------------------------
(* The contracts preserve the invariant: flows *)

ConnKept == \A k \in Keys : conn'[k] = conn[k] \/ (conn'[k] = Absent /\ Removable(k))

\* No cell changes its state.
Quiet ==
    /\ UNCHANGED <<cellst, cgen>> /\ ConnKept
    /\ \A k \in Keys : map'[k] = map[k] \/ (map'[k] = None /\ (map[k] # None => Terminal(map[k])))
    /\ \A c \in Packets :
          \/ held'[c] = held[c] \/ held'[c] = <<>>
          \/ /\ held'[c] = Append(held[c], ing.p) /\ cellst[c] \in {"pending", "armed"}
             /\ ing.p \in Packets /\ (cellst[c] = "pending" => payload'[ing.p] # None)

Sunk(c, st) ==
    /\ Unarmed(c) /\ st \in {"cancelling", "dead"}
    /\ cellst' = [cellst EXCEPT ![c] = st] /\ UNCHANGED <<map, cgen>> /\ ConnKept
    /\ \A d \in Packets : held'[d] = held[d] \/ (d = c /\ held'[d] = <<>>)
    /\ st = "dead" => held'[c] = <<>>

LEMMA RemovesKept ==
    ASSUME CorrInv, NEW S \in SUBSET Keys, Removes(S)
    PROVE  ConnKept
BY Types DEF Removes, ConnKept, RecordType

LEMMA FlowKinds ==
    ASSUME CorrInv, Move
    PROVE  \/ Quiet
           \/ \E p \in Packets, st \in CellStates, g \in Maybe, h \in Seq(Packets) : Creates(p, st, g, h)
           \/ \E c \in Packets, st \in CellStates : Sunk(c, st)
           \/ \E c \in Packets : Fails(c)
           \/ \E c \in Packets : \E i \in Indices : \E st \in CellStates : Decides(i, c, st)
           \/ \E c \in Packets : \E i \in Indices : Activates(i, c)
<1>1. conn \in [Keys -> [tok : Maybe, st : ConnStates]] /\ CellType
  BY Types DEF RecordType
<1>2. CASE UNCHANGED <<conn, map, cellst, held, cgen>>
  BY <1>2 DEF Quiet, ConnKept
<1>3. ASSUME NEW S \in SUBSET Keys, Removes(S), UNCHANGED <<map, cellst, held, cgen>> PROVE Quiet
  BY <1>3, RemovesKept DEF Quiet
<1>4. ASSUME NEW k \in Keys, Evicts(k) PROVE Quiet
  BY <1>1, <1>4 DEF Evicts, Quiet, ConnKept, CellType
<1>5. ASSUME NEW c \in Packets, NEW st \in CellStates, NEW h \in Seq(Packets), Sinks(c, st, h)
      PROVE  Sunk(c, st)
  <2>1. ConnKept
    BY <1>5, RemovesKept DEF Sinks, ConnKept
  <2>2. held' = [held EXCEPT ![c] = h] /\ (h = held[c] \/ h = <<>>) /\ (st = "dead" => h = <<>>)
    BY <1>5 DEF Sinks
  <2>3. \A d \in Packets : held'[d] = held[d] \/ (d = c /\ held'[d] = <<>>)
    BY <1>1, <2>2 DEF CellType
  <2>4. st = "dead" => held'[c] = <<>>
    BY <1>1, <2>2 DEF CellType
  <2> QED
    BY <1>5, <2>1, <2>3, <2>4 DEF Sinks, Sunk
<1>6. ASSUME NEW c \in Packets, Holds(c) PROVE Quiet
  <2>1. /\ held' = [held EXCEPT ![c] = Append(held[c], ing.p)] /\ cellst[c] \in {"pending", "armed"}
        /\ ing.p \in Packets /\ (cellst[c] = "pending" => payload'[ing.p] # None)
        /\ UNCHANGED <<conn, map, cellst, cgen>>
    BY <1>6 DEF Holds
  <2>2. held'[c] = Append(held[c], ing.p) /\ \A d \in Packets : d # c => held'[d] = held[d]
    BY <1>1, <2>1 DEF CellType
  <2> QED
    BY <2>1, <2>2 DEF Quiet, ConnKept
<1>7. ASSUME NEW c \in Packets, Takes(c) PROVE Quiet
  BY <1>1, <1>7 DEF Takes, Quiet, ConnKept, CellType
<1> QED
  BY <1>2, <1>3, <1>4, <1>5, <1>6, <1>7 DEF Move, FlowMove

\* How the state of one cell may change.
CellStep(c) ==
    \/ cellst'[c] = cellst[c] /\ cgen'[c] = cgen[c]
    \/ /\ cellst[c] = "none" /\ c = ing.p /\ ing.pc = "wait" /\ ing' = Idle
       /\ UNCHANGED conn /\ map'[pkey[c]] = c
       /\ \/ cellst'[c] = "pending" /\ cgen'[c] = c /\ RecordIs(c, "pending")
          \/ cellst'[c] = "dead" /\ cgen'[c] = None
          \/ cellst'[c] \in {"direct", "block"} /\ cgen'[c] = None /\ RecordIs(c, cellst'[c])
          \/ /\ cellst'[c] = "proxy" /\ RecordIs(c, "proxy") /\ cgen'[c] \in Packets
             /\ cgen[cgen'[c]] = cgen'[c] /\ ptok[cgen'[c]] = ptok[c]
    \/ Unarmed(c) /\ cellst'[c] \in {"cancelling", "dead"} /\ cgen'[c] = cgen[c]
    \/ cellst[c] = "armed" /\ cellst'[c] = "dead" /\ fatal' /\ cgen'[c] = cgen[c]
    \/ /\ cellst[c] = "pending" /\ cellst'[c] \in {"armed", "proxy", "block"}
       /\ RecordIs(c, "pending") /\ cgen'[c] = cgen[c] /\ \E i \in Indices : Decides(i, c, cellst'[c])
       /\ conn' = [conn EXCEPT ![pkey[c]] = [tok |-> ptok[c], st |-> cellst'[c]]]
    \/ /\ cellst[c] = "armed" /\ cellst'[c] = "direct" /\ RecordIs(c, "armed") /\ cgen'[c] = cgen[c]
       /\ \E i \in Indices : Activates(i, c)
       /\ conn' = [conn EXCEPT ![pkey[c]] = [tok |-> ptok[c], st |-> "direct"]]

LEMMA CellSteps ==
    ASSUME CorrInv, Move, NEW c \in Packets
    PROVE  CellStep(c)
<1>1. CellType
  BY Types
<1>2. CASE Quiet
  BY <1>2 DEF Quiet, CellStep
<1>3. ASSUME NEW p \in Packets, NEW st \in CellStates, NEW g \in Maybe, NEW h \in Seq(Packets),
             Creates(p, st, g, h)
      PROVE  CellStep(c)
  <2>1. CASE c # p
    <3>1. cellst'[c] = cellst[c] /\ cgen'[c] = cgen[c]
      BY <1>1, <1>3, <2>1 DEF Creates, CellType
    <3> QED
      BY <3>1 DEF CellStep
  <2>2. CASE c = p
    <3>1. cellst'[c] = st /\ cgen'[c] = g
      BY <1>1, <1>3, <2>2 DEF Creates, CellType
    <3>2. ing.pc = "wait" /\ ing.p = c /\ ing' = Idle /\ UNCHANGED conn
      BY <1>3, <2>2 DEF Creates
    <3>3. cellst[c] = "none" /\ Known(c)
      BY <3>2, IngestFacts DEF Inside
    <3>4. pkey[c] \in Keys
      BY <3>3, KnownFacts
    <3>5. map'[pkey[c]] = c
      BY <1>1, <1>3, <2>2, <3>4 DEF Creates, CellType
    <3>6. \/ st = "pending" /\ g = c /\ RecordIs(c, "pending")
          \/ st = "dead" /\ g = None
          \/ st \in {"direct", "block"} /\ g = None /\ RecordIs(c, st)
          \/ st = "proxy" /\ g \in Packets /\ RecordIs(c, "proxy") /\ cgen[g] = g /\ ptok[g] = ptok[c]
      BY <1>3, <2>2 DEF Creates
    <3> QED
      BY <3>1, <3>2, <3>3, <3>5, <3>6 DEF CellStep
  <2> QED
    BY <2>1, <2>2
<1>4. ASSUME NEW d \in Packets, NEW st \in CellStates, Sunk(d, st) PROVE CellStep(c)
  <2>1. cellst'[c] = (IF c = d THEN st ELSE cellst[c]) /\ cgen'[c] = cgen[c]
    BY <1>1, <1>4 DEF Sunk, CellType
  <2> QED
    BY <1>4, <2>1 DEF Sunk, CellStep
<1>5. ASSUME NEW d \in Packets, Fails(d) PROVE CellStep(c)
  <2>1. cellst'[c] = (IF c = d THEN "dead" ELSE cellst[c]) /\ cgen'[c] = cgen[c]
    BY <1>1, <1>5 DEF Fails, CellType
  <2> QED
    BY <1>5, <2>1 DEF Fails, CellStep
<1>6. ASSUME NEW d \in Packets, NEW i \in Indices, NEW st \in CellStates, Decides(i, d, st) PROVE CellStep(c)
  <2>1. cellst'[c] = (IF c = d THEN st ELSE cellst[c]) /\ cgen'[c] = cgen[c]
    BY <1>1, <1>6 DEF Decides, CellType
  <2>2. CASE c = d
    <3>1. Decides(i, c, cellst'[c])
      BY <1>6, <2>1, <2>2
    <3>2. /\ cellst'[c] \in {"armed", "proxy", "block"} /\ cellst[c] = "pending" /\ RecordIs(c, "pending")
          /\ conn' = [conn EXCEPT ![pkey[c]] = [tok |-> ptok[c], st |-> cellst'[c]]]
      BY <3>1 DEF Decides
    <3> QED
      BY <2>1, <3>1, <3>2 DEF CellStep
  <2>3. CASE c # d
    BY <2>1, <2>3 DEF CellStep
  <2> QED
    BY <2>2, <2>3
<1>7. ASSUME NEW d \in Packets, NEW i \in Indices, Activates(i, d) PROVE CellStep(c)
  <2>1. cellst'[c] = (IF c = d THEN "direct" ELSE cellst[c]) /\ cgen'[c] = cgen[c]
    BY <1>1, <1>7 DEF Activates, CellType
  <2>2. CASE c = d
    <3>1. Activates(i, c)
      BY <1>7, <2>2
    <3>2. /\ cellst[c] = "armed" /\ RecordIs(c, "armed")
          /\ conn' = [conn EXCEPT ![pkey[c]] = [tok |-> ptok[c], st |-> "direct"]]
      BY <3>1 DEF Activates
    <3> QED
      BY <2>1, <2>2, <3>1, <3>2 DEF CellStep
  <2>3. CASE c # d
    BY <2>1, <2>3 DEF CellStep
  <2> QED
    BY <2>2, <2>3
<1> QED
  BY <1>2, <1>3, <1>4, <1>5, <1>6, <1>7, FlowKinds

LEMMA CellFates ==
    ASSUME CorrInv, Move, NEW c \in Packets
    PROVE  /\ Inside(c) => cellst'[c] # "none" /\ cgen'[c] = cgen[c]
           /\ ~Inside(c) /\ cellst'[c] # "none" =>
                 /\ c = ing.p /\ ing.pc = "wait" /\ ing' = Idle /\ Known(c) /\ pkey[c] \in Keys
                 /\ UNCHANGED conn /\ map'[pkey[c]] = c
           /\ cellst'[c] = "none" => cgen'[c] = None
           /\ Terminal(c) => cellst'[c] = cellst[c]
           /\ cellst[c] = "armed" => cellst'[c] \in {"armed", "direct", "dead"}
           /\ cellst'[c] \in {"pending", "cancelling"} => Unarmed(c) \/ ~Inside(c)
           /\ cellst'[c] = "armed" => IsPending(c)
<1>1. CellStep(c) /\ cellst[c] \in CellStates
  BY CellSteps, Types DEF CellType
<1>2. ~Inside(c) => cgen[c] = None
  BY DEF CorrInv, CellShape
<1>3. Inside(c) => cellst'[c] # "none" /\ cgen'[c] = cgen[c]
  BY <1>1 DEF CellStep, Inside
<1>4. ~Inside(c) /\ cellst'[c] # "none" =>
                 /\ c = ing.p /\ ing.pc = "wait" /\ ing' = Idle /\ UNCHANGED conn /\ map'[pkey[c]] = c
  BY <1>1 DEF CellStep, Inside, Unarmed
<1>5. c = ing.p /\ ing.pc = "wait" => Known(c) /\ pkey[c] \in Keys
  BY IngestFacts, KnownFacts
<1>6. /\ cellst'[c] = "none" => cgen'[c] = None
      /\ Terminal(c) => cellst'[c] = cellst[c]
      /\ cellst[c] = "armed" => cellst'[c] \in {"armed", "direct", "dead"}
      /\ cellst'[c] \in {"pending", "cancelling"} => Unarmed(c) \/ ~Inside(c)
      /\ cellst'[c] = "armed" => IsPending(c)
  BY <1>1, <1>2 DEF CellStep, Inside, Unarmed, Terminal, IsPending
<1> QED
  BY <1>3, <1>4, <1>5, <1>6

LEMMA PacketKept ==
    ASSUME CorrInv, Move
    PROVE  PacketShape'
<1>1. GuardSettles
  BY GuardsFlow
<1>2. UNCHANGED <<pkey, ptok>> /\ PacketShape
  BY DEF Move, CorrInv
<1>3. \A p \in Packets : ~Known(p) => cellst'[p] = "none" /\ verdict'[p] = "none"
  BY <1>1, <1>2, CellFates DEF PacketShape, GuardSettles, Undecided
<1>4. \A p \in Packets : ~Known(p) => payload'[p] = None
  BY <1>2 DEF PacketShape, Move, VerdictMove
<1> QED
  BY <1>2, <1>3, <1>4 DEF PacketShape, Known, Inside, Undecided

\* How the record of one flow may change.
ConnStep(k) ==
    \/ conn'[k] = conn[k]
    \/ conn'[k] = Absent /\ Removable(k)
    \/ \E c \in Packets :
          /\ pkey[c] = k /\ cellst[c] = "pending" /\ RecordIs(c, "pending")
          /\ cellst'[c] \in {"armed", "proxy", "block"} /\ \E i \in Indices : Decides(i, c, cellst'[c])
          /\ conn'[k] = [tok |-> ptok[c], st |-> cellst'[c]]
    \/ \E c \in Packets :
          /\ pkey[c] = k /\ cellst[c] = "armed" /\ RecordIs(c, "armed")
          /\ held[c] = <<>> /\ taken[c] = <<>> /\ cellst'[c] = "direct" /\ \E i \in Indices : Activates(i, c)
          /\ conn'[k] = [tok |-> ptok[c], st |-> "direct"]

LEMMA ConnSteps ==
    ASSUME CorrInv, Move, NEW k \in Keys
    PROVE  ConnStep(k)
<1>1. RecordType /\ CellType
  BY Types
<1>2. CASE ConnKept
  BY <1>2 DEF ConnKept, ConnStep
<1>3. CASE UNCHANGED conn
  BY <1>3 DEF ConnStep
<1>4. ASSUME NEW c \in Packets, NEW i \in Indices, NEW st \in CellStates, Decides(i, c, st)
      PROVE  ConnStep(k)
  <2>1. /\ conn' = [conn EXCEPT ![pkey[c]] = [tok |-> ptok[c], st |-> st]]
        /\ cellst' = [cellst EXCEPT ![c] = st] /\ st \in {"armed", "proxy", "block"}
        /\ cellst[c] = "pending" /\ RecordIs(c, "pending")
    BY <1>4 DEF Decides
  <2>2. cellst'[c] = st
    BY <1>1, <2>1 DEF CellType
  <2>3. conn'[k] = IF k = pkey[c] THEN [tok |-> ptok[c], st |-> st] ELSE conn[k]
    BY <1>1, <2>1 DEF RecordType
  <2>4. Decides(i, c, cellst'[c])
    BY <1>4, <2>2
  <2> QED
    BY <2>1, <2>2, <2>3, <2>4 DEF ConnStep
<1>5. ASSUME NEW c \in Packets, NEW i \in Indices, Activates(i, c) PROVE ConnStep(k)
  <2>1. /\ conn' = [conn EXCEPT ![pkey[c]] = [tok |-> ptok[c], st |-> "direct"]]
        /\ cellst' = [cellst EXCEPT ![c] = "direct"]
        /\ cellst[c] = "armed" /\ RecordIs(c, "armed") /\ held[c] = <<>> /\ taken[c] = <<>>
    BY <1>5 DEF Activates
  <2>2. cellst'[c] = "direct"
    BY <1>1, <2>1 DEF CellType
  <2>3. conn'[k] = IF k = pkey[c] THEN [tok |-> ptok[c], st |-> "direct"] ELSE conn[k]
    BY <1>1, <2>1 DEF RecordType
  <2> QED
    BY <1>5, <2>1, <2>2, <2>3 DEF ConnStep
<1>6. ASSUME NEW p \in Packets, NEW st \in CellStates, NEW g \in Maybe, NEW h \in Seq(Packets),
             Creates(p, st, g, h)
      PROVE  UNCHANGED conn
  BY <1>6 DEF Creates
<1>7. ASSUME NEW c \in Packets, NEW st \in CellStates, Sunk(c, st) PROVE ConnKept
  BY <1>7 DEF Sunk
<1>8. ASSUME NEW c \in Packets, Fails(c) PROVE UNCHANGED conn
  BY <1>8 DEF Fails
<1>9. Quiet => ConnKept
  BY DEF Quiet
<1> QED
  BY <1>2, <1>3, <1>4, <1>5, <1>6, <1>7, <1>8, <1>9, FlowKinds

LEMMA RecordKept ==
    ASSUME CorrInv, Move
    PROVE  RecordShape'
<1>1. UNCHANGED <<pkey, ptok>> /\ RecordShape /\ RecordType
  BY Types DEF Move, CorrInv
<1> SUFFICES ASSUME NEW k \in Keys
             PROVE  /\ conn'[k].tok = None <=> conn'[k].st = "absent"
                    /\ conn'[k].tok # None => pkey[conn'[k].tok] = k /\ ptok[conn'[k].tok] = conn'[k].tok
  BY <1>1 DEF RecordShape
<1>2. CASE conn'[k] = conn[k] \/ conn'[k] = Absent
  BY <1>1, <1>2 DEF RecordShape, Absent
<1>3. ASSUME NEW c \in Packets, pkey[c] = k, Inside(c), NEW st \in {"armed", "proxy", "block", "direct"},
             conn'[k] = [tok |-> ptok[c], st |-> st]
      PROVE  /\ conn'[k].tok = None <=> conn'[k].st = "absent"
             /\ conn'[k].tok # None => pkey[conn'[k].tok] = k /\ ptok[conn'[k].tok] = conn'[k].tok
  BY <1>3, InsideFacts, NoneAssumption
<1>4. \/ conn'[k] = conn[k] \/ conn'[k] = Absent
      \/ \E c \in Packets, st \in {"armed", "proxy", "block", "direct"} :
            pkey[c] = k /\ Inside(c) /\ conn'[k] = [tok |-> ptok[c], st |-> st]
  <2>1. ConnStep(k)
    BY ConnSteps
  <2>2. ASSUME NEW c \in Packets, pkey[c] = k, cellst[c] = "pending",
               NEW st \in {"armed", "proxy", "block"}, cellst'[c] = st,
               conn'[k] = [tok |-> ptok[c], st |-> cellst'[c]]
        PROVE  \E d \in Packets, x \in {"armed", "proxy", "block", "direct"} :
                  pkey[d] = k /\ Inside(d) /\ conn'[k] = [tok |-> ptok[d], st |-> x]
    BY <2>2 DEF Inside
  <2>3. ASSUME NEW c \in Packets, pkey[c] = k, cellst[c] = "armed",
               conn'[k] = [tok |-> ptok[c], st |-> "direct"]
        PROVE  \E d \in Packets, x \in {"armed", "proxy", "block", "direct"} :
                  pkey[d] = k /\ Inside(d) /\ conn'[k] = [tok |-> ptok[d], st |-> x]
    BY <2>3 DEF Inside
  <2> QED
    BY <2>1, <2>2, <2>3 DEF ConnStep
<1> QED
  BY <1>2, <1>3, <1>4

\* How the map may change.
MapStep(k) ==
    \/ map'[k] = map[k]
    \/ map'[k] = None /\ (map[k] # None => Terminal(map[k]))
    \/ /\ map'[k] = ing.p /\ ing.pc = "wait" /\ pkey[ing.p] = k /\ cellst'[ing.p] # "none"
       /\ map[k] # None => Terminal(map[k])

LEMMA MapSteps ==
    ASSUME CorrInv, Move, NEW k \in Keys
    PROVE  MapStep(k)
<1>1. CellType
  BY Types
<1>2. CASE Quiet
  BY <1>2 DEF Quiet, MapStep
<1>3. CASE UNCHANGED map
  BY <1>3 DEF MapStep
<1>4. ASSUME NEW p \in Packets, NEW st \in CellStates, NEW g \in Maybe, NEW h \in Seq(Packets),
             Creates(p, st, g, h)
      PROVE  MapStep(k)
  <2>1. map' = [map EXCEPT ![pkey[p]] = p] /\ cellst' = [cellst EXCEPT ![p] = st] /\ st # "none"
        /\ ing.p = p /\ ing.pc = "wait" /\ (map[pkey[p]] # None => Terminal(map[pkey[p]]))
    BY <1>4 DEF Creates
  <2>2. map'[k] = IF k = pkey[p] THEN p ELSE map[k]
    BY <1>1, <2>1 DEF CellType
  <2>3. cellst'[p] = st
    BY <1>1, <2>1 DEF CellType
  <2> QED
    BY <2>1, <2>2, <2>3 DEF MapStep
<1>5. \A c \in Packets : /\ \A st \in CellStates : Sunk(c, st) => UNCHANGED map
                         /\ Fails(c) => UNCHANGED map
                         /\ \A i \in Indices : Activates(i, c) => UNCHANGED map
                         /\ \A i \in Indices : \A st \in CellStates : Decides(i, c, st) => UNCHANGED map
  BY DEF Sunk, Fails, Activates, Decides
<1> QED
  BY <1>2, <1>3, <1>4, <1>5, FlowKinds

\* How what a cell holds may change.
HeldStep(c) ==
    \/ held'[c] = held[c] \/ held'[c] = <<>>
    \/ /\ held'[c] = Append(held[c], ing.p) /\ cellst[c] \in {"pending", "armed"} /\ cellst'[c] = cellst[c]
       /\ ing.p \in Packets /\ (cellst[c] = "pending" => payload'[ing.p] # None)
    \/ held'[c] = <<c>> /\ cellst'[c] = "pending" /\ ~Inside(c) /\ c = ing.p /\ payload'[c] = c

LEMMA HeldSteps ==
    ASSUME CorrInv, Move, NEW c \in Packets
    PROVE  /\ HeldStep(c)
           /\ cellst'[c] \notin {"pending", "cancelling", "armed"} => held'[c] = <<>>
<1>1. CellType
  BY Types
<1>2. cellst[c] \notin {"pending", "cancelling", "armed"} => held[c] = <<>>
  BY DEF CorrInv, CellShape, IsPending, Unarmed
<1> DEFINE Goal == /\ HeldStep(c)
                   /\ cellst'[c] \notin {"pending", "cancelling", "armed"} => held'[c] = <<>>
<1>3. CASE Quiet
  BY <1>2, <1>3 DEF Quiet, HeldStep
<1>4. ASSUME NEW p \in Packets, NEW st \in CellStates, NEW g \in Maybe, NEW h \in Seq(Packets),
             Creates(p, st, g, h)
      PROVE  Goal
  <2>1. /\ held' = [held EXCEPT ![p] = h] /\ cellst' = [cellst EXCEPT ![p] = st] /\ ing.p = p
        /\ ing.pc = "wait" /\ ((st = "pending" /\ h = <<p>> /\ payload'[p] = p) \/ h = <<>>)
    BY <1>4 DEF Creates
  <2>2. CASE c = p
    <3>1. held'[c] = h /\ cellst'[c] = st
      BY <1>1, <2>1, <2>2 DEF CellType
    <3>2. ~Inside(c)
      BY <2>1, <2>2, IngestFacts
    <3> QED
      BY <2>1, <2>2, <3>1, <3>2 DEF HeldStep
  <2>3. CASE c # p
    <3>1. held'[c] = held[c] /\ cellst'[c] = cellst[c]
      BY <1>1, <2>1, <2>3 DEF CellType
    <3> QED
      BY <1>2, <3>1 DEF HeldStep
  <2> QED
    BY <2>2, <2>3
<1>5. ASSUME NEW d \in Packets, NEW st \in CellStates, Sunk(d, st) PROVE Goal
  <2>1. cellst'[c] = (IF c = d THEN st ELSE cellst[c]) /\ (st = "cancelling" \/ (st = "dead" /\ held'[d] = <<>>))
        /\ (held'[c] = held[c] \/ held'[c] = <<>>)
    BY <1>1, <1>5 DEF Sunk, CellType
  <2> QED
    BY <1>2, <2>1 DEF HeldStep
<1>6. ASSUME NEW d \in Packets, Fails(d) PROVE Goal
  <2>1. cellst'[c] = (IF c = d THEN "dead" ELSE cellst[c]) /\ held'[c] = (IF c = d THEN <<>> ELSE held[c])
    BY <1>1, <1>6 DEF Fails, CellType
  <2> QED
    BY <1>2, <2>1 DEF HeldStep
<1>7. ASSUME NEW d \in Packets, NEW i \in Indices, NEW st \in CellStates, Decides(i, d, st) PROVE Goal
  <2>1. /\ cellst'[c] = (IF c = d THEN st ELSE cellst[c])
        /\ held'[c] = (IF c = d THEN (IF st = "armed" THEN held[d] ELSE <<>>) ELSE held[c])
    BY <1>1, <1>7 DEF Decides, CellType
  <2> QED
    BY <1>2, <2>1 DEF HeldStep
<1>8. ASSUME NEW d \in Packets, NEW i \in Indices, Activates(i, d) PROVE Goal
  <2>1. /\ cellst'[c] = (IF c = d THEN "direct" ELSE cellst[c]) /\ held'[c] = held[c] /\ held[d] = <<>>
    BY <1>1, <1>8 DEF Activates, CellType
  <2> QED
    BY <1>2, <2>1 DEF HeldStep
<1> QED
  BY <1>3, <1>4, <1>5, <1>6, <1>7, <1>8, FlowKinds

TakenStep(c) ==
    \/ taken'[c] = taken[c] \/ taken'[c] = <<>>
    \/ taken[c] # <<>> /\ taken'[c] = Tail(taken[c])
    \/ \E i \in Indices : Moves(i, c)

LEMMA TakenSteps ==
    ASSUME CorrInv, Move, NEW c \in Packets
    PROVE  TakenStep(c)
<1>1. taken \in [Packets -> Seq(Packets)] /\ GuardMove
  BY OwnerTypes DEF Move
<1>2. CASE UNCHANGED taken
  BY <1>2 DEF TakenStep
<1>3. ASSUME NEW d \in Packets, Shifts(d) PROVE TakenStep(c)
  BY <1>1, <1>3 DEF Shifts, TakenStep
<1>4. ASSUME NEW d \in Packets, Clears(d) PROVE TakenStep(c)
  BY <1>1, <1>4 DEF Clears, TakenStep
<1>5. ASSUME NEW d \in Packets, NEW i \in Indices, Moves(i, d) PROVE TakenStep(c)
  <2>1. c # d => taken'[c] = taken[c]
    BY <1>1, <1>5 DEF Moves
  <2> QED
    BY <1>5, <2>1 DEF TakenStep
<1>6. \/ UNCHANGED taken \/ (\E d \in Packets : Shifts(d) \/ Clears(d))
      \/ \E d \in Packets : \E i \in Indices : Moves(i, d)
  BY <1>1 DEF GuardMove, Keeps, Delivers, Rejects, Refuses, Starts, Finishes, Stores, Empties
<1> QED
  BY <1>2, <1>3, <1>4, <1>5, <1>6

LEMMA CellKept ==
    ASSUME CorrInv, Move
    PROVE  CellShape'
<1>1. UNCHANGED <<pkey, ptok>> /\ CellShape /\ CellType
  BY Types DEF Move, CorrInv
<1> SUFFICES ASSUME NEW c \in Packets
             PROVE  /\ cellst'[c] = "none" => cgen'[c] = None
                    /\ cgen'[c] # None => cgen'[cgen'[c]] = cgen'[c] /\ ptok[cgen'[c]] = ptok[c]
                    /\ cellst'[c] \in {"pending", "cancelling", "armed"} => map'[pkey[c]] = c /\ cgen'[c] = c
                    /\ cellst'[c] \notin {"pending", "cancelling", "armed"} => held'[c] = <<>>
                    /\ cellst'[c] \in {"none", "pending", "cancelling"} => taken'[c] = <<>>
  BY <1>1 DEF CellShape, Inside, IsPending, Unarmed
<1>2. cellst'[c] = "none" => cgen'[c] = None
  BY CellFates
<1>3. ASSUME NEW g \in Packets, cgen[g] = g PROVE cgen'[g] = g
  BY <1>1, <1>3, CellFates, NoneAssumption DEF CellShape
<1>4. ASSUME cgen'[c] # None PROVE cgen'[cgen'[c]] = cgen'[c] /\ ptok[cgen'[c]] = ptok[c]
  <2>1. CASE cgen'[c] = cgen[c]
    <3>1. cgen[c] \in Packets /\ cgen[cgen[c]] = cgen[c] /\ ptok[cgen[c]] = ptok[c]
      BY <1>1, <1>4, <2>1 DEF CellShape, CellType, Maybe
    <3> QED
      BY <1>3, <2>1, <3>1
  <2>2. CASE cgen'[c] = c
    BY <2>2
  <2>3. CASE cgen'[c] \in Packets /\ cgen[cgen'[c]] = cgen'[c] /\ ptok[cgen'[c]] = ptok[c]
    BY <1>3, <2>3
  <2> QED
    BY <1>4, <2>1, <2>2, <2>3, CellSteps DEF CellStep
<1>5. ASSUME cellst'[c] \in {"pending", "cancelling", "armed"}
      PROVE  map'[pkey[c]] = c /\ cgen'[c] = c
  <2>1. CASE IsPending(c)
    <3>1. map[pkey[c]] = c /\ cgen[c] = c /\ Inside(c) /\ ~Terminal(c)
      BY <1>1, <2>1 DEF CellShape, IsPending, Unarmed, Inside, Terminal
    <3>2. pkey[c] \in Keys /\ cgen'[c] = c /\ c # None
      BY <3>1, InsideFacts, CellFates, NoneAssumption
    <3> QED
      BY <3>1, <3>2, MapSteps DEF MapStep
  <2>2. CASE ~IsPending(c)
    BY <1>5, <2>2, CellSteps DEF CellStep, IsPending, Unarmed
  <2> QED
    BY <2>1, <2>2
<1>6. ASSUME cellst'[c] \in {"none", "pending", "cancelling"} PROVE taken'[c] = <<>>
  <2>1. ~Inside(c) \/ Unarmed(c)
    BY <1>6, CellFates DEF Inside
  <2>2. taken[c] = <<>>
    BY <1>1, <2>1 DEF CellShape
  <2> QED
    BY <1>6, <2>2, TakenSteps DEF TakenStep, Moves
<1> QED
  BY <1>2, <1>4, <1>5, <1>6, HeldSteps

-----------------------------------------------------------------------------
(* The contracts preserve the invariant: initializers, endpoints, requests *)

LEMMA GenKept ==
    ASSUME CorrInv, Move, NEW g \in Packets, cgen[g] = g
    PROVE  cgen'[g] = g
BY CellFates, NoneAssumption DEF CorrInv, CellShape

LEMMA TaskSteps ==
    ASSUME CorrInv, Move, NEW g \in Packets
    PROVE  \/ task'[g] = task[g] /\ lease'[g] = lease[g]
           \/ TaskStep(g, task'[g], lease'[g])
<1>1. TaskType /\ TaskMove
  BY Types DEF Move
<1>2. ASSUME NEW h \in Packets, NEW s \in TaskStates, NEW l \in Leases,
             task' = [task EXCEPT ![h] = s], lease' = [lease EXCEPT ![h] = l], TaskStep(h, s, l)
      PROVE  \/ task'[g] = task[g] /\ lease'[g] = lease[g]
             \/ TaskStep(g, task'[g], lease'[g])
  <2>1. CASE g # h
    BY <1>1, <1>2, <2>1 DEF TaskType
  <2>2. CASE g = h
    <3>1. task'[g] = s /\ lease'[g] = l
      BY <1>1, <1>2, <2>2 DEF TaskType
    <3> QED
      BY <1>2, <2>2, <3>1
  <2> QED
    BY <2>1, <2>2
<1> QED
  BY <1>1, <1>2 DEF TaskMove

LEMMA TaskKept ==
    ASSUME CorrInv, Move
    PROVE  TaskShape'
<1>1. TaskShape
  BY DEF CorrInv
<1> SUFFICES ASSUME NEW c \in Packets
             PROVE  /\ task'[c] # "none" => cgen'[c] = c
                    /\ task'[c] = "none" <=> lease'[c] = "none"
                    /\ task'[c] \in Decisions \cup {"run"} => lease'[c] = "task"
  BY DEF TaskShape
<1>2. cgen[c] = c => cgen'[c] = c
  BY GenKept
<1>3. CASE task'[c] = task[c] /\ lease'[c] = lease[c]
  BY <1>1, <1>2, <1>3 DEF TaskShape
<1>4. CASE TaskStep(c, task'[c], lease'[c])
  BY <1>1, <1>2, <1>4 DEF TaskShape, TaskStep, Submits, Begun, Decisions
<1> QED
  BY <1>3, <1>4, TaskSteps

LEMMA BegunKept ==
    ASSUME CorrInv, Move, NEW c \in Packets, Begun(c)
    PROVE  /\ task'[c] \notin {"none", "run"} \cup Decisions
           /\ lease[c] # "task" => lease'[c] # "task"
<1>1. CASE task'[c] = task[c] /\ lease'[c] = lease[c]
  BY <1>1 DEF Begun
<1>2. CASE TaskStep(c, task'[c], lease'[c])
  BY <1>2 DEF TaskStep, Submits, Begun, Decisions
<1> QED
  BY <1>1, <1>2, TaskSteps

LEMMA MapKept ==
    ASSUME CorrInv, Move
    PROVE  MapShape'
<1>1. UNCHANGED <<pkey, ptok>> /\ MapShape /\ CellType
  BY Types DEF Move, CorrInv
<1> SUFFICES ASSUME NEW k \in Keys, map'[k] # None
             PROVE  pkey[map'[k]] = k /\ cellst'[map'[k]] # "none"
  BY <1>1 DEF MapShape, Inside
<1>2. CASE map'[k] = map[k]
  <2>1. map[k] \in Packets /\ pkey[map[k]] = k /\ Inside(map[k])
    BY <1>1, <1>2 DEF MapShape, CellType, Maybe
  <2> QED
    BY <1>2, <2>1, CellFates
<1> QED
  BY <1>2, MapSteps DEF MapStep

LEMMA EntryKept ==
    ASSUME CorrInv, Move
    PROVE  EntryShape'
<1>1. UNCHANGED <<pkey, ptok>> /\ EntryShape /\ PoolType /\ PoolMove /\ IdentityType
  BY Types DEF Move, CorrInv
<1> SUFFICES ASSUME NEW k \in Keys
             PROVE  /\ ep'[k].gen = None <=> ep'[k].st = "absent"
                    /\ ep'[k].gen # None => pkey[ep'[k].gen] = k /\ cgen'[ep'[k].gen] = ep'[k].gen
  BY <1>1 DEF EntryShape
<1>2. ep[k] \in [gen : Maybe, st : EntryStates]
  BY <1>1 DEF PoolType
<1>3. ep[k].gen # None => ep[k].gen \in Packets /\ pkey[ep[k].gen] = k /\ cgen[ep[k].gen] = ep[k].gen
  BY <1>1, <1>2 DEF EntryShape, Maybe
<1>4. ep[k].gen # None => pkey[ep[k].gen] = k /\ cgen'[ep[k].gen] = ep[k].gen
  BY <1>3, GenKept
<1>5. \/ ep'[k] = ep[k]
      \/ \E s \in EntryStates \ {"absent"} : ep[k].st # "absent" /\ ep'[k] = [gen |-> ep[k].gen, st |-> s]
      \/ ep'[k] = [gen |-> None, st |-> "absent"]
      \/ \E p \in Packets : pkey[p] = k /\ cgen'[p] = p /\ ep'[k] = [gen |-> p, st |-> "init"]
  BY <1>1 DEF PoolMove, PoolType
<1>6. CASE ep'[k] = ep[k]
  BY <1>1, <1>4, <1>6 DEF EntryShape
<1>7. ASSUME NEW s \in EntryStates \ {"absent"}, ep[k].st # "absent",
             ep'[k] = [gen |-> ep[k].gen, st |-> s]
      PROVE  /\ ep'[k].gen = None <=> ep'[k].st = "absent"
             /\ ep'[k].gen # None => pkey[ep'[k].gen] = k /\ cgen'[ep'[k].gen] = ep'[k].gen
  <2>1. ep[k].gen # None /\ ep'[k].gen = ep[k].gen /\ ep'[k].st = s
    BY <1>1, <1>7 DEF EntryShape
  <2> QED
    BY <1>4, <2>1
<1>8. CASE ep'[k] = [gen |-> None, st |-> "absent"]
  BY <1>8
<1>9. ASSUME NEW p \in Packets, pkey[p] = k, cgen'[p] = p, ep'[k] = [gen |-> p, st |-> "init"]
      PROVE  /\ ep'[k].gen = None <=> ep'[k].st = "absent"
             /\ ep'[k].gen # None => pkey[ep'[k].gen] = k /\ cgen'[ep'[k].gen] = ep'[k].gen
  BY <1>9, NoneAssumption
<1> QED
  BY <1>5, <1>6, <1>7, <1>8, <1>9

LEMMA IngestKept ==
    ASSUME CorrInv, Move
    PROVE  IngestShape'
<1>1. UNCHANGED <<pkey, ptok>> /\ IngestShape /\ TransitType /\ IngestMove
  BY Types DEF Move, CorrInv
<1> SUFFICES /\ ing'.pc = "idle" <=> ing'.p = None
             /\ ing'.pc \in {"existing", "existingR"} =>
                   ing'.c # None /\ cellst'[ing'.c] # "none" /\ pkey[ing'.c] = pkey[ing'.p]
  BY <1>1 DEF IngestShape, Inside
<1>2. CASE ing' = ing
  <2>1. ing.pc \in {"existing", "existingR"} => ing.c \in Packets
    BY <1>1 DEF IngestShape, TransitType, Maybe
  <2> QED
    BY <1>1, <1>2, <2>1, CellFates DEF IngestShape
<1>3. CASE ing' = Idle
  BY <1>3 DEF Idle
<1>4. CASE queue # <<>> /\ ing' = [pc |-> "wait", p |-> Head(queue), c |-> None]
  BY <1>4, QueueFacts, NoneAssumption
<1>5. ASSUME NEW x \in {"existing", "existingR"}, NEW p \in Packets, NEW c \in Packets,
             ing' = [pc |-> x, p |-> p, c |-> c], Inside(c), pkey[c] = pkey[p]
      PROVE  /\ ing'.pc = "idle" <=> ing'.p = None
             /\ ing'.pc \in {"existing", "existingR"} =>
                   ing'.c # None /\ cellst'[ing'.c] # "none" /\ pkey[ing'.c] = pkey[ing'.p]
  BY <1>5, CellFates, NoneAssumption
<1> QED
  BY <1>1, <1>2, <1>3, <1>4, <1>5 DEF IngestMove

LEMMA RequestKept ==
    ASSUME CorrInv, Move
    PROVE  RequestShape'
<1>1. UNCHANGED <<pkey, ptok>> /\ CleanupMove
  BY DEF Move
<1> SUFFICES ASSUME NEW r \in cleanups'
             PROVE  /\ ptok[r.tok] = r.tok
                    /\ \E p \in Packets : ptok[p] = r.tok /\ (verdict'[p] # "none" \/ cellst'[p] # "none")
  BY <1>1 DEF RequestShape, Fresh
<1>2. CASE r \in cleanups
  <2>1. PICK p \in Packets : ptok[p] = r.tok /\ (verdict[p] # "none" \/ cellst[p] # "none")
    BY <1>2, RequestFacts DEF Fresh
  <2>2. verdict'[p] # "none" \/ cellst'[p] # "none"
    BY <2>1, GuardsFlow, CellFates DEF GuardSettles, Undecided, Inside
  <2> QED
    BY <1>2, <2>1, <2>2, RequestFacts
<1> QED
  BY <1>1, <1>2 DEF CleanupMove

-----------------------------------------------------------------------------
(* The contracts preserve the invariant: the pump *)

\* A request keeps its cell and its decision from the channel to the batch.
LEMMA ChannelSteps ==
    ASSUME CorrInv, Move, NEW m \in 1..Len(commits')
    PROVE  \/ \E n \in 1..Len(commits) : commits'[m] = commits[n]
           \/ \E g \in Packets : /\ Submits(g)
                                 /\ commits'[m] = [cell |-> g, decision |-> task[g], res |-> "todo"]
<1>1. PumpType /\ PumpMove /\ Len(commits) \in Nat
  BY Types DEF Move, PumpType
<1>2. CASE UNCHANGED commits
  BY <1>2
<1>3. ASSUME NEW g \in Packets, Submits(g)
      PROVE  \/ \E n \in 1..Len(commits) : commits'[m] = commits[n]
             \/ commits'[m] = [cell |-> g, decision |-> task[g], res |-> "todo"]
  <2> DEFINE e == [cell |-> g, decision |-> task[g], res |-> "todo"]
  <2>1. commits' = Append(commits, e) /\ e \in Commits
    BY <1>3 DEF Submits, Commits, Results
  <2> HIDE DEF e
  <2>2. \/ m \in 1..Len(commits) /\ commits'[m] = commits[m]
        \/ commits'[m] = e
    BY <1>1, <2>1 DEF PumpType
  <2> QED
    BY <2>2 DEF e
<1>4. ASSUME NEW n \in 1..MaxBatch, Fetches(n)
      PROVE  \E x \in 1..Len(commits) : commits'[m] = commits[x]
  <2>1. /\ n \in 1..Len(commits) /\ commits' = SubSeq(commits, n + 1, Len(commits))
        /\ commits \in Seq(Commits)
    BY <1>1, <1>4 DEF Fetches, PumpType
  <2>2. Len(commits') = Len(commits) - n /\ commits'[m] = commits[n + m] /\ n + m \in 1..Len(commits)
    BY <1>1, <2>1
  <2> QED
    BY <2>2
<1> QED
  BY <1>1, <1>2, <1>3, <1>4 DEF PumpMove, Sweeps, Marks, Ends, Drains

LEMMA BatchSteps ==
    ASSUME CorrInv, Move, NEW j \in 1..Len(pump'.batch)
    PROVE  \/ /\ pump.pc = "idle" /\ pump'.pc = "lock"
              /\ \E m \in 1..Len(commits) : pump'.batch[j] = commits[m]
           \/ /\ j \in Indices /\ pump'.batch[j].cell = Entry(j).cell
              /\ pump'.batch[j].decision = Entry(j).decision
<1>1. PumpType /\ PumpMove
  BY Types DEF Move
<1>2. CASE UNCHANGED pump
  BY <1>2 DEF Indices, Entry
<1>3. ASSUME NEW n \in 1..MaxBatch, Fetches(n)
      PROVE  /\ pump.pc = "idle" /\ pump'.pc = "lock"
             /\ \E m \in 1..Len(commits) : pump'.batch[j] = commits[m]
  <2>1. /\ n \in 1..Len(commits) /\ pump'.batch = SubSeq(commits, 1, n)
        /\ commits \in Seq(Commits) /\ pump.pc = "idle" /\ pump'.pc = "lock" /\ Len(commits) \in Nat
    BY <1>1, <1>3 DEF Fetches, PumpType
  <2>2. pump'.batch[j] = commits[j] /\ j \in 1..Len(commits)
    BY <2>1
  <2> QED
    BY <2>1, <2>2
<1>4. ASSUME NEW pc \in {"apply", "complete"}, NEW b \in Seq(Commits), Sweeps(pc, b)
      PROVE  /\ j \in Indices /\ pump'.batch[j].cell = Entry(j).cell
             /\ pump'.batch[j].decision = Entry(j).decision
  BY <1>4 DEF Sweeps, Indices
<1>5. ASSUME NEW i \in Indices, NEW r \in Results, Marks(i, r)
      PROVE  /\ j \in Indices /\ pump'.batch[j].cell = Entry(j).cell
             /\ pump'.batch[j].decision = Entry(j).decision
  <2>1. pump' = Mark(i, r)
    BY <1>5 DEF Marks
  <2>2. j \in Indices
    BY <2>1, MarkFacts DEF Indices
  <2>3. j = i => pump'.batch[j] = [cell |-> Entry(i).cell, decision |-> Entry(i).decision, res |-> r]
    BY <2>1, MarkFacts
  <2>4. j # i => pump'.batch[j] = Entry(j)
    BY <2>1, <2>2, MarkFacts
  <2> QED
    BY <2>2, <2>3, <2>4
<1>6. CASE Ends
  BY <1>6 DEF Ends
<1> QED
  BY <1>1, <1>2, <1>3, <1>4, <1>5, <1>6 DEF PumpMove, Submits, Drains

LEMMA ChannelFacts ==
    ASSUME CorrInv, NEW m \in 1..Len(commits)
    PROVE  /\ commits[m] \in Commits /\ commits[m].cell \in Packets
           /\ commits[m].res = "todo" /\ Begun(commits[m].cell)
           /\ commits[m].decision # "proxy" => lease[commits[m].cell] # "task"
<1>1. commits[m] \in Commits
  BY Types DEF PumpType
<1> QED
  BY <1>1 DEF CorrInv, CommitShape, Commits

LEMMA CommitKept ==
    ASSUME CorrInv, Move
    PROVE  CommitShape'
<1> DEFINE Fine(e) == /\ task'[e.cell] \notin {"none", "run"} \cup Decisions
                      /\ e.decision # "proxy" => lease'[e.cell] # "task"
<1>1. ASSUME NEW m \in 1..Len(commits) PROVE Fine(commits[m])
  BY ChannelFacts, BegunKept
<1>2. ASSUME NEW m \in 1..Len(commits') PROVE commits'[m].res = "todo" /\ Fine(commits'[m])
  <2>1. ASSUME NEW n \in 1..Len(commits), commits'[m] = commits[n]
        PROVE  commits'[m].res = "todo" /\ Fine(commits'[m])
    <3> HIDE DEF Fine
    <3> QED
      BY <1>1, <2>1, ChannelFacts
  <2>2. ASSUME NEW g \in Packets, Submits(g),
               commits'[m] = [cell |-> g, decision |-> task[g], res |-> "todo"]
        PROVE  commits'[m].res = "todo" /\ Fine(commits'[m])
    <3>1. task'[g] = "wait" /\ (task[g] # "proxy" => lease'[g] = "request")
      BY <2>2, Types DEF Submits, TaskType
    <3>2. commits'[m].cell = g /\ commits'[m].decision = task[g] /\ commits'[m].res = "todo"
      BY <2>2
    <3> QED
      BY <3>1, <3>2 DEF Decisions
  <2> HIDE DEF Fine
  <2> QED
    BY <2>1, <2>2, ChannelSteps
<1>3. ASSUME NEW j \in 1..Len(pump'.batch) PROVE Fine(pump'.batch[j])
  <2>1. ASSUME NEW m \in 1..Len(commits), pump'.batch[j] = commits[m] PROVE Fine(pump'.batch[j])
    <3> HIDE DEF Fine
    <3> QED
      BY <1>1, <2>1
  <2>2. ASSUME j \in Indices, pump'.batch[j].cell = Entry(j).cell, pump'.batch[j].decision = Entry(j).decision
        PROVE  Fine(pump'.batch[j])
    <3>1. Entry(j).cell \in Packets /\ Begun(Entry(j).cell)
      BY <2>2, EntryFacts
    <3>2. Entry(j).decision # "proxy" => lease[Entry(j).cell] # "task"
      BY <2>2 DEF CorrInv, CommitShape
    <3> QED
      BY <2>2, <3>1, <3>2, BegunKept
  <2> HIDE DEF Fine
  <2> QED
    BY <2>1, <2>2, BatchSteps
<1> QED
  BY <1>2, <1>3 DEF CommitShape, Begun, Indices, Entry

\* A decision that has been applied stays the state of its cell.
LEMMA AppliedKept ==
    ASSUME CorrInv, Move, NEW c \in Packets, NEW d \in Decisions, cellst[c] = d
    PROVE  cellst'[c] = d
BY CellFates DEF Terminal, Decisions

\* What PhaseInv says of one request.
PhaseOf(pc, e, st) ==
    /\ pc = "lock" => e.res \in {"todo", "gone"}
    /\ pc = "apply" => e.res \in UnderLock
    /\ pc = "complete" => e.res # "todo"
    /\ e.res \in ArmedPhases \cup {"failArmed"} => e.decision = "direct"
    /\ e.res \in {"terminal", "failTerminal"} => e.decision # "direct"
    /\ e.res \in {"terminal", "failTerminal", "ok"} /\ e.decision # "direct" => st[e.cell] = e.decision

LEMMA PhaseFacts ==
    ASSUME CorrInv, NEW i \in Indices
    PROVE  PhaseOf(pump.pc, Entry(i), cellst)
BY DEF CorrInv, PhaseInv, PhaseOf

LEMMA MarkPhase ==
    ASSUME CorrInv, Move, NEW i \in Indices, NEW r \in Results, Marks(i, r)
    PROVE  PhaseOf(pump.pc, [cell |-> Entry(i).cell, decision |-> Entry(i).decision, res |-> r], cellst')
<1> DEFINE c == Entry(i).cell
           d == Entry(i).decision
           x == Entry(i).res
           e == [cell |-> c, decision |-> d, res |-> r]
<1>1. c \in Packets /\ d \in Decisions /\ x \in Results /\ pump.pc \in PumpPcs
  BY EntryFacts, Types DEF PumpType
<1>2. PhaseOf(pump.pc, Entry(i), cellst)
  BY PhaseFacts
<1>3. /\ pump.pc = "lock" => x \in {"todo", "gone"}
      /\ pump.pc = "apply" => x \in UnderLock
      /\ x \in ArmedPhases \cup {"failArmed"} => d = "direct"
      /\ x \in {"terminal", "failTerminal"} => d # "direct" /\ cellst[c] = d
  BY <1>2 DEF PhaseOf
<1>4. cellst[c] = d => cellst'[c] = d
  BY <1>1, AppliedKept
<1>5. Decides(i, c, d) => cellst'[c] = d
  BY <1>1, Types DEF Decides, CellType
<1>6. pump.pc = "lock" => r = "gone"
  BY <1>3 DEF Marks
<1>7. pump.pc = "apply" => r \in UnderLock
  BY <1>3 DEF Marks, UnderLock
<1>8. r # "todo"
  BY DEF Marks
<1>9. r \in ArmedPhases \cup {"failArmed"} => d = "direct"
  BY <1>3 DEF Marks, ArmedPhases
<1>10. r \in {"terminal", "failTerminal"} => d # "direct"
  BY DEF Marks
<1>11. r \in {"terminal", "failTerminal", "ok"} /\ d # "direct" => cellst'[c] = d
  <2>1. ASSUME r = "terminal" PROVE cellst'[c] = d
    BY <2>1, <1>5 DEF Marks
  <2>2. r # "failTerminal"
    BY DEF Marks
  <2>3. ASSUME r = "ok", d # "direct" PROVE cellst'[c] = d
    BY <2>3, <1>3, <1>4 DEF Marks, ArmedPhases
  <2> QED
    BY <2>1, <2>2, <2>3
<1>12. e.cell = c /\ e.decision = d /\ e.res = r
  OBVIOUS
<1> HIDE DEF c, d, x, e
<1>13. PhaseOf(pump.pc, e, cellst')
  BY <1>6, <1>7, <1>8, <1>9, <1>10, <1>11, <1>12 DEF PhaseOf
<1> QED
  BY <1>13 DEF e, c, d

LEMMA PhaseKept ==
    ASSUME CorrInv, Move
    PROVE  PhaseInv'
<1>1. PumpType /\ PumpMove /\ PhaseInv /\ Indices = 1..Len(pump.batch)
  BY Types DEF Move, CorrInv, Indices
<1> SUFFICES /\ pump'.pc = "idle" => pump'.batch = <<>>
             /\ \A j \in 1..Len(pump'.batch) : PhaseOf(pump'.pc, pump'.batch[j], cellst')
  BY DEF PhaseInv, PhaseOf, Indices, Entry
<1> DEFINE Goal == /\ pump'.pc = "idle" => pump'.batch = <<>>
                   /\ \A j \in 1..Len(pump'.batch) : PhaseOf(pump'.pc, pump'.batch[j], cellst')
<1>2. ASSUME NEW i \in Indices PROVE PhaseOf(pump.pc, Entry(i), cellst')
  <2>1. PhaseOf(pump.pc, Entry(i), cellst) /\ Entry(i).cell \in Packets /\ Entry(i).decision \in Decisions
    BY PhaseFacts, EntryFacts
  <2>2. cellst[Entry(i).cell] = Entry(i).decision => cellst'[Entry(i).cell] = Entry(i).decision
    BY <2>1, AppliedKept
  <2> QED
    BY <2>1, <2>2 DEF PhaseOf
<1>3. CASE UNCHANGED pump
  BY <1>1, <1>2, <1>3 DEF PhaseInv, Entry
<1>4. ASSUME NEW n \in 1..MaxBatch, Fetches(n) PROVE Goal
  <2>1. /\ n \in 1..Len(commits) /\ pump'.batch = SubSeq(commits, 1, n)
        /\ commits \in Seq(Commits) /\ pump'.pc = "lock" /\ Len(commits) \in Nat
    BY <1>1, <1>4 DEF Fetches, PumpType
  <2>2. ASSUME NEW j \in 1..Len(pump'.batch) PROVE pump'.batch[j].res = "todo"
    <3>1. pump'.batch[j] = commits[j] /\ j \in 1..Len(commits)
      BY <2>1
    <3> QED
      BY <3>1, ChannelFacts
  <2> QED
    BY <2>1, <2>2 DEF PhaseOf, ArmedPhases
<1>5. ASSUME NEW pc \in {"apply", "complete"}, NEW b \in Seq(Commits), Sweeps(pc, b) PROVE Goal
  <2>1. pump'.pc = pc /\ pump'.batch = b /\ 1..Len(pump'.batch) = Indices
    BY <1>1, <1>5 DEF Sweeps
  <2>2. ASSUME NEW j \in Indices PROVE PhaseOf(pc, b[j], cellst')
    <3>1. PhaseOf(pump.pc, Entry(j), cellst') /\ Entry(j).res \in Results
      BY <1>2, EntryFacts
    <3>2. /\ b[j].cell = Entry(j).cell /\ b[j].decision = Entry(j).decision
          /\ \/ b[j].res = Entry(j).res
             \/ b[j].res \in {"late", "refused"}
             \/ Entry(j).res = "armed" /\ b[j].res = "failArmed"
             \/ Entry(j).res = "terminal" /\ b[j].res = "failTerminal"
      BY <1>5 DEF Sweeps
    <3>3. CASE pc = "apply"
      <4>1. b[j].res \in {"todo", "late", "gone"}
        BY <1>5, <3>3 DEF Sweeps
      <4> QED
        BY <3>3, <4>1 DEF PhaseOf, UnderLock, ArmedPhases
    <3>4. CASE pc = "complete"
      <4>1. b[j].res # "todo"
        BY <1>5, <3>4 DEF Sweeps
      <4> QED
        BY <3>1, <3>2, <3>4, <4>1 DEF PhaseOf, ArmedPhases
    <3> QED
      BY <3>3, <3>4
  <2> QED
    BY <2>1, <2>2
<1>6. ASSUME NEW i \in Indices, NEW r \in Results, Marks(i, r) PROVE Goal
  <2>1. pump' = Mark(i, r)
    BY <1>6 DEF Marks
  <2>2. /\ pump'.pc = pump.pc /\ 1..Len(pump'.batch) = Indices
        /\ pump'.batch[i] = [cell |-> Entry(i).cell, decision |-> Entry(i).decision, res |-> r]
        /\ \A j \in Indices : j # i => pump'.batch[j] = Entry(j)
    BY <1>1, <2>1, MarkFacts
  <2>3. PhaseOf(pump.pc, [cell |-> Entry(i).cell, decision |-> Entry(i).decision, res |-> r], cellst')
    BY <1>6, MarkPhase
  <2>4. \A j \in Indices : PhaseOf(pump'.pc, pump'.batch[j], cellst')
    BY <1>2, <2>2, <2>3
  <2>5. pump'.pc # "idle"
    <3>1. pump.pc # "idle"
      <4> SUFFICES ASSUME pump.pc = "idle" PROVE FALSE
        OBVIOUS
      <4>1. pump.batch = <<>>
        BY <1>1 DEF PhaseInv
      <4>2. Indices = {}
        BY <1>1, <4>1
      <4> QED
        BY <1>6, <4>2
    <3> QED
      BY <2>2, <3>1
  <2> QED
    BY <2>2, <2>4, <2>5
<1>7. CASE Ends
  BY <1>7 DEF Ends
<1> QED
  BY <1>1, <1>3, <1>4, <1>5, <1>6, <1>7 DEF PumpMove, Submits, Drains

-----------------------------------------------------------------------------
(* The contracts preserve the invariant: the guards' packets *)

LEMMA TransitKept ==
    ASSUME CorrInv, Move
    PROVE  TransitShape'
<1>1. UNCHANGED <<pkey, ptok>> /\ GuardFlow /\ GuardSettles /\ TransitShape
  BY GuardsFlow DEF Move, CorrInv
<1> SUFFICES ASSUME NEW p \in Packets, p \in ToSet(wire') \/ p \in ToSet(queue') \/ ing'.p = p
             PROVE  Known(p) /\ cellst'[p] = "none" /\ verdict'[p] = "none"
  BY <1>1 DEF TransitShape, Transit, Known, Inside, Undecided
<1>2. p # None
  BY NoneAssumption
<1>3. p \in ToSet(wire) \/ p \in ToSet(queue) \/ ing.p = p
  BY <1>1, <1>2 DEF GuardFlow
<1>4. Known(p) /\ ~Inside(p)
  BY <1>1, <1>3 DEF TransitShape, Transit
<1>5. cellst'[p] = "none"
  <2> SUFFICES ASSUME cellst'[p] # "none" PROVE FALSE
    OBVIOUS
  <2>1. p = ing.p /\ ing'.p = None
    BY <1>4, CellFates DEF Idle
  <2> QED
    BY <1>1, <1>2, <2>1, OwnerFacts DEF GuardFlow
<1> QED
  BY <1>1, <1>4, <1>5 DEF GuardSettles

LEMMA HeldKept ==
    ASSUME CorrInv, Move
    PROVE  HeldShape'
<1>1. UNCHANGED <<pkey, ptok>> /\ GuardFlow /\ GuardSettles
  BY GuardsFlow DEF Move
<1>2. CellType' /\ PumpType'
  BY FlowTypes, PumpTypes DEF Move
<1> SUFFICES ASSUME NEW c \in Packets, NEW p \in ToSet(held'[c]) \cup ToSet(taken'[c])
             PROVE  /\ ptok[p] = ptok[c] /\ verdict'[p] = "none"
                    /\ p \notin ToSet(wire') /\ p \notin ToSet(queue') /\ ing'.p # p
  BY <1>1 DEF HeldShape, Undecided, Transit
<1>3. p \in Packets /\ p # None
  BY <1>2, ToSetRange, NoneAssumption DEF CellType, PumpType
<1>4. verdict'[p] = "none"
  BY <1>1, <1>3 DEF GuardSettles
<1>5. p \in ToSet(held[c]) \/ p \in ToSet(taken[c]) \/ (p = ing.p /\ ing'.p = None /\ ptok[p] = ptok[c])
  BY <1>1 DEF GuardFlow
<1>6. CASE p \in ToSet(held[c]) \/ p \in ToSet(taken[c])
  <2>1. ptok[p] = ptok[c] /\ p \notin ToSet(wire) /\ p \notin ToSet(queue) /\ p # ing.p
    BY <1>3, <1>6, OwnerFacts
  <2> QED
    BY <1>1, <1>3, <1>4, <2>1 DEF GuardFlow
<1>7. CASE p = ing.p /\ ing'.p = None /\ ptok[p] = ptok[c]
  BY <1>1, <1>3, <1>4, <1>7, OwnerFacts DEF GuardFlow
<1> QED
  BY <1>5, <1>6, <1>7

-----------------------------------------------------------------------------
(* The contracts preserve the invariant: armed flows *)

LEMMA SameFlow ==
    ASSUME CorrInv, NEW c \in Packets, NEW d \in Packets, Inside(c), ptok[d] = ptok[c]
    PROVE  pkey[d] = pkey[c] /\ Known(d)
<1>1. ptok[c] \in Packets /\ pkey[ptok[c]] = pkey[c]
  BY InsideFacts
<1>2. Known(d)
  BY <1>1, NoneAssumption DEF CorrInv, PacketShape
<1> QED
  BY <1>1, <1>2, KnownFacts

\* Two pending cells of one token are the same cell.
LEMMA OnePending ==
    ASSUME CorrInv, NEW c \in Packets, NEW d \in Packets, IsPending(c), IsPending(d), ptok[c] = ptok[d]
    PROVE  c = d
<1>1. Inside(c) /\ map[pkey[c]] = c /\ map[pkey[d]] = d
  BY DEF CorrInv, CellShape, IsPending, Unarmed, Inside
<1> QED
  BY <1>1, SameFlow

LEMMA ArmedStays ==
    ASSUME CorrInv, Move, NEW k \in Keys, conn[k].st = "armed"
    PROVE  \/ conn'[k] = conn[k]
           \/ \E d \in Packets, i \in Indices : ptok[d] = conn[k].tok /\ pkey[d] = k /\ Activates(i, d)
<1>1. ~Removable(k)
  BY DEF Removable
<1>2. ASSUME NEW d \in Packets, pkey[d] = k, RecordIs(d, "pending") PROVE FALSE
  BY <1>2 DEF RecordIs
<1>3. ASSUME NEW d \in Packets, pkey[d] = k, RecordIs(d, "armed") PROVE ptok[d] = conn[k].tok
  BY <1>3 DEF RecordIs
<1> QED
  <2>1. ASSUME NEW d \in Packets, NEW i \in Indices, pkey[d] = k, RecordIs(d, "armed"), Activates(i, d)
        PROVE  ptok[d] = conn[k].tok /\ pkey[d] = k /\ Activates(i, d)
    BY <2>1, <1>3
  <2>2. ConnStep(k)
    BY ConnSteps
  <2>3. CASE conn'[k] = conn[k] \/ (conn'[k] = Absent /\ Removable(k))
    BY <2>3, <1>1
  <2>4. ASSUME NEW d \in Packets, pkey[d] = k, RecordIs(d, "pending") PROVE FALSE
    BY <2>4, <1>2
  <2> QED
    BY <2>1, <2>2, <2>3, <2>4 DEF ConnStep

LEMMA ArmedRecordKept ==
    ASSUME CorrInv, Move
    PROVE  ArmedRecord'
<1>1. UNCHANGED <<pkey, ptok>> /\ ArmedRecord /\ RecordType
  BY Types DEF Move, CorrInv
<1>2. ASSUME NEW c \in Packets, cellst'[c] = "armed" PROVE conn'[pkey[c]] = [tok |-> ptok[c], st |-> "armed"]
  <2>1. IsPending(c) /\ Inside(c) /\ pkey[c] \in Keys
    BY <1>2, CellFates, InsideFacts DEF IsPending, Unarmed, Inside
  <2>2. CASE cellst[c] = "armed"
    <3>1. conn[pkey[c]] = [tok |-> ptok[c], st |-> "armed"]
      BY <1>1, <2>2 DEF ArmedRecord, RecordArmed
    <3>2. ASSUME NEW d \in Packets, NEW i \in Indices, ptok[d] = ptok[c], Activates(i, d) PROVE FALSE
      <4>1. cellst[d] = "armed" /\ cellst'[d] = "direct"
        BY <3>2, Types DEF Activates, CellType
      <4>2. d = c
        BY <1>1, <2>2, <3>2, <4>1 DEF ArmedRecord
      <4> QED
        BY <1>2, <4>1, <4>2
    <3> QED
      BY <2>1, <3>1, <3>2, ArmedStays
  <2>3. CASE cellst[c] # "armed"
    <3>1. conn' = [conn EXCEPT ![pkey[c]] = [tok |-> ptok[c], st |-> "armed"]]
      BY <1>2, <2>3, CellSteps DEF CellStep
    <3> QED
      BY <1>1, <2>1, <3>1 DEF RecordType
  <2> QED
    BY <2>2, <2>3
<1>3. ASSUME NEW c \in Packets, NEW d \in Packets, cellst'[c] = "armed", cellst'[d] = "armed",
             ptok[c] = ptok[d]
      PROVE  c = d
  BY <1>3, CellFates, OnePending
<1> QED
  BY <1>1, <1>2, <1>3 DEF ArmedRecord, RecordArmed

\* Where an armed request comes from.
LEMMA ArmedOrigin ==
    ASSUME CorrInv, Move, NEW j \in 1..Len(pump'.batch), pump'.batch[j].res \in ArmedPhases
    PROVE  /\ j \in Indices /\ pump'.batch[j].cell = Entry(j).cell
           /\ \/ Entry(j).res \in ArmedPhases
              \/ Entry(j).res = "todo" /\ Decides(j, Entry(j).cell, "armed")
<1>1. PumpMove /\ Indices = 1..Len(pump.batch)
  BY DEF Move, Indices
<1>2. j \in Indices /\ pump'.batch[j].cell = Entry(j).cell
  BY BatchSteps, ChannelFacts DEF ArmedPhases
<1>3. CASE UNCHANGED pump
  BY <1>2, <1>3 DEF Entry
<1>4. ASSUME NEW n \in 1..MaxBatch, Fetches(n) PROVE FALSE
  <2>1. pump'.batch[j] = commits[j] /\ j \in 1..Len(commits)
    BY <1>4, Types DEF Fetches, PumpType
  <2> QED
    BY <2>1, ChannelFacts DEF ArmedPhases
<1>5. ASSUME NEW pc \in {"apply", "complete"}, NEW b \in Seq(Commits), Sweeps(pc, b)
      PROVE  Entry(j).res \in ArmedPhases
  BY <1>2, <1>5 DEF Sweeps, ArmedPhases
<1>6. ASSUME NEW i \in Indices, NEW r \in Results, Marks(i, r)
      PROVE  \/ Entry(j).res \in ArmedPhases
             \/ Entry(j).res = "todo" /\ Decides(j, Entry(j).cell, "armed")
  <2>1. pump' = Mark(i, r)
    BY <1>6 DEF Marks
  <2>2. CASE j # i
    <3>1. pump'.batch[j] = Entry(j)
      BY <1>2, <2>1, <2>2, MarkFacts
    <3> QED
      BY <3>1
  <2>3. CASE j = i
    <3>1. pump'.batch[j] = [cell |-> Entry(i).cell, decision |-> Entry(i).decision, res |-> r]
      BY <2>1, <2>3, MarkFacts
    <3>2. r \in ArmedPhases
      BY <3>1
    <3> QED
      BY <1>6, <2>3, <3>2 DEF Marks, ArmedPhases
  <2> QED
    BY <2>2, <2>3
<1>7. Ends => FALSE
  BY DEF Ends
<1> QED
  BY <1>1, <1>2, <1>3, <1>4, <1>5, <1>6, <1>7 DEF PumpMove, Submits, Drains

LEMMA ArmedEntryKept ==
    ASSUME CorrInv, Move
    PROVE  ArmedEntry'
<1>1. UNCHANGED <<pkey, ptok>> /\ ArmedEntry /\ RecordType
  BY Types DEF Move, CorrInv
<1>2. ASSUME NEW j \in 1..Len(pump'.batch), pump'.batch[j].res \in ArmedPhases
      PROVE  conn'[pkey[pump'.batch[j].cell]] = [tok |-> ptok[pump'.batch[j].cell], st |-> "armed"]
  <2> DEFINE c == Entry(j).cell
  <2>1. j \in Indices /\ pump'.batch[j].cell = c
    BY <1>2, ArmedOrigin
  <2>2. c \in Packets /\ Inside(c) /\ pkey[c] \in Keys
    BY <2>1, EntryFacts
  <2>3. CASE Entry(j).res \in ArmedPhases
    <3>1. conn[pkey[c]] = [tok |-> ptok[c], st |-> "armed"]
      BY <1>1, <2>1, <2>3 DEF ArmedEntry, RecordArmed
    <3>2. ASSUME NEW d \in Packets, NEW i \in Indices, ptok[d] = ptok[c], Activates(i, d) PROVE FALSE
      <4>1. Entry(i).cell = d /\ pump' = Mark(i, "ok") /\ Entry(i).res = "accept"
        BY <3>2 DEF Activates, Marked
      <4>2. i = j
        BY <1>1, <2>1, <2>3, <3>2, <4>1 DEF ArmedEntry, ArmedPhases
      <4>3. pump'.batch[i] = [cell |-> Entry(i).cell, decision |-> Entry(i).decision, res |-> "ok"]
        BY <4>1, MarkFacts DEF Results
      <4> QED
        BY <1>2, <4>2, <4>3 DEF ArmedPhases
    <3> QED
      BY <2>1, <2>2, <3>1, <3>2, ArmedStays
  <2>4. CASE Decides(j, c, "armed")
    <3>1. conn' = [conn EXCEPT ![pkey[c]] = [tok |-> ptok[c], st |-> "armed"]]
      BY <2>4 DEF Decides
    <3> QED
      BY <1>1, <2>1, <2>2, <3>1 DEF RecordType
  <2> QED
    BY <1>2, <2>3, <2>4, ArmedOrigin
<1>3. ASSUME NEW i \in 1..Len(pump'.batch), NEW j \in 1..Len(pump'.batch),
             pump'.batch[i].res \in ArmedPhases, pump'.batch[j].res \in ArmedPhases,
             ptok[pump'.batch[i].cell] = ptok[pump'.batch[j].cell]
      PROVE  i = j
  <2>1. /\ i \in Indices /\ j \in Indices /\ ptok[Entry(i).cell] = ptok[Entry(j).cell]
        /\ Entry(i).cell \in Packets /\ Entry(j).cell \in Packets /\ Inside(Entry(i).cell)
    BY <1>3, ArmedOrigin, EntryFacts
  <2>2. pkey[Entry(i).cell] = pkey[Entry(j).cell]
    BY <2>1, SameFlow
  <2>3. ASSUME NEW a \in Indices, NEW b \in Indices, ptok[Entry(a).cell] = ptok[Entry(b).cell],
               pkey[Entry(a).cell] = pkey[Entry(b).cell],
               Entry(a).res \in ArmedPhases, Decides(b, Entry(b).cell, "armed")
        PROVE  FALSE
    <3>1. conn[pkey[Entry(a).cell]] = [tok |-> ptok[Entry(a).cell], st |-> "armed"]
      BY <1>1, <2>3 DEF ArmedEntry, RecordArmed
    <3>2. conn[pkey[Entry(b).cell]].st = "pending"
      BY <2>3 DEF Decides, RecordIs
    <3> QED
      BY <2>3, <3>1, <3>2
  <2>4. ASSUME Decides(i, Entry(i).cell, "armed"), Entry(j).res = "todo" PROVE i = j
    <3>1. pump' = Mark(i, "armed")
      BY <2>4 DEF Decides, Marked
    <3>2. i # j => pump'.batch[j] = Entry(j)
      BY <2>1, <3>1, MarkFacts DEF Results
    <3> QED
      BY <1>3, <2>4, <3>2 DEF ArmedPhases
  <2>5. Entry(i).res \in ArmedPhases /\ Entry(j).res \in ArmedPhases => i = j
    BY <1>1, <2>1 DEF ArmedEntry
  <2> QED
    BY <1>3, <2>1, <2>2, <2>3, <2>4, <2>5, ArmedOrigin
<1> QED
  BY <1>1, <1>2, <1>3 DEF ArmedEntry, RecordArmed, Indices, Entry

LEMMA NoFetch ==
    ASSUME CorrInv, NEW i \in Indices, NEW n \in 1..MaxBatch, Fetches(n)
    PROVE  FALSE
<1>1. pump.batch = <<>>
  BY DEF Fetches, CorrInv, PhaseInv
<1> QED
  BY <1>1 DEF Indices

LEMMA ArmedHasEntryKept ==
    ASSUME CorrInv, Move
    PROVE  ArmedHasEntry'
<1>1. UNCHANGED <<pkey, ptok>> /\ PumpMove /\ (fatal => fatal')
  BY DEF Move, FailMove
<1> SUFFICES ASSUME ~fatal'
             PROVE  /\ \A k \in Keys : conn'[k].st = "armed" =>
                          \E c \in Packets : cellst'[c] = "armed" /\ ptok[c] = conn'[k].tok
                    /\ \A c \in Packets : cellst'[c] = "armed" =>
                          \E i \in 1..Len(pump'.batch) :
                             pump'.batch[i].cell = c /\ pump'.batch[i].res \in ArmedPhases
  BY <1>1 DEF ArmedHasEntry, Indices, Entry
<1>2. /\ \A k \in Keys : conn[k].st = "armed" =>
            \E c \in Packets : cellst[c] = "armed" /\ ptok[c] = conn[k].tok
      /\ \A c \in Packets : cellst[c] = "armed" =>
            \E i \in Indices : Entry(i).cell = c /\ Entry(i).res \in ArmedPhases
  BY <1>1 DEF CorrInv, ArmedHasEntry
<1>3. ASSUME NEW k \in Keys, conn'[k].st = "armed"
      PROVE  \E c \in Packets : cellst'[c] = "armed" /\ ptok[c] = conn'[k].tok
  <2>1. CASE conn'[k] = conn[k]
    <3>1. PICK c \in Packets : cellst[c] = "armed" /\ ptok[c] = conn[k].tok
      BY <1>2, <1>3, <2>1
    <3>2. Inside(c) /\ pkey[c] \in Keys /\ pkey[ptok[c]] = pkey[c] /\ ptok[c] # None
      BY <3>1, InsideFacts, NoneAssumption DEF Inside
    <3>3. pkey[c] = k
      BY <3>1, <3>2 DEF CorrInv, RecordShape
    <3>4. conn' = [conn EXCEPT ![pkey[c]] = [tok |-> ptok[c], st |-> "direct"]] => conn'[k].st = "direct"
      BY <3>3, Types DEF RecordType
    <3>5. cellst'[c] = "armed"
      BY <1>3, <3>1, <3>4, CellSteps DEF CellStep, Unarmed
    <3> QED
      BY <2>1, <3>1, <3>5
  <2>2. ASSUME NEW c \in Packets, cellst'[c] \in {"armed", "proxy", "block"},
               conn'[k] = [tok |-> ptok[c], st |-> cellst'[c]]
        PROVE  \E d \in Packets : cellst'[d] = "armed" /\ ptok[d] = conn'[k].tok
    BY <1>3, <2>2
  <2>3. conn'[k] # Absent
    BY <1>3 DEF Absent
  <2>4. ASSUME NEW c \in Packets, conn'[k] = [tok |-> ptok[c], st |-> "direct"] PROVE FALSE
    BY <1>3, <2>4
  <2>5. \/ conn'[k] = conn[k] \/ conn'[k] = Absent
        \/ \E c \in Packets : /\ cellst'[c] \in {"armed", "proxy", "block"}
                              /\ conn'[k] = [tok |-> ptok[c], st |-> cellst'[c]]
        \/ \E c \in Packets : conn'[k] = [tok |-> ptok[c], st |-> "direct"]
    <3>1. ConnStep(k)
      BY ConnSteps
    <3> QED
      BY <3>1, Zenon DEF ConnStep
  <2> QED
    BY <2>1, <2>2, <2>3, <2>4, <2>5
<1>4. ASSUME NEW c \in Packets, cellst'[c] = "armed"
      PROVE  \E i \in 1..Len(pump'.batch) : pump'.batch[i].cell = c /\ pump'.batch[i].res \in ArmedPhases
  <2>1. CASE cellst[c] = "armed"
    <3>1. PICK i \in Indices : Entry(i).cell = c /\ Entry(i).res \in ArmedPhases
      BY <1>2, <2>1
    <3>2. CASE UNCHANGED pump
      BY <3>1, <3>2 DEF Indices, Entry
    <3>3. \A n \in 1..MaxBatch : ~Fetches(n)
      BY <3>1, NoFetch
    <3>4. ASSUME NEW pc \in {"apply", "complete"}, NEW b \in Seq(Commits), Sweeps(pc, b)
          PROVE  \E x \in 1..Len(pump'.batch) : pump'.batch[x].cell = c /\ pump'.batch[x].res \in ArmedPhases
      <4>1. pump'.batch = b /\ Len(b) = Len(pump.batch)
        BY <3>4 DEF Sweeps
      <4>2. b[i].cell = c /\ b[i].res = Entry(i).res
        BY <3>1, <3>4 DEF Sweeps, ArmedPhases
      <4> QED
        BY <3>1, <4>1, <4>2 DEF Indices
    <3>5. ASSUME NEW j \in Indices, NEW r \in Results, Marks(j, r)
          PROVE  \E x \in 1..Len(pump'.batch) : pump'.batch[x].cell = c /\ pump'.batch[x].res \in ArmedPhases
      <4>1. pump' = Mark(j, r)
        BY <3>5 DEF Marks
      <4>2. i \in 1..Len(pump'.batch)
        BY <4>1, MarkFacts DEF Indices
      <4>3. CASE i # j
        <5>1. pump'.batch[i] = Entry(i)
          BY <4>1, <4>3, MarkFacts
        <5> QED
          BY <3>1, <4>2, <5>1
      <4>4. CASE i = j
        <5>1. pump'.batch[i] = [cell |-> Entry(i).cell, decision |-> Entry(i).decision, res |-> r]
          BY <4>1, <4>4, MarkFacts
        <5>2. ~Activates(i, c)
          BY <1>4, Types DEF Activates, CellType
        <5>3. r \in ArmedPhases
          BY <3>1, <3>5, <4>4, <5>2 DEF Marks, ArmedPhases
        <5> QED
          BY <3>1, <4>2, <5>1, <5>3
      <4> QED
        BY <4>3, <4>4
    <3>6. ~Ends
      BY <3>1 DEF Ends, ArmedPhases
    <3> QED
      BY <1>1, <3>2, <3>3, <3>4, <3>5, <3>6 DEF PumpMove, Submits, Drains
  <2>2. CASE cellst[c] # "armed"
    <3>1. PICK i \in Indices : Decides(i, c, "armed")
      BY <1>4, <2>2, CellSteps DEF CellStep
    <3>2. Entry(i).cell = c /\ pump' = Mark(i, "armed")
      BY <3>1 DEF Decides, Marked
    <3>3. /\ i \in 1..Len(pump'.batch)
          /\ pump'.batch[i] = [cell |-> Entry(i).cell, decision |-> Entry(i).decision, res |-> "armed"]
      BY <3>2, MarkFacts DEF Indices, Results
    <3> QED
      BY <3>2, <3>3 DEF ArmedPhases
  <2> QED
    BY <2>1, <2>2
<1> QED
  BY <1>3, <1>4

LEMMA TakenHasEntryKept ==
    ASSUME CorrInv, Move
    PROVE  TakenHasEntry'
<1> DEFINE Busy == {"accept", "terminal", "failTerminal"}
<1>1. PumpMove /\ taken \in [Packets -> Seq(Packets)]
  BY OwnerTypes DEF Move
<1> SUFFICES ASSUME NEW c \in Packets, taken'[c] # <<>>
             PROVE  \E i \in 1..Len(pump'.batch) : pump'.batch[i].cell = c /\ pump'.batch[i].res \in Busy
  BY DEF TakenHasEntry, Indices, Entry
<1>2. ASSUME NEW i \in Indices, Moves(i, c)
      PROVE  \E x \in 1..Len(pump'.batch) : pump'.batch[x].cell = c /\ pump'.batch[x].res \in Busy
  <2>1. PICK r \in {"accept", "terminal"} : Entry(i).cell = c /\ pump' = Mark(i, r)
    BY <1>2 DEF Moves, Marked
  <2>2. /\ i \in 1..Len(pump'.batch)
        /\ pump'.batch[i] = [cell |-> Entry(i).cell, decision |-> Entry(i).decision, res |-> r]
    BY <2>1, MarkFacts DEF Indices, Results
  <2> QED
    BY <2>1, <2>2
<1>3. ASSUME taken[c] # <<>>
      PROVE  \E x \in 1..Len(pump'.batch) : pump'.batch[x].cell = c /\ pump'.batch[x].res \in Busy
  <2>1. PICK i \in Indices : Entry(i).cell = c /\ Entry(i).res \in Busy
    BY <1>3 DEF CorrInv, TakenHasEntry
  <2>2. CASE UNCHANGED pump
    BY <2>1, <2>2 DEF Indices, Entry
  <2>3. \A n \in 1..MaxBatch : ~Fetches(n)
    BY <2>1, NoFetch
  <2>4. ASSUME NEW pc \in {"apply", "complete"}, NEW b \in Seq(Commits), Sweeps(pc, b)
        PROVE  \E x \in 1..Len(pump'.batch) : pump'.batch[x].cell = c /\ pump'.batch[x].res \in Busy
    <3>1. pump'.batch = b /\ Len(b) = Len(pump.batch)
      BY <2>4 DEF Sweeps
    <3>2. b[i].cell = c /\ b[i].res \in Busy
      BY <2>1, <2>4 DEF Sweeps
    <3> QED
      BY <2>1, <3>1, <3>2 DEF Indices
  <2>5. ASSUME NEW j \in Indices, NEW r \in Results, Marks(j, r)
        PROVE  \E x \in 1..Len(pump'.batch) : pump'.batch[x].cell = c /\ pump'.batch[x].res \in Busy
    <3>1. pump' = Mark(j, r)
      BY <2>5 DEF Marks
    <3>2. i \in 1..Len(pump'.batch)
      BY <3>1, MarkFacts DEF Indices
    <3>3. i # j
      <4>1. taken' = [taken EXCEPT ![c] = <<>>] => taken'[c] = <<>>
        BY <1>1
      <4> QED
        BY <1>3, <2>1, <2>5, <4>1 DEF Marks, ArmedPhases
    <3>4. pump'.batch[i] = Entry(i)
      BY <3>1, <3>3, MarkFacts
    <3> QED
      BY <2>1, <3>2, <3>4
  <2>6. ~Ends
    BY <2>1 DEF Ends
  <2> QED
    BY <1>1, <2>2, <2>3, <2>4, <2>5, <2>6 DEF PumpMove, Submits, Drains
<1> QED
  BY <1>2, <1>3, TakenSteps DEF TakenStep

-----------------------------------------------------------------------------
(* The contracts preserve the invariant: a token is decided one way *)

DecidedStates == {"armed", "direct", "proxy", "block"}

\* A cell that takes up a decision has it from its own record.
LEMMA NewDecision ==
    ASSUME CorrInv, Move, NEW c \in Packets, cellst'[c] \in DecidedStates
    PROVE  /\ Known(c) /\ pkey[c] \in Keys /\ ptok[c] \in Packets
           /\ \/ cellst'[c] = cellst[c]
              \/ conn'[pkey[c]] = [tok |-> ptok[c], st |-> cellst'[c]]
<1>1. Known(c) /\ pkey[c] \in Keys /\ ptok[c] \in Packets
  BY CellFates, InsideFacts, KnownFacts DEF DecidedStates
<1>2. CASE UNCHANGED conn /\ RecordIs(c, cellst'[c])
  BY <1>1, <1>2 DEF RecordIs
<1>3. CASE conn' = [conn EXCEPT ![pkey[c]] = [tok |-> ptok[c], st |-> cellst'[c]]]
  BY <1>1, <1>3, Types DEF RecordType
<1>4. \/ cellst'[c] = cellst[c]
      \/ UNCHANGED conn /\ RecordIs(c, cellst'[c])
      \/ conn' = [conn EXCEPT ![pkey[c]] = [tok |-> ptok[c], st |-> cellst'[c]]]
  BY CellSteps DEF CellStep, DecidedStates
<1> QED
  BY <1>1, <1>2, <1>3, <1>4

LEMMA AgreementKept ==
    ASSUME CorrInv, Move
    PROVE  CellAgreesWithRecord'
<1>1. UNCHANGED <<pkey, ptok>> /\ CellAgreesWithRecord /\ ArmedRecord
  BY DEF Move, CorrInv
<1> SUFFICES ASSUME NEW c \in Packets, cellst'[c] \in DecidedStates, conn'[pkey[c]].tok = ptok[c]
             PROVE  conn'[pkey[c]].st = cellst'[c]
  BY <1>1 DEF CellAgreesWithRecord, DecidedStates
<1> DEFINE k == pkey[c]
<1>2. k \in Keys /\ ptok[c] \in Packets
  BY NewDecision
<1>3. CASE cellst'[c] = cellst[c]
  <2>1. conn[k].tok = ptok[c] => conn[k].st = cellst[c]
    BY <1>1, <1>3 DEF CellAgreesWithRecord, DecidedStates
  <2>2. conn'[k] # Absent
    BY <1>2, NoneAssumption DEF Absent
  <2>3. ASSUME NEW d \in Packets, pkey[d] = k, RecordIs(d, "pending"),
               NEW st, conn'[k] = [tok |-> ptok[d], st |-> st]
        PROVE  FALSE
    <3>1. conn[k].tok = ptok[d] /\ conn[k].st = "pending" /\ ptok[d] = ptok[c]
      BY <2>3 DEF RecordIs
    <3> QED
      BY <1>3, <2>1, <3>1 DEF DecidedStates
  <2>4. ASSUME NEW d \in Packets, pkey[d] = k, RecordIs(d, "armed"), cellst[d] = "armed",
               cellst'[d] = "direct", conn'[k] = [tok |-> ptok[d], st |-> "direct"]
        PROVE  FALSE
    <3>1. conn[k].tok = ptok[d] /\ conn[k].st = "armed" /\ ptok[d] = ptok[c]
      BY <2>4 DEF RecordIs
    <3>2. cellst[c] = "armed"
      BY <2>1, <3>1
    <3>3. c = d
      BY <1>1, <2>4, <3>1, <3>2 DEF ArmedRecord
    <3> QED
      BY <1>3, <2>4, <3>2, <3>3
  <2>5. conn'[k] = conn[k]
    <3>1. ConnStep(k)
      BY <1>2, ConnSteps
    <3> QED
      BY <2>2, <2>3, <2>4, <3>1 DEF ConnStep
  <2> QED
    BY <1>3, <2>1, <2>5
<1>4. CASE conn'[k] = [tok |-> ptok[c], st |-> cellst'[c]]
  BY <1>4
<1> QED
  BY <1>3, <1>4, NewDecision

LEMMA DirectRecordKept ==
    ASSUME CorrInv, Move
    PROVE  DirectRecord'
<1>1. UNCHANGED <<pkey, ptok>> /\ DirectRecord /\ CellAgreesWithRecord /\ GuardSettles
  BY GuardsFlow DEF Move, CorrInv
<1>2. ASSUME NEW c \in Packets, cellst'[c] = "direct", NEW p \in Packets, ptok[p] = ptok[c],
             verdict'[p] = "none"
      PROVE  conn'[pkey[c]].tok = ptok[c]
  <2> DEFINE k == pkey[c]
  <2>1. k \in Keys /\ ptok[c] \in Packets
    BY <1>2, NewDecision DEF DecidedStates
  <2>2. CASE conn'[k] = [tok |-> ptok[c], st |-> cellst'[c]]
    BY <2>2
  <2>3. CASE cellst[c] = "direct"
    <3>1. Undecided(p)
      BY <1>1, <1>2 DEF GuardSettles, Undecided
    <3>2. conn[k].tok = ptok[c] /\ conn[k].st = "direct"
      BY <1>1, <1>2, <2>3, <3>1 DEF DirectRecord, CellAgreesWithRecord
    <3>3. ~Removable(k)
      BY <1>2, <3>1, <3>2 DEF Removable
    <3>4. \A d \in Packets : pkey[d] = k => ~RecordIs(d, "pending") /\ ~RecordIs(d, "armed")
      BY <3>2 DEF RecordIs
    <3>5. conn'[k] = conn[k]
      BY <2>1, <3>3, <3>4, ConnSteps DEF ConnStep
    <3> QED
      BY <3>2, <3>5
  <2> QED
    BY <1>2, <2>2, <2>3, NewDecision DEF DecidedStates
<1>3. ASSUME NEW k \in Keys, conn'[k].st = "direct"
      PROVE  \E c \in Packets : cellst'[c] = "direct" /\ ptok[c] = conn'[k].tok
  <2>1. CASE conn'[k] = conn[k]
    <3>1. PICK c \in Packets : cellst[c] = "direct" /\ ptok[c] = conn[k].tok
      BY <1>1, <1>3, <2>1 DEF DirectRecord
    <3>2. cellst'[c] = "direct"
      BY <3>1, AppliedKept DEF Decisions
    <3> QED
      BY <2>1, <3>1, <3>2
  <2>2. conn'[k] # Absent
    BY <1>3 DEF Absent
  <2>3. ASSUME NEW c \in Packets, cellst'[c] \in {"armed", "proxy", "block"},
               conn'[k] = [tok |-> ptok[c], st |-> cellst'[c]]
        PROVE  FALSE
    BY <1>3, <2>3
  <2>4. ASSUME NEW c \in Packets, cellst'[c] = "direct", conn'[k] = [tok |-> ptok[c], st |-> "direct"]
        PROVE  \E d \in Packets : cellst'[d] = "direct" /\ ptok[d] = conn'[k].tok
    BY <2>4
  <2>5. ConnStep(k)
    BY ConnSteps
  <2> QED
    BY <2>1, <2>2, <2>3, <2>4, <2>5 DEF ConnStep
<1> QED
  BY <1>1, <1>2, <1>3 DEF DirectRecord, Undecided

LEMMA SidesKept ==
    ASSUME CorrInv, Move
    PROVE  SidesExclude'
<1>1. UNCHANGED <<pkey, ptok>> /\ SidesExclude
  BY DEF Move, CorrInv
<1> SUFFICES ASSUME NEW c \in Packets, NEW d \in Packets, cellst'[c] \in {"armed", "direct"},
                    cellst'[d] \in {"proxy", "block"}, ptok[c] = ptok[d]
             PROVE  FALSE
  BY <1>1 DEF SidesExclude
<1>2. cellst'[c] \in DecidedStates /\ cellst'[d] \in DecidedStates
  BY DEF DecidedStates
<1>3. Known(c) /\ Known(d) /\ pkey[c] = pkey[d]
  <2>1. Known(c) /\ Known(d)
    BY <1>2, NewDecision
  <2>2. pkey[ptok[c]] = pkey[c] /\ pkey[ptok[d]] = pkey[d]
    BY <2>1, KnownFacts
  <2> QED
    BY <2>1, <2>2
<1>4. \A x \in Packets : cellst'[x] \in DecidedStates /\ conn'[pkey[x]].tok = ptok[x] =>
         conn'[pkey[x]].st = cellst'[x]
  BY <1>1, AgreementKept DEF CellAgreesWithRecord, DecidedStates
<1>5. CASE conn'[pkey[c]] = [tok |-> ptok[c], st |-> cellst'[c]]
  BY <1>2, <1>3, <1>4, <1>5
<1>6. CASE conn'[pkey[d]] = [tok |-> ptok[d], st |-> cellst'[d]]
  BY <1>2, <1>3, <1>4, <1>6
<1>7. CASE cellst'[c] = cellst[c] /\ cellst'[d] = cellst[d]
  BY <1>1, <1>7 DEF SidesExclude
<1> QED
  BY <1>2, <1>5, <1>6, <1>7, NewDecision

-----------------------------------------------------------------------------
(* The contracts preserve the invariant: what verdicts and copies stand for *)

LEMMA AcceptedKept ==
    ASSUME CorrInv, Move
    PROVE  AcceptedIsDirect'
<1>1. UNCHANGED <<pkey, ptok>> /\ AcceptedIsDirect /\ VerdictMove
  BY DEF Move, CorrInv
<1> SUFFICES ASSUME NEW p \in Packets, verdict'[p] = "accept"
             PROVE  \/ \E c \in Packets : cellst'[c] = "direct" /\ ptok[c] = ptok[p]
                    \/ conn'[pkey[p]] = [tok |-> ptok[p], st |-> "armed"]
  BY <1>1 DEF AcceptedIsDirect, RecordArmed
<1>2. ASSUME NEW c \in Packets, cellst[c] = "direct", ptok[c] = ptok[p]
      PROVE  \E d \in Packets : cellst'[d] = "direct" /\ ptok[d] = ptok[p]
  BY <1>2, AppliedKept DEF Decisions
<1>3. CASE verdict[p] = "accept" /\ RecordArmed(p)
  <2>1. pkey[p] \in Keys
    BY <1>3, KnownFacts DEF CorrInv, PacketShape, Undecided
  <2>2. conn[pkey[p]] = [tok |-> ptok[p], st |-> "armed"]
    BY <1>3 DEF RecordArmed
  <2>3. ASSUME NEW d \in Packets, NEW i \in Indices, Activates(i, d) PROVE cellst'[d] = "direct"
    BY <2>3, Types DEF Activates, CellType
  <2> QED
    BY <2>1, <2>2, <2>3, ArmedStays
<1>4. CASE verdict[p] # "accept"
  <2>1. Releases(p)
    BY <1>1, <1>4 DEF VerdictMove
  <2> QED
    BY <1>2, <2>1 DEF Releases, RecordArmed
<1> QED
  BY <1>1, <1>2, <1>3, <1>4 DEF AcceptedIsDirect

LEMMA CopiedKept ==
    ASSUME CorrInv, Move
    PROVE  CopiedIsProxy'
<1>1. UNCHANGED <<pkey, ptok>> /\ CopiedIsProxy /\ VerdictMove
  BY DEF Move, CorrInv
<1> SUFFICES ASSUME NEW p \in Packets, verdict'[p] = "copied"
             PROVE  \E c \in Packets : cellst'[c] = "proxy" /\ ptok[c] = ptok[p]
  BY <1>1 DEF CopiedIsProxy
<1>2. CASE verdict[p] = "copied"
  BY <1>1, <1>2, AppliedKept DEF CopiedIsProxy, Decisions
<1>3. CASE verdict[p] # "copied"
  BY <1>1, <1>3 DEF VerdictMove
<1> QED
  BY <1>2, <1>3

LEMMA ServedKept ==
    ASSUME CorrInv, Move
    PROVE  ServedIsProxy'
<1>1. ServedIsProxy /\ TaskMove
  BY DEF Move, CorrInv
<1> SUFFICES ASSUME NEW g \in Packets,
                    g \in served' \/ task'[g] = "dial" \/ (task'[g] = "ok" /\ lease'[g] = "task")
             PROVE  cellst'[g] = "proxy"
  BY DEF ServedIsProxy
<1>2. cellst[g] = "proxy" => cellst'[g] = "proxy"
  BY AppliedKept DEF Decisions
<1>3. CASE g \in served'
  BY <1>1, <1>2, <1>3 DEF TaskMove, ServedIsProxy
<1>4. CASE task'[g] = task[g] /\ lease'[g] = lease[g]
  BY <1>1, <1>2, <1>3, <1>4 DEF ServedIsProxy
<1>5. ASSUME TaskStep(g, task'[g], lease'[g]), task'[g] = "dial" PROVE cellst[g] = "proxy"
  BY <1>1, <1>5 DEF ServedIsProxy, TaskStep, Decisions
<1>6. ASSUME TaskStep(g, task'[g], lease'[g]), task'[g] = "ok", lease'[g] = "task" PROVE cellst[g] = "proxy"
  BY <1>1, <1>6 DEF ServedIsProxy, TaskStep, Decisions
<1> QED
  BY <1>2, <1>3, <1>4, <1>5, <1>6, TaskSteps

LEMMA CopyKept ==
    ASSUME CorrInv, Move
    PROVE  CopyReachesOwnFlow'
BY DEF CorrInv, Move, VerdictMove, CopyReachesOwnFlow

LEMMA CopyInvKept ==
    ASSUME CorrInv, Move
    PROVE  CopyInv'
<1>1. CopyInv /\ VerdictMove
  BY DEF Move, CorrInv
<1>2. \A p \in Packets : payload[p] # None => payload'[p] # None
  BY <1>1 DEF VerdictMove
<1>3. ASSUME NEW c \in Packets, cellst'[c] \in {"pending", "cancelling"}, NEW p \in ToSet(held'[c])
      PROVE  payload'[p] # None
  <2>1. Unarmed(c) \/ ~Inside(c)
    BY <1>3, CellFates
  <2>2. ASSUME NEW q \in ToSet(held[c]) PROVE payload'[q] # None
    <3>1. q \in Packets /\ held[c] # <<>>
      BY <2>2, OwnerTypes, ToSetEmpty
    <3>2. Unarmed(c)
      BY <2>1, <3>1 DEF CorrInv, CellShape, IsPending, Unarmed, Inside
    <3> QED
      BY <1>1, <1>2, <2>2, <3>1, <3>2 DEF CopyInv
  <2>3. CASE held'[c] = held[c]
    BY <1>3, <2>2, <2>3
  <2>4. held'[c] # <<>>
    BY <1>3, ToSetEmpty
  <2>5. CASE /\ held'[c] = Append(held[c], ing.p) /\ cellst'[c] = cellst[c] /\ ing.p \in Packets
             /\ cellst[c] \in {"pending", "armed"} /\ (cellst[c] = "pending" => payload'[ing.p] # None)
    <3>1. ToSet(Append(held[c], ing.p)) = ToSet(held[c]) \cup {ing.p}
      BY <2>5, OwnerTypes, ToSetAppend
    <3> QED
      BY <1>3, <2>2, <2>5, <3>1
  <2>6. CASE held'[c] = <<c>> /\ payload'[c] = c
    <3>1. ToSet(<<c>>) = {c}
      BY DEF ToSet
    <3> QED
      BY <1>3, <2>6, <3>1, NoneAssumption
  <2> QED
    BY <2>3, <2>4, <2>5, <2>6, HeldSteps DEF HeldStep
<1>4. ASSUME NEW c \in Packets, cellst'[c] \in {"proxy", "block"}, NEW p \in ToSet(taken'[c])
      PROVE  payload'[p] # None
  <2>1. CASE p \in ToSet(taken[c])
    <3>1. p \in Packets /\ taken[c] # <<>>
      BY <2>1, OwnerTypes, ToSetEmpty
    <3>2. Inside(c) /\ ~Unarmed(c)
      BY <3>1 DEF CorrInv, CellShape
    <3>3. cellst'[c] = cellst[c]
      BY <1>4, <3>2, CellSteps DEF CellStep, Inside, Unarmed
    <3> QED
      BY <1>1, <1>2, <1>4, <2>1, <3>1, <3>3 DEF CopyInv
  <2>2. ASSUME NEW i \in Indices, Moves(i, c) PROVE payload'[p] # None
    <3>1. taken'[c] = held[c] /\ Unarmed(c)
      BY <1>4, <2>2, OwnerTypes DEF Moves, Unarmed
    <3>2. p \in Packets /\ payload[p] # None
      BY <1>1, <1>4, <3>1, OwnerTypes DEF CopyInv
    <3> QED
      BY <1>2, <3>2
  <2>3. taken'[c] # <<>>
    BY <1>4, ToSetEmpty
  <2>4. ASSUME taken[c] # <<>>, taken'[c] = Tail(taken[c]) PROVE p \in ToSet(taken[c])
    <3>1. ToSet(taken[c]) = ToSet(Tail(taken[c])) \cup {Head(taken[c])}
      BY <2>4, OwnerTypes, ToSetTail
    <3> QED
      BY <1>4, <2>4, <3>1
  <2> QED
    BY <1>4, <2>1, <2>2, <2>3, <2>4, TakenSteps DEF TakenStep
<1> QED
  BY <1>3, <1>4 DEF CopyInv, Unarmed

-----------------------------------------------------------------------------
(* The reload *)

CtlStill == UNCHANGED <<ready, open, ctl, reloads>>
CtlMoves ==
    \/ Fence \/ CloseGate \/ GateClosed \/ CancelInitializers \/ Wait \/ OpenGate \/ Reopen

LEMMA IngestLeavesCtl ==
    ASSUME Ingest
    PROVE  CtlStill
<1>1. ASSUME NEW c \in Packets, IngestExisting(c) PROVE CtlStill
  BY <1>1 DEF IngestExisting, ExistingOtherToken, ExistingDrop, ExistingArmed, ExistingOverdue,
              ExistingEnqueue, ExistingOrphan, ExistingDirect, ExistingProxy, kernelVars, ctlVars, CtlStill
<1>2. ASSUME NEW p \in Packets, IngestVacant(p) PROVE CtlStill
  BY <1>2 DEF IngestVacant, VacantRefused, VacantDrop, VacantInitialize, VacantDead, VacantDirect,
              VacantBlock, VacantProxy, VacantArmed, kernelVars, ctlVars, CtlStill
<1> QED
  BY <1>1, <1>2 DEF Ingest, IngestRefused, IngestFound, IngestAwait, IngestTimeout, IngestContended,
     IngestRecheck, kernelVars, ctlVars, CtlStill

LEMMA InitializerLeavesCtl ==
    ASSUME NEW g \in Packets, Initializer(g)
    PROVE  CtlStill
BY DEF Initializer, InitDecide, InitSubmit, InitFail, InitCancelled, InitSkip, InitDecided,
       InitReady, InitCancel, kernelVars, ctlVars, CtlStill

LEMMA PumpLeavesCtl ==
    ASSUME Pump
    PROVE  CtlStill
<1>1. ASSUME NEW n \in 1..MaxBatch, PumpTake(n) PROVE CtlStill
  BY <1>1 DEF PumpTake, kernelVars, ctlVars, CtlStill
<1>2. ASSUME NEW i \in 1..MaxBatch,
             \/ PumpExpire(i) \/ PumpRefuse(i) \/ PumpArm(i) \/ PumpTerminal(i)
             \/ PumpAnswerErr(i) \/ PumpDropTerminal(i) \/ PumpHandoff(i) \/ PumpAnswerOk(i)
      PROVE  CtlStill
  BY <1>2 DEF PumpExpire, PumpRefuse, PumpArm, PumpTerminal, PumpAnswerErr, PumpDropTerminal,
              PumpHandoff, PumpAnswerOk, kernelVars, ctlVars, CtlStill
<1>3. ASSUME NEW i \in 1..MaxBatch,
             \/ ArmedExpire(i) \/ ArmedLost(i) \/ ArmedTake(i)
             \/ ArmedAccept(i) \/ ArmedActivate(i) \/ ArmedAgain(i)
      PROVE  CtlStill
  BY <1>3 DEF ArmedExpire, ArmedLost, ArmedTake, ArmedAccept, ArmedActivate, ArmedAgain,
              kernelVars, ctlVars, CtlStill
<1> QED
  BY <1>1, <1>2, <1>3 DEF Pump, PumpLock, PumpUnlock, PumpBatchFails, PumpEnd, kernelVars, ctlVars, CtlStill

LEMMA CtlSteps ==
    ASSUME Next
    PROVE  CtlStill \/ CtlMoves
<1>1. ASSUME NEW p \in Packets, NEW k \in Keys, KernelIngress(p, k) PROVE CtlStill
  BY <1>1 DEF KernelIngress, ctlVars, CtlStill
<1>2. ASSUME (\E k \in Keys : ConnExpire(k)) \/ Tick \/ Listener PROVE CtlStill
  BY <1>2 DEF ConnExpire, Tick, Listener, ListenerDeliver, ListenerReject, kernelVars, ctlVars, CtlStill
<1>3. ASSUME Drain \/ Watchdog PROVE CtlStill
  BY <1>3 DEF Drain, DrainToken, DrainFlow, DrainRemove, Watchdog, WatchdogOverdue, WatchdogExpired,
              kernelVars, ctlVars, CtlStill
<1>4. ASSUME (\E k \in Keys : EndpointRetire(k)) \/ Retirement PROVE CtlStill
  BY <1>4 DEF EndpointRetire, Retirement, RetireWorker, RetireHandoff, kernelVars, ctlVars, CtlStill
<1>5. ASSUME Reload PROVE CtlStill \/ CtlMoves
  BY <1>5 DEF Reload, CancelAllPending, CancelAllRemove, kernelVars, ctlVars, CtlStill, CtlMoves
<1> QED
  BY <1>1, <1>2, <1>3, <1>4, <1>5, IngestLeavesCtl, InitializerLeavesCtl, PumpLeavesCtl DEF Next, CtlMoves

LEMMA CtlMovesTypes ==
    ASSUME CorrInv, CtlStill \/ CtlMoves
    PROVE  CtlType'
<1>1. CtlType /\ MaxReloads \in Nat
  BY Types, BoundsAssumption
<1>2. CASE CtlStill
  BY <1>1, <1>2 DEF CtlStill, CtlType
<1>3. CASE Fence
  <2>1. reloads' = reloads + 1 /\ reloads < MaxReloads /\ ready' = FALSE /\ ctl' = "fenced" /\ open' = open
    BY <1>3 DEF Fence, CtlTo
  <2>2. reloads \in 0..MaxReloads /\ open \in BOOLEAN
    BY <1>1 DEF CtlType
  <2>3. reloads' \in 0..MaxReloads
    BY <1>1, <2>1, <2>2
  <2> QED
    BY <2>1, <2>2, <2>3 DEF CtlType, CtlStates
<1>4. CASE CloseGate \/ GateClosed \/ CancelInitializers \/ Wait \/ OpenGate \/ Reopen
  BY <1>1, <1>4 DEF CloseGate, GateClosed, CancelInitializers, Wait, OpenGate, Reopen, CtlTo,
                    kernelVars, CtlType, CtlStates
<1> QED
  BY <1>2, <1>3, <1>4 DEF CtlMoves

LEMMA CtlStillKept ==
    ASSUME CorrInv, Move, CtlStill
    PROVE  CtlInv'
<1>1. CtlInv /\ UNCHANGED <<ready, open, ctl>>
  BY DEF CorrInv, CtlStill
<1>2. ASSUME ctl \in Closed PROVE ing.pc = "idle" /\ ing.p = None /\ ing'.pc = "idle"
  <2>1. ing.pc = "idle" /\ ~open
    BY <1>1, <1>2 DEF CtlInv, Closed
  <2>2. ing.p = None
    BY <2>1 DEF CorrInv, IngestShape
  <2>3. IngestMove
    BY DEF Move
  <2> QED
    BY <2>1, <2>2, <2>3, NoneAssumption DEF IngestMove, Idle
<1>3. ASSUME ctl \in {"initializers", "empty", "retirements"}, NEW k \in Keys PROVE map'[k] = None
  <2>1. map[k] = None /\ ing.pc # "wait"
    BY <1>1, <1>2, <1>3 DEF CtlInv, Closed
  <2> QED
    BY <2>1, MapSteps DEF MapStep
<1>4. ASSUME ctl \in {"empty", "retirements"}, NEW g \in Packets PROVE lease'[g] \in {"none", "gone"}
  <2>1. lease[g] \in {"none", "gone"} /\ ing.pc # "wait"
    BY <1>1, <1>2, <1>4 DEF CtlInv, Closed
  <2>2. task[g] \notin Decisions \cup {"run"}
    BY <2>1 DEF CorrInv, TaskShape
  <2> QED
    BY <2>1, <2>2, TaskSteps DEF TaskStep, Submits
<1>5. ASSUME ctl = "retirements" PROVE commits' = <<>> /\ pump'.batch = <<>>
  <2>1. commits = <<>> /\ pump.batch = <<>> /\ Indices = {} /\ PumpMove
    BY <1>1, <1>5 DEF CtlInv, Indices, Move
  <2>2. \A g \in Packets : ~Submits(g)
    <3>1. \A g \in Packets : lease[g] # "task"
      BY <1>1, <1>5 DEF CtlInv
    <3> QED
      BY <3>1 DEF CorrInv, TaskShape, Submits
  <2>3. \A n \in 1..MaxBatch : ~Fetches(n)
    BY <2>1 DEF Fetches
  <2>4. ASSUME NEW pc \in {"apply", "complete"}, NEW b \in Seq(Commits), Sweeps(pc, b)
        PROVE  commits' = <<>> /\ pump'.batch = <<>>
    BY <2>1, <2>4, EmptySeq DEF Sweeps
  <2> QED
    BY <2>1, <2>2, <2>3, <2>4 DEF PumpMove, Drains, Ends
<1>6. ASSUME ~ready, NEW k \in Keys PROVE conn'[k].st # "pending"
  <2>1. conn[k].st # "pending"
    BY <1>1, <1>6 DEF CtlInv
  <2>2. conn'[k] = Absent => conn'[k].st # "pending"
    BY DEF Absent
  <2>3. ASSUME NEW c \in Packets, NEW st \in {"armed", "proxy", "block", "direct"},
               conn'[k] = [tok |-> ptok[c], st |-> st]
        PROVE  conn'[k].st # "pending"
    BY <2>3
  <2>4. ConnStep(k)
    BY ConnSteps
  <2> QED
    BY <2>1, <2>2, <2>3, <2>4 DEF ConnStep
<1> QED
  BY <1>1, <1>2, <1>3, <1>4, <1>5, <1>6 DEF CtlInv

LEMMA CtlMovesKept ==
    ASSUME CorrInv, CtlMoves
    PROVE  CtlInv'
<1>1. CtlInv /\ ctl \in CtlStates
  BY Types DEF CorrInv, CtlType
<1>2. CASE Fence
  <2>1. \A k \in Keys : conn'[k].st # "pending"
    BY <1>2 DEF Fence, Absent
  <2> QED
    BY <1>1, <1>2, <2>1 DEF Fence, CtlTo, CtlInv, Closed
<1>3. CASE CloseGate
  BY <1>1, <1>3 DEF CloseGate, CtlTo, CtlInv, Closed, kernelVars
<1>4. CASE GateClosed
  BY <1>1, <1>4 DEF GateClosed, TicketsGone, CtlTo, CtlInv, Closed, kernelVars
<1>5. CASE CancelInitializers
  BY <1>1, <1>5 DEF CancelInitializers, CtlTo, CtlInv, Closed, kernelVars, cellVars
<1>6. CASE Wait
  <2>1. Initializing = {} => \A g \in Packets : lease[g] \in {"none", "gone"}
    BY Types DEF Initializing, TaskType, Leases
  <2>2. /\ UNCHANGED <<ready, conn, open, ing, map, lease, commits, pump>>
        /\ \/ CtlTo("initializers", "empty") /\ Initializing = {}
           \/ CtlTo("initializers", "reopen")
           \/ CtlTo("empty", "retirements") /\ PumpIdle
           \/ CtlTo("retirements", "reopen")
    BY <1>6 DEF Wait, IsEmpty, kernelVars, cellVars, taskVars, pumpVars
  <2> QED
    BY <1>1, <2>1, <2>2 DEF CtlTo, CtlInv, Closed, PumpIdle
<1>7. CASE OpenGate
  BY <1>1, <1>7 DEF OpenGate, CtlTo, CtlInv, Closed, kernelVars
<1>8. CASE Reopen
  BY <1>1, <1>8 DEF Reopen, CtlTo, CtlInv, Closed
<1> QED
  BY <1>2, <1>3, <1>4, <1>5, <1>6, <1>7, <1>8 DEF CtlMoves

LEMMA MoveKeeps ==
    ASSUME CorrInv, Move, CtlStill \/ CtlMoves
    PROVE  CorrInv'
<1>1. TypeOK' /\ CtlInv'
  BY TypeKept, CtlMovesTypes, CtlStillKept, CtlMovesKept
<1>2. /\ PacketShape' /\ RecordShape' /\ CellShape' /\ TaskShape' /\ MapShape' /\ EntryShape'
      /\ IngestShape' /\ RequestShape' /\ CommitShape' /\ PhaseInv'
  BY PacketKept, RecordKept, CellKept, TaskKept, MapKept, EntryKept, IngestKept, RequestKept,
     CommitKept, PhaseKept
<1>3. TransitShape' /\ HeldShape' /\ OwnerInv'
  BY TransitKept, HeldKept, OwnerKept
<1>4. ArmedRecord' /\ ArmedEntry' /\ ArmedHasEntry' /\ TakenHasEntry'
  BY ArmedRecordKept, ArmedEntryKept, ArmedHasEntryKept, TakenHasEntryKept
<1>5. CellAgreesWithRecord' /\ DirectRecord' /\ SidesExclude'
  BY AgreementKept, DirectRecordKept, SidesKept
<1>6. AcceptedIsDirect' /\ CopiedIsProxy' /\ ServedIsProxy' /\ CopyReachesOwnFlow' /\ CopyInv'
  BY AcceptedKept, CopiedKept, ServedKept, CopyKept, CopyInvKept
<1> QED
  BY <1>1, <1>2, <1>3, <1>4, <1>5, <1>6 DEF CorrInv

-----------------------------------------------------------------------------
(* Kernel ingress: a packet nobody has heard of gets its tuple and token *)

LEMMA NewPacket ==
    ASSUME CorrInv, NEW p \in Packets, NEW k \in Keys, KernelIngress(p, k)
    PROVE  /\ ~Known(p) /\ ~Inside(p) /\ Undecided(p) /\ payload[p] = None /\ ptok[p] = None
           /\ \A q \in Packets : ptok[q] # p /\ cgen[q] # p
           /\ \A j \in Keys : conn[j].tok # p /\ map[j] # p /\ ep[j].gen # p
<1>1. ~Known(p)
  BY DEF KernelIngress, Known
<1>2. ~Inside(p) /\ Undecided(p) /\ payload[p] = None /\ ptok[p] = None /\ cgen[p] = None
  BY <1>1 DEF CorrInv, PacketShape, CellShape
<1>3. ASSUME NEW q \in Packets PROVE ptok[q] # p
  BY <1>1, <1>2, NoneAssumption DEF CorrInv, PacketShape, Known
<1>4. ASSUME NEW q \in Packets PROVE cgen[q] # p
  BY <1>2, NoneAssumption DEF CorrInv, CellShape
<1>5. ASSUME NEW j \in Keys PROVE conn[j].tok # p /\ map[j] # p /\ ep[j].gen # p
  BY <1>1, <1>5, NoneAssumption DEF CorrInv, RecordShape, MapShape, EntryShape, Known
<1> QED
  BY <1>1, <1>2, <1>3, <1>4, <1>5

LEMMA IngressStep ==
    ASSUME CorrInv, NEW p \in Packets, NEW k \in Keys, KernelIngress(p, k)
    PROVE  /\ \A q \in Packets : q # p => pkey'[q] = pkey[q] /\ ptok'[q] = ptok[q]
           /\ pkey'[p] = k /\ ptok'[p] \in Packets
           /\ pkey'[ptok'[p]] = k /\ ptok'[ptok'[p]] = ptok'[p]
           /\ \A j \in Keys :
                 \/ conn'[j] = conn[j]
                 \/ /\ j = k /\ conn[j].st = "absent" /\ conn'[j] = [tok |-> p, st |-> "pending"]
                    /\ ptok'[p] = p
           /\ ptok'[p] = p \/ (ptok'[p] = conn[k].tok /\ conn[k].st \in {"pending", "armed"} /\ UNCHANGED conn)
           /\ IdentityType' /\ RecordType'
<1>1. IdentityType /\ RecordType
  BY Types
<1>2. /\ \A q \in Packets : q # p => pkey'[q] = pkey[q] /\ ptok'[q] = ptok[q]
      /\ pkey'[p] = k /\ pkey' \in [Packets -> Keys \cup {None}]
  BY <1>1 DEF KernelIngress, IdentityType
<1>3. CASE /\ conn[k].st = "absent" /\ conn' = [conn EXCEPT ![k] = [tok |-> p, st |-> "pending"]]
           /\ ptok' = [ptok EXCEPT ![p] = p]
  <2>1. conn'[k] = [tok |-> p, st |-> "pending"] /\ \A j \in Keys : j # k => conn'[j] = conn[j]
    BY <1>1, <1>3 DEF RecordType
  <2>2. [tok |-> p, st |-> "pending"] \in [tok : Maybe, st : ConnStates]
    BY DEF Maybe, ConnStates
  <2>3. ptok'[p] = p /\ ptok' \in [Packets -> Maybe]
    BY <1>1, <1>3 DEF IdentityType, Maybe
  <2>4. conn' \in [Keys -> [tok : Maybe, st : ConnStates]]
    BY <1>1, <1>3, <2>2 DEF RecordType
  <2> QED
    BY <1>2, <1>3, <2>1, <2>3, <2>4 DEF IdentityType, RecordType
<1>4. CASE /\ conn[k].st \in {"pending", "armed"} /\ ptok' = [ptok EXCEPT ![p] = conn[k].tok]
           /\ UNCHANGED conn
  <2>1. conn[k].tok # None /\ conn[k].tok \in Packets
    BY <1>1, <1>4 DEF CorrInv, RecordShape, RecordType, Maybe
  <2>2. conn[k].tok # p /\ pkey[conn[k].tok] = k /\ ptok[conn[k].tok] = conn[k].tok
    BY <2>1, NewPacket DEF CorrInv, RecordShape
  <2>3. ptok'[p] = conn[k].tok /\ ptok' \in [Packets -> Maybe]
    BY <1>1, <1>4, <2>1 DEF IdentityType, Maybe
  <2> QED
    BY <1>1, <1>2, <1>4, <2>1, <2>2, <2>3 DEF IdentityType, RecordType
<1> QED
  BY <1>3, <1>4 DEF KernelIngress

\* What ingress leaves alone.
LEMMA IngressFrame ==
    ASSUME NEW p \in Packets, NEW k \in Keys, KernelIngress(p, k)
    PROVE  /\ UNCHANGED <<ready, rcvd, lateN, verdict, payload, queue, ing, map, cellst, held, cgen>>
           /\ UNCHANGED <<cleanups, drain, ep, served, cancelled, task, lease, stale>>
           /\ UNCHANGED <<commits, pump, taken, open, ctl, reloads, fatal, faults>>
           /\ wire' = Append(wire, p) /\ ready
BY DEF KernelIngress, cellVars, cleanupVars, endpointVars, taskVars, pumpVars, ctlVars, failVars

LEMMA TypePartsNext ==
    TypeOK' <=> /\ IdentityType' /\ RecordType' /\ ClockType' /\ VerdictType'
                /\ TransitType' /\ CellType' /\ CleanupType' /\ PoolType'
                /\ TaskType' /\ PumpType' /\ CtlType' /\ FailType'
BY DEF TypeOK, Maybe, IngestPcs, Leases, PumpPcs, CtlStates, IdentityType,
       RecordType, ClockType, VerdictType, TransitType, CellType, CleanupType,
       PoolType, TaskType, PumpType, CtlType, FailType

LEMMA IngressTypes ==
    ASSUME CorrInv, NEW p \in Packets, NEW k \in Keys, KernelIngress(p, k)
    PROVE  TypeOK'
<1>1. IdentityType' /\ RecordType'
  BY IngressStep
<1>2. TransitType'
  <2>1. wire' \in Seq(Packets)
    BY Types, IngressFrame, ToSetAppend DEF TransitType
  <2> QED
    BY <2>1, Types, IngressFrame DEF TransitType
<1>3. ClockType' /\ VerdictType' /\ CellType' /\ CleanupType' /\ PoolType'
  BY Types, IngressFrame DEF ClockType, VerdictType, CellType, CleanupType, PoolType
<1>4. TaskType' /\ PumpType' /\ CtlType' /\ FailType'
  BY Types, IngressFrame DEF TaskType, PumpType, CtlType, FailType
<1> QED
  BY <1>1, <1>2, <1>3, <1>4, TypePartsNext

LEMMA IngressShapes ==
    ASSUME CorrInv, NEW p \in Packets, NEW k \in Keys, KernelIngress(p, k)
    PROVE  /\ PacketShape' /\ RecordShape' /\ CellShape' /\ TaskShape' /\ MapShape' /\ EntryShape'
           /\ IngestShape' /\ RequestShape' /\ CommitShape' /\ PhaseInv'
<1> USE IngressFrame
<1>1. /\ \A q \in Packets : q # p => pkey'[q] = pkey[q] /\ ptok'[q] = ptok[q]
      /\ pkey'[p] = k /\ ptok'[p] \in Packets /\ k # None
      /\ pkey'[ptok'[p]] = k /\ ptok'[ptok'[p]] = ptok'[p]
  BY IngressStep, NoneAssumption
<1>2. PacketShape'
  <2>1. ASSUME NEW q \in Packets, q # p
        PROVE  /\ pkey'[q] = None => ptok'[q] = None /\ cellst'[q] = "none" /\ verdict'[q] = "none"
                                     /\ payload'[q] = None
               /\ pkey'[q] # None => /\ ptok'[q] \in Packets
                                     /\ pkey'[ptok'[q]] = pkey'[q] /\ ptok'[ptok'[q]] = ptok'[q]
    BY <1>1, <2>1, NewPacket DEF CorrInv, PacketShape, Known, Inside, Undecided
  <2> QED
    BY <1>1, <2>1 DEF PacketShape, Known, Inside, Undecided
<1>3. RecordShape'
  <2>1. ASSUME NEW j \in Keys, conn'[j] = conn[j]
        PROVE  /\ conn'[j].tok = None <=> conn'[j].st = "absent"
               /\ conn'[j].tok # None => pkey'[conn'[j].tok] = j /\ ptok'[conn'[j].tok] = conn'[j].tok
    <3>1. /\ conn[j].tok = None <=> conn[j].st = "absent"
          /\ conn[j].tok # None => pkey[conn[j].tok] = j /\ ptok[conn[j].tok] = conn[j].tok
      BY DEF CorrInv, RecordShape
    <3>2. conn[j].tok \in Maybe /\ conn[j].tok # p
      BY Types, NewPacket DEF RecordType
    <3> QED
      BY <1>1, <2>1, <3>1, <3>2 DEF Maybe
  <2>2. ASSUME NEW j \in Keys, j = k, conn'[j] = [tok |-> p, st |-> "pending"], ptok'[p] = p
        PROVE  /\ conn'[j].tok = None <=> conn'[j].st = "absent"
               /\ conn'[j].tok # None => pkey'[conn'[j].tok] = j /\ ptok'[conn'[j].tok] = conn'[j].tok
    BY <1>1, <2>2, NoneAssumption
  <2> QED
    BY <2>1, <2>2, IngressStep DEF RecordShape
<1>4. CellShape'
  <2>1. ASSUME NEW c \in Packets, cgen[c] # None
        PROVE  cgen[cgen[c]] = cgen[c] /\ ptok'[cgen[c]] = ptok'[c]
    <3>1. Inside(c) /\ c # p /\ cgen[c] \in Packets /\ cgen[c] # p
      BY <2>1, Types, NewPacket DEF CorrInv, CellShape, CellType, Maybe
    <3> QED
      BY <1>1, <2>1, <3>1 DEF CorrInv, CellShape
  <2>2. ASSUME NEW c \in Packets, IsPending(c) PROVE map[pkey'[c]] = c /\ cgen[c] = c
    <3>1. c # p
      BY <2>2, NewPacket DEF IsPending, Unarmed, Inside
    <3> QED
      BY <1>1, <2>2, <3>1 DEF CorrInv, CellShape
  <2>3. /\ \A c \in Packets : ~Inside(c) => cgen[c] = None
        /\ \A c \in Packets : ~IsPending(c) => held[c] = <<>>
        /\ \A c \in Packets : ~Inside(c) \/ Unarmed(c) => taken[c] = <<>>
    BY DEF CorrInv, CellShape
  <2> QED
    BY <2>1, <2>2, <2>3 DEF CellShape, Inside, IsPending, Unarmed
<1>5. TaskShape' /\ CommitShape' /\ PhaseInv'
  BY DEF CorrInv, TaskShape, CommitShape, PhaseInv, Begun, Indices, Entry
<1>6. MapShape'
  <2>1. ASSUME NEW j \in Keys, map[j] # None PROVE pkey'[map[j]] = j /\ cellst[map[j]] # "none"
    <3>1. map[j] \in Packets /\ map[j] # p
      BY <2>1, Types, NewPacket DEF CellType, Maybe
    <3> QED
      BY <1>1, <2>1, <3>1 DEF CorrInv, MapShape, Inside
  <2> QED
    BY <2>1 DEF MapShape, Inside
<1>7. EntryShape'
  <2>1. ASSUME NEW j \in Keys, ep[j].gen # None PROVE pkey'[ep[j].gen] = j
    <3>1. ep[j].gen \in Packets /\ ep[j].gen # p
      BY <2>1, Types, NewPacket DEF PoolType, Maybe
    <3> QED
      BY <1>1, <2>1, <3>1 DEF CorrInv, EntryShape
  <2> QED
    BY <2>1 DEF CorrInv, EntryShape
<1>8. IngestShape'
  <2>1. ASSUME ing.pc \in {"existing", "existingR"} PROVE pkey'[ing.c] = pkey'[ing.p]
    <3>1. ing.c # None /\ Inside(ing.c) /\ pkey[ing.c] = pkey[ing.p]
      BY <2>1 DEF CorrInv, IngestShape
    <3>2. ing.c \in Packets /\ ing.p \in Packets /\ Known(ing.p)
      BY <2>1, <3>1, Types, IngestFacts DEF TransitType, Maybe
    <3>3. ing.c # p /\ ing.p # p
      BY <3>1, <3>2, NewPacket
    <3> QED
      BY <1>1, <3>1, <3>2, <3>3
  <2> QED
    BY <2>1 DEF CorrInv, IngestShape, Inside
<1>9. RequestShape'
  <2>1. ASSUME NEW r \in cleanups
        PROVE  /\ ptok'[r.tok] = r.tok
               /\ \E q \in Packets : ptok'[q] = r.tok /\ ~(verdict'[q] = "none" /\ cellst'[q] = "none")
    <3>1. r.tok \in Packets /\ ptok[r.tok] = r.tok /\ ~Fresh(r.tok)
      BY RequestFacts
    <3>2. PICK q \in Packets : ptok[q] = r.tok /\ ~(verdict[q] = "none" /\ cellst[q] = "none")
      BY <3>1 DEF Fresh
    <3>3. q # p /\ r.tok # p
      BY <3>1, <3>2, NewPacket DEF Undecided, Inside
    <3> QED
      BY <1>1, <3>1, <3>2, <3>3
  <2> QED
    BY <2>1 DEF RequestShape, Fresh
<1> QED
  BY <1>2, <1>3, <1>4, <1>5, <1>6, <1>7, <1>8, <1>9

LEMMA NewPacketUnowned ==
    ASSUME CorrInv, NEW p \in Packets, NEW k \in Keys, KernelIngress(p, k)
    PROVE  /\ ~Transit(p)
           /\ \A c \in Packets : ToSet(held[c]) \cup ToSet(taken[c]) # {} => Inside(c) /\ c # p
           /\ \A c \in Packets : p \notin ToSet(held[c]) /\ p \notin ToSet(taken[c])
<1>1. ~Transit(p)
  BY NewPacket DEF CorrInv, TransitShape
<1>2. ASSUME NEW c \in Packets, ToSet(held[c]) \cup ToSet(taken[c]) # {} PROVE Inside(c) /\ c # p
  <2>1. held[c] # <<>> \/ taken[c] # <<>>
    BY <1>2, ToSetEmpty
  <2>2. Inside(c)
    BY <2>1 DEF CorrInv, CellShape, IsPending, Unarmed, Inside
  <2> QED
    BY <2>2, NewPacket
<1>3. ASSUME NEW c \in Packets PROVE p \notin ToSet(held[c]) /\ p \notin ToSet(taken[c])
  <2>1. SUFFICES ASSUME p \in ToSet(held[c]) \cup ToSet(taken[c]) PROVE FALSE
    OBVIOUS
  <2>2. Inside(c) /\ ptok[p] = ptok[c]
    BY <1>2, <2>1 DEF CorrInv, HeldShape
  <2> QED
    BY <2>2, NewPacket, InsideFacts, NoneAssumption
<1> QED
  BY <1>1, <1>2, <1>3

LEMMA IngressOwners ==
    ASSUME CorrInv, NEW p \in Packets, NEW k \in Keys, KernelIngress(p, k)
    PROVE  TransitShape' /\ HeldShape' /\ OwnerInv'
<1> USE IngressFrame
<1>1. /\ \A q \in Packets : q # p => pkey'[q] = pkey[q] /\ ptok'[q] = ptok[q]
      /\ pkey'[p] = k /\ k # None
  BY IngressStep, NoneAssumption
<1>2. /\ ToSet(wire') = ToSet(wire) \cup {p}
      /\ Distinct(wire) /\ p \notin ToSet(wire) => Distinct(wire')
  <2>1. /\ ToSet(Append(wire, p)) = ToSet(wire) \cup {p}
        /\ Distinct(wire) /\ p \notin ToSet(wire) => Distinct(Append(wire, p))
    BY OwnerTypes, ToSetAppend
  <2>2. wire' = Append(wire, p)
    OBVIOUS
  <2> QED
    BY <2>1, <2>2
<1>3. \A q \in Packets : Transit(q)' <=> Transit(q) \/ q = p
  BY <1>2 DEF Transit
<1>4. TransitShape'
  <2>1. ASSUME NEW q \in Packets, Transit(q) PROVE pkey'[q] # None /\ ~Inside(q) /\ Undecided(q)
    BY <1>1, <2>1 DEF CorrInv, TransitShape, Known
  <2> QED
    BY <1>1, <1>3, <2>1, NewPacket DEF TransitShape, Known, Inside, Undecided
<1>5. HeldShape'
  <2>1. ASSUME NEW c \in Packets, NEW q \in ToSet(held[c]) \cup ToSet(taken[c])
        PROVE  ptok'[q] = ptok'[c] /\ Undecided(q) /\ ~Transit(q)'
    <3>1. c # p /\ q # p /\ q \in Packets
      BY NewPacketUnowned, OwnerTypes
    <3>2. ptok[q] = ptok[c] /\ Undecided(q) /\ ~Transit(q)
      BY DEF CorrInv, HeldShape
    <3> QED
      BY <1>1, <1>3, <3>1, <3>2
  <2> QED
    BY <2>1 DEF HeldShape, Undecided
<1>6. OwnerInv'
  <2>1. ~Transit(p) /\ p \notin ToSet(wire) /\ p \notin ToSet(queue) /\ ing.p # p
    BY NewPacketUnowned DEF Transit
  <2>2. Distinct(wire')
    BY <1>2, <2>1, OwnerFacts
  <2>3. \A q \in ToSet(wire') : q \notin ToSet(queue) /\ q # ing.p
    BY <1>2, <2>1, OwnerFacts
  <2>4. ASSUME NEW q \in Packets, pkey'[q] # None, Undecided(q)
        PROVE  Transit(q)' \/ \E c \in Packets : q \in ToSet(held[c]) \cup ToSet(taken[c])
    <3>1. CASE q = p
      BY <1>3, <3>1
    <3>2. CASE q # p
      <4>1. Known(q)
        BY <1>1, <2>4, <3>2 DEF Known
      <4>2. Transit(q) \/ \E c \in Packets : q \in ToSet(held[c]) \cup ToSet(taken[c])
        BY <2>4, <4>1, OwnerFacts DEF Transit
      <4> QED
        BY <1>3, <4>2
    <3> QED
      BY <3>1, <3>2
  <2>5. /\ Distinct(queue)
        /\ \A c \in Packets : Distinct(held[c]) /\ Distinct(taken[c])
        /\ \A q \in ToSet(queue) : q # ing.p
        /\ \A c, d \in Packets : \A q \in ToSet(held[c]) : q \in ToSet(held[d]) => c = d
        /\ \A c, d \in Packets : \A q \in ToSet(taken[c]) : q \in ToSet(taken[d]) => c = d
        /\ \A c, d \in Packets : \A q \in ToSet(held[c]) : q \notin ToSet(taken[d])
    BY OwnerFacts
  <2>6. UNCHANGED <<queue, ing, held, taken, verdict>>
    OBVIOUS
  <2> QED
    BY <2>2, <2>3, <2>4, <2>5, <2>6 DEF OwnerInv, Known, Undecided
<1> QED
  BY <1>4, <1>5, <1>6

LEMMA IngressDecisions ==
    ASSUME CorrInv, NEW p \in Packets, NEW k \in Keys, KernelIngress(p, k)
    PROVE  /\ ArmedRecord' /\ ArmedEntry' /\ ArmedHasEntry' /\ TakenHasEntry'
           /\ CellAgreesWithRecord' /\ DirectRecord' /\ SidesExclude'
<1> USE IngressFrame
<1>1. \A q \in Packets : q # p => pkey'[q] = pkey[q] /\ ptok'[q] = ptok[q]
  BY IngressStep
<1>2. \A c \in Packets : Inside(c) => c # p /\ pkey'[c] = pkey[c] /\ ptok'[c] = ptok[c] /\ pkey[c] \in Keys
  BY <1>1, NewPacket, InsideFacts
<1>3. \A j \in Keys : conn[j].st # "absent" => conn'[j] = conn[j]
  BY IngressStep
<1>4. ASSUME NEW c \in Packets, Inside(c), RecordArmed(c) PROVE RecordArmed(c)'
  <2>1. conn[pkey[c]].st = "armed"
    BY <1>4 DEF RecordArmed
  <2> QED
    BY <1>2, <1>3, <1>4, <2>1 DEF RecordArmed
<1>5. ArmedRecord'
  <2>1. \A c \in Packets : cellst[c] = "armed" => RecordArmed(c)'
    BY <1>4 DEF CorrInv, ArmedRecord, Inside
  <2>2. \A c, d \in Packets :
           cellst[c] = "armed" /\ cellst[d] = "armed" /\ ptok'[c] = ptok'[d] => c = d
    BY <1>2 DEF CorrInv, ArmedRecord, Inside
  <2> QED
    BY <2>1, <2>2 DEF ArmedRecord
<1>6. ArmedEntry'
  <2>1. ASSUME NEW i \in Indices, Entry(i).res \in ArmedPhases
        PROVE  conn'[pkey'[Entry(i).cell]] = [tok |-> ptok'[Entry(i).cell], st |-> "armed"]
    <3>1. /\ Entry(i).cell \in Packets /\ Inside(Entry(i).cell) /\ RecordArmed(Entry(i).cell)
      BY <2>1, EntryFacts DEF CorrInv, ArmedEntry
    <3>2. conn[pkey[Entry(i).cell]].st = "armed"
      BY <3>1 DEF RecordArmed
    <3> QED
      BY <1>2, <1>3, <3>1, <3>2 DEF RecordArmed
  <2>2. ASSUME NEW i \in Indices, NEW j \in Indices,
               Entry(i).res \in ArmedPhases, Entry(j).res \in ArmedPhases,
               ptok'[Entry(i).cell] = ptok'[Entry(j).cell]
        PROVE  i = j
    <3>1. /\ Entry(i).cell \in Packets /\ Inside(Entry(i).cell)
          /\ Entry(j).cell \in Packets /\ Inside(Entry(j).cell)
      BY EntryFacts
    <3>2. ptok[Entry(i).cell] = ptok[Entry(j).cell]
      BY <1>2, <2>2, <3>1
    <3> QED
      BY <2>2, <3>2 DEF CorrInv, ArmedEntry
  <2> QED
    BY <2>1, <2>2 DEF ArmedEntry, Indices, Entry, RecordArmed
<1>7. ArmedHasEntry'
  <2>1. ASSUME ~fatal, NEW j \in Keys, conn'[j].st = "armed"
        PROVE  \E c \in Packets : cellst[c] = "armed" /\ ptok'[c] = conn'[j].tok
    <3>1. conn'[j] = conn[j]
      <4>1. conn'[j] = [tok |-> p, st |-> "pending"] => conn'[j].st = "pending"
        OBVIOUS
      <4> QED
        BY <2>1, <4>1, IngressStep
    <3>2. PICK c \in Packets : cellst[c] = "armed" /\ ptok[c] = conn[j].tok
      BY <2>1, <3>1 DEF CorrInv, ArmedHasEntry
    <3>3. ptok'[c] = ptok[c]
      BY <1>2, <3>2 DEF Inside
    <3> QED
      BY <3>1, <3>2, <3>3
  <2> QED
    BY <2>1 DEF CorrInv, ArmedHasEntry, Indices, Entry
<1>8. TakenHasEntry'
  BY DEF CorrInv, TakenHasEntry, Indices, Entry
<1>9. CellAgreesWithRecord'
  <2>1. ASSUME NEW c \in Packets, cellst[c] \in {"armed", "direct", "proxy", "block"},
               conn'[pkey'[c]].tok = ptok'[c]
        PROVE  conn'[pkey'[c]].st = cellst[c]
    <3>1. c # p /\ pkey'[c] = pkey[c] /\ ptok'[c] = ptok[c] /\ pkey[c] \in Keys
      BY <1>2, <2>1 DEF Inside
    <3>2. conn'[pkey[c]] = [tok |-> p, st |-> "pending"] => conn'[pkey[c]].tok = p
      OBVIOUS
    <3>3. ptok[c] # p
      BY NewPacket
    <3>4. conn'[pkey[c]] = conn[pkey[c]]
      BY <2>1, <3>1, <3>2, <3>3, IngressStep
    <3> QED
      BY <2>1, <3>1, <3>4 DEF CorrInv, CellAgreesWithRecord
  <2> QED
    BY <2>1 DEF CellAgreesWithRecord
<1>10. DirectRecord'
  <2>1. ASSUME NEW c \in Packets, cellst[c] = "direct", NEW q \in Packets, ptok'[q] = ptok'[c], Undecided(q)
        PROVE  conn'[pkey'[c]].tok = ptok'[c]
    <3>1. Inside(c) /\ c # p /\ pkey'[c] = pkey[c] /\ ptok'[c] = ptok[c] /\ pkey[c] \in Keys
      BY <1>2, <2>1 DEF Inside
    <3>2. ptok[c] \in Packets /\ pkey[ptok[c]] = pkey[c] /\ ptok[c] # p
      BY <3>1, InsideFacts, NewPacket
    <3>3. CASE q # p
      <4>1. conn[pkey[c]].tok = ptok[c]
        BY <1>1, <2>1, <3>1, <3>3 DEF CorrInv, DirectRecord
      <4>2. conn[pkey[c]].st # "absent"
        BY <3>1, <3>2, <4>1, NoneAssumption DEF CorrInv, RecordShape
      <4> QED
        BY <1>3, <3>1, <4>1, <4>2
    <3>4. CASE q = p
      <4>1. conn[k].tok = ptok[c] /\ UNCHANGED conn /\ conn[k].tok # None
        <5>1. ptok'[p] = ptok[c] /\ ptok'[p] # p
          BY <2>1, <3>1, <3>2, <3>4
        <5>2. ptok'[p] = conn[k].tok /\ UNCHANGED conn
          BY <5>1, IngressStep
        <5> QED
          BY <3>2, <5>1, <5>2, NoneAssumption
      <4>2. pkey[c] = k
        BY <3>2, <4>1 DEF CorrInv, RecordShape
      <4> QED
        BY <3>1, <4>1, <4>2
    <3> QED
      BY <3>3, <3>4
  <2>2. ASSUME NEW j \in Keys, conn'[j].st = "direct"
        PROVE  \E c \in Packets : cellst[c] = "direct" /\ ptok'[c] = conn'[j].tok
    <3>1. conn'[j] = conn[j]
      <4>1. conn'[j] = [tok |-> p, st |-> "pending"] => conn'[j].st = "pending"
        OBVIOUS
      <4> QED
        BY <2>2, <4>1, IngressStep
    <3>2. PICK c \in Packets : cellst[c] = "direct" /\ ptok[c] = conn[j].tok
      BY <2>2, <3>1 DEF CorrInv, DirectRecord
    <3>3. ptok'[c] = ptok[c]
      BY <1>2, <3>2 DEF Inside
    <3> QED
      BY <3>1, <3>2, <3>3
  <2> QED
    BY <2>1, <2>2 DEF DirectRecord, Undecided
<1>11. SidesExclude'
  BY <1>2 DEF CorrInv, SidesExclude, Inside
<1> QED
  BY <1>5, <1>6, <1>7, <1>8, <1>9, <1>10, <1>11

LEMMA IngressVerdicts ==
    ASSUME CorrInv, NEW p \in Packets, NEW k \in Keys, KernelIngress(p, k)
    PROVE  /\ AcceptedIsDirect' /\ CopiedIsProxy' /\ ServedIsProxy' /\ CopyReachesOwnFlow' /\ CopyInv'
           /\ CtlInv'
<1> USE IngressFrame
<1>1. \A q \in Packets : q # p => pkey'[q] = pkey[q] /\ ptok'[q] = ptok[q]
  BY IngressStep
<1>2. \A c \in Packets : Inside(c) => ptok'[c] = ptok[c]
  BY <1>1, NewPacket
<1>3. \A q \in Packets : verdict[q] # "none" => q # p /\ Known(q)
  BY NewPacket DEF CorrInv, PacketShape, Undecided
<1>4. AcceptedIsDirect'
  <2>1. ASSUME NEW q \in Packets, verdict[q] = "accept"
        PROVE  \/ \E c \in Packets : cellst[c] = "direct" /\ ptok'[c] = ptok'[q]
               \/ RecordArmed(q)'
    <3>1. q # p /\ pkey[q] \in Keys /\ pkey'[q] = pkey[q] /\ ptok'[q] = ptok[q]
      BY <1>1, <1>3, <2>1, KnownFacts
    <3>2. CASE RecordArmed(q)
      <4>1. conn[pkey[q]].st = "armed"
        BY <3>2 DEF RecordArmed
      <4>2. conn'[pkey[q]] = conn[pkey[q]]
        BY <3>1, <4>1, IngressStep
      <4> QED
        BY <3>1, <3>2, <4>2 DEF RecordArmed
    <3>3. CASE \E c \in Packets : cellst[c] = "direct" /\ ptok[c] = ptok[q]
      BY <1>2, <3>1, <3>3 DEF Inside
    <3> QED
      BY <2>1, <3>2, <3>3 DEF CorrInv, AcceptedIsDirect
  <2> QED
    BY <2>1 DEF AcceptedIsDirect
<1>5. CopiedIsProxy'
  <2>1. ASSUME NEW q \in Packets, verdict[q] = "copied"
        PROVE  \E c \in Packets : cellst[c] = "proxy" /\ ptok'[c] = ptok'[q]
    <3>1. PICK c \in Packets : cellst[c] = "proxy" /\ ptok[c] = ptok[q]
      BY <2>1 DEF CorrInv, CopiedIsProxy
    <3> QED
      BY <1>1, <1>2, <1>3, <2>1, <3>1 DEF Inside
  <2> QED
    BY <2>1 DEF CopiedIsProxy
<1>6. ServedIsProxy' /\ CopyInv'
  BY DEF CorrInv, ServedIsProxy, CopyInv, Unarmed
<1>7. CopyReachesOwnFlow'
  <2>1. ASSUME NEW q \in Packets, payload[q] # None PROVE ptok'[payload[q]] = ptok'[q]
    <3>1. q # p /\ payload[q] \in Packets /\ ptok[payload[q]] = ptok[q]
      BY <2>1, Types, NewPacket DEF CorrInv, CopyReachesOwnFlow, VerdictType, Maybe
    <3>2. ptok[q] \in Packets
      BY <2>1, <3>1, KnownFacts DEF CorrInv, PacketShape
    <3>3. payload[q] # p
      BY <3>1, <3>2, NewPacket, NoneAssumption
    <3> QED
      BY <1>1, <3>1, <3>3
  <2> QED
    BY <2>1 DEF CorrInv, CopyReachesOwnFlow
<1>8. CtlInv'
  BY DEF CorrInv, CtlInv
<1> QED
  BY <1>4, <1>5, <1>6, <1>7, <1>8

LEMMA IngressKeeps ==
    ASSUME CorrInv, NEW p \in Packets, NEW k \in Keys, KernelIngress(p, k)
    PROVE  CorrInv'
BY IngressTypes, IngressShapes, IngressOwners, IngressDecisions, IngressVerdicts DEF CorrInv

-----------------------------------------------------------------------------
(* The invariant *)

LEMMA InitInvariant ==
    ASSUME Init
    PROVE  CorrInv
<1> USE NoneAssumption, BoundsAssumption
<1>1. TypeOK
  <2>1. /\ [tok |-> None, st |-> "absent"] \in [tok : Maybe, st : ConnStates]
        /\ [gen |-> None, st |-> "absent"] \in [gen : Maybe, st : EntryStates]
        /\ [pc |-> "idle", p |-> None, c |-> None] \in [pc : IngestPcs, p : Maybe, c : Maybe]
        /\ [pc |-> "idle", batch |-> <<>>] \in [pc : PumpPcs, batch : Seq(Commits)]
    BY DEF Maybe, ConnStates, EntryStates, IngestPcs, PumpPcs
  <2>2. IdentityType /\ RecordType /\ ClockType /\ VerdictType
    BY <2>1 DEF Init, IdentityType, RecordType, ClockType, VerdictType, Maybe, Verdicts
  <2>3. TransitType /\ CellType /\ CleanupType /\ PoolType
    BY <2>1 DEF Init, TransitType, CellType, CleanupType, PoolType, Maybe, CellStates
  <2>4. TaskType /\ PumpType
    BY <2>1 DEF Init, TaskType, PumpType, TaskStates, Leases
  <2>5. 0 \in 0..MaxReloads /\ 0 \in 0..MaxFaults
    OBVIOUS
  <2>6. CtlType /\ FailType
    BY <2>5 DEF Init, CtlType, FailType, CtlStates
  <2> QED
    BY <2>2, <2>3, <2>4, <2>6, TypeParts
<1>2. /\ \A c \in Packets : /\ cellst[c] = "none" /\ held[c] = <<>> /\ taken[c] = <<>> /\ cgen[c] = None
                            /\ pkey[c] = None /\ ptok[c] = None /\ verdict[c] = "none" /\ payload[c] = None
                            /\ task[c] = "none" /\ lease[c] = "none"
      /\ \A k \in Keys : /\ conn[k].tok = None /\ conn[k].st = "absent" /\ map[k] = None
                         /\ ep[k].gen = None /\ ep[k].st = "absent"
      /\ wire = <<>> /\ queue = <<>> /\ commits = <<>> /\ pump.batch = <<>> /\ pump.pc = "idle"
      /\ ing.pc = "idle" /\ ing.p = None /\ cleanups = {} /\ served = {}
      /\ ready = TRUE /\ open = TRUE /\ ctl = "run"
  BY DEF Init
<1>3. /\ ToSet(wire) = {} /\ ToSet(queue) = {} /\ Indices = {} /\ 1..Len(commits) = {}
      /\ 1..Len(wire) = {} /\ 1..Len(queue) = {}
      /\ \A c \in Packets : /\ ToSet(held[c]) = {} /\ ToSet(taken[c]) = {}
                            /\ 1..Len(held[c]) = {} /\ 1..Len(taken[c]) = {}
  BY <1>2, ToSetEmpty DEF Indices
<1>4. PacketShape /\ RecordShape /\ CellShape /\ TaskShape /\ MapShape /\ EntryShape
  BY <1>2 DEF PacketShape, RecordShape, CellShape, TaskShape, MapShape, EntryShape, Known, Inside,
              Undecided, IsPending, Unarmed, Decisions
<1>5. IngestShape /\ RequestShape /\ CommitShape /\ PhaseInv
  BY <1>2, <1>3 DEF IngestShape, RequestShape, CommitShape, PhaseInv
<1>6. TransitShape /\ HeldShape
  BY <1>2, <1>3 DEF TransitShape, HeldShape, Transit
<1>7. OwnerInv
  BY <1>2, <1>3 DEF OwnerInv, Distinct, Known
<1>8. ArmedRecord /\ ArmedEntry /\ ArmedHasEntry /\ TakenHasEntry
  BY <1>2, <1>3 DEF ArmedRecord, ArmedEntry, ArmedHasEntry, TakenHasEntry
<1>9. CellAgreesWithRecord /\ DirectRecord /\ SidesExclude
  BY <1>2 DEF CellAgreesWithRecord, DirectRecord, SidesExclude
<1>10. AcceptedIsDirect /\ CopiedIsProxy /\ ServedIsProxy /\ CopyReachesOwnFlow /\ CopyInv
  BY <1>2, <1>3 DEF AcceptedIsDirect, CopiedIsProxy, ServedIsProxy, CopyReachesOwnFlow, CopyInv, Unarmed
<1>11. CtlInv
  BY <1>2 DEF CtlInv, Closed
<1> QED
  BY <1>1, <1>4, <1>5, <1>6, <1>7, <1>8, <1>9, <1>10, <1>11 DEF CorrInv

LEMMA StutterKeeps ==
    ASSUME CorrInv, UNCHANGED vars
    PROVE  CorrInv'
<1>1. /\ UNCHANGED <<conn, ready, rcvd, lateN, verdict, payload, queue, ing, map, cellst, held, cgen>>
      /\ UNCHANGED <<cleanups, drain, ep, served, cancelled, task, lease, stale, pkey, ptok, wire>>
      /\ UNCHANGED <<commits, pump, taken, open, ctl, reloads, fatal, faults>>
  BY DEF vars, kernelVars, packetVars, queueVars, cellVars, cleanupVars, endpointVars, taskVars,
         pumpVars, ctlVars, failVars
<1>2. TypeOK'
  <2>1. IdentityType' /\ RecordType' /\ ClockType' /\ VerdictType' /\ TransitType' /\ CellType'
    BY <1>1, Types DEF IdentityType, RecordType, ClockType, VerdictType, TransitType, CellType
  <2>2. CleanupType' /\ PoolType' /\ TaskType' /\ PumpType' /\ CtlType' /\ FailType'
    BY <1>1, Types DEF CleanupType, PoolType, TaskType, PumpType, CtlType, FailType
  <2> QED
    BY <2>1, <2>2, TypePartsNext
<1>3. /\ PacketShape' /\ RecordShape' /\ CellShape' /\ TaskShape' /\ MapShape' /\ EntryShape'
      /\ IngestShape' /\ RequestShape' /\ CommitShape' /\ PhaseInv'
  <2>1. PacketShape' /\ RecordShape' /\ CellShape'
    BY <1>1 DEF CorrInv, PacketShape, RecordShape, CellShape, Known, Inside, Undecided, IsPending, Unarmed, Fresh
  <2>2. TaskShape' /\ MapShape' /\ EntryShape'
    BY <1>1 DEF CorrInv, TaskShape, MapShape, EntryShape, Known, Inside, Undecided, IsPending, Unarmed, Fresh,
       Begun
  <2>3. IngestShape' /\ RequestShape' /\ CommitShape' /\ PhaseInv'
    BY <1>1 DEF CorrInv, IngestShape, RequestShape, CommitShape, PhaseInv, Known, Inside, Undecided, IsPending,
       Unarmed, Fresh, Begun, Indices, Entry
  <2> QED
    BY <2>1, <2>2, <2>3
<1>4. TransitShape' /\ HeldShape' /\ OwnerInv'
  BY <1>1 DEF CorrInv, TransitShape, HeldShape, OwnerInv, Transit, Known, Inside, Undecided
<1>5. ArmedRecord' /\ ArmedEntry' /\ ArmedHasEntry' /\ TakenHasEntry'
  BY SMTT(30), <1>1 DEF CorrInv, ArmedRecord, ArmedEntry, ArmedHasEntry, TakenHasEntry, RecordArmed, Indices, Entry,
     Undecided
<1>6. CellAgreesWithRecord' /\ DirectRecord' /\ SidesExclude'
  BY <1>1 DEF CorrInv, CellAgreesWithRecord,
     DirectRecord, SidesExclude, RecordArmed, Indices, Entry, Undecided
<1>7. /\ AcceptedIsDirect' /\ CopiedIsProxy' /\ ServedIsProxy' /\ CopyReachesOwnFlow' /\ CopyInv'
      /\ CtlInv'
  BY <1>1 DEF CorrInv, AcceptedIsDirect, CopiedIsProxy, ServedIsProxy, CopyReachesOwnFlow, CopyInv,
     CtlInv, RecordArmed, Unarmed
<1> QED
  BY <1>2, <1>3, <1>4, <1>5, <1>6, <1>7 DEF CorrInv

LEMMA NextKeeps ==
    ASSUME CorrInv, [Next]_vars
    PROVE  CorrInv'
BY StutterKeeps, IngressKeeps, MoveKeeps, NextMoves, CtlSteps

(* In every state the system reaches, packets, records, cells, requests,    *)
(* endpoints, verdict guards and the reload agree as CorrInv says: the      *)
(* invariant everything below is read off from.                             *)
THEOREM Invariant == Spec => []CorrInv
<1>1. Init => CorrInv
  BY InitInvariant
<1>2. CorrInv /\ [Next]_vars => CorrInv'
  BY NextKeeps
<1> QED
  BY <1>1, <1>2, PTL DEF Spec

(* Every variable keeps its type, in particular no request, cleanup or      *)
(* entry ever carries a tuple where a token belongs.                        *)
THEOREM TypeCorrect == Spec => []TypeOK
<1>1. CorrInv => TypeOK
  BY DEF CorrInv
<1> QED
  BY <1>1, Invariant, PTL

(* A payload only reaches an endpoint generation of its packet's own token, *)
(* and an original given up as copied has been copied.                      *)
THEOREM CopiesStayInFlow == Spec => []CopyReachesOwnFlow
<1>1. CorrInv => CopyReachesOwnFlow
  BY DEF CorrInv
<1> QED
  BY <1>1, Invariant, PTL

(* A decided cell and the kernel record of the same token say the same,     *)
(* whatever has happened to the cell's place in the map since.              *)
THEOREM CellsAgree == Spec => []CellAgreesWithRecord
<1>1. CorrInv => CellAgreesWithRecord
  BY DEF CorrInv
<1> QED
  BY <1>1, Invariant, PTL

LEMMA ArmedOwner == CorrInv => ArmedIsOwned
<1>1. SUFFICES ASSUME CorrInv, ~fatal, NEW k \in Keys, conn[k].st = "armed"
               PROVE  /\ map[k] # None /\ cellst[map[k]] = "armed"
                      /\ ptok[map[k]] = conn[k].tok /\ InBatch(map[k])
  BY DEF ArmedIsOwned
<1>2. PICK c \in Packets : cellst[c] = "armed" /\ ptok[c] = conn[k].tok
  BY <1>1 DEF CorrInv, ArmedHasEntry
<1>3. Inside(c) /\ map[pkey[c]] = c /\ pkey[ptok[c]] = pkey[c] /\ ptok[c] \in Packets
  BY <1>1, <1>2, InsideFacts DEF CorrInv, CellShape, IsPending, Inside
<1>4. pkey[c] = k
  BY <1>1, <1>2, <1>3, NoneAssumption DEF CorrInv, RecordShape
<1>5. InBatch(c)
  BY <1>1, <1>2 DEF CorrInv, ArmedHasEntry, InBatch, Indices, Entry
<1> QED
  BY <1>2, <1>3, <1>4, <1>5, NoneAssumption

(* DirectArmed is never abandoned: until the process is told to die, an     *)
(* armed record has its armed cell in the map and in the pump's batch.      *)
THEOREM ArmedOwned == Spec => []ArmedIsOwned
BY ArmedOwner, Invariant, PTL

LEMMA OneSide ==
    ASSUME CorrInv, NEW p \in Packets, verdict[p] = "accept",
           NEW c \in Packets, cellst[c] = "proxy"
    PROVE  ptok[c] # ptok[p]
<1>1. CASE \E d \in Packets : cellst[d] = "direct" /\ ptok[d] = ptok[p]
  BY <1>1 DEF CorrInv, SidesExclude
<1>2. ASSUME RecordArmed(p), ptok[c] = ptok[p] PROVE FALSE
  <2>1. pkey[c] = pkey[p]
    BY <1>2, SameFlow DEF Inside
  <2>2. conn[pkey[c]].tok = ptok[c] /\ conn[pkey[c]].st = "armed"
    BY <1>2, <2>1 DEF RecordArmed
  <2> QED
    BY <2>2 DEF CorrInv, CellAgreesWithRecord
<1> QED
  BY <1>1, <1>2 DEF CorrInv, AcceptedIsDirect

LEMMA OneSend == CorrInv => DirectExcludesProxy
<1>1. SUFFICES ASSUME CorrInv, NEW p \in Packets, verdict[p] = "accept"
               PROVE  /\ \A g \in served : ptok[g] # ptok[p]
                      /\ \A q \in Packets : verdict[q] = "copied" => ptok[q] # ptok[p]
  BY DEF DirectExcludesProxy
<1>2. ASSUME NEW g \in served PROVE ptok[g] # ptok[p]
  <2>1. g \in Packets /\ cellst[g] = "proxy"
    BY <1>1, Types DEF PoolType, CorrInv, ServedIsProxy
  <2> QED
    BY <1>1, <2>1, OneSide
<1>3. ASSUME NEW q \in Packets, verdict[q] = "copied" PROVE ptok[q] # ptok[p]
  <2>1. PICK c \in Packets : cellst[c] = "proxy" /\ ptok[c] = ptok[q]
    BY <1>1, <1>3 DEF CorrInv, CopiedIsProxy
  <2> QED
    BY <1>1, <2>1, OneSide
<1> QED
  BY <1>2, <1>3

(* One send per packet: no token has both an original released directly and *)
(* an endpoint that came up to send copies of its payloads.                 *)
THEOREM DirectXorProxy == Spec => []DirectExcludesProxy
BY OneSend, Invariant, PTL

LEMMA DrainedIsEmpty == CorrInv => DrainedHoldsNothing
<1>1. SUFFICES ASSUME CorrInv, ctl = "retirements"
               PROVE  /\ \A c \in Packets : held[c] = <<>> /\ taken[c] = <<>>
                      /\ PumpIdle /\ ing.p = None
                      /\ \A k \in Keys : map[k] = None
                      /\ fatal \/ \A k \in Keys : conn[k].st \notin {"pending", "armed"}
  BY DEF DrainedHoldsNothing
<1>2. /\ commits = <<>> /\ pump.batch = <<>> /\ ing.pc = "idle" /\ ~ready
      /\ \A k \in Keys : map[k] = None /\ conn[k].st # "pending"
  BY <1>1 DEF CorrInv, CtlInv, Closed
<1>3. Indices = {} /\ PumpIdle /\ ing.p = None
  BY <1>1, <1>2 DEF Indices, PumpIdle, CorrInv, IngestShape
<1>4. ASSUME NEW c \in Packets PROVE held[c] = <<>> /\ taken[c] = <<>>
  <2>1. IsPending(c) => pkey[c] \in Keys /\ map[pkey[c]] = c
    BY <1>1, InsideFacts DEF CorrInv, CellShape, IsPending, Unarmed, Inside
  <2>2. ~IsPending(c)
    BY <1>2, <2>1, NoneAssumption
  <2> QED
    BY <1>1, <1>3, <2>2 DEF CorrInv, CellShape, TakenHasEntry
<1>5. ~fatal => \A k \in Keys : conn[k].st # "armed"
  BY <1>1, <1>3 DEF CorrInv, ArmedHasEntry
<1> QED
  BY <1>2, <1>3, <1>4, <1>5

(* When a reload has waited for emptiness, no guard is held, no request is  *)
(* in the pump and no record is staged, until the gate reopens.             *)
THEOREM DrainedEmpty == Spec => []DrainedHoldsNothing
BY DrainedIsEmpty, Invariant, PTL

-----------------------------------------------------------------------------
(* Counting owners *)

LEMMA OwnersInCount ==
    ASSUME NEW s \in Seq(Packets), Distinct(s), NEW p
    PROVE  OwnersIn(s, p) = IF p \in ToSet(s) THEN 1 ELSE 0
<1>1. p \in ToSet(s) <=> \E i \in 1..Len(s) : s[i] = p
  BY ToSetRange
<1>2. CASE p \in ToSet(s)
  <2>1. PICK i \in 1..Len(s) : s[i] = p
    BY <1>1, <1>2
  <2>2. {j \in 1..Len(s) : s[j] = p} = {i}
    BY <2>1 DEF Distinct
  <2>3. Cardinality({i}) = 1
    BY FS_Singleton
  <2> QED
    BY <1>2, <2>2, <2>3 DEF OwnersIn
<1>3. CASE p \notin ToSet(s)
  <2>1. {j \in 1..Len(s) : s[j] = p} = {}
    BY <1>1, <1>3
  <2> QED
    BY <1>3, <2>1, FS_EmptySet DEF OwnersIn
<1> QED
  BY <1>2, <1>3

LEMMA InCellsCount ==
    ASSUME NEW f, NEW p,
           \A c, d \in Packets : p \in ToSet(f[c]) /\ p \in ToSet(f[d]) => c = d
    PROVE  Cardinality(InCells(f, p)) = IF \E c \in Packets : p \in ToSet(f[c]) THEN 1 ELSE 0
<1>1. CASE \E c \in Packets : p \in ToSet(f[c])
  <2>1. PICK c \in Packets : p \in ToSet(f[c])
    BY <1>1
  <2>2. InCells(f, p) = {c}
    BY <2>1 DEF InCells
  <2>3. Cardinality({c}) = 1
    BY FS_Singleton
  <2> QED
    BY <1>1, <2>2, <2>3
<1>2. CASE ~(\E c \in Packets : p \in ToSet(f[c]))
  <2>1. InCells(f, p) = {}
    BY <1>2 DEF InCells
  <2> QED
    BY <1>2, <2>1, FS_EmptySet
<1> QED
  BY <1>1, <1>2

LEMMA OwnerCount == CorrInv => OneOwnerPerGuard
<1>1. SUFFICES ASSUME CorrInv, NEW p \in Packets, Known(p)
               PROVE  Owners(p) = IF Undecided(p) THEN 1 ELSE 0
  BY DEF OneOwnerPerGuard, Known, Undecided
<1> DEFINE W == p \in ToSet(wire)
           Q == p \in ToSet(queue)
           H == \E c \in Packets : p \in ToSet(held[c])
           T == \E c \in Packets : p \in ToSet(taken[c])
<1>2. /\ OwnersIn(wire, p) = IF W THEN 1 ELSE 0
      /\ OwnersIn(queue, p) = IF Q THEN 1 ELSE 0
  BY <1>1, OwnerTypes, OwnerFacts, OwnersInCount
<1>3. Cardinality(InCells(held, p)) = IF H THEN 1 ELSE 0
  <2>1. \A c, d \in Packets : p \in ToSet(held[c]) /\ p \in ToSet(held[d]) => c = d
    BY <1>1, OwnerFacts
  <2> QED
    BY <2>1, InCellsCount
<1>4. Cardinality(InCells(taken, p)) = IF T THEN 1 ELSE 0
  <2>1. \A c, d \in Packets : p \in ToSet(taken[c]) /\ p \in ToSet(taken[d]) => c = d
    BY <1>1, OwnerFacts
  <2> QED
    BY <2>1, InCellsCount
<1>5. /\ ~(W /\ Q) /\ ~(W /\ ing.p = p) /\ ~(Q /\ ing.p = p) /\ ~(H /\ T)
      /\ H \/ T => ~W /\ ~Q /\ ing.p # p
      /\ Undecided(p) <=> W \/ Q \/ ing.p = p \/ H \/ T
  BY <1>1, OwnerFacts
<1> HIDE DEF W, Q, H, T
<1>6. Owners(p) = (IF W THEN 1 ELSE 0) + (IF Q THEN 1 ELSE 0) + (IF ing.p = p THEN 1 ELSE 0)
                  + (IF H THEN 1 ELSE 0) + (IF T THEN 1 ELSE 0)
  BY <1>2, <1>3, <1>4 DEF Owners
<1> QED
  BY <1>5, <1>6

(* A held original has exactly one owner until its verdict and none after:  *)
(* no guard is forgotten or settled twice.                                  *)
THEOREM OneOwner == Spec => []OneOwnerPerGuard
BY OwnerCount, Invariant, PTL

-----------------------------------------------------------------------------
(* What a step may never do *)

LEMMA AcceptStep ==
    ASSUME CorrInv, [Next]_vars, NEW p \in Packets, Accepts(p)
    PROVE  conn[pkey[p]].tok = ptok[p] /\ conn[pkey[p]].st \in {"armed", "direct"}
<1>1. verdict' # verdict /\ verdict'[p] = "accept" /\ verdict[p] = "none"
  BY DEF Accepts
<1>2. ~ UNCHANGED vars /\ \A q \in Packets, k \in Keys : ~KernelIngress(q, k)
  BY <1>1, IngressFrame DEF vars
<1>3. VerdictMove
  BY <1>2, NextMoves DEF Move
<1>4. Releases(p)
  BY <1>1, <1>3 DEF VerdictMove
<1>5. CASE RecordIs(p, "direct") \/ RecordArmed(p)
  BY <1>5 DEF RecordIs, RecordArmed
<1>6. ASSUME NEW c \in Packets, cellst[c] = "direct", ptok[c] = ptok[p], Undecided(p)
      PROVE  conn[pkey[p]].tok = ptok[p] /\ conn[pkey[p]].st = "direct"
  <2>1. pkey[p] = pkey[c]
    BY <1>6, SameFlow DEF Inside
  <2>2. conn[pkey[c]].tok = ptok[c]
    BY <1>6 DEF CorrInv, DirectRecord
  <2>3. conn[pkey[c]].st = "direct"
    BY <1>6, <2>2 DEF CorrInv, CellAgreesWithRecord
  <2> QED
    BY <1>6, <2>1, <2>2, <2>3
<1> QED
  BY <1>4, <1>5, <1>6 DEF Releases

(* Every NF_ACCEPT of an original is sent while the kernel record of its    *)
(* own token is armed or direct: the commit always precedes the release.    *)
THEOREM AcceptsAreDirect == Spec => AcceptOnlyDirect
<1>1. CorrInv /\ [Next]_vars =>
        [\A p \in Packets : Accepts(p) =>
           conn[pkey[p]].tok = ptok[p] /\ conn[pkey[p]].st \in {"armed", "direct"}]_vars
  BY AcceptStep
<1> QED
  BY <1>1, Invariant, PTL DEF Spec, AcceptOnlyDirect

LEMMA FreshStep ==
    ASSUME CorrInv, [Next]_vars, NEW k \in Keys, conn[k].tok # None, Fresh(conn[k].tok), ready'
    PROVE  conn'[k] = conn[k]
<1>1. CASE UNCHANGED vars
  BY <1>1 DEF vars, kernelVars
<1>2. ASSUME NEW q \in Packets, NEW j \in Keys, KernelIngress(q, j) PROVE conn'[k] = conn[k]
  <2>1. conn[k].st # "absent"
    BY DEF CorrInv, RecordShape
  <2> QED
    BY <1>2, <2>1, IngressStep
<1>3. CASE Move
  <2>1. ConnStep(k)
    BY <1>3, ConnSteps
  <2>2. conn[k].tok \in Packets /\ ptok[conn[k].tok] = conn[k].tok
    BY Types DEF CorrInv, RecordShape, RecordType, Maybe
  <2>3. Undecided(conn[k].tok)
    BY <2>2 DEF Fresh, Undecided
  <2>4. ~Removable(k)
    BY <2>2, <2>3 DEF Removable
  <2>5. ASSUME NEW c \in Packets, Inside(c), pkey[c] = k, NEW st, RecordIs(c, st) PROVE FALSE
    <3>1. conn[k].tok = ptok[c]
      BY <2>5 DEF RecordIs
    <3> QED
      BY <2>5, <3>1 DEF Fresh, Inside
  <2> QED
    BY <2>1, <2>4, <2>5 DEF ConnStep, Inside
<1> QED
  BY <1>1, <1>2, <1>3, NextMoves

(* A newly staged token is out of reach of everything the tuple's earlier   *)
(* incarnations left behind: until one of its packets is decided or given a *)
(* cell, only a fence changes its record.                                   *)
THEOREM FreshSurvives == Spec => FreshTokenSurvives
<1>1. CorrInv /\ [Next]_vars =>
        [\A k \in Keys : conn[k].tok # None /\ Fresh(conn[k].tok) /\ ready' =>
           conn'[k] = conn[k]]_vars
  BY FreshStep
<1> QED
  BY <1>1, Invariant, PTL DEF Spec, FreshTokenSurvives

LEMMA ActivateStep ==
    ASSUME CorrInv, [Next]_vars, NEW k \in Keys, conn[k].st = "armed", conn'[k].st = "direct",
           NEW d \in Packets, ptok[d] = conn[k].tok
    PROVE  held[d] = <<>> /\ taken[d] = <<>>
<1>1. conn'[k] # conn[k]
  OBVIOUS
<1>2. Move
  <2>1. \A q \in Packets, j \in Keys : ~KernelIngress(q, j)
    BY <1>1, IngressStep
  <2> QED
    BY <1>1, <2>1, NextMoves DEF vars, kernelVars
<1>3. PICK c \in Packets : /\ pkey[c] = k /\ cellst[c] = "armed" /\ RecordIs(c, "armed")
                           /\ held[c] = <<>> /\ taken[c] = <<>>
                           /\ \E i \in Indices : Activates(i, c)
  <2>1. ConnStep(k)
    BY <1>2, ConnSteps
  <2>2. conn'[k] = Absent => conn'[k].st # "direct"
    BY DEF Absent
  <2>3. \A c \in Packets : conn'[k] = [tok |-> ptok[c], st |-> cellst'[c]]
           /\ cellst'[c] \in {"armed", "proxy", "block"} => conn'[k].st # "direct"
    OBVIOUS
  <2> QED
    BY <1>1, <2>1, <2>2, <2>3 DEF ConnStep
<1>4. ptok[d] = ptok[c]
  BY <1>3 DEF RecordIs
<1>5. held[d] = <<>>
  <2>1. IsPending(d) => d = c
    BY <1>3, <1>4, OnePending DEF IsPending
  <2> QED
    BY <1>3, <2>1 DEF CorrInv, CellShape
<1>6. taken[d] = <<>>
  <2>1. SUFFICES ASSUME taken[d] # <<>> PROVE d = c
    BY <1>3
  <2>2. PICK j \in Indices : Entry(j).cell = d /\ Entry(j).res \in {"accept", "terminal", "failTerminal"}
    BY <2>1 DEF CorrInv, TakenHasEntry
  <2>3. PICK i \in Indices : Entry(i).cell = c /\ Entry(i).res = "accept"
    BY <1>3 DEF Activates, Marked
  <2>4. CASE Entry(j).res = "accept"
    BY <1>4, <2>2, <2>3, <2>4 DEF CorrInv, ArmedEntry, ArmedPhases
  <2>5. CASE Entry(j).res \in {"terminal", "failTerminal"}
    <3>1. Entry(j).decision \in {"proxy", "block"} /\ cellst[d] = Entry(j).decision
      BY <2>2, <2>5, EntryFacts DEF CorrInv, PhaseInv, Decisions
    <3> QED
      BY <1>3, <1>4, <3>1 DEF CorrInv, SidesExclude
  <2> QED
    BY <2>2, <2>4, <2>5
<1> QED
  BY <1>5, <1>6

(* ActivateDirect lets the kernel forward the flow by itself only when no   *)
(* original of its token is held or taken any more, so none is overtaken.   *)
THEOREM ActivatesEmpty == Spec => ActivateWithNothingHeld
<1>1. CorrInv /\ [Next]_vars =>
        [\A k \in Keys : conn[k].st = "armed" /\ conn'[k].st = "direct" =>
           \A c \in Packets : ptok[c] = conn[k].tok => held[c] = <<>> /\ taken[c] = <<>>]_vars
  BY ActivateStep
<1> QED
  BY <1>1, Invariant, PTL DEF Spec, ActivateWithNothingHeld
=============================================================================
