------------------------- MODULE NfqueueOrder_proofs ------------------------
(***************************************************************************)
(* Proof that direct releases originals in the order of their receipt, for *)
(* any flows, packets and bounds: AcceptInOrder of NfqueueCorrelator.      *)
(*                                                                         *)
(* Everything a guard passes through is FIFO: the channel, the ingest      *)
(* actor, a cell's verdicts and those the pump has taken from it, in this  *)
(* order.  The inductive invariant says that each is sorted by receipt and *)
(* lies before the ones a guard comes from.                                *)
(***************************************************************************)
EXTENDS NfqueueCorrelator_proofs

-----------------------------------------------------------------------------
(* The order of receipt *)

\* q comes before p in r.
Precedes(r, q, p) == \E i, j \in 1..Len(r) : i < j /\ r[i] = q /\ r[j] = p

Sorted(r, s) == \A i, j \in 1..Len(s) : i < j => Precedes(r, s[i], s[j])

LEMMA PrecedesIsStrict ==
    ASSUME NEW r \in Seq(Packets), Distinct(r), NEW p, NEW q, Precedes(r, q, p)
    PROVE  ~Precedes(r, p, q) /\ p # q
<1>1. PICK i \in 1..Len(r), j \in 1..Len(r) : i < j /\ r[i] = q /\ r[j] = p
  BY DEF Precedes
<1>2. p # q
  BY <1>1 DEF Distinct
<1>3. ASSUME NEW m \in 1..Len(r), NEW n \in 1..Len(r), m < n, r[m] = p, r[n] = q PROVE FALSE
  <2>1. m = j /\ n = i
    BY <1>1, <1>3 DEF Distinct
  <2> QED
    BY <1>1, <1>3, <2>1
<1> QED
  BY <1>2, <1>3 DEF Precedes

\* One more packet is received: nothing is reordered, and it is the last.
LEMMA PrecedesGrows ==
    ASSUME NEW r \in Seq(Packets), NEW x \in Packets
    PROVE  /\ \A p, q : Precedes(r, q, p) => Precedes(Append(r, x), q, p)
           /\ \A q \in ToSet(r) : Precedes(Append(r, x), q, x)
<1> DEFINE t == Append(r, x)
<1>1. /\ Len(r) \in Nat /\ Len(t) = Len(r) + 1 /\ t[Len(r) + 1] = x
      /\ \A i \in 1..Len(r) : t[i] = r[i]
  OBVIOUS
<1> HIDE DEF t
<1>2. \A i \in 1..Len(r) : i \in 1..Len(t) /\ i < Len(r) + 1
  BY <1>1
<1>3. Len(r) + 1 \in 1..Len(t)
  BY <1>1
<1>4. \A p, q : Precedes(r, q, p) => Precedes(t, q, p)
  BY <1>1, <1>2 DEF Precedes
<1>5. ASSUME NEW q \in ToSet(r) PROVE Precedes(t, q, x)
  <2>1. PICK i \in 1..Len(r) : r[i] = q
    BY ToSetRange
  <2> QED
    BY <2>1, <1>1, <1>2, <1>3 DEF Precedes
<1> QED
  BY <1>4, <1>5 DEF t

LEMMA SortedEmpty == \A r : Sorted(r, <<>>)
BY DEF Sorted

LEMMA SortedAppend ==
    ASSUME NEW r, NEW s \in Seq(Packets), NEW x \in Packets, Sorted(r, s),
           \A q \in ToSet(s) : Precedes(r, q, x)
    PROVE  Sorted(r, Append(s, x))
<1> DEFINE t == Append(s, x)
<1>1. /\ Len(s) \in Nat /\ Len(t) = Len(s) + 1 /\ t[Len(s) + 1] = x
      /\ \A i \in 1..Len(s) : t[i] = s[i]
  OBVIOUS
<1> HIDE DEF t
<1>2. \A i \in 1..Len(s) : s[i] \in ToSet(s)
  BY ToSetRange
<1> SUFFICES ASSUME NEW i \in 1..Len(t), NEW j \in 1..Len(t), i < j
             PROVE  Precedes(r, t[i], t[j])
  BY DEF Sorted, t
<1>3. i \in 1..Len(s) /\ (j \in 1..Len(s) \/ j = Len(s) + 1)
  BY <1>1
<1>4. CASE j \in 1..Len(s)
  BY <1>1, <1>3, <1>4 DEF Sorted
<1>5. CASE j = Len(s) + 1
  BY <1>1, <1>2, <1>3, <1>5
<1> QED
  BY <1>3, <1>4, <1>5

LEMMA SortedTail ==
    ASSUME NEW r, NEW s \in Seq(Packets), s # <<>>, Sorted(r, s)
    PROVE  /\ Sorted(r, Tail(s))
           /\ \A q \in ToSet(Tail(s)) : Precedes(r, Head(s), q)
<1> DEFINE t == Tail(s)
<1>1. /\ Len(s) \in Nat /\ Len(s) >= 1 /\ Len(t) = Len(s) - 1 /\ Head(s) = s[1] /\ t \in Seq(Packets)
      /\ \A i \in 1..Len(t) : t[i] = s[i + 1]
  OBVIOUS
<1> HIDE DEF t
<1>2. \A i \in 1..Len(t) : i + 1 \in 1..Len(s) /\ 1 < i + 1
  BY <1>1
<1>3. Sorted(r, t)
  <2> SUFFICES ASSUME NEW i \in 1..Len(t), NEW j \in 1..Len(t), i < j PROVE Precedes(r, t[i], t[j])
    BY DEF Sorted
  <2>1. i + 1 < j + 1
    BY <1>1
  <2> QED
    BY <2>1, <1>1, <1>2 DEF Sorted
<1>4. ASSUME NEW q \in ToSet(t) PROVE Precedes(r, Head(s), q)
  <2>1. PICK i \in 1..Len(t) : t[i] = q
    BY <1>1, ToSetRange
  <2>2. 1 \in 1..Len(s)
    BY <1>1
  <2> QED
    BY <2>1, <2>2, <1>1, <1>2 DEF Sorted
<1> QED
  BY <1>3, <1>4 DEF t

LEMMA SortedGrows ==
    ASSUME NEW r \in Seq(Packets), NEW x \in Packets, NEW s, Sorted(r, s)
    PROVE  Sorted(Append(r, x), s)
BY PrecedesGrows DEF Sorted

-----------------------------------------------------------------------------
(* The invariant *)

\* A cell's guards: those the pump took from it were there before the others.
CellOrdered(r, h, t) ==
    /\ Sorted(r, h) /\ Sorted(r, t)
    /\ \A p \in ToSet(t), q \in ToSet(h) : Precedes(r, p, q)

\* Guards pass, in order of receipt, through the channel qs, the ingest actor
\* x and the cells h and t.
Ordered(r, qs, x, h, t) ==
    /\ Sorted(r, qs) /\ ToSet(qs) \subseteq ToSet(r)
    /\ x \in Packets => x \in ToSet(r) /\ \A q \in ToSet(qs) : Precedes(r, x, q)
    /\ \A c \in Packets :
          /\ CellOrdered(r, h[c], t[c])
          /\ \A p \in ToSet(h[c]) \cup ToSet(t[c]) :
                /\ p \in ToSet(r) /\ \A q \in ToSet(qs) : Precedes(r, p, q)
                /\ x \in Packets => Precedes(r, p, x)

ReceiptInv ==
    /\ Distinct(rcvd)
    /\ \A p \in ToSet(rcvd) : Known(p) /\ p \notin ToSet(wire)

\* A staged cell's own record, if it is there, is still pending.
UnarmedRecord ==
    \A c \in Packets : Unarmed(c) /\ conn[pkey[c]].tok = ptok[c] => conn[pkey[c]].st = "pending"

\* An armed request is the one of its token's armed cell.
ArmedPair ==
    \A i \in Indices, d \in Packets :
        Entry(i).res \in ArmedPhases /\ cellst[d] = "armed" /\ ptok[Entry(i).cell] = ptok[d] =>
            Entry(i).cell = d

OrderInv ==
    /\ ReceiptInv /\ UnarmedRecord /\ ArmedPair
    /\ Ordered(rcvd, queue, ing.p, held, taken)

-----------------------------------------------------------------------------
(* The steps keep the order *)

LEMMA OrderedGrows ==
    ASSUME NEW r \in Seq(Packets), NEW x \in Packets, NEW qs, NEW y, NEW h, NEW t,
           Ordered(r, qs, y, h, t)
    PROVE  Ordered(Append(r, x), qs, y, h, t)
<1>1. ToSet(r) \subseteq ToSet(Append(r, x))
  BY ToSetAppend
<1>2. \A p, q : Precedes(r, q, p) => Precedes(Append(r, x), q, p)
  BY PrecedesGrows
<1>3. \A s : Sorted(r, s) => Sorted(Append(r, x), s)
  BY SortedGrows
<1>4. \A c \in Packets : CellOrdered(Append(r, x), h[c], t[c])
  BY <1>2, <1>3 DEF Ordered, CellOrdered
<1> QED
  BY <1>1, <1>2, <1>3, <1>4 DEF Ordered

\* Guards may leave anywhere.
LEMMA OrderedShrinks ==
    ASSUME NEW r, NEW qs, NEW x, NEW h, NEW t, Ordered(r, qs, x, h, t),
           NEW qs2, NEW x2, NEW h2, NEW t2,
           Sorted(r, qs2), ToSet(qs2) \subseteq ToSet(qs), x2 = x \/ x2 \notin Packets,
           \A c \in Packets : /\ Sorted(r, h2[c]) /\ ToSet(h2[c]) \subseteq ToSet(h[c])
                              /\ Sorted(r, t2[c]) /\ ToSet(t2[c]) \subseteq ToSet(t[c])
    PROVE  Ordered(r, qs2, x2, h2, t2)
<1>1. \A c \in Packets : CellOrdered(r, h2[c], t2[c])
  BY DEF Ordered, CellOrdered
<1> QED
  BY <1>1 DEF Ordered

\* What a cell holds and what the pump took from it lose their first or all.
LEMMA CellParts ==
    ASSUME NEW r, NEW c \in Packets, NEW d \in Packets, NEW f \in [Packets -> Seq(Packets)],
           NEW s \in {f[c], <<>>} \cup {u \in {Tail(f[c])} : f[c] # <<>>}, Sorted(r, f[d])
    PROVE  Sorted(r, [f EXCEPT ![c] = s][d]) /\ ToSet([f EXCEPT ![c] = s][d]) \subseteq ToSet(f[d])
<1>1. [f EXCEPT ![c] = s][d] = IF d = c THEN s ELSE f[d]
  OBVIOUS
<1>2. CASE d # c \/ s = f[c]
  BY <1>1, <1>2
<1>3. CASE d = c /\ s = <<>>
  BY <1>1, <1>3, SortedEmpty, ToSetEmpty
<1>4. CASE d = c /\ f[c] # <<>> /\ s = Tail(f[c])
  <2>1. f[c] \in Seq(Packets) /\ Sorted(r, f[c])
    BY <1>4
  <2>2. Sorted(r, Tail(f[c])) /\ ToSet(Tail(f[c])) \subseteq ToSet(f[c])
    BY <1>4, <2>1, SortedTail, ToSetTail
  <2> QED
    BY <1>1, <1>4, <2>2
<1> QED
  BY <1>2, <1>3, <1>4

LEMMA OrderKept ==
    ASSUME CorrInv, Move, ReceiptInv, Ordered(rcvd, queue, ing.p, held, taken)
    PROVE  Ordered(rcvd', queue', ing'.p, held', taken')
<1>1. /\ queue \in Seq(Packets) /\ wire \in Seq(Packets) /\ ing.p \in Maybe
      /\ held \in [Packets -> Seq(Packets)] /\ taken \in [Packets -> Seq(Packets)]
      /\ rcvd \in Seq(Packets) /\ GuardMove
  BY OwnerTypes, Types DEF Move, ClockType
<1>2. Ordered(rcvd', queue, ing.p, held, taken)
  <2>1. CASE UNCHANGED rcvd
    BY <2>1
  <2>2. CASE Receive
    <3>1. rcvd' = Append(rcvd, Head(wire)) /\ Head(wire) \in Packets
      BY <1>1, <2>2 DEF Receive
    <3> QED
      BY <1>1, <3>1, OrderedGrows
  <2> QED
    BY <2>1, <2>2 DEF Move, FailMove
<1> DEFINE r == rcvd'
           Goal == Ordered(r, queue', ing'.p, held', taken')
<1>3. /\ Sorted(r, queue)
      /\ \A c \in Packets : Sorted(r, held[c]) /\ Sorted(r, taken[c])
  BY <1>2 DEF Ordered, CellOrdered
<1>4. CASE Keeps \/ Rejects
  <2>1. UNCHANGED <<queue, held, taken>> /\ ing'.p = ing.p
    BY <1>4 DEF Keeps, Rejects
  <2> QED
    BY <1>2, <2>1
<1>5. CASE Delivers
  <2> DEFINE x == Head(wire)
  <2>1. /\ rcvd' = Append(rcvd, x) /\ x \in Packets /\ queue' = Append(queue, x)
        /\ UNCHANGED <<held, taken>> /\ ing'.p = ing.p
    BY <1>1, <1>5 DEF Delivers
  <2> HIDE DEF x
  <2>2. \A q \in ToSet(rcvd) : Precedes(r, q, x)
    BY <1>1, <2>1, PrecedesGrows
  <2>3. x \in ToSet(r) /\ ToSet(queue') = ToSet(queue) \cup {x}
    BY <1>1, <2>1, ToSetAppend
  <2>4. Sorted(r, queue')
    <3>1. \A q \in ToSet(queue) : Precedes(r, q, x)
      BY <2>2 DEF Ordered
    <3> QED
      BY <1>1, <1>3, <2>1, <3>1, SortedAppend
  <2>5. /\ ing.p \in Packets => Precedes(r, ing.p, x)
        /\ \A c \in Packets : \A p \in ToSet(held[c]) \cup ToSet(taken[c]) : Precedes(r, p, x)
    BY <2>2 DEF Ordered
  <2>6. Ordered(r, queue', ing.p, held, taken)
    BY <1>2, <2>3, <2>4, <2>5 DEF Ordered
  <2> QED
    BY <2>1, <2>6
<1>6. CASE Refuses
  <2>1. queue # <<>> /\ queue' = Tail(queue) /\ UNCHANGED <<held, taken>> /\ ing'.p = ing.p
    BY <1>6 DEF Refuses
  <2>2. Sorted(r, queue') /\ ToSet(queue') \subseteq ToSet(queue)
    BY <1>1, <1>3, <2>1, SortedTail, ToSetTail
  <2>3. Ordered(r, queue', ing.p, held, taken)
    BY <1>2, <1>3, <2>2, OrderedShrinks
  <2> QED
    BY <2>1, <2>3
<1>7. CASE Starts
  <2>1. queue # <<>> /\ queue' = Tail(queue) /\ UNCHANGED <<held, taken>> /\ ing'.p = Head(queue)
    BY <1>7 DEF Starts
  <2>2. /\ Sorted(r, queue') /\ ToSet(queue) = ToSet(queue') \cup {Head(queue)}
        /\ \A q \in ToSet(queue') : Precedes(r, Head(queue), q)
    BY <1>1, <1>3, <2>1, SortedTail, ToSetTail
  <2> QED
    BY <1>2, <2>1, <2>2 DEF Ordered
<1>8. CASE Finishes
  <2>1. UNCHANGED <<queue, held, taken>> /\ ing'.p = None
    BY <1>8 DEF Finishes
  <2>2. Ordered(r, queue, None, held, taken)
    BY <1>2, NoneAssumption DEF Ordered
  <2> QED
    BY <2>1, <2>2
<1>9. ASSUME NEW c \in Packets, Stores(c) PROVE Goal
  <2> DEFINE x == ing.p
  <2>1. /\ x \in Packets /\ ing'.p = None /\ UNCHANGED <<queue, taken>>
        /\ held' = [held EXCEPT ![c] = Append(held[c], x)]
    BY <1>9 DEF Stores
  <2>2. held'[c] = Append(held[c], x) /\ \A d \in Packets : d # c => held'[d] = held[d]
    BY <1>1, <2>1
  <2>3. /\ x \in ToSet(r) /\ \A q \in ToSet(queue) : Precedes(r, x, q)
        /\ \A p \in ToSet(held[c]) \cup ToSet(taken[c]) : Precedes(r, p, x)
    BY <1>2, <2>1 DEF Ordered
  <2> HIDE DEF x
  <2>4. ToSet(held'[c]) = ToSet(held[c]) \cup {x} /\ Sorted(r, held'[c])
    BY <1>1, <1>3, <2>1, <2>2, <2>3, ToSetAppend, SortedAppend
  <2>5. CellOrdered(r, held'[c], taken[c])
    BY <1>2, <2>3, <2>4 DEF Ordered, CellOrdered
  <2>6. \A d \in Packets : CellOrdered(r, held'[d], taken[d])
    BY <1>2, <2>2, <2>5 DEF Ordered
  <2>7. \A d \in Packets : \A p \in ToSet(held'[d]) \cup ToSet(taken[d]) :
           p \in ToSet(r) /\ \A q \in ToSet(queue) : Precedes(r, p, q)
    <3> SUFFICES ASSUME NEW d \in Packets, NEW p \in ToSet(held'[d]) \cup ToSet(taken[d])
                 PROVE  p \in ToSet(r) /\ \A q \in ToSet(queue) : Precedes(r, p, q)
      OBVIOUS
    <3>1. CASE p \in ToSet(held[d]) \cup ToSet(taken[d])
      BY <1>2, <3>1 DEF Ordered
    <3>2. CASE p = x
      BY <2>3, <3>2
    <3> QED
      BY <2>2, <2>4, <3>1, <3>2
  <2>8. Ordered(r, queue, None, held', taken)
    BY <1>2, <2>6, <2>7, NoneAssumption DEF Ordered
  <2> QED
    BY <2>1, <2>8
<1>10. ASSUME NEW c \in Packets, Empties(c) PROVE Goal
  <2>1. /\ held' = [held EXCEPT ![c] = <<>>] /\ UNCHANGED <<queue, taken>>
        /\ ing'.p = ing.p \/ ing'.p = None
    BY <1>10 DEF Empties
  <2>2. \A d \in Packets : Sorted(r, held'[d]) /\ ToSet(held'[d]) \subseteq ToSet(held[d])
    BY <1>1, <1>3, <2>1, CellParts
  <2>3. Ordered(r, queue, ing'.p, held', taken)
    <3>1. ing'.p = ing.p \/ ing'.p \notin Packets
      BY <2>1, NoneAssumption
    <3> QED
      BY <1>2, <1>3, <2>2, <3>1, OrderedShrinks
  <2> QED
    BY <2>1, <2>3
<1>11. ASSUME NEW c \in Packets, Shifts(c) \/ Clears(c) PROVE Goal
  <2>1. /\ UNCHANGED <<queue, held>> /\ ing'.p = ing.p
        /\ \/ taken[c] # <<>> /\ taken' = [taken EXCEPT ![c] = Tail(taken[c])]
           \/ taken' = [taken EXCEPT ![c] = <<>>]
    BY <1>11 DEF Shifts, Clears
  <2>2. \A d \in Packets : Sorted(r, taken'[d]) /\ ToSet(taken'[d]) \subseteq ToSet(taken[d])
    BY <1>1, <1>3, <2>1, CellParts
  <2>3. Ordered(r, queue, ing.p, held, taken')
    BY <1>2, <1>3, <2>2, OrderedShrinks
  <2> QED
    BY <2>1, <2>3
<1>12. ASSUME NEW c \in Packets, NEW i \in Indices, Moves(i, c) PROVE Goal
  <2>1. /\ taken' = [taken EXCEPT ![c] = held[c]] /\ held' = [held EXCEPT ![c] = <<>>]
        /\ UNCHANGED queue /\ ing'.p = ing.p
    BY <1>12 DEF Moves
  <2>2. /\ taken'[c] = held[c] /\ held'[c] = <<>>
        /\ \A d \in Packets : d # c => taken'[d] = taken[d] /\ held'[d] = held[d]
    BY <1>1, <2>1
  <2>3. ToSet(held'[c]) = {} /\ Sorted(r, held'[c])
    BY <2>2, ToSetEmpty, SortedEmpty
  <2>4. \A d \in Packets : CellOrdered(r, held'[d], taken'[d])
    BY <1>2, <1>3, <2>2, <2>3 DEF Ordered, CellOrdered
  <2>5. \A d \in Packets : ToSet(held'[d]) \cup ToSet(taken'[d]) \subseteq ToSet(held[d]) \cup ToSet(taken[d])
    BY <2>2, <2>3
  <2>6. Ordered(r, queue, ing.p, held', taken')
    BY <1>2, <2>4, <2>5 DEF Ordered
  <2> QED
    BY <2>1, <2>6
<1> QED
  BY <1>1, <1>4, <1>5, <1>6, <1>7, <1>8, <1>9, <1>10, <1>11, <1>12 DEF GuardMove

LEMMA ReceiptKept ==
    ASSUME CorrInv, Move, ReceiptInv
    PROVE  ReceiptInv'
<1>1. /\ rcvd \in Seq(Packets) /\ wire \in Seq(Packets) /\ UNCHANGED pkey
      /\ ToSet(wire) \subseteq Packets /\ Distinct(wire)
  BY Types, OwnerTypes, OwnerFacts DEF Move, ClockType
<1>2. Distinct(rcvd) /\ \A p \in ToSet(rcvd) : Known(p) /\ p \notin ToSet(wire)
  BY DEF ReceiptInv
<1>3. CASE UNCHANGED rcvd
  <2>1. ToSet(wire') \subseteq ToSet(wire)
    BY GuardsFlow DEF GuardFlow
  <2> QED
    BY <1>1, <1>2, <1>3, <2>1 DEF ReceiptInv, Known, Distinct
<1>4. CASE Receive
  <2>1. /\ wire # <<>> /\ wire' = Tail(wire) /\ rcvd' = Append(rcvd, Head(wire))
        /\ Head(wire) \in Packets /\ Known(Head(wire))
    BY <1>4, ReceiveFacts DEF Receive
  <2>2. /\ ToSet(wire) = ToSet(wire') \cup {Head(wire)} /\ Head(wire) \notin ToSet(wire')
    BY <1>1, <2>1, ToSetTail
  <2>3. Head(wire) \notin ToSet(rcvd)
    BY <1>2, <2>2
  <2>4. Distinct(rcvd') /\ ToSet(rcvd') = ToSet(rcvd) \cup {Head(wire)}
    BY <1>1, <1>2, <2>1, <2>3, ToSetAppend
  <2> QED
    BY <1>1, <1>2, <2>1, <2>2, <2>4 DEF ReceiptInv, Known, Distinct
<1> QED
  BY <1>3, <1>4 DEF Move, FailMove

LEMMA UnarmedKept ==
    ASSUME CorrInv, Move, UnarmedRecord
    PROVE  UnarmedRecord'
<1>1. UNCHANGED <<pkey, ptok>>
  BY DEF Move
<1> SUFFICES ASSUME NEW c \in Packets, cellst'[c] \in {"pending", "cancelling"},
                    conn'[pkey[c]].tok = ptok[c]
             PROVE  conn'[pkey[c]].st = "pending"
  BY <1>1 DEF UnarmedRecord, Unarmed
<1> DEFINE k == pkey[c]
<1>2. CASE ~Inside(c)
  <2>1. RecordIs(c, "pending") /\ UNCHANGED conn
    BY <1>2, CellSteps DEF CellStep, Inside, Unarmed
  <2> QED
    BY <2>1 DEF RecordIs
<1>3. CASE Inside(c)
  <2>1. Unarmed(c)
    BY <1>3, CellSteps DEF CellStep, Inside, Unarmed
  <2>2. k \in Keys /\ ptok[c] \in Packets /\ ptok[c] # None
    BY <1>3, InsideFacts, NoneAssumption
  <2>3. CASE conn'[k] = conn[k]
    BY <2>1, <2>3 DEF UnarmedRecord
  <2>4. conn'[k] # Absent
    BY <2>2 DEF Absent
  <2>5. ASSUME NEW d \in Packets, pkey[d] = k, cellst[d] = "pending",
               cellst'[d] \in {"armed", "proxy", "block"}, conn'[k] = [tok |-> ptok[d], st |-> cellst'[d]]
        PROVE  FALSE
    <3>1. ptok[d] = ptok[c]
      BY <2>5
    <3>2. d = c
      BY <3>1, <2>1, <2>5, OnePending DEF IsPending, Unarmed
    <3> QED
      BY <2>5, <3>2
  <2>6. ASSUME NEW d \in Packets, pkey[d] = k, RecordIs(d, "armed"), conn'[k] = [tok |-> ptok[d], st |-> "direct"]
        PROVE  FALSE
    <3>1. ptok[d] = ptok[c] /\ conn[k].tok = ptok[c] /\ conn[k].st = "armed"
      BY <2>6 DEF RecordIs
    <3> QED
      BY <2>1, <3>1 DEF UnarmedRecord
  <2>7. ConnStep(k)
    BY <2>2, ConnSteps
  <2> HIDE DEF k
  <2>8. CASE conn'[k] # conn[k]
    BY <2>4, <2>5, <2>6, <2>7, <2>8 DEF ConnStep
  <2> QED
    BY <2>3, <2>8
<1> QED
  BY <1>2, <1>3

LEMMA PairKept ==
    ASSUME CorrInv, Move, ArmedPair
    PROVE  ArmedPair'
<1>1. UNCHANGED <<pkey, ptok>>
  BY DEF Move
<1> SUFFICES ASSUME NEW i \in 1..Len(pump'.batch), NEW d \in Packets,
                    pump'.batch[i].res \in ArmedPhases, cellst'[d] = "armed",
                    ptok[pump'.batch[i].cell] = ptok[d]
             PROVE  pump'.batch[i].cell = d
  BY <1>1 DEF ArmedPair, Indices, Entry
<1> DEFINE e == Entry(i).cell
<1>2. /\ i \in Indices /\ pump'.batch[i].cell = e
      /\ Entry(i).res \in ArmedPhases \/ Decides(i, e, "armed")
  BY ArmedOrigin
<1>3. e \in Packets /\ Inside(e) /\ ptok[e] = ptok[d]
  BY <1>2, EntryFacts
<1>4. cellst[d] = "armed" \/ (cellst[d] = "pending" /\ RecordIs(d, "pending"))
  BY CellSteps DEF CellStep
<1>5. CASE Decides(i, e, "armed")
  <2>1. IsPending(e) /\ IsPending(d)
    BY <1>4, <1>5 DEF Decides, IsPending, Unarmed
  <2>2. e = d
    BY <1>3, <2>1, OnePending
  <2> QED
    BY <1>2, <2>2
<1>6. CASE Entry(i).res \in ArmedPhases /\ cellst[d] = "armed"
  BY <1>2, <1>3, <1>6 DEF ArmedPair
<1>7. CASE Entry(i).res \in ArmedPhases /\ RecordIs(d, "pending")
  <2>1. conn[pkey[e]].st = "armed"
    <3>1. RecordArmed(e)
      BY <1>2, <1>7 DEF CorrInv, ArmedEntry
    <3> QED
      BY <3>1 DEF RecordArmed
  <2>2. pkey[d] = pkey[e] /\ conn[pkey[d]].st = "pending"
    BY <1>3, <1>7, SameFlow DEF RecordIs
  <2> QED
    BY <2>1, <2>2
<1> QED
  BY <1>2, <1>4, <1>5, <1>6, <1>7

LEMMA OrderIngress ==
    ASSUME CorrInv, OrderInv, NEW p \in Packets, NEW k \in Keys, KernelIngress(p, k)
    PROVE  OrderInv'
<1>1. /\ UNCHANGED <<rcvd, queue, ing, cellst, held, pump, taken>> /\ wire' = Append(wire, p)
  BY IngressFrame
<1>2. /\ \A q \in Packets : q # p => pkey'[q] = pkey[q] /\ ptok'[q] = ptok[q]
      /\ pkey'[p] = k /\ k # None
  BY IngressStep, NoneAssumption
<1>3. \A c \in Packets : Inside(c) => c # p /\ pkey'[c] = pkey[c] /\ ptok'[c] = ptok[c] /\ pkey[c] \in Keys
  BY <1>2, NewPacket, InsideFacts
<1>4. ReceiptInv'
  <2>1. ToSet(wire') = ToSet(wire) \cup {p} /\ ToSet(rcvd) \subseteq Packets
    BY <1>1, OwnerTypes, Types, ToSetAppend, ToSetRange DEF ClockType
  <2>2. ASSUME NEW q \in ToSet(rcvd) PROVE pkey'[q] # None /\ q \notin ToSet(wire')
    <3>1. Known(q) /\ q \notin ToSet(wire)
      BY DEF OrderInv, ReceiptInv
    <3>2. q # p
      BY <3>1, NewPacket
    <3> QED
      BY <1>2, <2>1, <3>1, <3>2 DEF Known
  <2> QED
    BY <1>1, <2>2 DEF OrderInv, ReceiptInv, Known, Distinct
<1>5. UnarmedRecord'
  <2> SUFFICES ASSUME NEW c \in Packets, Unarmed(c), conn'[pkey'[c]].tok = ptok'[c]
               PROVE  conn'[pkey'[c]].st = "pending"
    BY <1>1 DEF UnarmedRecord, Unarmed
  <2>1. /\ pkey'[c] = pkey[c] /\ ptok'[c] = ptok[c] /\ pkey[c] \in Keys
    BY <1>3 DEF Inside, Unarmed
  <2>2. CASE conn'[pkey[c]] = conn[pkey[c]]
    BY <2>1, <2>2 DEF OrderInv, UnarmedRecord
  <2>3. CASE conn'[pkey[c]] = [tok |-> p, st |-> "pending"]
    BY <2>1, <2>3
  <2> QED
    BY <2>1, <2>2, <2>3, IngressStep
<1>6. ArmedPair'
  <2> SUFFICES ASSUME NEW i \in Indices, NEW d \in Packets, Entry(i).res \in ArmedPhases,
                      cellst[d] = "armed", ptok'[Entry(i).cell] = ptok'[d]
               PROVE  Entry(i).cell = d
    BY <1>1 DEF ArmedPair, Indices, Entry
  <2>1. ptok'[Entry(i).cell] = ptok[Entry(i).cell] /\ ptok'[d] = ptok[d]
    BY <1>3, EntryFacts DEF Inside
  <2> QED
    BY <2>1 DEF OrderInv, ArmedPair
<1> QED
  BY <1>1, <1>4, <1>5, <1>6 DEF OrderInv

LEMMA OrderStutter ==
    ASSUME OrderInv, UNCHANGED vars
    PROVE  OrderInv'
<1>1. UNCHANGED <<conn, rcvd, queue, ing, cellst, held, pkey, ptok, wire, pump, taken>>
  BY DEF vars, kernelVars, packetVars, queueVars, cellVars, pumpVars
<1>2. ReceiptInv' /\ UnarmedRecord' /\ ArmedPair'
  BY <1>1 DEF OrderInv, ReceiptInv, UnarmedRecord, ArmedPair, Known, Distinct, Unarmed, Indices, Entry
<1> QED
  BY <1>1, <1>2 DEF OrderInv

LEMMA OrderInit ==
    ASSUME Init
    PROVE  OrderInv
<1>1. ReceiptInv
  BY ToSetEmpty DEF Init, ReceiptInv, Distinct
<1>2. UnarmedRecord /\ ArmedPair
  BY DEF Init, UnarmedRecord, Unarmed, ArmedPair
<1>3. Ordered(<<>>, <<>>, None, held, taken)
  <2>1. \A c \in Packets : held[c] = <<>> /\ taken[c] = <<>>
    BY DEF Init
  <2>2. \A c \in Packets : CellOrdered(<<>>, held[c], taken[c])
    BY <2>1, ToSetEmpty, SortedEmpty DEF CellOrdered
  <2> QED
    BY <2>1, <2>2, ToSetEmpty, SortedEmpty, NoneAssumption DEF Ordered
<1>4. rcvd = <<>> /\ queue = <<>> /\ ing.p = None
  BY DEF Init, Idle
<1> QED
  BY <1>1, <1>2, <1>3, <1>4 DEF OrderInv

LEMMA OrderStep ==
    ASSUME CorrInv, OrderInv, [Next]_vars
    PROVE  OrderInv'
<1>1. ASSUME Move PROVE OrderInv'
  BY <1>1, OrderKept, ReceiptKept, UnarmedKept, PairKept DEF OrderInv
<1> QED
  BY <1>1, OrderIngress, OrderStutter, NextMoves

-----------------------------------------------------------------------------
(* What the order means for a release *)

\* A packet that a cell still owns has the cell's decision, if any, in the
\* record: pending or armed while it is held or accepted, else proxy or block.
LEMMA OwnedRecord ==
    ASSUME CorrInv, OrderInv, NEW d \in Packets, NEW q \in ToSet(held[d]) \cup ToSet(taken[d]),
           conn[pkey[d]].tok = ptok[d], conn[pkey[d]].st \in {"armed", "direct"}
    PROVE  /\ conn[pkey[d]].st = "armed"
           /\ \/ q \in ToSet(held[d]) /\ cellst[d] = "armed"
              \/ \E i \in Indices : Entry(i).cell = d /\ Entry(i).res = "accept"
<1>1. CASE q \in ToSet(held[d])
  <2>1. IsPending(d)
    BY <1>1, ToSetEmpty DEF CorrInv, CellShape
  <2>2. ~Unarmed(d)
    BY DEF OrderInv, UnarmedRecord
  <2>3. cellst[d] = "armed"
    BY <2>1, <2>2 DEF IsPending
  <2>4. conn[pkey[d]].st = "armed"
    <3>1. RecordArmed(d)
      BY <2>3 DEF CorrInv, ArmedRecord
    <3> QED
      BY <3>1 DEF RecordArmed
  <2> QED
    BY <1>1, <2>3, <2>4
<1>2. CASE q \in ToSet(taken[d])
  <2>1. taken[d] # <<>>
    BY <1>2, ToSetEmpty
  <2>2. PICK i \in Indices : Entry(i).cell = d /\ Entry(i).res \in {"accept", "terminal", "failTerminal"}
    BY <2>1 DEF CorrInv, TakenHasEntry
  <2>3. CASE Entry(i).res = "accept"
    <3>1. conn[pkey[d]].st = "armed"
      <4>1. RecordArmed(d)
        BY <2>2, <2>3 DEF CorrInv, ArmedEntry, ArmedPhases
      <4> QED
        BY <4>1 DEF RecordArmed
    <3> QED
      BY <2>2, <2>3, <3>1
  <2>4. CASE Entry(i).res \in {"terminal", "failTerminal"}
    <3>1. cellst[d] \in {"proxy", "block"}
      <4>1. Entry(i).decision \in Decisions /\ Entry(i).decision # "direct" /\ cellst[d] = Entry(i).decision
        BY <2>2, <2>4, EntryFacts DEF CorrInv, PhaseInv
      <4> QED
        BY <4>1 DEF Decisions
    <3>2. conn[pkey[d]].st = cellst[d]
      BY <3>1 DEF CorrInv, CellAgreesWithRecord
    <3> QED
      BY <3>1, <3>2
  <2> QED
    BY <2>2, <2>3, <2>4
<1> QED
  BY <1>1, <1>2

\* Two cells of an armed token that still own packets are the same cell.
LEMMA OneArmedOwner ==
    ASSUME CorrInv, OrderInv, NEW c \in Packets, NEW d \in Packets, ptok[c] = ptok[d],
           RecordArmed(c), RecordArmed(d), taken[c] # <<>>,
           NEW q \in ToSet(held[d]) \cup ToSet(taken[d])
    PROVE  c = d
<1>1. Head(taken[c]) \in ToSet(taken[c])
  BY OwnerTypes, ToSetTail
<1>2. /\ conn[pkey[c]].tok = ptok[c] /\ conn[pkey[c]].st = "armed"
      /\ conn[pkey[d]].tok = ptok[d] /\ conn[pkey[d]].st = "armed"
  BY DEF RecordArmed
<1>3. Head(taken[c]) \notin ToSet(held[c])
  BY <1>1, OwnerFacts
<1>4. PICK i \in Indices : Entry(i).cell = c /\ Entry(i).res = "accept"
  BY <1>1, <1>2, <1>3, OwnedRecord
<1>5. ASSUME cellst[d] = "armed" PROVE c = d
  BY <1>4, <1>5 DEF OrderInv, ArmedPair, ArmedPhases
<1>6. ASSUME NEW j \in Indices, Entry(j).cell = d, Entry(j).res = "accept" PROVE c = d
  BY <1>4, <1>6 DEF CorrInv, ArmedEntry, ArmedPhases
<1> QED
  BY <1>2, <1>5, <1>6, OwnedRecord

LEMMA AcceptOrderStep ==
    ASSUME CorrInv, OrderInv, [Next]_vars, NEW p \in Packets, Accepts(p),
           NEW q \in Packets, Before(q, p), ptok[q] = ptok[p]
    PROVE  verdict[q] # "none"
<1>1. SUFFICES ASSUME Undecided(q) PROVE FALSE
  BY DEF Undecided
<1>2. verdict' # verdict /\ verdict'[p] = "accept" /\ verdict[p] = "none"
  BY DEF Accepts
<1>3. ~ UNCHANGED vars /\ \A x \in Packets, k \in Keys : ~KernelIngress(x, k)
  BY <1>2, IngressFrame DEF vars
<1>4. Releases(p)
  <2>1. VerdictMove
    BY <1>3, NextMoves DEF Move
  <2> QED
    BY <1>2, <2>1 DEF VerdictMove
<1>5. conn[pkey[p]].tok = ptok[p] /\ conn[pkey[p]].st \in {"armed", "direct"}
  BY AcceptStep
<1>6. Precedes(rcvd, q, p) /\ rcvd \in Seq(Packets) /\ Distinct(rcvd)
  BY Types DEF Before, Precedes, ClockType, OrderInv, ReceiptInv
<1>7. ~Precedes(rcvd, p, q) /\ p # q
  BY <1>6, PrecedesIsStrict
<1>8. Ordered(rcvd, queue, ing.p, held, taken)
  BY DEF OrderInv
<1>9. q \in ToSet(rcvd) /\ p \in ToSet(rcvd)
  BY <1>6, ToSetRange DEF Precedes
<1>10. Known(q) /\ q \notin ToSet(wire) /\ Known(p)
  BY <1>9 DEF OrderInv, ReceiptInv
<1>11. pkey[q] = pkey[p]
  BY <1>10, KnownFacts
\* A cell that owns q has the record, which then is armed.
<1>12. ASSUME NEW d \in Packets, q \in ToSet(held[d]) \cup ToSet(taken[d])
       PROVE  ptok[d] = ptok[p] /\ pkey[d] = pkey[p] /\ conn[pkey[p]].st = "armed" /\ RecordArmed(d)
  <2>1. ptok[d] = ptok[p] /\ Inside(d)
    <3>1. ptok[q] = ptok[d]
      BY <1>12, OwnerFacts
    <3>2. held[d] # <<>> \/ taken[d] # <<>>
      BY <1>12, ToSetEmpty
    <3>3. Inside(d)
      BY <3>2 DEF CorrInv, CellShape, Inside, IsPending, Unarmed
    <3> QED
      BY <3>1, <3>3
  <2>2. pkey[d] = pkey[p]
    BY <2>1, SameFlow
  <2>3. conn[pkey[d]].st = "armed"
    BY <1>5, <1>12, <2>1, <2>2, OwnedRecord
  <2>4. pkey[d] \in Keys /\ RecordType
    BY <2>1, InsideFacts, Types
  <2>5. conn[pkey[d]] = [tok |-> ptok[d], st |-> "armed"]
    BY <1>5, <2>1, <2>2, <2>3, <2>4 DEF RecordType
  <2> QED
    BY <2>1, <2>2, <2>3, <2>5 DEF RecordArmed
<1>13. \/ q \in ToSet(queue) \/ ing.p = q
       \/ \E d \in Packets : q \in ToSet(held[d]) \cup ToSet(taken[d])
  BY <1>1, <1>10, OwnerFacts
<1>14. CASE ing.p = p
  <2>1. q \notin ToSet(queue) /\ ing.p # q
    BY <1>7, <1>8, <1>14 DEF Ordered
  <2>2. conn[pkey[p]].st = "direct"
    <3>1. ~RecordArmed(p) \/ ~\E c \in Packets : taken[c] # <<>> /\ Head(taken[c]) = p
      <4>1. ASSUME NEW c \in Packets, taken[c] # <<>>, Head(taken[c]) = p PROVE FALSE
        <5>1. p \in ToSet(taken[c])
          BY <4>1, OwnerTypes, ToSetTail
        <5> QED
          BY <1>14, <5>1, OwnerFacts
      <4> QED
        BY <4>1
    <3>2. CASE RecordIs(p, "direct")
      BY <3>2 DEF RecordIs
    <3>3. ASSUME NEW c \in Packets, cellst[c] = "direct", ptok[c] = ptok[p]
          PROVE  conn[pkey[p]].st = "direct"
      <4>1. pkey[p] = pkey[c]
        BY <3>3, SameFlow DEF Inside
      <4> QED
        BY <1>5, <3>3, <4>1 DEF CorrInv, CellAgreesWithRecord
    <3> QED
      BY <1>4, <3>1, <3>2, <3>3 DEF Releases
  <2> QED
    BY <1>12, <1>13, <2>1, <2>2
<1>15. ASSUME RecordArmed(p), NEW c \in Packets, taken[c] # <<>>, Head(taken[c]) = p PROVE FALSE
  <2>1. taken[c] \in Seq(Packets) /\ p \in ToSet(taken[c]) /\ ToSet(taken[c]) = ToSet(Tail(taken[c])) \cup {p}
    BY <1>15, OwnerTypes, ToSetTail
  <2>2. \A x \in ToSet(Tail(taken[c])) : Precedes(rcvd, p, x)
    BY <1>8, <1>15, <2>1, SortedTail DEF Ordered, CellOrdered
  <2>3. q \notin ToSet(taken[c]) /\ q \notin ToSet(held[c])
    BY <1>7, <1>8, <2>1, <2>2 DEF Ordered, CellOrdered
  <2>4. q \notin ToSet(queue) /\ ing.p # q
    BY <1>7, <1>8, <2>1 DEF Ordered
  <2>5. PICK d \in Packets : q \in ToSet(held[d]) \cup ToSet(taken[d])
    BY <1>13, <2>4
  <2>6. ptok[c] = ptok[p] /\ pkey[c] = pkey[p]
    <3>1. ptok[p] = ptok[c] /\ Inside(c)
      BY <1>15, <2>1, OwnerFacts DEF CorrInv, CellShape
    <3> QED
      BY <3>1, SameFlow
  <2>7. RecordArmed(c)
    BY <1>15, <2>6 DEF RecordArmed
  <2>8. c = d
    BY <1>12, <1>15, <2>5, <2>6, <2>7, OneArmedOwner
  <2> QED
    BY <2>3, <2>5, <2>8
<1> QED
  BY <1>4, <1>14, <1>15 DEF Releases

(* Direct releases originals in order of receipt: when one is accepted, no  *)
(* packet of its token that was received earlier is still undecided,        *)
(* wherever it is: in the channel, at the ingest actor, held or taken.      *)
THEOREM AcceptsInOrder == Spec => AcceptInOrder
<1>1. Init => OrderInv
  BY OrderInit
<1>2. CorrInv /\ OrderInv /\ [Next]_vars => OrderInv'
  BY OrderStep
<1>3. CorrInv /\ OrderInv /\ [Next]_vars =>
        [\A p \in Packets : Accepts(p) =>
           \A q \in Packets : Before(q, p) /\ ptok[q] = ptok[p] => verdict[q] # "none"]_vars
  BY AcceptOrderStep
<1> QED
  BY <1>1, <1>2, <1>3, Invariant, PTL DEF Spec, AcceptInOrder
=============================================================================
