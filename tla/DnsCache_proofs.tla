--------------------------- MODULE DnsCache_proofs ---------------------------
(***************************************************************************)
(* Proofs about DnsCache for every set of keys and queries and every bound.*)
(***************************************************************************)
EXTENDS DnsCache, TLAPS

-----------------------------------------------------------------------------
(* Part 1: type correctness.                                               *)

(* What the operations on one slot, row, outcome or flight return.         *)
LEMMA EmptyType == Empty \in Slots
BY DEF Empty, Slot, Slots, Answers

LEMMA NoRowType == NoRow \in Rows
BY DEF NoRow, Rows, Answers

LEMMA NoOutcomeType == NoOutcome \in Outcomes
BY DEF NoOutcome, Outcomes, Answers

LEMMA OutcomeType ==
    ASSUME NEW a \in Answers, NEW b \in BOOLEAN, NEW n \in Nat
    PROVE  Outcome(a, b, n) \in Outcomes
BY DEF Outcome, Outcomes

LEMMA SlotOps ==
    ASSUME NEW s \in Slots
    PROVE  /\ DropPositive(s) \in Slots /\ DropNegative(s) \in Slots
           /\ Swept(s) \in Slots /\ Aged(s) \in Slots /\ NegativeAged(s) \in Slots
<1>1. \A t \in Slots : DropPositive(t) \in Slots /\ DropNegative(t) \in Slots
  BY EmptyType DEF DropPositive, DropNegative, Slot, Slots, Answers
<1>2. Swept(s) \in Slots
  BY <1>1 DEF Swept
<1>3. Aged(s) \in Slots /\ NegativeAged(s) \in Slots
  BY DEF Aged, NegativeAged, Slot, Slots
<1> QED
  BY <1>1, <1>2, <1>3

LEMMA PositiveType ==
    ASSUME NEW a \in Answers, NEW b \in BOOLEAN, NEW r \in Nat
    PROVE  Positive(a, b, r) \in Slots
BY DEF Positive, Slot, Slots, Answers

LEMMA MergedType ==
    ASSUME revision \in Nat, NEW s \in Slots, NEW q \in Queries
    PROVE  Merged(s, q) \in Slots
BY DEF Merged, Slot, Slots, Answers

LEMMA FlightKeyType ==
    ASSUME NEW q \in Queries, ctx \in [Queries -> Contexts]
    PROVE  Flight(q) \in Keys \X {"strict", "compat", "refresh"}
BY DEF Flight, Contexts

(* The channel: what is left of it, and what its head is.                  *)
LEMMA TailType ==
    ASSUME commands \in Seq(Commands), commands # <<>>
    PROVE  Tail(commands) \in Seq(Commands) /\ Head(commands) \in Commands
OBVIOUS

LEMMA HeadPut ==
    ASSUME commands \in Seq(Commands), commands # <<>>, Head(commands).t = "put"
    PROVE  Head(commands) \in Puts
BY TailType DEF Commands, Barriers

LEMMA HeadBarrier ==
    ASSUME commands \in Seq(Commands), commands # <<>>,
           Head(commands).t \in {"flush", "invalidate"}
    PROVE  /\ Head(commands) \in Barriers /\ Head(commands).epoch \in Nat
           /\ Head(commands).keys \in SUBSET Keys
BY TailType DEF Commands, Puts, Barriers

LEMMA DiscardType ==
    ASSUME pending \in [Keys -> Rows], NEW e
    PROVE  DiscardBefore(e) \in [Keys -> Rows]
BY NoRowType DEF DiscardBefore

LEMMA WriteType ==
    ASSUME TypeOK, NEW rows \in [Keys -> Rows], NEW e, WriteActive(rows, e)
    PROVE  pending' \in [Keys -> Rows] /\ db' \in [Keys -> Answers] /\ faults' \in Nat
<1> DEFINE batch == {k \in Keys : rows[k].ans # None /\ rows[k].epoch = e}
           left == [k \in Keys |-> IF k \in batch THEN NoRow ELSE rows[k]]
           wrote == [k \in Keys |-> IF k \in batch THEN rows[k].ans ELSE db[k]]
<1>1. left \in [Keys -> Rows]
  BY NoRowType
<1>2. \A k \in Keys : rows[k].ans \in Answers /\ db[k] \in Answers
  BY DEF TypeOK, Rows
<1>3. wrote \in [Keys -> Answers]
  BY <1>2
<1>4. /\ pending' = left \/ pending' = rows
      /\ db' = wrote \/ db' = db
      /\ faults' = faults \/ faults' = faults + 1
  BY DEF WriteActive
<1> QED
  BY <1>1, <1>3, <1>4 DEF TypeOK

(* Every action keeps the types of what it writes.                         *)
LEMMA TypeStart ==
    ASSUME TypeOK, NEW q \in Queries, NEW k \in Keys, NEW m \in Modes, Start(q, k, m)
    PROVE  TypeOK'
<1>1. pc' \in [Queries -> PcStates]
  BY DEF TypeOK, Start, PcStates, LeaderStates
<1>2. ctx' \in [Queries -> Contexts]
  BY ModesAssumption DEF TypeOK, Start, Context, Contexts
<1> QED
  BY <1>1, <1>2 DEF TypeOK, Start,
         cacheVars, fenceVars, queryVars, chanVars, actorVars, invVars, lifeVars

LEMMA TypeLookup ==
    ASSUME TypeOK, NEW q \in Queries, Lookup(q)
    PROVE  TypeOK'
<1>1. slot[ctx[q].key] \in Slots
  BY DEF TypeOK, Contexts
<1>2. \/ UNCHANGED out
      \/ \E a \in Answers, b \in BOOLEAN, n \in Nat : out' = [out EXCEPT ![q] = Outcome(a, b, n)]
  BY <1>1 DEF Lookup, Slots
<1>3. slot' \in [Keys -> Slots]
  BY <1>1, SlotOps DEF TypeOK, Lookup
<1>4. pc' \in [Queries -> PcStates]
  BY DEF TypeOK, Lookup, Then, PcStates, LeaderStates
<1>5. out' \in [Queries -> Outcomes]
  BY <1>2, OutcomeType DEF TypeOK
<1> QED
  BY <1>3, <1>4, <1>5 DEF TypeOK, Lookup,
         cacheVars, fenceVars, queryVars, chanVars, actorVars, invVars, lifeVars

LEMMA TypeSpawnRefresh ==
    ASSUME TypeOK, NEW q \in Queries, NEW r \in Queries, SpawnRefresh(q, r)
    PROVE  TypeOK'
<1>1. flights' \subseteq Keys \X {"strict", "compat", "refresh"}
  BY DEF TypeOK, SpawnRefresh, Contexts
<1>2. pc' \in [Queries -> PcStates]
  BY DEF TypeOK, SpawnRefresh, AfterServe, PcStates, LeaderStates
<1>3. ctx' \in [Queries -> Contexts]
  BY DEF TypeOK, SpawnRefresh, Context, Contexts, Outcomes
<1>4. out' \in [Queries -> Outcomes]
  BY DEF TypeOK, SpawnRefresh
<1> QED
  BY <1>1, <1>2, <1>3, <1>4 DEF TypeOK, SpawnRefresh,
         cacheVars, fenceVars, queryVars, chanVars, actorVars, invVars, lifeVars

LEMMA TypeServeHit ==
    ASSUME TypeOK, NEW q \in Queries, ServeHit(q)
    PROVE  TypeOK'
<1>1. pc' \in [Queries -> PcStates]
  BY DEF TypeOK, ServeHit, AfterServe, PcStates, LeaderStates
<1> QED
  BY <1>1 DEF TypeOK, ServeHit,
         cacheVars, fenceVars, queryVars, chanVars, actorVars, invVars, lifeVars

LEMMA TypeAcquire ==
    ASSUME TypeOK, NEW q \in Queries, Acquire(q)
    PROVE  TypeOK'
<1>1. pc' \in [Queries -> PcStates]
  BY DEF TypeOK, Acquire, PcStates, LeaderStates
<1>2. flights' \subseteq Keys \X {"strict", "compat", "refresh"}
  BY FlightKeyType DEF TypeOK, Acquire
<1> QED
  BY <1>1, <1>2 DEF TypeOK, Acquire,
         cacheVars, fenceVars, queryVars, chanVars, actorVars, invVars, lifeVars

LEMMA TypeStorePositive ==
    ASSUME TypeOK, NEW q \in Queries, StorePositive(q)
    PROVE  TypeOK'
<1>1. Positive(q, TRUE, revision) \in Slots
  BY PositiveType DEF TypeOK, Answers
<1>2. \/ slot' = slot /\ revision' = revision /\ chanVars' = chanVars
      \/ /\ \E ev \in SUBSET Keys : slot' = Inserted(ctx[q].key, Positive(q, TRUE, revision), ev)
         /\ revision' = revision + 1 /\ Save(ctx[q].key, q)
  BY DEF StorePositive, cacheVars
<1>3. ctx[q].key \in Keys
  BY DEF TypeOK, Contexts
<1>4. \A c : c \in Puts => Append(commands, c) \in Seq(Commands)
  BY DEF TypeOK, Commands
<1>5. [t |-> "put", epoch |-> pepoch, key |-> ctx[q].key, ans |-> q] \in Puts
  BY <1>3 DEF TypeOK, Puts
<1>6. slot' \in [Keys -> Slots]
  BY <1>1, <1>2, EmptyType DEF TypeOK, Inserted
<1>7. revision' \in Nat
  <2>1. revision \in Nat
    BY DEF TypeOK
  <2>2. revision' = revision \/ revision' = revision + 1
    BY <1>2
  <2> QED
    BY <2>1, <2>2
<1>8. pc' \in [Queries -> PcStates]
  BY DEF TypeOK, StorePositive, PcStates, LeaderStates
<1>9. out' \in [Queries -> Outcomes]
  BY DEF TypeOK, StorePositive, Outcome, Outcomes, Answers
<1>10. commands' \in Seq(Commands)
  BY <1>2, <1>4, <1>5 DEF TypeOK, Save, chanVars
<1>11. pepoch' \in Nat
  BY <1>2 DEF TypeOK, Save, chanVars
<1> QED
  BY <1>6, <1>7, <1>8, <1>9, <1>10, <1>11 DEF TypeOK, StorePositive,
         cacheVars, fenceVars, queryVars, chanVars, actorVars, invVars, lifeVars

LEMMA TypeStoreNegative ==
    ASSUME TypeOK, NEW q \in Queries, StoreNegative(q)
    PROVE  TypeOK'
<1>1. slot[ctx[q].key] \in Slots
  BY DEF TypeOK, Contexts
<1>2. \/ slot' = slot /\ revision' = revision
      \/ /\ \E ev \in SUBSET Keys, s \in Slots : slot' = Inserted(ctx[q].key, Merged(s, q), ev)
         /\ revision' = revision + 1
  BY <1>1, SlotOps DEF StoreNegative, cacheVars
<1>3. \A s \in Slots : Merged(s, q) \in Slots
  BY MergedType DEF TypeOK
<1>4. slot' \in [Keys -> Slots]
  BY <1>2, <1>3, EmptyType DEF TypeOK, Inserted
<1>5. revision' \in Nat
  <2>1. revision \in Nat
    BY DEF TypeOK
  <2>2. revision' = revision \/ revision' = revision + 1
    BY <1>2
  <2> QED
    BY <2>1, <2>2
<1>6. pc' \in [Queries -> PcStates]
  BY DEF TypeOK, StoreNegative, PcStates, LeaderStates
<1>7. out' \in [Queries -> Outcomes]
  BY DEF TypeOK, StoreNegative, Outcome, Outcomes, Answers
<1> QED
  BY <1>4, <1>5, <1>6, <1>7 DEF TypeOK, StoreNegative,
         cacheVars, fenceVars, queryVars, chanVars, actorVars, invVars, lifeVars

LEMMA TypeSupersede ==
    ASSUME TypeOK, NEW q \in Queries, Supersede(q)
    PROVE  TypeOK'
<1>1. slot' \in [Keys -> Slots]
  BY EmptyType DEF TypeOK, Supersede, cacheVars
<1>2. revision' \in Nat
  BY DEF TypeOK, Supersede, cacheVars
<1>3. pc' \in [Queries -> PcStates]
  BY DEF TypeOK, Supersede, PcStates, LeaderStates
<1>4. out' \in [Queries -> Outcomes]
  BY DEF TypeOK, Supersede, Outcome, Outcomes, Answers
<1> QED
  BY <1>1, <1>2, <1>3, <1>4 DEF TypeOK, Supersede,
         cacheVars, fenceVars, queryVars, chanVars, actorVars, invVars, lifeVars

LEMMA TypeUnstored ==
    ASSUME TypeOK, NEW q \in Queries, NEW b \in BOOLEAN, Unstored(q, b)
    PROVE  TypeOK'
<1>1. pc' \in [Queries -> PcStates]
  BY DEF TypeOK, Unstored, PcStates, LeaderStates
<1>2. out' \in [Queries -> Outcomes]
  BY DEF TypeOK, Unstored, Outcome, Outcomes, Answers
<1> QED
  BY <1>1, <1>2 DEF TypeOK, Unstored,
         cacheVars, fenceVars, queryVars, chanVars, actorVars, invVars, lifeVars

LEMMA TypeServeStale ==
    ASSUME TypeOK, NEW q \in Queries, ServeStale(q)
    PROVE  TypeOK'
<1>1. slot[ctx[q].key] \in Slots
  BY DEF TypeOK, Contexts
<1>2. \E a \in Answers, b \in BOOLEAN, n \in Nat : out' = [out EXCEPT ![q] = Outcome(a, b, n)]
  BY <1>1 DEF ServeStale, Slots
<1>3. pc' \in [Queries -> PcStates]
  BY DEF TypeOK, ServeStale, PcStates, LeaderStates
<1>4. out' \in [Queries -> Outcomes]
  BY <1>2, OutcomeType DEF TypeOK
<1> QED
  BY <1>3, <1>4 DEF TypeOK, ServeStale,
         cacheVars, fenceVars, queryVars, chanVars, actorVars, invVars, lifeVars

LEMMA TypeNoStale ==
    ASSUME TypeOK, NEW q \in Queries, NoStale(q)
    PROVE  TypeOK'
<1>1. pc' \in [Queries -> PcStates]
  BY DEF TypeOK, NoStale, PcStates, LeaderStates
<1> QED
  BY <1>1 DEF TypeOK, NoStale,
         cacheVars, fenceVars, queryVars, chanVars, actorVars, invVars, lifeVars

LEMMA TypePublish ==
    ASSUME TypeOK, NEW q \in Queries, Publish(q)
    PROVE  TypeOK'
<1>1. flights' \subseteq Keys \X {"strict", "compat", "refresh"}
  BY DEF TypeOK, Publish
<1>2. pc' \in [Queries -> PcStates]
  BY DEF TypeOK, Publish, PcStates, LeaderStates
<1>3. out' \in [Queries -> Outcomes]
  BY DEF TypeOK, Publish
<1> QED
  BY <1>1, <1>2, <1>3 DEF TypeOK, Publish,
         cacheVars, fenceVars, queryVars, chanVars, actorVars, invVars, lifeVars

LEMMA TypeReleased ==
    ASSUME TypeOK, NEW q \in Queries, NEW o \in Outcomes, Released(q, o)
    PROVE  TypeOK'
<1>1. flights' \subseteq Keys \X {"strict", "compat", "refresh"}
  BY DEF TypeOK, Released
<1>2. pc' \in [Queries -> PcStates]
  BY DEF TypeOK, Released, PcStates, LeaderStates
<1>3. out' \in [Queries -> Outcomes]
  BY DEF TypeOK, Released
<1> QED
  BY <1>1, <1>2, <1>3 DEF TypeOK, Released,
         cacheVars, fenceVars, queryVars, chanVars, actorVars, invVars, lifeVars

LEMMA TypeFail ==
    ASSUME TypeOK, NEW q \in Queries, Fail(q)
    PROVE  TypeOK'
<1>1. flights' \subseteq Keys \X {"strict", "compat", "refresh"}
  BY DEF TypeOK, Fail
<1>2. pc' \in [Queries -> PcStates]
  BY DEF TypeOK, Fail, PcStates, LeaderStates
<1>3. out' \in [Queries -> Outcomes]
  BY NoOutcomeType DEF TypeOK, Fail
<1> QED
  BY <1>1, <1>2, <1>3 DEF TypeOK, Fail,
         cacheVars, fenceVars, queryVars, chanVars, actorVars, invVars, lifeVars

LEMMA TypeAgePositive ==
    ASSUME TypeOK, NEW k \in Keys, AgePositive(k)
    PROVE  TypeOK'
<1>1. slot' \in [Keys -> Slots]
  BY SlotOps DEF TypeOK, AgePositive
<1> QED
  BY <1>1 DEF TypeOK, AgePositive,
         cacheVars, fenceVars, queryVars, chanVars, actorVars, invVars, lifeVars

LEMMA TypeAgeNegative ==
    ASSUME TypeOK, NEW k \in Keys, AgeNegative(k)
    PROVE  TypeOK'
<1>1. slot' \in [Keys -> Slots]
  BY SlotOps DEF TypeOK, AgeNegative
<1> QED
  BY <1>1 DEF TypeOK, AgeNegative,
         cacheVars, fenceVars, queryVars, chanVars, actorVars, invVars, lifeVars

LEMMA TypeReserve ==
    ASSUME TypeOK, Reserve
    PROVE  TypeOK'
<1>1. inv' \in Invalidations
  BY DEF TypeOK, Reserve, Invalidation, Invalidations
<1>2. ninv' \in Nat /\ restarts' \in Nat /\ faults' \in Nat
  BY DEF TypeOK, Reserve, lifeVars
<1> QED
  BY <1>1, <1>2 DEF TypeOK, Reserve,
         cacheVars, fenceVars, queryVars, chanVars, actorVars, invVars, lifeVars

LEMMA TypeRaiseFence ==
    ASSUME TypeOK, NEW t \in {"flush", "invalidate"}, NEW ks \in SUBSET Keys, RaiseFence(t, ks)
    PROVE  TypeOK'
<1>1. slot' \in [Keys -> Slots]
  BY EmptyType DEF TypeOK, RaiseFence
<1>2. epoch' \in Nat /\ accepting' \in BOOLEAN
  <2>1. epoch \in Nat
    BY DEF TypeOK
  <2>2. epoch' = epoch + 1 /\ accepting' = FALSE
    BY DEF RaiseFence
  <2>3. epoch' \in Nat
    BY <2>1, <2>2
  <2>4. accepting' \in BOOLEAN
    BY <2>2
  <2> QED
    BY <2>3, <2>4
<1>3. commands' \in Seq(Commands)
  BY SMTT(30) DEF TypeOK, RaiseFence, Barrier, Commands, Barriers
<1>4. pepoch' \in Nat
  BY DEF TypeOK, RaiseFence
<1>5. inv' \in Invalidations
  BY DEF TypeOK, RaiseFence, Invalidation, Invalidations, Doomed
<1>6. dropped' \subseteq Queries /\ erased' \subseteq Queries
  BY DEF TypeOK, RaiseFence, Doomed
<1> QED
  BY <1>1, <1>2, <1>3, <1>4, <1>5, <1>6 DEF TypeOK, RaiseFence,
         cacheVars, fenceVars, queryVars, chanVars, actorVars, invVars, lifeVars

LEMMA TypeLowerFence ==
    ASSUME TypeOK, LowerFence, erased' \subseteq Queries
    PROVE  TypeOK'
<1>1. epoch' \in Nat /\ accepting' \in BOOLEAN
  BY DEF TypeOK, LowerFence
<1>2. inv' \in Invalidations
  BY DEF TypeOK, LowerFence, NoInvalidation, Invalidation, Invalidations
<1>3. dropped' \subseteq Queries /\ erased' \subseteq Queries
  BY DEF TypeOK, LowerFence
<1> QED
  BY <1>1, <1>2, <1>3 DEF TypeOK, LowerFence,
         cacheVars, fenceVars, queryVars, chanVars, actorVars, invVars, lifeVars

LEMMA TypeTick ==
    ASSUME TypeOK, Tick
    PROVE  TypeOK'
<1>1. pending' \in [Keys -> Rows]
  BY WriteType DEF TypeOK, Tick
<1>2. db' \in [Keys -> Answers]
  BY WriteType DEF TypeOK, Tick
<1>3. ninv' \in Nat /\ restarts' \in Nat /\ faults' \in Nat
  BY WriteType DEF TypeOK, Tick, invVars
<1> QED
  BY <1>1, <1>2, <1>3 DEF TypeOK, Tick,
         cacheVars, fenceVars, queryVars, chanVars, actorVars, invVars, lifeVars

LEMMA TypeReceivePut ==
    ASSUME TypeOK, ReceivePut
    PROVE  TypeOK'
<1>1. Head(commands) \in Puts
  BY HeadPut DEF TypeOK, ReceivePut, Receive
<1>2. Row(Head(commands).ans, Head(commands).epoch) \in Rows
  BY <1>1 DEF Row, Rows, Puts, Answers
<1>3. \/ pending' = pending
      \/ pending' = [pending EXCEPT ![Head(commands).key] = Row(Head(commands).ans, Head(commands).epoch)]
  BY DEF ReceivePut
<1>4. commands' \in Seq(Commands)
  BY TailType DEF TypeOK, ReceivePut, Receive
<1>5. pending' \in [Keys -> Rows]
  BY <1>2, <1>3 DEF TypeOK
<1> QED
  BY <1>4, <1>5 DEF TypeOK, ReceivePut,
         cacheVars, fenceVars, queryVars, chanVars, actorVars, invVars, lifeVars

LEMMA TypeReceiveFlush ==
    ASSUME TypeOK, ReceiveFlush
    PROVE  TypeOK'
<1>1. commands' \in Seq(Commands)
  BY TailType DEF TypeOK, ReceiveFlush, Receive
<1>2. worker' \in Workers
  BY HeadBarrier DEF TypeOK, ReceiveFlush, Receive, Working, Workers
<1>3. pending' \in [Keys -> Rows]
  BY DiscardType DEF TypeOK, ReceiveFlush
<1>4. db' \in [Keys -> Answers]
  BY DEF TypeOK, ReceiveFlush, Answers
<1>5. inv' \in Invalidations
  BY DEF TypeOK, ReceiveFlush, Acked, Invalidation, Invalidations
<1>6. ninv' \in Nat /\ restarts' \in Nat /\ faults' \in Nat
  BY DEF TypeOK, ReceiveFlush
<1> QED
  BY <1>1, <1>2, <1>3, <1>4, <1>5, <1>6 DEF TypeOK, ReceiveFlush,
         cacheVars, fenceVars, queryVars, chanVars, actorVars, invVars, lifeVars

LEMMA TypeReceiveInvalidate ==
    ASSUME TypeOK, ReceiveInvalidate
    PROVE  TypeOK'
<1>1. commands' \in Seq(Commands)
  BY TailType DEF TypeOK, ReceiveInvalidate, Receive
<1>2. worker' \in Workers
  BY HeadBarrier DEF TypeOK, ReceiveInvalidate, Receive, Working, Workers
<1>3. pending' \in [Keys -> Rows]
  BY HeadBarrier, NoRowType DEF TypeOK, ReceiveInvalidate, Receive, Survivors, Row, Rows
<1>4. db' \in [Keys -> Answers]
  BY DEF TypeOK, ReceiveInvalidate, Answers
<1>5. inv' \in Invalidations
  BY DEF TypeOK, ReceiveInvalidate, Acked, Invalidation, Invalidations
<1>6. ninv' \in Nat /\ restarts' \in Nat /\ faults' \in Nat
  BY DEF TypeOK, ReceiveInvalidate
<1> QED
  BY <1>1, <1>2, <1>3, <1>4, <1>5, <1>6 DEF TypeOK, ReceiveInvalidate,
         cacheVars, fenceVars, queryVars, chanVars, actorVars, invVars, lifeVars

LEMMA TypeShutdown ==
    ASSUME TypeOK, Shutdown
    PROVE  TypeOK'
<1>1. commands' \in Seq(Commands)
  BY DEF TypeOK, Shutdown, Commands
<1> QED
  BY <1>1 DEF TypeOK, Shutdown,
         cacheVars, fenceVars, queryVars, chanVars, actorVars, invVars, lifeVars

LEMMA TypeReceiveShutdown ==
    ASSUME TypeOK, ReceiveShutdown
    PROVE  TypeOK'
<1>1. PICK e \in Nat : /\ worker' = Working("stopped", e, {})
                       /\ WriteActive(DiscardBefore(e), e)
  BY DEF TypeOK, ReceiveShutdown, Workers, Rows
<1>2. pending' \in [Keys -> Rows] /\ db' \in [Keys -> Answers] /\ faults' \in Nat
  BY <1>1, DiscardType, WriteType DEF TypeOK
<1>3. worker' \in Workers
  BY <1>1 DEF Working, Workers
<1>4. commands' \in Seq(Commands)
  BY DEF ReceiveShutdown
<1> QED
  BY <1>2, <1>3, <1>4 DEF TypeOK, ReceiveShutdown,
         cacheVars, fenceVars, queryVars, chanVars, actorVars, invVars, lifeVars

LEMMA TypeRestart ==
    ASSUME TypeOK, Restart
    PROVE  TypeOK'
<1>1. slot' \in [Keys -> Slots]
  BY EmptyType DEF TypeOK, Restart
<1>2. revision' \in Nat
  BY DEF TypeOK, Restart
<1>3. epoch' \in Nat /\ accepting' \in BOOLEAN
  BY DEF TypeOK, Restart
<1>4. flights' \subseteq Keys \X {"strict", "compat", "refresh"}
  BY DEF TypeOK, Restart
<1>5. pc' \in [Queries -> PcStates]
  BY DEF TypeOK, Restart, PcStates, LeaderStates
<1>6. out' \in [Queries -> Outcomes]
  BY NoOutcomeType DEF TypeOK, Restart
<1>7. commands' \in Seq(Commands)
  BY DEF TypeOK, Restart
<1>8. pepoch' \in Nat
  BY DEF TypeOK, Restart
<1>9. worker' \in Workers
  BY DEF TypeOK, Restart, Working, Workers
<1>10. pending' \in [Keys -> Rows]
  BY NoRowType DEF TypeOK, Restart
<1>11. inv' \in Invalidations
  BY DEF TypeOK, Restart, NoInvalidation, Invalidation, Invalidations
<1>12. ninv' \in Nat /\ restarts' \in Nat /\ faults' \in Nat
  BY DEF TypeOK, Restart
<1>13. dropped' \subseteq Queries /\ erased' \subseteq Queries
  BY DEF TypeOK, Restart
<1> QED
  BY <1>1, <1>2, <1>3, <1>4, <1>5, <1>6, <1>7, <1>8, <1>9, <1>10, <1>11, <1>12, <1>13 DEF TypeOK, Restart,
         cacheVars, fenceVars, queryVars, chanVars, actorVars, invVars, lifeVars

LEMMA TypeRestoreRow ==
    ASSUME TypeOK, NEW k \in Keys, RestoreRow(k)
    PROVE  TypeOK'
<1>1. Positive(db[k], FALSE, revision) \in Slots
  BY PositiveType DEF TypeOK
<1>2. \/ slot' = slot /\ revision' = revision
      \/ /\ \E ev \in SUBSET Keys : slot' = Inserted(k, Positive(db[k], FALSE, revision), ev)
         /\ revision' = revision + 1
  BY DEF RestoreRow, cacheVars
<1>3. slot' \in [Keys -> Slots]
  BY <1>1, <1>2, EmptyType DEF TypeOK, Inserted
<1>4. revision' \in Nat
  <2>1. revision \in Nat
    BY DEF TypeOK
  <2>2. revision' = revision \/ revision' = revision + 1
    BY <1>2
  <2> QED
    BY <2>1, <2>2
<1>5. worker' \in Workers
  BY DEF TypeOK, RestoreRow, Working, Workers
<1> QED
  BY <1>3, <1>4, <1>5 DEF TypeOK, RestoreRow,
         cacheVars, fenceVars, queryVars, chanVars, actorVars, invVars, lifeVars

LEMMA TypeInstallPersister ==
    ASSUME TypeOK, InstallPersister
    PROVE  TypeOK'
<1>1. worker' \in Workers
  BY DEF TypeOK, InstallPersister, Working, Workers
<1> QED
  BY <1>1 DEF TypeOK, InstallPersister,
         cacheVars, fenceVars, queryVars, chanVars, actorVars, invVars, lifeVars

LEMMA TypeInit == Init => TypeOK
<1> SUFFICES ASSUME Init PROVE TypeOK
  OBVIOUS
<1>1. slot \in [Keys -> Slots] /\ pending \in [Keys -> Rows] /\ out \in [Queries -> Outcomes]
  BY EmptyType, NoRowType, NoOutcomeType DEF Init
<1>2. pc \in [Queries -> PcStates] /\ ctx \in [Queries -> Contexts]
  BY DEF Init, PcStates, Contexts, NoContext, Context
<1>3. worker \in Workers /\ inv \in Invalidations
  BY DEF Init, Working, Workers, NoInvalidation, Invalidation, Invalidations
<1>4. commands \in Seq(Commands) /\ db \in [Keys -> Answers]
  BY DEF Init, Answers
<1>5. accepting \in BOOLEAN
  BY DEF Init
<1> QED
  BY <1>1, <1>2, <1>3, <1>4, <1>5 DEF Init, TypeOK

LEMMA TypeResolve ==
    ASSUME TypeOK, NEW q \in Queries, Resolve(q)
    PROVE  TypeOK'
<1>1. CASE \E k \in Keys, m \in Modes : Start(q, k, m)
  BY <1>1, TypeStart
<1>2. CASE Lookup(q) \/ ServeHit(q) \/ Acquire(q) \/ Publish(q) \/ Fail(q)
  BY <1>2, TypeLookup, TypeServeHit, TypeAcquire, TypePublish, TypeFail
<1>3. CASE \E r \in Queries : SpawnRefresh(q, r)
  BY <1>3, TypeSpawnRefresh
<1>4. CASE StorePositive(q) \/ StoreNegative(q) \/ Supersede(q)
  BY <1>4, TypeStorePositive, TypeStoreNegative, TypeSupersede
<1>5. CASE (\E b \in BOOLEAN : Unstored(q, b)) \/ ServeStale(q) \/ NoStale(q)
  BY <1>5, TypeUnstored, TypeServeStale, TypeNoStale
<1>6. CASE PublishUntemplated(q)
  <2>1. out[q] \in Outcomes /\ Released(q, out[q])
    BY <1>6 DEF PublishUntemplated, TypeOK
  <2> QED
    BY <2>1, TypeReleased
<1> QED
  BY <1>1, <1>2, <1>3, <1>4, <1>5, <1>6 DEF Resolve

LEMMA TypeInvalidation ==
    ASSUME TypeOK, Reserve \/ Invalidate \/ InvalidateReturns \/ InvalidateDropped
    PROVE  TypeOK'
<1>1. CASE Invalidate
  <2>1. \E t \in {"flush", "invalidate"}, ks \in SUBSET Keys : RaiseFence(t, ks)
    BY <1>1 DEF Invalidate
  <2> QED
    BY <2>1, TypeRaiseFence
<1>2. CASE InvalidateReturns \/ InvalidateDropped
  <2>1. LowerFence /\ erased' \subseteq Queries
    BY <1>2 DEF InvalidateReturns, InvalidateDropped, TypeOK, Invalidations
  <2> QED
    BY <2>1, TypeLowerFence
<1> QED
  BY <1>1, <1>2, TypeReserve

LEMMA TypeActor ==
    ASSUME TypeOK, Actor
    PROVE  TypeOK'
BY TypeTick, TypeReceivePut, TypeReceiveFlush, TypeReceiveInvalidate, TypeReceiveShutdown,
   TypeRestoreRow, TypeInstallPersister DEF Actor

LEMMA TypeNext == TypeOK /\ [Next]_vars => TypeOK'
<1> SUFFICES ASSUME TypeOK, [Next]_vars PROVE TypeOK'
  OBVIOUS
<1>1. CASE \E q \in Queries : Resolve(q)
  BY <1>1, TypeResolve
<1>2. CASE \E q \in Queries : Cancel(q)
  BY <1>2, TypeReleased, NoOutcomeType DEF Cancel
<1>3. CASE \E k \in Keys : AgePositive(k) \/ AgeNegative(k)
  BY <1>3, TypeAgePositive, TypeAgeNegative
<1>4. CASE Reserve \/ Invalidate \/ InvalidateReturns \/ InvalidateDropped
  BY <1>4, TypeInvalidation
<1>5. CASE Actor \/ Shutdown \/ Restart
  BY <1>5, TypeActor, TypeShutdown, TypeRestart
<1>6. CASE UNCHANGED vars
  BY <1>6 DEF TypeOK, vars,
         cacheVars, fenceVars, queryVars, chanVars, actorVars, invVars, lifeVars
<1> QED
  BY <1>1, <1>2, <1>3, <1>4, <1>5, <1>6 DEF Next

(* The state always has its type: every command, row, slot and outcome is  *)
(* one the code could have built, whatever the sets and the bounds.        *)
THEOREM TypeCorrect == Spec => []TypeOK
<1>1. Init => TypeOK
  BY TypeInit
<1>2. TypeOK /\ [Next]_vars => TypeOK'
  BY TypeNext
<1> QED
  BY <1>1, <1>2, PTL DEF Spec

-----------------------------------------------------------------------------
(* Part 2: the flight table.  Only pc, ctx and flights matter.             *)

(* Where a query is and what it resolves are functions on Queries.         *)
FlightType == /\ pc \in [Queries -> PcStates]
              /\ ctx \in [Queries -> Contexts]

FlightInv == FlightType /\ FlightHasOneLeader

(* The functions a publication or a release writes keep the type of pc.    *)
LEMMA PcOverride ==
    ASSUME pc \in [Queries -> PcStates], NEW S \in SUBSET Queries, NEW q \in Queries,
           NEW v \in {"told", "acquire", "done"},
           pc' = [p \in Queries |-> IF p = q THEN "done" ELSE IF p \in S THEN v ELSE pc[p]]
    PROVE  pc' \in [Queries -> PcStates]
BY DEF PcStates

(* A leader that leaves takes exactly its own entry with it; nobody else   *)
(* starts or stops leading.                                                *)
LEMMA LeaderLeaves ==
    ASSUME FlightInv, NEW q \in Queries, Leading(q), ctx' = ctx,
           flights' = flights \ {Flight(q)},
           pc' \in [Queries -> PcStates],
           pc'[q] \notin LeaderStates,
           \A p \in Queries : p # q => (pc'[p] \in LeaderStates <=> pc[p] \in LeaderStates)
    PROVE  FlightInv'
<1>1. \A p \in Queries : Leading(p)' <=> p # q /\ Leading(p)
  BY DEF Leading
<1>2. \A p \in Queries : Flight(p)' = Flight(p)
  BY DEF Flight
<1>3. \A p \in Queries : Leading(p) /\ p # q => Flight(p) # Flight(q)
  BY DEF FlightInv, FlightHasOneLeader
<1>4. flights' = {Flight(p) : p \in {x \in Queries : Leading(x)'}}
  BY <1>1, <1>3 DEF FlightInv, FlightHasOneLeader
<1> QED
  BY <1>1, <1>2, <1>4 DEF FlightInv, FlightType, FlightHasOneLeader

(* A step after which the same queries lead the same flights.              *)
LEMMA SameLeaders ==
    ASSUME FlightInv, flights' = flights,
           pc' \in [Queries -> PcStates], ctx' \in [Queries -> Contexts],
           \A p \in Queries : pc'[p] \in LeaderStates <=> pc[p] \in LeaderStates,
           \A p \in Queries : pc[p] \in LeaderStates => ctx'[p] = ctx[p]
    PROVE  FlightInv'
<1>1. \A p \in Queries : Leading(p)' <=> Leading(p)
  BY DEF Leading
<1>2. \A p \in Queries : Leading(p) => Flight(p)' = Flight(p)
  BY DEF Flight, Leading
<1>3. {Flight(p)' : p \in {x \in Queries : Leading(x)'}}
      = {Flight(p) : p \in {x \in Queries : Leading(x)}}
  BY <1>1, <1>2
<1> QED
  BY <1>1, <1>2, <1>3 DEF FlightInv, FlightType, FlightHasOneLeader

(* A query that did not lead becomes the leader of a new entry.            *)
LEMMA LeaderEnters ==
    ASSUME FlightInv, NEW q \in Queries, ~Leading(q),
           pc' \in [Queries -> PcStates], ctx' \in [Queries -> Contexts],
           pc'[q] \in LeaderStates,
           Flight(q)' \notin flights, flights' = flights \cup {Flight(q)'},
           \A p \in Queries : p # q => (pc'[p] \in LeaderStates <=> pc[p] \in LeaderStates),
           \A p \in Queries : p # q => ctx'[p] = ctx[p]
    PROVE  FlightInv'
<1>1. \A p \in Queries : Leading(p)' <=> p = q \/ Leading(p)
  BY DEF Leading
<1>2. \A p \in Queries : p # q => Flight(p)' = Flight(p)
  BY DEF Flight
<1>3. \A p \in Queries : Leading(p) => Flight(p) \in flights
  BY DEF FlightInv, FlightHasOneLeader
<1>4. \A p, r \in Queries : Leading(p)' /\ Leading(r)' /\ Flight(p)' = Flight(r)' => p = r
  BY <1>1, <1>2, <1>3 DEF FlightInv, FlightHasOneLeader
<1>5. flights' = {Flight(p)' : p \in {x \in Queries : Leading(x)'}}
  BY <1>1, <1>2 DEF FlightInv, FlightHasOneLeader
<1> QED
  BY <1>4, <1>5 DEF FlightInv, FlightType, FlightHasOneLeader

LEMMA FlightInit == Init => FlightInv
<1> SUFFICES ASSUME Init PROVE FlightInv
  OBVIOUS
<1>1. FlightType
  BY DEF Init, FlightType, PcStates, Contexts, NoContext, Context
<1>2. \A q \in Queries : ~Leading(q)
  BY DEF Init, Leading, LeaderStates
<1> QED
  BY <1>1, <1>2 DEF Init, FlightInv, FlightHasOneLeader

(* Steps of a query that neither open nor close a flight.                  *)
LEMMA QuietQuery ==
    ASSUME FlightInv, NEW q \in Queries,
           Lookup(q) \/ ServeHit(q) \/ StorePositive(q) \/ StoreNegative(q)
           \/ Supersede(q) \/ (\E b \in BOOLEAN : Unstored(q, b))
           \/ ServeStale(q) \/ NoStale(q)
    PROVE  FlightInv'
<1>1. flights' = flights /\ ctx' = ctx
  BY DEF Lookup, ServeHit, StorePositive, StoreNegative, Supersede, Unstored,
         ServeStale, NoStale
<1>2. \E v \in PcStates : /\ pc' = [pc EXCEPT ![q] = v]
                          /\ v \in LeaderStates <=> pc[q] \in LeaderStates
  <2>1. CASE Lookup(q)
    <3>1. \E a, b \in PcStates :
            /\ pc' = [pc EXCEPT ![q] = Then(pc[q], a, b)]
            /\ a \notin LeaderStates /\ b \in LeaderStates
      BY <2>1 DEF Lookup, PcStates, LeaderStates
    <3>2. PICK a, b \in PcStates :
            /\ pc' = [pc EXCEPT ![q] = Then(pc[q], a, b)]
            /\ a \notin LeaderStates /\ b \in LeaderStates
      BY <3>1
    <3>3. pc[q] \in {"lookup", "recheck", "told"}
      BY <2>1 DEF Lookup
    <3>4. Then(pc[q], a, b) \in PcStates
      BY <3>2 DEF Then, PcStates
    <3>5. Then(pc[q], a, b) \in LeaderStates <=> pc[q] \in LeaderStates
      BY <3>2, <3>3 DEF Then, LeaderStates
    <3> QED
      BY <3>2, <3>4, <3>5
  <2>2. CASE ServeHit(q)
    <3>1. AfterServe(q) \in PcStates
      BY DEF AfterServe, PcStates, LeaderStates
    <3>2. AfterServe(q) \in LeaderStates <=> pc[q] \in LeaderStates
      BY <2>2 DEF ServeHit, AfterServe, LeaderStates
    <3> QED
      BY <2>2, <3>1, <3>2 DEF ServeHit
  <2>3. CASE StorePositive(q) \/ Supersede(q)
    BY <2>3 DEF StorePositive, Supersede, PcStates, LeaderStates
  <2>4. CASE StoreNegative(q)
    BY <2>4 DEF StoreNegative, PcStates, LeaderStates
  <2>5. CASE (\E b \in BOOLEAN : Unstored(q, b)) \/ ServeStale(q) \/ NoStale(q)
    BY <2>5 DEF Unstored, ServeStale, NoStale, PcStates, LeaderStates
  <2> QED
    BY <2>1, <2>2, <2>3, <2>4, <2>5
<1>3. /\ pc' \in [Queries -> PcStates]
      /\ \A p \in Queries : pc'[p] \in LeaderStates <=> pc[p] \in LeaderStates
  BY <1>2 DEF FlightInv, FlightType
<1> QED
  BY <1>1, <1>3, SameLeaders DEF FlightInv, FlightType

LEMMA StartKeepsFlights ==
    ASSUME FlightInv, NEW q \in Queries, NEW k \in Keys, NEW m \in Modes, Start(q, k, m),
           epoch \in Nat
    PROVE  FlightInv'
<1>1. ctx' \in [Queries -> Contexts]
  BY ModesAssumption DEF Start, FlightInv, FlightType, Contexts, Context
<1>2. pc' \in [Queries -> PcStates]
  BY DEF Start, FlightInv, FlightType, PcStates
<1>3. \A p \in Queries : pc'[p] \in LeaderStates <=> pc[p] \in LeaderStates
  BY DEF Start, FlightInv, FlightType, LeaderStates
<1>4. \A p \in Queries : pc[p] \in LeaderStates => ctx'[p] = ctx[p]
  BY DEF Start, FlightInv, FlightType, LeaderStates
<1> QED
  BY <1>1, <1>2, <1>3, <1>4, SameLeaders DEF Start

LEMMA SpawnOpensFlight ==
    ASSUME FlightInv, NEW q \in Queries, NEW r \in Queries, SpawnRefresh(q, r),
           out[q].rev \in Nat
    PROVE  FlightInv'
<1>1. q # r /\ ~Leading(r)
  BY DEF SpawnRefresh, Leading, LeaderStates
<1>2. ctx' \in [Queries -> Contexts]
  BY DEF SpawnRefresh, FlightInv, FlightType, Contexts, Context
<1>3. Flight(r)' = <<ctx[q].key, "refresh">>
  BY DEF SpawnRefresh, FlightInv, FlightType, Flight, Contexts, Context
<1>4. pc' \in [Queries -> PcStates] /\ pc'[r] \in LeaderStates
  BY <1>1 DEF SpawnRefresh, AfterServe, FlightInv, FlightType, PcStates, LeaderStates
<1>5. \A p \in Queries : p # r => (pc'[p] \in LeaderStates <=> pc[p] \in LeaderStates)
  BY <1>1 DEF SpawnRefresh, AfterServe, FlightInv, FlightType, LeaderStates
<1>6. \A p \in Queries : p # r => ctx'[p] = ctx[p]
  BY DEF SpawnRefresh, FlightInv, FlightType
<1> QED
  BY <1>1, <1>2, <1>3, <1>4, <1>5, <1>6, LeaderEnters DEF SpawnRefresh

LEMMA AcquireKeepsFlights ==
    ASSUME FlightInv, NEW q \in Queries, Acquire(q)
    PROVE  FlightInv'
<1>1. /\ ~Leading(q) /\ ctx' = ctx /\ Flight(q)' = Flight(q)
      /\ pc' \in [Queries -> PcStates]
      /\ \A p \in Queries : p # q => (pc'[p] \in LeaderStates <=> pc[p] \in LeaderStates)
  BY DEF Acquire, Leading, LeaderStates, PcStates, Flight, FlightInv, FlightType
<1>2. CASE flights' = flights /\ pc'[q] \in {"done", "wait"}
  <2>1. \A p \in Queries : pc'[p] \in LeaderStates <=> pc[p] \in LeaderStates
    BY <1>1, <1>2 DEF Leading, LeaderStates
  <2> QED
    BY <1>1, <1>2, <2>1, SameLeaders DEF FlightInv, FlightType
<1>3. CASE /\ Flight(q) \notin flights /\ flights' = flights \cup {Flight(q)}
           /\ pc'[q] = "recheck"
  <2>1. pc'[q] \in LeaderStates
    BY <1>3 DEF LeaderStates
  <2> QED
    BY <1>1, <1>3, <2>1, LeaderEnters DEF FlightInv, FlightType
<1> QED
  BY <1>2, <1>3 DEF Acquire, FlightInv, FlightType

LEMMA ReleaseKeepsFlights ==
    ASSUME FlightInv, NEW q \in Queries, NEW o, Released(q, o)
    PROVE  FlightInv'
<1>1. /\ ctx' = ctx /\ pc' \in [Queries -> PcStates]
      /\ pc'[q] = "done"
      /\ \A p \in Queries : p # q => pc'[p] = pc[p] \/ (pc[p] = "wait" /\ pc'[p] = "acquire")
  BY DEF Released, FlightInv, FlightType, PcStates, Waiting
<1>2. \A p \in Queries : p # q => (pc'[p] \in LeaderStates <=> pc[p] \in LeaderStates)
  BY <1>1 DEF LeaderStates
<1>3. pc'[q] \notin LeaderStates
  BY <1>1 DEF LeaderStates
<1>4. CASE Leading(q)
  BY <1>1, <1>2, <1>3, <1>4, LeaderLeaves DEF Released
<1>5. CASE ~Leading(q)
  <2>1. flights' = flights
    BY <1>5 DEF Released
  <2>2. \A p \in Queries : pc'[p] \in LeaderStates <=> pc[p] \in LeaderStates
    BY <1>2, <1>3, <1>5 DEF Leading
  <2> QED
    BY <1>1, <2>1, <2>2, SameLeaders DEF FlightInv, FlightType
<1> QED
  BY <1>4, <1>5

LEMMA CompletionKeepsFlights ==
    ASSUME FlightInv, NEW q \in Queries, Publish(q) \/ Fail(q)
    PROVE  FlightInv'
<1>1. /\ Leading(q) /\ ctx' = ctx /\ flights' = flights \ {Flight(q)}
      /\ pc' \in [Queries -> PcStates]
      /\ pc'[q] = "done"
      /\ \A p \in Queries : p # q => \/ pc'[p] = pc[p]
                                     \/ pc[p] = "wait" /\ pc'[p] \in {"told", "done"}
  BY DEF Publish, Fail, Waiting, Leading, LeaderStates, FlightInv, FlightType, PcStates
<1>2. \A p \in Queries : p # q => (pc'[p] \in LeaderStates <=> pc[p] \in LeaderStates)
  BY <1>1 DEF LeaderStates
<1>3. pc'[q] \notin LeaderStates
  BY <1>1 DEF LeaderStates
<1> QED
  BY <1>1, <1>2, <1>3, LeaderLeaves

(* Steps of the cache, the invalidation and the actor leave flights alone. *)
LEMMA OthersKeepFlights ==
    ASSUME FlightInv,
           \/ \E k \in Keys : AgePositive(k) \/ AgeNegative(k)
           \/ Reserve \/ Invalidate \/ InvalidateReturns \/ InvalidateDropped
           \/ Actor \/ Shutdown \/ UNCHANGED vars
    PROVE  FlightInv'
<1>1. flights' = flights /\ pc' = pc /\ ctx' = ctx
  BY DEF AgePositive, AgeNegative, Reserve, Invalidate, RaiseFence, InvalidateReturns,
         InvalidateDropped, LowerFence, Actor, Tick, ReceivePut, ReceiveFlush,
         ReceiveInvalidate, ReceiveShutdown, RestoreRow, InstallPersister, Shutdown,
         vars, queryVars
<1> QED
  BY <1>1, SameLeaders DEF FlightInv, FlightType

(* A new process has no flights and no query that leads one.               *)
LEMMA RestartKeepsFlights ==
    ASSUME FlightInv, Restart
    PROVE  FlightInv'
<1>1. FlightType'
  BY DEF Restart, FlightInv, FlightType, PcStates
<1>2. \A q \in Queries : ~Leading(q)'
  BY DEF Restart, Leading, LeaderStates
<1>3. flights' = {}
  BY DEF Restart
<1> QED
  BY <1>1, <1>2, <1>3 DEF FlightInv, FlightHasOneLeader

LEMMA FlightNext == FlightInv /\ TypeOK /\ [Next]_vars => FlightInv'
<1> SUFFICES ASSUME FlightInv, TypeOK, [Next]_vars PROVE FlightInv'
  OBVIOUS
<1>1. ASSUME NEW q \in Queries, Resolve(q) PROVE FlightInv'
  <2>1. CASE \E k \in Keys, m \in Modes : Start(q, k, m)
    BY <2>1, StartKeepsFlights DEF TypeOK
  <2>2. CASE \E r \in Queries : SpawnRefresh(q, r)
    <3>1. out[q].rev \in Nat
      BY DEF TypeOK, Outcomes
    <3> QED
      BY <2>2, <3>1, SpawnOpensFlight
  <2>3. CASE Acquire(q)
    BY <2>3, AcquireKeepsFlights
  <2>4. CASE PublishUntemplated(q)
    BY <2>4, ReleaseKeepsFlights DEF PublishUntemplated
  <2>5. CASE Publish(q) \/ Fail(q)
    BY <2>5, CompletionKeepsFlights
  <2> QED
    BY <1>1, <2>1, <2>2, <2>3, <2>4, <2>5, QuietQuery DEF Resolve
<1>2. ASSUME NEW q \in Queries, Cancel(q) PROVE FlightInv'
  BY <1>2, ReleaseKeepsFlights DEF Cancel
<1> QED
  BY <1>1, <1>2, OthersKeepFlights, RestartKeepsFlights DEF Next

(* Every entry of the flight table always has exactly one leader: whatever *)
(* is cancelled, fails or restarts, no identity is exchanged twice at once *)
(* and no waiter is attached to an entry nobody will end (singleflight.rs).*)
THEOREM FlightsSound == Spec => []FlightHasOneLeader
<1>1. Init => FlightInv
  BY FlightInit
<1>2. FlightInv /\ TypeOK /\ [Next]_vars => FlightInv'
  BY FlightNext
<1>3. FlightInv => FlightHasOneLeader
  BY DEF FlightInv
<1> QED
  BY <1>1, <1>2, <1>3, TypeCorrect, PTL DEF Spec

=============================================================================
