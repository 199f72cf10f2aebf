--------------------------- MODULE DnsAnswers_proofs ---------------------------
(***************************************************************************)
(* Where DNS answers go, proved about DnsCache for every set of keys and   *)
(* queries and every bound: what strict callers get, what a refresh may    *)
(* overwrite, the order of the persistence actor, and that an invalidated  *)
(* answer stays away.  Types and flights are in DnsCache_proofs.           *)
(***************************************************************************)
EXTENDS DnsCache_proofs, SequenceTheorems

-----------------------------------------------------------------------------
(* Part 1: what a step may do to the slots and to the queries.             *)

(* A slot may lose answers, and goes with its last one.                    *)
Fades(s, t) ==
    /\ t.rev \in {0, s.rev}
    /\ t.pos \in {None, s.pos} /\ t.neg \in {None, s.neg}
    /\ Present(t) <=> t.pos # None \/ t.neg # None

SlotsFade == /\ revision' \in {revision, revision + 1}
             /\ \A k \in Keys : Fades(slot[k], slot'[k])

(* An answer goes into the slot of k under the next revision, beside or    *)
(* instead of those the slot held; other slots may be evicted.             *)
Stores(k, a) ==
    /\ revision' = revision + 1
    /\ slot'[k].rev = revision
    /\ slot'[k].pos \in {None, slot[k].pos, a} /\ slot'[k].neg \in {None, slot[k].neg, a}
    /\ a \in {slot'[k].pos, slot'[k].neg}
    /\ \A j \in Keys \ {k} : Fades(slot[j], slot'[j])

Storing(q) == pc[q] \in {"exchange", "servfail"} /\ Admits(q)

(* Slots only change by fading, by an admitted query, or by restoring.     *)
CacheMove ==
    \/ SlotsFade
    \/ \E q \in Queries : Storing(q) /\ Stores(ctx[q].key, q)
    \/ \E k \in Keys : worker.st = "restore" /\ k \in worker.rows /\ Stores(k, db[k])

(* A query that has started stays the query of its key.                    *)
StartedStays ==
    \A q \in Queries : pc[q] # "idle" => pc'[q] # "idle" /\ ctx'[q] = ctx[q]

LEMMA FadesSame ==
    ASSUME SlotHasAnswer, NEW k \in Keys, slot'[k] = slot[k] \/ slot'[k] = Empty
    PROVE  Fades(slot[k], slot'[k])
BY DEF SlotHasAnswer, Fades, Present, Empty, Slot

LEMMA AllSame ==
    ASSUME SlotHasAnswer, slot' = slot, revision' = revision
    PROVE  CacheMove
BY FadesSame DEF CacheMove, SlotsFade

(* Dropping, sweeping and ageing only take answers away.                   *)
LEMMA DropsFade ==
    ASSUME NEW s \in Slots, Present(s) <=> s.pos # None \/ s.neg # None
    PROVE  /\ DropNegative(s) \in Slots /\ Fades(s, DropNegative(s))
           /\ DropPositive(s) \in Slots /\ Fades(s, DropPositive(s))
BY SlotOps, NoneAssumption
   DEF Fades, DropNegative, DropPositive, Present, Empty, Slot, Slots

LEMMA SweptFades ==
    ASSUME NEW s \in Slots, Present(s) <=> s.pos # None \/ s.neg # None
    PROVE  Fades(s, Swept(s))
<1> DEFINE t == IF s.neg # None /\ s.negAge # "fresh" THEN DropNegative(s) ELSE s
<1>1. t \in Slots /\ Fades(s, t)
  BY DropsFade DEF Fades, Slots
<1>2. Present(t) <=> t.pos # None \/ t.neg # None
  BY <1>1 DEF Fades
<1>3. Fades(t, DropPositive(t))
  BY <1>1, <1>2, DropsFade
<1>4. Fades(s, DropPositive(t))
  BY <1>1, <1>3 DEF Fades
<1> QED
  BY <1>1, <1>4 DEF Swept

LEMMA AgedFades ==
    ASSUME NEW s \in Slots, Present(s) <=> s.pos # None \/ s.neg # None
    PROVE  Fades(s, Aged(s)) /\ Fades(s, NegativeAged(s))
BY DEF Fades, Aged, NegativeAged, Slot, Slots, Present

(* CacheShard::put: the value goes in, others may be evicted.              *)
LEMMA InsertStores ==
    ASSUME TypeOK, SlotHasAnswer, NEW k \in Keys, NEW s \in Slots, NEW a,
           NEW evicted \in SUBSET (Keys \ {k}),
           slot' = Inserted(k, s, evicted), revision' = revision + 1, s.rev = revision,
           s.pos \in {None, slot[k].pos, a}, s.neg \in {None, slot[k].neg, a},
           a \in {s.pos, s.neg}
    PROVE  Stores(k, a)
<1>1. slot'[k] = s
  BY DEF Inserted
<1>2. \A j \in Keys \ {k} : slot'[j] = slot[j] \/ slot'[j] = Empty
  BY DEF Inserted
<1>3. \A j \in Keys \ {k} : Fades(slot[j], slot'[j])
  BY <1>2, FadesSame
<1> QED
  BY <1>1, <1>3 DEF Stores

LEMMA LookupMoves ==
    ASSUME TypeOK, SlotHasAnswer, NEW q \in Queries, Lookup(q)
    PROVE  CacheMove
<1>1. ctx[q].key \in Keys
  BY DEF TypeOK, Contexts
<1>2. slot' = [slot EXCEPT ![ctx[q].key] = Swept(slot[ctx[q].key])] /\ revision' = revision
  BY DEF Lookup
<1>3. ASSUME NEW k \in Keys PROVE Fades(slot[k], slot'[k])
  <2>1. CASE k = ctx[q].key
    <3>1. slot'[k] = Swept(slot[k])
      BY <1>1, <1>2, <2>1 DEF TypeOK
    <3> QED
      BY <3>1, SweptFades DEF TypeOK, SlotHasAnswer
  <2>2. CASE k # ctx[q].key
    BY <1>2, <2>2, FadesSame DEF TypeOK
  <2> QED
    BY <2>1, <2>2
<1> QED
  BY <1>2, <1>3 DEF CacheMove, SlotsFade

LEMMA AgeMoves ==
    ASSUME TypeOK, SlotHasAnswer, NEW k \in Keys, AgePositive(k) \/ AgeNegative(k)
    PROVE  CacheMove
<1>1. revision' = revision
  BY DEF AgePositive, AgeNegative
<1>2. \/ slot' = [slot EXCEPT ![k] = Aged(slot[k])]
      \/ slot' = [slot EXCEPT ![k] = NegativeAged(slot[k])]
  BY DEF AgePositive, AgeNegative
<1>3. ASSUME NEW j \in Keys PROVE Fades(slot[j], slot'[j])
  <2>1. CASE j = k
    <3>1. slot'[j] \in {Aged(slot[j]), NegativeAged(slot[j])}
      BY <1>2, <2>1 DEF TypeOK
    <3> QED
      BY <3>1, AgedFades DEF TypeOK, SlotHasAnswer
  <2>2. CASE j # k
    BY <1>2, <2>2, FadesSame DEF TypeOK
  <2> QED
    BY <2>1, <2>2
<1> QED
  BY <1>1, <1>3 DEF CacheMove, SlotsFade

LEMMA StorePositiveMoves ==
    ASSUME TypeOK, SlotHasAnswer, NEW q \in Queries, StorePositive(q)
    PROVE  CacheMove
<1>1. CASE ~Admits(q)
  BY <1>1, AllSame DEF StorePositive, cacheVars
<1>2. CASE Admits(q)
  <2>1. ctx[q].key \in Keys
    BY DEF TypeOK, Contexts
  <2>2. PICK evicted \in SUBSET (Keys \ {ctx[q].key}) :
          slot' = Inserted(ctx[q].key, Positive(q, TRUE, revision), evicted)
    BY <1>2 DEF StorePositive
  <2>3. revision' = revision + 1
    BY <1>2 DEF StorePositive
  <2>4. Positive(q, TRUE, revision) \in Slots
    BY PositiveType DEF TypeOK, Answers
  <2>5. Stores(ctx[q].key, q)
    <3>1. /\ Positive(q, TRUE, revision).rev = revision
          /\ Positive(q, TRUE, revision).pos = q /\ Positive(q, TRUE, revision).neg = None
      BY DEF Positive, Slot
    <3> QED
      BY <2>1, <2>2, <2>3, <2>4, <3>1, InsertStores
  <2>6. pc[q] = "exchange"
    BY DEF StorePositive
  <2> QED
    BY <1>2, <2>5, <2>6 DEF CacheMove, Storing
<1> QED
  BY <1>1, <1>2

LEMMA StoreNegativeMoves ==
    ASSUME TypeOK, SlotHasAnswer, NEW q \in Queries, StoreNegative(q)
    PROVE  CacheMove
<1>1. CASE ~Admits(q)
  BY <1>1, AllSame DEF StoreNegative, cacheVars
<1>2. CASE Admits(q)
  <2> DEFINE k == ctx[q].key
             s == IF ctx[q].kind = "refresh" /\ pc[q] = "exchange"
                  THEN DropPositive(slot[k]) ELSE slot[k]
  <2>1. k \in Keys
    BY DEF TypeOK, Contexts
  <2>2. PICK evicted \in SUBSET (Keys \ {k}) : slot' = Inserted(k, Merged(s, q), evicted)
    BY <1>2 DEF StoreNegative
  <2>3. revision' = revision + 1
    BY <1>2 DEF StoreNegative
  <2>4. s \in Slots /\ s.pos \in {None, slot[k].pos}
    <3>1. slot[k] \in Slots
      BY <2>1 DEF TypeOK
    <3>2. DropPositive(slot[k]) \in Slots /\ DropPositive(slot[k]).pos = None
      BY <3>1, SlotOps DEF DropPositive, Empty, Slot
    <3> QED
      BY <3>1, <3>2
  <2>5. Merged(s, q) \in Slots
    BY <2>4, MergedType DEF TypeOK
  <2>6. /\ Merged(s, q).rev = revision /\ Merged(s, q).neg = q
        /\ Merged(s, q).pos \in {None, slot[k].pos}
    BY <2>4 DEF Merged, Slot
  <2>7. Stores(k, q)
    <3> HIDE DEF s, k
    <3> QED
      BY <2>1, <2>2, <2>3, <2>5, <2>6, InsertStores
  <2>8. pc[q] \in {"exchange", "servfail"}
    BY DEF StoreNegative
  <2> QED
    BY <1>2, <2>7, <2>8 DEF CacheMove, Storing
<1> QED
  BY <1>1, <1>2

LEMMA SupersedeMoves ==
    ASSUME TypeOK, SlotHasAnswer, NEW q \in Queries, Supersede(q)
    PROVE  CacheMove
<1>1. /\ revision' \in {revision, revision + 1}
      /\ \A k \in Keys : slot'[k] = slot[k] \/ slot'[k] = Empty
  BY DEF Supersede, cacheVars, TypeOK
<1> QED
  BY <1>1, FadesSame DEF CacheMove, SlotsFade

LEMMA RaiseFenceMoves ==
    ASSUME SlotHasAnswer, NEW t, NEW ks, RaiseFence(t, ks)
    PROVE  CacheMove
<1>1. revision' = revision /\ \A k \in Keys : slot'[k] = slot[k] \/ slot'[k] = Empty
  BY DEF RaiseFence
<1> QED
  BY <1>1, FadesSame DEF CacheMove, SlotsFade

LEMMA RestoreRowMoves ==
    ASSUME TypeOK, SlotHasAnswer, NEW k \in Keys, RestoreRow(k)
    PROVE  CacheMove
<1>1. CASE UNCHANGED cacheVars
  BY <1>1, AllSame DEF cacheVars
<1>2. CASE ~ UNCHANGED cacheVars
  <2>1. PICK evicted \in SUBSET (Keys \ {k}) :
          slot' = Inserted(k, Positive(db[k], FALSE, revision), evicted)
    BY <1>2 DEF RestoreRow
  <2>2. revision' = revision + 1
    BY <1>2 DEF RestoreRow
  <2>3. Positive(db[k], FALSE, revision) \in Slots
    BY PositiveType DEF TypeOK
  <2>4. /\ Positive(db[k], FALSE, revision).rev = revision
        /\ Positive(db[k], FALSE, revision).pos = db[k]
        /\ Positive(db[k], FALSE, revision).neg = None
    BY DEF Positive, Slot
  <2>5. Stores(k, db[k])
    BY <2>1, <2>2, <2>3, <2>4, InsertStores
  <2> QED
    BY <2>5 DEF CacheMove, RestoreRow
<1> QED
  BY <1>1, <1>2

(* Every step but a restart moves the cache in one of these ways.          *)
LEMMA CacheMoves ==
    ASSUME TypeOK, SlotHasAnswer, [Next]_vars, ~Restart
    PROVE  CacheMove
<1>1. ASSUME NEW q \in Queries, Resolve(q) PROVE CacheMove
  <2>1. CASE Lookup(q)
    BY <2>1, LookupMoves
  <2>2. CASE StorePositive(q)
    BY <2>2, StorePositiveMoves
  <2>3. CASE StoreNegative(q)
    BY <2>3, StoreNegativeMoves
  <2>4. CASE Supersede(q)
    BY <2>4, SupersedeMoves
  <2>5. CASE \/ \E k \in Keys, m \in Modes : Start(q, k, m)
             \/ \E r \in Queries : SpawnRefresh(q, r)
             \/ ServeHit(q) \/ Acquire(q) \/ (\E b \in BOOLEAN : Unstored(q, b))
             \/ ServeStale(q) \/ NoStale(q) \/ Publish(q) \/ PublishUntemplated(q) \/ Fail(q)
    <3>1. slot' = slot /\ revision' = revision
      BY <2>5 DEF Start, SpawnRefresh, ServeHit, Acquire, Unstored, ServeStale, NoStale,
         Publish, PublishUntemplated, Released, Fail, cacheVars
    <3> QED
      BY <3>1, AllSame
  <2> QED
    BY <1>1, <2>1, <2>2, <2>3, <2>4, <2>5 DEF Resolve
<1>2. CASE \E k \in Keys : AgePositive(k) \/ AgeNegative(k)
  BY <1>2, AgeMoves
<1>3. CASE Invalidate
  BY <1>3, RaiseFenceMoves DEF Invalidate
<1>4. CASE \E k \in Keys : RestoreRow(k)
  BY <1>4, RestoreRowMoves
<1>5. CASE \/ \E q \in Queries : Cancel(q)
           \/ Reserve \/ InvalidateReturns \/ InvalidateDropped
           \/ Tick \/ ReceivePut \/ ReceiveFlush \/ ReceiveInvalidate \/ ReceiveShutdown
           \/ InstallPersister \/ Shutdown \/ UNCHANGED vars
  <2>1. slot' = slot /\ revision' = revision
    BY <1>5 DEF Cancel, Released, Reserve, InvalidateReturns, InvalidateDropped, LowerFence,
       Tick, ReceivePut, ReceiveFlush, ReceiveInvalidate, ReceiveShutdown,
       InstallPersister, Shutdown, vars, cacheVars
  <2> QED
    BY <2>1, AllSame
<1> QED
  BY <1>1, <1>2, <1>3, <1>4, <1>5 DEF Next, Actor

LEMMA QueriesStay ==
    ASSUME TypeOK, [Next]_vars
    PROVE  StartedStays
<1>1. ASSUME NEW q \in Queries, Resolve(q) PROVE StartedStays
  <2>1. CASE \E k \in Keys, m \in Modes : Start(q, k, m)
    BY <2>1 DEF Start, StartedStays, TypeOK
  <2>2. CASE \E r \in Queries : SpawnRefresh(q, r)
    BY <2>2 DEF SpawnRefresh, AfterServe, StartedStays, TypeOK
  <2>3. CASE Lookup(q)
    BY <2>3 DEF Lookup, Then, StartedStays, TypeOK
  <2>4. CASE ServeHit(q) \/ Acquire(q)
    BY <2>4 DEF ServeHit, AfterServe, Acquire, StartedStays, TypeOK
  <2>5. CASE StorePositive(q) \/ StoreNegative(q)
    BY <2>5 DEF StorePositive, StoreNegative, StartedStays, TypeOK
  <2>6. CASE \/ Supersede(q) \/ (\E b \in BOOLEAN : Unstored(q, b))
             \/ ServeStale(q) \/ NoStale(q)
    BY <2>6 DEF Supersede, Unstored, ServeStale, NoStale, StartedStays, TypeOK
  <2>7. CASE Publish(q) \/ PublishUntemplated(q) \/ Fail(q)
    BY <2>7 DEF Publish, PublishUntemplated, Released, Fail, StartedStays, TypeOK
  <2> QED
    BY <1>1, <2>1, <2>2, <2>3, <2>4, <2>5, <2>6, <2>7 DEF Resolve
<1>2. ASSUME NEW q \in Queries, Cancel(q) PROVE StartedStays
  BY <1>2 DEF Cancel, Released, StartedStays, TypeOK
<1>3. CASE \/ \E k \in Keys : AgePositive(k) \/ AgeNegative(k)
           \/ Reserve \/ Invalidate \/ InvalidateReturns \/ InvalidateDropped
           \/ Actor \/ Shutdown \/ UNCHANGED vars
  <2>1. pc' = pc /\ ctx' = ctx
    BY <1>3 DEF AgePositive, AgeNegative, Reserve, Invalidate, RaiseFence, InvalidateReturns,
         InvalidateDropped, LowerFence, Actor, Tick, ReceivePut, ReceiveFlush,
         ReceiveInvalidate, ReceiveShutdown, RestoreRow, InstallPersister, Shutdown,
         vars, queryVars
  <2> QED
    BY <2>1 DEF StartedStays
<1>4. CASE Restart
  BY <1>4 DEF Restart, StartedStays
<1> QED
  BY <1>1, <1>2, <1>3, <1>4 DEF Next

-----------------------------------------------------------------------------
(* Part 2: the invalidation and the restore.                               *)

(* What an invalidation knows before and after it raised its fence.        *)
WaitInv ==
    /\ inv.pc # "wait" => inv.ack = "none" /\ inv.doomed = {}
    /\ inv.pc = "wait" => inv.epoch <= pepoch

(* While rows are restored no invalidation has begun in this process, so   *)
(* nothing is dropped but what earlier processes erased.                   *)
RestoreInv ==
    worker.st = "restore" => /\ dropped = erased /\ inv.pc = "idle"
                             /\ \A k \in worker.rows : db[k] # None

LifeInv == WaitInv /\ RestoreInv

LEMMA LifeInit == Init => LifeInv
BY DEF Init, LifeInv, WaitInv, RestoreInv, NoInvalidation, Invalidation, Working

(* Steps that touch neither the invalidation nor the actor.                *)
LEMMA LifeUntouched ==
    ASSUME LifeInv, UNCHANGED <<inv, worker, pepoch, db, dropped, erased>>
    PROVE  LifeInv'
BY DEF LifeInv, WaitInv, RestoreInv

LEMMA LifeNext == TypeOK /\ LifeInv /\ [Next]_vars => LifeInv'
<1> SUFFICES ASSUME TypeOK, LifeInv, [Next]_vars PROVE LifeInv'
  OBVIOUS
<1> USE DEF LifeInv
<1>1. CASE \/ \E q \in Queries : Resolve(q) \/ Cancel(q)
           \/ \E k \in Keys : AgePositive(k) \/ AgeNegative(k)
           \/ Shutdown \/ UNCHANGED vars
  <2>1. UNCHANGED <<inv, worker, pepoch, db, dropped, erased>>
    BY ZenonT(40), <1>1 DEF Resolve, Start, Lookup, SpawnRefresh, ServeHit, Acquire, StorePositive, Save,
       StoreNegative, Supersede, Unstored, ServeStale, NoStale, Publish,
       PublishUntemplated, Released, Fail, Cancel, AgePositive, AgeNegative, Shutdown,
       vars, invVars, actorVars, chanVars
  <2> QED
    BY <2>1, LifeUntouched
<1>2. CASE Reserve
  BY <1>2 DEF Reserve, Invalidation, WaitInv, RestoreInv, actorVars, chanVars
<1>3. ASSUME NEW t, NEW ks, RaiseFence(t, ks) PROVE LifeInv'
  BY <1>3 DEF RaiseFence, Invalidation, WaitInv, RestoreInv, actorVars, TypeOK
<1>4. CASE InvalidateReturns \/ InvalidateDropped
  BY <1>4 DEF InvalidateReturns, InvalidateDropped, LowerFence, NoInvalidation, Invalidation,
     WaitInv, RestoreInv, actorVars, chanVars
<1>5. CASE Tick \/ ReceivePut \/ ReceiveShutdown
  <2>1. UNCHANGED <<inv, pepoch, dropped, erased>> /\ worker'.st # "restore"
    BY <1>5 DEF Tick, ReceivePut, Receive, ReceiveShutdown, Working, chanVars, invVars
  <2> QED
    BY <2>1 DEF WaitInv, RestoreInv
<1>6. CASE ReceiveFlush \/ ReceiveInvalidate
  <2>1. /\ UNCHANGED <<pepoch, dropped, erased>> /\ worker'.st # "restore"
        /\ \E e, r : Acked(e, r)
    BY <1>6 DEF ReceiveFlush, ReceiveInvalidate, Working
  <2> QED
    BY <2>1 DEF WaitInv, RestoreInv, Acked, Invalidation
<1>7. ASSUME NEW k \in Keys, RestoreRow(k) PROVE LifeInv'
  BY <1>7 DEF RestoreRow, Working, WaitInv, RestoreInv, chanVars, invVars
<1>8. CASE InstallPersister
  BY <1>8 DEF InstallPersister, Working, WaitInv, RestoreInv, chanVars, invVars
<1>9. CASE Restart
  BY <1>9 DEF Restart, Working, NoInvalidation, Invalidation, WaitInv, RestoreInv
<1> QED
  BY <1>1, <1>2, <1>3, <1>4, <1>5, <1>6, <1>7, <1>8, <1>9 DEF Next, Invalidate, Actor

LEMMA LifeAlways == Spec => [](TypeOK /\ LifeInv)
<1>1. Init => LifeInv
  BY LifeInit
<1>2. TypeOK /\ LifeInv /\ [Next]_vars => LifeInv'
  BY LifeNext
<1> QED
  BY <1>1, <1>2, TypeCorrect, PTL DEF Spec

-----------------------------------------------------------------------------
(* Part 3: slots and revisions.                                            *)

(* A revision in use is one already given out.                             *)
RevisionsPass ==
    /\ revision > 0
    /\ \A k \in Keys : slot[k].rev < revision

SlotInv == RevisionsPass /\ SlotHasAnswer

LEMMA SlotInit == Init => SlotInv
BY DEF Init, SlotInv, RevisionsPass, SlotHasAnswer, Present, Empty, Slot

LEMMA MoveKeepsSlots ==
    ASSUME TypeOK, LifeInv, SlotInv, CacheMove
    PROVE  SlotInv'
<1>1. /\ revision \in Nat /\ revision > 0
      /\ \A k \in Keys : slot[k].rev \in Nat /\ slot[k].rev < revision
  BY DEF TypeOK, Slots, SlotInv, RevisionsPass
<1>2. CASE SlotsFade
  BY <1>1, <1>2 DEF SlotsFade, Fades, SlotInv, RevisionsPass, SlotHasAnswer, Present
<1>3. ASSUME NEW k \in Keys, NEW a, a # None, Stores(k, a) PROVE SlotInv'
  <2>1. slot'[k].rev < revision' /\ revision' > 0
    BY <1>1, <1>3 DEF Stores
  <2>2. Present(slot'[k]) /\ (slot'[k].pos # None \/ slot'[k].neg # None)
    BY <1>1, <1>3 DEF Stores, Present
  <2>3. \A j \in Keys \ {k} :
          /\ slot'[j].rev < revision'
          /\ Present(slot'[j]) <=> slot'[j].pos # None \/ slot'[j].neg # None
    BY <1>1, <1>3 DEF Stores, Fades
  <2> QED
    BY <2>1, <2>2, <2>3 DEF SlotInv, RevisionsPass, SlotHasAnswer, Present
<1>4. CASE \E q \in Queries : Storing(q) /\ Stores(ctx[q].key, q)
  BY <1>3, <1>4, NoneAssumption DEF TypeOK, Contexts
<1>5. CASE \E k \in Keys : worker.st = "restore" /\ k \in worker.rows /\ Stores(k, db[k])
  BY <1>3, <1>5 DEF LifeInv, RestoreInv
<1> QED
  BY <1>2, <1>4, <1>5 DEF CacheMove

LEMMA SlotNext == TypeOK /\ LifeInv /\ SlotInv /\ [Next]_vars => SlotInv'
<1> SUFFICES ASSUME TypeOK, LifeInv, SlotInv, [Next]_vars PROVE SlotInv'
  OBVIOUS
<1>1. CASE Restart
  BY <1>1 DEF Restart, SlotInv, RevisionsPass, SlotHasAnswer, Present, Empty, Slot
<1>2. CASE ~Restart
  BY <1>2, CacheMoves, MoveKeepsSlots DEF SlotInv
<1> QED
  BY <1>1, <1>2

LEMMA SlotAlways == Spec => []SlotInv
<1>1. Init => SlotInv
  BY SlotInit
<1>2. TypeOK /\ LifeInv /\ SlotInv /\ [Next]_vars => SlotInv'
  BY SlotNext
<1> QED
  BY <1>1, <1>2, LifeAlways, PTL DEF Spec

(* A retained slot always holds an answer, so the unreachable! of          *)
(* inspect_exact is unreachable, through every merge, sweep, supersession, *)
(* eviction and restore (cache/store.rs).                                  *)
THEOREM SlotsHoldAnswers == Spec => []SlotHasAnswer
<1>1. SlotInv => SlotHasAnswer
  BY DEF SlotInv
<1> QED
  BY <1>1, SlotAlways, PTL

-----------------------------------------------------------------------------
(* Part 4: strict callers.                                                 *)

(* A query that has not started has no outcome.                            *)
IdleIsBlank == \A q \in Queries : pc[q] = "idle" => out[q].ans = None

StrictInv == IdleIsBlank /\ StrictAdmission

(* An outcome a strict caller may be given.                                *)
FitFor(c, o) == c.mode = "strict" /\ c.kind = "resolve" /\ o.ans # None => o.strict

LEMMA StrictlyFit ==
    ASSUME NEW c, NEW a, NEW b, NEW n, c.mode = "strict" => b
    PROVE  FitFor(c, Outcome(a, b, n))
BY DEF FitFor, Outcome

LEMMA StrictInit == Init => StrictInv
BY DEF Init, StrictInv, IdleIsBlank, StrictAdmission, NoOutcome

(* A step that gives one started query an outcome fit for it.              *)
LEMMA OneOutcome ==
    ASSUME TypeOK, StrictInv, StartedStays, NEW q \in Queries, NEW o, pc[q] # "idle",
           out' = [out EXCEPT ![q] = o], FitFor(ctx[q], o),
           \A p \in Queries : pc'[p] = "idle" => pc[p] = "idle",
           \A p \in Queries : pc[p] = "idle" => ctx'[p] = ctx[p]
    PROVE  StrictInv'
<1>1. out'[q] = o /\ pc'[q] # "idle" /\ ctx' [q] = ctx[q]
  BY DEF TypeOK, StartedStays
<1>2. \A p \in Queries : p # q => out'[p] = out[p] /\ ctx'[p] = ctx[p]
  BY DEF TypeOK, StartedStays
<1>3. IdleIsBlank'
  BY <1>1, <1>2 DEF StrictInv, IdleIsBlank
<1>4. StrictAdmission'
  BY <1>1, <1>2 DEF StrictInv, StrictAdmission, FitFor
<1> QED
  BY <1>3, <1>4 DEF StrictInv

(* Two queries of one flight want the same admission, and only a refresh   *)
(* has the flight of a refresh.                                            *)
LEMMA SameFlightSameMode ==
    ASSUME TypeOK, NEW p \in Queries, NEW q \in Queries, Flight(p) = Flight(q),
           ctx[p].mode = "strict", ctx[p].kind = "resolve"
    PROVE  ctx[q].mode = "strict" /\ ctx[q].kind = "resolve"
BY DEF TypeOK, Contexts, Flight

LEMMA PublishIsStrict ==
    ASSUME TypeOK, StrictInv, NEW q \in Queries, Publish(q)
    PROVE  StrictInv'
<1>1. ctx' = ctx
  BY DEF Publish
<1>2. ASSUME NEW p \in Queries
      PROVE  \/ out'[p] = out[p]
             \/ out'[p] = out[q] /\ pc[p] = "wait" /\ Flight(p) = Flight(q)
  BY DEF Publish, Waiting
<1>3. \A p \in Queries : pc'[p] = "idle" => pc[p] = "idle"
  BY DEF Publish
<1>4. IdleIsBlank'
  BY <1>2, <1>3 DEF StrictInv, IdleIsBlank
<1>5. StrictAdmission'
  BY <1>1, <1>2, SameFlightSameMode DEF StrictInv, StrictAdmission
<1> QED
  BY <1>4, <1>5 DEF StrictInv

LEMMA StrictNext == TypeOK /\ StrictInv /\ [Next]_vars => StrictInv'
<1> SUFFICES ASSUME TypeOK, StrictInv, [Next]_vars PROVE StrictInv'
  OBVIOUS
<1>0. StartedStays
  BY QueriesStay
<1>1. ASSUME NEW q \in Queries, Resolve(q) PROVE StrictInv'
  <2>1. ASSUME NEW k \in Keys, NEW m \in Modes, Start(q, k, m) PROVE StrictInv'
    <3>1. out' = out /\ pc[q] = "idle" /\ \A p \in Queries : pc'[p] = "idle" => pc[p] = "idle"
      BY <2>1 DEF Start, TypeOK
    <3>2. \A p \in Queries : p # q => ctx'[p] = ctx[p]
      BY <2>1 DEF Start, TypeOK
    <3> QED
      BY <3>1, <3>2 DEF StrictInv, IdleIsBlank, StrictAdmission
  <2>2. ASSUME NEW r \in Queries, SpawnRefresh(q, r) PROVE StrictInv'
    <3>1. ctx'[r].kind = "refresh" /\ pc'[r] = "exchange" /\ pc'[q] # "idle" /\ r # q
      BY <2>2 DEF SpawnRefresh, AfterServe, Context, TypeOK
    <3>2. \A p \in Queries : p # r => out'[p] = out[p] /\ ctx'[p] = ctx[p]
      BY <2>2 DEF SpawnRefresh, TypeOK
    <3>3. \A p \in Queries : p # r /\ p # q => pc'[p] = pc[p]
      BY <2>2 DEF SpawnRefresh, TypeOK
    <3> QED
      BY <3>1, <3>2, <3>3 DEF StrictInv, IdleIsBlank, StrictAdmission
  <2>3. CASE Lookup(q)
    <3>1. pc[q] # "idle" /\ ctx' = ctx /\ \A p \in Queries : pc'[p] = "idle" => pc[p] = "idle"
      BY <2>3 DEF Lookup, Then, TypeOK
    <3>2. CASE out' = out
      BY <3>1, <3>2 DEF StrictInv, IdleIsBlank, StrictAdmission
    <3> DEFINE s == slot[ctx[q].key]
    <3>3. CASE out' = [out EXCEPT ![q] = Outcome(s.neg, TRUE, s.rev)]
      BY <1>0, <3>1, <3>3, StrictlyFit, OneOutcome
    <3>4. CASE /\ out' = [out EXCEPT ![q] = Outcome(s.pos, s.strict, s.rev)]
               /\ ctx[q].mode = "strict" => s.strict
      BY <1>0, <3>1, <3>4, StrictlyFit, OneOutcome
    <3> QED
      BY <2>3, <3>2, <3>3, <3>4 DEF Lookup, PositiveHit, Usable
  <2>4. CASE ServeHit(q) \/ Acquire(q) \/ NoStale(q)
    <3>1. out' = out /\ ctx' = ctx /\ \A p \in Queries : pc'[p] = "idle" => pc[p] = "idle"
      BY <2>4 DEF ServeHit, AfterServe, Acquire, NoStale, TypeOK
    <3> QED
      BY <3>1 DEF StrictInv, IdleIsBlank, StrictAdmission
  <2>5. CASE \/ StorePositive(q) \/ StoreNegative(q) \/ Supersede(q)
             \/ (\E b \in BOOLEAN : Unstored(q, b)) \/ ServeStale(q)
    <3>1. \E o : out' = [out EXCEPT ![q] = o] /\ FitFor(ctx[q], o)
      <4> DEFINE s == slot[ctx[q].key]
      <4>1. \/ out' = [out EXCEPT ![q] = Outcome(q, TRUE, 0)]
            \/ /\ out' = [out EXCEPT ![q] = Outcome(q, FALSE, 0)]
               /\ ctx[q].mode = "compat"
            \/ /\ out' = [out EXCEPT ![q] = Outcome(s.pos, s.strict, s.rev)]
               /\ ctx[q].mode = "strict" => s.strict
        BY <2>5 DEF StorePositive, StoreNegative, Supersede, Unstored, ServeStale, StaleHit,
           Usable
      <4>2. /\ FitFor(ctx[q], Outcome(q, TRUE, 0))
            /\ ctx[q].mode = "compat" => FitFor(ctx[q], Outcome(q, FALSE, 0))
            /\ (ctx[q].mode = "strict" => s.strict)
                 => FitFor(ctx[q], Outcome(s.pos, s.strict, s.rev))
        BY StrictlyFit
      <4> QED
        BY <4>1, <4>2
    <3>2. pc[q] # "idle" /\ ctx' = ctx /\ pc' = [pc EXCEPT ![q] = "publish"]
      BY <2>5 DEF StorePositive, StoreNegative, Supersede, Unstored, ServeStale
    <3>3. \A p \in Queries : pc'[p] = "idle" => pc[p] = "idle"
      BY <3>2 DEF TypeOK
    <3> QED
      BY <1>0, <3>1, <3>2, <3>3, OneOutcome
  <2>6. CASE Publish(q)
    BY <2>6, PublishIsStrict
  <2>7. CASE PublishUntemplated(q) \/ Fail(q)
    <3>1. /\ ctx' = ctx /\ pc[q] # "idle"
          /\ out' = [out EXCEPT ![q] = out[q]] \/ out' = [out EXCEPT ![q] = NoOutcome]
      BY <2>7 DEF PublishUntemplated, Released, Fail
    <3>2. \A p \in Queries : pc'[p] = "idle" => pc[p] = "idle"
      BY <2>7 DEF PublishUntemplated, Released, Fail
    <3>3. FitFor(ctx[q], out[q]) /\ FitFor(ctx[q], NoOutcome)
      BY DEF StrictInv, StrictAdmission, FitFor, NoOutcome
    <3> QED
      BY <1>0, <3>1, <3>2, <3>3, OneOutcome
  <2> QED
    BY <1>1, <2>1, <2>2, <2>3, <2>4, <2>5, <2>6, <2>7 DEF Resolve
<1>2. ASSUME NEW q \in Queries, Cancel(q) PROVE StrictInv'
  <2>1. /\ ctx' = ctx /\ pc[q] # "idle" /\ out' = [out EXCEPT ![q] = NoOutcome]
        /\ \A p \in Queries : pc'[p] = "idle" => pc[p] = "idle"
    BY <1>2 DEF Cancel, Released
  <2>2. FitFor(ctx[q], NoOutcome)
    BY DEF FitFor, NoOutcome
  <2> QED
    BY <1>0, <2>1, <2>2, OneOutcome
<1>3. CASE \/ \E k \in Keys : AgePositive(k) \/ AgeNegative(k)
           \/ Reserve \/ Invalidate \/ InvalidateReturns \/ InvalidateDropped
           \/ Actor \/ Shutdown \/ UNCHANGED vars
  <2>1. pc' = pc /\ ctx' = ctx /\ out' = out
    BY <1>3 DEF AgePositive, AgeNegative, Reserve, Invalidate, RaiseFence, InvalidateReturns,
         InvalidateDropped, LowerFence, Actor, Tick, ReceivePut, ReceiveFlush,
         ReceiveInvalidate, ReceiveShutdown, RestoreRow, InstallPersister, Shutdown,
         vars, queryVars
  <2> QED
    BY <2>1 DEF StrictInv, IdleIsBlank, StrictAdmission
<1>4. CASE Restart
  <2>1. \A p \in Queries : /\ ctx'[p] = ctx[p]
                           /\ out'[p] = out[p] \/ out'[p] = NoOutcome
                           /\ pc'[p] = "idle" => pc[p] = "idle"
    BY <1>4 DEF Restart
  <2> QED
    BY <2>1 DEF StrictInv, IdleIsBlank, StrictAdmission, NoOutcome
<1> QED
  BY <1>1, <1>2, <1>3, <1>4 DEF Next

(* A strict query is only ever given an answer that passed strict          *)
(* admission in this process, from the cache, from a stale entry or from   *)
(* the flight it joined, for any mix of modes (FlightKey::resolve).        *)
THEOREM StrictAnswers == Spec => []StrictAdmission
<1>1. Init => StrictInv
  BY StrictInit
<1>2. TypeOK /\ StrictInv /\ [Next]_vars => StrictInv'
  BY StrictNext
<1>3. StrictInv => StrictAdmission
  BY DEF StrictInv
<1> QED
  BY <1>1, <1>2, <1>3, TypeCorrect, PTL DEF Spec

-----------------------------------------------------------------------------
(* Part 5: refreshes.                                                      *)

(* While the slot of k has revision rev and a positive answer, that is a.  *)
SeenAt(k, rev, a) ==
    /\ rev < revision
    /\ slot[k].rev = rev /\ slot[k].pos # None => slot[k].pos = a

(* A hit remembers what it saw, and the refresh it spawns inherits it.     *)
HitSeen(q) ==
    pc[q] \in {"hit", "leadhit"} => SeenAt(ctx[q].key, out[q].rev, out[q].ans)
RefreshSeen(q) ==
    ctx[q].kind = "refresh" /\ pc[q] \in {"exchange", "servfail"}
        => SeenAt(ctx[q].key, ctx[q].rev, out[q].ans)

(* A refresh starts at its exchange and never looks up or waits.           *)
RefreshPath(q) ==
    ctx[q].kind = "refresh" => pc[q] \in {"exchange", "servfail", "publish", "done"}

HitInv == \A q \in Queries : HitSeen(q) /\ RefreshSeen(q) /\ RefreshPath(q)

LEMMA HitInit == Init => HitInv
BY DEF Init, HitInv, HitSeen, RefreshSeen, RefreshPath, NoContext, Context

(* The same in the state after a step.                                     *)
SeenAfter(k, rev, a) ==
    /\ rev < revision'
    /\ slot'[k].rev = rev /\ slot'[k].pos # None => slot'[k].pos = a

(* A revision is never given out twice, so what was seen stays true.       *)
LEMMA SeenStays ==
    ASSUME TypeOK, SlotInv, CacheMove, NEW k \in Keys, NEW rev \in Nat, NEW a,
           SeenAt(k, rev, a)
    PROVE  SeenAfter(k, rev, a)
<1>1. revision \in Nat /\ slot[k].rev \in Nat /\ slot[k].rev < revision /\ rev < revision
  BY DEF TypeOK, Slots, SlotInv, RevisionsPass, SeenAt
<1>2. CASE Fades(slot[k], slot'[k]) /\ revision' \in {revision, revision + 1}
  BY <1>1, <1>2 DEF Fades, SeenAt, SeenAfter, Present
<1>3. CASE slot'[k].rev = revision /\ revision' = revision + 1
  BY <1>1, <1>3 DEF SeenAfter
<1> QED
  BY <1>2, <1>3 DEF CacheMove, SlotsFade, Stores

(* What a step may do to a query without having anything to show.          *)
Unsurprising(p) ==
    /\ ctx'[p] = ctx[p]
    /\ pc'[p] \in {"hit", "leadhit"} => pc[p] \in {"hit", "leadhit"} /\ out'[p] = out[p]
    /\ ctx[p].kind = "refresh" =>
         /\ pc'[p] \in {"exchange", "servfail", "publish", "done"}
         /\ pc'[p] \in {"exchange", "servfail"} =>
              pc[p] \in {"exchange", "servfail"} /\ out'[p] = out[p]

LEMMA UnsurprisingKeeps ==
    ASSUME TypeOK, SlotInv, HitInv, CacheMove, NEW p \in Queries, Unsurprising(p)
    PROVE  (HitSeen(p) /\ RefreshSeen(p) /\ RefreshPath(p))'
<1>1. /\ ctx[p].key \in Keys /\ ctx[p].rev \in Nat /\ out[p].rev \in Nat
  BY DEF TypeOK, Contexts, Outcomes
<1>2. HitSeen(p)'
  <2>1. pc'[p] \in {"hit", "leadhit"} => SeenAfter(ctx[p].key, out[p].rev, out[p].ans)
    BY <1>1, SeenStays DEF Unsurprising, HitInv, HitSeen
  <2> QED
    BY <2>1 DEF Unsurprising, HitSeen, SeenAt, SeenAfter
<1>3. RefreshSeen(p)'
  <2>1. ctx[p].kind = "refresh" /\ pc'[p] \in {"exchange", "servfail"}
          => SeenAfter(ctx[p].key, ctx[p].rev, out[p].ans)
    BY <1>1, SeenStays DEF Unsurprising, HitInv, RefreshSeen
  <2> QED
    BY <2>1 DEF Unsurprising, RefreshSeen, SeenAt, SeenAfter
<1> QED
  BY <1>2, <1>3 DEF Unsurprising, RefreshPath

(* Every query of a step that shows nothing new.                           *)
LEMMA AllUnsurprising ==
    ASSUME TypeOK, SlotInv, HitInv, CacheMove, \A p \in Queries : Unsurprising(p)
    PROVE  HitInv'
<1>1. \A p \in Queries : (HitSeen(p) /\ RefreshSeen(p) /\ RefreshPath(p))'
  BY UnsurprisingKeeps
<1> QED
  BY <1>1 DEF HitInv

(* The query that looks up remembers the revision and the answer it read.  *)
LEMMA LookupSees ==
    ASSUME TypeOK, SlotInv, HitInv, CacheMove, NEW q \in Queries, Lookup(q)
    PROVE  HitInv'
<1>0. ctx' = ctx /\ ctx[q].key \in Keys /\ revision' = revision
  BY DEF Lookup, TypeOK, Contexts
<1>1. \A p \in Queries : p # q => Unsurprising(p)
  <2>1. \A p \in Queries : p # q => pc'[p] = pc[p] /\ out'[p] = out[p]
    BY DEF Lookup, TypeOK
  <2> QED
    BY <1>0, <2>1 DEF Unsurprising, HitInv, RefreshPath
<1>2. ctx[q].kind # "refresh"
  BY DEF Lookup, HitInv, RefreshPath
<1>3. CASE pc'[q] \notin {"hit", "leadhit"}
  BY <1>0, <1>1, <1>2, <1>3, AllUnsurprising DEF Unsurprising
<1>4. CASE pc'[q] \in {"hit", "leadhit"}
  <2> DEFINE s == slot[ctx[q].key]
  <2>1. out' = [out EXCEPT ![q] = Outcome(s.pos, s.strict, s.rev)]
    BY <1>4 DEF Lookup, Then, TypeOK
  <2>2. out'[q].rev = s.rev /\ out'[q].ans = s.pos
    BY <2>1 DEF TypeOK, Outcome
  <2>3. s.rev \in Nat /\ SeenAt(ctx[q].key, s.rev, s.pos)
    BY <1>0 DEF SeenAt, SlotInv, RevisionsPass, TypeOK, Slots
  <2>4. SeenAfter(ctx[q].key, s.rev, s.pos)
    BY <1>0, <2>3, SeenStays
  <2>5. (HitSeen(q) /\ RefreshSeen(q) /\ RefreshPath(q))'
    BY <1>0, <1>2, <2>2, <2>4 DEF HitSeen, RefreshSeen, RefreshPath, SeenAt, SeenAfter
  <2>6. \A p \in Queries : p # q => (HitSeen(p) /\ RefreshSeen(p) /\ RefreshPath(p))'
    BY <1>1, UnsurprisingKeeps
  <2> QED
    BY <2>5, <2>6 DEF HitInv
<1> QED
  BY <1>3, <1>4

LEMMA SpawnInherits ==
    ASSUME TypeOK, SlotInv, HitInv, CacheMove, NEW q \in Queries, NEW r \in Queries,
           SpawnRefresh(q, r)
    PROVE  HitInv'
<1>1. /\ r # q /\ ctx'[r] = Context(ctx[q].key, ctx[q].mode, "refresh", ctx[q].epoch, out[q].rev)
      /\ pc'[r] = "exchange" /\ out'[r] = out[q] /\ ctx'[q] = ctx[q] /\ out'[q] = out[q]
      /\ pc'[q] \in {"done", "serve"} /\ pc[q] \in {"hit", "leadhit"}
  BY DEF SpawnRefresh, AfterServe, TypeOK
<1>2. \A p \in Queries : p # q /\ p # r => pc'[p] = pc[p] /\ ctx'[p] = ctx[p] /\ out'[p] = out[p]
  BY DEF SpawnRefresh, TypeOK
<1>3. \A p \in Queries : p # r => Unsurprising(p)
  BY <1>1, <1>2 DEF Unsurprising, HitInv, RefreshPath
<1>4. SeenAfter(ctx[q].key, out[q].rev, out[q].ans)
  BY <1>1, SeenStays DEF HitInv, HitSeen, TypeOK, Contexts, Outcomes
<1>5. (HitSeen(r) /\ RefreshSeen(r) /\ RefreshPath(r))'
  BY <1>1, <1>4 DEF HitSeen, RefreshSeen, RefreshPath, SeenAt, SeenAfter, Context
<1>6. \A p \in Queries : p # r => (HitSeen(p) /\ RefreshSeen(p) /\ RefreshPath(p))'
  BY <1>3, UnsurprisingKeeps
<1> QED
  BY <1>5, <1>6 DEF HitInv

LEMMA HitNext == TypeOK /\ SlotInv /\ HitInv /\ [Next]_vars => HitInv'
<1> SUFFICES ASSUME TypeOK, SlotInv, HitInv, [Next]_vars PROVE HitInv'
  OBVIOUS
<1>0. CASE Restart
  BY <1>0 DEF Restart, HitInv, HitSeen, RefreshSeen, RefreshPath
<1>1. SUFFICES ASSUME ~Restart PROVE HitInv'
  BY <1>0
<1>2. CacheMove
  BY <1>1, CacheMoves DEF SlotInv
<1>3. ASSUME NEW q \in Queries, Resolve(q) PROVE HitInv'
  <2>1. CASE Lookup(q)
    BY <1>2, <2>1, LookupSees
  <2>2. CASE \E r \in Queries : SpawnRefresh(q, r)
    BY <1>2, <2>2, SpawnInherits
  <2>3. ASSUME NEW k \in Keys, NEW m \in Modes, Start(q, k, m) PROVE HitInv'
    <3>1. /\ \A p \in Queries : p # q => pc'[p] = pc[p] /\ ctx'[p] = ctx[p] /\ out'[p] = out[p]
          /\ pc'[q] = "lookup" /\ ctx'[q].kind = "resolve"
      BY <2>3 DEF Start, Context, TypeOK
    <3>2. \A p \in Queries : p # q => Unsurprising(p)
      BY <3>1 DEF Unsurprising, HitInv, RefreshPath
    <3>3. (HitSeen(q) /\ RefreshSeen(q) /\ RefreshPath(q))'
      BY <3>1 DEF HitSeen, RefreshSeen, RefreshPath
    <3> QED
      BY <1>2, <3>2, <3>3, UnsurprisingKeeps DEF HitInv
  <2>4. CASE ServeHit(q) \/ Acquire(q)
    <3>1. \A p \in Queries : Unsurprising(p)
      BY <2>4 DEF ServeHit, AfterServe, Acquire, Unsurprising, HitInv, RefreshPath, TypeOK
    <3> QED
      BY <1>2, <3>1, AllUnsurprising
  <2>5. CASE \/ StorePositive(q) \/ StoreNegative(q) \/ Supersede(q)
             \/ (\E b \in BOOLEAN : Unstored(q, b)) \/ ServeStale(q)
    <3>1. /\ ctx' = ctx /\ pc' = [pc EXCEPT ![q] = "publish"]
          /\ \E o : out' = [out EXCEPT ![q] = o]
      BY <2>5 DEF StorePositive, StoreNegative, Supersede, Unstored, ServeStale
    <3>2. \A p \in Queries : Unsurprising(p)
      BY <3>1 DEF Unsurprising, HitInv, RefreshPath, TypeOK
    <3> QED
      BY <1>2, <3>2, AllUnsurprising
  <2>6. CASE NoStale(q)
    <3>1. \A p \in Queries : Unsurprising(p)
      BY <2>6 DEF NoStale, Unsurprising, HitInv, RefreshPath, TypeOK
    <3> QED
      BY <1>2, <3>1, AllUnsurprising
  <2>7. CASE Publish(q) \/ PublishUntemplated(q) \/ Fail(q)
    <3>1. /\ ctx' = ctx
          /\ \A p \in Queries :
                \/ pc'[p] = pc[p] /\ out'[p] = out[p]
                \/ pc'[p] = "done"
                \/ pc[p] = "wait" /\ pc'[p] \in {"told", "acquire"}
      BY <2>7 DEF Publish, PublishUntemplated, Released, Fail, Waiting, TypeOK
    <3>2. \A p \in Queries : Unsurprising(p)
      BY <3>1 DEF Unsurprising, HitInv, RefreshPath
    <3> QED
      BY <1>2, <3>2, AllUnsurprising
  <2> QED
    BY <1>3, <2>1, <2>2, <2>3, <2>4, <2>5, <2>6, <2>7 DEF Resolve
<1>4. ASSUME NEW q \in Queries, Cancel(q) PROVE HitInv'
  <2>1. /\ ctx' = ctx
        /\ \A p \in Queries :
              \/ pc'[p] = pc[p] /\ out'[p] = out[p]
              \/ pc'[p] = "done"
              \/ pc[p] = "wait" /\ pc'[p] \in {"told", "acquire"}
    BY <1>4 DEF Cancel, Released, Waiting, TypeOK
  <2>2. \A p \in Queries : Unsurprising(p)
    BY <2>1 DEF Unsurprising, HitInv, RefreshPath
  <2> QED
    BY <1>2, <2>2, AllUnsurprising
<1>5. CASE \/ \E k \in Keys : AgePositive(k) \/ AgeNegative(k)
           \/ Reserve \/ Invalidate \/ InvalidateReturns \/ InvalidateDropped
           \/ Actor \/ Shutdown \/ UNCHANGED vars
  <2>1. pc' = pc /\ ctx' = ctx /\ out' = out
    BY <1>5 DEF AgePositive, AgeNegative, Reserve, Invalidate, RaiseFence, InvalidateReturns,
         InvalidateDropped, LowerFence, Actor, Tick, ReceivePut, ReceiveFlush,
         ReceiveInvalidate, ReceiveShutdown, RestoreRow, InstallPersister, Shutdown,
         vars, queryVars
  <2>2. \A p \in Queries : Unsurprising(p)
    BY <2>1 DEF Unsurprising, HitInv, RefreshPath
  <2> QED
    BY <1>2, <2>2, AllUnsurprising
<1> QED
  BY <1>1, <1>3, <1>4, <1>5 DEF Next

(* Only a query's own publication moves it from its exchange to publish.   *)
LEMMA PublishesItself ==
    ASSUME TypeOK, [Next]_vars, NEW r \in Queries,
           pc[r] \in {"exchange", "servfail"}, pc'[r] = "publish"
    PROVE  \/ StorePositive(r) \/ StoreNegative(r) \/ Supersede(r)
           \/ (\E b \in BOOLEAN : Unstored(r, b)) \/ ServeStale(r)
<1>1. ASSUME NEW q \in Queries, Resolve(q)
      PROVE  q = r /\ (\/ StorePositive(r) \/ StoreNegative(r) \/ Supersede(r)
                       \/ (\E b \in BOOLEAN : Unstored(r, b)) \/ ServeStale(r))
  <2>1. CASE \/ \E k \in Keys, m \in Modes : Start(q, k, m)
             \/ Lookup(q) \/ ServeHit(q) \/ Acquire(q) \/ NoStale(q)
    BY <2>1 DEF Start, Lookup, Then, ServeHit, AfterServe, Acquire, NoStale, TypeOK
  <2>2. CASE \E p \in Queries : SpawnRefresh(q, p)
    BY <2>2 DEF SpawnRefresh, AfterServe, TypeOK
  <2>3. CASE Publish(q) \/ PublishUntemplated(q) \/ Fail(q)
    BY <2>3 DEF Publish, PublishUntemplated, Released, Fail, TypeOK
  <2>4. CASE \/ StorePositive(q) \/ StoreNegative(q) \/ Supersede(q)
             \/ (\E b \in BOOLEAN : Unstored(q, b)) \/ ServeStale(q)
    <3>1. pc' = [pc EXCEPT ![q] = "publish"]
      BY <2>4 DEF StorePositive, StoreNegative, Supersede, Unstored, ServeStale
    <3>2. q = r
      BY <3>1 DEF TypeOK
    <3> QED
      BY <2>4, <3>2
  <2> QED
    BY <1>1, <2>1, <2>2, <2>3, <2>4 DEF Resolve
<1>2. ASSUME NEW q \in Queries, Cancel(q) PROVE FALSE
  BY <1>2 DEF Cancel, Released, TypeOK
<1>3. CASE \/ \E k \in Keys : AgePositive(k) \/ AgeNegative(k)
           \/ Reserve \/ Invalidate \/ InvalidateReturns \/ InvalidateDropped
           \/ Actor \/ Shutdown \/ UNCHANGED vars
  <2>1. pc' = pc
    BY <1>3 DEF AgePositive, AgeNegative, Reserve, Invalidate, RaiseFence, InvalidateReturns,
         InvalidateDropped, LowerFence, Actor, Tick, ReceivePut, ReceiveFlush,
         ReceiveInvalidate, ReceiveShutdown, RestoreRow, InstallPersister, Shutdown,
         vars, queryVars
  <2> QED
    BY <2>1
<1>4. CASE Restart
  BY <1>4 DEF Restart
<1> QED
  BY <1>1, <1>2, <1>3, <1>4 DEF Next

LEMMA RefreshStep ==
    ASSUME TypeOK, HitInv, [Next]_vars, NEW r \in Queries, ctx[r].kind = "refresh",
           pc[r] \in {"exchange", "servfail"}, pc'[r] = "publish",
           slot'[ctx[r].key] # slot[ctx[r].key]
    PROVE  slot[ctx[r].key].pos = out[r].ans
<1>1. Admits(r)
  BY PublishesItself
     DEF StorePositive, StoreNegative, Supersede, Unstored, ServeStale, cacheVars
<1>2. slot[ctx[r].key].rev = ctx[r].rev /\ slot[ctx[r].key].pos # None
  BY <1>1 DEF Admits
<1>3. SeenAt(ctx[r].key, ctx[r].rev, out[r].ans)
  BY DEF HitInv, RefreshSeen
<1> QED
  BY <1>2, <1>3 DEF SeenAt

(* A background refresh only changes a slot that still holds the answer    *)
(* whose hit spawned it, however many publications, negatives, evictions   *)
(* and restores the slot went through meanwhile (cache/store.rs).          *)
THEOREM RefreshesReplace == Spec => RefreshReplacesWhatItSaw
<1>1. Init => HitInv
  BY HitInit
<1>2. TypeOK /\ SlotInv /\ HitInv /\ [Next]_vars => HitInv'
  BY HitNext
<1>3. TypeOK /\ HitInv /\ [Next]_vars =>
        [\A r \in Queries :
           /\ ctx[r].kind = "refresh"
           /\ pc[r] \in {"exchange", "servfail"} /\ pc'[r] = "publish"
           /\ slot'[ctx[r].key] # slot[ctx[r].key]
           => slot[ctx[r].key].pos = out[r].ans]_vars
  BY RefreshStep
<1> QED
  BY <1>1, <1>2, <1>3, TypeCorrect, SlotAlways, PTL DEF Spec, RefreshReplacesWhatItSaw

-----------------------------------------------------------------------------
(* Part 6: the persistence actor.                                          *)

IsPut(c) == c.t = "put"
IsBarrier(c) == c.t \in {"flush", "invalidate"}

(* Nothing in a channel is newer than the persister's epoch top, nor older *)
(* than the actor w.                                                       *)
EpochsBetween(ch, w, top) ==
    /\ w.active <= top
    /\ \A i \in DOMAIN ch :
          /\ IsPut(ch[i]) => w.active <= ch[i].epoch
          /\ IsBarrier(ch[i]) => w.active < ch[i].epoch
          /\ IsPut(ch[i]) \/ IsBarrier(ch[i]) => ch[i].epoch <= top

(* What is queued behind a barrier is of its epoch or a later one.         *)
BarriersAscend(ch) ==
    \A i, j \in DOMAIN ch : i < j /\ IsBarrier(ch[i]) =>
        /\ IsBarrier(ch[j]) => ch[i].epoch < ch[j].epoch
        /\ IsPut(ch[j]) => ch[i].epoch <= ch[j].epoch

(* Every epoch in use is the actor's or was opened by a queued barrier.    *)
OpenedBefore(ch, w, e, n) ==
    \/ e = w.active
    \/ \E j \in DOMAIN ch : j < n /\ IsBarrier(ch[j]) /\ ch[j].epoch = e

PutsFollowTheirBarrier(ch, w) ==
    \A i \in DOMAIN ch : IsPut(ch[i]) => OpenedBefore(ch, w, ch[i].epoch, i)

LastEpochIsQueued(ch, w, top) == w.st # "stopped" => OpenedBefore(ch, w, top, Len(ch) + 1)

QuietUnlessRunning(ch, w) == w.st # "run" => ch = <<>>

ChanOK(ch, w, top) ==
    /\ EpochsBetween(ch, w, top) /\ BarriersAscend(ch) /\ PutsFollowTheirBarrier(ch, w)
    /\ LastEpochIsQueued(ch, w, top) /\ QuietUnlessRunning(ch, w)

(* A pending row is of the actor's epoch, and no row has none.             *)
RowsInStep ==
    \A k \in Keys : pending[k].epoch = IF pending[k].ans = None THEN 0 ELSE worker.active

StepInv == ChanOK(commands, worker, pepoch) /\ RowsInStep

LEMMA StepImpliesInStep ==
    ASSUME TypeOK, StepInv
    PROVE  ActorInStep
<1>1. /\ \A i \in DOMAIN commands :
            /\ IsPut(commands[i]) => worker.active <= commands[i].epoch
            /\ IsBarrier(commands[i]) => worker.active < commands[i].epoch
  BY DEF StepInv, ChanOK, EpochsBetween
<1>2. worker.active \in Nat
  BY DEF TypeOK, Workers
<1>3. \A k \in PendingKeys : pending[k].epoch = worker.active
  BY DEF StepInv, RowsInStep, PendingKeys
<1>4. \A i \in DOMAIN commands :
         IsPut(commands[i]) \/ IsBarrier(commands[i]) => commands[i].epoch \in Nat
  <2>1. \A i \in DOMAIN commands : commands[i] \in Commands
    BY DEF TypeOK
  <2> QED
    BY <2>1 DEF Commands, Puts, Barriers, IsPut, IsBarrier
<1> QED
  BY <1>1, <1>2, <1>3, <1>4 DEF ActorInStep, IsPut, IsBarrier

(* The empty channel of a new process.                                     *)
LEMMA EmptyChannel ==
    ASSUME NEW w \in Workers, NEW top \in Nat, w.active <= top,
           w.st # "stopped" => w.active = top
    PROVE  ChanOK(<<>>, w, top)
BY DEF ChanOK, EpochsBetween, BarriersAscend, PutsFollowTheirBarrier, OpenedBefore,
   LastEpochIsQueued, QuietUnlessRunning, Workers

LEMMA StepInit == Init => StepInv
<1> SUFFICES ASSUME Init PROVE StepInv
  OBVIOUS
<1>1. commands = <<>> /\ worker \in Workers /\ pepoch = 0 /\ worker.active = 0
  BY DEF Init, Working, Workers
<1>2. RowsInStep
  BY DEF Init, RowsInStep, NoRow
<1> QED
  BY <1>1, <1>2, EmptyChannel DEF StepInv

(* What the elements of a channel are made of.                             *)
LEMMA CommandFields ==
    ASSUME NEW c \in Commands
    PROVE  /\ IsPut(c) => c.epoch \in Nat /\ c.key \in Keys /\ c.ans \in Queries
           /\ IsBarrier(c) => c.epoch \in Nat /\ c.keys \in SUBSET Keys
BY DEF Commands, Puts, Barriers, IsPut, IsBarrier

(* What is at each place of a channel that grew, or lost its head.         *)
LEMMA AppendPlaces ==
    ASSUME NEW ch \in Seq(Commands), NEW c
    PROVE  /\ Len(ch) \in Nat /\ DOMAIN ch = 1..Len(ch)
           /\ DOMAIN Append(ch, c) = 1..(Len(ch) + 1)
           /\ Append(ch, c)[Len(ch) + 1] = c
           /\ \A i \in 1..Len(ch) : Append(ch, c)[i] = ch[i]
           /\ Len(Append(ch, c)) = Len(ch) + 1
OBVIOUS

LEMMA TailPlaces ==
    ASSUME NEW ch \in Seq(Commands), ch # <<>>
    PROVE  /\ Len(ch) \in Nat /\ Len(ch) > 0 /\ DOMAIN ch = 1..Len(ch)
           /\ DOMAIN Tail(ch) = 1..(Len(ch) - 1)
           /\ \A i \in 1..(Len(ch) - 1) : Tail(ch)[i] = ch[i + 1]
           /\ Len(Tail(ch)) = Len(ch) - 1
           /\ Head(ch) = ch[1]
OBVIOUS

(* What is open stays open when the channel grows.                         *)
LEMMA OpenStaysOpen ==
    ASSUME NEW ch \in Seq(Commands), NEW w, NEW c, NEW e, NEW m \in Nat,
           OpenedBefore(ch, w, e, m)
    PROVE  OpenedBefore(Append(ch, c), w, e, m)
BY AppendPlaces DEF OpenedBefore

(* Puts keep their barriers whatever is queued behind them.                *)
LEMMA AppendKeepsPuts ==
    ASSUME NEW ch \in Seq(Commands), NEW w, NEW c, PutsFollowTheirBarrier(ch, w),
           IsPut(c) => OpenedBefore(ch, w, c.epoch, Len(ch) + 1)
    PROVE  PutsFollowTheirBarrier(Append(ch, c), w)
<1> DEFINE n == Len(ch)
           d == Append(ch, c)
<1>1. /\ n \in Nat /\ DOMAIN ch = 1..n /\ DOMAIN d = 1..(n + 1)
      /\ d[n + 1] = c /\ \A i \in 1..n : d[i] = ch[i]
  BY AppendPlaces
<1>2. ASSUME NEW i \in 1..n, IsPut(d[i]) PROVE OpenedBefore(d, w, d[i].epoch, i)
  <2>1. OpenedBefore(ch, w, ch[i].epoch, i)
    BY <1>1, <1>2 DEF PutsFollowTheirBarrier
  <2> QED
    BY <1>1, <2>1, OpenStaysOpen
<1>3. ASSUME IsPut(d[n + 1]) PROVE OpenedBefore(d, w, d[n + 1].epoch, n + 1)
  BY <1>1, <1>3, OpenStaysOpen
<1> QED
  BY <1>1, <1>2, <1>3 DEF PutsFollowTheirBarrier

(* Save: a put of the persister's epoch is queued.                         *)
LEMMA AppendPut ==
    ASSUME NEW ch \in Seq(Commands), NEW w \in Workers, NEW top \in Nat, ChanOK(ch, w, top),
           w.st = "run", NEW c, IsPut(c), c.epoch = top
    PROVE  ChanOK(Append(ch, c), w, top)
<1> DEFINE n == Len(ch)
           d == Append(ch, c)
<1>1. /\ n \in Nat /\ DOMAIN ch = 1..n /\ DOMAIN d = 1..(n + 1)
      /\ d[n + 1] = c /\ (\A i \in 1..n : d[i] = ch[i]) /\ Len(d) = n + 1
  BY AppendPlaces
<1>2. /\ w.active \in Nat
      /\ \A i \in 1..n : IsPut(ch[i]) \/ IsBarrier(ch[i]) => ch[i].epoch \in Nat
  BY <1>1, CommandFields DEF Workers
<1>3. ~IsBarrier(c)
  BY DEF IsPut, IsBarrier
<1>4. OpenedBefore(ch, w, top, n + 1)
  BY DEF ChanOK, LastEpochIsQueued
<1>5. PutsFollowTheirBarrier(d, w)
  BY <1>4, AppendKeepsPuts DEF ChanOK
<1>6. OpenedBefore(d, w, top, n + 2)
  BY <1>1, <1>4 DEF OpenedBefore
<1> HIDE DEF n, d
<1>7. EpochsBetween(d, w, top)
  BY <1>1, <1>2, <1>3 DEF ChanOK, EpochsBetween
<1>8. BarriersAscend(d)
  BY <1>1, <1>2, <1>3 DEF ChanOK, EpochsBetween, BarriersAscend
<1> QED
  BY <1>1, <1>5, <1>6, <1>7, <1>8 DEF ChanOK, LastEpochIsQueued, QuietUnlessRunning, d

(* An invalidation queues its barrier, which opens the next epoch.         *)
LEMMA AppendBarrier ==
    ASSUME NEW ch \in Seq(Commands), NEW w \in Workers, NEW top \in Nat, ChanOK(ch, w, top),
           w.st = "run", NEW c, IsBarrier(c), c.epoch = top + 1
    PROVE  ChanOK(Append(ch, c), w, top + 1)
<1> DEFINE n == Len(ch)
           d == Append(ch, c)
<1>1. /\ n \in Nat /\ DOMAIN ch = 1..n /\ DOMAIN d = 1..(n + 1)
      /\ d[n + 1] = c /\ (\A i \in 1..n : d[i] = ch[i]) /\ Len(d) = n + 1
  BY AppendPlaces
<1>2. /\ w.active \in Nat
      /\ \A i \in 1..n : IsPut(ch[i]) \/ IsBarrier(ch[i]) => ch[i].epoch \in Nat
  BY <1>1, CommandFields DEF Workers
<1>3. ~IsPut(c)
  BY DEF IsPut, IsBarrier
<1>4. PutsFollowTheirBarrier(d, w)
  BY <1>3, AppendKeepsPuts DEF ChanOK
<1>5. OpenedBefore(d, w, top + 1, n + 2)
  BY <1>1 DEF OpenedBefore
<1> HIDE DEF n, d
<1>6. EpochsBetween(d, w, top + 1)
  BY <1>1, <1>2, <1>3 DEF ChanOK, EpochsBetween
<1>7. BarriersAscend(d)
  BY <1>1, <1>2, <1>3 DEF ChanOK, EpochsBetween, BarriersAscend
<1> QED
  BY <1>1, <1>4, <1>5, <1>6, <1>7 DEF ChanOK, LastEpochIsQueued, QuietUnlessRunning, d

(* The shutdown command has no epoch.                                      *)
LEMMA AppendShutdown ==
    ASSUME NEW ch \in Seq(Commands), NEW w \in Workers, NEW top \in Nat, ChanOK(ch, w, top),
           w.st = "run", NEW c, ~IsPut(c), ~IsBarrier(c)
    PROVE  ChanOK(Append(ch, c), w, top)
<1> DEFINE n == Len(ch)
           d == Append(ch, c)
<1>1. /\ n \in Nat /\ DOMAIN ch = 1..n /\ DOMAIN d = 1..(n + 1)
      /\ d[n + 1] = c /\ (\A i \in 1..n : d[i] = ch[i]) /\ Len(d) = n + 1
  BY AppendPlaces
<1>2. PutsFollowTheirBarrier(d, w)
  BY AppendKeepsPuts DEF ChanOK
<1>3. OpenedBefore(d, w, top, n + 2)
  BY <1>1 DEF ChanOK, LastEpochIsQueued, OpenedBefore
<1> HIDE DEF n, d
<1>4. EpochsBetween(d, w, top)
  BY <1>1 DEF ChanOK, EpochsBetween
<1>5. BarriersAscend(d)
  BY <1>1 DEF ChanOK, BarriersAscend
<1> QED
  BY <1>1, <1>2, <1>3, <1>4, <1>5 DEF ChanOK, LastEpochIsQueued, QuietUnlessRunning, d

(* The actor takes the head of the channel.  A put was of its epoch; after *)
(* a barrier, v, the actor is in the barrier's epoch.                      *)
LEMMA PopHead ==
    ASSUME NEW ch \in Seq(Commands), NEW w \in Workers, NEW v \in Workers, NEW top \in Nat,
           ChanOK(ch, w, top), ch # <<>>, w.st = "run", v.st = "run",
           \/ IsPut(Head(ch)) /\ v = w
           \/ IsBarrier(Head(ch)) /\ v.active = Head(ch).epoch
    PROVE  /\ ChanOK(Tail(ch), v, top)
           /\ IsPut(Head(ch)) => Head(ch).epoch = w.active
           /\ IsBarrier(Head(ch)) => w.active < Head(ch).epoch
<1> DEFINE n == Len(ch)
           d == Tail(ch)
<1>1. /\ n \in Nat /\ n > 0 /\ DOMAIN ch = 1..n /\ DOMAIN d = 1..(n - 1)
      /\ (\A i \in 1..(n - 1) : d[i] = ch[i + 1]) /\ Len(d) = n - 1 /\ Head(ch) = ch[1]
  BY TailPlaces
<1>2. /\ w.active \in Nat /\ v.active \in Nat
      /\ \A i \in 1..n : IsPut(ch[i]) \/ IsBarrier(ch[i]) => ch[i].epoch \in Nat
  BY <1>1, CommandFields DEF Workers
<1>3. \A c : ~(IsPut(c) /\ IsBarrier(c))
  BY DEF IsPut, IsBarrier
<1>4. ASSUME NEW e, NEW m \in 1..(n + 1), m > 1, OpenedBefore(ch, w, e, m),
             e >= v.active
      PROVE  OpenedBefore(d, v, e, m - 1)
  <2>1. CASE e = w.active
    BY <1>1, <1>2, <1>4, <2>1 DEF OpenedBefore, ChanOK, EpochsBetween
  <2>2. ASSUME NEW j \in 1..n, j < m, IsBarrier(ch[j]), ch[j].epoch = e
        PROVE  OpenedBefore(d, v, e, m - 1)
    <3>1. CASE j = 1
      BY <1>1, <1>3, <2>2, <3>1 DEF OpenedBefore
    <3>2. CASE j > 1
      <4>1. j - 1 \in 1..(n - 1) /\ d[j - 1] = ch[j] /\ j - 1 < m - 1
        BY <1>1, <2>2, <3>2
      <4> QED
        BY <1>1, <2>2, <4>1 DEF OpenedBefore
    <3> QED
      BY <2>2, <3>1, <3>2
  <2> QED
    BY <1>1, <1>4, <2>1, <2>2 DEF OpenedBefore
<1> HIDE DEF n, d
<1>5. ASSUME NEW i \in 2..n
      PROVE  /\ IsPut(ch[i]) => v.active <= ch[i].epoch
             /\ IsBarrier(ch[i]) => v.active < ch[i].epoch
             /\ IsPut(ch[i]) \/ IsBarrier(ch[i]) => ch[i].epoch <= top
  <2>1. i \in DOMAIN ch /\ 1 \in DOMAIN ch /\ 1 < i
    BY <1>1
  <2>2. CASE IsPut(Head(ch)) /\ v = w
    BY <2>1, <2>2 DEF ChanOK, EpochsBetween
  <2>3. CASE IsBarrier(Head(ch)) /\ v.active = Head(ch).epoch
    <3>1. /\ IsBarrier(ch[i]) => ch[1].epoch < ch[i].epoch
          /\ IsPut(ch[i]) => ch[1].epoch <= ch[i].epoch
      BY <1>1, <2>1, <2>3 DEF ChanOK, BarriersAscend
    <3>2. IsPut(ch[i]) \/ IsBarrier(ch[i]) => ch[i].epoch <= top
      BY <2>1 DEF ChanOK, EpochsBetween
    <3> QED
      BY <1>1, <2>3, <3>1, <3>2
  <2> QED
    BY <2>2, <2>3
<1>6. EpochsBetween(d, v, top)
  <2>1. v.active <= top
    BY <1>1 DEF ChanOK, EpochsBetween
  <2>2. \A i \in 1..(n - 1) : d[i] = ch[i + 1] /\ i + 1 \in 2..n
    BY <1>1
  <2> QED
    BY <1>1, <1>5, <2>1, <2>2 DEF EpochsBetween
<1>7. BarriersAscend(d)
  <2>1. ASSUME NEW i \in 1..(n - 1), NEW j \in 1..(n - 1), i < j, IsBarrier(d[i])
        PROVE  /\ IsBarrier(d[j]) => d[i].epoch < d[j].epoch
               /\ IsPut(d[j]) => d[i].epoch <= d[j].epoch
    <3>1. /\ d[i] = ch[i + 1] /\ d[j] = ch[j + 1] /\ i + 1 < j + 1
          /\ i + 1 \in DOMAIN ch /\ j + 1 \in DOMAIN ch
      BY <1>1, <2>1
    <3> QED
      BY <2>1, <3>1 DEF ChanOK, BarriersAscend
  <2> QED
    BY <1>1, <2>1 DEF BarriersAscend
<1>8. PutsFollowTheirBarrier(d, v)
  <2>1. ASSUME NEW i \in 1..(n - 1), IsPut(d[i]) PROVE OpenedBefore(d, v, d[i].epoch, i)
    <3>1. d[i] = ch[i + 1] /\ i + 1 \in 2..n /\ i + 1 \in 1..(n + 1) /\ (i + 1) - 1 = i
      BY <1>1
    <3>2. OpenedBefore(ch, w, d[i].epoch, i + 1)
      BY SMTT(30), <1>1, <2>1, <3>1 DEF ChanOK, PutsFollowTheirBarrier
    <3>3. d[i].epoch >= v.active
      BY <1>2, <1>5, <2>1, <3>1
    <3>4. OpenedBefore(d, v, d[i].epoch, (i + 1) - 1)
      BY <1>4, <3>1, <3>2, <3>3
    <3> QED
      BY <3>1, <3>4
  <2> QED
    BY <1>1, <2>1 DEF PutsFollowTheirBarrier
<1>9. LastEpochIsQueued(d, v, top)
  <2>1. OpenedBefore(ch, w, top, n + 1)
    BY DEF ChanOK, LastEpochIsQueued, n
  <2>2. top >= v.active
    BY <1>1, <1>2 DEF ChanOK, EpochsBetween
  <2>3. OpenedBefore(d, v, top, (n + 1) - 1)
    BY <1>1, <1>4, <2>1, <2>2
  <2> QED
    BY <1>1, <2>3 DEF LastEpochIsQueued
<1>10. IsPut(Head(ch)) => Head(ch).epoch = w.active
  BY <1>1 DEF ChanOK, PutsFollowTheirBarrier, OpenedBefore
<1>11. IsBarrier(Head(ch)) => w.active < Head(ch).epoch
  BY <1>1 DEF ChanOK, EpochsBetween
<1> QED
  BY <1>6, <1>7, <1>8, <1>9, <1>10, <1>11 DEF ChanOK, QuietUnlessRunning, d

(* The rows write_active leaves behind are in step like those it was given.*)
LEMMA WriteKeepsRows ==
    ASSUME NEW rows, NEW e, WriteActive(rows, e), worker'.active = e,
           \A k \in Keys : rows[k].epoch = IF rows[k].ans = None THEN 0 ELSE e
    PROVE  RowsInStep'
<1> DEFINE batch == {k \in Keys : rows[k].ans # None /\ rows[k].epoch = e}
           left == [k \in Keys |-> IF k \in batch THEN NoRow ELSE rows[k]]
<1>1. pending' = left \/ pending' = rows
  BY DEF WriteActive
<1>2. \A k \in Keys : left[k].epoch = IF left[k].ans = None THEN 0 ELSE e
  BY DEF NoRow
<1> QED
  BY <1>1, <1>2 DEF RowsInStep

LEMMA ReceivePutInStep ==
    ASSUME TypeOK, StepInv, ReceivePut
    PROVE  StepInv'
<1> DEFINE c == Head(commands)
<1>1. /\ worker.st = "run" /\ commands # <<>> /\ IsPut(c) /\ commands' = Tail(commands)
      /\ worker' = worker /\ pepoch' = pepoch
      /\ pending' = pending \/ pending' = [pending EXCEPT ![c.key] = Row(c.ans, c.epoch)]
  BY DEF ReceivePut, Receive, IsPut
<1>2. ChanOK(commands', worker', pepoch') /\ c.epoch = worker.active
  BY <1>1, PopHead DEF StepInv, TypeOK
<1>3. c.key \in Keys /\ c.ans # None
  BY <1>1, HeadPut, NoneAssumption DEF TypeOK, IsPut, Puts
<1>4. RowsInStep'
  BY <1>1, <1>2, <1>3 DEF StepInv, RowsInStep, Row, TypeOK
<1> QED
  BY <1>2, <1>4 DEF StepInv

LEMMA ReceiveBarrierInStep ==
    ASSUME TypeOK, StepInv, ReceiveFlush \/ ReceiveInvalidate
    PROVE  StepInv'
<1> DEFINE c == Head(commands)
<1>1. /\ worker.st = "run" /\ commands # <<>> /\ IsBarrier(c) /\ commands' = Tail(commands)
      /\ worker' = Working("run", c.epoch, worker.rows) /\ pepoch' = pepoch
      /\ pending' = DiscardBefore(c.epoch) \/ pending' = Survivors(c.epoch, c.keys)
  BY DEF ReceiveFlush, ReceiveInvalidate, Receive, IsBarrier
<1>2. c.epoch \in Nat
  BY <1>1, HeadBarrier DEF TypeOK, IsBarrier
<1>3. worker' \in Workers /\ worker'.st = "run" /\ worker'.active = c.epoch
  BY <1>1, <1>2 DEF Working, Workers, TypeOK
<1>4. ChanOK(commands', worker', pepoch') /\ worker.active < c.epoch
  BY <1>1, <1>3, PopHead DEF StepInv, TypeOK
<1>5. worker.active \in Nat /\ \A k \in Keys : pending[k].epoch \in Nat
  BY DEF TypeOK, Workers, Rows
<1>6. \A k \in Keys : pending[k].epoch < c.epoch
  BY <1>2, <1>4, <1>5 DEF StepInv, RowsInStep
<1>7. RowsInStep'
  BY <1>1, <1>3, <1>6 DEF RowsInStep, DiscardBefore, Survivors, Row, NoRow
<1> QED
  BY <1>4, <1>7 DEF StepInv

LEMMA ReceiveShutdownInStep ==
    ASSUME TypeOK, StepInv, ReceiveShutdown
    PROVE  StepInv'
<1>1. PICK e \in {worker.active} \cup {pending[k].epoch : k \in Keys} :
        /\ Newest(e) /\ worker' = Working("stopped", e, {}) /\ WriteActive(DiscardBefore(e), e)
  BY DEF ReceiveShutdown
<1>2. worker.active \in Nat /\ \A k \in Keys : pending[k].epoch \in Nat
  BY DEF TypeOK, Workers, Rows
<1>3. e = worker.active
  <2>1. CASE Keys = {}
    BY <1>1, <2>1
  <2>2. CASE Keys # {}
    BY <1>1, <1>2, <2>2 DEF Newest, StepInv, RowsInStep
  <2> QED
    BY <2>1, <2>2
<1>4. \A k \in Keys :
        DiscardBefore(e)[k].epoch = IF DiscardBefore(e)[k].ans = None THEN 0 ELSE e
  BY <1>2, <1>3 DEF DiscardBefore, NoRow, StepInv, RowsInStep
<1>5. worker'.active = e /\ worker'.st = "stopped" /\ worker' \in Workers
  BY <1>1, <1>2, <1>3 DEF Working, Workers
<1>6. RowsInStep'
  BY <1>1, <1>4, <1>5, WriteKeepsRows
<1>7. worker.active <= pepoch /\ pepoch' = pepoch /\ commands' = <<>> /\ pepoch \in Nat
  BY DEF ReceiveShutdown, StepInv, ChanOK, EpochsBetween, TypeOK
<1> QED
  BY <1>3, <1>5, <1>6, <1>7, EmptyChannel DEF StepInv

LEMMA RaiseFenceInStep ==
    ASSUME TypeOK, LifeInv, StepInv, NEW t \in {"flush", "invalidate"}, NEW ks,
           RaiseFence(t, ks)
    PROVE  StepInv'
<1>1. worker' = worker /\ pending' = pending /\ pepoch' = pepoch + 1
  BY DEF RaiseFence, actorVars
<1>2. RowsInStep'
  BY <1>1 DEF StepInv, RowsInStep
<1>3. CASE worker.st = "run"
  <2>1. commands' = Append(commands, Barrier(t, ks))
    BY <1>3 DEF RaiseFence
  <2>2. IsBarrier(Barrier(t, ks)) /\ Barrier(t, ks).epoch = pepoch + 1
    BY DEF IsBarrier, Barrier
  <2>3. ChanOK(Append(commands, Barrier(t, ks)), worker, pepoch + 1)
    <3> HIDE DEF Barrier
    <3> QED
      BY <1>3, <2>2, AppendBarrier DEF StepInv, TypeOK
  <2> QED
    BY <1>1, <1>2, <2>1, <2>3 DEF StepInv
<1>4. CASE worker.st # "run"
  <2>1. worker.st = "stopped"
    BY <1>4 DEF LifeInv, RestoreInv, RaiseFence, TypeOK, Workers
  <2>2. commands' = <<>>
    BY <1>4 DEF RaiseFence, StepInv, ChanOK, QuietUnlessRunning
  <2>3. worker.active <= pepoch + 1
    BY DEF StepInv, ChanOK, EpochsBetween, TypeOK, Workers
  <2> QED
    BY <1>1, <1>2, <2>1, <2>2, <2>3, EmptyChannel DEF StepInv, TypeOK
<1> QED
  BY <1>3, <1>4

LEMMA SaveInStep ==
    ASSUME TypeOK, StepInv, NEW k, NEW a, Save(k, a), worker' = worker, pending' = pending
    PROVE  StepInv'
<1>1. RowsInStep'
  BY DEF StepInv, RowsInStep
<1>2. CASE UNCHANGED chanVars
  BY <1>1, <1>2 DEF StepInv, chanVars
<1>3. CASE ~ UNCHANGED chanVars
  <2> DEFINE c == [t |-> "put", epoch |-> pepoch, key |-> k, ans |-> a]
  <2>1. worker.st = "run" /\ commands' = Append(commands, c) /\ pepoch' = pepoch
    BY <1>3 DEF Save
  <2>2. IsPut(c) /\ c.epoch = pepoch
    BY DEF IsPut
  <2> HIDE DEF c
  <2>3. ChanOK(Append(commands, c), worker, pepoch)
    BY <2>1, <2>2, AppendPut DEF StepInv, TypeOK
  <2> QED
    BY <1>1, <2>1, <2>3 DEF StepInv
<1> QED
  BY <1>2, <1>3

LEMMA StepNext == TypeOK /\ LifeInv /\ StepInv /\ [Next]_vars => StepInv'
<1> SUFFICES ASSUME TypeOK, LifeInv, StepInv, [Next]_vars PROVE StepInv'
  OBVIOUS
<1>1. CASE \/ \E q \in Queries :
                \/ \E k \in Keys, m \in Modes : Start(q, k, m)
                \/ Lookup(q) \/ (\E r \in Queries : SpawnRefresh(q, r)) \/ ServeHit(q)
                \/ Acquire(q) \/ StoreNegative(q) \/ Supersede(q)
                \/ (\E b \in BOOLEAN : Unstored(q, b)) \/ ServeStale(q) \/ NoStale(q)
                \/ Publish(q) \/ PublishUntemplated(q) \/ Fail(q) \/ Cancel(q)
           \/ \E k \in Keys : AgePositive(k) \/ AgeNegative(k)
           \/ Reserve \/ InvalidateReturns \/ InvalidateDropped \/ UNCHANGED vars
  <2>1. commands' = commands /\ pepoch' = pepoch /\ worker' = worker /\ pending' = pending
    BY ZenonT(40), <1>1 DEF Start, Lookup, SpawnRefresh, ServeHit, Acquire,
       StoreNegative, Supersede, Unstored, ServeStale, NoStale, Publish,
       PublishUntemplated, Released, Fail, Cancel, AgePositive, AgeNegative,
       Reserve, InvalidateReturns, InvalidateDropped, LowerFence, vars, actorVars, chanVars
  <2> QED
    BY <2>1 DEF StepInv, RowsInStep
<1>2. ASSUME NEW q \in Queries, StorePositive(q) PROVE StepInv'
  <2>1. worker' = worker /\ pending' = pending
    BY <1>2 DEF StorePositive, actorVars
  <2>2. (UNCHANGED chanVars) \/ Save(ctx[q].key, q)
    BY <1>2 DEF StorePositive
  <2>3. Save(ctx[q].key, q)
    BY <2>2 DEF Save
  <2> QED
    BY <2>1, <2>3, SaveInStep
<1>3. CASE Invalidate
  BY <1>3, RaiseFenceInStep DEF Invalidate
<1>4. CASE Tick
  <2>1. /\ commands' = commands /\ pepoch' = pepoch /\ worker' = worker
        /\ WriteActive(pending, worker.active)
    BY <1>4 DEF Tick, chanVars
  <2>2. RowsInStep'
    BY <2>1, WriteKeepsRows DEF StepInv, RowsInStep
  <2> QED
    BY <2>1, <2>2 DEF StepInv
<1>5. CASE ReceivePut \/ ReceiveFlush \/ ReceiveInvalidate \/ ReceiveShutdown
  BY <1>5, ReceivePutInStep, ReceiveBarrierInStep, ReceiveShutdownInStep
<1>6. CASE (\E k \in Keys : RestoreRow(k)) \/ InstallPersister
  <2>1. /\ commands' = commands /\ pepoch' = pepoch /\ pending' = pending
        /\ worker'.active = worker.active /\ worker.st = "restore" /\ worker'.st # "stopped"
    <3>1. CASE \E k \in Keys : RestoreRow(k)
      BY <3>1 DEF RestoreRow, Working, chanVars
    <3>2. CASE InstallPersister
      BY <3>2 DEF InstallPersister, Working, chanVars
    <3> QED
      BY <1>6, <3>1, <3>2
  <2>2. commands = <<>> /\ worker.active = pepoch
    BY <2>1 DEF StepInv, ChanOK, QuietUnlessRunning, LastEpochIsQueued, OpenedBefore
  <2>3. worker' \in Workers
    BY <1>6, TypeRestoreRow, TypeInstallPersister DEF TypeOK
  <2> QED
    BY <2>1, <2>2, <2>3, EmptyChannel DEF StepInv, RowsInStep, TypeOK
<1>7. CASE Shutdown
  <2>1. /\ worker.st = "run" /\ commands' = Append(commands, [t |-> "shutdown"])
        /\ pepoch' = pepoch /\ worker' = worker /\ pending' = pending
    BY <1>7 DEF Shutdown, actorVars
  <2>2. ~IsPut([t |-> "shutdown"]) /\ ~IsBarrier([t |-> "shutdown"])
    BY DEF IsPut, IsBarrier
  <2>3. ChanOK(Append(commands, [t |-> "shutdown"]), worker, pepoch)
    BY <2>1, <2>2, AppendShutdown DEF StepInv, TypeOK
  <2> QED
    BY <2>1, <2>3 DEF StepInv, RowsInStep
<1>8. CASE Restart
  <2>1. /\ commands' = <<>> /\ pepoch' = 0 /\ pending' = [k \in Keys |-> NoRow]
        /\ worker'.active = 0 /\ worker' \in Workers
    BY <1>8 DEF Restart, Working, Workers
  <2>2. RowsInStep'
    BY <2>1 DEF RowsInStep, NoRow
  <2> QED
    BY <2>1, <2>2, EmptyChannel DEF StepInv
<1> QED
  BY <1>1, <1>2, <1>3, <1>4, <1>5, <1>6, <1>7, <1>8 DEF Next, Resolve, Actor

LEMMA StepAlways == Spec => [](TypeOK /\ LifeInv /\ StepInv)
<1>1. Init => StepInv
  BY StepInit
<1>2. TypeOK /\ LifeInv /\ StepInv /\ [Next]_vars => StepInv'
  BY StepNext
<1> QED
  BY <1>1, <1>2, LifeAlways, PTL DEF Spec

(* The actor is never behind itself: no queued barrier is superseded, no   *)
(* queued put is of a past epoch, and every pending row is of the epoch    *)
(* the next tick writes, for any channel and any number of invalidations   *)
(* (persist/worker.rs).                                                    *)
THEOREM ActorStaysInStep == Spec => []ActorInStep
<1>1. TypeOK /\ StepInv => ActorInStep
  BY StepImpliesInStep
<1> QED
  BY <1>1, StepAlways, PTL

-----------------------------------------------------------------------------
(* Part 7: where answers come from.                                        *)

(* The put that mirrors the answer of q.                                   *)
PutOf(q) == [t |-> "put", epoch |-> pepoch, key |-> ctx[q].key, ans |-> q]

(* The channel grows by the put of an admitted query, by a barrier or by   *)
(* the shutdown, or loses its head or everything.                          *)
ChanMove ==
    \/ commands' = commands
    \/ \E q \in Queries : Storing(q) /\ commands' = Append(commands, PutOf(q))
    \/ \E c \in Barriers : inv.pc = "reserved" /\ commands' = Append(commands, c)
    \/ commands' = Append(commands, [t |-> "shutdown"])
    \/ commands # <<>> /\ commands' = Tail(commands)
    \/ commands' = <<>>

(* A row becomes pending from the head of the channel, and is stored from  *)
(* the pending set.                                                        *)
RowsMove ==
    \A k \in Keys :
        /\ \/ pending'[k].ans \in {None, pending[k].ans}
           \/ /\ commands # <<>> /\ IsPut(Head(commands))
              /\ Head(commands).key = k /\ pending'[k].ans = Head(commands).ans
        /\ db'[k] \in {None, db[k], pending[k].ans}

LEMMA BarrierType ==
    ASSUME TypeOK, NEW t \in {"flush", "invalidate"}, NEW ks \in SUBSET Keys
    PROVE  Barrier(t, ks) \in Barriers
BY DEF Barrier, Barriers, TypeOK

LEMMA ChanMoves ==
    ASSUME TypeOK, [Next]_vars
    PROVE  ChanMove
<1>1. ASSUME NEW q \in Queries, Resolve(q) PROVE ChanMove
  <2>1. CASE StorePositive(q)
    <3>1. UNCHANGED chanVars \/ (Admits(q) /\ Save(ctx[q].key, q))
      BY <2>1 DEF StorePositive
    <3>2. pc[q] = "exchange"
      BY <2>1 DEF StorePositive
    <3> QED
      BY <3>1, <3>2 DEF ChanMove, Save, PutOf, Storing, chanVars
  <2>2. CASE ~StorePositive(q)
    <3>1. commands' = commands
      BY <1>1, <2>2 DEF Resolve, Start, Lookup, SpawnRefresh, ServeHit, Acquire,
         StoreNegative, Supersede, Unstored, ServeStale, NoStale, Publish,
         PublishUntemplated, Released, Fail, chanVars
    <3> QED
      BY <3>1 DEF ChanMove
  <2> QED
    BY <2>1, <2>2
<1>2. CASE \/ \E q \in Queries : Cancel(q)
           \/ \E k \in Keys : AgePositive(k) \/ AgeNegative(k)
           \/ Reserve \/ InvalidateReturns \/ InvalidateDropped
           \/ Tick \/ (\E k \in Keys : RestoreRow(k)) \/ InstallPersister \/ UNCHANGED vars
  <2>1. commands' = commands
    BY <1>2 DEF Cancel, Released, AgePositive, AgeNegative, Reserve, InvalidateReturns,
       InvalidateDropped, LowerFence, Tick, RestoreRow, InstallPersister, vars, chanVars
  <2> QED
    BY <2>1 DEF ChanMove
<1>3. ASSUME NEW t \in {"flush", "invalidate"}, NEW ks \in SUBSET Keys, RaiseFence(t, ks)
      PROVE  ChanMove
  <2>1. commands' = commands \/ commands' = Append(commands, Barrier(t, ks))
    BY <1>3 DEF RaiseFence
  <2> QED
    BY <1>3, <2>1, BarrierType DEF ChanMove, RaiseFence
<1>4. CASE ReceivePut \/ ReceiveFlush \/ ReceiveInvalidate
  BY <1>4 DEF ReceivePut, ReceiveFlush, ReceiveInvalidate, Receive, ChanMove
<1>5. CASE ReceiveShutdown \/ Restart \/ Shutdown
  BY <1>5 DEF ReceiveShutdown, Restart, Shutdown, ChanMove
<1> QED
  BY <1>1, <1>2, <1>3, <1>4, <1>5 DEF Next, Invalidate, Actor

LEMMA WriteMoves ==
    ASSUME NEW rows, NEW e, WriteActive(rows, e),
           \A k \in Keys : rows[k].ans \in {None, pending[k].ans}
    PROVE  \A k \in Keys : /\ pending'[k].ans \in {None, pending[k].ans}
                           /\ db'[k] \in {None, db[k], pending[k].ans}
<1> DEFINE batch == {k \in Keys : rows[k].ans # None /\ rows[k].epoch = e}
           left == [k \in Keys |-> IF k \in batch THEN NoRow ELSE rows[k]]
           wrote == [k \in Keys |-> IF k \in batch THEN rows[k].ans ELSE db[k]]
<1>1. /\ pending' = left \/ pending' = rows
      /\ db' = wrote \/ db' = db
  BY DEF WriteActive
<1>2. \A k \in Keys : left[k].ans \in {None, rows[k].ans} /\ wrote[k] \in {db[k], rows[k].ans}
  BY DEF NoRow
<1> HIDE DEF left, wrote
<1> QED
  BY <1>1, <1>2

LEMMA RowsMoves ==
    ASSUME TypeOK, [Next]_vars
    PROVE  RowsMove
<1>1. CASE \/ \E q \in Queries : Resolve(q) \/ Cancel(q)
           \/ \E k \in Keys : AgePositive(k) \/ AgeNegative(k)
           \/ Reserve \/ Invalidate \/ InvalidateReturns \/ InvalidateDropped
           \/ (\E k \in Keys : RestoreRow(k)) \/ InstallPersister \/ Shutdown
           \/ UNCHANGED vars
  <2>1. pending' = pending /\ db' = db
    BY ZenonT(40), <1>1 DEF Resolve, Start, Lookup, SpawnRefresh, ServeHit, Acquire, StorePositive,
       StoreNegative, Supersede, Unstored, ServeStale, NoStale, Publish,
       PublishUntemplated, Released, Fail, Cancel, AgePositive, AgeNegative,
       Reserve, Invalidate, RaiseFence, InvalidateReturns, InvalidateDropped, LowerFence,
       RestoreRow, InstallPersister, Shutdown, vars, actorVars
  <2> QED
    BY <2>1 DEF RowsMove
<1>2. CASE Tick
  BY <1>2, WriteMoves DEF Tick, RowsMove
<1>3. CASE ReceivePut
  <2>1. /\ commands # <<>> /\ IsPut(Head(commands)) /\ db' = db
        /\ \/ pending' = pending
           \/ pending' = [pending EXCEPT ![Head(commands).key]
                            = Row(Head(commands).ans, Head(commands).epoch)]
    BY <1>3 DEF ReceivePut, Receive, IsPut
  <2> QED
    BY <2>1 DEF RowsMove, Row, TypeOK
<1>4. CASE ReceiveFlush
  <2>1. /\ pending' = DiscardBefore(Head(commands).epoch)
        /\ db' = [k \in Keys |-> None] \/ db' = db
    BY <1>4 DEF ReceiveFlush
  <2> QED
    BY <2>1 DEF RowsMove, DiscardBefore, NoRow
<1>5. CASE ReceiveInvalidate
  <2>1. /\ pending' = Survivors(Head(commands).epoch, Head(commands).keys)
        /\ db' = [k \in Keys |-> IF k \in Head(commands).keys THEN None ELSE db[k]] \/ db' = db
    BY <1>5 DEF ReceiveInvalidate
  <2> QED
    BY <2>1 DEF RowsMove, Survivors, NoRow, Row
<1>6. CASE ReceiveShutdown
  <2>1. PICK e : WriteActive(DiscardBefore(e), e)
    BY <1>6 DEF ReceiveShutdown
  <2>2. \A k \in Keys : DiscardBefore(e)[k].ans \in {None, pending[k].ans}
    BY DEF DiscardBefore, NoRow
  <2> QED
    BY <2>1, <2>2, WriteMoves DEF RowsMove
<1>7. CASE Restart
  BY <1>7 DEF Restart, RowsMove, NoRow
<1> QED
  BY <1>1, <1>2, <1>3, <1>4, <1>5, <1>6, <1>7 DEF Next, Actor

(* An answer is stored for the key its query resolved, once it started.    *)
AtHome(p, c, a, k) == a = None \/ (p[a] # "idle" /\ c[a].key = k)

HomeInv ==
    /\ \A k \in Keys : /\ AtHome(pc, ctx, slot[k].pos, k) /\ AtHome(pc, ctx, slot[k].neg, k)
                       /\ AtHome(pc, ctx, db[k], k) /\ AtHome(pc, ctx, pending[k].ans, k)
    /\ \A i \in DOMAIN commands :
          IsPut(commands[i]) => AtHome(pc, ctx, commands[i].ans, commands[i].key)

LEMMA HomeInit == Init => HomeInv
BY DEF Init, HomeInv, AtHome, Empty, Slot, NoRow

LEMMA HomeStays ==
    ASSUME StartedStays, NEW a \in Answers, NEW k, AtHome(pc, ctx, a, k)
    PROVE  AtHome(pc', ctx', a, k)
BY DEF StartedStays, AtHome, Answers

LEMMA StoringIsHome ==
    ASSUME StartedStays, NEW q \in Queries, Storing(q)
    PROVE  AtHome(pc', ctx', q, ctx[q].key)
BY DEF StartedStays, Storing, AtHome

(* The answers of a slot after a step came from it, from an admitted query *)
(* of its key, or from its row.                                            *)
SlotOrigin(k, a) ==
    \/ a \in {None, slot[k].pos, slot[k].neg}
    \/ a \in Queries /\ Storing(a) /\ ctx[a].key = k
    \/ a = db[k] /\ worker.st = "restore"

LEMMA SlotOrigins ==
    ASSUME TypeOK, SlotInv, [Next]_vars, NEW k \in Keys
    PROVE  SlotOrigin(k, slot'[k].pos) /\ SlotOrigin(k, slot'[k].neg)
<1>1. CASE Restart
  BY <1>1 DEF Restart, SlotOrigin, Empty, Slot
<1>2. CASE ~Restart
  <2>1. CacheMove
    BY <1>2, CacheMoves DEF SlotInv
  <2>2. CASE Fades(slot[k], slot'[k])
    BY <2>2 DEF Fades, SlotOrigin
  <2>3. ASSUME NEW q \in Queries, Storing(q), Stores(k, q), ctx[q].key = k
        PROVE  SlotOrigin(k, slot'[k].pos) /\ SlotOrigin(k, slot'[k].neg)
    BY <2>3 DEF Stores, SlotOrigin
  <2>4. CASE worker.st = "restore" /\ Stores(k, db[k])
    BY <2>4 DEF Stores, SlotOrigin
  <2> QED
    BY <2>1, <2>2, <2>3, <2>4 DEF CacheMove, SlotsFade, Stores
<1> QED
  BY <1>1, <1>2

(* A put in the channel was there, or mirrors an admitted query.           *)
LEMMA PutOrigins ==
    ASSUME TypeOK, [Next]_vars, NEW i \in DOMAIN commands', IsPut(commands'[i])
    PROVE  \/ \E j \in DOMAIN commands : commands'[i] = commands[j]
           \/ \E q \in Queries : Storing(q) /\ commands'[i] = PutOf(q)
<1>1. ChanMove
  BY ChanMoves
<1>2. ASSUME NEW c, commands' = Append(commands, c)
      PROVE  commands'[i] = c \/ \E j \in DOMAIN commands : commands'[i] = commands[j]
  BY <1>2, AppendPlaces DEF TypeOK
<1>3. CASE \E q \in Queries : Storing(q) /\ commands' = Append(commands, PutOf(q))
  BY <1>2, <1>3
<1>4. CASE \/ \E c \in Barriers : inv.pc = "reserved" /\ commands' = Append(commands, c)
           \/ commands' = Append(commands, [t |-> "shutdown"])
  <2>1. PICK c \in Barriers \cup {[t |-> "shutdown"]} : commands' = Append(commands, c)
    BY <1>4
  <2>2. ~IsPut(c)
    BY DEF Barriers, IsPut
  <2> QED
    BY <1>2, <2>1, <2>2
<1>5. CASE commands # <<>> /\ commands' = Tail(commands)
  <2>1. i + 1 \in DOMAIN commands /\ commands'[i] = commands[i + 1]
    BY <1>5, TailPlaces DEF TypeOK
  <2> QED
    BY <2>1
<1>6. CASE commands' = commands \/ commands' = <<>>
  BY <1>6
<1> QED
  BY <1>1, <1>3, <1>4, <1>5, <1>6 DEF ChanMove

LEMMA HomeNext == TypeOK /\ SlotInv /\ HomeInv /\ [Next]_vars => HomeInv'
<1> SUFFICES ASSUME TypeOK, SlotInv, HomeInv, [Next]_vars PROVE HomeInv'
  OBVIOUS
<1>0. StartedStays
  BY QueriesStay
<1>1. \A k \in Keys : /\ slot[k].pos \in Answers /\ slot[k].neg \in Answers
                      /\ db[k] \in Answers /\ pending[k].ans \in Answers
  BY DEF TypeOK, Slots, Rows
<1>2. ASSUME NEW k \in Keys
      PROVE  /\ AtHome(pc', ctx', db[k], k) /\ AtHome(pc', ctx', pending[k].ans, k)
             /\ AtHome(pc', ctx', slot[k].pos, k) /\ AtHome(pc', ctx', slot[k].neg, k)
             /\ AtHome(pc', ctx', None, k)
  BY <1>0, <1>1, HomeStays DEF HomeInv, AtHome, Answers
<1>3. ASSUME NEW k \in Keys, NEW a, SlotOrigin(k, a) PROVE AtHome(pc', ctx', a, k)
  BY <1>0, <1>2, <1>3, StoringIsHome DEF SlotOrigin
<1>4. \A k \in Keys : AtHome(pc', ctx', slot'[k].pos, k) /\ AtHome(pc', ctx', slot'[k].neg, k)
  BY <1>3, SlotOrigins
<1>5. ASSUME NEW j \in DOMAIN commands, IsPut(commands[j])
      PROVE  AtHome(pc', ctx', commands[j].ans, commands[j].key)
  <2>1. commands[j] \in Commands
    BY DEF TypeOK
  <2>2. commands[j].ans \in Answers
    BY <1>5, <2>1, CommandFields DEF Answers
  <2> QED
    BY <1>0, <1>5, <2>2, HomeStays DEF HomeInv
<1>6. ASSUME NEW i \in DOMAIN commands', IsPut(commands'[i])
      PROVE  AtHome(pc', ctx', commands'[i].ans, commands'[i].key)
  <2>1. CASE \E j \in DOMAIN commands : commands'[i] = commands[j]
    BY <1>5, <1>6, <2>1
  <2>2. ASSUME NEW q \in Queries, Storing(q), commands'[i] = PutOf(q)
        PROVE  AtHome(pc', ctx', commands'[i].ans, commands'[i].key)
    BY <1>0, <2>2, StoringIsHome DEF PutOf
  <2> QED
    BY <1>6, <2>1, <2>2, PutOrigins
<1>7. ASSUME NEW k \in Keys
      PROVE  AtHome(pc', ctx', db'[k], k) /\ AtHome(pc', ctx', pending'[k].ans, k)
  <2>1. commands # <<>> => 1 \in DOMAIN commands /\ Head(commands) = commands[1]
    BY DEF TypeOK
  <2> QED
    BY <1>2, <1>5, <2>1, RowsMoves DEF RowsMove
<1> QED
  BY <1>4, <1>6, <1>7 DEF HomeInv

-----------------------------------------------------------------------------
(* Part 8: what an invalidation removed.                                   *)

(* A query under way captured the present epoch or an earlier one, and one *)
(* whose answer was dropped is over or captured an earlier one.            *)
LiveEpochs == \A q \in Queries : pc[q] \notin {"idle", "done"} => ctx[q].epoch <= epoch

DroppedIsPast ==
    \A q \in dropped : pc[q] # "idle" /\ (pc[q] = "done" \/ ctx[q].epoch < epoch)

EraInv == LiveEpochs /\ DroppedIsPast

(* How a query begins, and that none comes back.                           *)
QueryBirths ==
    \A p \in Queries :
        /\ pc[p] = "done" => pc'[p] = "done"
        /\ pc[p] = "idle" /\ pc'[p] # "idle" =>
             \/ ctx'[p].epoch = epoch
             \/ \E q \in Queries : pc[q] \notin {"idle", "done"} /\ ctx'[p].epoch = ctx[q].epoch

LEMMA Births ==
    ASSUME TypeOK, [Next]_vars
    PROVE  QueryBirths
<1>1. ASSUME NEW q \in Queries, Resolve(q) PROVE QueryBirths
  <2>1. CASE \E k \in Keys, m \in Modes : Start(q, k, m)
    BY <2>1 DEF Start, Context, QueryBirths, TypeOK
  <2>2. ASSUME NEW r \in Queries, SpawnRefresh(q, r) PROVE QueryBirths
    <3>1. /\ pc[q] \notin {"idle", "done"} /\ pc[r] = "idle" /\ ctx'[r].epoch = ctx[q].epoch
          /\ \A p \in Queries : p # q /\ p # r => pc'[p] = pc[p]
      BY <2>2 DEF SpawnRefresh, Context, TypeOK
    <3> QED
      BY <3>1 DEF QueryBirths
  <2>3. CASE Lookup(q)
    BY <2>3 DEF Lookup, Then, QueryBirths, TypeOK
  <2>4. CASE ServeHit(q) \/ Acquire(q)
    BY <2>4 DEF ServeHit, AfterServe, Acquire, QueryBirths, TypeOK
  <2>5. CASE StorePositive(q) \/ StoreNegative(q)
    BY <2>5 DEF StorePositive, StoreNegative, QueryBirths, TypeOK
  <2>6. CASE \/ Supersede(q) \/ (\E b \in BOOLEAN : Unstored(q, b))
             \/ ServeStale(q) \/ NoStale(q)
    BY <2>6 DEF Supersede, Unstored, ServeStale, NoStale, QueryBirths, TypeOK
  <2>7. CASE Publish(q) \/ PublishUntemplated(q) \/ Fail(q)
    BY <2>7 DEF Publish, PublishUntemplated, Released, Fail, Waiting, QueryBirths, TypeOK
  <2> QED
    BY <1>1, <2>1, <2>2, <2>3, <2>4, <2>5, <2>6, <2>7 DEF Resolve
<1>2. ASSUME NEW q \in Queries, Cancel(q) PROVE QueryBirths
  BY <1>2 DEF Cancel, Released, Waiting, QueryBirths, TypeOK
<1>3. CASE \/ \E k \in Keys : AgePositive(k) \/ AgeNegative(k)
           \/ Reserve \/ Invalidate \/ InvalidateReturns \/ InvalidateDropped
           \/ Actor \/ Shutdown \/ UNCHANGED vars
  <2>1. pc' = pc /\ ctx' = ctx
    BY <1>3 DEF AgePositive, AgeNegative, Reserve, Invalidate, RaiseFence, InvalidateReturns,
         InvalidateDropped, LowerFence, Actor, Tick, ReceivePut, ReceiveFlush,
         ReceiveInvalidate, ReceiveShutdown, RestoreRow, InstallPersister, Shutdown,
         vars, queryVars
  <2> QED
    BY <2>1 DEF QueryBirths
<1>4. CASE Restart
  BY <1>4 DEF Restart, QueryBirths
<1> QED
  BY <1>1, <1>2, <1>3, <1>4 DEF Next

(* The fence moves the epoch on, and only raising it drops answers.        *)
FenceMove ==
    \/ epoch' = epoch /\ dropped' = dropped
    \/ epoch' = epoch + 1 /\ dropped' = dropped
    \/ \E ks \in SUBSET Keys :
          /\ epoch' = epoch + 1 /\ dropped' = dropped \cup Doomed(ks)
          /\ slot' = [k \in Keys |-> IF k \in ks THEN Empty ELSE slot[k]]

LEMMA FenceMoves ==
    ASSUME TypeOK, [Next]_vars, ~Restart
    PROVE  FenceMove
<1>1. CASE \/ \E q \in Queries : Resolve(q) \/ Cancel(q)
           \/ \E k \in Keys : AgePositive(k) \/ AgeNegative(k)
           \/ Reserve \/ Actor \/ Shutdown \/ UNCHANGED vars
  <2>1. epoch' = epoch /\ dropped' = dropped
    BY ZenonT(40), <1>1 DEF Resolve, Start, Lookup, SpawnRefresh, ServeHit, Acquire, StorePositive,
       StoreNegative, Supersede, Unstored, ServeStale, NoStale, Publish,
       PublishUntemplated, Released, Fail, Cancel, AgePositive, AgeNegative,
       Reserve, Actor, Tick, ReceivePut, ReceiveFlush, ReceiveInvalidate, ReceiveShutdown,
       RestoreRow, InstallPersister, Shutdown, vars, fenceVars, invVars
  <2> QED
    BY <2>1 DEF FenceMove
<1>2. CASE Invalidate
  BY <1>2 DEF Invalidate, RaiseFence, FenceMove
<1>3. CASE InvalidateReturns \/ InvalidateDropped
  BY <1>3 DEF InvalidateReturns, InvalidateDropped, LowerFence, FenceMove
<1> QED
  BY <1>1, <1>2, <1>3 DEF Next

LEMMA EraInit == Init => EraInv
BY DEF Init, EraInv, LiveEpochs, DroppedIsPast

LEMMA EraNext == TypeOK /\ EraInv /\ [Next]_vars /\ erased \subseteq dropped => EraInv'
<1> SUFFICES ASSUME TypeOK, EraInv, [Next]_vars, erased \subseteq dropped PROVE EraInv'
  OBVIOUS
<1>0. StartedStays /\ QueryBirths
  BY QueriesStay, Births
<1>1. CASE Restart
  BY <1>1 DEF Restart, EraInv, LiveEpochs, DroppedIsPast, TypeOK
<1>2. CASE ~Restart
  <2>1. FenceMove
    BY <1>2, FenceMoves
  <2>2. epoch \in Nat /\ epoch' \in {epoch, epoch + 1}
    BY <2>1 DEF FenceMove, TypeOK
  <2>3. \A q \in Queries : ctx[q].epoch \in Nat
    BY DEF TypeOK, Contexts
  <2>4. LiveEpochs'
    <3>1. ASSUME NEW q \in Queries, pc'[q] \notin {"idle", "done"}
          PROVE  ctx'[q].epoch <= epoch'
      <4>1. CASE pc[q] = "idle"
        <5>1. CASE ctx'[q].epoch = epoch
          BY <2>2, <5>1
        <5>2. ASSUME NEW p \in Queries, pc[p] \notin {"idle", "done"},
                     ctx'[q].epoch = ctx[p].epoch
              PROVE  ctx'[q].epoch <= epoch'
          BY <2>2, <2>3, <5>2 DEF EraInv, LiveEpochs
        <5> QED
          BY <1>0, <3>1, <4>1, <5>1, <5>2 DEF QueryBirths
      <4>2. CASE pc[q] # "idle"
        BY <1>0, <2>2, <2>3, <3>1, <4>2 DEF QueryBirths, StartedStays, EraInv, LiveEpochs
      <4> QED
        BY <4>1, <4>2
    <3> QED
      BY <3>1 DEF LiveEpochs
  <2>5. DroppedIsPast'
    <3>1. ASSUME NEW q \in dropped' PROVE pc'[q] # "idle" /\ (pc'[q] = "done" \/ ctx'[q].epoch < epoch')
      <4>1. CASE q \in dropped
        <5>1. q \in Queries /\ pc[q] # "idle" /\ (pc[q] = "done" \/ ctx[q].epoch < epoch)
          BY <4>1 DEF EraInv, DroppedIsPast, TypeOK
        <5> QED
          BY <1>0, <2>2, <2>3, <5>1 DEF StartedStays, QueryBirths
      <4>2. CASE q \notin dropped
        <5>1. q \in Queries /\ pc[q] # "idle" /\ epoch' = epoch + 1
          BY <2>1, <3>1, <4>2 DEF FenceMove, Doomed
        <5>2. pc[q] = "done" \/ ctx[q].epoch <= epoch
          BY <5>1 DEF EraInv, LiveEpochs
        <5> QED
          BY <1>0, <2>2, <2>3, <5>1, <5>2 DEF StartedStays, QueryBirths
      <4> QED
        BY <4>1, <4>2
    <3> QED
      BY <3>1 DEF DroppedIsPast
  <2> QED
    BY <2>4, <2>5 DEF EraInv
<1> QED
  BY <1>1, <1>2

(* A query that is being admitted was not dropped.                         *)
LEMMA StoringNotDropped ==
    ASSUME TypeOK, EraInv, NEW q \in Queries, Storing(q)
    PROVE  q \notin dropped
<1>1. ctx[q].epoch = epoch /\ epoch \in Nat /\ pc[q] # "done"
  BY DEF Storing, Admits, InEpoch, TypeOK
<1> QED
  BY <1>1 DEF EraInv, DroppedIsPast

(* Once dropped, an answer is in no slot of this process.                  *)
CacheIsClean ==
    \A k \in Keys : slot[k].pos \notin dropped /\ slot[k].neg \notin dropped

LEMMA CacheStaysClean ==
    ASSUME TypeOK, LifeInv, SlotInv, HomeInv, EraInv, CacheIsClean, [Next]_vars,
           \A k \in Keys : db[k] \notin erased
    PROVE  CacheIsClean'
<1>0. None \notin dropped
  BY NoneAssumption DEF TypeOK
<1>1. CASE Restart
  <2>1. \A k \in Keys : slot'[k] = Empty
    BY <1>1 DEF Restart
  <2>2. None \notin dropped'
    BY <1>1, NoneAssumption DEF Restart, TypeOK
  <2> QED
    BY <2>1, <2>2 DEF CacheIsClean, Empty, Slot
<1>2. CASE ~Restart
  <2>1. CASE dropped' = dropped
    <3>1. ASSUME NEW k \in Keys, NEW a, SlotOrigin(k, a) PROVE a \notin dropped
      BY <1>0, <3>1, StoringNotDropped DEF SlotOrigin, CacheIsClean, LifeInv, RestoreInv
    <3> QED
      BY <2>1, <3>1, SlotOrigins DEF CacheIsClean
  <2>2. ASSUME NEW ks \in SUBSET Keys, dropped' = dropped \cup Doomed(ks),
               slot' = [k \in Keys |-> IF k \in ks THEN Empty ELSE slot[k]]
        PROVE  CacheIsClean'
    <3>1. None \notin dropped'
      BY <1>0, <2>2, NoneAssumption DEF Doomed
    <3>2. ASSUME NEW k \in Keys PROVE slot'[k].pos \notin dropped' /\ slot'[k].neg \notin dropped'
      <4>1. CASE k \in ks
        BY <2>2, <3>1, <4>1 DEF Empty, Slot
      <4>2. CASE k \notin ks
        <5>1. slot'[k] = slot[k]
          BY <2>2, <4>2
        <5>2. \A a : AtHome(pc, ctx, a, k) => a \notin Doomed(ks)
          BY <4>2, NoneAssumption DEF AtHome, Doomed
        <5> QED
          BY <2>2, <5>1, <5>2 DEF HomeInv, CacheIsClean
      <4> QED
        BY <4>1, <4>2
    <3> QED
      BY <3>2 DEF CacheIsClean
  <2> QED
    BY <1>2, <2>1, <2>2, FenceMoves DEF FenceMove
<1> QED
  BY <1>1, <1>2

(* What has been reported removed from the state db, or is about to be.    *)
Gone(er, i) == er \cup (IF i.ack = "ok" THEN i.doomed ELSE {})

(* Everything an invalidation selected or erased was dropped.              *)
HistoryNests == erased \subseteq dropped /\ inv.doomed \subseteq dropped

LEMMA HistoryInit == Init => HistoryNests
BY DEF Init, HistoryNests, NoInvalidation, Invalidation

(* What a step does to the invalidation that waits.                        *)
InvMove ==
    \/ inv' = inv /\ erased' = erased
    \/ inv'.pc = "reserved" /\ inv'.doomed = {} /\ inv'.ack = "none" /\ erased' = erased
    \/ inv' = NoInvalidation /\ erased \subseteq erased' /\ erased' \subseteq Gone(erased, inv)
    \/ \E t \in {"flush", "invalidate"}, ks \in SUBSET Keys :
          RaiseFence(t, ks) /\ inv'.doomed = Doomed(ks)
    \/ /\ ReceiveFlush \/ ReceiveInvalidate
       /\ erased' = erased
       /\ \E r \in {"ok", "err"} : Acked(Head(commands).epoch, r)

LEMMA InvMoves ==
    ASSUME TypeOK, [Next]_vars
    PROVE  InvMove
<1>1. CASE \/ \E q \in Queries : Resolve(q) \/ Cancel(q)
           \/ \E k \in Keys : AgePositive(k) \/ AgeNegative(k)
           \/ Tick \/ ReceivePut \/ ReceiveShutdown
           \/ (\E k \in Keys : RestoreRow(k)) \/ InstallPersister \/ Shutdown \/ UNCHANGED vars
  <2>1. inv' = inv /\ erased' = erased
    BY ZenonT(40), <1>1 DEF Resolve, Start, Lookup, SpawnRefresh, ServeHit, Acquire, StorePositive,
       StoreNegative, Supersede, Unstored, ServeStale, NoStale, Publish,
       PublishUntemplated, Released, Fail, Cancel, AgePositive, AgeNegative,
       Tick, ReceivePut, ReceiveShutdown, RestoreRow, InstallPersister, Shutdown, vars, invVars
  <2> QED
    BY <2>1 DEF InvMove
<1>2. CASE Reserve
  BY <1>2 DEF Reserve, Invalidation, InvMove
<1>3. ASSUME NEW t \in {"flush", "invalidate"}, NEW ks \in SUBSET Keys, RaiseFence(t, ks)
      PROVE  InvMove
  <2>1. inv'.doomed = Doomed(ks)
    BY <1>3 DEF RaiseFence, Invalidation
  <2> QED
    BY <1>3, <2>1 DEF InvMove
<1>4. CASE InvalidateReturns \/ InvalidateDropped \/ Restart
  BY <1>4 DEF InvalidateReturns, InvalidateDropped, LowerFence, Restart, Gone, InvMove
<1>5. CASE ReceiveFlush \/ ReceiveInvalidate
  BY <1>5 DEF ReceiveFlush, ReceiveInvalidate, InvMove
<1> QED
  BY <1>1, <1>2, <1>3, <1>4, <1>5 DEF Next, Invalidate, Actor

LEMMA HistoryNext == TypeOK /\ HistoryNests /\ [Next]_vars => HistoryNests'
<1> SUFFICES ASSUME TypeOK, HistoryNests, [Next]_vars PROVE HistoryNests'
  OBVIOUS
<1>1. CASE Restart
  BY <1>1 DEF Restart, NoInvalidation, Invalidation, HistoryNests
<1>2. CASE ~Restart
  <2>1. dropped \subseteq dropped'
    BY <1>2, FenceMoves DEF FenceMove
  <2>2. InvMove
    BY InvMoves
  <2>3. CASE inv' = inv /\ erased' = erased
    BY <2>1, <2>3 DEF HistoryNests
  <2>4. CASE inv'.doomed = {} /\ erased' = erased
    BY <2>1, <2>4 DEF HistoryNests
  <2>5. CASE inv' = NoInvalidation /\ erased' \subseteq Gone(erased, inv)
    BY <2>1, <2>5 DEF HistoryNests, NoInvalidation, Invalidation, Gone
  <2>6. ASSUME NEW t, NEW ks \in SUBSET Keys, RaiseFence(t, ks), inv'.doomed = Doomed(ks)
        PROVE  HistoryNests'
    BY <2>1, <2>6 DEF RaiseFence, HistoryNests
  <2>7. ASSUME NEW e, NEW r, Acked(e, r), erased' = erased PROVE HistoryNests'
    BY <2>1, <2>7 DEF Acked, Invalidation, HistoryNests
  <2> QED
    BY <2>2, <2>3, <2>4, <2>5, <2>6, <2>7 DEF InvMove
<1> QED
  BY <1>1, <1>2

(* The barrier of a waiting invalidation i selects the keys of what it     *)
(* doomed, and no put of a doomed answer is queued behind it.              *)
Covers(ch, i, c) ==
    \A n \in DOMAIN ch : IsBarrier(ch[n]) /\ ch[n].epoch = i.epoch =>
        /\ \A a \in i.doomed : c[a].key \in ch[n].keys
        /\ \A m \in DOMAIN ch : n < m /\ IsPut(ch[m]) => ch[m].ans \notin i.doomed

CoverInv == inv.pc = "wait" => Covers(commands, inv, ctx)

LEMMA CoverInit == Init => CoverInv
BY DEF Init, CoverInv, NoInvalidation, Invalidation

LEMMA CoverAppend ==
    ASSUME NEW ch \in Seq(Commands), NEW i, NEW c, NEW d, Covers(ch, i, c), ~IsBarrier(d),
           IsPut(d) => d.ans \notin i.doomed
    PROVE  Covers(Append(ch, d), i, c)
<1> DEFINE n == Len(ch)
           e == Append(ch, d)
<1>1. /\ n \in Nat /\ DOMAIN ch = 1..n /\ DOMAIN e = 1..(n + 1)
      /\ e[n + 1] = d /\ (\A m \in 1..n : e[m] = ch[m])
  BY AppendPlaces
<1> HIDE DEF n, e
<1>2. Covers(e, i, c)
  BY <1>1 DEF Covers
<1> QED
  BY <1>2 DEF e

LEMMA CoverTail ==
    ASSUME NEW ch \in Seq(Commands), NEW i, NEW c, Covers(ch, i, c), ch # <<>>
    PROVE  Covers(Tail(ch), i, c)
<1> DEFINE n == Len(ch)
           e == Tail(ch)
<1>1. /\ n \in Nat /\ n > 0 /\ DOMAIN ch = 1..n /\ DOMAIN e = 1..(n - 1)
      /\ (\A m \in 1..(n - 1) : e[m] = ch[m + 1])
  BY TailPlaces
<1> HIDE DEF n, e
<1>2. ASSUME NEW x \in DOMAIN e, IsBarrier(e[x]), e[x].epoch = i.epoch
      PROVE  /\ \A a \in i.doomed : c[a].key \in e[x].keys
             /\ \A m \in DOMAIN e : x < m /\ IsPut(e[m]) => e[m].ans \notin i.doomed
  <2>1. x + 1 \in DOMAIN ch /\ e[x] = ch[x + 1]
    BY <1>1
  <2>2. \A m \in DOMAIN e : m + 1 \in DOMAIN ch /\ e[m] = ch[m + 1] /\ (x < m => x + 1 < m + 1)
    BY <1>1
  <2> QED
    BY <1>2, <2>1, <2>2 DEF Covers
<1> QED
  BY <1>2 DEF Covers, e

LEMMA CoverNext ==
    TypeOK /\ StepInv /\ EraInv /\ HistoryNests /\ CoverInv /\ [Next]_vars => CoverInv'
<1> SUFFICES ASSUME TypeOK, StepInv, EraInv, HistoryNests, CoverInv, [Next]_vars,
                    inv'.pc = "wait"
             PROVE  Covers(commands', inv', ctx')
  BY DEF CoverInv
<1>1. ASSUME inv.pc = "wait", inv'.epoch = inv.epoch, inv'.doomed = inv.doomed
      PROVE  Covers(commands', inv', ctx')
  <2>1. \A a \in inv.doomed : ctx'[a] = ctx[a]
    BY QueriesStay DEF StartedStays, EraInv, DroppedIsPast, HistoryNests, TypeOK
  <2>2. Covers(commands, inv, ctx)
    BY <1>1 DEF CoverInv
  <2>3. Covers(commands', inv, ctx)
    <3>1. ChanMove
      BY ChanMoves
    <3>2. ASSUME NEW q \in Queries, Storing(q), commands' = Append(commands, PutOf(q))
          PROVE  Covers(commands', inv, ctx)
      <4>1. ~IsBarrier(PutOf(q)) /\ PutOf(q).ans = q
        BY DEF PutOf, IsBarrier
      <4>2. q \notin inv.doomed
        BY <3>2, StoringNotDropped DEF HistoryNests
      <4> HIDE DEF PutOf
      <4> QED
        BY <2>2, <3>2, <4>1, <4>2, CoverAppend DEF TypeOK
    <3>3. CASE commands' = Append(commands, [t |-> "shutdown"])
      <4>1. ~IsBarrier([t |-> "shutdown"]) /\ ~IsPut([t |-> "shutdown"])
        BY DEF IsBarrier, IsPut
      <4> QED
        BY <2>2, <3>3, <4>1, CoverAppend DEF TypeOK
    <3>4. CASE commands # <<>> /\ commands' = Tail(commands)
      BY <2>2, <3>4, CoverTail DEF TypeOK
    <3>5. CASE commands' = <<>>
      BY <3>5 DEF Covers
    <3> QED
      BY <1>1, <2>2, <3>1, <3>2, <3>3, <3>4, <3>5 DEF ChanMove
  <2> QED
    BY <1>1, <2>1, <2>3 DEF Covers
<1>2. ASSUME NEW t \in {"flush", "invalidate"}, NEW ks \in SUBSET Keys, RaiseFence(t, ks)
      PROVE  Covers(commands', inv', ctx')
  <2>1. inv'.epoch = pepoch + 1 /\ inv'.doomed = Doomed(ks) /\ ctx' = ctx
    BY <1>2 DEF RaiseFence, Invalidation, queryVars
  <2>2. \A i \in DOMAIN commands : IsBarrier(commands[i]) => commands[i].epoch # pepoch + 1
    <3>1. \A i \in DOMAIN commands : IsBarrier(commands[i]) => commands[i].epoch <= pepoch
      BY DEF StepInv, ChanOK, EpochsBetween
    <3>2. \A i \in DOMAIN commands : IsBarrier(commands[i]) => commands[i].epoch \in Nat
      BY CommandFields DEF TypeOK
    <3> QED
      BY <3>1, <3>2 DEF TypeOK
  <2>3. CASE commands' = commands
    BY <2>1, <2>2, <2>3 DEF Covers
  <2>4. CASE commands' = Append(commands, Barrier(t, ks))
    <3> DEFINE n == Len(commands)
    <3>1. /\ n \in Nat /\ DOMAIN commands = 1..n /\ DOMAIN commands' = 1..(n + 1)
          /\ commands'[n + 1] = Barrier(t, ks)
          /\ \A i \in 1..n : commands'[i] = commands[i]
      BY <2>4, AppendPlaces DEF TypeOK
    <3>2. Barrier(t, ks).keys = ks
      BY DEF Barrier
    <3>3. \A a \in Doomed(ks) : ctx[a].key \in ks
      BY DEF Doomed
    <3> HIDE DEF n, Barrier
    <3>4. ASSUME NEW x \in DOMAIN commands', IsBarrier(commands'[x]),
                 commands'[x].epoch = pepoch + 1
          PROVE  x = n + 1
      BY <2>2, <3>1, <3>4
    <3> QED
      BY <2>1, <3>1, <3>2, <3>3, <3>4 DEF Covers
  <2> QED
    BY <1>2, <2>3, <2>4 DEF RaiseFence
<1>3. ASSUME NEW e, NEW r, Acked(e, r)
      PROVE  inv.pc = "wait" /\ inv'.epoch = inv.epoch /\ inv'.doomed = inv.doomed
  BY <1>3 DEF Acked, Invalidation
<1>4. InvMove
  BY InvMoves
<1>5. NoInvalidation.pc # "wait"
  BY DEF NoInvalidation, Invalidation
<1> QED
  BY <1>1, <1>2, <1>3, <1>4, <1>5 DEF InvMove

(* No answer that is gone is stored, pending, or on its way to be.         *)
StoreIsClean ==
    /\ \A k \in Keys : /\ db[k] \notin Gone(erased, inv)
                       /\ pending[k].ans \notin Gone(erased, inv)
    /\ \A i \in DOMAIN commands : IsPut(commands[i]) => commands[i].ans \notin Gone(erased, inv)

LEMMA StoreInit == Init => StoreIsClean
BY DEF Init, StoreIsClean, Gone, NoInvalidation, Invalidation

(* When nothing more is gone, nothing that is gone comes back.             *)
LEMMA NothingReturns ==
    ASSUME TypeOK, EraInv, HistoryNests, StoreIsClean, [Next]_vars,
           Gone(erased', inv') \subseteq Gone(erased, inv)
    PROVE  StoreIsClean'
<1>1. Gone(erased, inv) \subseteq dropped /\ None \notin Gone(erased, inv)
  BY NoneAssumption DEF HistoryNests, Gone, TypeOK
<1>2. commands # <<>> => 1 \in DOMAIN commands /\ Head(commands) = commands[1]
  BY DEF TypeOK
<1>3. \A k \in Keys : /\ db'[k] \notin Gone(erased, inv)
                      /\ pending'[k].ans \notin Gone(erased, inv)
  BY <1>1, <1>2, RowsMoves DEF RowsMove, StoreIsClean
<1>4. ASSUME NEW i \in DOMAIN commands', IsPut(commands'[i])
      PROVE  commands'[i].ans \notin Gone(erased, inv)
  <2>1. CASE \E j \in DOMAIN commands : commands'[i] = commands[j]
    BY <1>4, <2>1 DEF StoreIsClean
  <2>2. ASSUME NEW q \in Queries, Storing(q), commands'[i] = PutOf(q)
        PROVE  commands'[i].ans \notin Gone(erased, inv)
    BY <1>1, <2>2, StoringNotDropped DEF PutOf
  <2> QED
    BY <1>4, <2>1, <2>2, PutOrigins
<1> QED
  BY <1>3, <1>4 DEF StoreIsClean

(* The barrier of a waiting invalidation removes all that it doomed: the   *)
(* selected rows by their keys, and no doomed answer is queued behind it.  *)
LEMMA BarrierErases ==
    ASSUME TypeOK, HomeInv, HistoryNests, CoverInv, StoreIsClean,
           inv.pc = "wait", commands # <<>>, commands' = Tail(commands),
           IsBarrier(Head(commands)), Head(commands).epoch = inv.epoch,
           inv'.doomed = inv.doomed, erased' = erased,
           \A k \in Keys : \/ db'[k] = None
                           \/ db'[k] = db[k] /\ k \notin Head(commands).keys,
           \A k \in Keys : \/ pending'[k].ans = None
                           \/ /\ pending'[k].ans = pending[k].ans
                              /\ k \notin Head(commands).keys
    PROVE  StoreIsClean'
<1> DEFINE n == Len(commands)
<1>1. /\ n \in Nat /\ n > 0 /\ DOMAIN commands = 1..n /\ DOMAIN commands' = 1..(n - 1)
      /\ (\A i \in 1..(n - 1) : commands'[i] = commands[i + 1]) /\ Head(commands) = commands[1]
  BY TailPlaces DEF TypeOK
<1> HIDE DEF n
<1>2. /\ \A a \in inv.doomed : ctx[a].key \in Head(commands).keys
      /\ \A m \in DOMAIN commands :
            1 < m /\ IsPut(commands[m]) => commands[m].ans \notin inv.doomed
  BY <1>1 DEF CoverInv, Covers
<1>3. Gone(erased', inv') \subseteq erased \cup inv.doomed /\ erased \subseteq Gone(erased, inv)
  BY DEF Gone
<1>4. None \notin erased /\ None \notin inv.doomed
  BY NoneAssumption DEF TypeOK, HistoryNests
<1>5. ASSUME NEW k \in Keys, k \notin Head(commands).keys, NEW a, AtHome(pc, ctx, a, k)
      PROVE  a \notin inv.doomed
  BY <1>2, <1>4, <1>5 DEF AtHome
<1>6. \A k \in Keys : db'[k] \notin erased \cup inv.doomed
  BY <1>3, <1>4, <1>5 DEF HomeInv, StoreIsClean
<1>7. \A k \in Keys : pending'[k].ans \notin erased \cup inv.doomed
  BY <1>3, <1>4, <1>5 DEF HomeInv, StoreIsClean
<1>8. ASSUME NEW i \in DOMAIN commands', IsPut(commands'[i])
      PROVE  commands'[i].ans \notin erased \cup inv.doomed
  <2>1. i + 1 \in DOMAIN commands /\ 1 < i + 1 /\ commands'[i] = commands[i + 1]
    BY <1>1
  <2> QED
    BY <1>2, <1>3, <1>8, <2>1 DEF StoreIsClean
<1> QED
  BY <1>3, <1>6, <1>7, <1>8 DEF StoreIsClean

LEMMA BarrierKeepsClean ==
    ASSUME TypeOK, StepInv, HomeInv, EraInv, HistoryNests, CoverInv, StoreIsClean,
           [Next]_vars, ReceiveFlush \/ ReceiveInvalidate
    PROVE  StoreIsClean'
<1> DEFINE c == Head(commands)
<1>1. /\ worker.st = "run" /\ commands # <<>> /\ IsBarrier(c) /\ commands' = Tail(commands)
      /\ erased' = erased
      /\ pending' = DiscardBefore(c.epoch) \/ pending' = Survivors(c.epoch, c.keys)
  BY DEF ReceiveFlush, ReceiveInvalidate, Receive, IsBarrier
<1>2. CASE Acked(c.epoch, "err") \/ inv' = inv
  <2>1. Gone(erased', inv') \subseteq Gone(erased, inv)
    BY <1>1, <1>2 DEF Acked, Invalidation, Gone
  <2> QED
    BY <2>1, NothingReturns
<1>3. CASE /\ inv.pc = "wait" /\ inv.epoch = c.epoch /\ inv'.doomed = inv.doomed
           /\ \/ db' = [k \in Keys |-> None]
              \/ db' = [k \in Keys |-> IF k \in c.keys THEN None ELSE db[k]]
  <2>1. c.epoch \in Nat /\ worker.active < c.epoch
    <3>1. c.epoch \in Nat
      BY <1>1, HeadBarrier DEF TypeOK, IsBarrier
    <3>2. 1 \in DOMAIN commands /\ c = commands[1]
      BY <1>1 DEF TypeOK
    <3> QED
      BY <1>1, <3>1, <3>2 DEF StepInv, ChanOK, EpochsBetween
  <2>2. \A k \in Keys : pending[k].epoch < c.epoch
    <3>1. worker.active \in Nat
      BY DEF TypeOK, Workers
    <3> QED
      BY <2>1, <3>1 DEF StepInv, RowsInStep
  <2>3. \A k \in Keys : \/ pending'[k].ans = None
                        \/ pending'[k].ans = pending[k].ans /\ k \notin c.keys
    BY <1>1, <2>2 DEF DiscardBefore, Survivors, NoRow, Row
  <2>4. \A k \in Keys : db'[k] = None \/ (db'[k] = db[k] /\ k \notin c.keys)
    BY <1>3
  <2> QED
    BY <1>1, <1>3, <2>3, <2>4, BarrierErases
<1> QED
  BY <1>2, <1>3 DEF ReceiveFlush, ReceiveInvalidate, Acked, Invalidation

LEMMA StoreNext ==
    ASSUME TypeOK, StepInv, HomeInv, EraInv, HistoryNests, CoverInv, StoreIsClean, [Next]_vars
    PROVE  StoreIsClean'
<1>1. CASE ReceiveFlush \/ ReceiveInvalidate
  BY <1>1, BarrierKeepsClean
<1>2. CASE ~(ReceiveFlush \/ ReceiveInvalidate)
  <2>1. InvMove
    BY InvMoves
  <2>2. ASSUME NEW t, NEW ks, RaiseFence(t, ks) PROVE inv'.ack = "none" /\ erased' = erased
    BY <2>2 DEF RaiseFence, Invalidation
  <2>3. NoInvalidation.ack = "none"
    BY DEF NoInvalidation, Invalidation
  <2>4. Gone(erased', inv') \subseteq Gone(erased, inv)
    BY <1>2, <2>1, <2>2, <2>3 DEF InvMove, Gone
  <2> QED
    BY <2>4, NothingReturns
<1> QED
  BY <1>1, <1>2

(* Everything an invalidation needs to stay effective.                     *)
AnswerInv == HomeInv /\ EraInv /\ HistoryNests /\ CoverInv /\ StoreIsClean /\ CacheIsClean

LEMMA AnswerInit == Init => AnswerInv
<1> SUFFICES ASSUME Init PROVE AnswerInv
  OBVIOUS
<1>1. CacheIsClean
  BY DEF Init, CacheIsClean
<1> QED
  BY <1>1, HomeInit, EraInit, HistoryInit, CoverInit, StoreInit DEF AnswerInv

LEMMA AnswerNext ==
    TypeOK /\ LifeInv /\ SlotInv /\ StepInv /\ AnswerInv /\ [Next]_vars => AnswerInv'
<1> SUFFICES ASSUME TypeOK, LifeInv, SlotInv, StepInv, AnswerInv, [Next]_vars PROVE AnswerInv'
  OBVIOUS
<1>1. HomeInv /\ EraInv /\ HistoryNests /\ CoverInv /\ StoreIsClean /\ CacheIsClean
  BY DEF AnswerInv
<1>2. erased \subseteq dropped /\ \A k \in Keys : db[k] \notin erased
  BY <1>1 DEF HistoryNests, StoreIsClean, Gone
<1>3. HomeInv' /\ HistoryNests' /\ CoverInv'
  BY <1>1, HomeNext, HistoryNext, CoverNext
<1>4. EraInv'
  BY <1>1, <1>2, EraNext
<1>5. StoreIsClean'
  BY <1>1, StoreNext
<1>6. CacheIsClean'
  BY <1>1, <1>2, CacheStaysClean
<1> QED
  BY <1>3, <1>4, <1>5, <1>6 DEF AnswerInv

(* An answer an invalidation selected is in no slot of this process again, *)
(* and once the invalidation reported success it is in the state db of no  *)
(* later process either, whatever was being resolved, refreshed, queued,   *)
(* retried or restored meanwhile (cache/control.rs, persist/worker.rs).    *)
THEOREM InvalidatedStaysAway == Spec => []NoResurrection
<1>1. Init => AnswerInv
  BY AnswerInit
<1>2. TypeOK /\ LifeInv /\ SlotInv /\ StepInv /\ AnswerInv /\ [Next]_vars => AnswerInv'
  BY AnswerNext
<1>3. AnswerInv => NoResurrection
  BY DEF AnswerInv, CacheIsClean, StoreIsClean, Gone, NoResurrection
<1> QED
  BY <1>1, <1>2, <1>3, StepAlways, SlotAlways, PTL DEF Spec
=============================================================================
