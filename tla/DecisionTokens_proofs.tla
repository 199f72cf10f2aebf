----------------------- MODULE DecisionTokens_proofs -----------------------
(***************************************************************************)
(* The freshness of decision tokens, for every set of tuples, every size   *)
(* of a generation, every number of generations and every number of        *)
(* reloads and faults.                                                     *)
(*                                                                         *)
(* The argument: every live token is at most `next` (TokensBelowNext), so  *)
(* the token after `next` is fresh.  Only the reset of the allocator moves *)
(* `next` down.  When it does, the drain that came before it has left no   *)
(* token in a producer, in the queue or with the correlator                *)
(* (OutageIsQuiet), and the scan has found none in the maps at or above    *)
(* the generation the allocator goes back to (ScanIsCurrent).              *)
(***************************************************************************)
EXTENDS DecisionTokens, TLAPS

-----------------------------------------------------------------------------
(* The inductive invariant.                                                *)

LoopStates ==
    {"idle", "fence", "barrier", "retire", "drain", "wait", "rebind", "waitAgain", "rotate",
     "scan", "reopen", "reloadDrain", "reloadWait", "reloadCommit", "restoreDrain",
     "restoreWait", "restore", "closeDrain", "closeWait", "stopped"}

\* TypeOK in two parts: what holds tokens, and the flags.
DataType ==
    /\ next \in 0..LastToken
    /\ st \in [Keys -> States]
    /\ held \in [Maps -> [Keys -> 0..LastToken]]
    /\ producer \in [Keys -> [pc : {"idle", "claimed", "allocate", "redirect", "handoff", "publish"},
                              token : 0..LastToken]]
    /\ queue \subseteq [key : Keys, token : 1..LastToken]
    /\ cells \subseteq [key : Keys, token : 1..LastToken, kind : {"cell", "cleanup"}]
    /\ barrier \subseteq Keys

FlagType ==
    /\ ready \in BOOLEAN /\ admission \in BOOLEAN /\ quiescenceFailed \in BOOLEAN
    /\ incomplete \in BOOLEAN /\ retirementFailed \in BOOLEAN
    /\ sequenceReady \in BOOLEAN /\ healthy \in BOOLEAN /\ fatal \in BOOLEAN

\* The part of the control loop TypeOK leaves open.
LoopType ==
    /\ at \in LoopStates
    /\ returnTo \in {"none", "drain", "scan", "reloadDrain"}
    /\ at \in {"fence", "barrier", "retire"} => returnTo # "none"
    /\ offset \in Nat
    /\ scanned \in 0..4
    /\ reloads \in Nat /\ faults \in Nat

\* A producer holds a token from its allocation to its publication or abort.
ProducerShape ==
    \A k \in Keys :
        producer[k].token # 0 <=> producer[k].pc \in {"redirect", "handoff", "publish"}

TokensBelowNext ==
    /\ \A m \in Maps, k \in Keys : held[m][k] <= next
    /\ \A k \in Keys : producer[k].token <= next
    /\ \A p \in queue : p.token <= next
    /\ \A c \in cells : c.token <= next

NoProducerToken == \A k \in Keys : producer[k].token = 0

\* What an outage drains: nothing but the maps holds a token.
Drained == NoProducerToken /\ queue = {} /\ cells = {}

\* No invocation is between its second look at READY and its end.
NoAllocation == ~ready /\ \A k \in Keys : producer[k].pc \in {"idle", "claimed"}

\* From the fence of an exhaustion to the reset, step by step.
OutageIsQuiet ==
    /\ at \in {"fence", "barrier", "retire"} /\ returnTo = "drain" => Exhausted
    /\ at = "barrier" /\ returnTo = "drain" =>
          \A k \in Keys : producer[k].token # 0 => k \in barrier
    /\ at = "retire" /\ returnTo = "drain" => NoProducerToken
    /\ at \in {"drain", "wait", "rebind", "waitAgain"} => Exhausted /\ NoProducerToken
    /\ at = "waitAgain" => queue = {}
    /\ at \in {"wait", "rebind", "waitAgain", "rotate", "scan"} => ~sequenceReady
    /\ at \in {"fence", "barrier", "retire"} /\ returnTo = "scan" => ~sequenceReady
    /\ ~sequenceReady /\ at \notin {"wait", "rebind", "waitAgain", "reopen", "stopped"} =>
          Drained /\ (Exhausted \/ (at = "rotate" /\ NoAllocation))

\* The maps scanned so far hold nothing that conflicts with the candidate.
ScanIsCurrent ==
    /\ at # "scan" => scanned = 0
    /\ at = "scan" => \A i \in 1..scanned : ~LiveIn(ScanOrder[i], Candidate)

TokenInv ==
    /\ DataType /\ FlagType /\ LoopType /\ ProducerShape
    /\ TokensBelowNext /\ OutageIsQuiet /\ ScanIsCurrent

-----------------------------------------------------------------------------
(* Arithmetic of tokens: generation * (SequenceMask + 1) + sequence.       *)

LEMMA ScaleMonotone ==
    ASSUME NEW n \in Nat, NEW a \in Int, NEW b \in Int, a <= b
    PROVE  a * n <= b * n
BY SMT

LEMMA ScaleStep ==
    ASSUME NEW n \in Nat, NEW a \in Int, NEW b \in Int, a < b
    PROVE  a * n + n <= b * n
<1>1. (a + 1) * n <= b * n
  <2>1. a + 1 \in Int /\ a + 1 <= b
    OBVIOUS
  <2> DEFINE c == a + 1
  <2>2. c * n <= b * n
    <3> HIDE DEF c
    <3>1. c \in Int /\ c <= b
      BY <2>1 DEF c
    <3> QED
      BY <3>1, ScaleMonotone
  <2> QED
    BY <2>2
<1> QED
  BY <1>1

LEMMA DivMod ==
    ASSUME NEW n \in Nat \ {0}, NEW a \in Nat
    PROVE  /\ a \div n \in Nat /\ a % n \in 0..(n - 1)
           /\ a = (a \div n) * n + (a % n)
BY SMT

(* A generation that a token is below ends before the candidate begins.     *)
LEMMA BelowGeneration ==
    ASSUME NEW t \in Nat, NEW g \in Nat, Generation(t) < g
    PROVE  t < FirstOf(g)
<1> DEFINE n == SequenceMask + 1
           q == t \div n
<1>1. n \in Nat \ {0}
  BY MasksAreUsable
<1>2. q \in Nat /\ t % n \in 0..(n - 1) /\ t = q * n + (t % n)
  BY <1>1, DivMod
<1> HIDE DEF n, q
<1>3. q < g
  BY DEF Generation, q, n
<1>4. q * n + n <= g * n
  BY <1>1, <1>2, <1>3, ScaleStep
<1>5. t < q * n + n
  BY <1>1, <1>2
<1> QED
  BY <1>1, <1>2, <1>4, <1>5 DEF FirstOf, n

LEMMA TokenRange ==
    ASSUME NEW g \in 0..GenerationMask
    PROVE  /\ LastToken \in Nat /\ FirstOf(g) \in Nat
           /\ FirstOf(g) + SequenceMask <= LastToken
<1>1. SequenceMask + 1 \in Nat /\ SequenceMask \in Nat /\ GenerationMask \in Nat
  BY MasksAreUsable
<1>2. g * (SequenceMask + 1) <= GenerationMask * (SequenceMask + 1)
  BY <1>1, ScaleMonotone
<1>3. g * (SequenceMask + 1) \in Nat /\ GenerationMask * (SequenceMask + 1) \in Nat
  BY <1>1
<1> QED
  BY <1>1, <1>2, <1>3 DEF FirstOf, LastToken

(* An allocator that is not exhausted has a next token.                     *)
LEMMA NextToken ==
    ASSUME next \in 0..LastToken, ~Exhausted
    PROVE  next + 1 \in 0..LastToken
<1> DEFINE n == SequenceMask + 1
<1>1. n \in Nat \ {0} /\ GenerationMask \in Nat /\ SequenceMask \in Nat
  BY MasksAreUsable
<1>2. LastToken \in Nat /\ next \in Nat
  BY TokenRange, <1>1
<1>3. SUFFICES ASSUME next = LastToken PROVE FALSE
  BY <1>2
<1>4. LastToken = GenerationMask * n + (n - 1)
  BY <1>1 DEF LastToken, FirstOf
<1>5. LastToken \div n \in Nat /\ LastToken % n \in 0..(n - 1)
      /\ LastToken = (LastToken \div n) * n + (LastToken % n)
  BY <1>1, <1>2, DivMod
<1>6. LastToken % n < n - 1
  BY <1>3, <1>1, <1>5 DEF Exhausted
<1> DEFINE q == LastToken \div n
<1> HIDE DEF n, q
<1>7. q \in Nat /\ q * n > GenerationMask * n
  BY <1>1, <1>4, <1>5, <1>6 DEF q
<1>8. q > GenerationMask
  <2>1. q <= GenerationMask => q * n <= GenerationMask * n
    BY <1>1, <1>7, ScaleMonotone
  <2> QED
    BY <1>1, <1>7, <2>1
<1>9. GenerationMask * n + n <= q * n
  BY <1>8, <1>1, <1>7, ScaleStep
<1> QED
  BY <1>1, <1>4, <1>5, <1>7, <1>9 DEF q

LEMMA CandidateRange ==
    ASSUME next \in 0..LastToken, offset \in Nat
    PROVE  Candidate \in 0..GenerationMask
<1>1. SequenceMask + 1 \in Nat \ {0} /\ GenerationMask + 1 \in Nat \ {0} /\ next \in Nat
      /\ GenerationMask \in Nat
  BY MasksAreUsable, TokenRange
<1>2. Generation(next) \in Nat
  BY <1>1, DivMod DEF Generation
<1>3. Generation(next) + offset \in Nat
  BY <1>2
<1>4. (Generation(next) + offset) % (GenerationMask + 1) \in 0..(GenerationMask + 1 - 1)
  BY <1>1, <1>3, DivMod
<1> QED
  BY <1>1, <1>4 DEF Candidate

LEMMA ZeroToken == 0 \in 0..LastToken /\ LastToken \in Nat
BY TokenRange, MasksAreUsable

LEMMA TypeParts == TypeOK <=> DataType /\ FlagType
BY DEF TypeOK, DataType, FlagType

-----------------------------------------------------------------------------
(* Kernel producers.  Each lemma isolates what the step writes, then goes   *)
(* through the conjuncts of the invariant.                                  *)

(* What every producer step leaves alone.                                   *)
LEMMA ProducerFrameKeeps ==
    ASSUME TokenInv, ProducerFrame
    PROVE  /\ FlagType' /\ LoopType'
           /\ UNCHANGED <<fence, cells, ready, sequenceReady, at, returnTo, offset, scanned, barrier>>
<1>1. FlagType'
  BY Zenon DEF TokenInv, ProducerFrame, FlagType, flags, control
<1>2. LoopType'
  BY DEF TokenInv, ProducerFrame, LoopType, loop, bounds
<1>3. UNCHANGED <<fence, cells, ready, sequenceReady, at, returnTo, offset, scanned, barrier>>
  BY Zenon DEF ProducerFrame, flags, control, loop
<1> QED
  BY <1>1, <1>2, <1>3

(* A producer step during an outage holds no token and takes none.          *)
LEMMA QuietProducer ==
    ASSUME TokenInv, ProducerFrame, NEW k \in Keys,
           NEW p \in [pc : {"idle", "claimed", "allocate", "redirect", "handoff", "publish"},
                      token : 0..LastToken],
           producer' = [producer EXCEPT ![k] = p],
           p.token \in {0, producer[k].token},
           p.pc \in {"idle", "claimed"} \/ producer[k].pc \notin {"idle", "claimed"} \/ ready,
           next' = next, queue' = queue \/ producer[k].token # 0
    PROVE  OutageIsQuiet'
<1>1. \A j \in Keys : producer'[j] = IF j = k THEN p ELSE producer[j]
  BY DEF TokenInv, DataType
<1>2. NoProducerToken => NoProducerToken'
  BY <1>1 DEF NoProducerToken
<1>3. NoProducerToken => queue' = queue
  BY DEF NoProducerToken
<1>4. NoAllocation => NoAllocation'
  BY <1>1, ProducerFrameKeeps DEF NoAllocation
<1>5. Drained => Drained'
  BY <1>2, <1>3, ProducerFrameKeeps DEF Drained
<1>6. Exhausted' <=> Exhausted
  BY DEF Exhausted
<1> QED
  BY <1>1, <1>2, <1>3, <1>4, <1>5, <1>6, ProducerFrameKeeps
     DEF TokenInv, OutageIsQuiet, Drained

(* Map entries a producer writes hold its token; in a scan it has none.     *)
LEMMA HoldKeeps ==
    ASSUME TokenInv, ProducerFrame, NEW k \in Keys, NEW m \in Maps,
           held' = Hold(m, k, producer[k].token), next' = next
    PROVE  /\ held' \in [Maps -> [Keys -> 0..LastToken]]
           /\ \A n \in Maps, j \in Keys : held'[n][j] <= next'
           /\ ScanIsCurrent'
<1>1. producer[k].token \in 0..LastToken /\ producer[k].token <= next
  BY DEF TokenInv, DataType, TokensBelowNext
<1>2. held \in [Maps -> [Keys -> 0..LastToken]]
  BY DEF TokenInv, DataType
<1>3. held' \in [Maps -> [Keys -> 0..LastToken]]
  BY <1>1, <1>2 DEF Hold
<1>4. \A n \in Maps, j \in Keys : held'[n][j] \in {held[n][j], producer[k].token}
  BY <1>2 DEF Hold
<1>5. \A n \in Maps, j \in Keys : held'[n][j] <= next'
  BY <1>1, <1>4 DEF TokenInv, TokensBelowNext
<1>6. ScanIsCurrent'
  <2> SUFFICES ASSUME at = "scan", NEW i \in 1..scanned PROVE ~LiveIn(ScanOrder[i], Candidate)'
    BY ProducerFrameKeeps DEF TokenInv, ScanIsCurrent
  <2>1. producer[k].token = 0
    BY DEF TokenInv, OutageIsQuiet, Drained, NoProducerToken
  <2>2. ScanOrder[i] \in Maps
    BY DEF TokenInv, LoopType, Maps, ScanOrder
  <2>3. Candidate' = Candidate
    BY ProducerFrameKeeps DEF Candidate
  <2>4. LiveIn(ScanOrder[i], Candidate)' => LiveIn(ScanOrder[i], Candidate)
    BY <1>4, <2>1, <2>2, <2>3 DEF LiveIn, ConflictsWithRollback
  <2> QED
    BY <2>4 DEF TokenInv, ScanIsCurrent
<1> QED
  BY <1>3, <1>5, <1>6

LEMMA ClaimKeeps ==
    ASSUME TokenInv, NEW k \in Keys, Claim(k)
    PROVE  TokenInv'
<1> DEFINE p == [producer[k] EXCEPT !.pc = "claimed"]
<1>1. /\ ProducerFrame /\ UNCHANGED <<next, held, queue>>
      /\ producer[k] = Idle /\ st' = [st EXCEPT ![k] = "Preparing"]
      /\ producer' = [producer EXCEPT ![k] = p]
  BY DEF Claim, Goto, TokenInv, DataType
<1>2. /\ p \in [pc : {"idle", "claimed", "allocate", "redirect", "handoff", "publish"},
                token : 0..LastToken]
      /\ p.pc = "claimed" /\ p.token = 0
  BY <1>1 DEF TokenInv, DataType, Idle
<1> HIDE DEF p
<1>3. DataType'
  BY <1>1, <1>2, ProducerFrameKeeps DEF TokenInv, DataType, States
<1>4. ProducerShape'
  BY <1>1, <1>2 DEF TokenInv, DataType, ProducerShape
<1>5. TokensBelowNext'
  BY <1>1, <1>2, ProducerFrameKeeps DEF TokenInv, DataType, TokensBelowNext
<1>6. OutageIsQuiet'
  BY <1>1, <1>2, QuietProducer
<1>7. ScanIsCurrent'
  BY <1>1, ProducerFrameKeeps DEF TokenInv, ScanIsCurrent, LiveIn, Candidate
<1> QED
  BY <1>1, <1>3, <1>4, <1>5, <1>6, <1>7, ProducerFrameKeeps DEF TokenInv

(* abort_udp_preparing: what it leaves in the map is the producer's token.  *)
LEMMA AbortKeeps ==
    ASSUME TokenInv, NEW k \in Keys, Abort(k), ProducerFrame
    PROVE  TokenInv'
<1>1. /\ UNCHANGED <<next, queue>> /\ st' = [st EXCEPT ![k] = "Aborted"]
      /\ held' = Hold("CONN_STATE_MAP", k, producer[k].token)
      /\ producer' = [producer EXCEPT ![k] = Idle]
  BY DEF Abort
<1>2. "CONN_STATE_MAP" \in Maps
  BY DEF Maps, ScanOrder
<1>3. /\ Idle \in [pc : {"idle", "claimed", "allocate", "redirect", "handoff", "publish"},
                   token : 0..LastToken]
      /\ Idle.pc = "idle" /\ Idle.token = 0
  BY ZeroToken DEF Idle
<1>4. DataType'
  BY <1>1, <1>2, <1>3, HoldKeeps, ProducerFrameKeeps DEF TokenInv, DataType, States
<1>5. ProducerShape'
  BY <1>1, <1>3 DEF TokenInv, DataType, ProducerShape
<1>6. TokensBelowNext'
  BY <1>1, <1>2, <1>3, HoldKeeps, ProducerFrameKeeps DEF TokenInv, DataType, TokensBelowNext
<1>7. OutageIsQuiet'
  BY <1>1, <1>3, QuietProducer
<1> QED
  BY <1>1, <1>2, <1>4, <1>5, <1>6, <1>7, HoldKeeps, ProducerFrameKeeps DEF TokenInv

LEMMA ReadReadyKeeps ==
    ASSUME TokenInv, NEW k \in Keys, ReadReady(k)
    PROVE  TokenInv'
<1>1. CASE ~ready
  BY <1>1, AbortKeeps DEF ReadReady
<1>2. CASE ready
  <2> DEFINE p == [producer[k] EXCEPT !.pc = "allocate"]
  <2>1. /\ ProducerFrame /\ UNCHANGED <<next, st, held, queue>>
        /\ producer[k].pc = "claimed" /\ producer' = [producer EXCEPT ![k] = p]
    BY <1>2 DEF ReadReady, Goto, TokenInv, DataType
  <2>2. /\ p \in [pc : {"idle", "claimed", "allocate", "redirect", "handoff", "publish"},
                  token : 0..LastToken]
        /\ p.pc = "allocate" /\ p.token = 0 /\ producer[k].token = 0
    BY <2>1 DEF TokenInv, DataType, ProducerShape
  <2> HIDE DEF p
  <2>3. DataType'
    BY <2>1, <2>2, ProducerFrameKeeps DEF TokenInv, DataType
  <2>4. ProducerShape' /\ TokensBelowNext'
    BY <2>1, <2>2, ProducerFrameKeeps DEF TokenInv, DataType, ProducerShape, TokensBelowNext
  <2>5. OutageIsQuiet'
    BY <1>2, <2>1, <2>2, QuietProducer
  <2>6. ScanIsCurrent'
    BY <2>1, ProducerFrameKeeps DEF TokenInv, ScanIsCurrent, LiveIn, Candidate
  <2> QED
    BY <2>1, <2>3, <2>4, <2>5, <2>6, ProducerFrameKeeps DEF TokenInv
<1> QED
  BY <1>1, <1>2

(* The one step that brings a token to life: the allocator is not exhausted, *)
(* so no scan is under way and nothing relies on there being no token.       *)
LEMMA AllocateKeeps ==
    ASSUME TokenInv, NEW k \in Keys, Allocate(k)
    PROVE  TokenInv'
<1>1. CASE Exhausted
  BY <1>1, AbortKeeps DEF Allocate
<1>2. CASE ~Exhausted
  <2>1. /\ ProducerFrame /\ UNCHANGED <<st, held, queue>> /\ next' = next + 1
        /\ producer[k].pc = "allocate"
        /\ producer' = [producer EXCEPT ![k] = [pc |-> "redirect", token |-> next + 1]]
    BY <1>2 DEF Allocate
  <2>2. next \in Nat /\ next + 1 \in 0..LastToken /\ next + 1 # 0
    BY <1>2, NextToken, ZeroToken DEF TokenInv, DataType
  <2>3. DataType'
    BY <2>1, <2>2, ProducerFrameKeeps DEF TokenInv, DataType
  <2>4. ProducerShape'
    BY <2>1, <2>2, ProducerFrameKeeps DEF TokenInv, DataType, ProducerShape
  <2>5. TokensBelowNext'
    <3>1. \A m \in Maps, j \in Keys : held[m][j] \in Nat
      BY ZeroToken DEF TokenInv, DataType
    <3>2. \A j \in Keys : producer[j].token \in Nat
      BY ZeroToken DEF TokenInv, DataType
    <3>3. (\A p \in queue : p.token \in Nat) /\ (\A c \in cells : c.token \in Nat)
      BY ZeroToken DEF TokenInv, DataType
    <3>4. \A j \in Keys : producer'[j].token \in {producer[j].token, next + 1}
      BY <2>1 DEF TokenInv, DataType
    <3> QED
      BY <2>1, <2>2, <3>1, <3>2, <3>3, <3>4, ProducerFrameKeeps DEF TokenInv, TokensBelowNext
  <2>6. /\ at \notin {"drain", "wait", "rebind", "waitAgain", "rotate", "scan"}
        /\ at \in {"fence", "barrier", "retire"} => returnTo \notin {"drain", "scan"}
        /\ sequenceReady \/ at \in {"reopen", "stopped"}
    BY <1>2, <2>1 DEF TokenInv, OutageIsQuiet, NoAllocation
  <2>7. OutageIsQuiet' /\ ScanIsCurrent'
    BY <2>1, <2>6, ProducerFrameKeeps DEF TokenInv, OutageIsQuiet, ScanIsCurrent
  <2> QED
    BY <2>1, <2>3, <2>4, <2>5, <2>7, ProducerFrameKeeps DEF TokenInv
<1> QED
  BY <1>1, <1>2

(* publish_redirect and publish_handoff need a token in hand, which an       *)
(* outage has taken from every producer.                                     *)
LEMMA AuxiliaryKeeps ==
    ASSUME TokenInv, NEW k \in Keys, NEW m \in Maps,
           NEW from \in {"redirect", "handoff"}, NEW to \in {"handoff", "publish"},
           PublishAuxiliary(k, m, from, to)
    PROVE  TokenInv'
<1>1. CASE Abort(k)
  BY <1>1, AbortKeeps DEF PublishAuxiliary
<1>2. CASE ~Abort(k)
  <2> DEFINE p == [producer[k] EXCEPT !.pc = to]
  <2>1. /\ ProducerFrame /\ UNCHANGED <<next, st, queue>> /\ producer[k].pc = from
        /\ held' = Hold(m, k, producer[k].token)
        /\ producer' = [producer EXCEPT ![k] = p]
    BY <1>2 DEF PublishAuxiliary, Goto, TokenInv, DataType
  <2>2. /\ p \in [pc : {"idle", "claimed", "allocate", "redirect", "handoff", "publish"},
                  token : 0..LastToken]
        /\ p.pc = to /\ p.token = producer[k].token /\ producer[k].token # 0
    BY <2>1 DEF TokenInv, DataType, ProducerShape
  <2> HIDE DEF p
  <2>3. DataType'
    BY <2>1, <2>2, HoldKeeps, ProducerFrameKeeps DEF TokenInv, DataType
  <2>4. ProducerShape'
    BY <2>1, <2>2 DEF TokenInv, DataType, ProducerShape
  <2>5. TokensBelowNext'
    BY <2>1, <2>2, HoldKeeps, ProducerFrameKeeps DEF TokenInv, DataType, TokensBelowNext
  <2>6. OutageIsQuiet'
    BY <2>1, <2>2, QuietProducer
  <2> QED
    BY <2>1, <2>3, <2>4, <2>5, <2>6, HoldKeeps, ProducerFrameKeeps DEF TokenInv
<1> QED
  BY <1>1, <1>2

LEMMA PublishKeeps ==
    ASSUME TokenInv, NEW k \in Keys, Publish(k)
    PROVE  TokenInv'
<1>1. CASE Abort(k)
  BY <1>1, AbortKeeps DEF Publish
<1>2. CASE ~Abort(k)
  <2>1. /\ ProducerFrame /\ next' = next /\ producer[k].pc = "publish"
        /\ st' = [st EXCEPT ![k] = "Pending"]
        /\ held' = Hold("CONN_STATE_MAP", k, producer[k].token)
        /\ queue' = queue \cup {[key |-> k, token |-> producer[k].token]}
        /\ producer' = [producer EXCEPT ![k] = Idle]
    BY <1>2 DEF Publish
  <2>2. "CONN_STATE_MAP" \in Maps
    BY DEF Maps, ScanOrder
  <2>3. producer[k].token \in 1..LastToken /\ producer[k].token # 0
    BY <2>1, ZeroToken DEF TokenInv, DataType, ProducerShape
  <2>4. /\ Idle \in [pc : {"idle", "claimed", "allocate", "redirect", "handoff", "publish"},
                     token : 0..LastToken]
        /\ Idle.pc = "idle" /\ Idle.token = 0
    BY ZeroToken DEF Idle
  <2>5. queue' \subseteq [key : Keys, token : 1..LastToken]
    BY <2>1, <2>3 DEF TokenInv, DataType
  <2>6. DataType'
    BY <2>1, <2>2, <2>4, <2>5, HoldKeeps, ProducerFrameKeeps DEF TokenInv, DataType, States
  <2>7. ProducerShape'
    BY <2>1, <2>4 DEF TokenInv, DataType, ProducerShape
  <2>8. TokensBelowNext'
    BY <2>1, <2>2, <2>4, HoldKeeps, ProducerFrameKeeps DEF TokenInv, DataType, TokensBelowNext
  <2>9. OutageIsQuiet'
    BY <2>1, <2>3, <2>4, QuietProducer
  <2> QED
    BY <2>1, <2>2, <2>6, <2>7, <2>8, <2>9, HoldKeeps, ProducerFrameKeeps DEF TokenInv
<1> QED
  BY <1>1, <1>2

LEMMA ProduceKeeps == TokenInv /\ Produce => TokenInv'
<1> SUFFICES ASSUME TokenInv, NEW k \in Keys, Claim(k) \/ RunProducer(k) PROVE TokenInv'
  BY DEF Produce
<1>1. "REDIRECT_TRACK" \in Maps /\ "ROUTING_HANDOFF_MAP" \in Maps
  BY DEF Maps, ScanOrder
<1>2. ASSUME PublishAuxiliary(k, "REDIRECT_TRACK", "redirect", "handoff") PROVE TokenInv'
  BY <1>1, <1>2, AuxiliaryKeeps
<1>3. ASSUME PublishAuxiliary(k, "ROUTING_HANDOFF_MAP", "handoff", "publish") PROVE TokenInv'
  BY <1>1, <1>3, AuxiliaryKeeps
<1> QED
  BY <1>2, <1>3, ClaimKeeps, ReadReadyKeeps, AllocateKeeps, PublishKeeps DEF RunProducer

-----------------------------------------------------------------------------
(* The correlator and the janitor: no step of theirs writes the allocator,  *)
(* a producer or the control loop, or creates a token.                      *)

CellType == [key : Keys, token : 1..LastToken, kind : {"cell", "cleanup"}]

LEMMA UserStepKeeps ==
    ASSUME TokenInv,
           UNCHANGED <<next, producer, ready, sequenceReady, at, returnTo, offset, scanned, barrier,
                       reloads>>,
           faults' \in Nat, FlagType',
           st' \in [Keys -> States],
           held' \in [Maps -> [Keys -> 0..LastToken]],
           \A m \in Maps, k \in Keys : held'[m][k] <= next,
           at = "scan" => held' = held,
           queue' \subseteq queue,
           \A c \in cells' : c \in CellType /\ c.token <= next,
           queue = {} /\ cells = {} => cells' = {}
    PROVE  TokenInv'
<1>1. DataType'
  BY DEF TokenInv, DataType, CellType
<1>2. LoopType' /\ ProducerShape'
  BY DEF TokenInv, LoopType, ProducerShape
<1>3. TokensBelowNext'
  BY DEF TokenInv, TokensBelowNext
<1>4. /\ Exhausted' <=> Exhausted
      /\ NoProducerToken' <=> NoProducerToken
      /\ NoAllocation' <=> NoAllocation
      /\ Drained => Drained'
      /\ queue = {} => queue' = {}
  BY DEF Exhausted, NoProducerToken, NoAllocation, Drained
<1>5. OutageIsQuiet'
  BY <1>4 DEF TokenInv, OutageIsQuiet
<1>6. ScanIsCurrent'
  BY DEF TokenInv, ScanIsCurrent, LiveIn, Candidate
<1> QED
  BY <1>1, <1>2, <1>3, <1>5, <1>6 DEF TokenInv

(* Every step below keeps what it does not name.                            *)
LEMMA Stay ==
    ASSUME TokenInv
    PROVE  /\ next \in Nat /\ faults \in Nat
           /\ st \in [Keys -> States]
           /\ held \in [Maps -> [Keys -> 0..LastToken]]
           /\ \A m \in Maps, k \in Keys : held[m][k] <= next
           /\ \A c \in cells : c \in CellType /\ c.token <= next
           /\ \A p \in queue : p \in [key : Keys, token : 1..LastToken] /\ p.token <= next
           /\ FlagType
BY ZeroToken DEF TokenInv, DataType, LoopType, TokensBelowNext, CellType

(* What a retirement of the tuples K leaves in the maps.                    *)
LEMMA RetiredMaps ==
    ASSUME TokenInv, NEW K
    PROVE  /\ Absent(K) \in [Keys -> States]
           /\ Removed(K) \in [Maps -> [Keys -> 0..LastToken]]
           /\ \A m \in Maps, k \in Keys : Removed(K)[m][k] \in {held[m][k], 0}
           /\ \A m \in Maps, k \in Keys : Removed(K)[m][k] <= next
<1>1. Absent(K) \in [Keys -> States]
  BY Stay DEF Absent, States
<1>2. Removed(K) \in [Maps -> [Keys -> 0..LastToken]]
  BY Stay, ZeroToken DEF Removed
<1>3. \A m \in Maps, k \in Keys : Removed(K)[m][k] \in {held[m][k], 0}
  BY DEF Removed
<1>4. \A m \in Maps, k \in Keys : Removed(K)[m][k] <= next
  BY <1>3, Stay
<1> QED
  BY <1>1, <1>2, <1>3, <1>4

LEMMA IngestKeeps ==
    ASSUME TokenInv, NEW p \in queue, Ingest(p)
    PROVE  TokenInv'
<1>1. /\ UNCHANGED <<next, st, held, producer, ready, sequenceReady, at, returnTo, offset,
                     scanned, barrier, reloads, faults>>
      /\ queue' = queue \ {p}
  BY DEF Ingest, flags, control, loop, bounds
<1>2. FlagType'
  BY Stay, Zenon DEF Ingest, FlagType, flags, control
<1>3. \A c \in cells' : c \in CellType /\ c.token <= next
  <2>1. \A c \in cells' : c \in cells \/ c = [key |-> p.key, token |-> p.token, kind |-> "cell"]
                          \/ c = [key |-> p.key, token |-> p.token, kind |-> "cleanup"]
    BY DEF Ingest
  <2> QED
    BY <2>1, Stay DEF CellType
<1> QED
  BY <1>1, <1>2, <1>3, Stay, UserStepKeeps

LEMMA CommitKeeps ==
    ASSUME TokenInv, NEW c \in cells, NEW to \in {"Direct", "Proxy", "Block"}, Commit(c, to)
    PROVE  TokenInv'
<1>1. /\ UNCHANGED <<next, producer, queue, ready, sequenceReady, at, returnTo, offset,
                     scanned, barrier, reloads, faults>>
      /\ at # "scan" /\ cells' \subseteq cells
  BY DEF Commit, BackendFree, UserspaceFrame, flags, control, loop, bounds
<1>2. FlagType'
  BY Stay, Zenon DEF Commit, UserspaceFrame, FlagType, flags, control
<1>3. /\ c.key \in Keys /\ "ROUTING_HANDOFF_MAP" \in Maps /\ "REDIRECT_TRACK" \in Maps
      /\ to \in States /\ 0 \in 0..LastToken
  BY Stay, ZeroToken DEF CellType, Maps, ScanOrder, States
<1>4. st' \in [Keys -> States]
  BY <1>3, Stay DEF Commit
<1> DEFINE h1 == [held EXCEPT !["ROUTING_HANDOFF_MAP"][c.key] = 0]
           h2 == [h1 EXCEPT !["REDIRECT_TRACK"][c.key] = IF to = "Proxy" THEN @ ELSE 0]
<1>5. held' \in {held, h2}
  BY DEF Commit
<1>6. /\ h1 \in [Maps -> [Keys -> 0..LastToken]]
      /\ \A m \in Maps, k \in Keys : h1[m][k] \in {held[m][k], 0}
  BY <1>3, Stay
<1>7. /\ h2 \in [Maps -> [Keys -> 0..LastToken]]
      /\ \A m \in Maps, k \in Keys : h2[m][k] \in {h1[m][k], 0}
  <2> HIDE DEF h1
  <2> QED BY <1>3, <1>6
<1>8. /\ held' \in [Maps -> [Keys -> 0..LastToken]]
      /\ \A m \in Maps, k \in Keys : held'[m][k] \in {held[m][k], 0}
  <2> HIDE DEF h1, h2
  <2> QED BY <1>5, <1>6, <1>7, Stay
<1>9. \A m \in Maps, k \in Keys : held'[m][k] <= next
  BY <1>8, Stay
<1> QED
  BY <1>1, <1>2, <1>4, <1>8, <1>9, Stay, UserStepKeeps

LEMMA CleanUpKeeps ==
    ASSUME TokenInv, NEW c \in cells, CleanUp(c)
    PROVE  TokenInv'
<1>1. /\ UNCHANGED <<next, producer, queue, ready, sequenceReady, at, returnTo, offset,
                     scanned, barrier, reloads, faults>>
      /\ at # "scan" /\ cells' \subseteq cells
  BY DEF CleanUp, BackendFree, UserspaceFrame, flags, control, loop, bounds
<1>2. FlagType'
  BY Stay, Zenon DEF CleanUp, UserspaceFrame, FlagType, flags, control
<1>3. PICK K : st' = Absent(K) /\ held' = Removed(K)
  BY DEF CleanUp
<1> QED
  BY <1>1, <1>2, <1>3, RetiredMaps, Stay, UserStepKeeps

LEMMA ExpireKeeps ==
    ASSUME TokenInv, NEW k \in Keys, Expire(k)
    PROVE  TokenInv'
<1>1. /\ UNCHANGED <<next, producer, queue, cells, ready, sequenceReady, at, returnTo, offset,
                     scanned, barrier, reloads, faults>>
      /\ at # "scan" /\ st' = Absent({k}) /\ held' = Removed({k})
  BY DEF Expire, BackendFree, UserspaceFrame, flags, control, loop, bounds
<1>2. FlagType'
  BY Stay, Zenon DEF Expire, UserspaceFrame, FlagType, flags, control
<1> QED
  BY <1>1, <1>2, RetiredMaps, Stay, UserStepKeeps

LEMMA ReleaseFailsKeeps ==
    ASSUME TokenInv, NEW k \in Keys, ReleaseFails(k)
    PROVE  TokenInv'
<1>1. /\ UNCHANGED <<next, producer, queue, cells, ready, sequenceReady, at, returnTo, offset,
                     scanned, barrier, reloads>>
      /\ at # "scan" /\ faults' = faults + 1
  BY DEF ReleaseFails, Fault, BackendFree, UserspaceFrame, control, loop
<1>2. FlagType'
  BY Stay, Zenon DEF ReleaseFails, UserspaceFrame, FlagType, flags, control
<1>3. /\ "RETIRE_FENCE" \in Maps /\ "CONN_STATE_MAP" \in Maps
      /\ held["CONN_STATE_MAP"][k] \in 0..LastToken /\ held["CONN_STATE_MAP"][k] <= next
  BY Stay DEF Maps, ScanOrder
<1>4. PICK h \in {held, Removed({k})} :
        held' = [h EXCEPT !["RETIRE_FENCE"][k] = held["CONN_STATE_MAP"][k]]
  BY DEF ReleaseFails, Hold
<1>5. /\ h \in [Maps -> [Keys -> 0..LastToken]]
      /\ \A m \in Maps, j \in Keys : h[m][j] <= next
  BY <1>4, Stay, RetiredMaps
<1>6. /\ held' \in [Maps -> [Keys -> 0..LastToken]]
      /\ \A m \in Maps, j \in Keys : held'[m][j] \in {h[m][j], held["CONN_STATE_MAP"][k]}
  BY <1>3, <1>4, <1>5
<1>7. st' \in [Keys -> States]
  BY Stay, RetiredMaps DEF ReleaseFails
<1> QED
  BY <1>1, <1>2, <1>3, <1>5, <1>6, <1>7, Stay, UserStepKeeps

LEMMA FatalReportKeeps ==
    ASSUME TokenInv,
           (\E k \in Keys : WorkerFatal(k)) \/ (\E c \in cells : CellFatal(c))
    PROVE  TokenInv'
<1>1. /\ UNCHANGED <<next, st, held, producer, queue, ready, sequenceReady, at, returnTo, offset,
                     scanned, barrier, reloads, faults>>
      /\ cells' \subseteq cells
  BY DEF WorkerFatal, CellFatal, kernel, flags, loop, bounds
<1>2. FlagType'
  BY Stay, Zenon DEF WorkerFatal, CellFatal, FlagType, flags
<1> QED
  BY <1>1, <1>2, Stay, UserStepKeeps

LEMMA CorrelateKeeps == TokenInv /\ Correlate => TokenInv'
BY IngestKeeps, CommitKeeps, CleanUpKeeps, ExpireKeeps, ReleaseFailsKeeps, FatalReportKeeps
   DEF Correlate

-----------------------------------------------------------------------------
(* The control loop.                                                       *)

(* What its steps write of the token holders: nothing, or less.             *)
LEMMA LoopData ==
    ASSUME TokenInv, UNCHANGED <<next, st, held, producer>>,
           queue' \subseteq queue, cells' \in {cells, Cancelled}, barrier' \subseteq Keys
    PROVE  /\ DataType' /\ ProducerShape' /\ TokensBelowNext'
           /\ NoProducerToken' <=> NoProducerToken
           /\ Exhausted' <=> Exhausted
           /\ cells = {} => cells' = {}
           /\ queue = {} => queue' = {}
           /\ Drained => Drained'
<1>1. \A c \in cells' : c \in CellType /\ c.token <= next
  BY Stay DEF Cancelled, CellType
<1>2. DataType'
  BY <1>1 DEF TokenInv, DataType, CellType
<1>3. ProducerShape' /\ TokensBelowNext'
  BY <1>1 DEF TokenInv, ProducerShape, TokensBelowNext
<1>4. /\ NoProducerToken' <=> NoProducerToken
      /\ Exhausted' <=> Exhausted
      /\ cells = {} => cells' = {}
      /\ queue = {} => queue' = {}
  BY DEF NoProducerToken, Exhausted, Cancelled
<1> QED
  BY <1>2, <1>3, <1>4 DEF Drained

(* The control states outside an outage and its end: entering one needs no  *)
(* more than what an outage that is under way has already established.      *)
CalmStates ==
    {"idle", "reloadDrain", "reloadWait", "reloadCommit", "restoreDrain", "restoreWait",
     "restore", "closeDrain", "closeWait"}

LEMMA CalmStep ==
    ASSUME TokenInv, UNCHANGED <<next, st, held, producer>>,
           queue' = queue, cells' \in {cells, Cancelled}, barrier' \subseteq Keys,
           FlagType', UNCHANGED <<offset, scanned, returnTo, sequenceReady>>,
           at \notin {"scan", "wait", "rebind", "waitAgain", "rotate", "reopen"},
           at' = "stopped" \/ (at # "stopped" /\ at' \in CalmStates),
           reloads' \in Nat, faults' \in Nat
    PROVE  TokenInv'
<1>1. LoopType'
  BY DEF TokenInv, LoopType, LoopStates, CalmStates
<1>2. OutageIsQuiet'
  BY LoopData DEF TokenInv, OutageIsQuiet, CalmStates, Drained
<1>3. ScanIsCurrent'
  BY DEF TokenInv, ScanIsCurrent, CalmStates
<1> QED
  BY <1>1, <1>2, <1>3, LoopData DEF TokenInv

LEMMA FenceKeeps ==
    ASSUME TokenInv, FenceNfqueue
    PROVE  TokenInv'
<1>1. /\ UNCHANGED <<next, st, held, producer, queue, cells, returnTo, offset, scanned,
                     sequenceReady, reloads, faults>>
      /\ at = "fence" /\ at' = "barrier" /\ ready' = FALSE
      /\ barrier' = {k \in Keys : producer[k] # Idle}
  BY DEF FenceNfqueue, StartQuiesce, LoopFrame, control
<1>2. FlagType'
  BY Stay, Zenon DEF FenceNfqueue, StartQuiesce, FlagType, control
<1>3. LoopType'
  BY <1>1 DEF TokenInv, LoopType, LoopStates
<1>4. \A k \in Keys : producer[k].token # 0 => k \in barrier'
  BY <1>1 DEF Idle
<1>5. OutageIsQuiet'
  BY <1>1, <1>4, LoopData DEF TokenInv, OutageIsQuiet
<1>6. ScanIsCurrent'
  BY <1>1 DEF TokenInv, ScanIsCurrent
<1> QED
  BY <1>1, <1>2, <1>3, <1>5, <1>6, LoopData DEF TokenInv

LEMMA FenceWriteFailsKeeps ==
    ASSUME TokenInv, FenceWriteFails
    PROVE  TokenInv'
<1>1. /\ UNCHANGED <<next, st, held, producer, queue, cells, returnTo, offset, scanned, barrier,
                     sequenceReady, reloads>>
      /\ at = "fence" /\ at' \in {"restoreDrain", "stopped"} /\ faults' = faults + 1
  BY DEF FenceWriteFails, Step, OnError, Fault, LoopFrame, control
<1>2. FlagType'
  BY Stay, Zenon DEF FenceWriteFails, FlagType, flags, control
<1>3. barrier \subseteq Keys /\ reloads \in Nat /\ faults + 1 \in Nat
  BY DEF TokenInv, DataType, LoopType
<1> QED
  BY <1>1, <1>2, <1>3, CalmStep DEF CalmStates

(* The grace barrier has let every producer that could hold a token end.    *)
LEMMA BarrierKeeps ==
    ASSUME TokenInv, BarrierOver
    PROVE  TokenInv'
<1>1. /\ UNCHANGED <<next, st, held, producer, queue, cells, returnTo, offset, scanned,
                     sequenceReady, ready, reloads, faults>>
      /\ at = "barrier" /\ at' = "retire" /\ barrier' = {}
      /\ \A k \in barrier : producer[k] = Idle
  BY DEF BarrierOver, LoopFrame, control, flags
<1>2. FlagType'
  BY Stay, Zenon DEF BarrierOver, FlagType, flags, control
<1>3. LoopType'
  BY <1>1 DEF TokenInv, LoopType, LoopStates
<1>4. returnTo = "drain" => NoProducerToken
  BY <1>1 DEF TokenInv, OutageIsQuiet, NoProducerToken, Idle
<1>5. OutageIsQuiet'
  BY <1>1, <1>4, LoopData DEF TokenInv, OutageIsQuiet
<1>6. ScanIsCurrent'
  BY <1>1 DEF TokenInv, ScanIsCurrent
<1> QED
  BY <1>1, <1>2, <1>3, <1>5, <1>6, LoopData DEF TokenInv

LEMMA QuiesceKeeps ==
    ASSUME TokenInv, Quiesce
    PROVE  TokenInv'
<1>1. /\ UNCHANGED <<next, producer, queue, cells, returnTo, offset, scanned, barrier,
                     sequenceReady, ready, reloads, faults>>
      /\ at = "retire" /\ at' = returnTo
  BY DEF Quiesce, Step, control, bounds
<1>2. PICK K : st' = Absent(K) /\ held' = Removed(K)
  BY DEF Quiesce
<1>3. FlagType'
  BY Stay, Zenon DEF Quiesce, FlagType, control
<1>4. returnTo \in {"none", "drain", "scan", "reloadDrain"}
  BY DEF TokenInv, LoopType
<1>5. returnTo # "none"
  BY <1>1 DEF TokenInv, LoopType
<1>6. DataType' /\ ProducerShape' /\ TokensBelowNext'
  BY <1>1, <1>2, RetiredMaps DEF TokenInv, DataType, ProducerShape, TokensBelowNext
<1>7. LoopType'
  BY <1>1, <1>4, <1>5 DEF TokenInv, LoopType, LoopStates
<1>8. OutageIsQuiet'
  <2>1. /\ Exhausted' <=> Exhausted
        /\ NoProducerToken' <=> NoProducerToken
        /\ Drained' <=> Drained
    BY <1>1 DEF Exhausted, NoProducerToken, Drained
  <2> QED
    BY <1>1, <1>4, <1>5, <2>1 DEF TokenInv, OutageIsQuiet
<1>9. ScanIsCurrent'
  BY <1>1 DEF TokenInv, ScanIsCurrent
<1> QED
  BY <1>3, <1>6, <1>7, <1>8, <1>9 DEF TokenInv

LEMMA QuiesceFailsKeeps ==
    ASSUME TokenInv, QuiesceFails
    PROVE  TokenInv'
<1>1. /\ UNCHANGED <<next, st, held, producer, queue, cells, returnTo, offset, scanned,
                     sequenceReady, reloads>>
      /\ at \in {"barrier", "retire"} /\ at' \in {"restoreDrain", "stopped"} /\ barrier' = {}
      /\ faults' \in {faults, faults + 1}
  BY DEF QuiesceFails, OnError, Fault, LoopFrame, control
<1>2. FlagType'
  <2>1. /\ quiescenceFailed' \in BOOLEAN
        /\ UNCHANGED <<ready, incomplete, retirementFailed, admission, control>>
    BY Zenon DEF QuiesceFails
  <2> QED
    BY <2>1, Stay, Zenon DEF FlagType, control
<1>3. reloads \in Nat /\ faults' \in Nat
  BY <1>1 DEF TokenInv, LoopType
<1> QED
  BY <1>1, <1>2, <1>3, CalmStep DEF CalmStates

LEMMA TokenExhaustedKeeps ==
    ASSUME TokenInv, TokenExhausted
    PROVE  TokenInv'
<1>1. /\ UNCHANGED <<next, st, held, producer, queue, cells, offset, scanned, barrier,
                     sequenceReady, ready, reloads, faults>>
      /\ at = "idle" /\ Exhausted /\ returnTo' = "drain"
      /\ sequenceReady => at' = "fence"
      /\ ~sequenceReady => at' = "rotate"
  BY DEF TokenExhausted, kernel, flags, control, bounds
<1>2. FlagType'
  BY Stay, Zenon DEF TokenExhausted, FlagType, flags, control
<1>3. barrier \subseteq Keys
  BY DEF TokenInv, DataType
<1>4. LoopType'
  BY <1>1 DEF TokenInv, LoopType, LoopStates
<1>5. OutageIsQuiet'
  BY <1>1, <1>3, LoopData DEF TokenInv, OutageIsQuiet
<1>6. ScanIsCurrent'
  BY <1>1 DEF TokenInv, ScanIsCurrent
<1> QED
  BY <1>1, <1>2, <1>3, <1>4, <1>5, <1>6, LoopData DEF TokenInv

LEMMA CancelAllKeeps ==
    ASSUME TokenInv, NEW from \in {"drain", "reloadDrain", "restoreDrain", "closeDrain"}, NEW to,
           CancelAll(from, to),
           \/ from = "drain" /\ to = "wait"
           \/ from # "drain" /\ to \in CalmStates
    PROVE  TokenInv'
<1>1. /\ UNCHANGED <<next, st, held, producer, queue, returnTo, offset, scanned, barrier, ready,
                     reloads, faults>>
      /\ at = from /\ at' = to /\ cells' = Cancelled
      /\ from # "drain" => sequenceReady' = sequenceReady
      /\ from = "drain" => ~sequenceReady'
  <2>1. FlagType
    BY Stay
  <2>2. sequenceReady' = (sequenceReady /\ from # "drain")
    BY DEF CancelAll
  <2>3. /\ from # "drain" => sequenceReady' = sequenceReady
        /\ from = "drain" => ~sequenceReady'
    BY <2>1, <2>2, Zenon DEF FlagType
  <2> QED
    BY <2>3 DEF CancelAll, Step, kernel, flags, bounds
<1>2. FlagType'
  <2>1. /\ sequenceReady' \in BOOLEAN /\ admission' \in BOOLEAN
        /\ UNCHANGED <<flags, healthy, fatal>>
    BY Zenon DEF CancelAll
  <2> QED
    BY <2>1, Stay, Zenon DEF FlagType, flags
<1>3. barrier \subseteq Keys /\ reloads \in Nat /\ faults \in Nat
  BY DEF TokenInv, DataType, LoopType
<1>4. CASE from = "drain"
  <2>1. LoopType'
    BY <1>1, <1>4 DEF TokenInv, LoopType, LoopStates
  <2>2. OutageIsQuiet'
    BY <1>1, <1>3, <1>4, LoopData DEF TokenInv, OutageIsQuiet
  <2>3. ScanIsCurrent'
    BY <1>1, <1>4 DEF TokenInv, ScanIsCurrent
  <2> QED
    BY <1>1, <1>2, <1>3, <2>1, <2>2, <2>3, LoopData DEF TokenInv
<1>5. CASE from # "drain"
  BY <1>1, <1>2, <1>3, <1>5, CalmStep DEF CalmStates
<1> QED
  BY <1>4, <1>5

LEMMA WaitEmptyKeeps ==
    ASSUME TokenInv, NEW from \in LoopStates, NEW to, WaitEmpty(from, to),
           \/ from = "wait" /\ to = "rebind"
           \/ from = "waitAgain" /\ to = "rotate"
           \/ from \in {"reloadWait", "restoreWait", "closeWait"} /\ to \in CalmStates
    PROVE  TokenInv'
<1>1. /\ UNCHANGED <<next, st, held, producer, queue, cells, returnTo, offset, scanned, barrier,
                     ready, sequenceReady, reloads, faults>>
      /\ at = from /\ at' = to /\ cells = {}
  BY DEF WaitEmpty, Step, kernel, flags, control, bounds
<1>2. FlagType'
  BY Stay, Zenon DEF WaitEmpty, FlagType, flags, control
<1>3. barrier \subseteq Keys /\ reloads \in Nat /\ faults \in Nat
  BY DEF TokenInv, DataType, LoopType
<1>4. CASE from \in {"wait", "waitAgain"}
  <2>1. LoopType'
    BY <1>1, <1>4 DEF TokenInv, LoopType, LoopStates
  <2>2. OutageIsQuiet'
    BY <1>1, <1>3, <1>4, LoopData DEF TokenInv, OutageIsQuiet, Drained
  <2>3. ScanIsCurrent'
    BY <1>1, <1>4 DEF TokenInv, ScanIsCurrent
  <2> QED
    BY <1>1, <1>2, <1>3, <2>1, <2>2, <2>3, LoopData DEF TokenInv
<1>5. CASE from \notin {"wait", "waitAgain"}
  BY <1>1, <1>2, <1>3, <1>5, CalmStep DEF CalmStates
<1> QED
  BY <1>4, <1>5

(* hard_rebind_service empties the queue.                                   *)
LEMMA RebindKeeps ==
    ASSUME TokenInv, HardRebind
    PROVE  TokenInv'
<1>1. /\ UNCHANGED <<next, st, held, producer, returnTo, offset, scanned, barrier, ready,
                     sequenceReady, reloads>>
      /\ at = "rebind" /\ at' \in {"waitAgain", "stopped"} /\ queue' = {} /\ cells' = Cancelled
      /\ faults' \in {faults, faults + 1}
  BY DEF HardRebind, Step, Fault, LoopFrame, flags, control
<1>2. FlagType'
  BY Stay, Zenon DEF HardRebind, FlagType, flags, control
<1>3. barrier \subseteq Keys
  BY DEF TokenInv, DataType
<1>4. LoopType'
  BY <1>1 DEF TokenInv, LoopType, LoopStates
<1>5. OutageIsQuiet'
  BY <1>1, <1>3, LoopData DEF TokenInv, OutageIsQuiet
<1>6. ScanIsCurrent'
  BY <1>1 DEF TokenInv, ScanIsCurrent
<1> QED
  BY <1>1, <1>2, <1>3, <1>4, <1>5, <1>6, LoopData DEF TokenInv

LEMMA RotateKeeps ==
    ASSUME TokenInv, Rotate
    PROVE  TokenInv'
<1>1. /\ UNCHANGED <<next, st, held, producer, queue, cells, ready, sequenceReady, reloads, faults>>
      /\ at = "rotate"
  BY DEF Rotate, kernel, control, bounds
<1>2. FlagType'
  BY Stay, Zenon DEF Rotate, StartQuiesce, FlagType, control
<1>3. CASE Exhausted
  <2>1. /\ returnTo' = "scan" /\ at' = "barrier" /\ offset' = 1 /\ scanned' = 0
        /\ barrier' \subseteq Keys
    BY <1>3 DEF Rotate, StartQuiesce
  <2>2. LoopType'
    BY <1>1, <2>1 DEF TokenInv, LoopType, LoopStates
  <2>3. OutageIsQuiet'
    BY <1>1, <1>3, <2>1, LoopData DEF TokenInv, OutageIsQuiet
  <2>4. ScanIsCurrent'
    BY <2>1 DEF ScanIsCurrent
  <2> QED
    BY <1>1, <1>2, <2>1, <2>2, <2>3, <2>4, LoopData DEF TokenInv
<1>4. CASE ~Exhausted
  <2>1. at' = "reopen" /\ UNCHANGED <<returnTo, offset, scanned, barrier>>
    BY <1>4 DEF Rotate, Step
  <2>2. barrier \subseteq Keys
    BY DEF TokenInv, DataType
  <2>3. LoopType'
    BY <1>1, <2>1 DEF TokenInv, LoopType, LoopStates
  <2>4. OutageIsQuiet'
    BY <2>1 DEF OutageIsQuiet
  <2>5. ScanIsCurrent'
    BY <1>1, <2>1 DEF TokenInv, ScanIsCurrent
  <2> QED
    BY <1>1, <1>2, <2>1, <2>2, <2>3, <2>4, <2>5, LoopData DEF TokenInv
<1> QED
  BY <1>3, <1>4

(* reset_udp_decision_sequence: `next` goes down only when every map has    *)
(* been found free of the candidate's generation and the later ones.        *)
LEMMA ScanKeeps ==
    ASSUME TokenInv, Scan
    PROVE  TokenInv'
<1>1. /\ UNCHANGED <<st, held, producer, queue, cells, returnTo, barrier, ready, sequenceReady,
                     reloads, faults>>
      /\ at = "scan"
  BY DEF Scan, flags, control, bounds
<1>2. FlagType'
  BY Stay, Zenon DEF Scan, FlagType, flags, control
<1>3. Drained /\ Exhausted /\ ~sequenceReady
  BY <1>1 DEF TokenInv, OutageIsQuiet
<1>4. Len(ScanOrder) = 4
  BY DEF ScanOrder
<1>5. CASE scanned = 4
  <2>1. next' = FirstOf(Candidate) /\ at' = "reopen" /\ scanned' = 0 /\ offset' = 0
    BY <1>4, <1>5 DEF Scan
  <2>2. Candidate \in 0..GenerationMask /\ Candidate \in Nat
    BY CandidateRange, MasksAreUsable DEF TokenInv, DataType, LoopType
  <2>3. next' \in 0..LastToken /\ next' \in Nat
    BY <2>1, <2>2, TokenRange, MasksAreUsable
  <2>4. \A m \in Maps : ~LiveIn(m, Candidate)
    BY <1>1, <1>5 DEF TokenInv, ScanIsCurrent, Maps, ScanOrder
  <2>5. ASSUME NEW m \in Maps, NEW k \in Keys PROVE held[m][k] <= next'
    <3>1. held[m][k] \in Nat
      BY Stay, ZeroToken
    <3>2. CASE held[m][k] = 0
      BY <3>2, <2>3
    <3>3. CASE held[m][k] # 0
      <4>1. ~(Generation(held[m][k]) >= Candidate)
        BY <3>3, <2>4 DEF LiveIn, ConflictsWithRollback
      <4>2. Generation(held[m][k]) \in Nat
        <5>1. SequenceMask + 1 \in Nat \ {0}
          BY MasksAreUsable
        <5> QED
          BY <3>1, <5>1, DivMod DEF Generation
      <4>3. held[m][k] < FirstOf(Candidate)
        BY <2>2, <3>1, <4>1, <4>2, BelowGeneration
      <4> QED
        BY <2>1, <2>3, <3>1, <4>3
    <3> QED
      BY <3>2, <3>3
  <2>6. DataType' /\ ProducerShape'
    BY <1>1, <2>3 DEF TokenInv, DataType, ProducerShape
  <2>7. TokensBelowNext'
    BY <1>1, <1>3, <2>3, <2>5 DEF TokensBelowNext, Drained, NoProducerToken
  <2>8. LoopType'
    BY <1>1, <2>1 DEF TokenInv, LoopType, LoopStates
  <2>9. OutageIsQuiet' /\ ScanIsCurrent'
    BY <2>1 DEF OutageIsQuiet, ScanIsCurrent
  <2> QED
    BY <1>2, <2>6, <2>7, <2>8, <2>9 DEF TokenInv
<1>6. CASE scanned # 4
  <2>1. /\ UNCHANGED next
        /\ \/ /\ ~LiveIn(ScanOrder[scanned + 1], Candidate)
              /\ at' = "scan" /\ scanned' = scanned + 1 /\ offset' = offset
           \/ at' = "scan" /\ scanned' = 0 /\ offset' = offset + 1
           \/ at' = "idle" /\ scanned' = 0 /\ offset' = 0
    BY <1>1, <1>4, <1>6 DEF Scan
  <2>2. barrier \subseteq Keys
    BY DEF TokenInv, DataType
  <2>3. LoopType'
    BY <1>1, <1>6, <2>1 DEF TokenInv, LoopType, LoopStates
  <2>4. OutageIsQuiet'
    BY <1>1, <1>3, <2>1, <2>2, LoopData DEF TokenInv, OutageIsQuiet
  <2>5. ScanIsCurrent'
    <3>1. CASE at' = "scan" /\ scanned' = scanned + 1 /\ offset' = offset
               /\ ~LiveIn(ScanOrder[scanned + 1], Candidate)
      <4>1. \A i \in 1..(scanned + 1) : ~LiveIn(ScanOrder[i], Candidate)
        BY <1>1, <3>1 DEF TokenInv, ScanIsCurrent, LoopType
      <4>2. \A m : LiveIn(m, Candidate)' <=> LiveIn(m, Candidate)
        BY <1>1, <2>1, <3>1 DEF LiveIn, Candidate
      <4> QED
        BY <3>1, <4>1, <4>2 DEF ScanIsCurrent
    <3>2. CASE scanned' = 0
      BY <3>2 DEF ScanIsCurrent
    <3> QED
      BY <2>1, <3>1, <3>2
  <2> QED
    BY <1>1, <1>2, <2>1, <2>2, <2>3, <2>4, <2>5, LoopData DEF TokenInv
<1> QED
  BY <1>5, <1>6

LEMMA ReopenKeeps ==
    ASSUME TokenInv, Reopen \/ ReopenFails
    PROVE  TokenInv'
<1>1. /\ UNCHANGED <<next, st, held, producer, queue, cells, returnTo, offset, scanned, barrier,
                     reloads>>
      /\ at = "reopen" /\ faults' \in {faults, faults + 1}
      /\ at' = "stopped" \/ (at' = "idle" /\ sequenceReady')
  BY DEF Reopen, ReopenFails, Step, Fault, LoopFrame, kernel, bounds
<1>2. FlagType'
  BY Stay, Zenon DEF Reopen, ReopenFails, FlagType, flags, control
<1>3. barrier \subseteq Keys
  BY DEF TokenInv, DataType
<1>4. LoopType'
  BY <1>1 DEF TokenInv, LoopType, LoopStates
<1>5. OutageIsQuiet'
  BY <1>1 DEF OutageIsQuiet
<1>6. ScanIsCurrent'
  BY <1>1 DEF TokenInv, ScanIsCurrent
<1> QED
  BY <1>1, <1>2, <1>3, <1>4, <1>5, <1>6, LoopData DEF TokenInv

(* A reload writes the flags and moves between states that promise nothing  *)
(* about tokens.                                                            *)
LEMMA ReloadKeeps ==
    ASSUME TokenInv, Reload
    PROVE  TokenInv'
<1>1. /\ UNCHANGED <<next, st, held, producer, queue, cells, offset, scanned, barrier, ready,
                     sequenceReady, faults>>
      /\ at = "idle" /\ at' = "fence" /\ returnTo' = "reloadDrain" /\ reloads' = reloads + 1
  BY DEF Reload, kernel, flags, control
<1>2. FlagType'
  BY Stay, Zenon DEF Reload, FlagType, flags, control
<1>3. barrier \subseteq Keys
  BY DEF TokenInv, DataType
<1>4. LoopType'
  BY <1>1 DEF TokenInv, LoopType, LoopStates
<1>5. OutageIsQuiet'
  BY <1>1, <1>3, LoopData DEF TokenInv, OutageIsQuiet
<1>6. ScanIsCurrent'
  BY <1>1 DEF TokenInv, ScanIsCurrent
<1> QED
  BY <1>1, <1>2, <1>3, <1>4, <1>5, <1>6, LoopData DEF TokenInv

LEMMA ReloadEndKeeps ==
    ASSUME TokenInv,
           \/ ReloadRejected \/ ModeResetFails \/ ReloadReopens \/ ReloadReopenFails
           \/ RestoreUnhealthy \/ Fatal
    PROVE  TokenInv'
<1>1. /\ UNCHANGED <<next, st, held, producer, queue, cells, returnTo, offset, scanned, barrier,
                     sequenceReady, reloads>>
      /\ at \in {"reloadWait", "reloadCommit", "restore", "idle"}
      /\ at' \in {"restore", "idle", "closeDrain", "stopped"}
      /\ faults' \in {faults, faults + 1}
  BY DEF ReloadRejected, ModeResetFails, ReloadReopens, ReloadReopenFails, RestoreUnhealthy,
         Fatal, Step, Fault, LoopFrame, kernel, control, bounds
<1>2. FlagType'
  BY Stay, Zenon DEF ReloadRejected, ModeResetFails, ReloadReopens, ReloadReopenFails,
         RestoreUnhealthy, Fatal, FlagType, flags, control
<1>3. barrier \subseteq Keys /\ reloads \in Nat /\ faults' \in Nat
  BY <1>1 DEF TokenInv, DataType, LoopType
<1> QED
  BY <1>1, <1>2, <1>3, CalmStep DEF CalmStates

LEMMA ControlKeeps == TokenInv /\ Control => TokenInv'
<1> SUFFICES ASSUME TokenInv, Control PROVE TokenInv'
  OBVIOUS
<1>1. CASE FenceNfqueue \/ FenceWriteFails \/ BarrierOver \/ Quiesce \/ QuiesceFails
  BY <1>1, FenceKeeps, FenceWriteFailsKeeps, BarrierKeeps, QuiesceKeeps, QuiesceFailsKeeps
<1>2. CASE CancelAll("drain", "wait") \/ WaitEmpty("wait", "rebind") \/ WaitEmpty("waitAgain", "rotate")
  BY <1>2, CancelAllKeeps, WaitEmptyKeeps DEF LoopStates
<1>3. CASE TokenExhausted \/ HardRebind \/ Rotate \/ Scan \/ Reopen \/ ReopenFails
  BY <1>3, TokenExhaustedKeeps, RebindKeeps, RotateKeeps, ScanKeeps, ReopenKeeps
<1>4. CASE \/ CancelAll("reloadDrain", "reloadWait") \/ CancelAll("restoreDrain", "restoreWait")
           \/ CancelAll("closeDrain", "closeWait")
  BY <1>4, CancelAllKeeps DEF CalmStates
<1>5. CASE \/ WaitEmpty("reloadWait", "reloadCommit") \/ WaitEmpty("restoreWait", "restore")
           \/ WaitEmpty("closeWait", "idle")
  BY <1>5, WaitEmptyKeeps DEF CalmStates, LoopStates
<1>6. CASE \/ Reload \/ ReloadRejected \/ ModeResetFails \/ ReloadReopens \/ ReloadReopenFails
           \/ RestoreUnhealthy \/ Fatal
  BY <1>6, ReloadKeeps, ReloadEndKeeps
<1> QED
  BY <1>1, <1>2, <1>3, <1>4, <1>5, <1>6 DEF Control, Recover, ReloadStep

-----------------------------------------------------------------------------
(* A new process, the whole next-state relation, and the theorems.          *)

LEMMA EmptyTypes ==
    /\ [k \in Keys |-> "absent"] \in [Keys -> States]
    /\ [m \in Maps |-> [k \in Keys |-> 0]] \in [Maps -> [Keys -> 0..LastToken]]
    /\ [k \in Keys |-> Idle] \in [Keys -> [pc : {"idle", "claimed", "allocate", "redirect",
                                                  "handoff", "publish"}, token : 0..LastToken]]
BY ZeroToken DEF States, Idle

LEMMA RestartKeeps ==
    ASSUME TokenInv, Restart
    PROVE  TokenInv'
<1>1. /\ UNCHANGED <<next, reloads, faults>>
      /\ st' = [k \in Keys |-> "absent"] /\ held' = [m \in Maps |-> [k \in Keys |-> 0]]
      /\ producer' = [k \in Keys |-> Idle] /\ queue' = {} /\ cells' = {} /\ barrier' = {}
      /\ ~ready' /\ ~sequenceReady'
      /\ at' = "rotate" /\ returnTo' = "none" /\ offset' = 0 /\ scanned' = 0
  BY DEF Restart
<1>2. FlagType'
  BY Zenon DEF Restart, FlagType
<1>3. DataType'
  BY <1>1, EmptyTypes DEF TokenInv, DataType
<1>4. LoopType'
  BY <1>1 DEF TokenInv, LoopType, LoopStates
<1>5. ProducerShape' /\ TokensBelowNext'
  BY <1>1, Stay DEF ProducerShape, TokensBelowNext, Idle
<1>6. OutageIsQuiet'
  BY <1>1 DEF OutageIsQuiet, Drained, NoProducerToken, NoAllocation, Idle
<1>7. ScanIsCurrent'
  BY <1>1 DEF ScanIsCurrent
<1> QED
  BY <1>2, <1>3, <1>4, <1>5, <1>6, <1>7 DEF TokenInv

LEMMA TokenInit == Init => TokenInv
<1> SUFFICES ASSUME Init PROVE TokenInv
  OBVIOUS
<1>1. next \in 0..LastToken
  <2>1. PICK g \in 0..GenerationMask : next = FirstOf(g) + SequenceMask - 1
    BY DEF Init
  <2> QED
    BY <2>1, TokenRange, MasksAreUsable
<1>2. FlagType
  BY Zenon DEF Init, FlagType
<1>3. DataType
  BY <1>1, EmptyTypes DEF Init, DataType
<1>4. LoopType
  BY DEF Init, LoopType, LoopStates
<1>5. ProducerShape /\ TokensBelowNext
  BY <1>1, ZeroToken DEF Init, ProducerShape, TokensBelowNext, Idle
<1>6. OutageIsQuiet
  BY DEF Init, OutageIsQuiet
<1>7. ScanIsCurrent
  BY DEF Init, ScanIsCurrent
<1> QED
  BY <1>2, <1>3, <1>4, <1>5, <1>6, <1>7 DEF TokenInv

LEMMA StutterKeeps == TokenInv /\ UNCHANGED vars => TokenInv'
<1> SUFFICES ASSUME TokenInv, UNCHANGED vars PROVE TokenInv'
  OBVIOUS
<1>1. /\ UNCHANGED <<next, st, held, producer, queue, cells, at, returnTo, offset, scanned, barrier,
                     ready, sequenceReady, reloads, faults>>
  BY DEF vars, kernel, flags, control, loop, bounds
<1>2. FlagType'
  BY Stay, Zenon DEF vars, FlagType, flags, control
<1> QED
  BY <1>1, <1>2, Stay, UserStepKeeps

LEMMA TokenNext == TokenInv /\ [Next]_vars => TokenInv'
BY ProduceKeeps, CorrelateKeeps, ControlKeeps, RestartKeeps, StutterKeeps DEF Next

(* Every reachable state satisfies the invariant: the outage that precedes  *)
(* a reset of the allocator (recover_nfqueue_token_exhaustion) leaves no     *)
(* token outside the maps, and the scan sees what is in them.                *)
THEOREM TokensAreBounded == Spec => []TokenInv
BY TokenInit, TokenNext, PTL DEF Spec

(* Every token in a map, a producer, the queue or a cell is one the          *)
(* allocator (UDP_DECISION_SEQUENCE) can name.                               *)
THEOREM TypeCorrect == Spec => []TypeOK
<1>1. TokenInv => TypeOK
  BY TypeParts DEF TokenInv
<1> QED
  BY <1>1, TokensAreBounded, PTL

(* A step that gives a producer a token gives it the one after `next`.       *)
LEMMA OnlyAllocationGivesTokens ==
    ASSUME TokenInv, [Next]_vars, NEW k \in Keys,
           producer'[k].token > 0, producer[k].token = 0
    PROVE  producer'[k].token = next + 1
<1>1. CASE UNCHANGED producer
  BY <1>1, ZeroToken DEF TokenInv, DataType
<1>2. CASE Restart
  BY <1>2 DEF Restart, Idle
<1>3. ASSUME NEW j \in Keys, Claim(j) \/ RunProducer(j)
      PROVE  producer'[k].token = next + 1
  <2> DEFINE gives == producer'[k].token \in {producer[k].token, 0, next + 1}
  <2>1. \A pc : Goto(j, pc) => gives
    BY <1>3 DEF Goto, TokenInv, DataType
  <2>2. Abort(j) => gives
    BY <1>3 DEF Abort, Idle, TokenInv, DataType
  <2>3. Claim(j) \/ ReadReady(j) => gives
    BY <2>1, <2>2 DEF Claim, ReadReady
  <2>4. Allocate(j) => gives
    BY <1>3, <2>2 DEF Allocate, TokenInv, DataType
  <2>5. \A m, from, to : PublishAuxiliary(j, m, from, to) => gives
    BY <2>1, <2>2 DEF PublishAuxiliary
  <2>6. Publish(j) => gives
    BY <1>3, <2>2 DEF Publish, Idle, TokenInv, DataType
  <2>7. gives
    BY <1>3, <2>3, <2>4, <2>5, <2>6 DEF RunProducer
  <2> QED
    BY <2>7
<1>4. Correlate => UNCHANGED producer
  BY DEF Correlate, Ingest, CleanUp, CellFatal, Commit, Expire, ReleaseFails, WorkerFatal,
         UserspaceFrame, kernel
<1>5. Control => UNCHANGED producer
  BY DEF Control, FenceNfqueue, FenceWriteFails, BarrierOver, Quiesce, QuiesceFails, Recover,
         ReloadStep, Fatal, TokenExhausted, CancelAll, WaitEmpty, HardRebind, Rotate, Scan, Reopen,
         ReopenFails, Reload, ReloadRejected, ModeResetFails, ReloadReopens, ReloadReopenFails,
         RestoreUnhealthy, LoopFrame, kernel
<1> QED
  BY <1>1, <1>2, <1>3, <1>4, <1>5 DEF Next, Produce, vars, kernel

(* allocate_udp_decision_token never hands out a token that a map entry, a   *)
(* producer, a queued packet, a verdict cell or a cleanup still holds, for   *)
(* any number of tuples, generations, rotations, reloads and restarts.       *)
THEOREM Freshness == Spec => TokensAreFresh
<1>1. ASSUME TokenInv, [Next]_vars
      PROVE  [\A k \in Keys : producer'[k].token > 0 /\ producer[k].token = 0
                                => producer'[k].token \notin LiveTokens]_vars
  <2>1. \A t \in LiveTokens : t \in Nat /\ t <= next
    <3>1. \A m \in Maps, k \in Keys : held[m][k] \in Nat /\ held[m][k] <= next
      BY <1>1, ZeroToken DEF TokenInv, DataType, TokensBelowNext
    <3>2. \A k \in Keys : producer[k].token \in Nat /\ producer[k].token <= next
      BY <1>1, ZeroToken DEF TokenInv, DataType, TokensBelowNext
    <3>3. \A p \in queue \cup cells : p.token \in Nat /\ p.token <= next
      BY <1>1, ZeroToken DEF TokenInv, DataType, TokensBelowNext
    <3> QED
      BY <3>1, <3>2, <3>3 DEF LiveTokens
  <2>2. next \in Nat
    BY <1>1, Stay
  <2>3. next + 1 \notin LiveTokens
    BY <2>1, <2>2
  <2> QED
    BY <1>1, <2>3, OnlyAllocationGivesTokens
<1> QED
  BY <1>1, TokensAreBounded, PTL DEF Spec, TokensAreFresh
=============================================================================
