------------------------ MODULE ModelFailoverProofs ------------------------
(***************************************************************************)
(* Proofs about the failover driver, for any entries, slots, tags, rules   *)
(* and requests.                                                           *)
(***************************************************************************)
EXTENDS ModelFailover, FiniteSetTheorems, TLAPS

ReqRecord ==
    [pc : {"pick", "wait", "attempt", "done"},
     tried : SUBSET Model, saturated : SUBSET Model, failed : SUBSET Model,
     on : Model \cup {NoPin}, waits : SUBSET Model, last : BOOLEAN,
     retries : Nat]

FailoverTypeOK ==
    /\ eligible \subseteq Model
    /\ inFlight \in [Model -> Int]
    /\ queueDepth \in Int
    /\ queueFull \in BOOLEAN
    /\ req \in [Req -> ReqRecord]
    /\ turns \in Nat

\* Which entry a request is on, and which ones it may wait for.
PlaceOK(r, rec) ==
    /\ rec.pc = "attempt" <=> rec.on # NoPin
    /\ rec.pc # "wait" => rec.waits = {}
    /\ Pinned[r] = NoPin => rec.waits \subseteq rec.saturated

\* While it may still fail over, a request has tried an entry only by finding
\* it full or by an attempt that failed.
TriedOK(r, rec) ==
    Pinned[r] = NoPin /\ (rec.pc # "attempt" \/ rec.tried # Model)
      => rec.tried \subseteq rec.saturated \cup rec.failed

Requests == \A r \in Req : PlaceOK(r, req[r]) /\ TriedOK(r, req[r])

FailoverInv == FailoverTypeOK /\ Requests /\ NothingLeaks

-----------------------------------------------------------------------------
(* Counting.                                                               *)

Waits(rec) == IF rec.pc = "wait" THEN 1 ELSE 0
Holds(rec, e) == IF rec.pc = "attempt" /\ rec.on = e THEN 1 ELSE 0

\* One more or one less element of a finite set.
LEMMA OneMore ==
    ASSUME NEW S, IsFiniteSet(S), NEW x, x \notin S
    PROVE  Cardinality(S \cup {x}) = Cardinality(S) + 1
  BY FS_AddElement

LEMMA OneLess ==
    ASSUME NEW S, IsFiniteSet(S), NEW x \in S
    PROVE  Cardinality(S \ {x}) = Cardinality(S) - 1
  BY FS_RemoveElement

\* The number of waiting requests moves with the one request that a step
\* changes.
LEMMA WaitCount ==
    ASSUME req \in [Req -> ReqRecord], NEW r \in Req, NEW rec \in ReqRecord,
           req' = [req EXCEPT ![r] = rec]
    PROVE  Cardinality({q \in Req : req'[q].pc = "wait"})
             = Cardinality({q \in Req : req[q].pc = "wait"})
                 + Waits(rec) - Waits(req[r])
  <1> DEFINE S == {q \in Req : req[q].pc = "wait"}
             T == {q \in Req : req'[q].pc = "wait"}
  <1> SUFFICES Cardinality(T) = Cardinality(S) + Waits(rec) - Waits(req[r])
    OBVIOUS
  <1>1. IsFiniteSet(S) /\ Cardinality(S) \in Nat
    BY FailoverAssumption, FS_Subset, FS_CardinalityType
  <1>2. req'[r] = rec /\ \A q \in Req \ {r} : req'[q] = req[q]
    BY DEF ReqRecord
  <1>3. CASE rec.pc = "wait" /\ req[r].pc # "wait"
    <2>1. T = S \cup {r} /\ r \notin S
      BY <1>2, <1>3
    <2> HIDE DEF S, T
    <2> QED
      BY <1>1, <1>3, <2>1, OneMore DEF Waits
  <1>4. CASE rec.pc # "wait" /\ req[r].pc = "wait"
    <2>1. T = S \ {r} /\ r \in S
      BY <1>2, <1>4
    <2> HIDE DEF S, T
    <2> QED
      BY <1>1, <1>4, <2>1, OneLess DEF Waits
  <1>5. CASE rec.pc = "wait" <=> req[r].pc = "wait"
    <2>1. T = S
      BY <1>2, <1>5
    <2> HIDE DEF S, T
    <2> QED
      BY <1>1, <1>5, <2>1 DEF Waits
  <1> QED
    BY <1>3, <1>4, <1>5

\* So does the number of requests that hold a slot of an entry.
LEMMA HoldCount ==
    ASSUME req \in [Req -> ReqRecord], NEW r \in Req, NEW rec \in ReqRecord,
           req' = [req EXCEPT ![r] = rec], NEW e \in Model
    PROVE  Cardinality({q \in Req : req'[q].pc = "attempt" /\ req'[q].on = e})
             = Cardinality({q \in Req : req[q].pc = "attempt" /\ req[q].on = e})
                 + Holds(rec, e) - Holds(req[r], e)
  <1> DEFINE S == {q \in Req : req[q].pc = "attempt" /\ req[q].on = e}
             T == {q \in Req : req'[q].pc = "attempt" /\ req'[q].on = e}
             before == req[r].pc = "attempt" /\ req[r].on = e
             after == rec.pc = "attempt" /\ rec.on = e
  <1> SUFFICES Cardinality(T) = Cardinality(S) + Holds(rec, e) - Holds(req[r], e)
    OBVIOUS
  <1>1. IsFiniteSet(S) /\ Cardinality(S) \in Nat
    BY FailoverAssumption, FS_Subset, FS_CardinalityType
  <1>2. req'[r] = rec /\ \A q \in Req \ {r} : req'[q] = req[q]
    BY DEF ReqRecord
  <1>3. CASE after /\ ~before
    <2>1. T = S \cup {r} /\ r \notin S
      BY <1>2, <1>3
    <2> HIDE DEF S, T
    <2> QED
      BY <1>1, <1>3, <2>1, OneMore DEF Holds
  <1>4. CASE ~after /\ before
    <2>1. T = S \ {r} /\ r \in S
      BY <1>2, <1>4
    <2> HIDE DEF S, T
    <2> QED
      BY <1>1, <1>4, <2>1, OneLess DEF Holds
  <1>5. CASE after <=> before
    <2>1. T = S
      BY <1>2, <1>5
    <2> HIDE DEF S, T
    <2> QED
      BY <1>1, <1>5, <2>1 DEF Holds
  <1> QED
    BY <1>3, <1>4, <1>5

\* The queue's capacity, from finitely many slots.
LEMMA CapacityIsNat == queueCapacity \in Nat
  <1> DEFINE g == [e \in Model |-> {e} \X (1 .. Slots[e])]
             T == {g[e] : e \in Model}
  <1>1. IsFiniteSet(Model) /\ Slots \in [Model -> Nat \ {0}] /\ queueDepthFactor \in Nat
    BY FailoverAssumption
  <1>2. g \in Surjection(Model, T)
    BY DEF Surjection
  <1>3. IsFiniteSet(T)
    <2> HIDE DEF T, g
    <2> QED BY <1>1, <1>2, FS_Surjection
  <1>4. ASSUME NEW e \in Model PROVE IsFiniteSet(g[e])
    <2> DEFINE n == Slots[e]
    <2>1. 1 \in Int /\ n \in Int
      BY <1>1
    <2> HIDE DEF n
    <2>2. IsFiniteSet(1 .. n)
      BY <2>1, FS_Interval
    <2>3. IsFiniteSet({e} \X (1 .. n))
      BY <2>2, FS_Singleton, FS_Product
    <2> QED BY <2>3 DEF n
  <1>5. IsFiniteSet(UNION T)
    <2>1. \A t \in T : IsFiniteSet(t)
      BY <1>4
    <2> HIDE DEF T
    <2> QED BY <1>3, <2>1, FS_UNION
  <1>6. AllSlots = UNION T
    BY DEF AllSlots
  <1>7. Cardinality(AllSlots) \in Nat
    BY <1>5, <1>6, FS_CardinalityType
  <1> QED BY <1>1, <1>7 DEF queueCapacity

\* A step that moves one request, and the slots and the queue with it, keeps
\* the invariant.
LEMMA OneMoves ==
    ASSUME FailoverInv, NEW r \in Req, NEW rec \in ReqRecord,
           PlaceOK(r, rec), TriedOK(r, rec),
           req' = [req EXCEPT ![r] = rec],
           inFlight' \in [Model -> Int],
           \A e \in Model :
              inFlight'[e] = inFlight[e] + Holds(rec, e) - Holds(req[r], e),
           queueDepth' = queueDepth + Waits(rec) - Waits(req[r]),
           Waits(rec) = 1 /\ Waits(req[r]) = 0 => QueueHasRoom,
           UNCHANGED eligible, queueFull' \in BOOLEAN, UNCHANGED turns
    PROVE  FailoverInv'
  <1>1. FailoverTypeOK /\ Requests /\ NothingLeaks
    BY DEF FailoverInv
  <1>2. queueDepth' \in Int /\ queueDepth' <= queueCapacity
    BY <1>1, CapacityIsNat
    DEF FailoverTypeOK, NothingLeaks, Waits, QueueHasRoom
  <1>3. req' \in [Req -> ReqRecord]
    BY <1>1 DEF FailoverTypeOK
  <1>4. FailoverTypeOK'
    BY <1>1, <1>2, <1>3 DEF FailoverTypeOK
  <1>5. Requests'
    <2>1. req'[r] = rec /\ \A q \in Req \ {r} : req'[q] = req[q]
      BY <1>1 DEF FailoverTypeOK
    <2> QED
      BY <1>1, <2>1 DEF Requests, PlaceOK, TriedOK
  <1>6. NothingLeaks'
    <2>1. queueDepth' = Cardinality({q \in Req : req'[q].pc = "wait"})
      BY <1>1, WaitCount DEF FailoverTypeOK, NothingLeaks
    <2>2. \A e \in Model : inFlight'[e] =
            Cardinality({q \in Req : req'[q].pc = "attempt" /\ req'[q].on = e})
      <3> TAKE e \in Model
      <3> DEFINE S == {q \in Req : req[q].pc = "attempt" /\ req[q].on = e}
                 T == {q \in Req : req'[q].pc = "attempt" /\ req'[q].on = e}
      <3>1. Cardinality(T)
              = Cardinality(S) + Holds(rec, e) - Holds(req[r], e)
        BY <1>1, HoldCount DEF FailoverTypeOK
      <3>2. inFlight[e] = Cardinality(S)
        BY <1>1 DEF NothingLeaks
      <3> HIDE DEF S, T
      <3> SUFFICES inFlight'[e] = Cardinality(T)
        BY DEF T
      <3> QED
        BY <3>1, <3>2
    <2> QED
      BY <1>2, <2>1, <2>2 DEF NothingLeaks
  <1> QED
    BY <1>4, <1>5, <1>6 DEF FailoverInv

-----------------------------------------------------------------------------
(* What the operators return.                                              *)

LEMMA EndType ==
    ASSUME NEW r \in Req
    PROVE  /\ End(r) \in ReqRecord /\ PlaceOK(r, End(r)) /\ TriedOK(r, End(r))
           /\ Waits(End(r)) = 0 /\ \A e \in Model : Holds(End(r), e) = 0
  BY DEF End, NewReq, ReqRecord, PlaceOK, TriedOK, Waits, Holds

LEMMA PickType ==
    ASSUME NEW r \in Req, NEW tried
    PROVE  pick(r, tried) \subseteq eligible \ tried
  BY DEF pick, Best, Ready

\* pick goes down the chain only with no entry that carries the required tags
\* left to try.
LEMMA PickPrimary ==
    ASSUME FailoverTypeOK, NEW r \in Req, NEW tried,
           NEW e \in pick(r, tried), e \notin Wanted(r)
    PROVE  Wanted(r) \cap eligible \subseteq tried
  <1> DEFINE primary == Ready(Requires[r], tried)
  <1>1. primary # {} => pick(r, tried) \subseteq primary
    BY DEF pick, Best
  <1>2. primary \subseteq Wanted(r)
    BY DEF Ready, Wanted, FailoverTypeOK
  <1>3. primary = {}
    BY <1>1, <1>2
  <1> QED
    BY <1>3 DEF Ready, Wanted

-----------------------------------------------------------------------------
(* The steps.                                                              *)

LEMMA InitFailover == FailoverInit => FailoverInv
  <1> SUFFICES ASSUME FailoverInit PROVE FailoverInv
    OBVIOUS
  <1> USE DEF FailoverInit
  <1>1. NewReq \in ReqRecord
    BY DEF NewReq, ReqRecord
  <1>2. FailoverTypeOK
    <2>1. /\ eligible \subseteq Model /\ inFlight \in [Model -> Int]
          /\ queueDepth \in Int /\ turns \in Nat
      BY FailoverAssumption
    <2>2. queueFull \in BOOLEAN
      BY Zenon
    <2>3. req \in [Req -> ReqRecord]
      BY <1>1
    <2> QED
      BY <2>1, <2>2, <2>3, Zenon DEF FailoverTypeOK
  <1>3. Requests
    BY DEF Requests, PlaceOK, TriedOK, NewReq
  <1>4. NothingLeaks
    <2>1. {r \in Req : req[r].pc = "wait"} = {}
      BY DEF NewReq
    <2>2. \A e \in Model : {r \in Req : req[r].pc = "attempt" /\ req[r].on = e} = {}
      BY DEF NewReq
    <2>3. queueDepth <= queueCapacity
      BY CapacityIsNat
    <2> QED
      BY <2>1, <2>2, <2>3, FS_EmptySet DEF NothingLeaks
  <1> QED
    BY <1>2, <1>3, <1>4 DEF FailoverInv

\* Joining the queue.
LEMMA EnterKeeps ==
    ASSUME FailoverInv, NEW r \in Req, NEW rows \in SUBSET Model,
           req[r].pc = "pick", QueueHasRoom, EnterQueue(r, rows),
           Pinned[r] = NoPin => rows \subseteq req[r].saturated
    PROVE  FailoverInv'
  <1> DEFINE rec == [req[r] EXCEPT !.pc = "wait", !.waits = rows]
  <1>1. req[r] \in ReqRecord /\ PlaceOK(r, req[r]) /\ TriedOK(r, req[r])
    BY DEF FailoverInv, FailoverTypeOK, Requests
  <1>2. rec \in ReqRecord /\ PlaceOK(r, rec) /\ TriedOK(r, rec)
    BY <1>1 DEF ReqRecord, PlaceOK, TriedOK
  <1>3. req' = [req EXCEPT ![r] = rec]
    BY DEF EnterQueue, FailoverInv, FailoverTypeOK
  <1>4. /\ Waits(rec) = 1 /\ Waits(req[r]) = 0
        /\ \A e \in Model : Holds(rec, e) = 0 /\ Holds(req[r], e) = 0
    BY <1>1 DEF Waits, Holds, ReqRecord
  <1> HIDE DEF rec
  <1>5. /\ queueDepth' = queueDepth + 1 /\ UNCHANGED <<inFlight, eligible, turns>>
        /\ queueDepth \in Int /\ inFlight \in [Model -> Int]
        /\ queueFull' \in BOOLEAN
    BY DEF EnterQueue, FailoverInv, FailoverTypeOK
  <1>6. /\ queueDepth' = queueDepth + Waits(rec) - Waits(req[r])
        /\ inFlight' \in [Model -> Int]
        /\ \A e \in Model :
              inFlight'[e] = inFlight[e] + Holds(rec, e) - Holds(req[r], e)
    BY <1>4, <1>5
  <1> QED
    BY <1>2, <1>3, <1>5, <1>6, OneMoves, Zenon

\* A request takes a slot and starts an attempt.
LEMMA TakeKeeps ==
    ASSUME FailoverInv, NEW r \in Req, NEW e \in Model, NEW rec \in ReqRecord,
           rec.pc = "attempt", rec.on = e, rec.waits = {}, TriedOK(r, rec),
           req[r].pc # "attempt", Take(e),
           req' = [req EXCEPT ![r] = rec],
           queueDepth' = queueDepth - Waits(req[r]),
           UNCHANGED eligible, queueFull' \in BOOLEAN, UNCHANGED turns
    PROVE  FailoverInv'
  <1>1. PlaceOK(r, rec)
    BY FailoverAssumption DEF PlaceOK
  <1>2. queueDepth \in Int /\ inFlight \in [Model -> Int]
    BY DEF FailoverInv, FailoverTypeOK
  <1>3. /\ Waits(rec) = 0 /\ Waits(req[r]) \in Int
        /\ \A f \in Model : /\ Holds(rec, f) = IF f = e THEN 1 ELSE 0
                            /\ Holds(req[r], f) = 0
    BY DEF Waits, Holds
  <1>4. /\ inFlight' \in [Model -> Int]
        /\ \A f \in Model :
              inFlight'[f] = inFlight[f] + Holds(rec, f) - Holds(req[r], f)
    BY <1>2, <1>3 DEF Take
  <1>5. /\ queueDepth' = queueDepth + Waits(rec) - Waits(req[r])
        /\ ~(Waits(rec) = 1)
    BY <1>2, <1>3
  <1> QED
    BY <1>1, <1>4, <1>5, OneMoves, Zenon

\* A request gives its slot back.
LEMMA ReleaseKeeps ==
    ASSUME FailoverInv, NEW r \in Req, NEW rec \in ReqRecord,
           req[r].pc = "attempt", rec.pc \notin {"attempt", "wait"},
           PlaceOK(r, rec), TriedOK(r, rec), Release(r),
           req' = [req EXCEPT ![r] = rec],
           UNCHANGED <<eligible, queueDepth, turns>>, queueFull' \in BOOLEAN
    PROVE  FailoverInv'
  <1>1. /\ queueDepth \in Int /\ inFlight \in [Model -> Int]
        /\ req[r] \in ReqRecord /\ PlaceOK(r, req[r])
    BY DEF FailoverInv, FailoverTypeOK, Requests
  <1>2. req[r].on \in Model
    BY <1>1 DEF PlaceOK, ReqRecord
  <1>3. /\ Waits(rec) = 0 /\ Waits(req[r]) = 0
        /\ \A f \in Model : /\ Holds(req[r], f) = IF f = req[r].on THEN 1 ELSE 0
                            /\ Holds(rec, f) = 0
    BY <1>2 DEF Waits, Holds
  <1>4. /\ inFlight' \in [Model -> Int]
        /\ \A f \in Model :
              inFlight'[f] = inFlight[f] + Holds(rec, f) - Holds(req[r], f)
    BY <1>1, <1>2, <1>3 DEF Release
  <1>5. /\ queueDepth' = queueDepth + Waits(rec) - Waits(req[r])
        /\ ~(Waits(rec) = 1) /\ UNCHANGED eligible /\ UNCHANGED turns
    BY <1>1, <1>3
  <1> QED
    BY <1>4, <1>5, OneMoves, Zenon

\* A request that holds nothing ends.
LEMMA EndKeeps ==
    ASSUME FailoverInv, NEW r \in Req, req[r].pc # "attempt",
           req' = [req EXCEPT ![r] = End(r)],
           queueDepth' = queueDepth - Waits(req[r]),
           UNCHANGED <<eligible, inFlight, turns>>, queueFull' \in BOOLEAN
    PROVE  FailoverInv'
  <1>1. queueDepth \in Int /\ inFlight \in [Model -> Int]
    BY DEF FailoverInv, FailoverTypeOK
  <1>2. Waits(req[r]) \in Int /\ \A e \in Model : Holds(req[r], e) = 0
    BY DEF Waits, Holds
  <1>3. /\ queueDepth' = queueDepth + Waits(End(r)) - Waits(req[r])
        /\ ~(Waits(End(r)) = 1) /\ inFlight' \in [Model -> Int]
        /\ \A e \in Model :
              inFlight'[e] = inFlight[e] + Holds(End(r), e) - Holds(req[r], e)
        /\ UNCHANGED eligible /\ UNCHANGED turns
    BY <1>1, <1>2, EndType
  <1> QED
    BY <1>3, EndType, OneMoves, Zenon

LEMMA GiveUpKeeps ==
    ASSUME FailoverInv, NEW r \in Req, req[r].pc = "pick",
           req' = [req EXCEPT ![r] = End(r)],
           UNCHANGED <<eligible, inFlight, queueDepth, turns>>,
           queueFull' \in BOOLEAN
    PROVE  FailoverInv'
  <1>1. /\ queueDepth' = queueDepth - Waits(req[r]) /\ req[r].pc # "attempt"
        /\ UNCHANGED <<eligible, inFlight, turns>>
    BY DEF Waits, FailoverInv, FailoverTypeOK
  <1> QED
    BY <1>1, EndKeeps, Zenon

LEMMA StartPinnedKeeps ==
    ASSUME FailoverInv, NEW r \in Req, StartPinned(r) PROVE FailoverInv'
  <1> DEFINE e == Pinned[r]
  <1>1. /\ FailoverTypeOK /\ req[r] \in ReqRecord /\ TriedOK(r, req[r])
        /\ e \in Model /\ e # NoPin /\ req[r].pc = "pick"
        /\ queueFull \in BOOLEAN /\ Waits(req[r]) = 0 /\ queueDepth \in Int
    BY FailoverAssumption
    DEF FailoverInv, FailoverTypeOK, Requests, StartPinned, Waits
  <1>2. CASE /\ e \notin eligible /\ req' = [req EXCEPT ![r] = End(r)]
             /\ UNCHANGED <<eligible, inFlight, queueDepth, queueFull, turns>>
    BY <1>1, <1>2, GiveUpKeeps, Zenon
  <1>3. CASE /\ e \in eligible /\ Free(e) /\ Take(e)
             /\ req' = [req EXCEPT ![r] = Attempting(r, e, TRUE)]
             /\ UNCHANGED <<eligible, queueDepth, queueFull, turns>>
    <2> DEFINE rec == Attempting(r, e, TRUE)
    <2>1. /\ rec \in ReqRecord /\ rec.pc = "attempt" /\ rec.on = e
          /\ rec.waits = {} /\ TriedOK(r, rec)
      BY <1>1 DEF Attempting, ReqRecord, TriedOK
    <2> HIDE DEF rec, e
    <2>2. queueDepth' = queueDepth - Waits(req[r])
      BY <1>1, <1>3
    <2> QED
      BY <1>1, <1>3, <2>1, <2>2, TakeKeeps, Zenon DEF rec
  <1>4. CASE e \in eligible /\ ~Free(e) /\ QueueHasRoom /\ EnterQueue(r, {e})
    BY <1>1, <1>4, EnterKeeps
  <1>5. CASE /\ queueFull' = TRUE /\ req' = [req EXCEPT ![r] = End(r)]
             /\ UNCHANGED <<eligible, inFlight, queueDepth, turns>>
    BY <1>1, <1>5, GiveUpKeeps, Zenon
  <1> QED
    BY <1>2, <1>3, <1>4, <1>5 DEF StartPinned

LEMMA LastResortKeeps ==
    ASSUME FailoverInv, NEW r \in Req, LastResort(r) PROVE FailoverInv'
  <1>1. /\ req[r].pc = "pick" /\ queueFull \in BOOLEAN /\ Waits(req[r]) = 0
        /\ queueDepth \in Int /\ Busy(r) \in SUBSET Model
        /\ Busy(r) \subseteq req[r].saturated
    BY DEF FailoverInv, FailoverTypeOK, ReqRecord, LastResort, Waits, Busy
  <1>2. CASE QueueHasRoom /\ EnterQueue(r, Busy(r))
    BY <1>1, <1>2, EnterKeeps
  <1>3. CASE /\ queueFull' \in BOOLEAN /\ req' = [req EXCEPT ![r] = End(r)]
             /\ UNCHANGED <<eligible, inFlight, queueDepth, turns>>
    BY <1>1, <1>3, GiveUpKeeps, Zenon
  <1> QED
    BY <1>1, <1>2, <1>3 DEF LastResort

LEMMA WaitForPrimaryKeeps ==
    ASSUME FailoverInv, NEW r \in Req, WaitForPrimary(r) PROVE FailoverInv'
  <1>1. BusyPrimary(r) \in SUBSET Model /\ BusyPrimary(r) \subseteq req[r].saturated
    BY DEF FailoverInv, FailoverTypeOK, ReqRecord, Busy, BusyPrimary
  <1> QED
    BY <1>1, EnterKeeps DEF WaitForPrimary

LEMMA TryEntryKeeps ==
    ASSUME FailoverInv, NEW r \in Req, NEW e \in Model, TryEntry(r, e)
    PROVE  FailoverInv'
  <1> DEFINE full == e \notin Wanted(r) /\ BusyPrimary(r) # {}
  <1>1. /\ req[r] \in ReqRecord /\ TriedOK(r, req[r]) /\ PlaceOK(r, req[r])
        /\ req[r].pc = "pick" /\ Waits(req[r]) = 0 /\ queueDepth \in Int
        /\ req \in [Req -> ReqRecord] /\ inFlight \in [Model -> Int]
        /\ UNCHANGED <<eligible, queueDepth, turns>>
    BY DEF FailoverInv, FailoverTypeOK, Requests, TryEntry, Waits
  <1>2. queueFull' \in BOOLEAN
    BY Zenon DEF TryEntry, FailoverInv, FailoverTypeOK
  <1>3. e \notin req[r].tried
    BY PickType DEF TryEntry
  <1>4. CASE Free(e)
    <2> DEFINE last == ~HasFallback(r, e)
               rec == Attempting(r, e, last)
    <2>1. last \in BOOLEAN
      BY DEF HasFallback
    <2>2. Take(e) /\ req' = [req EXCEPT ![r] = rec]
      BY <1>4 DEF TryEntry
    <2> HIDE DEF last
    <2>3. /\ rec \in ReqRecord /\ rec.pc = "attempt" /\ rec.on = e
          /\ rec.waits = {} /\ TriedOK(r, rec)
      BY <1>1, <2>1 DEF Attempting, ReqRecord, TriedOK
    <2> HIDE DEF rec
    <2>4. queueDepth' = queueDepth - Waits(req[r])
      BY <1>1
    <2> QED
      BY <1>1, <1>2, <2>2, <2>3, <2>4, TakeKeeps
  <1>5. CASE ~Free(e)
    <2> DEFINE rec == [req[r] EXCEPT !.tried = @ \cup {e},
                                     !.saturated = @ \cup {e}]
    <2>1. req' = [req EXCEPT ![r] = rec] /\ UNCHANGED inFlight
      BY <1>1, <1>5 DEF TryEntry
    <2>2. rec \in ReqRecord /\ PlaceOK(r, rec) /\ TriedOK(r, rec)
      BY <1>1 DEF ReqRecord, PlaceOK, TriedOK
    <2>3. Waits(rec) = 0 /\ \A f \in Model : Holds(rec, f) = 0 /\ Holds(req[r], f) = 0
      BY <1>1 DEF Waits, Holds, ReqRecord
    <2> HIDE DEF rec
    <2>4. /\ queueDepth' = queueDepth + Waits(rec) - Waits(req[r])
          /\ ~(Waits(rec) = 1) /\ inFlight' \in [Model -> Int]
          /\ \A f \in Model :
                inFlight'[f] = inFlight[f] + Holds(rec, f) - Holds(req[r], f)
          /\ UNCHANGED eligible /\ UNCHANGED turns
      BY <1>1, <2>1, <2>3
    <2> QED
      BY <1>2, <2>1, <2>2, <2>4, OneMoves, Zenon
  <1> QED
    BY <1>4, <1>5

LEMMA GetSlotKeeps ==
    ASSUME FailoverInv, NEW r \in Req, NEW e \in Model, GetSlot(r, e)
    PROVE  FailoverInv'
  <1> DEFINE rec == [Attempting(r, e, TRUE) EXCEPT !.tried = Model]
  <1>1. /\ req[r] \in ReqRecord /\ queueDepth \in Int
        /\ req[r].pc = "wait" /\ Waits(req[r]) = 1
        /\ queueDepth' = queueDepth - 1
        /\ Take(e) /\ req' = [req EXCEPT ![r] = rec]
        /\ UNCHANGED eligible /\ UNCHANGED turns /\ queueFull' = queueFull
    BY DEF FailoverInv, FailoverTypeOK, GetSlot, Waits
  <1>2. /\ rec \in ReqRecord /\ rec.pc = "attempt" /\ rec.on = e
        /\ rec.waits = {} /\ TriedOK(r, rec)
    BY <1>1 DEF Attempting, ReqRecord, TriedOK
  <1> HIDE DEF rec
  <1>3. queueDepth' = queueDepth - Waits(req[r]) /\ req[r].pc # "attempt"
    BY <1>1
  <1>4. queueFull' \in BOOLEAN
    BY <1>1, Zenon DEF FailoverInv, FailoverTypeOK
  <1> QED
    BY <1>1, <1>2, <1>3, <1>4, TakeKeeps, Zenon

LEMMA CancelWaitKeeps ==
    ASSUME FailoverInv, NEW r \in Req, CancelWait(r) PROVE FailoverInv'
  <1>1. /\ queueDepth' = queueDepth - Waits(req[r]) /\ req[r].pc # "attempt"
        /\ req' = [req EXCEPT ![r] = End(r)]
        /\ UNCHANGED <<eligible, inFlight, turns>> /\ queueFull' = queueFull
    BY DEF CancelWait, Waits
  <1>2. queueFull' \in BOOLEAN
    BY <1>1, Zenon DEF FailoverInv, FailoverTypeOK
  <1> QED
    BY <1>1, <1>2, EndKeeps, Zenon

\* An attempt that ends for good: answered, surfaced, or the last resort.
LEMMA AttemptEnds ==
    ASSUME FailoverInv, NEW r \in Req, req[r].pc = "attempt", Release(r),
           req' = [req EXCEPT ![r] = End(r)],
           UNCHANGED <<eligible, queueDepth, turns>>, queueFull' \in BOOLEAN
    PROVE  FailoverInv'
  <1>1. End(r).pc \notin {"attempt", "wait"}
    BY DEF End, NewReq
  <1> QED
    BY <1>1, EndType, ReleaseKeeps, Zenon

LEMMA AnsweredKeeps ==
    ASSUME FailoverInv, NEW r \in Req, Answered(r) PROVE FailoverInv'
  <1>1. queueFull' \in BOOLEAN
    BY Zenon DEF Answered, clearQueueFull
  <1> QED
    BY <1>1, AttemptEnds, Zenon DEF Answered

LEMMA SurfacesKeeps ==
    ASSUME FailoverInv, NEW r \in Req, Surfaces(r) PROVE FailoverInv'
  <1>1. /\ queueFull' \in BOOLEAN /\ req[r].pc = "attempt" /\ Release(r)
        /\ req' = [req EXCEPT ![r] = End(r)]
        /\ UNCHANGED <<eligible, queueDepth, turns>>
    BY Zenon DEF Surfaces, FailoverInv, FailoverTypeOK
  <1> QED
    BY <1>1, AttemptEnds, Zenon

LEMMA ErrsKeeps ==
    ASSUME FailoverInv, NEW r \in Req, Errs(r) PROVE FailoverInv'
  <1>1. /\ queueFull' \in BOOLEAN /\ req[r].pc = "attempt" /\ Release(r)
        /\ UNCHANGED <<eligible, queueDepth, turns>>
    BY Zenon DEF Errs, FailoverInv, FailoverTypeOK
  <1>2. CASE Final(r)
    <2>1. req' = [req EXCEPT ![r] = End(r)]
      BY <1>2 DEF Errs
    <2> QED
      BY <1>1, <2>1, AttemptEnds, Zenon
  <1>3. CASE ~Final(r)
    <2> DEFINE rec == [req[r] EXCEPT !.pc = "pick", !.on = NoPin,
                          !.last = FALSE, !.retries = 0,
                          !.tried = @ \cup {req[r].on},
                          !.failed = @ \cup {req[r].on}]
    <2>1. req' = [req EXCEPT ![r] = rec]
      BY <1>3 DEF Errs
    <2>2. req[r] \in ReqRecord /\ PlaceOK(r, req[r]) /\ TriedOK(r, req[r])
      BY DEF FailoverInv, FailoverTypeOK, Requests
    <2>3. req[r].on \in Model
      BY <1>1, <2>2 DEF PlaceOK, ReqRecord
    <2>4. rec \in ReqRecord /\ rec.pc \notin {"attempt", "wait"}
      BY <2>2, <2>3 DEF ReqRecord
    <2>5. PlaceOK(r, rec)
      BY <1>1, <2>2 DEF ReqRecord, PlaceOK
    <2>6. TriedOK(r, rec)
      BY <1>3, <2>2 DEF ReqRecord, TriedOK, Final
    <2> HIDE DEF rec
    <2> QED
      BY <1>1, <2>1, <2>4, <2>5, <2>6, ReleaseKeeps, Zenon
  <1> QED
    BY <1>2, <1>3

LEMMA BusyRetryKeeps ==
    ASSUME FailoverInv, NEW r \in Req, BusyRetry(r) PROVE FailoverInv'
  <1> DEFINE rec == [req[r] EXCEPT !.retries = @ + 1]
  <1>1. /\ req[r] \in ReqRecord /\ PlaceOK(r, req[r]) /\ TriedOK(r, req[r])
        /\ req \in [Req -> ReqRecord] /\ inFlight \in [Model -> Int]
        /\ queueDepth \in Int /\ req[r].pc = "attempt"
        /\ UNCHANGED <<eligible, inFlight, queueDepth, turns>>
    BY DEF FailoverInv, FailoverTypeOK, Requests, BusyRetry
  <1>2. req' = [req EXCEPT ![r] = rec]
    BY <1>1 DEF BusyRetry
  <1>3. rec \in ReqRecord /\ PlaceOK(r, rec) /\ TriedOK(r, rec)
    BY <1>1 DEF ReqRecord, PlaceOK, TriedOK
  <1>4. /\ Waits(rec) = 0 /\ Waits(req[r]) = 0
        /\ \A e \in Model : /\ Holds(rec, e) = Holds(req[r], e)
                            /\ Holds(rec, e) \in Int
    BY <1>1 DEF Waits, Holds, ReqRecord
  <1> HIDE DEF rec
  <1>5. /\ queueDepth' = queueDepth + Waits(rec) - Waits(req[r])
        /\ ~(Waits(rec) = 1) /\ inFlight' \in [Model -> Int]
        /\ \A e \in Model :
              inFlight'[e] = inFlight[e] + Holds(rec, e) - Holds(req[r], e)
        /\ UNCHANGED eligible /\ UNCHANGED turns
    BY <1>1, <1>4
  <1>6. queueFull' \in BOOLEAN
    BY Zenon DEF BusyRetry, FailoverInv, FailoverTypeOK
  <1> QED
    BY <1>2, <1>3, <1>5, <1>6, OneMoves, Zenon

\* Health changes and stuttering leave the requests alone.
LEMMA RestKeeps ==
    ASSUME FailoverInv,
           \/ \E e \in Model : HealthTurns(e)
           \/ UNCHANGED failoverVars
    PROVE  FailoverInv'
  <1>1. UNCHANGED <<inFlight, queueDepth, queueFull, req>>
    BY DEF HealthTurns, failoverVars
  <1>2. eligible' \subseteq Model /\ turns' \in Nat
    BY DEF HealthTurns, failoverVars, FailoverInv, FailoverTypeOK
  <1>3. FailoverTypeOK'
    BY <1>1, <1>2 DEF FailoverInv, FailoverTypeOK
  <1> QED
    BY <1>1, <1>3 DEF FailoverInv, Requests, NothingLeaks

LEMMA FailoverStep ==
    ASSUME FailoverInv, [FailoverNext]_failoverVars PROVE FailoverInv'
  <1>1. ASSUME NEW r \in Req, Step(r) PROVE FailoverInv'
    BY <1>1, StartPinnedKeeps, LastResortKeeps, WaitForPrimaryKeeps,
       TryEntryKeeps, AnsweredKeeps, BusyRetryKeeps, ErrsKeeps, SurfacesKeeps,
       Zenon DEF Step
  <1>2. ASSUME NEW r \in Req, CancelWait(r) PROVE FailoverInv'
    BY <1>2, CancelWaitKeeps
  <1>3. ASSUME NEW r \in Req, NEW e \in Model, GetSlot(r, e) PROVE FailoverInv'
    BY <1>3, GetSlotKeeps
  <1> QED
    BY <1>1, <1>2, <1>3, RestKeeps, Zenon DEF FailoverNext

\* FailoverInv is an invariant of the driver.
THEOREM FailoverInvariant == FailoverSpec => []FailoverInv
  <1>1. FailoverInit => FailoverInv
    BY InitFailover
  <1>2. FailoverInv /\ [FailoverNext]_failoverVars => FailoverInv'
    BY FailoverStep
  <1> QED
    BY <1>1, <1>2, PTL DEF FailoverSpec

\* No slot and no place in the queue is lost or counted twice by failover,
\* acquire, acquireAnyOf, chatOne and their error paths, and the queue never
\* exceeds its capacity.
THEOREM FailoverNothingLeaks == FailoverSpec => []NothingLeaks
  <1>1. FailoverInv => NothingLeaks
    BY DEF FailoverInv
  <1> QED
    BY <1>1, FailoverInvariant, PTL

-----------------------------------------------------------------------------
(* Degradation.                                                            *)

\* What NoSilentDowngrade asks of one step and one request.
Careful(r) ==
    Pinned[r] = NoPin =>
        \A e \in TurnedTo(r)' \ TurnedTo(r) :
           \/ e \in Wanted(r)
           \/ ~QueueHasRoom
           \/ Wanted(r) \cap eligible \subseteq req[r].failed

\* Only TryEntry takes a request to an entry it had not turned to before: a
\* waiter gets a slot of an entry it found full.
LEMMA CarefulStep ==
    ASSUME FailoverInv, [FailoverNext]_failoverVars, NEW r \in Req
    PROVE  Careful(r)
  <1> SUFFICES ASSUME Pinned[r] = NoPin,
                      NEW f \in TurnedTo(r)' \ TurnedTo(r),
                      f \notin Wanted(r), QueueHasRoom
               PROVE  Wanted(r) \cap eligible \subseteq req[r].failed
    BY DEF Careful
  <1>1. /\ FailoverTypeOK /\ req \in [Req -> ReqRecord] /\ req[r] \in ReqRecord
        /\ PlaceOK(r, req[r]) /\ TriedOK(r, req[r])
    BY DEF FailoverInv, FailoverTypeOK, Requests
  <1>2. req'[r] # req[r]
    BY DEF TurnedTo
  <1>3. TurnedTo(r)' = req'[r].saturated \cup req'[r].waits \cup ({req'[r].on} \ {NoPin})
    BY DEF TurnedTo
  <1>4. req' # [req EXCEPT ![r] = End(r)]
    <2> SUFFICES ASSUME req' = [req EXCEPT ![r] = End(r)] PROVE FALSE
      OBVIOUS
    <2>1. req'[r] = End(r)
      BY <1>1
    <2> QED
      BY <1>3, <2>1 DEF End, NewReq
  <1>6. ASSUME NEW rows \in SUBSET req[r].saturated, EnterQueue(r, rows)
        PROVE  FALSE
    <2>1. /\ req'[r].saturated = req[r].saturated /\ req'[r].on = req[r].on
          /\ req'[r].waits = rows
      BY <1>1, <1>6 DEF EnterQueue, ReqRecord
    <2> QED
      BY <1>3, <1>6, <2>1 DEF TurnedTo
  <1>7. ~ LastResort(r)
    BY <1>4, <1>6 DEF LastResort, Busy
  <1>8. ~ WaitForPrimary(r)
    BY <1>6 DEF WaitForPrimary, Busy, BusyPrimary
  <1>9. ~ StartPinned(r)
    BY DEF StartPinned
  <1>10. ASSUME NEW e \in Model, TryEntry(r, e)
         PROVE  Wanted(r) \cap eligible \subseteq req[r].failed
    <2>1. f = e
      <3>1. /\ req'[r].saturated \subseteq req[r].saturated \cup {e}
            /\ req'[r].waits \subseteq req[r].waits
            /\ req'[r].on \in {e, req[r].on}
        <4>1. CASE Free(e)
          <5>1. req' = [req EXCEPT ![r] = Attempting(r, e, ~HasFallback(r, e))]
            BY <1>10, <4>1 DEF TryEntry
          <5> QED
            BY <1>1, <5>1 DEF Attempting, ReqRecord
        <4>2. CASE ~Free(e)
          <5>1. req' = [req EXCEPT ![r].tried = @ \cup {e},
                                   ![r].saturated = @ \cup {e}]
            BY <1>10, <4>2 DEF TryEntry
          <5> QED
            BY <1>1, <5>1 DEF ReqRecord
        <4> QED
          BY <4>1, <4>2
      <3> QED
        BY <1>3, <3>1 DEF TurnedTo
    <2>2. BusyPrimary(r) = {}
      BY <1>10, <2>1 DEF TryEntry
    <2>3. Wanted(r) \cap eligible \subseteq req[r].tried
      BY <1>1, <1>10, <2>1, PickPrimary DEF TryEntry
    <2>4. req[r].tried \subseteq req[r].saturated \cup req[r].failed
      BY <1>1, <1>10 DEF TryEntry, TriedOK
    <2> QED
      BY <2>2, <2>3, <2>4 DEF BusyPrimary, Busy
  <1>11. ASSUME NEW e \in Model, GetSlot(r, e) PROVE FALSE
    <2>1. /\ req'[r].saturated = req[r].saturated /\ req'[r].waits = {}
          /\ req'[r].on = e /\ e \in req[r].waits
      BY <1>1, <1>11 DEF GetSlot, Attempting, ReqRecord
    <2> QED
      BY <1>3, <2>1 DEF TurnedTo
  <1>12. ~ CancelWait(r) /\ ~ Answered(r) /\ ~ Surfaces(r)
    BY <1>4 DEF CancelWait, Answered, Surfaces
  <1>13. ~ Errs(r)
    <2> SUFFICES ASSUME Errs(r) PROVE FALSE
      OBVIOUS
    <2>1. ~ Final(r)
      BY <1>4 DEF Errs
    <2>2. /\ req'[r].saturated = req[r].saturated /\ req'[r].on = NoPin
          /\ req'[r].waits = req[r].waits
      BY <1>1, <2>1 DEF Errs, ReqRecord
    <2> QED
      BY <1>3, <2>2 DEF TurnedTo
  <1>14. ~ BusyRetry(r)
    <2> SUFFICES ASSUME BusyRetry(r) PROVE FALSE
      OBVIOUS
    <2>1. /\ req'[r].saturated = req[r].saturated /\ req'[r].on = req[r].on
          /\ req'[r].waits = req[r].waits
      BY <1>1 DEF BusyRetry, ReqRecord
    <2> QED
      BY <1>3, <2>1 DEF TurnedTo
  <1>15. ~ UNCHANGED req
    BY <1>2
  <1>16. ASSUME NEW q \in Req, q # r,
                Step(q) \/ CancelWait(q) \/ \E e \in Model : GetSlot(q, e)
         PROVE  FALSE
    <2>1. req'[r] = req[r]
      BY <1>1, <1>16
      DEF Step, StartPinned, LastResort, WaitForPrimary, EnterQueue, TryEntry,
          Answered, BusyRetry, Errs, Surfaces, CancelWait, GetSlot
    <2> QED
      BY <1>2, <2>1
  <1> QED
    BY <1>7, <1>8, <1>9, <1>10, <1>11, <1>12, <1>13, <1>14, <1>15, <1>16
    DEF FailoverNext, Step, HealthTurns, failoverVars

\* failover never turns to an entry without the required tags while one that
\* has them is merely busy and its queue has room.
THEOREM FailoverNoSilentDowngrade == FailoverSpec => NoSilentDowngrade
  <1>1. FailoverInv /\ [FailoverNext]_failoverVars
          => [\A r \in Req : Careful(r)]_failoverVars
    BY CarefulStep
  <1>2. [][\A r \in Req : Careful(r)]_failoverVars <=> NoSilentDowngrade
    BY DEF Careful, NoSilentDowngrade
  <1> QED
    BY <1>1, <1>2, FailoverInvariant, PTL DEF FailoverSpec
=============================================================================
