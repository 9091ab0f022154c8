----------------------- MODULE OrphanBlockPool_proofs -----------------------
(***************************************************************************)
(* The orphan block pool never holds more than one block above its limit,  *)
(* and never evicts through a nil pointer, for every set of blocks, every  *)
(* limit and every time to live.                                           *)
(***************************************************************************)
EXTENDS OrphanBlockPool, FiniteSetTheorems, TLAPS

\* The ids of the pool's entries, which Count counts.
Ids(p) == DOMAIN p.entryIndex

\* The entries of p are filed under their own id.
Filed(p) ==
  \A b \in Ids(p) : p.entryIndex[b] \in OrphanBlock /\ p.entryIndex[b].id = b

\* The inductive invariant: types, finiteness and the bound.
OrphanInv ==
  /\ OrphanTypeOK
  /\ IsFiniteSet(Ids(pool))
  /\ AtMostOneExtraOrphan

\* What Fetch (fetch) does to the entries: it removes the id, and only it.
LEMMA FetchIds ==
  ASSUME NEW p, NEW id
  PROVE  /\ Ids(Fetch(p, id)) = Ids(p) \ {id}
         /\ \A b \in Ids(p) \ {id} :
              Fetch(p, id).entryIndex[b] = p.entryIndex[b]
  BY DEF Ids, Fetch, Has, Without

\* What Put does to the entries: it files the entry under its id.
LEMMA PutIds ==
  ASSUME NEW p, NEW entry, NEW priors
  PROVE  /\ Ids(Put(p, entry, priors)) = Ids(p) \cup {entry.id}
         /\ Put(p, entry, priors).entryIndex[entry.id] = entry
         /\ \A b \in Ids(p) : b # entry.id =>
              Put(p, entry, priors).entryIndex[b] = p.entryIndex[b]
  BY DEF Ids, Put, With

\* What the sweep of addOrphanBlock keeps: the entries that have not expired.
LEMMA DropExpiredIds ==
  ASSUME NEW p, Filed(p)
  PROVE  /\ Ids(DropExpired(p)) = {b \in Ids(p) : ~Expired(p.entryIndex[b])}
         /\ \A b \in Ids(DropExpired(p)) :
              DropExpired(p).entryIndex[b] = p.entryIndex[b]
<1>1. {e.id : e \in {e \in Items(p) : Expired(e)}}
        = {b \in Ids(p) : Expired(p.entryIndex[b])}
  BY DEF Filed, Items, Ids
<1>2. DropExpired(p).entryIndex
        = Without(p.entryIndex, {e.id : e \in {e \in Items(p) : Expired(e)}})
  BY DEF DropExpired
<1> QED
  BY <1>1, <1>2 DEF Ids, Without

\* When the sweep leaves something, the pointer chosen by the scan is not nil;
\* it is a live entry whenever the old pointer is nil.
LEMMA ScanChoosesVictim ==
  ASSUME NEW p, Filed(p), Ids(DropExpired(p)) # {},
         NEW old \in OrphanBlock \cup {NoOrphan},
         NEW oldest \in OldestAfterScan(p, old)
  PROVE  /\ oldest \in OrphanBlock
         /\ old = NoOrphan => oldest.id \in Ids(DropExpired(p))
<1> DEFINE live == {e \in Items(p) : ~Expired(e)}
<1>1. live # {}
  BY DropExpiredIds DEF Ids, Items
<1>2. \A e \in live : e \in OrphanBlock /\ e.id \in Ids(DropExpired(p))
  BY DropExpiredIds DEF Items, Ids, Filed
<1> QED
  BY <1>1, <1>2, OrphanPoolAssumption DEF OldestAfterScan, OrphanBlock

\* The scan always leaves a pointer of the right type.
LEMMA ScanType ==
  ASSUME NEW p, Filed(p), NEW old \in OrphanBlock \cup {NoOrphan},
         NEW oldest \in OldestAfterScan(p, old)
  PROVE  oldest \in OrphanBlock \cup {NoOrphan}
  BY DEF OldestAfterScan, Items, Filed, Ids

LEMMA InitOrphanInv == OrphanInit => OrphanInv
<1> SUFFICES ASSUME OrphanInit PROVE OrphanInv
  OBVIOUS
<1>1. Ids(pool) = {}
  BY DEF OrphanInit, NewOrphanPool, EmptyMap, Ids
<1>2. OrphanTypeOK
  BY <1>1 DEF OrphanInit, NewOrphanPool, OrphanTypeOK, Ids
<1>3. Count(pool) = 0 /\ IsFiniteSet(Ids(pool))
  BY <1>1, FS_EmptySet DEF Count, Ids
<1>4. AtMostOneExtraOrphan
  BY <1>3, OrphanPoolAssumption DEF AtMostOneExtraOrphan
<1> QED
  BY <1>2, <1>3, <1>4 DEF OrphanInv

\* The pool and pointer that addOrphanBlock leaves: the bound holds because a
\* full pool with a stale pointer grows by one and clears the pointer, and a
\* pool above its limit has no pointer, hence evicts a block it really holds.
LEMMA AddKeepsInv ==
  ASSUME OrphanInv, NEW b \in Blocks, AddOrphan(b)
  PROVE  OrphanInv'
<1>1. PICK oldest \in OldestAfterScan(pool, oldestOrphan) :
        LET swept == DropExpired(pool)
            room  == IF Full(swept) THEN Evict(swept, oldest) ELSE swept
        IN  /\ oldestOrphan' = PointerAfterAdd(Full(swept), oldest)
            /\ pool' = Put(room, [id |-> b, expiration |-> now + OrphanTTL],
                           <<Prev[b]>>)
  BY DEF AddOrphan, addOrphanBlock
<1> DEFINE swept == DropExpired(pool)
           full  == Full(swept)
           room  == IF full THEN Evict(swept, oldest) ELSE swept
           new   == [id |-> b, expiration |-> now + OrphanTTL]
<1>2. /\ oldestOrphan' = IF full THEN NoOrphan ELSE oldest
      /\ pool' = Put(room, new, <<Prev[b]>>)
  BY <1>1 DEF PointerAfterAdd
<1>3. Filed(pool) /\ oldestOrphan \in OrphanBlock \cup {NoOrphan} /\ now \in Nat
  BY DEF OrphanInv, OrphanTypeOK, Filed, Ids
<1>4. new \in OrphanBlock /\ new.id = b
  BY <1>3, OrphanPoolAssumption DEF OrphanBlock
<1>5. Ids(swept) \subseteq Ids(pool) /\ Filed(swept)
  BY <1>3, DropExpiredIds DEF Filed
<1>6. /\ Ids(room) = IF full THEN Ids(swept) \ {oldest.id} ELSE Ids(swept)
      /\ Filed(room)
  <2>1. CASE full
    BY <1>5, <2>1, FetchIds DEF Evict, Filed
  <2>2. CASE ~full
    BY <1>5, <2>2
  <2> QED
    BY <2>1, <2>2
<1>7. Ids(pool') = Ids(room) \cup {b} /\ Filed(pool')
  BY <1>2, <1>4, <1>6, PutIds DEF Filed
<1>8. /\ IsFiniteSet(Ids(swept)) /\ Count(swept) \in Nat
      /\ Count(pool) \in Nat /\ Count(swept) <= Count(pool)
  BY <1>5, FS_Subset, FS_CardinalityType DEF OrphanInv, Count, Ids
<1>9. /\ IsFiniteSet(Ids(room)) /\ Count(room) \in Nat
      /\ Count(room) = IF full /\ oldest.id \in Ids(swept)
                       THEN Count(swept) - 1 ELSE Count(swept)
  BY <1>6, <1>8, FS_RemoveElement, FS_CardinalityType DEF Count, Ids
<1>10. /\ IsFiniteSet(Ids(pool')) /\ Count(pool') \in Nat
       /\ Count(pool') <= Count(room) + 1
  <2> HIDE DEF room
  <2>1. IsFiniteSet(Ids(room) \cup {b})
        /\ Cardinality(Ids(room) \cup {b})
             = IF b \in Ids(room) THEN Cardinality(Ids(room))
                                  ELSE Cardinality(Ids(room)) + 1
    BY <1>9, FS_AddElement
  <2>2. Count(pool') = Cardinality(Ids(room) \cup {b})
    BY <1>7 DEF Count, Ids
  <2>3. Count(room) = Cardinality(Ids(room))
    BY DEF Count, Ids
  <2> QED
    BY <2>1, <2>2, <2>3, <1>7, <1>9
<1>11. oldestOrphan' \in OrphanBlock \cup {NoOrphan}
  BY <1>2, <1>3, ScanType
<1>12. AtMostOneExtraOrphan'
  <2>1. CASE ~full
    BY <2>1, <1>2, <1>8, <1>9, <1>10, OrphanPoolAssumption
    DEF AtMostOneExtraOrphan, Full
  <2>2. CASE full /\ Count(pool) <= maxOrphanBlocks
    BY <2>2, <1>2, <1>8, <1>9, <1>10, OrphanPoolAssumption
    DEF AtMostOneExtraOrphan
  <2>3. CASE full /\ Count(pool) > maxOrphanBlocks
    <3>1. oldestOrphan = NoOrphan /\ Count(pool) <= maxOrphanBlocks + 1
      BY <2>3 DEF OrphanInv, AtMostOneExtraOrphan
    <3>2. Ids(swept) # {}
      BY <2>3, <1>8, FS_EmptySet, OrphanPoolAssumption DEF Full, Count, Ids
    <3>3. oldest.id \in Ids(swept)
      BY <3>1, <3>2, <1>1, <1>3, ScanChoosesVictim
    <3> QED
      BY <2>3, <3>1, <3>3, <1>2, <1>8, <1>9, <1>10, OrphanPoolAssumption
      DEF AtMostOneExtraOrphan
  <2> QED
    BY <2>1, <2>2, <2>3, <1>8, OrphanPoolAssumption
<1>13. OrphanTypeOK'
  <2>1. DOMAIN pool' = {"entryIndex", "priorToSub", "subToPrior"}
    BY <1>2 DEF Put
  <2>2. DOMAIN pool'.entryIndex \subseteq Blocks
    BY <1>5, <1>6, <1>7 DEF OrphanInv, OrphanTypeOK, Ids
  <2> QED
    BY <2>1, <2>2, <1>7, <1>11 DEF AddOrphan, OrphanInv, OrphanTypeOK, Filed, Ids
<1> QED
  BY <1>10, <1>12, <1>13 DEF OrphanInv

LEMMA StepKeepsInv == OrphanInv /\ [OrphanNext]_orphanVars => OrphanInv'
<1> SUFFICES ASSUME OrphanInv, [OrphanNext]_orphanVars PROVE OrphanInv'
  OBVIOUS
<1>1. ASSUME NEW b \in Blocks, AddOrphan(b) PROVE OrphanInv'
  BY <1>1, AddKeepsInv
<1>2. ASSUME NEW b \in Blocks, AcceptBlock(b) PROVE OrphanInv'
  BY <1>2 DEF AcceptBlock, OrphanInv, OrphanTypeOK, AtMostOneExtraOrphan,
              Count, Ids
<1>3. ASSUME NEW b \in Blocks, RemoveOrphan(b) PROVE OrphanInv'
  <2>1. /\ pool' = Fetch(pool, b) /\ UNCHANGED <<oldestOrphan, now, known>>
        /\ b \in Ids(pool)
    BY <1>3 DEF RemoveOrphan, removeOrphanBlock, isOrphanInPool, Has, Ids
  <2>2. Ids(pool') = Ids(pool) \ {b} /\ IsFiniteSet(Ids(pool))
    BY <2>1, FetchIds DEF OrphanInv
  <2>3. IsFiniteSet(Ids(pool')) /\ Count(pool') = Count(pool) - 1
    BY <2>1, <2>2, FS_RemoveElement DEF Count, Ids
  <2>4. Count(pool) \in Nat
    BY <2>2, FS_CardinalityType DEF Count, Ids
  <2>5. AtMostOneExtraOrphan'
    BY <2>1, <2>3, <2>4, OrphanPoolAssumption
    DEF OrphanInv, AtMostOneExtraOrphan
  <2>6. DOMAIN pool' = {"entryIndex", "priorToSub", "subToPrior"}
    BY <2>1 DEF Fetch, Has, OrphanInv, OrphanTypeOK
  <2>7. \A c \in Ids(pool') : pool'.entryIndex[c] = pool.entryIndex[c]
    BY <2>1, <2>2, FetchIds
  <2>8. OrphanTypeOK'
    BY <2>1, <2>2, <2>6, <2>7 DEF OrphanInv, OrphanTypeOK, Ids
  <2> QED
    BY <2>3, <2>5, <2>8 DEF OrphanInv
<1>4. CASE Tick
  BY <1>4 DEF Tick, OrphanInv, OrphanTypeOK, AtMostOneExtraOrphan, Count, Ids
<1>5. CASE RestartPool
  <2>1. Ids(pool') = {} /\ oldestOrphan' = NoOrphan
    BY <1>5 DEF RestartPool, NewOrphanPool, EmptyMap, Ids
  <2>2. IsFiniteSet(Ids(pool')) /\ Count(pool') = 0
    BY <2>1, FS_EmptySet DEF Count, Ids
  <2>3. OrphanTypeOK'
    BY <1>5, <2>1 DEF RestartPool, NewOrphanPool, OrphanInv, OrphanTypeOK, Ids
  <2> QED
    BY <2>1, <2>2, <2>3, OrphanPoolAssumption DEF OrphanInv, AtMostOneExtraOrphan
<1>6. CASE UNCHANGED orphanVars
  BY <1>6 DEF orphanVars, OrphanInv, OrphanTypeOK, AtMostOneExtraOrphan,
              Count, Ids
<1> QED
  BY <1>1, <1>2, <1>3, <1>4, <1>5, <1>6 DEF OrphanNext

\* The orphan block pool holds at most maxOrphanBlocks + 1 blocks, whatever
\* the order of arrivals, acceptances, expiries and restarts: the limit of
\* addOrphanBlock, off by the one eviction a stale oldestOrphan can waste.
THEOREM OrphanPoolBounded == OrphanSpec => []AtMostOneExtraOrphan
<1>1. OrphanInv => AtMostOneExtraOrphan
  BY DEF OrphanInv
<1> QED
  BY <1>1, InitOrphanInv, StepKeepsInv, PTL DEF OrphanSpec

\* addOrphanBlock never calls removeOrphanBlock with a nil pointer.
THEOREM EvictionNeverNil == OrphanSpec => []EvictionHasVictim
<1>1. OrphanInv => EvictionHasVictim
  <2> SUFFICES ASSUME OrphanInv, Full(DropExpired(pool)),
                      NoOrphan \in OldestAfterScan(pool, oldestOrphan)
               PROVE  FALSE
    BY DEF EvictionHasVictim
  <2>1. Filed(pool) /\ oldestOrphan \in OrphanBlock \cup {NoOrphan}
    BY DEF OrphanInv, OrphanTypeOK, Filed, Ids
  <2>2. Ids(DropExpired(pool)) \subseteq Ids(pool)
    BY <2>1, DropExpiredIds
  <2>3. Ids(DropExpired(pool)) # {}
    BY <2>2, FS_EmptySet, OrphanPoolAssumption DEF Full, Count, Ids
  <2> QED
    BY <2>1, <2>3, ScanChoosesVictim, OrphanPoolAssumption DEF OrphanBlock
<1> QED
  BY <1>1, InitOrphanInv, StepKeepsInv, PTL DEF OrphanSpec
=============================================================================
