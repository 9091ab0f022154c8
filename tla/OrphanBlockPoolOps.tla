------------------------- MODULE OrphanBlockPoolOps -------------------------
(***************************************************************************)
(* The methods of OrphanBlockPool (orphanblockpool.go): the state of the   *)
(* pool, and what adding and removing an orphan do to it.  OrphanBlockPool *)
(* specifies the pool on its own, Blockchain uses it.                      *)
(*                                                                         *)
(* An operator defined just before another with the same parameters is a   *)
(* deliberately broken variant of it, used to see that a property notices. *)
(***************************************************************************)
EXTENDS Integers, OrphanPool

CONSTANTS Blocks,           \* the blocks peers may send
          Genesis,          \* the block every chain starts from
          Prev,             \* header.Previous of every block
          maxOrphanBlocks,  \* 100 in the code
          OrphanTTL,        \* one hour in the code, in clock ticks here
          MaxTime,          \* bound on the clock
          NoOrphan          \* the nil *orphanBlock

ASSUME OrphanPoolAssumption ==
  /\ Genesis \notin Blocks
  /\ Prev \in [Blocks -> Blocks \cup {Genesis}]
  /\ maxOrphanBlocks \in Nat \ {0}
  /\ OrphanTTL \in Nat
  /\ NoOrphan \notin [id : Blocks, expiration : Nat]

VARIABLES pool,          \* OrphanBlockPool.pool
          oldestOrphan,  \* OrphanBlockPool.oldestOrphan, may be stale
          now            \* the wall clock

\* The values of type orphanBlock.
OrphanBlock == [id : Blocks, expiration : Nat]

isOrphanInPool(b) == Has(pool, b)

\* The blocks of getOrphansByPrevious, in the order they were put.
getOrphansByPrevious(b) ==
  LET subs == ReadSubs(pool, b) IN [i \in 1..Len(subs) |-> subs[i].id]

\* removeOrphanBlock leaves oldestOrphan as it is, even when it names b.
removeOrphanBlock(b) ==
  /\ pool' = Fetch(pool, b)
  /\ UNCHANGED oldestOrphan

Expired(e) == now > e.expiration

\* The pool after the loop over Items() has removed the expired entries: they
\* leave all three maps (PoolConsistent compares this with the calls the
\* loop makes).
DropExpired(p) ==
  LET expired == {e \in Items(p) : Expired(e)}
      Live(e) == e \notin expired
  IN  [entryIndex |-> Without(p.entryIndex, {e.id : e \in expired}),
       priorToSub |-> [q \in DOMAIN p.priorToSub |->
                         SelectSeq(p.priorToSub[q], Live)],
       subToPrior |-> Without(p.subToPrior, expired)]

\* The scan, comparing expirations without the test for nil.
OldestNoNilTest(p, old) ==
  LET earlier == {e \in Items(p) : /\ ~Expired(e)
                                   /\ old # NoOrphan
                                   /\ e.expiration < old.expiration}
  IN  IF earlier = {} THEN {old} ELSE earlier

\* The values oldestOrphan may have after the loop over the items: the old
\* pointer unless it is nil or some live entry expires strictly earlier.  The
\* old pointer is compared even when its block has left the pool long ago.
OldestAfterScan(p, old) ==
  LET live   == {e \in Items(p) : ~Expired(e)}
      better == IF old = NoOrphan THEN live
                ELSE {e \in live : e.expiration < old.expiration}
  IN  IF better = {} THEN {old}
      ELSE {e \in better : \A f \in better : e.expiration <= f.expiration}

\* removeOrphanBlock(oldest) when the pool is full; oldest is never nil then.
Evict(p, oldest) == Fetch(p, oldest.id)

FullOneEarly(p) == Count(p) + 2 > maxOrphanBlocks
Full(p) == Count(p) + 1 > maxOrphanBlocks

\* oldestOrphan is cleared after an eviction.
PointerKept(full, oldest) == oldest
PointerAfterAdd(full, oldest) == IF full THEN NoOrphan ELSE oldest

addOrphanBlock(b) ==
  \E oldest \in OldestAfterScan(pool, oldestOrphan) :
    LET swept == DropExpired(pool)
        room  == IF Full(swept) THEN Evict(swept, oldest) ELSE swept
    IN  /\ oldestOrphan' = PointerAfterAdd(Full(swept), oldest)
        /\ pool' = Put(room, [id |-> b, expiration |-> now + OrphanTTL],
                       <<Prev[b]>>)
=============================================================================
