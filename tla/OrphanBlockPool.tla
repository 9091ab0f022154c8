--------------------------- MODULE OrphanBlockPool ---------------------------
(***************************************************************************)
(* The orphan block pool of blockchain/orphanblockpool.go: blocks whose    *)
(* parent is unknown wait here, at most maxOrphanBlocks of them, each for  *)
(* at most an hour.  The only caller is the blockProcessor goroutine, so   *)
(* every method is one atomic step.  The blocks processBlock finds in the  *)
(* tree or the database are the variable known; module Blockchain replaces *)
(* it by the real ones and is shown to use the pool as specified here.     *)
(*                                                                         *)
(* Here and in the other modules, an operator that stands just before a    *)
(* definition and has its parameters is a deliberately broken variant of   *)
(* it: a property is only kept when it fails with such a variant in place. *)
(***************************************************************************)
EXTENDS OrphanBlockPoolOps

VARIABLE known  \* the blocks for which blockExists holds

orphanVars == <<pool, oldestOrphan, now, known>>

OrphanInit ==
  /\ pool = NewOrphanPool
  /\ oldestOrphan = NoOrphan
  /\ now = 0
  /\ known = {Genesis}

\* processBlock: neither the block nor its parent exists, and the block is not
\* an orphan already.
AddOrphan(b) ==
  /\ b \notin known
  /\ ~isOrphanInPool(b)
  /\ Prev[b] \notin known
  /\ addOrphanBlock(b)
  /\ UNCHANGED <<now, known>>

\* maybeAcceptBlock: a block whose parent exists joins the tree, whether it
\* has just arrived or waits in the pool.
AcceptBlock(b) ==
  /\ b \notin known
  /\ Prev[b] \in known
  /\ known' = known \cup {b}
  /\ UNCHANGED <<pool, oldestOrphan, now>>

\* processOrphans removes an orphan once it has been accepted.
RemoveOrphan(b) ==
  /\ isOrphanInPool(b)
  /\ b \in known
  /\ removeOrphanBlock(b)
  /\ UNCHANGED <<now, known>>

Tick ==
  /\ now < MaxTime
  /\ now' = now + 1
  /\ UNCHANGED <<pool, oldestOrphan, known>>

\* The pool lives in memory: a restarted node has an empty one, and knows
\* the blocks its database still holds.
RestartPool ==
  /\ pool' = NewOrphanPool
  /\ oldestOrphan' = NoOrphan
  /\ known' \in {K \in SUBSET known : Genesis \in K}
  /\ UNCHANGED now

OrphanNext ==
  \/ \E b \in Blocks : AddOrphan(b) \/ AcceptBlock(b) \/ RemoveOrphan(b)
  \/ Tick
  \/ RestartPool

OrphanSpec == OrphanInit /\ [][OrphanNext]_orphanVars

-----------------------------------------------------------------------------
(* Properties *)

\* Types: the pool files blocks under their own hash, and the two pointers
\* are what the code declares them to be.
OrphanTypeOK ==
  /\ DOMAIN pool = {"entryIndex", "priorToSub", "subToPrior"}
  /\ DOMAIN pool.entryIndex \subseteq Blocks
  /\ \A b \in DOMAIN pool.entryIndex : /\ pool.entryIndex[b] \in OrphanBlock
                                       /\ pool.entryIndex[b].id = b
  /\ oldestOrphan \in OrphanBlock \cup {NoOrphan}
  /\ now \in Nat
  /\ known \subseteq Blocks \cup {Genesis}

\* The three maps agree: whatever adds, accepts and expiries happened, each
\* orphan is found exactly once under its parent and nothing removed is left
\* behind (deleteFromSlice never removes another orphan's slot), and removing
\* the expired ones by one call after the other, in any order, is the sweep.
PoolConsistent ==
  /\ Consistent(pool)
  /\ \A e \in Items(pool) : pool.subToPrior[e] = <<Prev[e.id]>>
  /\ \A order \in SetToSeqs({e \in Items(pool) : Expired(e)}) :
       DropExpired(pool) = FoldLeft(LAMBDA p, e : Fetch(p, e.id), pool, order)

\* addOrphanBlock may evict through a stale oldestOrphan and remove nothing,
\* but it then clears the pointer, so the pool overshoots its limit by one
\* block at most and never with a pointer left to go stale again.
AtMostOneExtraOrphan ==
  /\ Count(pool) <= maxOrphanBlocks + 1
  /\ Count(pool) > maxOrphanBlocks => oldestOrphan = NoOrphan

\* The eviction of addOrphanBlock never dereferences a nil oldestOrphan.
EvictionHasVictim ==
  Full(DropExpired(pool)) =>
    NoOrphan \notin OldestAfterScan(pool, oldestOrphan)

\* The live orphans a step drops.
LostLive == {e \in Items(pool) : ~Expired(e) /\ ~Has(pool', e.id)}

\* Adding an orphan costs at most one unexpired orphan, and none while there
\* is room: an unknown parent's descendants are not lost before the limit.
AddKeepsLiveOrphans ==
  [][\A b \in Blocks : AddOrphan(b) =>
       /\ Cardinality(LostLive) <= 1
       /\ Count(pool) < maxOrphanBlocks => LostLive = {}]_orphanVars
=============================================================================
