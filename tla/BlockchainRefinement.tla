------------------------ MODULE BlockchainRefinement ------------------------
(***************************************************************************)
(* What the block processor is shown to implement.                         *)
(***************************************************************************)
EXTENDS Blockchain

Pool == INSTANCE OrphanBlockPool WITH known <- Known

\* The processor uses the orphan pool the way OrphanBlockPool specifies it, so
\* what is shown there holds here.
PoolUsedAsSpecified == Pool!OrphanSpec

\* Without database errors the processor implements BestChain: a block joins
\* the tree and the tip moves to the heaviest valid block in one step, and a
\* reorganisation in progress does not show.
BC == INSTANCE BestChain WITH
        Valid <- ValidBlocks,
        tip   <- IF pc = "connect" THEN oldBest ELSE best,
        seen  <- IF pc = "connect" THEN Known \ {cur} ELSE Known
ImplementsBestChain == BC!Spec
=============================================================================
