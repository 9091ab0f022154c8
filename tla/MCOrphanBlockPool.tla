-------------------------- MODULE MCOrphanBlockPool --------------------------
EXTENDS OrphanBlockPool

CONSTANTS g, a, b, c, d, e

\* A first block, two siblings on top of it, and a child of each.
MCPrev == (a :> g) @@ (b :> a) @@ (c :> a) @@ (d :> b) @@ (e :> c)
MCBlocks == {a, b, c, d, e}
=============================================================================
