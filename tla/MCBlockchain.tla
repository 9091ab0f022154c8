---------------------------- MODULE MCBlockchain ----------------------------
EXTENDS BlockchainRefinement

\* Forks: two chains of two blocks from genesis, equal after one block and with
\* a2 the heavier tip.  x tops b2 and would be heavier still, but cannot be
\* connected; y tops a2 and is out of context.
Forks == {"a1", "a2", "b1", "b2", "x", "y"}
ForksPrev == [a1 |-> "g", a2 |-> "a1", b1 |-> "g", b2 |-> "b1", x |-> "b2",
              y |-> "a2"]
ForksHeight == [g |-> 0, a1 |-> 1, a2 |-> 2, b1 |-> 1, b2 |-> 2, x |-> 3,
                y |-> 3]
ForksTarget == [g |-> 1, a1 |-> 2, a2 |-> 3, b1 |-> 2, b2 |-> 2, x |-> 4,
                y |-> 1]
ForksRank == [g |-> 0, a1 |-> 2, a2 |-> 3, b1 |-> 1, b2 |-> 4, x |-> 5,
              y |-> 6]

\* Deep: a chain of three blocks; s forks off, heavy, at a block that a node with
\* minMemoryNodes = 1 does not load on restart, t one block earlier; z fails the
\* sanity checks.
Deep == {"a1", "a2", "a3", "s", "t", "z"}
DeepPrev == [a1 |-> "g", a2 |-> "a1", a3 |-> "a2", s |-> "a1", t |-> "g",
             z |-> "a1"]
DeepHeight == [g |-> 0, a1 |-> 1, a2 |-> 2, a3 |-> 3, s |-> 2, t |-> 1, z |-> 2]
DeepTarget == [g |-> 1, a1 |-> 2, a2 |-> 1, a3 |-> 1, s |-> 3, t |-> 1,
               z |-> 1]
DeepRank == [g |-> 0, a1 |-> 1, a2 |-> 2, a3 |-> 3, s |-> 4, t |-> 5, z |-> 6]

\* Every timestamp has passed and every block's inputs are mature.
Timely == [n \in Blocks |-> 0]
NoLocks == [n \in Blocks |-> 0]
OneTime == [n \in Node |-> 1]
=============================================================================
