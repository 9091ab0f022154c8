------------------------------ MODULE BestChain ------------------------------
(***************************************************************************)
(* What the block processor promises: whatever order blocks arrive in, the *)
(* tip is the heaviest block among those seen whose whole chain is valid.  *)
(* Learning a block and moving the tip is one step, however many blocks a  *)
(* reorganisation disconnects and connects on the way.                     *)
(***************************************************************************)
EXTENDS Integers, Sequences, SequencesExt

CONSTANTS Blocks, Genesis, Prev,
          Target,   \* the capacity a block adds
          Rank,     \* the order among chains of equal capacity
          Valid     \* the blocks that are valid if their ancestors are

VARIABLES tip,      \* the end of the main chain
          seen      \* the blocks in the tree

\* The blocks from genesis to n, and their total capacity.
Chain[n \in Blocks \cup {Genesis}] ==
  IF n = Genesis THEN {Genesis} ELSE Chain[Prev[n]] \cup {n}

TotalCap(n) == SumFunctionOnSet(Target, Chain[n])

ValidChain(n) == Chain[n] \ {Genesis} \subseteq Valid

\* n is preferred to m.
Preferred(n, m) ==
  \/ TotalCap(n) > TotalCap(m)
  \/ TotalCap(n) = TotalCap(m) /\ Rank[n] < Rank[m]

IsHeaviest(n, S) ==
  /\ n \in S /\ ValidChain(n)
  /\ \A m \in S : ValidChain(m) /\ m # n => Preferred(n, m)

Init == tip = Genesis /\ seen = {Genesis}

Learn(b) ==
  /\ b \notin seen /\ Prev[b] \in seen
  /\ seen' = seen \cup {b}
  /\ tip' \in seen' /\ IsHeaviest(tip', seen')

\* A restart keeps one chain and forgets the side chains.  After a crash in
\* the middle of a reorganisation it may end at any block that was seen.
Restart(n) ==
  /\ n \in seen /\ ValidChain(n)
  /\ tip' = n
  /\ seen' = Chain[n]

Next == \E b \in Blocks \cup {Genesis} : Learn(b) \/ Restart(b)

Spec == Init /\ [][Next]_<<tip, seen>>
=============================================================================
