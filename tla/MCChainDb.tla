----------------------------- MODULE MCChainDb -----------------------------
(* Instances of ChainDb. *)
EXTENDS ChainDb

CONSTANTS g, a1, a2, b1, b2

Two == {g, a1, a2, b1, b2}
\* Two branches on the genesis block; blocks of different sizes.
ParentTwo == (a1 :> g) @@ (a2 :> a1) @@ (b1 :> g) @@ (b2 :> b1)
SizeTwo == (g :> 2) @@ (a1 :> 1) @@ (a2 :> 3) @@ (b1 :> 2) @@ (b2 :> 1)

\* A database that was opened meets any error but one of indexBlockAddrs; one
\* just created meets those that come after its first block was written.
Tolerated == {[fresh |-> FALSE, kinds |-> Kinds \ {"addrs"}, left |-> 3],
              [fresh |-> TRUE, kinds |-> {"spend", "index", "commit", "crash"}, left |-> 2]}
AddressErrors == {[fresh |-> FALSE, kinds |-> {"addrs"}, left |-> 1]}
=============================================================================
