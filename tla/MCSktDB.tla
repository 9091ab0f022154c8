------------------------------ MODULE MCSktDB ------------------------------
(* Instances of SktDB. *)
EXTENDS SktDB

\* Four records in two pairs that are hashed to a common value.
Z4 == [k \in 0..1 |-> IF k = 0 THEN <<0, 3>> ELSE <<1, 3>>]
All4 == 0..3

\* Six records in three pairs; a record without preimage spoils the second pair.
Z6 == [k \in 0..2 |-> <<<<0, 5>>, <<4, 2>>, <<2, 5>>>>[k + 1]]
Some6 == {0, 1, 2, 4, 5}
=============================================================================
