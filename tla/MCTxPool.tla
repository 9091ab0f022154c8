------------------------------ MODULE MCTxPool ------------------------------
(* An instance of TxPool. *)
EXTENDS TxPool

\* tg is the genesis coinbase, c1 and c2 those of heights 1 and 2.  tp spends
\* the first output of tg, and so does tx.  tq spends one output of tp.  tn is
\* not standard; tm relies on it.  tr spends two outputs of tq and one of tm.
CONSTANTS tg, c1, c2, tp, tq, tr, tx, tn, tm, hx, hy

Transactions == {tg, c1, c2, tp, tq, tr, tx, tn, tm}
OutsOf == [t \in Transactions |-> IF t \in {tg, tp, tq} THEN 2 ELSE 1]
InsOf ==
    [t \in Transactions |->
        CASE t \in {tp, tx} -> {<<tg, 0>>}
          [] t = tq -> {<<tp, 0>>}
          [] t = tr -> {<<tq, 0>>, <<tq, 1>>, <<tm, 0>>}
          [] t = tn -> {<<tg, 1>>}
          [] t = tm -> {<<tn, 0>>}
          [] OTHER -> {}]
NoneOf == [t \in Transactions |-> <<>>]
NoAwards == [t \in Transactions |-> {}]
HeightsOf == (tg :> 0) @@ (c1 :> 1) @@ (c2 :> 2)
GenesisBlock == <<tg>>
Bodies == {<<>>, <<tx>>, <<tn>>, <<tp, tq>>, <<tn, tm>>, <<tp, tq, tn>>, <<tm, tr>>}
AllBlocks == {<<c>> \o body : c \in {c1, c2}, body \in Bodies}
OwnersOf ==
    [t \in Transactions |-> [i \in 0 .. (OutsOf[t] - 1) |-> IF t \in {tg, tp} /\ i = 0 THEN hx ELSE hy]]
=============================================================================
