------------------------------ MODULE MCLedger ------------------------------
(* An instance of TxIndex, TxLookup and AddrIndex together: the tables, the *)
(* views of side branches and the address index of the same chain.          *)
EXTENDS TxLookup, AddrIndex

\* tg is the genesis coinbase; ah and bh are coinbases of height h.  tp pays
\* three outputs, of which two are stakes; tq spends the first and makes another
\* stake and an award, ts spends the two stakes.  tr spends what tp leaves of the
\* genesis block and makes two bindings for the miner hm; tu spends the first,
\* tv both, and the coinbase b3 takes the second along.  hx and hy hold the outputs.
CONSTANTS tg, a1, a2, a3, a4, b1, b2, b3, tp, tq, tr, ts, tu, tv, hx, hy, hm, noBind

Transactions == {tg, a1, a2, a3, a4, b1, b2, b3, tp, tq, tr, ts, tu, tv}
OutsOf == [t \in Transactions |-> CASE t \in {tg, tp} -> 3 [] t \in {tq, tr} -> 2 [] OTHER -> 1]
InsOf ==
    [t \in Transactions |->
        CASE t = tp -> {<<tg, 0>>}
          [] t = tq -> {<<tp, 0>>}
          [] t = tr -> {<<tg, 1>>, <<tg, 2>>}
          [] t = ts -> {<<tp, 1>>, <<tp, 2>>}
          [] t = tu -> {<<tr, 0>>}
          [] t = tv -> {<<tr, 0>>, <<tr, 1>>}
          [] t = b3 -> {<<tr, 1>>}
          [] OTHER -> {}]
HeightsOf == (tg :> 0) @@ (a1 :> 1) @@ (a2 :> 2) @@ (a3 :> 3) @@ (a4 :> 4)
                @@ (b1 :> 1) @@ (b2 :> 2) @@ (b3 :> 3)
FrozenOf == [t \in Transactions |-> CASE t = tp -> (1 :> 2) @@ (2 :> 2) [] t = tq -> (0 :> 1) [] OTHER -> <<>>]
AwardsOf == [t \in Transactions |-> IF t = tq THEN {1} ELSE {}]
Pays(h) == [class |-> "p2wsh", sh |-> h, bind |-> noBind]
Binds(h) == [class |-> "binding", sh |-> h, bind |-> hm]
Other == [class |-> "other", sh |-> hx, bind |-> noBind]
ScriptsOf ==
    [t \in Transactions |->
        CASE t = tg -> (0 :> Pays(hx)) @@ (1 :> Pays(hy)) @@ (2 :> Pays(hx))
          [] t = tp -> (0 :> Pays(hx)) @@ (1 :> Pays(hy)) @@ (2 :> Pays(hy))
          [] t = tq -> (0 :> Pays(hx)) @@ (1 :> Other)
          [] t = tr -> (0 :> Binds(hx)) @@ (1 :> Binds(hy))
          [] t \in {tu, a1, a2, a3, a4} -> (0 :> Pays(hy))
          [] OTHER -> (0 :> Other)]
GenesisBlock == <<tg>>
Bodies == {<<>>, <<tp>>, <<tq>>, <<tr>>, <<ts>>, <<tu>>, <<tp, tq>>, <<tq, ts>>, <<tp, tr>>, <<tp, tq, ts>>, <<tv>>}
AllBlocks == {<<c>> \o body : c \in {a1, a2, a3, a4, b1, b2, b3}, body \in Bodies}
\* Branches that share all, some or none of their transactions.
SideBranches ==
    {<<GenesisBlock>>,
     <<GenesisBlock, <<b1>>>>,
     <<GenesisBlock, <<a1, tp>>, <<a2, tq>>>>,
     <<GenesisBlock, <<a1, tp>>, <<a2, ts>>, <<a3, tq>>>>,
     <<GenesisBlock, <<a1, tp>>, <<a2>>, <<a3, tq, ts>>, <<a4>>>>,
     <<GenesisBlock, <<b1>>, <<b2, tp, tq>>, <<a3, ts>>>>,
     <<GenesisBlock, <<b1, tr>>, <<b2, tu>>, <<b3, tp>>>>}
=============================================================================
