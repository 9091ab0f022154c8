------------------------------ MODULE TxLookup ------------------------------
(***************************************************************************)
(* Transactions and stakes from the point of view of a block that need not *)
(* extend the main chain (blockchain/txlookup.go): the tables of TxIndex   *)
(* describe the end of the main chain; fetchTxStore and                    *)
(* fetchStakingTxStore undo the blocks down to the fork and apply those of *)
(* the branch, in memory.  A branch is the chain that ends with the parent *)
(* of the block; Branches are those whose views are compared.              *)
(***************************************************************************)
EXTENDS TxIndex

CONSTANTS Branches, StakingTxRewardStart

\* One TxData of a TxStore; missing is Err = ErrTxShaMissing, Tx = nil.
Missing == [found |-> FALSE, height |-> 0, spent |-> {}]

\* The outputs of t among the bits of spentData.
SpentFlags(t, spent) == spent \cap 0 .. (Outs[t] - 1)

FetchLastFullySpentTxBeforeHeight(t, h) ==
    LET older == IF t \in DOMAIN txs THEN SelectSeq(txs[t], LAMBDA s : s.height < h) ELSE <<>>
    IN  IF older = <<>> THEN Missing
        ELSE [found |-> TRUE, height |-> Last(older).height, spent |-> 0 .. (Outs[t] - 1)]

FetchUnSpentTx(t) ==
    IF t \in DOMAIN txd
    THEN [found |-> TRUE, height |-> txd[t].height, spent |-> SpentFlags(t, txd[t].spent)]
    ELSE Missing

FetchTx(t) ==
    IF t \in DOMAIN txd THEN FetchUnSpentTx(t) ELSE FetchLastFullySpentTxBeforeHeight(t, MaxHeight + 1)

\* Slip: the flag is ignored.
fetchTxStoreMainUnspent(set, includeSpent) == [t \in set |-> FetchUnSpentTx(t)]

fetchTxStoreMain(set, includeSpent) ==
    [t \in set |-> IF includeSpent THEN FetchTx(t) ELSE FetchUnSpentTx(t)]

\* A TxStore with the outputs of a transaction's inputs marked; the inputs of
\* a coinbase are skipped.
Marked(store, t, isSpent) ==
    IF t \in DOMAIN CoinBases THEN store
    ELSE [u \in DOMAIN store |->
             LET is == {o[2] : o \in {x \in Ins[t] : x[1] = u}}
             IN  IF ~store[u].found THEN store[u]
                 ELSE [store[u] EXCEPT !.spent = IF isSpent THEN @ \cup is ELSE @ \ is]]

\* A transaction the store already has with an output unspent is
\* ErrTxAlreadyExists; an error returns no store.
connectTransactions(store, b, h) ==
    FoldLeft(LAMBDA st, t :
                 IF t \notin DOMAIN st THEN Marked(st, t, TRUE)
                 ELSE IF st[t].found /\ st[t].spent # 0 .. (Outs[t] - 1) THEN <<>>
                 ELSE Marked([st EXCEPT ![t] = [found |-> TRUE, height |-> h, spent |-> {}]], t, TRUE),
             store, b)

disconnectTransactions(store, b, h) ==
    FoldRight(LAMBDA t, st :
                  Marked(IF t \in DOMAIN st THEN [st EXCEPT ![t] = FetchLastFullySpentTxBeforeHeight(t, h)]
                         ELSE st, t, FALSE),
              b, store)

\* The length of what the branch shares with the main chain, and the blocks
\* getReorganizeNodes would detach (from the tip down) and attach.
Fork(br) == Max({n \in 0 .. Len(chain) : n <= Len(br) /\ SubSeq(br, 1, n) = SubSeq(chain, 1, n)})
Detached(store, n, op(_, _, _)) ==
    FoldLeft(LAMBDA st, k : op(st, chain[k], k - 1), store, Reverse([i \in 1 .. (Len(chain) - n) |-> n + i]))
Attached(store, br, n, op(_, _, _)) ==
    FoldLeft(LAMBDA st, k : op(st, br[k], k - 1), store, [i \in 1 .. (Len(br) - n) |-> n + i])

fetchTxStore(br, set) ==
    IF br = chain THEN fetchTxStoreMain(set, FALSE)
    ELSE Attached(Detached(fetchTxStoreMain(set, TRUE), Fork(br), disconnectTransactions),
                  br, Fork(br), connectTransactions)

-----------------------------------------------------------------------------
\* A StakingNodes map: the stakes as <<expiry, <<height, tx, index>>>>.  ok is
\* FALSE once ErrDuplicateStaking or "Can`t find the stakingTx" is returned.
StakesIn(b, h) == {<<h + Frozen[t][i], <<h, t, i>>>> :
                      <<t, i>> \in UNION {{t} \X DOMAIN Frozen[t] : t \in ToSet(b)}}

FetchExpiredStakingTxListByHeight(h) == {s \in txu : s[1] = h}

connectStakingTransactions(st, b, h) ==
    [ok |-> st.ok /\ st.set \cap StakesIn(b, h) = {},
     set |-> {s \in st.set \cup StakesIn(b, h) : s[1] # h}]

\* Slip: what expired in the block is not taken back.
disconnectForgetsExpired(st, b, h) ==
    [ok |-> st.ok, set |-> st.set \ StakesIn(b, h)]

disconnectStakingTransactions(st, b, h) ==
    LET back == st.set \cup FetchExpiredStakingTxListByHeight(h) IN
    [ok |-> /\ st.ok
            /\ st.set \cap FetchExpiredStakingTxListByHeight(h) = {}
            /\ StakesIn(b, h) \subseteq back,
     set |-> back \ StakesIn(b, h)]

\* getReward: the stakes that count at height h
getReward(st, h) == [st EXCEPT !.set = {s \in @ : h - s[2][1] >= StakingTxRewardStart}]

fetchActiveStakingTx(table, h) ==
    {s \in table : h > s[2][1] /\ h <= s[1] /\ h - s[2][1] >= StakingTxRewardStart}

FetchUnexpiredStakingRank(h) == fetchActiveStakingTx(txl, h)
FetchStakingRank(h) == fetchActiveStakingTx(txl, h) \cup fetchActiveStakingTx(txu, h)

\* br ends with the parent of the block, whose height is Len(br)
fetchStakingTxStore(br) ==
    IF br = chain THEN [ok |-> TRUE, set |-> FetchUnexpiredStakingRank(Len(br))]
    ELSE getReward(Attached(Detached([ok |-> TRUE, set |-> txl], Fork(br), disconnectStakingTransactions),
                            br, Fork(br), connectStakingTransactions), Len(br))

-----------------------------------------------------------------------------
\* The view of a transaction on a chain, from the blocks of the chain alone.
\* At the end of the main chain fully spent transactions are left out.
ViewOf(c, t) ==
    IF t \notin TxsOf(c) \/ (c = chain /\ FullySpent(c, t)) THEN Missing
    ELSE [found |-> TRUE, height |-> HeightOf(c, t), spent |-> SpentOf(c, t)]

TakenByCoinBases == {o[1] : o \in UNION {Ins[t] : t \in DOMAIN CoinBases}}

\* fetchTxStore gives for every transaction the height and the spent outputs
\* it has from the point of view of the given block, wherever the main chain
\* is: a transaction spent or created only on the main chain, or only on the
\* branch, is seen as the branch has it.  Transactions that a coinbase spends
\* from are left out: the inputs of a coinbase are not undone or applied.
TxViewMatchesBranch ==
    LET set == Txs \ TakenByCoinBases IN
    \A br \in Branches : fetchTxStore(br, set) = [t \in set |-> ViewOf(br, t)]

\* fetchStakingTxStore finds on every branch, without an error, the stakes
\* that earn a reward in its next block.
StakingViewMatchesBranch ==
    \A br \in Branches :
        fetchStakingTxStore(br) =
            [ok |-> TRUE, set |-> {s \in StakesOf(br) : s[1] >= Len(br) /\ Len(br) - s[2][1] >= StakingTxRewardStart}]

\* FetchStakingRank gives the stakes that counted at any height up to that of
\* the next block, the same as were used when the block of that height was
\* checked at the end of the chain.
RankAtAnyHeight ==
    \A h \in 1 .. Len(chain) :
        FetchStakingRank(h) = {s \in StakesOf(SubSeq(chain, 1, h)) : s[1] >= h /\ h - s[2][1] >= StakingTxRewardStart}

\* The stakes that count are the same wherever they are looked up: at the end
\* of the chain, from a branch, or for an earlier height.
StakingViewsMatch == StakingViewMatchesBranch /\ RankAtAnyHeight
=============================================================================
