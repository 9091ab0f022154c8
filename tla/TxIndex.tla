------------------------------- MODULE TxIndex -------------------------------
(***************************************************************************)
(* The transaction tables of the chain database (database/ldb/tx.go,       *)
(* staking_tx.go and the part of block.go that fills them):                *)
(*   txd  TXD, transactions with an output still unspent;                  *)
(*   txs  TXS, for a fully spent transaction the list of its instances;    *)
(*   txl  TXL, stakes not yet expired;   txu  TXU, expired stakes;         *)
(*   txr  TXR, transactions that award stakers.                            *)
(* SubmitBlock and DeleteBlock collect their changes in five maps of the   *)
(* ChainDb object; processBlockBatch turns these into the leveldb batch    *)
(* and empties them.  The batch, its commit and its errors are ChainDb's:  *)
(* here a call succeeds and is committed.                                  *)
(*                                                                         *)
(* A transaction is a value; its outputs are 0 .. Outs[t]-1, its inputs    *)
(* the outpoints <<tx, index>> of Ins[t] (without the null input of a      *)
(* coinbase).  Frozen[t] gives the staking outputs their frozen period,    *)
(* Awards[t] are the awarding outputs.                                     *)
(***************************************************************************)
EXTENDS Integers, Sequences, SequencesExt, FiniteSetsExt, TLC

CONSTANTS
    Txs, Outs, Ins, Frozen, Awards,
    CoinBases,            \* coinbases, with the height their payload names
    Genesis,              \* the genesis block, a sequence of transactions
    Blocks,               \* the other blocks that may be offered
    ByteBits,             \* outputs per byte of spentData: 8 in the code
    CoinbaseMaturity, TransactionMaturity,
    MaxHeight             \* bound: height of the chain

VARIABLES
    chain,                \* the main chain, chain[h + 1] the block of height h
    txd, txs, txl, txu, txr

vars == <<chain, txd, txs, txl, txu, txr>>

Tip == Len(chain) - 1

\* spentData is a whole number of bytes
SpentWidth(t) == ByteBits * ((Outs[t] + ByteBits - 1) \div ByteBits)

\* txUpdateMap, txSpentUpdateMap, stakingTxMap, expiredStakingTxMap and
\* awardTxMap as a call finds them
NoMaps == [upd |-> <<>>, sup |-> <<>>, stk |-> <<>>, exp |-> <<>>, awd |-> {}, err |-> FALSE]

\* The bits behind the last output are set, except in the genesis block.
SpentBuf(t, h) == IF h = 0 THEN {} ELSE Outs[t] .. (SpentWidth(t) - 1)

insertTx(m, t, h) ==
    [m EXCEPT !.upd = (t :> [height |-> h, width |-> SpentWidth(t),
                             spent |-> SpentBuf(t, h), del |-> FALSE]) @@ @]

insertStakingTx(m, t, h) ==
    [m EXCEPT !.stk = [k \in {<<h, t, i>> : i \in DOMAIN Frozen[t]} |->
                           [exp |-> h + Frozen[t][k[3]], del |-> FALSE]] @@ @,
              !.awd = IF Awards[t] = {} THEN @ ELSE @ \cup {t}]

\* The entry setClearSpentData works on: the cached one, the one of TXD, or,
\* when a bit is cleared, the last instance in TXS with every bit set.
Entry(m, t) ==
    IF t \in DOMAIN m.upd THEN m.upd[t]
    ELSE IF t \in DOMAIN txd
    THEN [height |-> txd[t].height, width |-> txd[t].width, spent |-> txd[t].spent, del |-> FALSE]
    ELSE LET s == Last(txs[t]) IN
         [height |-> s.height, width |-> s.width, spent |-> 0 .. (s.width - 1), del |-> FALSE]

FromSpent(m, t) == t \notin DOMAIN m.upd /\ t \notin DOMAIN txd

\* Slip: it stays in the list as well.
PoppedKept(m, t) == m

\* The instance leaves the list of fully spent ones.
Popped(m, t) ==
    IF ~FromSpent(m, t) THEN m
    ELSE [m EXCEPT !.sup = (t :> IF Len(txs[t]) = 1 THEN [list |-> <<>>, del |-> TRUE]
                                 ELSE [list |-> Front(txs[t]), del |-> FALSE]) @@ @]

Pushed(m, t, e) ==
    LET old == IF t \in DOMAIN m.sup THEN m.sup[t]
               ELSE [list |-> IF t \in DOMAIN txs THEN txs[t] ELSE <<>>, del |-> FALSE]
    IN  [m EXCEPT !.sup = (t :> [old EXCEPT !.list = Append(@, [height |-> e.height, width |-> e.width])]) @@ @]

ClearedSpent(e, i, isSpent) == IF isSpent THEN e.spent \cup {i} ELSE e.spent \ {i}

\* Only a bit that is cleared may be one of a fully spent transaction.
NotFound(m, t, isSpent) == FromSpent(m, t) /\ (isSpent \/ t \notin DOMAIN txs)

setClearSpentData(m, o, isSpent) ==
    LET t == o[1]
        e == [Entry(m, t) EXCEPT !.spent = ClearedSpent(Entry(m, t), o[2], isSpent)]
        p == Popped(m, t)
    IN  IF m.err \/ NotFound(m, t, isSpent) THEN [m EXCEPT !.err = TRUE]
        ELSE IF e.spent = 0 .. (e.width - 1)
        THEN LET q == Pushed(p, t, e) IN [q EXCEPT !.upd = (t :> [e EXCEPT !.del = TRUE]) @@ @]
        ELSE [p EXCEPT !.upd = (t :> e) @@ @]

doSpend(m, inputs) == FoldSet(LAMBDA o, a : setClearSpentData(a, o, TRUE), m, inputs)
unSpend(m, inputs) == FoldSet(LAMBDA o, a : setClearSpentData(a, o, FALSE), m, inputs)

\* Stakes that end at height h move from TXL to TXU, and back.
expireStakingTx(m, h) ==
    LET ks == {s[2] : s \in {x \in txl : x[1] = h}}
    IN  [m EXCEPT !.stk = [k \in ks |-> [exp |-> h, del |-> TRUE]] @@ @,
                  !.exp = [k \in ks |-> [exp |-> h, del |-> FALSE]] @@ @]

freezeStakingTx(m, h) ==
    LET ks == {s[2] : s \in {x \in txu : x[1] = h}}
    IN  [m EXCEPT !.exp = [k \in ks |-> [exp |-> h, del |-> TRUE]] @@ @,
                  !.stk = [k \in ks |-> [exp |-> h, del |-> FALSE]] @@ @]

\* What submitBlock does for one transaction, with the inputs it gets to spend.
Inserted(m, t, h, inputs) == doSpend(insertTx(insertStakingTx(m, t, h), t, h), inputs)

SubmittedTx(m, t, h) ==
    LET n == Inserted(m, t, h, Ins[t]) IN IF m.err \/ n.err THEN [n EXCEPT !.err = TRUE] ELSE expireStakingTx(n, h)

submitBlock(m, b, h) == FoldLeft(LAMBDA a, t : SubmittedTx(a, t, h), m, b)

\* deleteBlock's loop over the outputs leaves it at the first awarding output;
\* the stakes of a transaction share one record, which keeps the last period.
DroppedStakes(t) == {i \in DOMAIN Frozen[t] : \A a \in Awards[t] : i < a}

DroppedTx(m, t, h) ==
    LET is == DroppedStakes(t)
        k  == [m EXCEPT !.upd = (t :> [height |-> 0, width |-> 0, spent |-> {}, del |-> TRUE]) @@ @]
    IN  IF is = {} THEN k
        ELSE [k EXCEPT !.stk = [x \in {<<h, t, i>> : i \in is} |->
                                    [exp |-> h + Frozen[t][Max(is)], del |-> TRUE]] @@ @]

deleteBlock(m, b, h) ==
    LET u == FoldLeft(LAMBDA a, t : unSpend(a, Ins[t]), m, b)
    IN  IF u.err THEN u ELSE FoldLeft(LAMBDA a, t : DroppedTx(a, t, h), freezeStakingTx(u, h), b)

\* A table keyed by transaction after the changes of a map.
Put(table, changes, value(_)) ==
    LET gone == {t \in DOMAIN changes : changes[t].del}
        keys == (DOMAIN table \cup DOMAIN changes) \ gone
    IN  [t \in keys |-> IF t \in DOMAIN changes THEN value(changes[t]) ELSE table[t]]

PutStakes(table, changes) ==
    (table \ {<<changes[k].exp, k>> : k \in {x \in DOMAIN changes : changes[x].del}})
        \cup {<<changes[k].exp, k>> : k \in {x \in DOMAIN changes : ~changes[x].del}}

\* awarded: TXR after what the call deleted directly in the batch
processBlockBatch(m, awarded) ==
    /\ txd' = Put(txd, m.upd, LAMBDA e : [height |-> e.height, width |-> e.width, spent |-> e.spent])
    /\ txs' = Put(txs, m.sup, LAMBDA s : s.list)
    /\ txl' = PutStakes(txl, m.stk)
    /\ txu' = PutStakes(txu, m.exp)
    /\ txr' = awarded \cup m.awd

-----------------------------------------------------------------------------
\* The checks of checkConnectBlock that the tables depend on: no transaction
\* that is still unspent is repeated, every input is an output that is unspent
\* and mature or comes earlier in the block, no output is spent twice.
Unspent(o, h, coinbase) ==
    /\ o[1] \in DOMAIN txd
    /\ o[2] < Outs[o[1]]
    /\ o[2] \notin txd[o[1]].spent
    /\ o[1] \in DOMAIN CoinBases => h - txd[o[1]].height >= CoinbaseMaturity
    /\ coinbase => h - txd[o[1]].height >= TransactionMaturity

checkConnectBlock(b, h) ==
    /\ CoinBases[b[1]] = h
    /\ \A k \in DOMAIN b : b[k] \notin DOMAIN txd
    /\ \A k \in DOMAIN b : \A o \in Ins[b[k]] :
           \/ \E j \in 1 .. (k - 1) : o[1] = b[j] /\ j > 1
           \/ Unspent(o, h, k = 1)
    /\ \A j, k \in DOMAIN b : j # k => b[j] # b[k] /\ Ins[b[j]] \cap Ins[b[k]] = {}

Init ==
    LET t == Genesis[1] IN
    /\ chain = <<Genesis>>
    /\ txd = (t :> [height |-> 0, width |-> SpentWidth(t), spent |-> SpentBuf(t, 0)])
    /\ txs = <<>> /\ txl = {} /\ txu = {} /\ txr = {}

SubmitBlock(b) ==
    /\ Tip < MaxHeight
    /\ checkConnectBlock(b, Tip + 1)
    /\ LET m == submitBlock(NoMaps, b, Tip + 1) IN ~m.err /\ processBlockBatch(m, txr)
    /\ chain' = Append(chain, b)

DeleteBlock ==
    /\ Tip > 0
    /\ LET b == Last(chain)
           m == deleteBlock(NoMaps, b, Tip)
       IN  ~m.err /\ processBlockBatch(m, txr \ {t \in ToSet(b) : Awards[t] # {}})
    /\ chain' = Front(chain)

Next == DeleteBlock \/ \E b \in Blocks : SubmitBlock(b)

Spec == Init /\ [][Next]_vars

-----------------------------------------------------------------------------
(***************************************************************************)
(* What the tables should be, from the blocks of a chain alone.            *)
(***************************************************************************)
TxsOf(c) == UNION {ToSet(c[k]) : k \in DOMAIN c}
HeightOf(c, t) == (CHOOSE k \in DOMAIN c : t \in ToSet(c[k])) - 1
SpentOf(c, t) == {i \in 0 .. (Outs[t] - 1) : \E u \in TxsOf(c) : <<t, i>> \in Ins[u]}
StakesOf(c) == {<<HeightOf(c, t) + Frozen[t][i], <<HeightOf(c, t), t, i>>>> :
                   <<t, i>> \in UNION {{t} \X DOMAIN Frozen[t] : t \in TxsOf(c)}}
\* A transaction of the genesis block is only fully spent when its outputs
\* fill their last byte.
FullySpent(c, t) == SpentOf(c, t) \cup SpentBuf(t, HeightOf(c, t)) = 0 .. (SpentWidth(t) - 1)

\* After any sequence of blocks connected and disconnected by SubmitBlock and
\* DeleteBlock, TXD holds exactly the transactions of the main chain with an
\* output unspent, with the height and the spent bits the chain gives them,
\* and TXS exactly the fully spent ones: what setClearSpentData moves to TXS
\* when a transaction is fully spent comes back when one of the spends is
\* undone.
SpentMatchesChain ==
    LET full == {t \in TxsOf(chain) : FullySpent(chain, t)} IN
    /\ txd = [t \in TxsOf(chain) \ full |->
                 [height |-> HeightOf(chain, t), width |-> SpentWidth(t),
                  spent |-> SpentOf(chain, t) \cup SpentBuf(t, HeightOf(chain, t))]]
    /\ txs = [t \in full |-> <<[height |-> HeightOf(chain, t), width |-> SpentWidth(t)]>>]

\* TXL holds exactly the stakes of the main chain that expire above its tip,
\* TXU exactly those that have expired, TXR the awarding transactions:
\* expireStakingTx, freezeStakingTx and the deletions of deleteBlock undo one
\* another over a reorganisation.
StakesMatchChain ==
    /\ txl = {s \in StakesOf(chain) : s[1] > Tip}
    /\ txu = {s \in StakesOf(chain) : s[1] <= Tip}
    /\ txr = {t \in TxsOf(chain) : Awards[t] # {}}

\* All five tables are functions of the main chain, whatever SubmitBlock and
\* DeleteBlock did before.
TablesMatchChain == SpentMatchesChain /\ StakesMatchChain

\* A block that checkConnectBlock accepts at the tip can be stored, and the
\* tip can always be deleted: neither meets the error "setting a fully spent
\* tx" nor a transaction missing from both tables.
CallsSucceed ==
    /\ \A b \in Blocks : Tip < MaxHeight /\ checkConnectBlock(b, Tip + 1) => ~submitBlock(NoMaps, b, Tip + 1).err
    /\ Tip > 0 => ~deleteBlock(NoMaps, Last(chain), Tip).err
=============================================================================
