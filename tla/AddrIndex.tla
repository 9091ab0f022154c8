----------------------------- MODULE AddrIndex -----------------------------
(***************************************************************************)
(* The address index (blockchain/addrindexer.go, database/ldb/tx_index.go  *)
(* and binding_tx_index.go), kept by the batch that also commits a block:  *)
(*   hts   HTS, (low boundary, script hash) to a bitmap of heights;        *)
(*   stl   STL, (script hash, low boundary) to a bitmap and, for every bit,*)
(*         the places of the transactions in the block of that height;     *)
(*   stg   STG, the binding outputs of a binding script hash;              *)
(*   htgs  HTGS, the heights that have one in stg;                         *)
(*   stsg  STSG, the binding outputs spent at a height, to be restored.    *)
(* The batch of the transaction tables is not yet committed when the index *)
(* reads them, so it sees the tables before the block.                     *)
(*                                                                         *)
(* The place of a transaction is its position in its block (TxLoc); the    *)
(* script of an output is its class and the script hashes it names.        *)
(***************************************************************************)
EXTENDS TxIndex

CONSTANTS
    Scripts,               \* Scripts[t][i]: [class, sh, bind] of output i of t
    HtsDistance,           \* htsBoundaryDistance, 32 in the code
    StlDistance,           \* stlBoundaryDistance, 16 in the code
    BindingTxFrozenPeriod  \* blocks before a binding can be spent

ASSUME DistanceAssumption == HtsDistance \in Nat \ {0} /\ StlDistance \in Nat \ {0}

VARIABLES hts, stl, stg, htgs, stsg

indexVars == <<hts, stl, stg, htgs, stsg>>

ScriptOf(o) == Scripts[o[1]][o[2]]
OutputsOf(t) == {t} \X (0 .. (Outs[t] - 1))
Place(b, t) == CHOOSE k \in DOMAIN b : b[k] = t

LowBoundary(h, distance) == (h \div distance) * distance

Shift(h, distance) == h - LowBoundary(h, distance)

-----------------------------------------------------------------------------
\* What a block adds: transactions related to a script hash, bindings made
\* and bindings spent.  The inputs of a coinbase are left out.
IndexedInputs(t) == IF t \in DOMAIN CoinBases THEN {} ELSE Ins[t]

RelatedHashes(t) ==
    {ScriptOf(o).sh : o \in {x \in IndexedInputs(t) \cup OutputsOf(t) : ScriptOf(x).class # "other"}}

\* GetUnspentTxData, or the place in this block
TxBefore(t, b, h) ==
    IF t \in DOMAIN txd
    THEN [height |-> txd[t].height, place |-> Place(chain[txd[t].height + 1], t)]
    ELSE [height |-> h, place |-> Place(b, t)]

Bindings(os) == {o \in os : ScriptOf(o).class = "binding"}

indexBlockAddrs(b, h) ==
    [tx    |-> [sh \in UNION {RelatedHashes(b[k]) : k \in DOMAIN b} |->
                   {k \in DOMAIN b : sh \in RelatedHashes(b[k])}],
     btx   |-> UNION {{[bind |-> ScriptOf(o).bind, height |-> h, place |-> k, index |-> o[2]] :
                           o \in Bindings(OutputsOf(b[k]))} : k \in DOMAIN b},
     spent |-> UNION {{[spentAt |-> h, spentPlace |-> k, bind |-> ScriptOf(o).bind,
                        height |-> TxBefore(o[1], b, h).height,
                        place |-> TxBefore(o[1], b, h).place, index |-> o[2]] :
                           o \in Bindings(IndexedInputs(b[k]))} : k \in DOMAIN b}]

-----------------------------------------------------------------------------
HtsKey(h, sh) == <<LowBoundary(h, HtsDistance), sh>>
StlKey(h, sh) == <<sh, LowBoundary(h, StlDistance)>>
BitmapOf(key) == IF key \in DOMAIN hts THEN hts[key] ELSE {}
StlOf(key) == IF key \in DOMAIN stl THEN stl[key] ELSE [bitmap |-> {}, entries |-> <<>>]

\* The walk over the entries of the bits below n: their number, and whether
\* each carries the index of its bit.
Below(v, n) == Cardinality({i \in v.bitmap : i < n})
WalkOK(v, n) == \A i \in {j \in v.bitmap : j < n} : v.entries[Below(v, i) + 1].index = i

PutBit(h, sh) == (HtsKey(h, sh) :> BitmapOf(HtsKey(h, sh)) \cup {Shift(h, HtsDistance)})
PutEntry(h, sh, places) ==
    LET v == StlOf(StlKey(h, sh))
        n == Shift(h, StlDistance)
    IN  StlKey(h, sh) :> [bitmap  |-> v.bitmap \cup {n},
                          entries |-> InsertAt(v.entries, Below(v, n) + 1,
                                               [index |-> n, places |-> SetToSortSeq(places, <)])]

\* bits must be unset and the walk must find its indexes
EntriesRefused(h, shs) ==
    \E sh \in shs :
        LET v == StlOf(StlKey(h, sh)) IN
        \/ Shift(h, HtsDistance) \in BitmapOf(HtsKey(h, sh))
        \/ Shift(h, StlDistance) \in v.bitmap
        \/ ~WalkOK(v, Shift(h, StlDistance))

KeyOf(s) == [bind |-> s.bind, height |-> s.height, place |-> s.place, index |-> s.index]
CountSTG(bind, h) == Cardinality({g \in stg : g.bind = bind /\ g.height = h})
CountSpent(spent, bind, h) == Cardinality({s \in spent : s.bind = bind /\ s.height = h})

\* Slip: as many as there are is also refused.
BindingBrokenIfLast(spent) ==
    \E s \in spent : CountSTG(s.bind, s.height) <= CountSpent(spent, s.bind, s.height)

\* ErrBindingIndexBroken: more are spent than the committed table has.
BindingBroken(spent) ==
    \E s \in spent : CountSTG(s.bind, s.height) < CountSpent(spent, s.bind, s.height)

\* The keys of HTGS without a binding left.
Emptied(spent) ==
    {<<s.height, s.bind>> : s \in {x \in spent : CountSTG(x.bind, x.height) = CountSpent(spent, x.bind, x.height)}}

MergeAll(fs) == FoldSet(LAMBDA f, acc : f @@ acc, <<>>, fs)

submitAddrIndex(h, data) ==
    LET shs == DOMAIN data.tx IN
    [err  |-> EntriesRefused(h, shs) \/ BindingBroken(data.spent),
     hts  |-> MergeAll({PutBit(h, sh) : sh \in shs}) @@ hts,
     stl  |-> MergeAll({PutEntry(h, sh, data.tx[sh]) : sh \in shs}) @@ stl,
     stg  |-> (stg \cup data.btx) \ {KeyOf(s) : s \in data.spent},
     htgs |-> (htgs \cup {<<h, g.bind>> : g \in data.btx}) \ Emptied(data.spent),
     stsg |-> stsg \cup data.spent]

-----------------------------------------------------------------------------
\* deleteAddrIndex: script hashes with the bit of height h
IndexedAt(h) == {key[2] : key \in {x \in DOMAIN hts : x[1] = LowBoundary(h, HtsDistance)
                                                      /\ Shift(h, HtsDistance) \in hts[x]}}

DeleteRefused(h) ==
    \E sh \in IndexedAt(h) :
        LET v == StlOf(StlKey(h, sh)) IN
        \/ Shift(h, StlDistance) \notin v.bitmap
        \/ ~WalkOK(v, Shift(h, StlDistance) + 1)

ClearedBit(h, key) == hts[key] \ {Shift(h, HtsDistance)}

\* Slip: the first entry goes instead of that of the height.
ClearedFirst(h, key) ==
    [bitmap |-> stl[key].bitmap \ {Shift(h, StlDistance)}, entries |-> Tail(stl[key].entries)]

ClearedEntry(h, key) ==
    LET n == Shift(h, StlDistance) IN
    [bitmap |-> stl[key].bitmap \ {n}, entries |-> RemoveAt(stl[key].entries, Below(stl[key], n) + 1)]

\* A table with some keys changed; a key whose bitmap is empty is deleted.
Changed(table, keys, new(_), bitmap(_)) ==
    LET gone == {k \in keys : bitmap(new(k)) = {}}
    IN  [k \in DOMAIN table \ gone |-> IF k \in keys THEN new(k) ELSE table[k]]

deleteAddrIndex(h) ==
    LET shs  == IndexedAt(h)
        made == {x \in htgs : x[1] = h}
        back == {s \in stsg : s.spentAt = h}
    IN  [err  |-> DeleteRefused(h),
         hts  |-> Changed(hts, {HtsKey(h, sh) : sh \in shs}, LAMBDA k : ClearedBit(h, k), LAMBDA v : v),
         stl  |-> Changed(stl, {StlKey(h, sh) : sh \in shs}, LAMBDA k : ClearedEntry(h, k), LAMBDA v : v.bitmap),
         stg  |-> {g \in stg : <<g.height, g.bind>> \notin made} \cup {KeyOf(s) : s \in back},
         htgs |-> (htgs \ made) \cup {<<s.height, s.bind>> : s \in back},
         stsg |-> stsg \ back]

\* The reads of the index.
parseSTLValue(boundary, v) ==
    UNION {{<<boundary + v.entries[k].index, p>> : p \in ToSet(v.entries[k].places)} : k \in DOMAIN v.entries}

Boundaries(start, stop) ==
    {x \in LowBoundary(start, StlDistance) .. LowBoundary(stop - 1, StlDistance) : x % StlDistance = 0}

\* Slip: the last boundary is left out.
RelatedTxShort(shs, start, stop) ==
    {r \in UNION {parseSTLValue(x, StlOf(<<sh, x>>)) :
                      sh \in shs, x \in Boundaries(start, stop) \ {LowBoundary(stop - 1, StlDistance)}} :
        start <= r[1] /\ r[1] < stop}

FetchScriptHashRelatedTx(shs, start, stop) ==
    {r \in UNION {parseSTLValue(x, StlOf(<<sh, x>>)) : sh \in shs, x \in Boundaries(start, stop)} :
        start <= r[1] /\ r[1] < stop}

CheckScriptHashUsed(sh) == \E key \in DOMAIN stl : key[1] = sh

FetchScriptHashRelatedBindingTx(bind) ==
    {<<chain[g.height + 1][g.place], g.index>> : g \in {x \in stg : x.bind = bind}}

-----------------------------------------------------------------------------
Apply(r) ==
    /\ ~r.err
    /\ hts' = r.hts /\ stl' = r.stl /\ stg' = r.stg /\ htgs' = r.htgs /\ stsg' = r.stsg

\* The script of a binding refuses a spend, other than by a coinbase, before
\* BindingTxFrozenPeriod blocks have passed.
SequenceLocks(b, h) ==
    \A k \in DOMAIN b : \A o \in Bindings(IndexedInputs(b[k])) :
        h - TxBefore(o[1], b, h).height >= BindingTxFrozenPeriod

AddrInit == Init /\ hts = <<>> /\ stl = <<>> /\ stg = {} /\ htgs = {} /\ stsg = {}

SyncAttachBlock(b) ==
    /\ SubmitBlock(b)
    /\ SequenceLocks(b, Tip + 1)
    /\ Apply(submitAddrIndex(Tip + 1, indexBlockAddrs(b, Tip + 1)))

SyncDetachBlock == DeleteBlock /\ Apply(deleteAddrIndex(Tip))

AddrNext == SyncDetachBlock \/ \E b \in Blocks : SyncAttachBlock(b)

AddrSpec == AddrInit /\ [][AddrNext]_<<vars, indexVars>>

-----------------------------------------------------------------------------
\* The transactions of the main chain above genesis as <<height, place>>, with
\* the script hashes of their outputs and of the outputs they spend.  What a
\* coinbase spends counts for nothing here.
Indexed == UNION {{<<k - 1, j>> : j \in DOMAIN chain[k]} : k \in 2 .. Len(chain)}
TxAt(r) == chain[r[1] + 1][r[2]]
TouchedBy(sh) ==
    {r \in Indexed : \E o \in OutputsOf(TxAt(r)) \cup IndexedInputs(TxAt(r)) : ScriptOf(o).class # "other" /\ ScriptOf(o).sh = sh}
ScriptHashes == {ScriptOf(o).sh : o \in UNION {OutputsOf(t) : t \in Txs}}
BindingHashes == {ScriptOf(o).bind : o \in Bindings(UNION {OutputsOf(t) : t \in Txs})}
BindingsOf(c) == Bindings(UNION {OutputsOf(t) : t \in TxsOf(Tail(c))})
NotSpent(c) == {o \in BindingsOf(c) : \A t \in TxsOf(c) : o \notin IndexedInputs(t)}

\* After blocks were attached and detached in any order HTS and STL hold a bit
\* for exactly the heights of the main chain at which a script hash occurs in
\* an output or in an output spent, and no empty bitmap: what submitAddrIndex
\* adds to the shared bitmaps of a boundary, deleteAddrIndex takes out again.
AddrIndexMatchesChain ==
    LET at(sh) == {r[1] : r \in TouchedBy(sh)} IN
    /\ hts = [key \in UNION {{HtsKey(h, sh) : h \in at(sh)} : sh \in ScriptHashes} |->
                 {h - key[1] : h \in {x \in at(key[2]) : LowBoundary(x, HtsDistance) = key[1]}}]
    /\ DOMAIN stl = UNION {{StlKey(h, sh) : h \in at(sh)} : sh \in ScriptHashes}
    /\ \A key \in DOMAIN stl :
           /\ stl[key].bitmap = {h - key[2] : h \in {x \in at(key[1]) : LowBoundary(x, StlDistance) = key[2]}}
           /\ [k \in DOMAIN stl[key].entries |-> stl[key].entries[k].index] = SetToSortSeq(stl[key].bitmap, <)

\* FetchScriptHashRelatedTx, "from start to stop-1", returns exactly the
\* transactions of those heights that pay to or spend from one of the script
\* hashes, whatever boundaries the range crosses, and CheckScriptHashUsed
\* holds exactly for script hashes that occur.
RelatedTxComplete ==
    /\ \A shs \in SUBSET ScriptHashes : \A start \in 0 .. Tip, stop \in 1 .. (Tip + 1) :
           FetchScriptHashRelatedTx(shs, start, stop) =
               {r \in UNION {TouchedBy(sh) : sh \in shs} : start <= r[1] /\ r[1] < stop}
    /\ \A sh \in ScriptHashes : CheckScriptHashUsed(sh) <=> TouchedBy(sh) # {}

\* STG lists exactly the binding outputs of the main chain that no transaction
\* but a coinbase has spent, and HTGS their heights, so that deleting a block
\* finds all of its bindings: a spend removes them and undoing the spend
\* restores them.
BindingsMatchChain ==
    /\ \A bind \in BindingHashes :
           FetchScriptHashRelatedBindingTx(bind) = {o \in NotSpent(chain) : ScriptOf(o).bind = bind}
    /\ htgs = {<<x.height, x.bind>> : x \in stg}

\* The tables of the address index are functions of the main chain, whatever
\* submitAddrIndex and deleteAddrIndex did before.
AddrTablesMatchChain == AddrIndexMatchesChain /\ BindingsMatchChain

\* The bindings that FetchScriptHashRelatedBindingTx offers to the coinbase of
\* the next block are unspent ("Coinbase don't have any inputs.").
BindingsUnspent ==
    \A bind \in BindingHashes : \A o \in FetchScriptHashRelatedBindingTx(bind) : o[2] \notin SpentOf(chain, o[1])

\* Indexing a block that passed the checks, or taking the tip out again, meets
\* neither "hts bitmap should be unset" nor ErrBindingIndexBroken, errors on
\* which the indexer stops the server; nor do the transaction tables.
IndexCallsSucceed ==
    /\ CallsSucceed
    /\ \A b \in Blocks :
           Tip < MaxHeight /\ checkConnectBlock(b, Tip + 1) /\ SequenceLocks(b, Tip + 1)
               => ~submitAddrIndex(Tip + 1, indexBlockAddrs(b, Tip + 1)).err
    /\ Tip > 0 => ~deleteAddrIndex(Tip).err
=============================================================================
