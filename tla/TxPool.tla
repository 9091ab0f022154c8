------------------------------- MODULE TxPool -------------------------------
(***************************************************************************)
(* The transaction pool and the orphan transactions (blockchain/txpool.go, *)
(* orphantxpool.go) while blocks are connected to and disconnected from    *)
(* the main chain of TxIndex.                                              *)
(*                                                                         *)
(* Every public method holds the pool's lock, so it is one step.  But the  *)
(* block processor commits a block first and tells the pool afterwards     *)
(* (connectBlock, disconnectBlock), and ProcessTx takes no lock of the     *)
(* chain: a transaction may come in between, when the tables are ahead of  *)
(* the pool.  The variable unsynced is the block the pool has still to be  *)
(* told of.                                                                *)
(*                                                                         *)
(* A broken variant of an operator stands just before it.                  *)
(***************************************************************************)
EXTENDS TxIndex

OTP == INSTANCE OrphanPool

CONSTANTS
    Offered,               \* the transactions peers may send
    Refused,               \* what checkTransactionStandard, the limit on the
                           \* payload and such never let into the pool
    Free,                  \* a fee and a priority too low for a new transaction
    Large,                 \* longer than maxOrphanTxSize
    Owners,                \* Owners[t][i]: the address of output i of t
    maxOrphanTransactions  \* 1000 in the code

ASSUME TxPoolAssumption ==
    /\ Offered \subseteq Txs \ DOMAIN CoinBases
    /\ Refused \subseteq Txs /\ Free \subseteq Txs /\ Large \subseteq Txs
    /\ maxOrphanTransactions \in Nat \ {0}

VARIABLES
    mem,      \* [pool: the transactions of TxPool.pool, outpoints: who spends
              \* an outpoint, addrIndex: pairs of an address and a transaction,
              \* orphans: the AbstractOrphanPool of the orphan transactions]
    unsynced, \* [op: "attach", "detach" or "none", block]
    stranded  \* history: transactions of disconnected blocks that were dropped
              \* because a parent of theirs did not come back to the pool

poolVars == <<vars, mem, unsynced, stranded>>

NewTxPool == [pool |-> {}, outpoints |-> <<>>, addrIndex |-> {}, orphans |-> OTP!NewOrphanPool]

Synced == [op |-> "none", block |-> <<>>]

-----------------------------------------------------------------------------
(* Transactions and their parents *)

Parents(t) == {o[1] : o \in Ins[t]}

\* FetchInputTransactions: from the unspent transactions of the main chain, or
\* else from the pool.
Missing(m, t) == {u \in Parents(t) : u \notin DOMAIN txd \cup m.pool}

\* The addresses removeTransactionFromAddrIndex and addTransactionToAddrIndex
\* find: those of the outputs, and those of the inputs whose parent is found.
Addresses(m, t) ==
    {Owners[t][i] : i \in DOMAIN Owners[t]}
        \cup {Owners[o[1]][o[2]] : o \in {x \in Ins[t] : x[1] \notin Missing(m, t)}}

haveTransaction(m, t) == t \in m.pool \/ OTP!Has(m.orphans, t)

checkPoolDoubleSpend(m, t) == Ins[t] \cap DOMAIN m.outpoints = {}

\* CheckTransactionInputs for the next block.  A parent that is in the tables
\* is taken from there, and an output of a pooled one counts as unspent.
CheckTransactionInputs(m, t) ==
    \A o \in Ins[t] : o[1] \in DOMAIN txd => Unspent(o, Tip + 1, FALSE)

-----------------------------------------------------------------------------
(* Removing transactions *)

\* Slip: the addresses lose all their transactions.
RemovedAddresses(m, gone) ==
    [m EXCEPT !.pool = @ \ gone,
              !.outpoints = [o \in DOMAIN @ \ UNION {Ins[t] : t \in gone} |-> @[o]],
              !.addrIndex = {e \in @ : e[1] \notin UNION {Addresses(m, t) : t \in gone}}]

RemovedFrom(m, gone) ==
    [m EXCEPT !.pool = @ \ gone,
              !.outpoints = [o \in DOMAIN @ \ UNION {Ins[t] : t \in gone} |-> @[o]],
              !.addrIndex = @ \ UNION {Addresses(m, t) \X {t} : t \in gone}]

\* The transactions of the pool that rely on one of S.
Redeemers(m, S) == {m.outpoints[o] : o \in {x \in DOMAIN m.outpoints : x[1] \in S}}

\* Slip: only the direct redeemers.
RedeemersOnce(m, t) == Redeemers(m, {t})

\* The recursion of removeTransaction: no chain of redeemers is longer than the
\* number of transactions.
AllRedeemers(m, t) ==
    FoldLeft(LAMBDA S, k : S \cup Redeemers(m, S \cup {t}), {}, [k \in 1 .. Cardinality(m.pool) |-> k])

removeTransaction(m, t, removeRedeemers) ==
    RemovedFrom(m, m.pool \cap ({t} \cup IF removeRedeemers THEN AllRedeemers(m, t) ELSE {}))

removeDoubleSpends(m, t) ==
    FoldSet(LAMBDA o, a : IF o \in DOMAIN a.outpoints /\ a.outpoints[o] # t
                          THEN removeTransaction(a, a.outpoints[o], TRUE) ELSE a,
            m, Ins[t])

removeOrphan(m, t) == [m EXCEPT !.orphans = OTP!Fetch(@, t)]

-----------------------------------------------------------------------------
(* Accepting transactions *)

\* Slip: one outpoint is marked, not every input's.
addTransactionOnce(m, t) ==
    [m EXCEPT !.pool = @ \cup {t},
              !.outpoints = [o \in {CHOOSE x \in Ins[t] : TRUE} |-> t] @@ @,
              !.addrIndex = @ \cup (Addresses(m, t) \X {t})]

addTransaction(m, t) ==
    [m EXCEPT !.pool = @ \cup {t},
              !.outpoints = [o \in Ins[t] |-> t] @@ @,
              !.addrIndex = @ \cup (Addresses(m, t) \X {t})]

\* What maybeAcceptTransaction does: it returns an error, or the missing
\* parents, or adds the transaction.  isNew is FALSE for a transaction that
\* comes back from a disconnected block and needs no fee.
maybeAcceptTransaction(m, t, isNew) ==
    IF haveTransaction(m, t) \/ t \in Refused \/ t \in DOMAIN txd \/ ~checkPoolDoubleSpend(m, t)
    THEN [res |-> "error", mem |-> m]
    ELSE IF Missing(m, t) # {} THEN [res |-> "orphan", mem |-> m]
    ELSE IF ~CheckTransactionInputs(m, t) \/ (isNew /\ t \in Free) THEN [res |-> "error", mem |-> m]
    ELSE [res |-> "accepted", mem |-> addTransaction(m, t)]

\* limitNumOrphans evicts a random orphan when the pool is full.
limitNumOrphans(m, victim) ==
    IF OTP!Count(m.orphans) + 1 > maxOrphanTransactions THEN removeOrphan(m, victim) ELSE m

addOrphan(m, t, victim) ==
    LET inputs == SetToSeq(Ins[t])
        room   == limitNumOrphans(m, victim)
    IN  [room EXCEPT !.orphans = OTP!Put(@, [id |-> t], [i \in DOMAIN inputs |-> inputs[i][1]])]

\* One orphan that waited for a transaction just processed.  There is room for
\* it if it has to go back.
RetryOrphan(w, t) ==
    LET a == maybeAcceptTransaction(removeOrphan(w.mem, t), t, TRUE)
    IN  CASE a.res = "error"    -> [w EXCEPT !.mem = a.mem]
          [] a.res = "orphan"   -> [w EXCEPT !.mem = addOrphan(a.mem, t, t)]
          [] a.res = "accepted" -> [mem |-> a.mem, hashes |-> Append(w.hashes, t)]

\* The first of processHashes: the orphans are listed once, then tried.
ProcessHash(w, k) ==
    IF w.hashes = <<>> THEN w
    ELSE FoldLeft(LAMBDA a, e : RetryOrphan(a, e.id),
                  [w EXCEPT !.hashes = Tail(@)],
                  OTP!ReadSubs(w.mem.orphans, Head(w.hashes)))

\* Slip: the orphans that rely on an orphan just accepted are left.
processOrphansOnce(m, t) == ProcessHash([mem |-> m, hashes |-> <<t>>], 1).mem

\* Every round but the first is for an orphan accepted in an earlier one.
processOrphans(m, t) ==
    FoldLeft(ProcessHash, [mem |-> m, hashes |-> <<t>>],
             [k \in 1 .. (OTP!Count(m.orphans) + 1) |-> k]).mem

-----------------------------------------------------------------------------
(* The steps *)

PoolInit == Init /\ mem = NewTxPool /\ unsynced = Synced /\ stranded = {}

\* ProcessTx allows orphans.  A transaction that is refused changes nothing.
AcceptTransaction(t) ==
    LET a == maybeAcceptTransaction(mem, t, TRUE) IN
    /\ a.res = "accepted"
    /\ mem' = processOrphans(a.mem, t)

\* maybeAddOrphan
StoreOrphan(t) ==
    /\ maybeAcceptTransaction(mem, t, TRUE).res = "orphan"
    /\ t \notin Large
    /\ \E victim \in IF OTP!Count(mem.orphans) + 1 > maxOrphanTransactions
                     THEN DOMAIN mem.orphans.entryIndex ELSE {t} :
           mem' = addOrphan(mem, t, victim)

ProcessTransaction(t) ==
    /\ AcceptTransaction(t) \/ StoreOrphan(t)
    /\ UNCHANGED <<vars, unsynced, stranded>>

\* connectBlock and disconnectBlock up to their last call.
connectBlock(b) ==
    /\ unsynced = Synced /\ SubmitBlock(b)
    /\ unsynced' = [op |-> "attach", block |-> b]
    /\ UNCHANGED <<mem, stranded>>

disconnectBlock ==
    /\ unsynced = Synced /\ DeleteBlock
    /\ unsynced' = [op |-> "detach", block |-> Last(chain)]
    /\ UNCHANGED <<mem, stranded>>

Attached(m, t) ==
    processOrphans(removeOrphan(removeDoubleSpends(removeTransaction(m, t, FALSE), t), t), t)

SyncAttachBlock ==
    /\ unsynced.op = "attach" /\ unsynced' = Synced
    /\ mem' = FoldLeft(Attached, mem, Tail(unsynced.block))
    /\ UNCHANGED <<vars, stranded>>

\* Missing parents are no error: such a transaction is dropped, and the pool
\* keeps what relies on it.
Detached(w, t) ==
    LET a == maybeAcceptTransaction(w.mem, t, FALSE)
    IN  CASE a.res = "error"    -> [w EXCEPT !.mem = removeTransaction(@, t, TRUE)]
          [] a.res = "orphan"   -> [w EXCEPT !.left = @ \cup {t}]
          [] a.res = "accepted" -> [w EXCEPT !.mem = a.mem]

SyncDetachBlock ==
    /\ unsynced.op = "detach" /\ unsynced' = Synced
    /\ LET w == FoldLeft(Detached, [mem |-> mem, left |-> stranded], Tail(unsynced.block))
       IN  mem' = w.mem /\ stranded' = w.left
    /\ UNCHANGED vars

\* The pool is not saved.
Restart == mem' = NewTxPool /\ unsynced' = Synced /\ stranded' = {} /\ UNCHANGED vars

PoolNext ==
    \/ \E t \in Offered : ProcessTransaction(t)
    \/ \E b \in Blocks : connectBlock(b)
    \/ disconnectBlock \/ SyncAttachBlock \/ SyncDetachBlock \/ Restart

PoolSpec == PoolInit /\ [][PoolNext]_poolVars

-----------------------------------------------------------------------------
(* Properties *)

\* The maps of the pool tell one story whatever was accepted, mined, replaced
\* and brought back: outpoints names exactly the pooled spender of every input,
\* so no two pooled transactions spend one output; nothing is both pooled and
\* an orphan; the orphans' own maps agree, also for an orphan with several
\* inputs from one parent, and there are at most maxOrphanTransactions of them.
PoolMapsAgree ==
    /\ mem.outpoints = [o \in UNION {Ins[t] : t \in mem.pool} |-> CHOOSE t \in mem.pool : o \in Ins[t]]
    /\ \A t, u \in mem.pool : t # u => Ins[t] \cap Ins[u] = {}
    /\ \A t \in mem.pool : ~OTP!Has(mem.orphans, t)
    /\ OTP!Consistent(mem.orphans)
    /\ OTP!Count(mem.orphans) <= maxOrphanTransactions

\* Whenever the pool has been told of the last block, a template can be made
\* of it: every input of a pooled transaction is an output of another pooled
\* one or unspent on the main chain, and no pooled transaction is on the chain
\* (SyncAttachBlock, SyncDetachBlock and what comes between a commit and them).
\* The one exception is what relies on a transaction that SyncDetachBlock
\* dropped because its parent was refused or replaced.
PoolMineable ==
    unsynced = Synced =>
        \A t \in mem.pool :
            /\ t \notin TxsOf(chain)
            /\ \A o \in Ins[t] :
                   \/ o[1] \in mem.pool \/ Unspent(o, Tip + 1, FALSE)
                   \/ o[1] \in stranded \ TxsOf(chain)

\* "Accept any orphan transactions that depend on this transaction ... and
\* repeat for those accepted transactions until there are no more"
\* (ProcessTransaction): a transaction that enters the pool when it is sent, or
\* an attached block, leaves no orphan behind that relied on it and misses
\* nothing any more.
NoOrphanLeftBehind ==
    [][LET told    == unsynced # Synced /\ unsynced' = Synced
           arrived == (mem'.pool \ mem.pool) \cup IF told THEN ToSet(Tail(unsynced.block)) ELSE {}
       IN  ~(told /\ unsynced.op = "detach") =>
             \A e \in DOMAIN mem'.orphans.entryIndex :
                 Parents(e) \cap arrived # {} => Missing(mem', e) # {}]_<<mem, unsynced>>

\* FilterTransactionsByAddress answers with exactly the pooled transactions
\* that pay to the address or spend from it, although addrIndex keeps entries
\* of transactions whose parents are gone when they are removed.
FilterByAddressExact ==
    \A t \in mem.pool :
        {e[1] : e \in {x \in mem.addrIndex : x[2] = t}}
            = {Owners[t][i] : i \in DOMAIN Owners[t]} \cup {Owners[o[1]][o[2]] : o \in Ins[t]}
=============================================================================
