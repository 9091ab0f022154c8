------------------------------ MODULE ChainDb ------------------------------
(***************************************************************************)
(* The database of the main chain: how a block is connected and            *)
(* disconnected in three calls, SubmitBlock or DeleteBlock, the address    *)
(* index, and Commit (chain.go connectBlock and disconnectBlock, ldb       *)
(* submit.go, block.go, block_file_index.go, chaindb.go), and the block    *)
(* files that hold the raw blocks (package disk).                          *)
(*                                                                         *)
(* The raw block is written to a file at once; everything else goes to one *)
(* leveldb batch that Commit writes.  Two LBatch records say for which     *)
(* block the shared batch was filled.  A scenario names the errors that may *)
(* happen, and the process may die between any two calls.                  *)
(*                                                                         *)
(* A broken variant of an operator stands just before it.                  *)
(***************************************************************************)
EXTENDS Integers, FiniteSets, Sequences, SequencesExt

CONSTANTS Blocks, Genesis,
          Parent,             \* of every other block
          Size,               \* of a raw block with its header on disk
          MaxBlockFileSize,
          Scenarios,          \* what may go wrong: [fresh: the database has just
                              \* been created, kinds: the errors that may happen,
                              \* left: bound on errors and crashes]
          MaxWrites           \* bound on the blocks written

None == "none"

Kinds == {"inputs", "space", "write", "spend", "addrs", "index", "commit", "crash"}

ASSUME ChainDbAssumption ==
  /\ Genesis \in Blocks /\ None \notin Blocks
  /\ Parent \in [Blocks \ {Genesis} -> Blocks]
  /\ Size \in [Blocks -> Nat \ {0}]
  /\ \A b \in Blocks : Size[b] < MaxBlockFileSize
  /\ Scenarios \subseteq [fresh : BOOLEAN, kinds : SUBSET Kinds, left : Nat]
  /\ MaxWrites \in Nat

VARIABLES
  disk,     \* disk[n]: the cells of file n; a raw block fills Size[b] cells
  store,    \* leveldb
  tip,      \* dbStorageMeta.currentHash
  files,    \* the BlockFile records; the last one is written to
  batch,    \* dbBatch, shared by the two LBatches
  lb,       \* batches: for which block, and whether it was filled
  best,     \* the best node of the block tree
  pc,       \* the call connectBlock or disconnectBlock makes next
  cur,      \* the block in hand
  writes,
  faults    \* the scenario, with the number of faults that are left

vars == <<disk, store, tip, files, batch, lb, best, pc, cur, writes, faults>>

-----------------------------------------------------------------------------
(* The chain *)

Height[b \in Blocks] == IF b = Genesis THEN 0 ELSE Height[Parent[b]] + 1

Branch[b \in Blocks] == IF b = Genesis THEN {b} ELSE Branch[Parent[b]] \cup {b}

-----------------------------------------------------------------------------
(* The block files *)

Offsets == 0..(MaxBlockFileSize - 1)
Blank == <<None, 0>>
EmptyFile == [n |-> 0, size |-> 0, first |-> 0, last |-> 0]

\* A BlockFile in memory: what is saved of it, the copy that AddBlock keeps for
\* a rollback, and whether it is open for writing.
NewBlockFile(meta, ro) == [meta |-> meta, before |-> <<>>, readonly |-> ro]

Record(b) == [i \in 0..(Size[b] - 1) |-> <<b, i>>]

\* WriteRawBlock: the first k cells of block b at offset o of cells c.
WriteRaw(c, b, o, k) ==
  [x \in Offsets |-> IF x \in o..(o + k - 1) THEN Record(b)[x - o] ELSE c[x]]

\* ReadRawBlock finds the header and all cells of block b.
ReadRawBlock(b, loc) ==
  /\ loc.file < Len(files)
  /\ \A i \in DOMAIN Record(b) : disk[loc.file][loc.off + i] = <<b, i>>

AddBlock(f, b) ==
  LET m == f.meta h == Height[b] IN
    [f EXCEPT !.before = <<m>>,
              !.meta = [n |-> m.n + 1, size |-> m.size + Size[b],
                        first |-> IF m.n = 0 \/ m.first > h THEN h ELSE m.first,
                        last |-> IF h > m.last THEN h ELSE m.last]]

\* discardRecentChange writes the saved heightLast into heightFirst.
discardRecentChange(f) ==
  IF f.before = <<>> THEN f
  ELSE LET m == f.before[1] IN
       [f EXCEPT !.before = <<>>,
                 !.meta = [n |-> m.n, size |-> m.size,
                           first |-> m.last, last |-> f.meta.last]]

LastFile(fs) == fs[Len(fs)]
UpdateLast(fs, f) == [fs EXCEPT ![Len(fs)] = f]

\* ChainDb.Rollback and the end of Commit touch the last file only.
DiscardRecentChange(fs) == UpdateLast(fs, discardRecentChange(LastFile(fs)))

CommitForgotten(fs) == fs
CommitRecentChange(fs) == UpdateLast(fs, [LastFile(fs) EXCEPT !.before = <<>>])

StartsFileLate(b) == LastFile(files).meta.size + Size[b] > MaxBlockFileSize + 1
\* findBlockPos: whether block b starts the next file ...
StartsFile(b) == LastFile(files).meta.size + Size[b] >= MaxBlockFileSize
\* ... the old file is then flushed and left read-only ...
Finalized == UpdateLast(files, [LastFile(files) EXCEPT !.readonly = TRUE])
\* ... and a record for the new one is appended.
Positioned(b) ==
  IF StartsFile(b) THEN Append(Finalized, NewBlockFile(EmptyFile, FALSE))
                   ELSE files

-----------------------------------------------------------------------------
(* The batch *)

NoBatch == [block |-> None, done |-> FALSE]

PutBlockOldMeta(b, f, o) ==
  [op |-> "put", block |-> b, file |-> Len(f) - 1, off |-> o,
   meta |-> LastFile(f).before[1]]
\* What submitBlock puts: the height and hash keys, the record of the block
\* file and the new tip.  f is the file list with the block added.
PutBlock(b, f, o) ==
  [op |-> "put", block |-> b, file |-> Len(f) - 1, off |-> o,
   meta |-> LastFile(f).meta]
\* What deleteBlock deletes; the tip is the block found one height below.
DelBlock(b, prev) ==
  [op |-> "del", block |-> b, prev |-> prev]
AddrOp(op, b) == [op |-> op, block |-> b]

PutKeys(s, o) ==
  LET h == Height[o.block] IN
  [s EXCEPT !.height = [k \in DOMAIN @ \cup {h} |->
                          IF k = h THEN [block |-> o.block, file |-> o.file,
                                         off |-> o.off] ELSE @[k]],
            !.sha = @ \cup {o.block},
            !.files = [k \in DOMAIN @ \cup {o.file} |->
                         IF k = o.file THEN o.meta ELSE @[k]],
            !.latest = o.file]
ApplyPut(s, o) == [PutKeys(s, o) EXCEPT !.tip = o.block]
ApplyDel(s, o) ==
  [s EXCEPT !.height = [k \in DOMAIN @ \ {Height[o.block]} |-> @[k]],
            !.sha = @ \ {o.block},
            !.tip = o.prev]
Apply(s, o) ==
  CASE o.op = "put"    -> ApplyPut(s, o)
    [] o.op = "del"    -> ApplyDel(s, o)
    [] o.op = "addr"   -> [s EXCEPT !.addr = @ \cup {o.block}]
    [] o.op = "unaddr" -> [s EXCEPT !.addr = @ \ {o.block}]

\* localStorage.Write is atomic.
Write(s, ops) == FoldLeft(Apply, s, ops)

-----------------------------------------------------------------------------
(* Opening: the genesis block is in file 0 *)

GenesisFile ==
  AddBlock(NewBlockFile(EmptyFile, FALSE), Genesis)
EmptyStore ==
  [height |-> [k \in {} |-> 0], sha |-> {}, addr |-> {}, tip |-> None,
   files |-> [k \in {0} |-> EmptyFile], latest |-> 0]

\* loadBlockDB.  InitByGenesisBlock writes the batch but neither resets it nor
\* commits the change of the block file; a database that is opened again has
\* an empty batch.  The address index ends where the main chain ends, and it
\* holds nothing of the genesis block, which is counted as indexed.
InitialBatch == <<PutBlock(Genesis, <<GenesisFile>>, 0)>>
Init ==
  /\ faults \in Scenarios
  /\ disk = [n \in 0..MaxWrites |->
               IF n = 0
               THEN WriteRaw([x \in Offsets |-> Blank], Genesis, 0, Size[Genesis])
               ELSE [x \in Offsets |-> Blank]]
  /\ store = [Write(EmptyStore, InitialBatch) EXCEPT !.addr = {Genesis}]
  /\ tip = Genesis
  /\ files = IF faults.fresh THEN <<GenesisFile>> ELSE CommitRecentChange(<<GenesisFile>>)
  /\ batch = IF faults.fresh THEN InitialBatch ELSE <<>>
  /\ lb = [i \in {1, 2} |-> NoBatch]
  /\ best = Genesis
  /\ pc = "idle" /\ cur = None
  /\ writes = 0

Fault(f) ==
  /\ f \in faults.kinds /\ faults.left > 0
  /\ faults' = [faults EXCEPT !.left = @ - 1]

\* The process is gone and the node is started again: NewChainDb and
\* NewBlockFileKeeper, which opens all files but the last read-only.  The chain
\* is loaded up to the stored tip.
Reopened ==
  [n \in 1..(store.latest + 1) |->
     NewBlockFile(store.files[n - 1], n < store.latest + 1)]
Restart ==
  /\ Fault("crash")
  /\ tip' = store.tip /\ best' = store.tip
  /\ files' = Reopened
  /\ batch' = <<>> /\ lb' = [i \in {1, 2} |-> NoBatch]
  /\ pc' = "idle" /\ cur' = None
  /\ UNCHANGED <<disk, store, writes>>

-----------------------------------------------------------------------------
(* connectBlock *)

\* Every error of connectBlock ends in Rollback, which leaves the batch alone.
Abort(fs) ==
  /\ files' = DiscardRecentChange(fs)
  /\ pc' = "idle" /\ cur' = None
  /\ UNCHANGED <<store, tip, best>>

\* fetchInputTransactions fails: nothing was submitted yet.
ConnectRefused(b) ==
  /\ pc = "idle" /\ b # Genesis /\ Parent[b] = best
  /\ Fault("inputs")
  /\ Abort(files)
  /\ UNCHANGED <<disk, batch, lb, writes>>

\* An error of submitBlock resets the LBatch of the block and the shared batch.
SubmitFails(fs) ==
  /\ lb' = [lb EXCEPT ![1] = NoBatch] /\ batch' = <<>>
  /\ Abort(fs)

\* SubmitBlock: the block is written at the end of the last file or at the
\* start of a new one.
SubmitBlock(b) ==
  /\ pc = "idle" /\ b # Genesis /\ Parent[b] = best
  /\ writes < MaxWrites /\ writes' = writes + 1
  /\ LET fs == Positioned(b)
         n == Len(fs) - 1
         o == LastFile(fs).meta.size
         added == UpdateLast(fs, AddBlock(LastFile(fs), b))
         Save(k) == disk' = [disk EXCEPT ![n] = WriteRaw(@, b, o, k)]
     IN \* Allocate: out of space; the old file has been flushed already.
        \/ /\ Fault("space")
           /\ SubmitFails(IF StartsFile(b) THEN Finalized ELSE files)
           /\ UNCHANGED disk
        \* A write to a file that is open read-only, or one that breaks off.
        \/ /\ LastFile(fs).readonly
           /\ SubmitFails(fs)
           /\ UNCHANGED <<disk, faults>>
        \/ /\ ~LastFile(fs).readonly
           /\ Fault("write")
           /\ \E k \in 0..(Size[b] - 1) : Save(k)
           /\ SubmitFails(fs)
        \* The block is saved, but its transactions are not taken.
        \/ /\ ~LastFile(fs).readonly
           /\ Fault("spend")
           /\ Save(Size[b])
           /\ SubmitFails(added)
        \/ /\ ~LastFile(fs).readonly
           /\ Save(Size[b])
           /\ files' = added
           /\ batch' = Append(batch, PutBlock(b, added, o))
           /\ lb' = [lb EXCEPT ![1] = [block |-> b, done |-> TRUE]]
           /\ pc' = "attach" /\ cur' = b
           /\ UNCHANGED <<store, tip, best, faults>>

\* preSubmit compares an LBatch with those more than one place before it: with
\* none.
preSubmit(i, b) ==
  \A j \in 1..(i - 2) : lb[j].done /\ lb[j].block = b

IndexFailsKeepsBatch == UNCHANGED batch /\ lb' = [lb EXCEPT ![2] = NoBatch]
\* An error of submitAddrIndex or deleteAddrIndex resets the shared batch too.
IndexFails == batch' = <<>> /\ lb' = [lb EXCEPT ![2] = NoBatch]

\* AddrIndexer.SyncAttachBlock: insertTxAddressIndex and SubmitAddrIndex.
SyncAttachBlock ==
  /\ pc = "attach"
  /\ \/ /\ \/ Parent[cur] # tip /\ UNCHANGED faults
           \/ Fault("addrs")
        /\ Abort(files)
        /\ UNCHANGED <<batch, lb>>
     \/ /\ Parent[cur] = tip /\ preSubmit(2, cur)
        /\ Fault("index")
        /\ IndexFails
        /\ Abort(files)
     \/ /\ Parent[cur] = tip /\ preSubmit(2, cur)
        /\ batch' = Append(batch, AddrOp("addr", cur))
        /\ lb' = [lb EXCEPT ![2] = [block |-> cur, done |-> TRUE]]
        /\ pc' = "commit"
        /\ UNCHANGED <<store, tip, files, best, cur, faults>>
  /\ UNCHANGED <<disk, writes>>

\* preCommit: both LBatches are filled for the block that is committed.
preCommit == \A i \in {1, 2} : lb[i].block = cur /\ lb[i].done

\* Commit resets the batches however it ends.
Reset == batch' = <<>> /\ lb' = [i \in {1, 2} |-> NoBatch]

Committed ==
  /\ store' = Write(store, batch)
  /\ tip' = Write(store, batch).tip
  /\ files' = CommitRecentChange(files)
  /\ pc' = "idle" /\ cur' = None

CommitAttached ==
  /\ pc = "commit"
  /\ \/ preCommit /\ Committed /\ best' = cur /\ UNCHANGED faults
     \/ ~preCommit /\ Abort(files) /\ UNCHANGED faults
     \/ Fault("commit") /\ Abort(files)
  /\ Reset
  /\ UNCHANGED <<disk, writes>>

-----------------------------------------------------------------------------
(* disconnectBlock: its errors do not end in Rollback *)

Return == pc' = "idle" /\ cur' = None /\ UNCHANGED <<store, tip, files, best>>

\* DeleteBlock reads the block and the one below it.
Deletable ==
  /\ best = tip /\ best \in store.sha
  /\ LET h == Height[best] IN
       /\ {h, h - 1} \subseteq DOMAIN store.height
       /\ ReadRawBlock(store.height[h].block, store.height[h])
       /\ ReadRawBlock(store.height[h - 1].block, store.height[h - 1])
DeleteBlock ==
  /\ pc = "idle" /\ best # Genesis
  /\ \/ /\ \/ ~Deletable /\ UNCHANGED faults
           \/ Fault("spend")
        /\ lb' = [lb EXCEPT ![1] = NoBatch] /\ batch' = <<>>
        /\ Return
     \/ /\ Deletable
        /\ batch' = Append(batch, DelBlock(best, store.height[Height[best] - 1].block))
        /\ lb' = [lb EXCEPT ![1] = [block |-> best, done |-> TRUE]]
        /\ pc' = "detach" /\ cur' = best
        /\ UNCHANGED <<store, tip, files, best, faults>>
  /\ UNCHANGED <<disk, writes>>

SyncDetachBlock ==
  /\ pc = "detach"
  /\ \/ /\ cur # tip
        /\ Return
        /\ UNCHANGED <<batch, lb, faults>>
     \/ /\ cur = tip /\ preSubmit(2, cur)
        /\ Fault("index")
        /\ IndexFails
        /\ Return
     \/ /\ cur = tip /\ preSubmit(2, cur)
        /\ batch' = Append(batch, AddrOp("unaddr", cur))
        /\ lb' = [lb EXCEPT ![2] = [block |-> cur, done |-> TRUE]]
        /\ pc' = "uncommit"
        /\ UNCHANGED <<store, tip, files, best, cur, faults>>
  /\ UNCHANGED <<disk, writes>>

CommitDetached ==
  /\ pc = "uncommit"
  /\ \/ preCommit /\ Committed /\ best' = Parent[cur] /\ UNCHANGED faults
     \/ ~preCommit /\ Return /\ UNCHANGED faults
     \/ Fault("commit") /\ Return
  /\ Reset
  /\ UNCHANGED <<disk, writes>>

-----------------------------------------------------------------------------
\* The bound on writes is reached and the node only waits.
AtRest == pc = "idle" /\ writes = MaxWrites /\ UNCHANGED vars

Next ==
  \/ \E b \in Blocks : SubmitBlock(b) \/ ConnectRefused(b)
  \/ SyncAttachBlock \/ CommitAttached
  \/ DeleteBlock \/ SyncDetachBlock \/ CommitDetached
  \/ Restart \/ AtRest

Spec == Init /\ [][Next]_vars

-----------------------------------------------------------------------------
(* Properties *)

Loc == [block : Blocks, file : 0..MaxWrites, off : Offsets]
Meta == [n : Nat, size : 0..MaxBlockFileSize, first : Nat, last : Nat]

\* The types of all state; a file never grows past MaxBlockFileSize.
TypeOK ==
  /\ disk \in [0..MaxWrites -> [Offsets -> {Blank} \cup (Blocks \X Nat)]]
  /\ \A h \in DOMAIN store.height : h \in Nat /\ store.height[h] \in Loc
  /\ store.sha \subseteq Blocks /\ store.addr \subseteq Blocks
  /\ store.tip \in Blocks
  /\ \A n \in DOMAIN store.files : n \in 0..MaxWrites /\ store.files[n] \in Meta
  /\ store.latest \in 0..MaxWrites
  /\ tip \in Blocks /\ best \in Blocks /\ cur \in Blocks \cup {None}
  /\ \A n \in DOMAIN files :
       /\ files[n].meta \in Meta /\ files[n].readonly \in BOOLEAN
       /\ \A k \in DOMAIN files[n].before : files[n].before[k] \in Meta
  /\ lb \in [{1, 2} -> [block : Blocks \cup {None}, done : BOOLEAN]]
  /\ pc \in {"idle", "attach", "commit", "detach", "uncommit"}
  /\ writes \in 0..MaxWrites
  /\ \E f \in Scenarios : \E n \in 0..f.left : faults = [f EXCEPT !.left = n]

\* The stored heights, hashes, address index and tip are those of the branch
\* that ends in the best node: connectBlock and disconnectBlock change all of
\* them in one Commit or none of them, whatever fails or crashes on the way.
StoreMatchesChain ==
  /\ store.tip = best /\ tip = best
  /\ store.sha = Branch[best] /\ store.addr = Branch[best]
  /\ DOMAIN store.height = 0..Height[best]
  /\ {store.height[h].block : h \in DOMAIN store.height} = Branch[best]
  /\ \A h \in DOMAIN store.height : Height[store.height[h].block] = h

\* Every block of the stored chain can be read back from its file at the stored
\* place: no later write lands on it (ReadRawBlock, findBlockPos).
IndexedReadable ==
  \A h \in DOMAIN store.height :
    ReadRawBlock(store.height[h].block, store.height[h])

\* Opening the database again finds a record for every block file up to the
\* latest, each file but the last in existence, and the size of a file beyond
\* all blocks that are indexed in it, so that writing goes on behind them
\* (getAllBlockFileMeta, NewBlockFileKeeper).
Reopenable ==
  /\ DOMAIN store.files = 0..store.latest
  /\ \A n \in 0..(store.latest - 1) : \E x \in Offsets : disk[n][x] # Blank
  /\ \A h \in DOMAIN store.height :
       LET l == store.height[h] IN
         /\ l.file <= store.latest
         /\ l.off + Size[l.block] <= store.files[l.file].size

\* A Commit adds or removes no block but the one it is called for: the batch
\* holds nothing of another block (preSubmit, preCommit).
CommitsOwnBlock ==
  [][store' # store =>
       (store.sha \ store'.sha) \cup (store'.sha \ store.sha) \subseteq {cur}]_vars
=============================================================================
