----------------------------- MODULE Blockchain -----------------------------
(***************************************************************************)
(* The block processor of package blockchain: ProcessBlock, the in-memory  *)
(* block tree, fork choice, connecting, disconnecting and reorganising the *)
(* main chain, the side block cache, the error cache, and the orphans that *)
(* a new block resolves (process.go, accept.go, chain.go, blocktree.go,    *)
(* cache.go, blockchain.go).                                               *)
(*                                                                         *)
(* All blocks go through one goroutine, blockProcessor, so its steps do    *)
(* not interleave with each other; a database error or a crash may come    *)
(* between any two of them.  A block is its hash; what the checks of       *)
(* validate.go say about it is a constant, because they depend only on the *)
(* block and its ancestors, except for the median time that                *)
(* checkConnectBlock takes from the best block and the clock that          *)
(* checkBlockSanity reads.  connectBlock and disconnectBlock also hand the *)
(* block to the double mining detector, the proposal pool and the          *)
(* transaction pool; none of these feeds back into what is modelled here.  *)
(*                                                                         *)
(* An operator defined just before another with the same parameters is a   *)
(* deliberately broken variant of it, used to see that a property notices. *)
(***************************************************************************)
EXTENDS OrphanBlockPoolOps

CONSTANTS Height,            \* header.Height, one more than the parent's
          Target,            \* header.Target, the capacity a block adds
          Rank,              \* the tie break: timestamp, quality, hash
          SaneBlocks,        \* the blocks that pass checkBlockSanity, once their
          TimelyFrom,        \* timestamp is not too far in the future
          ContextBlocks,     \* the blocks that pass checkBlockContext
          ConnectBlocks,     \* the blocks that pass checkConnectBlock, up to
                             \* their sequence locks
          LockTime,          \* the latest time lock among a block's inputs
          MedianTime,        \* calcPastMedianTime of a node
          minMemoryNodes,    \* 8000 in the code
          blockErrCacheSize, \* 500 in the code
          MaxFaults,         \* bound on the number of database errors
          MaxRestarts,       \* bound on the number of crashes and restarts
          NoBlock            \* no block in hand

Node == Blocks \cup {Genesis}

ASSUME ChainAssumption ==
  /\ Genesis \notin Blocks /\ NoBlock \notin Node
  /\ Prev \in [Blocks -> Node]
  /\ Height \in [Node -> Nat] /\ Height[Genesis] = 0
  /\ \A b \in Blocks : Height[b] = Height[Prev[b]] + 1
  /\ Target \in [Node -> Nat \ {0}]
  /\ Rank \in [Node -> Nat]
  /\ \A m, n \in Node : Rank[m] = Rank[n] => m = n
  /\ TimelyFrom \in [Blocks -> Nat]
  /\ SaneBlocks \subseteq Blocks /\ ContextBlocks \subseteq Blocks
  /\ ConnectBlocks \subseteq Blocks
  /\ LockTime \in [Blocks -> Int] /\ MedianTime \in [Node -> Int]
  /\ minMemoryNodes \in Nat /\ blockErrCacheSize \in Nat \ {0}
  /\ MaxFaults \in Nat /\ MaxRestarts \in Nat

VARIABLES
  index,     \* blockTree.index: the nodes in memory
  root,      \* blockTree.rootNode
  best,      \* blockTree.bestNode
  branch,    \* the nodes from the root to a node, along the Parent pointers
  capSum,    \* node.CapSum of the nodes in memory
  listed,    \* how often a node occurs in the children list of its parent
  inMain,    \* the nodes in memory with InMainChain set
  dbChain,   \* the main chain in the database, from genesis on
  cache,     \* blockCache: the bodies of side chain blocks
  errCache,  \* errCache, most recently used first
  pc,        \* where blockProcessor is
  req,       \* the block of the ProcessBlock call being served
  cur,       \* the block maybeAcceptBlock is working on
  todo,      \* the orphans processOrphans has still to accept
  detach,    \* the blocks reorganizeChain has still to disconnect
  attach,    \* the blocks still to connect
  oldBest,   \* the best node when the reorganisation started
  reply,     \* the last answer of ProcessBlock
  faults, restarts

treeVars  == <<index, root, branch, capSum, listed>>
chainVars == <<best, inMain, dbChain, cache>>
poolVars  == <<pool, oldestOrphan, now>>
procVars  == <<pc, req, cur, todo, detach, attach, oldBest>>
vars == <<treeVars, chainVars, errCache, poolVars, procVars, reply, faults,
          restarts>>

\* blockExists: the block is a node in memory or in the database.
Known == index \cup ToSet(dbChain)
blockExists(b) == b \in Known

-----------------------------------------------------------------------------
(* The block tree *)

attachForgettingParent(n) ==
  /\ index' = index \cup {n}
  /\ branch' = With(branch, n, Append(branch[Prev[n]], n))
  /\ capSum' = With(capSum, n, Target[n])
  /\ listed' = With(listed, n, 1)
  /\ UNCHANGED root

\* attachBlockNode: a leaf joins the tree below its parent.
attachBlockNode(n) ==
  /\ index' = index \cup {n}
  /\ branch' = With(branch, n, Append(branch[Prev[n]], n))
  /\ capSum' = With(capSum, n, capSum[Prev[n]] + Target[n])
  /\ listed' = With(listed, n, 1)
  /\ UNCHANGED root

\* expandRootBlockNode puts n, the parent of the root, above it.  The loop over
\* the children of n appends each of them to that same list again before
\* recursiveAddChildrenCapSum walks it, so n's capacity is added once per path
\* through the lists: twice to everything below n the first time.
expandRootBlockNode(n) ==
  LET lists == [listed EXCEPT ![root] = 2 * @]
      paths[m \in index] == IF m = root THEN lists[m]
                            ELSE lists[m] * paths[Prev[m]]
  IN  /\ index' = index \cup {n}
      /\ root' = n
      /\ branch' = [m \in index \cup {n} |->
                      IF m = n THEN <<n>> ELSE <<n>> \o branch[m]]
      /\ listed' = With(lists, n, 1)
      /\ capSum' = [m \in index \cup {n} |->
                      IF m = n THEN Target[n]
                      ELSE capSum[m] + Target[n] * paths[m]]

\* The total order of isPotentialNewBestChain: capacity first, then the tie
\* breaks (earlier timestamp, better quality, smaller hash).
Outweighs(capA, a, capB, b) ==
  capA > capB \/ (capA = capB /\ Rank[a] < Rank[b])

firstSeenWins(n, capN) == capN > capSum[best]
isPotentialNewBestChain(n, capN) == Outweighs(capN, n, capSum[best], best)

\* How far a walk up a branch comes from its end before it meets a node of S or
\* the root.
Climb(p, S) ==
  Cardinality({i \in 2..Len(p) : \A j \in i..Len(p) : p[j] \notin S})

\* getReorganizeNodes: the nodes to connect, from the fork on, and the nodes to
\* disconnect, best first.
AttachNodes(n) ==
  LET p == branch'[n]
  IN  SubSeq(p, Len(p) - Climb(p, inMain) + 1, Len(p))

ForkNode(n) == LET p == branch'[n] IN p[Len(p) - Climb(p, inMain)]

DetachOldestFirst(n) ==
  LET q == branch[best]
  IN  SubSeq(q, Len(q) - Climb(q, {ForkNode(n)}) + 1, Len(q))
DetachNodes(n) ==
  LET q == branch[best]
  IN  [i \in 1..Climb(q, {ForkNode(n)}) |-> q[Len(q) + 1 - i]]

\* checkConnectBlock, from the point of view of the block's own ancestors,
\* except for the sequence locks: they are held against the median time of
\* the best block.
checkConnectBlock(b) == b \in ConnectBlocks /\ LockTime[b] < MedianTime[best]

\* groupcache's lru.Cache.
LruTouch(c, b) == <<b>> \o SelectSeq(c, LAMBDA x : x # b)
LruAdd(c, b) ==
  LET t == LruTouch(c, b)
  IN  IF Len(t) > blockErrCacheSize THEN SubSeq(t, 1, blockErrCacheSize) ELSE t

-----------------------------------------------------------------------------
(* Init, and the entry of ProcessBlock *)

Init ==
  /\ index = {Genesis} /\ root = Genesis /\ best = Genesis
  /\ branch = [n \in {Genesis} |-> <<n>>]
  /\ capSum = [n \in {Genesis} |-> Target[n]]
  /\ listed = [n \in {Genesis} |-> 1]
  /\ inMain = {Genesis} /\ dbChain = <<Genesis>> /\ cache = {}
  /\ errCache = <<>>
  /\ pool = NewOrphanPool /\ oldestOrphan = NoOrphan /\ now = 0
  /\ pc = "idle" /\ req = NoBlock /\ cur = NoBlock /\ oldBest = NoBlock
  /\ todo = <<>> /\ detach = <<>> /\ attach = <<>>
  /\ reply = [block |-> NoBlock, res |-> "none"]
  /\ faults = 0 /\ restarts = 0

Answer(b, res) == reply' = [block |-> b, res |-> res]

AnswerAtOnce(b, res) ==
  /\ Answer(b, res)
  /\ UNCHANGED <<treeVars, chainVars, procVars, faults, restarts>>

\* The block exists in the main chain or a side chain: (false, nil).
ProcessKnown(b) ==
  /\ pc = "idle" /\ blockExists(b)
  /\ AnswerAtOnce(b, "accepted")
  /\ UNCHANGED <<errCache, poolVars>>

\* The block waits in the orphan pool: (true, nil).
ProcessPooled(b) ==
  /\ pc = "idle" /\ ~blockExists(b) /\ isOrphanInPool(b)
  /\ AnswerAtOnce(b, "orphan")
  /\ UNCHANGED <<errCache, poolVars>>

PoolUntested(b) == pc = "idle" /\ ~blockExists(b)
\* A block that is neither.
NewBlock(b) == pc = "idle" /\ ~blockExists(b) /\ ~isOrphanInPool(b)

\* The block has failed before and its error is still cached.
ProcessCachedError(b) ==
  /\ NewBlock(b) /\ Contains(errCache, b)
  /\ errCache' = LruTouch(errCache, b)
  /\ AnswerAtOnce(b, "error")
  /\ UNCHANGED poolVars

\* checkBlockSanity: the only check that looks at the clock, in
\* checkHeaderTimestamp.
checkBlockSanity(b) == b \in SaneBlocks /\ TimelyFrom[b] <= now

ProcessInsane(b) ==
  /\ NewBlock(b) /\ ~Contains(errCache, b) /\ ~checkBlockSanity(b)
  /\ errCache' = LruAdd(errCache, b)
  /\ AnswerAtOnce(b, "error")
  /\ UNCHANGED poolVars

\* An orphan, answered without being kept.
ForgetOrphan(b) ==
  /\ NewBlock(b) /\ ~Contains(errCache, b) /\ checkBlockSanity(b)
  /\ ~blockExists(Prev[b])
  /\ AnswerAtOnce(b, "orphan")
  /\ UNCHANGED <<errCache, poolVars>>

\* The parent is unknown: the block becomes an orphan.
ProcessOrphan(b) ==
  /\ NewBlock(b) /\ ~Contains(errCache, b) /\ checkBlockSanity(b)
  /\ ~blockExists(Prev[b])
  /\ addOrphanBlock(b)
  /\ AnswerAtOnce(b, "orphan")
  /\ UNCHANGED <<errCache, now>>

\* The block goes to maybeAcceptBlock.
ProcessNew(b) ==
  /\ NewBlock(b) /\ ~Contains(errCache, b) /\ checkBlockSanity(b)
  /\ blockExists(Prev[b])
  /\ pc' = "accept" /\ req' = b /\ cur' = b
  /\ UNCHANGED <<treeVars, chainVars, errCache, poolVars, todo, detach, attach,
                 oldBest, reply, faults, restarts>>

\* blockProcessor takes the next block from processBlockCh.
ProcessBlock(b) ==
  \/ ProcessKnown(b) \/ ProcessPooled(b) \/ ProcessCachedError(b)
  \/ ProcessInsane(b) \/ ProcessOrphan(b) \/ ProcessNew(b)

-----------------------------------------------------------------------------
(* maybeAcceptBlock and connectBestChain *)

\* The call ends; the orphans it was about to resolve are not dropped.
ResetKeepingTodo ==
  /\ pc' = "idle" /\ req' = NoBlock /\ cur' = NoBlock /\ oldBest' = NoBlock
  /\ detach' = <<>> /\ attach' = <<>> /\ UNCHANGED todo

\* The call ends, whatever orphans are left to do and however far a
\* reorganisation has come.
Reset ==
  /\ pc' = "idle" /\ req' = NoBlock /\ cur' = NoBlock /\ oldBest' = NoBlock
  /\ todo' = <<>> /\ detach' = <<>> /\ attach' = <<>>

RememberRequest == errCache' = LruAdd(errCache, req)
\* errCache holds the error against the block that failed, which may be an
\* orphan of the block of the call.
Remember == errCache' = LruAdd(errCache, cur)

\* The error path of maybeAcceptBlock: ProcessBlock returns the error.
Fail ==
  /\ Remember
  /\ Answer(req, "error")
  /\ Reset
  /\ UNCHANGED <<poolVars, restarts>>

\* maybeAcceptBlock is done with cur; processOrphans comes next.
Accepted ==
  /\ pc' = "accepted" /\ detach' = <<>> /\ attach' = <<>> /\ oldBest' = NoBlock
  /\ UNCHANGED <<req, cur, todo, errCache, poolVars, reply, restarts>>

\* connectBestChain hands the two lists to connectBlock and reorganizeChain.
StartConnect(dn, an) ==
  /\ pc' = "connect" /\ detach' = dn /\ attach' = an /\ oldBest' = best
  /\ UNCHANGED <<req, cur, todo, errCache, poolVars, reply, restarts>>

\* getPrevNodeFromBlock finds the parent in the database, just above the root.
Loadable(n) == n \in ToSet(dbChain) /\ root # Genesis /\ Prev[root] = n

LoadPrev ==
  /\ pc = "accept" /\ Prev[cur] \notin index /\ Loadable(Prev[cur])
  /\ expandRootBlockNode(Prev[cur])
  /\ inMain' = inMain \cup {Prev[cur]}
  /\ UNCHANGED <<best, dbChain, cache, errCache, poolVars, procVars, reply,
                 faults, restarts>>

\* Any deeper parent cannot be loaded (errExpandOrphanRootBlockNode).
LoadPrevFails ==
  /\ pc = "accept" /\ Prev[cur] \notin index /\ ~Loadable(Prev[cur])
  /\ Fail
  /\ UNCHANGED <<treeVars, chainVars, faults>>

\* A database read fails before anything has changed: loading the parent, or the
\* inputs of a block that extends the best chain.
ReadFails ==
  /\ pc = "accept" /\ faults < MaxFaults
  /\ Prev[cur] \in index => Prev[cur] = best /\ cur \in ContextBlocks
  /\ faults' = faults + 1
  /\ Fail
  /\ UNCHANGED <<treeVars, chainVars>>

\* The parent is in memory, and checkBlockContext passes.
InContext == pc = "accept" /\ Prev[cur] \in index /\ cur \in ContextBlocks

ContextFails ==
  /\ pc = "accept" /\ Prev[cur] \in index /\ cur \notin ContextBlocks
  /\ Fail
  /\ UNCHANGED <<treeVars, chainVars, faults>>

\* The block extends the best chain.
ExtendBest ==
  /\ InContext /\ Prev[cur] = best /\ checkConnectBlock(cur)
  /\ StartConnect(<<>>, <<cur>>)
  /\ UNCHANGED <<treeVars, chainVars, faults>>

ExtendBestFails ==
  /\ InContext /\ Prev[cur] = best /\ ~checkConnectBlock(cur)
  /\ Fail
  /\ UNCHANGED <<treeVars, chainVars, faults>>

addNoBlock(b) == UNCHANGED <<cache, faults>>
\* blockCache.addBlock ignores its errors: a failed write loses the body.
addBlock(b) ==
  \/ cache' = cache \cup {b} /\ faults' = faults
  \/ faults < MaxFaults /\ cache' = cache /\ faults' = faults + 1

\* The block extends a side chain: its body is cached and it joins the tree.
SideBlock ==
  /\ InContext /\ Prev[cur] # best
  /\ addBlock(cur)
  /\ attachBlockNode(cur)
  /\ UNCHANGED <<best, inMain, dbChain>>

\* The side chain is not better than the main chain.
SideStays ==
  /\ SideBlock
  /\ ~isPotentialNewBestChain(cur, capSum'[cur])
  /\ Accepted

\* It is better, and every block to connect is in the cache and passes
\* checkConnectBlock; the best node is still the old one.
ReorgReady(n) ==
  \A m \in ToSet(AttachNodes(n)) : m \in cache' /\ checkConnectBlock(m)

SideWins ==
  /\ SideBlock
  /\ isPotentialNewBestChain(cur, capSum'[cur])
  /\ ReorgReady(cur)
  /\ StartConnect(DetachNodes(cur), AttachNodes(cur))

\* It is better, but cannot be connected: it stays in the tree.
SideRefused ==
  /\ SideBlock
  /\ isPotentialNewBestChain(cur, capSum'[cur])
  /\ ~ReorgReady(cur)
  /\ Fail

\* It is better, but reading the inputs of a block to connect fails.
SideReadFails ==
  /\ InContext /\ Prev[cur] # best /\ faults < MaxFaults
  /\ cache' = cache \cup {cur} /\ faults' = faults + 1
  /\ attachBlockNode(cur)
  /\ isPotentialNewBestChain(cur, capSum'[cur])
  /\ Fail
  /\ UNCHANGED <<best, inMain, dbChain>>

-----------------------------------------------------------------------------
(* disconnectBlock and connectBlock; each ends with one database commit *)

\* disconnectBlock, freeing the node.
disconnectForgettingNode ==
  /\ pc = "connect" /\ detach # <<>> /\ Head(detach) = best
  /\ dbChain' = SubSeq(dbChain, 1, Len(dbChain) - 1)
  /\ inMain' = inMain \ {best} /\ index' = index \ {best}
  /\ branch' = Without(branch, {best})
  /\ capSum' = Without(capSum, {best})
  /\ listed' = Without(listed, {best})
  /\ addBlock(best)
  /\ best' = Prev[best]
  /\ detach' = Tail(detach)
  /\ UNCHANGED <<root, errCache, poolVars, pc, req, cur, todo, attach,
                 oldBest, reply, restarts>>

FlagKept == inMain
FlagCleared == inMain \ {best}

disconnectBlock ==
  /\ pc = "connect" /\ detach # <<>> /\ Head(detach) = best
  /\ dbChain' = SubSeq(dbChain, 1, Len(dbChain) - 1)
  /\ inMain' = FlagCleared
  /\ addBlock(best)
  /\ best' = Prev[best]
  /\ detach' = Tail(detach)
  /\ UNCHANGED <<treeVars, errCache, poolVars, pc, req, cur, todo, attach,
                 oldBest, reply, restarts>>

\* connectBlock commits the block, marks the node and moves the best pointer;
\* a block that extends the best chain joins the tree only then.
connectBlock ==
  LET n == Head(attach) IN
  /\ pc = "connect" /\ detach = <<>> /\ attach # <<>> /\ Prev[n] = best
  /\ dbChain' = Append(dbChain, n)
  /\ inMain' = inMain \cup {n}
  /\ best' = n
  /\ IF n \in index THEN UNCHANGED treeVars ELSE attachBlockNode(n)
  /\ IF Tail(attach) = <<>>
     THEN Accepted
     ELSE /\ attach' = Tail(attach)
          /\ UNCHANGED <<pc, req, cur, todo, detach, oldBest, errCache,
                         poolVars, reply, restarts>>
  /\ UNCHANGED <<cache, faults>>

\* The tests at the head of disconnectBlock and connectBlock.
Fits == IF detach # <<>> THEN Head(detach) = best ELSE Prev[Head(attach)] = best

\* A database error, or a list that does not fit the best node: the call ends
\* with the chain as far as it has come.
ConnectFails ==
  /\ pc = "connect"
  /\ Fits => faults < MaxFaults
  /\ faults' = IF Fits THEN faults + 1 ELSE faults
  /\ Fail
  /\ UNCHANGED <<treeVars, chainVars>>

-----------------------------------------------------------------------------
(* processOrphans *)

NoneWaiting(b) == <<>>
Waiting(b) == getOrphansByPrevious(b)

\* An accepted orphan leaves the pool; the orphans that wait for cur are next,
\* depth first.
ResolveOrphans ==
  /\ pc = "accepted"
  /\ IF cur = req THEN UNCHANGED <<pool, oldestOrphan>>
                  ELSE removeOrphanBlock(cur)
  /\ todo' = Waiting(cur) \o todo
  /\ pc' = "orphans"
  /\ UNCHANGED <<treeVars, chainVars, errCache, now, req, cur, detach, attach,
                 oldBest, reply, faults, restarts>>

NextOrphan ==
  /\ pc = "orphans" /\ todo # <<>>
  /\ cur' = Head(todo) /\ todo' = Tail(todo) /\ pc' = "accept"
  /\ UNCHANGED <<treeVars, chainVars, errCache, poolVars, req, detach, attach,
                 oldBest, reply, faults, restarts>>

ProcessDone ==
  /\ pc = "orphans" /\ todo = <<>>
  /\ Answer(req, "accepted")
  /\ pc' = "idle" /\ req' = NoBlock /\ cur' = NoBlock
  /\ UNCHANGED <<treeVars, chainVars, errCache, poolVars, todo, detach, attach,
                 oldBest, faults, restarts>>

-----------------------------------------------------------------------------
(* Time, crash and restart *)

Tick ==
  /\ now < MaxTime /\ now' = now + 1
  /\ UNCHANGED <<treeVars, chainVars, errCache, pool, oldestOrphan, procVars,
                 reply, faults, restarts>>

\* NewBlockchain and generateInitialIndex: the last minMemoryNodes + 1 blocks
\* of the main chain are loaded, everything else in memory is gone.
Restart ==
  LET end   == Len(dbChain)
      start == IF end - 1 >= minMemoryNodes THEN end - minMemoryNodes ELSE 1
      nodes == {dbChain[i] : i \in start..end}
      Below(i) == Target[dbChain[i]]
      pos(n) == CHOOSE i \in start..end : dbChain[i] = n
  IN
  /\ restarts < MaxRestarts /\ restarts' = restarts + 1
  /\ index' = nodes /\ inMain' = nodes
  /\ root' = dbChain[start] /\ best' = dbChain[end]
  /\ branch' = [n \in nodes |-> SubSeq(dbChain, start, pos(n))]
  /\ capSum' = [n \in nodes |-> MapThenSumSet(Below, start..pos(n))]
  /\ listed' = [n \in nodes |-> 1]
  /\ cache' = {} /\ errCache' = <<>>
  /\ pool' = NewOrphanPool /\ oldestOrphan' = NoOrphan
  /\ Reset
  /\ reply' = [block |-> NoBlock, res |-> "none"]
  /\ UNCHANGED <<dbChain, now, faults>>

Proceed ==
  \/ LoadPrev \/ LoadPrevFails \/ ReadFails \/ ContextFails
  \/ ExtendBest \/ ExtendBestFails
  \/ SideStays \/ SideWins \/ SideRefused \/ SideReadFails
  \/ disconnectBlock \/ connectBlock \/ ConnectFails
  \/ ResolveOrphans \/ NextOrphan \/ ProcessDone

Next ==
  \/ \E b \in Blocks : ProcessBlock(b)
  \/ Proceed
  \/ Tick
  \/ Restart

Spec == Init /\ [][Next]_vars

\* The processor goroutine keeps running, and every block is offered again and
\* again: syncWorker asks its peers for blocks every syncCycle.
FairSpec ==
  /\ Spec
  /\ WF_vars(Proceed)
  /\ \A b \in Blocks : SF_vars(ProcessBlock(b))

-----------------------------------------------------------------------------
(* Properties *)

\* Types of the processor's state, and what is set in each of its phases.
TypeOK ==
  /\ index \subseteq Node /\ root \in index /\ best \in Node
  /\ branch \in [index -> Seq(index)]
  /\ DOMAIN capSum = index /\ DOMAIN listed = index
  /\ inMain \subseteq index /\ dbChain \in Seq(Node) /\ dbChain # <<>>
  /\ cache \subseteq Blocks /\ errCache \in Seq(Blocks)
  /\ pc \in {"idle", "accept", "connect", "accepted", "orphans"}
  /\ todo \in Seq(Blocks) /\ detach \in Seq(Blocks) /\ attach \in Seq(Blocks)
  /\ IF pc = "idle" THEN req = NoBlock /\ cur = NoBlock /\ todo = <<>>
                    ELSE req \in Blocks /\ cur \in Blocks
  /\ IF pc = "connect" THEN attach # <<>> /\ oldBest \in Node
                       ELSE detach = <<>> /\ attach = <<>> /\ oldBest = NoBlock
  /\ reply.block \in Blocks \cup {NoBlock}
  /\ reply.res \in {"none", "accepted", "orphan", "error"}
  /\ faults \in 0..MaxFaults /\ restarts \in 0..MaxRestarts

\* A chain of blocks from genesis, each at its own height.
Linked(s) ==
  /\ s # <<>> /\ s[1] = Genesis
  /\ \A i \in 2..Len(s) : s[i] \in Blocks /\ Prev[s[i]] = s[i - 1]
  /\ \A i \in 1..Len(s) : Height[s[i]] = i - 1

\* The database, the tree and the flags tell one story at every moment, in the
\* middle of a reorganisation and after a failed one or a crash: the database
\* holds a linked chain that ends at the best node, and the nodes flagged
\* InMainChain are the blocks of that chain that are in memory.
MainChainLinked ==
  /\ Linked(dbChain)
  /\ best = dbChain[Len(dbChain)] /\ best \in index
  /\ inMain = index \cap ToSet(dbChain)

\* The chain of a block, from genesis.
PathTo[n \in Node] == IF n = Genesis THEN <<Genesis>>
                      ELSE Append(PathTo[Prev[n]], n)

On(n) == ToSet(PathTo[n])

\* The tree is closed upwards from its root, and every capacity sum is its
\* parent's plus the block's own target.
CapSumsAdd ==
  \A n \in index \ {root} :
    /\ Prev[n] \in index /\ capSum[n] = capSum[Prev[n]] + Target[n]
    /\ branch[n] = Append(branch[Prev[n]], n)

\* The lists of getReorganizeNodes fit: errDisconnectMainChain and
\* errConnectMainChain are never returned half way through a reorganisation.
ReorgListsFit == pc = "connect" => Fits

\* The body of every side chain node can be read back when a reorganisation
\* needs it, also after the node was on the main chain and was disconnected.
SideBodiesCached == faults = 0 => index \ inMain \subseteq cache

\* A block is valid when its whole chain passes the checks, each sequence lock
\* held against the median time of the block's own parent.
ValidBlocks ==
  {b \in SaneBlocks \cap ContextBlocks \cap ConnectBlocks :
     LockTime[b] < MedianTime[Prev[b]]}
ValidChain(n) == On(n) \ {Genesis} \subseteq ValidBlocks

\* Without database errors only blocks on an invalid chain are refused: no
\* order of arrival makes errCache hold an error against a valid block whose
\* timestamp had passed when it came.
ErrorsDeserved ==
  faults = 0 => \A b \in ToSet(errCache) : ValidChain(b) => now < TimelyFrom[b]

\* ProcessBlock answers (false, nil) only for a block that is in the tree or
\* the database, and (true, nil) only for one that waits for its parent.
ReplyTruthful ==
  /\ reply.res = "accepted" => reply.block \in Known
  /\ reply.res = "orphan" /\ pc = "idle" => isOrphanInPool(reply.block)

\* Blocks once known stay known until the process ends, through every
\* reorganisation and every failure.
KnownNeverLost == [][restarts' = restarts => Known \subseteq Known']_vars

\* The total capacity of a chain from genesis.
TotalCap[n \in Node] ==
  IF n = Genesis THEN Target[n] ELSE TotalCap[Prev[n]] + Target[n]

\* The node ends up on the heaviest valid chain of all, whatever the order of
\* arrival, the invalid blocks in between, the evictions from the orphan pool
\* and the restarts, as long as its peers keep offering the blocks.  (When an
\* invalid block has a valid sibling, processOrphans can strand the sibling in
\* the orphan pool.)
Converges ==
  <>[](\A n \in Node : ValidChain(n) =>
         ~Outweighs(TotalCap[n], n, TotalCap[best], best))
=============================================================================
