-------------------------- MODULE Blockchain_proofs --------------------------
(***************************************************************************)
(* The main chain stays linked (MainChainLinked) for every block tree,     *)
(* every limit and every number of database errors and crashes, and blocks *)
(* once known are never lost (KnownNeverLost).                             *)
(*                                                                         *)
(* MainChainLinked is not inductive: disconnecting a block is harmless     *)
(* only because getReorganizeNodes never lists the root of the tree, and   *)
(* connecting one only because it lists blocks.  Both follow from the      *)
(* shape of the branches it walks, which ChainInv adds.                    *)
(***************************************************************************)
EXTENDS Blockchain, FiniteSetTheorems, SequenceTheorems, TLAPS

\* The tree hangs together below its root, and a branch meets the root only at
\* its beginning.
TreeInv ==
  /\ index \subseteq Node /\ root \in index
  /\ \A n \in index \ {root} : Prev[n] \in index /\ Height[n] > Height[root]
  /\ branch \in [index -> Seq(index)]
  /\ \A n \in index :
       branch[n] # <<>> /\ \A i \in 2..Len(branch[n]) : branch[n][i] # root

DbInv == dbChain \in Seq(Node) /\ MainChainLinked

\* The main chain is in memory from the height of the root on.
WindowInv == \A i \in 1..Len(dbChain) : i > Height[root] => dbChain[i] \in index

ListInv == detach \in Seq(index \ {root}) /\ attach \in Seq(Blocks)

\* The inductive invariant.
ChainInv == TreeInv /\ DbInv /\ WindowInv /\ ListInv

\* What is used of the constants.
LEMMA Heights ==
  /\ Genesis \notin Blocks /\ Prev \in [Blocks -> Node]
  /\ Height \in [Node -> Nat] /\ Height[Genesis] = 0
  /\ \A b \in Blocks : Height[b] = Height[Prev[b]] + 1
  /\ ContextBlocks \subseteq Blocks
BY ChainAssumption DEF ChainAssumption

-----------------------------------------------------------------------------
(* Linked chains *)

\* Dropping the last block of a linked chain.
LEMMA ShortenLinked ==
  ASSUME NEW s \in Seq(Node), Linked(s), s[Len(s)] # Genesis
  PROVE  LET t == SubSeq(s, 1, Len(s) - 1)
         IN  /\ t \in Seq(Node) /\ Linked(t)
             /\ t[Len(t)] = Prev[s[Len(s)]] /\ s[Len(s)] \in Blocks
             /\ ToSet(t) = ToSet(s) \ {s[Len(s)]}
<1> DEFINE k == Len(s) - 1
           t == SubSeq(s, 1, k)
           e == s[Len(s)]
<1>1. Len(s) \in Nat /\ Len(s) # 0 /\ Len(s) # 1
  BY EmptySeq DEF Linked
<1>2. k \in Nat \ {0} /\ Len(s) = k + 1
  BY <1>1
<1>3. \A i \in 1..(k + 1) : s[i] \in Node
  BY <1>2, ElementOfSeq
<1> HIDE DEF k
<1>4. t \in Seq(Node) /\ Len(t) = k /\ \A i \in 1..k : t[i] = s[i]
  BY <1>2, <1>3, SubSeqProperties
<1>5. e \in Blocks /\ Prev[e] = s[k] /\ Height[e] = k
  BY <1>2 DEF Linked
<1>6. \A i \in 1..k : s[i] # e
  BY <1>2, <1>5 DEF Linked
<1>7. ToSet(s) = {s[i] : i \in 1..(k + 1)} /\ ToSet(t) = {t[i] : i \in 1..k}
  BY <1>2, <1>4, LenProperties DEF ToSet
<1> HIDE DEF t
<1>8. t # <<>> /\ Linked(t)
  BY <1>2, <1>4, EmptySeq DEF Linked
<1>9. ToSet(t) = ToSet(s) \ {e}
  BY <1>2, <1>4, <1>6, <1>7
<1> QED
  BY <1>2, <1>4, <1>5, <1>8, <1>9 DEF t, k

\* Adding a block to the end of a linked chain.
LEMMA ExtendLinked ==
  ASSUME NEW s \in Seq(Node), Linked(s), NEW n \in Blocks, Prev[n] = s[Len(s)]
  PROVE  LET t == Append(s, n)
         IN  /\ t \in Seq(Node) /\ Linked(t) /\ t[Len(t)] = n
             /\ ToSet(t) = ToSet(s) \cup {n}
<1> DEFINE k == Len(s)
           t == Append(s, n)
<1>1. k \in Nat \ {0}
  BY EmptySeq DEF Linked
<1>2. t \in Seq(Node) /\ t # <<>> /\ Len(t) = k + 1 /\ t[k + 1] = n
  BY AppendProperties DEF Node
<1>3. \A i \in 1..k : t[i] = s[i]
  BY AppendProperties DEF Node
<1>4. Height[n] = k
  <2>1. Height[s[k]] = k - 1
    BY <1>1 DEF Linked
  <2>2. Height[n] = Height[s[k]] + 1
    BY Heights
  <2> HIDE DEF k
  <2> QED
    BY <1>1, <2>1, <2>2
<1>5. ToSet(s) = {s[i] : i \in 1..k} /\ ToSet(t) = {t[i] : i \in 1..(k + 1)}
  BY <1>2, LenProperties DEF ToSet
<1> HIDE DEF t
<1>6. Linked(t)
  <2>1. t[1] = Genesis
    BY <1>1, <1>3 DEF Linked
  <2>2. ASSUME NEW i \in 2..(k + 1)
        PROVE  t[i] \in Blocks /\ Prev[t[i]] = t[i - 1]
    <3>1. CASE i = k + 1
      BY <1>1, <1>2, <1>3, <3>1
    <3>2. CASE i \in 2..k
      BY <1>1, <1>3, <3>2 DEF Linked
    <3> QED
      BY <1>1, <3>1, <3>2
  <2>3. ASSUME NEW i \in 1..(k + 1)
        PROVE  Height[t[i]] = i - 1
    <3>1. CASE i = k + 1
      BY <1>1, <1>2, <1>4, <3>1
    <3>2. CASE i \in 1..k
      BY <1>1, <1>3, <3>2 DEF Linked
    <3> QED
      BY <1>1, <3>1, <3>2
  <2> QED
    BY <1>2, <2>1, <2>2, <2>3 DEF Linked
<1>7. ToSet(t) = ToSet(s) \cup {n}
  BY <1>1, <1>2, <1>3, <1>5
<1> QED
  BY <1>1, <1>2, <1>6, <1>7 DEF t

-----------------------------------------------------------------------------
(* The tree *)

\* The root is the lowest node.
LEMMA RootLowest ==
  ASSUME TreeInv, NEW n \in index
  PROVE  /\ Height[n] \in Nat /\ Height[root] \in Nat
         /\ Height[n] >= Height[root]
         /\ n # root => n \in Blocks
<1>1. n \in Node /\ root \in Node /\ (n # root => Height[n] > Height[root])
  BY DEF TreeInv
<1>2. Height[n] \in Nat /\ Height[root] \in Nat
  BY <1>1, Heights
<1>3. n # root => n # Genesis
  BY <1>1, <1>2, Heights
<1> QED
  BY <1>1, <1>2, <1>3 DEF Node

\* attachBlockNode keeps the shape of the tree.
LEMMA AttachKeepsTree ==
  ASSUME TreeInv, NEW n \in Blocks, Prev[n] \in index, attachBlockNode(n)
  PROVE  TreeInv' /\ index' = index \cup {n} /\ root' = root /\ n # root
<1> DEFINE p == Append(branch[Prev[n]], n)
           I == index \cup {n}
<1>1. index' = I /\ root' = root /\ I \subseteq Node
  BY DEF attachBlockNode, TreeInv, Node
<1>2. Height[n] > Height[root] /\ n # root
  <2>1. Height[n] = Height[Prev[n]] + 1
    BY Heights
  <2>2. /\ Height[Prev[n]] \in Nat /\ Height[root] \in Nat
        /\ Height[Prev[n]] >= Height[root]
    BY RootLowest
  <2> QED
    BY <2>1, <2>2
<1>3. \A m \in I \ {root} : Prev[m] \in I /\ Height[m] > Height[root]
  BY <1>2 DEF TreeInv
<1>4. branch[Prev[n]] \in Seq(index) /\ branch[Prev[n]] \in Seq(I)
  BY SeqMonotonic DEF TreeInv
<1>5. /\ p \in Seq(I) /\ p # <<>>
      /\ Len(p) = Len(branch[Prev[n]]) + 1 /\ p[Len(p)] = n
      /\ \A i \in 1..Len(branch[Prev[n]]) : p[i] = branch[Prev[n]][i]
  BY <1>4, AppendProperties
<1>6. Len(branch[Prev[n]]) \in Nat
  BY <1>4, LenProperties
<1> HIDE DEF p
<1>7. ASSUME NEW i \in 2..Len(p) PROVE p[i] # root
  <2>1. CASE i = Len(p)
    BY <1>2, <1>5, <2>1
  <2>2. CASE i \in 2..Len(branch[Prev[n]])
    <3>1. p[i] = branch[Prev[n]][i]
      BY <1>5, <2>2
    <3>2. branch[Prev[n]][i] # root
      BY <2>2 DEF TreeInv
    <3> QED
      BY <3>1, <3>2
  <2> QED
    BY <1>5, <1>6, <2>1, <2>2
<1>8. branch' = [m \in I |-> IF m = n THEN p ELSE branch[m]]
  BY DEF attachBlockNode, TreeInv, With, p
<1>9. \A m \in index : branch[m] \in Seq(I)
  BY SeqMonotonic DEF TreeInv
<1> HIDE DEF I
<1>10. branch' \in [I -> Seq(I)]
  BY <1>5, <1>8, <1>9 DEF I
<1>11. \A m \in I : /\ branch'[m] # <<>>
                    /\ \A i \in 2..Len(branch'[m]) : branch'[m][i] # root
  BY <1>5, <1>7, <1>8 DEF TreeInv, I
<1>12. root \in I
  BY DEF TreeInv, I
<1> QED
  BY <1>1, <1>2, <1>3, <1>10, <1>11, <1>12 DEF TreeInv, I

\* expandRootBlockNode keeps the shape of the tree.
LEMMA ExpandKeepsTree ==
  ASSUME TreeInv, root # Genesis, Prev[root] \notin index,
         expandRootBlockNode(Prev[root])
  PROVE  TreeInv' /\ index' = index \cup {Prev[root]} /\ root' = Prev[root]
<1> DEFINE r == Prev[root]
           I == index \cup {r}
<1>1. /\ index' = I /\ root' = r
      /\ branch' = [m \in I |-> IF m = r THEN <<r>> ELSE <<r>> \o branch[m]]
  BY DEF expandRootBlockNode
<1>2. root \in Blocks /\ r \in Node /\ Height[root] = Height[r] + 1
  BY Heights DEF TreeInv, Node
<1>3. I \subseteq Node
  BY <1>2 DEF TreeInv
<1>4. ASSUME NEW m \in index PROVE Height[m] > Height[r] /\ Prev[m] \in I
  <2>1. /\ Height[r] \in Nat /\ Height[m] \in Nat /\ Height[root] \in Nat
        /\ Height[m] >= Height[root]
    BY <1>2, Heights, RootLowest
  <2>2. Prev[m] \in I
    BY DEF TreeInv
  <2> QED
    BY <1>2, <2>1, <2>2
<1>5. ASSUME NEW m \in index
      PROVE  /\ <<r>> \o branch[m] \in Seq(I) /\ <<r>> \o branch[m] # <<>>
             /\ \A i \in 2..Len(<<r>> \o branch[m]) : (<<r>> \o branch[m])[i] # r
  <2> DEFINE b == branch[m]
  <2>1. b \in Seq(index) /\ b \in Seq(I) /\ Len(b) \in Nat
    BY SeqMonotonic, LenProperties DEF TreeInv
  <2>2. <<r>> \in Seq(I) /\ Len(<<r>>) = 1
    OBVIOUS
  <2>3. \A i \in 1..Len(b) : b[i] \in index
    BY <2>1, ElementOfSeq
  <2> HIDE DEF b
  <2>4. /\ <<r>> \o b \in Seq(I) /\ Len(<<r>> \o b) = 1 + Len(b)
        /\ \A i \in 1..(1 + Len(b)) :
             (<<r>> \o b)[i] = IF i <= 1 THEN <<r>>[i] ELSE b[i - 1]
    BY <2>1, <2>2, ConcatProperties
  <2>5. <<r>> \o b # <<>>
    BY <2>1, <2>4, EmptySeq
  <2>6. ASSUME NEW i \in 2..(1 + Len(b)) PROVE (<<r>> \o b)[i] # r
    BY <2>1, <2>3, <2>4, r \notin index
  <2> QED
    BY <2>4, <2>5, <2>6 DEF b
<1>6. <<r>> \in Seq(I) /\ <<r>> # <<>> /\ Len(<<r>>) = 1
  OBVIOUS
<1> HIDE DEF r, I
<1>7. branch' \in [I -> Seq(I)]
  BY <1>1, <1>5, <1>6 DEF I
<1>8. \A m \in I : /\ branch'[m] # <<>>
                   /\ \A i \in 2..Len(branch'[m]) : branch'[m][i] # r
  BY <1>1, <1>5, <1>6 DEF I
<1> QED
  BY <1>1, <1>3, <1>4, <1>7, <1>8 DEF TreeInv, r, I

\* A walk up a branch ends above its first node.
LEMMA ClimbBound ==
  ASSUME NEW p \in Seq(Node), p # <<>>, NEW S
  PROVE  Climb(p, S) \in 0..(Len(p) - 1)
<1> DEFINE W == {i \in 2..Len(p) : \A j \in i..Len(p) : p[j] \notin S}
<1>1. IsFiniteSet(2..Len(p)) /\ Cardinality(2..Len(p)) = Len(p) - 1
  BY FS_Interval
<1>2. W \subseteq 2..Len(p)
  OBVIOUS
<1> HIDE DEF W
<1>3. IsFiniteSet(W) /\ Cardinality(W) <= Len(p) - 1
  BY <1>1, <1>2, FS_Subset
<1>4. Cardinality(W) \in Nat
  BY <1>3, FS_CardinalityType
<1> QED
  BY <1>3, <1>4 DEF Climb, W

\* getReorganizeNodes never lists the root.
LEMMA ReorganizeLists ==
  ASSUME TreeInv, TreeInv', root' = root, NEW n \in index', best \in index
  PROVE  /\ AttachNodes(n) \in Seq(Blocks)
         /\ DetachNodes(n) \in Seq(index \ {root})
<1> DEFINE p == branch'[n]
           q == branch[best]
           a == Climb(p, inMain)
           d == Climb(q, {ForkNode(n)})
<1>1. p \in Seq(index') /\ p # <<>> /\ \A i \in 2..Len(p) : p[i] # root
  BY DEF TreeInv
<1>2. \A m \in index' \ {root} : m \in Blocks
  BY Heights DEF TreeInv, Node
<1>3. q \in Seq(index) /\ q # <<>> /\ \A i \in 2..Len(q) : q[i] # root
  BY DEF TreeInv
<1>4. p \in Seq(Node) /\ q \in Seq(Node)
  BY <1>1, <1>3, SeqMonotonic DEF TreeInv
<1> HIDE DEF p, q
<1>5. a \in 0..(Len(p) - 1) /\ d \in 0..(Len(q) - 1)
  BY <1>1, <1>3, <1>4, ClimbBound
<1>6. Len(p) \in Nat /\ Len(q) \in Nat
  BY <1>4, LenProperties
<1>7. \A i \in 2..Len(p) : p[i] \in Blocks
  BY <1>1, <1>2, <1>6, ElementOfSeq
<1>8. \A i \in 2..Len(q) : q[i] \in index \ {root}
  BY <1>3, <1>6, ElementOfSeq
<1> HIDE DEF a, d
<1>9. SubSeq(p, Len(p) - a + 1, Len(p)) \in Seq(Blocks)
  BY <1>5, <1>6, <1>7, SubSeqProperties
<1>10. [i \in 1..d |-> q[Len(q) + 1 - i]] \in Seq(index \ {root})
  BY <1>5, <1>6, <1>8
<1> QED
  BY <1>9, <1>10 DEF AttachNodes, DetachNodes, p, q, a, d

-----------------------------------------------------------------------------
(* The steps *)

LEMMA ChainInvInit == Init => ChainInv
<1> SUFFICES ASSUME Init PROVE ChainInv
  OBVIOUS
<1>1. TreeInv
  BY DEF Init, TreeInv, Node
<1>2. Linked(dbChain) /\ dbChain \in Seq(Node) /\ ToSet(dbChain) = {Genesis}
  BY Heights DEF Init, Linked, ToSet, Node
<1>3. DbInv
  BY <1>2 DEF Init, DbInv, MainChainLinked
<1>4. WindowInv
  BY DEF Init, WindowInv
<1>5. ListInv
  BY EmptySeq DEF ListInv, Init
<1> QED
  BY <1>1, <1>3, <1>4, <1>5 DEF ChainInv

\* Steps that leave the tree and the chain alone.
LEMMA QuietStep ==
  ASSUME ChainInv, UNCHANGED <<treeVars, best, inMain, dbChain>>,
         \/ UNCHANGED <<detach, attach>>
         \/ detach' = <<>> /\ attach' = <<>>
         \/ detach' = <<>> /\ attach' = <<cur>> /\ cur \in Blocks
  PROVE  ChainInv'
<1>1. TreeInv' /\ WindowInv'
  BY DEF ChainInv, TreeInv, WindowInv, treeVars
<1>2. DbInv'
  BY DEF ChainInv, DbInv, MainChainLinked, Linked, treeVars
<1>3. index' = index /\ root' = root /\ ListInv
  BY DEF ChainInv, treeVars
<1>4. CASE UNCHANGED <<detach, attach>>
  BY <1>1, <1>2, <1>3, <1>4 DEF ChainInv, ListInv
<1>5. CASE detach' = <<>> /\ attach' \in Seq(Blocks)
  BY <1>1, <1>2, <1>5, EmptySeq DEF ChainInv, ListInv
<1>6. cur \in Blocks => <<cur>> \in Seq(Blocks)
  OBVIOUS
<1> QED
  BY <1>4, <1>5, <1>6, EmptySeq

\* getPrevNodeFromBlock adds a main chain block above the root.
LEMMA LoadStep == ASSUME ChainInv, LoadPrev PROVE ChainInv'
<1> DEFINE r == Prev[root]
<1>1. /\ r \notin index /\ r \in ToSet(dbChain) /\ root # Genesis
      /\ expandRootBlockNode(r)
      /\ inMain' = inMain \cup {r}
      /\ UNCHANGED <<best, dbChain, detach, attach>>
  BY DEF LoadPrev, Loadable, procVars
<1>2. TreeInv' /\ index' = index \cup {r} /\ root' = r
  BY <1>1, ExpandKeepsTree DEF ChainInv
<1>3. root \in Blocks /\ Height[root] = Height[r] + 1 /\ Height[r] \in Nat
  BY <1>1, Heights DEF ChainInv, TreeInv, Node
<1> HIDE DEF r
<1>4. DbInv'
  BY <1>1, <1>2 DEF ChainInv, DbInv, MainChainLinked, Linked
<1>5. PICK j \in 1..Len(dbChain) : r = dbChain[j] /\ j = Height[r] + 1
  <2>1. dbChain \in Seq(Node) /\ \A i \in 1..Len(dbChain) : Height[dbChain[i]] = i - 1
    BY DEF ChainInv, DbInv, MainChainLinked, Linked
  <2>2. PICK j \in 1..Len(dbChain) : r = dbChain[j]
    BY <1>1, <2>1, LenProperties DEF ToSet
  <2> QED
    BY <2>1, <2>2, LenProperties
<1>6. WindowInv'
  <2> SUFFICES ASSUME NEW i \in 1..Len(dbChain), i > Height[r]
               PROVE  dbChain[i] \in index \cup {r}
    BY <1>1, <1>2 DEF WindowInv
  <2>1. CASE i = j
    BY <1>5, <2>1
  <2>2. CASE i > Height[root]
    BY <2>2 DEF ChainInv, WindowInv
  <2> QED
    BY <1>3, <1>5, <2>1, <2>2
<1>7. index \ {root} \subseteq index' \ {root'}
  BY <1>1, <1>2
<1>8. ListInv'
  BY <1>1, <1>7, SeqMonotonic DEF ChainInv, ListInv
<1> QED
  BY <1>2, <1>4, <1>6, <1>8 DEF ChainInv

\* A side block joins the tree; the lists are emptied or filled.
LEMMA SideStep ==
  ASSUME ChainInv, InContext, attachBlockNode(cur),
         UNCHANGED <<best, inMain, dbChain>>,
         \/ detach' = <<>> /\ attach' = <<>>
         \/ detach' = DetachNodes(cur) /\ attach' = AttachNodes(cur)
  PROVE  ChainInv'
<1>1. cur \in Blocks /\ Prev[cur] \in index
  BY Heights DEF InContext
<1>2. TreeInv' /\ index' = index \cup {cur} /\ root' = root /\ cur # root
  BY <1>1, AttachKeepsTree DEF ChainInv
<1>3. cur \in ToSet(dbChain) => cur \in index
  <2> SUFFICES ASSUME NEW i \in 1..Len(dbChain), cur = dbChain[i]
               PROVE  cur \in index
    BY LenProperties DEF ToSet, ChainInv, DbInv
  <2>1. Height[cur] = i - 1
    BY DEF ChainInv, DbInv, MainChainLinked, Linked
  <2>2. /\ Height[cur] = Height[Prev[cur]] + 1
        /\ Height[Prev[cur]] \in Nat /\ Height[root] \in Nat
        /\ Height[Prev[cur]] >= Height[root]
    BY <1>1, Heights, RootLowest DEF ChainInv
  <2>3. i > Height[root]
    BY <2>1, <2>2
  <2> QED
    BY <2>3 DEF ChainInv, WindowInv
<1>4. index' \cap ToSet(dbChain) = index \cap ToSet(dbChain)
  BY <1>2, <1>3
<1>5. DbInv' /\ WindowInv'
  BY <1>2, <1>4 DEF ChainInv, DbInv, MainChainLinked, Linked, WindowInv
<1>6. best \in index
  BY DEF ChainInv, DbInv, MainChainLinked
<1>7. /\ AttachNodes(cur) \in Seq(Blocks)
      /\ DetachNodes(cur) \in Seq(index \ {root})
  BY <1>2, <1>6, ReorganizeLists DEF ChainInv
<1>8. index \ {root} \subseteq index' \ {root'}
  BY <1>2
<1>9. DetachNodes(cur) \in Seq(index' \ {root'})
  BY <1>7, <1>8, SeqMonotonic
<1>10. CASE detach' = <<>> /\ attach' = <<>>
  BY <1>2, <1>5, <1>10, EmptySeq DEF ListInv, ChainInv
<1>11. CASE detach' = DetachNodes(cur) /\ attach' = AttachNodes(cur)
  BY <1>2, <1>5, <1>7, <1>9, <1>11 DEF ListInv, ChainInv
<1> QED
  BY <1>10, <1>11

\* disconnectBlock removes the best block, never the root of the tree.
LEMMA DisconnectStep == ASSUME ChainInv, disconnectBlock PROVE ChainInv'
<1> DEFINE t == SubSeq(dbChain, 1, Len(dbChain) - 1)
<1>1. /\ detach # <<>> /\ Head(detach) = best /\ dbChain' = t
      /\ inMain' = inMain \ {best} /\ best' = Prev[best]
      /\ detach' = Tail(detach)
      /\ index' = index /\ root' = root /\ branch' = branch /\ attach' = attach
  BY DEF disconnectBlock, FlagCleared, treeVars
<1>2. best \in index \ {root} /\ detach' \in Seq(index \ {root})
  BY <1>1, HeadTailProperties DEF ChainInv, ListInv
<1>3. best \in Blocks /\ best # Genesis /\ Prev[best] \in index
  BY <1>2, Heights, RootLowest DEF ChainInv, TreeInv
<1>4. /\ dbChain \in Seq(Node) /\ Linked(dbChain)
      /\ best = dbChain[Len(dbChain)] /\ inMain = index \cap ToSet(dbChain)
  BY DEF ChainInv, DbInv, MainChainLinked
<1>5. /\ t \in Seq(Node) /\ Linked(t) /\ t[Len(t)] = Prev[best]
      /\ ToSet(t) = ToSet(dbChain) \ {best}
  BY <1>3, <1>4, ShortenLinked
<1>6. Len(dbChain) \in Nat \ {0}
  BY <1>4, EmptySeq DEF Linked
<1>7. Len(t) = Len(dbChain) - 1 /\ \A i \in 1..Len(t) : t[i] = dbChain[i]
  <2> DEFINE k == Len(dbChain) - 1
  <2>1. k \in Nat /\ Len(dbChain) = k + 1
    BY <1>6
  <2>2. \A i \in 1..k : dbChain[i] \in Node
    BY <1>4, <2>1, ElementOfSeq
  <2> HIDE DEF k
  <2>3. LET u == SubSeq(dbChain, 1, k)
        IN  Len(u) = k /\ \A i \in 1..k : u[i] = dbChain[i]
    BY <1>4, <2>1, <2>2, SubSeqProperties
  <2> QED
    BY <2>3 DEF k
<1> HIDE DEF t
<1>8. TreeInv'
  BY <1>1 DEF ChainInv, TreeInv
<1>9. DbInv'
  BY <1>1, <1>3, <1>4, <1>5 DEF DbInv, MainChainLinked, Linked
<1>10. WindowInv'
  BY <1>1, <1>6, <1>7 DEF ChainInv, WindowInv
<1>11. ListInv'
  BY <1>1, <1>2 DEF ChainInv, ListInv
<1> QED
  BY <1>8, <1>9, <1>10, <1>11 DEF ChainInv

\* connectBlock appends a child of the best block.
LEMMA ConnectStep == ASSUME ChainInv, connectBlock PROVE ChainInv'
<1> DEFINE n == Head(attach)
           t == Append(dbChain, n)
<1>1. /\ detach = <<>> /\ attach # <<>> /\ Prev[n] = best /\ dbChain' = t
      /\ inMain' = inMain \cup {n} /\ best' = n
      /\ \/ n \in index /\ UNCHANGED treeVars
         \/ n \notin index /\ attachBlockNode(n)
  BY DEF connectBlock
<1>2. \/ detach' = <<>> /\ attach' = <<>>
      \/ detach' = <<>> /\ attach' = Tail(attach)
  BY <1>1 DEF connectBlock, Accepted
<1>3. n \in Blocks /\ Tail(attach) \in Seq(Blocks)
  BY <1>1, HeadTailProperties DEF ChainInv, ListInv
<1> HIDE DEF n
<1>4. /\ dbChain \in Seq(Node) /\ Linked(dbChain) /\ best \in index
      /\ best = dbChain[Len(dbChain)] /\ inMain = index \cap ToSet(dbChain)
  BY DEF ChainInv, DbInv, MainChainLinked
<1>5. TreeInv' /\ index' = index \cup {n} /\ root' = root
  <2>1. CASE n \in index /\ UNCHANGED treeVars
    BY <2>1 DEF ChainInv, TreeInv, treeVars
  <2>2. CASE n \notin index /\ attachBlockNode(n)
    BY <1>1, <1>3, <1>4, <2>2, AttachKeepsTree DEF ChainInv
  <2> QED
    BY <1>1, <2>1, <2>2
<1>6. /\ t \in Seq(Node) /\ Linked(t) /\ t[Len(t)] = n
      /\ ToSet(t) = ToSet(dbChain) \cup {n}
  BY <1>1, <1>3, <1>4, ExtendLinked
<1>7. /\ Len(dbChain) \in Nat /\ Len(t) = Len(dbChain) + 1
      /\ \A i \in 1..Len(dbChain) : t[i] = dbChain[i]
  BY <1>3, <1>4, AppendProperties, LenProperties DEF Node
<1> HIDE DEF t
<1>8. inMain' = index' \cap ToSet(t)
  <2>1. n \in ToSet(dbChain) => n \in index
    <3> SUFFICES ASSUME NEW i \in 1..Len(dbChain), n = dbChain[i]
                 PROVE  n \in index
      BY <1>4, LenProperties DEF ToSet
    <3>1. Height[n] = i - 1 /\ Height[n] = Height[best] + 1
      BY <1>1, <1>3, <1>4, Heights DEF Linked
    <3>2. /\ Height[best] \in Nat /\ Height[root] \in Nat
          /\ Height[best] >= Height[root]
      BY <1>4, RootLowest DEF ChainInv
    <3>3. i > Height[root]
      BY <3>1, <3>2
    <3> QED
      BY <3>3 DEF ChainInv, WindowInv
  <2> QED
    BY <1>1, <1>4, <1>5, <1>6, <2>1
<1>9. DbInv'
  BY <1>1, <1>5, <1>6, <1>8 DEF DbInv, MainChainLinked, Linked
<1>10. WindowInv'
  <2> SUFFICES ASSUME NEW i \in 1..Len(t), i > Height[root]
               PROVE  t[i] \in index \cup {n}
    BY <1>1, <1>5 DEF WindowInv
  <2>1. CASE i = Len(t)
    BY <1>6, <2>1
  <2>2. CASE i \in 1..Len(dbChain)
    BY <1>7, <2>2 DEF ChainInv, WindowInv
  <2> QED
    BY <1>7, <2>1, <2>2
<1>11. ListInv'
  BY <1>2, <1>3, EmptySeq DEF ListInv
<1> QED
  BY <1>5, <1>9, <1>10, <1>11 DEF ChainInv

\* generateInitialIndex builds the tree from the end of the main chain.
LEMMA RestartStep == ASSUME ChainInv, Restart PROVE ChainInv'
<1> DEFINE end   == Len(dbChain)
           start == IF end - 1 >= minMemoryNodes THEN end - minMemoryNodes ELSE 1
           nodes == {dbChain[i] : i \in start..end}
           pos(n) == CHOOSE i \in start..end : dbChain[i] = n
<1>1. /\ index' = nodes /\ inMain' = nodes /\ root' = dbChain[start]
      /\ best' = dbChain[end] /\ dbChain' = dbChain
      /\ branch' = [n \in nodes |-> SubSeq(dbChain, start, pos(n))]
      /\ detach' = <<>> /\ attach' = <<>>
  BY DEF Restart, Reset
<1>2. /\ dbChain \in Seq(Node) /\ Linked(dbChain)
  BY DEF ChainInv, DbInv, MainChainLinked
<1>3. end \in Nat \ {0}
  BY <1>2, EmptySeq DEF Linked
<1>4. start \in 1..end
  BY <1>3, ChainAssumption DEF ChainAssumption
<1> HIDE DEF start
<1>5. \A i \in 1..end : dbChain[i] \in Node /\ Height[dbChain[i]] = i - 1
  BY <1>2, ElementOfSeq DEF Linked
<1>6. \A i \in 2..end : Prev[dbChain[i]] = dbChain[i - 1]
  BY <1>2 DEF Linked
<1>7. ToSet(dbChain) = {dbChain[i] : i \in 1..end}
  BY <1>2, LenProperties DEF ToSet
<1> HIDE DEF end
<1>8. nodes \subseteq Node /\ nodes \subseteq ToSet(dbChain)
  BY <1>3, <1>4, <1>5, <1>7
<1>9. dbChain[start] \in nodes /\ dbChain[end] \in nodes
  BY <1>3, <1>4
<1>10. ASSUME NEW n \in nodes \ {dbChain[start]}
       PROVE  Prev[n] \in nodes /\ Height[n] > Height[dbChain[start]]
  <2>1. PICK i \in start..end : n = dbChain[i]
    OBVIOUS
  <2>2. i \in 2..end /\ i - 1 \in start..end
    BY <1>3, <1>4, <2>1
  <2> QED
    BY <1>4, <1>5, <1>6, <2>1, <2>2
<1>11. ASSUME NEW n \in nodes
       PROVE  LET p == SubSeq(dbChain, start, pos(n))
              IN  /\ p \in Seq(nodes) /\ p # <<>>
                  /\ \A i \in 2..Len(p) : p[i] # dbChain[start]
  <2> DEFINE k == pos(n)
             p == SubSeq(dbChain, start, k)
  <2>1. k \in start..end
    <3>1. \E i \in start..end : dbChain[i] = n
      OBVIOUS
    <3> QED
      BY <3>1
  <2> HIDE DEF k
  <2>2. \A i \in start..k : dbChain[i] \in nodes
    BY <1>3, <1>4, <2>1
  <2> HIDE DEF nodes
  <2>3. start \in Int /\ k \in Int /\ k >= start
    BY <1>3, <1>4, <2>1
  <2>4. /\ p \in Seq(nodes) /\ Len(p) = k - start + 1
        /\ \A i \in 1..(k - start + 1) : p[i] = dbChain[start + i - 1]
    BY <1>2, <2>2, <2>3, SubSeqProperties
  <2> HIDE DEF p
  <2>5. p # <<>>
    BY <2>3, <2>4, EmptySeq
  <2>6. ASSUME NEW i \in 2..Len(p) PROVE p[i] # dbChain[start]
    <3>1. start + i - 1 \in 1..end /\ start + i - 1 # start
      BY <1>3, <1>4, <2>1, <2>3, <2>4
    <3>2. p[i] = dbChain[start + i - 1]
      BY <2>3, <2>4
    <3>3. /\ Height[dbChain[start + i - 1]] = (start + i - 1) - 1
          /\ Height[dbChain[start]] = start - 1
      BY <1>4, <1>5, <3>1
    <3>4. (start + i - 1) - 1 # start - 1
      BY <2>3, <3>1
    <3> QED
      BY <3>2, <3>3, <3>4
  <2> QED
    BY <2>4, <2>5, <2>6 DEF p, k
<1>12. Len(dbChain) = end
  BY DEF end
<1> HIDE DEF nodes, pos
<1>13. TreeInv'
  BY <1>1, <1>8, <1>9, <1>10, <1>11 DEF TreeInv
<1>14. DbInv'
  <2>1. nodes = nodes \cap ToSet(dbChain)
    BY <1>8
  <2> QED
    BY <1>1, <1>2, <1>9, <1>12, <2>1 DEF DbInv, MainChainLinked, Linked
<1>15. WindowInv'
  <2>1. Height[dbChain[start]] = start - 1
    BY <1>4, <1>5
  <2>2. \A i \in 1..end : i > start - 1 => dbChain[i] \in nodes
    BY <1>3, <1>4 DEF nodes
  <2> QED
    BY <1>1, <1>12, <2>1, <2>2 DEF WindowInv
<1>16. ListInv'
  BY <1>1, EmptySeq DEF ListInv
<1> QED
  BY <1>13, <1>14, <1>15, <1>16 DEF ChainInv

-----------------------------------------------------------------------------
(* The theorems *)

\* Every step keeps the inductive invariant.
LEMMA NextStep == ASSUME ChainInv, [Next]_vars PROVE ChainInv'
<1> DEFINE Same == UNCHANGED <<treeVars, best, inMain, dbChain>>
           Quiet == /\ Same
                    /\ \/ UNCHANGED <<detach, attach>>
                       \/ detach' = <<>> /\ attach' = <<>>
                       \/ detach' = <<>> /\ attach' = <<cur>> /\ cur \in Blocks
<1>q. ASSUME Quiet PROVE ChainInv'
  BY <1>q, QuietStep
<1>1. CASE UNCHANGED vars
  <2>1. Quiet
    BY <1>1 DEF vars, chainVars, procVars
  <2> QED
    BY <1>q, <2>1
<1>2. ASSUME NEW b \in Blocks, ProcessBlock(b) PROVE ChainInv'
  <2>1. Quiet
    BY <1>2 DEF ProcessBlock, ProcessKnown, ProcessPooled, ProcessCachedError,
                ProcessInsane, ProcessOrphan, ProcessNew, AnswerAtOnce,
                chainVars, procVars
  <2> QED
    BY <1>q, <2>1
<1>3. CASE Tick
  <2>1. Quiet
    BY <1>3 DEF Tick, chainVars, procVars
  <2> QED
    BY <1>q, <2>1
<1>4. CASE Restart
  BY <1>4, RestartStep
<1>5. CASE LoadPrevFails \/ ReadFails \/ ContextFails \/ ExtendBestFails
           \/ ConnectFails
  <2>1. Quiet
    BY <1>5 DEF LoadPrevFails, ReadFails, ContextFails, ExtendBestFails,
                ConnectFails, Fail, Reset, chainVars
  <2> QED
    BY <1>q, <2>1
<1>6. CASE ExtendBest
  <2>1. Quiet
    BY <1>6, Heights DEF ExtendBest, InContext, StartConnect, chainVars
  <2> QED
    BY <1>q, <2>1
<1>7. CASE ResolveOrphans \/ NextOrphan \/ ProcessDone
  <2>1. Quiet
    BY <1>7 DEF ResolveOrphans, NextOrphan, ProcessDone, chainVars
  <2> QED
    BY <1>q, <2>1
<1>8. CASE LoadPrev
  BY <1>8, LoadStep
<1>9. CASE SideStays \/ SideWins \/ SideRefused \/ SideReadFails
  <2>1. InContext /\ attachBlockNode(cur) /\ UNCHANGED <<best, inMain, dbChain>>
    BY <1>9 DEF SideStays, SideWins, SideRefused, SideReadFails, SideBlock
  <2>2. \/ detach' = <<>> /\ attach' = <<>>
        \/ detach' = DetachNodes(cur) /\ attach' = AttachNodes(cur)
    BY <1>9 DEF SideStays, SideWins, SideRefused, SideReadFails, Accepted,
                StartConnect, Fail, Reset
  <2> QED
    BY <2>1, <2>2, SideStep
<1>10. CASE disconnectBlock
  BY <1>10, DisconnectStep
<1>11. CASE connectBlock
  BY <1>11, ConnectStep
<1> HIDE DEF Quiet
<1> QED
  BY <1>1, <1>2, <1>3, <1>4, <1>5, <1>6, <1>7, <1>8, <1>9, <1>10, <1>11
     DEF Next, Proceed

\* The database holds a linked chain that ends at the best node, and the nodes
\* flagged InMainChain are its blocks in memory: in the middle of every
\* reorganisation, after every database error and after every crash.
THEOREM MainChainAlwaysLinked == Spec => []MainChainLinked
<1>1. Init => ChainInv
  BY ChainInvInit
<1>2. ChainInv /\ [Next]_vars => ChainInv'
  BY NextStep
<1>3. ChainInv => MainChainLinked
  BY DEF ChainInv, DbInv
<1> QED
  BY <1>1, <1>2, <1>3, PTL DEF Spec

\* What a step does to the blocks in memory and in the database.
LEMMA KnownStep ==
  ASSUME ChainInv, restarts \in Nat, [Next]_vars
  PROVE  /\ restarts' \in Nat
         /\ restarts' = restarts => Known \subseteq Known'
<1>1. CASE Restart
  BY <1>1 DEF Restart
<1>2. CASE disconnectBlock
  <2>1. /\ dbChain' = SubSeq(dbChain, 1, Len(dbChain) - 1)
        /\ detach # <<>> /\ Head(detach) = best
        /\ index' = index /\ restarts' = restarts
    BY <1>2 DEF disconnectBlock, treeVars
  <2>2. best \in index \ {root}
    BY <2>1, HeadTailProperties DEF ChainInv, ListInv
  <2>3. best # Genesis
    BY <2>2, Heights, RootLowest DEF ChainInv
  <2>4. /\ dbChain \in Seq(Node) /\ Linked(dbChain)
        /\ best = dbChain[Len(dbChain)]
    BY DEF ChainInv, DbInv, MainChainLinked
  <2>5. ToSet(dbChain') = ToSet(dbChain) \ {best}
    BY <2>1, <2>3, <2>4, ShortenLinked
  <2> QED
    BY <2>1, <2>2, <2>5 DEF Known
<1>3. CASE connectBlock
  <2> DEFINE n == Head(attach)
  <2>1. /\ dbChain' = Append(dbChain, n) /\ attach # <<>> /\ Prev[n] = best
        /\ index' = index \/ index' = index \cup {n}
        /\ restarts' = restarts
    BY <1>3 DEF connectBlock, attachBlockNode, treeVars, Accepted
  <2>2. n \in Blocks
    BY <2>1, HeadTailProperties DEF ChainInv, ListInv
  <2>3. /\ dbChain \in Seq(Node) /\ Linked(dbChain)
        /\ best = dbChain[Len(dbChain)]
    BY DEF ChainInv, DbInv, MainChainLinked
  <2> HIDE DEF n
  <2>4. ToSet(dbChain') = ToSet(dbChain) \cup {n}
    BY <2>1, <2>2, <2>3, ExtendLinked
  <2> QED
    BY <2>1, <2>4 DEF Known
<1> DEFINE Kept == /\ dbChain' = dbChain /\ restarts' = restarts
                   /\ index \subseteq index'
<1>4. ASSUME Kept PROVE Known \subseteq Known' /\ restarts' \in Nat
  BY <1>4 DEF Known
<1>5. CASE LoadPrev
  <2>1. Kept
    BY <1>5 DEF LoadPrev, expandRootBlockNode
  <2> QED
    BY <1>4, <2>1
<1>6. CASE SideStays \/ SideWins \/ SideRefused \/ SideReadFails
  <2>1. Kept
    BY <1>6 DEF SideStays, SideWins, SideRefused, SideReadFails, SideBlock,
                attachBlockNode, Accepted, StartConnect, Fail
  <2> QED
    BY <1>4, <2>1
<1>7. CASE LoadPrevFails \/ ReadFails \/ ContextFails \/ ExtendBestFails
           \/ ConnectFails \/ ExtendBest
  <2>1. Kept
    BY <1>7 DEF LoadPrevFails, ReadFails, ContextFails, ExtendBestFails,
                ConnectFails, ExtendBest, StartConnect, Fail, chainVars, treeVars
  <2> QED
    BY <1>4, <2>1
<1>8. CASE ResolveOrphans \/ NextOrphan \/ ProcessDone \/ Tick
  <2>1. Kept
    BY <1>8 DEF ResolveOrphans, NextOrphan, ProcessDone, Tick, chainVars, treeVars
  <2> QED
    BY <1>4, <2>1
<1>9. ASSUME NEW b \in Blocks, ProcessBlock(b)
      PROVE  Known \subseteq Known' /\ restarts' \in Nat
  <2>1. Kept
    BY <1>9 DEF ProcessBlock, ProcessKnown, ProcessPooled, ProcessCachedError,
                ProcessInsane, ProcessOrphan, ProcessNew, AnswerAtOnce,
                chainVars, treeVars
  <2> QED
    BY <1>4, <2>1
<1>10. CASE UNCHANGED vars
  <2>1. Kept
    BY <1>10 DEF vars, chainVars, treeVars
  <2> QED
    BY <1>4, <2>1
<1> HIDE DEF Kept
<1> QED
  BY <1>1, <1>2, <1>3, <1>5, <1>6, <1>7, <1>8, <1>9, <1>10 DEF Next, Proceed

\* No reorganisation, failed step or resolved orphan makes ProcessBlock forget a
\* block it has in memory or in the database: only the end of the process does.
THEOREM KnownAlwaysKept == Spec => KnownNeverLost
<1> DEFINE Inv == ChainInv /\ restarts \in Nat
<1>1. Init => Inv
  BY ChainInvInit DEF Init
<1>2. Inv /\ [Next]_vars => Inv'
  BY NextStep, KnownStep
<1>3. Inv /\ [Next]_vars => [restarts' = restarts => Known \subseteq Known']_vars
  BY KnownStep
<1> QED
  BY <1>1, <1>2, <1>3, PTL DEF Spec, KnownNeverLost
=============================================================================
