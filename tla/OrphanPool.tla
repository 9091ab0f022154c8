----------------------------- MODULE OrphanPool -----------------------------
(***************************************************************************)
(* AbstractOrphanPool of blockchain/orphanpool/orphan_pool.go: the three   *)
(* maps behind the orphan block pool and the orphan transaction pool, as a *)
(* record of functions with growing and shrinking domains.  An entry is a  *)
(* record whose field id is its OrphanPoolID().  Every method runs under   *)
(* the pool's own lock, so each is one operator from pool to pool.         *)
(***************************************************************************)
EXTENDS Naturals, SequencesExt

\* The empty map of type f, and f without the keys of S.
EmptyMap == [x \in {} |-> x]
Without(f, S) == [x \in DOMAIN f \ S |-> f[x]]
With(f, k, v) == [x \in DOMAIN f \cup {k} |-> IF x = k THEN v ELSE f[x]]

\* NewAbstractOrphanPool
NewOrphanPool ==
  [entryIndex |-> EmptyMap, priorToSub |-> EmptyMap, subToPrior |-> EmptyMap]

Has(aop, id) == id \in DOMAIN aop.entryIndex

Count(aop) == Cardinality(DOMAIN aop.entryIndex)

Items(aop) == {aop.entryIndex[id] : id \in DOMAIN aop.entryIndex}

ReadSubs(aop, id) ==
  IF id \in DOMAIN aop.priorToSub THEN aop.priorToSub[id] ELSE <<>>

\* How often id occurs among the priors an entry was put with.
Occurrences(priors, id) == Cardinality({i \in DOMAIN priors : priors[i] = id})

\* Put, filing the entry under its parent's id.
PutUnderPrior(aop, entry, priors) ==
  [aop EXCEPT !.entryIndex = With(@, priors[1], entry),
              !.subToPrior = With(@, entry, priors)]

\* Put appends the entry to the list of each of its priors, once per
\* occurrence: an entry with two inputs from one parent is listed twice.
Put(aop, entry, priors) ==
  LET subs == DOMAIN aop.priorToSub \cup ToSet(priors)
  IN  [entryIndex |-> With(aop.entryIndex, entry.id, entry),
       priorToSub |-> [p \in subs |->
          ReadSubs(aop, p) \o [i \in 1..Occurrences(priors, p) |-> entry]],
       subToPrior |-> With(aop.subToPrior, entry, priors)]

\* deleteFromSlice drops the first occurrence of the entry, and the last
\* element when there is none (the loop then ends with index = len - 1).
DeleteFromSlice(entries, entry) ==
  LET hits  == {i \in DOMAIN entries : entries[i] = entry}
      index == IF hits # {} THEN Min(hits) ELSE Len(entries)
  IN  RemoveAt(entries, index)

\* fetch, leaving the entry in the lists of its priors.
FetchKeepingSubs(aop, id) ==
  IF ~Has(aop, id) THEN aop
  ELSE [aop EXCEPT !.entryIndex = Without(@, {id}),
                   !.subToPrior = Without(@, {aop.entryIndex[id]})]

\* fetch removes the entry of an id from all three maps.  A prior keeps its
\* key with an empty list once its last entry has left.
Fetch(aop, id) ==
  IF ~Has(aop, id) THEN aop
  ELSE LET entry  == aop.entryIndex[id]
           priors == IF entry \in DOMAIN aop.subToPrior
                     THEN aop.subToPrior[entry] ELSE <<>>
           Drop(subs, pid) == [subs EXCEPT ![pid] = DeleteFromSlice(@, entry)]
       IN  [entryIndex |-> Without(aop.entryIndex, {id}),
            priorToSub |-> FoldLeft(Drop, aop.priorToSub, priors),
            subToPrior |-> Without(aop.subToPrior, {entry})]

\* The state every caller relies on: each entry is filed under its id, listed
\* under each prior as often as it names it, and nothing else is listed.
Consistent(aop) ==
  /\ \A id \in DOMAIN aop.entryIndex : aop.entryIndex[id].id = id
  /\ DOMAIN aop.subToPrior = Items(aop)
  /\ \A e \in Items(aop) : \A p \in ToSet(aop.subToPrior[e]) :
        p \in DOMAIN aop.priorToSub
  /\ \A p \in DOMAIN aop.priorToSub :
       /\ ToSet(aop.priorToSub[p]) \subseteq Items(aop)
       /\ \A e \in Items(aop) :
            Occurrences(aop.priorToSub[p], e)
              = Occurrences(aop.subToPrior[e], p)
=============================================================================
