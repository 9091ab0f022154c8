------------------------------- MODULE SktDB -------------------------------
(***************************************************************************)
(* One proof space on disk (package sktdb.v1): creating, opening, plotting *)
(* and deleting its two map files, through stops and crashes (sktdb.v1.go, *)
(* plot.go, hashmap.go, cache.go).                                         *)
(*                                                                         *)
(* HashMapA holds a preimage x of every value y, in the order 0, ~0, 1,    *)
(* ~1, ...; two neighbours are a pair.  HashMapB holds, for every value z, *)
(* the last pair that is hashed to z.  Both are filled window by window,   *)
(* the size of the window being what memory allows; a window is computed   *)
(* in a fresh cache, written, synced, and only then is the checkpoint in   *)
(* the header moved.  The hashes are constants: Preimages are the y with a *)
(* preimage, Z[k] the two values of pair k.                                *)
(*                                                                         *)
(* A broken variant of an operator stands just before it.                  *)
(***************************************************************************)
EXTENDS Integers, FiniteSets

CONSTANTS volume,      \* 2^bitLength
          Preimages,   \* the records of HashMapA that exist
          Z,           \* FB of the two orders of a pair
          Memory,      \* sizes of the cache, in records, when memory is short
          MaxStops,    \* bound on StopPlot calls
          MaxCrashes   \* bound on crashes

half == volume \div 2
Records == 0..(volume - 1)
Pairs == 0..(half - 1)
None == -1                        \* an empty record of HashMapB

ASSUME SktAssumption ==
  /\ volume \in Nat /\ volume > 0 /\ volume % 2 = 0
  /\ Preimages \subseteq Records
  /\ Z \in [Pairs -> Records \X Records]
  /\ Memory \subseteq Nat \ {0, 1}
  /\ MaxStops \in Nat /\ MaxCrashes \in Nat

VARIABLES
  fileA, fileB,   \* "absent", "torn" (no header yet) or "made"
  ckptA, ckptB,   \* the checkpoints in the headers
  dataA, dataB,   \* the records
  pc,             \* where the process is with this space
  hasA,           \* sdb.HashMapA is not nil
  start, cacheLen,\* the window in hand: its start and the size of the cache
  stops, crashes

files == <<fileA, fileB, ckptA, ckptB, dataA, dataB>>
vars == <<files, pc, hasA, start, cacheLen, stops, crashes>>

-----------------------------------------------------------------------------
(* What a window of each map contains *)

WantA(y) == y \in Preimages

\* The pairs that can be read from HashMapA; a pair with an empty record is
\* passed over.
Readable == {k \in Pairs : dataA[2 * k] /\ dataA[2 * k + 1]}

Last(S) == IF S = {} THEN None ELSE CHOOSE k \in S : \A j \in S : j <= k
HashedTo(z, S) == Last({k \in S : z = Z[k][1] \/ z = Z[k][2]})

\* calcWindowSize: an even number of records of HashMapA ...
WindowA == cacheLen - (cacheLen % 2)
\* ... and of HashMapB, whose windows are counted in pairs.
WindowB == cacheLen \div 2

\* The cache is written to the file as a whole, also the records behind the
\* window.
CacheA == [y \in start..(start + cacheLen - 1) |->
             y < start + WindowA /\ WantA(y)]
CacheB == [z \in (2 * start)..(2 * start + cacheLen - 1) |->
             IF z < 2 * (start + WindowB) THEN HashedTo(z, Readable) ELSE None]

\* The records of file f after those of cache c at S have reached the disk.
Written(f, c, S) == [r \in Records |-> IF r \in S THEN c[r] ELSE f[r]]

-----------------------------------------------------------------------------
(* OpenDB, CreateDB and NewWorkSpace *)

Init ==
  /\ fileA = "absent" /\ fileB = "absent" /\ ckptA = 0 /\ ckptB = 0
  /\ dataA = [r \in Records |-> FALSE] /\ dataB = [r \in Records |-> None]
  /\ pc = "closed" /\ hasA = FALSE /\ start = 0 /\ cacheLen = 0
  /\ stops = 0 /\ crashes = 0

plotted == ckptB >= half

\* OpenDB loads HashMapB, and HashMapA unless HashMapB is complete.
OpenDB ==
  /\ pc = "closed" /\ fileB = "made" /\ (plotted \/ fileA = "made")
  /\ pc' = "idle" /\ hasA' = ~plotted
  /\ UNCHANGED <<files, start, cacheLen, stops, crashes>>

\* A file without a header is an error, and nothing repairs it.
Torn == fileB = "torn" \/ (fileB = "made" /\ ~plotted /\ fileA = "torn")
OpenFails == pc = "closed" /\ Torn /\ UNCHANGED vars

\* OpenDB answers ErrDBDoesNotExist, so CreateDB follows: HashMapA first.
CreateNeeded ==
  fileB = "absent" \/ (fileB = "made" /\ ~plotted /\ fileA = "absent")

CreateDB ==
  /\ pc = "closed" /\ CreateNeeded
  /\ pc' = "createA"
  /\ UNCHANGED <<files, hasA, start, cacheLen, stops, crashes>>

\* createMapFile leaves an existing file alone.
createMapFileA ==
  /\ pc = "createA" /\ pc' = "createB"
  /\ IF fileA = "absent"
     THEN /\ fileA' = "made" /\ ckptA' = 0 /\ dataA' = [r \in Records |-> FALSE]
     ELSE UNCHANGED <<fileA, ckptA, dataA>>
  /\ UNCHANGED <<fileB, ckptB, dataB, hasA, start, cacheLen, stops, crashes>>

createMapFileB ==
  /\ pc = "createB" /\ pc' = "load"
  /\ IF fileB = "absent"
     THEN /\ fileB' = "made" /\ ckptB' = 0 /\ dataB' = [r \in Records |-> None]
     ELSE UNCHANGED <<fileB, ckptB, dataB>>
  /\ UNCHANGED <<fileA, ckptA, dataA, hasA, start, cacheLen, stops, crashes>>

\* CreateDB loads both files; a torn one is an error.
LoadCreated ==
  /\ pc = "load"
  /\ IF fileA = "made" /\ fileB = "made" THEN pc' = "idle" /\ hasA' = TRUE
                                         ELSE pc' = "closed" /\ UNCHANGED hasA
  /\ UNCHANGED <<files, start, cacheLen, stops, crashes>>

-----------------------------------------------------------------------------
(* Plot and executePlot *)

\* Plot starts executePlot; prePlotWork reads its checkpoint.
Plot ==
  /\ pc = "idle" /\ hasA
  /\ pc' = "A" /\ start' = ckptA
  /\ UNCHANGED <<files, hasA, cacheLen, stops, crashes>>

\* makeAvailableMemory: the cache is as large as the rest of the map, or less.
MemoryFor(rest) == {rest} \cup {m \in Memory : m < rest}

\* The checkpoint is moved before the window is on disk.
CheckpointFirst ==
  /\ pc = "A" /\ start < volume
  /\ cacheLen' \in MemoryFor(volume - start)
  /\ pc' = "writeA" /\ ckptA' = start + 1
  /\ UNCHANGED <<fileA, fileB, ckptB, dataA, dataB, hasA, start, stops, crashes>>
\* A pass over all x fills the cache of [start, start + WindowA).
PrePlotWindow ==
  /\ pc = "A" /\ start < volume
  /\ cacheLen' \in MemoryFor(volume - start)
  /\ pc' = "writeA"
  /\ UNCHANGED <<files, hasA, start, stops, crashes>>

MemoryNotEnough ==
  /\ Memory # {} /\ \/ pc = "A" /\ start < volume
                    \/ pc = "B" /\ start < half
  /\ stops < MaxStops /\ stops' = stops + 1
  /\ pc' = "idle"
  /\ UNCHANGED <<files, hasA, start, cacheLen, crashes>>

\* The cache is written and synced ...
WriteA ==
  /\ pc = "writeA" /\ pc' = "ckptA"
  /\ dataA' = Written(dataA, CacheA, DOMAIN CacheA)
  /\ UNCHANGED <<fileA, fileB, ckptA, ckptB, dataB, hasA, start, cacheLen, stops,
                 crashes>>

\* ... and then the checkpoint, one past the START of the window.
CheckpointA ==
  /\ pc = "ckptA" /\ pc' = "A"
  /\ ckptA' = start + 1
  /\ start' = start + WindowA
  /\ UNCHANGED <<fileA, fileB, ckptB, dataA, dataB, hasA, cacheLen, stops,
                 crashes>>

\* prePlotWork is done; plotWork reads its own checkpoint.
PrePlotDone ==
  /\ pc = "A" /\ start >= volume
  /\ ckptA' = volume
  /\ pc' = "B" /\ start' = ckptB
  /\ UNCHANGED <<fileA, fileB, ckptB, dataA, dataB, hasA, cacheLen, stops, crashes>>

\* A pass over all pairs fills the cache of the next window of HashMapB.
PlotWindow ==
  /\ pc = "B" /\ start < half
  /\ cacheLen' \in MemoryFor(2 * (half - start))
  /\ pc' = "writeB"
  /\ UNCHANGED <<files, hasA, start, stops, crashes>>

WriteB ==
  /\ pc = "writeB" /\ pc' = "ckptB"
  /\ dataB' = Written(dataB, CacheB, DOMAIN CacheB)
  /\ UNCHANGED <<fileA, fileB, ckptA, ckptB, dataA, hasA, start, cacheLen, stops,
                 crashes>>

\* The checkpoint one past the end of the window.
CheckpointTooFar ==
  /\ pc = "ckptB" /\ pc' = "B"
  /\ ckptB' = start + WindowB + 1
  /\ start' = start + WindowB
  /\ UNCHANGED <<fileA, fileB, ckptA, dataA, dataB, hasA, cacheLen, stops,
                 crashes>>
WindowNotMoved ==
  /\ pc = "ckptB" /\ pc' = "B"
  /\ ckptB' = start + 1
  /\ UNCHANGED <<fileA, fileB, ckptA, dataA, dataB, hasA, start, cacheLen, stops,
                 crashes>>
CheckpointB ==
  /\ pc = "ckptB" /\ pc' = "B"
  /\ ckptB' = start + 1
  /\ start' = start + WindowB
  /\ UNCHANGED <<fileA, fileB, ckptA, dataA, dataB, hasA, cacheLen, stops,
                 crashes>>

PlotDone ==
  /\ pc = "B" /\ start >= half
  /\ ckptB' = half
  /\ pc' = "removeA"
  /\ UNCHANGED <<fileA, fileB, ckptA, dataA, dataB, hasA, start, cacheLen, stops,
                 crashes>>

RemoveAlways ==
  /\ pc \in {"B", "removeA"} /\ pc' = "idle"
  /\ fileA' = "absent" /\ hasA' = FALSE
  /\ UNCHANGED <<fileB, ckptA, ckptB, dataA, dataB, start, cacheLen, stops,
                 crashes>>
\* executePlot removes HashMapA.
RemoveA ==
  /\ pc = "removeA" /\ pc' = "idle"
  /\ fileA' = "absent" /\ hasA' = FALSE
  /\ UNCHANGED <<fileB, ckptA, ckptB, dataA, dataB, start, cacheLen, stops,
                 crashes>>

\* StopPlot takes effect during a pass, or between two blocks of a write: then a
\* part of the cache has been written.
StopPlot ==
  /\ stops < MaxStops /\ stops' = stops + 1
  /\ pc' = "idle"
  /\ \/ pc \in {"A", "B"} /\ UNCHANGED <<dataA, dataB>>
     \/ /\ pc = "writeA"
        /\ \E n \in 0..(cacheLen - 1) :
             dataA' = Written(dataA, CacheA, start..(start + n - 1))
        /\ UNCHANGED dataB
     \/ /\ pc = "writeB"
        /\ \E n \in 0..(cacheLen - 1) :
             dataB' = Written(dataB, CacheB, (2 * start)..(2 * start + n - 1))
        /\ UNCHANGED dataA
  /\ UNCHANGED <<fileA, fileB, ckptA, ckptB, hasA, start, cacheLen, crashes>>

-----------------------------------------------------------------------------
(* Delete, Close and crashes *)

\* Delete removes HashMapA only if it was loaded.
Delete ==
  /\ pc = "idle" /\ pc' = "deleteB"
  /\ fileA' = IF hasA THEN "absent" ELSE fileA
  /\ hasA' = FALSE
  /\ UNCHANGED <<fileB, ckptA, ckptB, dataA, dataB, start, cacheLen, stops,
                 crashes>>

DeleteB ==
  /\ pc = "deleteB" /\ pc' = "deleted"
  /\ fileB' = "absent" /\ ckptB' = 0 /\ dataB' = [r \in Records |-> None]
  /\ UNCHANGED <<fileA, ckptA, dataA, hasA, start, cacheLen, stops, crashes>>

Close ==
  /\ pc \in {"idle", "deleted"} /\ pc' = "closed" /\ hasA' = FALSE
  /\ UNCHANGED <<files, start, cacheLen, stops, crashes>>

Down == pc' = "closed" /\ hasA' = FALSE /\ crashes' = crashes + 1

\* The process or the machine dies; of a write that was not synced any part may
\* have reached the disk, and a file being created may be left without header.
Crash ==
  /\ pc # "closed" /\ crashes < MaxCrashes
  /\ Down
  /\ CASE pc = "writeA" -> /\ \E S \in SUBSET (DOMAIN CacheA) :
                                dataA' = Written(dataA, CacheA, S)
                           /\ UNCHANGED <<fileA, fileB, dataB>>
       [] pc = "writeB" -> /\ \E S \in SUBSET (DOMAIN CacheB) :
                                dataB' = Written(dataB, CacheB, S)
                           /\ UNCHANGED <<fileA, fileB, dataA>>
       [] pc = "createA" -> /\ fileA' \in {fileA, IF fileA = "absent"
                                                  THEN "torn" ELSE fileA}
                            /\ UNCHANGED <<fileB, dataA, dataB>>
       [] pc = "createB" -> /\ fileB' \in {fileB, IF fileB = "absent"
                                                  THEN "torn" ELSE fileB}
                            /\ UNCHANGED <<fileA, dataA, dataB>>
       [] OTHER -> UNCHANGED <<fileA, fileB, dataA, dataB>>
  /\ UNCHANGED <<ckptA, ckptB, start, cacheLen, stops>>

Load == OpenDB \/ OpenFails \/ CreateDB \/ createMapFileA \/ createMapFileB \/ LoadCreated

executePlot ==
  \/ PrePlotWindow \/ WriteA \/ CheckpointA \/ PrePlotDone
  \/ PlotWindow \/ WriteB \/ CheckpointB \/ PlotDone \/ RemoveA

Next ==
  \/ Load \/ Plot \/ executePlot \/ MemoryNotEnough \/ StopPlot
  \/ Delete \/ DeleteB \/ Close \/ Crash

Spec == Init /\ [][Next]_vars

\* The space is opened whenever it is closed, plotted whenever it is idle, and
\* the plotting goroutine runs.
FairSpec ==
  /\ Spec
  /\ WF_vars(Load) /\ SF_vars(Plot) /\ WF_vars(executePlot)

-----------------------------------------------------------------------------
(* Properties *)

\* Types of the files and of the process's state.
TypeOK ==
  /\ fileA \in {"absent", "torn", "made"} /\ fileB \in {"absent", "torn", "made"}
  /\ ckptA \in 0..volume /\ ckptB \in 0..half
  /\ dataA \in [Records -> BOOLEAN] /\ dataB \in [Records -> Pairs \cup {None}]
  /\ pc \in {"closed", "createA", "createB", "load", "idle", "A", "writeA",
             "ckptA", "B", "writeB", "ckptB", "removeA", "deleteB", "deleted"}
  /\ hasA \in BOOLEAN /\ start \in 0..volume /\ cacheLen \in 0..(2 * volume)
  /\ stops \in 0..MaxStops /\ crashes \in 0..MaxCrashes

\* "write pre-plot data first ... then write new checkpoint" (plot.go): whatever
\* was interrupted, the records of HashMapA below the checkpoint in the file are
\* the ones prePlotWork has to compute.  The last record is the exception:
\* a plot resumed at an odd checkpoint may leave it out (PlotEnds).
PrePlotCheckpointed ==
  fileA = "made" =>
    \A y \in 0..(ckptA - 1) : y # volume - 1 => dataA[y] = WantA(y)

\* The pairs of a complete HashMapA.
FullPairs == {k \in Pairs : WantA(2 * k) /\ WantA(2 * k + 1)}

\* "write plot data first ... then update checkpoint" (plot.go): the records of
\* HashMapB below the checkpoint hold the pairs of the complete HashMapA, also
\* those written before an interruption; after one the last pair may be missing,
\* as above.  A plot that nothing interrupted has all its proofs.
PlotCheckpointed ==
  fileB = "made" =>
    \A z \in 0..(2 * ckptB - 1) :
      \/ dataB[z] = HashedTo(z, FullPairs)
      \/ crashes + stops > 0 /\ dataB[z] = HashedTo(z, FullPairs \ {half - 1})

\* Whatever lies below a checkpoint of prePlotWork or plotWork is complete.
Checkpointed == PrePlotCheckpointed /\ PlotCheckpointed

\* HashMapA is given up only when HashMapB is complete or the space is deleted:
\* no crash leaves a half plotted HashMapB without the file it is made from.
SourceKept ==
  [][fileA = "made" /\ fileA' = "absent" => plotted \/ pc' = "deleteB"]_vars

\* "registered -> plotting -> ready" (PlotWS): once prePlotWork is done the space
\* becomes ready, however often plotWork is stopped and resumed, or is deleted.
PlotFinishes == pc = "B" ~> (plotted \/ pc = "deleteB")

\* "PlotWS should make workSpace state conversion happen like: registered ->
\* plotting -> ready" (capacity.go): a plot that is started ends, ready, stopped
\* or crashed.
PlotEnds == pc = "A" ~> pc \in {"idle", "closed"}
=============================================================================
