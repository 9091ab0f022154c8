---------------------------- MODULE SpaceKeeper ----------------------------
(***************************************************************************)
(* The space keeper of poc/engine/spacekeeper/capacity: the work spaces and *)
(* their states, the plotting queue, the plotter goroutine, its monitors,   *)
(* the plotting threads of the spaces (sktdb.v1: Plot, StopPlot), and the   *)
(* calls that the API makes on them while the service starts, runs, stops   *)
(* and is configured.                                                       *)
(*                                                                          *)
(* A step is the code between two points where another goroutine can        *)
(* interfere: an acquisition of stateLock, a channel operation, an atomic   *)
(* load or swap, a read of the queue.                                       *)
(***************************************************************************)
EXTENDS Naturals, Sequences, FiniteSets, Bags, SequencesExt

CONSTANTS
    Spaces,      \* the indexed work spaces
    Priority,    \* [Spaces -> Nat]: queuedWorkSpace.priority, distinct
    Callers,     \* threads that call the service
    Plotters,    \* goroutines that Start may have launched
    ChanSize,    \* plotterMaxChanSize
    MaxMonitors, \* bound: monitors of one plotter not yet scheduled out
    Workloads    \* what the environment may do: [ops: the calls made, by: the
                 \* threads that make them, left: bound on their number,
                 \* fails: whether plotting may end before it is complete]

Ops == {"plot", "mine", "stop", "remove", "delete", "start", "halt", "configure"}

ASSUME SpaceKeeperAssumption ==
    /\ IsFiniteSet(Spaces)
    /\ Priority \in [Spaces -> Nat]
    /\ \A s, t \in Spaces : s # t => Priority[s] # Priority[t]
    /\ Workloads \subseteq [ops : SUBSET Ops, by : SUBSET Callers, left : Nat, fails : BOOLEAN]
    /\ ChanSize \in Nat \ {0}

VARIABLES
    index,    \* workSpaceIndex and WorkSpace.state; "gone" once deleted
    using,    \* the spaces with WorkSpace.using, which are those of workSpaceList
    queue,    \* plotterQueue: a bag of queued work spaces
    popped,   \* poppedItem: the plotter whose item it is, or "nil"
    newCh,    \* newQueuedWorkSpaceCh
    service,  \* [started, operating, quit, configuring] of the service
    plotter,  \* each plotter's place and its item qws
    mon,      \* each plotter's monitors
    db,       \* each space's SktDBV1: plotting, stopPlotCh, executePlot, Progress() = 100
    call,     \* each caller's place, operation and space
    calls,    \* the workload, with the number of calls that are left
    panic,    \* why the process died, or "no"
    stopped   \* spaces for which a StopWS has returned and that nobody asked for since

vars == <<index, using, queue, popped, newCh, service, plotter, mon, db, call, calls, panic, stopped>>

None == "none"
Items == [ws : Spaces, wouldMining : BOOLEAN]

newQueuedWorkSpace(s, mining) == [ws |-> s, wouldMining |-> mining]

TypeOK ==
    /\ index \in [Spaces -> {"registered", "plotting", "ready", "mining", "gone"}]
    /\ using \subseteq Spaces
    /\ IsABag(queue) /\ DOMAIN queue \subseteq Items
    /\ popped \in Plotters \cup {"nil"}
    /\ newCh \in Seq(Items) /\ Len(newCh) <= ChanSize
    /\ service \in [started : BOOLEAN, operating : BOOLEAN, quit : BOOLEAN, configuring : BOOLEAN]
    /\ plotter \in [Plotters -> [pc : {"off", "spawned", "check", "pop", "step1", "plot", "make",
                                       "plotting", "step3", "wait", "drain", "exit"},
                                 qws : [ws : Spaces \cup {None}, wouldMining : BOOLEAN]]]
    /\ mon \in [Plotters -> Seq([ws : Spaces, killed : BOOLEAN, pc : {"select", "close", "wait"}])]
    /\ db \in [Spaces -> [plotting : BOOLEAN, stopCh : {"nil", "open", "closed"},
                          exec : {"idle", "running", "sent"}, done : BOOLEAN, files : BOOLEAN]]
    /\ call \in [Callers -> [pc : {"idle", "send", "close", "wait", "starting", "stopping",
                                   "checked", "filled"},
                             op : Ops \cup {None}, ws : Spaces \cup {None}]]
    /\ \E w \in Workloads : \E n \in 0..w.left : calls = [w EXCEPT !.left = n]
    /\ panic \in {"no", "closed channel", "empty queue", "nil item"}
    /\ stopped \subseteq Spaces

(***************************************************************************)
(* NewSpaceKeeperV1: the spaces found on disk are Ready when plotted and    *)
(* Registered otherwise; the configuration of the command line uses them    *)
(* all and queues them when plotting or mining is asked for.                *)
(***************************************************************************)
Init ==
    /\ index \in [Spaces -> {"registered", "ready"}]
    /\ using = Spaces
    /\ queue \in {EmptyBag} \cup
                 {SetToBag({newQueuedWorkSpace(s, m) : s \in Spaces}) : m \in BOOLEAN}
    /\ popped = "nil"
    /\ newCh = <<>>
    /\ service = [started |-> FALSE, operating |-> FALSE, quit |-> FALSE, configuring |-> FALSE]
    /\ plotter = [p \in Plotters |-> [pc |-> "off", qws |-> newQueuedWorkSpace(None, FALSE)]]
    /\ mon = [p \in Plotters |-> <<>>]
    /\ db = [s \in Spaces |-> [plotting |-> FALSE, stopCh |-> "nil", exec |-> "idle",
                               done |-> index[s] = "ready", files |-> TRUE]]
    /\ call = [c \in Callers |-> [pc |-> "idle", op |-> None, ws |-> None]]
    /\ calls \in Workloads
    /\ panic = "no"
    /\ stopped = {}

Alive == panic = "no"

-----------------------------------------------------------------------------
(* stateLock. A call gives it up before it returns, except while it waits   *)
(* for room in the channel or for a plotting thread to end.                 *)

WriteLocked == \E c \in Callers : \/ call[c].pc \in {"close", "wait"}
                                  \/ call[c].pc = "send" /\ call[c].op = "mine"

ReadLocked == \E c \in Callers : call[c].pc = "send" /\ call[c].op = "plot"

(* Mutant: the slot of the deleted item stays. *)
DeletedLeavesSlot(q, s) == [i \in DOMAIN q |-> IF i.ws = s THEN 0 ELSE q[i]]

(* plotterQueue.Delete *)
Deleted(q, s) == [i \in {j \in DOMAIN q : j.ws # s} |-> q[i]]

(* plotterQueue.PopItem returns an item of the greatest priority *)
Greatest(q) == {i \in DOMAIN q : \A j \in DOMAIN q : Priority[j.ws] <= Priority[i.ws]}

Return(c) == call' = [call EXCEPT ![c] = [pc |-> "idle", op |-> None, ws |-> None]]

At(c, pc, op, s) == call' = [call EXCEPT ![c] = [pc |-> pc, op |-> op, ws |-> s]]

Arrive(c, op) ==
    /\ Alive
    /\ op \in calls.ops /\ c \in calls.by
    /\ call[c].pc = "idle"
    /\ calls.left > 0
    /\ calls' = [calls EXCEPT !.left = @ - 1]

(* A call on a space that is not in use returns ErrWorkSpaceDoesNotExist.   *)
Known(s) == index[s] # "gone" /\ s \in using

keeperVars == <<service, plotter, mon, db>>

(***************************************************************************)
(* PlotWS and MineWS on a Registered space send it to the plotter, and wait *)
(* for room in the channel with stateLock held (PlotWS for reading only).   *)
(***************************************************************************)
Enqueue(c, op, s) ==
    /\ index[s] = "registered"
    /\ stopped' = stopped \ {s}
    /\ IF Len(newCh) < ChanSize
         THEN newCh' = Append(newCh, newQueuedWorkSpace(s, op = "mine")) /\ UNCHANGED call
         ELSE At(c, "send", op, s) /\ UNCHANGED newCh
    /\ UNCHANGED <<index, using, queue, popped, panic, keeperVars>>

(* The blocked send goes through once the plotter has made room. *)
Send(c) ==
    /\ Alive
    /\ call[c].pc = "send"
    /\ Len(newCh) < ChanSize
    /\ newCh' = Append(newCh, newQueuedWorkSpace(call[c].ws, call[c].op = "mine"))
    /\ Return(c)
    /\ UNCHANGED <<index, using, queue, popped, keeperVars, calls, panic, stopped>>

(***************************************************************************)
(* PlotWS and MineWS on a Plotting space change wouldMining of the popped   *)
(* item, the very record that the plotter holds.                            *)
(***************************************************************************)
WouldMine(s, mining) ==
    /\ index[s] = "plotting"
    /\ stopped' = stopped \ {s}
    /\ IF popped = "nil"
         THEN panic' = "nil item" /\ UNCHANGED plotter
         ELSE /\ plotter' = IF plotter[popped].qws.ws = s
                              THEN [plotter EXCEPT ![popped].qws.wouldMining = mining]
                              ELSE plotter
              /\ UNCHANGED panic
    /\ UNCHANGED <<index, using, queue, popped, newCh, service, mon, db, call>>

PlotWS(c, s) ==
    /\ Arrive(c, "plot")
    /\ ~WriteLocked
    /\ Known(s)
    /\ \/ Enqueue(c, "plot", s)
       \/ WouldMine(s, FALSE)

MineWS(c, s) ==
    /\ Arrive(c, "mine")
    /\ ~WriteLocked /\ ~ReadLocked
    /\ Known(s)
    /\ \/ Enqueue(c, "mine", s)
       \/ WouldMine(s, TRUE)
       \/ /\ index[s] = "ready"
          /\ index' = [index EXCEPT ![s] = "mining"]
          /\ stopped' = stopped \ {s}
          /\ UNCHANGED <<using, queue, popped, newCh, keeperVars, call, panic>>

(***************************************************************************)
(* StopWS takes the space out of the queue. If it is being plotted it asks  *)
(* the thread to stop, and waits for it with stateLock held.                *)
(***************************************************************************)
StopWS(c, s) ==
    /\ Arrive(c, "stop")
    /\ ~WriteLocked /\ ~ReadLocked
    /\ Known(s)
    /\ queue' = Deleted(queue, s)
    /\ \/ /\ index[s] = "plotting"
          /\ popped = "nil"
          /\ panic' = "nil item"
          /\ UNCHANGED <<index, plotter, call, stopped>>
       \/ /\ index[s] = "plotting"
          /\ popped # "nil"
          /\ plotter[popped].qws.ws # s    \* ErrWorkSpaceIsNotPlotting
          /\ UNCHANGED <<index, plotter, call, panic, stopped>>
       \/ /\ index[s] = "plotting"
          /\ popped # "nil"
          /\ plotter[popped].qws.ws = s
          /\ plotter' = [plotter EXCEPT ![popped].qws.wouldMining = FALSE]
          /\ IF db[s].plotting
               THEN At(c, "close", "stop", s) /\ UNCHANGED stopped
               ELSE stopped' = stopped \cup {s} /\ UNCHANGED call
          /\ UNCHANGED <<index, panic>>
       \/ /\ index[s] # "plotting"
          /\ index' = IF index[s] = "mining" THEN [index EXCEPT ![s] = "ready"] ELSE index
          /\ stopped' = stopped \cup {s}
          /\ UNCHANGED <<plotter, call, panic>>
    /\ UNCHANGED <<using, popped, newCh, service, mon, db>>

(***************************************************************************)
(* StopPlot's goroutine closes stopPlotCh, which panics unless it is open,  *)
(* then waits for executePlot to return.                                    *)
(***************************************************************************)
CloseStopPlotCh(s) ==
    /\ db' = [db EXCEPT ![s].stopCh = "closed"]
    /\ panic' = IF db[s].stopCh = "open" THEN panic ELSE "closed channel"

StopWSClose(c) ==
    /\ Alive
    /\ call[c].pc = "close"
    /\ CloseStopPlotCh(call[c].ws)
    /\ At(c, "wait", "stop", call[c].ws)
    /\ UNCHANGED <<index, using, queue, popped, newCh, service, plotter, mon, calls, stopped>>

StopWSReturn(c) ==
    /\ Alive
    /\ call[c].pc = "wait"
    /\ db[call[c].ws].exec = "idle"
    /\ stopped' = stopped \cup {call[c].ws}
    /\ Return(c)
    /\ UNCHANGED <<index, using, queue, popped, newCh, keeperVars, calls, panic>>

(***************************************************************************)
(* RemoveWS stops using a Registered or Ready space. DeleteWS also drops it *)
(* from the index, and deletes its files unless its database is plotting.   *)
(***************************************************************************)
RemoveWS(c, s) ==
    /\ Arrive(c, "remove")
    /\ ~WriteLocked /\ ~ReadLocked
    /\ Known(s)
    /\ queue' = Deleted(queue, s)
    /\ using' = IF index[s] \in {"registered", "ready"} THEN using \ {s} ELSE using
    /\ UNCHANGED <<index, popped, newCh, keeperVars, call, panic, stopped>>

DeleteWS(c, s) ==
    /\ Arrive(c, "delete")
    /\ ~WriteLocked /\ ~ReadLocked
    /\ Known(s)
    /\ queue' = Deleted(queue, s)
    /\ IF index[s] \in {"registered", "ready"}
         THEN /\ index' = [index EXCEPT ![s] = "gone"]
              /\ using' = using \ {s}
              /\ db' = [db EXCEPT ![s].files = @ /\ db[s].plotting]
         ELSE UNCHANGED <<index, using, db>>
    /\ UNCHANGED <<popped, newCh, service, plotter, mon, call, panic, stopped>>

-----------------------------------------------------------------------------
(* The service: BaseService.Start and Stop with the keeper's OnStart and    *)
(* OnStop.                                                                  *)

Start(c) ==
    /\ Arrive(c, "start")
    /\ ~service.operating /\ ~service.started
    /\ \E p \in Plotters :
         /\ plotter[p].pc = "off"
         /\ plotter' = [plotter EXCEPT ![p].pc = "spawned"]
    /\ service' = [service EXCEPT !.operating = TRUE, !.quit = FALSE]
    /\ At(c, "starting", "start", None)
    /\ UNCHANGED <<index, using, queue, popped, newCh, mon, db, panic, stopped>>

Started(c) ==
    /\ Alive
    /\ call[c].pc = "starting"
    /\ service' = [service EXCEPT !.operating = FALSE, !.started = TRUE]
    /\ Return(c)
    /\ UNCHANGED <<index, using, queue, popped, newCh, plotter, mon, db, calls, panic, stopped>>

Stop(c) ==
    /\ Arrive(c, "halt")
    /\ ~service.operating /\ service.started
    /\ service' = [service EXCEPT !.operating = TRUE, !.quit = TRUE]
    /\ At(c, "stopping", "halt", None)
    /\ UNCHANGED <<index, using, queue, popped, newCh, plotter, mon, db, panic, stopped>>

(* Mutant: OnStop does not wait for the plotter. *)
StoppedAtOnce(c) ==
    /\ Alive
    /\ call[c].pc = "stopping"
    /\ service' = [service EXCEPT !.operating = FALSE, !.started = FALSE]
    /\ Return(c)
    /\ UNCHANGED <<index, using, queue, popped, newCh, plotter, mon, db, calls, panic, stopped>>

(* wg.Wait: a plotter that has not run yet has not been added to wg. *)
Stopped(c) ==
    /\ Alive
    /\ call[c].pc = "stopping"
    /\ \A p \in Plotters : plotter[p].pc \in {"off", "spawned"}
    /\ service' = [service EXCEPT !.operating = FALSE, !.started = FALSE]
    /\ Return(c)
    /\ UNCHANGED <<index, using, queue, popped, newCh, plotter, mon, db, calls, panic, stopped>>

(***************************************************************************)
(* Configure*: the service must not be started when the call begins. The    *)
(* list is replaced and the queue filled, then emptied because the API      *)
(* configures with neither execPlot nor execMine.                           *)
(***************************************************************************)
Configure(c) ==
    /\ Arrive(c, "configure")
    /\ ~service.started /\ ~service.configuring
    /\ service' = [service EXCEPT !.configuring = TRUE]
    /\ At(c, "checked", "configure", None)
    /\ UNCHANGED <<index, using, queue, popped, newCh, plotter, mon, db, panic, stopped>>

(* Nothing to configure is ErrSpaceKeeperConfiguredNothing. *)
applyConfiguredWorkSpaces(c) ==
    /\ Alive
    /\ call[c].pc = "checked"
    /\ \E chosen \in SUBSET {s \in Spaces : index[s] # "gone"} :
         \/ /\ chosen = {}
            /\ service' = [service EXCEPT !.configuring = FALSE]
            /\ Return(c)
            /\ UNCHANGED <<using, queue, popped>>
         \/ /\ chosen # {}
            /\ using' = chosen
            /\ queue' = SetToBag({newQueuedWorkSpace(s, FALSE) : s \in chosen})
            /\ popped' = "nil"
            /\ At(c, "filled", "configure", None)
            /\ UNCHANGED service
    /\ UNCHANGED <<index, newCh, plotter, mon, db, calls, panic, stopped>>

Configured(c) ==
    /\ Alive
    /\ call[c].pc = "filled"
    /\ queue' = EmptyBag
    /\ popped' = "nil"
    /\ service' = [service EXCEPT !.configuring = FALSE]
    /\ Return(c)
    /\ UNCHANGED <<index, using, newCh, plotter, mon, db, calls, panic, stopped>>

-----------------------------------------------------------------------------
(* spacePlotter *)

Goto(p, pc) == plotter' = [plotter EXCEPT ![p].pc = pc]

callerVars == <<using, service, call, calls, stopped>>

Launch(p) ==
    /\ Alive
    /\ plotter[p].pc = "spawned"
    /\ Goto(p, "check")
    /\ UNCHANGED <<index, queue, popped, newCh, mon, db, panic, callerVars>>

(* The loop's test of the queue, and of quit when there is something to do. *)
CheckQueue(p) ==
    /\ Alive
    /\ plotter[p].pc = "check"
    /\ Goto(p, IF queue = EmptyBag THEN "wait" ELSE IF service.quit THEN "exit" ELSE "pop")
    /\ UNCHANGED <<index, queue, popped, newCh, mon, db, panic, callerVars>>

(* Mutant: the popped item is not remembered. *)
PopItemForgets(p) ==
    /\ Alive
    /\ plotter[p].pc = "pop"
    /\ Len(mon[p]) < MaxMonitors
    /\ \E i \in Greatest(queue) :
         /\ queue' = queue (-) SetToBag({i})
         /\ plotter' = [plotter EXCEPT ![p] = [pc |-> "step1", qws |-> i]]
         /\ mon' = [mon EXCEPT ![p] = Append(@, [ws |-> i.ws, killed |-> FALSE, pc |-> "select"])]
    /\ UNCHANGED <<index, popped, newCh, db, panic, callerVars>>

(* PopItem, and the launch of the item's monitor. Popping an empty queue,   *)
(* which a Delete between the test and the pop can leave, is an index out   *)
(* of range.                                                                *)
PopItem(p) ==
    /\ Alive
    /\ plotter[p].pc = "pop"
    /\ \/ /\ queue = EmptyBag
          /\ panic' = "empty queue"
          /\ UNCHANGED <<queue, popped, plotter, mon>>
       \/ /\ Len(mon[p]) < MaxMonitors
          /\ \E i \in Greatest(queue) :
               /\ queue' = queue (-) SetToBag({i})
               /\ plotter' = [plotter EXCEPT ![p] = [pc |-> "step1", qws |-> i]]
               /\ mon' = [mon EXCEPT ![p] = Append(@, [ws |-> i.ws, killed |-> FALSE, pc |-> "select"])]
          /\ popped' = p
          /\ UNCHANGED panic
    /\ UNCHANGED <<index, newCh, db, callerVars>>

(* plotSpace has returned: close(killMonitorCh) and back to the loop. *)
Finish(p) ==
    /\ Goto(p, "check")
    /\ mon' = [mon EXCEPT ![p] = [i \in DOMAIN @ |-> IF i = Len(@) THEN [@[i] EXCEPT !.killed = TRUE]
                                                                   ELSE @[i]]]

PlotStep1(p) ==
    LET qws == plotter[p].qws IN
    /\ Alive
    /\ plotter[p].pc = "step1"
    /\ ~WriteLocked /\ ~ReadLocked
    /\ \/ /\ index[qws.ws] = "registered"
          /\ index' = [index EXCEPT ![qws.ws] = "plotting"]
          /\ Goto(p, "plot")
          /\ UNCHANGED mon
       \/ /\ index[qws.ws] # "registered"
          /\ index' = IF index[qws.ws] = "ready" /\ qws.wouldMining
                        THEN [index EXCEPT ![qws.ws] = "mining"] ELSE index
          /\ Finish(p)
    /\ UNCHANGED <<queue, popped, newCh, db, panic, callerVars>>

(* ws.Plot: ErrAlreadyPlotting, or the thread is launched. A space that is  *)
(* Registered still has its HashMapA, so Plot's second return is not met.   *)
PlotBegin(p) ==
    LET s == plotter[p].qws.ws IN
    /\ Alive
    /\ plotter[p].pc = "plot"
    /\ IF db[s].plotting
         THEN Goto(p, "step3") /\ UNCHANGED db
         ELSE Goto(p, "make") /\ db' = [db EXCEPT ![s].plotting = TRUE]
    /\ UNCHANGED <<index, queue, popped, newCh, mon, panic, callerVars>>

PlotLaunch(p) ==
    LET s == plotter[p].qws.ws IN
    /\ Alive
    /\ plotter[p].pc = "make"
    /\ db' = [db EXCEPT ![s].stopCh = "open", ![s].exec = "running"]
    /\ Goto(p, "plotting")
    /\ UNCHANGED <<index, queue, popped, newCh, mon, panic, callerVars>>

PlotReturn(p) ==
    /\ Alive
    /\ plotter[p].pc = "plotting"
    /\ db[plotter[p].qws.ws].exec # "running"
    /\ Goto(p, "step3")
    /\ UNCHANGED <<index, queue, popped, newCh, mon, db, panic, callerVars>>

(* Mutant: step 3 does not look at the progress. *)
PlotStep3Always(p) ==
    LET qws == plotter[p].qws IN
    /\ Alive
    /\ plotter[p].pc = "step3"
    /\ ~WriteLocked /\ ~ReadLocked
    /\ index' = [index EXCEPT ![qws.ws] = IF qws.wouldMining THEN "mining" ELSE "ready"]
    /\ Finish(p)
    /\ UNCHANGED <<queue, popped, newCh, db, panic, callerVars>>

PlotStep3(p) ==
    LET qws == plotter[p].qws IN
    /\ Alive
    /\ plotter[p].pc = "step3"
    /\ ~WriteLocked /\ ~ReadLocked
    /\ index' = [index EXCEPT ![qws.ws] = IF ~db[qws.ws].done THEN "registered"
                                          ELSE IF qws.wouldMining THEN "mining" ELSE "ready"]
    /\ Finish(p)
    /\ UNCHANGED <<queue, popped, newCh, db, panic, callerVars>>

(* Mutant: quit leaves the select and not the loop. *)
WaitQuitBreaks(p) ==
    /\ Alive
    /\ plotter[p].pc = "wait"
    /\ service.quit
    /\ Goto(p, "check")
    /\ UNCHANGED <<index, queue, popped, newCh, mon, db, panic, callerVars>>

(* The queue is empty: wait for quit or for a space. *)
WaitQuit(p) ==
    /\ Alive
    /\ plotter[p].pc = "wait"
    /\ service.quit
    /\ Goto(p, "exit")
    /\ UNCHANGED <<index, queue, popped, newCh, mon, db, panic, callerVars>>

(* Mutant: addSpaces pushes only the first space. *)
ReceiveFirstOnly(p) ==
    /\ Alive
    /\ plotter[p].pc \in {"wait", "drain"}
    /\ newCh # <<>>
    /\ queue' = IF plotter[p].pc = "wait" THEN queue (+) SetToBag({Head(newCh)}) ELSE queue
    /\ newCh' = Tail(newCh)
    /\ Goto(p, "drain")
    /\ UNCHANGED <<index, popped, mon, db, panic, callerVars>>

(* addSpaces: the first space, and then all that are in the channel. *)
Receive(p) ==
    /\ Alive
    /\ plotter[p].pc \in {"wait", "drain"}
    /\ newCh # <<>>
    /\ queue' = queue (+) SetToBag({Head(newCh)})
    /\ newCh' = Tail(newCh)
    /\ Goto(p, "drain")
    /\ UNCHANGED <<index, popped, mon, db, panic, callerVars>>

Drained(p) ==
    /\ Alive
    /\ plotter[p].pc = "drain"
    /\ newCh = <<>>
    /\ Goto(p, "check")
    /\ UNCHANGED <<index, queue, popped, newCh, mon, db, panic, callerVars>>

(* The plotter leaves when its monitors have, and resets the queue. *)
Exit(p) ==
    /\ Alive
    /\ plotter[p].pc = "exit"
    /\ mon[p] = <<>>
    /\ queue' = EmptyBag
    /\ popped' = "nil"
    /\ plotter' = [plotter EXCEPT ![p] = [pc |-> "off", qws |-> newQueuedWorkSpace(None, FALSE)]]
    /\ UNCHANGED <<index, newCh, mon, db, panic, callerVars>>

-----------------------------------------------------------------------------
(* The monitor of one item: StopPlot when the service quits. *)

MonitorKilled(p, i) ==
    /\ Alive
    /\ mon[p][i].pc = "select"
    /\ mon[p][i].killed
    /\ mon' = [mon EXCEPT ![p] = RemoveAt(@, i)]
    /\ UNCHANGED <<index, queue, popped, newCh, plotter, db, panic, callerVars>>

MonitorQuit(p, i) ==
    /\ Alive
    /\ mon[p][i].pc = "select"
    /\ service.quit
    /\ mon' = IF db[mon[p][i].ws].plotting THEN [mon EXCEPT ![p][i].pc = "close"]
                                           ELSE [mon EXCEPT ![p] = RemoveAt(@, i)]
    /\ UNCHANGED <<index, queue, popped, newCh, plotter, db, panic, callerVars>>

MonitorClose(p, i) ==
    /\ Alive
    /\ mon[p][i].pc = "close"
    /\ CloseStopPlotCh(mon[p][i].ws)
    /\ mon' = [mon EXCEPT ![p][i].pc = "wait"]
    /\ UNCHANGED <<index, queue, popped, newCh, plotter, callerVars>>

MonitorDone(p, i) ==
    /\ Alive
    /\ mon[p][i].pc = "wait"
    /\ db[mon[p][i].ws].exec = "idle"
    /\ mon' = [mon EXCEPT ![p] = RemoveAt(@, i)]
    /\ UNCHANGED <<index, queue, popped, newCh, plotter, db, panic, callerVars>>

(* executePlot ends: complete, or because it was stopped, or by an error. *)
ExecuteEnds(s) ==
    /\ Alive
    /\ db[s].exec = "running"
    /\ \E done \in BOOLEAN :
         /\ done \/ calls.fails \/ db[s].stopCh = "closed"
         /\ db' = [db EXCEPT ![s].exec = "sent", ![s].done = done]
    /\ UNCHANGED <<index, queue, popped, newCh, plotter, mon, panic, callerVars>>

(* Its deferred function has sent the result, and clears plotting. *)
ExecuteDone(s) ==
    /\ Alive
    /\ db[s].exec = "sent"
    /\ db' = [db EXCEPT ![s].exec = "idle", ![s].plotting = FALSE]
    /\ UNCHANGED <<index, queue, popped, newCh, plotter, mon, panic, callerVars>>

-----------------------------------------------------------------------------
(* Nothing is left to do: the process has died, or no call is in progress   *)
(* and the plotter, if any, waits for the next one.                         *)
AtRest ==
    /\ \/ ~Alive
       \/ /\ \A c \in Callers : call[c].pc = "idle"
          /\ \A p \in Plotters : plotter[p].pc \in {"off", "wait"}
    /\ UNCHANGED vars

Caller(c) ==
    \/ \E s \in Spaces : PlotWS(c, s) \/ MineWS(c, s) \/ StopWS(c, s) \/ RemoveWS(c, s) \/ DeleteWS(c, s)
    \/ Start(c) \/ Stop(c) \/ Configure(c)

Continue(c) ==
    \/ Send(c) \/ StopWSClose(c) \/ StopWSReturn(c)
    \/ Started(c) \/ Stopped(c)
    \/ applyConfiguredWorkSpaces(c) \/ Configured(c)

Plotter(p) ==
    \/ Launch(p) \/ CheckQueue(p) \/ PopItem(p)
    \/ PlotStep1(p) \/ PlotBegin(p) \/ PlotLaunch(p) \/ PlotReturn(p) \/ PlotStep3(p)
    \/ WaitQuit(p) \/ Receive(p) \/ Drained(p) \/ Exit(p)

Monitor(p) ==
    \E i \in DOMAIN mon[p] :
        MonitorKilled(p, i) \/ MonitorQuit(p, i) \/ MonitorClose(p, i) \/ MonitorDone(p, i)

Execute(s) == ExecuteEnds(s) \/ ExecuteDone(s)

Next ==
    \/ \E c \in Callers : Caller(c) \/ Continue(c)
    \/ \E p \in Plotters : Plotter(p) \/ Monitor(p)
    \/ \E s \in Spaces : Execute(s)
    \/ AtRest

Spec == Init /\ [][Next]_vars

(* Every goroutine that can run is run by the Go scheduler; nobody has to   *)
(* call.                                                                    *)
FairSpec ==
    /\ Spec
    /\ \A c \in Callers : WF_vars(Continue(c))
    /\ \A p \in Plotters : WF_vars(Plotter(p)) /\ WF_vars(Monitor(p))
    /\ \A s \in Spaces : WF_vars(Execute(s))
-----------------------------------------------------------------------------
(* Properties *)

(* A space that is Ready or Mining has been plotted completely, and one     *)
(* that is Registered has not: what the miner asks for proofs is always a   *)
(* finished plot, however plots were stopped, failed or overlapped          *)
(* (plotSpace, steps 1 and 3).                                              *)
StateMatchesProgress ==
    \A s \in Spaces : /\ index[s] \in {"ready", "mining"} => db[s].done
                      /\ index[s] = "registered" => ~db[s].done

(* A space that is Plotting is the item that was popped last, so the calls  *)
(* that look for it in PoppedItem find it (PlotWS, MineWS, StopWS: "known   *)
(* that there's no more than one plotting workSpace at the same time").     *)
PlottingIsPopped ==
    \A s \in Spaces : index[s] = "plotting" => popped # "nil" /\ plotter[popped].qws.ws = s

(* When Stop has returned, no space is being plotted (OnStop waits for the  *)
(* plotter, which waits for its monitors), and a deleted space is never     *)
(* plotted, though it may still be in the channel or popped (DeleteWS, and  *)
(* the test of Registered in plotSpace).                                    *)
StoppedMeansQuiet ==
    \A s \in Spaces :
        /\ ~service.started /\ ~service.operating => index[s] # "plotting" /\ db[s].exec # "running"
        /\ index[s] = "gone" => db[s].exec # "running"

Waiting(s) == \E m \in BOOLEAN :
    \/ newQueuedWorkSpace(s, m) \in DOMAIN queue
    \/ \E i \in DOMAIN newCh : newCh[i] = newQueuedWorkSpace(s, m)

Withdrawn(s) == s \in stopped \/ ~Known(s) \/ ~service.started \/ ~Alive

(* A space given to the plotter of a running service is plotted in the end  *)
(* (PlotWS: "registered -> plotting -> ready"), unless somebody stops or    *)
(* takes away that space or stops the service.  A StopWS of another space   *)
(* is no excuse.                                                            *)
WaitingIsPlotted ==
    \A s \in Spaces : Waiting(s) /\ service.started ~> index[s] \in {"ready", "mining"} \/ Withdrawn(s)

(* A Stop of the service returns: the monitor of the space being plotted    *)
(* ends the plotting thread, and the plotter leaves its loop.               *)
StopReturns ==
    \A c \in Callers : call[c].pc = "stopping" ~> call[c].pc # "stopping" \/ ~Alive

=============================================================================
