---------------------------- MODULE ConsoleProofs ----------------------------
(***************************************************************************)
(* Proofs about DataTask with serialised commands, over the invariant of   *)
(* DataTaskProofs: what a stop can reach, what a join waits for, and whose *)
(* failures get_status shows.  Any number of devices and workers.          *)
(***************************************************************************)
EXTENDS DataTaskProofs

(* Works, and has not been asked to stop                                   *)
Live(w) == wpc[w] \in {"loop", "load", "query"} /\ w \notin stopRequested

(* A start goes on only where no worker is registered as active.           *)
StartsInactive ==
    \A c \in Clients :
        pc[c] \in {"startTake", "startErase", "startJoin", "startSpawn"}
            => target[c] \notin activeDevices

(* From its request on, a stop has to do with flagged workers only, or     *)
(* with one that a refused start has unregistered.                         *)
StopsReach ==
    \A c \in Clients : \A w \in Workers :
        /\ pc[c] \in {"stopTake", "stopErase", "stopJoin", "stopMark"} /\ Live(w)
               => owner[w] # target[c] \/ owner[w] \in unhooked
        /\ pc[c] \in {"stopAllTake", "stopAllJoin", "stopAllClear"} /\ Live(w)
               => owner[w] \in unhooked

Reach == RunningIsReachable /\ StartsInactive /\ StopsReach

IndReach == IndConsole /\ Reach

(* A thread collects from a device.                                        *)
OwnersAreDevices == \A w \in Workers : wpc[w] # "free" => owner[w] \in Devices

Statuses == OwnersAreDevices /\ StatusIsOwn

LEMMA InitReach == Init => Reach /\ Statuses
  BY DEF Init, Statuses, OwnersAreDevices, Reach, RunningIsReachable, StartsInactive, StopsReach,
         StatusIsOwn, Live

LEMMA NextReach ==
    IndReach /\ Serial /\ Serial' /\ [Next]_vars => Reach'
<1> SUFFICES ASSUME IndReach, Serial, Serial', [Next]_vars PROVE Reach'
  OBVIOUS
<1> USE StoreAssumption, TaskAssumption
    DEF IndReach, IndConsole, IndOwned, IndType, TypeOK, StoreTypeOK, TargetOK, InCommand,
        HandsOK, Owned, HeldLive, Holding, Console, OwnersOK, OneThread, Reach,
        RunningIsReachable, StartsInactive, StopsReach, Live, IsActive, Serial, storeVars,
        clientVars, workerVars, Goto, Becomes
<1>1. ASSUME NEW c \in Clients, NEW d \in Devices, CallStart(c, d) PROVE Reach'
  BY <1>1 DEF CallStart, Enter
<1>2. ASSUME NEW c \in Clients, NEW d \in Devices, CallStop(c, d) PROVE Reach'
  BY <1>2 DEF CallStop, Enter
<1>3. ASSUME NEW c \in Clients, DeviceCommand(c) PROVE Reach'
  BY <1>3 DEF DeviceCommand, CreateDevice, UpdateDevice, DeleteDevice
<1>4. ASSUME NEW c \in Clients, CallStartAll(c) PROVE Reach'
  BY <1>4 DEF CallStartAll
<1>5. ASSUME NEW c \in Clients, CallStopAll(c) PROVE Reach'
  <2>1. \A k \in Clients : k # c => pc[k] = "idle"
    BY <1>5 DEF CallStopAll
  <2> QED
    BY <1>5, <2>1 DEF CallStopAll, RequestStopAll, FlagOf
<1>6. ASSUME NEW c \in Clients, StartNext(c) PROVE Reach'
  BY <1>6 DEF StartNext, Enter
<1>7. ASSUME NEW c \in Clients, StartCheck(c) PROVE Reach'
  BY <1>7 DEF StartCheck
<1>8. ASSUME NEW c \in Clients, StartIsActive(c) PROVE Reach'
  BY <1>8 DEF StartIsActive, IsActive
<1>9. ASSUME NEW c \in Clients, StartTakeThread(c) PROVE Reach'
  BY <1>9 DEF StartTakeThread, TakeThread, ThreadOf
<1>10. ASSUME NEW c \in Clients, StartEraseFlag(c) PROVE Reach'
  BY <1>10 DEF StartEraseFlag, EraseStopFlag
<1>11. ASSUME NEW c \in Clients, StartJoin(c) PROVE Reach'
  BY <1>11 DEF StartJoin, Join
<1>12. ASSUME NEW c \in Clients, StartSpawn(c) PROVE Reach'
  BY <1>12 DEF StartSpawn
<1>13. ASSUME NEW c \in Clients, StartSpawnFails(c) PROVE Reach'
  BY <1>13 DEF StartSpawnFails
<1>14. ASSUME NEW c \in Clients, StartAddWorker(c) PROVE Reach'
  BY <1>14 DEF StartAddWorker, Return, AddWorker
<1>15. ASSUME NEW c \in Clients, StartAborts(c) PROVE Reach'
  BY <1>15 DEF StartAborts
<1>16. ASSUME NEW c \in Clients, StartRefused(c) PROVE Reach'
  BY <1>16 DEF StartRefused, Return, MarkStartFailed, Unregister, Running
<1>17. ASSUME NEW c \in Clients, StopNotRunning(c) PROVE Reach'
  BY <1>17 DEF StopNotRunning, Return
<1>18. ASSUME NEW c \in Clients, StopRequest(c) PROVE Reach'
  BY <1>18 DEF StopRequest, RequestStop, FlagOf, IsActive
<1>19. ASSUME NEW c \in Clients, StopTakeThread(c) PROVE Reach'
  BY <1>19 DEF StopTakeThread, TakeThread
<1>20. ASSUME NEW c \in Clients, StopEraseFlag(c) PROVE Reach'
  BY <1>20 DEF StopEraseFlag, EraseStopFlag
<1>21. ASSUME NEW c \in Clients, StopJoin(c) PROVE Reach'
  BY <1>21 DEF StopJoin, Join
<1>22. ASSUME NEW c \in Clients, StopMarkStopped(c) PROVE Reach'
  BY <1>22 DEF StopMarkStopped, Return, MarkStopped, Unregister
<1>23. ASSUME NEW c \in Clients, StopAllTakeThreads(c) PROVE Reach'
  BY <1>23 DEF StopAllTakeThreads, TakeAllThreads
<1>24. ASSUME NEW c \in Clients, StopAllJoin(c) PROVE Reach'
  BY <1>24 DEF StopAllJoin, Join
<1>25. ASSUME NEW c \in Clients, StopAllJoined(c) PROVE Reach'
  BY <1>25 DEF StopAllJoined
<1>26. ASSUME NEW c \in Clients, StopAllClearWorkers(c) PROVE Reach'
  BY <1>26 DEF StopAllClearWorkers, Return, ClearAllWorkers
<1>27. ASSUME NEW w \in Workers, WorkerTest(w) PROVE Reach'
  BY <1>27 DEF WorkerTest
<1>28. ASSUME NEW w \in Workers, WorkerLoad(w) PROVE Reach'
  BY <1>28 DEF WorkerLoad
<1>29. ASSUME NEW w \in Workers, WorkerCollected(w) PROVE Reach'
  BY <1>29 DEF WorkerCollected, SetLatestStatus
<1>30. ASSUME NEW w \in Workers, WorkerFailed(w) PROVE Reach'
  BY <1>30 DEF WorkerFailed, SetLatestStatus
<1>31. ASSUME NEW w \in Workers, WorkerMarkStopped(w) PROVE Reach'
  BY <1>31 DEF WorkerMarkStopped, MarkStopped, Unregister
<1>32. CASE UNCHANGED vars
  BY <1>32 DEF vars
<1> QED
  BY <1>1, <1>2, <1>3, <1>4, <1>5, <1>6, <1>7, <1>8, <1>9, <1>10, <1>11, <1>12, <1>13,
     <1>14, <1>15, <1>16, <1>17, <1>18, <1>19, <1>20, <1>21, <1>22, <1>23, <1>24, <1>25,
     <1>26, <1>27, <1>28, <1>29, <1>30, <1>31, <1>32
     DEF Next, Call, CommandStep, StartStep, StopStep, StopAllStep, WorkerStep

LEMMA NextStatuses ==
    IndConsole /\ Statuses /\ [Next]_vars => Statuses'
<1> SUFFICES ASSUME IndConsole /\ Statuses, [Next]_vars PROVE Statuses'
  OBVIOUS
<1> USE StoreAssumption
    DEF IndConsole, IndOwned, IndType, TypeOK, StoreTypeOK, TargetOK, InCommand,
        BelowLimit, Console, OneThread, Statuses, OwnersAreDevices, StatusIsOwn,
        storeVars, clientVars, workerVars, Goto, Becomes
<1>1. ASSUME NEW c \in Clients, NEW d \in Devices, CallStart(c, d) PROVE Statuses'
  BY <1>1 DEF CallStart, Enter
<1>2. ASSUME NEW c \in Clients, NEW d \in Devices, CallStop(c, d) PROVE Statuses'
  BY <1>2 DEF CallStop, Enter
<1>3. ASSUME NEW c \in Clients, DeviceCommand(c) PROVE Statuses'
  BY <1>3 DEF DeviceCommand, CreateDevice, UpdateDevice, DeleteDevice
<1>4. ASSUME NEW c \in Clients, CallStartAll(c) PROVE Statuses'
  BY <1>4 DEF CallStartAll
<1>5. ASSUME NEW c \in Clients, CallStopAll(c) PROVE Statuses'
  BY <1>5 DEF CallStopAll, RequestStopAll, FlagOf
<1>6. ASSUME NEW c \in Clients, StartNext(c) PROVE Statuses'
  BY <1>6 DEF StartNext, Enter
<1>7. ASSUME NEW c \in Clients, StartCheck(c) PROVE Statuses'
  BY <1>7 DEF StartCheck
<1>8. ASSUME NEW c \in Clients, StartIsActive(c) PROVE Statuses'
  BY <1>8 DEF StartIsActive, IsActive
<1>9. ASSUME NEW c \in Clients, StartTakeThread(c) PROVE Statuses'
  BY <1>9 DEF StartTakeThread, TakeThread, ThreadOf
<1>10. ASSUME NEW c \in Clients, StartEraseFlag(c) PROVE Statuses'
  BY <1>10 DEF StartEraseFlag, EraseStopFlag
<1>11. ASSUME NEW c \in Clients, StartJoin(c) PROVE Statuses'
  BY <1>11 DEF StartJoin, Join
<1>12. ASSUME NEW c \in Clients, StartSpawn(c) PROVE Statuses'
  BY <1>12 DEF StartSpawn
<1>13. ASSUME NEW c \in Clients, StartSpawnFails(c) PROVE Statuses'
  BY <1>13 DEF StartSpawnFails
<1>14. ASSUME NEW c \in Clients, StartAddWorker(c) PROVE Statuses'
  BY <1>14 DEF StartAddWorker, Return, AddWorker
<1>15. ASSUME NEW c \in Clients, StartAborts(c) PROVE Statuses'
  BY <1>15 DEF StartAborts
<1>16. ASSUME NEW c \in Clients, StartRefused(c) PROVE Statuses'
  BY <1>16 DEF StartRefused, Return, MarkStartFailed, Unregister, Running
<1>17. ASSUME NEW c \in Clients, StopNotRunning(c) PROVE Statuses'
  BY <1>17 DEF StopNotRunning, Return
<1>18. ASSUME NEW c \in Clients, StopRequest(c) PROVE Statuses'
  BY <1>18 DEF StopRequest, RequestStop, FlagOf, IsActive
<1>19. ASSUME NEW c \in Clients, StopTakeThread(c) PROVE Statuses'
  BY <1>19 DEF StopTakeThread, TakeThread
<1>20. ASSUME NEW c \in Clients, StopEraseFlag(c) PROVE Statuses'
  BY <1>20 DEF StopEraseFlag, EraseStopFlag
<1>21. ASSUME NEW c \in Clients, StopJoin(c) PROVE Statuses'
  BY <1>21 DEF StopJoin, Join
<1>22. ASSUME NEW c \in Clients, StopMarkStopped(c) PROVE Statuses'
  BY <1>22 DEF StopMarkStopped, Return, MarkStopped, Unregister
<1>23. ASSUME NEW c \in Clients, StopAllTakeThreads(c) PROVE Statuses'
  BY <1>23 DEF StopAllTakeThreads, TakeAllThreads
<1>24. ASSUME NEW c \in Clients, StopAllJoin(c) PROVE Statuses'
  BY <1>24 DEF StopAllJoin, Join
<1>25. ASSUME NEW c \in Clients, StopAllJoined(c) PROVE Statuses'
  BY <1>25 DEF StopAllJoined
<1>26. ASSUME NEW c \in Clients, StopAllClearWorkers(c) PROVE Statuses'
  BY <1>26 DEF StopAllClearWorkers, Return, ClearAllWorkers
<1>27. ASSUME NEW w \in Workers, WorkerTest(w) PROVE Statuses'
  BY <1>27 DEF WorkerTest
<1>28. ASSUME NEW w \in Workers, WorkerLoad(w) PROVE Statuses'
  BY <1>28 DEF WorkerLoad
<1>29. ASSUME NEW w \in Workers, WorkerCollected(w) PROVE Statuses'
  BY <1>29 DEF WorkerCollected, SetLatestStatus
<1>30. ASSUME NEW w \in Workers, WorkerFailed(w) PROVE Statuses'
  <2>1. /\ wpc[w] \in {"load", "query"} /\ owner[w] \in Devices /\ owner' = owner
        /\ fails' = [fails EXCEPT ![w] = fails[w] + 1]
        /\ statuses' = [statuses EXCEPT ![owner[w]] =
                            [connected |-> FALSE, failCount |-> fails[w] + 1]]
        /\ \A v \in Workers : v # w => wpc'[v] = wpc[v]
    BY <1>30 DEF WorkerFailed, SetLatestStatus
  <2>2. OwnersAreDevices'
    BY <2>1
  <2> SUFFICES ASSUME NEW v \in Workers, wpc'[v] \in {"loop", "load", "query", "leave"},
                      fails'[v] > 0
               PROVE  statuses'[owner[v]] = [connected |-> FALSE, failCount |-> fails'[v]]
    BY <2>1, <2>2
  <2>3. CASE v = w
    BY <2>1, <2>3
  <2>4. CASE v # w
    <3>1. owner[v] # owner[w]
      BY <2>1, <2>4
    <3>2. fails'[v] = fails[v] /\ statuses'[owner[v]] = statuses[owner[v]]
      BY <2>1, <2>4, <3>1
    <3> QED
      BY <2>1, <2>4, <3>2
  <2> QED
    BY <2>3, <2>4
<1>31. ASSUME NEW w \in Workers, WorkerMarkStopped(w) PROVE Statuses'
  BY <1>31 DEF WorkerMarkStopped, MarkStopped, Unregister
<1>32. CASE UNCHANGED vars
  BY <1>32 DEF vars
<1> QED
  BY <1>1, <1>2, <1>3, <1>4, <1>5, <1>6, <1>7, <1>8, <1>9, <1>10, <1>11, <1>12, <1>13,
     <1>14, <1>15, <1>16, <1>17, <1>18, <1>19, <1>20, <1>21, <1>22, <1>23, <1>24, <1>25,
     <1>26, <1>27, <1>28, <1>29, <1>30, <1>31, <1>32
     DEF Next, Call, CommandStep, StartStep, StopStep, StopAllStep, WorkerStep

-----------------------------------------------------------------------------

LEMMA ReachInvariant == Spec /\ []Serial => []IndReach
<1>1. Init => IndReach
  BY InitIndType, InitIndOwned, InitConsole, InitReach DEF IndReach, IndConsole, IndOwned
<1>2. IndReach /\ Serial /\ Serial' /\ [Next]_vars => IndReach'
  <2>1. IndReach /\ Serial /\ [Next]_vars => IndConsole'
    BY NextIndType, NextIndOwned, NextConsole DEF IndReach, IndConsole, IndOwned
  <2> QED
    BY <2>1, NextReach DEF IndReach
<1> QED
  BY <1>1, <1>2, PTL DEF Spec

(* A worker that runs unasked is registered where stop_device_collect and  *)
(* stop_all look for it, from addWorker to its own markStopped, unless     *)
(* markStartFailed was called for its device.                              *)
THEOREM SerialReachesWorkers == Spec /\ []Serial => []RunningIsReachable
<1>1. IndReach => RunningIsReachable
  BY DEF IndReach, Reach
<1> QED
  BY <1>1, ReachInvariant, PTL

(* A join in startDeviceCollect, stopDeviceCollect or stopAll waits for a  *)
(* worker that has been asked to stop or has given up, with the same       *)
(* exception.                                                              *)
THEOREM SerialJoinsOnlyStopping == Spec /\ []Serial => []JoinsOnlyStopping
<1>1. IndReach => JoinsOnlyStopping
  <2> SUFFICES ASSUME IndReach, NEW c \in Clients, NEW w \in held[c],
                      pc[c] \in {"startJoin", "stopJoin", "stopAllJoin"},
                      w \notin stopRequested, wpc[w] \notin {"leave", "done"}
               PROVE  owner[w] \in unhooked
    BY DEF JoinsOnlyStopping
  <2>1. w \in Workers /\ Live(w)
    BY DEF IndReach, IndConsole, IndOwned, IndType, TypeOK, Owned, HeldLive, Live, WorkerPc
  <2>2. CASE pc[c] \in {"stopJoin", "stopAllJoin"}
    BY <2>1, <2>2 DEF IndReach, Reach, StopsReach, IndConsole, Console, OwnersOK
  <2>3. CASE pc[c] = "startJoin"
    <3>1. owner[w] = target[c] /\ target[c] \notin activeDevices
      BY <2>3 DEF IndReach, Reach, StartsInactive, IndConsole, Console, OwnersOK
    <3>2. \A k \in Clients : w \in held[k] => k = c
      BY <2>1 DEF IndReach, IndConsole, IndOwned, Owned, OneHolder
    <3> QED
      BY <2>1, <2>3, <3>1, <3>2 DEF IndReach, Reach, RunningIsReachable, IsActive, Live
  <2> QED
    BY <2>2, <2>3
<1> QED
  BY <1>1, ReachInvariant, PTL

(* The failure count that get_status shows for a device is that of the     *)
(* worker that is counting.                                                *)
THEOREM SerialStatusIsOwn == Spec /\ []Serial => []StatusIsOwn
<1>1. Init => IndConsole /\ Statuses
  BY InitIndType, InitIndOwned, InitConsole, InitReach DEF IndConsole, IndOwned
<1>2. IndConsole /\ Statuses /\ Serial /\ [Next]_vars => (IndConsole /\ Statuses)'
  BY NextIndType, NextIndOwned, NextConsole, NextStatuses DEF IndConsole, IndOwned
<1>3. Statuses => StatusIsOwn
  BY DEF Statuses
<1> QED
  BY <1>1, <1>2, <1>3, PTL DEF Spec

-----------------------------------------------------------------------------
(* The console is the case of a single client.  It reaches its workers,    *)
THEOREM ConsoleReachesWorkers ==
    ASSUME \A c, k \in Clients : c = k
    PROVE  Spec => []RunningIsReachable
  BY OneClientIsSerial, SerialReachesWorkers, PTL

(* waits for none that is not stopping,                                    *)
THEOREM ConsoleJoinsOnlyStopping ==
    ASSUME \A c, k \in Clients : c = k
    PROVE  Spec => []JoinsOnlyStopping
  BY OneClientIsSerial, SerialJoinsOnlyStopping, PTL

(* and shows no worker's failures as another's.                            *)
THEOREM ConsoleStatusIsOwn ==
    ASSUME \A c, k \in Clients : c = k
    PROVE  Spec => []StatusIsOwn
  BY OneClientIsSerial, SerialStatusIsOwn, PTL
=============================================================================
