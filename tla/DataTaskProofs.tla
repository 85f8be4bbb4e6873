--------------------------- MODULE DataTaskProofs ---------------------------
(***************************************************************************)
(* Theorems about DataTask, for every set of devices, workers and clients. *)
(***************************************************************************)
EXTENDS DataTask, TLAPS

(* The commands that have a device name, while they run                    *)
InCommand ==
    {"startCheck", "startActive", "startTake", "startErase",
     "startJoin", "startSpawn", "startAdd", "startRefused",
     "stopRequest", "stopTake", "stopErase", "stopJoin", "stopMark"}

TargetOK == \A c \in Clients : pc[c] \in InCommand => target[c] \in Devices

BelowLimit ==
    \A w \in Workers : wpc[w] \in {"loop", "load", "query"} => fails[w] < FailLimit

(* TypeOK alone is not inductive: a failure is counted only by a worker    *)
(* that is below the limit, and the registry is changed only for a device. *)
IndType == TypeOK /\ TargetOK /\ BelowLimit

LEMMA InitIndType == Init => IndType
  BY StoreAssumption, TaskAssumption
     DEF Init, StoreInit, NoStatus, IndType, TypeOK, StoreTypeOK, TargetOK, BelowLimit,
         DeviceStatus, DeviceRow, ClientPc, WorkerPc, InCommand

LEMMA NextIndType == IndType /\ [Next]_vars => IndType'
<1> SUFFICES ASSUME IndType, [Next]_vars PROVE IndType'
  OBVIOUS
<1> USE StoreAssumption, TaskAssumption
    DEF IndType, TypeOK, StoreTypeOK, TargetOK, BelowLimit, DeviceStatus, DeviceRow,
        ClientPc, WorkerPc, InCommand, storeVars, clientVars, workerVars, Goto, Becomes
<1>1. ASSUME NEW c \in Clients, NEW d \in Devices, CallStart(c, d) PROVE IndType'
  BY <1>1 DEF CallStart, Enter
<1>2. ASSUME NEW c \in Clients, NEW d \in Devices, CallStop(c, d) PROVE IndType'
  BY <1>2 DEF CallStop, Enter
<1>3. ASSUME NEW c \in Clients, DeviceCommand(c) PROVE IndType'
  BY <1>3 DEF DeviceCommand, CreateDevice, UpdateDevice, DeleteDevice
<1>4. ASSUME NEW c \in Clients, CallStartAll(c) PROVE IndType'
  BY <1>4 DEF CallStartAll
<1>5. ASSUME NEW c \in Clients, CallStopAll(c) PROVE IndType'
  BY <1>5 DEF CallStopAll, RequestStopAll, FlagOf
<1>6. ASSUME NEW c \in Clients, StartNext(c) PROVE IndType'
  BY <1>6 DEF StartNext, Enter
<1>7. ASSUME NEW c \in Clients, StartCheck(c) PROVE IndType'
  BY <1>7 DEF StartCheck
<1>8. ASSUME NEW c \in Clients, StartIsActive(c) PROVE IndType'
  BY <1>8 DEF StartIsActive
<1>9. ASSUME NEW c \in Clients, StartTakeThread(c) PROVE IndType'
  BY <1>9 DEF StartTakeThread, TakeThread, ThreadOf
<1>10. ASSUME NEW c \in Clients, StartEraseFlag(c) PROVE IndType'
  BY <1>10 DEF StartEraseFlag, EraseStopFlag
<1>11. ASSUME NEW c \in Clients, StartJoin(c) PROVE IndType'
  BY <1>11 DEF StartJoin, Join
<1>12. ASSUME NEW c \in Clients, StartSpawn(c) PROVE IndType'
  BY <1>12 DEF StartSpawn
<1>13. ASSUME NEW c \in Clients, StartSpawnFails(c) PROVE IndType'
  BY <1>13 DEF StartSpawnFails
<1>14. ASSUME NEW c \in Clients, StartAddWorker(c) PROVE IndType'
  BY <1>14 DEF StartAddWorker, Return, AddWorker
<1>15. ASSUME NEW c \in Clients, StartAborts(c) PROVE IndType'
  BY <1>15 DEF StartAborts, NoStatus
<1>16. ASSUME NEW c \in Clients, StartRefused(c) PROVE IndType'
  BY <1>16 DEF StartRefused, Return, MarkStartFailed, Unregister, Running
<1>17. ASSUME NEW c \in Clients, StopNotRunning(c) PROVE IndType'
  BY <1>17 DEF StopNotRunning, Return
<1>18. ASSUME NEW c \in Clients, StopRequest(c) PROVE IndType'
  BY <1>18 DEF StopRequest, RequestStop, FlagOf
<1>19. ASSUME NEW c \in Clients, StopTakeThread(c) PROVE IndType'
  BY <1>19 DEF StopTakeThread, TakeThread, ThreadOf
<1>20. ASSUME NEW c \in Clients, StopEraseFlag(c) PROVE IndType'
  BY <1>20 DEF StopEraseFlag, EraseStopFlag
<1>21. ASSUME NEW c \in Clients, StopJoin(c) PROVE IndType'
  BY <1>21 DEF StopJoin, Join
<1>22. ASSUME NEW c \in Clients, StopMarkStopped(c) PROVE IndType'
  BY <1>22 DEF StopMarkStopped, Return, MarkStopped, Unregister
<1>23. ASSUME NEW c \in Clients, StopAllTakeThreads(c) PROVE IndType'
  BY <1>23 DEF StopAllTakeThreads, TakeAllThreads, AllThreads
<1>24. ASSUME NEW c \in Clients, StopAllJoin(c) PROVE IndType'
  BY <1>24 DEF StopAllJoin, Join
<1>25. ASSUME NEW c \in Clients, StopAllJoined(c) PROVE IndType'
  BY <1>25 DEF StopAllJoined
<1>26. ASSUME NEW c \in Clients, StopAllClearWorkers(c) PROVE IndType'
  BY <1>26 DEF StopAllClearWorkers, Return, ClearAllWorkers
<1>27. ASSUME NEW w \in Workers, WorkerTest(w) PROVE IndType'
  BY <1>27 DEF WorkerTest
<1>28. ASSUME NEW w \in Workers, WorkerLoad(w) PROVE IndType'
  BY <1>28 DEF WorkerLoad
<1>29. ASSUME NEW w \in Workers, WorkerCollected(w) PROVE IndType'
  <2>1. [connected |-> TRUE, failCount |-> 0] \in DeviceStatus
    BY <1>29 DEF WorkerCollected
  <2>2. statuses' \in [Devices -> DeviceStatus]
    BY <1>29, <2>1 DEF WorkerCollected, SetLatestStatus
  <2>3. /\ fails' \in [Workers -> 0..FailLimit]
        /\ wpc' \in [Workers -> WorkerPc]
        /\ BelowLimit'
    BY <1>29 DEF WorkerCollected
  <2> QED
    BY <1>29, <2>2, <2>3 DEF WorkerCollected, SetLatestStatus
<1>30. ASSUME NEW w \in Workers, WorkerFailed(w) PROVE IndType'
  <2>1. [connected |-> FALSE, failCount |-> fails[w] + 1] \in DeviceStatus
    BY <1>30 DEF WorkerFailed
  <2>2. statuses' \in [Devices -> DeviceStatus]
    BY <1>30, <2>1 DEF WorkerFailed, SetLatestStatus
  <2>3. /\ fails' \in [Workers -> 0..FailLimit]
        /\ wpc' \in [Workers -> WorkerPc]
        /\ BelowLimit'
    BY <1>30 DEF WorkerFailed
  <2> QED
    BY <1>30, <2>2, <2>3 DEF WorkerFailed, SetLatestStatus
<1>31. ASSUME NEW w \in Workers, WorkerMarkStopped(w) PROVE IndType'
  BY <1>31 DEF WorkerMarkStopped, MarkStopped, Unregister
<1>32. CASE UNCHANGED vars
  BY <1>32 DEF vars
<1> QED
  BY <1>1, <1>2, <1>3, <1>4, <1>5, <1>6, <1>7, <1>8, <1>9, <1>10, <1>11,
     <1>12, <1>13, <1>14, <1>15, <1>16, <1>17, <1>18, <1>19, <1>20, <1>21, <1>22,
     <1>23, <1>24, <1>25, <1>26, <1>27, <1>28, <1>29, <1>30, <1>31, <1>32
     DEF Next, Call, CommandStep, StartStep, StopStep, StopAllStep, WorkerStep

(* Every variable keeps its type: in particular a failure counter never    *)
(* passes the limit, and only devices are ever registered.                 *)
THEOREM TypeCorrect == Spec => []TypeOK
<1>1. IndType => TypeOK
  BY DEF IndType
<1> QED
  BY InitIndType, NextIndType, <1>1, PTL DEF Spec

-----------------------------------------------------------------------------
(* Ownership of the thread objects *)

(* Where a client may have thread objects in its local variables           *)
Holding ==
    {"startErase", "startJoin", "startAdd", "stopErase", "stopJoin", "stopAllJoin"}

HandsOK ==
    \A c \in Clients :
        /\ pc[c] \notin Holding => held[c] = {}
        /\ pc[c] = "startAdd" => \E w \in Workers : held[c] = {w}

(* HandleOwnership, taken apart: what is registered or held is a thread,   *)
RegisteredLive == \A w \in Workers, d \in Devices : workerThreads[d] = w => wpc[w] # "free"

HeldLive == \A w \in Workers, c \in Clients : w \in held[c] => wpc[w] # "free"

(* in one place only,                                                      *)
OneEntry ==
    \A w \in Workers : \A d, e \in Devices :
        workerThreads[d] = w /\ workerThreads[e] = w => d = e

OneHolder ==
    \A w \in Workers : \A c, k \in Clients : w \in held[c] /\ w \in held[k] => c = k

NotBoth ==
    \A w \in Workers, d \in Devices, c \in Clients : ~(workerThreads[d] = w /\ w \in held[c])

(* and nothing else is a thread.                                           *)
Somewhere ==
    \A w \in Workers : wpc[w] # "free" =>
        \/ \E d \in Devices : workerThreads[d] = w
        \/ \E c \in Clients : w \in held[c]

Owned == RegisteredLive /\ HeldLive /\ OneEntry /\ OneHolder /\ NotBoth /\ Somewhere

IndOwned == IndType /\ HandsOK /\ Owned

LEMMA InitIndOwned == Init => HandsOK /\ Owned
  BY StoreAssumption
     DEF Init, StoreInit, HandsOK, Owned, RegisteredLive, HeldLive, OneEntry, OneHolder,
         NotBoth, Somewhere, Holding

LEMMA NextIndOwned == IndOwned /\ [Next]_vars => (HandsOK /\ Owned)'
<1> SUFFICES ASSUME IndOwned, [Next]_vars PROVE (HandsOK /\ Owned)'
  OBVIOUS
<1> USE StoreAssumption
    DEF IndOwned, IndType, TypeOK, StoreTypeOK, TargetOK, InCommand, HandsOK,
        Owned, RegisteredLive, HeldLive, OneEntry, OneHolder, NotBoth, Somewhere, Holding,
        storeVars, clientVars, workerVars, Goto, Becomes
<1>1. ASSUME NEW c \in Clients, NEW d \in Devices, CallStart(c, d) PROVE (HandsOK /\ Owned)'
  BY <1>1 DEF CallStart, Enter
<1>2. ASSUME NEW c \in Clients, NEW d \in Devices, CallStop(c, d) PROVE (HandsOK /\ Owned)'
  BY <1>2 DEF CallStop, Enter
<1>3. ASSUME NEW c \in Clients, DeviceCommand(c) PROVE (HandsOK /\ Owned)'
  <2>1. UNCHANGED <<pc, held, wpc, workerThreads>>
    BY <1>3 DEF DeviceCommand, CreateDevice, UpdateDevice, DeleteDevice
  <2> QED
    BY <2>1
<1>4. ASSUME NEW c \in Clients, CallStartAll(c) PROVE (HandsOK /\ Owned)'
  BY <1>4 DEF CallStartAll
<1>5. ASSUME NEW c \in Clients, CallStopAll(c) PROVE (HandsOK /\ Owned)'
  BY <1>5 DEF CallStopAll, RequestStopAll, FlagOf
<1>6. ASSUME NEW c \in Clients, StartNext(c) PROVE (HandsOK /\ Owned)'
  BY <1>6 DEF StartNext, Enter
<1>7. ASSUME NEW c \in Clients, StartCheck(c) PROVE (HandsOK /\ Owned)'
  <2>1. HandsOK'
    BY <1>7 DEF StartCheck
  <2>2. RegisteredLive'
    BY <1>7 DEF StartCheck
  <2>3. HeldLive'
    BY <1>7 DEF StartCheck
  <2>4. OneEntry'
    BY <1>7 DEF StartCheck
  <2>5. OneHolder'
    BY <1>7 DEF StartCheck
  <2>6. NotBoth'
    BY <1>7 DEF StartCheck
  <2>7. Somewhere'
    BY <1>7 DEF StartCheck
  <2> QED
    BY <2>1, <2>2, <2>3, <2>4, <2>5, <2>6, <2>7
<1>8. ASSUME NEW c \in Clients, StartIsActive(c) PROVE (HandsOK /\ Owned)'
  BY <1>8 DEF StartIsActive
<1>9. ASSUME NEW c \in Clients, StartTakeThread(c) PROVE (HandsOK /\ Owned)'
  <2>1. HandsOK'
    BY <1>9 DEF StartTakeThread, TakeThread, ThreadOf
  <2>2. RegisteredLive'
    BY <1>9 DEF StartTakeThread, TakeThread, ThreadOf
  <2>3. HeldLive'
    BY <1>9 DEF StartTakeThread, TakeThread, ThreadOf
  <2>4. OneEntry'
    BY <1>9 DEF StartTakeThread, TakeThread, ThreadOf
  <2>5. OneHolder'
    BY <1>9 DEF StartTakeThread, TakeThread, ThreadOf
  <2>6. NotBoth'
    BY <1>9 DEF StartTakeThread, TakeThread, ThreadOf
  <2>7. Somewhere'
    <3> SUFFICES ASSUME NEW w \in Workers, wpc'[w] # "free"
                 PROVE  \/ \E d \in Devices : workerThreads'[d] = w
                        \/ \E k \in Clients : w \in held'[k]
      OBVIOUS
    <3>1. wpc[w] # "free" /\ target[c] \in Devices /\ held[c] = {}
      BY <1>9 DEF StartTakeThread
    <3>2. ASSUME workerThreads[target[c]] = w PROVE w \in held'[c]
      BY <1>9, <3>2 DEF StartTakeThread, ThreadOf
    <3>3. ASSUME NEW d \in Devices, workerThreads[d] = w, d # target[c]
          PROVE  workerThreads'[d] = w
      BY <1>9, <3>3 DEF StartTakeThread, TakeThread
    <3>4. ASSUME NEW k \in Clients, w \in held[k] PROVE w \in held'[k]
      BY <1>9, <3>1, <3>4 DEF StartTakeThread
    <3> QED
      BY <3>1, <3>2, <3>3, <3>4
  <2> QED
    BY <2>1, <2>2, <2>3, <2>4, <2>5, <2>6, <2>7
<1>10. ASSUME NEW c \in Clients, StartEraseFlag(c) PROVE (HandsOK /\ Owned)'
  BY <1>10 DEF StartEraseFlag, EraseStopFlag
<1>11. ASSUME NEW c \in Clients, StartJoin(c) PROVE (HandsOK /\ Owned)'
  BY <1>11 DEF StartJoin, Join
<1>12. ASSUME NEW c \in Clients, StartSpawn(c) PROVE (HandsOK /\ Owned)'
  <2>1. HandsOK'
    BY <1>12 DEF StartSpawn
  <2>2. RegisteredLive'
    BY <1>12 DEF StartSpawn
  <2>3. HeldLive'
    BY <1>12 DEF StartSpawn
  <2>4. OneEntry'
    BY <1>12 DEF StartSpawn
  <2>5. OneHolder'
    BY <1>12 DEF StartSpawn
  <2>6. NotBoth'
    BY <1>12 DEF StartSpawn
  <2>7. Somewhere'
    <3> SUFFICES ASSUME NEW w \in Workers, wpc'[w] # "free"
                 PROVE  \/ \E d \in Devices : workerThreads'[d] = w
                        \/ \E k \in Clients : w \in held'[k]
      OBVIOUS
    <3>1. PICK v \in Workers : /\ wpc' = [wpc EXCEPT ![v] = "loop"]
                            /\ held' = [held EXCEPT ![c] = {v}]
      BY <1>12 DEF StartSpawn
    <3>2. held[c] = {} /\ workerThreads' = workerThreads
      BY <1>12 DEF StartSpawn
    <3>3. CASE w = v
      BY <3>1, <3>3
    <3>4. CASE w # v
      <4>1. wpc[w] # "free"
        BY <3>1, <3>4
      <4>2. ASSUME NEW k \in Clients, w \in held[k] PROVE w \in held'[k]
        BY <3>1, <3>2, <4>2
      <4> QED
        BY <4>1, <4>2, <3>2
    <3> QED
      BY <3>3, <3>4
  <2> QED
    BY <2>1, <2>2, <2>3, <2>4, <2>5, <2>6, <2>7
<1>13. ASSUME NEW c \in Clients, StartSpawnFails(c) PROVE (HandsOK /\ Owned)'
  BY <1>13 DEF StartSpawnFails
<1>14. ASSUME NEW c \in Clients, StartAddWorker(c) PROVE (HandsOK /\ Owned)'
  BY <1>14 DEF StartAddWorker, Return, AddWorker
<1>15. ASSUME NEW c \in Clients, StartAborts(c) PROVE (HandsOK /\ Owned)'
  BY <1>15 DEF StartAborts, NoStatus
<1>16. ASSUME NEW c \in Clients, StartRefused(c) PROVE (HandsOK /\ Owned)'
  BY <1>16 DEF StartRefused, Return, MarkStartFailed, Unregister, Running
<1>17. ASSUME NEW c \in Clients, StopNotRunning(c) PROVE (HandsOK /\ Owned)'
  BY <1>17 DEF StopNotRunning, Return
<1>18. ASSUME NEW c \in Clients, StopRequest(c) PROVE (HandsOK /\ Owned)'
  BY <1>18 DEF StopRequest, RequestStop, FlagOf
<1>19. ASSUME NEW c \in Clients, StopTakeThread(c) PROVE (HandsOK /\ Owned)'
  <2>1. HandsOK'
    BY <1>19 DEF StopTakeThread, TakeThread, ThreadOf
  <2>2. RegisteredLive'
    BY <1>19 DEF StopTakeThread, TakeThread, ThreadOf
  <2>3. HeldLive'
    BY <1>19 DEF StopTakeThread, TakeThread, ThreadOf
  <2>4. OneEntry'
    BY <1>19 DEF StopTakeThread, TakeThread, ThreadOf
  <2>5. OneHolder'
    BY <1>19 DEF StopTakeThread, TakeThread, ThreadOf
  <2>6. NotBoth'
    BY <1>19 DEF StopTakeThread, TakeThread, ThreadOf
  <2>7. Somewhere'
    <3> SUFFICES ASSUME NEW w \in Workers, wpc'[w] # "free"
                 PROVE  \/ \E d \in Devices : workerThreads'[d] = w
                        \/ \E k \in Clients : w \in held'[k]
      OBVIOUS
    <3>1. wpc[w] # "free" /\ target[c] \in Devices /\ held[c] = {}
      BY <1>19 DEF StopTakeThread
    <3>2. ASSUME workerThreads[target[c]] = w PROVE w \in held'[c]
      BY <1>19, <3>2 DEF StopTakeThread, ThreadOf
    <3>3. ASSUME NEW d \in Devices, workerThreads[d] = w, d # target[c]
          PROVE  workerThreads'[d] = w
      BY <1>19, <3>3 DEF StopTakeThread, TakeThread
    <3>4. ASSUME NEW k \in Clients, w \in held[k] PROVE w \in held'[k]
      BY <1>19, <3>1, <3>4 DEF StopTakeThread
    <3> QED
      BY <3>1, <3>2, <3>3, <3>4
  <2> QED
    BY <2>1, <2>2, <2>3, <2>4, <2>5, <2>6, <2>7
<1>20. ASSUME NEW c \in Clients, StopEraseFlag(c) PROVE (HandsOK /\ Owned)'
  BY <1>20 DEF StopEraseFlag, EraseStopFlag
<1>21. ASSUME NEW c \in Clients, StopJoin(c) PROVE (HandsOK /\ Owned)'
  BY <1>21 DEF StopJoin, Join
<1>22. ASSUME NEW c \in Clients, StopMarkStopped(c) PROVE (HandsOK /\ Owned)'
  BY <1>22 DEF StopMarkStopped, Return, MarkStopped, Unregister
<1>23. ASSUME NEW c \in Clients, StopAllTakeThreads(c) PROVE (HandsOK /\ Owned)'
  BY <1>23 DEF StopAllTakeThreads, TakeAllThreads, AllThreads
<1>24. ASSUME NEW c \in Clients, StopAllJoin(c) PROVE (HandsOK /\ Owned)'
  <2>1. HandsOK'
    BY <1>24 DEF StopAllJoin, Join
  <2>2. RegisteredLive'
    BY <1>24 DEF StopAllJoin, Join
  <2>3. HeldLive'
    BY <1>24 DEF StopAllJoin, Join
  <2>4. OneEntry'
    BY <1>24 DEF StopAllJoin, Join
  <2>5. OneHolder'
    BY <1>24 DEF StopAllJoin, Join
  <2>6. NotBoth'
    BY <1>24 DEF StopAllJoin, Join
  <2>7. Somewhere'
    BY <1>24 DEF StopAllJoin, Join
  <2> QED
    BY <2>1, <2>2, <2>3, <2>4, <2>5, <2>6, <2>7
<1>25. ASSUME NEW c \in Clients, StopAllJoined(c) PROVE (HandsOK /\ Owned)'
  BY <1>25 DEF StopAllJoined
<1>26. ASSUME NEW c \in Clients, StopAllClearWorkers(c) PROVE (HandsOK /\ Owned)'
  BY <1>26 DEF StopAllClearWorkers, Return, ClearAllWorkers
<1>27. ASSUME NEW w \in Workers, WorkerTest(w) PROVE (HandsOK /\ Owned)'
  BY <1>27 DEF WorkerTest
<1>28. ASSUME NEW w \in Workers, WorkerLoad(w) PROVE (HandsOK /\ Owned)'
  BY <1>28 DEF WorkerLoad
<1>29. ASSUME NEW w \in Workers, WorkerCollected(w) PROVE (HandsOK /\ Owned)'
  BY <1>29 DEF WorkerCollected, SetLatestStatus
<1>30. ASSUME NEW w \in Workers, WorkerFailed(w) PROVE (HandsOK /\ Owned)'
  BY <1>30 DEF WorkerFailed, SetLatestStatus
<1>31. ASSUME NEW w \in Workers, WorkerMarkStopped(w) PROVE (HandsOK /\ Owned)'
  BY <1>31 DEF WorkerMarkStopped, MarkStopped, Unregister
<1>32. CASE UNCHANGED vars
  BY <1>32 DEF vars
<1> QED
  BY <1>1, <1>2, <1>3, <1>4, <1>5, <1>6, <1>7, <1>8, <1>9, <1>10, <1>11,
     <1>12, <1>13, <1>14, <1>15, <1>16, <1>17, <1>18, <1>19, <1>20, <1>21, <1>22,
     <1>23, <1>24, <1>25, <1>26, <1>27, <1>28, <1>29, <1>30, <1>31, <1>32
     DEF Next, Call, CommandStep, StartStep, StopStep, StopAllStep, WorkerStep

LEMMA OwnedMeans == IndOwned => HandleOwnership
<1> SUFFICES ASSUME IndOwned, NEW w \in Workers
             PROVE  LET inMap == {d \in Devices : workerThreads[d] = w}
                        inHand == {c \in Clients : w \in held[c]}
                    IN  IF wpc[w] = "free" THEN inMap = {} /\ inHand = {}
                        ELSE \/ inHand = {} /\ \E d \in Devices : inMap = {d}
                             \/ inMap = {} /\ \E c \in Clients : inHand = {c}
  BY DEF HandleOwnership
<1> USE DEF IndOwned, Owned, RegisteredLive, HeldLive, OneEntry, OneHolder, NotBoth, Somewhere
<1>1. CASE wpc[w] = "free"
  BY <1>1
<1>2. ASSUME wpc[w] # "free", NEW d \in Devices, workerThreads[d] = w
      PROVE  /\ {c \in Clients : w \in held[c]} = {}
             /\ {e \in Devices : workerThreads[e] = w} = {d}
  BY <1>2
<1>3. ASSUME wpc[w] # "free", NEW c \in Clients, w \in held[c]
      PROVE  /\ {d \in Devices : workerThreads[d] = w} = {}
             /\ {k \in Clients : w \in held[k]} = {c}
  BY <1>3
<1> QED
  BY <1>1, <1>2, <1>3

(* Every thread that has not been joined is in exactly one place, however  *)
(* many clients race: no std::thread is lost or joined twice.              *)
THEOREM HandlesAreOwned == Spec => []HandleOwnership
<1>1. Init => IndOwned
  BY InitIndType, InitIndOwned DEF IndOwned
<1>2. IndOwned /\ [Next]_vars => IndOwned'
  BY NextIndType, NextIndOwned DEF IndOwned
<1> QED
  BY <1>1, <1>2, OwnedMeans, PTL DEF Spec

-----------------------------------------------------------------------------
(* Why workers end, and whose they are *)

LEMMA NextReason == IndType /\ EndsForAReason /\ [Next]_vars => EndsForAReason'
<1> SUFFICES ASSUME IndType, EndsForAReason, [Next]_vars PROVE EndsForAReason'
  OBVIOUS
<1> USE StoreAssumption
    DEF IndType, TypeOK, StoreTypeOK, BelowLimit, EndsForAReason,
        storeVars, clientVars, workerVars, Goto, Becomes
<1>1. ASSUME NEW c \in Clients, NEW d \in Devices, CallStart(c, d) PROVE EndsForAReason'
  BY <1>1 DEF CallStart, Enter
<1>2. ASSUME NEW c \in Clients, NEW d \in Devices, CallStop(c, d) PROVE EndsForAReason'
  BY <1>2 DEF CallStop, Enter
<1>3. ASSUME NEW c \in Clients, DeviceCommand(c) PROVE EndsForAReason'
  BY <1>3 DEF DeviceCommand, CreateDevice, UpdateDevice, DeleteDevice
<1>4. ASSUME NEW c \in Clients, CallStartAll(c) PROVE EndsForAReason'
  BY <1>4 DEF CallStartAll
<1>5. ASSUME NEW c \in Clients, CallStopAll(c) PROVE EndsForAReason'
  BY <1>5 DEF CallStopAll, RequestStopAll, FlagOf
<1>6. ASSUME NEW c \in Clients, StartNext(c) PROVE EndsForAReason'
  BY <1>6 DEF StartNext, Enter
<1>7. ASSUME NEW c \in Clients, StartCheck(c) PROVE EndsForAReason'
  BY <1>7 DEF StartCheck
<1>8. ASSUME NEW c \in Clients, StartIsActive(c) PROVE EndsForAReason'
  BY <1>8 DEF StartIsActive
<1>9. ASSUME NEW c \in Clients, StartTakeThread(c) PROVE EndsForAReason'
  BY <1>9 DEF StartTakeThread, TakeThread, ThreadOf
<1>10. ASSUME NEW c \in Clients, StartEraseFlag(c) PROVE EndsForAReason'
  BY <1>10 DEF StartEraseFlag, EraseStopFlag
<1>11. ASSUME NEW c \in Clients, StartJoin(c) PROVE EndsForAReason'
  BY <1>11 DEF StartJoin, Join
<1>12. ASSUME NEW c \in Clients, StartSpawn(c) PROVE EndsForAReason'
  BY <1>12 DEF StartSpawn
<1>13. ASSUME NEW c \in Clients, StartSpawnFails(c) PROVE EndsForAReason'
  BY <1>13 DEF StartSpawnFails
<1>14. ASSUME NEW c \in Clients, StartAddWorker(c) PROVE EndsForAReason'
  BY <1>14 DEF StartAddWorker, Return, AddWorker
<1>15. ASSUME NEW c \in Clients, StartAborts(c) PROVE EndsForAReason'
  BY <1>15 DEF StartAborts, NoStatus
<1>16. ASSUME NEW c \in Clients, StartRefused(c) PROVE EndsForAReason'
  BY <1>16 DEF StartRefused, Return, MarkStartFailed, Unregister, Running
<1>17. ASSUME NEW c \in Clients, StopNotRunning(c) PROVE EndsForAReason'
  BY <1>17 DEF StopNotRunning, Return
<1>18. ASSUME NEW c \in Clients, StopRequest(c) PROVE EndsForAReason'
  BY <1>18 DEF StopRequest, RequestStop, FlagOf
<1>19. ASSUME NEW c \in Clients, StopTakeThread(c) PROVE EndsForAReason'
  BY <1>19 DEF StopTakeThread, TakeThread, ThreadOf
<1>20. ASSUME NEW c \in Clients, StopEraseFlag(c) PROVE EndsForAReason'
  BY <1>20 DEF StopEraseFlag, EraseStopFlag
<1>21. ASSUME NEW c \in Clients, StopJoin(c) PROVE EndsForAReason'
  BY <1>21 DEF StopJoin, Join
<1>22. ASSUME NEW c \in Clients, StopMarkStopped(c) PROVE EndsForAReason'
  BY <1>22 DEF StopMarkStopped, Return, MarkStopped, Unregister
<1>23. ASSUME NEW c \in Clients, StopAllTakeThreads(c) PROVE EndsForAReason'
  BY <1>23 DEF StopAllTakeThreads, TakeAllThreads, AllThreads
<1>24. ASSUME NEW c \in Clients, StopAllJoin(c) PROVE EndsForAReason'
  BY <1>24 DEF StopAllJoin, Join
<1>25. ASSUME NEW c \in Clients, StopAllJoined(c) PROVE EndsForAReason'
  BY <1>25 DEF StopAllJoined
<1>26. ASSUME NEW c \in Clients, StopAllClearWorkers(c) PROVE EndsForAReason'
  BY <1>26 DEF StopAllClearWorkers, Return, ClearAllWorkers
<1>27. ASSUME NEW w \in Workers, WorkerTest(w) PROVE EndsForAReason'
  BY <1>27 DEF WorkerTest
<1>28. ASSUME NEW w \in Workers, WorkerLoad(w) PROVE EndsForAReason'
  BY <1>28 DEF WorkerLoad
<1>29. ASSUME NEW w \in Workers, WorkerCollected(w) PROVE EndsForAReason'
  BY <1>29 DEF WorkerCollected, SetLatestStatus
<1>30. ASSUME NEW w \in Workers, WorkerFailed(w) PROVE EndsForAReason'
  BY <1>30 DEF WorkerFailed, SetLatestStatus
<1>31. ASSUME NEW w \in Workers, WorkerMarkStopped(w) PROVE EndsForAReason'
  BY <1>31 DEF WorkerMarkStopped, MarkStopped, Unregister
<1>32. CASE UNCHANGED vars
  BY <1>32 DEF vars
<1> QED
  BY <1>1, <1>2, <1>3, <1>4, <1>5, <1>6, <1>7, <1>8, <1>9, <1>10, <1>11,
     <1>12, <1>13, <1>14, <1>15, <1>16, <1>17, <1>18, <1>19, <1>20, <1>21, <1>22,
     <1>23, <1>24, <1>25, <1>26, <1>27, <1>28, <1>29, <1>30, <1>31, <1>32
     DEF Next, Call, CommandStep, StartStep, StopStep, StopAllStep, WorkerStep

(* With any number of clients a worker ends because its flag is set or     *)
(* after FailLimit failures in a row, whatever happens to other devices.   *)
THEOREM WorkersEndForAReason == Spec => []EndsForAReason
<1>1. Init => EndsForAReason
  BY DEF Init, EndsForAReason
<1> QED
  BY <1>1, InitIndType, NextIndType, NextReason, PTL DEF Spec

(* A thread that is about to be registered collects from the target.       *)
AddsOwn == \A c \in Clients : pc[c] = "startAdd" => \A w \in held[c] : owner[w] = target[c]

IndRegistered == IndOwned /\ AddsOwn /\ RegisteredUnderOwner

LEMMA NextRegistered == IndRegistered /\ [Next]_vars => (AddsOwn /\ RegisteredUnderOwner)'
<1> SUFFICES ASSUME IndRegistered, [Next]_vars PROVE (AddsOwn /\ RegisteredUnderOwner)'
  OBVIOUS
<1> USE StoreAssumption
    DEF IndRegistered, IndOwned, IndType, TypeOK, StoreTypeOK, TargetOK, InCommand,
        HandsOK, Owned, RegisteredLive, HeldLive, OneEntry, OneHolder, NotBoth, Holding,
        AddsOwn, RegisteredUnderOwner, storeVars, clientVars, workerVars, Goto, Becomes
<1>1. ASSUME NEW c \in Clients, NEW d \in Devices, CallStart(c, d)
      PROVE  (AddsOwn /\ RegisteredUnderOwner)'
  BY <1>1 DEF CallStart, Enter
<1>2. ASSUME NEW c \in Clients, NEW d \in Devices, CallStop(c, d)
      PROVE  (AddsOwn /\ RegisteredUnderOwner)'
  BY <1>2 DEF CallStop, Enter
<1>3. ASSUME NEW c \in Clients, DeviceCommand(c) PROVE (AddsOwn /\ RegisteredUnderOwner)'
  BY <1>3 DEF DeviceCommand, CreateDevice, UpdateDevice, DeleteDevice
<1>4. ASSUME NEW c \in Clients, CallStartAll(c) PROVE (AddsOwn /\ RegisteredUnderOwner)'
  BY <1>4 DEF CallStartAll
<1>5. ASSUME NEW c \in Clients, CallStopAll(c) PROVE (AddsOwn /\ RegisteredUnderOwner)'
  BY <1>5 DEF CallStopAll, RequestStopAll, FlagOf
<1>6. ASSUME NEW c \in Clients, StartNext(c) PROVE (AddsOwn /\ RegisteredUnderOwner)'
  BY <1>6 DEF StartNext, Enter
<1>7. ASSUME NEW c \in Clients, StartCheck(c) PROVE (AddsOwn /\ RegisteredUnderOwner)'
  BY <1>7 DEF StartCheck
<1>8. ASSUME NEW c \in Clients, StartIsActive(c) PROVE (AddsOwn /\ RegisteredUnderOwner)'
  BY <1>8 DEF StartIsActive
<1>9. ASSUME NEW c \in Clients, StartTakeThread(c) PROVE (AddsOwn /\ RegisteredUnderOwner)'
  BY <1>9 DEF StartTakeThread, TakeThread, ThreadOf
<1>10. ASSUME NEW c \in Clients, StartEraseFlag(c) PROVE (AddsOwn /\ RegisteredUnderOwner)'
  BY <1>10 DEF StartEraseFlag, EraseStopFlag
<1>11. ASSUME NEW c \in Clients, StartJoin(c) PROVE (AddsOwn /\ RegisteredUnderOwner)'
  BY <1>11 DEF StartJoin, Join
<1>12. ASSUME NEW c \in Clients, StartSpawn(c) PROVE (AddsOwn /\ RegisteredUnderOwner)'
  BY <1>12 DEF StartSpawn
<1>13. ASSUME NEW c \in Clients, StartSpawnFails(c) PROVE (AddsOwn /\ RegisteredUnderOwner)'
  BY <1>13 DEF StartSpawnFails
<1>14. ASSUME NEW c \in Clients, StartAddWorker(c) PROVE (AddsOwn /\ RegisteredUnderOwner)'
  BY <1>14 DEF StartAddWorker, Return, AddWorker
<1>15. ASSUME NEW c \in Clients, StartAborts(c) PROVE (AddsOwn /\ RegisteredUnderOwner)'
  BY <1>15 DEF StartAborts, NoStatus
<1>16. ASSUME NEW c \in Clients, StartRefused(c) PROVE (AddsOwn /\ RegisteredUnderOwner)'
  BY <1>16 DEF StartRefused, Return, MarkStartFailed, Unregister, Running
<1>17. ASSUME NEW c \in Clients, StopNotRunning(c) PROVE (AddsOwn /\ RegisteredUnderOwner)'
  BY <1>17 DEF StopNotRunning, Return
<1>18. ASSUME NEW c \in Clients, StopRequest(c) PROVE (AddsOwn /\ RegisteredUnderOwner)'
  BY <1>18 DEF StopRequest, RequestStop, FlagOf
<1>19. ASSUME NEW c \in Clients, StopTakeThread(c) PROVE (AddsOwn /\ RegisteredUnderOwner)'
  BY <1>19 DEF StopTakeThread, TakeThread, ThreadOf
<1>20. ASSUME NEW c \in Clients, StopEraseFlag(c) PROVE (AddsOwn /\ RegisteredUnderOwner)'
  BY <1>20 DEF StopEraseFlag, EraseStopFlag
<1>21. ASSUME NEW c \in Clients, StopJoin(c) PROVE (AddsOwn /\ RegisteredUnderOwner)'
  BY <1>21 DEF StopJoin, Join
<1>22. ASSUME NEW c \in Clients, StopMarkStopped(c) PROVE (AddsOwn /\ RegisteredUnderOwner)'
  BY <1>22 DEF StopMarkStopped, Return, MarkStopped, Unregister
<1>23. ASSUME NEW c \in Clients, StopAllTakeThreads(c) PROVE (AddsOwn /\ RegisteredUnderOwner)'
  BY <1>23 DEF StopAllTakeThreads, TakeAllThreads, AllThreads
<1>24. ASSUME NEW c \in Clients, StopAllJoin(c) PROVE (AddsOwn /\ RegisteredUnderOwner)'
  BY <1>24 DEF StopAllJoin, Join
<1>25. ASSUME NEW c \in Clients, StopAllJoined(c) PROVE (AddsOwn /\ RegisteredUnderOwner)'
  BY <1>25 DEF StopAllJoined
<1>26. ASSUME NEW c \in Clients, StopAllClearWorkers(c) PROVE (AddsOwn /\ RegisteredUnderOwner)'
  BY <1>26 DEF StopAllClearWorkers, Return, ClearAllWorkers
<1>27. ASSUME NEW w \in Workers, WorkerTest(w) PROVE (AddsOwn /\ RegisteredUnderOwner)'
  BY <1>27 DEF WorkerTest
<1>28. ASSUME NEW w \in Workers, WorkerLoad(w) PROVE (AddsOwn /\ RegisteredUnderOwner)'
  BY <1>28 DEF WorkerLoad
<1>29. ASSUME NEW w \in Workers, WorkerCollected(w) PROVE (AddsOwn /\ RegisteredUnderOwner)'
  BY <1>29 DEF WorkerCollected, SetLatestStatus
<1>30. ASSUME NEW w \in Workers, WorkerFailed(w) PROVE (AddsOwn /\ RegisteredUnderOwner)'
  BY <1>30 DEF WorkerFailed, SetLatestStatus
<1>31. ASSUME NEW w \in Workers, WorkerMarkStopped(w) PROVE (AddsOwn /\ RegisteredUnderOwner)'
  BY <1>31 DEF WorkerMarkStopped, MarkStopped, Unregister
<1>32. CASE UNCHANGED vars
  BY <1>32 DEF vars
<1> QED
  BY <1>1, <1>2, <1>3, <1>4, <1>5, <1>6, <1>7, <1>8, <1>9, <1>10, <1>11,
     <1>12, <1>13, <1>14, <1>15, <1>16, <1>17, <1>18, <1>19, <1>20, <1>21, <1>22,
     <1>23, <1>24, <1>25, <1>26, <1>27, <1>28, <1>29, <1>30, <1>31, <1>32
     DEF Next, Call, CommandStep, StartStep, StopStep, StopAllStep, WorkerStep

(* With any number of clients, what is registered under a device's name is *)
(* a worker of that device.                                                *)
THEOREM RegisteredAreOwn == Spec => []RegisteredUnderOwner
<1>1. Init => AddsOwn /\ RegisteredUnderOwner
  BY DEF Init, StoreInit, AddsOwn, RegisteredUnderOwner
<1>2. Init => IndRegistered
  BY <1>1, InitIndType, InitIndOwned DEF IndRegistered, IndOwned
<1>3. IndRegistered /\ [Next]_vars => IndRegistered'
  BY NextIndType, NextIndOwned, NextRegistered DEF IndRegistered, IndOwned
<1>4. IndRegistered => RegisteredUnderOwner
  BY DEF IndRegistered
<1> QED
  BY <1>2, <1>3, <1>4, PTL DEF Spec

-----------------------------------------------------------------------------
(* Clients whose commands are serialised.  The code does not do it: it is  *)
(* what whoever sends the commands would have to see to in HTTP mode, and  *)
(* what is the case in console mode.                                       *)

(* No two commands for the same device run at the same time, and stop_all  *)
(* runs alone.                                                             *)
Serial ==
    \A c, k \in Clients : c # k =>
        /\ target[c] = target[k] => target[c] = NoDevice
        /\ pc[c] \in {"stopAllTake", "stopAllJoin", "stopAllClear"} => pc[k] = "idle"

(* A single client is serialised by itself.                                *)
LEMMA OneClientIsSerial ==
    ASSUME \A c, k \in Clients : c = k
    PROVE  Serial
  BY DEF Serial

(* A command that has taken the thread of its device out of the registry   *)
(* leaves none behind.                                                     *)
Taken ==
    \A c \in Clients :
        /\ pc[c] \in {"startErase", "startJoin", "startSpawn", "startAdd",
                      "stopErase", "stopJoin", "stopMark"}
               => workerThreads[target[c]] = NoWorker
        /\ pc[c] \in {"stopAllJoin", "stopAllClear"}
               => \A d \in Devices : workerThreads[d] = NoWorker

(* Threads are registered, and held, for the device they collect from.     *)
OwnersOK ==
    /\ \A d \in Devices : workerThreads[d] # NoWorker => owner[workerThreads[d]] = d
    /\ \A c \in Clients : \A w \in held[c] : pc[c] = "stopAllJoin" \/ owner[w] = target[c]

OneThread ==
    \A v, w \in Workers :
        wpc[v] # "free" /\ wpc[w] # "free" /\ owner[v] = owner[w] => v = w

NotAborted == \A c \in Clients : pc[c] # "aborted"

Console == Taken /\ OwnersOK /\ OneThread /\ NotAborted

IndConsole == IndOwned /\ Console

LEMMA InitConsole == Init => Console
  BY StoreAssumption DEF Init, StoreInit, Console, Taken, OwnersOK, OneThread, NotAborted

LEMMA NextConsole ==
    IndConsole /\ Serial /\ [Next]_vars => Console'
<1> SUFFICES ASSUME IndConsole, Serial, [Next]_vars PROVE Console'
  OBVIOUS
<1> USE StoreAssumption, TaskAssumption
    DEF IndConsole, IndOwned, IndType, TypeOK, StoreTypeOK, TargetOK, InCommand,
        HandsOK, Owned, RegisteredLive, HeldLive, OneEntry, OneHolder, NotBoth, Somewhere,
        Holding, Console, Taken, OwnersOK, OneThread, NotAborted, Serial,
        storeVars, clientVars, workerVars, Goto, Becomes
<1>1. ASSUME NEW c \in Clients, NEW d \in Devices, CallStart(c, d) PROVE Console'
  <2>1. UNCHANGED <<workerThreads, held, wpc, owner>> /\ held[c] = {}
    BY <1>1 DEF CallStart
  <2>2. \A k \in Clients : k # c => pc'[k] = pc[k] /\ target'[k] = target[k]
    BY <1>1 DEF CallStart, Enter
  <2>3. pc'[c] = "startCheck"
    BY <1>1 DEF CallStart, Enter
  <2> QED
    BY <2>1, <2>2, <2>3
<1>2. ASSUME NEW c \in Clients, NEW d \in Devices, CallStop(c, d) PROVE Console'
  BY <1>2 DEF CallStop, Enter
<1>3. ASSUME NEW c \in Clients, DeviceCommand(c) PROVE Console'
  BY <1>3 DEF DeviceCommand, CreateDevice, UpdateDevice, DeleteDevice
<1>4. ASSUME NEW c \in Clients, CallStartAll(c) PROVE Console'
  BY <1>4 DEF CallStartAll
<1>5. ASSUME NEW c \in Clients, CallStopAll(c) PROVE Console'
  BY <1>5 DEF CallStopAll, RequestStopAll, FlagOf
<1>6. ASSUME NEW c \in Clients, StartNext(c) PROVE Console'
  BY <1>6 DEF StartNext, Enter
<1>7. ASSUME NEW c \in Clients, StartCheck(c) PROVE Console'
  BY <1>7 DEF StartCheck
<1>8. ASSUME NEW c \in Clients, StartIsActive(c) PROVE Console'
  BY <1>8 DEF StartIsActive
<1>9. ASSUME NEW c \in Clients, StartTakeThread(c) PROVE Console'
  BY <1>9 DEF StartTakeThread, TakeThread, ThreadOf
<1>10. ASSUME NEW c \in Clients, StartEraseFlag(c) PROVE Console'
  BY <1>10 DEF StartEraseFlag, EraseStopFlag
<1>11. ASSUME NEW c \in Clients, StartJoin(c) PROVE Console'
  BY <1>11 DEF StartJoin, Join
<1>12. ASSUME NEW c \in Clients, StartSpawn(c) PROVE Console'
  <2>1. PICK v \in Workers : /\ wpc[v] = "free"
                          /\ wpc' = [wpc EXCEPT ![v] = "loop"]
                          /\ owner' = [owner EXCEPT ![v] = target[c]]
                          /\ held' = [held EXCEPT ![c] = {v}]
    BY <1>12 DEF StartSpawn
  <2>2. /\ target[c] \in Devices /\ workerThreads[target[c]] = NoWorker /\ held[c] = {}
        /\ UNCHANGED <<workerThreads, target>> /\ pc' = [pc EXCEPT ![c] = "startAdd"]
    BY <1>12 DEF StartSpawn
  <2>3. Taken' /\ NotAborted'
    BY <2>2
  <2>4. OwnersOK'
    BY <2>1, <2>2
  <2>5. ASSUME NEW w \in Workers, wpc[w] # "free" PROVE owner[w] # target[c]
    <3>1. CASE \E d \in Devices : workerThreads[d] = w
      BY <2>2, <3>1
    <3>2. CASE \E k \in Clients : w \in held[k]
      <4>1. PICK k \in Clients : k # c /\ w \in held[k]
        BY <2>2, <3>2
      <4>2. pc[k] # "stopAllJoin" /\ owner[w] = target[k]
        BY <1>12, <4>1 DEF StartSpawn
      <4> QED
        BY <2>2, <4>1, <4>2
    <3> QED
      BY <2>5, <3>1, <3>2
  <2>6. OneThread'
    BY <2>1, <2>5
  <2> QED
    BY <2>3, <2>4, <2>6
<1>13. ASSUME NEW c \in Clients, StartSpawnFails(c) PROVE Console'
  BY <1>13 DEF StartSpawnFails
<1>14. ASSUME NEW c \in Clients, StartAddWorker(c) PROVE Console'
  BY <1>14 DEF StartAddWorker, Return, AddWorker
<1>15. ASSUME NEW c \in Clients, StartAborts(c) PROVE Console'
  BY <1>15 DEF StartAborts, NoStatus
<1>16. ASSUME NEW c \in Clients, StartRefused(c) PROVE Console'
  BY <1>16 DEF StartRefused, Return, MarkStartFailed, Unregister, Running
<1>17. ASSUME NEW c \in Clients, StopNotRunning(c) PROVE Console'
  BY <1>17 DEF StopNotRunning, Return
<1>18. ASSUME NEW c \in Clients, StopRequest(c) PROVE Console'
  BY <1>18 DEF StopRequest, RequestStop, FlagOf
<1>19. ASSUME NEW c \in Clients, StopTakeThread(c) PROVE Console'
  BY <1>19 DEF StopTakeThread, TakeThread, ThreadOf
<1>20. ASSUME NEW c \in Clients, StopEraseFlag(c) PROVE Console'
  BY <1>20 DEF StopEraseFlag, EraseStopFlag
<1>21. ASSUME NEW c \in Clients, StopJoin(c) PROVE Console'
  BY <1>21 DEF StopJoin, Join
<1>22. ASSUME NEW c \in Clients, StopMarkStopped(c) PROVE Console'
  <2>1. UNCHANGED <<workerThreads, held, wpc, owner>>
    BY <1>22 DEF StopMarkStopped, MarkStopped, Unregister
  <2>2. \A k \in Clients : k # c => pc'[k] = pc[k] /\ target'[k] = target[k]
    BY <1>22 DEF StopMarkStopped, Return
  <2>3. pc'[c] \in {"idle", "startAll"}
    BY <1>22 DEF StopMarkStopped, Return
  <2>4. Taken' /\ NotAborted'
    BY <2>1, <2>2, <2>3
  <2>5. OwnersOK'
    <3>1. pc[c] = "stopMark"
      BY <1>22 DEF StopMarkStopped
    <3>2. held[c] = {}
      BY <3>1
    <3> QED
      BY <2>1, <2>2, <3>2
  <2>6. OneThread'
    BY <2>1
  <2> QED
    BY <2>4, <2>5, <2>6
<1>23. ASSUME NEW c \in Clients, StopAllTakeThreads(c) PROVE Console'
  BY <1>23 DEF StopAllTakeThreads, TakeAllThreads, AllThreads
<1>24. ASSUME NEW c \in Clients, StopAllJoin(c) PROVE Console'
  BY <1>24 DEF StopAllJoin, Join
<1>25. ASSUME NEW c \in Clients, StopAllJoined(c) PROVE Console'
  BY <1>25 DEF StopAllJoined
<1>26. ASSUME NEW c \in Clients, StopAllClearWorkers(c) PROVE Console'
  <2>1. UNCHANGED <<workerThreads, held, wpc, owner>>
    BY <1>26 DEF StopAllClearWorkers, ClearAllWorkers
  <2>2. \A k \in Clients : k # c => pc'[k] = pc[k] /\ target'[k] = target[k]
    BY <1>26 DEF StopAllClearWorkers, Return
  <2>3. pc'[c] \in {"idle", "startAll"} /\ held[c] = {}
    BY <1>26 DEF StopAllClearWorkers, Return
  <2>4. Taken' /\ NotAborted'
    BY <2>1, <2>2, <2>3
  <2>5. OwnersOK' /\ OneThread'
    BY <2>1, <2>2, <2>3
  <2> QED
    BY <2>4, <2>5
<1>27. ASSUME NEW w \in Workers, WorkerTest(w) PROVE Console'
  BY <1>27 DEF WorkerTest
<1>28. ASSUME NEW w \in Workers, WorkerLoad(w) PROVE Console'
  BY <1>28 DEF WorkerLoad
<1>29. ASSUME NEW w \in Workers, WorkerCollected(w) PROVE Console'
  BY <1>29 DEF WorkerCollected, SetLatestStatus
<1>30. ASSUME NEW w \in Workers, WorkerFailed(w) PROVE Console'
  BY <1>30 DEF WorkerFailed, SetLatestStatus
<1>31. ASSUME NEW w \in Workers, WorkerMarkStopped(w) PROVE Console'
  BY <1>31 DEF WorkerMarkStopped, MarkStopped, Unregister
<1>32. CASE UNCHANGED vars
  BY <1>32 DEF vars
<1> QED
  BY <1>1, <1>2, <1>3, <1>4, <1>5, <1>6, <1>7, <1>8, <1>9, <1>10, <1>11,
     <1>12, <1>13, <1>14, <1>15, <1>16, <1>17, <1>18, <1>19, <1>20, <1>21, <1>22,
     <1>23, <1>24, <1>25, <1>26, <1>27, <1>28, <1>29, <1>30, <1>31, <1>32
     DEF Next, Call, CommandStep, StartStep, StopStep, StopAllStep, WorkerStep

(* Where a command has taken the thread of d and holds none, d has none.   *)
LEMMA NoneLeft ==
    ASSUME IndConsole, Serial, NEW c \in Clients, NEW d \in Devices,
           held[c] = {}, workerThreads[d] = NoWorker,
           pc[c] = "stopAllClear" \/ (pc[c] \in InCommand /\ target[c] = d)
    PROVE  Running(d) = {}
<1> SUFFICES ASSUME NEW w \in Workers, wpc[w] # "free", owner[w] = d PROVE FALSE
  BY DEF Running
<1>1. CASE \E e \in Devices : workerThreads[e] = w
  <2>1. workerThreads[d] = w
    BY <1>1, StoreAssumption DEF IndConsole, Console, OwnersOK
  <2> QED
    BY <2>1, StoreAssumption
<1>2. CASE \E k \in Clients : w \in held[k]
  <2>1. PICK k \in Clients : k # c /\ w \in held[k]
    BY <1>2
  <2>2. pc[k] = "stopAllJoin" \/ target[k] = d
    BY <2>1 DEF IndConsole, Console, OwnersOK
  <2>3. pc[k] \notin {"idle", "stopAllTake"}
    BY <2>1 DEF IndConsole, IndOwned, HandsOK, Holding
  <2> QED
    BY <2>1, <2>2, <2>3, TaskAssumption DEF Serial, InCommand
<1> QED
  BY <1>1, <1>2 DEF IndConsole, IndOwned, Owned, Somewhere

LEMMA ConsoleInvariant == Spec /\ []Serial => []IndConsole
<1>1. Init => IndConsole
  BY InitIndType, InitIndOwned, InitConsole DEF IndConsole, IndOwned
<1>2. IndConsole /\ Serial /\ [Next]_vars => IndConsole'
  BY NextIndType, NextIndOwned, NextConsole DEF IndConsole, IndOwned
<1> QED
  BY <1>1, <1>2, PTL DEF Spec

(* With serialised commands the promises that HTTP mode breaks hold for    *)
(* any number of clients and devices.  One worker per device:              *)
THEOREM SerialHasOneWorkerEach == Spec /\ []Serial => []OneWorkerPerDevice
<1>1. IndConsole => OneWorkerPerDevice
  BY DEF IndConsole, Console, OneThread, OneWorkerPerDevice, Running
<1> QED
  BY <1>1, ConsoleInvariant, PTL

(* no start assigns over a thread that is still joinable, which would end  *)
(* the process;                                                            *)
THEOREM SerialNeverAborts == Spec /\ []Serial => []NeverAborts
<1>1. IndConsole => NeverAborts
  BY DEF IndConsole, Console, NotAborted, NeverAborts
<1> QED
  BY <1>1, ConsoleInvariant, PTL

(* a stop that is about to report success has left no worker of its device *)
(* behind;                                                                 *)
THEOREM SerialStopIsFinal == Spec /\ []Serial => []StopIsFinal
<1>1. IndConsole /\ Serial => StopIsFinal
  <2> SUFFICES ASSUME IndConsole, Serial, NEW c \in Clients, pc[c] = "stopMark"
               PROVE  Running(target[c]) = {}
    BY DEF StopIsFinal
  <2>1. held[c] = {} /\ pc[c] \in InCommand
    BY DEF IndConsole, IndOwned, HandsOK, Holding, InCommand
  <2>2. target[c] \in Devices /\ workerThreads[target[c]] = NoWorker
    BY <2>1 DEF IndConsole, IndOwned, IndType, TargetOK, Console, Taken
  <2> QED
    BY <2>1, <2>2, NoneLeft
<1> QED
  BY <1>1, ConsoleInvariant, PTL

(* and a stop_all has left none at all.                                    *)
THEOREM SerialStopAllIsFinal == Spec /\ []Serial => []StopAllIsFinal
<1>1. IndConsole /\ Serial => StopAllIsFinal
  <2> SUFFICES ASSUME IndConsole, Serial, NEW c \in Clients, pc[c] = "stopAllClear",
                      NEW d \in Devices
               PROVE  Running(d) = {}
    BY DEF StopAllIsFinal
  <2>1. held[c] = {} /\ workerThreads[d] = NoWorker
    BY DEF IndConsole, IndOwned, HandsOK, Holding, Console, Taken
  <2> QED
    BY <2>1, NoneLeft
<1> QED
  BY <1>1, ConsoleInvariant, PTL

(* The console is the case of a single client.                             *)
THEOREM ConsoleHasOneWorkerEach ==
    ASSUME \A c, k \in Clients : c = k
    PROVE  Spec => []OneWorkerPerDevice
  BY OneClientIsSerial, SerialHasOneWorkerEach, PTL

(* It never ends because of a registration,                                *)
THEOREM ConsoleNeverAborts ==
    ASSUME \A c, k \in Clients : c = k
    PROVE  Spec => []NeverAborts
  BY OneClientIsSerial, SerialNeverAborts, PTL

(* its stop_device_collect leaves no worker of the device,                 *)
THEOREM ConsoleStopIsFinal ==
    ASSUME \A c, k \in Clients : c = k
    PROVE  Spec => []StopIsFinal
  BY OneClientIsSerial, SerialStopIsFinal, PTL

(* and its stop_all leaves none.                                           *)
THEOREM ConsoleStopAllIsFinal ==
    ASSUME \A c, k \in Clients : c = k
    PROVE  Spec => []StopAllIsFinal
  BY OneClientIsSerial, SerialStopAllIsFinal, PTL
=============================================================================
