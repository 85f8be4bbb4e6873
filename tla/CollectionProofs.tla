-------------------------- MODULE CollectionProofs --------------------------
(***************************************************************************)
(* With serialised commands DataTask implements DeviceCollection, for any  *)
(* number of clients, devices and workers: the initial state maps to an    *)
(* initial state, and every step to a step of one collection, to a request *)
(* to stop, or to none.                                                    *)
(***************************************************************************)
EXTENDS ConsoleProofs

(* What the mapping rests on: one thread for each device, which belongs to *)
(* a device, counts up to the limit, and leaves its loop for a reason.     *)
IndMap == IndConsole /\ OwnersAreDevices /\ EndsForAReason

Collections == Collection!absVars

Runs(w) == wpc[w] \in {"loop", "load", "query", "leave"}

LEMMA ChosenOne ==
    ASSUME NEW w, NEW S, S = {w}
    PROVE  (CHOOSE v \in S : TRUE) = w
  OBVIOUS

LEMMA RunningOf ==
    ASSUME IndMap, NEW w \in Workers, Runs(w)
    PROVE  owner[w] \in Devices /\ Running(owner[w]) = {w}
  BY DEF IndMap, OwnersAreDevices, IndConsole, Console, OneThread, Running, Runs

(* The image of a device without and with a worker, before and after the   *)
(* step                                                                    *)
LEMMA ImageOfNone ==
    ASSUME NEW d \in Devices, Running(d) = {}
    PROVE  phaseOf[d] = "stopped" /\ failuresOf[d] = 0 /\ d \notin stoppingOf
  BY DEF phaseOf, failuresOf, stoppingOf

LEMMA ImageOfNoneNext ==
    ASSUME NEW d \in Devices, Running(d)' = {}
    PROVE  phaseOf'[d] = "stopped" /\ failuresOf'[d] = 0 /\ d \notin stoppingOf'
  BY DEF phaseOf, failuresOf, stoppingOf

LEMMA ImageOfOne ==
    ASSUME NEW d \in Devices, NEW w, Running(d) = {w}
    PROVE  /\ phaseOf[d] = IF wpc[w] \in {"load", "query"} THEN "collecting" ELSE "resting"
           /\ failuresOf[d] = fails[w]
           /\ d \in stoppingOf <=> w \in stopRequested
<1>1. (CHOOSE v \in Running(d) : TRUE) = w
  BY ChosenOne
<1> QED
  BY <1>1 DEF phaseOf, failuresOf, stoppingOf

LEMMA ImageOfOneNext ==
    ASSUME NEW d \in Devices, NEW w, Running(d)' = {w}
    PROVE  /\ phaseOf'[d] = IF wpc'[w] \in {"load", "query"} THEN "collecting" ELSE "resting"
           /\ failuresOf'[d] = fails'[w]
           /\ d \in stoppingOf' <=> w \in stopRequested'
<1>1. (CHOOSE v \in Running(d)' : TRUE) = w
  BY ChosenOne
<1> QED
  BY <1>1 DEF phaseOf, failuresOf, stoppingOf

(* The image of a device that the step does not touch                      *)
LEMMA ImageUntouched ==
    ASSUME NEW d \in Devices, Running(d)' = Running(d),
           \A w \in Running(d) :
               /\ wpc'[w] \in {"load", "query"} <=> wpc[w] \in {"load", "query"}
               /\ fails'[w] = fails[w]
    PROVE  /\ phaseOf'[d] = phaseOf[d]
           /\ failuresOf'[d] = failuresOf[d]
           /\ (\A w \in Running(d) : w \in stopRequested' <=> w \in stopRequested)
                  => (d \in stoppingOf' <=> d \in stoppingOf)
<1>1. CASE Running(d) = {}
  BY <1>1, ImageOfNone, ImageOfNoneNext
<1>2. CASE Running(d) # {}
  <2>1. (CHOOSE v \in Running(d) : TRUE) \in Running(d)
    BY <1>2
  <2> QED
    BY <1>2, <2>1 DEF phaseOf, failuresOf, stoppingOf
<1> QED
  BY <1>1, <1>2

LEMMA Shapes ==
    /\ phaseOf = [d \in Devices |-> phaseOf[d]] /\ phaseOf' = [d \in Devices |-> phaseOf'[d]]
    /\ failuresOf = [d \in Devices |-> failuresOf[d]]
    /\ failuresOf' = [d \in Devices |-> failuresOf'[d]]
    /\ stoppingOf \subseteq Devices /\ stoppingOf' \subseteq Devices
  BY DEF phaseOf, failuresOf, stoppingOf

Same(d) ==
    /\ phaseOf'[d] = phaseOf[d]
    /\ failuresOf'[d] = failuresOf[d]
    /\ d \in stoppingOf' <=> d \in stoppingOf

LEMMA AllSame ==
    ASSUME \A d \in Devices : Same(d)
    PROVE  UNCHANGED Collections
<1>1. phaseOf' = phaseOf /\ failuresOf' = failuresOf
  BY Shapes, Zenon DEF Same
<1>2. stoppingOf' = stoppingOf
  BY Shapes DEF Same
<1> QED
  BY <1>1, <1>2 DEF Collections, Collection!absVars

(* A step of a client that leaves the threads and their flags alone        *)
LEMMA QuietStep ==
    ASSUME UNCHANGED <<wpc, owner, fails, stopRequested>>
    PROVE  UNCHANGED Collections
<1>1. ASSUME NEW d \in Devices PROVE Same(d)
  <2>1. Running(d)' = Running(d)
    BY DEF Running
  <2> QED
    BY <2>1, ImageUntouched DEF Same
<1> QED
  BY <1>1, AllSame

(* A step of a worker is a step of its own device's collection only.       *)
LEMMA WorkersStep ==
    ASSUME IndMap, NEW w \in Workers, Runs(w), owner' = owner, stopRequested' = stopRequested,
           \A v \in Workers : v # w => wpc'[v] = wpc[v] /\ fails'[v] = fails[v]
    PROVE  /\ \A d \in Devices : d # owner[w] => Same(d)
           /\ Runs(w)' => Running(owner[w])' = {w}
           /\ ~Runs(w)' => Running(owner[w])' = {}
<1>1. owner[w] \in Devices /\ Running(owner[w]) = {w}
  BY RunningOf
<1>2. ASSUME NEW d \in Devices, d # owner[w] PROVE Same(d)
  <2>1. Running(d)' = Running(d) /\ w \notin Running(d)
    BY <1>2 DEF Running
  <2> QED
    BY <2>1, ImageUntouched DEF Same, Running
<1>3. \A v \in Workers : v \in Running(owner[w])' <=> v = w /\ Runs(w)'
  BY <1>1 DEF Running, Runs
<1>4. Running(owner[w])' \subseteq Workers
  BY DEF Running
<1> QED
  BY <1>2, <1>3, <1>4

LEMMA MapWorkerTest ==
    ASSUME IndMap, NEW w \in Workers, WorkerTest(w)
    PROVE  Collection!BeginCycle(owner[w]) \/ UNCHANGED Collections
<1> DEFINE d == owner[w]
<1>1. Runs(w) /\ wpc[w] = "loop" /\ UNCHANGED <<owner, fails, stopRequested>>
      /\ \A v \in Workers : v # w => wpc'[v] = wpc[v]
  BY DEF WorkerTest, Runs, Becomes, storeVars
<1>2. wpc'[w] = IF w \in stopRequested THEN "leave" ELSE "load"
  BY DEF WorkerTest, Becomes, IndMap, IndConsole, IndOwned, IndType, TypeOK
<1>3. d \in Devices /\ Running(d) = {w}
  BY <1>1, RunningOf
<1>4. Running(d)' = {w} /\ \A e \in Devices : e # d => Same(e)
  BY <1>1, <1>2, WorkersStep DEF Runs
<1>5. fails[w] < FailLimit
  BY <1>1 DEF IndMap, IndConsole, IndOwned, IndType, BelowLimit
<1>6. /\ phaseOf[d] = "resting" /\ failuresOf'[d] = failuresOf[d] /\ failuresOf[d] = fails[w]
      /\ d \in stoppingOf <=> w \in stopRequested
      /\ d \in stoppingOf' <=> d \in stoppingOf
      /\ phaseOf'[d] = IF w \in stopRequested THEN "resting" ELSE "collecting"
  BY <1>1, <1>2, <1>3, <1>4, ImageOfOne, ImageOfOneNext
<1> HIDE DEF d
<1>7. CASE w \in stopRequested
  BY <1>4, <1>6, <1>7, AllSame DEF Same
<1>8. CASE w \notin stopRequested
  <2>1. phaseOf' = [phaseOf EXCEPT ![d] = "collecting"]
    BY <1>3, <1>4, <1>6, <1>8, Shapes DEF Same
  <2>2. failuresOf' = failuresOf /\ stoppingOf' = stoppingOf
    BY <1>4, <1>6, Shapes DEF Same
  <2>3. Collection!BeginCycle(d)
    BY <1>3, <1>5, <1>6, <1>8, <2>1, <2>2 DEF Collection!BeginCycle
  <2> QED
    BY <2>3 DEF d
<1> QED
  BY <1>7, <1>8

LEMMA MapWorkerLoad ==
    ASSUME IndMap, NEW w \in Workers, WorkerLoad(w)
    PROVE  UNCHANGED Collections
<1>1. ASSUME NEW d \in Devices PROVE Same(d)
  <2>1. UNCHANGED <<owner, fails, stopRequested>> /\ wpc' = [wpc EXCEPT ![w] = "query"]
        /\ wpc[w] = "load"
    BY DEF WorkerLoad, Becomes, storeVars
  <2>2. Running(d)' = Running(d)
    BY <2>1 DEF Running, IndMap, IndConsole, IndOwned, IndType, TypeOK
  <2> QED
    BY <2>1, <2>2, ImageUntouched DEF Same, Running, IndMap, IndConsole, IndOwned, IndType, TypeOK
<1> QED
  BY <1>1, AllSame

LEMMA MapCycleEnds ==
    ASSUME IndMap, NEW w \in Workers, WorkerCollected(w) \/ WorkerFailed(w)
    PROVE  Collection!EndCycle(owner[w])
<1> DEFINE d == owner[w]
<1>1. /\ wpc[w] \in {"load", "query"} /\ Runs(w) /\ UNCHANGED <<owner, stopRequested>>
      /\ fails'[w] = 0 \/ fails'[w] = fails[w] + 1
      /\ wpc'[w] \in {"loop", "leave"}
      /\ \A v \in Workers : v # w => wpc'[v] = wpc[v] /\ fails'[v] = fails[v]
  BY DEF WorkerCollected, WorkerFailed, Runs, Becomes, SetLatestStatus,
         IndMap, IndConsole, IndOwned, IndType, TypeOK
<1>2. d \in Devices /\ Running(d) = {w}
  BY <1>1, RunningOf
<1>3. Running(d)' = {w} /\ \A e \in Devices : e # d => Same(e)
  BY <1>1, WorkersStep DEF Runs
<1>4. /\ phaseOf[d] = "collecting" /\ phaseOf'[d] = "resting"
      /\ failuresOf'[d] = 0 \/ failuresOf'[d] = failuresOf[d] + 1
      /\ d \in stoppingOf' <=> d \in stoppingOf
  BY <1>1, <1>2, <1>3, ImageOfOne, ImageOfOneNext
<1> HIDE DEF d
<1>5. phaseOf' = [phaseOf EXCEPT ![d] = "resting"]
  BY <1>2, <1>3, <1>4, Shapes DEF Same
<1>6. \/ failuresOf' = [failuresOf EXCEPT ![d] = 0]
      \/ failuresOf' = [failuresOf EXCEPT ![d] = failuresOf[d] + 1]
  <2>1. CASE failuresOf'[d] = 0
    BY <1>2, <1>3, <2>1, Shapes DEF Same
  <2>2. CASE failuresOf'[d] = failuresOf[d] + 1
    BY <1>2, <1>3, <2>2, Shapes DEF Same
  <2> QED
    BY <1>4, <2>1, <2>2
<1>7. stoppingOf' = stoppingOf
  BY <1>3, <1>4, Shapes DEF Same
<1>8. Collection!EndCycle(d)
  BY <1>4, <1>5, <1>6, <1>7 DEF Collection!EndCycle
<1> QED
  BY <1>8 DEF d

LEMMA MapWorkerMarkStopped ==
    ASSUME IndMap, NEW w \in Workers, WorkerMarkStopped(w)
    PROVE  Collection!Finish(owner[w])
<1> DEFINE d == owner[w]
<1>1. /\ wpc[w] = "leave" /\ Runs(w) /\ UNCHANGED <<owner, fails, stopRequested>>
      /\ wpc'[w] = "done"
      /\ \A v \in Workers : v # w => wpc'[v] = wpc[v]
  BY DEF WorkerMarkStopped, Runs, Becomes, MarkStopped, Unregister,
         IndMap, IndConsole, IndOwned, IndType, TypeOK
<1>2. d \in Devices /\ Running(d) = {w}
  BY <1>1, RunningOf
<1>3. Running(d)' = {} /\ \A e \in Devices : e # d => Same(e)
  BY <1>1, WorkersStep DEF Runs
<1>4. w \in stopRequested \/ fails[w] = FailLimit
  BY <1>1 DEF IndMap, EndsForAReason
<1>5. /\ phaseOf[d] = "resting" /\ phaseOf'[d] = "stopped" /\ failuresOf'[d] = 0
      /\ d \notin stoppingOf'
      /\ d \in stoppingOf \/ failuresOf[d] = FailLimit
  BY <1>1, <1>2, <1>3, <1>4, ImageOfOne, ImageOfNoneNext
<1> HIDE DEF d
<1>6. phaseOf' = [phaseOf EXCEPT ![d] = "stopped"] /\ failuresOf' = [failuresOf EXCEPT ![d] = 0]
  BY <1>2, <1>3, <1>5, Shapes DEF Same
<1>7. stoppingOf' = stoppingOf \ {d}
  BY <1>2, <1>3, <1>5, Shapes DEF Same
<1>8. Collection!Finish(d)
  BY <1>5, <1>6, <1>7 DEF Collection!Finish
<1> QED
  BY <1>8 DEF d

(* The new worker is the first: the last one has been joined.              *)
LEMMA MapStartSpawn ==
    ASSUME Serial, IndMap, NEW c \in Clients, StartSpawn(c)
    PROVE  Collection!Start(target[c])
<1>1. PICK d \in Devices : d = target[c]
  BY DEF StartSpawn, IndMap, IndConsole, IndOwned, IndType, TargetOK, InCommand
<1>2. PICK w \in Workers : /\ wpc[w] = "free"
                           /\ stopRequested' = stopRequested \ {w}
                           /\ wpc' = [wpc EXCEPT ![w] = "loop"]
                           /\ owner' = [owner EXCEPT ![w] = d]
                           /\ fails' = [fails EXCEPT ![w] = 0]
  BY <1>1 DEF StartSpawn
<1>3. workerThreads[d] = NoWorker /\ held[c] = {}
  BY <1>1 DEF StartSpawn, IndMap, IndConsole, IndOwned, Console, Taken, HandsOK, Holding
<1>4. Running(d) = {}
  BY <1>1, <1>3, NoneLeft DEF IndMap, StartSpawn, InCommand
<1>5. wpc \in [Workers -> WorkerPc] /\ owner \in [Workers -> Devices \cup {NoDevice}]
      /\ fails \in [Workers -> 0..FailLimit]
  BY DEF IndMap, IndConsole, IndOwned, IndType, TypeOK
<1>6. Running(d)' = {w}
  <2>1. \A v \in Workers : v \in Running(d)' <=> v \in Running(d) \/ v = w
    BY <1>5, <1>2, <1>3 DEF Running
  <2>2. Running(d)' \subseteq Workers
    BY DEF Running
  <2> QED
    BY <1>4, <2>1, <2>2
<1>7. ASSUME NEW e \in Devices, e # d PROVE Same(e)
  <2>1. Running(e)' = Running(e) /\ w \notin Running(e)
    BY <1>5, <1>2, <1>3, <1>7 DEF Running
  <2> QED
    BY <1>5, <1>2, <2>1, ImageUntouched DEF Same, Running
<1>8. wpc'[w] = "loop" /\ fails'[w] = 0 /\ w \notin stopRequested'
  BY <1>5, <1>2
<1>9. /\ phaseOf[d] = "stopped" /\ failuresOf[d] = 0 /\ d \notin stoppingOf
      /\ phaseOf'[d] = "resting" /\ failuresOf'[d] = 0 /\ d \notin stoppingOf'
  BY <1>3, <1>4, <1>6, <1>8, ImageOfNone, ImageOfOneNext
<1>10. phaseOf' = [phaseOf EXCEPT ![d] = "resting"]
  BY <1>3, <1>7, <1>9, Shapes DEF Same
<1>11. failuresOf' = failuresOf /\ stoppingOf' = stoppingOf
  BY <1>3, <1>7, <1>9, Shapes DEF Same
<1>12. Collection!Start(d)
  BY <1>9, <1>10, <1>11 DEF Collection!Start
<1> QED
  BY <1>1, <1>12

(* Joined workers had ended.                                               *)
LEMMA MapJoin ==
    ASSUME IndMap, NEW S, Join(S), stopRequested' = stopRequested
    PROVE  UNCHANGED Collections
<1>1. ASSUME NEW d \in Devices PROVE Same(d)
  <2>1. Running(d)' = Running(d) /\ \A w \in Running(d) : w \notin S /\ w \in Workers
    BY DEF Join, Running
  <2> QED
    BY <2>1, ImageUntouched DEF Same, Join
<1> QED
  BY <1>1, AllSame

(* The devices whose worker has one of the flags are asked to stop.        *)
LEMMA MapRequest ==
    ASSUME IndMap, NEW S, stopRequested' = stopRequested \cup S, UNCHANGED <<wpc, owner, fails>>
    PROVE  \E D \in SUBSET Devices : Collection!AskToStop(D)
<1> DEFINE D == {d \in Devices : Running(d) \cap S # {}}
<1>1. \A d \in Devices : Running(d)' = Running(d)
  BY DEF Running
<1>2. \A d \in D : phaseOf[d] # "stopped"
  BY DEF phaseOf
<1>3. stoppingOf' = stoppingOf \cup D
  BY <1>1 DEF stoppingOf
<1>4. phaseOf' = phaseOf /\ failuresOf' = failuresOf
  <2>1. \A d \in Devices : phaseOf'[d] = phaseOf[d] /\ failuresOf'[d] = failuresOf[d]
    BY <1>1, ImageUntouched
  <2> QED
    BY <2>1, Shapes, Zenon
<1>5. Collection!AskToStop(D)
  BY <1>2, <1>3, <1>4 DEF Collection!AskToStop
<1> QED
  BY <1>5

-----------------------------------------------------------------------------
(* Steps that no collection notices: those that change no thread's place,  *)
(* device, failures or flag                                                *)
Quiet(c) ==
    \/ \E d \in Devices : CallStart(c, d) \/ CallStop(c, d)
    \/ DeviceCommand(c) \/ CallStartAll(c) \/ StartNext(c) \/ StartCheck(c)
    \/ StartIsActive(c) \/ StartTakeThread(c) \/ StartEraseFlag(c) \/ StartSpawnFails(c)
    \/ StartAddWorker(c) \/ StartRefused(c) \/ StopNotRunning(c) \/ StopTakeThread(c)
    \/ StopEraseFlag(c) \/ StopMarkStopped(c) \/ StopAllTakeThreads(c) \/ StopAllJoined(c)
    \/ StopAllClearWorkers(c)

LEMMA QuietMaps ==
    ASSUME NEW c \in Clients, Quiet(c)
    PROVE  UNCHANGED Collections
<1> USE DEF storeVars, workerVars
<1>1. ASSUME NEW d \in Devices, CallStart(c, d) PROVE UNCHANGED <<wpc, owner, fails, stopRequested>>
  BY <1>1 DEF CallStart, Enter
<1>2. ASSUME NEW d \in Devices, CallStop(c, d) PROVE UNCHANGED <<wpc, owner, fails, stopRequested>>
  BY <1>2 DEF CallStop, Enter
<1>3. ASSUME DeviceCommand(c) PROVE UNCHANGED <<wpc, owner, fails, stopRequested>>
  BY <1>3 DEF DeviceCommand, CreateDevice, UpdateDevice, DeleteDevice
<1>4. ASSUME CallStartAll(c) PROVE UNCHANGED <<wpc, owner, fails, stopRequested>>
  BY <1>4 DEF CallStartAll
<1>5. ASSUME StartNext(c) PROVE UNCHANGED <<wpc, owner, fails, stopRequested>>
  BY <1>5 DEF StartNext
<1>6. ASSUME StartCheck(c) PROVE UNCHANGED <<wpc, owner, fails, stopRequested>>
  BY <1>6 DEF StartCheck
<1>7. ASSUME StartIsActive(c) PROVE UNCHANGED <<wpc, owner, fails, stopRequested>>
  BY <1>7 DEF StartIsActive
<1>8. ASSUME StartTakeThread(c) PROVE UNCHANGED <<wpc, owner, fails, stopRequested>>
  BY <1>8 DEF StartTakeThread, TakeThread
<1>9. ASSUME StartEraseFlag(c) PROVE UNCHANGED <<wpc, owner, fails, stopRequested>>
  BY <1>9 DEF StartEraseFlag, EraseStopFlag
<1>10. ASSUME StartSpawnFails(c) PROVE UNCHANGED <<wpc, owner, fails, stopRequested>>
  BY <1>10 DEF StartSpawnFails
<1>11. ASSUME StartAddWorker(c) PROVE UNCHANGED <<wpc, owner, fails, stopRequested>>
  BY <1>11 DEF StartAddWorker, AddWorker
<1>12. ASSUME StartRefused(c) PROVE UNCHANGED <<wpc, owner, fails, stopRequested>>
  BY <1>12 DEF StartRefused, MarkStartFailed, Unregister
<1>13. ASSUME StopNotRunning(c) PROVE UNCHANGED <<wpc, owner, fails, stopRequested>>
  BY <1>13 DEF StopNotRunning
<1>14. ASSUME StopTakeThread(c) PROVE UNCHANGED <<wpc, owner, fails, stopRequested>>
  BY <1>14 DEF StopTakeThread, TakeThread
<1>15. ASSUME StopEraseFlag(c) PROVE UNCHANGED <<wpc, owner, fails, stopRequested>>
  BY <1>15 DEF StopEraseFlag, EraseStopFlag
<1>16. ASSUME StopMarkStopped(c) PROVE UNCHANGED <<wpc, owner, fails, stopRequested>>
  BY <1>16 DEF StopMarkStopped, MarkStopped, Unregister
<1>17. ASSUME StopAllTakeThreads(c) PROVE UNCHANGED <<wpc, owner, fails, stopRequested>>
  BY <1>17 DEF StopAllTakeThreads, TakeAllThreads
<1>18. ASSUME StopAllJoined(c) PROVE UNCHANGED <<wpc, owner, fails, stopRequested>>
  BY <1>18 DEF StopAllJoined
<1>19. ASSUME StopAllClearWorkers(c) PROVE UNCHANGED <<wpc, owner, fails, stopRequested>>
  BY <1>19 DEF StopAllClearWorkers, ClearAllWorkers
<1> QED
  BY <1>1, <1>2, <1>3, <1>4, <1>5, <1>6, <1>7, <1>8, <1>9, <1>10, <1>11, <1>12, <1>13,
     <1>14, <1>15, <1>16, <1>17, <1>18, <1>19, QuietStep DEF Quiet

(* With serialised commands every step is a step of the abstract           *)
(* collections, or leaves them alone.                                      *)
LEMMA NextMaps ==
    IndMap /\ Serial /\ [Next]_vars => [Collection!AbsNext]_Collections
<1> SUFFICES ASSUME IndMap, Serial, [Next]_vars PROVE [Collection!AbsNext]_Collections
  OBVIOUS
<1>1. ASSUME NEW c \in Clients, Quiet(c) PROVE UNCHANGED Collections
  BY <1>1, QuietMaps
<1>2. ASSUME NEW c \in Clients, StartJoin(c) PROVE UNCHANGED Collections
  BY <1>2, MapJoin DEF StartJoin, storeVars
<1>3. ASSUME NEW c \in Clients, StopJoin(c) PROVE UNCHANGED Collections
  BY <1>3, MapJoin DEF StopJoin, storeVars
<1>4. ASSUME NEW c \in Clients, StopAllJoin(c) PROVE UNCHANGED Collections
  BY <1>4, MapJoin DEF StopAllJoin, storeVars
<1>5. ASSUME NEW c \in Clients, StartSpawn(c) PROVE Collection!AbsNext
  <2>1. target[c] \in Devices
    BY <1>5 DEF StartSpawn, IndMap, IndConsole, IndOwned, IndType, TargetOK, InCommand
  <2>2. Collection!Start(target[c])
    BY <1>5, MapStartSpawn
  <2> QED
    BY <2>1, <2>2 DEF Collection!AbsNext
<1>6. ASSUME NEW c \in Clients, StartAborts(c) PROVE FALSE
  BY <1>6 DEF StartAborts, IndMap, IndConsole, Console, Taken
<1>7. ASSUME NEW c \in Clients, StopRequest(c) PROVE Collection!AbsNext
  <2>1. stopRequested' = stopRequested \cup FlagOf(target[c]) /\ UNCHANGED <<wpc, owner, fails>>
    BY <1>7 DEF StopRequest, RequestStop, workerVars
  <2> QED
    BY <2>1, MapRequest DEF Collection!AbsNext
<1>8. ASSUME NEW c \in Clients, CallStopAll(c) PROVE Collection!AbsNext
  <2>1. stopRequested' = stopRequested \cup UNION {FlagOf(d) : d \in Devices}
        /\ UNCHANGED <<wpc, owner, fails>>
    BY <1>8 DEF CallStopAll, RequestStopAll, workerVars
  <2> QED
    BY <2>1, MapRequest DEF Collection!AbsNext
<1>9. ASSUME NEW w \in Workers, WorkerStep(w)
      PROVE  Collection!AbsNext \/ UNCHANGED Collections
  <2>1. owner[w] \in Devices
    BY <1>9, RunningOf
       DEF WorkerStep, WorkerTest, WorkerLoad, WorkerCollected, WorkerFailed, WorkerMarkStopped,
           Runs
  <2>2. CASE WorkerTest(w)
    BY <2>1, <2>2, MapWorkerTest DEF Collection!AbsNext
  <2>3. CASE WorkerLoad(w)
    BY <2>3, MapWorkerLoad
  <2>4. CASE WorkerCollected(w) \/ WorkerFailed(w)
    BY <2>1, <2>4, MapCycleEnds DEF Collection!AbsNext
  <2>5. CASE WorkerMarkStopped(w)
    BY <2>1, <2>5, MapWorkerMarkStopped DEF Collection!AbsNext
  <2> QED
    BY <1>9, <2>2, <2>3, <2>4, <2>5 DEF WorkerStep
<1>10. CASE UNCHANGED vars
  BY <1>10, QuietStep DEF vars, storeVars, workerVars
<1> QED
  BY <1>1, <1>2, <1>3, <1>4, <1>5, <1>6, <1>7, <1>8, <1>9, <1>10
     DEF Quiet, Next, Call, CommandStep, StartStep, StopStep, StopAllStep

LEMMA InitMaps == Init => Collection!AbsInit
<1> SUFFICES ASSUME Init PROVE Collection!AbsInit
  OBVIOUS
<1>1. \A d \in Devices : Running(d) = {}
  BY DEF Init, Running
<1> QED
  BY <1>1 DEF Collection!AbsInit, phaseOf, failuresOf, stoppingOf

LEMMA InitIndMap == Init => IndMap /\ Statuses
  BY InitIndType, InitIndOwned, InitConsole, InitReach
     DEF IndMap, IndConsole, IndOwned, Statuses, EndsForAReason, Init

LEMMA NextIndMap ==
    IndMap /\ Statuses /\ Serial /\ [Next]_vars => (IndMap /\ Statuses)'
  BY NextIndType, NextIndOwned, NextConsole, NextStatuses, NextReason
     DEF IndMap, IndConsole, IndOwned, Statuses

(* Serialised commands and their workers do what DeviceCollection promises *)
(* about each device: one collection, in cycles, which ends only after a   *)
(* stop or FailLimit failures in a row, whatever happens to other devices. *)
THEOREM SerialImplementsCollection == Spec /\ []Serial => ImplementsCollection
<1>1. IndMap /\ Serial /\ [Next]_vars => [Collection!AbsNext]_(Collection!absVars)
  BY NextMaps DEF Collections
<1> QED
  BY <1>1, InitMaps, InitIndMap, NextIndMap, PTL
     DEF Spec, ImplementsCollection, Collection!AbsSpec

(* So does the console.                                                    *)
THEOREM ConsoleImplementsCollection ==
    ASSUME \A c, k \in Clients : c = k
    PROVE  Spec => ImplementsCollection
  BY OneClientIsSerial, SerialImplementsCollection, PTL
=============================================================================
