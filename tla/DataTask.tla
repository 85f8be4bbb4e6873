------------------------------ MODULE DataTask ------------------------------
(***************************************************************************)
(* DataTask: starting, running and stopping the collection workers.        *)
(*                                                                         *)
(* A client is a thread that executes commands one after the other: the    *)
(* console loop of main, or an HTTP session thread.  Console mode is the   *)
(* instance with a single client; HTTP mode has one client per session,    *)
(* and nothing serialises their commands.                                  *)
(*                                                                         *)
(* One step of a client or of a worker is the code between two accesses    *)
(* to state shared with other threads: one critical section of the         *)
(* registry's mutex, one read of the Device table, one join.               *)
(***************************************************************************)
EXTENDS DeviceStatusStore

CONSTANTS
    Clients,    \* threads that execute commands
    NoDevice    \* the argument of no command, the device of no worker

ASSUME TaskAssumption == NoDevice \notin Devices

VARIABLES
    device,     \* the Status column of each device, or "absent"
    pc,         \* where each client is in the command it executes
    target,     \* the deviceName argument of that command
    queue,      \* startAll: the devices its loop has not reached
    held,       \* the std::thread objects in the client's local variables
    wpc,        \* where each worker is in runDeviceTask
    owner,      \* the device each worker collects from
    fails,      \* runDeviceTask: the local failCount
    unhooked    \* history: running devices a refused start unregistered

clientVars == <<pc, target, queue, held>>
workerVars == <<wpc, owner, fails>>
vars == <<storeVars, device, clientVars, workerVars, unhooked>>

DeviceRow == {"absent", "offline", "online"}

ClientPc ==
    {"idle",
     "startAll",                                        \* startAll's loop
     "startCheck", "startActive", "startTake", "startErase",
     "startJoin", "startSpawn", "startAdd", "startRefused",
     "stopRequest", "stopTake", "stopErase", "stopJoin", "stopMark",
     "stopAllTake", "stopAllJoin", "stopAllClear",
     "aborted"}                                         \* no process

WorkerPc ==
    {"free",    \* no thread has this identity
     "loop",    \* at the loop test, or asleep until the next cycle
     "load",    \* at the head of a cycle
     "query",   \* waiting for the driver
     "leave",   \* out of the loop, before markStopped
     "done"}    \* returned, to be joined

TypeOK ==
    /\ StoreTypeOK
    /\ device \in [Devices -> DeviceRow]
    /\ pc \in [Clients -> ClientPc]
    /\ target \in [Clients -> Devices \cup {NoDevice}]
    /\ queue \in [Clients -> SUBSET Devices]
    /\ held \in [Clients -> SUBSET Workers]
    /\ wpc \in [Workers -> WorkerPc]
    /\ owner \in [Workers -> Devices \cup {NoDevice}]
    /\ fails \in [Workers -> 0..FailLimit]
    /\ unhooked \subseteq Devices

(* The service starts without workers on whatever the database file holds. *)
Init ==
    /\ StoreInit
    /\ device \in [Devices -> DeviceRow]
    /\ pc = [c \in Clients |-> "idle"]
    /\ target = [c \in Clients |-> NoDevice]
    /\ queue = [c \in Clients |-> {}]
    /\ held = [c \in Clients |-> {}]
    /\ wpc = [w \in Workers |-> "free"]
    /\ owner = [w \in Workers |-> NoDevice]
    /\ fails = [w \in Workers |-> 0]
    /\ unhooked = {}

-----------------------------------------------------------------------------
(* Threads *)

(* The workers of d whose thread has not returned                          *)
Running(d) ==
    {w \in Workers : owner[w] = d /\ wpc[w] \in {"loop", "load", "query", "leave"}}

Goto(c, label) == pc' = [pc EXCEPT ![c] = label]

(* A command for d is called, or startAll's loop reaches d.                *)
Enter(c, label, d) ==
    /\ Goto(c, label)
    /\ target' = [target EXCEPT ![c] = d]

(* The command returns: to its caller, or to the loop of startAll.         *)
Return(c) ==
    /\ Goto(c, IF queue[c] = {} THEN "idle" ELSE "startAll")
    /\ target' = [target EXCEPT ![c] = NoDevice]
    /\ UNCHANGED queue

(* join returns: the thread objects of S are gone and their identities free *)
Join(S) ==
    /\ \A w \in S : wpc[w] = "done"
    /\ wpc' = [w \in Workers |-> IF w \in S THEN "free" ELSE wpc[w]]
    /\ owner' = [w \in Workers |-> IF w \in S THEN NoDevice ELSE owner[w]]
    /\ fails' = [w \in Workers |-> IF w \in S THEN 0 ELSE fails[w]]

Becomes(w, label) == wpc' = [wpc EXCEPT ![w] = label]

-----------------------------------------------------------------------------
(* Steps with a bug, which the mutation runs put in the place of the steps *)
(* below                                                                   *)

(* startDeviceCollect drops the stale thread instead of joining it.        *)
StartDetaches(c) ==
    /\ pc[c] = "startJoin"
    /\ held' = [held EXCEPT ![c] = {}]
    /\ Goto(c, "startSpawn")
    /\ UNCHANGED <<storeVars, device, target, queue, workerVars, unhooked>>

(* stopDeviceCollect does not wait.                                        *)
StopDetaches(c) ==
    /\ pc[c] = "stopJoin"
    /\ held' = [held EXCEPT ![c] = {}]
    /\ Goto(c, "stopMark")
    /\ UNCHANGED <<storeVars, device, target, queue, workerVars, unhooked>>

(* stopAll does not wait for the last threads.                             *)
StopAllDetaches(c) ==
    /\ pc[c] = "stopAllJoin"
    /\ held' = [held EXCEPT ![c] = {}]
    /\ Goto(c, "stopAllClear")
    /\ UNCHANGED <<storeVars, device, target, queue, workerVars, unhooked>>

(* The loop test ignores the flag.                                         *)
WorkerTestIgnoresFlag(w) ==
    /\ wpc[w] = "loop"
    /\ Becomes(w, "load")
    /\ UNCHANGED <<storeVars, device, clientVars, owner, fails, unhooked>>

(* A cycle does not look at the Status column.                             *)
WorkerLoadsAnyRow(w) ==
    /\ wpc[w] = "load"
    /\ Becomes(w, "query")
    /\ UNCHANGED <<storeVars, device, clientVars, owner, fails, unhooked>>

(* Failures have no limit.                                                 *)
WorkerFailsForever(w) ==
    /\ wpc[w] \in {"load", "query"}
    /\ fails' = [fails EXCEPT ![w] = @ + 1]
    /\ SetLatestStatus(owner[w], [connected |-> FALSE, failCount |-> fails[w] + 1])
    /\ Becomes(w, "loop")
    /\ UNCHANGED <<device, clientVars, owner, unhooked>>

(* The worker gives up one failure early.                                  *)
WorkerFailsEarly(w) ==
    /\ wpc[w] \in {"load", "query"}
    /\ fails' = [fails EXCEPT ![w] = @ + 1]
    /\ SetLatestStatus(owner[w], [connected |-> FALSE, failCount |-> fails[w] + 1])
    /\ Becomes(w, IF fails[w] + 2 >= FailLimit THEN "leave" ELSE "loop")
    /\ UNCHANGED <<device, clientVars, owner, unhooked>>

(* The status is written before the counter is incremented.                *)
WorkerReportsOldCount(w) ==
    /\ wpc[w] \in {"load", "query"}
    /\ fails' = [fails EXCEPT ![w] = @ + 1]
    /\ SetLatestStatus(owner[w], [connected |-> FALSE, failCount |-> fails[w]])
    /\ Becomes(w, IF fails[w] + 1 >= FailLimit THEN "leave" ELSE "loop")
    /\ UNCHANGED <<device, clientVars, owner, unhooked>>

(* The worker needs a lock that a command holds while it joins.            *)
WorkerMarksUnderLock(w) ==
    /\ wpc[w] = "leave"
    /\ \A c \in Clients : w \notin held[c]
    /\ MarkStopped(owner[w])
    /\ Becomes(w, "done")
    /\ unhooked' = unhooked \ {owner[w]}
    /\ UNCHANGED <<device, clientVars, owner, fails>>

-----------------------------------------------------------------------------
(* startDeviceCollect and startAll *)

CallStart(c, d) ==
    /\ pc[c] = "idle"
    /\ Enter(c, "startCheck", d)
    /\ UNCHANGED <<storeVars, device, queue, held, workerVars, unhooked>>

(* startAll reads the Device table once and loops over the online rows of  *)
(* that copy.                                                              *)
CallStartAll(c) ==
    /\ pc[c] = "idle"
    /\ queue' = [queue EXCEPT ![c] = {d \in Devices : device[d] = "online"}]
    /\ queue'[c] # {}
    /\ Goto(c, "startAll")
    /\ UNCHANGED <<storeVars, device, target, held, workerVars, unhooked>>

StartNext(c) ==
    /\ pc[c] = "startAll"
    /\ \E d \in queue[c] :
        /\ Enter(c, "startCheck", d)
        /\ queue' = [queue EXCEPT ![c] = @ \ {d}]
    /\ UNCHANGED <<storeVars, device, held, workerVars, unhooked>>

(* The device must exist and be online; data points that are missing and   *)
(* cannot be initialised, or a failing read, refuse the start as well.     *)
StartCheck(c) ==
    /\ pc[c] = "startCheck"
    /\ \/ Goto(c, "startRefused")
       \/ device[target[c]] = "online" /\ Goto(c, "startActive")
    /\ UNCHANGED <<storeVars, device, target, queue, held, workerVars, unhooked>>

StartIsActive(c) ==
    /\ pc[c] = "startActive"
    /\ Goto(c, IF IsActive(target[c]) THEN "startRefused" ELSE "startTake")
    /\ UNCHANGED <<storeVars, device, target, queue, held, workerVars, unhooked>>

StartTakeThread(c) ==
    /\ pc[c] = "startTake"
    /\ held' = [held EXCEPT ![c] = ThreadOf(target[c])]
    /\ TakeThread(target[c])
    /\ Goto(c, "startErase")
    /\ UNCHANGED <<device, target, queue, workerVars, unhooked>>

StartEraseFlag(c) ==
    /\ pc[c] = "startErase"
    /\ EraseStopFlag(target[c])
    /\ Goto(c, "startJoin")
    /\ UNCHANGED <<device, target, queue, held, workerVars, unhooked>>

StartJoin(c) ==
    /\ pc[c] = "startJoin"
    /\ Join(held[c])
    /\ held' = [held EXCEPT ![c] = {}]
    /\ Goto(c, "startSpawn")
    /\ UNCHANGED <<storeVars, device, target, queue, unhooked>>

(* The thread runs from here on, before the registry knows it.  A new      *)
(* identity is one whose old flag is gone from the registry too.           *)
StartSpawn(c) ==
    /\ pc[c] = "startSpawn"
    /\ \E w \in Workers :
        /\ wpc[w] = "free"
        /\ \A d \in Devices : stopFlags[d] # w
        /\ stopRequested' = stopRequested \ {w}
        /\ wpc' = [wpc EXCEPT ![w] = "loop"]
        /\ owner' = [owner EXCEPT ![w] = target[c]]
        /\ fails' = [fails EXCEPT ![w] = 0]
        /\ held' = [held EXCEPT ![c] = {w}]
    /\ Goto(c, "startAdd")
    /\ UNCHANGED <<statuses, activeDevices, workerThreads, stopFlags,
                   device, target, queue, unhooked>>

(* std::thread reports that it cannot create a thread.                     *)
StartSpawnFails(c) ==
    /\ pc[c] = "startSpawn"
    /\ Goto(c, "startRefused")
    /\ UNCHANGED <<storeVars, device, target, queue, held, workerVars, unhooked>>

StartAddWorker(c) ==
    /\ pc[c] = "startAdd"
    /\ workerThreads[target[c]] = NoWorker
    /\ \E w \in held[c] : AddWorker(target[c], w)
    /\ held' = [held EXCEPT ![c] = {}]
    /\ Return(c)
    /\ UNCHANGED <<device, workerVars, unhooked>>

(* The map still has a joinable thread for the device: assigning over it   *)
(* is std::terminate, and the process is gone with all its threads.        *)
StartAborts(c) ==
    /\ pc[c] = "startAdd"
    /\ workerThreads[target[c]] # NoWorker
    /\ pc' = [k \in Clients |-> "aborted"]
    /\ target' = [k \in Clients |-> NoDevice]
    /\ queue' = [k \in Clients |-> {}]
    /\ held' = [k \in Clients |-> {}]
    /\ wpc' = [w \in Workers |-> "free"]
    /\ owner' = [w \in Workers |-> NoDevice]
    /\ fails' = [w \in Workers |-> 0]
    /\ statuses' = [d \in Devices |-> NoStatus]
    /\ activeDevices' = {}
    /\ workerThreads' = [d \in Devices |-> NoWorker]
    /\ stopFlags' = [d \in Devices |-> NoWorker]
    /\ stopRequested' = {}
    /\ unhooked' = {}
    /\ UNCHANGED device

(* The catch block, which does not ask why the start was refused           *)
StartRefused(c) ==
    /\ pc[c] = "startRefused"
    /\ MarkStartFailed(target[c])
    /\ unhooked' = unhooked \cup {owner[w] : w \in Running(target[c])}
    /\ Return(c)
    /\ UNCHANGED <<device, held, workerVars>>

-----------------------------------------------------------------------------
(* stopDeviceCollect *)

(* For a device without a row the command returns at once.                 *)
CallStop(c, d) ==
    /\ pc[c] = "idle"
    /\ device[d] # "absent"
    /\ Enter(c, "stopRequest", d)
    /\ UNCHANGED <<storeVars, device, queue, held, workerVars, unhooked>>

StopNotRunning(c) ==
    /\ pc[c] = "stopRequest"
    /\ ~IsActive(target[c])
    /\ Return(c)
    /\ UNCHANGED <<storeVars, device, held, workerVars, unhooked>>

StopRequest(c) ==
    /\ pc[c] = "stopRequest"
    /\ IsActive(target[c])
    /\ RequestStop(target[c])
    /\ Goto(c, "stopTake")
    /\ UNCHANGED <<device, target, queue, held, workerVars, unhooked>>

StopTakeThread(c) ==
    /\ pc[c] = "stopTake"
    /\ held' = [held EXCEPT ![c] = ThreadOf(target[c])]
    /\ TakeThread(target[c])
    /\ Goto(c, "stopErase")
    /\ UNCHANGED <<device, target, queue, workerVars, unhooked>>

StopEraseFlag(c) ==
    /\ pc[c] = "stopErase"
    /\ EraseStopFlag(target[c])
    /\ Goto(c, "stopJoin")
    /\ UNCHANGED <<device, target, queue, held, workerVars, unhooked>>

StopJoin(c) ==
    /\ pc[c] = "stopJoin"
    /\ Join(held[c])
    /\ held' = [held EXCEPT ![c] = {}]
    /\ Goto(c, "stopMark")
    /\ UNCHANGED <<storeVars, device, target, queue, unhooked>>

StopMarkStopped(c) ==
    /\ pc[c] = "stopMark"
    /\ MarkStopped(target[c])
    /\ Return(c)
    /\ UNCHANGED <<device, held, workerVars, unhooked>>

-----------------------------------------------------------------------------
(* stopAll *)

CallStopAll(c) ==
    /\ pc[c] = "idle"
    /\ RequestStopAll
    /\ Goto(c, "stopAllTake")
    /\ UNCHANGED <<device, target, queue, held, workerVars, unhooked>>

StopAllTakeThreads(c) ==
    /\ pc[c] = "stopAllTake"
    /\ held' = [held EXCEPT ![c] = AllThreads]
    /\ TakeAllThreads
    /\ Goto(c, "stopAllJoin")
    /\ UNCHANGED <<device, target, queue, workerVars, unhooked>>

(* The threads are joined one after the other; which of them is first      *)
(* makes no difference to when the last one is joined.                     *)
StopAllJoin(c) ==
    /\ pc[c] = "stopAllJoin"
    /\ \E w \in held[c] :
        /\ Join({w})
        /\ held' = [held EXCEPT ![c] = @ \ {w}]
    /\ UNCHANGED <<storeVars, device, pc, target, queue, unhooked>>

StopAllJoined(c) ==
    /\ pc[c] = "stopAllJoin"
    /\ held[c] = {}
    /\ Goto(c, "stopAllClear")
    /\ UNCHANGED <<storeVars, device, target, queue, held, workerVars, unhooked>>

StopAllClearWorkers(c) ==
    /\ pc[c] = "stopAllClear"
    /\ ClearAllWorkers
    /\ Return(c)
    /\ UNCHANGED <<device, held, workerVars, unhooked>>

-----------------------------------------------------------------------------
(* runDeviceTask *)

(* The loop test, and the sleep before it: sleeping and testing have the   *)
(* same effect, and the sleep ends as soon as the flag is set.             *)
WorkerTest(w) ==
    /\ wpc[w] = "loop"
    /\ Becomes(w, IF w \in stopRequested THEN "leave" ELSE "load")
    /\ UNCHANGED <<storeVars, device, clientVars, owner, fails, unhooked>>

(* The row is read again in every cycle, by the name the worker started    *)
(* with.                                                                   *)
WorkerLoad(w) ==
    /\ wpc[w] = "load"
    /\ device[owner[w]] = "online"
    /\ Becomes(w, "query")
    /\ UNCHANGED <<storeVars, device, clientVars, owner, fails, unhooked>>

(* The driver answered and the records are stored.                         *)
WorkerCollected(w) ==
    /\ wpc[w] = "query"
    /\ Becomes(w, "loop")
    /\ fails' = [fails EXCEPT ![w] = 0]
    /\ SetLatestStatus(owner[w], [connected |-> TRUE, failCount |-> 0])
    /\ UNCHANGED <<device, clientVars, owner, unhooked>>

(* Any stage of the cycle threw: the row is gone or offline, no points, no *)
(* connection, no answer, a response that does not parse, a failed insert. *)
WorkerFailed(w) ==
    /\ wpc[w] \in {"load", "query"}
    /\ fails' = [fails EXCEPT ![w] = @ + 1]
    /\ SetLatestStatus(owner[w], [connected |-> FALSE, failCount |-> fails[w] + 1])
    /\ Becomes(w, IF fails[w] + 1 >= FailLimit THEN "leave" ELSE "loop")
    /\ UNCHANGED <<device, clientVars, owner, unhooked>>

WorkerMarkStopped(w) ==
    /\ wpc[w] = "leave"
    /\ MarkStopped(owner[w])
    /\ Becomes(w, "done")
    /\ unhooked' = unhooked \ {owner[w]}
    /\ UNCHANGED <<device, clientVars, owner, fails>>

-----------------------------------------------------------------------------
(* The Device table, as create_device, update_device and delete_device     *)
(* change it.  None of the three looks at the workers.                     *)

CreateDevice(c, d, status) ==
    /\ pc[c] = "idle"
    /\ device[d] = "absent"
    /\ device' = [device EXCEPT ![d] = status]
    /\ UNCHANGED <<storeVars, clientVars, workerVars, unhooked>>

(* d is the old name; a rename needs a name that is not taken.             *)
UpdateDevice(c, d, name, status) ==
    /\ pc[c] = "idle"
    /\ device[d] # "absent"
    /\ name = d \/ device[name] = "absent"
    /\ device' = [device EXCEPT ![d] = "absent", ![name] = status]
    /\ UNCHANGED <<storeVars, clientVars, workerVars, unhooked>>

DeleteDevice(c, d) ==
    /\ pc[c] = "idle"
    /\ device[d] # "absent"
    /\ device' = [device EXCEPT ![d] = "absent"]
    /\ UNCHANGED <<storeVars, clientVars, workerVars, unhooked>>

-----------------------------------------------------------------------------
(* What a client does once it is in a command                              *)
StartStep(c) ==
    \/ StartNext(c) \/ StartCheck(c) \/ StartIsActive(c)
    \/ StartTakeThread(c) \/ StartEraseFlag(c) \/ StartJoin(c)
    \/ StartSpawn(c) \/ StartSpawnFails(c)
    \/ StartAddWorker(c) \/ StartAborts(c) \/ StartRefused(c)

StopStep(c) ==
    \/ StopNotRunning(c) \/ StopRequest(c) \/ StopTakeThread(c)
    \/ StopEraseFlag(c) \/ StopJoin(c) \/ StopMarkStopped(c)

StopAllStep(c) ==
    \/ StopAllTakeThreads(c) \/ StopAllJoin(c)
    \/ StopAllJoined(c) \/ StopAllClearWorkers(c)

CommandStep(c) == StartStep(c) \/ StopStep(c) \/ StopAllStep(c)

DeviceCommand(c) ==
    \E d \in Devices, status \in {"offline", "online"} :
        \/ CreateDevice(c, d, status)
        \/ \E name \in Devices : UpdateDevice(c, d, name, status)
        \/ DeleteDevice(c, d)

Call(c) ==
    \/ \E d \in Devices : CallStart(c, d) \/ CallStop(c, d)
    \/ CallStartAll(c)
    \/ CallStopAll(c)
    \/ DeviceCommand(c)

WorkerStep(w) ==
    \/ WorkerTest(w) \/ WorkerLoad(w) \/ WorkerCollected(w)
    \/ WorkerFailed(w) \/ WorkerMarkStopped(w)

Next ==
    \/ \E c \in Clients : Call(c) \/ CommandStep(c)
    \/ \E w \in Workers : WorkerStep(w)

Spec == Init /\ [][Next]_vars

(* The scheduler runs every thread that can run.  For a worker this also   *)
(* says that its driver answers or drops the connection: DriverClient sets *)
(* no timeout.  No command has to be called.                               *)
Fairness ==
    /\ \A c \in Clients : WF_vars(CommandStep(c))
    /\ \A w \in Workers : WF_vars(WorkerStep(w))

FairSpec == Spec /\ Fairness

-----------------------------------------------------------------------------
(* Safety, for any number of clients *)

(* The thread object of a worker that has not been joined is in exactly    *)
(* one place, the registry or one client's local variable, and an identity *)
(* is free only when no thread object refers to it: takeThread and         *)
(* takeAllThreads move, so nothing is joined twice and nothing is lost.    *)
HandleOwnership ==
    \A w \in Workers :
        LET inMap == {d \in Devices : workerThreads[d] = w}
            inHand == {c \in Clients : w \in held[c]}
        IN  IF wpc[w] = "free" THEN inMap = {} /\ inHand = {}
            ELSE \/ inHand = {} /\ \E d \in Devices : inMap = {d}
                 \/ inMap = {} /\ \E c \in Clients : inHand = {c}

(* Whatever is registered under a device's name collects from that device: *)
(* a command for one device never reaches the worker of another.           *)
RegisteredUnderOwner ==
    \A d \in Devices :
        /\ workerThreads[d] # NoWorker => owner[workerThreads[d]] = d
        /\ stopFlags[d] # NoWorker /\ wpc[stopFlags[d]] # "free"
                => owner[stopFlags[d]] = d

(* A worker ends for one of the two reasons the code has, and never        *)
(* because of what happened to another device.                             *)
EndsForAReason ==
    \A w \in Workers :
        wpc[w] \in {"leave", "done"} => w \in stopRequested \/ fails[w] = FailLimit

-----------------------------------------------------------------------------
(* Safety with a single client, the console *)

(* Two workers never collect from the same device at the same time.        *)
OneWorkerPerDevice == \A d \in Devices : \A v, w \in Running(d) : v = w

(* The process does not end because of a registration.                     *)
NeverAborts == \A c \in Clients : pc[c] # "aborted"

(* When a stop is about to report "stopped", the device has no worker.     *)
StopIsFinal ==
    \A c \in Clients : pc[c] = "stopMark" => Running(target[c]) = {}

(* When stop_all is about to clear the registry, nothing runs.             *)
StopAllIsFinal ==
    \A c \in Clients : pc[c] = "stopAllClear" => \A d \in Devices : Running(d) = {}

(* A worker that still runs can be stopped through the registry, unless a  *)
(* refused start has unregistered it or a command is handling it.          *)
RunningIsReachable ==
    \A w \in Workers :
        (wpc[w] \in {"loop", "load", "query"} /\ w \notin stopRequested)
            => \/ stopFlags[owner[w]] = w /\ IsActive(owner[w])
               \/ owner[w] \in unhooked
               \/ \E c \in Clients : pc[c] = "startAdd" /\ w \in held[c]

(* No command waits for a worker that nobody has asked to stop, unless a   *)
(* refused start has unregistered it.                                      *)
JoinsOnlyStopping ==
    \A c \in Clients : \A w \in held[c] :
        pc[c] \in {"startJoin", "stopJoin", "stopAllJoin"}
            => w \in stopRequested \/ wpc[w] \in {"leave", "done"} \/ owner[w] \in unhooked

(* While a worker counts failures, get_status shows the count: no other    *)
(* worker's result overwrites it.                                          *)
StatusIsOwn ==
    \A w \in Workers :
        (wpc[w] \in {"loop", "load", "query", "leave"} /\ fails[w] > 0)
            => statuses[owner[w]] = [connected |-> FALSE, failCount |-> fails[w]]

-----------------------------------------------------------------------------
(* Refinement with a single client, the console: the worker that runs for  *)
(* a device is its collection.                                             *)

phaseOf ==
    [d \in Devices |->
        IF Running(d) = {} THEN "stopped"
        ELSE IF \E w \in Running(d) : wpc[w] \in {"load", "query"} THEN "collecting"
        ELSE "resting"]

stoppingOf == {d \in Devices : Running(d) \cap stopRequested # {}}

failuresOf ==
    [d \in Devices |->
        IF Running(d) = {} THEN 0 ELSE fails[CHOOSE w \in Running(d) : TRUE]]

Collection ==
    INSTANCE DeviceCollection
        WITH phase <- phaseOf, stopping <- stoppingOf, failures <- failuresOf

(* Every step of the threads, the registry and the commands is a step of   *)
(* the abstract collections or leaves them alone.                          *)
ImplementsCollection == Collection!AbsSpec

(* Under the scheduler's fairness a cycle that began ends, and a collection *)
(* that was asked to stop or has failed too often finishes.                *)
CollectionsProgress == Collection!AbsFairness

-----------------------------------------------------------------------------
(* Liveness *)

(* None of the device commands stops a worker, but a device that stays     *)
(* deleted or offline loses its worker for good: every cycle fails.        *)
OfflineDeviceDrains ==
    \A d \in Devices :
        <>[](device[d] # "online") => <>[](Running(d) = {})

(* stop_device_collect returns.                                            *)
StopReturns ==
    \A c \in Clients : pc[c] = "stopRequest" ~> pc[c] = "idle"

(* stop_all returns if no refused start preceded it.                       *)
StopAllReturns ==
    \A c \in Clients : (pc[c] = "stopAllTake" /\ unhooked = {}) ~> pc[c] = "idle"

-----------------------------------------------------------------------------
(* What the documentation says and the code does not do *)

(* README.md: "stop_all stops all active collection workers".              *)
StopAllAlwaysReturns ==
    \A c \in Clients : pc[c] = "stopAllTake" ~> pc[c] = "idle"
=============================================================================
