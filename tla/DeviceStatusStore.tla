------------------------- MODULE DeviceStatusStore -------------------------
(***************************************************************************)
(* task::DeviceStatusStore: the registry of collection workers.  Every     *)
(* method of the class runs under one mutex, so every operator below is    *)
(* one atomic step; DataTask strings them together without holding the     *)
(* mutex in between.                                                       *)
(*                                                                         *)
(* A worker stands for the std::thread of one collection loop together     *)
(* with the stop flag allocated for it: startDeviceCollect creates the two *)
(* as a pair, and no other flag is ever passed to that thread.             *)
(***************************************************************************)
EXTENDS Naturals, FiniteSets

CONSTANTS
    Devices,    \* device names
    Workers,    \* identities of worker threads, reused once joined
    NoWorker,   \* no map entry
    FailLimit   \* consecutive failures that end a worker (5 in the code)

ASSUME StoreAssumption ==
    /\ NoWorker \notin Workers
    /\ FailLimit \in Nat \ {0}

VARIABLES
    statuses,       \* statuses_: the latest DeviceStatus of each device
    activeDevices,  \* activeDevices_
    workerThreads,  \* workerThreads_: the std::thread of each device
    stopFlags,      \* stopFlags_: the shared flag of each device
    stopRequested   \* the workers whose flag holds true

storeVars == <<statuses, activeDevices, workerThreads, stopFlags, stopRequested>>

(* The fields of DeviceStatus that depend on the run of the loop; the      *)
(* default-constructed record stands for a device without an entry.        *)
DeviceStatus == [connected : BOOLEAN, failCount : 0..FailLimit]
NoStatus == [connected |-> FALSE, failCount |-> 0]

StoreTypeOK ==
    /\ statuses \in [Devices -> DeviceStatus]
    /\ activeDevices \subseteq Devices
    /\ workerThreads \in [Devices -> Workers \cup {NoWorker}]
    /\ stopFlags \in [Devices -> Workers \cup {NoWorker}]
    /\ stopRequested \subseteq Workers

StoreInit ==
    /\ statuses = [d \in Devices |-> NoStatus]
    /\ activeDevices = {}
    /\ workerThreads = [d \in Devices |-> NoWorker]
    /\ stopFlags = [d \in Devices |-> NoWorker]
    /\ stopRequested = {}

-----------------------------------------------------------------------------
(* What the methods return *)

IsActive(d) == d \in activeDevices

(* takeThread: an empty std::thread when the map has no entry              *)
ThreadOf(d) == {workerThreads[d]} \ {NoWorker}

AllThreads == {workerThreads[d] : d \in Devices} \ {NoWorker}

FlagOf(d) == {stopFlags[d]} \ {NoWorker}

-----------------------------------------------------------------------------
(* Methods with a bug, which the mutation runs put in the place of the     *)
(* methods below                                                           *)

(* requestStopAll finds no flag.                                           *)
RequestStopAllLost == UNCHANGED storeVars

(* takeThread copies and does not erase.                                   *)
TakeThreadKeepsEntry(d) == UNCHANGED storeVars

(* addWorker forgets activeDevices_.                                       *)
AddWorkerInactive(d, w) ==
    /\ stopFlags' = [stopFlags EXCEPT ![d] = w]
    /\ workerThreads' = [workerThreads EXCEPT ![d] = w]
    /\ UNCHANGED <<statuses, activeDevices, stopRequested>>

(* requestStop tells the caller that it has set a flag and has not.        *)
RequestStopLost(d) == UNCHANGED storeVars

-----------------------------------------------------------------------------
(* What the methods do *)

RequestStopAll ==
    /\ stopRequested' = stopRequested \cup UNION {FlagOf(d) : d \in Devices}
    /\ UNCHANGED <<statuses, activeDevices, workerThreads, stopFlags>>

TakeAllThreads ==
    /\ workerThreads' = [d \in Devices |-> NoWorker]
    /\ UNCHANGED <<statuses, activeDevices, stopFlags, stopRequested>>

ClearAllWorkers ==
    /\ stopFlags' = [d \in Devices |-> NoWorker]
    /\ activeDevices' = {}
    /\ UNCHANGED <<statuses, workerThreads, stopRequested>>

TakeThread(d) ==
    /\ workerThreads' = [workerThreads EXCEPT ![d] = NoWorker]
    /\ UNCHANGED <<statuses, activeDevices, stopFlags, stopRequested>>

EraseStopFlag(d) ==
    /\ stopFlags' = [stopFlags EXCEPT ![d] = NoWorker]
    /\ UNCHANGED <<statuses, activeDevices, workerThreads, stopRequested>>

(* Move-assigning onto a joinable std::thread calls std::terminate: the    *)
(* caller must check that the map has no thread for d.                     *)
AddWorker(d, w) ==
    /\ activeDevices' = activeDevices \cup {d}
    /\ stopFlags' = [stopFlags EXCEPT ![d] = w]
    /\ workerThreads' = [workerThreads EXCEPT ![d] = w]
    /\ UNCHANGED <<statuses, stopRequested>>

(* The common body of markStartFailed and markStopped                      *)
Unregister(d) ==
    /\ activeDevices' = activeDevices \ {d}
    /\ stopFlags' = [stopFlags EXCEPT ![d] = NoWorker]
    /\ UNCHANGED <<statuses, workerThreads, stopRequested>>

MarkStartFailed(d) == Unregister(d)

MarkStopped(d) == Unregister(d)

(* requestStop on an active device; an inactive one is left alone          *)
RequestStop(d) ==
    /\ stopRequested' = stopRequested \cup FlagOf(d)
    /\ UNCHANGED <<statuses, activeDevices, workerThreads, stopFlags>>

SetLatestStatus(d, status) ==
    /\ statuses' = [statuses EXCEPT ![d] = status]
    /\ UNCHANGED <<activeDevices, workerThreads, stopFlags, stopRequested>>
=============================================================================
