----------------------------- MODULE Resources -----------------------------
(***************************************************************************)
(* The Resources table: what the collection workers insert, what they      *)
(* clean up and what /latest reads.  Each statement or transaction holds   *)
(* the connection's mutex and is one step.  A worker inserts the records   *)
(* of a cycle in one transaction and cleans up in another, so that other   *)
(* workers run and the process may be killed in between.                   *)
(*                                                                         *)
(* SvrTime is what the driver answers, so a later row may have an earlier  *)
(* time.  Each device has one worker (DataTask: OneWorkerPerDevice).       *)
(***************************************************************************)
EXTENDS Naturals, FiniteSets

CONSTANTS
    Devices,
    Times,      \* the values of SvrTime
    Batch,      \* the most records that one response gives
    MaxRows,    \* kMaxRowsPerDevice
    LatestLimit,\* LIMIT of getLatest
    Interval,   \* kCleanupIntervalMs, in sleeps of the shortest length
    MaxId       \* bound: the last AUTOINCREMENT id

ASSUME SizeAssumption ==
    /\ Times \subseteq Nat
    /\ Batch \in Nat \ {0} /\ MaxId \in Nat /\ Interval \in Nat \ {0}
    /\ MaxRows \in Nat /\ LatestLimit \in Nat

(* 100 rows are read, 5000 are kept.                                       *)
ASSUME LimitAssumption == LatestLimit <= MaxRows

VARIABLES
    rows,       \* the table
    lastId,     \* sqlite_sequence
    stage,      \* stage[d]: "ready" for a cycle, "stored" its records, "done"
    elapsed,    \* elapsed[d]: time since lastCleanupTime, counted up to Interval
    missed      \* history: cleanups that were due and did not happen in a row

vars == <<rows, lastId, stage, elapsed, missed>>

Row == [id : 1..MaxId, device : Devices, svr : Times]

(* A worker starts with a cleanup due.                                     *)
Init ==
    /\ rows = {}
    /\ lastId = 0
    /\ stage = [d \in Devices |-> "ready"]
    /\ elapsed = [d \in Devices |-> Interval]
    /\ missed = [d \in Devices |-> 0]

----------------------------------------------------------------------------
(* ORDER BY SvrTime DESC, Id DESC                                          *)

Precedes(r, s) == r.svr > s.svr \/ (r.svr = s.svr /\ r.id > s.id)

Of(table, d) == {r \in table : r.device = d}

(* ROW_NUMBER() - 1 within the device                                      *)
Ahead(table, r) == {s \in Of(table, r.device) : Precedes(s, r)}

Rank(table, r) == Cardinality(Ahead(table, r))

Latest(table, d) == {r \in Of(table, d) : Rank(table, r) < LatestLimit}

(* Two variants with a bug, for mutation runs: the rows of all devices are *)
(* ranked together; every device is trimmed, which is what the unused      *)
(* cleanupResources of the same class does.                                *)
TrimmedTogether(table, d) ==
    {r \in table : Cardinality({s \in table : Precedes(s, r)}) < MaxRows}

TrimmedForAll(table, d) == {r \in table : Rank(table, r) < MaxRows}

(* cleanupResourcesForDevice                                               *)
Trimmed(table, d) ==
    IF MaxRows = 0 THEN table
    ELSE {r \in table : r.device = d => Rank(table, r) < MaxRows}

----------------------------------------------------------------------------
(* A cycle of the worker of device d                                       *)

Records(d, svrs) ==
    {[id |-> lastId + i, device |-> d, svr |-> svrs[i]] : i \in DOMAIN svrs}

(* Variant for a mutation run: one id for a whole batch                    *)
OneIdPerBatch(n) == lastId + 1

IdAfter(n) == lastId + n

(* The response's records go into the table, all or none.                  *)
Insert(d) ==
    /\ stage[d] = "ready"
    /\ \E n \in 1..Batch : \E svrs \in [1..n -> Times] :
           /\ IdAfter(n) <= MaxId
           /\ rows' = rows \cup Records(d, svrs)
           /\ lastId' = IdAfter(n)
    /\ stage' = [stage EXCEPT ![d] = "stored"]
    /\ UNCHANGED <<elapsed, missed>>

(* Variant for a mutation run: no transaction, the first record stays.     *)
InsertFailsHalfWay(d) ==
    /\ stage[d] = "ready"
    /\ lastId < MaxId
    /\ \E t \in Times : rows' = rows \cup Records(d, [i \in {1} |-> t])
    /\ lastId' = lastId + 1
    /\ stage' = [stage EXCEPT ![d] = "done"]
    /\ UNCHANGED <<elapsed, missed>>

(* No connection, no usable response, or an INSERT that fails: AUTOINCREMENT *)
(* is rolled back with the rows.                                           *)
CycleFails(d) ==
    /\ stage[d] = "ready"
    /\ stage' = [stage EXCEPT ![d] = "done"]
    /\ UNCHANGED <<rows, lastId, elapsed, missed>>

Due(d) == elapsed[d] = Interval

NotDue(d) ==
    /\ stage[d] = "stored"
    /\ ~Due(d)
    /\ stage' = [stage EXCEPT ![d] = "done"]
    /\ UNCHANGED <<rows, lastId, elapsed, missed>>

Cleanup(d) ==
    /\ stage[d] = "stored"
    /\ Due(d)
    /\ rows' = Trimmed(rows, d)
    /\ elapsed' = [elapsed EXCEPT ![d] = 0]
    /\ missed' = [missed EXCEPT ![d] = 0]
    /\ stage' = [stage EXCEPT ![d] = "done"]
    /\ UNCHANGED lastId

(* The worker goes on; lastCleanupTime stays.                              *)
CleanupFails(d) ==
    /\ stage[d] = "stored"
    /\ Due(d)
    /\ missed' = [missed EXCEPT ![d] = @ + 1]
    /\ stage' = [stage EXCEPT ![d] = "done"]
    /\ UNCHANGED <<rows, lastId, elapsed>>

(* sleepUntilNextCycle: at least one shortest interval passes.             *)
Sleep(d) ==
    /\ stage[d] = "done"
    /\ \E t \in {t \in 0..Interval : t > elapsed[d]} \cup {Interval} :
           elapsed' = [elapsed EXCEPT ![d] = t]
    /\ stage' = [stage EXCEPT ![d] = "ready"]
    /\ UNCHANGED <<rows, lastId, missed>>

(* Variant for a mutation run: a new worker waits for its first cleanup.   *)
RestartClean(d) ==
    /\ stage[d] = "done"
    /\ stage' = [stage EXCEPT ![d] = "ready"]
    /\ elapsed' = [elapsed EXCEPT ![d] = 0]
    /\ UNCHANGED <<rows, lastId, missed>>

(* The worker ends after a cycle and another one is started.               *)
Restart(d) ==
    /\ stage[d] = "done"
    /\ stage' = [stage EXCEPT ![d] = "ready"]
    /\ elapsed' = [elapsed EXCEPT ![d] = Interval]
    /\ UNCHANGED <<rows, lastId, missed>>

(* The process is killed and started again; what is committed stays.       *)
Crash ==
    /\ stage' = [d \in Devices |-> "ready"]
    /\ elapsed' = [d \in Devices |-> Interval]
    /\ missed' = [d \in Devices |->
           IF stage[d] = "stored" /\ Due(d) THEN missed[d] + 1 ELSE missed[d]]
    /\ UNCHANGED <<rows, lastId>>

Cycle(d) ==
    \/ Insert(d) \/ CycleFails(d) \/ NotDue(d)
    \/ Cleanup(d) \/ CleanupFails(d) \/ Sleep(d) \/ Restart(d)

Next == (\E d \in Devices : Cycle(d)) \/ Crash

Spec == Init /\ [][Next]_vars

----------------------------------------------------------------------------
(* Properties *)

(* Types; ids are used once.                                               *)
TypeOK ==
    /\ rows \subseteq Row
    /\ lastId \in 0..MaxId
    /\ \A r \in rows : r.id <= lastId
    /\ \A r, s \in rows : r.id = s.id => r = s
    /\ stage \in [Devices -> {"ready", "stored", "done"}]
    /\ elapsed \in [Devices -> 0..Interval]
    /\ missed \in [Devices -> Nat]

(* A step that removes rows changes no answer of getLatestResources, for   *)
(* the cleaned device or any other, whatever order the driver's times had. *)
CleanupIsInvisible ==
    [][\A d \in Devices : rows \subseteq rows' \/ Latest(rows', d) = Latest(rows, d)]_vars

(* The table keeps bounded although the driver's answers, the cleanup and  *)
(* the process fail: beyond the limit a device has at most the records of  *)
(* one interval and of one more cycle for each cleanup that was missed.    *)
(* (A limit of 0 turns the cleanup off.)                                   *)
GrowthIsBounded ==
    MaxRows # 0 => \A d \in Devices :
        Cardinality(Of(rows, d)) <= MaxRows + Batch * (Interval + missed[d])

(* Rows are removed by one worker's cleanup only.  The rows of every other *)
(* device stay as they are, also those beyond its limit, and of its own a  *)
(* row goes only for exactly MaxRows newer ones, which stay.               *)
Removes(d) ==
    /\ stage[d] = "stored" /\ stage' = [stage EXCEPT ![d] = "done"]
    /\ rows' \subseteq rows
    /\ \A e \in Devices \ {d} : Of(rows', e) = Of(rows, e)
    /\ \A r \in Of(rows, d) \ rows' : Cardinality({s \in rows' : s \in Ahead(rows, r)}) = MaxRows

KeepsNewest == [][rows \subseteq rows' \/ \E d \in Devices : Removes(d)]_vars
=============================================================================
