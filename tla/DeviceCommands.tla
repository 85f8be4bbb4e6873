--------------------------- MODULE DeviceCommands ---------------------------
(***************************************************************************)
(* create_device, update_device, delete_device, and the initialisation of  *)
(* data points that the first two and the collection share.                *)
(*                                                                         *)
(* CommandProcessor and DataTask call SQLiteManager several times for one  *)
(* command and hold no lock in between, so what they read may be stale     *)
(* when they use it.  Commanders execute device commands; every actor,     *)
(* collection workers included, may initialise the points of a device that *)
(* has none.                                                               *)
(***************************************************************************)
EXTENDS SQLiteManager, FiniteSets

CONSTANTS
    Actors,         \* threads that use the database
    Commanders,     \* those of them that execute device commands
    Nothing,        \* a local variable that is out of scope
    Faults          \* statements and model files may fail, the process be killed

ASSUME CommandsAssumption ==
    /\ Commanders \subseteq Actors
    /\ Nothing \notin Models
    /\ Faults \in BOOLEAN

VARIABLES
    db,         \* the committed database
    nextId,     \* AUTOINCREMENT of Device
    pc,         \* where each actor is
    request,    \* the fields of the command it executes
    before,     \* handleUpdateDevice: the row read before the update
    copy,       \* initDataPointsByDevice: the device read
    tainted     \* history: names whose points were written for a device that
                \* had changed meanwhile, or by an update that stopped half way

vars == <<db, nextId, pc, request, before, copy, tainted>>

Request ==
    [old : Names, name : Names, model : Models \cup {Nothing},
     status : Status \cup {"keep"}]

DeviceCopy == [name : Names, id : 1..MaxId, model : Models]

Pc == {"idle", "create", "delete", "updateRead", "updateWrite", "initRead", "initReplace"}

TypeOK ==
    /\ db \in Database
    /\ nextId \in 1..(MaxId + 1)
    /\ pc \in [Actors -> Pc]
    /\ request \in [Actors -> Request \cup {Nothing}]
    /\ before \in [Actors -> DeviceRow \cup {Nothing}]
    /\ copy \in [Actors -> DeviceCopy \cup {Nothing}]
    /\ tainted \subseteq Names

Init ==
    /\ db = [device |-> [n \in Names |-> NoRow], points |-> [n \in Names |-> {}]]
    /\ nextId = 1
    /\ pc = [a \in Actors |-> "idle"]
    /\ request = [a \in Actors |-> Nothing]
    /\ before = [a \in Actors |-> Nothing]
    /\ copy = [a \in Actors |-> Nothing]
    /\ tainted = {}

-----------------------------------------------------------------------------

Goto(a, label) == pc' = [pc EXCEPT ![a] = label]

(* The command is over, with success or with an error.                     *)
Return(a) ==
    /\ Goto(a, "idle")
    /\ request' = [request EXCEPT ![a] = Nothing]
    /\ before' = [before EXCEPT ![a] = Nothing]
    /\ copy' = [copy EXCEPT ![a] = Nothing]

Call(a, label, old, n, m, status) ==
    /\ pc[a] = "idle"
    /\ Goto(a, label)
    /\ request' = [request EXCEPT ![a] =
                      [old |-> old, name |-> n, model |-> m, status |-> status]]
    /\ UNCHANGED <<db, nextId, before, copy, tainted>>

(* Any call of SQLiteManager may throw without having changed a row.       *)
Throws(a) ==
    /\ Faults
    /\ pc[a] # "idle"
    /\ Return(a)
    /\ UNCHANGED <<db, nextId, tainted>>

-----------------------------------------------------------------------------
(* create_device *)

CallCreate(a, n, m, status) ==
    /\ ~Exists(db, n)
    /\ Call(a, "create", n, n, m, status)

CreateDevice(a) ==
    /\ pc[a] = "create"
    /\ ~Exists(db, request[a].name)
    /\ nextId <= MaxId
    /\ db' = InsertDevice(db, request[a].name,
                 [id |-> nextId, model |-> request[a].model, status |-> request[a].status])
    /\ nextId' = nextId + 1
    /\ Goto(a, "initRead")
    /\ UNCHANGED <<request, before, copy, tainted>>

(* Another command created the device after the first check (or the bound  *)
(* MaxId is reached).                                                      *)
CreateRefused(a) ==
    /\ pc[a] = "create"
    /\ Exists(db, request[a].name) \/ nextId > MaxId
    /\ Return(a)
    /\ UNCHANGED <<db, nextId, tainted>>

(* delete_device *)

CallDelete(a, n) ==
    /\ Exists(db, n)
    /\ Call(a, "delete", n, n, Nothing, "keep")

DeleteRow(a) ==
    /\ pc[a] = "delete"
    /\ Exists(db, request[a].name)
    /\ db' = DeleteDevice(db, request[a].name)
    /\ tainted' = tainted \ {request[a].name}
    /\ Return(a)
    /\ UNCHANGED nextId

DeleteRefused(a) ==
    /\ pc[a] = "delete"
    /\ ~Exists(db, request[a].name)
    /\ Return(a)
    /\ UNCHANGED <<db, nextId, tainted>>

(* update_device; status "keep": the request has no status field.          *)

CallUpdate(a, old, n, m, status) ==
    /\ Exists(db, old)
    /\ Call(a, "updateRead", old, n, m, status)

UpdateRead(a) ==
    /\ pc[a] = "updateRead"
    /\ Exists(db, request[a].old)
    /\ before' = [before EXCEPT ![a] = db.device[request[a].old]]
    /\ Goto(a, "updateWrite")
    /\ UNCHANGED <<db, nextId, request, copy, tainted>>

(* Two bugs for the mutation runs: the field is written as it came, or the *)
(* parser's default is taken for the caller's wish.                        *)
StatusAsSent(a) == request[a].status

StatusByDefault(a) ==
    IF request[a].status = "keep" THEN "online" ELSE request[a].status

(* A field that the request leaves out keeps the value read before.        *)
StatusToWrite(a) ==
    IF request[a].status = "keep" THEN before[a].status ELSE request[a].status

UpdateAllowed(a) ==
    /\ Exists(db, request[a].old)
    /\ request[a].name = request[a].old \/ ~Exists(db, request[a].name)

UpdateWrite(a) ==
    LET r == request[a] IN
    /\ pc[a] = "updateWrite"
    /\ UpdateAllowed(a)
    /\ ~UpdateBlocked(db, r.old, r.name)
    /\ db' = Updated(db, r.old, r.name, r.model, StatusToWrite(a))
    /\ tainted' =
          IF db.device[r.old].model # r.model THEN tainted \ {r.old, r.name}
          ELSE IF r.old \in tainted THEN (tainted \ {r.old}) \cup {r.name}
          ELSE tainted
    /\ IF before[a].model # r.model
       THEN Goto(a, "initRead") /\ UNCHANGED <<request, before, copy>>
       ELSE Return(a)
    /\ UNCHANGED nextId

(* The update stops after a statement: the rename of the points is refused, *)
(* or a statement fails.  The rows already written stay.                   *)
UpdateHalf(a) ==
    LET r == request[a] IN
    /\ pc[a] = "updateWrite"
    /\ UpdateAllowed(a)
    /\ Faults \/ UpdateBlocked(db, r.old, r.name)
    /\ db' \in HalfUpdated(db, r.old, r.name, r.model, StatusToWrite(a))
    /\ tainted' = tainted \cup {r.old, r.name}
    /\ Return(a)
    /\ UNCHANGED nextId

UpdateRefused(a) ==
    /\ \/ pc[a] = "updateRead" /\ ~Exists(db, request[a].old)
       \/ pc[a] = "updateWrite" /\ ~UpdateAllowed(a)
    /\ Return(a)
    /\ UNCHANGED <<db, nextId, tainted>>

-----------------------------------------------------------------------------
(* initDataPointsByDevice *)

(* startDeviceCollect and every cycle of a worker initialise the points of *)
(* a device that has none.  stepRow takes an error for the end of the      *)
(* rows, so points that are there may seem to be missing.                  *)
CallInit(a, n) ==
    /\ db.points[n] = {} \/ Faults
    /\ Call(a, "initRead", n, n, Nothing, "keep")

InitRead(a) ==
    LET n == request[a].name IN
    /\ pc[a] = "initRead"
    /\ Exists(db, n)
    /\ copy' = [copy EXCEPT ![a] =
                   [name |-> n, id |-> db.device[n].id, model |-> db.device[n].model]]
    /\ Goto(a, "initReplace")
    /\ UNCHANGED <<db, nextId, request, before, tainted>>

(* The device is gone, or its model cannot be loaded or parsed.            *)
InitFails(a) ==
    /\ \/ pc[a] = "initRead" /\ ~Exists(db, request[a].name)
       \/ pc[a] = "initReplace" /\ Faults
    /\ Return(a)
    /\ UNCHANGED <<db, nextId, tainted>>

(* Is the copy still what the Device table says?                           *)
Current(c) ==
    /\ Exists(db, c.name)
    /\ db.device[c.name].id = c.id
    /\ db.device[c.name].model = c.model

InitReplace(a) ==
    LET c == copy[a] IN
    /\ pc[a] = "initReplace"
    /\ db' = ReplaceDataPoints(db, c.name, c.id, c.model)
    /\ tainted' = IF Current(c) THEN tainted \ {c.name} ELSE tainted \cup {c.name}
    /\ Return(a)
    /\ UNCHANGED nextId

-----------------------------------------------------------------------------

(* The process is killed and started again on the database file.           *)
Crash ==
    /\ Faults
    /\ pc' = [a \in Actors |-> "idle"]
    /\ request' = [a \in Actors |-> Nothing]
    /\ before' = [a \in Actors |-> Nothing]
    /\ copy' = [a \in Actors |-> Nothing]
    /\ UNCHANGED <<db, nextId, tainted>>

DeviceCommand(a) ==
    \E n \in Names :
        \/ \E m \in Models, status \in Status : CallCreate(a, n, m, status)
        \/ \E m \in Models, old \in Names, status \in Status \cup {"keep"} :
               CallUpdate(a, old, n, m, status)
        \/ CallDelete(a, n)

Step(a) ==
    \/ CreateDevice(a) \/ CreateRefused(a)
    \/ DeleteRow(a) \/ DeleteRefused(a)
    \/ UpdateRead(a) \/ UpdateWrite(a) \/ UpdateHalf(a) \/ UpdateRefused(a)
    \/ InitRead(a) \/ InitFails(a) \/ InitReplace(a)
    \/ Throws(a)

Next ==
    \/ \E a \in Commanders : DeviceCommand(a)
    \/ \E a \in Actors : Step(a) \/ \E n \in Names : CallInit(a, n)
    \/ Crash

Spec == Init /\ [][Next]_vars

-----------------------------------------------------------------------------
(* A device has no points or exactly those of its own id and model; a name *)
(* without a device has none.                                              *)
Consistent(n) ==
    IF Exists(db, n)
    THEN db.points[n] \in {{}, PointsFor(db.device[n].id, db.device[n].model)}
    ELSE db.points[n] = {}

(* The only ways to points that do not fit their device are the two that   *)
(* taint a name: an initialisation from a device that has changed since it *)
(* was read, and an update that stops half way.  A crash at any other      *)
(* moment, a failing statement or a race of commands does no harm.         *)
DamageIsTainted == \A n \in Names \ tainted : Consistent(n)

(* An update that leaves the status out does not change it, unless another *)
(* command changed the row after the update read it.                       *)
UpdateKeepsStatus ==
    [][\A a \in Commanders :
          LET r == request[a] IN
          (UpdateWrite(a) /\ r.status = "keep" /\ db.device[r.old] = before[a])
              => db'.device[r.name].status = db.device[r.old].status]_vars

(* README.md: "update_device refreshes DataPoint rows when model or model  *)
(* version changes".  Once no command runs, every device has the points of *)
(* its own model, or none.                                                 *)
PointsFollowModel ==
    (\A a \in Actors : pc[a] = "idle") =>
        \A n \in Names : Exists(db, n) => Consistent(n)
=============================================================================
