--------------------------- MODULE SQLiteManager ---------------------------
(***************************************************************************)
(* SQLiteManager and its repositories: the Device and DataPoint tables.    *)
(*                                                                         *)
(* Every public method holds the connection's recursive mutex, so other    *)
(* threads see it as one step.  What they and a restarted process may find *)
(* are the statements that were committed when it stopped: all or none of  *)
(* a transaction, any prefix of statements that commit one by one.  A      *)
(* statement is therefore an operator from a database to a database, and a *)
(* method that can stop half way has the set of databases it can leave.    *)
(***************************************************************************)
EXTENDS Naturals

CONSTANTS
    Names,      \* device names
    Models,     \* (model, version) pairs
    Paths,      \* data item paths
    PathsOf,    \* the paths ModelParser finds in each model
    NoRow,      \* no Device row has the name
    MaxId       \* bound: the last AUTOINCREMENT id of Device

ASSUME DatabaseAssumption ==
    /\ PathsOf \in [Models -> SUBSET Paths]
    /\ MaxId \in Nat

Status == {"offline", "online"}

DeviceRow == [id : 1..MaxId, model : Models, status : Status]

ASSUME NoRowAssumption == NoRow \notin DeviceRow

(* The columns of DataPoint that tell points apart; the rows of one DName  *)
(* are kept together.                                                      *)
DataPoint == [did : 1..MaxId, path : Paths]

Database ==
    [device : [Names -> DeviceRow \cup {NoRow}],
     points : [Names -> SUBSET DataPoint]]

Exists(db, n) == db.device[n] # NoRow

(* What ModelParser makes of a model for the device with this id           *)
PointsFor(id, m) == {[did |-> id, path |-> p] : p \in PathsOf[m]}

(* SQL statements *)

InsertDevice(db, n, row) == [db EXCEPT !.device[n] = row]

(* UPDATE Device ... WHERE Name = old: the id stays.                       *)
UpdateDeviceRow(db, old, n, m, status) ==
    LET row == [db.device[old] EXCEPT !.model = m, !.status = status]
    IN  [db EXCEPT !.device = [db.device EXCEPT ![old] = NoRow, ![n] = row]]

RemoveDevice(db, n) == [db EXCEPT !.device[n] = NoRow]

DeletePoints(db, n) == [db EXCEPT !.points[n] = {}]

(* UPDATE DataPoint SET DName = n WHERE DName = old                        *)
RenamePoints(db, old, n) ==
    LET points == [db.points EXCEPT ![old] = {}, ![n] = db.points[n] \cup db.points[old]]
    IN  [db EXCEPT !.points = points]

(* ... which the constraint UNIQUE(DName, NamePath) refuses.               *)
RenameConflict(db, old, n) ==
    \E p \in db.points[old], q \in db.points[n] : p.path = q.path

InsertPoints(db, n, points) == [db EXCEPT !.points[n] = @ \cup points]

(* Methods *)

(* deleteDevice with a bug, for a mutation run: the points stay.           *)
DeleteDeviceOnly(db, n) == RemoveDevice(db, n)

(* deleteDevice, in a transaction                                          *)
DeleteDevice(db, n) == RemoveDevice(DeletePoints(db, n), n)

(* replaceDataPointsForDevice, in a transaction; device is a copy that the *)
(* caller read earlier.                                                    *)
ReplaceDataPoints(db, n, id, m) == InsertPoints(DeletePoints(db, n), n, PointsFor(id, m))

(* updateDevice: three statements, each committed on its own               *)
Renamed(db, old, n, m, status) ==
    LET updated == UpdateDeviceRow(db, old, n, m, status)
    IN  IF n = old THEN updated ELSE RenamePoints(updated, old, n)

Updated(db, old, n, m, status) ==
    LET renamed == Renamed(db, old, n, m, status)
    IN  IF db.device[old].model = m THEN renamed ELSE DeletePoints(renamed, n)

UpdateBlocked(db, old, n) == n # old /\ RenameConflict(db, old, n)

(* What is left when updateDevice stops before its last statement          *)
HalfUpdated(db, old, n, m, status) ==
    IF UpdateBlocked(db, old, n)
    THEN {UpdateDeviceRow(db, old, n, m, status)}
    ELSE {UpdateDeviceRow(db, old, n, m, status), Renamed(db, old, n, m, status)}
             \ {Updated(db, old, n, m, status)}
=============================================================================
