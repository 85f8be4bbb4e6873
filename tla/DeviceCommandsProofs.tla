------------------------ MODULE DeviceCommandsProofs ------------------------
(***************************************************************************)
(* Theorems about DeviceCommands, for any number of devices, models and    *)
(* threads, with and without faults.                                       *)
(***************************************************************************)
EXTENDS DeviceCommands, TLAPS

(* What the methods do to the two tables                                   *)

LEMMA RowsType ==
    ASSUME NEW d \in Database, NEW n \in Names
    PROVE  /\ d.device \in [Names -> DeviceRow \cup {NoRow}]
           /\ d.points \in [Names -> SUBSET DataPoint]
           /\ Exists(d, n) => d.device[n] \in DeviceRow
  BY DEF Database, Exists

LEMMA PointsForType ==
    ASSUME NEW id \in 1..MaxId, NEW m \in Models
    PROVE  PointsFor(id, m) \in SUBSET DataPoint
  BY DatabaseAssumption DEF PointsFor, DataPoint

LEMMA InsertDeviceTables ==
    ASSUME NEW d \in Database, NEW n \in Names, NEW row \in DeviceRow
    PROVE  /\ InsertDevice(d, n, row) \in Database
           /\ InsertDevice(d, n, row).device = [d.device EXCEPT ![n] = row]
           /\ InsertDevice(d, n, row).points = d.points
  BY DEF InsertDevice, Database

LEMMA DeleteDeviceTables ==
    ASSUME NEW d \in Database, NEW n \in Names
    PROVE  /\ DeleteDevice(d, n) \in Database
           /\ DeleteDevice(d, n).device = [d.device EXCEPT ![n] = NoRow]
           /\ DeleteDevice(d, n).points = [d.points EXCEPT ![n] = {}]
  BY DEF DeleteDevice, RemoveDevice, DeletePoints, Database

LEMMA ReplaceTables ==
    ASSUME NEW d \in Database, NEW n \in Names, NEW id \in 1..MaxId, NEW m \in Models
    PROVE  /\ ReplaceDataPoints(d, n, id, m) \in Database
           /\ ReplaceDataPoints(d, n, id, m).device = d.device
           /\ ReplaceDataPoints(d, n, id, m).points = [d.points EXCEPT ![n] = PointsFor(id, m)]
  BY PointsForType DEF ReplaceDataPoints, InsertPoints, DeletePoints, Database

LEMMA UpdateRowTables ==
    ASSUME NEW d \in Database, NEW old \in Names, NEW n \in Names, NEW m \in Models,
           NEW s \in Status, Exists(d, old)
    PROVE  /\ UpdateDeviceRow(d, old, n, m, s) \in Database
           /\ UpdateDeviceRow(d, old, n, m, s).points = d.points
           /\ UpdateDeviceRow(d, old, n, m, s).device[n] \in DeviceRow
           /\ UpdateDeviceRow(d, old, n, m, s).device[n].id = d.device[old].id
           /\ UpdateDeviceRow(d, old, n, m, s).device[n].model = m
           /\ \A k \in Names \ {n} :
                 UpdateDeviceRow(d, old, n, m, s).device[k] =
                     IF k = old THEN NoRow ELSE d.device[k]
<1> DEFINE row == [d.device[old] EXCEPT !.model = m, !.status = s]
           rows == [d.device EXCEPT ![old] = NoRow, ![n] = row]
           u == [d EXCEPT !.device = rows]
<1>1. UpdateDeviceRow(d, old, n, m, s) = u
  BY DEF UpdateDeviceRow
<1>2. d.device[old] \in DeviceRow
  BY RowsType
<1>3. row \in DeviceRow /\ row.id = d.device[old].id /\ row.model = m
  BY <1>2 DEF DeviceRow
<1> HIDE DEF row
<1>4. /\ rows \in [Names -> DeviceRow \cup {NoRow}]
      /\ rows[n] = row
      /\ \A k \in Names \ {n} : rows[k] = IF k = old THEN NoRow ELSE d.device[k]
  BY <1>3, RowsType
<1> HIDE DEF rows
<1>5. u \in Database /\ u.device = rows /\ u.points = d.points
  BY <1>4 DEF Database
<1> HIDE DEF u
<1> QED
  BY <1>1, <1>3, <1>4, <1>5

LEMMA RenamedTables ==
    ASSUME NEW d \in Database, NEW old \in Names, NEW n \in Names, NEW m \in Models,
           NEW s \in Status, Exists(d, old)
    PROVE  /\ Renamed(d, old, n, m, s) \in Database
           /\ Renamed(d, old, n, m, s).device = UpdateDeviceRow(d, old, n, m, s).device
           /\ n = old => Renamed(d, old, n, m, s).points[n] = d.points[n]
           /\ n # old => Renamed(d, old, n, m, s).points[n] = d.points[n] \cup d.points[old]
           /\ n # old => Renamed(d, old, n, m, s).points[old] = {}
           /\ \A k \in Names \ {old, n} : Renamed(d, old, n, m, s).points[k] = d.points[k]
<1> DEFINE u == UpdateDeviceRow(d, old, n, m, s)
           points == [d.points EXCEPT ![old] = {}, ![n] = d.points[n] \cup d.points[old]]
           r == [u EXCEPT !.points = points]
<1>1. u \in Database /\ u.points = d.points
  BY UpdateRowTables
<1>2. Renamed(d, old, n, m, s) = IF n = old THEN u ELSE RenamePoints(u, old, n)
  BY DEF Renamed
<1> HIDE DEF u
<1>3. RenamePoints(u, old, n) = r
  BY <1>1 DEF RenamePoints
<1>4. /\ points \in [Names -> SUBSET DataPoint]
      /\ n # old => points[n] = d.points[n] \cup d.points[old] /\ points[old] = {}
      /\ \A k \in Names \ {old, n} : points[k] = d.points[k]
  BY RowsType
<1> HIDE DEF points
<1>5. r \in Database /\ r.device = u.device /\ r.points = points
  BY <1>1, <1>4 DEF Database
<1> HIDE DEF r
<1>6. CASE n = old
  <2>1. Renamed(d, old, n, m, s) = u
    BY <1>2, <1>6
  <2> QED
    BY <2>1, <1>1, <1>6 DEF u
<1>7. CASE n # old
  <2>1. Renamed(d, old, n, m, s) = r
    BY <1>2, <1>3, <1>7
  <2> QED
    BY <2>1, <1>4, <1>5, <1>7 DEF u
<1> QED
  BY <1>6, <1>7

LEMMA UpdatedTables ==
    ASSUME NEW d \in Database, NEW old \in Names, NEW n \in Names, NEW m \in Models,
           NEW s \in Status, Exists(d, old)
    PROVE  /\ Updated(d, old, n, m, s) \in Database
           /\ Updated(d, old, n, m, s).device = UpdateDeviceRow(d, old, n, m, s).device
           /\ \A k \in Names :
                 Updated(d, old, n, m, s).points[k] =
                     IF d.device[old].model # m /\ k = n THEN {}
                     ELSE Renamed(d, old, n, m, s).points[k]
<1> DEFINE r == Renamed(d, old, n, m, s)
           points == [r.points EXCEPT ![n] = {}]
           q == [r EXCEPT !.points = points]
<1>1. r \in Database /\ r.device = UpdateDeviceRow(d, old, n, m, s).device
  BY RenamedTables
<1>2. Updated(d, old, n, m, s) = IF d.device[old].model = m THEN r ELSE DeletePoints(r, n)
  BY DEF Updated
<1> HIDE DEF r
<1>3. DeletePoints(r, n) = q
  BY <1>1 DEF DeletePoints, Database
<1>4. /\ points \in [Names -> SUBSET DataPoint]
      /\ \A k \in Names : points[k] = IF k = n THEN {} ELSE r.points[k]
  BY <1>1, RowsType
<1> HIDE DEF points
<1>5. q \in Database /\ q.device = r.device /\ q.points = points
  BY <1>1, <1>4 DEF Database
<1> HIDE DEF q
<1>6. CASE d.device[old].model = m
  <2>1. Updated(d, old, n, m, s) = r
    BY <1>2, <1>6
  <2> QED
    BY <2>1, <1>1, <1>6 DEF r
<1>7. CASE d.device[old].model # m
  <2>1. Updated(d, old, n, m, s) = q
    BY <1>2, <1>3, <1>7
  <2> QED
    BY <2>1, <1>1, <1>4, <1>5, <1>7 DEF r
<1> QED
  BY <1>6, <1>7

-----------------------------------------------------------------------------
(* The local variables that a step reads have been assigned.               *)
LocalsOK ==
    \A a \in Actors :
        /\ pc[a] # "idle" => request[a] \in Request
        /\ pc[a] \in {"create", "updateRead", "updateWrite"} => request[a].model \in Models
        /\ pc[a] = "create" => request[a].status \in Status
        /\ pc[a] = "updateWrite" => before[a] \in DeviceRow
        /\ pc[a] = "initReplace" => copy[a] \in DeviceCopy

IndType == TypeOK /\ LocalsOK

LEMMA InitIndType == Init => IndType
<1> SUFFICES ASSUME Init PROVE IndType
  OBVIOUS
<1>1. db \in Database
  BY DEF Init, Database
<1> QED
  BY <1>1, DatabaseAssumption DEF Init, IndType, TypeOK, LocalsOK, Pc

LEMMA StatusToWriteType ==
    ASSUME IndType, NEW a \in Actors, pc[a] = "updateWrite"
    PROVE  StatusToWrite(a) \in Status
  BY DEF IndType, TypeOK, LocalsOK, StatusToWrite, Request, DeviceRow

LEMMA NextIndType == IndType /\ [Next]_vars => IndType'
<1> SUFFICES ASSUME IndType, [Next]_vars PROVE IndType'
  OBVIOUS
<1> USE DatabaseAssumption DEF IndType, TypeOK, LocalsOK, Pc, Goto, Request, Call, Return
<1>1. ASSUME NEW a \in Actors, NEW n \in Names, NEW m \in Models, NEW s \in Status,
             CallCreate(a, n, m, s)
      PROVE  IndType'
  BY <1>1 DEF CallCreate
<1>2. ASSUME NEW a \in Actors, NEW n \in Names, CallDelete(a, n) PROVE IndType'
  BY <1>2 DEF CallDelete
<1>3. ASSUME NEW a \in Actors, NEW old \in Names, NEW n \in Names, NEW m \in Models,
             NEW s \in Status \cup {"keep"}, CallUpdate(a, old, n, m, s)
      PROVE  IndType'
  BY <1>3 DEF CallUpdate
<1>4. ASSUME NEW a \in Actors, NEW n \in Names, CallInit(a, n) PROVE IndType'
  BY <1>4 DEF CallInit
<1>5. ASSUME NEW a \in Actors, CreateDevice(a) PROVE IndType'
  <2>1. [id |-> nextId, model |-> request[a].model, status |-> request[a].status] \in DeviceRow
    BY <1>5 DEF CreateDevice, DeviceRow
  <2>2. db' \in Database
    BY <1>5, <2>1, InsertDeviceTables DEF CreateDevice
  <2> QED
    BY <1>5, <2>2 DEF CreateDevice
<1>6. ASSUME NEW a \in Actors, DeleteRow(a) PROVE IndType'
  <2>1. db' \in Database
    BY <1>6, DeleteDeviceTables DEF DeleteRow
  <2> QED
    BY <1>6, <2>1 DEF DeleteRow
<1>7. ASSUME NEW a \in Actors, UpdateRead(a) PROVE IndType'
  BY <1>7, RowsType DEF UpdateRead
<1>8. ASSUME NEW a \in Actors, UpdateWrite(a) PROVE IndType'
  <2>1. db' \in Database
    BY <1>8, UpdatedTables, StatusToWriteType DEF UpdateWrite, UpdateAllowed
  <2> QED
    BY <1>8, <2>1 DEF UpdateWrite
<1>9. ASSUME NEW a \in Actors, UpdateHalf(a) PROVE IndType'
  <2>1. /\ request[a].old \in Names /\ request[a].name \in Names
        /\ request[a].model \in Models /\ StatusToWrite(a) \in Status
        /\ Exists(db, request[a].old)
    BY <1>9, StatusToWriteType DEF UpdateHalf, UpdateAllowed
  <2>2. UpdateDeviceRow(db, request[a].old, request[a].name, request[a].model,
                        StatusToWrite(a)) \in Database
    BY <2>1, UpdateRowTables
  <2>3. Renamed(db, request[a].old, request[a].name, request[a].model,
                StatusToWrite(a)) \in Database
    BY <2>1, RenamedTables
  <2>4. db' \in Database
    BY <1>9, <2>2, <2>3 DEF UpdateHalf, HalfUpdated
  <2> QED
    BY <1>9, <2>4 DEF UpdateHalf
<1>10. ASSUME NEW a \in Actors, InitRead(a) PROVE IndType'
  <2>1. db.device[request[a].name] \in DeviceRow
    BY <1>10, RowsType DEF InitRead
  <2> QED
    BY <1>10, <2>1 DEF InitRead, DeviceCopy, DeviceRow
<1>11. ASSUME NEW a \in Actors, InitReplace(a) PROVE IndType'
  <2>1. db' \in Database
    BY <1>11, ReplaceTables DEF InitReplace, DeviceCopy
  <2> QED
    BY <1>11, <2>1 DEF InitReplace, DeviceCopy
<1>12. ASSUME NEW a \in Actors,
              CreateRefused(a) \/ DeleteRefused(a) \/ UpdateRefused(a) \/ InitFails(a) \/ Throws(a)
       PROVE  IndType'
  BY <1>12 DEF CreateRefused, DeleteRefused, UpdateRefused, InitFails, Throws
<1>13. CASE Crash
  BY <1>13 DEF Crash
<1>14. CASE UNCHANGED vars
  BY <1>14 DEF vars
<1> QED
  BY <1>1, <1>2, <1>3, <1>4, <1>5, <1>6, <1>7, <1>8, <1>9, <1>10, <1>11, <1>12, <1>13, <1>14,
     CommandsAssumption
     DEF Next, DeviceCommand, Step

(* The tables and every thread's local variables keep their types.         *)
THEOREM TypeCorrect == Spec => []TypeOK
<1>1. IndType => TypeOK
  BY DEF IndType
<1> QED
  BY InitIndType, NextIndType, <1>1, PTL DEF Spec

-----------------------------------------------------------------------------

LEMMA NextDamage == IndType /\ DamageIsTainted /\ [Next]_vars => DamageIsTainted'
<1> SUFFICES ASSUME IndType, DamageIsTainted, [Next]_vars,
                    NEW n \in Names, n \notin tainted'
             PROVE  Consistent(n)'
  BY DEF DamageIsTainted
<1> USE DEF IndType, TypeOK, LocalsOK, DamageIsTainted, Consistent, Exists
<1>1. CASE UNCHANGED <<db, tainted>>
  BY <1>1
<1>2. ASSUME NEW a \in Actors, CreateDevice(a) PROVE Consistent(n)'
  <2> DEFINE row == [id |-> nextId, model |-> request[a].model, status |-> request[a].status]
  <2>1. row \in DeviceRow /\ request[a].name \in Names
    BY <1>2 DEF CreateDevice, DeviceRow, Request
  <2>2. db'.device = [db.device EXCEPT ![request[a].name] = row] /\ db'.points = db.points
    BY <1>2, <2>1, InsertDeviceTables DEF CreateDevice
  <2> QED
    BY <1>2, <2>1, <2>2, RowsType, NoRowAssumption DEF CreateDevice
<1>3. ASSUME NEW a \in Actors, DeleteRow(a) PROVE Consistent(n)'
  <2>1. request[a].name \in Names
    BY <1>3 DEF DeleteRow, Request
  <2>2. /\ db'.device = [db.device EXCEPT ![request[a].name] = NoRow]
        /\ db'.points = [db.points EXCEPT ![request[a].name] = {}]
    BY <1>3, <2>1, DeleteDeviceTables DEF DeleteRow
  <2> QED
    BY <1>3, <2>1, <2>2, RowsType DEF DeleteRow
<1>4. ASSUME NEW a \in Actors, UpdateWrite(a) PROVE Consistent(n)'
  <2> DEFINE old == request[a].old
             name == request[a].name
             model == request[a].model
             status == StatusToWrite(a)
             row == UpdateDeviceRow(db, old, name, model, status).device
             points == Renamed(db, old, name, model, status).points
  <2>1. /\ old \in Names /\ name \in Names /\ model \in Models /\ status \in Status
        /\ Exists(db, old)
        /\ name = old \/ ~Exists(db, name)
    BY <1>4, StatusToWriteType DEF UpdateWrite, UpdateAllowed, Request
  <2>2. db' = Updated(db, old, name, model, status)
    BY <1>4 DEF UpdateWrite
  <2>3. tainted' = IF db.device[old].model # model THEN tainted \ {old, name}
                   ELSE IF old \in tainted THEN (tainted \ {old}) \cup {name}
                   ELSE tainted
    BY <1>4 DEF UpdateWrite
  <2> HIDE DEF old, name, model, status
  <2>4. /\ row[name] \in DeviceRow /\ row[name].id = db.device[old].id /\ row[name].model = model
        /\ \A k \in Names \ {name} : row[k] = IF k = old THEN NoRow ELSE db.device[k]
    BY <2>1, UpdateRowTables
  <2>5. /\ name = old => points[name] = db.points[name]
        /\ name # old => points[name] = db.points[name] \cup db.points[old]
        /\ name # old => points[old] = {}
        /\ \A k \in Names \ {old, name} : points[k] = db.points[k]
    BY <2>1, RenamedTables
  <2>6. /\ db'.device = row
        /\ \A k \in Names :
              db'.points[k] = IF db.device[old].model # model /\ k = name THEN {} ELSE points[k]
    BY <2>1, <2>2, UpdatedTables
  <2> HIDE DEF row, points
  <2>7. CASE n \notin {old, name}
    <3>1. n \notin tainted
      BY <2>3, <2>7
    <3>2. db'.device[n] = db.device[n] /\ db'.points[n] = db.points[n]
      BY <2>4, <2>5, <2>6, <2>7
    <3> QED
      BY <3>1, <3>2
  <2>8. CASE n = old /\ n # name
    <3>1. db'.device[n] = NoRow /\ db'.points[n] = {}
      BY <2>4, <2>5, <2>6, <2>8
    <3> QED
      BY <3>1
  <2>9. CASE n = name
    <3>1. /\ db'.device[n] # NoRow
          /\ db'.device[n].id = db.device[old].id
          /\ db'.device[n].model = model
      BY <2>4, <2>6, <2>9, NoRowAssumption
    <3>2. CASE db.device[old].model # model
      <4>1. db'.points[n] = {}
        BY <2>6, <2>9, <3>2
      <4> QED
        BY <3>1, <4>1
    <3>3. CASE db.device[old].model = model
      <4>1. old \notin tainted /\ name \notin tainted
        BY <2>3, <2>9, <3>3
      <4>2. db'.points[n] = db.points[old]
        BY <2>1, <2>5, <2>6, <2>9, <3>3, <4>1
      <4>3. db.points[old] \in {{}, PointsFor(db.device[old].id, db.device[old].model)}
        BY <2>1, <4>1
      <4> QED
        BY <3>1, <3>3, <4>2, <4>3
    <3> QED
      BY <3>2, <3>3
  <2> QED
    BY <2>7, <2>8, <2>9
<1>5. ASSUME NEW a \in Actors, UpdateHalf(a) PROVE Consistent(n)'
  <2> DEFINE old == request[a].old
             name == request[a].name
             u == UpdateDeviceRow(db, old, name, request[a].model, StatusToWrite(a))
             r == Renamed(db, old, name, request[a].model, StatusToWrite(a))
  <2>1. /\ old \in Names /\ name \in Names /\ request[a].model \in Models
        /\ StatusToWrite(a) \in Status
        /\ Exists(db, old)
        /\ n \notin {old, name} /\ n \notin tainted
    BY <1>5, StatusToWriteType DEF UpdateHalf, UpdateAllowed, Request
  <2>2. db' = u \/ db' = r
    BY <1>5 DEF UpdateHalf, HalfUpdated
  <2>3. u.device[n] = db.device[n] /\ u.points = db.points
    BY <2>1, UpdateRowTables
  <2>4. r.device = u.device /\ r.points[n] = db.points[n]
    BY <2>1, RenamedTables
  <2> HIDE DEF u, r
  <2>5. db'.device[n] = db.device[n] /\ db'.points[n] = db.points[n]
    BY <2>2, <2>3, <2>4
  <2> QED
    BY <2>1, <2>5
<1>6. ASSUME NEW a \in Actors, InitReplace(a) PROVE Consistent(n)'
  <2> DEFINE c == copy[a]
  <2>1. c.name \in Names /\ c.id \in 1..MaxId /\ c.model \in Models
    BY <1>6 DEF InitReplace, DeviceCopy
  <2>2. /\ db'.device = db.device
        /\ db'.points = [db.points EXCEPT ![c.name] = PointsFor(c.id, c.model)]
    BY <1>6, <2>1, ReplaceTables DEF InitReplace
  <2>3. CASE n = c.name
    <3>1. Current(c)
      BY <1>6, <2>3 DEF InitReplace
    <3> QED
      BY <2>1, <2>2, <2>3, <3>1, RowsType DEF Current
  <2>4. CASE n # c.name
    <3>1. n \notin tainted
      BY <1>6, <2>4 DEF InitReplace
    <3> QED
      BY <2>1, <2>2, <2>4, <3>1, RowsType
  <2> QED
    BY <2>3, <2>4
<1> QED
  <2>1. ASSUME NEW a \in Actors,
               \/ \E m \in Names : CallInit(a, m)
               \/ DeviceCommand(a)
               \/ CreateRefused(a) \/ DeleteRefused(a)
               \/ UpdateRead(a) \/ UpdateRefused(a)
               \/ InitRead(a) \/ InitFails(a) \/ Throws(a)
        PROVE  UNCHANGED <<db, tainted>>
    BY <2>1 DEF CallInit, DeviceCommand, CallCreate, CallDelete, CallUpdate, Call, CreateRefused,
                DeleteRefused, UpdateRead, UpdateRefused, InitRead, InitFails, Throws
  <2> QED
    BY <1>1, <1>2, <1>3, <1>4, <1>5, <1>6, <2>1, CommandsAssumption DEF Next, Step, Crash, vars

(* Points that do not fit their device come from an initialisation with a  *)
(* stale copy of it or from an update that stopped half way, and from      *)
(* nothing else.                                                           *)
THEOREM DamageIsExplained == Spec => []DamageIsTainted
<1>1. Init => DamageIsTainted
  <2> SUFFICES ASSUME Init, NEW n \in Names PROVE Consistent(n)
    BY DEF DamageIsTainted
  <2>1. db.device[n] = NoRow /\ db.points[n] = {}
    BY DEF Init
  <2> QED
    BY <2>1 DEF Consistent, Exists
<1> QED
  BY InitIndType, NextIndType, NextDamage, <1>1, PTL DEF Spec

(* An update_device without a status, whose row nobody has changed since   *)
(* handleUpdateDevice read it, writes back the status that it read.        *)
THEOREM UpdatesKeepStatus == Spec => UpdateKeepsStatus
<1> DEFINE Kept ==
      \A a \in Commanders :
          LET r == request[a] IN
          (UpdateWrite(a) /\ r.status = "keep" /\ db.device[r.old] = before[a])
              => db'.device[r.name].status = db.device[r.old].status
<1>1. IndType /\ [Next]_vars => Kept
  <2> SUFFICES ASSUME IndType, NEW a \in Commanders, UpdateWrite(a),
                      request[a].status = "keep", db.device[request[a].old] = before[a]
               PROVE  db'.device[request[a].name].status = db.device[request[a].old].status
    OBVIOUS
  <2>1. a \in Actors /\ pc[a] = "updateWrite" /\ Exists(db, request[a].old)
    BY CommandsAssumption DEF UpdateWrite, UpdateAllowed
  <2>2. /\ db \in Database /\ request[a].old \in Names /\ request[a].name \in Names
        /\ request[a].model \in Models /\ before[a] \in DeviceRow
    BY <2>1, CommandsAssumption DEF IndType, TypeOK, LocalsOK, Request
  <2>3. StatusToWrite(a) = before[a].status /\ StatusToWrite(a) \in Status
    BY <2>2 DEF StatusToWrite, DeviceRow
  <2>4. db' = Updated(db, request[a].old, request[a].name, request[a].model, StatusToWrite(a))
    BY DEF UpdateWrite
  <2>5. db'.device = UpdateDeviceRow(db, request[a].old, request[a].name, request[a].model,
                                     StatusToWrite(a)).device
    BY <2>1, <2>2, <2>3, <2>4, UpdatedTables
  <2>6. db'.device[request[a].name].status = StatusToWrite(a)
    BY <2>1, <2>2, <2>3, <2>5 DEF UpdateDeviceRow, Database, DeviceRow, Exists
  <2> QED
    BY <2>3, <2>6
<1> QED
  BY <1>1, InitIndType, NextIndType, PTL DEF Spec, UpdateKeepsStatus

-----------------------------------------------------------------------------
(* Commands and collections that keep apart                                *)

(* Nobody works on a device that somebody else works on.                   *)
NamesOf(a) == {request[a].old, request[a].name}

Apart ==
    \A a, b \in Actors :
        (a # b /\ pc[a] # "idle" /\ pc[b] # "idle") => NamesOf(a) \cap NamesOf(b) = {}

(* What an initialisation has read is of its own device and current.       *)
CopiesCurrent ==
    \A a \in Actors :
        pc[a] = "initReplace" => copy[a].name = request[a].name /\ Current(copy[a])

Undamaged == tainted = {} /\ CopiesCurrent

IndDamage == IndType /\ DamageIsTainted /\ Undamaged

(* No statement and no rename of points is refused, so an update that      *)
(* begins ends.                                                            *)
LEMMA NoHalfUpdate ==
    ASSUME ~Faults, IndDamage, NEW a \in Actors PROVE ~UpdateHalf(a)
<1> SUFFICES ASSUME UpdateHalf(a) PROVE FALSE
  OBVIOUS
<1>1. request[a] \in Request /\ db \in Database
  BY DEF UpdateHalf, IndDamage, IndType, LocalsOK, TypeOK
<1>2. request[a].name \in Names /\ ~Exists(db, request[a].name)
      /\ RenameConflict(db, request[a].old, request[a].name)
  BY <1>1 DEF UpdateHalf, UpdateAllowed, UpdateBlocked, Request
<1>3. db.points[request[a].name] = {}
  BY <1>2 DEF IndDamage, Undamaged, DamageIsTainted, Consistent
<1> QED
  BY <1>2, <1>3 DEF RenameConflict

(* A step changes the rows of its own names only.                          *)
LEMMA OtherRows ==
    ASSUME IndType, NEW a \in Actors, Step(a), NEW k \in Names, k \notin NamesOf(a)
    PROVE  db'.device[k] = db.device[k]
<1> USE DEF IndType, TypeOK, LocalsOK, NamesOf
<1>1. CASE CreateDevice(a)
  <2> DEFINE row == [id |-> nextId, model |-> request[a].model, status |-> request[a].status]
  <2>1. row \in DeviceRow /\ request[a].name \in Names
    BY <1>1 DEF CreateDevice, DeviceRow, Request
  <2>2. db'.device = [db.device EXCEPT ![request[a].name] = row]
    BY <1>1, <2>1, InsertDeviceTables DEF CreateDevice
  <2> QED
    BY <2>1, <2>2, RowsType
<1>2. CASE DeleteRow(a)
  <2>1. request[a].name \in Names
    BY <1>2 DEF DeleteRow, Request
  <2>2. db'.device = [db.device EXCEPT ![request[a].name] = NoRow]
    BY <1>2, <2>1, DeleteDeviceTables DEF DeleteRow
  <2> QED
    BY <2>1, <2>2, RowsType
<1>3. CASE UpdateWrite(a)
  <2>1. /\ request[a].old \in Names /\ request[a].name \in Names /\ request[a].model \in Models
        /\ StatusToWrite(a) \in Status /\ Exists(db, request[a].old)
    BY <1>3, StatusToWriteType DEF UpdateWrite, UpdateAllowed, Request
  <2>2. db'.device = UpdateDeviceRow(db, request[a].old, request[a].name, request[a].model,
                                     StatusToWrite(a)).device
    BY <1>3, <2>1, UpdatedTables DEF UpdateWrite
  <2> QED
    BY <2>1, <2>2, UpdateRowTables
<1>4. CASE UpdateHalf(a)
  <2> DEFINE u == UpdateDeviceRow(db, request[a].old, request[a].name, request[a].model,
                                  StatusToWrite(a))
             r == Renamed(db, request[a].old, request[a].name, request[a].model,
                          StatusToWrite(a))
  <2>1. /\ request[a].old \in Names /\ request[a].name \in Names /\ request[a].model \in Models
        /\ StatusToWrite(a) \in Status /\ Exists(db, request[a].old)
    BY <1>4, StatusToWriteType DEF UpdateHalf, UpdateAllowed, Request
  <2>2. db' = u \/ db' = r
    BY <1>4 DEF UpdateHalf, HalfUpdated
  <2>3. u.device[k] = db.device[k]
    BY <2>1, UpdateRowTables
  <2>4. r.device = u.device
    BY <2>1, RenamedTables
  <2> HIDE DEF u, r
  <2> QED
    BY <2>2, <2>3, <2>4
<1>5. CASE InitReplace(a)
  <2>1. copy[a].name \in Names /\ copy[a].id \in 1..MaxId /\ copy[a].model \in Models
    BY <1>5 DEF InitReplace, DeviceCopy
  <2>2. db' = ReplaceDataPoints(db, copy[a].name, copy[a].id, copy[a].model)
    BY <1>5 DEF InitReplace
  <2> QED
    BY <2>2 DEF ReplaceDataPoints, InsertPoints, DeletePoints, Database
<1>6. CASE \/ CreateRefused(a) \/ DeleteRefused(a) \/ UpdateRead(a) \/ UpdateRefused(a)
           \/ InitRead(a) \/ InitFails(a) \/ Throws(a)
  BY <1>6 DEF CreateRefused, DeleteRefused, UpdateRead, UpdateRefused, InitRead, InitFails, Throws
<1> QED
  BY <1>1, <1>2, <1>3, <1>4, <1>5, <1>6 DEF Step

(* Nothing is damaged then.                                                *)
LEMMA NextUntainted ==
    ASSUME ~Faults, IndDamage, [Next]_vars PROVE tainted' = {}
<1> USE DEF IndDamage, Undamaged, CopiesCurrent
<1>1. ASSUME NEW a \in Actors, Step(a) PROVE tainted' = {}
  <2>1. CASE DeleteRow(a) \/ UpdateWrite(a) \/ InitReplace(a)
    BY <2>1 DEF DeleteRow, UpdateWrite, InitReplace
  <2>2. CASE \/ CreateDevice(a) \/ CreateRefused(a) \/ DeleteRefused(a) \/ UpdateRead(a)
             \/ UpdateRefused(a) \/ InitRead(a) \/ InitFails(a) \/ Throws(a)
    BY <2>2 DEF CreateDevice, CreateRefused, DeleteRefused, UpdateRead, UpdateRefused, InitRead,
                InitFails, Throws
  <2> QED
    BY <1>1, <2>1, <2>2, NoHalfUpdate DEF Step
<1>2. ASSUME NEW a \in Actors, DeviceCommand(a) \/ \E n \in Names : CallInit(a, n)
      PROVE  tainted' = {}
  BY <1>2 DEF DeviceCommand, CallCreate, CallDelete, CallUpdate, CallInit, Call
<1> QED
  BY <1>1, <1>2, CommandsAssumption DEF Next, Crash, vars

(* What others do meanwhile leaves the copy current.                       *)
LEMMA NextCopies ==
    ASSUME ~Faults, IndDamage, Apart, [Next]_vars PROVE CopiesCurrent'
<1> SUFFICES ASSUME NEW a \in Actors, pc'[a] = "initReplace"
             PROVE  copy'[a].name = request'[a].name /\ Current(copy[a])'
  BY DEF CopiesCurrent
<1> USE DEF IndDamage, Undamaged, CopiesCurrent, IndType, TypeOK
<1>1. CASE InitRead(a)
  <2>1. request[a].name \in Names
    BY <1>1 DEF InitRead, LocalsOK, Request
  <2>2. /\ copy'[a] = [name |-> request[a].name, id |-> db.device[request[a].name].id,
                       model |-> db.device[request[a].name].model]
        /\ request' = request /\ db' = db /\ Exists(db, request[a].name)
    BY <1>1 DEF InitRead
  <2> QED
    BY <2>1, <2>2 DEF Current
<1>2. ASSUME NEW b \in Actors, b # a, Step(b)
      PROVE  copy'[a].name = request'[a].name /\ Current(copy[a])'
  <2>1. /\ copy'[a] = copy[a] /\ request'[a] = request[a] /\ pc'[a] = pc[a]
    BY <1>2 DEF Step, CreateDevice, CreateRefused, DeleteRow, DeleteRefused, UpdateRead,
                UpdateWrite, UpdateHalf, UpdateRefused, InitRead, InitFails, InitReplace, Throws,
                Goto, Return
  <2>2. pc[b] # "idle"
    BY <1>2 DEF Step, CreateDevice, CreateRefused, DeleteRow, DeleteRefused, UpdateRead,
                UpdateWrite, UpdateHalf, UpdateRefused, InitRead, InitFails, InitReplace, Throws
  <2>3. copy[a].name = request[a].name /\ Current(copy[a]) /\ copy[a].name \in Names
    BY <2>1 DEF LocalsOK, DeviceCopy
  <2>4. copy[a].name \notin NamesOf(b)
    BY <1>2, <2>1, <2>2, <2>3 DEF Apart, NamesOf
  <2>5. db'.device[copy[a].name] = db.device[copy[a].name]
    BY <1>2, <2>3, <2>4, OtherRows
  <2> QED
    BY <2>1, <2>3, <2>5 DEF Current, Exists
<1>3. CASE UNCHANGED vars
  BY <1>3 DEF vars, Current, Exists
<1>4. ASSUME NEW b \in Actors, DeviceCommand(b) \/ \E n \in Names : CallInit(b, n)
      PROVE  copy'[a].name = request'[a].name /\ Current(copy[a])'
  <2>1. /\ pc[b] = "idle" /\ pc' \in [Actors -> Pc] /\ pc'[b] # "initReplace"
        /\ db' = db /\ copy' = copy
        /\ \A x \in Actors \ {b} : pc'[x] = pc[x] /\ request'[x] = request[x]
    BY <1>4 DEF DeviceCommand, CallCreate, CallDelete, CallUpdate, CallInit, Call, Goto, Pc
  <2>2. a # b
    BY <2>1
  <2> QED
    BY <2>1, <2>2 DEF Current, Exists
<1>5. CASE Step(a)
  <2>1. CASE InitRead(a)
    BY <1>1, <2>1
  <2>2. CASE ~InitRead(a)
    BY <1>5, <2>2 DEF Step, CreateDevice, CreateRefused, DeleteRow, DeleteRefused, UpdateRead,
                UpdateWrite, UpdateHalf, UpdateRefused, InitFails, InitReplace, Throws,
                Goto, Return
  <2> QED BY <2>1, <2>2
<1> QED
  BY <1>2, <1>3, <1>4, <1>5, CommandsAssumption DEF Next, Crash

(* README.md's promise, that update_device refreshes the points when the   *)
(* model changes, holds of all commands and collections as long as no two  *)
(* of them are about the same device at the same time and no statement     *)
(* fails: then no device ever has points of another model.                 *)
THEOREM ApartPointsFollow == (~Faults /\ Spec /\ []Apart) => []PointsFollowModel
<1> SUFFICES ASSUME ~Faults PROVE Spec /\ []Apart => []PointsFollowModel
  OBVIOUS
<1>1. Init => IndDamage
  <2> SUFFICES ASSUME Init PROVE IndDamage
    OBVIOUS
  <2>1. DamageIsTainted
    <3> SUFFICES ASSUME NEW n \in Names PROVE Consistent(n)
      BY DEF DamageIsTainted
    <3>1. db.device[n] = NoRow /\ db.points[n] = {}
      BY DEF Init
    <3> QED
      BY <3>1 DEF Consistent, Exists
  <2>2. tainted = {} /\ CopiesCurrent
    BY DEF Init, CopiesCurrent
  <2> QED
    BY <2>1, <2>2, InitIndType DEF IndDamage, Undamaged
<1>2. IndDamage /\ Apart /\ [Next]_vars => IndDamage'
  BY NextIndType, NextDamage, NextUntainted, NextCopies DEF IndDamage, Undamaged
<1>3. IndDamage => PointsFollowModel
  BY DEF IndDamage, Undamaged, DamageIsTainted, PointsFollowModel
<1> QED
  BY <1>1, <1>2, <1>3, PTL DEF Spec
=============================================================================
