------------------------------ MODULE EndToEnd ------------------------------
(***************************************************************************)
(* One device from the request that creates it to the records its worker   *)
(* stores: the texts of the three text modules, on their way between a     *)
(* client, the worker and a driver that speaks as MockDriverServer does.   *)
(*                                                                         *)
(* DriverClient is blocking and sets no timeout, so the worker's steps     *)
(* between connect and close wait for the driver or for an error of the    *)
(* connection.  A cycle has a DriverClient of its own.                     *)
(***************************************************************************)
EXTENDS CollectionText, CommandText, ModelText

CONSTANTS
    Scenarios,  \* what clients send, the model files, and what is meant by it
    Drivers,    \* where a driver listens
    Silent,     \* the driver takes connections and queries and never answers
    NoDevice,   \* no command has created the device
    FailLimit   \* runDeviceTask gives up after so many failures in a row

ASSUME CycleAssumption == FailLimit \in Nat \ {0}

ASSUME ScenarioAssumption ==
    \A s \in Scenarios :
        /\ "" \notin s.names
        /\ \A f \in DOMAIN s.files : s.files[f] \in Seq(ModelLine)
        /\ s.model \in Model

VARIABLES
    scenario,   \* one of Scenarios
    client,     \* the thread that executes the commands
    device,     \* the Device row
    points,     \* its DataPoint rows, in the order of their ids
    stopFlag,   \* the worker's flag
    wpc,        \* where the worker is
    fails,      \* its failCount
    link,       \* its connection, as both ends have left it
    driverUp,   \* the driver's running_
    text,       \* the last message on the connection
    records     \* the rows the last insertResources stored

vars == <<scenario, client, device, points, stopFlag, wpc, fails,
          link, driverUp, text, records>>
workerVars == <<stopFlag, wpc, fails, records>>
linkVars == <<link, driverUp, text>>

WorkerPc ==
    {"none", "loop", "connect", "read", "close", "closeFailed",
     "leave",   \* out of the loop, before markStopped
     "left"}

Link == {"none", "dialing", "open", "asked", "answered", "closing", "broken"}

TypeOK ==
    /\ client \in {"create", "update", "start", "running", "stopping", "over"}
    /\ stopFlag \in BOOLEAN
    /\ wpc \in WorkerPc
    /\ fails \in 0..FailLimit
    /\ link \in Link
    /\ driverUp \in BOOLEAN
    /\ wpc \in {"none", "loop", "leave", "left"} => link = "none" /\ text = <<>>

Init ==
    /\ scenario \in Scenarios
    /\ client = "create"
    /\ device = NoDevice
    /\ points = <<>>
    /\ stopFlag = FALSE
    /\ wpc = "none"
    /\ fails = 0
    /\ link = "none"
    /\ driverUp = TRUE
    /\ text = <<>>
    /\ records = <<>>

-----------------------------------------------------------------------------
(* Commands *)

(* UNIQUE(DName, NamePath): the transaction that stores points with a      *)
(* common path is rolled back.                                             *)
Storable(found) == IsInjective([i \in DOMAIN found |-> found[i].namePath])

(* initDataPointsByDevice; its failure leaves the device without points.   *)
InitialPoints(row) ==
    LET found == ParseDataItems(LoadModelText(scenario.files, row.model, row.version))
    IN  IF Storable(found) THEN found ELSE <<>>

(* The parser throws if a port is no number (here "").                     *)
Acceptable(row) == "" \notin {row.name, row.model, row.port}

Create ==
    LET parsed == ParseDeviceUpsert(scenario.create)
    IN  /\ client = "create"
        /\ IF Handle(scenario.create).op = "create_device" /\ Acceptable(parsed)
           THEN /\ client' = IF scenario.update = <<>> THEN "start" ELSE "update"
                /\ device' = parsed
                /\ points' = InitialPoints(device')
           ELSE client' = "over" /\ UNCHANGED <<device, points>>
        /\ UNCHANGED <<scenario, workerVars, linkVars>>

(* The row that update_device writes: only the status is kept if the text  *)
(* does not have the field; the other columns get the parser's defaults.   *)
UpdatedRow(command, row) ==
    LET parsed == ParseDeviceUpsert(command)
    IN  IF HasField(command, "status") \/ HasField(command, "Status") THEN parsed
        ELSE [parsed EXCEPT !.status = row.status]

Update ==
    LET row == UpdatedRow(scenario.update, device)
        old == FirstOf(scenario.update, <<"old_device_name", "device_name">>)
    IN  /\ client = "update"
        /\ client' = "start"
        /\ IF Handle(scenario.update).op = "update_device" /\ Acceptable(row) /\ old = device.name
           THEN /\ device' = row
                /\ points' = IF device'.model = device.model /\ device'.version = device.version
                             THEN points ELSE InitialPoints(device')
           ELSE UNCHANGED <<device, points>>
        /\ UNCHANGED <<scenario, workerVars, linkVars>>

Start ==
    /\ client = "start"
    /\ IF /\ Route(scenario.start)
                \in {Asks("start_device_collect", device.name), Asks("start_all", "")}
          /\ device.status # "0"
          /\ points # <<>>
       THEN client' = "running" /\ wpc' = "loop"
       ELSE client' = "over" /\ UNCHANGED wpc
    /\ UNCHANGED <<scenario, device, points, stopFlag, fails, linkVars, records>>

Stop ==
    /\ client = "running"
    /\ client' = "stopping"
    /\ stopFlag' = TRUE
    /\ UNCHANGED <<scenario, device, points, wpc, fails, linkVars, records>>

Stopped ==
    /\ client = "stopping"
    /\ wpc = "left"
    /\ client' = "over"
    /\ UNCHANGED <<scenario, device, points, workerVars, linkVars>>

-----------------------------------------------------------------------------
(* The worker's cycle *)

WorkerStays == UNCHANGED <<scenario, client, device, points, stopFlag>>

Leaves ==
    /\ wpc = "loop"
    /\ stopFlag
    /\ wpc' = "leave"
    /\ WorkerStays /\ UNCHANGED <<fails, linkVars, records>>

(* markStopped, and the end of the thread that a stop joins                *)
Finishes ==
    /\ wpc = "leave"
    /\ wpc' = "left"
    /\ WorkerStays /\ UNCHANGED <<fails, linkVars, records>>

(* A bug for a mutation run: the loop test ignores the flag.               *)
ConnectsAnyway ==
    /\ wpc = "loop"
    /\ wpc' = "connect"
    /\ link' = "dialing"
    /\ WorkerStays /\ UNCHANGED <<fails, driverUp, text, records>>

Connects ==
    /\ wpc = "loop"
    /\ ~stopFlag
    /\ wpc' = "connect"
    /\ link' = "dialing"
    /\ WorkerStays /\ UNCHANGED <<fails, driverUp, text, records>>

Sends == wpc = "connect" /\ link = "open" /\ wpc' = "read" /\ link' = "asked"

SendsQuery ==
    /\ Sends
    /\ text' = BuildQuery(device.name \o "-1", points)
    /\ WorkerStays /\ UNCHANGED <<fails, driverUp, records>>

(* processResponse, insertResources (which may fail), and the close frame. *)
(* After an exception the destructor of DriverClient sends it.             *)
Takes ==
    /\ wpc = "read" /\ link = "answered"
    /\ wpc' \in {"close", "closeFailed"} /\ link' = "closing"

TakesAnswer ==
    LET found == ProcessResponse(points, text)
    IN  /\ Takes
        /\ \/ wpc' = "close" /\ found # <<>> /\ records' = found
           \/ wpc' = "closeFailed" /\ UNCHANGED records
        /\ WorkerStays /\ UNCHANGED <<fails, driverUp, text>>

(* Two bugs for the mutation runs: failures have no limit, and the first   *)
(* one ends the collection.                                                *)
EndsForever(failed) ==
    /\ fails' = IF failed THEN fails + 1 ELSE 0
    /\ wpc' = "loop"
    /\ link' = "none"
    /\ text' = <<>>
    /\ WorkerStays /\ UNCHANGED <<driverUp, records>>

EndsAtOnce(failed) ==
    /\ fails' = IF failed THEN fails + 1 ELSE 0
    /\ wpc' = IF failed THEN "leave" ELSE "loop"
    /\ link' = "none"
    /\ text' = <<>>
    /\ WorkerStays /\ UNCHANGED <<driverUp, records>>

(* The cycle is over, with an exception or not.                            *)
Ends(failed) ==
    /\ fails' = IF failed THEN fails + 1 ELSE 0
    /\ wpc' = IF failed /\ fails + 1 >= FailLimit THEN "leave" ELSE "loop"
    /\ link' = "none"
    /\ text' = <<>>
    /\ WorkerStays /\ UNCHANGED <<driverUp, records>>

(* connect, write or read failed; the close that follows finds the         *)
(* connection broken and does not wait.                                    *)
CycleFails ==
    /\ wpc \in {"connect", "read"}
    /\ link = "broken"
    /\ Ends(TRUE)

(* close waits for the other side's close frame, or for an error.          *)
Closes ==
    /\ wpc \in {"close", "closeFailed"}
    /\ link = "broken"
    /\ Ends(wpc = "closeFailed")

-----------------------------------------------------------------------------
(* The driver *)

DriverStays == UNCHANGED <<scenario, client, device, points, workerVars>>

Listens == driverUp /\ <<device.ip, device.port>> \in Drivers

Accepts ==
    /\ link = "dialing"
    /\ Listens
    /\ link' = "open"
    /\ DriverStays /\ UNCHANGED <<driverUp, text>>

Refuses ==
    /\ link = "dialing"
    /\ ~Listens
    /\ link' = "broken"
    /\ DriverStays /\ UNCHANGED <<driverUp, text>>

(* handleSession tests running_ only after an answer, so a query that has  *)
(* been sent is answered even if the driver is stopped meanwhile.          *)
Replies == ~Silent /\ link = "asked" /\ link' = "answered"

Answers ==
    /\ Replies
    /\ text' = HandleQuery(text)
    /\ DriverStays /\ UNCHANGED driverUp

(* The session reads the close frame and answers it; or it has left its    *)
(* loop and the socket is closed.  Either way the close is over.           *)
EndsSession ==
    /\ ~Silent
    /\ link = "closing"
    /\ link' = "broken"
    /\ DriverStays /\ UNCHANGED <<driverUp, text>>

(* The network, or the death of the driver's process                       *)
Breaks ==
    /\ link \notin {"none", "broken"}
    /\ link' = "broken"
    /\ DriverStays /\ UNCHANGED <<driverUp, text>>

(* MockDriverServer's stop and start                                       *)
DriverStopsOrStarts ==
    /\ driverUp' = ~driverUp
    /\ DriverStays /\ UNCHANGED <<link, text>>

-----------------------------------------------------------------------------

Next ==
    \/ Create \/ Update \/ Start \/ Stop \/ Stopped
    \/ Leaves \/ Finishes \/ Connects \/ SendsQuery \/ TakesAnswer \/ CycleFails \/ Closes
    \/ Accepts \/ Refuses \/ Answers \/ EndsSession
    \/ Breaks \/ DriverStopsOrStarts

(* Threads that can run do run, and the driver does what it can do.        *)
(* Nobody has to stop the worker or the driver, nor a connection to break. *)
(* Sends, Takes and Replies stand for the steps that they are the control  *)
(* of: the texts disable no step.                                          *)
FairSpec ==
    /\ Init /\ [][Next]_vars
    /\ WF_vars(Stopped)
    /\ WF_<<wpc, link>>(Leaves \/ Finishes \/ Connects \/ Sends \/ Takes \/ CycleFails \/ Closes)
    /\ WF_link(Accepts \/ Refuses \/ Replies \/ EndsSession)

-----------------------------------------------------------------------------
(* The row after the create and the update, which has no fields if there   *)
(* is none.  An update is for the device with the old name.                *)
Meaning(fields, changes) ==
    LET created == Row(fields, "1")
        changed == Row(changes, created.status)
    IN  IF Either(changes, "old_device_name", "device_name") = created.name /\ Acceptable(changed)
        THEN changed ELSE created

Meant(s) == Meaning(s.fields, s.changes)

(* The texts of a scenario are those of its fields.                        *)
CommandsAsMeant ==
    \A s \in Scenarios :
        /\ WellTyped(s.fields) /\ WellTyped(s.changes)
        /\ s.create = CommandOf("create_device", Text(s.fields))
        /\ s.update = IF s.changes = <<>> THEN <<>>
                      ELSE CommandOf("update_device", Text(s.changes))

(* The model is what the file describes that the device's model and        *)
(* version select.                                                         *)
FilesAsMeant ==
    \A s \in Scenarios : LoadModelText(s.files, Meant(s).model, Meant(s).version) = File(s.model)

(* What is wrong with a text is read off the text, not off what the        *)
(* scanners make of it.                                                    *)

AnswerFields ==
    {"cid", "machineConnected", "data", "value", "dev_time", "svr_time", "item_path",
     "item_description", "item_name"}

(* The words of an answer besides its fields and the paths: the id of the  *)
(* query, and what the driver makes of the items' names.                   *)
AnswerWords ==
    LET names == {Escape(ItemNameFromPath(Trim(Unescape(Escape(points[i].namePath))))) :
                     i \in DOMAIN points}
    IN  {Escape("mock-cid"), Escape(Unescape(Escape(device.name \o "-1")))}
        \cup names \cup {"/DV:mock/CP:mock/DT:" \o n : n \in names}

(* The path also stands elsewhere in the answer, or is spelt like another  *)
(* one that is escaped there.                                              *)
Confusable(path) ==
    path \in {""} \cup AnswerFields \cup AnswerWords \cup {Escaped[s] : s \in DOMAIN Escaped}

(* Point i is not found as it was sent: a quote in its path is escaped,    *)
(* the driver has taken blanks off it, or a bracket in its path or an      *)
(* earlier one has ended the query.                                        *)
Lost(i) ==
    \/ points[i].namePath \in DOMAIN Escaped \cup DOMAIN Trimmed
    \/ \E j \in 1..i : points[j].namePath \in Bracketed

-----------------------------------------------------------------------------
(* The Device row is what the fields of create_device, and then of         *)
(* update_device, say, whatever their order and whichever are left out (of *)
(* these update_device keeps the status and resets the others), unless a   *)
(* value is spelt like a field or a number is null: parseDeviceUpsert      *)
(* looks for each field anywhere in the text.                              *)
CommandIsUnderstood ==
    client = "start" =>
        device = Meant(scenario) \/ Misleading(scenario.create) \/ Misleading(scenario.update)

(* The ways to ask for a device: its name in the path or in the device     *)
(* parameter, in any spelling that the server decodes to it, or escaped in *)
(* a command that is posted.                                               *)
Request(method, path, param, body) ==
    [method |-> method, path |-> path, device |-> param, body |-> body]

PostCommand(category, n) ==
    Request("POST", <<"commands">>, "", CommandOf(category, Field("device_name", <<Written(n)>>)))

Spellings(n) == {e \in {n} \cup DOMAIN Decoded : UrlDecode(e) = n}

Asking(request, op, n) == [request |-> request, asks |-> Asks(op, n)]

RequestsAbout(n) ==
    LET Get(path, param) == Request("GET", path, param, <<>>)
        Post(path, param) == Request("POST", path, param, <<>>)
    IN  {Asking(PostCommand(c, n), c, n) :
            c \in {"start_device_collect", "stop_device_collect", "delete_device"}}
        \cup UNION {{
            Asking(Get(<<"latest">>, e), "latest", n),
            Asking(Get(<<"devices", e, "resources", "latest">>, ""), "latest", n),
            Asking(Get(<<"status">>, e), "status", n),
            Asking(Get(<<"devices", e, "status">>, ""), "status of", n),
            Asking(Post(<<"tasks", "start">>, e), "start_device_collect", n),
            Asking(Post(<<"tasks", "stop">>, e), "stop_device_collect", n)} : e \in Spellings(n)}

(* Whichever way a client asks for a device, that device is what the       *)
(* request is carried out for.  The exceptions: the latest resources by    *)
(* path, of a device whose name begins with "status", and a name with a    *)
(* control character, which is escaped on the way and not restored.        *)
RequestsReachTheDevice ==
    client = "create" => \A n \in scenario.names : \A r \in RequestsAbout(n) :
        \/ Route(r.request) = r.asks
        \/ r.asks.op = "latest" /\ HasSegment(r.request.path, "status")
        \/ Unescape(Escape(r.asks.device)) # r.asks.device

(* The points of the device are what its model lists in the components     *)
(* with data items, each under its own component, also after an            *)
(* update_device to another model or version, if the file is written like  *)
(* those of config/models and no two of them have the same path.           *)
PointsOnStart(found) ==
    (client = "start" /\ Readable(scenario.model) /\ device = Meant(scenario)) =>
        points = IF Storable(found) THEN found ELSE <<>>

PointsAreAsListed == PointsOnStart(Points(scenario.model))

(* src/README.md: "ModelParser maps model DataItem entries into DataPoint  *)
(* rows".  The points are the data items of the model, and nothing else.   *)
(* PointsAreAsListed implies it of models with data items only; it is not  *)
(* so for config/models/M2.yaml, whose functions become points.            *)
PointsAreTheItems == PointsOnStart(Items(scenario.model))

(* A record holds the value and the name of the path it is stored under,   *)
(* unless that path stands elsewhere in the answer as well.                *)
RecordsAreOwn ==
    wpc = "close" => \A i \in DOMAIN records :
        LET path == records[i].path
        IN  \/ records[i].data = ValueForPath(path) /\ records[i].itemName = ItemNameFromPath(path)
            \/ Confusable(path)

(* A cycle that succeeds leaves out no point without such a reason.        *)
CycleIsComplete ==
    wpc = "close" =>
        \A i \in DOMAIN points :
            \/ \E r \in DOMAIN records : records[r].path = points[i].namePath
            \/ Lost(i) \/ Confusable(points[i].namePath)

(* The worker with its connection is a collection as DataTask's workers    *)
(* are, whatever the driver and the network do: what DataTask takes for    *)
(* one step that succeeds or fails is the exchange of this module.         *)

phaseOf ==
    [d \in {"device"} |->
        IF wpc \in {"none", "left"} THEN "stopped"
        ELSE IF wpc \in {"loop", "leave"} THEN "resting"
        ELSE "collecting"]

stoppingOf == IF stopFlag /\ wpc \notin {"none", "left"} THEN {"device"} ELSE {}

failuresOf == [d \in {"device"} |-> IF wpc \in {"none", "left"} THEN 0 ELSE fails]

Collection ==
    INSTANCE DeviceCollection
        WITH Devices <- {"device"},
             phase <- phaseOf, stopping <- stoppingOf, failures <- failuresOf

(* After a stop no connection is opened; the collection ends only after a  *)
(* stop or FailLimit cycles in a row that failed at whatever point.        *)
ExchangesAreCycles == Collection!AbsSpec

(* src/README.md: "Stop requests should be observed quickly by active      *)
(* collection workers".  A collection that is asked to stop ends.          *)
StopIsObserved == client = "stopping" ~> client = "over"
=============================================================================
