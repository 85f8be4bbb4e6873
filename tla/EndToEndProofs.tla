--------------------------- MODULE EndToEndProofs ---------------------------
(***************************************************************************)
(* The control of a collection cycle, whatever the texts say and the       *)
(* driver does: types, and the refinement of DeviceCollection.  Then what  *)
(* a cycle stores, the points of a device and its row, and which device a  *)
(* request is carried out for, whatever the texts are made of.             *)
(***************************************************************************)
EXTENDS EndToEnd, TextProofs

(* The worker exists from the start on and is not asked to stop before it  *)
(* is stopped; below the limit it goes on, and it leaves for a reason.     *)
CycleOK ==
    /\ client \in {"create", "update", "start"} => wpc = "none"
    /\ client \in {"running", "stopping"} => wpc # "none"
    /\ client \in {"create", "update", "start", "running"} => ~stopFlag
    /\ wpc = "none" => fails = 0
    /\ wpc \notin {"leave", "left"} => fails < FailLimit
    /\ wpc = "leave" => stopFlag \/ fails = FailLimit

IndType == TypeOK /\ CycleOK

LEMMA InitIndType == Init => IndType
<1> SUFFICES ASSUME Init PROVE IndType
  OBVIOUS
<1>1. TypeOK
  <2>1. stopFlag \in BOOLEAN /\ driverUp \in BOOLEAN
    BY DEF Init
  <2>2. wpc = "none" /\ link = "none" /\ text = <<>> /\ fails = 0 /\ client = "create"
    BY DEF Init
  <2> QED
    BY <2>1, <2>2, CycleAssumption DEF TypeOK, WorkerPc, Link
<1>2. CycleOK
  BY CycleAssumption DEF Init, CycleOK
<1> QED
  BY <1>1, <1>2 DEF IndType

LEMMA NextIndType == IndType /\ [Next]_vars => IndType'
<1> SUFFICES ASSUME IndType, [Next]_vars PROVE IndType'
  OBVIOUS
<1> USE CycleAssumption
    DEF IndType, TypeOK, CycleOK, WorkerPc, Link, workerVars, linkVars, WorkerStays, DriverStays
<1>1. CASE Create
  BY <1>1 DEF Create
<1>2. CASE Update
  BY <1>2 DEF Update
<1>3. CASE Start
  BY <1>3 DEF Start
<1>4. CASE Stop
  BY <1>4 DEF Stop
<1>5. CASE Stopped
  BY <1>5 DEF Stopped
<1>6. CASE Leaves
  BY <1>6 DEF Leaves
<1>7. CASE Connects
  BY <1>7 DEF Connects
<1>8. CASE SendsQuery
  BY <1>8 DEF SendsQuery, Sends
<1>9. CASE TakesAnswer
  BY <1>9 DEF TakesAnswer, Takes
<1>10. CASE CycleFails
  BY <1>10 DEF CycleFails, Ends
<1>11. CASE Closes
  BY <1>11 DEF Closes, Ends
<1>12. CASE Accepts
  BY <1>12 DEF Accepts
<1>13. CASE Refuses
  BY <1>13 DEF Refuses
<1>14. CASE Answers
  BY <1>14 DEF Answers, Replies
<1>15. CASE EndsSession
  BY <1>15 DEF EndsSession
<1>16. CASE Breaks
  BY <1>16 DEF Breaks
<1>17. CASE DriverStopsOrStarts
  BY <1>17 DEF DriverStopsOrStarts
<1>18. CASE Finishes
  BY <1>18 DEF Finishes
<1>19. CASE UNCHANGED vars
  BY <1>19 DEF vars
<1> QED
  BY <1>1, <1>2, <1>3, <1>4, <1>5, <1>6, <1>7, <1>8, <1>9, <1>10, <1>11, <1>12, <1>13,
     <1>14, <1>15, <1>16, <1>17, <1>18, <1>19
     DEF Next

(* The worker's failures stay within the limit, and outside a cycle there  *)
(* is no connection and no message of an earlier one.                      *)
THEOREM TypeCorrect == FairSpec => []TypeOK
<1>1. IndType => TypeOK
  BY DEF IndType
<1> QED
  BY InitIndType, NextIndType, <1>1, PTL DEF FairSpec

-----------------------------------------------------------------------------
(* Refinement *)

Exchanges == Collection!absVars

(* The collection's variables, read off the worker's.                      *)
LEMMA Images ==
    /\ phaseOf["device"] = IF wpc \in {"none", "left"} THEN "stopped"
                           ELSE IF wpc \in {"loop", "leave"} THEN "resting" ELSE "collecting"
    /\ failuresOf["device"] = IF wpc \in {"none", "left"} THEN 0 ELSE fails
    /\ phaseOf'["device"] = IF wpc' \in {"none", "left"} THEN "stopped"
                            ELSE IF wpc' \in {"loop", "leave"} THEN "resting" ELSE "collecting"
    /\ failuresOf'["device"] = IF wpc' \in {"none", "left"} THEN 0 ELSE fails'
    /\ \A v : phaseOf' = [phaseOf EXCEPT !["device"] = v] <=> phaseOf'["device"] = v
    /\ \A v : failuresOf' = [failuresOf EXCEPT !["device"] = v] <=> failuresOf'["device"] = v
    /\ phaseOf' = phaseOf <=> phaseOf'["device"] = phaseOf["device"]
    /\ failuresOf' = failuresOf <=> failuresOf'["device"] = failuresOf["device"]
  BY DEF phaseOf, failuresOf

(* Steps that leave the worker in its phase                                *)
LEMMA WithinPhase ==
    ASSUME UNCHANGED <<stopFlag, fails>>,
           \/ wpc' = wpc
           \/ {wpc, wpc'} \subseteq {"connect", "read", "close", "closeFailed"}
           \/ {wpc, wpc'} \subseteq {"loop", "leave"}
    PROVE  UNCHANGED Exchanges
<1>1. phaseOf' = phaseOf /\ failuresOf' = failuresOf
  BY Images
<1>2. stoppingOf' = stoppingOf
  BY DEF stoppingOf
<1> QED
  BY <1>1, <1>2 DEF Exchanges, Collection!absVars

LEMMA NextMaps == IndType /\ [Next]_vars => [Collection!AbsNext]_Exchanges
<1> SUFFICES ASSUME IndType, [Next]_vars PROVE Collection!AbsNext \/ UNCHANGED Exchanges
  OBVIOUS
<1> USE CycleAssumption DEF workerVars, linkVars, WorkerStays, DriverStays
<1>1. CASE Create \/ Update \/ Stopped
  BY <1>1, WithinPhase DEF Create, Update, Stopped
<1>2. CASE Start
  <2>1. CASE wpc' = wpc
    BY <1>2, <2>1, WithinPhase DEF Start
  <2>2. CASE wpc' # wpc
    <3>1. wpc = "none" /\ wpc' = "loop" /\ fails = 0 /\ fails' = 0 /\ ~stopFlag /\ ~stopFlag'
      BY <1>2, <2>2 DEF Start, IndType, CycleOK
    <3>2. Collection!Start("device")
      BY <3>1, Images DEF Collection!Start, stoppingOf
    <3> QED
      BY <3>2 DEF Collection!AbsNext
  <2> QED
    BY <2>1, <2>2
<1>3. CASE Stop
  <2>1. wpc' = wpc /\ fails' = fails /\ stopFlag'
    BY <1>3 DEF Stop
  <2>2. phaseOf' = phaseOf /\ failuresOf' = failuresOf
    BY <2>1, Images
  <2>3. CASE wpc \in {"none", "left"}
    BY <2>1, <2>2, <2>3 DEF Exchanges, Collection!absVars, stoppingOf
  <2>4. CASE wpc \notin {"none", "left"}
    <3>1. phaseOf["device"] # "stopped" /\ stoppingOf' = stoppingOf \cup {"device"}
      BY <2>1, <2>4, Images DEF stoppingOf
    <3>2. Collection!AskToStop({"device"})
      BY <2>2, <3>1 DEF Collection!AskToStop
    <3> QED
      BY <3>2 DEF Collection!AbsNext
  <2> QED
    BY <2>3, <2>4
<1>4. CASE Leaves
  BY <1>4, WithinPhase DEF Leaves
<1>5. CASE Finishes
  <2>1. wpc = "leave" /\ wpc' = "left" /\ (stopFlag \/ fails = FailLimit)
    BY <1>5 DEF Finishes, IndType, CycleOK
  <2>2. Collection!Finish("device")
    BY <2>1, Images DEF Collection!Finish, stoppingOf
  <2> QED
    BY <2>2 DEF Collection!AbsNext
<1>6. CASE Connects
  <2>1. wpc = "loop" /\ wpc' = "connect" /\ ~stopFlag /\ ~stopFlag' /\ fails' = fails
        /\ fails < FailLimit
    BY <1>6 DEF Connects, IndType, CycleOK
  <2>2. Collection!BeginCycle("device")
    BY <2>1, Images DEF Collection!BeginCycle, stoppingOf
  <2> QED
    BY <2>2 DEF Collection!AbsNext
<1>7. CASE SendsQuery \/ TakesAnswer
  BY <1>7, WithinPhase DEF SendsQuery, Sends, TakesAnswer, Takes
<1>8. CASE CycleFails \/ Closes
  <2>1. /\ wpc \in {"connect", "read", "close", "closeFailed"} /\ wpc' \in {"loop", "leave"}
        /\ fails' = 0 \/ fails' = fails + 1
        /\ stopFlag' = stopFlag
    BY <1>8 DEF CycleFails, Closes, Ends
  <2>2. Collection!EndCycle("device")
    BY <2>1, Images DEF Collection!EndCycle, stoppingOf
  <2> QED
    BY <2>2 DEF Collection!AbsNext
<1>9. CASE Accepts \/ Refuses \/ Answers \/ EndsSession \/ Breaks \/ DriverStopsOrStarts
  BY <1>9, WithinPhase DEF Accepts, Refuses, Answers, EndsSession, Breaks, DriverStopsOrStarts
<1>10. CASE UNCHANGED vars
  BY <1>10, WithinPhase DEF vars
<1> QED
  BY <1>1, <1>2, <1>3, <1>4, <1>5, <1>6, <1>7, <1>8, <1>9, <1>10 DEF Next

LEMMA InitMaps == Init => Collection!AbsInit
  BY DEF Init, Collection!AbsInit, phaseOf, failuresOf, stoppingOf

(* The blocking exchange over DriverClient, with a driver that refuses,    *)
(* answers, stays silent or disappears at any moment, is the cycle that    *)
(* DataTask takes for one step that succeeds or fails.                     *)
THEOREM ExchangeImplementsCycle == FairSpec => ExchangesAreCycles
<1>1. IndType /\ [Next]_vars => [Collection!AbsNext]_(Collection!absVars)
  BY NextMaps DEF Exchanges
<1> QED
  BY <1>1, InitMaps, InitIndType, NextIndType, PTL
     DEF FairSpec, ExchangesAreCycles, Collection!AbsSpec

-----------------------------------------------------------------------------
(* The texts of a cycle                                                    *)

Sequence(s) == \E n : IsSeq(s, n)
Answer == AnswerTo(device.name \o "-1", points)

(* The message on the connection is the query of the device for its points *)
(* and then the answer to it; what a cycle that succeeds has stored is     *)
(* made of that answer.                                                    *)
CycleTexts ==
    /\ Sequence(points)
    /\ link \in {"asked", "answered"} => wpc = "read"
    /\ link = "asked" => text = BuildQuery(device.name \o "-1", points)
    /\ link = "answered" => text = Answer
    /\ wpc = "close" => records = ProcessResponse(points, Answer)

IndTexts == IndType /\ CycleTexts /\ scenario \in Scenarios

LEMMA EmptySequence == Sequence(<<>>)
<1>1. IsSeq(<<>>, 0)
  BY DEF IsSeq
<1> QED
  BY <1>1 DEF Sequence

(* A model file has a number of lines, and so has an inline model.         *)
LEMMA LinesAreASequence ==
    ASSUME NEW s \in Scenarios, NEW model, NEW version
    PROVE  Sequence(LoadModelText(s.files, model, version))
<1> DEFINE lines == LoadModelText(s.files, model, version)
<1> DEFINE names == Candidates(model, version)
<1> DEFINE found == SelectInSeq(names, LAMBDA f : f \in DOMAIN s.files)
<1>1. lines = IF model \in DOMAIN Inline THEN Inline[model]
              ELSE IF found = 0 THEN <<>> ELSE s.files[names[found]]
  BY DEF LoadModelText
<1>2. found # 0 => found \in 1..Len(names) /\ names[found] \in DOMAIN s.files
  <2> DEFINE I == {i \in 1..Len(names) : names[i] \in DOMAIN s.files}
  <2>1. found = IF I # {} THEN Min(I) ELSE 0
    BY DEF SelectInSeq
  <2>2. I \subseteq Nat
    OBVIOUS
  <2>3. ASSUME I # {} PROVE Min(I) \in I
    <3> HIDE DEF I
    <3>1. PICK k \in I : \A i \in I : k <= i
      BY <2>2, <2>3, MinExists
    <3>2. Min(I) = k
      BY <2>2, <3>1, MinIs
    <3> QED
      BY <3>1, <3>2
  <2>4. \A i \in I : i \in 1..Len(names) /\ names[i] \in DOMAIN s.files
    OBVIOUS
  <2> HIDE DEF I, found, names
  <2> QED
    BY <2>1, <2>3, <2>4
<1> HIDE DEF found, names
<1>3. lines = <<>> \/ lines \in Seq(ModelLine)
  BY <1>1, <1>2, InlineAssumption, ScenarioAssumption
<1> HIDE DEF lines
<1>4. ASSUME lines \in Seq(ModelLine) PROVE Sequence(lines)
  <2>1. Len(lines) \in Nat /\ lines = [i \in 1..Len(lines) |-> lines[i]]
    BY <1>4
  <2> QED
    BY <2>1 DEF Sequence, IsSeq
<1> QED
  BY <1>3, <1>4, EmptySequence DEF lines

(* initDataPointsByDevice leaves the points in the order of the items.     *)
LEMMA PointsAreASequence ==
    ASSUME scenario \in Scenarios, NEW row
    PROVE  Sequence(InitialPoints(row))
<1> DEFINE lines == LoadModelText(scenario.files, row.model, row.version)
<1>1. Sequence(lines)
  BY LinesAreASequence
<1>2. InitialPoints(row) \in {ParseDataItems(lines), <<>>}
  BY DEF InitialPoints
<1> HIDE DEF lines
<1>3. Sequence(ParseDataItems(lines))
  BY <1>1, ItemsAreASequence DEF Sequence
<1> QED
  BY <1>2, <1>3, EmptySequence

LEMMA InitTexts == Init => IndTexts
<1> SUFFICES ASSUME Init PROVE IndTexts
  OBVIOUS
<1>1. IndType
  BY InitIndType
<1>2. points = <<>> /\ link = "none" /\ wpc = "none" /\ scenario \in Scenarios
  BY DEF Init
<1>3. CycleTexts
  BY <1>2, EmptySequence DEF CycleTexts
<1> QED
  BY <1>1, <1>2, <1>3 DEF IndTexts

LEMMA NextTexts == IndTexts /\ [Next]_vars => IndTexts'
<1> SUFFICES ASSUME IndTexts, [Next]_vars PROVE IndTexts'
  OBVIOUS
<1>1. IndType'
  BY NextIndType DEF IndTexts
<1> USE DEF workerVars, linkVars, WorkerStays, DriverStays
<1>2. scenario' = scenario /\ scenario \in Scenarios
  BY DEF IndTexts, Next, vars, Create, Update, Start, Stop, Stopped, Leaves, Finishes, Connects,
         SendsQuery, TakesAnswer, CycleFails, Closes, Ends, Accepts, Refuses, Answers, EndsSession,
         Breaks, DriverStopsOrStarts
<1> DEFINE cid == device.name \o "-1"
<1>3. /\ Sequence(points)
      /\ link \in {"asked", "answered"} => wpc = "read"
      /\ link = "asked" => text = BuildQuery(cid, points)
      /\ link = "answered" => text = Answer
      /\ wpc = "close" => records = ProcessResponse(points, Answer)
  BY DEF IndTexts, CycleTexts
<1>4. ASSUME UNCHANGED <<device, points>> PROVE Answer' = Answer /\ cid' = cid
  BY <1>4 DEF Answer
<1> HIDE DEF cid
<1> SUFFICES CycleTexts'
  BY <1>1, <1>2 DEF IndTexts
<1>5. CASE Create \/ Update
  <2>1. wpc' = "none" /\ link' = "none"
    BY <1>5 DEF Create, Update, IndTexts, IndType, TypeOK, CycleOK
  <2>2. points' = points \/ \E row : points' = InitialPoints(row)
    BY <1>5 DEF Create, Update
  <2>3. Sequence(points')
    BY <1>2, <1>3, <2>2, PointsAreASequence
  <2> QED
    BY <2>1, <2>3 DEF CycleTexts
<1>6. CASE SendsQuery
  <2>1. /\ wpc' = "read" /\ link' = "asked" /\ text' = BuildQuery(cid, points)
        /\ UNCHANGED <<device, points>>
    BY <1>6 DEF SendsQuery, Sends, cid
  <2> QED
    BY <1>3, <1>4, <2>1 DEF CycleTexts, cid
<1>7. CASE TakesAnswer
  <2>1. /\ text = Answer /\ link' = "closing" /\ wpc' \in {"close", "closeFailed"}
        /\ wpc' = "close" => records' = ProcessResponse(points, text)
        /\ UNCHANGED <<device, points>>
    BY <1>3, <1>7 DEF TakesAnswer, Takes
  <2> QED
    BY <1>3, <1>4, <2>1 DEF CycleTexts
<1>8. CASE Answers
  <2>1. /\ text = BuildQuery(cid, points) /\ wpc' = wpc /\ wpc = "read"
        /\ link' = "answered" /\ text' = HandleQuery(text)
        /\ UNCHANGED <<device, points>>
    BY <1>3, <1>8 DEF Answers, Replies
  <2>2. text' = Answer
    BY <2>1 DEF Answer, AnswerTo, cid
  <2> QED
    BY <1>3, <1>4, <2>1, <2>2 DEF CycleTexts
<1>9. CASE Start \/ Connects \/ CycleFails \/ Closes
  <2>1. /\ link' \in {"none", "dialing"} /\ wpc' # "close" /\ UNCHANGED <<device, points>>
    BY <1>9 DEF Start, Connects, CycleFails, Closes, Ends, IndTexts, IndType, TypeOK, CycleOK
  <2> QED
    BY <1>3, <1>4, <2>1 DEF CycleTexts
<1>10. CASE Accepts \/ Refuses \/ EndsSession \/ Breaks
  <2>1. /\ link' \in {"open", "broken"} /\ wpc' = wpc
        /\ UNCHANGED <<device, points, records>>
    BY <1>10 DEF Accepts, Refuses, EndsSession, Breaks
  <2> QED
    BY <1>3, <1>4, <2>1 DEF CycleTexts
<1>11. CASE Stop \/ Stopped \/ DriverStopsOrStarts \/ UNCHANGED vars
  <2>1. UNCHANGED <<link, wpc, text, device, points, records>>
    BY <1>11 DEF Stop, Stopped, DriverStopsOrStarts, vars
  <2> QED
    BY <1>3, <1>4, <2>1 DEF CycleTexts, cid
<1>12. CASE Leaves \/ Finishes
  <2>1. link' = "none" /\ wpc' # "close" /\ UNCHANGED <<device, points>>
    BY <1>12 DEF Leaves, Finishes, IndTexts, IndType, TypeOK
  <2> QED
    BY <1>3, <1>4, <2>1 DEF CycleTexts
<1> QED
  BY <1>5, <1>6, <1>7, <1>8, <1>9, <1>10, <1>11, <1>12 DEF Next

(* Whatever is spelt like no other word of the answer is a path that can   *)
(* be mistaken for nothing.                                                *)
LEMMA ConfusableIs ==
    ASSUME NEW path, ~Confusable(path)
    PROVE  path \notin Mistakable(device.name \o "-1", points)
<1> DEFINE cid == device.name \o "-1"
<1> DEFINE names == {Escape(ItemNameFromPath(Trim(Unescape(Escape(points[i].namePath))))) :
                        i \in DOMAIN points}
<1> DEFINE full == {"/DV:mock/CP:mock/DT:" \o n : n \in names}
<1>1. AnswerWords = {Escape("mock-cid"), Escape(Unescape(Escape(cid)))} \cup names \cup full
  BY Zenon DEF AnswerWords
<1>2. Mistakable(cid, points)
        = FieldWords \cup {"", Escape("mock-cid"), Escape(Unescape(Escape(cid)))}
          \cup names \cup full \cup {Escaped[s] : s \in DOMAIN Escaped}
  BY Zenon DEF Mistakable
<1>3. AnswerFields = FieldWords
  BY DEF AnswerFields, FieldWords
<1>4. path \notin {""} \cup AnswerFields \cup AnswerWords \cup {Escaped[s] : s \in DOMAIN Escaped}
  BY DEF Confusable
<1> HIDE DEF names, full, cid
<1>5. path \notin Mistakable(cid, points)
  BY <1>1, <1>2, <1>3, <1>4
<1> QED
  BY <1>5 DEF cid

LEMMA OwnInCycle == IndTexts => RecordsAreOwn
<1> SUFFICES ASSUME IndTexts, wpc = "close", NEW i \in DOMAIN records,
                    ~Confusable(records[i].path)
             PROVE  OwnRecord(records[i])
  BY DEF RecordsAreOwn, OwnRecord
<1> DEFINE cid == device.name \o "-1"
<1>1. records = ProcessResponse(points, AnswerTo(cid, points))
  BY DEF IndTexts, CycleTexts, Answer
<1>2. PICK n : IsSeq(points, n)
  BY DEF IndTexts, CycleTexts, Sequence
<1>3. records[i].path \notin Mistakable(cid, points)
  BY ConfusableIs
<1> HIDE DEF cid
<1>4. PICK l : ResponseTo(records, cid, points, n, l)
  BY <1>1, <1>2, RecordsAreFound
<1>5. i \in 1..l
  BY <1>4, SeqLen DEF ResponseTo
<1> QED
  BY <1>3, <1>4, <1>5 DEF ResponseTo

LEMMA CompleteCycle == IndTexts => CycleIsComplete
<1> SUFFICES ASSUME IndTexts, wpc = "close", NEW i \in DOMAIN points, ~Lost(i),
                    ~Confusable(points[i].namePath)
             PROVE  \E r \in DOMAIN records : records[r].path = points[i].namePath
  BY DEF CycleIsComplete
<1> DEFINE cid == device.name \o "-1"
<1> DEFINE path == points[i].namePath
<1>1. records = ProcessResponse(points, AnswerTo(cid, points))
  BY DEF IndTexts, CycleTexts, Answer
<1>2. PICK n : IsSeq(points, n)
  BY DEF IndTexts, CycleTexts, Sequence
<1>3. i \in 1..n
  BY <1>2, SeqLen
<1>4. path \notin Mistakable(cid, points)
  BY ConfusableIs
<1>5. path \notin DOMAIN Escaped \cup DOMAIN Trimmed /\ \A j \in 1..i : points[j].namePath \notin Bracketed
  BY DEF Lost
<1> HIDE DEF cid
<1>6. HasField(AnswerTo(cid, points), path)
  <2>1. path = points[i].namePath
    OBVIOUS
  <2> HIDE DEF path
  <2> QED
    BY <1>2, <1>3, <1>4, <1>5, <2>1, PathIsAnswered
<1>7. PICK l : ResponseTo(records, cid, points, n, l)
  BY <1>1, <1>2, RecordsAreFound
<1>8. DOMAIN records = 1..l
  BY <1>7, SeqLen DEF ResponseTo
<1> QED
  BY <1>3, <1>4, <1>6, <1>7, <1>8 DEF ResponseTo

(* For every device and points, and however the driver and the network     *)
(* behave: a stored record has the value and the name of its own path,     *)
(* unless that path is spelt like something else in the answer.            *)
THEOREM StoredRecordsAreOwn == FairSpec => []RecordsAreOwn
  BY InitTexts, NextTexts, OwnInCycle, PTL DEF FairSpec

(* A cycle that succeeds has a record for every point whose path comes     *)
(* back as it was sent.                                                    *)
THEOREM SuccessIsComplete == FairSpec => []CycleIsComplete
  BY InitTexts, NextTexts, CompleteCycle, PTL DEF FairSpec

-----------------------------------------------------------------------------
(* The points                                                              *)

(* Until the collection starts, the points belong to the row: a change of  *)
(* its model or version replaces them, another one keeps them.             *)
PointsOfRow == client \in {"update", "start"} => points = InitialPoints(device)

IndPoints == PointsOfRow /\ scenario \in Scenarios

LEMMA NextPoints == IndPoints /\ [Next]_vars => IndPoints'
<1> SUFFICES ASSUME IndPoints, [Next]_vars PROVE IndPoints'
  OBVIOUS
<1> USE DEF workerVars, linkVars, WorkerStays, DriverStays
<1>1. scenario' = scenario /\ scenario \in Scenarios
  BY DEF IndPoints, Next, vars, Create, Update, Start, Stop, Stopped, Leaves, Finishes, Connects,
         SendsQuery, TakesAnswer, CycleFails, Closes, Ends, Accepts, Refuses, Answers, EndsSession,
         Breaks, DriverStopsOrStarts
<1> DEFINE Initial(files, model, version) ==
        LET found == ParseDataItems(LoadModelText(files, model, version))
        IN  IF Storable(found) THEN found ELSE <<>>
<1>2. /\ \A row : InitialPoints(row) = Initial(scenario.files, row.model, row.version)
      /\ InitialPoints(device)' = Initial(scenario'.files, device'.model, device'.version)
  BY DEF InitialPoints
<1> HIDE DEF Initial
<1>3. CASE Create
  BY <1>1, <1>2, <1>3 DEF Create, IndPoints, PointsOfRow
<1>4. CASE Update
  <2> DEFINE row == UpdatedRow(scenario.update, device)
  <2>1. /\ points = InitialPoints(device) /\ client' = "start"
        /\ \/ UNCHANGED <<device, points>>
           \/ /\ device' = row
              /\ points' = IF device'.model = device.model /\ device'.version = device.version
                           THEN points ELSE InitialPoints(device')
    BY <1>4 DEF Update, IndPoints, PointsOfRow
  <2> HIDE DEF row
  <2>2. points' = Initial(scenario.files, device'.model, device'.version)
    BY <1>2, <2>1
  <2> QED
    BY <1>1, <1>2, <2>2 DEF IndPoints, PointsOfRow
<1>5. CASE Start \/ Stop \/ Stopped
  BY <1>1, <1>5 DEF Start, Stop, Stopped, IndPoints, PointsOfRow
<1>6. CASE UNCHANGED <<client, device, points>>
  BY <1>1, <1>2, <1>6 DEF IndPoints, PointsOfRow
<1>7. Create \/ Update \/ Start \/ Stop \/ Stopped \/ UNCHANGED <<client, device, points>>
  BY DEF Next, vars, Leaves, Finishes, Connects, SendsQuery, TakesAnswer, CycleFails, Closes, Ends,
         Accepts, Refuses, Answers, EndsSession, Breaks, DriverStopsOrStarts
<1> QED
  BY <1>3, <1>4, <1>5, <1>6, <1>7

LEMMA PointsOfModel ==
    ASSUME FilesAsMeant PROVE IndPoints => PointsAreAsListed
<1> SUFFICES ASSUME IndPoints, client = "start", Readable(scenario.model), device = Meant(scenario)
             PROVE  points = IF Storable(Points(scenario.model)) THEN Points(scenario.model) ELSE <<>>
  BY Zenon DEF PointsAreAsListed, PointsOnStart
<1> DEFINE model == scenario.model
<1>1. scenario \in Scenarios /\ points = InitialPoints(device)
  BY DEF IndPoints, PointsOfRow
<1>2. model \in Model /\ LoadModelText(scenario.files, device.model, device.version) = File(model)
  BY <1>1, ScenarioAssumption DEF FilesAsMeant
<1> HIDE DEF model
<1>3. ParseDataItems(File(model)) = Points(model)
  BY <1>2, FileIsRead DEF model
<1> QED
  BY Zenon, <1>1, <1>2, <1>3 DEF InitialPoints, model

(* For every model with any number of components, lists and items, written *)
(* as the files of config/models are: the points of the device are what    *)
(* its model lists in the components with data items, each under its own   *)
(* component, also after an update_device to another model or version.     *)
THEOREM PointsAsListed == ASSUME FilesAsMeant PROVE FairSpec => []PointsAreAsListed
<1>1. Init => IndPoints
  BY DEF Init, IndPoints, PointsOfRow
<1>2. IndPoints => PointsAreAsListed
  BY PointsOfModel
<1> QED
  BY <1>1, <1>2, NextPoints, PTL DEF FairSpec

(* So they are the data items of the model, and nothing else, if it lists  *)
(* nothing else.  A model that does, such as M2 with its functions, is why *)
(* this is not proved of all.                                              *)
OnlyItemsAreListed == \A s \in Scenarios : DataItemsOnly(s.model)

LEMMA ItemsOfModel ==
    ASSUME OnlyItemsAreListed PROVE IndPoints /\ PointsAreAsListed => PointsAreTheItems
<1> SUFFICES ASSUME IndPoints, PointsAreAsListed, client = "start", Readable(scenario.model),
                    device = Meant(scenario)
             PROVE  points = IF Storable(Items(scenario.model)) THEN Items(scenario.model) ELSE <<>>
  BY Zenon DEF PointsAreTheItems, PointsOnStart
<1>1. scenario \in Scenarios
  BY DEF IndPoints
<1>2. scenario.model \in Model /\ DataItemsOnly(scenario.model)
  BY <1>1, ScenarioAssumption DEF OnlyItemsAreListed
<1>3. Points(scenario.model) = Items(scenario.model)
  BY <1>2, OnlyItems
<1> QED
  BY Zenon, <1>3 DEF PointsAreAsListed, PointsOnStart

(* Of a model with data items only, the points are these items.            *)
THEOREM PointsAreItems ==
    ASSUME FilesAsMeant, OnlyItemsAreListed PROVE FairSpec => []PointsAreTheItems
<1>1. Init => IndPoints
  BY DEF Init, IndPoints, PointsOfRow
<1>2. IndPoints => PointsAreTheItems
  BY PointsOfModel, ItemsOfModel
<1> QED
  BY <1>1, <1>2, NextPoints, PTL DEF FairSpec

-----------------------------------------------------------------------------
(* The row                                                                 *)

(* An update follows only if there is one, and it finds the row that the   *)
(* fields of create_device say.                                            *)
CommandsTaken ==
    /\ scenario \in Scenarios
    /\ client = "update" =>
          /\ scenario.changes # <<>>
          /\ device = Row(scenario.fields, "1") \/ Misleading(scenario.create)
    /\ CommandIsUnderstood

(* A row that is updated has what the fields say, and the status it had if *)
(* they say none.                                                          *)
LEMMA UpdatedRowIs ==
    ASSUME NEW t, NEW fields, SaysAs(t, fields), NEW row
    PROVE  UpdatedRow(t, row) = Row(fields, row.status)
<1> DEFINE status == row.status
<1> DEFINE given == HasField(t, "status") \/ HasField(t, "Status")
<1>1. ParseDeviceUpsert(t) = Row(fields, "1")
  BY RowIsMeant
<1>2. UpdatedRow(t, row) = IF given THEN Row(fields, "1") ELSE WithStatus(Row(fields, "1"), status)
  BY Zenon, <1>1 DEF UpdatedRow, WithStatus
<1>3. given <=> FieldNamed(fields, "status") # 0 \/ FieldNamed(fields, "Status") # 0
  BY DEF SaysAs, RowFields, NumberFields
<1> HIDE DEF status, given
<1>4. CASE given
  <2>1. Row(fields, "1") = Row(fields, status)
    BY <1>3, <1>4, StatusIsGiven
  <2> QED BY Zenon, <1>2, <1>4, <2>1 DEF status
<1>5. CASE ~given
  <2>1. WithStatus(Row(fields, "1"), status) = Row(fields, status)
    BY <1>3, <1>5, StatusIsKept
  <2> QED BY Zenon, <1>2, <1>5, <2>1 DEF status
<1> QED BY <1>4, <1>5

(* Fields that are not there change nothing.                               *)
LEMMA NothingChanges ==
    ASSUME NEW fields, NEW changes, changes = <<>>, HasText(Row(fields, "1").name)
    PROVE  Meaning(fields, changes) = Row(fields, "1")
<1> DEFINE none == ""
<1> DEFINE one == "1"
<1> DEFINE created == Row(fields, one)
<1> DEFINE changed == Row(changes, created.status)
<1> DEFINE old == Either(changes, "old_device_name", "device_name")
<1>1. ASSUME NEW name PROVE FieldNamed(changes, name) = 0
  <2>1. Len(changes) = 0
    OBVIOUS
  <2> QED BY <2>1 DEF FieldNamed, SelectInSeq
<1>2. ASSUME NEW name PROVE Given(changes, name) = none
  BY Zenon, <1>1 DEF Given
<1>3. old = none
  BY Zenon, <1>2 DEF Either
<1>4. created.name # none
  BY Zenon DEF HasText
<1>5. Meaning(fields, changes) = IF old = created.name /\ Acceptable(changed)
                                 THEN changed ELSE created
  BY Zenon DEF Meaning
<1> HIDE DEF none, old, created, changed
<1>6. Meaning(fields, changes) = created
  BY Zenon, <1>3, <1>4, <1>5
<1> QED BY <1>6 DEF created, one

LEMMA NextTaken ==
    ASSUME CommandsAsMeant PROVE CommandsTaken /\ [Next]_vars => CommandsTaken'
<1> SUFFICES ASSUME CommandsTaken, [Next]_vars PROVE CommandsTaken'
  OBVIOUS
<1> USE DEF workerVars, linkVars, WorkerStays, DriverStays
<1>1. scenario' = scenario /\ scenario \in Scenarios
  BY DEF CommandsTaken, Next, vars, Create, Update, Start, Stop, Stopped, Leaves, Finishes,
         Connects, SendsQuery, TakesAnswer, CycleFails, Closes, Ends, Accepts, Refuses, Answers,
         EndsSession, Breaks, DriverStopsOrStarts
<1> DEFINE fields == scenario.fields
<1> DEFINE changes == scenario.changes
<1> DEFINE create == scenario.create
<1> DEFINE update == scenario.update
<1> DEFINE meant == Meaning(fields, changes)
<1>2. /\ WellTyped(fields) /\ WellTyped(changes)
      /\ create = CommandOf("create_device", Text(fields))
      /\ update = IF changes = <<>> THEN <<>> ELSE CommandOf("update_device", Text(changes))
  BY <1>1 DEF CommandsAsMeant
<1>3. /\ fields' = fields /\ changes' = changes /\ create' = create /\ update' = update
      /\ Meant(scenario) = meant /\ Meant(scenario)' = meant
  BY <1>1 DEF Meant
<1>4. /\ client = "update" => /\ changes # <<>>
                              /\ device = Row(fields, "1") \/ Misleading(create)
      /\ client = "start" => device = meant \/ Misleading(create) \/ Misleading(update)
  BY <1>3 DEF CommandsTaken, CommandIsUnderstood
<1>5. ASSUME client' = "update" => /\ changes # <<>>
                                   /\ device' = Row(fields, "1") \/ Misleading(create),
             client' = "start" => device' = meant \/ Misleading(create) \/ Misleading(update)
      PROVE  CommandsTaken'
  BY <1>1, <1>3, <1>5 DEF CommandsTaken, CommandIsUnderstood
<1> DEFINE parsed == ParseDeviceUpsert(create)
<1> DEFINE row == UpdatedRow(update, device)
<1> DEFINE old == FirstOf(update, <<"old_device_name", "device_name">>)
<1>6. CASE Create
  <2>1. \/ client' = "over"
        \/ /\ Acceptable(parsed) /\ device' = parsed
           /\ client' = IF update = <<>> THEN "start" ELSE "update"
    BY <1>6 DEF Create
  <2>2. ~Misleading(create) => parsed = Row(fields, "1")
    BY <1>2, FieldsAreRead, RowIsMeant DEF Upserts
  <2>3. update = <<>> <=> changes = <<>>
    BY <1>2, UpsertIsHandled DEF Upserts
  <2>4. Acceptable(parsed) => HasText(parsed.name)
    BY Zenon DEF Acceptable, HasText
  <2>5. changes = <<>> /\ HasText(Row(fields, "1").name) => meant = Row(fields, "1")
    BY NothingChanges
  <2> HIDE DEF parsed, fields, changes, create, update, meant
  <2> QED BY <1>5, <2>1, <2>2, <2>3, <2>4, <2>5
<1>7. CASE Update
  <2>1. /\ client' = "start" /\ client = "update"
        /\ IF Handle(update).op = "update_device" /\ Acceptable(row) /\ old = device.name
           THEN device' = row ELSE device' = device
    BY <1>7 DEF Update
  <2>2. ASSUME ~Misleading(create), ~Misleading(update) PROVE device' = meant
    <3> DEFINE changed == Row(changes, device.status)
    <3>1. device = Row(fields, "1") /\ update = CommandOf("update_device", Text(changes))
      BY <1>2, <1>4, <2>1, <2>2
    <3>2. SaysAs(update, changes) /\ Handle(update).op = "update_device"
      BY <1>2, <2>2, <3>1, FieldsAreRead, UpsertIsHandled DEF Upserts
    <3>3. row = changed
      BY <3>2, UpdatedRowIs
    <3>4. old = Either(changes, "old_device_name", "device_name")
      BY <3>2, EitherIs DEF StringFields
    <3>5. meant = IF old = device.name /\ Acceptable(changed) THEN changed ELSE device
      BY Zenon, <3>1, <3>4 DEF Meaning
    <3> HIDE DEF row, old, changed, fields, changes, create, update, meant
    <3> QED BY <2>1, <3>2, <3>3, <3>5
  <2> HIDE DEF row, old, fields, changes, create, update, meant
  <2> QED BY <1>5, <2>1, <2>2
<1>8. CASE Start \/ Stop \/ Stopped
  <2>1. client' \notin {"update", "start"}
    BY <1>8 DEF Start, Stop, Stopped
  <2> QED BY <1>5, <2>1
<1>9. CASE UNCHANGED <<client, device>>
  BY <1>4, <1>5, <1>9
<1>10. Create \/ Update \/ Start \/ Stop \/ Stopped \/ UNCHANGED <<client, device>>
  BY DEF Next, vars, Leaves, Finishes, Connects, SendsQuery, TakesAnswer, CycleFails, Closes, Ends,
         Accepts, Refuses, Answers, EndsSession, Breaks, DriverStopsOrStarts
<1> QED
  BY <1>6, <1>7, <1>8, <1>9, <1>10

(* For every list of fields, in any order and with any of them left out,   *)
(* empty or twice: the row after create_device, and after update_device,   *)
(* is what the fields say, unless a value is spelt like a field or a field *)
(* is null.                                                                *)
THEOREM CommandsAreUnderstood ==
    ASSUME CommandsAsMeant PROVE FairSpec => []CommandIsUnderstood
<1>1. Init => CommandsTaken
  BY DEF Init, CommandsTaken, CommandIsUnderstood
<1>2. CommandsTaken => CommandIsUnderstood
  BY DEF CommandsTaken
<1> QED
  BY <1>1, <1>2, NextTaken, PTL DEF FairSpec

-----------------------------------------------------------------------------
(* Requests                                                                *)

(* The same for a command that is posted                                   *)
LEMMA CommandOfCarries ==
    ASSUME NEW c \in OneDevice, NEW name
    PROVE  \E l, k : Carries(CommandOf(c, Field("device_name", <<Written(name)>>)), l, k, c, name)
<1> DEFINE p == Field("uid", <<Word("admin")>>)
<1> DEFINE s == Field("mid", <<Word("m")>>)
<1>1. Word(c) = Written(c)
  BY CategoryAssumption DEF Written, Escape, Mapped, Categories, OneDevice
<1>2. CommandOf(c, Field("device_name", <<Written(name)>>))
        = Braced(Joined(Joined(p, Cmd(c, name)), s))
  BY <1>1, Zenon DEF CommandOf, Joined, Braced, Cmd
<1>3. IsSeq(p, 3) /\ p[1] = Word("uid") /\ p[2] = Mark(":") /\ p[3] = Word("admin")
  BY OneField
<1>4. IsSeq(s, 3)
  BY OneField
<1> HIDE DEF p, s
<1>5. Neutral(p, 3)
  <2>1. \A w \in {"category", "device_name"} :
           Word(w) \notin {Word("uid"), Word("admin"), Mark(":")}
    BY Marks, WordsDiffer
  <2> QED BY <1>3, <2>1 DEF Neutral
<1> DEFINE n == 3
<1>6. Neutral(p, n) /\ IsSeq(s, n)
  BY <1>4, <1>5
<1> HIDE DEF n
<1>7. Carries(Braced(Joined(Joined(p, Cmd(c, name)), s)), n + 14 + n + 2, n + 5, c, name)
  BY <1>6, CommandCarried
<1> QED BY <1>2, <1>7, Zenon

(* A command text for one device asks for that device, unless its name is  *)
(* not restored.                                                           *)
LEMMA TextAsks ==
    ASSUME NEW c \in OneDevice, NEW name, Unescape(Escape(name)) = name
    PROVE  /\ Handle(CommandOf(c, Field("device_name", <<Written(name)>>))) = Asks(c, name)
           /\ HasText(name) => \A mid : Handle(CommandEnvelope(c, name, mid)) = Asks(c, name)
<1>1. Handle(CommandOf(c, Field("device_name", <<Written(name)>>))) = Asks(c, name)
  <2> DEFINE t == CommandOf(c, Field("device_name", <<Written(name)>>))
  <2>1. PICK l, k : Carries(t, l, k, c, name)
    BY CommandOfCarries
  <2> HIDE DEF t
  <2>2. Handle(t) = Asks(c, name)
    BY <2>1, HandleIs
  <2> QED BY <2>2 DEF t
<1>2. ASSUME NEW mid, HasText(name) PROVE Handle(CommandEnvelope(c, name, mid)) = Asks(c, name)
  <2> DEFINE t == CommandEnvelope(c, name, mid)
  <2>1. PICK l, k : Carries(t, l, k, c, name)
    BY <1>2, EnvelopeCarries
  <2> HIDE DEF t
  <2>2. Handle(t) = Asks(c, name)
    BY <2>1, HandleIs
  <2> QED BY <2>2 DEF t
<1> QED BY <1>1, <1>2

(* The fields of a request                                                 *)
LEMMA RequestFields ==
    ASSUME NEW m, NEW p, NEW d, NEW b, NEW r, r = Request(m, p, d, b)
    PROVE  r.method = m /\ r.path = p /\ r.device = d /\ r.body = b
  BY DEF Request

(* What RequestsReachTheDevice says of a request                           *)
Reaches(r) ==
    \/ Route(r.request) = r.asks
    \/ r.asks.op = "latest" /\ HasSegment(r.request.path, "status")
    \/ Unescape(Escape(r.asks.device)) # r.asks.device

(* POST /commands                                                          *)
LEMMA PostReaches ==
    ASSUME NEW c \in OneDevice, NEW n, Unescape(Escape(n)) = n
    PROVE  Route(PostCommand(c, n)) = Asks(c, n)
<1> DEFINE b == CommandOf(c, Field("device_name", <<Written(n)>>))
<1> DEFINE r == PostCommand(c, n)
<1>1. r.method = "POST" /\ r.path = <<"commands">> /\ r.body = b
  <2> DEFINE none == ""
  <2>1. r = Request("POST", <<"commands">>, none, b)
    BY Zenon DEF PostCommand
  <2> HIDE DEF b, r, none
  <2> QED BY <2>1, RequestFields
<1>2. Handle(b) = Asks(c, n)
  BY TextAsks
<1> HIDE DEF b, r
<1>3. Route(r) = Handle(r.body)
  BY <1>1 DEF Route
<1> QED BY <1>1, <1>2, <1>3 DEF r

(* POST /tasks/start and /tasks/stop                                       *)
LEMMA TaskReaches ==
    ASSUME NEW e, NEW n, HasText(n), UrlDecode(e) = n, Unescape(Escape(n)) = n
    PROVE  /\ Route(Request("POST", <<"tasks", "start">>, e, <<>>))
                = Asks("start_device_collect", n)
           /\ Route(Request("POST", <<"tasks", "stop">>, e, <<>>))
                = Asks("stop_device_collect", n)
<1>1. "start_device_collect" \in OneDevice /\ "stop_device_collect" \in OneDevice
  BY DEF OneDevice
<1>2. /\ Handle(CommandEnvelope("start_device_collect", n, "http-start"))
           = Asks("start_device_collect", n)
      /\ Handle(CommandEnvelope("stop_device_collect", n, "http-stop"))
           = Asks("stop_device_collect", n)
  BY <1>1, TextAsks
<1>3. Route(Request("POST", <<"tasks", "start">>, e, <<>>)) = Asks("start_device_collect", n)
  <2> DEFINE r == Request("POST", <<"tasks", "start">>, e, <<>>)
  <2>1. r.method = "POST" /\ r.path = <<"tasks", "start">> /\ r.device = e
    BY RequestFields
  <2> HIDE DEF r
  <2>2. Route(r) = TaskRoute(r, "start_device_collect", "start_all", "http-start")
    BY <2>1 DEF Route
  <2>3. (IF n = "" THEN "start_all" ELSE "start_device_collect") = "start_device_collect"
    BY Zenon DEF HasText
  <2>4. TaskRoute(r, "start_device_collect", "start_all", "http-start")
          = Handle(CommandEnvelope("start_device_collect", n, "http-start"))
    BY <2>1, <2>3, Zenon DEF TaskRoute
  <2> QED BY <1>2, <2>2, <2>4 DEF r
<1>4. Route(Request("POST", <<"tasks", "stop">>, e, <<>>)) = Asks("stop_device_collect", n)
  <2> DEFINE r == Request("POST", <<"tasks", "stop">>, e, <<>>)
  <2>1. r.method = "POST" /\ r.path = <<"tasks", "stop">> /\ r.device = e
    BY RequestFields
  <2> HIDE DEF r
  <2>2. Route(r) = TaskRoute(r, "stop_device_collect", "stop_all", "http-stop")
    BY <2>1 DEF Route
  <2>3. (IF n = "" THEN "stop_all" ELSE "stop_device_collect") = "stop_device_collect"
    BY Zenon DEF HasText
  <2>4. TaskRoute(r, "stop_device_collect", "stop_all", "http-stop")
          = Handle(CommandEnvelope("stop_device_collect", n, "http-stop"))
    BY <2>1, <2>3, Zenon DEF TaskRoute
  <2> QED BY <1>2, <2>2, <2>4 DEF r
<1> QED BY <1>3, <1>4

(* GET /status and /latest                                                 *)
LEMMA StatusReaches ==
    ASSUME NEW e, NEW n, HasText(n), UrlDecode(e) = n
    PROVE  /\ Route(Request("GET", <<"status">>, e, <<>>)) = Asks("status", n)
           /\ Route(Request("GET", <<"latest">>, e, <<>>)) = Asks("latest", n)
<1>1. Route(Request("GET", <<"status">>, e, <<>>)) = Asks("status", n)
  <2> DEFINE r == Request("GET", <<"status">>, e, <<>>)
  <2>1. r.method = "GET" /\ r.path = <<"status">> /\ r.device = e
    BY RequestFields
  <2> HIDE DEF r
  <2>2. Route(r) = Asks("status", n)
    BY <2>1 DEF Route
  <2> QED BY <2>2 DEF r
<1>2. Route(Request("GET", <<"latest">>, e, <<>>)) = Asks("latest", n)
  <2> DEFINE r == Request("GET", <<"latest">>, e, <<>>)
  <2>1. r.method = "GET" /\ r.path = <<"latest">> /\ r.device = e
    BY RequestFields
  <2> HIDE DEF r
  <2>2. Route(r) = IF n = "" THEN Asks("bad_request", "") ELSE Asks("latest", n)
    BY <2>1 DEF Route
  <2> QED BY <2>2, Zenon DEF HasText, r
<1> QED BY <1>1, <1>2

(* GET /devices/<name>/status                                              *)
LEMMA StatusPathReaches ==
    ASSUME NEW e, NEW n, UrlDecode(e) = n
    PROVE  Route(Request("GET", <<"devices", e, "status">>, "", <<>>)) = Asks("status of", n)
<1> DEFINE p == <<"devices", e, "status">>
<1> DEFINE none == ""
<1> DEFINE r == Request("GET", p, none, <<>>)
<1> HIDE DEF none
<1>1. r.method = "GET" /\ r.path = p
  BY RequestFields
<1>2. Len(p) = 3 /\ p[1] = "devices" /\ p[2] = e /\ p[3] = "status" /\ 3 \in DOMAIN p
  OBVIOUS
<1>3. HasSegment(p, "status")
  BY <1>2, RouteAssumption DEF HasSegment
<1>7. IsSuffix(<<"status">>, p) /\ Len(<<"status">>) = 1
  <2> DEFINE s == <<"status">>
  <2> DEFINE m == 1
  <2> DEFINE l == 3
  <2>1. IsSeq(s, m) /\ IsSeq(p, l) /\ m <= l /\ \A i \in 1..m : p[l - m + i] = s[i]
    BY DEF IsSeq
  <2> HIDE DEF s, m, l, p
  <2>2. IsSuffix(s, p)
    BY <2>1, SuffixIs
  <2> QED BY <2>2 DEF s
<1>4. BetweenPath(p, <<"status">>) = n
  BY <1>2, <1>7 DEF BetweenPath
<1>5. /\ p # <<"health">> /\ p # <<"devices">> /\ p # <<"status">>
      /\ p # <<"devices", "status">> /\ p # <<"latest">>
  OBVIOUS
<1> HIDE DEF p, r
<1>6. Route(r) = Asks("status of", BetweenPath(p, <<"status">>))
  <2>1. Len(p) > 1 /\ p[1] = "devices"
    BY <1>2
  <2> QED BY <1>1, <1>3, <1>5, <2>1 DEF Route
<1> QED BY <1>4, <1>6 DEF r, p, none

(* GET /devices/<name>/resources/latest, but for the names that HttpRouter *)
(* takes for a status request                                              *)
LEMMA LatestPathReaches ==
    ASSUME NEW e, NEW n, UrlDecode(e) = n,
           ~HasSegment(<<"devices", e, "resources", "latest">>, "status")
    PROVE  Route(Request("GET", <<"devices", e, "resources", "latest">>, "", <<>>))
             = Asks("latest", n)
<1> DEFINE p == <<"devices", e, "resources", "latest">>
<1> DEFINE none == ""
<1> DEFINE r == Request("GET", p, none, <<>>)
<1> HIDE DEF none
<1>1. r.method = "GET" /\ r.path = p
  BY RequestFields
<1>2. /\ Len(p) = 4 /\ p[1] = "devices" /\ p[2] = e /\ p[3] = "resources" /\ p[4] = "latest"
      /\ 3 \in DOMAIN p
  OBVIOUS
<1>3. HasLatest(p) /\ ~HasSegment(p, "status")
  BY <1>2, RouteAssumption DEF HasLatest
<1>7. IsSuffix(<<"resources", "latest">>, p) /\ Len(<<"resources", "latest">>) = 2
  <2> DEFINE s == <<"resources", "latest">>
  <2> DEFINE m == 2
  <2> DEFINE l == 4
  <2>1. IsSeq(s, m) /\ IsSeq(p, l) /\ m <= l /\ \A i \in 1..m : p[l - m + i] = s[i]
    BY DEF IsSeq
  <2> HIDE DEF s, m, l, p
  <2>2. IsSuffix(s, p)
    BY <2>1, SuffixIs
  <2> QED BY <2>2 DEF s
<1>4. BetweenPath(p, <<"resources", "latest">>) = n
  BY <1>2, <1>7 DEF BetweenPath
<1>5. /\ p # <<"health">> /\ p # <<"devices">> /\ p # <<"status">>
      /\ p # <<"devices", "status">> /\ p # <<"latest">>
  OBVIOUS
<1> HIDE DEF p, r
<1>6. Route(r) = Asks("latest", BetweenPath(p, <<"resources", "latest">>))
  BY <1>1, <1>2, <1>3, <1>5 DEF Route
<1> QED BY <1>4, <1>6 DEF r, p, none

(* All the ways to ask for a device                                        *)
LEMMA RequestReaches ==
    ASSUME NEW n, HasText(n), NEW r \in RequestsAbout(n)
    PROVE  Reaches(r)
<1> DEFINE none == ""
<1> DEFINE Sent(m, p, e, a) == Asking(Request(m, p, e, <<>>), a, n)
<1>1. \/ \E c \in OneDevice : r = Asking(PostCommand(c, n), c, n)
      \/ \E e \in Spellings(n) :
            \/ r = Sent("GET", <<"latest">>, e, "latest")
            \/ r = Sent("GET", <<"devices", e, "resources", "latest">>, none, "latest")
            \/ r = Sent("GET", <<"status">>, e, "status")
            \/ r = Sent("GET", <<"devices", e, "status">>, none, "status of")
            \/ r = Sent("POST", <<"tasks", "start">>, e, "start_device_collect")
            \/ r = Sent("POST", <<"tasks", "stop">>, e, "stop_device_collect")
  BY Zenon DEF RequestsAbout, OneDevice
<1> HIDE DEF none
<1>2. ASSUME NEW q, NEW op, r = Asking(q, op, n)
      PROVE  /\ Route(q) = Asks(op, n) => Reaches(r)
             /\ Unescape(Escape(n)) # n => Reaches(r)
             /\ op = "latest" /\ HasSegment(q.path, "status") => Reaches(r)
  <2>1. r.request = q /\ r.asks = Asks(op, n) /\ r.asks.device = n /\ r.asks.op = op
    BY <1>2 DEF Asking, Asks
  <2> QED BY <2>1 DEF Reaches
<1>3. CASE Unescape(Escape(n)) # n
  BY <1>1, <1>2, <1>3
<1>4. CASE Unescape(Escape(n)) = n /\ \E c \in OneDevice : r = Asking(PostCommand(c, n), c, n)
  BY <1>2, <1>4, PostReaches
<1>5. ASSUME Unescape(Escape(n)) = n, NEW e \in Spellings(n),
            \/ r = Sent("GET", <<"latest">>, e, "latest")
            \/ r = Sent("GET", <<"devices", e, "resources", "latest">>, none, "latest")
            \/ r = Sent("GET", <<"status">>, e, "status")
            \/ r = Sent("GET", <<"devices", e, "status">>, none, "status of")
            \/ r = Sent("POST", <<"tasks", "start">>, e, "start_device_collect")
            \/ r = Sent("POST", <<"tasks", "stop">>, e, "stop_device_collect")
      PROVE  Reaches(r)
  <2>1. UrlDecode(e) = n
    BY DEF Spellings
  <2>2. CASE r = Sent("GET", <<"latest">>, e, "latest")
    BY <1>2, <2>1, <2>2, StatusReaches
  <2>3. CASE r = Sent("GET", <<"status">>, e, "status")
    BY <1>2, <2>1, <2>3, StatusReaches
  <2>4. CASE \/ r = Sent("POST", <<"tasks", "start">>, e, "start_device_collect")
             \/ r = Sent("POST", <<"tasks", "stop">>, e, "stop_device_collect")
    BY <1>2, <1>5, <2>1, <2>4, TaskReaches
  <2>5. CASE r = Sent("GET", <<"devices", e, "status">>, none, "status of")
    <3>1. Route(Request("GET", <<"devices", e, "status">>, none, <<>>)) = Asks("status of", n)
      BY <2>1, StatusPathReaches, Zenon DEF none
    <3> QED BY <1>2, <2>5, <3>1
  <2>6. CASE r = Sent("GET", <<"devices", e, "resources", "latest">>, none, "latest")
    <3> DEFINE p == <<"devices", e, "resources", "latest">>
    <3> DEFINE q == Request("GET", p, none, <<>>)
    <3>1. q.path = p /\ r = Asking(q, "latest", n)
      BY <2>6, RequestFields
    <3>2. ~HasSegment(p, "status") => Route(q) = Asks("latest", n)
      BY <2>1, LatestPathReaches, Zenon DEF none
    <3> HIDE DEF p, q
    <3> QED BY <1>2, <3>1, <3>2
  <2> QED BY <1>5, <2>2, <2>3, <2>4, <2>5, <2>6
<1> QED BY <1>1, <1>3, <1>4, <1>5

(* ... with a name, as ScenarioAssumption has it                           *)
LEMMA RequestsReach == IndTexts => RequestsReachTheDevice
<1> SUFFICES ASSUME IndTexts, NEW n \in scenario.names, NEW r \in RequestsAbout(n)
             PROVE  Reaches(r)
  BY Zenon DEF RequestsReachTheDevice, Reaches
<1>1. HasText(n)
  <2>1. "" \notin scenario.names
    BY ScenarioAssumption, Zenon DEF IndTexts
  <2> QED BY <2>1, Zenon DEF HasText
<1> QED BY <1>1, RequestReaches

(* For every name of a device, however it is spelt in the path, the        *)
(* parameter or the text of a request: the request is carried out for that *)
(* device, with the two exceptions of the property.                        *)
THEOREM EveryRequestReaches == FairSpec => []RequestsReachTheDevice
  BY InitTexts, NextTexts, RequestsReach, PTL DEF FairSpec
=============================================================================
