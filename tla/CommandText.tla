---------------------------- MODULE CommandText -----------------------------
(***************************************************************************)
(* What a command text and an HTTP request ask for: HttpRouter,            *)
(* HttpCommandAdapter, the choice CommandProcessor makes by the category,  *)
(* and CommandParser.                                                      *)
(*                                                                         *)
(* A request is its method, the segments of its path and the device query  *)
(* parameter ("" if there is none), all as they are sent.  What a text or  *)
(* a request asks for is a record of an operation and a device name.       *)
(***************************************************************************)
EXTENDS JsonText

CONSTANTS
    Hosts,      \* the addresses with a port: what stands before the last colon
    Ports,      \* ... and behind it
    Decoded,    \* the strings that urlDecode changes, and to what
    Beginnings  \* the segments that begin with a route, and the route

(* A route begins with itself and with no other.                           *)
ASSUME RouteAssumption ==
    /\ Mapped(Beginnings, "status") = "status"
    /\ Mapped(Beginnings, "latest") = "latest"
    /\ Mapped(Beginnings, "resources") # "status"

UrlDecode(s) == Mapped(Decoded, s)

Asks(op, device) == [op |-> op, device |-> device]

(* CommandProcessor *)

Categories == {"create_device", "delete_device", "update_device", "start_device_collect",
               "stop_device_collect", "start_all", "stop_all", "get_status"}

(* None of them has a character to escape.                                 *)
ASSUME CategoryAssumption == Categories \cap (DOMAIN Escaped \cup DOMAIN Unescaped) = {}

(* The commands for all devices ignore the name.                           *)
Handle(text) ==
    LET category == StringField(text, "category")
    IN  IF category \notin Categories THEN Asks("error", "")
        ELSE IF category \in {"start_all", "stop_all", "get_status"} THEN Asks(category, "")
        ELSE Asks(category, StringField(text, "device_name"))

(* CommandParser *)

FirstOf(text, names) ==
    LET found == SelectInSeq(names, LAMBDA n : StringField(text, n) # "")
    IN  IF found = 0 THEN "" ELSE StringField(text, names[found])

(* A bug for a mutation run: only addr carries a port.                     *)
ParsePortOfAddrOnly(text) ==
    LET addr == FirstOf(text, <<"addr", "IpAddr">>)
        port == StringField(text, "addr")
        ip == IF addr # "" THEN Mapped(Hosts, addr) ELSE StringField(text, "ip")
    IN  [name |-> StringField(text, "device_name"),
         model |-> StringField(text, "model"),
         version |-> StringField(text, "model_version"),
         status |-> NumberField(text, "Status", NumberField(text, "status", "1")),
         ip |-> IF ip = "" THEN "127.0.0.1" ELSE ip,
         port |-> IF port \in DOMAIN Ports THEN Ports[port] ELSE "9001"]

(* addr, or IpAddr in its place, also carries the port if it has a colon.  *)
ParseDeviceUpsert(text) ==
    LET addr == FirstOf(text, <<"addr", "IpAddr">>)
        ip == IF addr # "" THEN Mapped(Hosts, addr) ELSE StringField(text, "ip")
        port == IF addr \in DOMAIN Ports THEN Ports[addr] ELSE NumberField(text, "Port", "0")
    IN  [name |-> StringField(text, "device_name"),
         model |-> StringField(text, "model"),
         version |-> StringField(text, "model_version"),
         status |-> NumberField(text, "Status", NumberField(text, "status", "1")),
         ip |-> IF ip = "" THEN "127.0.0.1" ELSE ip,
         port |-> IF port = "0" THEN "9001" ELSE port]

(* HttpCommandAdapter *)

CommandEnvelope(category, device, mid) ==
    LET params == IF device = "" THEN <<>> ELSE Field("device_name", <<Written(device)>>)
    IN  Enclosed("{",
            Field("type", <<Word("json")>>) \o Field("uid", <<Word("http")>>)
            \o Field("pid", <<Word("http")>>)
            \o Field("cmd", Enclosed("{",
                   Field("category", <<Written(category)>>)
                   \o Field("params", Enclosed("{", params, "}")),
                   "}"))
            \o Field("mid", <<Written(mid)>>),
            "}")

(* HttpRouter *)

(* find: the text is somewhere in the path, so a segment only has to begin *)
(* with it.                                                                *)
HasSegment(path, s) == \E i \in DOMAIN path : i > 1 /\ Mapped(Beginnings, path[i]) = s

HasLatest(path) ==
    \E i \in DOMAIN path :
        /\ i > 1 /\ i < Len(path)
        /\ path[i] = "resources" /\ Mapped(Beginnings, path[i + 1]) = "latest"

(* A bug for a mutation run: a suffix of one segment is expected.          *)
BetweenTwoSegments(path, suffix) ==
    IF Len(path) = 3 /\ IsSuffix(suffix, path) THEN UrlDecode(path[2]) ELSE ""

(* betweenPath, for names without a slash                                  *)
BetweenPath(path, suffix) ==
    IF Len(path) = 2 + Len(suffix) /\ IsSuffix(suffix, path) THEN UrlDecode(path[2]) ELSE ""

(* Task routes without a device are for all of them.                       *)
TaskRoute(request, one, all, mid) ==
    LET device == UrlDecode(request.device)
    IN  Handle(CommandEnvelope(IF device = "" THEN all ELSE one, device, mid))

Route(request) ==
    LET get == request.method = "GET"
        post == request.method = "POST"
        path == request.path
        device == UrlDecode(request.device)
        ofDevice == get /\ Len(path) > 1 /\ path[1] = "devices"
    IN  CASE get /\ path = <<"health">> -> Asks("health", "")
          [] get /\ path = <<"devices">> -> Asks("devices", "")
          [] get /\ path \in {<<"status">>, <<"devices", "status">>} -> Asks("status", device)
          [] get /\ path = <<"latest">> ->
                 IF device = "" THEN Asks("bad_request", "") ELSE Asks("latest", device)
          [] ofDevice /\ path # <<"devices", "status">> /\ HasSegment(path, "status") ->
                 Asks("status of", BetweenPath(path, <<"status">>))
          [] ofDevice /\ ~HasSegment(path, "status") /\ HasLatest(path) ->
                 Asks("latest", BetweenPath(path, <<"resources", "latest">>))
          [] post /\ path = <<"commands">> -> Handle(request.body)
          [] post /\ path = <<"tasks", "start">> ->
                 TaskRoute(request, "start_device_collect", "start_all", "http-start")
          [] post /\ path = <<"tasks", "stop">> ->
                 TaskRoute(request, "stop_device_collect", "stop_all", "http-stop")
          [] OTHER -> Asks("not_found", "")
-----------------------------------------------------------------------------
(* A command is meant as its fields are, of which a client writes its      *)
(* text: records of a name and a token.                                    *)

CommandOf(category, params) ==
    Enclosed("{", Field("uid", <<Word("admin")>>)
        \o Field("cmd", Enclosed("{", Field("category", <<Word(category)>>)
               \o Field("params", Enclosed("{", params, "}")), "}"))
        \o Field("mid", <<Word("m")>>), "}")

Text(fields) ==
    FlattenSeq([i \in DOMAIN fields |-> Field(fields[i].name, <<fields[i].value>>)])

(* A field that is left out or empty is not given; of two with the same    *)
(* name the first counts.                                                  *)
FieldNamed(fields, name) == SelectInSeq(fields, LAMBDA f : f.name = name)
Given(fields, name) ==
    LET i == FieldNamed(fields, name) IN IF i = 0 THEN "" ELSE Unescape(fields[i].value.text)
NumberGiven(fields, name, fallback) ==
    LET i == FieldNamed(fields, name)
    IN  IF i = 0 THEN fallback ELSE Mapped(Digits, fields[i].value.text)
Either(fields, name, other) ==
    IF Given(fields, name) # "" THEN Given(fields, name) ELSE Given(fields, other)

(* The row that the fields say; the status is the one to take if they do   *)
(* not.                                                                    *)
Row(fields, status) ==
    LET address == Either(fields, "addr", "IpAddr")
        host == IF address = "" THEN Given(fields, "ip") ELSE Mapped(Hosts, address)
        port == IF address \in DOMAIN Ports THEN Ports[address]
                ELSE NumberGiven(fields, "Port", "9001")
    IN  [name |-> Given(fields, "device_name"),
         model |-> Given(fields, "model"),
         version |-> Given(fields, "model_version"),
         status |-> NumberGiven(fields, "Status", NumberGiven(fields, "status", status)),
         ip |-> IF host = "" THEN "127.0.0.1" ELSE host,
         port |-> IF port = "0" THEN "9001" ELSE port]

(* Fields for strings have strings, fields for numbers have numbers, maybe *)
(* in quotes, and any field may be null.                                   *)
NumberFields == {"status", "Status", "Port"}
StringFields ==
    {"device_name", "old_device_name", "model", "model_version", "addr", "IpAddr", "ip"}

CommandField == [name : STRING, value : [kind : STRING, text : STRING]]
Typed(field) ==
    LET t == field.value
    IN  \/ t.kind = "word" /\ (field.name \in NumberFields => t.text \in DOMAIN Digits)
        \/ t.kind = "number" /\ field.name \notin StringFields
        \/ t = Mark("null")
WellTyped(fields) == fields \in Seq(CommandField) /\ \A i \in DOMAIN fields : Typed(fields[i])

(* A value is spelt like a field, or a field is null.                      *)
CommandFields == {"category"} \cup NumberFields \cup StringFields

Values(t) == {t[i].text : i \in {j \in 2..Len(t) : t[j - 1] = Mark(":") /\ t[j].kind = "word"}}

Misleading(t) == Values(t) \cap CommandFields # {} \/ Contains(t, Mark("null"))
=============================================================================
