---------------------------- MODULE MCEndToEnd -----------------------------
(* EndToEnd on small texts.  Each scenario departs from the commands of    *)
(* README.md in one respect: the fields of create_device, the name of the  *)
(* device, the model files or the items of the model.                      *)
EXTENDS EndToEnd, TLC

(* Strings *)

Quoted == "a\"b"
Line == "a\nb"
MCNames == {"devA", "model", "status", "statusB", "dev+C", Quoted, Line}
ItemWords == {"x", "y", Quoted}

(* escapeJson and its inverse; a line break comes back as the letter n.    *)
Backslashed == Quoted :> "a\\\"b" @@ Line :> "a\\nb"
MCEscaped ==
    Backslashed
    @@ [s \in {"/" \o c \o "/" \o Quoted : c \in {"A", "B", "C"}} |->
            "/" \o (CHOOSE c \in {"A", "B", "C"} : s = "/" \o c \o "/" \o Quoted) \o "/a\\\"b"]
    @@ [s \in {n \o "-1" : n \in DOMAIN Backslashed} |->
            (IF s = Quoted \o "-1" THEN "a\\\"b-1" ELSE "a\\nb-1")]
MCUnescaped ==
    [t \in {MCEscaped[s] : s \in DOMAIN MCEscaped} |->
        IF t = "a\\nb" THEN "anb" ELSE IF t = "a\\nb-1" THEN "anb-1"
        ELSE CHOOSE s \in DOMAIN MCEscaped : MCEscaped[s] = t]

MCBracketed == {"q[1]"}
MCTrimmed == " x" :> "x"
MCDigits == ("h:9002" :> "9002" @@ "9002" :> "9002" @@ "127.0.0.1:9001" :> "127"
             @@ "1.0" :> "1" @@ "M1" :> "1" @@ "M2" :> "2")
MCHosts == "h:9002" :> "h" @@ "127.0.0.1:9001" :> "127.0.0.1" @@ "h:" :> "h"
MCPorts == "h:9002" :> "9002" @@ "127.0.0.1:9001" :> "9001" @@ "h:" :> ""
MCDecoded == "dev%2BC" :> "dev+C" @@ "dev+C" :> "dev C" @@ "a%22b" :> Quoted @@ "a%0Ab" :> Line
Encoded(n) == IF n \in {"dev+C", Quoted, Line}
              THEN CHOOSE s \in DOMAIN MCDecoded : MCDecoded[s] = n ELSE n
MCBeginnings == "status" :> "status" @@ "statusB" :> "status" @@ "latest" :> "latest"
MCItemNames ==
    LET all == {<<c, i>> : c \in {"A", "B", "C"}, i \in ItemWords}
    IN  [p \in {"/" \o a[1] \o "/" \o a[2] : a \in all} |->
            (CHOOSE a \in all : p = "/" \o a[1] \o "/" \o a[2])[2]]
MCDrivers == {<<"127.0.0.1", "9001">>, <<"h", "9002">>}

(* Fields of commands *)

Pair(name, value) == [name |-> name, value |-> value]
Named(n) == <<Pair("device_name", Written(n))>>
OfModel(m, v) == <<Pair("model", Word(m)), Pair("model_version", Word(v))>>
Maybe(name, tokens) == {<<>>} \cup {<<Pair(name, t)>> : t \in tokens}

Address ==
    {a \o b \o c \o d :
        a \in Maybe("addr", {Word("h:9002"), Word("h"), Word("h:"), Word("")}),
        b \in Maybe("IpAddr", {Word("h:9002"), Word("h")}),
        c \in Maybe("ip", {Word("h")}),
        d \in Maybe("Port", {Number("9002"), Number("0"), Mark("null"), Word("9002")})}
States ==
    {a \o b : a \in Maybe("status", {Number("0"), Number("1")}),
              b \in Maybe("Status", {Number("0"), Number("1")})}

Interval == <<Pair("SampleInterval", Number("1000"))>>
Usual(n) == Named(n) \o OfModel("M1", "1.0")
Fields ==
    {Usual("devA") \o a \o Interval : a \in Address} \cup {Usual("devA") \o s : s \in States}
    \cup {Usual(n) : n \in MCNames} \cup {Named(n) \o Interval \o OfModel("M1", "1.0") : n \in MCNames}
    \cup {Named("devA"), OfModel("M1", "1.0"), Usual("devA") \o Named("devB")}

(* Model files                                                             *)

Note == <<TextLine("other", 0, "")>>
Described(name, path, notes) == [name |-> name, path |-> path, notes |-> notes]
Item(name, path) == Described(name, path, <<>>)
DataItems(items) == [kind |-> "DataItem", items |-> items]
Others(items) == [kind |-> "other", items |-> items]
WithLists(name, lists, indent, inner) ==
    [name |-> name, lists |-> lists, indent |-> indent, inner |-> inner, notes |-> Note]
Component(name, items, indent, inner) ==
    WithLists(name, <<DataItems(items)>>, indent, inner)
ModelOf(components) == [heading |-> Note, components |-> components]
NoModel == [heading |-> <<>>, components |-> <<>>]

AllItems ==
    {Item("x", <<"">>), Item("x", <<>>), Item("y", <<>>), Described("y", <<"x">>, Note),
     Item("x", <<"q[1]">>), Item(Quoted, <<>>), Item("y", <<"value">>), Item("y", <<" x">>)}
Lists == {<<>>} \cup {<<i>> : i \in AllItems} \cup {<<i, j>> : i, j \in AllItems}
Trees ==
    {<<Component("A", a, 4, 8), Component("B", b, 4, 8)>> :
        a \in Lists, b \in {<<>>, <<Item("x", <<>>)>>, <<Item("x", <<"x">>)>>}}
    \cup {<<Component("A", <<Item("x", <<>>)>>, i[1], i[2]),
            Component("B", <<Item("x", <<>>), Item("y", <<>>)>>, i[3], i[4])>> :
        i \in {<<2, 4, 2, 4>>, <<8, 16, 8, 16>>, <<4, 8, 8, 12>>, <<4, 12, 4, 12>>}}

(* Components as in config/models/M2.yaml: a list of functions behind the  *)
(* data items, and components with functions only                          *)
Functions == Others(<<Item("y", <<>>), Item("B", <<>>)>>)
WithFunctions ==
    {<<WithLists("A", a, 4, 8), WithLists("B", b, 4, 8)>> :
        a, b \in {<<>>, <<DataItems(<<Item("x", <<>>)>>)>>, <<Functions>>,
                  <<DataItems(<<Item("x", <<>>)>>), Functions>>, <<DataItems(<<>>), Functions>>,
                  <<Functions, DataItems(<<Item("x", <<>>)>>)>>}}

Scenario(fields, files, model, start) ==
    [fields |-> fields, changes |-> <<>>,
     create |-> CommandOf("create_device", Text(fields)), update |-> <<>>,
     files |-> files, model |-> model, start |-> start,
     names |-> {Given(fields, "device_name")} \ {""}]

Plain(name) == ModelOf(<<Component(name, <<Item("x", <<>>), Item("y", <<>>)>>, 4, 8)>>)
StartOf(fields) ==
    Request("POST", <<"tasks", "start">>, Encoded(Given(fields, "device_name")), <<>>)
WithFields ==
    {Scenario(f, "M1.yaml" :> File(Plain("A")),
              IF Given(f, "model") = "" THEN NoModel ELSE Plain("A"), StartOf(f)) : f \in Fields}
WithTree ==
    {Scenario(Usual("devA"), "M1.yaml" :> File(ModelOf(t)), ModelOf(t),
              PostCommand("start_device_collect", "devA")) : t \in Trees \cup WithFunctions}

(* The file with the version comes first, and model.txt is for M1 only.    *)
FilesOf(model) ==
    model \o "-1.0.yaml" :> Plain("A") @@ model \o ".txt" :> Plain("B") @@ "model.txt" :> Plain("C")
Chosen(model, names) ==
    LET order == <<model \o "-1.0.yaml", model \o ".txt">> \o (IF model = "M1" THEN <<"model.txt">>
                                                             ELSE <<>>)
        first == SelectInSeq(order, LAMBDA n : n \in names)
    IN  IF first = 0 THEN NoModel ELSE FilesOf(model)[order[first]]
WithFiles ==
    UNION {{Scenario(Named("devA") \o OfModel(model, "1.0"),
                     [n \in names |-> File(FilesOf(model)[n])], Chosen(model, names),
                     Request("POST", <<"tasks", "start">>, "", <<>>)) :
               names \in SUBSET DOMAIN FilesOf(model)} : model \in {"M1", "M2"}}

(* An update of the device with each choice of its fields                  *)
Updates ==
    {n \o m \o s \o a :
        n \in {Named("devA"), Named("devB"),
              <<Pair("old_device_name", Word("devA"))>> \o Named("devB"),
              <<Pair("old_device_name", Word("devA"))>> \o Named("status")},
        m \in {OfModel("M1", "1.0"), OfModel("M2", "1.0"), <<Pair("model", Word("M1"))>>, <<>>},
        s \in Maybe("status", {Number("0"), Number("1")}),
        a \in Maybe("addr", {Word("h:9002")}) \cup Maybe("IpAddr", {Word("h")})}
Created == Usual("devA") \o <<Pair("status", Number("0")), Pair("addr", Word("h:9002"))>>
Updated(fields, meant) ==
    LET trees == "M1-1.0.yaml" :> Plain("A") @@ "M1.txt" :> Plain("B") @@ "M2.txt" :> Plain("C")
        tree == trees[CASE meant.model = "M2" -> "M2.txt"
                        [] meant.version = "1.0" -> "M1-1.0.yaml"
                        [] OTHER -> "M1.txt"]
    IN  [fields |-> Created, changes |-> fields,
         create |-> CommandOf("create_device", Text(Created)),
         update |-> CommandOf("update_device", Text(fields)),
         files |-> [n \in DOMAIN trees |-> File(trees[n])],
         model |-> tree,
         start |-> PostCommand("start_device_collect", meant.name), names |-> {}]
WithUpdate == {Updated(u[1], u[2]) : u \in {<<f, Meaning(Created, f)>> : f \in Updates}}

(* A model that is its own text, with its line breaks and without them     *)
MCInline ==
    "text" :> File(Plain("A")) @@ "DataItem: - Name: x" :> Note
WithText ==
    {Scenario(Named("devA") \o <<Pair("model", Word(m))>>, "M1.yaml" :> File(Plain("B")),
              IF m = "text" THEN Plain("A") ELSE ModelOf(<<>>),
              Request("POST", <<"tasks", "start">>, "", <<>>)) :
        m \in DOMAIN MCInline}

MCScenarios ==
    WithFields \cup WithTree \cup WithFiles
    \cup WithUpdate \cup WithText
ASSUME ScenariosAreMeant == CommandsAsMeant

MCUsualScenario ==
    {Scenario(Usual("devA"), "M1.yaml" :> File(Plain("A")), Plain("A"), StartOf(Usual("devA")))}
=============================================================================
