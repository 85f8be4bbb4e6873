--------------------------- MODULE CollectionText ---------------------------
(***************************************************************************)
(* The query of a collection cycle, the answer of the mock driver, and the *)
(* records the cycle makes of it: CollectionQueryBuilder,                  *)
(* MockDriverServer::handleQuery and CollectionResponseParser.             *)
(***************************************************************************)
EXTENDS JsonText, FiniteSets

CONSTANTS
    ItemNames,  \* the paths with a slash in them, and what follows the last one
    Trimmed     \* the strings that begin or end with a blank, and what is left without

(* The name is not empty: the whole path is taken if the slash ends it. It *)
(* has no character to escape that the path does not have.                 *)
ASSUME NamesAssumption ==
    \A p \in DOMAIN ItemNames :
        /\ ItemNames[p] # ""
        /\ p \notin DOMAIN Escaped => ItemNames[p] \notin DOMAIN Escaped \cup DOMAIN Unescaped

(* Query *)

BuildQuery(cid, points) ==
    Enclosed("{",
        Field("cid", <<Written(cid)>>)
        \o Field("query", Enclosed("[", [i \in DOMAIN points |-> Written(points[i].namePath)], "]")),
        "}")

(* The driver's scanner *)

Trim(s) == Mapped(Trimmed, s)

(* A bug for a mutation run: the last path is not taken.                   *)
ExtractQueryPathsButLast(text) ==
    LET start == FindMark(text, KeyAt(text, "query") + 1, "[")
        end == FindBracket(text, start + 1)
        words == Kept(SubSeq(text, start + 1, end - 2), LAMBDA t : t.kind = "word")
    IN  IF ~HasField(text, "query") \/ start = 0 \/ end = 0 THEN <<>>
        ELSE [i \in DOMAIN words |-> Trim(Unescape(words[i].text))]

(* The words up to the first bracket, without the blanks around them: a    *)
(* bracket in a path ends the list, and a path with blanks is answered as  *)
(* another one.                                                            *)
ExtractQueryPaths(text) ==
    LET start == FindMark(text, KeyAt(text, "query") + 1, "[")
        end == FindBracket(text, start + 1)
        words == Kept(SubSeq(text, start + 1, end - 1), LAMBDA t : t.kind = "word")
    IN  IF ~HasField(text, "query") \/ start = 0 \/ end = 0 THEN <<>>
        ELSE [i \in DOMAIN words |-> Trim(Unescape(words[i].text))]

ItemNameFromPath(path) == Mapped(ItemNames, path)

(* Values are told apart by the path they are the value of.                *)
ValueForPath(path) == Enclosed("[", <<Number(path)>>, "]")

AnswerFor(path) ==
    LET name == ItemNameFromPath(path)
    IN  Field(Escape(path), Enclosed("{",
            Field("value", ValueForPath(path))
            \o Field("dev_time", <<Number("now")>>)
            \o Field("svr_time", <<Number("now")>>)
            \o Field("item_path", <<Word("/DV:mock/CP:mock/DT:" \o Escape(name))>>)
            \o Field("item_description", <<Written(name)>>)
            \o Field("item_name", <<Written(name)>>),
            "}"))

HandleQuery(text) ==
    LET sent == StringField(text, "cid")
        paths == ExtractQueryPaths(text)
    IN  Enclosed("{",
            Field("cid", <<Written(IF sent = "" THEN "mock-cid" ELSE sent)>>)
            \o Field("machineConnected", <<Mark("true")>>)
            \o Field("data", Enclosed("{",
                   FlattenSeq([i \in DOMAIN paths |-> AnswerFor(paths[i])]), "}")),
            "}")

(* The collector's scanner *)

Count(text, a, b, c) == Cardinality({i \in a..b : text[i] = Mark(c)})

(* A bug for a mutation run: the braces are searched from the start.       *)
ExtractFirstObject(text, path) ==
    LET start == FindMark(text, 1, "{")
        closed == {i \in start..Len(text) : Count(text, start, i, "{") = Count(text, start, i, "}")}
    IN  IF ~HasField(text, path) \/ start = 0 \/ closed = {} THEN <<>>
        ELSE SubSeq(text, start, Min(closed))

(* The braces that follow the first occurrence of the path, as a field     *)
(* name or as anything else; the path is searched as it is, not escaped.   *)
ExtractObjectForPath(text, path) ==
    LET start == FindMark(text, KeyAt(text, path) + 1, "{")
        closed == {i \in start..Len(text) : Count(text, start, i, "{") = Count(text, start, i, "}")}
    IN  IF ~HasField(text, path) \/ start = 0 \/ closed = {} THEN <<>>
        ELSE SubSeq(text, start, Min(closed))

ExtractArrayFieldText(object, name) ==
    LET start == FindMark(object, KeyAt(object, name) + 1, "[")
        end == FindBracket(object, start)
    IN  IF ~HasField(object, name) \/ start = 0 \/ end = 0 THEN <<>>
        ELSE SubSeq(object, start, end)

(* Without an item name in the answer the point's own is used.             *)
RecordFor(point, object) ==
    LET name == StringField(object, "item_name")
    IN  [path |-> point.namePath,
         data |-> ExtractArrayFieldText(object, "value"),
         itemName |-> IF name = "" THEN point.itemName ELSE name]

(* The records of the points that were found with data; none at all is an  *)
(* error.                                                                  *)
ProcessResponse(points, text) ==
    LET records == [i \in DOMAIN points |->
                       RecordFor(points[i], ExtractObjectForPath(text, points[i].namePath))]
    IN  Kept(records, LAMBDA r : r.data # <<>>)
=============================================================================
