----------------------------- MODULE ModelText ------------------------------
(***************************************************************************)
(* ModelRepository and ModelParser: from the model a device names to its   *)
(* data points.  A model file is a sequence of lines; a line is what it    *)
(* says, how far it is indented, and the value after its colon, which is   *)
(* trimmed unless it is quoted.                                            *)
(***************************************************************************)
EXTENDS Naturals, Sequences, SequencesExt

CONSTANT Inline     \* the models that contain "DataItem:", and their lines

ModelLine == [kind : STRING, indent : Nat, value : STRING]

ASSUME InlineAssumption == \A model \in DOMAIN Inline : Inline[model] \in Seq(ModelLine)

(* The names that are tried, in this order                                 *)
Candidates(model, version) ==
    (IF version = "" THEN <<>>
     ELSE [i \in 1..3 |-> model \o "-" \o version \o <<".yaml", ".yml", ".txt">>[i]])
    \o [i \in 1..3 |-> model \o <<".yaml", ".yml", ".txt">>[i]]
    \o (IF model = "M1" THEN <<"model.txt">> ELSE <<>>)

(* A model may be its own text; otherwise the lines of the first file that *)
(* exists.  Without any, loading fails.                                    *)
LoadModelText(files, model, version) ==
    LET names == Candidates(model, version)
        found == SelectInSeq(names, LAMBDA f : f \in DOMAIN files)
    IN  IF model \in DOMAIN Inline THEN Inline[model]
        ELSE IF found = 0 THEN <<>> ELSE files[names[found]]

ItemIndent == 8     \* an item of a DataItem list is indented at least so far

NoPoint == [itemName |-> "", namePath |-> ""]
DefaultPath(st, name) == "/" \o st.component \o "/" \o name

(* A data point that has a name is complete when another name or the end   *)
(* of the text is reached.                                                 *)
Flushed(st) ==
    IF st.point.itemName = "" THEN st
    ELSE LET point == IF st.point.namePath = ""
                      THEN [st.point EXCEPT !.namePath = DefaultPath(st, st.point.itemName)]
                      ELSE st.point
         IN  [st EXCEPT !.points = Append(st.points, point), !.point = NoPoint]

(* A bug for a mutation run: the indentation is not looked at.             *)
NameLineByListOnly(st, line) ==
    IF st.inDataItem
    THEN [Flushed(st) EXCEPT !.point =
             [itemName |-> line.value, namePath |-> DefaultPath(st, line.value)]]
    ELSE [Flushed(st) EXCEPT !.component = line.value]

(* "- Name:" starts an item or a component.                                *)
NameLine(st, line) ==
    IF st.inDataItem /\ line.indent >= ItemIndent
    THEN [Flushed(st) EXCEPT !.point =
             [itemName |-> line.value, namePath |-> DefaultPath(st, line.value)]]
    ELSE [Flushed(st) EXCEPT !.component = line.value, !.inDataItem = FALSE]

(* NamePath and Path have the same effect; lines of no other kind count,   *)
(* and the description is left out.                                        *)
ParseLine(st, line) ==
    CASE line.kind = "DataItem" -> [st EXCEPT !.inDataItem = TRUE]
      [] line.kind = "Name" -> NameLine(st, line)
      [] line.kind = "Path" /\ st.point.itemName # "" -> [st EXCEPT !.point.namePath = line.value]
      [] OTHER -> st

(* The data points of a text; a text without any is an error.              *)
ParseDataItems(lines) ==
    LET after[i \in 0..Len(lines)] ==
            IF i = 0
            THEN [component |-> "", point |-> NoPoint, inDataItem |-> FALSE, points |-> <<>>]
            ELSE ParseLine(after[i - 1], lines[i])
    IN  Flushed(after[Len(lines)]).points

-----------------------------------------------------------------------------
(* What a model file describes, and how it is written: components with     *)
(* lists of data items and of other things, such as the functions under    *)
(* "DevFunc:".  All are listed alike, with a line for a path or without,   *)
(* and with lines that say nothing here (notes) behind every name.         *)

ModelItem == [name : STRING, path : Seq(STRING), notes : Seq(ModelLine)]
ModelList == [kind : {"DataItem", "other"}, items : Seq(ModelItem)]
ModelComponent ==
    [name : STRING, lists : Seq(ModelList), indent : Nat, inner : Nat, notes : Seq(ModelLine)]
Model == [heading : Seq(ModelLine), components : Seq(ModelComponent)]

TextLine(kind, indent, value) == [kind |-> kind, indent |-> indent, value |-> value]

ItemLines(item, indent) ==
    <<TextLine("Name", indent, item.name)>> \o item.notes
    \o [i \in DOMAIN item.path |-> TextLine("Path", indent + 2, item.path[i])]
ListLines(list, c) ==
    <<TextLine(list.kind, c.indent + 2, "")>>
    \o FlattenSeq([i \in DOMAIN list.items |-> ItemLines(list.items[i], c.inner)])
ComponentLines(c) ==
    <<TextLine("Name", c.indent, c.name)>> \o c.notes
    \o FlattenSeq([i \in DOMAIN c.lists |-> ListLines(c.lists[i], c)])
File(model) ==
    model.heading
    \o FlattenSeq([i \in DOMAIN model.components |-> ComponentLines(model.components[i])])

(* The path of an item is its own, if that is not empty, or made of its    *)
(* component's name and its own.                                           *)
PointOf(c, item) ==
    [itemName |-> item.name,
     namePath |-> IF item.path \in {<<>>, <<"">>} THEN "/" \o c.name \o "/" \o item.name
                  ELSE item.path[1]]
PointsOf(c, kinds) ==
    LET items == FlattenSeq([i \in DOMAIN c.lists |->
                     IF c.lists[i].kind \in kinds THEN c.lists[i].items ELSE <<>>])
    IN  [i \in DOMAIN items |-> PointOf(c, items[i])]

(* The data items of a model                                               *)
ComponentItems(c) == PointsOf(c, {"DataItem"})
Items(model) ==
    FlattenSeq([i \in DOMAIN model.components |-> ComponentItems(model.components[i])])

(* What is taken for them: no other heading ends a list of data items, so  *)
(* all that a component lists behind them counts as well.                  *)
ComponentPoints(c) ==
    IF c.lists # <<>> /\ c.lists[1].kind = "DataItem" THEN PointsOf(c, {"DataItem", "other"})
    ELSE <<>>
Points(model) ==
    FlattenSeq([i \in DOMAIN model.components |-> ComponentPoints(model.components[i])])

DataItemsOnly(model) ==
    \A i \in DOMAIN model.components : \A k \in DOMAIN model.components[i].lists :
        model.components[i].lists[k].kind = "DataItem"

(* The files of config/models are such: what is listed is indented by at   *)
(* least eight and has a name, the components are indented by less, and    *)
(* the data items are a component's first list if it has any.              *)
SayNothing(lines) == \A i \in DOMAIN lines : lines[i].kind = "other"
Readable(model) ==
    /\ SayNothing(model.heading)
    /\ \A i \in DOMAIN model.components :
           LET c == model.components[i]
           IN  /\ c.indent < ItemIndent /\ c.inner >= ItemIndent /\ SayNothing(c.notes)
               /\ \A k \in DOMAIN c.lists :
                      /\ c.lists[k].kind = "DataItem" => k = 1
                      /\ \A j \in DOMAIN c.lists[k].items :
                             LET item == c.lists[k].items[j]
                             IN  item.name # "" /\ Len(item.path) <= 1 /\ SayNothing(item.notes)
=============================================================================
