------------------------------ MODULE JsonText ------------------------------
(***************************************************************************)
(* The texts that commands, queries and answers are made of, and the       *)
(* scanners that take fields out of them.                                  *)
(*                                                                         *)
(* No component parses JSON.  Each searches the text for a field name in   *)
(* quotes, wherever it stands, and then for the next character it needs.   *)
(* A text is therefore a sequence of tokens: a word is a string in quotes  *)
(* as it is written, a number, and a mark is any other character.  Commas  *)
(* are left out, because no scanner looks for one.                         *)
(***************************************************************************)
EXTENDS Naturals, Sequences, SequencesExt

CONSTANTS
    Escaped,    \* the strings that escapeJson changes, and to what
    Unescaped,  \* what the scanners make of the strings with a backslash
    Bracketed,  \* the strings with a closing bracket
    Digits      \* the strings with a digit, and the first digits in them

(* Only what escapeJson has written has a backslash, and it leaves the     *)
(* brackets alone.                                                         *)
ASSUME EscapeAssumption ==
    /\ DOMAIN Unescaped \subseteq {Escaped[s] : s \in DOMAIN Escaped}
    /\ \A s \in DOMAIN Escaped : Escaped[s] \in Bracketed <=> s \in Bracketed

Mark(c) == [kind |-> "mark", text |-> c]
Number(n) == [kind |-> "number", text |-> n]
Word(s) == [kind |-> "word", text |-> s]

Mapped(table, s) == IF s \in DOMAIN table THEN table[s] ELSE s
Escape(s) == Mapped(Escaped, s)
Unescape(s) == Mapped(Unescaped, s)

Written(s) == Word(Escape(s))
Field(name, value) == <<Word(name), Mark(":")>> \o value
Enclosed(open, inside, close) == <<Mark(open)>> \o inside \o <<Mark(close)>>

(* The elements that pass, in their order: SelectSeq, as a function of the *)
(* number of elements it has looked at, which a proof can unfold           *)
Kept(s, Test(_)) ==
    LET kept[i \in 0..Len(s)] ==
            IF i = 0 THEN <<>>
            ELSE IF Test(s[i]) THEN Append(kept[i - 1], s[i]) ELSE kept[i - 1]
    IN  kept[Len(s)]

(* find: the first token from a place on, 0 if there is none.              *)
FindMark(text, from, c) == SelectInSubSeq(text, from, Len(text), LAMBDA t : t = Mark(c))
KeyAt(text, name) == SelectInSeq(text, LAMBDA t : t = Word(name))

(* A bracket inside a word is found as well.  No field name has a colon,   *)
(* so the first colon behind a field or a value is a mark.                 *)
FindBracket(text, from) ==
    SelectInSubSeq(text, from, Len(text),
                   LAMBDA t : t = Mark("]") \/ (t.kind = "word" /\ t.text \in Bracketed))

HasField(text, name) == KeyAt(text, name) # 0

(* The word after the colon                                                *)
StringField(text, name) ==
    LET colon == FindMark(text, KeyAt(text, name) + 1, ":")
        value == SelectInSubSeq(text, colon + 1, Len(text), LAMBDA t : t.kind = "word")
    IN  IF ~HasField(text, name) \/ colon = 0 \/ value = 0 THEN ""
        ELSE Unescape(text[value].text)

(* The first digits after the colon, wherever they are                     *)
NumberField(text, name, fallback) ==
    LET HasDigit(t) == t.kind = "number" \/ (t.kind = "word" /\ t.text \in DOMAIN Digits)
        colon == FindMark(text, KeyAt(text, name) + 1, ":")
        value == SelectInSubSeq(text, colon + 1, Len(text), HasDigit)
    IN  IF ~HasField(text, name) \/ colon = 0 \/ value = 0 THEN fallback
        ELSE Mapped(Digits, text[value].text)
=============================================================================
