------------------------------ MODULE JsonText ------------------------------
(***************************************************************************)
(* The grammar of JSON (lua-cjson/rfc4627.txt, section 2) over tokens: the *)
(* reference that the encoder and the decoder of lua-cjson are checked     *)
(* against.  It says what a sequence of tokens denotes, without saying how *)
(* to read or to write it.  Its operators are recursive, so that only the  *)
(* modules TLC runs use it.                                                *)
(*                                                                         *)
(* A token is a pair of its kind and its content: "mark" for the six       *)
(* structural characters, "string", "number" and "literal".                *)
(***************************************************************************)
EXTENDS Integers, Sequences

Mark(m) == <<"mark", m>>

Scalars == {"string", "number", "literal"}

Inner(text) == SubSeq(text, 2, Len(text) - 1)

Before(text, i) == SubSeq(text, 1, i - 1)

After(text, i) == SubSeq(text, i + 1, Len(text))

Enclosed(text, open, close) ==
    Len(text) >= 2 /\ text[1] = Mark(open) /\ text[Len(text)] = Mark(close)

\* The places where a text may be split at a mark.
Splits(text, m) == {i \in 1 .. Len(text) : text[i] = Mark(m)}

IsName(text) == Len(text) >= 2 /\ text[1][1] = "string" /\ text[2] = Mark(":")

RECURSIVE ValuesOf(_), ElementsOf(_), MembersOf(_)

\* What a text denotes: a scalar itself, an array the sequence of its elements, an object
\* the sequence of its members.  The set is empty when the text is not a value, and never
\* has two elements.
ValuesOf(text) ==
    IF Len(text) = 1 /\ text[1][1] \in Scalars THEN {text[1]}
    ELSE IF Enclosed(text, "[", "]")
    THEN IF Len(text) = 2 THEN {<<"array", <<>>>>}
         ELSE {<<"array", e>> : e \in ElementsOf(Inner(text))}
    ELSE IF Enclosed(text, "{", "}")
    THEN IF Len(text) = 2 THEN {<<"object", <<>>>>}
         ELSE {<<"object", m>> : m \in MembersOf(Inner(text))}
    ELSE {}

ElementsOf(text) ==
    {<<v>> : v \in ValuesOf(text)} \cup
    UNION {{<<v>> \o rest : v \in ValuesOf(Before(text, i)), rest \in ElementsOf(After(text, i))}
             : i \in Splits(text, ",")}

MembersOf(text) ==
    IF ~IsName(text) THEN {}
    ELSE {<<<<text[1][2], v>>>> : v \in ValuesOf(After(text, 2))} \cup
         UNION {{<<<<text[1][2], v>>>> \o rest : v \in ValuesOf(SubSeq(text, 3, i - 1)),
                                                 rest \in MembersOf(After(text, i))}
                  : i \in Splits(text, ",")}

RECURSIVE BeginsValue(_), BeginsElements(_), BeginsMembers(_)

\* What a text may begin with.
BeginsValue(text) ==
    \/ text = <<>>
    \/ ValuesOf(text) # {}
    \/ text[1] = Mark("[") /\ (Len(text) = 1 \/ BeginsElements(Tail(text)))
    \/ text[1] = Mark("{") /\ (Len(text) = 1 \/ BeginsMembers(Tail(text)))

BeginsElements(text) ==
    \/ BeginsValue(text)
    \/ \E i \in Splits(text, ",") :
         ElementsOf(Before(text, i)) # {} /\ BeginsValue(After(text, i))

BeginsMember(text) ==
    \/ Len(text) <= 1 /\ \A i \in 1 .. Len(text) : text[i][1] = "string"
    \/ IsName(text) /\ BeginsValue(After(text, 2))

BeginsMembers(text) ==
    \/ BeginsMember(text)
    \/ \E i \in Splits(text, ",") :
         MembersOf(Before(text, i)) # {} /\ BeginsMember(After(text, i))
=============================================================================
