---------------------------- MODULE MCJsonEncode ----------------------------
(***************************************************************************)
(* Sample values for JsonEncode, and what lua-cjson/README says            *)
(* cjson.encode does with a value, to compare the text against.            *)
(***************************************************************************)
EXTENDS JsonEncode, TLC

Text1 == INSTANCE JsonText

Scalar == [nil |-> "nil", null |-> "null", true |-> "true", false |-> "false",
           n0 |-> "integer", n1 |-> "integer", n2 |-> "integer", n4 |-> "integer",
           half |-> "finite", inf |-> "bad", fn |-> "other",
           plain |-> "string", unicode |-> "string", one |-> "string"]

SampleEntries ==
    [empty |-> {},
     array |-> {<<"n1", "unicode">>, <<"n2", "false">>},
     hole |-> {<<"n2", "half">>},
     sparse |-> {<<"n4", "true">>},
     zero |-> {<<"n0", "null">>, <<"n1", "plain">>},
     object |-> {<<"plain", "inf">>, <<"half", "n1">>},
     collide |-> {<<"n1", "one">>, <<"one", "n0">>},
     badkey |-> {<<"true", "n1">>},
     infkey |-> {<<"inf", "null">>},
     deep |-> {<<"one", "nest">>, <<"plain", "empty">>},
     siblings |-> {<<"one", "empty">>, <<"plain", "array">>},
     nest |-> {<<"n1", "empty">>},
     cycle |-> {<<"n1", "cycle">>},
     badvalue |-> {<<"n1", "fn">>}]

SampleValues == DOMAIN Scalar \cup DOMAIN SampleEntries

SampleTypeOf == [v \in SampleValues |-> IF v \in DOMAIN Scalar THEN Scalar[v] ELSE "table"]

SampleText ==
    [v \in SampleValues |->
        CASE v \in {"n1", "one"} -> <<"1">>
          [] v = "n0" -> <<"0">>
          [] v = "n2" -> <<"2">>
          [] v = "n4" -> <<"4">>
          [] v = "half" -> <<".", "5">>
          [] v = "inf" -> <<"i">>
          [] v = "plain" -> <<"a">>
          [] v = "unicode" -> <<"u", "q">>
          [] OTHER -> <<>>]

\* "q" stands for a quote or a backslash, "u" for a control character.
SampleWidth == [c \in {"a", "q", "u", "i", ".", "0", "1", "2", "4", "5"} |->
                  IF c = "u" THEN 6 ELSE IF c = "q" THEN 2 ELSE 1]

SampleChars == DOMAIN SampleWidth

SampleIndex == [v \in SampleValues |-> IF v = "n4" THEN 4 ELSE IF v = "n2" THEN 2
                                       ELSE IF v = "n1" THEN 1 ELSE 0]

\* -1 stands for what lua_isnumber or the test of the sign refuses.
SampleRatios == {0, 1, -1}
SampleSafes == {1, -1}

SampleEntriesOf == [v \in SampleValues |->
                      IF v \in DOMAIN SampleEntries THEN SampleEntries[v] ELSE {}]

-----------------------------------------------------------------------------
\* "A Lua table will only be recognised as an array if all keys are type "number" and are
\* positive integers (>0)"; one without keys is an object.
Positions(t) == {IF TypeOf[e[1]] = "integer" THEN Index[e[1]] ELSE 0 : e \in Entries[t]}

Recognised(t) == Entries[t] # {} /\ 0 \notin Positions(t)

\* "maximum index > safe AND maximum index > array_items * ratio"; "Setting ratio to 0
\* disables checking".
Sparse(t, c) ==
    /\ Recognised(t)
    /\ c.ratio # 0
    /\ Max(Positions(t)) > c.safe
    /\ Max(Positions(t)) > Cardinality(Entries[t]) * c.ratio

IsNumber(v) == TypeOf[v] \in {"integer", "finite", "bad"}

Finite(v, c) == TypeOf[v] = "bad" => ~c.refuse

RECURSIVE Serialisable(_, _, _)

\* The values cjson.encode serialises, `room' nested tables deep.
Serialisable(v, c, room) ==
    \/ TypeOf[v] \in {"nil", "null", "true", "false", "string"}
    \/ IsNumber(v) /\ Finite(v, c)
    \/ /\ TypeOf[v] = "table"
       /\ room > 0
       /\ Sparse(v, c) => c.convert
       /\ \A e \in Entries[v] :
            /\ Serialisable(e[2], c, room - 1)
            /\ \/ Recognised(v) /\ ~Sparse(v, c)
               \/ TypeOf[e[1]] = "string"
               \/ IsNumber(e[1]) /\ Finite(e[1], c)

RECURSIVE Meaning(_, _)

\* What the text of a value denotes: missing entries of an array are null, the keys of an
\* object are strings, in no order.
Meaning(v, c) ==
    CASE TypeOf[v] \in {"nil", "null"} -> <<"literal", "null">>
      [] TypeOf[v] \in {"true", "false"} -> <<"literal", TypeOf[v]>>
      [] IsNumber(v) -> <<"number", Text[v]>>
      [] TypeOf[v] = "string" -> <<"string", Text[v]>>
      [] Recognised(v) /\ ~Sparse(v, c) ->
           <<"array", [i \in 1 .. Max(Positions(v)) |->
                         IF i \in Positions(v)
                         THEN Meaning((CHOOSE e \in Entries[v] : Index[e[1]] = i)[2], c)
                         ELSE <<"literal", "null">>]>>
      [] OTHER -> <<"object", Cardinality(Entries[v]),
                    {<<Text[e[1]], Meaning(e[2], c)>> : e \in Entries[v]}>>

RECURSIVE Unordered(_)

\* The meaning of a text, the order of the members of its objects left out.
Unordered(m) ==
    CASE m[1] = "array" -> <<"array", [i \in DOMAIN m[2] |-> Unordered(m[2][i])]>>
      [] m[1] = "object" -> <<"object", Len(m[2]),
                              {<<m[2][i][1], Unordered(m[2][i][2])>> : i \in DOMAIN m[2]}>>
      [] OTHER -> m

\* README lines 112-160: encode raises an error exactly for what it says it refuses, under
\* the configuration in force, and otherwise returns a text of the grammar that denotes the
\* value it was given, whatever was encoded or refused before it.
EncodeCorrect ==
    [][pc # "idle" /\ pc' = "idle" =>
         /\ result' = "error" => ~Serialisable(arg, cfg, cfg.max_depth)
         /\ result' \in {"ok", "nomem"} =>
              /\ Serialisable(arg, cfg, cfg.max_depth)
              /\ {Unordered(m) : m \in Text1!ValuesOf(out')} = {Meaning(arg, cfg)}]_vars
=============================================================================
