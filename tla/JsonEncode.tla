----------------------------- MODULE JsonEncode -----------------------------
(***************************************************************************)
(* lua-cjson/lua_cjson.c: cjson.encode and the functions that configure    *)
(* it, as called one after another in one Lua state.                       *)
(*                                                                         *)
(* The recursion of json_append_data, json_append_array and                *)
(* json_append_object is the sequence `frames'; `pc' says which function   *)
(* runs.  Lua values are the nodes of a graph, so that a table may contain *)
(* itself.  lua_next visits the entries of a table in any order.           *)
(*                                                                         *)
(* The text is kept twice: as the bytes the buffer holds (buf.length) and, *)
(* in `out', as the tokens it consists of.                                 *)
(***************************************************************************)
EXTENDS StrBuf, Sequences, FiniteSets, FiniteSetsExt

CONSTANTS
    Chars,      \* characters, told apart by their escapes
    Width,      \* bytes of a character in JSON: 1, or those of char2escape
    Values,     \* the Lua values there are
    Nil,
    TypeOf,     \* lua_type, numbers split into integers, other finite ones and bad ones
    Text,       \* the characters of a string, or those number_fmt prints
    Index,      \* the value of an integer
    Entries,    \* the keys and values of a table
    Depths, Ratios, Safes,   \* arguments of the configuring calls; -1: one they refuse
    NoValue

Types == {"nil", "null", "true", "false", "integer", "finite", "bad", "string", "table",
          "other"}

NumberTypes == {"integer", "finite", "bad"}

\* json_append_number asks for 32 bytes, of which one is the terminator.
ASSUME EncodeAssumption ==
    /\ Width \in [Chars -> {1, 2, 6}]
    /\ TypeOf \in [Values -> Types]
    /\ Text \in [Values -> Seq(Chars)]
    /\ \A v \in Values : TypeOf[v] \in NumberTypes => Len(Text[v]) < 32
    /\ Index \in [Values -> Int]
    /\ Entries \in [Values -> SUBSET (Values \X Values)]
    /\ \A v \in Values : IsFiniteSet(Entries[v]) /\ \A e \in Entries[v] : e[2] # Nil
    /\ Nil \in Values /\ TypeOf[Nil] = "nil" /\ NoValue \notin Values

VARIABLES
    cfg,            \* the fields of json_config_t that encoding reads
    buf,            \* cfg->encode_buf
    live,           \* buffers allocated for it and not freed
    destroyed,      \* the Lua state is being closed and json_destroy_config has run
    current_depth,
    pc,             \* "idle", or the function that runs next
    frames,         \* the tables being appended, the innermost one last
    todo,           \* the value on top of the Lua stack
    str,            \* the characters of it json_append_string has still to append
    arg, out, result   \* history: the last argument, its tokens, and how the call ended

vars == <<cfg, buf, live, destroyed, current_depth, pc, frames, todo, str, arg, out, result>>

\* json_create_config.
Init ==
    /\ cfg = [convert |-> FALSE, ratio |-> 2, safe |-> 10, max_depth |-> 20,
              refuse |-> TRUE, keep |-> TRUE]
    /\ buf = strbuf_init(0)
    /\ live = 1
    /\ destroyed = FALSE
    /\ current_depth = 0
    /\ pc = "idle"
    /\ frames = <<>> /\ todo = NoValue /\ str = <<>>
    /\ arg = NoValue /\ out = <<>> /\ result = "none"

-----------------------------------------------------------------------------
\* Configuration.  A call with an argument that is refused raises an error; where that
\* leaves nothing changed it is not an action.

Configured ==
    /\ pc = "idle"
    /\ arg' = NoValue /\ out' = <<>> /\ result' = "none"
    /\ UNCHANGED <<buf, live, destroyed, current_depth, pc, frames, todo, str>>

\* The switch falls through from the last argument to the first: what is refused stops
\* the rest, but the arguments after it have been taken.
json_cfg_encode_sparse_array(n, convert, ratio, safe) ==
    LET safeTaken == n < 3 \/ safe >= 0
        ratioTaken == safeTaken /\ (n < 2 \/ ratio >= 0)
    IN  /\ n \in 1 .. 3
        /\ Configured
        /\ cfg' = [cfg EXCEPT !.safe = IF n = 3 /\ safeTaken THEN safe ELSE @,
                              !.ratio = IF n >= 2 /\ ratioTaken THEN ratio ELSE @,
                              !.convert = IF ratioTaken THEN convert ELSE @]

json_cfg_encode_max_depth(depth) ==
    /\ depth > 0
    /\ Configured
    /\ cfg' = [cfg EXCEPT !.max_depth = depth]

json_cfg_encode_keep_buffer(keep) ==
    /\ Configured
    /\ cfg' = [cfg EXCEPT !.keep = keep]

\* The bit of json_enum_option that is meant for encoding.
json_cfg_refuse_invalid_numbers(refuse) ==
    /\ Configured
    /\ cfg' = [cfg EXCEPT !.refuse = refuse]

\* The finalizer of the configuration, when the Lua state is closed.  Finalizers of other
\* objects may run after it and encode.
json_destroy_config ==
    /\ pc = "idle" /\ ~destroyed
    /\ destroyed' = TRUE
    /\ buf' = strbuf_free(buf)
    /\ live' = IF buf.allocated THEN live - 1 ELSE live
    /\ UNCHANGED <<cfg, current_depth, pc, frames, todo, str, arg, out, result>>

-----------------------------------------------------------------------------
\* Writing.

strbuf_resize ==
    /\ buf' = Doubled(buf)
    /\ UNCHANGED <<cfg, live, destroyed, current_depth, pc, frames, todo, str, arg, out, result>>

\* strbuf_ensure_empty_length(len), then what appends.
WithRoom(len, Appends) ==
    \/ ~HasRoom(buf, len) /\ strbuf_resize
    \/ HasRoom(buf, len) /\ Appends

Write(len, tokens) ==
    /\ buf' = Advanced(buf, len)
    /\ out' = out \o tokens

Released(keep) ==
    /\ buf' = IF keep THEN buf ELSE strbuf_free(buf)
    /\ live' = IF keep THEN live ELSE live - 1

\* json_encode_exception, and the end of json_encode.
End(how) ==
    /\ pc' = "idle" /\ result' = how
    /\ Released(cfg.keep)
    /\ frames' = <<>> /\ todo' = NoValue /\ str' = <<>>
    /\ UNCHANGED <<cfg, destroyed, current_depth, arg, out>>

json_encode_exception == End("error")

\* Mutant: a buffer is made for every call.
EncodeAlwaysInit(v) ==
    /\ pc = "idle"
    /\ pc' = "data" /\ todo' = v
    /\ current_depth' = 0
    /\ buf' = strbuf_init(0)
    /\ live' = live + 1
    /\ arg' = v /\ out' = <<>> /\ result' = "none"
    /\ UNCHANGED <<cfg, destroyed, frames, str>>

\* "Reset the persistent buffer if it exists.  Otherwise allocate a new buffer."
json_encode(v) ==
    /\ pc = "idle"
    /\ pc' = "data" /\ todo' = v
    /\ current_depth' = 0
    /\ buf' = IF buf.allocated THEN strbuf_reset(buf) ELSE strbuf_init(0)
    /\ live' = IF buf.allocated THEN live ELSE live + 1
    /\ arg' = v /\ out' = <<>> /\ result' = "none"
    /\ UNCHANGED <<cfg, destroyed, frames, str>>

\* lua_pushlstring of the text, and the buffer is given up unless it is kept.
json_encode_return == pc = "push" /\ End("ok")

\* lua_pushlstring raises an error when Lua has no memory for the text.
json_encode_nomem ==
    /\ pc = "push"
    /\ pc' = "idle" /\ result' = "nomem"
    /\ UNCHANGED <<cfg, buf, live, destroyed, current_depth, frames, todo, str, arg, out>>

-----------------------------------------------------------------------------
\* Strings and numbers.

\* Mutant: the room for the quotes is forgotten.
WorstCaseBare(text) == 6 * Len(text)

\* "Worst case is len * 6 (all unicode escapes)", and the quotes.
WorstCase(text) == 6 * Len(text) + 2

json_append_string(next) ==
    WithRoom(WorstCase(Text[todo]),
             /\ Write(1, <<<<"string", Text[todo]>>>>)
             /\ str' = Text[todo]
             /\ pc' = next
             /\ UNCHANGED <<cfg, live, destroyed, current_depth, frames, todo, arg, result>>)

\* A character without an escape is appended untested; an escape is appended by
\* strbuf_append_string, which tests each byte.
json_append_string_char ==
    /\ pc \in {"string", "keystring"} /\ str # <<>>
    /\ LET width == Width[Head(str)]
           AppendChar == /\ Write(width, <<>>)
                         /\ str' = Tail(str)
                         /\ UNCHANGED <<cfg, live, destroyed, current_depth, pc, frames, todo,
                                        arg, result>>
       IN  IF width = 1 THEN AppendChar ELSE WithRoom(width, AppendChar)

\* The closing quote, untested.
json_append_string_end ==
    /\ pc \in {"string", "keystring"} /\ str = <<>>
    /\ Write(1, <<>>)
    /\ pc' = IF pc = "string" THEN "next" ELSE "keyend"
    /\ UNCHANGED <<cfg, live, destroyed, current_depth, frames, todo, str, arg, result>>

Refused == TypeOf[todo] = "bad" /\ cfg.refuse

\* strbuf_append_fmt asks for 32 bytes, whatever the length of the text.
json_append_number(next, tokens) ==
    \/ Refused /\ json_encode_exception
    \/ /\ ~Refused
       /\ WithRoom(32, /\ Write(Len(Text[todo]), tokens)
                       /\ pc' = next
                       /\ UNCHANGED <<cfg, live, destroyed, current_depth, frames, todo, str,
                                      arg, result>>)

append_string == pc = "data" /\ TypeOf[todo] = "string" /\ json_append_string("string")

append_number ==
    /\ pc = "data" /\ TypeOf[todo] \in NumberTypes
    /\ json_append_number("next", <<<<"number", Text[todo]>>>>)

\* json_append_data on true, false, nil and a NULL lightuserdata.
append_literal ==
    /\ pc = "data" /\ TypeOf[todo] \in {"true", "false", "nil", "null"}
    /\ WithRoom(IF TypeOf[todo] = "false" THEN 5 ELSE 4,
                /\ Write(IF TypeOf[todo] = "false" THEN 5 ELSE 4,
                         <<<<"literal", IF TypeOf[todo] = "nil" THEN "null" ELSE TypeOf[todo]>>>>)
                /\ pc' = "next"
                /\ UNCHANGED <<cfg, live, destroyed, current_depth, frames, todo, str, arg,
                               result>>)

append_other == pc = "data" /\ TypeOf[todo] = "other" /\ json_encode_exception

-----------------------------------------------------------------------------
\* Tables.

Keys(table) == {e[1] : e \in Entries[table]}

\* Every key is a number that is an integer and at least 1.
IsArray(table) == \A k \in Keys(table) : TypeOf[k] = "integer" /\ Index[k] >= 1

MaxIndex(table) == Max({0} \cup {Index[k] : k \in Keys(table)})

\* "Encode excessively sparse arrays as objects (if enabled)".
ExcessivelySparse(table) ==
    /\ IsArray(table)
    /\ cfg.ratio > 0
    /\ MaxIndex(table) > Cardinality(Entries[table]) * cfg.ratio
    /\ MaxIndex(table) > cfg.safe

\* lua_array_length: an object is anything but a non-empty array that is not sparse.
AsArray(table) == IsArray(table) /\ MaxIndex(table) > 0 /\ ~ExcessivelySparse(table)

Frame(table) ==
    IF AsArray(table)
    THEN [kind |-> "array", table |-> table, i |-> 1, n |-> MaxIndex(table),
          left |-> {}, value |-> NoValue]
    ELSE [kind |-> "object", table |-> table, i |-> 1, n |-> 0,
          left |-> Entries[table], value |-> NoValue]

TableFails ==
    \/ ExcessivelySparse(todo) /\ ~cfg.convert
    \/ current_depth + 1 > cfg.max_depth

\* lua_array_length refuses the table, or json_encode_descend the depth.
append_table_fails ==
    /\ pc = "data" /\ TypeOf[todo] = "table" /\ TableFails
    /\ json_encode_exception

\* json_encode_descend and the opening bracket.
append_table ==
    /\ pc = "data" /\ TypeOf[todo] = "table" /\ ~TableFails
    /\ WithRoom(1, /\ Write(1, <<<<"mark", IF AsArray(todo) THEN "[" ELSE "{">>>>)
                   /\ current_depth' = current_depth + 1
                   /\ frames' = Append(frames, Frame(todo))
                   /\ pc' = "next"
                   /\ UNCHANGED <<cfg, live, destroyed, todo, str, arg, result>>)

Top == frames[Len(frames)]

Outer == SubSeq(frames, 1, Len(frames) - 1)

\* lua_rawgeti: a missing index gives nil.
Element(table, i) ==
    IF \E e \in Entries[table] : TypeOf[e[1]] = "integer" /\ Index[e[1]] = i
    THEN (CHOOSE e \in Entries[table] : TypeOf[e[1]] = "integer" /\ Index[e[1]] = i)[2]
    ELSE Nil

\* The comma before every element or entry but the first.
Comma == IF Top.i = 1 THEN <<>> ELSE <<<<"mark", ",">>>>

\* json_append_array: the next element, or the closing bracket.
array_next ==
    /\ pc = "next" /\ frames # <<>> /\ Top.kind = "array" /\ Top.i <= Top.n
    /\ WithRoom(Len(Comma),
                /\ Write(Len(Comma), Comma)
                /\ todo' = Element(Top.table, Top.i)
                /\ frames' = [frames EXCEPT ![Len(frames)].i = @ + 1]
                /\ pc' = "data"
                /\ UNCHANGED <<cfg, live, destroyed, current_depth, str, arg, result>>)

\* json_append_object: the next entry of lua_next.
object_next ==
    /\ pc = "next" /\ frames # <<>> /\ Top.kind = "object"
    /\ \E e \in Top.left :
         WithRoom(Len(Comma),
                  /\ Write(Len(Comma), Comma)
                  /\ todo' = e[1]
                  /\ frames' = [frames EXCEPT ![Len(frames)].i = @ + 1,
                                              ![Len(frames)].left = @ \ {e},
                                              ![Len(frames)].value = e[2]]
                  /\ pc' = "key"
                  /\ UNCHANGED <<cfg, live, destroyed, current_depth, str, arg, result>>)

Exhausted == IF Top.kind = "array" THEN Top.i > Top.n ELSE Top.left = {}

\* Mutant: json_append_object returns without current_depth--.
CloseDeep ==
    /\ pc = "next" /\ frames # <<>> /\ Exhausted
    /\ WithRoom(1, /\ Write(1, <<<<"mark", IF Top.kind = "array" THEN "]" ELSE "}">>>>)
                   /\ current_depth' = IF Top.kind = "array" THEN current_depth - 1
                                       ELSE current_depth
                   /\ frames' = Outer
                   /\ UNCHANGED <<cfg, live, destroyed, pc, todo, str, arg, result>>)

\* The closing bracket and current_depth--, of either function.
table_close ==
    /\ pc = "next" /\ frames # <<>> /\ Exhausted
    /\ WithRoom(1, /\ Write(1, <<<<"mark", IF Top.kind = "array" THEN "]" ELSE "}">>>>)
                   /\ current_depth' = current_depth - 1
                   /\ frames' = Outer
                   /\ UNCHANGED <<cfg, live, destroyed, pc, todo, str, arg, result>>)

key_string == pc = "key" /\ TypeOf[todo] = "string" /\ json_append_string("keystring")

\* The quote before a number used as a key.
key_quote ==
    /\ pc = "key" /\ TypeOf[todo] \in NumberTypes
    /\ WithRoom(1, /\ Write(1, <<>>)
                   /\ pc' = "keynumber"
                   /\ UNCHANGED <<cfg, live, destroyed, current_depth, frames, todo, str, arg,
                                  result>>)

key_number == pc = "keynumber" /\ json_append_number("keyend", <<<<"string", Text[todo]>>>>)

key_other ==
    /\ pc = "key" /\ TypeOf[todo] \notin NumberTypes \cup {"string"}
    /\ json_encode_exception

\* The colon, after a quote when the key is a number; then the value.
key_end ==
    LET len == IF TypeOf[todo] = "string" THEN 1 ELSE 2
    IN  /\ pc = "keyend"
        /\ WithRoom(len, /\ Write(len, <<<<"mark", ":">>>>)
                         /\ todo' = Top.value
                         /\ pc' = "data"
                         /\ UNCHANGED <<cfg, live, destroyed, current_depth, frames, str, arg,
                                        result>>)

\* The outermost json_append_data has returned.
append_done ==
    /\ pc = "next" /\ frames = <<>>
    /\ pc' = "push"
    /\ UNCHANGED <<cfg, buf, live, destroyed, current_depth, frames, todo, str, arg, out, result>>

-----------------------------------------------------------------------------
Encoding ==
    \/ append_string \/ append_number \/ append_literal \/ append_other
    \/ append_table \/ append_table_fails \/ array_next \/ object_next \/ table_close
    \/ json_append_string_char \/ json_append_string_end
    \/ key_string \/ key_quote \/ key_number \/ key_other \/ key_end
    \/ append_done \/ json_encode_return \/ json_encode_nomem

Configuring ==
    \/ \E n \in 1 .. 3, convert \in BOOLEAN, ratio \in Ratios, safe \in Safes :
         json_cfg_encode_sparse_array(n, convert, ratio, safe)
    \/ \E depth \in Depths : json_cfg_encode_max_depth(depth)
    \/ \E keep \in BOOLEAN : json_cfg_encode_keep_buffer(keep)
    \/ \E refuse \in BOOLEAN : json_cfg_refuse_invalid_numbers(refuse)
    \/ json_destroy_config

Next ==
    \/ \E v \in Values : json_encode(v)
    \/ Encoding
    \/ Configuring

Spec == Init /\ [][Next]_vars

\* A call of encode runs on until it returns or raises an error.
FairSpec == Spec /\ WF_vars(Encoding)

-----------------------------------------------------------------------------
PCs == {"idle", "data", "string", "keystring", "key", "keynumber", "keyend", "next", "push"}

FrameType == [kind : {"array", "object"}, table : Values, i : Nat, n : Nat,
              left : SUBSET (Values \X Values), value : Values \cup {NoValue}]

TypeOK ==
    /\ cfg \in [convert : BOOLEAN, ratio : Nat, safe : Nat, max_depth : Nat,
                refuse : BOOLEAN, keep : BOOLEAN]
    /\ buf \in Buffer
    /\ live \in Nat
    /\ destroyed \in BOOLEAN
    /\ current_depth \in Nat
    /\ pc \in PCs
    /\ frames \in Seq(FrameType)
    /\ todo \in Values \cup {NoValue}
    /\ str \in Seq(Chars)
    /\ result \in {"none", "ok", "error", "nomem"}

\* The bytes json_append_string may still append untested.
Reserved == IF pc \in {"string", "keystring"} THEN 6 * Len(str) + 1 ELSE 0

\* Whatever is encoded, by whatever sequence of calls and configurations, the buffer is
\* allocated while it is written and every byte, also those appended untested after one
\* reservation for the whole string, falls into it, with room left for a terminator.
BufferFits ==
    pc # "idle" => /\ buf.allocated
                   /\ InBounds(Advanced(buf, Reserved))

\* The buffer is never lost, freed twice or allocated over: there is one while `buf' says
\* so and none otherwise, over any sequence of calls that succeed, fail or run out of
\* memory, of changes of encode_keep_buffer between them, and after the finalizer.
OneBuffer == live = IF buf.allocated THEN 1 ELSE 0

\* Every call of encode ends, also on a table that contains itself.
EncodeEnds == pc # "idle" ~> pc = "idle"
=============================================================================
