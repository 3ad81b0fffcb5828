----------------------------- MODULE JsonDecode -----------------------------
(***************************************************************************)
(* lua-cjson/lua_cjson.c: cjson.decode, as called again and again.         *)
(*                                                                         *)
(* The text is not chosen beforehand: each token is chosen when            *)
(* json_next_token reads it, among those that fit into the json_len bytes  *)
(* of the text, and `read' collects what was chosen.  The recursion of     *)
(* json_process_value, json_parse_object_context and                       *)
(* json_parse_array_context is the sequence `frames'; `where' is the place *)
(* in them that the next token comes to.                                   *)
(***************************************************************************)
EXTENDS StrBuf, Sequences, FiniteSets, SequencesExt

CONSTANTS
    Texts,          \* the texts given to decode: their bytes, and a bound on their tokens
    MaxUnits,       \* bound: the characters and escapes of a string token
    Gaps,           \* bytes of whitespace before a token
    Plain, Escaped, \* bytes that stand for themselves, and those an escape stands for
    CodeUnits,      \* what four hexadecimal digits may say
    Numbers,        \* forms of number
    Class,          \* what json_is_invalid_number and strtod make of a form
    Bytes,          \* the length of a form
    Value,          \* what strtod makes of a form, in ticks; out of the range of int for
                    \* infinities and NaN, which are as far from every int
    Unit, Epsilon,  \* the ticks of an integer, and of 1e-9: "0.000000001"
    IntMax,         \* INT_MAX
    MinSlots,       \* LUA_MINSTACK: slots a C function finds on the Lua stack
    MaxSlots,       \* slots lua_checkstack can give
    MaxLeaks        \* bound: memory errors of Lua

\* "strict" forms follow the grammar; "loose" ones (hexadecimal, a leading zero or plus,
\* infinities, NaN) are those json_is_invalid_number knows; "lax" ones ("1.", "-.5") break
\* the grammar and pass it; strtod reads nothing of "none".
Classes == {"strict", "loose", "lax", "none"}

ASSUME DecodeAssumption ==
    /\ Texts \subseteq [len : Nat, tokens : Nat]
    /\ MaxUnits \in Nat /\ Gaps \subseteq Nat
    /\ Class \in [Numbers -> Classes]
    /\ Bytes \in [Numbers -> Nat \ {0}]
    /\ Value \in [Numbers -> Int]
    /\ Unit \in Nat \ {0} /\ Epsilon \in Nat /\ IntMax \in Nat
    /\ MinSlots \in Nat \ {0} /\ MaxSlots \in Nat /\ MaxLeaks \in Nat

ASSUME ByteAssumption ==
    /\ Plain \subseteq 0 .. 255 /\ Escaped \subseteq 0 .. 255
    /\ CodeUnits \subseteq 0 .. (2 ^ 16 - 1)

VARIABLES
    refuse,     \* cfg->decode_refuse_badnum
    text,       \* the argument
    index,      \* json.index
    tmp, bytes, \* json.tmp, and what it holds
    live,       \* buffers allocated by strbuf_new and not freed
    leaked,     \* those a memory error of Lua left behind
    pc,         \* "idle", "next" in json_next_token, "string", "have" a token, "pushed"
    where, token, frames,
    value,      \* the value on top of the Lua stack, once pushed
    used, room, \* slots of the Lua stack in use, and those that were checked
    read, units,    \* history: the tokens, the code units of the current string
    result      \* history: how the call ended, and the value returned

lua == <<used, room>>
buffers == <<live, leaked>>
vars == <<refuse, text, index, tmp, bytes, live, leaked, pc, where, token, frames, value,
          used, room, read, units, result>>

NoToken == [type |-> "none", value |-> <<>>]
NoValue == <<"none">>
NoText == [len |-> 0, tokens |-> 0]

\* Buffers are allocated one at a time: the only thing their contents wait for is a call.
Init ==
    /\ refuse = FALSE
    /\ text = NoText /\ index = 0
    /\ tmp = strbuf_free(strbuf_init(0)) /\ bytes = <<>>
    /\ live = 0 /\ leaked = 0
    /\ pc = "idle" /\ where = "none" /\ token = NoToken /\ frames = <<>> /\ value = NoValue
    /\ used = 0 /\ room = 0
    /\ read = <<>> /\ units = <<>>
    /\ result = <<"none", NoValue>>

\* The bit of json_enum_option that is meant for decoding.
json_cfg_refuse_invalid_numbers(on) ==
    /\ pc = "idle"
    /\ refuse' = on
    /\ UNCHANGED <<text, index, tmp, bytes, live, leaked, pc, where, token, frames, value, used,
                   room, read, units, result>>

\* Mutant: the buffer of a string starts with the size of the default.
DecodeDefault(t) ==
    /\ pc = "idle"
    /\ text' = t /\ index' = 0
    /\ tmp' = strbuf_init(0) /\ bytes' = <<>>
    /\ live' = live + 1
    /\ pc' = "next" /\ where' = "first" /\ token' = NoToken /\ frames' = <<>>
    /\ value' = NoValue
    /\ used' = 1 /\ room' = 1 + MinSlots
    /\ read' = <<>> /\ units' = <<>>
    /\ result' = <<"none", NoValue>>
    /\ UNCHANGED <<refuse, leaked>>

\* json_decode and lua_json_decode.  "Ensure the temporary buffer can hold the entire
\* string.  This means we no longer need to do length checks".
lua_json_decode(t) ==
    /\ pc = "idle"
    /\ text' = t /\ index' = 0
    /\ tmp' = strbuf_init(t.len) /\ bytes' = <<>>
    /\ live' = live + 1
    /\ pc' = "next" /\ where' = "first" /\ token' = NoToken /\ frames' = <<>>
    /\ value' = NoValue
    /\ used' = 1 /\ room' = 1 + MinSlots
    /\ read' = <<>> /\ units' = <<>>
    /\ result' = <<"none", NoValue>>
    /\ UNCHANGED <<refuse, leaked>>

Ended(how, v) ==
    /\ pc' = "idle"
    /\ result' = <<how, v>>
    /\ text' = NoText /\ index' = 0
    /\ bytes' = <<>> /\ where' = "none" /\ token' = NoToken /\ frames' = <<>>
    /\ value' = NoValue
    /\ used' = 0 /\ room' = 0 /\ units' = <<>>
    /\ UNCHANGED <<refuse, read>>

\* Mutant: "Too many nested data structures" is raised without freeing the buffer.
FreedUnlessDeep(how, v) ==
    /\ Ended(how, v)
    /\ tmp' = strbuf_free(tmp)
    /\ live' = IF how = "deep" THEN live ELSE live - 1
    /\ UNCHANGED leaked

\* The end of lua_json_decode, json_throw_parse_error and the error of
\* json_decode_checkstack free the buffer.
Freed(how, v) ==
    /\ Ended(how, v)
    /\ tmp' = strbuf_free(tmp)
    /\ live' = live - 1
    /\ UNCHANGED leaked

-----------------------------------------------------------------------------
\* json_next_token.

Mark == [T_OBJ_BEGIN |-> "{", T_OBJ_END |-> "}", T_ARR_BEGIN |-> "[", T_ARR_END |-> "]",
         T_COLON |-> ":", T_COMMA |-> ","]

Got(type, v) == token' = [type |-> type, value |-> v] /\ pc' = "have"

Took(width) == index + width <= text.len /\ index' = index + width

\* A NUL byte ends the text.  There is one behind the text, and there may be others in
\* it, but not among its first two bytes: "does not support UTF-16 or UTF-32".
NulAt(i) == i = text.len \/ i >= 2 \/ text.len < 2

Reading == pc = "next" /\ Len(read) < text.tokens

next_mark ==
    /\ Reading
    /\ \E type \in DOMAIN Mark, gap \in Gaps :
         Took(gap + 1) /\ Got(type, <<>>) /\ read' = Append(read, <<"mark", Mark[type]>>)
    /\ UNCHANGED <<refuse, text, tmp, bytes, buffers, where, frames, value, lua, units, result>>

next_word ==
    /\ Reading
    /\ \E word \in {"true", "false", "null"}, gap \in Gaps :
         /\ Took(gap + (IF word = "false" THEN 5 ELSE 4))
         /\ Got(IF word = "null" THEN "T_NULL" ELSE "T_BOOLEAN", <<"literal", word>>)
         /\ read' = Append(read, <<"literal", word>>)
    /\ UNCHANGED <<refuse, text, tmp, bytes, buffers, where, frames, value, lua, units, result>>

\* The number is read: strtod takes it, and it is not refused.
NumberAccepted(n) == Class[n] \in {"strict", "lax"} \cup (IF refuse THEN {} ELSE {"loose"})

Truncated(number) ==
    IF number < 0 THEN - ((- number) \div Unit) ELSE number \div Unit

\* What "(int) number" may be: any int when the number has none.
Cast(number) ==
    LET ints == (- IntMax - 1) .. IntMax
    IN  IF Truncated(number) \in ints THEN {Truncated(number)} ELSE ints

\* json_next_number_token: T_INTEGER when the number is within 1e-9 of what it is cast to,
\* and T_NUMBER when it is not, be it next to the integer above.
NumberToken(number, integer) ==
    LET diff == number - integer * Unit
    IN  IF - Epsilon < diff /\ diff < Epsilon
        THEN Got("T_INTEGER", <<"integer", integer>>)
        ELSE Got("T_NUMBER", <<"float", number>>)

next_number ==
    /\ Reading
    /\ \E n \in Numbers, gap \in Gaps :
         /\ NumberAccepted(n)
         /\ Took(gap + Bytes[n])
         /\ \E integer \in Cast(Value[n]) : NumberToken(Value[n], integer)
         /\ read' = Append(read, <<"number", n>>)
    /\ UNCHANGED <<refuse, text, tmp, bytes, buffers, where, frames, value, lua, units, result>>

\* "invalid number", or "invalid token" when it begins like a word: the index stays.
next_bad_number ==
    /\ Reading
    /\ \E n \in Numbers, gap \in Gaps :
         /\ ~NumberAccepted(n)
         /\ index + gap + Bytes[n] <= text.len
         /\ Took(gap)
         /\ Got("T_ERROR", <<>>)
         /\ read' = Append(read, <<"number", n>>)
    /\ UNCHANGED <<refuse, text, tmp, bytes, buffers, where, frames, value, lua, units, result>>

\* A character no token begins with, or a word that is none of the three: the index stays.
next_invalid ==
    /\ Reading
    /\ index < text.len
    /\ \E gap \in Gaps : Took(gap)
    /\ index' < text.len
    /\ Got("T_ERROR", <<>>)
    /\ read' = Append(read, <<"invalid", "">>)
    /\ UNCHANGED <<refuse, text, tmp, bytes, buffers, where, frames, value, lua, units, result>>

\* Whitespace up to a NUL.
next_end ==
    /\ pc = "next"
    /\ index' \in {i \in index .. text.len : NulAt(i)}
    /\ Got("T_END", <<>>)
    /\ UNCHANGED <<refuse, text, tmp, bytes, buffers, where, frames, value, lua, read, units, result>>

\* json_next_string_token: the quote, and tmp is emptied.
next_string ==
    /\ Reading
    /\ \E gap \in Gaps : Took(gap + 1)
    /\ tmp' = strbuf_reset(tmp) /\ bytes' = <<>> /\ units' = <<>>
    /\ pc' = "string"
    /\ UNCHANGED <<refuse, text, buffers, where, token, frames, value, lua, read, result>>

-----------------------------------------------------------------------------
\* The loop of json_next_string_token.

InString == pc = "string" /\ Len(units) < MaxUnits

Unescaped(b, u) ==
    /\ tmp' = Advanced(tmp, Len(b))
    /\ bytes' = bytes \o b
    /\ units' = units \o u
    /\ UNCHANGED <<refuse, text, buffers, pc, where, token, frames, value, lua, read, result>>

StringError ==
    /\ Got("T_ERROR", <<>>)
    /\ read' = Append(read, <<"invalid", "">>)
    /\ UNCHANGED <<refuse, text, tmp, bytes, buffers, where, frames, value, lua, units, result>>

string_char == InString /\ Took(1) /\ \E c \in Plain : Unescaped(<<c>>, <<c>>)

string_escape == InString /\ Took(2) /\ \E c \in Escaped : Unescaped(<<c>>, <<c>>)

\* "invalid escape code": the character after the backslash may be the NUL behind the text.
string_bad_escape == InString /\ index + 1 <= text.len /\ UNCHANGED index /\ StringError

BadHex == -1
NoEscape == -2

IsSurrogate(unit) == unit \div 2048 = 27


\* json_append_unicode_escape: the code point of an escape and of the one after it, which
\* is looked at when the first is a surrogate; -1 is "invalid unicode escape code".
CodePoint(first, second) ==
    IF first < 0 THEN -1
    ELSE IF ~IsSurrogate(first) THEN first
    ELSE IF first \div 1024 = 55 \/ second < 0 \/ second \div 1024 # 55 THEN -1
    ELSE (first % 1024) * 1024 + (second % 1024) + 65536

EscapeLen(first) == IF IsSurrogate(first) THEN 12 ELSE 6

\* The last n bytes of a sequence, six bits each.
Continued(code, n) == [i \in 1 .. n |-> 128 + ((code \div (64 ^ (n - i))) % 64)]

codepoint_to_utf8(code) ==
    IF code < 128 THEN <<code>>
    ELSE IF code < 2 ^ 11 THEN <<192 + code \div 64>> \o Continued(code, 1)
    ELSE IF code < 2 ^ 16 THEN <<224 + code \div 64 ^ 2>> \o Continued(code, 2)
    ELSE <<240 + code \div 64 ^ 3>> \o Continued(code, 3)

string_unicode ==
    /\ InString
    /\ \E first \in CodeUnits, second \in CodeUnits \cup {NoEscape} :
         LET code == CodePoint(first, second)
         IN  /\ code >= 0
             /\ Took(EscapeLen(first))
             /\ Unescaped(codepoint_to_utf8(code),
                          IF IsSurrogate(first) THEN <<first, second>> ELSE <<first>>)

string_bad_unicode ==
    /\ InString
    /\ index + 2 <= text.len
    /\ \E first \in CodeUnits \cup {BadHex}, second \in CodeUnits \cup {BadHex, NoEscape} :
         CodePoint(first, second) < 0
    /\ UNCHANGED index
    /\ StringError

\* A NUL: "unexpected end of string".
string_unended ==
    /\ pc = "string"
    /\ NulAt(index)
    /\ UNCHANGED index
    /\ StringError

string_end ==
    /\ pc = "string"
    /\ Took(1)
    /\ Got("T_STRING", <<"string", bytes>>)
    /\ read' = Append(read, <<"string", units>>)
    /\ UNCHANGED <<refuse, text, tmp, bytes, buffers, where, frames, value, lua, units, result>>

-----------------------------------------------------------------------------
\* The parser.

Scalars == {"T_STRING", "T_NUMBER", "T_INTEGER", "T_BOOLEAN", "T_NULL"}

ValueTypes == Scalars \cup {"T_OBJ_BEGIN", "T_ARR_BEGIN"}

\* The tokens each place accepts.
Accepted ==
    [first |-> ValueTypes, objvalue |-> ValueTypes, arrvalue |-> ValueTypes,
     objfirst |-> {"T_STRING", "T_OBJ_END"}, key |-> {"T_STRING"}, colon |-> {"T_COLON"},
     objnext |-> {"T_COMMA", "T_OBJ_END"}, arrfirst |-> ValueTypes \cup {"T_ARR_END"},
     arrnext |-> {"T_COMMA", "T_ARR_END"}, end |-> {"T_END"}]

Have(places, types) == pc = "have" /\ where \in places /\ token.type \in types

ValuePlaces == {"first", "objvalue", "arrvalue", "arrfirst"}

\* The next token comes to a place.
Go(place) ==
    /\ pc' = "next" /\ where' = place
    /\ UNCHANGED <<refuse, text, index, tmp, bytes, buffers, token, read, units, result>>

\* json_throw_parse_error, from wherever it is called.
json_throw_parse_error ==
    /\ pc = "have" /\ token.type \notin Accepted[where]
    /\ Freed("parse", NoValue)

\* json_process_value on anything but a table.
process_scalar ==
    /\ Have(ValuePlaces, Scalars)
    /\ value' = token.value
    /\ used' = used + 1
    /\ pc' = "pushed"
    /\ UNCHANGED <<refuse, text, index, tmp, bytes, buffers, where, token, frames, room, read,
                   units, result>>

\* Mutant: the object asks for the slots an array needs.
SlotsOfArray(type) == 2

\* "3 slots required: .., table, key, value", "2 slots required: .., table, value".
Slots(type) == IF type = "T_OBJ_BEGIN" THEN 3 ELSE 2

CheckStack(n) == used + n <= MaxSlots

\* json_decode_checkstack: "Too many nested data structures".
json_decode_checkstack ==
    /\ Have(ValuePlaces, {"T_OBJ_BEGIN", "T_ARR_BEGIN"})
    /\ ~CheckStack(Slots(token.type))
    /\ Freed("deep", NoValue)

Raised(n) == IF used + n > room THEN used + n ELSE room

\* The beginning of json_parse_object_context and json_parse_array_context.
process_table ==
    LET kind == IF token.type = "T_OBJ_BEGIN" THEN "object" ELSE "array"
    IN  /\ Have(ValuePlaces, {"T_OBJ_BEGIN", "T_ARR_BEGIN"})
        /\ CheckStack(Slots(token.type))
        /\ room' = Raised(Slots(token.type))
        /\ used' = used + 1
        /\ frames' = Append(frames, [kind |-> kind, key |-> <<>>,
                                     table |-> IF kind = "object" THEN {} ELSE <<>>])
        /\ Go(IF kind = "object" THEN "objfirst" ELSE "arrfirst")
        /\ UNCHANGED value

Top == frames[Len(frames)]

\* The key stays on the stack below the value.
parse_key ==
    /\ Have({"objfirst", "key"}, {"T_STRING"})
    /\ used' = used + 1
    /\ frames' = [frames EXCEPT ![Len(frames)].key = token.value[2]]
    /\ Go("colon")
    /\ UNCHANGED <<value, room>>

parse_colon ==
    /\ Have({"colon"}, {"T_COLON"})
    /\ Go("objvalue")
    /\ UNCHANGED <<frames, value, lua>>

parse_comma ==
    /\ Have({"objnext", "arrnext"}, {"T_COMMA"})
    /\ Go(IF where = "objnext" THEN "key" ELSE "arrvalue")
    /\ UNCHANGED <<frames, value, lua>>

\* The table is the value its context leaves on the stack.
parse_close ==
    /\ \/ Have({"objfirst", "objnext"}, {"T_OBJ_END"})
       \/ Have({"arrfirst", "arrnext"}, {"T_ARR_END"})
    /\ value' = <<Top.kind, Top.table>>
    /\ frames' = Front(frames)
    /\ pc' = "pushed"
    /\ UNCHANGED <<refuse, text, index, tmp, bytes, buffers, where, token, lua, read, units, result>>

\* lua_rawset: a key that is there already gets the new value.
Stored(table, key, v) == {e \in table : e[1] # key} \cup {<<key, v>>}

lua_rawset ==
    /\ pc = "pushed" /\ frames # <<>> /\ Top.kind = "object"
    /\ frames' = [frames EXCEPT ![Len(frames)].table = Stored(@, Top.key, value)]
    /\ used' = used - 2
    /\ value' = NoValue
    /\ Go("objnext")
    /\ UNCHANGED room

lua_rawseti ==
    /\ pc = "pushed" /\ frames # <<>> /\ Top.kind = "array"
    /\ frames' = [frames EXCEPT ![Len(frames)].table = Append(@, value)]
    /\ used' = used - 1
    /\ value' = NoValue
    /\ Go("arrnext")
    /\ UNCHANGED room

\* "Ensure there is no more input left".
process_done ==
    /\ pc = "pushed" /\ frames = <<>>
    /\ Go("end")
    /\ UNCHANGED <<frames, value, lua>>

decode_return == Have({"end"}, {"T_END"}) /\ Freed("ok", value)

\* Lua has no memory for a string or a table: the error leaves the buffer behind.
lua_nomem ==
    /\ leaked < MaxLeaks
    /\ \/ Have(ValuePlaces, {"T_STRING", "T_OBJ_BEGIN", "T_ARR_BEGIN"})
       \/ Have({"objfirst", "key"}, {"T_STRING"})
       \/ pc = "pushed" /\ frames # <<>>
    /\ Ended("nomem", NoValue)
    /\ tmp' = strbuf_free(tmp)
    /\ leaked' = leaked + 1
    /\ UNCHANGED live

-----------------------------------------------------------------------------
json_next_token ==
    \/ next_mark \/ next_word \/ next_number \/ next_bad_number \/ next_invalid \/ next_end \/ next_string
    \/ string_char \/ string_escape \/ string_bad_escape \/ string_unicode
    \/ string_bad_unicode \/ string_unended \/ string_end

Parse ==
    \/ process_scalar \/ process_table \/ json_decode_checkstack
    \/ parse_key \/ parse_colon \/ parse_comma \/ parse_close
    \/ lua_rawset \/ lua_rawseti \/ process_done \/ decode_return
    \/ json_throw_parse_error \/ lua_nomem

Next ==
    \/ \E t \in Texts : lua_json_decode(t)
    \/ \E on \in BOOLEAN : json_cfg_refuse_invalid_numbers(on)
    \/ json_next_token
    \/ Parse

Spec == Init /\ [][Next]_vars

-----------------------------------------------------------------------------
TypeOK ==
    /\ refuse \in BOOLEAN
    /\ text \in [len : Nat, tokens : Nat]
    /\ index \in Nat
    /\ tmp \in Buffer /\ bytes \in Seq(0 .. 255)
    /\ live \in Nat /\ leaked \in Nat
    /\ pc \in {"idle", "next", "string", "have", "pushed"}
    /\ pc # "idle" => where \in DOMAIN Accepted
    /\ used \in Nat /\ room \in Nat

\* The buffer for strings is sized once, by the length of the text, and its bytes are
\* appended without a test (lua_cjson.c lines 1238-1241): they never exceed the bytes of
\* the text read so far, whatever the escapes, the NULs and the text.
TmpFits ==
    pc # "idle" =>
        /\ tmp.allocated
        /\ tmp.length <= index
        /\ index <= text.len
        /\ text.len + 1 <= tmp.size
        /\ InBounds(tmp)

\* A call frees its buffer however it ends, in whatever place of the text and of the
\* nesting; the comment at lua_cjson.c lines 1082-1087 tells what this relies on.  The
\* errors of Lua itself leave it behind.
TmpFreed == live = leaked + (IF pc = "idle" THEN 0 ELSE 1)

\* No value is pushed onto a slot of the Lua stack that was not asked for, however deep
\* arrays and objects are nested.
StackReserved == used <= room
=============================================================================
