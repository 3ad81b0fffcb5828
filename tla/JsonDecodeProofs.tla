-------------------------- MODULE JsonDecodeProofs --------------------------
(***************************************************************************)
(* JsonDecode, proved for texts, strings and nestings of any size and any  *)
(* limit of the Lua stack.                                                 *)
(*                                                                         *)
(* The two safety arguments do not meet: that the buffer for strings needs *)
(* no length checks (TmpInv) follows the index, and that the Lua stack has *)
(* a slot for every value pushed (StackInv) follows the place in the text. *)
(***************************************************************************)
EXTENDS JsonDecode, StrBufProofs

-----------------------------------------------------------------------------
\* The buffer.

TmpType ==
    /\ text \in [len : Nat, tokens : Nat]
    /\ index \in Nat
    /\ tmp \in Buffer
    /\ live \in Nat /\ leaked \in Nat

TmpInv == TmpType /\ TmpFits /\ TmpFreed

tmpVars == <<text, index, tmp, live, leaked, pc>>

\* What reading a token does to the buffer, for every branch of json_next_token but those
\* that unescape: the index goes on inside the text.
ReadsOn ==
    /\ pc # "idle" /\ pc' # "idle"
    /\ index' \in index .. text.len
    /\ tmp' \in {tmp, strbuf_reset(tmp)}
    /\ UNCHANGED <<text, live, leaked>>

LEMMA InitTmp == Init => TmpInv
BY InitBuffer, FreeBuffer DEF Init, TmpInv, TmpType, TmpFits, TmpFreed, NoText

LEMMA ReadsOnTmp ==
    ASSUME TmpInv, ReadsOn
    PROVE  TmpInv'
<1> USE DEF TmpInv
<1>1. tmp \in Buffer /\ index \in Nat /\ index' \in Nat /\ index <= index' /\ index' <= text.len
      /\ tmp.length \in Nat /\ tmp.size \in Nat
  BY BufferFields DEF TmpType, ReadsOn
<1>2. /\ tmp' \in Buffer /\ tmp'.length <= index /\ tmp'.size = tmp.size /\ tmp'.allocated
      /\ tmp'.length \in Nat
  <2>1. CASE tmp' = tmp
    BY <1>1, <2>1 DEF ReadsOn, TmpFits
  <2>2. CASE tmp' = strbuf_reset(tmp)
    BY <1>1, <2>2, ResetBuffer DEF ReadsOn, TmpFits
  <2> QED  BY <2>1, <2>2 DEF ReadsOn
<1>3. TmpType'
  BY <1>1, <1>2 DEF TmpType, ReadsOn
<1>4. TmpFits'
  BY <1>1, <1>2 DEF TmpType, TmpFits, InBounds, ReadsOn
<1>5. TmpFreed'
  BY DEF TmpFreed, ReadsOn
<1> QED  BY <1>3, <1>4, <1>5

LEMMA StutterTmp ==
    ASSUME TmpInv, UNCHANGED tmpVars
    PROVE  TmpInv'
BY DEF TmpInv, TmpType, TmpFits, TmpFreed, tmpVars, InBounds

\* A token is consumed by the parser: nothing is read.
LEMMA ParsesOnTmp ==
    ASSUME TmpInv, pc # "idle", pc' # "idle", UNCHANGED <<text, index, tmp, live, leaked>>
    PROVE  TmpInv'
BY DEF TmpInv, TmpType, TmpFits, TmpFreed, InBounds

LEMMA StartTmp ==
    ASSUME TmpInv, NEW t \in Texts, lua_json_decode(t)
    PROVE  TmpInv'
<1>1. t \in [len : Nat, tokens : Nat]
  BY DecodeAssumption
<1>2. /\ text' = t /\ index' = 0 /\ tmp' = strbuf_init(t.len)
      /\ live' = live + 1 /\ leaked' = leaked
      /\ pc = "idle" /\ pc' = "next"
  BY DEF lua_json_decode
<1>3. tmp' \in Buffer /\ t.len + 1 <= tmp'.size /\ tmp'.length = 0 /\ tmp'.allocated
  BY <1>1, <1>2, InitBuffer
<1>4. t.len \in Nat /\ tmp'.size \in Nat
  BY <1>1, <1>3, BufferFields
<1>5. TmpType'
  BY <1>1, <1>2, <1>3 DEF TmpInv, TmpType
<1>6. TmpFits'
  BY <1>2, <1>3, <1>4 DEF TmpFits, InBounds
<1>7. TmpFreed'
  BY <1>2 DEF TmpInv, TmpType, TmpFreed
<1> QED  BY <1>5, <1>6, <1>7 DEF TmpInv

\* The end of a call, by return or by error.
LEMMA FreedTmp ==
    ASSUME TmpInv, pc # "idle", NEW how, NEW v, Freed(how, v)
    PROVE  TmpInv'
<1>1. /\ text' = NoText /\ index' = 0 /\ tmp' = strbuf_free(tmp)
      /\ live' = live - 1 /\ leaked' = leaked /\ pc' = "idle"
  BY DEF Freed, Ended
<1>2. live = leaked + 1
  BY DEF TmpInv, TmpFreed
<1>3. tmp' \in Buffer
  BY <1>1, FreeBuffer DEF TmpInv, TmpType
<1> QED
  BY <1>1, <1>2, <1>3 DEF TmpInv, TmpType, TmpFits, TmpFreed, NoText

LEMMA NoMemTmp ==
    ASSUME TmpInv, lua_nomem
    PROVE  TmpInv'
<1>1. /\ pc # "idle" /\ text' = NoText /\ index' = 0 /\ tmp' = strbuf_free(tmp)
      /\ live' = live /\ leaked' = leaked + 1 /\ pc' = "idle"
  BY DEF lua_nomem, Ended, Have
<1>2. tmp' \in Buffer
  BY <1>1, FreeBuffer DEF TmpInv, TmpType
<1> QED
  BY <1>1, <1>2 DEF TmpInv, TmpType, TmpFits, TmpFreed, NoText

\* A code point takes at most four bytes, fewer than any escape.
LEMMA ContinuedLen ==
    ASSUME NEW code, NEW n \in Nat
    PROVE  \E S : Continued(code, n) \in Seq(S) /\ Len(Continued(code, n)) = n
<1> DEFINE S == {Continued(code, n)[i] : i \in 1 .. n}
<1>1. Continued(code, n) \in [1 .. n -> S]
  BY DEF Continued
<1>2. Continued(code, n) \in Seq(S) /\ Len(Continued(code, n)) = n
  BY <1>1
<1> QED  BY <1>2

LEMMA Utf8Len ==
    ASSUME NEW code
    PROVE  Len(codepoint_to_utf8(code)) \in 1 .. 4
<1>1. ASSUME NEW n \in 1 .. 3, NEW first
      PROVE  Len(<<first>> \o Continued(code, n)) = n + 1
  <2>1. PICK S : Continued(code, n) \in Seq(S) /\ Len(Continued(code, n)) = n
    BY ContinuedLen
  <2>2. <<first>> \in Seq({first}) /\ Len(<<first>>) = 1
    OBVIOUS
  <2>3. /\ <<first>> \in Seq(S \cup {first})
        /\ Continued(code, n) \in Seq(S \cup {first})
    BY <2>1, <2>2
  <2> QED  BY <2>1, <2>2, <2>3
<1> QED  BY <1>1 DEF codepoint_to_utf8

\* An escape, or a character, is unescaped into no more bytes than were read.
LEMMA UnescapedTmp ==
    ASSUME TmpInv, pc = "string", NEW width \in Nat, Took(width), NEW b, NEW u,
           Len(b) \in 0 .. width, Unescaped(b, u)
    PROVE  TmpInv'
<1>1. /\ index + width <= text.len /\ index' = index + width
      /\ tmp' = Advanced(tmp, Len(b))
      /\ UNCHANGED <<text, live, leaked, pc>>
  BY DEF Took, Unescaped, buffers
<1>2. tmp' \in Buffer /\ tmp'.length = tmp.length + Len(b) /\ tmp'.size = tmp.size
      /\ tmp'.allocated = tmp.allocated
  <2>1. tmp \in Buffer /\ Len(b) \in Nat
    BY DEF TmpInv, TmpType
  <2> QED  BY <1>1, <2>1, AdvanceBuffer
<1>3. tmp.length \in Nat /\ tmp.size \in Nat /\ index \in Nat /\ text.len \in Nat
  BY BufferFields DEF TmpInv, TmpType
<1> QED  BY <1>1, <1>2, <1>3 DEF TmpInv, TmpType, TmpFits, TmpFreed, InBounds

\* Whichever of the two tokens a number is, it has been read.
LEMMA NumberRead ==
    ASSUME next_number
    PROVE  pc = "next" /\ pc' = "have"
<1>1. pc = "next" /\ \E number \in Int, integer \in Int : NumberToken(number, integer)
  <2>1. PICK n \in Numbers : \E integer \in Cast(Value[n]) : NumberToken(Value[n], integer)
    BY DEF next_number
  <2>2. PICK integer \in Cast(Value[n]) : NumberToken(Value[n], integer)
    BY <2>1
  <2>3. Value[n] \in Int /\ Cast(Value[n]) \subseteq Int
    BY DecodeAssumption, Z3 DEF Cast, Truncated
  <2> QED  BY <2>2, <2>3 DEF next_number, Reading
<1> QED  BY <1>1 DEF NumberToken, Got

LEMMA NextTokenTmp ==
    ASSUME TmpInv, json_next_token
    PROVE  TmpInv'
<1> USE DEF Reading, InString, Got, Took, StringError, buffers
<1>0. index \in Nat /\ text.len \in Nat /\ Gaps \subseteq Nat /\ (pc # "idle" => index <= text.len)
  BY DecodeAssumption DEF TmpInv, TmpType, TmpFits
<1>1. CASE next_mark
  BY <1>0, <1>1, ReadsOnTmp DEF next_mark, ReadsOn
<1>2. CASE next_word
  <2>1. PICK word \in {"true", "false", "null"}, gap \in Gaps :
          Took(gap + (IF word = "false" THEN 5 ELSE 4))
    BY <1>2 DEF next_word
  <2> QED  BY <1>0, <1>2, <2>1, ReadsOnTmp DEF next_word, ReadsOn
<1>3. CASE next_number
  <2>1. PICK n \in Numbers, gap \in Gaps : Took(gap + Bytes[n])
    BY <1>3 DEF next_number
  <2>2. Bytes[n] \in Nat
    BY DecodeAssumption
  <2>3. pc # "idle" /\ pc' # "idle"
    BY <1>3, NumberRead
  <2>4. UNCHANGED <<tmp, text, live, leaked>>
    BY <1>3 DEF next_number
  <2>5. index' \in index .. text.len
    <3>1. gap \in Nat
      BY <1>0
    <3> QED  BY <1>0, <2>1, <2>2, <3>1
  <2> QED  BY <2>3, <2>4, <2>5, ReadsOnTmp DEF ReadsOn
<1>4. CASE next_bad_number
  BY <1>0, <1>4, ReadsOnTmp DEF next_bad_number, ReadsOn
<1>5. CASE next_invalid
  <2>1. PICK gap \in Gaps : Took(gap)
    BY <1>5 DEF next_invalid
  <2>2. index' \in index .. text.len
    BY <1>0, <2>1
  <2> QED  BY <1>5, <2>2, ReadsOnTmp DEF next_invalid, ReadsOn
<1>6. CASE next_end
  BY <1>0, <1>6, ReadsOnTmp DEF next_end, ReadsOn
<1>7. CASE next_string
  BY <1>0, <1>7, ReadsOnTmp DEF next_string, ReadsOn
<1>8. CASE string_char
  <2>1. PICK c \in Plain : Unescaped(<<c>>, <<c>>)
    BY <1>8 DEF string_char
  <2>2. pc = "string" /\ Took(1)
    BY <1>8 DEF string_char
  <2>3. Len(<<c>>) \in 0 .. 1
    OBVIOUS
  <2> QED  BY <2>1, <2>2, <2>3, UnescapedTmp
<1>9. CASE string_escape
  <2>1. PICK c \in Escaped : Unescaped(<<c>>, <<c>>)
    BY <1>9 DEF string_escape
  <2>2. pc = "string" /\ Took(2)
    BY <1>9 DEF string_escape
  <2>3. Len(<<c>>) \in 0 .. 2
    OBVIOUS
  <2> QED  BY <2>1, <2>2, <2>3, UnescapedTmp
<1>10. CASE string_unicode
  <2>1. PICK first \in CodeUnits, second \in CodeUnits \cup {NoEscape} :
          /\ Took(EscapeLen(first))
          /\ Unescaped(codepoint_to_utf8(CodePoint(first, second)),
                       IF IsSurrogate(first) THEN <<first, second>> ELSE <<first>>)
    BY <1>10 DEF string_unicode
  <2>2. EscapeLen(first) \in {6, 12}
    BY DEF EscapeLen
  <2>3. pc = "string"
    BY <1>10 DEF string_unicode
  <2>4. Len(codepoint_to_utf8(CodePoint(first, second))) \in 1 .. 4
    BY Utf8Len
  <2>5. Len(codepoint_to_utf8(CodePoint(first, second))) \in 0 .. EscapeLen(first)
    <3> DEFINE n == Len(codepoint_to_utf8(CodePoint(first, second)))
    <3>1. n \in 1 .. 4
      BY <2>4
    <3> HIDE DEF n
    <3>2. n \in 0 .. EscapeLen(first)
      BY <2>2, <3>1
    <3> QED  BY <3>2 DEF n
  <2> QED  BY <2>1, <2>2, <2>3, <2>5, UnescapedTmp
<1>11. CASE string_bad_escape \/ string_bad_unicode \/ string_unended
  <2>1. /\ pc = "string" /\ pc' = "have" /\ UNCHANGED <<text, index, tmp, live, leaked>>
    BY <1>11 DEF string_bad_escape, string_bad_unicode, string_unended
  <2> QED  BY <1>0, <2>1, ReadsOnTmp DEF ReadsOn
<1>12. CASE string_end
  BY <1>0, <1>12, ReadsOnTmp DEF string_end, ReadsOn
<1> QED
  BY <1>1, <1>2, <1>3, <1>4, <1>5, <1>6, <1>7, <1>8, <1>9, <1>10, <1>11, <1>12
  DEF json_next_token

LEMMA ParseTmp ==
    ASSUME TmpInv, Parse
    PROVE  TmpInv'
<1> USE DEF Have, Go, buffers
<1>1. CASE process_scalar \/ process_table \/ parse_key \/ parse_colon \/ parse_comma
  BY <1>1, ParsesOnTmp DEF process_scalar, process_table, parse_key, parse_colon, parse_comma
<1>2. CASE parse_close \/ lua_rawset \/ lua_rawseti \/ process_done
  BY <1>2, ParsesOnTmp DEF parse_close, lua_rawset, lua_rawseti, process_done
<1>3. CASE json_decode_checkstack \/ decode_return \/ json_throw_parse_error
  BY <1>3, FreedTmp DEF json_decode_checkstack, decode_return, json_throw_parse_error
<1> QED  BY <1>1, <1>2, <1>3, NoMemTmp DEF Parse

LEMMA NextTmp == TmpInv /\ [Next]_vars => TmpInv'
<1>1. ASSUME TmpInv, NEW on \in BOOLEAN, json_cfg_refuse_invalid_numbers(on)
      PROVE  TmpInv'
  BY <1>1, StutterTmp DEF json_cfg_refuse_invalid_numbers, tmpVars
<1>2. ASSUME TmpInv, UNCHANGED vars
      PROVE  TmpInv'
  BY <1>2, StutterTmp DEF vars, tmpVars, buffers
<1> QED  BY <1>1, <1>2, StartTmp, NextTokenTmp, ParseTmp DEF Next

\* The buffer that is sized once by the length of the text holds every string in it,
\* whatever its escapes.
THEOREM TmpHoldsStrings == Spec => []TmpFits
<1>1. TmpInv => TmpFits
  BY DEF TmpInv
<1> QED  BY <1>1, InitTmp, NextTmp, PTL DEF Spec

\* The buffer is freed however the call ends, but where a memory error of Lua jumps out.
THEOREM TmpIsFreed == Spec => []TmpFreed
<1>1. TmpInv => TmpFreed
  BY DEF TmpInv
<1> QED  BY <1>1, InitTmp, NextTmp, PTL DEF Spec

-----------------------------------------------------------------------------
\* The Lua stack.

\* The slots that are pushed onto before the next one is asked for or given back.
ToPush ==
    IF pc \in {"idle", "pushed"} \/ where = "end" THEN 0
    ELSE IF where \in {"objfirst", "key", "objnext"} THEN 2
    ELSE 1

\* StackReserved alone does not know that a key is pushed before its value.
StackInv == used \in Int /\ room \in Int /\ used + ToPush <= room

stackVars == <<used, room, where>>

LEMMA InitStack == Init => StackInv
BY DEF Init, StackInv, ToPush

\* A token is read.
LEMMA ReadStack ==
    ASSUME StackInv, pc \in {"next", "string"}, pc' \in {"next", "string", "have"},
           UNCHANGED stackVars
    PROVE  StackInv'
BY DEF StackInv, ToPush, stackVars

LEMMA NextTokenStack ==
    ASSUME StackInv, json_next_token
    PROVE  StackInv'
<1> USE DEF lua, Got, stackVars
<1>1. CASE next_mark \/ next_word \/ next_number \/ next_bad_number \/ next_invalid
  BY <1>1, ReadStack, NumberRead
  DEF next_mark, next_word, next_number, next_bad_number, next_invalid, Reading
<1>2. CASE next_end \/ next_string \/ string_end
  BY <1>2, ReadStack DEF next_end, next_string, string_end, Reading
<1>3. CASE string_char \/ string_escape \/ string_unicode
  BY <1>3, ReadStack DEF string_char, string_escape, string_unicode, InString, Unescaped
<1>4. CASE string_bad_escape \/ string_bad_unicode \/ string_unended
  BY <1>4, ReadStack
  DEF string_bad_escape, string_bad_unicode, string_unended, InString, StringError
<1> QED  BY <1>1, <1>2, <1>3, <1>4 DEF json_next_token

LEMMA EndedStack ==
    ASSUME NEW how, NEW v, Ended(how, v)
    PROVE  StackInv'
BY DEF Ended, StackInv, ToPush

LEMMA ParseStack ==
    ASSUME StackInv, Parse
    PROVE  StackInv'
<1> USE DEF Have, Go, lua, StackInv, ToPush
<1>1. CASE process_scalar
  BY <1>1 DEF process_scalar, ValuePlaces
<1>2. CASE process_table
  <2>1. PICK n \in {2, 3} :
          /\ n = Slots(token.type)
          /\ room' = Raised(n) /\ used' = used + 1 /\ pc' = "next"
          /\ where' = IF n = 3 THEN "objfirst" ELSE "arrfirst"
    BY <1>2 DEF process_table, Slots
  <2>2. room' \in Int /\ used + n <= room'
    BY <2>1 DEF Raised
  <2> QED  BY <2>1, <2>2
<1>3. CASE parse_key
  BY <1>3 DEF parse_key
<1>4. CASE parse_colon
  BY <1>4 DEF parse_colon
<1>5. CASE parse_comma
  BY <1>5 DEF parse_comma
<1>6. CASE parse_close
  BY <1>6 DEF parse_close
<1>7. CASE lua_rawset
  BY <1>7 DEF lua_rawset
<1>8. CASE lua_rawseti
  BY <1>8 DEF lua_rawseti
<1>9. CASE process_done
  BY <1>9 DEF process_done
<1>10. CASE json_decode_checkstack \/ decode_return \/ json_throw_parse_error \/ lua_nomem
  BY <1>10, EndedStack
  DEF json_decode_checkstack, decode_return, json_throw_parse_error, lua_nomem, Freed
<1> QED
  BY <1>1, <1>2, <1>3, <1>4, <1>5, <1>6, <1>7, <1>8, <1>9, <1>10 DEF Parse

LEMMA NextStack == StackInv /\ [Next]_vars => StackInv'
<1>1. ASSUME StackInv, NEW t \in Texts, lua_json_decode(t)
      PROVE  StackInv'
  BY <1>1, DecodeAssumption DEF lua_json_decode, StackInv, ToPush
<1>2. ASSUME StackInv, NEW on \in BOOLEAN, json_cfg_refuse_invalid_numbers(on)
      PROVE  StackInv'
  BY <1>2 DEF json_cfg_refuse_invalid_numbers, StackInv, ToPush
<1>3. ASSUME StackInv, UNCHANGED vars
      PROVE  StackInv'
  BY <1>3 DEF vars, lua, StackInv, ToPush
<1> QED  BY <1>1, <1>2, <1>3, NextTokenStack, ParseStack DEF Next

\* No value is pushed onto a slot of the Lua stack that was not asked for, whatever the
\* nesting and the slots lua_checkstack can give.
THEOREM StackAlwaysReserved == Spec => []StackReserved
<1>1. StackInv => StackReserved
  BY DEF StackInv, ToPush, StackReserved
<1> QED  BY <1>1, InitStack, NextStack, PTL DEF Spec
=============================================================================
