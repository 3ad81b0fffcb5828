-------------------------- MODULE JsonEncodeProofs --------------------------
(***************************************************************************)
(* JsonEncode, proved for any graph of Lua values, any strings and any     *)
(* sequence of calls.                                                      *)
(*                                                                         *)
(* BufferFits and OneBuffer are inductive together with BufType, once it   *)
(* is known that what is appended is a value and that a number's text is   *)
(* short: ControlInv follows the value on top of the Lua stack and the one *)
(* lua_next left below the key.                                            *)
(***************************************************************************)
EXTENDS JsonEncode, StrBufProofs

BufType == buf \in Buffer /\ live \in Nat /\ str \in Seq(Chars)

BufInv == BufType /\ BufferFits /\ OneBuffer

Lengths == {MaxIndex(table) : table \in Values} \cup {0}

FrameShape == [kind : {"array", "object"}, table : Values, i : Nat,
               n : Lengths, left : SUBSET (Values \X Values), value : Values \cup {NoValue}]

KeyPlaces == {"key", "keystring", "keynumber", "keyend"}

ControlInv ==
    /\ frames \in Seq(FrameShape)
    /\ pc \in KeyPlaces \cup {"data", "string"} => todo \in Values
    /\ pc \in KeyPlaces => frames # <<>> /\ Top.value \in Values
    /\ pc = "keynumber" => TypeOf[todo] \in NumberTypes

EncodeInv == BufInv /\ ControlInv

LEMMA InitEncode == Init => EncodeInv
BY InitBuffer
DEF Init, EncodeInv, BufInv, BufType, BufferFits, OneBuffer, ControlInv, KeyPlaces

-----------------------------------------------------------------------------
\* The buffer.

LEMMA ResizeBuf ==
    ASSUME BufInv, pc # "idle", strbuf_resize
    PROVE  BufInv'
<1>1. /\ buf' = Doubled(buf) /\ UNCHANGED <<live, pc, str>>
  BY DEF strbuf_resize
<1>2. /\ buf \in Buffer /\ buf' \in Buffer
      /\ buf'.length = buf.length /\ buf'.size >= buf.size /\ buf'.allocated = buf.allocated
  BY <1>1, DoubleBuffer DEF BufInv, BufType
<1>3. Reserved \in Nat /\ Reserved' = Reserved
  BY <1>1 DEF BufInv, BufType, Reserved
<1>4. InBounds(Advanced(buf, Reserved))
  BY DEF BufInv, BufferFits
<1>5. InBounds(Advanced(buf', Reserved))
  <2>1. buf.length + Reserved + 1 <= buf.size
    BY <1>2, <1>3, <1>4, AdvanceFits
  <2>2. buf'.length + Reserved + 1 <= buf'.size
    BY <1>2, <1>3, <2>1, BufferFields
  <2> QED  BY <1>2, <1>3, <2>2, AdvanceFits
<1> QED  BY <1>1, <1>2, <1>3, <1>5 DEF BufInv, BufType, BufferFits, OneBuffer

\* What is not longer than the room that was made for it is appended, and nothing untested
\* is to follow.
LEMMA AppendBuf ==
    ASSUME BufInv, pc # "idle", NEW room \in Nat, HasRoom(buf, room),
           NEW len \in 0 .. room, buf' = Advanced(buf, len),
           pc' \notin {"idle", "string", "keystring"}, UNCHANGED <<live, str>>
    PROVE  BufInv'
<1>1. /\ buf \in Buffer /\ buf' \in Buffer
      /\ buf'.length = buf.length + len /\ buf'.size = buf.size /\ buf'.allocated = buf.allocated
  <2>1. buf \in Buffer /\ len \in Nat
    BY DEF BufInv, BufType
  <2> QED  BY <2>1, AdvanceBuffer
<1>2. buf.length + room + 1 <= buf.size
  BY <1>1, RoomFits
<1>3. Reserved' = 0
  BY DEF Reserved
<1>4. InBounds(Advanced(buf', 0))
  <2>1. buf'.length + 0 + 1 <= buf'.size
    BY <1>1, <1>2, BufferFields
  <2> QED  BY <1>1, <2>1, AdvanceFits
<1> QED  BY <1>1, <1>3, <1>4 DEF BufInv, BufType, BufferFits, OneBuffer

LEMMA EndBuf ==
    ASSUME BufInv, pc # "idle", NEW how, End(how)
    PROVE  BufInv'
<1>1. buf \in Buffer /\ buf.allocated /\ live = 1
  BY DEF BufInv, BufType, BufferFits, OneBuffer
<1>2. pc' = "idle" /\ str' = <<>>
  BY DEF End
<1>3. CASE cfg.keep
  BY <1>1, <1>2, <1>3 DEF End, Released, BufInv, BufType, BufferFits, OneBuffer
<1>4. CASE ~cfg.keep
  BY <1>1, <1>2, <1>4, FreeBuffer
  DEF End, Released, BufInv, BufType, BufferFits, OneBuffer
<1> QED  BY <1>3, <1>4

\* A string: the worst case is asked for once, before the opening quote.
LEMMA StringBuf ==
    ASSUME BufInv, pc # "idle", todo \in Values, NEW next, next \in {"string", "keystring"},
           HasRoom(buf, WorstCase(Text[todo])), buf' = Advanced(buf, 1),
           str' = Text[todo], pc' = next, UNCHANGED live
    PROVE  BufInv'
<1> DEFINE n == Len(Text[todo])
<1>1. Text[todo] \in Seq(Chars) /\ n \in Nat
  BY EncodeAssumption
<1>2. /\ buf \in Buffer /\ buf' \in Buffer
      /\ buf'.length = buf.length + 1 /\ buf'.size = buf.size /\ buf'.allocated = buf.allocated
  BY AdvanceBuffer DEF BufInv, BufType
<1>3. HasRoom(buf, 6 * n + 2) /\ 6 * n + 2 \in Nat
  BY <1>1 DEF WorstCase
<1> HIDE DEF n
<1>4. buf.length + (6 * n + 2) + 1 <= buf.size
  BY <1>2, <1>3, RoomFits
<1>5. Reserved' = 6 * n + 1
  BY DEF Reserved, n
<1>6. InBounds(Advanced(buf', 6 * n + 1))
  <2>1. 6 * n + 1 \in Nat
    BY <1>1
  <2>2. buf'.length + (6 * n + 1) + 1 <= buf'.size
    BY <1>1, <1>2, <1>4, BufferFields
  <2> QED  BY <1>2, <2>1, <2>2, AdvanceFits
<1> QED  BY <1>1, <1>2, <1>5, <1>6 DEF BufInv, BufType, BufferFits, OneBuffer

LEMMA CharBuf ==
    ASSUME BufInv, pc \in {"string", "keystring"}, str # <<>>,
           buf' = Advanced(buf, Width[Head(str)]), str' = Tail(str), UNCHANGED <<pc, live>>
    PROVE  BufInv'
<1> DEFINE w == Width[Head(str)]
           n == Len(str)
<1>1. /\ str \in Seq(Chars) /\ Head(str) \in Chars /\ str' \in Seq(Chars)
      /\ n \in Nat \ {0} /\ Len(str') = n - 1
  BY DEF BufInv, BufType
<1>2. w \in 1 .. 6
  BY <1>1, EncodeAssumption
<1> HIDE DEF w
<1>3. /\ buf \in Buffer /\ buf' \in Buffer
      /\ buf'.length = buf.length + w /\ buf'.size = buf.size /\ buf'.allocated = buf.allocated
  <2>1. buf \in Buffer /\ w \in Nat /\ buf' = Advanced(buf, w)
    BY <1>2 DEF BufInv, BufType, w
  <2> QED  BY <2>1, AdvanceBuffer
<1>4. InBounds(Advanced(buf, 6 * n + 1))
  BY DEF BufInv, BufferFits, Reserved
<1>5. Reserved' = 6 * (n - 1) + 1
  BY <1>1 DEF Reserved
<1> HIDE DEF n
<1>6. InBounds(Advanced(buf', 6 * (n - 1) + 1))
  <2>1. 6 * n + 1 \in Nat /\ 6 * (n - 1) + 1 \in Nat
    BY <1>1
  <2>2. buf.length + (6 * n + 1) + 1 <= buf.size
    BY <1>3, <1>4, <2>1, AdvanceFits
  <2>3. buf'.length + (6 * (n - 1) + 1) + 1 <= buf'.size
    BY <1>1, <1>2, <1>3, <2>2, BufferFields
  <2> QED  BY <1>3, <2>1, <2>3, AdvanceFits
<1> QED  BY <1>1, <1>3, <1>5, <1>6 DEF BufInv, BufType, BufferFits, OneBuffer

\* The closing quote takes the last byte that was set aside.
LEMMA QuoteBuf ==
    ASSUME BufInv, pc \in {"string", "keystring"}, str = <<>>, buf' = Advanced(buf, 1),
           pc' \in {"next", "keyend"}, UNCHANGED <<str, live>>
    PROVE  BufInv'
<1>1. /\ buf \in Buffer /\ buf' \in Buffer
      /\ buf'.length = buf.length + 1 /\ buf'.size = buf.size /\ buf'.allocated = buf.allocated
  BY AdvanceBuffer DEF BufInv, BufType
<1>2. InBounds(Advanced(buf, 1))
  BY DEF BufInv, BufferFits, Reserved
<1>3. Reserved' = 0
  BY DEF Reserved
<1>4. InBounds(Advanced(buf', 0))
  <2>1. buf.length + 1 + 1 <= buf.size
    BY <1>1, <1>2, AdvanceFits
  <2>2. buf'.length + 0 + 1 <= buf'.size
    BY <1>1, <2>1, BufferFields
  <2> QED  BY <1>1, <2>2, AdvanceFits
<1> QED  BY <1>1, <1>3, <1>4 DEF BufInv, BufType, BufferFits, OneBuffer

-----------------------------------------------------------------------------
\* The steps of a call, and what they do to the buffer and to the frames.

LEMMA ResizeStep ==
    ASSUME EncodeInv, pc # "idle", strbuf_resize
    PROVE  EncodeInv'
BY ResizeBuf DEF EncodeInv, ControlInv, strbuf_resize, Top

LEMMA EndStep ==
    ASSUME EncodeInv, pc # "idle", NEW how, End(how)
    PROVE  EncodeInv'
BY EndBuf DEF EncodeInv, ControlInv, End, KeyPlaces

LEMMA TopFrame ==
    ASSUME frames \in Seq(FrameShape), frames # <<>>
    PROVE  Top \in FrameShape /\ Outer \in Seq(FrameShape) /\ Len(frames) \in Nat \ {0}
BY DEF Top, Outer

\* json_append_string, for a value and for a key.
LEMMA StringStep ==
    ASSUME EncodeInv, NEW next, json_append_string(next),
           \/ pc = "data" /\ next = "string"
           \/ pc = "key" /\ next = "keystring"
    PROVE  EncodeInv'
<1>1. CASE strbuf_resize
  BY <1>1, ResizeStep
<1>2. CASE ~strbuf_resize
  <2>1. /\ HasRoom(buf, WorstCase(Text[todo])) /\ buf' = Advanced(buf, 1)
        /\ str' = Text[todo] /\ pc' = next /\ UNCHANGED <<live, frames, todo>>
    BY <1>2 DEF json_append_string, WithRoom, Write
  <2>2. todo \in Values
    BY DEF EncodeInv, ControlInv, KeyPlaces
  <2>3. BufInv'
    BY <2>1, <2>2, StringBuf DEF EncodeInv
  <2>4. ControlInv'
    BY <2>1 DEF EncodeInv, ControlInv, KeyPlaces, Top
  <2> QED  BY <2>3, <2>4 DEF EncodeInv
<1> QED  BY <1>1, <1>2

LEMMA CharStep ==
    ASSUME EncodeInv, json_append_string_char
    PROVE  EncodeInv'
<1>1. CASE strbuf_resize
  BY <1>1, ResizeStep DEF json_append_string_char
<1>2. CASE ~strbuf_resize
  <2>1. /\ pc \in {"string", "keystring"} /\ str # <<>>
        /\ buf' = Advanced(buf, Width[Head(str)]) /\ str' = Tail(str)
        /\ UNCHANGED <<pc, live, frames, todo>>
    BY <1>2 DEF json_append_string_char, WithRoom, Write
  <2>2. BufInv'
    BY <2>1, CharBuf DEF EncodeInv
  <2>3. ControlInv'
    BY <2>1 DEF EncodeInv, ControlInv, Top
  <2> QED  BY <2>2, <2>3 DEF EncodeInv
<1> QED  BY <1>1, <1>2

LEMMA QuoteStep ==
    ASSUME EncodeInv, json_append_string_end
    PROVE  EncodeInv'
<1>1. /\ pc \in {"string", "keystring"} /\ str = <<>> /\ buf' = Advanced(buf, 1)
      /\ pc' = IF pc = "string" THEN "next" ELSE "keyend"
      /\ UNCHANGED <<str, live, frames, todo>>
  BY DEF json_append_string_end, Write
<1>2. BufInv'
  BY <1>1, QuoteBuf DEF EncodeInv
<1>3. ControlInv'
  BY <1>1 DEF EncodeInv, ControlInv, KeyPlaces, Top
<1> QED  BY <1>2, <1>3 DEF EncodeInv

\* json_append_number, for a value and for a key: a number takes less than the room.
LEMMA NumberStep ==
    ASSUME EncodeInv, NEW next, NEW tokens, json_append_number(next, tokens),
           TypeOf[todo] \in NumberTypes,
           \/ pc = "data" /\ next = "next"
           \/ pc = "keynumber" /\ next = "keyend"
    PROVE  EncodeInv'
<1>1. CASE strbuf_resize
  BY <1>1, ResizeStep
<1>2. CASE json_encode_exception
  BY <1>2, EndStep DEF json_encode_exception
<1>3. CASE ~strbuf_resize /\ ~json_encode_exception
  <2>1. /\ HasRoom(buf, 32) /\ buf' = Advanced(buf, Len(Text[todo]))
        /\ pc' = next /\ UNCHANGED <<str, live, frames, todo>>
    BY <1>3 DEF json_append_number, WithRoom, Write
  <2>2. todo \in Values
    BY DEF EncodeInv, ControlInv, KeyPlaces
  <2>3. Len(Text[todo]) \in 0 .. 32
    <3> DEFINE n == Len(Text[todo])
    <3>1. n \in Nat /\ n < 32
      BY <2>2, EncodeAssumption
    <3> HIDE DEF n
    <3>2. n \in 0 .. 32
      BY <3>1
    <3> QED  BY <3>2 DEF n
  <2>4. BufInv'
    BY <2>1, <2>3, AppendBuf DEF EncodeInv
  <2>5. ControlInv'
    BY <2>1 DEF EncodeInv, ControlInv, KeyPlaces, Top
  <2> QED  BY <2>4, <2>5 DEF EncodeInv
<1> QED  BY <1>1, <1>2, <1>3

LEMMA LiteralStep ==
    ASSUME EncodeInv, append_literal
    PROVE  EncodeInv'
<1>1. CASE strbuf_resize
  BY <1>1, ResizeStep DEF append_literal
<1>2. CASE ~strbuf_resize
  <2>1. PICK len \in {4, 5} : HasRoom(buf, len) /\ buf' = Advanced(buf, len)
    BY <1>2 DEF append_literal, WithRoom, Write
  <2>2. pc # "idle" /\ pc' = "next" /\ UNCHANGED <<str, live, frames>>
    BY <1>2 DEF append_literal, WithRoom
  <2>3. BufInv'
    BY <2>1, <2>2, AppendBuf DEF EncodeInv
  <2>4. ControlInv'
    BY <2>2 DEF EncodeInv, ControlInv, KeyPlaces
  <2> QED  BY <2>3, <2>4 DEF EncodeInv
<1> QED  BY <1>1, <1>2

LEMMA TableStep ==
    ASSUME EncodeInv, append_table
    PROVE  EncodeInv'
<1>1. CASE strbuf_resize
  BY <1>1, ResizeStep DEF append_table
<1>2. CASE ~strbuf_resize
  <2>1. /\ pc = "data" /\ HasRoom(buf, 1) /\ buf' = Advanced(buf, 1)
        /\ frames' = Append(frames, Frame(todo))
        /\ pc' = "next" /\ UNCHANGED <<str, live>>
    BY <1>2 DEF append_table, WithRoom, Write
  <2>2. BufInv'
    BY <2>1, AppendBuf DEF EncodeInv
  <2>3. todo \in Values /\ Entries[todo] \in SUBSET (Values \X Values)
    BY <2>1, EncodeAssumption DEF EncodeInv, ControlInv
  <2>4. Frame(todo) \in FrameShape
    BY <2>3 DEF Frame, FrameShape, Lengths
  <2>5. ControlInv'
    BY <2>1, <2>4 DEF EncodeInv, ControlInv, KeyPlaces
  <2> QED  BY <2>2, <2>5 DEF EncodeInv
<1> QED  BY <1>1, <1>2

\* A missing index gives nil, another one an entry of the table.
LEMMA ElementIsValue ==
    ASSUME NEW table \in Values, NEW i
    PROVE  Element(table, i) \in Values
<1> DEFINE P(e) == TypeOf[e[1]] = "integer" /\ Index[e[1]] = i
<1>1. Entries[table] \in SUBSET (Values \X Values) /\ Nil \in Values
  BY EncodeAssumption
<1>2. CASE \E e \in Entries[table] : P(e)
  <2>1. (CHOOSE e \in Entries[table] : P(e)) \in Entries[table]
    BY <1>2
  <2> QED  BY <1>1, <1>2, <2>1 DEF Element
<1>3. CASE ~\E e \in Entries[table] : P(e)
  BY <1>1, <1>3 DEF Element
<1> QED  BY <1>2, <1>3

LEMMA CommaLen ==
    Len(Comma) \in 0 .. 1
BY DEF Comma

LEMMA ArrayStep ==
    ASSUME EncodeInv, array_next
    PROVE  EncodeInv'
<1>1. CASE strbuf_resize
  BY <1>1, ResizeStep DEF array_next
<1>2. CASE ~strbuf_resize
  <2>1. /\ pc = "next" /\ frames # <<>>
        /\ HasRoom(buf, Len(Comma)) /\ buf' = Advanced(buf, Len(Comma))
        /\ todo' = Element(Top.table, Top.i)
        /\ frames' = [frames EXCEPT ![Len(frames)].i = @ + 1]
        /\ pc' = "data" /\ UNCHANGED <<str, live>>
    BY <1>2 DEF array_next, WithRoom, Write
  <2>2. BufInv'
    BY <2>1, CommaLen, AppendBuf DEF EncodeInv
  <2>3. frames \in Seq(FrameShape) /\ Top \in FrameShape /\ Len(frames) \in Nat \ {0}
    BY <2>1, TopFrame DEF EncodeInv, ControlInv
  <2>4. todo' \in Values
    BY <2>1, <2>3, ElementIsValue DEF FrameShape
  <2>5. [Top EXCEPT !.i = @ + 1] \in FrameShape
    BY <2>3 DEF FrameShape
  <2>6. frames' \in Seq(FrameShape)
    BY <2>1, <2>3, <2>5 DEF Top
  <2> QED  BY <2>1, <2>2, <2>4, <2>6 DEF EncodeInv, ControlInv, KeyPlaces
<1> QED  BY <1>1, <1>2

LEMMA ObjectStep ==
    ASSUME EncodeInv, object_next
    PROVE  EncodeInv'
<1>1. CASE strbuf_resize
  BY <1>1, ResizeStep DEF object_next
<1>2. CASE ~strbuf_resize
  <2>1. PICK e \in Top.left :
          /\ HasRoom(buf, Len(Comma)) /\ buf' = Advanced(buf, Len(Comma))
          /\ todo' = e[1]
          /\ frames' = [frames EXCEPT ![Len(frames)].i = @ + 1,
                                      ![Len(frames)].left = @ \ {e},
                                      ![Len(frames)].value = e[2]]
          /\ pc' = "key" /\ UNCHANGED <<str, live>>
    BY <1>2 DEF object_next, WithRoom, Write
  <2>2. pc = "next" /\ frames # <<>>
    BY DEF object_next
  <2>3. BufInv'
    BY <2>1, <2>2, CommaLen, AppendBuf DEF EncodeInv
  <2>4. frames \in Seq(FrameShape) /\ Top \in FrameShape /\ Len(frames) \in Nat \ {0}
    BY <2>2, TopFrame DEF EncodeInv, ControlInv
  <2>5. e[1] \in Values /\ e[2] \in Values
    BY <2>4 DEF FrameShape
  <2> DEFINE f == [Top EXCEPT !.i = @ + 1, !.left = @ \ {e}, !.value = e[2]]
  <2>6. f \in FrameShape /\ f.value = e[2]
    <3> DEFINE g == [Top EXCEPT !.i = @ + 1]
    <3>1. g \in FrameShape
      BY <2>4 DEF FrameShape
    <3>2. f = [g EXCEPT !.left = @ \ {e}, !.value = e[2]]
      BY <2>4, Zenon DEF FrameShape
    <3> HIDE DEF g, f
    <3>3. f \in FrameShape /\ f.value = e[2]
      BY <2>5, <3>1, <3>2 DEF FrameShape
    <3> QED  BY <3>3
  <2>7. frames' = [frames EXCEPT ![Len(frames)] = f]
    BY <2>1, <2>4 DEF Top
  <2> HIDE DEF f
  <2>8. /\ frames' \in Seq(FrameShape) /\ Len(frames') = Len(frames)
        /\ frames'[Len(frames)] = f
    BY <2>4, <2>6, <2>7
  <2>9. frames' # <<>> /\ Top' = f
    BY <2>4, <2>8 DEF Top
  <2> QED  BY <2>1, <2>3, <2>5, <2>6, <2>8, <2>9 DEF EncodeInv, ControlInv, KeyPlaces
<1> QED  BY <1>1, <1>2

LEMMA CloseStep ==
    ASSUME EncodeInv, table_close
    PROVE  EncodeInv'
<1>1. CASE strbuf_resize
  BY <1>1, ResizeStep DEF table_close
<1>2. CASE ~strbuf_resize
  <2>1. /\ pc = "next" /\ frames # <<>> /\ HasRoom(buf, 1) /\ buf' = Advanced(buf, 1)
        /\ frames' = Outer /\ UNCHANGED <<pc, str, live>>
    BY <1>2 DEF table_close, WithRoom, Write
  <2>2. BufInv'
    BY <2>1, AppendBuf DEF EncodeInv
  <2>3. frames' \in Seq(FrameShape)
    BY <2>1, TopFrame DEF EncodeInv, ControlInv
  <2> QED  BY <2>1, <2>2, <2>3 DEF EncodeInv, ControlInv, KeyPlaces
<1> QED  BY <1>1, <1>2

LEMMA KeyQuoteStep ==
    ASSUME EncodeInv, key_quote
    PROVE  EncodeInv'
<1>1. CASE strbuf_resize
  BY <1>1, ResizeStep DEF key_quote
<1>2. CASE ~strbuf_resize
  <2>1. /\ pc = "key" /\ TypeOf[todo] \in NumberTypes
        /\ HasRoom(buf, 1) /\ buf' = Advanced(buf, 1)
        /\ pc' = "keynumber" /\ UNCHANGED <<str, live, frames, todo>>
    BY <1>2 DEF key_quote, WithRoom, Write
  <2>2. BufInv'
    BY <2>1, AppendBuf DEF EncodeInv
  <2> QED  BY <2>1, <2>2 DEF EncodeInv, ControlInv, KeyPlaces, Top
<1> QED  BY <1>1, <1>2

LEMMA KeyEndStep ==
    ASSUME EncodeInv, key_end
    PROVE  EncodeInv'
<1>1. CASE strbuf_resize
  BY <1>1, ResizeStep DEF key_end
<1>2. CASE ~strbuf_resize
  <2>1. PICK len \in {1, 2} : HasRoom(buf, len) /\ buf' = Advanced(buf, len)
    BY <1>2 DEF key_end, WithRoom, Write
  <2>2. pc = "keyend" /\ todo' = Top.value /\ pc' = "data" /\ UNCHANGED <<str, live, frames>>
    BY <1>2 DEF key_end, WithRoom
  <2>3. BufInv'
    BY <2>1, <2>2, AppendBuf DEF EncodeInv
  <2> QED  BY <2>2, <2>3 DEF EncodeInv, ControlInv, KeyPlaces
<1> QED  BY <1>1, <1>2

\* The outermost call returns, and Lua may have no memory for the text.
LEMMA ReturnStep ==
    ASSUME EncodeInv, append_done \/ json_encode_nomem
    PROVE  EncodeInv'
<1>1. /\ pc \notin {"idle", "string", "keystring"}
      /\ pc' \in {"idle", "push"} /\ UNCHANGED <<buf, live, str, frames>>
  BY DEF append_done, json_encode_nomem
<1>2. Reserved = 0 /\ Reserved' = 0
  BY <1>1 DEF Reserved
<1> QED
  BY <1>1, <1>2
  DEF EncodeInv, BufInv, BufType, BufferFits, OneBuffer, ControlInv, KeyPlaces

LEMMA EncodingStep ==
    ASSUME EncodeInv, Encoding
    PROVE  EncodeInv'
<1>1. CASE append_string \/ key_string
  BY <1>1, StringStep DEF append_string, key_string
<1>2. CASE append_number
  BY <1>2, NumberStep DEF append_number
<1>3. CASE key_number
  BY <1>3, NumberStep DEF key_number, EncodeInv, ControlInv
<1>4. CASE append_other \/ append_table_fails \/ key_other \/ json_encode_return
  BY <1>4, EndStep
  DEF append_other, append_table_fails, key_other, json_encode_return, json_encode_exception
<1> QED
  BY <1>1, <1>2, <1>3, <1>4, CharStep, QuoteStep, LiteralStep, TableStep, ArrayStep, ObjectStep,
     CloseStep, KeyQuoteStep, KeyEndStep, ReturnStep
  DEF Encoding

-----------------------------------------------------------------------------
\* Between the calls.

LEMMA CallStep ==
    ASSUME EncodeInv, NEW v \in Values, json_encode(v)
    PROVE  EncodeInv'
<1>1. /\ pc = "idle" /\ pc' = "data" /\ todo' = v /\ UNCHANGED <<frames, str>>
      /\ buf' = IF buf.allocated THEN strbuf_reset(buf) ELSE strbuf_init(0)
      /\ live' = IF buf.allocated THEN live ELSE live + 1
  BY DEF json_encode
<1>2. buf \in Buffer /\ live = (IF buf.allocated THEN 1 ELSE 0)
  BY DEF EncodeInv, BufInv, BufType, OneBuffer
<1>3. /\ buf' \in Buffer /\ buf'.length = 0 /\ buf'.allocated /\ live' = 1
      /\ buf'.size \in Nat \ {0}
  <2>1. CASE buf.allocated
    BY <1>1, <1>2, <2>1, ResetBuffer, BufferFields
  <2>2. CASE ~buf.allocated
    BY <1>1, <1>2, <2>2, InitBuffer, BufferFields
  <2> QED  BY <2>1, <2>2
<1>4. Reserved' = 0
  BY <1>1 DEF Reserved
<1>5. InBounds(Advanced(buf', 0))
  BY <1>3, AdvanceBuffer DEF InBounds
<1>6. BufInv'
  BY <1>1, <1>3, <1>4, <1>5 DEF EncodeInv, BufInv, BufType, BufferFits, OneBuffer
<1>7. ControlInv'
  BY <1>1 DEF EncodeInv, ControlInv, KeyPlaces
<1> QED  BY <1>6, <1>7 DEF EncodeInv

LEMMA ConfigureStep ==
    ASSUME EncodeInv, Configuring
    PROVE  EncodeInv'
<1>1. CASE json_destroy_config
  <2>1. /\ pc = "idle" /\ UNCHANGED <<pc, frames, todo, str>>
        /\ buf' = strbuf_free(buf) /\ live' = IF buf.allocated THEN live - 1 ELSE live
    BY <1>1 DEF json_destroy_config
  <2>2. buf \in Buffer /\ live = (IF buf.allocated THEN 1 ELSE 0)
    BY DEF EncodeInv, BufInv, BufType, OneBuffer
  <2>3. buf' \in Buffer /\ ~buf'.allocated /\ live' = 0
    BY <2>1, <2>2, FreeBuffer
  <2> QED
    BY <2>1, <2>3
    DEF EncodeInv, BufInv, BufType, BufferFits, OneBuffer, ControlInv, KeyPlaces
<1>2. CASE Configured
  <2>1. pc = "idle" /\ UNCHANGED <<pc, buf, live, frames, todo, str>>
    BY <1>2 DEF Configured
  <2> QED
    BY <2>1 DEF EncodeInv, BufInv, BufType, BufferFits, OneBuffer, ControlInv, KeyPlaces
<1> QED
  BY <1>1, <1>2
  DEF Configuring, json_cfg_encode_sparse_array, json_cfg_encode_max_depth,
      json_cfg_encode_keep_buffer, json_cfg_refuse_invalid_numbers

LEMMA NextEncode == EncodeInv /\ [Next]_vars => EncodeInv'
<1>1. ASSUME EncodeInv, UNCHANGED vars
      PROVE  EncodeInv'
  <2>1. UNCHANGED <<buf, live, str, pc, frames, todo>>
    BY <1>1 DEF vars
  <2> QED
    BY <1>1, <2>1
    DEF EncodeInv, BufInv, BufType, BufferFits, OneBuffer, ControlInv, Reserved, Top
<1> QED  BY <1>1, EncodingStep, CallStep, ConfigureStep DEF Next

\* Every byte the encoder writes, also those it writes untested, is in memory it has.
THEOREM EncodedTextFits == Spec => []BufferFits
<1>1. EncodeInv => BufferFits
  BY DEF EncodeInv, BufInv
<1> QED  BY <1>1, InitEncode, NextEncode, PTL DEF Spec

\* The buffer is never lost, allocated over or freed twice.
THEOREM EncodeBufferIsOne == Spec => []OneBuffer
<1>1. EncodeInv => OneBuffer
  BY DEF EncodeInv, BufInv
<1> QED  BY <1>1, InitEncode, NextEncode, PTL DEF Spec
=============================================================================
