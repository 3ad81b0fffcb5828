---------------------------- MODULE StrBufProofs ----------------------------
(***************************************************************************)
(* What the operations of a string buffer return, for any buffer: the      *)
(* facts the proofs about the JSON encoder and decoder rest on.            *)
(***************************************************************************)
EXTENDS StrBuf, TLAPS

LEMMA BufferFields ==
    ASSUME NEW s \in Buffer
    PROVE  s.allocated \in BOOLEAN /\ s.size \in Nat \ {0} /\ s.length \in Nat
BY DEF Buffer

LEMMA InitBuffer ==
    ASSUME NEW len \in Int
    PROVE  /\ strbuf_init(len) \in Buffer
           /\ strbuf_init(len).allocated /\ strbuf_init(len).length = 0
           /\ strbuf_init(len).size >= len + 1
<1>1. DefaultSize \in Nat /\ DefaultSize # 0
  BY StrBufAssumption
<1>2. (IF len <= 0 THEN DefaultSize ELSE len + 1) \in Nat \ {0}
  BY <1>1
<1> QED  BY <1>1, <1>2 DEF strbuf_init, Buffer

LEMMA ResetBuffer ==
    ASSUME NEW s \in Buffer
    PROVE  /\ strbuf_reset(s) \in Buffer
           /\ strbuf_reset(s).length = 0 /\ strbuf_reset(s).size = s.size
           /\ strbuf_reset(s).allocated = s.allocated
BY DEF strbuf_reset, Buffer

LEMMA FreeBuffer ==
    ASSUME NEW s \in Buffer
    PROVE  /\ strbuf_free(s) \in Buffer
           /\ ~strbuf_free(s).allocated
BY DEF strbuf_free, Buffer

LEMMA AdvanceBuffer ==
    ASSUME NEW s \in Buffer, NEW len \in Nat
    PROVE  /\ Advanced(s, len) \in Buffer
           /\ Advanced(s, len).length = s.length + len /\ Advanced(s, len).size = s.size
           /\ Advanced(s, len).allocated = s.allocated
BY DEF Advanced, Buffer

LEMMA DoubleBuffer ==
    ASSUME NEW s \in Buffer
    PROVE  /\ Doubled(s) \in Buffer
           /\ Doubled(s).length = s.length /\ Doubled(s).size >= s.size
           /\ Doubled(s).allocated = s.allocated
BY DEF Doubled, Buffer

\* strbuf_ensure_empty_length sees to the bytes asked for and to the terminator.
LEMMA RoomFits ==
    ASSUME NEW s \in Buffer, NEW len \in Nat, HasRoom(s, len)
    PROVE  s.length + len + 1 <= s.size
BY BufferFields DEF HasRoom, strbuf_empty_length

LEMMA AdvanceFits ==
    ASSUME NEW s \in Buffer, NEW len \in Nat
    PROVE  InBounds(Advanced(s, len)) <=> s.length + len + 1 <= s.size
<1>1. Advanced(s, len).length = s.length + len /\ Advanced(s, len).size = s.size
  BY AdvanceBuffer
<1> QED  BY <1>1 DEF InBounds
=============================================================================
