------------------------------- MODULE StrBuf -------------------------------
(***************************************************************************)
(* lua-cjson/strbuf.h and strbuf.c: the growing byte buffer that the JSON  *)
(* encoder writes to and the JSON decoder unescapes strings into.          *)
(*                                                                         *)
(* A buffer is its bookkeeping: whether `buf' points to memory, the bytes  *)
(* allocated and the bytes used, the optional terminator left out.  What   *)
(* the bytes are is kept by the modules that use it.  The increment of     *)
(* every buffer of the program is the default, -2: nothing calls           *)
(* strbuf_set_increment, so the size doubles.                              *)
(***************************************************************************)
EXTENDS Integers

CONSTANT DefaultSize    \* STRBUF_DEFAULT_SIZE, which a build may define

ASSUME StrBufAssumption == DefaultSize \in Nat \ {0}

Buffer == [allocated : BOOLEAN, size : Nat \ {0}, length : Nat]

\* strbuf_init: len bytes and a terminator, or the default size.
strbuf_init(len) ==
    [allocated |-> TRUE,
     size |-> IF len <= 0 THEN DefaultSize ELSE len + 1,
     length |-> 0]

strbuf_reset(s) == [s EXCEPT !.length = 0]

strbuf_free(s) == [s EXCEPT !.allocated = FALSE]

\* Mutant: the byte for the terminator is not set aside.
EmptyLengthFull(s) == s.size - s.length

\* "Ensure there is space for a NULL terminator."
strbuf_empty_length(s) == s.size - s.length - 1

\* The test of strbuf_ensure_empty_length, and of strbuf_append_string for each byte.
HasRoom(s, len) == len <= strbuf_empty_length(s)

\* Mutant: the size is rounded up to itself, as the branch for a linear increment does.
Rounded(s) == [s EXCEPT !.size = ((@ + 1 - 1) \div 1) * 1]

\* One turn of the loop of calculate_new_size, `newsize *= -increment'.  The loop turns
\* until the length asked for fits; the bytes written so far are kept by realloc.
Doubled(s) == [s EXCEPT !.size = 2 * @]

\* The unsafe appends: nothing is tested.
Advanced(s, len) == [s EXCEPT !.length = @ + len]

\* What every user of a buffer relies on: its bytes and the terminator are in the memory
\* allocated.
InBounds(s) == s.length + 1 <= s.size
=============================================================================
