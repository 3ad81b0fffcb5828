---------------------------- MODULE MCJsonDecode ----------------------------
(***************************************************************************)
(* Values for the constants of JsonDecode, and what a text denotes, to     *)
(* compare the value decoded against.                                      *)
(***************************************************************************)
EXTENDS JsonDecode, TLC

Grammar == INSTANCE JsonText

\* Texts of eleven bytes, enough for an object with two equal keys; strings of up to two
\* characters, pairs of escapes included; the shortest texts.
SampleTexts ==
    [len : {11}, tokens : {9}] \cup [len : {26}, tokens : {1}] \cup [len : {0, 1, 2}, tokens : {2}]

\* Ten ticks are one and two are 1e-9; 3 is the greatest int.
Sample ==
    [n \in {"1", "0.5", "1e-10", "0", "0.9999999999", "1e10", "0x1", "1.", "-.5", "-x"} |->
             CASE n = "1" -> [class |-> "strict", bytes |-> 1, value |-> 10]
               [] n = "0.5" -> [class |-> "strict", bytes |-> 3, value |-> 5]
               [] n = "1e-10" -> [class |-> "strict", bytes |-> 5, value |-> 1]
               [] n = "0" -> [class |-> "strict", bytes |-> 1, value |-> 0]
               [] n = "0.9999999999" -> [class |-> "strict", bytes |-> 12, value |-> 9]
               [] n = "1e10" -> [class |-> "strict", bytes |-> 4, value |-> 40]
               [] n = "0x1" -> [class |-> "loose", bytes |-> 3, value |-> 10]
               [] n = "1." -> [class |-> "lax", bytes |-> 2, value |-> 10]
               [] n = "-.5" -> [class |-> "lax", bytes |-> 3, value |-> -5]
               [] n = "-x" -> [class |-> "none", bytes |-> 2, value |-> 0]]

SampleNumbers == DOMAIN Sample
SampleClass == [n \in SampleNumbers |-> Sample[n].class]
SampleBytes == [n \in SampleNumbers |-> Sample[n].bytes]
SampleValue == [n \in SampleNumbers |-> Sample[n].value]

\* The boundaries of the lengths of UTF-8 and of the surrogates.
SampleUnits == {0, 127, 128, 2047, 2048, 55295, 55296, 56319, 56320, 57343, 57344, 65535}

-----------------------------------------------------------------------------
\* UTF-8 read back, as RFC 3629 defines it: the first byte says how many there are, the
\* others hold six bits each, and no code point is written longer than it needs to be.
Length(byte) == IF byte < 128 THEN 1 ELSE IF byte < 224 THEN 2 ELSE IF byte < 240 THEN 3 ELSE 4

Lead(byte) == byte - <<0, 192, 224, 240>>[Length(byte)]

Code(b) == FoldLeft(LAMBDA code, byte : 64 * code + (byte - 128), Lead(b[1]), Tail(b))

WellFormed(b) ==
    /\ \A i \in 2 .. Len(b) : b[i] \in 128 .. 191
    /\ Code(b) >= <<0, 128, 2048, 65536>>[Len(b)]

\* UTF-16, as RFC 2781 defines it.
Utf16(code) ==
    IF code < 65536 THEN <<code>>
    ELSE <<55296 + (code - 65536) \div 1024, 56320 + ((code - 65536) % 1024)>>

RECURSIVE UnitsOf(_)

\* The code units of a string of UTF-8; -1 for a byte sequence that is not UTF-8.
UnitsOf(b) ==
    IF b = <<>> THEN <<>>
    ELSE LET first == SubSeq(b, 1, Length(b[1]))
         IN  (IF WellFormed(first) THEN Utf16(Code(first)) ELSE <<-1>>)
               \o UnitsOf(SubSeq(b, Length(b[1]) + 1, Len(b)))

\* The forms of number decode takes: those of JSON and, with the setting off, all that
\* strtod parses.  Two forms JSON does not have pass json_is_invalid_number and so are
\* taken with the setting on as well: no digit behind the point ("1.") or before it ("-.5").
FormsTaken == {"strict", "lax"} \cup (IF refuse THEN {} ELSE {"loose"})

Refusable(tok) == tok[1] = "number" /\ Class[tok[2]] \notin FormsTaken

Tokens == [i \in DOMAIN read |-> IF Refusable(read[i]) THEN <<"invalid", "">> ELSE read[i]]

\* A number comes back as a float of its value or, within 1e-9 of it, as an integer, and
\* as an integer when it is one that an int holds.
NumberAgrees(number, v) ==
    \/ /\ v = <<"float", number>>
       /\ \A k \in (- IntMax - 1) .. IntMax : number # k * Unit
    \/ v[1] = "integer" /\ v[2] * Unit - number \in (1 - Epsilon) .. (Epsilon - 1)

\* The last of the members of an object that have the same name.
Lasting(members) ==
    {members[i] : i \in {j \in DOMAIN members :
                           \A k \in DOMAIN members : k > j => members[k][1] # members[j][1]}}

RECURSIVE Agrees(_, _)

\* A value that decode returned is what a value of JSON denotes.
Agrees(m, v) ==
    CASE m[1] = "number" -> v[1] \in {"integer", "float"} /\ NumberAgrees(Value[m[2]], v)
      [] m[1] = "literal" -> v[1] = "literal" /\ v[2] = m[2]
      [] m[1] = "string" -> v[1] = "string" /\ UnitsOf(v[2]) = m[2]
      [] m[1] = "array" -> /\ v[1] = "array" /\ DOMAIN v[2] = DOMAIN m[2]
                           /\ \A i \in DOMAIN m[2] : Agrees(m[2][i], v[2][i])
      [] m[1] = "object" ->
           LET members == Lasting(m[2])
           IN  /\ v[1] = "object" /\ Cardinality(v[2]) = Cardinality(members)
               /\ \A member \in members : \E e \in v[2] :
                    UnitsOf(e[1]) = member[1] /\ Agrees(member[2], e[2])

=============================================================================
