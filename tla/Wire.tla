--------------------------------- MODULE Wire ---------------------------------
(***************************************************************************)
(* The serialization of Util.cpp and of PosixMessageQueueObject.h.  A byte *)
(* has Base values (256 in the code); the UINT64 union is the pair of its  *)
(* halves; a char buffer and a stream are sequences of bytes.  Out...      *)
(* answers the stream written so far with a value put at its end, In...    *)
(* the value at the front of a stream and what is left of it.              *)
(***************************************************************************)
EXTENDS Integers, Sequences

CONSTANT Base
ASSUME BaseAssumption == Base \in Nat \ {0, 1}

Bytes   == 0 .. Base - 1
Words   == Base * Base * Base * Base
UINT32  == 0 .. Words - 1
UINT64  == [msb : UINT32, lsb : UINT32]
\* The UINT64 of a pool index, by its halves.
Index64(i) == [msb |-> i \div Words, lsb |-> i % Words]

\* A word shifted right by a byte, and its last byte.
Up(v)  == v \div Base
Low(v) == v % Base

\* htonl, then memcpy: the most significant byte first.
ToBuf32(v) == <<Low(Up(Up(Up(v)))), Low(Up(Up(v))), Low(Up(v)), Low(v)>>

FromBuf32(buf, k) ==
  ((buf[k] * Base + buf[k + 1]) * Base + buf[k + 2]) * Base + buf[k + 3]

ToBuf64(x) == ToBuf32(x.msb) \o ToBuf32(x.lsb)

FromBuf64(buf, k) == [msb |-> FromBuf32(buf, k), lsb |-> FromBuf32(buf, k + 4)]

\* The message: who sends, an event, the pool index.  The event is read and
\* dropped.
Serialize(m) == ToBuf32(m.from) \o ToBuf32(m.event) \o ToBuf64(m.shmIndex)

Deserialize(buf) == [from |-> FromBuf32(buf, 1), shmIndex |-> FromBuf64(buf, 9)]

-----------------------------------------------------------------------------
(* Streams.                                                                *)

After(is, k) == SubSeq(is, k + 1, Len(is))

Out32(os, v) == os \o ToBuf32(v)
In32(is)     == [value |-> FromBuf32(is, 1), rest |-> After(is, 4)]

Out64(os, x) == Out32(Out32(os, x.msb), x.lsb)
\* The most significant half first.
In64(is) ==
  LET m == In32(is)  l == In32(m.rest)
  IN [value |-> [msb |-> m.value, lsb |-> l.value], rest |-> l.rest]

\* A signed word is written as the unsigned one with the same bits.
SINT32 == - (Words \div 2) .. (Words \div 2) - 1
Unsigned(v) == IF v < 0 THEN v + Words ELSE v
Signed(w)   == IF w >= Words \div 2 THEN w - Words ELSE w

OutS32(os, v) == Out32(os, Unsigned(v))
InS32(is)     == LET w == In32(is) IN [w EXCEPT !.value = Signed(@)]

OutS64(os, x) == Out32(OutS32(os, x.msb), x.lsb)
InS64(is) ==
  LET m == InS32(is)  l == In32(m.rest)
  IN [value |-> [msb |-> m.value, lsb |-> l.value], rest |-> l.rest]

Out8(os, b) == Append(os, b)
In8(is)     == [value |-> is[1], rest |-> After(is, 1)]

\* The last three bytes of a word; written from the last to the first.
Split3(v)   == <<Low(Up(Up(v))), Low(Up(v)), Low(v)>>
Unsplit3(b) == (b[1] * Base + b[2]) * Base + b[3]

SlipOut3(os, b) == os \o b
Out3(os, b) == os \o <<b[3], b[2], b[1]>>
In3(is)     == [value |-> <<is[3], is[2], is[1]>>, rest |-> After(is, 3)]

OutPadding(os, k) == os \o [j \in 1 .. k |-> 0]
InPadding(is, k)  == After(is, k)

\* What a C string ends before: its first NUL.
UpToNul(s) ==
  LET ends == {j \in 1 .. Len(s) : s[j] = 0}
  IN IF ends = {} THEN s ELSE SubSeq(s, 1, (CHOOSE j \in ends : \A k \in ends : j <= k) - 1)

\* strcpy stops at a NUL within the string, and the bytes behind it are those of
\* a fresh buffer: any.  All size() of them are written.
OutString(os, s) ==
  LET copied == Append(UpToNul(s), 0)
  IN {os \o b : b \in {b \in [1 .. Len(s) -> Bytes] :
                         \A j \in DOMAIN b \cap DOMAIN copied : b[j] = copied[j]}}
InString(is, size) == [value |-> UpToNul(SubSeq(is, 1, size)), rest |-> After(is, size)]

=============================================================================
