------------------------------- MODULE Bitops -------------------------------
(***************************************************************************)
(* The bit commands on strings (bitops.c): SETBIT, BITFIELD with its three *)
(* ways to overflow, BITOP, GETBIT, BITCOUNT and BITPOS.                   *)
(*                                                                         *)
(* A string is the sequence of its bits.  A byte has BYTE_BITS bits, an    *)
(* unsigned long LONG_BYTES bytes, and the integers INT_BITS bits (8, 8    *)
(* and 64 in the code); unsigned arithmetic is modulo 2^INT_BITS.  BITOP   *)
(* works on BITOP_LONGS longs at a time (4) for up to BITOP_KEYS keys      *)
(* (16), BITCOUNT on POP_BYTES bytes (28) from a multiple of POP_ALIGN (4),*)
(* with a sum that has POP_BITS bits (8).                                  *)
(***************************************************************************)
EXTENDS Integers, FiniteSets, Sequences, SequencesExt

CONSTANTS BYTE_BITS, LONG_BYTES, INT_BITS,
          FullShift,      \* the results a shift by INT_BITS may have in the build
          BITOP_LONGS, BITOP_KEYS, POP_BYTES, POP_ALIGN, POP_BITS,
          Sources,        \* the strings of other keys; the one of a missing key is empty
          BitCommands,    \* the BITFIELD commands: sequences of operations
          MaxBits         \* the longest string

\* An operation: [op, sign, bits, offset, i64, ow].
ASSUME BitopsAssumption ==
  /\ {BYTE_BITS, LONG_BYTES, INT_BITS, BITOP_LONGS, BITOP_KEYS, POP_BYTES, POP_ALIGN, POP_BITS} \subseteq Nat \ {0}
  /\ MaxBits \in Nat
  /\ \A s \in Sources : Len(s) <= MaxBits /\ Len(s) % BYTE_BITS = 0
  /\ FullShift \subseteq {0, 2^INT_BITS - 1} /\ FullShift # {}
  /\ \A ops \in BitCommands : \A i \in 1..Len(ops) :
       /\ ops[i].op \in {"get", "set", "incrby"} /\ ops[i].ow \in {"wrap", "sat", "fail"}
       /\ ops[i].bits \in 1..(IF ops[i].sign THEN INT_BITS ELSE INT_BITS - 1)

VARIABLES bmap,     \* the string
          bshift    \* what a shift by INT_BITS gives in this build

bitVars == <<bmap, bshift>>

Modulus == 2^INT_BITS
AsUnsigned(v) == v % Modulus
AsSigned(u) == IF u % Modulus >= Modulus \div 2 THEN (u % Modulus) - Modulus ELSE u % Modulus
BitNo(v, i) == (v \div 2^i) % 2
Zeros(n) == [i \in 1..n |-> 0]
BitOr(s, i, past) == IF i < Len(s) THEN s[i + 1] ELSE past
BitAt(s, i) == BitOr(s, i, 0)

\* (uint64_t)-1 << bits
HighMask(bits) == IF bits = INT_BITS THEN bshift ELSE Modulus - 2^bits

\* setUnsignedBitfield; the caller made room.
setUnsignedBitfield(s, offset, bits, value) ==
  [i \in DOMAIN s |-> IF i - 1 >= offset /\ i - 1 < offset + bits
                      THEN BitNo(value, bits - 1 - (i - 1 - offset)) ELSE s[i]]

\* getUnsignedBitfield; past is what is read behind the end of the string.
getUnsignedBitfield(s, offset, bits, past) ==
  FoldLeft(LAMBDA v, j : 2 * v + BitOr(s, offset + j - 1, past), 0, [j \in 1..bits |-> j])

\* getSignedBitfield: x | m, where the bits of m are not below those of x.
Or(x, m) == IF m = Modulus - 1 THEN m ELSE IF m = 0 THEN x ELSE m + (x % (Modulus - m))
AndNot(x, m) == IF m = Modulus - 1 THEN 0 ELSE IF m = 0 THEN x ELSE x % (Modulus - m)
getSignedBitfield(s, offset, bits, past) ==
  LET u == getUnsignedBitfield(s, offset, bits, past)
  IN  AsSigned(IF BitNo(u, bits - 1) = 1 THEN Or(u, HighMask(bits)) ELSE u)

(***************************************************************************)
(* Overflow: a result [over, limit]; limit matters when over # 0, and is   *)
(* not set for FAIL.                                                       *)
(***************************************************************************)
checkUnsignedBitfieldOverflow(value, incr, bits, ow) ==
  LET max == 2^bits - 1
      wrapped == AndNot(AsUnsigned(value + incr), HighMask(bits))
      Out(n, limit) == [over |-> IF ow = "wrap" THEN 1 ELSE n,
                        limit |-> IF ow = "wrap" THEN wrapped ELSE limit]
  IN  IF value > max \/ (incr > 0 /\ incr > AsSigned(max - value)) THEN Out(1, max)
      ELSE IF incr < 0 /\ incr < AsSigned(-value) THEN Out(-1, 0)
      ELSE [over |-> 0, limit |-> 0]

\* Mutant: at the limit the value already overflows.
SignedOverflowEarly(value, incr, bits, ow) ==
  LET max == 2^(bits - 1) - 1
  IN  IF value + incr >= max THEN [over |-> 1, limit |-> IF ow = "wrap" THEN -max - 1 ELSE max]
      ELSE IF value + incr < -max - 1 THEN [over |-> -1, limit |-> -max - 1]
      ELSE [over |-> 0, limit |-> 0]

\* checkSignedBitfieldOverflow
checkSignedBitfieldOverflow(value, incr, bits, ow) ==
  LET max == 2^(bits - 1) - 1
      min == -max - 1
      maxincr == AsSigned(max - value)
      minincr == AsSigned(min - value)
      c == AsUnsigned(value + incr)
      wrapped == AsSigned(IF BitNo(c, bits - 1) = 1 THEN Or(AndNot(c, HighMask(bits)), HighMask(bits))
                          ELSE AndNot(c, HighMask(bits)))
      Out(n, limit) == [over |-> IF ow = "wrap" THEN 1 ELSE n,
                        limit |-> IF ow = "wrap" THEN wrapped ELSE limit]
  IN  IF \/ value > max \/ (bits # INT_BITS /\ incr > maxincr)
         \/ (value >= 0 /\ incr > 0 /\ incr > maxincr)
      THEN Out(1, max)
      ELSE IF \/ value < min \/ (bits # INT_BITS /\ incr < minincr)
              \/ (value < 0 /\ incr < 0 /\ incr < minincr)
      THEN Out(-1, min)
      ELSE [over |-> 0, limit |-> 0]

(***************************************************************************)
(* BITFIELD and SETBIT.                                                    *)
(***************************************************************************)
\* lookupStringForBitCommand: room for the byte of maxbit.
RoomFor(s, maxbit) ==
  LET need == (maxbit \div BYTE_BITS + 1) * BYTE_BITS
  IN  IF need > Len(s) THEN s \o Zeros(need - Len(s)) ELSE s

\* One operation of bitfieldCommand, on w: the string, the replies, what lies
\* behind the string, and whether it was touched.  A GET reads a copy that is
\* padded with zeros; the others use the string in place.
BitfieldOp(w, o) ==
  LET past == IF o.op = "get" THEN 0 ELSE w.past
      old == IF o.sign THEN getSignedBitfield(w.s, o.offset, o.bits, past)
             ELSE getUnsignedBitfield(w.s, o.offset, o.bits, past)
      from == IF o.op = "incrby" THEN old ELSE IF o.sign THEN o.i64 ELSE AsUnsigned(o.i64)
      incr == IF o.op = "incrby" THEN o.i64 ELSE 0
      check == IF o.sign THEN checkSignedBitfieldOverflow(from, incr, o.bits, o.ow)
               ELSE checkUnsignedBitfieldOverflow(from, incr, o.bits, o.ow)
      new == IF check.over # 0 THEN check.limit ELSE from + incr
      fails == check.over # 0 /\ o.ow = "fail"
  IN  IF o.op = "get" THEN [w EXCEPT !.replies = Append(@, <<old>>)]
      ELSE [w EXCEPT
             !.s = IF fails THEN @ ELSE setUnsignedBitfield(@, o.offset, o.bits, AsUnsigned(new)),
             !.replies = Append(@, IF fails THEN <<>> ELSE <<IF o.op = "incrby" THEN new ELSE old>>),
             !.outside = @ \/ o.offset + o.bits > Len(w.s)]

\* Mutant: room is made for the offsets, not for the last bits of the fields.
HighestOffset(ops) ==
  LET writes == {i \in 1..Len(ops) : ops[i].op # "get"}
      last == CHOOSE i \in writes : \A j \in writes : j <= i
  IN  IF writes = {} THEN -1 ELSE ops[last].offset

\* higest_write_offset: the one of the last SET or INCRBY.
HighestWriteOffset(ops) ==
  LET writes == {i \in 1..Len(ops) : ops[i].op # "get"}
      last == CHOOSE i \in writes : \A j \in writes : j <= i
  IN  IF writes = {} THEN -1 ELSE ops[last].offset + ops[last].bits - 1

\* bitops.c:987, "making room up to the farest bit reached by this operation":
\* that is so if the last write reaches as far as any other.
LastReachesFarthest(ops) ==
  LET writes == {i \in 1..Len(ops) : ops[i].op # "get"}
      Until(i) == ops[i].offset + ops[i].bits
  IN  \A i \in writes : \E j \in writes : j >= i /\ Until(j) >= Until(i) /\ \A k \in writes : k <= j

\* bitfieldCommand on the string s, with bits behind it that are all past: the
\* string then, the replies, and whether something was used that lies behind
\* the string.  What is written there is lost (growing a string clears it) or
\* overwrites other memory, which is not modelled.
BitfieldResult(s, ops, past) ==
  LET highest == HighestWriteOffset(ops)
  IN  FoldLeft(BitfieldOp, [s |-> IF highest = -1 THEN s ELSE RoomFor(s, highest),
                            replies |-> <<>>, past |-> past, outside |-> FALSE], ops)
bitfieldCommand(ops, past) == bmap' = BitfieldResult(bmap, ops, past).s /\ UNCHANGED bshift

\* setbitCommand
setbitCommand(offset, on) ==
  bmap' = [RoomFor(bmap, offset) EXCEPT ![offset + 1] = on] /\ UNCHANGED bshift

(***************************************************************************)
(* BITOP.                                                                  *)
(***************************************************************************)
BitwiseOp(op, a, b) ==
  CASE op = "and" -> IF a = 1 /\ b = 1 THEN 1 ELSE 0
    [] op = "or" -> IF a = 1 \/ b = 1 THEN 1 ELSE 0
    [] OTHER -> (a + b) % 2
\* The bit at i of the operation; a source that is too short has zeros.
OutputBit(op, src, i) ==
  LET first == BitAt(src[1], i)
  IN  FoldLeft(LAMBDA out, s : BitwiseOp(op, out, BitAt(s, i)),
               IF op = "not" THEN 1 - first ELSE first, Tail(src))
\* On the fast path the sources are read without a look at their lengths.
FastBit(op, src, i) ==
  FoldLeft(LAMBDA out, s : BitwiseOp(op, out, s[i + 1]),
           IF op = "not" THEN 1 - src[1][i + 1] ELSE src[1][i + 1], Tail(src))

\* bitopCommand: blocks of longs while all the sources last, then single bytes.
BitopResult(op, src) ==
  LET Shorter(x, y) == IF x < y THEN x ELSE y
      Longer(x, y) == IF x < y THEN y ELSE x
      lens == [j \in DOMAIN src |-> Len(src[j])]
      minlen == FoldLeft(Shorter, lens[1], lens)
      maxlen == FoldLeft(Longer, 0, lens)
      block == BITOP_LONGS * LONG_BYTES * BYTE_BITS
      fast == IF Len(src) <= BITOP_KEYS THEN (minlen \div block) * block ELSE 0
  IN  [i \in 1..maxlen |-> IF i <= fast THEN FastBit(op, src, i - 1) ELSE OutputBit(op, src, i - 1)]

\* The target is the string itself; an empty result deletes it.
bitopCommand(op, src) == bmap' = BitopResult(op, src) /\ UNCHANGED bshift

(***************************************************************************)
(* Reads.                                                                  *)
(***************************************************************************)
Byte(s, i) == SubSeq(s, i * BYTE_BITS + 1, (i + 1) * BYTE_BITS)
Bytes(s) == Len(s) \div BYTE_BITS
BytesEqual(s, from, n, bit) == \A i \in from..(from + n - 1) : Byte(s, i) = [j \in 1..BYTE_BITS |-> bit]

getbitCommand(s, offset) == IF offset \div BYTE_BITS < Bytes(s) THEN s[offset + 1] ELSE 0

\* redisPopcount on count bytes from start: bytes up to an aligned address, then
\* blocks, each with a sum that can wrap, then the remaining bytes.
BitsIn(s, from, n) == FoldLeft(LAMBDA sum, b : sum + b, 0, SubSeq(s, from * BYTE_BITS + 1, (from + n) * BYTE_BITS))
redisPopcount(s, start, count) ==
  LET unaligned == (-start) % POP_ALIGN
      head == IF unaligned < count THEN unaligned ELSE count
      blocks == (count - head) \div POP_BYTES
      rest == start + head + blocks * POP_BYTES
      Block(k) == BitsIn(s, start + head + (k - 1) * POP_BYTES, POP_BYTES) % 2^POP_BITS
  IN  BitsIn(s, start, head) + FoldLeft(LAMBDA sum, k : sum + Block(k), 0, [k \in 1..blocks |-> k])
        + BitsIn(s, rest, start + count - rest)

\* redisBitpos on count bytes from start: bytes up to an aligned address, then
\* longs, as long as they hold no such bit; the rest of one long, zero padded.
RECURSIVE SkipBytes(_, _, _, _)
SkipBytes(s, at, end, bit) ==
  IF at % LONG_BYTES # 0 /\ at < end /\ BytesEqual(s, at, 1, 1 - bit)
  THEN SkipBytes(s, at + 1, end, bit) ELSE at
RECURSIVE SkipLongs(_, _, _, _)
SkipLongs(s, at, end, bit) ==
  IF end - at >= LONG_BYTES /\ BytesEqual(s, at, LONG_BYTES, 1 - bit)
  THEN SkipLongs(s, at + LONG_BYTES, end, bit) ELSE at
redisBitpos(s, start, count, bit) ==
  LET end == start + count
      at == SkipLongs(s, SkipBytes(s, start, end, bit), end, bit)
      word == [i \in 0..(LONG_BYTES * BYTE_BITS - 1) |->
                 IF at * BYTE_BITS + i < end * BYTE_BITS THEN BitAt(s, at * BYTE_BITS + i) ELSE 0]
      found == {i \in DOMAIN word : word[i] = bit}
  IN  IF bit = 1 /\ found = {} THEN -1
      ELSE (at - start) * BYTE_BITS + CHOOSE i \in found : \A j \in found : i <= j

\* The range of bitcountCommand and bitposCommand.
RangeStart(n, start) == IF start < 0 THEN (IF n + start < 0 THEN 0 ELSE n + start) ELSE start
RangeEnd(n, end) ==
  LET e == IF end < 0 THEN (IF n + end < 0 THEN 0 ELSE n + end) ELSE end IN IF e >= n THEN n - 1 ELSE e

\* bitcountCommand; without a range it is called with 0 and the last byte.
bitcountCommand(s, start, end) ==
  LET from == RangeStart(Bytes(s), start)
      to == RangeEnd(Bytes(s), end)
  IN  IF (start < 0 /\ end < 0 /\ start > end) \/ from > to THEN 0
      ELSE redisPopcount(s, from, to - from + 1)

\* Mutant: a range that ends with ones is taken for zero padded.
BitposPadded(s, bit, start, end, given) ==
  LET from == RangeStart(Bytes(s), start)
      to == RangeEnd(Bytes(s), end)
      pos == redisBitpos(s, from, to - from + 1, bit)
  IN  IF from > to THEN -1 ELSE IF pos # -1 THEN pos + from * BYTE_BITS ELSE pos

\* bitposCommand
bitposCommand(s, bit, start, end, given) ==
  LET from == RangeStart(Bytes(s), start)
      to == RangeEnd(Bytes(s), end)
      bytes == to - from + 1
      pos == redisBitpos(s, from, bytes, bit)
  IN  IF from > to THEN -1
      ELSE IF given /\ bit = 0 /\ pos = bytes * BYTE_BITS THEN -1
      ELSE IF pos # -1 THEN pos + from * BYTE_BITS ELSE pos

BitopsInit == bmap = <<>> /\ bshift \in FullShift

BitopsNext ==
  \/ \E ops \in BitCommands : bitfieldCommand(ops, 0)
  \/ \E ops \in {x \in BitCommands : ~LastReachesFarthest(x)} : bitfieldCommand(ops, 1)
  \/ \E offset \in 0..(MaxBits - 1), on \in {0, 1} : setbitCommand(offset, on)
  \/ \E op \in {"and", "or", "xor"}, s \in Sources : bitopCommand(op, <<s, bmap>>)
  \/ \E s \in Sources \cup {bmap} : bitopCommand("not", <<s>>)

(***************************************************************************)
(* Properties.                                                             *)
(***************************************************************************)
\* The reference: a field is an integer, an operation is arithmetic on integers
\* without a width, brought back into the range of the type.
Field(f, o) ==
  LET u == FoldLeft(LAMBDA v, j : 2 * v + f[o.offset + j - 1], 0, [j \in 1..o.bits |-> j])
  IN  IF o.sign /\ f[o.offset] = 1 THEN u - 2^o.bits ELSE u
Lowest(o) == IF o.sign THEN -(2^(o.bits - 1)) ELSE 0
Highest(o) == IF o.sign THEN 2^(o.bits - 1) - 1 ELSE 2^o.bits - 1
\* A SET so far below the least value of a field that the greatest one is more
\* than an integer away.
FarBelow(o, r) == o.op = "set" /\ o.bits < INT_BITS /\ Highest(o) - r >= Modulus \div 2
Brought(o, r) ==
  CASE r >= Lowest(o) /\ r <= Highest(o) -> <<r>>
    [] o.ow = "fail" -> <<>>
    [] o.ow = "wrap" -> <<CHOOSE v \in Lowest(o)..Highest(o) : (v - r) % 2^o.bits = 0>>
    [] r > Highest(o) \/ FarBelow(o, r) -> <<Highest(o)>>
    [] OTHER -> <<Lowest(o)>>
Reference(w, o) ==
  LET old == Field(w.f, o)
      given == IF o.sign \/ o.op = "incrby" THEN o.i64 ELSE AsUnsigned(o.i64)
      new == Brought(o, IF o.op = "incrby" THEN old + given ELSE given)
  IN  IF o.op = "get" THEN [w EXCEPT !.replies = Append(@, <<old>>)]
      ELSE IF new = <<>> THEN [w EXCEPT !.replies = Append(@, <<>>)]
      ELSE [f |-> [i \in DOMAIN w.f |-> IF i >= o.offset /\ i < o.offset + o.bits
                                        THEN BitNo(new[1] - Lowest(o) + (IF o.sign THEN 2^(o.bits - 1) ELSE 0),
                                                   o.bits - 1 - (i - o.offset))
                                        ELSE w.f[i]],
            replies |-> Append(w.replies, <<IF o.op = "incrby" THEN new[1] ELSE old>>)]

\* What BITFIELD leaves and replies is what arithmetic on integers would: no
\* result is off by a wrap of the 64 bit integers it is computed with, and
\* nothing but the fields changes.  Three things are not so: a SET with SAT of a
\* value far below the field saturates at the wrong end, since max-value wraps
\* (bitops.c:328, 333; FarBelow in the reference), and memory behind the string
\* is read and written, but only by a command whose last write is not the one
\* that reaches farthest (bitops.c:960, against the comment at 987).  And a field
\* of the full width is exact only if the build gives 0 for the shift by that
\* width, which C leaves undefined (bitops.c:254, 352).
BitfieldIsArithmetic ==
  \A ops \in BitCommands :
    LET far == 0..(MaxBits + 2 * INT_BITS)
        is == BitfieldResult(bmap, ops, 0)
        should == FoldLeft(Reference, [f |-> [i \in far |-> BitAt(bmap, i)], replies |-> <<>>], ops)
    IN  IF is.outside THEN ~LastReachesFarthest(ops)
        ELSE (bshift = 0 \/ \A i \in 1..Len(ops) : ops[i].bits < INT_BITS)
             => is.replies = should.replies /\ \A i \in far : BitAt(is.s, i) = should.f[i]

\* BITOP is the operation on every bit, as if all the sources were as long as
\* the longest one, wherever the blocks end and however many sources there are;
\* a block is never read past the end of a source.
BitopIsBitwise ==
  LET Lists == {<<bmap>>} \cup {<<bmap, s>> : s \in Sources} \cup {<<s, bmap, t>> : s, t \in Sources}
      Ones(src, i) == {j \in DOMAIN src : BitAt(src[j], i) = 1}
      Should(op, src, i) ==
        CASE op = "and" -> Ones(src, i) = DOMAIN src
          [] op = "or" -> Ones(src, i) # {}
          [] op = "xor" -> Cardinality(Ones(src, i)) % 2 = 1
          [] OTHER -> Ones(src, i) = {}
  IN  \A op \in {"and", "or", "xor", "not"}, src \in Lists : op # "not" \/ Len(src) = 1 =>
        LET result == BitopResult(op, src)
        IN  /\ \A j \in DOMAIN src : Len(src[j]) <= Len(result)
            /\ \E j \in DOMAIN src : Len(src[j]) = Len(result)
            /\ \A i \in 0..(Len(result) - 1) : result[i + 1] = IF Should(op, src, i) THEN 1 ELSE 0

\* BITCOUNT counts the ones that GETBIT shows in the bytes of the range, each
\* once, for every alignment of the start; a range that ends before the string
\* begins is one of its first byte.
BitcountIsExact ==
  LET n == Bytes(bmap)
  IN  \A start \in -(n + 1)..(n + 1), end \in -(n + 1)..(n + 1) :
        bitcountCommand(bmap, start, end) =
          IF start < 0 /\ end < start THEN 0
          ELSE Cardinality({p \in (RangeStart(n, start) * BYTE_BITS)..((RangeEnd(n, end) + 1) * BYTE_BITS - 1) :
                              getbitCommand(bmap, p) = 1})

\* BITPOS finds the first such bit of the range, whatever the alignment; past
\* the string there are zeros unless the range's end was given.
BitposIsFirst ==
  LET n == Bytes(bmap)
  IN  \A bit \in {0, 1}, start \in -(n + 1)..(n + 1), end \in -(n + 1)..(n + 1), given \in BOOLEAN :
        LET from == RangeStart(n, start)
            to == RangeEnd(n, IF given THEN end ELSE n - 1)
            hits == {p \in (from * BYTE_BITS)..((to + 1) * BYTE_BITS - 1) : BitAt(bmap, p) = bit}
        IN  bitposCommand(bmap, bit, start, IF given THEN end ELSE n - 1, given) =
              IF hits # {} THEN CHOOSE p \in hits : \A q \in hits : p <= q
              ELSE IF bit = 0 /\ ~given /\ from <= to THEN (to + 1) * BYTE_BITS ELSE -1
=============================================================================
