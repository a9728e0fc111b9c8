-------------------------------- MODULE Bits --------------------------------
(***************************************************************************)
(* The bitstream writer that every codec shares and the reader of HEVC     *)
(* slice headers (bitwriter.h): fixed-width fields, Exp-Golomb codes, the  *)
(* AV1 codes, and emulation prevention.  What reads the AV1 codes is a     *)
(* decoder (external, AV1 specification 4.10).                             *)
(*                                                                         *)
(* A bitstream is a sequence of 0 and 1.  `position_` is the index of the  *)
(* next bit; what one reads is a record of the value and the next index.   *)
(*                                                                         *)
(* X_f is a mutant of f: a bug the code could have.  Nothing uses it.      *)
(***************************************************************************)
EXTENDS Integers, Sequences
LOCAL INSTANCE SequencesExt

CONSTANTS
  WordBits,         \* width of uint32_t
  Values,           \* bound: values written
  NalBytes,         \* bound: byte values of raw payloads
  MaxBytes,         \* bound: bytes of a raw payload
  MaxItems          \* bound: items in one NAL unit

ASSUME BitsAssumption ==
  /\ WordBits \in Nat \ {0} /\ Values \subseteq 0 .. 2^WordBits - 1
  /\ NalBytes \subseteq 0 .. 255 /\ MaxBytes \in Nat /\ MaxItems \in Nat

VARIABLES
  items,            \* what has been written (ghost)
  data,             \* data_ of the writer, as bits
  nal               \* the NAL unit made of it, None before

bitsVars == <<items, data, nal>>
-----------------------------------------------------------------------------
(* BitWriter                                                               *)

\* bits: the low `count` bits of value, the most significant one first.
bits(value, count) == [i \in 1 .. count |-> (value \div 2^(count - i)) % 2]
Zeros(n) == [i \in 1 .. n |-> 0]

\* Number of bits of n, 0 for 0.
Width(n) == CHOOSE w \in 0 .. WordBits + 1 : n < 2^w /\ (w = 0 \/ 2^(w - 1) <= n)

\* value + 1 wraps for the largest value, which writes nothing at all.
ue(value) ==
  LET code_num == (value + 1) % 2^WordBits
      width    == Width(code_num)
  IN IF width = 0 THEN <<>> ELSE Zeros(width - 1) \o bits(code_num, width)
se(value) == ue(IF value > 0 THEN 2 * value - 1 ELSE -2 * value)

su(value, count) == bits(value % 2^count, count)

ns(value, n) ==
  LET w == Width(n)
      m == 2^w - n
  IN IF n <= 1 THEN <<>>
     ELSE IF value < m THEN bits(value, w - 1) ELSE bits(value + m, w)

\* le: little-endian bytes.
le(value, bytes) == FlattenSeq([i \in 1 .. bytes |-> bits(value \div 2^(8 * (i - 1)), 8)])

\* leb128: as many groups of seven bits as the value has, one for 0.
leb128(value) ==
  LET Groups(v) == CHOOSE g \in 1 .. WordBits : v < 2^(7 * g) /\ (g = 1 \/ 2^(7 * (g - 1)) <= v)
      n == Groups(value)
  IN FlattenSeq([i \in 1 .. n |->
       bits(((value \div 2^(7 * (i - 1))) % 128) + IF i < n THEN 128 ELSE 0, 8)])

byte_align(d)    == d \o Zeros((-Len(d)) % 8)
trailing_bits(d) == byte_align(d \o <<1>>)

\* The bytes of an aligned stream.
FromBits(s) == FoldLeft(LAMBDA a, b : 2 * a + b, 0, s)
Octets(d) == [i \in 1 .. Len(d) \div 8 |-> FromBits(SubSeq(d, 8 * i - 7, 8 * i))]

\* append_escaped_nal, after the start code and the header.
X_append_escaped_nal(bytes) ==
  FoldLeft(LAMBDA a, byte :
             LET escape == a.zero_count >= 2 /\ byte < 3
             IN [stream |-> a.stream \o (IF escape THEN <<3>> ELSE <<>>) \o <<byte>>,
                 zero_count |-> IF byte # 0 THEN 0 ELSE IF escape THEN 1 ELSE a.zero_count + 1],
           [stream |-> <<>>, zero_count |-> 0], bytes).stream
append_escaped_nal(bytes) ==
  FoldLeft(LAMBDA a, byte :
             LET escape == a.zero_count >= 2 /\ byte <= 3
             IN [stream |-> a.stream \o (IF escape THEN <<3>> ELSE <<>>) \o <<byte>>,
                 zero_count |-> IF byte # 0 THEN 0 ELSE IF escape THEN 1 ELSE a.zero_count + 1],
           [stream |-> <<>>, zero_count |-> 0], bytes).stream
-----------------------------------------------------------------------------
(* BitReader                                                               *)

\* The constructor, for a NAL whose header has been stripped.
BitReader(bytes) ==
  FlattenSeq(FoldLeft(LAMBDA a, byte :
    IF a.zeros = 2 /\ byte = 3 THEN [a EXCEPT !.zeros = 0]
    ELSE [out |-> Append(a.out, bits(byte, 8)), zeros |-> IF byte = 0 THEN a.zeros + 1 ELSE 0],
    [out |-> <<>>, zeros |-> 0], bytes).out)

\* bit: past the end there are zeros.
bit(s, p) == IF p \in DOMAIN s THEN s[p] ELSE 0
read_bits(s, p, count) ==
  [value |-> FromBits([i \in 1 .. count |-> bit(s, p + i - 1)]), next |-> p + count]

\* The prefix ends at a one, or after as many zeros as a word has bits; for
\* those the shift would be undefined.
read_ue(s, p) ==
  LET zeros == CHOOSE z \in 0 .. WordBits :
                 (z = WordBits \/ bit(s, p + z) = 1) /\ \A y \in 0 .. z - 1 : bit(s, p + y) = 0
      rest  == read_bits(s, p + zeros + 1, zeros)
  IN [rest EXCEPT !.value = 2^zeros - 1 + @]
read_se(s, p) ==
  LET code == read_ue(s, p)
  IN [code EXCEPT !.value = IF @ % 2 = 1 THEN (@ + 1) \div 2 ELSE -(@ \div 2)]

\* Bits of an index below n.
nal_ceil_log2(n) == Width(IF n = 0 THEN 0 ELSE n - 1)

\* The AV1 codes, as a decoder reads them.
read_su(s, p, count) ==
  LET u == read_bits(s, p, count)
  IN [u EXCEPT !.value = IF @ >= 2^(count - 1) THEN @ - 2^count ELSE @]
read_ns(s, p, n) ==
  LET w == Width(n)
      m == 2^w - n
      v == read_bits(s, p, w - 1)
  IN IF n <= 1 THEN [value |-> 0, next |-> p]
     ELSE IF v.value < m THEN v
     ELSE [value |-> 2 * v.value - m + bit(s, v.next), next |-> v.next + 1]
read_le(s, p, bytes) ==
  [value |-> FoldRight(LAMBDA b, a : 256 * a + b, Octets(SubSeq(s, p, p + 8 * bytes - 1)), 0),
   next |-> p + 8 * bytes]
read_leb128(s, p) ==
  LET n == CHOOSE g \in 1 .. WordBits : bit(s, p + 8 * (g - 1)) = 0
                                        /\ \A h \in 1 .. g - 1 : bit(s, p + 8 * (h - 1)) = 1
  IN [value |-> FoldRight(LAMBDA b, a : 128 * a + (b % 128),
                          Octets(SubSeq(s, p, p + 8 * n - 1)), 0),
      next |-> p + 8 * n]
-----------------------------------------------------------------------------
(* A NAL unit is written item by item, and read back by another.  `n` is   *)
(* the width or the range of the codes that have one.                      *)

Item(op, values, ns_) == {[op |-> op, value |-> v, n |-> n] : v \in values, n \in ns_}
Items ==
  Item("bits", Values, {WordBits}) \cup Item("bits", {0}, {20, 24}) \cup
  Item("ue", Values \ {2^WordBits - 1}, {0}) \cup Item("leb128", Values, {0}) \cup
  Item("se", {v \in Values : v < 2^(WordBits - 1)} \cup
             {-v : v \in {x \in Values : x < 2^(WordBits - 1)}}, {0}) \cup
  Item("su", -4 .. 3, {3}) \cup Item("le", Values, {WordBits \div 8}) \cup
  UNION {Item(op, 0 .. n - 1, {n}) : op \in {"ns", "index"}, n \in 1 .. 6}
Payloads == UNION {[1 .. n -> NalBytes] : n \in 0 .. MaxBytes}

Written(i) ==
  CASE i.op = "bits" -> bits(i.value, i.n)  [] i.op = "ue" -> ue(i.value)
    [] i.op = "se" -> se(i.value)           [] i.op = "su" -> su(i.value, i.n)
    [] i.op = "ns" -> ns(i.value, i.n)      [] i.op = "le" -> le(i.value, i.n)
    [] i.op = "leb128" -> leb128(i.value)   [] i.op = "index" -> bits(i.value, nal_ceil_log2(i.n))
Read(i, s, p) ==
  CASE i.op = "bits" -> read_bits(s, p, i.n) [] i.op = "ue" -> read_ue(s, p)
    [] i.op = "se" -> read_se(s, p)          [] i.op = "su" -> read_su(s, p, i.n)
    [] i.op = "ns" -> read_ns(s, p, i.n)     [] i.op = "le" -> read_le(s, p, i.n)
    [] i.op = "leb128" -> read_leb128(s, p)
    [] i.op = "index" -> read_bits(s, p, nal_ceil_log2(i.n))

BitsInit == items = <<>> /\ data = <<>> /\ nal = <<>>

write(i) ==
  /\ nal = <<>> /\ Len(items) < MaxItems /\ (items = <<>> => data = <<>>)
  /\ items' = Append(items, i) /\ data' = data \o Written(i) /\ UNCHANGED nal

\* bytes: a raw payload.
bytes_(payload) ==
  /\ data = <<>> /\ items = <<>>
  /\ data' = FlattenSeq([i \in DOMAIN payload |-> bits(payload[i], 8)])
  /\ UNCHANGED <<items, nal>>

\* Every writer of a NAL unit ends it in this way.
finish_nal ==
  /\ nal = <<>> /\ data # <<>>
  /\ data' = trailing_bits(data)
  /\ nal' = append_escaped_nal(Octets(data'))
  /\ UNCHANGED items

BitsNext ==
  \/ \E i \in Items : write(i)
  \/ \E payload \in Payloads : bytes_(payload)
  \/ finish_nal
BitsSpec == BitsInit /\ [][BitsNext]_bitsVars
-----------------------------------------------------------------------------
\* What has been written is read back, item after item, wherever the bits of
\* each start; no byte sequence in the NAL unit looks like a start code, and
\* stripping emulation prevention gives the bytes of the writer again, also
\* where a 3 of the payload follows two zeros (bitwriter.h:196, 128).  The one
\* value that ue() cannot write, 2^32 - 1, is not among the items.
ReadsBack(s) ==
  LET After[k \in 0 .. Len(items)] ==
        IF k = 0 THEN 1 ELSE Read(items[k], s, After[k - 1]).next
  IN \A k \in DOMAIN items : Read(items[k], s, After[k - 1]).value = items[k].value
NoStartCode ==
  \A i \in 3 .. Len(nal) : ~(nal[i - 2] = 0 /\ nal[i - 1] = 0 /\ nal[i] < 3)
BitsReadBack ==
  /\ ReadsBack(data)
  /\ nal # <<>> => NoStartCode /\ BitReader(nal) = data
=============================================================================
