---------------------------- MODULE BufferProofs ----------------------------
(* Where pictures lie in their buffers (Layout): the bounds of the copies,  *)
(* for every geometry, every format the kernel may grant and every width of *)
(* the machine's `unsigned`.  And how buffers go to the decoder node        *)
(* (Device): for any number of paths and of buffers.                        *)
EXTENDS Layout, Device, TLAPS

\* What the code computes in `unsigned` is a number of that range, and the sum
\* itself when it does not wrap.
LEMMA Wraps ==
  ASSUME NEW x \in Nat
  PROVE  /\ x % Word \in 0..(Word - 1)
         /\ x < Word => x % Word = x
<1>1. Word \in Nat /\ Word > 0
  BY LayoutAssumption
<1> QED BY <1>1

\* Rounding up never goes below nothing, and rounding a width up to a whole
\* chroma pair never goes below the width unless it wraps (Even in publish.cc).
LEMMA Rounding ==
  ASSUME NEW x \in Nat
  PROVE  /\ AlignUp(x, 32) \in Nat /\ AlignUp(x, 16) \in Nat
         /\ AlignUp(x, 128) \in Nat /\ AlignUp(x, 256) \in Nat
         /\ Even(x) \in Nat /\ Half(x) \in Nat
         /\ x + 1 < Word => x <= Even(x)
<1>1. Word \in Nat /\ Word > 0
  BY LayoutAssumption
<1>2. ASSUME NEW a \in {2, 16, 32, 128, 256} PROVE AlignUp(x, a) \in Nat
  <2>1. x + a - 1 \in Nat
    BY <1>2
  <2>2. PICK y \in Nat : y = (x + a - 1) % Word
    BY <2>1, <1>1, Wraps
  <2>3. y - (y % a) \in Nat
    BY <1>2
  <2> QED BY <2>2, <2>3 DEF AlignUp
<1>3. Half(x) \in Nat
  <2>1. PICK y \in Nat : y = (x + 1) % Word
    BY <1>1, Wraps
  <2>2. y \div 2 \in Nat
    OBVIOUS
  <2> QED BY <2>1, <2>2 DEF Half
<1>4. ASSUME x + 1 < Word PROVE x <= Even(x)
  <2>1. (x + 2 - 1) % Word = x + 1
    BY <1>4, <1>1, Wraps
  <2>2. x <= (x + 1) - ((x + 1) % 2)
    OBVIOUS
  <2> QED BY <2>1, <2>2 DEF Even, AlignUp
<1> QED BY <1>2, <1>3, <1>4 DEF Even

\* The layouts a surface, the pool and its frames may have.
Planes == [bytes : Bytes, width : Nat, height : Nat, stride : Nat,
           storage_height : Nat, data_offset : Nat, size : Unsigned]

\* The size is a number too.
LEMMA PlaneNumbers ==
  ASSUME NEW l \in Planes
  PROVE  /\ l.bytes \in {1, 2} /\ l.width \in Nat /\ l.height \in Nat
         /\ l.stride \in Nat /\ l.storage_height \in Nat /\ l.data_offset \in Nat
         /\ l.size \in Nat /\ l.size < Word
BY LayoutAssumption DEF Planes, Bytes, Unsigned

\* When the end of the last chroma row passes validate(), every other row of
\* both planes is inside too: the code checks no other one (publish.cc:17-25).
LEMMA LastRowSuffices ==
  ASSUME NEW l \in Planes, NEW w \in Nat, NEW h \in Nat,
         CpuFits(l, w, h), w + 1 < Word,
         l.data_offset + l.stride * l.storage_height < Word
  PROVE  Inside(l, w, h)
<1> DEFINE s == l.stride
           b == l.bytes
           e == Even(w)
           k == Half(h)
           d == l.data_offset
           o == chroma_offset(l)
<1>1. s \in Nat /\ b \in {1, 2} /\ l.storage_height \in Nat /\ l.size \in Nat /\ d \in Nat
  BY PlaneNumbers
<1>2. e \in Nat /\ k \in Nat /\ w <= e
  BY Rounding
<1>3. o = d + s * l.storage_height
  <2>1. d + s * l.storage_height \in Nat
    BY <1>1
  <2> QED BY <2>1, Wraps DEF chroma_offset
<1>4. h <= l.storage_height /\ e * b <= s /\ o + (k - 1) * s + e * b <= l.size
  BY DEF CpuFits
<1>5. w * b <= e * b /\ e * b \in Nat /\ w * b \in Nat
  BY <1>1, <1>2
<1>6. ASSUME NEW r \in 0..(h - 1) PROVE d + r * s + w * b <= o
  <2>1. r + 1 <= l.storage_height /\ r \in Nat
    BY <1>4, <1>1
  <2>2. r * s + s <= l.storage_height * s
    BY <2>1, <1>1
  <2>3. r * s \in Nat /\ d + l.storage_height * s = o /\ l.storage_height * s \in Nat
    BY <2>1, <1>1, <1>3
  <2> HIDE DEF s, b, e, o, d
  <2> QED BY <2>2, <2>3, <1>1, <1>4, <1>5, <1>2
<1>7. ASSUME NEW r \in 0..(k - 1) PROVE o + r * s + e * b <= l.size
  <2>1. r \in Nat /\ k - 1 \in Nat /\ r <= k - 1
    BY <1>2
  <2>2. r * s <= (k - 1) * s
    BY <2>1, <1>1
  <2>3. r * s \in Nat /\ (k - 1) * s \in Nat /\ o \in Nat
    BY <2>1, <1>1, <1>3
  <2> HIDE DEF s, b, e, o, k, d
  <2> QED BY <2>2, <2>3, <1>1, <1>4, <1>5
<1> QED BY <1>4, <1>6, <1>7 DEF Inside
-----------------------------------------------------------------------------
(* What the state is, whatever happens to it.                              *)

\* stable_layout and configure_capture fill every field with a number of its
\* kind.
LEMMA PlanesFilled ==
  /\ \A b \in Bytes, w \in Widths, h \in Heights :
       StableTotal(b, w, h) < Word => stable_layout(b, w, h) \in Planes
  /\ \A g \in Grants : capture_layout(g) \in Planes
<1>1. /\ Word \in Nat /\ Word > 0 /\ Widths \subseteq Nat \ {0}
      /\ Heights \subseteq Nat \ {0} /\ Unsigned \subseteq Nat
  BY LayoutAssumption DEF Unsigned
<1>2. ASSUME NEW b \in Bytes, NEW w \in Widths, NEW h \in Heights, StableTotal(b, w, h) < Word
      PROVE  stable_layout(b, w, h) \in Planes
  <2>1. w \in Nat /\ h \in Nat /\ b \in {1, 2}
    BY <1>1, <1>2 DEF Bytes
  <2>2. (w * b) % Word \in Nat
    <3>1. w * b \in Nat
      BY <2>1
    <3> QED BY <3>1, <1>1, Wraps
  <2>3. StablePitch(b, w) \in Nat
    <3>1. AlignUp((w * b) % Word, 128) \in Nat /\ AlignUp((w * b) % Word, 256) \in Nat
      BY <2>2, Rounding
    <3>2. 128 * b = 128 \/ 128 * b = 256
      BY <2>1
    <3> QED BY <3>1, <3>2 DEF StablePitch
  <2>4. AlignUp(h, 32) \in Nat /\ ChromaRows(h) \in Nat
    <3>1. Half(h) \in Nat
      BY <2>1, Rounding
    <3> QED BY <3>1, <2>1, Rounding DEF ChromaRows
  <2>5. StableTotal(b, w, h) \in Nat
    <3>1. PICK n \in Nat : n = StablePitch(b, w) * (AlignUp(h, 32) + ChromaRows(h)) + 4095
      BY <2>3, <2>4
    <3>2. n - (n % 4096) \in Nat
      OBVIOUS
    <3> QED BY <3>1, <3>2 DEF StableTotal
  <2>6. StableTotal(b, w, h) \in Unsigned
    BY <1>1, <1>2, <2>5 DEF Unsigned
  <2> QED BY <2>1, <2>3, <2>4, <2>6 DEF stable_layout, Planes, Bytes
<1>3. ASSUME NEW g \in Grants PROVE capture_layout(g) \in Planes
  <2>1. g \in [bytes : {1, 2}, width : Unsigned, height : Unsigned,
                stride : Unsigned, size : Unsigned]
    BY LayoutAssumption
  <2>2. AlignUp(g.height, 32) \in Nat
    BY <1>1, <2>1, Rounding
  <2> QED BY <1>1, <2>1, <2>2 DEF capture_layout, Planes, Bytes
<1> QED BY <1>2, <1>3

\* The layout of a surface comes from stable_layout, that of the pool and of its
\* frames from configure_capture and that of an image from fill_image, and nothing
\* changes one afterwards, but for what the kernel says of each frame.
Derived ==
  /\ stable # None => \E b \in Bytes, w \in Widths, h \in Heights :
                        stable = stable_layout(b, w, h) /\ StableTotal(b, w, h) < Word
  /\ capture # None => \E g \in Grants : capture = capture_layout(g)
  /\ frame # None => \E g \in Grants, length \in Lengths, offset \in Offsets :
       frame = [capture_layout(g) EXCEPT !.size = length, !.data_offset = offset]
  /\ image # None => \E b \in Bytes, w \in Widths, h \in Heights :
                       image = fill_image(b, w, h)

\* ensure_stable, configure_capture, the completions and createImage are the only
\* ones to write them.
LEMMA AlwaysDerived == LayoutSpec => []Derived
<1>1. LayoutInit => Derived
  BY DEF LayoutInit, Derived
<1>2. Derived /\ [LayoutNext]_layoutVars => Derived'
  <2> SUFFICES ASSUME Derived, [LayoutNext]_layoutVars PROVE Derived'
    OBVIOUS
  <2>1. ASSUME NEW b \in Bytes, NEW w \in Widths, NEW h \in Heights, Allocate(b, w, h)
        PROVE  Derived'
    BY <2>1 DEF Allocate, Derived
  <2>2. ASSUME NEW g \in Grants, Configure(g) PROVE Derived'
    BY <2>2 DEF Configure, Derived
  <2>3. ASSUME NEW b \in Bytes, NEW w \in Widths, NEW h \in Heights, createImage(b, w, h)
        PROVE  Derived'
    BY <2>3 DEF createImage, Derived
  <2>4. CASE Destroy
    BY <2>4 DEF Destroy, Derived
  <2>5. CASE UNCHANGED layoutVars
    BY <2>5 DEF layoutVars, Derived
  <2>6. ASSUME NEW length \in Lengths, NEW offset \in Offsets, Complete(length, offset)
        PROVE  Derived'
    BY <2>6 DEF Complete, Derived
  <2>7. CASE Drop
    BY <2>7 DEF Drop, Derived
  <2> QED BY <2>1, <2>2, <2>3, <2>4, <2>5, <2>6, <2>7 DEF LayoutNext
<1> QED BY <1>1, <1>2, PTL DEF LayoutSpec

\* So they are layouts of numbers, and the chroma of a frame begins as many rows
\* down as the pool's: a multiple of 32.
LEMMA DerivedPlanes ==
  ASSUME Derived
  PROVE  /\ stable # None => stable \in Planes /\ stable.storage_height = AlignUp(stable.height, 32)
         /\ capture # None => /\ capture \in Planes /\ capture.data_offset = 0
                              /\ capture.storage_height = AlignUp(capture.height, 32)
         /\ frame # None => frame \in Planes /\ frame.storage_height = AlignUp(frame.height, 32)
<1>1. ASSUME stable # None
      PROVE  stable \in Planes /\ stable.storage_height = AlignUp(stable.height, 32)
  <2>1. PICK b \in Bytes, w \in Widths, h \in Heights :
          stable = stable_layout(b, w, h) /\ StableTotal(b, w, h) < Word
    BY <1>1 DEF Derived
  <2>2. stable_layout(b, w, h) \in Planes
    BY <2>1, PlanesFilled
  <2>3. stable.storage_height = AlignUp(stable.height, 32)
    BY <2>1 DEF stable_layout
  <2> QED BY <2>1, <2>2, <2>3
<1>2. ASSUME capture # None
      PROVE  /\ capture \in Planes /\ capture.data_offset = 0
             /\ capture.storage_height = AlignUp(capture.height, 32)
  <2>1. PICK g \in Grants : capture = capture_layout(g)
    BY <1>2 DEF Derived
  <2>2. capture_layout(g) \in Planes
    BY PlanesFilled
  <2>3. capture.data_offset = 0 /\ capture.storage_height = AlignUp(capture.height, 32)
    BY <2>1 DEF capture_layout
  <2> QED BY <2>1, <2>2, <2>3
<1>3. ASSUME frame # None
      PROVE  frame \in Planes /\ frame.storage_height = AlignUp(frame.height, 32)
  <2>1. PICK g \in Grants, length \in Lengths, offset \in Offsets :
          frame = [capture_layout(g) EXCEPT !.size = length, !.data_offset = offset]
    BY <1>3 DEF Derived
  <2>2. length \in Unsigned /\ offset \in Nat
    BY LayoutAssumption DEF Unsigned
  <2>3. capture_layout(g) \in Planes
    BY PlanesFilled
  <2>4. frame \in Planes
    BY <2>1, <2>2, <2>3 DEF Planes
  <2>5. frame.storage_height = AlignUp(frame.height, 32)
    BY <2>1 DEF capture_layout
  <2> QED BY <2>4, <2>5
<1> QED BY <1>1, <1>2, <1>3
-----------------------------------------------------------------------------
\* No copy by the CPU engine leaves the rows of the frame it reads or of the
\* surface it writes, whatever format the kernel granted and whatever it says of
\* the buffer (publish.cc:17-25).
THEOREM CopyStaysInside == LayoutSpec => []CpuCopyInside
<1>1. Derived => CpuCopyInside
  <2> SUFFICES ASSUME Derived, stable # None, frame # None,
                      CpuFits(stable, stable.width, stable.height),
                      CpuFits(frame, stable.width, stable.height),
                      NEW l \in {stable, frame},
                      stable.width + 1 < Word,
                      l.data_offset + l.stride * l.storage_height < Word
               PROVE  Inside(l, stable.width, stable.height)
    BY DEF CpuCopyInside
  <2>1. stable \in Planes /\ frame \in Planes
    BY DerivedPlanes
  <2>2. stable.width \in Nat /\ stable.height \in Nat
    BY <2>1, PlaneNumbers
  <2> QED BY <2>1, <2>2, LastRowSuffices
<1> QED BY <1>1, AlwaysDerived, PTL
-----------------------------------------------------------------------------
(* The layouts the driver chooses itself, and the kernel's.                *)

\* A width or height that does not wrap rounds up to the next multiple
\* (align_up in alloc.cc).
LEMMA RoundsUp ==
  ASSUME NEW x \in Nat
  PROVE  /\ x + 32 <= Word => x <= AlignUp(x, 32) /\ AlignUp(x, 32) <= x + 31
         /\ x + 16 <= Word => x <= AlignUp(x, 16)
         /\ x + 128 <= Word => x <= AlignUp(x, 128) /\ AlignUp(x, 128) % 128 = 0
         /\ x + 256 <= Word => x <= AlignUp(x, 256) /\ AlignUp(x, 256) % 256 = 0
         /\ x + 1 < Word => Even(x) = x + (x % 2) /\ Half(x) = (x + 1) \div 2
<1>1. Word \in Nat /\ Word > 0
  BY LayoutAssumption
<1>2. ASSUME x + 32 <= Word PROVE x <= AlignUp(x, 32) /\ AlignUp(x, 32) <= x + 31
  <2>1. (x + 32 - 1) % Word = x + 31
    BY <1>1, <1>2, Wraps
  <2>2. x <= (x + 31) - ((x + 31) % 32) /\ (x + 31) - ((x + 31) % 32) <= x + 31
    OBVIOUS
  <2> QED BY <2>1, <2>2 DEF AlignUp
<1>3. ASSUME x + 16 <= Word PROVE x <= AlignUp(x, 16)
  <2>1. (x + 16 - 1) % Word = x + 15
    BY <1>1, <1>3, Wraps
  <2>2. x <= (x + 15) - ((x + 15) % 16)
    OBVIOUS
  <2> QED BY <2>1, <2>2 DEF AlignUp
<1>4. ASSUME x + 128 <= Word PROVE x <= AlignUp(x, 128) /\ AlignUp(x, 128) % 128 = 0
  <2>1. (x + 128 - 1) % Word = x + 127
    BY <1>1, <1>4, Wraps
  <2>2. /\ x <= (x + 127) - ((x + 127) % 128)
        /\ ((x + 127) - ((x + 127) % 128)) % 128 = 0
    OBVIOUS
  <2> QED BY <2>1, <2>2 DEF AlignUp
<1>5. ASSUME x + 256 <= Word PROVE x <= AlignUp(x, 256) /\ AlignUp(x, 256) % 256 = 0
  <2>1. (x + 256 - 1) % Word = x + 255
    BY <1>1, <1>5, Wraps
  <2>2. /\ x <= (x + 255) - ((x + 255) % 256)
        /\ ((x + 255) - ((x + 255) % 256)) % 256 = 0
    OBVIOUS
  <2> QED BY <2>1, <2>2 DEF AlignUp
<1>6. ASSUME x + 1 < Word PROVE Even(x) = x + (x % 2) /\ Half(x) = (x + 1) \div 2
  <2>1. (x + 2 - 1) % Word = x + 1 /\ (x + 1) % Word = x + 1
    BY <1>1, <1>6, Wraps
  <2>2. (x + 1) - ((x + 1) % 2) = x + (x % 2)
    OBVIOUS
  <2> QED BY <2>1, <2>2 DEF Even, AlignUp, Half
<1> QED BY <1>2, <1>3, <1>4, <1>5, <1>6

\* The rows of a surface's buffer are wide enough for its pixels, for its last
\* chroma pair, and for either in whole texels (alloc.cc:56).
LEMMA RowsWideEnough ==
  ASSUME NEW b \in Bytes, NEW w \in Nat, w * b + 256 <= Word
  PROVE  /\ StablePitch(b, w) \in Nat /\ Even(w) = w + (w % 2)
         /\ w * b <= StablePitch(b, w) /\ Even(w) * b <= StablePitch(b, w)
         /\ Texels(w * b) * 4 <= StablePitch(b, w)
         /\ Texels(Even(w) * b) * 4 <= StablePitch(b, w)
<1>1. Word \in Nat /\ Word > 0
  BY LayoutAssumption
<1>2. CASE b = 1
  <2>1. w * b = w /\ w * 1 = w /\ w + 256 <= Word /\ w + 1 < Word
        /\ w + 128 <= Word /\ w < Word
    BY <1>1, <1>2
  <2>2. w % Word = w
    BY <2>1, Wraps
  <2>3. StablePitch(b, w) = AlignUp(w, 128)
    BY <2>1, <2>2, <1>2 DEF StablePitch
  <2>4. PICK p \in Nat : p = AlignUp(w, 128)
    BY Rounding
  <2>5. w <= p /\ p % 128 = 0
    BY <2>1, <2>4, RoundsUp
  <2>6. w + (w % 2) <= p /\ ((w + 3) \div 4) * 4 <= p
        /\ ((w + (w % 2) + 3) \div 4) * 4 <= p
    BY <2>5, <2>4
  <2>7. Even(w) = w + (w % 2) /\ Even(w) * b = w + (w % 2)
    BY <2>1, <1>2, RoundsUp
  <2> QED BY <2>1, <2>3, <2>4, <2>5, <2>6, <2>7 DEF Texels
<1>3. CASE b = 2
  <2>1. w * b = 2 * w /\ w * 2 = 2 * w /\ 2 * w + 256 <= Word /\ w + 1 < Word
        /\ 2 * w \in Nat /\ 2 * w < Word
    BY <1>1, <1>3
  <2>2. (2 * w) % Word = 2 * w
    BY <2>1, Wraps
  <2>3. StablePitch(b, w) = AlignUp(2 * w, 256)
    BY <2>1, <2>2, <1>3 DEF StablePitch
  <2>4. PICK p \in Nat : p = AlignUp(2 * w, 256)
    BY Rounding
  <2>5. 2 * w <= p /\ p % 256 = 0
    BY <2>1, <2>4, RoundsUp
  <2>6. 2 * (w + (w % 2)) <= p /\ ((2 * w + 3) \div 4) * 4 <= p
        /\ ((2 * (w + (w % 2)) + 3) \div 4) * 4 <= p
    BY <2>5, <2>4
  <2>7. Even(w) = w + (w % 2) /\ Even(w) * b = 2 * (w + (w % 2))
    <3>1. Even(w) = w + (w % 2)
      BY <2>1, RoundsUp
    <3>2. PICK n \in Nat : n = w + (w % 2)
      OBVIOUS
    <3>3. n * 2 = 2 * n
      OBVIOUS
    <3> QED BY <3>1, <3>2, <3>3, <1>3
  <2> QED BY <2>1, <2>3, <2>4, <2>5, <2>6, <2>7 DEF Texels
<1> QED BY <1>2, <1>3 DEF Bytes

\* A smaller width needs no more room: rounding to whole chroma pairs, and to
\* whole chroma rows, keeps the order.
LEMMA RoundingKeepsOrder ==
  ASSUME NEW x \in Nat, NEW y \in Nat, x <= y, y + 1 < Word
  PROVE  Even(x) <= Even(y) /\ Half(x) <= Half(y) /\ Even(y) <= y + 1
<1>1. Word \in Nat
  BY LayoutAssumption
<1>2. x + 1 < Word
  BY <1>1
<1>3. Even(x) = x + (x % 2) /\ Even(y) = y + (y % 2)
      /\ Half(x) = (x + 1) \div 2 /\ Half(y) = (y + 1) \div 2
  BY <1>2, RoundsUp
<1>4. x + (x % 2) <= y + (y % 2) /\ y + (y % 2) <= y + 1
      /\ (x + 1) \div 2 <= (y + 1) \div 2
  OBVIOUS
<1> QED BY <1>3, <1>4

\* Rounding up in `unsigned` counts blocks, as the kernel does, when nothing wraps;
\* and chroma has a block of 16 rows to each 32 of luma (alloc.cc:67-74).
LEMMA RoundsToBlocks ==
  ASSUME NEW b \in Bytes, NEW w \in Nat, NEW h \in Nat, NoWrap(b, w, h)
  PROVE  /\ Blocks(w, 128) \in Nat /\ Blocks(h, 32) \in Nat
         /\ StablePitch(b, w) = FirmwarePitch(b, w)
         /\ AlignUp(h, 32) = 32 * Blocks(h, 32)
         /\ ChromaRows(h) = 16 * Blocks(h, 32)
         /\ Blocks(Blocks(h, 2), 16) = Blocks(h, 32)
         /\ Half(h) = Blocks(h, 2) /\ Half(h) <= 16 * Blocks(h, 32)
<1>1. Word \in Nat /\ Word > 4096 /\ w * b + 256 <= Word /\ h + 32 <= Word /\ b \in {1, 2}
  BY LayoutAssumption DEF NoWrap, Bytes
<1>2. Blocks(w, 128) \in Nat /\ Blocks(h, 32) \in Nat
  BY DEF Blocks
<1>3. StablePitch(b, w) = FirmwarePitch(b, w)
  <2>1. CASE b = 1
    <3>1. w * b = w /\ w < Word /\ w + 128 <= Word
      BY <1>1, <2>1
    <3>2. w % Word = w /\ (w + 128 - 1) % Word = w + 127
      BY <1>1, <3>1, Wraps
    <3>3. (w + 127) - ((w + 127) % 128) = 128 * ((w + 127) \div 128)
      OBVIOUS
    <3>4. StablePitch(b, w) = (w + 127) - ((w + 127) % 128)
      BY <2>1, <3>1, <3>2 DEF StablePitch, AlignUp
    <3>5. FirmwarePitch(b, w) = 128 * ((w + 127) \div 128)
      BY <2>1 DEF FirmwarePitch, Blocks
    <3> QED BY <3>3, <3>4, <3>5
  <2>2. CASE b = 2
    <3>1. w * b = 2 * w /\ 2 * w < Word /\ 2 * w + 256 <= Word /\ 2 * w \in Nat
      BY <1>1, <2>2
    <3>2. (2 * w) % Word = 2 * w /\ (2 * w + 256 - 1) % Word = 2 * w + 255
      BY <1>1, <3>1, Wraps
    <3>3. (2 * w + 255) - ((2 * w + 255) % 256) = 256 * ((w + 127) \div 128)
      OBVIOUS
    <3>4. StablePitch(b, w) = (2 * w + 255) - ((2 * w + 255) % 256)
      BY <2>2, <3>1, <3>2 DEF StablePitch, AlignUp
    <3>5. FirmwarePitch(b, w) = 256 * ((w + 127) \div 128)
      BY <2>2 DEF FirmwarePitch, Blocks
    <3> QED BY <3>3, <3>4, <3>5
  <2> QED BY <1>1, <2>1, <2>2
<1>4. AlignUp(h, 32) = 32 * Blocks(h, 32)
  <2>1. (h + 32 - 1) % Word = h + 31
    BY <1>1, Wraps
  <2>2. (h + 31) - ((h + 31) % 32) = 32 * ((h + 31) \div 32)
    OBVIOUS
  <2> QED BY <2>1, <2>2 DEF AlignUp, Blocks
<1>5. Half(h) = (h + 1) \div 2 /\ Half(h) \in Nat /\ Half(h) + 16 <= Word
  <2>1. h + 1 < Word /\ (h + 1) % Word = h + 1
    BY <1>1, Wraps
  <2>2. Half(h) = (h + 1) \div 2
    BY <2>1 DEF Half
  <2> QED BY <1>1, <2>2
<1>6. ((h + 1) \div 2 + 15) \div 16 = (h + 31) \div 32
      /\ (h + 1) \div 2 <= 16 * ((h + 31) \div 32)
  OBVIOUS
<1>7. ChromaRows(h) = 16 * Blocks(h, 32)
  <2>1. PICK k \in Nat : k = Half(h)
    BY <1>5
  <2>2. (k + 16 - 1) % Word = k + 15
    BY <1>1, <1>5, <2>1, Wraps
  <2>3. (k + 15) - ((k + 15) % 16) = 16 * ((k + 15) \div 16)
    OBVIOUS
  <2>4. AlignUp(k, 16) = 16 * ((k + 15) \div 16)
    BY <2>2, <2>3 DEF AlignUp
  <2> QED BY <1>5, <1>6, <2>1, <2>4 DEF ChromaRows, Blocks
<1> QED BY <1>2, <1>3, <1>4, <1>5, <1>6, <1>7 DEF Blocks

\* What the kernel would make of a picture, in whole blocks: a page is at most
\* added to the rows of both planes.
LEMMA FirmwareRoom ==
  ASSUME NEW b \in Bytes, NEW w \in Nat, NEW h \in Nat, NoWrap(b, w, h)
  PROVE  LET p == FirmwarePitch(b, w)
             n == Blocks(h, 32)
         IN /\ p \in Nat /\ n \in Nat /\ p * (32 * n + 16 * n) \in Nat
            /\ FirmwareSize(b, w, h) = 4096 * Blocks(p * (32 * n + 16 * n), 4096)
            /\ FirmwareSize(b, w, h) \in Nat
            /\ p * (32 * n + 16 * n) <= FirmwareSize(b, w, h)
<1> DEFINE p == FirmwarePitch(b, w)
           n == Blocks(h, 32)
<1>1. n \in Nat /\ Blocks(w, 128) \in Nat /\ Blocks(Blocks(h, 2), 16) = n /\ b \in {1, 2}
  BY RoundsToBlocks DEF Bytes
<1>2. p \in Nat
  BY <1>1 DEF FirmwarePitch
<1>3. PICK m \in Nat : m = p * (32 * n + 16 * n)
  BY <1>1, <1>2
<1>4. FirmwareSize(b, w, h) = 4096 * Blocks(m, 4096)
  BY <1>1, <1>3 DEF FirmwareSize
<1>5. 4096 * Blocks(m, 4096) \in Nat /\ m <= 4096 * Blocks(m, 4096)
  BY DEF Blocks
<1> QED BY <1>1, <1>2, <1>3, <1>4, <1>5

\* stable_layout is the kernel's layout (alloc.cc:58-61).
LEMMA StableAsFirmware ==
  ASSUME NEW b \in Bytes, NEW w \in Nat, NEW h \in Nat, w > 0, h > 0, NoWrap(b, w, h)
  PROVE  /\ AsFirmware(stable_layout(b, w, h))
         /\ stable_layout(b, w, h).size = FirmwareSize(b, w, h)
<1> DEFINE p == FirmwarePitch(b, w)
           n == Blocks(h, 32)
<1>1. /\ StablePitch(b, w) = p /\ AlignUp(h, 32) = 32 * n /\ ChromaRows(h) = 16 * n
  BY RoundsToBlocks
<1>2. p * (32 * n + 16 * n) \in Nat
      /\ FirmwareSize(b, w, h) = 4096 * Blocks(p * (32 * n + 16 * n), 4096)
      /\ FirmwareSize(b, w, h) \in Nat
  BY FirmwareRoom
<1>3. PICK m \in Nat : m = p * (32 * n + 16 * n)
  BY <1>2
<1>4. StableTotal(b, w, h) = (m + 4095) - ((m + 4095) % 4096)
  BY <1>1, <1>3 DEF StableTotal
<1>5. (m + 4095) - ((m + 4095) % 4096) = 4096 * ((m + 4096 - 1) \div 4096)
  OBVIOUS
<1>6. StableTotal(b, w, h) = FirmwareSize(b, w, h)
  BY <1>2, <1>3, <1>4, <1>5 DEF Blocks
<1> HIDE DEF p, n
<1> QED BY <1>1, <1>2, <1>6 DEF AsFirmware, stable_layout, p

\* A buffer with that layout has room for whole planes of its rows.
LEMMA RoomForPicture ==
  ASSUME NEW l \in Planes, AsFirmware(l), l.storage_height = AlignUp(l.height, 32)
  PROVE  /\ chroma_offset(l) = l.data_offset + l.stride * l.storage_height
         /\ l.width * l.bytes <= l.stride /\ Even(l.width) * l.bytes <= l.stride
         /\ l.height <= l.storage_height /\ Half(l.height) \in Nat
         /\ chroma_offset(l) + l.stride * Half(l.height) <= l.size
<1> DEFINE b == l.bytes
           w == l.width
           h == l.height
           p == l.stride
           n == Blocks(h, 32)
           k == Half(h)
           d == l.data_offset
<1>1. /\ b \in Bytes /\ w \in Nat /\ h \in Nat /\ p \in Nat /\ d \in Nat
      /\ l.size \in Nat /\ l.size < Word
  BY PlaneNumbers DEF Planes
<1>2. NoWrap(b, w, h) /\ p = FirmwarePitch(b, w) /\ d + FirmwareSize(b, w, h) <= l.size
  BY DEF AsFirmware
<1>3. Word \in Nat /\ w * b + 256 <= Word /\ h + 32 <= Word
  BY <1>2, LayoutAssumption DEF NoWrap
<1>4. /\ n \in Nat /\ StablePitch(b, w) = p /\ l.storage_height = 32 * n
      /\ k <= 16 * n /\ k \in Nat
  <2>1. /\ n \in Nat /\ StablePitch(b, w) = p /\ AlignUp(h, 32) = 32 * n
        /\ k <= 16 * n /\ k \in Nat
    <3> HIDE DEF b, w, h, p
    <3> QED BY <1>1, <1>2, RoundsToBlocks, Rounding
  <2> QED BY <2>1
<1>5. w * b <= p /\ Even(w) * b <= p
  BY <1>1, <1>3, <1>4, RowsWideEnough
<1>6. h <= l.storage_height
  BY <1>1, <1>3, RoundsUp
<1>7. FirmwareSize(b, w, h) \in Nat /\ p * (32 * n + 16 * n) <= FirmwareSize(b, w, h)
  BY <1>1, <1>2, FirmwareRoom
<1>8. /\ p * (32 * n + 16 * n) = p * (32 * n) + p * (16 * n) /\ p * (32 * n) \in Nat
      /\ p * k <= p * (16 * n) /\ p * k \in Nat /\ p * (16 * n) \in Nat
  <2> HIDE DEF p, n, k
  <2> QED BY <1>1, <1>4
<1>9. d + p * (32 * n) + p * k <= l.size
  <2> HIDE DEF p, n, k, d
  <2> QED BY <1>1, <1>2, <1>7, <1>8
<1>10. chroma_offset(l) = d + p * l.storage_height
  <2>1. PICK m \in Nat : m = d + p * (32 * n)
    BY <1>1, <1>8
  <2>2. m < Word
    <3> HIDE DEF p, n, k, d
    <3> QED BY <1>1, <1>3, <1>8, <1>9, <2>1
  <2>3. m % Word = m
    BY <2>2, Wraps
  <2> QED BY <1>4, <2>1, <2>3 DEF chroma_offset
<1>11. chroma_offset(l) + p * k <= l.size
  BY <1>4, <1>9, <1>10
<1> QED BY <1>4, <1>5, <1>6, <1>10, <1>11

\* And then every picture that is not larger is inside.
LEMMA RowsFit ==
  ASSUME NEW l \in Planes, AsFirmware(l), l.storage_height = AlignUp(l.height, 32),
         NEW w \in Nat, NEW h \in Nat, w <= l.width, h <= l.height
  PROVE  Inside(l, w, h)
<1> DEFINE b == l.bytes
           s == l.stride
           st == l.storage_height
           d == l.data_offset
           o == chroma_offset(l)
           e == Even(w)
           k == Half(h)
<1>1. /\ b \in {1, 2} /\ l.width \in Nat /\ l.height \in Nat /\ s \in Nat
      /\ st \in Nat /\ d \in Nat /\ l.size \in Nat
  BY PlaneNumbers
<1>2. /\ o = d + s * st
      /\ l.width * b <= s /\ Even(l.width) * b <= s
      /\ l.height <= st /\ Half(l.height) \in Nat
      /\ o + s * Half(l.height) <= l.size
  BY RoomForPicture
<1>3. l.width + 1 < Word /\ l.height + 1 < Word /\ Word \in Nat
  BY <1>1, LayoutAssumption DEF AsFirmware, NoWrap
<1>4. /\ e \in Nat /\ k \in Nat /\ Even(l.width) \in Nat
      /\ e <= Even(l.width) /\ k <= Half(l.height)
  BY <1>1, <1>3, Rounding, RoundingKeepsOrder
<1>5. w * b \in Nat /\ e * b \in Nat /\ w * b <= s /\ e * b <= s
  <2>1. w * b <= l.width * b /\ e * b <= Even(l.width) * b
    BY <1>1, <1>4
  <2> QED BY <1>1, <1>2, <1>4, <2>1
<1>6. ASSUME NEW r \in 0..(h - 1) PROVE d + r * s + w * b <= o
  <2>1. r \in Nat /\ r + 1 <= st
    BY <1>1, <1>2
  <2>2. r * s + s <= s * st /\ r * s \in Nat /\ s * st \in Nat
    BY <1>1, <2>1
  <2> HIDE DEF b, s, st, d, o
  <2> QED BY <1>1, <1>2, <1>5, <2>2
<1>7. ASSUME NEW r \in 0..(k - 1) PROVE o + r * s + e * b <= l.size
  <2>1. r \in Nat /\ r + 1 <= Half(l.height)
    BY <1>2, <1>4
  <2>2. r * s + s <= s * Half(l.height) /\ r * s \in Nat /\ s * Half(l.height) \in Nat
    BY <1>1, <1>2, <2>1
  <2>3. o \in Nat
    BY <1>1, <1>2
  <2> HIDE DEF b, s, st, d, o, e, k
  <2> QED BY <1>1, <1>2, <1>5, <2>2, <2>3
<1> QED BY <1>5, <1>6, <1>7 DEF Inside

\* A surface's own buffer passes validate() for its whole visible area, whatever its
\* geometry, as long as no rounding wraps; and view() just when the chroma plane
\* begins below 2^31 (alloc.cc:56, publish.cc:17, gpu_copy.cc:130).
THEOREM SurfacesHaveRoom == LayoutSpec => []StableBufferFits
<1>1. Derived => StableBufferFits
  <2> SUFFICES ASSUME Derived, stable # None,
                      NoWrap(stable.bytes, stable.width, stable.height)
               PROVE  /\ CpuFits(stable, stable.width, stable.height)
                      /\ GpuFits(stable, stable.width, stable.height)
                           <=> chroma_offset(stable) <= IntMax
    BY DEF StableBufferFits
  <2>1. PICK b \in Bytes, w \in Widths, h \in Heights : stable = stable_layout(b, w, h)
    BY DEF Derived
  <2>2. /\ stable.bytes = b /\ stable.width = w /\ stable.height = h
        /\ stable.stride = StablePitch(b, w) /\ stable.data_offset = 0
    BY <2>1 DEF stable_layout
  <2>3. Word \in Nat /\ w \in Nat /\ h \in Nat /\ w > 0 /\ h > 0 /\ NoWrap(b, w, h)
    BY <2>2, LayoutAssumption DEF Unsigned
  <2>4. w * b + 256 <= Word /\ h + 32 <= Word
    BY <2>3 DEF NoWrap
  <2> DEFINE s == stable.stride
             st == stable.storage_height
             e == Even(w) * b
             k == Half(h)
             o == chroma_offset(stable)
  <2>5. /\ s \in Nat /\ w * b <= s /\ e <= s
        /\ Texels(w * b) * 4 <= s /\ Texels(e) * 4 <= s
    BY <2>2, <2>3, <2>4, RowsWideEnough
  <2>6. stable \in Planes /\ stable.storage_height = AlignUp(stable.height, 32)
    BY DerivedPlanes
  <2>7. /\ st \in Nat /\ stable.size \in Nat /\ o = s * st
        /\ h <= st /\ k \in Nat /\ o + s * k <= stable.size
    <3>1. AsFirmware(stable)
      BY <2>1, <2>3, StableAsFirmware
    <3>2. s * st \in Nat /\ st \in Nat /\ stable.size \in Nat
      BY <2>6, PlaneNumbers
    <3> QED BY <2>2, <2>6, <3>1, <3>2, RoomForPicture
  <2>8. k > 0
    <3>1. h + 1 < Word
      BY <2>3, <2>4
    <3> QED BY <2>3, <3>1, RoundsUp
  <2>9. /\ (k - 1) * s = s * k - s /\ (h - 1) * s = s * h - s
        /\ s * h <= s * st /\ s <= s * st
        /\ s * h \in Nat /\ s * k \in Nat /\ s * st \in Nat
    <3>1. st >= 1
      BY <2>3, <2>7
    <3> HIDE DEF s, st, k
    <3> QED BY <2>3, <2>5, <2>7, <3>1
  <2>10. e \in Int /\ Texels(w * b) * 4 \in Int /\ Texels(e) * 4 \in Int
    <3>1. b \in Nat /\ Even(w) \in Nat
      BY <2>1, <2>3, Rounding DEF Bytes
    <3>2. w * b \in Nat /\ e \in Nat
      BY <2>3, <3>1
    <3> QED BY <3>2 DEF Texels
  <2>11. CpuFits(stable, w, h)
    <3>1. o + (k - 1) * s + e <= stable.size
      <4> HIDE DEF s, e, k, o, st
      <4> QED BY <2>5, <2>7, <2>9, <2>10
    <3> QED BY <2>2, <2>3, <2>5, <2>7, <3>1 DEF CpuFits
  <2>12. GpuFits(stable, w, h) <=> o <= IntMax
    <3>1. o + (k - 1) * s + Texels(e) * 4 <= stable.size
      <4> HIDE DEF s, e, k, o, st
      <4> QED BY <2>5, <2>7, <2>9, <2>10
    <3>2. 0 + (h - 1) * s + Texels(w * b) * 4 <= stable.size
      <4> HIDE DEF s, e, k, o, st
      <4> QED BY <2>3, <2>5, <2>7, <2>9, <2>10
    <3>3. IntMax \in Nat /\ 0 <= IntMax /\ (o <= IntMax => s <= IntMax)
      <4>1. IntMax \in Nat
        BY LayoutAssumption DEF IntMax
      <4> HIDE DEF s, st, o
      <4> QED BY <2>5, <2>7, <2>9, <4>1
    <3> QED BY <2>2, <2>3, <2>5, <2>7, <3>1, <3>2, <3>3 DEF GpuFits, PlaneFits
  <2> QED BY <2>2, <2>11, <2>12
<1> QED BY <1>1, AlwaysDerived, PTL

\* A factor can be taken away from both sides.
LEMMA Cancels ==
  ASSUME NEW s \in Nat, NEW x \in Nat, NEW y \in Nat, s > 0, s * x = s * y
  PROVE  x = y
<1>1. CASE x < y
  <2>1. s * (x + 1) <= s * y
    BY <1>1
  <2>2. s * (x + 1) = s * x + s
    OBVIOUS
  <2> QED BY <2>1, <2>2
<1>2. CASE y < x
  <2>1. s * (y + 1) <= s * x
    BY <1>2
  <2>2. s * (y + 1) = s * y + s
    OBVIOUS
  <2> QED BY <2>1, <2>2
<1> QED BY <1>1, <1>2

\* Import takes a client's buffer just when the picture has the surface's blocks,
\* whatever sizes stream and surface have, and then its buffer holds the whole coded
\* picture (session.cc:127-134).
THEOREM ImportsHoldPictures == LayoutSpec => []ImportHoldsPicture
<1>1. Derived => ImportHoldsPicture
  <2> SUFFICES ASSUME Derived, stable # None, capture # None,
                      NoWrap(stable.bytes, stable.width, stable.height), AsFirmware(capture),
                      capture.size = FirmwareSize(capture.bytes, capture.width, capture.height)
               PROVE  /\ import_compatible(stable, capture) <=> SameBlocks(stable, capture)
                      /\ import_compatible(stable, capture)
                           => Inside(stable, capture.width, capture.height)
    BY DEF ImportHoldsPicture
  <2>1. PICK b \in Bytes, w \in Widths, h \in Heights : stable = stable_layout(b, w, h)
    BY DEF Derived
  <2>2. stable.bytes = b /\ stable.width = w /\ stable.height = h /\ stable.data_offset = 0
    BY <2>1 DEF stable_layout
  <2>3. /\ stable \in Planes /\ stable.storage_height = AlignUp(stable.height, 32)
        /\ capture \in Planes /\ capture.storage_height = AlignUp(capture.height, 32)
        /\ capture.data_offset = 0
    BY DerivedPlanes
  <2>4. w \in Nat /\ h \in Nat /\ w > 0 /\ h > 0
    BY LayoutAssumption DEF Unsigned
  <2>5. AsFirmware(stable) /\ stable.size = FirmwareSize(b, w, h)
    BY <2>1, <2>2, <2>4, StableAsFirmware
  <2> DEFINE c == capture.bytes
             v == capture.width
             g == capture.height
             p == FirmwarePitch(b, w)
             q == FirmwarePitch(c, v)
             n == Blocks(h, 32)
             m == Blocks(g, 32)
  <2>6. c \in Bytes /\ v \in Nat /\ g \in Nat /\ NoWrap(b, w, h) /\ NoWrap(c, v, g)
    BY <2>2, <2>3, PlaneNumbers DEF AsFirmware, Bytes
  <2>7. /\ stable.stride = p /\ capture.stride = q
        /\ stable.storage_height = 32 * n /\ capture.storage_height = 32 * m
        /\ p \in Nat /\ q \in Nat /\ n \in Nat /\ m \in Nat
    BY <2>2, <2>3, <2>4, <2>5, <2>6, RoundsToBlocks, FirmwareRoom DEF AsFirmware
  <2>8. chroma_offset(stable) = p * (32 * n) /\ chroma_offset(capture) = q * (32 * m)
    BY <2>2, <2>3, <2>5, <2>7, RoomForPicture
  <2>9. p > 0 /\ n > 0
    <3>1. Blocks(w, 128) > 0 /\ Blocks(w, 128) \in Nat /\ n > 0
      BY <2>4 DEF Blocks
    <3> QED BY <3>1 DEF FirmwarePitch, Bytes
  <2>10. ASSUME SameBlocks(stable, capture)
         PROVE  /\ import_compatible(stable, capture)
                /\ FirmwareSize(c, v, g) = FirmwareSize(b, w, h) /\ q = p
    <3>1. c = b /\ Blocks(w, 128) = Blocks(v, 128) /\ n = m
      BY <2>2, <2>10 DEF SameBlocks
    <3>2. q = p
      BY <3>1 DEF FirmwarePitch
    <3>3. FirmwareSize(c, v, g) = FirmwareSize(b, w, h)
      BY <2>4, <2>6, <3>1, <3>2, FirmwareRoom
    <3>4. stable.size >= capture.size
      BY <2>3, <2>5, <3>3, PlaneNumbers
    <3> QED BY <2>2, <2>7, <2>8, <3>1, <3>2, <3>3, <3>4 DEF import_compatible
  <2>11. ASSUME import_compatible(stable, capture) PROVE SameBlocks(stable, capture)
    <3>1. c = b /\ p = q /\ p * (32 * n) = q * (32 * m)
      BY <2>2, <2>7, <2>8, <2>11 DEF import_compatible
    <3>2. 32 * n = 32 * m
      <4> HIDE DEF p, q, n, m
      <4> QED BY <2>7, <2>9, <3>1, Cancels
    <3>3. n = m
      <4> HIDE DEF n, m
      <4> QED BY <2>7, <3>2
    <3>4. Blocks(w, 128) = Blocks(v, 128)
      <4>1. PICK x \in Nat, y \in Nat : x = Blocks(w, 128) /\ y = Blocks(v, 128)
        BY <2>4, <2>6, RoundsToBlocks
      <4>2. 128 * b * x = 128 * b * y
        BY <3>1, <4>1 DEF FirmwarePitch
      <4>3. b = 1 \/ b = 2
        BY DEF Bytes
      <4> QED BY <4>1, <4>2, <4>3
    <3> QED BY <2>2, <3>1, <3>3, <3>4 DEF SameBlocks
  <2>12. ASSUME import_compatible(stable, capture)
         PROVE  Inside(stable, v, g)
    <3> DEFINE l == [stable EXCEPT !.width = v, !.height = g]
    <3>1. /\ SameBlocks(stable, capture) /\ FirmwareSize(c, v, g) = FirmwareSize(b, w, h)
          /\ q = p /\ c = b
      BY <2>2, <2>10, <2>11, <2>12 DEF SameBlocks
    <3>2. /\ l \in Planes /\ l.bytes = b /\ l.width = v /\ l.height = g /\ l.stride = p
          /\ l.data_offset = 0 /\ l.size = stable.size
          /\ l.storage_height = stable.storage_height
      BY <2>2, <2>3, <2>6, <2>7 DEF Planes
    <3>3. l.storage_height = AlignUp(g, 32)
      BY <2>2, <2>6, <2>7, <3>1, <3>2, RoundsToBlocks DEF SameBlocks
    <3>4. AsFirmware(l)
      <4>1. v > 0 /\ g > 0
        BY DEF AsFirmware
      <4>2. l.data_offset + FirmwareSize(l.bytes, l.width, l.height) <= l.size
        BY <2>2, <2>5, <3>1, <3>2 DEF AsFirmware
      <4> HIDE DEF l
      <4> QED BY <2>6, <3>1, <3>2, <4>1, <4>2 DEF AsFirmware
    <3>5. Inside(l, v, g)
      <4>1. v <= l.width /\ g <= l.height
        BY <2>6, <3>2
      <4> HIDE DEF l
      <4> QED BY <2>6, <3>2, <3>3, <3>4, <4>1, RowsFit
    <3>6. chroma_offset(l) = chroma_offset(stable)
      BY <2>2, <2>7, <3>2 DEF chroma_offset
    <3> HIDE DEF l
    <3> QED BY <2>2, <2>7, <3>2, <3>5, <3>6 DEF Inside
  <2> QED BY <2>10, <2>11, <2>12
<1> QED BY <1>1, AlwaysDerived, PTL

\* The planes of a packed image do not wrap when the product that bounds them
\* does not, and the size is their sum (fill_image in image.cc).
LEMMA ImagePacked ==
  ASSUME NEW b \in Bytes, NEW w \in Nat, NEW h \in Nat, w > 0, h > 0,
         ImageNoWrap(b, w, h)
  PROVE  LET i == fill_image(b, w, h) IN
         /\ w + 1 < Word /\ h + 1 < Word
         /\ i.pitch[1] = w * b /\ i.pitch[2] = Even(w) * b
         /\ i.offset = (w * b) * h
         /\ i.size = (w * b) * h + (Even(w) * b) * Half(h)
<1> DEFINE k == Half(h)
           e == Even(w)
           m == h + (h + 1) \div 2
<1>1. Word \in Nat /\ Word > 0 /\ b \in {1, 2}
  BY LayoutAssumption DEF Bytes
<1>2. ((w + 1) * b) * m < Word /\ h + 1 < Word
  BY DEF ImageNoWrap
<1>3. k = (h + 1) \div 2 /\ k \in Nat /\ m = h + k /\ k > 0
  <2>1. k = (h + 1) \div 2
    BY <1>2, RoundsUp
  <2> QED BY <2>1
<1>4. (w + 1) * b \in Nat /\ w * b \in Nat /\ w + 1 <= (w + 1) * b /\ w * b <= (w + 1) * b
  BY <1>1
<1>5. /\ ((w + 1) * b) * m = ((w + 1) * b) * h + ((w + 1) * b) * k
      /\ ((w + 1) * b) * h \in Nat /\ ((w + 1) * b) * k \in Nat
      /\ (w + 1) * b <= ((w + 1) * b) * h /\ (w + 1) * b <= ((w + 1) * b) * k
  <2>1. PICK n \in Nat : n = (w + 1) * b
    BY <1>4
  <2>2. n * m = n * h + n * k
    BY <1>3
  <2>3. n * h \in Nat /\ n * k \in Nat /\ n <= n * h /\ n <= n * k
    BY <1>3
  <2> HIDE DEF m, k
  <2> QED BY <2>1, <2>2, <2>3
<1>6. w + 1 < Word /\ (w + 1) * b < Word /\ ((w + 1) * b) * h + ((w + 1) * b) * k < Word
  <2> HIDE DEF m, k
  <2> QED BY <1>1, <1>2, <1>4, <1>5
<1>7. e \in Nat /\ e <= w + 1 /\ e * b \in Nat /\ e * b <= (w + 1) * b
  <2>1. e \in Nat /\ e <= w + 1
    BY <1>6, Rounding, RoundingKeepsOrder
  <2> HIDE DEF e
  <2> QED BY <2>1, <1>1
<1>8. (w * b) % Word = w * b /\ (e * b) % Word = e * b
  <2>1. w * b < Word /\ e * b < Word
    BY <1>1, <1>4, <1>6, <1>7
  <2> HIDE DEF e
  <2> QED BY <2>1, <1>4, <1>7, Wraps
<1>9. /\ (w * b) * h \in Nat /\ (w * b) * h <= ((w + 1) * b) * h
      /\ (e * b) * k \in Nat /\ (e * b) * k <= ((w + 1) * b) * k
  <2>1. PICK n \in Nat, u \in Nat, v \in Nat : n = (w + 1) * b /\ u = w * b /\ v = e * b
    BY <1>4, <1>7
  <2>2. u <= n /\ v <= n
    BY <2>1, <1>4, <1>7
  <2>3. u * h \in Nat /\ u * h <= n * h /\ v * k \in Nat /\ v * k <= n * k
    BY <2>2, <1>3
  <2> HIDE DEF e, k
  <2> QED BY <2>1, <2>3
<1>10. /\ ((w * b) * h) % Word = (w * b) * h
       /\ ((w * b) * h + (e * b) * k) % Word = (w * b) * h + (e * b) * k
  <2>1. PICK u \in Nat, v \in Nat : u = (w * b) * h /\ v = (e * b) * k
    BY <1>9
  <2>2. u < Word /\ u + v < Word
    <3> HIDE DEF e, k
    <3> QED BY <2>1, <1>1, <1>5, <1>6, <1>9
  <2>3. u % Word = u /\ (u + v) % Word = u + v
    BY <2>2, Wraps
  <2> HIDE DEF e, k
  <2> QED BY <2>1, <2>3
<1>11. ImagePitch(b, w) = e * b
  BY <1>8 DEF ImagePitch
<1> HIDE DEF e, k
<1> QED BY <1>2, <1>6, <1>8, <1>10, <1>11 DEF fill_image, e, k

\* copy_pixels stays inside the packed image and inside the buffer it reads, whatever
\* the geometries of the two: the surface's own buffer has the room, and a held
\* frame has if the kernel lays it out as its driver does (image.cc:52).
THEOREM ImagesHold == LayoutSpec => []ImageHolds
<1>1. Derived => ImageHolds
  <2> DEFINE source == IF frame # None THEN frame ELSE stable
             w == Least(image.width, source.width)
             h == Least(image.height, source.height)
             b == image.bytes
  <2> SUFFICES ASSUME Derived, image # None, frame # None \/ stable # None,
                      b = source.bytes,
                      ImageNoWrap(b, image.asked[1], image.asked[2]),
                      NoWrap(b, source.width, source.height),
                      frame # None => AsFirmware(frame)
               PROVE  /\ Inside(source, w, h)
                      /\ \A r \in 0..(h - 1) :
                           r * image.pitch[1] + w * b <= image.offset
                      /\ Even(w) * b <= image.pitch[2]
                      /\ \A r \in 0..(Half(h) - 1) :
                           image.offset + r * image.pitch[2] + Even(w) * b <= image.size
    BY DEF ImageHolds
  <2>1. /\ source \in Planes /\ AsFirmware(source)
        /\ source.storage_height = AlignUp(source.height, 32)
    <3>1. CASE frame # None
      BY <3>1, DerivedPlanes
    <3>2. CASE frame = None
      <4>1. source = stable /\ stable # None
        BY <3>2
      <4>2. PICK c \in Bytes, u \in Widths, v \in Heights : stable = stable_layout(c, u, v)
        BY <4>1 DEF Derived
      <4>3. c = b /\ stable.width = u /\ stable.height = v
        BY <4>1, <4>2 DEF stable_layout
      <4>4. u \in Nat /\ v \in Nat /\ u > 0 /\ v > 0
        BY LayoutAssumption DEF Unsigned
      <4>5. AsFirmware(stable)
        BY <4>1, <4>2, <4>3, <4>4, StableAsFirmware
      <4> QED BY <4>1, <4>5, DerivedPlanes
    <3> QED BY <3>1, <3>2
  <2>2. PICK b2 \in Bytes, iw \in Widths, ih \in Heights : image = fill_image(b2, iw, ih)
    BY DEF Derived
  <2>3. /\ b2 = b /\ image.width = iw % Short /\ image.height = ih % Short
        /\ image.asked = <<iw, ih>>
    BY <2>2 DEF fill_image
  <2>4. /\ Word \in Nat /\ Short \in Nat /\ Short > 0 /\ b \in {1, 2}
        /\ iw \in Nat /\ ih \in Nat /\ iw > 0 /\ ih > 0
        /\ source.width \in Nat /\ source.height \in Nat
    BY <2>1, <2>3, LayoutAssumption, PlaneNumbers DEF Bytes, Unsigned
  <2>5. /\ w \in Nat /\ h \in Nat /\ w <= source.width /\ h <= source.height
        /\ w <= iw /\ h <= ih
    <3>1. iw % Short \in Nat /\ iw % Short <= iw /\ ih % Short \in Nat /\ ih % Short <= ih
      BY <2>4
    <3> HIDE DEF source
    <3> QED BY <3>1, <2>3, <2>4 DEF Least
  <2>6. Inside(source, w, h)
    <3> HIDE DEF source, w, h
    <3> QED BY <2>1, <2>5, RowsFit
  <2>7. /\ iw + 1 < Word /\ ih + 1 < Word
        /\ image.pitch[1] = iw * b /\ image.pitch[2] = Even(iw) * b
        /\ image.offset = (iw * b) * ih
        /\ image.size = (iw * b) * ih + (Even(iw) * b) * Half(ih)
    <3>1. image.asked[1] = iw /\ image.asked[2] = ih
      BY <2>3
    <3>2. ImageNoWrap(b2, iw, ih)
      BY <2>3, <3>1
    <3> HIDE DEF b
    <3> QED BY <2>2, <2>3, <2>4, <3>2, ImagePacked
  <2> DEFINE e == Even(w)
             k == Half(h)
  <2>8. /\ e \in Nat /\ k \in Nat /\ Even(iw) \in Nat /\ Half(ih) \in Nat
        /\ e <= Even(iw) /\ k <= Half(ih)
    <3> HIDE DEF w, h
    <3> QED BY <2>4, <2>5, <2>7, Rounding, RoundingKeepsOrder
  <2> HIDE DEF source, w, h, e, k
  <2>9. /\ w * b \in Nat /\ e * b \in Nat
        /\ w * b <= iw * b /\ e * b <= Even(iw) * b
        /\ iw * b \in Nat /\ Even(iw) * b \in Nat
    BY <2>4, <2>5, <2>8
  <2>10. ASSUME NEW r \in 0..(h - 1) PROVE r * (iw * b) + w * b <= (iw * b) * ih
    <3>1. r \in Nat /\ r + 1 <= ih
      BY <2>4, <2>5
    <3>2. PICK n \in Nat : n = iw * b
      BY <2>9
    <3>3. r * n + n <= n * ih /\ r * n \in Nat /\ n * ih \in Nat
      BY <3>1, <3>2, <2>4
    <3> QED BY <3>2, <3>3, <2>9
  <2>11. ASSUME NEW r \in 0..(k - 1)
         PROVE  (iw * b) * ih + r * (Even(iw) * b) + e * b <= image.size
    <3>1. r \in Nat /\ r + 1 <= Half(ih)
      BY <2>8
    <3>2. PICK n \in Nat, u \in Nat : n = Even(iw) * b /\ u = (iw * b) * ih
      BY <2>4, <2>9
    <3>3. r * n + n <= n * Half(ih) /\ r * n \in Nat /\ n * Half(ih) \in Nat
      BY <3>1, <3>2, <2>8
    <3>4. u + r * n + e * b <= image.size
      BY <3>2, <3>3, <2>7, <2>9
    <3> QED BY <3>2, <3>4
  <2> QED BY <2>6, <2>7, <2>9, <2>10, <2>11 DEF e, k
<1> QED BY <1>1, AlwaysDerived, PTL
-----------------------------------------------------------------------------
(* The wrapper of the decoder node.                                        *)

\* What a queue of the node is.
Vb2Queue == [memory : Memories, count : Nat, queued : Nat, done : Nat, drained : BOOLEAN]

\* The wrapper and the slot pool know which memory the node has in its queues,
\* over every pool that was freed and allocated again; so the node refuses nothing
\* until it is dead.  Only the CAPTURE queue drains.
Agreed ==
  /\ vb2 \in [Queues -> Vb2Queue] /\ memory \in [Queues -> Memories]
  /\ capture_memory \in Memories
  /\ \A q \in Queues : memory[q] = vb2[q].memory
  /\ vb2["Output"].memory = "MMAP" /\ ~vb2["Output"].drained
  /\ vb2["Capture"].count # 0 => capture_memory = vb2["Capture"].memory

\* What is opened is one of the paths, and has passed the test.
Opened(p) == \E i \in DOMAIN Paths : p = Paths[i] /\ is_iris_decoder(NodeAt[p])

DeviceInv ==
  /\ Agreed
  /\ result = "thrown" => dead
  /\ fd # "thrown" => Opened(fd)

\* The test tells a decoder from the encoder of the same driver.
Told == \A i \in DOMAIN Paths : is_iris_decoder(NodeAt[Paths[i]]) => NodeAt[Paths[i]].decoder

\* A queue that is allocated afresh.
LEMMA FreshQueue ==
  ASSUME NEW m \in Memories, NEW n \in Nat
  PROVE  Fresh(m, n) \in Vb2Queue /\ Fresh(m, n).memory = m /\ Fresh(m, n).count = n
         /\ ~Fresh(m, n).drained
BY DEF Fresh, Vb2Queue

\* A sequence of one path.
LEMMA OneElement ==
  ASSUME NEW x
  PROVE  <<x>>[1] = x /\ \A k \in DOMAIN <<x>> : k = 1
OBVIOUS

\* What is opened has passed the test.
LEMMA OpensTheTested ==
  ASSUME NEW explicit \in {""} \cup {Paths[i] : i \in DOMAIN Paths},
         open_device(explicit) # "thrown"
  PROVE  Opened(open_device(explicit))
<1> DEFINE candidates == IF explicit = "" THEN Paths ELSE <<explicit>>
           Good(i)    == is_iris_decoder(NodeAt[candidates[i]])
           first      == {i \in DOMAIN candidates : Good(i) /\ \A j \in 1 .. i - 1 : ~Good(j)}
           p          == open_device(explicit)
<1>1. first # {} /\ p = candidates[CHOOSE i \in first : TRUE]
  BY Zenon DEF open_device
<1>2. PICK i \in DOMAIN candidates : p = candidates[i] /\ is_iris_decoder(NodeAt[candidates[i]])
  BY <1>1, Zenon
<1>3. is_iris_decoder(NodeAt[p])
  BY <1>2, Zenon
<1>4. \E k \in DOMAIN Paths : p = Paths[k]
  <2>1. CASE explicit = ""
    BY <2>1, <1>2, Zenon
  <2>2. CASE explicit # ""
    <3>1. candidates = <<explicit>>
      BY <2>2, Zenon
    <3>2. p = explicit
      <4>1. <<explicit>>[1] = explicit /\ \A k \in DOMAIN <<explicit>> : k = 1
        BY OneElement
      <4>2. i \in DOMAIN <<explicit>> /\ p = <<explicit>>[i]
        BY <1>2, <3>1, Zenon
      <4>3. i = 1
        BY <4>1, <4>2, Zenon
      <4> QED BY <4>1, <4>2, <4>3, Zenon
    <3> QED BY <2>2, <3>2, Zenon
  <2> QED BY <2>1, <2>2
<1> QED BY <1>3, <1>4, Zenon DEF Opened

\* The wrapper and the node agree before the first call.
LEMMA DeviceStarts == DeviceInit => DeviceInv
<1> SUFFICES ASSUME DeviceInit PROVE DeviceInv
  OBVIOUS
<1>1. fd # "thrown" => Opened(fd)
  BY OpensTheTested, Zenon DEF DeviceInit
<1>2. /\ memory = [q \in Queues |-> "MMAP"] /\ capture_memory = "MMAP"
      /\ vb2 = [q \in Queues |-> Fresh("MMAP", 0)] /\ result = "true"
  BY DEF DeviceInit
<1>3. "MMAP" \in Memories /\ Fresh("MMAP", 0) \in Vb2Queue
      /\ Fresh("MMAP", 0).memory = "MMAP" /\ Fresh("MMAP", 0).count = 0
      /\ ~Fresh("MMAP", 0).drained
  BY FreshQueue DEF Memories
<1>4. Agreed
  <2> HIDE DEF Fresh
  <2> QED BY <1>2, <1>3 DEF Agreed, Queues
<1> QED BY <1>1, <1>2, <1>4 DEF DeviceInv

\* Nothing but what a call answers has changed.
LEMMA OnlyAnswered ==
  ASSUME DeviceInv, UNCHANGED <<fd, memory, capture_memory, vb2>>,
         result' = "thrown" => dead'
  PROVE  DeviceInv'
<1>1. Agreed'
  BY DEF DeviceInv, Agreed
<1>2. (fd # "thrown" => Opened(fd))'
  BY DEF DeviceInv, Opened
<1> QED BY <1>1, <1>2 DEF DeviceInv

\* What the node does with a buffer of a queue leaves its memory alone.
LEMMA BuffersMove ==
  ASSUME DeviceInv, NEW q \in Queues, NEW v \in Vb2Queue, vb2' = [vb2 EXCEPT ![q] = v],
         v.memory = vb2[q].memory, v.count = vb2[q].count, q = "Output" => ~v.drained,
         UNCHANGED <<fd, memory, capture_memory>>, result' = "thrown" => dead'
  PROVE  DeviceInv'
<1>1. Agreed'
  <2>1. /\ ~vb2'["Output"].drained
        /\ vb2' \in [Queues -> Vb2Queue]
        /\ \A r \in Queues : vb2'[r].memory = vb2[r].memory /\ vb2'[r].count = vb2[r].count
    BY DEF DeviceInv, Agreed, Queues
  <2>2. "Output" \in Queues /\ "Capture" \in Queues
    BY DEF Queues
  <2> QED BY <2>1, <2>2 DEF DeviceInv, Agreed
<1>2. (fd # "thrown" => Opened(fd))'
  BY DEF DeviceInv, Opened
<1> QED BY <1>1, <1>2 DEF DeviceInv

\* REQBUFS gives a queue its memory, and the wrapper and the slot pool remember it.
LEMMA RequestKeeps ==
  ASSUME DeviceInv, NEW q \in Queues, NEW n \in Nat, NEW m \in Memories,
         request_buffers(q, n, m), q = "Output" => m = "MMAP", UNCHANGED <<fd, dead>>,
         q = "Output" \/ dead => UNCHANGED capture_memory,
         capture_memory' \in Memories,
         q = "Capture" /\ ~dead => capture_memory' = m \/ n = 0
  PROVE  DeviceInv'
<1> DEFINE v == Fresh(m, n)
<1>1. v \in Vb2Queue /\ v.memory = m /\ v.count = n /\ ~v.drained
  BY FreshQueue
<1>2. result' = "thrown" => dead'
  BY DEF request_buffers, checked
<1>3. CASE dead
  <2>1. UNCHANGED <<memory, vb2, capture_memory>>
    BY <1>3 DEF request_buffers
  <2> QED BY <1>2, <2>1, OnlyAnswered
<1>4. CASE ~dead
  <2>1. memory' = [memory EXCEPT ![q] = m] /\ vb2' = [vb2 EXCEPT ![q] = v]
    BY <1>4 DEF request_buffers
  <2> HIDE DEF v
  <2>2. Agreed'
    <3>1. vb2' \in [Queues -> Vb2Queue] /\ memory' \in [Queues -> Memories]
      BY <1>1, <2>1 DEF DeviceInv, Agreed
    <3>2. \A r \in Queues : memory'[r] = vb2'[r].memory
      BY <1>1, <2>1 DEF DeviceInv, Agreed
    <3>3. vb2'["Output"].memory = "MMAP" /\ ~vb2'["Output"].drained
      BY <1>1, <2>1 DEF DeviceInv, Agreed, Queues
    <3>4. vb2'["Capture"].count # 0 => capture_memory' = vb2'["Capture"].memory
      <4>1. CASE q = "Capture"
        BY <1>1, <1>4, <2>1, <4>1 DEF DeviceInv, Agreed
      <4>2. CASE q = "Output"
        BY <2>1, <4>2 DEF DeviceInv, Agreed, Queues
      <4> QED BY <4>1, <4>2 DEF Queues
    <3> QED BY <3>1, <3>2, <3>3, <3>4 DEF Agreed
  <2>3. (fd # "thrown" => Opened(fd))'
    BY DEF DeviceInv, Opened
  <2> QED BY <1>2, <2>2, <2>3 DEF DeviceInv
<1> QED BY <1>3, <1>4

\* A buffer is queued with the memory its queue has.
LEMMA QueueKeeps ==
  ASSUME DeviceInv, NEW q \in Queues, queue_buffer(q) PROVE DeviceInv'
<1> DEFINE m == IF q = "Capture" THEN capture_memory ELSE "MMAP"
           errno == QbufErrno(q, m)
           v == [vb2[q] EXCEPT !.queued = @ + 1]
<1>1. /\ vb2[q] \in Vb2Queue /\ vb2[q].count > vb2[q].queued + vb2[q].done
      /\ result' = checked(errno)
      /\ vb2' = IF errno = "0" THEN [vb2 EXCEPT ![q] = v] ELSE vb2
      /\ UNCHANGED <<fd, memory, capture_memory, dead>>
  BY DEF queue_buffer, DeviceInv, Agreed
<1>2. vb2[q].count # 0 /\ vb2[q].memory = m
  <2>1. vb2[q].count # 0
    BY <1>1 DEF Vb2Queue
  <2> QED BY <2>1 DEF DeviceInv, Agreed, Queues
<1>3. errno = IF dead THEN "EIO" ELSE "0"
  BY <1>2 DEF QbufErrno
<1>4. v \in Vb2Queue /\ v.memory = vb2[q].memory /\ v.count = vb2[q].count
  BY <1>1 DEF Vb2Queue
<1>8. q = "Output" => ~v.drained
  BY <1>1 DEF Vb2Queue, DeviceInv, Agreed
<1> HIDE DEF v, errno, m
<1>5. result' = "thrown" => dead'
  BY <1>1, <1>3 DEF checked
<1>6. CASE errno = "0"
  <2>1. vb2' = [vb2 EXCEPT ![q] = v]
    BY <1>1, <1>6
  <2> QED BY <1>1, <1>4, <1>5, <1>8, <2>1, BuffersMove
<1>7. CASE errno # "0"
  <2>1. UNCHANGED <<fd, memory, capture_memory, vb2>>
    BY <1>1, <1>7
  <2> QED BY <1>5, <2>1, OnlyAnswered
<1> QED BY <1>6, <1>7

\* And dequeued with the memory that the wrapper remembers.
LEMMA DequeueKeeps ==
  ASSUME DeviceInv, NEW q \in Queues, dequeue_buffer(q) PROVE DeviceInv'
<1> DEFINE errno == DqbufErrno(q, memory[q])
           v == [vb2[q] EXCEPT !.done = @ - 1]
<1>1. /\ vb2[q] \in Vb2Queue /\ vb2[q].count # 0 /\ vb2[q].memory = memory[q]
      /\ result' = dequeue_buffer_result(q, errno)
      /\ vb2' = IF errno = "0" THEN [vb2 EXCEPT ![q] = v] ELSE vb2
      /\ UNCHANGED <<fd, memory, capture_memory, dead>>
  BY DEF dequeue_buffer, DeviceInv, Agreed
<1>2. CASE dead
  <2>1. errno = "EIO"
    BY <1>2 DEF DqbufErrno
  <2> HIDE DEF errno
  <2>2. UNCHANGED <<fd, memory, capture_memory, vb2>> /\ dead'
    BY <1>1, <1>2, <2>1
  <2> QED BY <2>2, OnlyAnswered
<1>3. CASE ~dead /\ vb2[q].done > 0
  <2>1. errno = "0"
    BY <1>1, <1>3 DEF DqbufErrno
  <2>2. v \in Vb2Queue /\ v.memory = vb2[q].memory /\ v.count = vb2[q].count
    BY <1>1, <1>3 DEF Vb2Queue
  <2>4. q = "Output" => ~v.drained
    BY <1>1 DEF Vb2Queue, DeviceInv, Agreed
  <2> HIDE DEF v, errno
  <2>3. vb2' = [vb2 EXCEPT ![q] = v] /\ result' # "thrown"
    BY <1>1, <2>1 DEF dequeue_buffer_result
  <2> QED BY <1>1, <2>2, <2>3, <2>4, BuffersMove
<1>4. CASE ~dead /\ ~(vb2[q].done > 0)
  <2>1. errno = "EAGAIN" \/ (errno = "EPIPE" /\ q = "Capture")
    BY <1>1, <1>4 DEF DqbufErrno, DeviceInv, Agreed, Queues
  <2> HIDE DEF errno
  <2>2. UNCHANGED <<fd, memory, capture_memory, vb2>>
    BY <1>1, <2>1
  <2>3. result' # "thrown"
    BY <1>1, <2>1 DEF dequeue_buffer_result
  <2> QED BY <2>2, <2>3, OnlyAnswered
<1> QED BY <1>2, <1>3, <1>4

\* The other calls change nothing; and the node fails none of them while it lives.
LEMMA OtherKeeps ==
  ASSUME DeviceInv, other_call PROVE DeviceInv'
<1>1. UNCHANGED <<fd, memory, capture_memory, vb2, dead>>
  BY DEF other_call
<1>2. ~dead => result' # "thrown"
  BY DEF other_call, set_control, decoder_command, get_format, query_buffer, stream_queue,
         checked, optional, poll
<1> QED BY <1>1, <1>2, OnlyAnswered

\* The node's own steps leave the memory of its queues alone.
LEMMA NodeKeeps ==
  ASSUME DeviceInv, node_step PROVE DeviceInv'
<1>1. result' = "true" /\ UNCHANGED <<fd, memory, capture_memory>>
  BY DEF node_step
<1>2. CASE \E q \in Queues : /\ vb2[q].queued > 0
                             /\ vb2' = [vb2 EXCEPT ![q].queued = @ - 1, ![q].done = @ + 1]
  <2>1. PICK q \in Queues : /\ vb2[q].queued > 0
                            /\ vb2' = [vb2 EXCEPT ![q].queued = @ - 1, ![q].done = @ + 1]
    BY <1>2
  <2> DEFINE v == [vb2[q] EXCEPT !.queued = @ - 1, !.done = @ + 1]
  <2>2. vb2[q] \in Vb2Queue /\ vb2 \in [Queues -> Vb2Queue]
    BY DEF DeviceInv, Agreed
  <2>3. v \in Vb2Queue /\ v.memory = vb2[q].memory /\ v.count = vb2[q].count
        /\ v.drained = vb2[q].drained
    BY <2>1, <2>2 DEF Vb2Queue
  <2>4. vb2' = [vb2 EXCEPT ![q] = v]
    BY <2>1, <2>2 DEF Vb2Queue
  <2>5. q = "Output" => ~v.drained
    BY <2>3 DEF DeviceInv, Agreed
  <2> HIDE DEF v
  <2> QED BY <1>1, <2>3, <2>4, <2>5, BuffersMove
<1>3. CASE vb2' = [vb2 EXCEPT !["Capture"].drained = ~@]
  <2> DEFINE v == [vb2["Capture"] EXCEPT !.drained = ~@]
  <2>1. "Capture" \in Queues /\ "Capture" # "Output"
    BY DEF Queues
  <2>2. vb2["Capture"] \in Vb2Queue
    BY <2>1 DEF DeviceInv, Agreed
  <2>3. v \in Vb2Queue /\ v.memory = vb2["Capture"].memory /\ v.count = vb2["Capture"].count
    BY <2>2 DEF Vb2Queue
  <2>4. vb2' = [vb2 EXCEPT !["Capture"] = v]
    BY <1>3
  <2> HIDE DEF v
  <2> QED BY <1>1, <2>1, <2>3, <2>4, BuffersMove
<1>4. CASE UNCHANGED vb2
  BY <1>1, <1>4, OnlyAnswered
<1> QED BY <1>2, <1>3, <1>4 DEF node_step

\* Pools are allocated and freed with the memory the slot pool has for them.
LEMMA PoolsKeep ==
  ASSUME DeviceInv,
         \/ \E m \in Memories : allocate_capture(m)
         \/ release_capture \/ allocate_output \/ release_output
  PROVE  DeviceInv'
<1>1. MaxBuffersOf \in Nat /\ 0 \in Nat /\ "MMAP" \in Memories /\ capture_memory \in Memories
      /\ "Capture" \in Queues /\ "Output" \in Queues /\ "Capture" # "Output"
  BY DeviceAssumption DEF Memories, Queues, DeviceInv, Agreed
<1>2. ASSUME NEW m \in Memories, allocate_capture(m) PROVE DeviceInv'
  <2>1. /\ request_buffers("Capture", MaxBuffersOf, m) /\ UNCHANGED <<fd, dead>>
        /\ capture_memory' = IF dead THEN capture_memory ELSE m
    BY <1>2 DEF allocate_capture
  <2>2. /\ dead => UNCHANGED capture_memory
        /\ capture_memory' \in Memories /\ ~dead => capture_memory' = m
    BY <1>1, <2>1
  <2> QED BY <1>1, <2>1, <2>2, RequestKeeps
<1>3. CASE release_capture
  <2>1. /\ request_buffers("Capture", 0, capture_memory) /\ UNCHANGED <<fd, dead>>
        /\ capture_memory' = IF dead THEN capture_memory ELSE "MMAP"
    BY <1>3 DEF release_capture
  <2>2. (dead => UNCHANGED capture_memory) /\ capture_memory' \in Memories
    BY <1>1, <2>1
  <2> QED BY <1>1, <2>1, <2>2, RequestKeeps
<1>4. CASE allocate_output \/ release_output
  <2>1. /\ request_buffers("Output", MaxBuffersOf, "MMAP")
           \/ request_buffers("Output", 0, "MMAP")
        /\ UNCHANGED <<fd, dead, capture_memory>>
    BY <1>4 DEF allocate_output, release_output
  <2> QED BY <1>1, <2>1, RequestKeeps
<1> QED BY <1>2, <1>3, <1>4

\* A step of the machine keeps what the wrapper and the pool know of the node.
LEMMA DeviceSteps == DeviceInv /\ [DeviceNext]_deviceVars => DeviceInv'
<1> SUFFICES ASSUME DeviceInv, [DeviceNext]_deviceVars PROVE DeviceInv'
  OBVIOUS
<1>1. CASE \/ \E m \in Memories : allocate_capture(m)
           \/ release_capture \/ allocate_output \/ release_output
  BY <1>1, PoolsKeep
<1>2. CASE \E q \in Queues : queue_buffer(q) \/ dequeue_buffer(q)
  BY <1>2, QueueKeeps, DequeueKeeps
<1>3. CASE other_call
  BY <1>3, OtherKeeps
<1>4. CASE node_step
  BY <1>4, NodeKeeps
<1>5. CASE UNCHANGED deviceVars
  <2>1. UNCHANGED <<fd, memory, capture_memory, vb2>> /\ (result' = "thrown" => dead')
    BY <1>5 DEF deviceVars, DeviceInv
  <2> QED BY <2>1, OnlyAnswered
<1> QED BY <1>1, <1>2, <1>3, <1>4, <1>5 DEF DeviceNext

\* Over pools that are allocated, freed and allocated again with the other memory,
\* the wrapper, the slot pool and the node agree on what memory each queue has
\* (device.cc:138, slots.cc).
THEOREM DeviceAgrees == DeviceSpec => []DeviceInv
<1> QED BY DeviceStarts, DeviceSteps, PTL DEF DeviceSpec

\* So no call of the wrapper throws while the node lives; and where the test tells a
\* decoder from the encoder of the same driver, it is a decoder that was opened,
\* whatever paths there are (device.cc:138, 228, 234).
THEOREM DeviceAlwaysAnswers ==
  ASSUME Told
  PROVE  DeviceSpec => []DeviceAnswers
<1>1. DeviceInv => DeviceAnswers
  BY DEF DeviceInv, DeviceAnswers, Opened, Told
<1> QED BY <1>1, DeviceAgrees, PTL
=============================================================================
