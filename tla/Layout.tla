------------------------------- MODULE Layout -------------------------------
(***************************************************************************)
(* Where the planes of a picture lie in a buffer: the layouts of stable    *)
(* surfaces (alloc.cc), of the CAPTURE pool and of one frame of it         *)
(* (session.cc, slots.cc) and of packed images (image.cc), and the checks  *)
(* that stand before the copies between them (publish.cc, gpu_copy.cc,     *)
(* import_compatible).                                                     *)
(*                                                                         *)
(* Lengths are in bytes.  `bytes` is 1 for NV12 and 2 for P010.  The code  *)
(* computes in `unsigned`, modulo Word, except where it casts to uint64_t. *)
(*                                                                         *)
(* X_f is a mutant of f: a bug the code could have.  Nothing uses it.      *)
(***************************************************************************)
EXTENDS Integers

CONSTANTS
  None,                    \* not there
  Word,                    \* 2^32: the range of `unsigned`
  Short,                   \* 2^16: the range of VAImage's width and height
  Widths, Heights,         \* bounds: the geometries of surfaces and images
  Grants,                  \* bounds: the CAPTURE formats the kernel grants
  Lengths, Offsets         \* bounds: what it answers of one buffer: its length
                           \* (QUERYBUF) and the picture's data_offset (DQBUF)

Unsigned == 0..(Word - 1)

ASSUME LayoutAssumption ==
  /\ Word \in Nat /\ Word > 4096 /\ Short \in 1..Word
  /\ Widths \subseteq Unsigned \ {0} /\ Heights \subseteq Unsigned \ {0}
  /\ Grants \subseteq [bytes : {1, 2}, width : Unsigned, height : Unsigned,
                       stride : Unsigned, size : Unsigned]
  /\ Lengths \subseteq Unsigned /\ Offsets \subseteq Unsigned

VARIABLES
  stable,     \* the layout of a surface's StableBuffer
  capture,    \* SlotPool::capture_layout_
  frame,      \* the layout of the frame that is copied or that a surface holds
  image       \* a VAImage

layoutVars == <<stable, capture, frame, image>>

Bytes == {1, 2}

\* (x + a - 1) & ~(a - 1) for a power of two a.
AlignUp(x, a) == LET y == (x + a - 1) % Word IN y - (y % a)
Even(x)       == AlignUp(x, 2)
Half(x)       == ((x + 1) % Word) \div 2

IntMax == Word \div 2 - 1

chroma_offset(l) == (l.data_offset + l.stride * l.storage_height) % Word
-----------------------------------------------------------------------------
(* The layouts.                                                            *)

X_StablePitch(b, w) == AlignUp(w, 128 * b)           \* pixels for bytes
StablePitch(b, w)   == AlignUp((w * b) % Word, 128 * b)
ChromaRows(h) == AlignUp(Half(h), 16)

\* The sum is taken in 64 bits and must fit 32.
StableTotal(b, w, h) ==
  LET rows == AlignUp(h, 32) + ChromaRows(h)
      sum  == StablePitch(b, w) * rows + 4095
  IN sum - (sum % 4096)

stable_layout(b, w, h) ==
  [bytes |-> b, width |-> w, height |-> h, stride |-> StablePitch(b, w),
   storage_height |-> AlignUp(h, 32), data_offset |-> 0, size |-> StableTotal(b, w, h)]

\* configure_capture: what the kernel granted, chroma after 32-aligned rows.
capture_layout(g) ==
  [bytes |-> g.bytes, width |-> g.width, height |-> g.height,
   stride |-> g.stride, storage_height |-> AlignUp(g.height, 32),
   data_offset |-> 0, size |-> g.size]

\* fill_image: packed rows; VAImage's width and height are cut to 16 bits, the
\* pitches and offsets are not.  `asked` is the uncut geometry (ghost).
X_ImagePitch(b, w) == (w * b) % Word                 \* odd widths forgotten
ImagePitch(b, w)   == (Even(w) * b) % Word
fill_image(b, w, h) ==
  LET luma == (w * b) % Word IN
  [bytes |-> b, width |-> w % Short, height |-> h % Short, asked |-> <<w, h>>,
   pitch |-> <<luma, ImagePitch(b, w)>>, offset |-> (luma * h) % Word,
   size |-> (((luma * h) % Word) + ImagePitch(b, w) * Half(h)) % Word]
-----------------------------------------------------------------------------
(* The checks.                                                             *)

\* publish.cc validate, before the CPU copies w x h out of or into l.
X_CpuFits(l, w, h) ==
  /\ w <= l.width /\ h <= l.height /\ h <= l.storage_height
  /\ chroma_offset(l) + (Half(h) - 1) * l.stride + (w * l.bytes) <= l.size
CpuFits(l, w, h) ==
  /\ w <= l.width /\ h <= l.height /\ h <= l.storage_height
  /\ Even(w) * l.bytes <= l.stride
  /\ chroma_offset(l) + (Half(h) - 1) * l.stride + Even(w) * l.bytes <= l.size

\* gpu_copy.cc view: each plane is imported as texels of four bytes; EGL takes
\* its pitch and offset as int.
Texels(row) == (row + 3) \div 4
PlaneFits(l, offset, row, rows) ==
  /\ Texels(row) * 4 <= l.stride /\ offset <= IntMax
  /\ offset + (rows - 1) * l.stride + Texels(row) * 4 <= l.size
GpuFits(l, w, h) ==
  /\ w <= l.width /\ h <= l.height /\ h <= l.storage_height /\ l.stride <= IntMax
  /\ PlaneFits(l, l.data_offset, w * l.bytes, h)
  /\ PlaneFits(l, chroma_offset(l), Even(w) * l.bytes, Half(h))

X_import_compatible(c, k) ==         \* a taller picture in a larger buffer
  c.bytes = k.bytes /\ c.stride = k.stride /\ c.size >= k.size
import_compatible(c, k) ==
  /\ c.bytes = k.bytes /\ c.stride = k.stride
  /\ chroma_offset(c) = chroma_offset(k) /\ c.size >= k.size
-----------------------------------------------------------------------------
(* A surface gets its buffer, the decoder its pool, a client an image.     *)

LayoutInit == stable = None /\ capture = None /\ frame = None /\ image = None

\* ensure_stable, once per surface.
Allocate(b, w, h) ==
  /\ stable = None /\ StableTotal(b, w, h) < Word
  /\ stable' = stable_layout(b, w, h) /\ UNCHANGED <<capture, frame, image>>

\* A pool is not replaced while one of its frames is held.
Configure(g) ==
  /\ frame = None
  /\ capture' = capture_layout(g) /\ UNCHANGED <<stable, frame, image>>

\* A frame of the pool comes back with a picture: it has the pool's layout, the
\* length of its own buffer, and the offset of this picture.
Complete(length, offset) ==
  /\ capture # None /\ frame = None
  /\ frame' = [capture EXCEPT !.size = length, !.data_offset = offset]
  /\ UNCHANGED <<stable, capture, image>>

\* It has been copied, or the surface lets go of it.
Drop == frame # None /\ frame' = None /\ UNCHANGED <<stable, capture, image>>

createImage(b, w, h) ==
  image' = fill_image(b, w, h) /\ UNCHANGED <<stable, capture, frame>>

\* The surface is destroyed.
Destroy == stable # None /\ stable' = None /\ UNCHANGED <<capture, frame, image>>

LayoutNext ==
  \/ \E b \in Bytes, w \in Widths, h \in Heights : Allocate(b, w, h)
  \/ \E g \in Grants : Configure(g)
  \/ \E length \in Lengths, offset \in Offsets : Complete(length, offset)
  \/ Drop
  \/ \E b \in Bytes, w \in Widths, h \in Heights : createImage(b, w, h)
  \/ Destroy

LayoutSpec == LayoutInit /\ [][LayoutNext]_layoutVars
-----------------------------------------------------------------------------
(* What must be true of them.                                              *)

\* Every visible byte of w x h has a place of its own in l: rows do not
\* overlap, luma ends before chroma begins, chroma ends inside the buffer.
Inside(l, w, h) ==
  /\ \A r \in 0..(h - 1) :
       l.data_offset + r * l.stride + w * l.bytes <= chroma_offset(l)
  /\ \A r \in 0..(Half(h) - 1) :
       chroma_offset(l) + r * l.stride + Even(w) * l.bytes <= l.size
  /\ Even(w) * l.bytes <= l.stride

\* The geometries whose roundings do not wrap.
NoWrap(b, w, h) == w * b + 256 <= Word /\ h + 32 <= Word
ImageNoWrap(b, w, h) == (w + 1) * b * (h + (h + 1) \div 2) < Word /\ h + 1 < Word

Least(x, y) == IF x <= y THEN x ELSE y

\* How the kernel's Iris driver lays a picture out (external, as alloc.cc:58-61
\* tells it): pitches of 128 pixels, 32 and 16 rows to a block, chroma directly
\* after luma, 4 KiB pages.  These are numbers, not `unsigned`.
Blocks(x, a) == (x + a - 1) \div a
FirmwarePitch(b, w) == 128 * b * Blocks(w, 128)
FirmwareSize(b, w, h) ==
  4096 * Blocks(FirmwarePitch(b, w) * (32 * Blocks(h, 32) + 16 * Blocks(Blocks(h, 2), 16)),
                4096)

\* l is the layout of a picture that the kernel has laid out like that, in a
\* buffer that has room for it.
AsFirmware(l) ==
  /\ l.width > 0 /\ l.height > 0 /\ NoWrap(l.bytes, l.width, l.height)
  /\ l.stride = FirmwarePitch(l.bytes, l.width)
  /\ l.data_offset + FirmwareSize(l.bytes, l.width, l.height) <= l.size

\* A surface's own buffer passes the checks of the CPU engine for the surface's
\* whole visible area, odd sizes included, so a Copy publish never fails for want
\* of room in its destination (alloc.cc:56, publish.cc:17); and the checks of the
\* GPU engine just when its chroma plane begins where EGL's int can say
\* (gpu_copy.cc:130-143): what it refuses beyond that, alloc.cc:63 promises.
StableBufferFits ==
  stable # None =>
    LET l == stable IN
      NoWrap(l.bytes, l.width, l.height) =>
        /\ CpuFits(l, l.width, l.height)
        /\ GpuFits(l, l.width, l.height) <=> chroma_offset(l) <= IntMax

\* The CPU copy checks the last chroma row alone: whatever the kernel granted
\* and whatever it answered of the buffer, when that check passes no row of either
\* plane leaves its place, in the frame that is read or the surface that is
\* written (publish.cc:17-25).
CpuCopyInside ==
  stable # None /\ frame # None /\ stable.bytes = frame.bytes =>
    LET w == stable.width
        h == stable.height
    IN CpuFits(stable, w, h) /\ CpuFits(frame, w, h) =>
         \A l \in {stable, frame} :
           w + 1 < Word /\ l.data_offset + l.stride * l.storage_height < Word
           => Inside(l, w, h)

\* Import: alloc.cc:58-63 says that a surface's buffer can be queued in place of
\* the kernel's.  Of a picture that the kernel lays out as it says, the buffer is
\* accepted just when both have the same blocks of 128 pixels and of 32 rows, so
\* the coded size may differ from the surface's; and the whole coded picture, its
\* padding included, then lies inside the client's buffer (session.cc:127).
SameBlocks(c, k) ==
  /\ c.bytes = k.bytes /\ Blocks(c.width, 128) = Blocks(k.width, 128)
  /\ Blocks(c.height, 32) = Blocks(k.height, 32)
ImportHoldsPicture ==
  stable # None /\ capture # None /\ NoWrap(stable.bytes, stable.width, stable.height)
    /\ AsFirmware(capture)
    /\ capture.size = FirmwareSize(capture.bytes, capture.width, capture.height)
  => /\ import_compatible(stable, capture) <=> SameBlocks(stable, capture)
     /\ import_compatible(stable, capture) => Inside(stable, capture.width, capture.height)

\* copy_pixels reads the smaller of the image and the buffer, rounded up to whole
\* chroma pairs: it stays inside the packed image it writes and inside the buffer
\* it reads, which is the held frame's before the surface's own.  Nothing checks
\* the frame's layout here as validate() does for the copy engine: that it holds
\* the picture is the kernel's word, AsFirmware (image.cc:52-81).
ImageHolds ==
  image # None /\ (frame # None \/ stable # None) =>
    LET source == IF frame # None THEN frame ELSE stable
        w == Least(image.width, source.width)
        h == Least(image.height, source.height)
        b == image.bytes
    IN /\ image.bytes = source.bytes
       /\ ImageNoWrap(b, image.asked[1], image.asked[2])
       /\ NoWrap(b, source.width, source.height)
       /\ frame # None => AsFirmware(frame)
       => /\ Inside(source, w, h)
          /\ \A r \in 0..(h - 1) : r * image.pitch[1] + w * b <= image.offset
          /\ Even(w) * b <= image.pitch[2]
          /\ \A r \in 0..(Half(h) - 1) :
               image.offset + r * image.pitch[2] + Even(w) * b <= image.size
=============================================================================
