# A verification project for the Iris VA-API driver

The repository is a VA-API driver for Qualcomm's Iris video decoder: clients
(Chrome, mpv, FFmpeg) call `va*` functions from several threads, the driver turns
each picture into an access unit, queues it to a stateful V4L2 decoder and
publishes every completed picture to the surface it was decoded for. This
directory holds TLA+ models of that code, the TLC configurations that check them
on small instances, and TLAPS proofs.

Paths below are relative to the repository: `iris/session.cc` is
`src/iris/session.cc` there, and `docs/architecture.md` is `docs/architecture.md`.

## 1. Inventory

| Part | State it keeps | Operations | Talks to | What is hard | What makes it correct |
|---|---|---|---|---|---|
| **Session** `iris/session.{h,cc}` | state, map of live tokens, next token, import backlog, events seen, kind of CAPTURE memory | `submit`, `service`, `wait`, `release`, `finish`; inside them `pump`, `drain`, `restart`, `reconfigure` | the decoder by ioctl, the slot pool, the copy engine, targets inside surfaces | one mutex that `wait` gives up while it polls; resolution changes while frames are held; drains with deadlines; pictures lost, misplaced, late; output order unlike decode order | every picture has one fate, decided once; what a surface shows is its own picture until released; a sync says SUCCESS only for a picture that is there; no call or sync hangs |
| **Slot pool** `iris/slots.{h,cc}` | OUTPUT and CAPTURE slots: queued flag, token, use count, client buffer | queue an access unit; queue a CAPTURE slot, client buffer or scratch buffer; take a completion | session, decoder | a slot is queued, completed, published, held | the decoder never owns a slot whose pixels a client holds |
| **Decoder** (kernel driver and firmware, external) | its two queues, parsed pictures, events | SOURCE_CHANGE, decode, reorder, LAST, errors | session | runs concurrently; picks any CAPTURE buffer it owns | assumed, see section 3 |
| **VA entry points** `va/driver.{h,cc}`, `picture.cc`, `surface.cc` | tables of surfaces and contexts, per-surface flags and stable buffer | create/destroy context, begin/end picture, sync, query, export, destroy surfaces | sessions, translators, copy engine | several client threads; two levels of mutex; surfaces that move between contexts or are destroyed during other threads' calls | one owner of a pending picture, always somebody to complete it, no dangling target, honest syncs |
| **Images and buffers** `va/image.cc`, `buffer.cc` | tables of images and buffers, derived images, acquired handles | create/destroy image, derive, get, acquire/release handle | surfaces | sizes and offsets; handles that outlive objects | copies stay inside both sides |
| **Copy engine** `iris/gpu_copy.cc`, `publish.{h,cc}` | worker thread, one task cell, cached DMA-BUF imports | `copy`, `forget`, start, end | sessions, surfaces | hand-over between threads; imports that keep buffers alive; failures half-way | no task uses freed memory, every call returns, a forgotten buffer is gone |
| **Layouts** `iris/alloc.cc`, `session.cc`, `gpu_copy.cc`, `va/image.cc` | plane layouts of surfaces, slots and images | allocate, negotiate, check before copying | both copy engines | odd sizes, padding, 32-bit products | no byte is copied out of place |
| **AV1 translator** `codec/av1.cc`, `av1_obu.cc` | the held picture, the sequence, order hints and motion parameters per reference slot | `translate`, `flush` | VA entry points | works out refresh flags one picture late; must mirror the decoder's reference slots | decoder and client agree on every reference slot |
| **H.264, HEVC, VP9 translators** `codec/*.cc`, `bitwriter.h` | HEVC: has it started, are RASL pictures dropped, the last scaling lists; the others nothing | `translate` | VA entry points | parameter sets invented from VA's structures; slice headers rewritten to the bit; superframes | a decoder reads back what VA described |
| **Device wrapper** `iris/device.cc` | the memory type of each queue | ioctls, `open_device` | session, slot pool | pools freed and allocated with another memory type; every errno | an empty, drained or unanswered queue is no failure; the encoder is never opened |
| **Options, configs, capabilities** `util/options.cc`, `va/config.cc` | fixed at start; table of configs | `createConfig`, `destroyConfig` | every entry point | | the tables hold what was probed |
| **Allocator ioctls, tests, packaging** | nothing that changes after start | | | | not modelled |

`PROJECT.json` lists the same components, with the hazards of each at the line
where it bites and the properties that would notice it going wrong.

## 2. Modules

```
Slots ── Decoder ── Session ── MCSession          (runs session, import, live, hole, finish)
   │                   └─ INSTANCE DecodePromise   (abstract specification)
                       └── SessionProofs ── PixelProofs ── QueueProofs
VaDriver ── MCVaDriver                             (runs va, va_sync)
   └── VaProofs
Objects ── MCObjects                               (runs objects, handle)
   └── ObjectsProofs
GpuCopy                                            (runs gpu, gpu_broken)
   └── GpuCopyProofs
Layout, Av1, Bits, H264, Hevc, Vp9, Device ── MCParts   (run parts)
   │      └── Av1Proofs
   └── BufferProofs (Layout, Device)
```

`MCParts` puts the parts that share no state into one run: the first state
chooses a part, and a behaviour is one of that part alone. They are seven
independent checks; nothing is claimed of them together.

A definition carries the name of the function or field it models where TLA+
allows it. In every module an operator `X_f` next to `f` is a bug that `f` could
have (a dropped guard, a missing reset); nothing uses it. `PROJECT.json` pairs
each property with one of them, which the property must notice.

### Session, Slots, Decoder

`Session` models every call and every loop of `session.cc`; what it leaves out is listed below. The session's mutex admits one call, so
the state has the call under the lock (`call`), its target (`arg`) and the place
it has reached (`pc`); each action is the stretch of code between two points
where the decoder's concurrent progress can matter (a dequeue, an event, an
ioctl). The deep part of the code is one shared loop: `pump()` handles events,
OUTPUT returns, CAPTURE returns, then goes on to a drain for a resolution change
or hands over the next client buffer; `submit`, `service`, `wait` and `drain` run
it with different ends. In the model:

| code | actions |
|---|---|
| `submit` 335-408 | `Submit`, `SubmitLoops`, `SubmitGivesUp`, `Accept`, `CallDone` |
| `service` 413 | `Service`, `CallDone` |
| `pump` 425-453 | `PumpStart` (in `Enter`), `HandleEvents`, `Configure`, `ReturnOutput`, `LoopEnds`, `ReturnCapture`, `PumpTail`, `DequeueError` |
| `handle_capture_returns`, `publish` 491-603 | `Complete`, `Spoiled`, `Discarded`, `Published` |
| `wait` 608-659 | `WaitSettled`, `Wait`, `WaitPolls`, `Relock`, `WaitReturns`, `WaitExpires` |
| `release` 663-690 | `Release` |
| `drain`, `restart`, `reconfigure` 692-801 | `BeginDrain`, `StopBusy`, `DrainTurn`, `DrainExpires`, `LastSeen`, `Drained`, `Start`, `StartBusy`, `Rebuild`, `Reconfigure` |
| `finish` 828 | `Finish` |
| `fail` 853 | `Fail`, `Unwind`, `Throw` |
| `configure_capture`, `enter_streaming` 171-271 | `configure_capture`, `configure_capture_throws` |
| `queue_import_next` 273-322 | `ImportNext` |

`wait` unlocks while it polls: `waiter[t]` remembers the waits under way, and
`Relock(t)` is a thread that has the lock again. Deadlines are steps that may be
taken whenever the code compares the clock with them.

`Slots` has the use counts and queue flags of `slots.cc` and the four ways in
which a buffer is queued. Its use count is not stored: `held(tg, c)` asks whether
some target holds the frame, which is what the count counts.

`Decoder` is external: V4L2's decoder as `session.cc`, `device.cc` and
`test/unit/fake_device.cc` use it. It consumes access units in order, announces
the first geometry and each new one, writes a picture into *any* CAPTURE buffer
it owns, outputs in decode order or (display order) in any order within its
window, and answers STOP with LAST on an empty buffer. Up to `MaxFaults` times it
loses a picture (in each of the three shapes that `handle_capture_returns`
distinguishes), rejects an access unit, or an ioctl, a copy or a fence fails.

`DecodePromise` is the abstract specification: what a session promises without a
decoder, pool or queue. Each accepted picture has one fate, decided once; what a
surface shows is its own picture; a sync succeeds only for what is there. A sync past
its deadline is `flushing` once: if the flush brings the picture and a step after
that fails, the sync is told an error for a picture that is there, which the promise
allows there and nowhere else.
`Session!KeepsPromise` is the refinement: `fate` comes from the target's flags,
`shows` from the memory behind the slot or the stable buffer, `answer` from
`waiter`.

Left out of `Session`: the destructor; traces, statistics and byte counts; the
extension of the drain's deadline by progress (the deadline may pass at any
turn, which includes it); failures of STREAMOFF and of the event subscription;
the sizing of the pool (the model's pool has the slots it is given). Of the failing
QBUFs, that of an access unit is a way to give up a submit (`SubmitGivesUp`; the code
has then used up a token that nobody has seen, the model keeps it) and that of a client's
buffer is a spoiled picture, but that of a CAPTURE slot
in `requeue_capture` is left out: it ends the call with an error outside the `try` of
`pump` (`session.cc:429`), so the session does not fail, and the slots after the refused one wait
for the next pass. A submit that is refused because its access unit is too large
(`session.cc:340`) changes nothing of the session and is no step.

### VaDriver

Client threads run the entry points of `picture.cc` and `surface.cc` over
sessions that are as abstract as `DecodePromise`: a set of pending targets that
any call into the session may settle. One action is one stretch under
`Driver::mutex`, or one call into a session. Destroying a context is five steps
in different locks (flush, `finish()`, out of the table, disown its surfaces),
between which other threads sync, export and destroy. `Deferring` contexts have a
translator that holds a picture back. Clients keep to libva's rules: one thread
decodes with a context at a time, a surface is not reused or destroyed inside
another thread's call for it (`DecodesWith`, `InCall`, `InDecode`, `BeingReused`,
`BeingDestroyed`, `Held` name these limits). Policy Import is Copy here: either way
the pixels land in the stable buffer. `createSurfaces`, `renderPicture`,
`terminate`, the publish override and WRITE_ONLY exports are left out here.

### Objects

The five object tables and what ties them together: configs and their RT formats,
contexts that take over the surfaces without an owner, images with their
buffers, images derived from surfaces, handles acquired for them, lists of
surfaces destroyed in one call, `terminate`. Ids are never reused, so each kind has
a counter. Decoding is one step per picture and one for its end, over
the smallest session that can lose or complete a picture at any time; the calls
that give up `Driver::mutex` half-way (`deriveImage`, `getImage`,
`destroySurfaces`) keep their steps, and the others are atomic because the mutex
makes them so. Pixels are the number of a picture and a format; a copy into a
buffer of another format throws, as `validate()` does.

Three behaviours of the code that a reader may not expect are in the model as they
are: `destroyBuffer` closes an acquired fd without giving the surface's count back
(so `HandlePins` is an inequality, and such a surface can never be destroyed);
`destroySurfaces` stops at the first surface with a handle, after those before it
have left the table without being released (`refused`, the exception in
`DestroyedReleased`: their sessions keep pointers to freed targets); an image whose
copy throws stays in the tables. `mapBuffer`, `bufferSetNumElements` and the
queries move data only and are left out.

### GpuCopy

The copy engine's worker thread, its single task cell, the condition variable
(spurious wake-ups, lost notifications), the caches of imports and the
destructor. Callers use buffers that no other caller uses meanwhile, as the
sessions' locks ensure. What a copy does to pixels is left out.

### Layout

The arithmetic of the layouts, modulo the range of `unsigned` (`Word`), and of the
checks that stand before every copy, EGL's `int` included (`IntMax`). Actions only choose a
surface's buffer, the format the kernel grants, what it answers of one buffer (`Complete`: the
length of the buffer and the offset of the picture in it; a surface may hold that frame or
let it go) and an image; the content is in the operators. Products that wrap are named
(`NoWrap`, `ImageNoWrap`): surfaces have no upper bound in `createSurfaces`, and the
properties of surfaces' own buffers are stated for geometries that do not wrap.

Nothing in the driver checks a layout that the kernel grants before pixels are decoded into a client's
buffer or read out of a held frame by `copy_pixels`; there the code relies on the kernel laying
pictures out as `alloc.cc:58-61` says. `AsFirmware` is that reliance: the external reference
(`FirmwarePitch`, `FirmwareSize`, in blocks and pages, without wrapping), which the properties of
imports and of held frames assume and nothing else does.

### Av1

`av1.cc` and what of `av1_obu.cc` depends on other pictures. VA does not carry
`refresh_frame_flags`; the translator holds each picture until its successor's
reference map shows which slots it took. Around it are the client, with its
slots as AV1 defines them (shown and hidden key frames, inter and switch frames,
`show_existing_frame`), and the decoder with its own. A frame's number stands for
its order hint and motion parameters. The bits of the headers are abstracted to
the state that they are coded against (`UnitOf`).

### Bits, H264, Hevc, Vp9

What a translator emits is checked by reading it as a decoder would, which is
given from the codec's specification and marked external.

`Bits` is `bitwriter.h` bit by bit: every code the translators write, at every
alignment, with the trailing bits and emulation prevention, read back by the
readers of the same file (and, for AV1's codes, a decoder's).

`H264`: the fields of SPS and PPS that the size of a picture and the parsing of
its slices depend on, the choice of a level, the cropping, and Annex B around
client data that may or may not bring start codes. The IQ matrix (which the code
ignores too) and the fields of picture order count and of the quantiser are left out.

`Hevc`: the syntax of a slice header is given once, as a sequence of elements for
any parameter sets. The client's header is that sequence for the stream's sets, coded
in each of the ways a reference picture set can be; `rewrite_slice` consumes it
element by element and writes its own; the property parses the result with the
generated sets. Scaling lists and the admission of pictures (IRAP, RASL) are in it
too. One slice per picture, and neither the pairing of NAL units with data buffers
nor profile_tier_level.

`Vp9`: the header up to the refresh flags with every check that throws (sync code, 12 bit, RGB,
an end of the data before that of the header), the flags VA claims, and the superframe with its index, which a decoder takes apart.

### Device

The wrapper under the slot pool that calls it: how a node is chosen among
cameras, encoder and decoder, which memory type each queue remembers across
REQBUFS, and what becomes of every errno. The node is videobuf2 as the wrapper
meets it. `Session` and `Decoder` do not use this module: they take its answers
(a buffer, nothing, an error) as their alphabet. `device.h:91` says that DQBUF throws
on EPIPE; on CAPTURE the code returns nothing, which `session.cc` relies on and the model
follows.

## 3. Runs

| run | instance | shows |
|---|---|---|
| `session` | 2 surfaces of 2 geometries, 2 CAPTURE slots, 1 OUTPUT slot, 2 pictures, all three policies in one session, 1 fault, deadlines | `TypeOK`, `PendingAgree`, `SyncHonest`, `HeldNotQueued`, `PublishedPixels`, `FailedIsClean`, `KeepsPromise` |
| `import` | 3 pictures over 2 surfaces, 2 CAPTURE and 2 OUTPUT slots, Import, 1 fault, deadlines | `ImportWindow`, `Lockstep`, `NoHoles`, `InSubmissionOrder`, `PublishedPixels` |
| `live` | 1 CAPTURE and 1 OUTPUT slot, 2 geometries, Import, both output orders, no faults, fairness; syncs expire in display order | `DrainFlushes`, `CallReturns`, `SyncAnswered` |
| `hole` (violation) | 3 pictures, 2 geometries of one layout | `NoHoles` fails: finding 1 |
| `finish` (violation) | 2 pictures, 2 geometries | `FinishedIsClean` fails: finding 2 |
| `va` | 2 threads, 2 surfaces of which one is exported, 2 contexts of which one defers | `OnePending`, `NoDangling`, `SomebodyServes`, `PersistentPixels`, `WaitIsHonest` |
| `va_sync` (violation) | 1 thread, 2 surfaces, 1 context | `SyncIsHonest` fails: finding 4 |
| `objects` | 1 context, 2 surfaces, 2 buffers and images (3 surfaces and buffers together), 2 pictures, 2 handles, a ten-bit config | `HandlePins`, `ImageIsPicture`, `DestroyedReleased` |
| `handle` (violation) | the same | `HandlePixels` fails: finding 5 |
| `gpu` | 3 threads, 2 slots, 1 surface | `ReferencesAlive`, `ForgetForgets`, `RunReturns`, `Terminates` |
| `gpu_broken` (violation) | 2 threads | `NoBrokenPromise` fails: finding 3 |
| `parts`: layout | sizes on both sides of every alignment, 40 formats of which 8 are as the kernel's driver lays pictures out, 2 lengths and 2 offsets of a frame, a 16-bit `Word` | `StableBufferFits`, `CpuCopyInside`, `ImportHoldsPicture`, `ImageHolds` |
| `parts`: av1 | 4 pictures, 2 reference slots, 3 surfaces, 2 sizes; any unit lost or rejected | `RightReferences`, `HintsAgree`, `SequenceKnown` |
| `parts`: bits | 16-bit words, the values around every power of two that matters, 2 items, payloads of up to 4 bytes | `BitsReadBack` |
| `parts`: h264 | sizes from 1 to 135 macroblocks, surfaces up to 1920, 0 to 16 references, 2 data buffers | `H264Agrees` |
| `parts`: hevc | 4 kinds of streams, up to 3 references in any roles, lists in either order; any sequence of picture types | `HevcSliceDecodes`, `HevcAdmits` |
| `parts`: vp9 | 2 frames, 3 slots, sizes on both sides of each byte of the index, radix 4 | `Vp9ShowsOne` |
| `parts`: device | 3 nodes, 2 buffers a queue, a node that may die | `DeviceAnswers` |

**Bounds.** Two pictures are enough for one to be lost, late or misplaced and the
other to suffer; a third is needed for a backlog with a head and a tail, so
`import` has three. Two CAPTURE slots are the least with which a drain's LAST and
a held frame compete; `live` has one, the tightest, which also makes a wrong
hand-over a deadlock. `import` and the violation runs have two OUTPUT slots, so that
access units queue up; in the others a picture is consumed before the next one is
queued, and two pictures are still in the decoder at once. One fault at any point of a behaviour covers every error
path of the code once; two faults in one behaviour are not covered. In
`Av1` two reference slots distinguish "refreshed" from "kept", and three surfaces
leave the client exactly one to decode into. In `Objects` two surfaces let a list
fail in its middle, and two handles let one buffer acquire twice. The sizes of the
stateless parts stand on both sides of each threshold of the code, and words and bytes
are narrow (`Word`, `WordBits`, `Radix`) so that they wrap. The bound on tokens is also the only
bound on the behaviours' length: clients may wait, release and service for ever.

**Deadlock** is checked in the session runs: a call under the lock always has a
next step, and clients may always call. It is off where the system may stop for good
(all contexts destroyed, engine closed, the stream's frames used up, a driver
terminated, a part that has done its one step).

**Fairness.** `Session!Fairness` claims: the call under the lock runs on (weak,
it is a running thread); a polling thread gets the lock again however often
others take it (strong; the poll is at most 10 ms and the mutex is not held
across it); the loops of `submit`, `wait` and `restart` reach their deadlines
(strong: they re-read the clock each turn); the firmware goes on with what it has
in decode order or once it is stopped. In display order it may keep a
picture for ever until STOP, which is why a sync needs its drain. Clients owe
nothing. `GpuFairness` is weak fairness of every thread that can run.
`SyncExpiry` is the set of modes in which a `wait` may reach its deadline:
`live` leaves out decode order so that `SyncAnswered` shows the decoder never
starves for buffers; in display order the deadline is part of how the code works.

## 4. Findings

1. **hole**, `session.cc:299`. `queue_import_next` compares a backlog entry's layout
   with the pool only while the entry's target lives. If the first picture of a new geometry is
   released while its access unit waits, its buffer goes into the old pool, the
   old pool's LAST consumes it, and the new pool lacks one buffer.
2. **finish**, `session.cc:828`. `finish()` during a pending resolution change returns
   with the target whose access unit waits on OUTPUT still pending (a later sync may yet
   serve it); `picture.cc:158` relies on the contrary.
3. **gpu_broken**, `gpu_copy.cc:276`. Two threads in `run()` at once: the second
   replaces the first's task, whose caller gets `std::future_error`, which nobody
   catches as `iris::Error`.
4. **va_sync**, `surface.cc:45`. A picture that failed during another call is answered
   SUCCESS by `syncSurface`, which looks only at `Surface::failed`.
5. **handle**, `buffer.cc:129`. `acquireBufferHandle` during a surface's decode sets
   `persistent_export` and hands out the stable buffer, but does not wait as the
   export does: the pending picture was submitted Direct, completes as a CAPTURE
   slot, and never reaches the memory the client holds.

Other disagreements have no run of their own:

- `av1.cc:36-41`: a key frame of another size overwrites `sequence_` before the held
  picture is written, so the last picture before it is coded against a sequence
  header that the decoder does not have. `SequenceKnown` is stated for every
  other unit; drop `~unit.overtaken` from it and the run `parts` shows the
  behaviour in three steps.
- `av1_obu.cc:669` rejects a switch frame exactly when it has the sequence's
  size, with a message that asks for that size (`Unwritable`).
- `surface.cc:145`: `destroySurfaces` that meets an acquired handle in its list leaves
  the surfaces before it unreleased (`refused` in `Objects`).
- `buffer.cc:45`: a buffer destroyed with its handle open pins its surface for ever.
- `alloc.cc:62-64` says that a surface's layout "also satisfies freedreno's linear import rules
  for the GPU copy", but `gpu_copy.cc:140` refuses a plane that begins beyond `INT_MAX`, and
  `createSurfaces` has no upper bound: an NV12 surface of 65536x32768 has its chroma at
  2^31. `StableBufferFits` says exactly when that happens (`chroma_offset(l) <= IntMax`), and the run has
  such surfaces (P010, 129x33, at its 16-bit `Word`). The CPU copy takes them.
- `image.cc:58-61`: `copy_pixels` reads a held frame by the kernel's layout without the checks that
  `validate()` makes before every copy of a completed frame. `ImageHolds` therefore needs
  `AsFirmware(frame)`.
- `session.cc:255-262`: a resolution change between geometries of one buffer layout
  (`import_compatible` compares pitch, chroma offset and size only). The buffer of the
  picture that announces the change is with the old pool already, LAST consumes
  it, and `enter_streaming` appends it behind the younger ones: token 3 is handed over
  before token 2, and both pictures land in each other's buffers and fail.
  `session.h:191-193` says that buffers are handed over in submission order. `import`
  with two geometries of one layout and no fault violates `InSubmissionOrder` after
  46 steps; `InSubmissionOrder`, `Lockstep` and `NoHoles` are therefore claims about
  streams without such changes; the theorems of `QueueProofs` say so in their hypotheses
  (section 5).
- `session.cc:247-271`: an Import pool that gives way to an Mmap pool, because the
  next geometry's pictures do not ask for Import, leaves `import_backlog_` as it is. Surfaces 1
  and 3 are exported and 2 is not (1 has geometry A, 2 and 3 have B), and the four pictures for
  1, 2, 3, 1 are all submitted while the pool is Import. The change to B builds an Mmap pool,
  which publishes the third picture by copy into surface 3; the change back to A
  builds an Import pool, and `queue_import_next` finds the third picture's old buffer at
  the head of the backlog: the fourth picture is written into the surface that shows
  the third (75 steps in TLC, with the policy of each picture chosen as
  `driver.cc:61-79` does). `architecture.md:370-371` and `session.h:188-191` exclude it.
  `PublishedPixels` holds in the runs because their instances are too small for two changes and
  a leftover; `CleanStart` in section 5 is exactly its absence.

## 5. Proofs

`SessionProofs!TypeCorrect` is `Spec => []TypeOK` for every number of surfaces,
slots, pictures, faults and geometries. `TypeOK` alone is not inductive:
`Accept` uses a token and a free OUTPUT slot that an earlier place of `submit` has
checked, so the invariant is `TypeInv == TypeOK /\ CallShape`, where `CallShape`
ties the call under the lock to its argument (a submit that has not accepted its
picture yet has a target and a token left, a wait has a target). One lemma per group of
actions, `TypeStep` puts them together. The lemmas about the pool come first: `free_output` finds a slot when there is one (a finite nonempty set of slot
numbers has a least element). Assumptions: those of `Slots`, `Decoder` and
`Session`, which TLC evaluates in the runs.

`BufferProofs!CopyStaysInside` is `LayoutSpec => []CpuCopyInside`: `validate()`
checks the end of the last chroma row only, and every other row of both planes
follows, for every surface, every format the kernel may grant and every width of
`unsigned`. The argument is `LastRowSuffices`, over layouts of the shape `Planes`;
`AlwaysDerived` shows by induction that every layout in the state came out of the function that
computes it and has that shape, the frame's length and offset being any numbers at all.

`SurfacesHaveRoom` (`StableBufferFits`), `ImportsHoldPictures` (`ImportHoldsPicture`) and
`ImagesHold` (`ImageHolds`) rest on one comparison: below the wrap, the driver's arithmetic with
masks and 32-bit products gives just the blocks and pages of the external reference
(`RoundsToBlocks`, `StableAsFirmware`), and a buffer with that layout has room for every row of
every picture that is not larger (`RoomForPicture`, `RowsFit`). For imports `Cancels` turns that
round: two surfaces with one pitch and one chroma offset have the same numbers of blocks, so
`import_compatible` accepts exactly the pictures of the surface's blocks, and the padding of the
coded picture is inside too.

`SessionProofs` also proves what becomes of pictures: `TokensAgree`, `SyncsAreHonest` and
`FailuresAreClean` are `Spec => []PendingAgree`, `Spec => []SyncHonest` and
`Spec => []FailedIsClean`. None of them is inductive. A sync that said OK must
stay right when others fail pictures, so *settling* is the notion they share:
every place of the code that ends pictures (`fail`, `release`, a spoiled or dropped
buffer, a completion, the end of a drain) only turns pending targets into settled ones
and leaves settled ones alone (`Settles`, with `FailSettles`, `ImportNextSettles`,
`ConfigureSettles`, `CompleteKeeps`). `SettledInv` adds `Unused` (a token not given
out yet is in nobody's map, which `Accept` needs) and `Places`: a submit whose
picture is not accepted has a target that is neither pending nor synced, a pass is
never inside a drain, and nobody is past its first look at a session that has
failed, which holds because every `fail()` ends its call. `Kept` is the step
all actions go through; each of them has one lemma.

`GpuCopyProofs` proves `TasksKeepReferences` (`ReferencesAlive`) and
`ForgetLeavesNothing` (`ForgetForgets`) for any number of threads. `GpuInv` adds
to the types: the worker runs at most one task, not the one in the cell (`OneTask`);
threads in `run()` use disjoint buffers, the assumption on sessions, and a
future is empty outside a call (`Apart`); there are no views without a worker that has a
context (`ViewsOfWorker`). The proof does not need that tasks are not
overwritten, which is false (finding 3): a broken future ends its call only after the
task is gone from the cell.

`PixelProofs` proves whose memory the decoder writes into: `HeldSlotsStay`
(`HeldNotQueued`), `OneBufferAtATime` (`ImportWindow`) and `PicturesStay`
(`PublishedPixels`). The decoder picks any buffer it owns, so these rest on what the
pool, the backlog, the targets and the map of tokens know of each other (`Sound`: an idle slot carries
nothing, only an Import pool has client buffers and at most one, frames are held in an Mmap pool
only and never queued, the buffers of one surface are listed in the order of its
pictures and each belongs to its picture's target), on what dequeued buffers may say (`Returned`) and on the stages of a call
(`Stages`). A handler changes these one helper after the other, so the predicates
take them as arguments and each helper has one lemma. As a by-product,
`queue_import_next` never fails a live picture: the branch at `session.cc:286-297` is
dead in every reachable state.
`PicturesStay` needs one hypothesis about the behaviour, `[][CleanStart]_vars`: no Import pool
comes up while the backlog has entries of an earlier pool. Every first pool satisfies
it, and so does every session that never goes from Import to Mmap and back; without it
the statement is false (section 4). The other two theorems do not use it.

`PixelProofs` also proves the refinement: `SessionKeepsPromise` is
`Spec /\ [][CleanStart]_vars => KeepsPromise`. `Courses` adds which state the session
is in at each place of a call and whose drain it is. Each action is taken in three
parts: what becomes of the pictures (`PicturesStep`: nothing, some lost, one accepted,
published or released), what each sync is told (`AnswersStep`) and whether the session is closed
(`OverForGood`); `PicturesMap` and `AnswersMap` carry them to the promise's actions. The
hypothesis serves the pixels alone, and `WithoutImport` does without it where Import
pools never come up: codecs without an Import format (`picture.cc:95`), or firmware
that gives pictures out in display order.

`QueueProofs` proves what waits in the queues. `DrainsFlush` is
`Spec => [](faults = 0 => DrainFlushes)`: in display order the drain of a sync gives out every
picture it was started for. `DrainFlushes` is stated for a healthy decoder, so what makes it
inductive (`FlushInv`) is an account of all of its queues while nothing has failed
(`Displays`): nothing but pictures and LAST comes back (`Clean`); LAST is the last thing to come
back, when the decoder has nothing left that it could give out (`LastIsLast`); only a drain stops the decoder
(`Stopped`); each pending picture is in the decoder or on its way back (`Accounted`); and a sync
that drains is under way with a picture that has not failed (`Flushed`). Decode order has no such drains
(`Undrained`).

`BuffersInOrder` is `Spec /\ [](state # "Reconfiguring") => []InSubmissionOrder`: as long as the
pool lives, whatever fails. `AscInv` adds that the buffer with the decoder is older than every
one in the backlog; a buffer of an old pool is put behind younger ones only
when a pool is rebuilt, which is where section 4 shows the order to break. `OneGeometryInOrder` has no
hypothesis on the behaviour: if all surfaces have one geometry (`OneGeometry`) a pool is never lost
(`OneChange`: the one SOURCE_CHANGE is the first).

`UniformLockstep` and `UniformNoHoles` are `Spec => []Lockstep` and `Spec => []NoHoles` for streams
of one geometry whose pictures all ask for Import or Copy (`Uniform`, the instance of
the run `import`; each of the two properties is about behaviours without a fault). Neither half of
`Uniform` can go: a picture of the policy Direct brings no buffer, and resolution changes break both
(finding 1, section 4). Their invariant `HoleInv` compares two orders that different
actors keep, the pictures the decoder has yet to write (`Turns`) and the buffers queued or in the backlog
(`Ready`): the buffer with the decoder is for the oldest of those pictures, and the backlog has the
rest in their order. Before the pool is there, the session has one picture at most (`Bringup`).

`VaProofs` proves the five properties of `VaDriver` for any number of threads,
contexts and surfaces. Entry points look at a surface under `Driver::mutex` and
act on it later without, so the invariant (`VaInv`) says, for each place a call can be
at, what the others cannot have changed (`Fits`): a submit's surface still belongs to its
context and is not pending, a `destroyContext` on its way has all the surfaces of its context, a sync
whose surface has lost its owner looks at a picture that is pending nowhere. That
threads of one client do not decode into a surface that another one is using is assumed as in the
model (`DecodesWith` and the names listed with it in section 2); nothing else is.

`DeviceAlwaysAnswers` is `DeviceSpec => []DeviceAnswers` for any number of paths and
buffers, assuming that the test of `is_iris_decoder` tells decoders from the other nodes of the
machine (`Told`, which no code can promise: a new encoder may have compressed OUTPUT formats). It is not
inductive: `DeviceInv` adds that the wrapper, the slot pool and the node agree on the memory type of
each queue, that a pool in use was allocated with the type the slot pool remembers, and that the
OUTPUT queue never drains, which is why EPIPE is no failure.

`Av1Proofs` proves `ReferencesRight` (`RightReferences`), `HintsAlwaysAgree` (`HintsAgree`) and
`SequenceAlwaysKnown` (`SequenceKnown`) for any number of reference slots and surfaces. All
three speak of the unit that is in the decoder; what makes them inductive is where the client, the
translator and the decoder stand between two units (`Av1Inv`): the client's slots are those of
the held picture's map but for the ones this picture took (`ClientFollows`, from which
`Recovered` gets the flags right), and the decoder is where the held picture wants it
(`DecoderFollows`). `Counted` excludes the confusion that would break the recovery: the
held picture is younger than every reference, in a surface that none of them has, which rests on
a client never decoding into a surface that its slots still name. As in the runs, a client that has
lost its last key frame is not promised anything (`Decodable`).

`ObjectsProofs` proves `HandlesPin` (`HandlePins`), `ImagesShow` (`ImageIsPicture`) and
`DestroyedAreReleased` (`DestroyedReleased`) for any number of threads and objects. `ObjectsInv`
adds to the three: ids in the tables have been given out (`Surfaced`, `Buffered`); what is
pending in a session belongs to its context (`Pends`), so `owner_of` names the only session that
can have a surface's picture; a call that has taken surfaces from the table still knows that
session for each (`Calls`), since nobody decodes into them any more; and a completed surface has
its picture in the frame it holds or, without one, in its stable buffer (`Shows`). `StepKeeps`
says once which changes of surfaces, sessions, buffers and threads keep all this, and each entry
point has one lemma. Assumed is what the model states of the clients, that surfaces in a call
are not begun or destroyed by another.

Only model-checked: liveness (`CallReturns`, `SyncAnswered`, `RunReturns`, `Terminates`; no prover
here handles fairness), and the translators that compute by recursion over data (`BitsReadBack`,
`H264Agrees`, `HevcSliceDecodes`, `HevcAdmits`, `Vp9ShowsOne`), which takes induction over
sequences. `Lockstep`, `NoHoles` and `InSubmissionOrder` are proved under the hypotheses
above and false without them.

## 6. Not modelled, and limits

- The ioctls of the allocators, EGL calls and the bytes of copies, traces, tests,
  packaging and scripts: no state of the driver, or pure I/O.
- Two faults in one behaviour, and three CAPTURE slots, are beyond the runs' size.
- `VaDriver`'s and `Objects`' sessions are abstract; that `Session` is one of them is
  argued by reading (`DecodePromise` has the same fates), not checked.
- The clients keep to libva's rules on concurrent use (`VaDriver` names each): a
  surface that is disowned while another thread submits it (`picture.cc:177`) and the unlocked
  `ensure_stable` (`picture.cc:57`) are races on plain fields, listed as hazards.
- `objects` starts in one environment and with one profile: policies that an
  environment forces are operators of the model that no run reaches.
- AV1: the bits of the OBUs, film grain, tiles; a hidden key frame that is shown
  again is never seen by the driver (hazard at `av1_obu.cc:648`).
- HEVC: references the client does not have change the width of the list entries that are
  skipped (`hevc.cc:302`); H.264: the PPS has the reference counts of the first slice.
