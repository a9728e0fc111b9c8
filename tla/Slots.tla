------------------------------- MODULE Slots -------------------------------
(***************************************************************************)
(* Slot ownership (src/src/iris/slots.h, slots.cc).  The pool is a value   *)
(* that Session keeps in its variables `cap` and `out`; the operators here *)
(* are SlotPool's methods, as functions from the pool before the call to   *)
(* the pool after it.                                                      *)
(*                                                                         *)
(* A CAPTURE slot is in one of three states, and the code keeps no flag    *)
(* for the third one: a slot is Held exactly when some Target has a        *)
(* reference to its Frame (use_count > 1).  In the model that reference is *)
(* target[t].frame, so Held is computed, never stored.                     *)
(*                                                                         *)
(* X_f is a mutant of f: a bug the code could have.  Nothing uses it.      *)
(***************************************************************************)
EXTENDS Naturals, FiniteSets

CONSTANTS
  Targets,    \* decode targets: one per VA surface, with its StableBuffer
  None,       \* no target / no buffer
  Scratch,    \* the driver-owned buffer that only LAST is meant to land in
  NOut,       \* OUTPUT slots (SessionConfig::output_slots)
  CapSlots,   \* CAPTURE slots (session.cc sizes the pool above the surfaces)
  MaxToken    \* bound: pictures submitted in one behaviour

ASSUME SlotsAssumption ==
  /\ None \notin Targets /\ Scratch \notin Targets /\ None # Scratch
  /\ None \notin CapSlots /\ IsFiniteSet(CapSlots)
  /\ NOut \in Nat \ {0} /\ MaxToken \in Nat \ {0}

OutSlots == 1..NOut
Tokens   == 1..MaxToken
NoToken  == 0          \* token 0 is never submitted: "no token" in the code
NoFrame  == None       \* a null FrameRef

\* slots.h OutputSlot: a bitstream buffer and the token it carries.
OutputSlot == [queued : BOOLEAN, token : Tokens \cup {NoToken}]

\* slots.h Frame.  buf is the DMA-BUF behind import_fd_: the StableBuffer of
\* a target, the scratch buffer, or None for a slot with memory of its own.
Frame == [queued : BOOLEAN, import_token : Tokens \cup {NoToken},
          buf : Targets \cup {None, Scratch}]

\* No pool, an MMAP pool, or a pool of client DMA-BUFs.  The code's
\* capture_memory_ says Mmap while there is no pool; the model names it.
CaptureMemory == {"Unallocated", "Mmap", "Import"}

IdleFrame  == [queued |-> FALSE, import_token |-> NoToken, buf |-> None]
IdleOutput == [queued |-> FALSE, token |-> NoToken]
-----------------------------------------------------------------------------
\* use_count() > 1: some target keeps the Frame.
held(tg, c) == \E t \in Targets : tg[t].frame = c

capture_held(tg)   == {c \in CapSlots : held(tg, c)}
capture_queued(cp) == {c \in CapSlots : cp[c].queued}
output_queued(ot)  == {o \in OutSlots : ot[o].queued}

\* free_output: the first OUTPUT slot that is not queued.
free_outputs(ot) == OutSlots \ output_queued(ot)
free_output(ot)  == CHOOSE o \in free_outputs(ot) :
                      \A p \in free_outputs(ot) : o <= p

\* allocate_capture and release_capture leave no slot queued or carrying
\* anything; release_capture additionally requires that nothing is held.
fresh_capture == [c \in CapSlots |-> IdleFrame]

\* requeue_capture: QBUF every slot that is neither queued nor held.  Only
\* an MMAP pool has slots to queue on its own.
X_requeue_capture(memory, cp, tg) ==            \* use_count() is not looked at
  IF memory # "Mmap" THEN cp ELSE [c \in CapSlots |-> [cp[c] EXCEPT !.queued = TRUE]]
requeue_capture(memory, cp, tg) ==
  IF memory # "Mmap" THEN cp
  ELSE [c \in CapSlots |-> IF cp[c].queued \/ held(tg, c) THEN cp[c]
                           ELSE [cp[c] EXCEPT !.queued = TRUE]]

\* queue_capture_import and queue_capture_scratch: QBUF a DMA-BUF into a
\* slot that is not queued.  The code prefers the slot that last carried the
\* same fd, which only saves the kernel an attachment; any free one will do.
free_capture(cp) == CHOOSE c \in CapSlots : ~cp[c].queued

queue_capture_import(cp, buf, token) ==
  [cp EXCEPT ![free_capture(cp)] =
     [queued |-> TRUE, import_token |-> token, buf |-> buf]]

queue_capture_scratch(cp)   == queue_capture_import(cp, Scratch, NoToken)

\* take_capture and take_import_token on DQBUF: the slot is no longer queued
\* and forgets the token it was queued for.  (import_fd_ stays in the code,
\* as the hint above; an idle slot of the model carries nothing.)
take_capture(cp, c) == [cp EXCEPT ![c] = IdleFrame]

\* After STREAMOFF the kernel has returned every buffer without a DQBUF.
mark_all_capture_returned == fresh_capture
=============================================================================
