------------------------------ MODULE Decoder ------------------------------
(***************************************************************************)
(* The Iris V4L2 decoder as the driver sees it through iris::Device:       *)
(* external to the repository, modelled from how session.cc and device.cc  *)
(* use it, from the scripted test/unit/fake_device.cc and from the facts   *)
(* listed in docs/architecture.md section 4.                               *)
(*                                                                         *)
(* The decoder runs concurrently with the driver.  It takes access units   *)
(* from the OUTPUT queue in order, writes each decoded picture into any    *)
(* CAPTURE buffer it owns, returns OUTPUT buffers some time later, raises  *)
(* SOURCE_CHANGE for the first access unit and for one of another          *)
(* geometry, and answers STOP with an empty LAST buffer once everything    *)
(* before it came out.                                                     *)
(***************************************************************************)
EXTENDS Slots, Sequences

CONSTANTS
  Geoms,      \* stream geometries
  SurfGeom,   \* SurfGeom[t]: the geometry target t was created for
  MaxFaults   \* bound: firmware and ioctl failures in one behaviour

ASSUME DecoderAssumption ==
  /\ Geoms # {} /\ SurfGeom \in [Targets -> Geoms]
  /\ MaxFaults \in Nat

VARIABLES
  mode,       \* session.h mode_: whether the kernel offers decode order
  out, cap    \* the two V4L2 queues, shared with the driver's SlotPool

VARIABLES
  phase,      \* cold, announced, run, stop, last: see below
  blocked,    \* a SOURCE_CHANGE access unit waits at the head of outQ
  evt,        \* a SOURCE_CHANGE event waits for DQEVENT
  fwGeom,     \* the geometry the decoder reports (G_FMT)
  outQ,       \* access units not parsed yet, in QBUF order
  inFw,       \* tokens decoded and not yet written out
  outDone,    \* OUTPUT buffers ready for DQBUF
  capDone,    \* CAPTURE buffers ready for DQBUF
  capMem,     \* the picture in each MMAP slot's memory
  cliMem,     \* the picture in each target's StableBuffer
  faults      \* failures so far

decoderVars == <<phase, blocked, evt, fwGeom, outQ, inFw, outDone, capDone,
                 capMem, cliMem, faults>>

\* cold: nothing parsed.  announced: SOURCE_CHANGE raised, CAPTURE not
\* streaming.  run: decoding.  stop: STOP issued.  last: LAST emitted.
Phases == {"cold", "announced", "run", "stop", "last"}

AccessUnit == [slot : OutSlots, token : Tokens, geom : Geoms]
OutReturn  == [slot : OutSlots, error : BOOLEAN]
CapReturn  == [slot : CapSlots, ts : Tokens \cup {NoToken}, last : BOOLEAN,
               error : BOOLEAN, payload : BOOLEAN]

DecoderTypeOK ==
  /\ phase \in Phases
  /\ blocked \in BOOLEAN /\ evt \in BOOLEAN
  /\ fwGeom \in Geoms
  /\ outQ \in Seq(AccessUnit)
  /\ inFw \in SUBSET Tokens
  /\ outDone \in Seq(OutReturn)
  /\ capDone \in Seq(CapReturn)
  /\ capMem \in [CapSlots -> Tokens \cup {NoToken}]
  /\ cliMem \in [Targets -> Tokens \cup {NoToken}]
  /\ faults \in 0..MaxFaults

DecoderInit ==
  /\ phase = "cold" /\ blocked = FALSE /\ evt = FALSE
  /\ fwGeom = CHOOSE g \in Geoms : TRUE   \* not read while cold
  /\ outQ = <<>> /\ inFw = {} /\ outDone = <<>> /\ capDone = <<>>
  /\ capMem = [c \in CapSlots |-> NoToken]
  /\ cliMem = [t \in Targets |-> NoToken]
  /\ faults = 0
-----------------------------------------------------------------------------
\* The buffers the decoder owns are those the pool has queued and that do not
\* wait for DQBUF: Frame::queued_ is set at QBUF and cleared at DQBUF.
Owned(c) == cap[c].queued /\ \A i \in DOMAIN capDone : capDone[i].slot # c

\* OUTPUT buffers parsed and not returned yet.
Consumed(o) ==
  /\ out[o].queued
  /\ \A i \in DOMAIN outQ : outQ[i].slot # o
  /\ \A i \in DOMAIN outDone : outDone[i].slot # o

Fault == faults < MaxFaults /\ faults' = faults + 1

Decoding == phase \in {"run", "stop"} /\ ~blocked /\ outQ # <<>>

\* Decode-order output: the oldest picture leaves first.  Display order: any
\* picture the reorder window holds may be the next one.
NextOut == IF mode = "DecodeOrder"
           THEN {k \in inFw : \A j \in inFw : k <= j} ELSE inFw

\* The first access unit of the stream: the geometry is known.
FwAnnounce ==
  /\ phase = "cold" /\ outQ # <<>>
  /\ phase' = "announced" /\ evt' = TRUE /\ fwGeom' = Head(outQ).geom
  /\ UNCHANGED <<blocked, outQ, inFw, outDone, capDone, capMem, cliMem, faults>>

\* An access unit of the current geometry is consumed.
FwDecode ==
  /\ Decoding /\ Head(outQ).geom = fwGeom
  /\ outQ' = Tail(outQ)
  /\ inFw' = inFw \cup {Head(outQ).token}
  /\ UNCHANGED <<phase, blocked, evt, fwGeom, outDone, capDone, capMem, cliMem,
                 faults>>

\* An access unit of another geometry: announced and left at the head until
\* CAPTURE has been rebuilt.
FwResolutionChange ==
  /\ Decoding /\ Head(outQ).geom # fwGeom
  /\ blocked' = TRUE /\ evt' = TRUE /\ fwGeom' = Head(outQ).geom
  /\ UNCHANGED <<phase, outQ, inFw, outDone, capDone, capMem, cliMem, faults>>

\* The bitstream is rejected: the OUTPUT buffer comes back with ERROR.
FwReject ==
  /\ Decoding /\ Fault
  /\ outQ' = Tail(outQ)
  /\ outDone' = Append(outDone, [slot |-> Head(outQ).slot, error |-> TRUE])
  /\ UNCHANGED <<phase, blocked, evt, fwGeom, inFw, capDone, capMem, cliMem>>

FwReturnOutput(o) ==
  /\ Consumed(o)
  /\ outDone' = Append(outDone, [slot |-> o, error |-> FALSE])
  /\ UNCHANGED <<phase, blocked, evt, fwGeom, outQ, inFw, capDone, capMem, cliMem,
                 faults>>

\* Picture k is written into the memory behind CAPTURE buffer c.
Write(k, c) ==
  IF cap[c].buf \in Targets
  THEN cliMem' = [cliMem EXCEPT ![cap[c].buf] = k] /\ UNCHANGED capMem
  ELSE capMem' = [capMem EXCEPT ![c] = k] /\ UNCHANGED cliMem

Emit(c, ts, last, error, payload) ==
  capDone' = Append(capDone, [slot |-> c, ts |-> ts, last |-> last,
                              error |-> error, payload |-> payload])

\* Any owned buffer: the firmware does not fill CAPTURE in QBUF order.
FwEmit(k, c) ==
  /\ phase \in {"run", "stop"} /\ k \in NextOut /\ Owned(c)
  /\ inFw' = inFw \ {k}
  /\ Write(k, c)
  /\ Emit(c, k, FALSE, FALSE, TRUE)
  /\ UNCHANGED <<phase, blocked, evt, fwGeom, outQ, outDone, faults>>

\* A picture is lost: an error marker without timestamp, a buffer flagged
\* ERROR with the picture's timestamp, or an empty buffer.
FwSpoil(k, c) ==
  /\ phase \in {"run", "stop"} /\ k \in NextOut /\ Owned(c)
  /\ Fault
  /\ inFw' = inFw \ {k}
  /\ \/ Emit(c, NoToken, FALSE, TRUE, FALSE)
     \/ Emit(c, k, FALSE, TRUE, TRUE)
     \/ Emit(c, k, FALSE, FALSE, FALSE)
  /\ UNCHANGED <<phase, blocked, evt, fwGeom, outQ, outDone, capMem, cliMem>>

\* The drain is complete: LAST on an empty buffer of its own.
FwLast(c) ==
  /\ phase = "stop" /\ inFw = {} /\ (outQ = <<>> \/ blocked) /\ Owned(c)
  /\ phase' = "last"
  /\ Emit(c, NoToken, TRUE, FALSE, FALSE)
  /\ UNCHANGED <<blocked, evt, fwGeom, outQ, inFw, outDone, capMem, cliMem, faults>>

FirmwareStep ==
  \/ FwAnnounce \/ FwDecode \/ FwResolutionChange \/ FwReject
  \/ \E o \in OutSlots : FwReturnOutput(o)
  \/ \E c \in CapSlots : FwLast(c)
  \/ \E k \in Tokens, c \in CapSlots : FwEmit(k, c) \/ FwSpoil(k, c)
=============================================================================
