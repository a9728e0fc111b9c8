---------------------------- MODULE QueueProofs ----------------------------
(***************************************************************************)
(* What waits in the queues between Session and the decoder, and in the    *)
(* backlog of client buffers: that a drain flushes the picture that it was *)
(* started for, that client buffers go out in the order of their pictures, *)
(* and that each comes back with its own picture and none is missing.      *)
(*                                                                         *)
(* The order holds whatever fails.  The rest is about sessions in which    *)
(* nothing has failed yet: their invariants say what a healthy decoder has *)
(* returned (Clean) and hold as long as faults = 0.                        *)
(***************************************************************************)
EXTENDS PixelProofs

-----------------------------------------------------------------------------
(* The queues between the session and the decoder.                         *)

\* The places of a sequence that has grown by one at its end.
LEMMA Appended ==
  ASSUME NEW S, NEW s \in Seq(S), NEW e \in S
  PROVE  /\ Append(s, e) \in Seq(S) /\ Len(s) \in Nat
         /\ DOMAIN s = 1..Len(s) /\ DOMAIN Append(s, e) = 1..(Len(s) + 1)
         /\ Append(s, e)[Len(s) + 1] = e
         /\ \A i \in DOMAIN s : i \in DOMAIN Append(s, e) /\ Append(s, e)[i] = s[i]
         /\ \A i \in DOMAIN Append(s, e) : i \in DOMAIN s \/ i = Len(s) + 1
<1>1. Len(s) \in Nat /\ DOMAIN s = 1..Len(s)
  BY LenProperties
<1> DEFINE l == Len(s)
           a == Append(s, e)
<1>2. a \in Seq(S) /\ Len(a) = l + 1 /\ (\A i \in 1..l : a[i] = s[i]) /\ a[l + 1] = e
  BY AppendProperties
<1>3. DOMAIN a = 1..(l + 1)
  BY <1>2, LenProperties
<1>4. l \in Nat /\ DOMAIN s = 1..l
  BY <1>1
<1> HIDE DEF l, a
<1> QED BY <1>2, <1>3, <1>4 DEF l, a

\* The places of a sequence that has lost its head.
LEMMA Beheaded ==
  ASSUME NEW S, NEW s \in Seq(S), s # <<>>
  PROVE  /\ Tail(s) \in Seq(S) /\ Head(s) = s[1] /\ Head(s) \in S
         /\ Len(s) \in Nat /\ Len(s) >= 1 /\ DOMAIN s = 1..Len(s)
         /\ Len(Tail(s)) = Len(s) - 1 /\ DOMAIN Tail(s) = 1..(Len(s) - 1)
         /\ \A i \in DOMAIN Tail(s) : i + 1 \in DOMAIN s /\ Tail(s)[i] = s[i + 1]
         /\ \A i \in DOMAIN s : i = 1 \/ (i - 1 \in DOMAIN Tail(s) /\ Tail(s)[i - 1] = s[i])
<1> DEFINE l == Len(s)
           a == Tail(s)
<1>1. l \in Nat /\ DOMAIN s = 1..l
  BY LenProperties
<1>2. l # 0
  BY EmptySeq
<1>3. Head(s) = s[1] /\ Head(s) \in S /\ a \in Seq(S) /\ Len(a) = l - 1
      /\ \A i \in 1..Len(a) : a[i] = s[i + 1]
  BY HeadTailProperties
<1>4. DOMAIN a = 1..Len(a)
  BY <1>3, LenProperties
<1> HIDE DEF l, a
<1>5. /\ \A i \in 1..(l - 1) : i + 1 \in 1..l /\ a[i] = s[i + 1]
      /\ \A i \in 1..l : i = 1 \/ (i - 1 \in 1..(l - 1) /\ a[i - 1] = s[i])
  <2>1. \A i \in 1..l : i = 1 \/ (i - 1 \in 1..(l - 1) /\ (i - 1) + 1 = i)
    BY <1>1, <1>2
  <2>2. \A i \in 1..(l - 1) : i + 1 \in 1..l /\ a[i] = s[i + 1]
    BY <1>1, <1>3
  <2>3. ASSUME NEW i \in 1..l, i # 1 PROVE i - 1 \in 1..(l - 1) /\ a[i - 1] = s[i]
    BY <2>1, <2>2, <2>3
  <2> QED BY <2>2, <2>3
<1>6. l >= 1
  BY <1>1, <1>2
<1> QED BY <1>1, <1>3, <1>4, <1>5, <1>6 DEF l, a

\* What waits in the queues.
LEMMA Waiters ==
  ASSUME TypeOK
  PROVE  /\ DOMAIN outQ = 1..Len(outQ) /\ Len(outQ) \in Nat
         /\ \A i \in DOMAIN outQ : /\ outQ[i].slot \in OutSlots /\ outQ[i].token \in Tokens
                                   /\ outQ[i].geom \in Geoms
         /\ \A i \in DOMAIN outDone : outDone[i].slot \in OutSlots
         /\ DOMAIN capDone = 1..Len(capDone) /\ Len(capDone) \in Nat
         /\ \A i \in DOMAIN capDone : /\ capDone[i].slot \in CapSlots
                                      /\ capDone[i].ts \in Tokens \cup {NoToken}
<1>1. outQ \in Seq(AccessUnit) /\ outDone \in Seq(OutReturn) /\ capDone \in Seq(CapReturn)
  BY DEF TypeOK, DecoderTypeOK
<1>2. /\ DOMAIN outQ = 1..Len(outQ) /\ Len(outQ) \in Nat
      /\ DOMAIN outDone = 1..Len(outDone)
      /\ DOMAIN capDone = 1..Len(capDone) /\ Len(capDone) \in Nat
  BY <1>1, LenProperties
<1>3. /\ \A i \in DOMAIN outQ : outQ[i] \in AccessUnit
      /\ \A i \in DOMAIN outDone : outDone[i] \in OutReturn
      /\ \A i \in DOMAIN capDone : capDone[i] \in CapReturn
  BY <1>1, <1>2, ElementOfSeq
<1> QED BY <1>2, <1>3 DEF AccessUnit, OutReturn, CapReturn

\* Only these steps touch what is queued.
LEMMA QueueSteps ==
  ASSUME [Next]_vars
  PROVE  \/ UNCHANGED <<next_token, out, outQ, inFw, outDone, capDone>>
         \/ Accept \/ ReturnOutput \/ ReturnCapture \/ Drained \/ Firmware
<1>1. ASSUME NEW t \in Targets, Release(t)
      PROVE  UNCHANGED <<next_token, out, outQ, inFw, outDone, capDone>>
  BY <1>1, Zenon DEF Release, poolRest, decoderVars
<1>2. Client \/ (\E t \in Targets : Relock(t)) =>
        UNCHANGED <<next_token, out, outQ, inFw, outDone, capDone>>
  BY <1>1 DEF Client, Relock, Submit, WaitSettled, Wait, Enter, Service, Finish,
              drainRest, decoderVars
<1>3. Reconfigure \/ Configure => UNCHANGED <<next_token, out, outQ, inFw, outDone, capDone>>
  BY DEF Reconfigure, Configure, poolRest
<1>4. PumpTail \/ Rebuild => UNCHANGED <<next_token, out, outQ, inFw, outDone, capDone>>
  BY <1>3 DEF PumpTail, Rebuild, drainRest, decoderVars
<1> QED BY <1>2, <1>3, <1>4 DEF Next, Working, Looping, Expiring, HandleEvents, LoopEnds,
             DrainTurn, LastSeen, Start, CallDone, WaitReturns, SubmitLoops,
             WaitPolls, StartBusy, SubmitGivesUp, WaitExpires, drainRest, DrainExpires,
             DequeueError, callRest, vars, driverVars, decoderVars

\* Access units wait in slots that are queued under their tokens, returned slots
\* are queued still, and no slot waits twice.
Filed(ot, q, done) ==
  /\ \A i \in DOMAIN q : ot[q[i].slot].queued /\ ot[q[i].slot].token = q[i].token
  /\ \A i \in DOMAIN done : ot[done[i].slot].queued
  /\ \A i, j \in DOMAIN q : q[i].slot = q[j].slot => i = j
  /\ \A i, j \in DOMAIN done : done[i].slot = done[j].slot => i = j
  /\ \A i \in DOMAIN q, j \in DOMAIN done : q[i].slot # done[j].slot

\* An access unit is parsed.
LEMMA FiledParsed ==
  ASSUME NEW ot, NEW q \in Seq(AccessUnit), q # <<>>, NEW done, Filed(ot, q, done)
  PROVE  Filed(ot, Tail(q), done)
<1>1. /\ DOMAIN q = 1..Len(q) /\ DOMAIN Tail(q) = 1..(Len(q) - 1) /\ Len(q) \in Nat
      /\ \A i \in DOMAIN Tail(q) : i + 1 \in DOMAIN q /\ Tail(q)[i] = q[i + 1]
  BY Beheaded
<1>2. \A i, j \in DOMAIN Tail(q) : i + 1 = j + 1 => i = j
  BY <1>1
<1> DEFINE a == Tail(q)
<1>3. \A i \in DOMAIN a : i + 1 \in DOMAIN q /\ a[i] = q[i + 1]
  BY <1>1
<1>4. \A i, j \in DOMAIN a : i + 1 = j + 1 => i = j
  BY <1>2
<1> HIDE DEF a
<1>5. ASSUME NEW i \in DOMAIN a
      PROVE  /\ ot[a[i].slot].queued /\ ot[a[i].slot].token = a[i].token
             /\ \A j \in DOMAIN done : a[i].slot # done[j].slot
             /\ \A j \in DOMAIN a : a[i].slot = a[j].slot => i = j
  <2>1. i + 1 \in DOMAIN q /\ a[i] = q[i + 1]
    BY <1>3
  <2> QED BY <1>3, <1>4, <2>1 DEF Filed
<1>6. Filed(ot, a, done)
  BY <1>5 DEF Filed
<1> QED BY <1>6 DEF a

\* A slot that was parsed, or never waited, is returned.
LEMMA FiledReturned ==
  ASSUME NEW ot, NEW q, NEW done \in Seq(OutReturn), NEW e \in OutReturn,
         Filed(ot, q, done), ot[e.slot].queued,
         \A i \in DOMAIN q : q[i].slot # e.slot,
         \A i \in DOMAIN done : done[i].slot # e.slot
  PROVE  Filed(ot, q, Append(done, e))
<1> DEFINE a == Append(done, e)
           l == Len(done) + 1
<1>1. /\ a[l] = e /\ \A i \in DOMAIN done : a[i] = done[i]
      /\ \A i \in DOMAIN a : i \in DOMAIN done \/ i = l
  BY Appended
<1> HIDE DEF a, l
<1>2. Filed(ot, q, a)
  BY <1>1 DEF Filed
<1> QED BY <1>2 DEF a

\* The queues stay filed.
LEMMA FiledStep ==
  ASSUME TypeInv, Filed(out, outQ, outDone), [Next]_vars
  PROVE  Filed(out, outQ, outDone)'
<1>1. /\ outQ \in Seq(AccessUnit) /\ outDone \in Seq(OutReturn)
      /\ out \in [OutSlots -> OutputSlot]
  BY DEF TypeInv, TypeOK, DecoderTypeOK
<1>2. CASE UNCHANGED <<next_token, out, outQ, inFw, outDone, capDone>>
  BY <1>2
<1>3. CASE ReturnCapture \/ Drained
  <2>1. UNCHANGED <<out, outQ, outDone>>
    BY <1>3 DEF ReturnCapture, Drained
  <2> QED BY <2>1
<1>4. CASE Accept
  <2> DEFINE o == free_output(out)
             e == [slot |-> o, token |-> next_token, geom |-> SurfGeom[arg]]
             q == Append(outQ, e)
             l == Len(outQ) + 1
             x == [queued |-> TRUE, token |-> next_token]
  <2>1. out' = [out EXCEPT ![o] = x] /\ outQ' = q /\ outDone' = outDone
        /\ free_outputs(out) # {} /\ call \in {"slot", "submit"}
    BY <1>4 DEF Accept, NewToken
  <2>2. o \in OutSlots /\ ~out[o].queued
    BY <2>1, FreeOutput DEF free_outputs, output_queued
  <2>3. e.slot = o /\ e.token = next_token /\ x.queued = TRUE /\ x.token = next_token
    OBVIOUS
  <2>4. e \in AccessUnit
    <3>1. arg \in Targets /\ next_token \in Tokens
      BY <2>1 DEF TypeInv, CallShape
    <3>2. SurfGeom[arg] \in Geoms
      BY <3>1, DecoderAssumption
    <3> QED BY <2>2, <3>1, <3>2 DEF AccessUnit
  <2>5. out'[o] = x /\ \A p \in OutSlots : p # o => out'[p] = out[p]
    BY <1>1, <2>1, <2>2
  <2> HIDE DEF o, x, e
  <2>6. /\ q[l] = e /\ \A i \in DOMAIN outQ : q[i] = outQ[i]
        /\ \A i \in DOMAIN q : i \in DOMAIN outQ \/ i = l
    BY <1>1, <2>4, Appended
  <2>7. /\ \A i \in DOMAIN outQ : outQ[i].slot \in OutSlots
        /\ \A i \in DOMAIN outDone : outDone[i].slot \in OutSlots
    BY Waiters DEF TypeInv
  <2> HIDE DEF q, l
  <2>8. /\ \A i \in DOMAIN outQ : outQ[i].slot # o /\ out'[outQ[i].slot] = out[outQ[i].slot]
        /\ \A i \in DOMAIN outDone :
             outDone[i].slot # o /\ out'[outDone[i].slot] = out[outDone[i].slot]
    BY <2>2, <2>5, <2>7 DEF Filed
  <2>9. Filed(out', q, outDone)
    BY <2>3, <2>5, <2>6, <2>8 DEF Filed
  <2> QED BY <2>1, <2>9
<1>5. CASE ReturnOutput
  <2> DEFINE s == Head(outDone).slot
             a == Tail(outDone)
  <2>1. out' = [out EXCEPT ![s] = IdleOutput] /\ outQ' = outQ /\ outDone' = a
        /\ outDone # <<>>
    BY <1>5 DEF ReturnOutput
  <2>2. /\ s = outDone[1].slot /\ 1 \in DOMAIN outDone
        /\ \A i \in DOMAIN a : i + 1 \in DOMAIN outDone /\ a[i] = outDone[i + 1]
        /\ \A i \in DOMAIN a : i \in Nat /\ i # 0
    BY <1>1, <2>1, Beheaded
  <2> HIDE DEF s, a
  <2>3. \A p \in OutSlots : p # s => out'[p] = out[p]
    BY <1>1, <2>1
  <2>4. /\ \A i \in DOMAIN outQ : outQ[i].slot \in OutSlots
        /\ \A i \in DOMAIN outDone : outDone[i].slot \in OutSlots
    BY Waiters DEF TypeInv
  <2>5. \A i \in DOMAIN outQ : out'[outQ[i].slot] = out[outQ[i].slot]
    BY <2>2, <2>3, <2>4 DEF Filed
  <2>6. ASSUME NEW i \in DOMAIN a
        PROVE  /\ out'[a[i].slot].queued
               /\ \A j \in DOMAIN a : a[i].slot = a[j].slot => i = j
               /\ \A j \in DOMAIN outQ : outQ[j].slot # a[i].slot
    <3>1. i + 1 \in DOMAIN outDone /\ a[i] = outDone[i + 1] /\ i + 1 # 1
      BY <2>2
    <3>2. a[i].slot # s /\ a[i].slot \in OutSlots
      BY <2>2, <2>4, <3>1 DEF Filed
    <3>3. out'[a[i].slot].queued
      BY <2>3, <3>1, <3>2 DEF Filed
    <3>4. ASSUME NEW j \in DOMAIN a, a[i].slot = a[j].slot PROVE i = j
      <4>1. i + 1 = j + 1
        BY <2>2, <3>1, <3>4 DEF Filed
      <4> QED BY <2>2, <4>1
    <3> QED BY <3>1, <3>3, <3>4 DEF Filed
  <2>7. Filed(out', outQ, a)
    BY <2>5, <2>6 DEF Filed
  <2> QED BY <2>1, <2>7
<1>6. CASE Firmware
  <2>0. out' = out /\ FirmwareStep
    BY <1>6 DEF Firmware
  <2>1. CASE UNCHANGED <<outQ, outDone>>
    BY <2>0, <2>1
  <2>2. CASE outQ # <<>> /\ outQ' = Tail(outQ) /\ outDone' = outDone
    BY <1>1, <2>0, <2>2, FiledParsed
  <2>3. CASE FwReject
    <3> DEFINE e == [slot |-> Head(outQ).slot, error |-> TRUE]
    <3>1. outQ # <<>> /\ outQ' = Tail(outQ) /\ outDone' = Append(outDone, e)
      BY <2>3 DEF FwReject, Decoding
    <3>2. /\ Head(outQ) = outQ[1] /\ Head(outQ) \in AccessUnit /\ 1 \in DOMAIN outQ
          /\ \A i \in DOMAIN Tail(outQ) : i + 1 \in DOMAIN outQ /\ Tail(outQ)[i] = outQ[i + 1]
          /\ \A i \in DOMAIN Tail(outQ) : i + 1 # 1
      BY <1>1, <3>1, Beheaded
    <3>3. e.slot = outQ[1].slot /\ e \in OutReturn
      BY <3>2 DEF AccessUnit, OutReturn
    <3> HIDE DEF e
    <3>4. Filed(out, Tail(outQ), outDone)
      BY <1>1, <3>1, FiledParsed
    <3> DEFINE q == Tail(outQ)
    <3>5. \A i \in DOMAIN q : i + 1 \in DOMAIN outQ /\ q[i] = outQ[i + 1] /\ i + 1 # 1
      BY <3>2
    <3> HIDE DEF q
    <3>6. /\ out[e.slot].queued /\ \A i \in DOMAIN q : q[i].slot # e.slot
          /\ \A i \in DOMAIN outDone : outDone[i].slot # e.slot
      BY <3>2, <3>3, <3>5 DEF Filed
    <3>7. Filed(out, q, Append(outDone, e))
      BY <1>1, <3>3, <3>4, <3>6, FiledReturned DEF q
    <3> QED BY <2>0, <3>1, <3>7 DEF q
  <2>4. CASE \E o \in OutSlots : FwReturnOutput(o)
    <3>1. PICK o \in OutSlots : Consumed(o) /\ outQ' = outQ
                /\ outDone' = Append(outDone, [slot |-> o, error |-> FALSE])
      BY <2>4 DEF FwReturnOutput
    <3> DEFINE e == [slot |-> o, error |-> FALSE]
    <3>2. e.slot = o /\ e \in OutReturn /\ outDone' = Append(outDone, e)
      BY <3>1 DEF OutReturn
    <3> HIDE DEF e
    <3>3. /\ out[e.slot].queued /\ \A i \in DOMAIN outQ : outQ[i].slot # e.slot
          /\ \A i \in DOMAIN outDone : outDone[i].slot # e.slot
      BY <3>1, <3>2 DEF Consumed
    <3>4. Filed(out, outQ, Append(outDone, e))
      BY <1>1, <3>2, <3>3, FiledReturned
    <3> QED BY <2>0, <3>1, <3>2, <3>4
  <2> QED BY <2>0, <2>1, <2>2, <2>3, <2>4 DEF FirmwareStep, FwAnnounce, FwDecode, Decoding,
             FwResolutionChange, FwLast, FwEmit, FwSpoil
<1> QED BY <1>2, <1>3, <1>4, <1>5, <1>6, QueueSteps

-----------------------------------------------------------------------------
(* Steps of a healthy decoder in display order.                            *)

\* The kernel answers the controls once.
LEMMA ModeStays == [Next]_vars => mode' = mode
<1> SUFFICES ASSUME [Next]_vars PROVE mode' = mode
  OBVIOUS
<1>1. ASSUME NEW t \in Targets, Release(t) PROVE mode' = mode
  BY <1>1, Zenon DEF Release, poolRest
<1>2. Client \/ (\E t \in Targets : Relock(t)) => mode' = mode
  BY <1>1 DEF Client, Relock, Submit, WaitSettled, Wait, Enter, Service, Finish, drainRest
<1>3. Reconfigure \/ Configure => mode' = mode
  BY DEF Reconfigure, Configure, poolRest
<1>4. PumpTail \/ Rebuild => mode' = mode
  BY <1>3 DEF PumpTail, Rebuild, drainRest
<1> QED BY <1>2, <1>3, <1>4 DEF Next, Working, Looping, Expiring, HandleEvents, LoopEnds,
             DrainTurn, LastSeen, Start, CallDone, WaitReturns, SubmitLoops, Accept,
             WaitPolls, StartBusy, SubmitGivesUp, WaitExpires, drainRest, DrainExpires,
             DequeueError, callRest, vars, driverVars, ReturnOutput, ReturnCapture, Drained,
             Firmware

\* So far nothing has failed, and this step is no failure either.
Well == faults = 0 /\ faults' = 0

\* Then no fault happens in this step.
LEMMA NoFault == Well => ~Fault
BY DEF Well, Fault

\* Failures are never forgotten.
LEMMA FaultsStay == TypeOK /\ [Next]_vars => faults' = faults \/ Fault
<1> SUFFICES ASSUME TypeOK, [Next]_vars PROVE faults' = faults \/ Fault
  OBVIOUS
<1>1. ASSUME NEW tg, NEW pd, configure_capture(tg, pd) \/ configure_capture_throws(tg, pd)
      PROVE  faults' = faults \/ Fault
  BY <1>1, Zenon DEF configure_capture, configure_capture_throws, FenceCost
<1>2. ASSUME NEW t \in Targets, Release(t) PROVE faults' = faults \/ Fault
  <2>1. CASE UNCHANGED decoderVars
    BY <2>1 DEF decoderVars
  <2>2. (UNCHANGED decoderVars) \/ \E tg, pd : configure_capture(tg, pd) \/ configure_capture_throws(tg, pd)
    BY <1>2, Zenon DEF Release
  <2> QED BY <1>1, <2>1, <2>2
<1>3. Client \/ (\E t \in Targets : Relock(t)) => faults' = faults \/ Fault
  BY <1>2 DEF Client, Relock, Submit, WaitSettled, Wait, Enter, Service, Finish, BeginDrain,
              StopBusy, decoderVars
<1>4. Reconfigure \/ Configure => faults' = faults \/ Fault
  BY <1>1 DEF Reconfigure, Configure
<1>5. PumpTail \/ Rebuild => faults' = faults \/ Fault
  BY <1>4 DEF PumpTail, Rebuild, BeginDrain, StopBusy, decoderVars
<1>a. ASSUME NEW late, FenceCost(late) PROVE faults' = faults \/ Fault
  BY <1>a DEF FenceCost
<1>b. ASSUME NEW d, NEW k, NEW r, Complete(d, k, r) PROVE faults' = faults \/ Fault
  BY <1>b, Zenon DEF Complete
<1>c. DrainTurn => faults' = faults \/ Fault
  BY <1>a, Zenon DEF DrainTurn
<1>d. ReturnCapture => faults' = faults \/ Fault
  BY <1>a, <1>b, Zenon DEF ReturnCapture
<1>6. DrainTurn \/ ReturnCapture => faults' = faults \/ Fault
  BY <1>c, <1>d
<1>7. Firmware => faults' = faults \/ Fault
  BY DEF Firmware, FirmwareStep, FwAnnounce, FwDecode, FwResolutionChange, FwReject,
         FwReturnOutput, FwEmit, FwSpoil, FwLast
<1>8. Accept => faults' = faults \/ Fault
  BY Zenon DEF Accept, FenceCost
<1> QED BY <1>3, <1>5, <1>4, <1>6, <1>7, <1>8 DEF Next, Working, Looping, Expiring, HandleEvents,
             LoopEnds, LastSeen, Start, CallDone, WaitReturns, SubmitLoops, BeginDrain, StopBusy,
             WaitPolls, StartBusy, SubmitGivesUp, WaitExpires, DrainExpires,
             DequeueError, callRest, vars, decoderVars, ReturnOutput, Drained

\* So a step into a state without failures starts from one.
LEMMA WellStep ==
  ASSUME TypeOK, [Next]_vars, faults' = 0
  PROVE  Well
<1>1. faults \in Nat
  BY DecoderAssumption DEF TypeOK, DecoderTypeOK
<1>2. faults' = faults \/ faults' = faults + 1
  BY FaultsStay DEF Fault
<1> QED BY <1>1, <1>2 DEF Well

\* queue_import_next does nothing for a pool that takes no client buffers.
LEMMA NoNext ==
  ASSUME NEW mem, mem # "Import", NEW g, NEW b, NEW cp, NEW tg, NEW pd, NEW n, NEW late
  PROVE  LET r == ImportNext(mem, g, b, cp, tg, pd, n, late) IN
         /\ r.backlog = b /\ r.cap = cp /\ r.target = tg /\ r.pending = pd /\ ~r.throws
<1> DEFINE r == ImportNext(mem, g, b, cp, tg, pd, n, late)
<1>1. r = [backlog |-> b, cap |-> cp, target |-> tg, pending |-> pd, throws |-> FALSE]
  BY DEF ImportNext
<1> HIDE DEF r
<1>2. r.backlog = b /\ r.cap = cp /\ r.target = tg /\ r.pending = pd /\ r.throws = FALSE
  BY <1>1
<1> QED BY <1>2 DEF r

\* In display order a pool is built without a failure, or one is counted.
LEMMA PoolsSucceed ==
  ASSUME mode = "DisplayOrder", Well, NEW tg, NEW pd
  PROVE  ~configure_capture_throws(tg, pd)
<1>1. PoolMemory(tg, pd) # "Import"
  BY DEF PoolMemory, ImportGranted
<1>2. \A b, n, late : ~ImportNext(PoolMemory(tg, pd), fwGeom, b, fresh_capture, tg, pd, n, late).throws
  BY <1>1, NoNext
<1> QED BY <1>2, NoFault, Zenon DEF configure_capture_throws

-----------------------------------------------------------------------------
(* STOP and LAST.                                                          *)

LoopPcs == DrainPcs \cup {"start", "soutputs"}

\* LAST has been seen by the drain under way.
Ended == pc \in {"flush", "drained", "start", "soutputs"} \/ (pc \in DrainPcs /\ saw_last)

\* LAST comes last, when the decoder has nothing left that it could give out, and
\* nothing else comes after it was seen.
LastIsLast ==
  /\ \A i \in DOMAIN capDone : capDone[i].last => phase = "last" /\ i = Len(capDone)
  /\ phase = "last" => inFw = {} /\ (outQ = <<>> \/ blocked)
  /\ Ended => phase = "last" /\ capDone = <<>>

\* The decoder is stopped only under a drain, or for good.
Stopped == phase \in {"stop", "last"} => pc \in LoopPcs \/ state \in Over

\* The call goes on or ends.
LEMMA StopsKept ==
  ASSUME LastIsLast, Stopped, UNCHANGED <<phase, blocked, outQ, inFw, capDone>>,
         state \in Over => state' \in Over,
         \/ pc' = pc /\ saw_last' = saw_last
         \/ pc' \notin LoopPcs /\ (pc \in LoopPcs => state' \in Over)
         \/ pc \in LoopPcs /\ pc' \in LoopPcs /\ (Ended' => Ended)
  PROVE  LastIsLast' /\ Stopped'
<1>1. Stopped'
  BY DEF Stopped
<1>2. Ended' => Ended
  BY DEF Ended, LoopPcs, DrainPcs
<1> QED BY <1>1, <1>2 DEF LastIsLast

\* The decoder is started, or asked to stop, when nothing says LAST.
LEMMA StopsTurn ==
  ASSUME LastIsLast, Stopped, phase # "last" \/ capDone = <<>>, capDone' = capDone,
         \/ phase' = "run" /\ pc' \notin LoopPcs
         \/ phase' = "stop" /\ pc' = "drain" /\ ~saw_last'
  PROVE  LastIsLast' /\ Stopped'
<1>1. Stopped' /\ ~Ended'
  BY DEF Stopped, Ended, LoopPcs, DrainPcs
<1>2. \A i \in DOMAIN capDone : ~capDone[i].last
  BY DEF LastIsLast
<1> QED BY <1>1, <1>2 DEF LastIsLast

\* Nothing of a healthy decoder in display order has failed.
Displaying == mode = "DisplayOrder" /\ memory # "Import" /\ PixelInv /\ Courses /\ Well

\* Building the pool starts the decoder.
LEMMA StopsPools ==
  ASSUME Displaying, LastIsLast, Stopped, NEW tg, NEW pd,
         configure_capture(tg, pd) \/ configure_capture_throws(tg, pd),
         state \in {"Configured", "Reconfiguring"}, pc \notin LoopPcs,
         pc' \notin LoopPcs, capDone' = capDone
  PROVE  LastIsLast' /\ Stopped'
<1>1. configure_capture(tg, pd)
  BY PoolsSucceed DEF Displaying
<1>2. phase' = "run"
  BY <1>1 DEF configure_capture
<1>3. phase # "last"
  BY DEF Stopped, Over
<1> QED BY <1>2, <1>3, StopsTurn

\* The client's calls.
LEMMA StopsClient ==
  ASSUME Displaying, LastIsLast, Stopped, Client \/ \E t \in Targets : Relock(t)
  PROVE  LastIsLast' /\ Stopped'
<1>1. call = "none" => pc = "idle" /\ pc \notin LoopPcs
  BY DEF Displaying, PixelInv, SettledInv, Places, LoopPcs, DrainPcs
<1>2. ASSUME PumpStart(target) \/ PumpStart(target'), call = "none", state' = state,
             UNCHANGED decoderVars
      PROVE  LastIsLast' /\ Stopped'
  <2>1. pc' \notin LoopPcs
    BY <1>2 DEF PumpStart, LoopPcs, DrainPcs
  <2> QED BY <1>1, <1>2, <2>1, StopsKept DEF decoderVars
<1>3. ASSUME NEW t \in Targets, NEW p \in Policies, Submit(t, p)
      PROVE  LastIsLast' /\ Stopped'
  BY <1>2, <1>3 DEF Submit
<1>4. ASSUME NEW c, NEW t, Enter(c, t) PROVE LastIsLast' /\ Stopped'
  BY <1>2, <1>4 DEF Enter
<1>5. ASSUME NEW t \in Targets, WaitSettled(t) PROVE LastIsLast' /\ Stopped'
  <2>1. pc' = pc /\ call = "none" /\ state' = state /\ UNCHANGED decoderVars
    BY <1>5 DEF WaitSettled
  <2> QED BY <1>1, <2>1, StopsKept DEF decoderVars
<1>6. ASSUME NEW t \in Targets, Release(t) PROVE LastIsLast' /\ Stopped'
  <2>1. call = "none" /\ pc' = pc
    BY <1>6 DEF Release
  <2>2. CASE state' = state /\ UNCHANGED decoderVars
    BY <1>1, <2>1, <2>2, StopsKept DEF decoderVars
  <2>3. CASE state = "Reconfiguring" /\ capDone' = capDone
             /\ \E tg, pd : configure_capture(tg, pd) \/ configure_capture_throws(tg, pd)
    BY <1>1, <2>1, <2>3, StopsPools
  <2> QED BY <1>6, <2>2, <2>3, Zenon DEF Release, poolRest
<1>7. CASE Finish
  <2>1. call = "none" /\ UNCHANGED drainRest
    BY <1>7 DEF Finish
  <2>2. CASE state = "Streaming" /\ BeginDrain("finish")
    <3>1. phase # "last"
      BY <1>1, <2>1, <2>2 DEF Stopped, Over
    <3> QED BY <2>1, <2>2, <3>1, StopsTurn DEF BeginDrain, drainRest
  <2>3. CASE state' = "Finished" /\ UNCHANGED <<pc, phase>>
    BY <1>1, <2>1, <2>3, StopsKept DEF Over, drainRest
  <2>4. ~StopBusy("finish")
    BY NoFault DEF Displaying, StopBusy
  <2> QED BY <1>7, <2>2, <2>3, <2>4 DEF Finish
<1> QED BY <1>3, <1>4, <1>5, <1>6, <1>7 DEF Client, Relock, Service, Wait

\* A pass, a drain and what follows it.
LEMMA StopsTurns ==
  ASSUME Displaying, LastIsLast, Stopped,
         HandleEvents \/ LoopEnds \/ LastSeen \/ ReturnOutput \/ DrainTurn \/ DrainExpires
           \/ DequeueError \/ Start \/ StartBusy
  PROVE  LastIsLast' /\ Stopped'
<1> USE DEF LoopPcs, DrainPcs
<1>1. ~Fault
  BY NoFault DEF Displaying
<1>2. CASE HandleEvents
  <2>1. UNCHANGED <<phase, blocked, outQ, inFw, capDone, state, saw_last>>
    BY <1>2 DEF HandleEvents
  <2>2. \/ pc = "events" /\ pc' \in {"configure", "outputs"}
        \/ pc = "devents" /\ pc' = "doutputs"
    BY <1>2 DEF HandleEvents, Goto
  <2> QED BY <2>1, <2>2, StopsKept DEF Ended
<1>3. CASE LoopEnds
  <2>1. UNCHANGED <<phase, blocked, outQ, inFw, capDone, state, saw_last>>
    BY <1>3 DEF LoopEnds, decoderVars
  <2>2. \/ pc \in {"outputs", "captures"} /\ pc' \in {"captures", "tail"}
        \/ pc = "doutputs" /\ pc' = "dcaptures"
        \/ pc = "dcaptures" /\ pc' = "drain"
        \/ pc = "soutputs" /\ pc' = "start"
    BY <1>3 DEF LoopEnds, Goto
  <2> QED BY <2>1, <2>2, StopsKept DEF Ended
<1>4. CASE LastSeen
  <2>1. UNCHANGED <<phase, blocked, outQ, inFw, capDone, state, saw_last>>
    BY <1>4 DEF LastSeen, decoderVars
  <2>2. Ended /\ pc \in LoopPcs /\ pc' \in {"flush", "drained"}
    BY <1>4 DEF LastSeen, Goto, Ended
  <2> QED BY <2>1, <2>2, StopsKept
<1>5. CASE ReturnOutput
  <2>1. UNCHANGED <<phase, blocked, outQ, inFw, capDone, state, saw_last, pc>>
    BY <1>5 DEF ReturnOutput
  <2> QED BY <2>1, StopsKept
<1>6. CASE DrainTurn
  <2>1. UNCHANGED <<phase, blocked, outQ, inFw, capDone, saw_last>> /\ pc = "drain"
    BY <1>6 DEF DrainTurn
  <2>2. \A b, cp, tg, pd, n, late : ~ImportNext(memory, capGeom, b, cp, tg, pd, n, late).throws
    BY NoNext DEF Displaying
  <2>3. Goto("devents") /\ state' = state
    BY <1>6, <2>2, Zenon DEF DrainTurn
  <2>4. pc' = "devents"
    BY <2>3 DEF Goto
  <2> QED BY <2>1, <2>3, <2>4, StopsKept DEF Ended
<1>7. CASE Start
  <2>1. capDone = <<>>
    BY <1>7 DEF Start, LastIsLast, Ended
  <2> QED BY <1>7, <2>1, StopsTurn DEF Start
<1>8. CASE StartBusy
  <2>1. UNCHANGED <<phase, blocked, outQ, inFw, capDone, saw_last>> /\ pc = "start"
    BY <1>8 DEF StartBusy, decoderVars
  <2>2. CASE Goto("soutputs") /\ state' = state
    <3>1. pc' = "soutputs"
      BY <2>2 DEF Goto
    <3> QED BY <2>1, <2>2, <3>1, StopsKept DEF Ended
  <2>3. CASE state' = "Failed" /\ pc' = "idle"
    BY <2>1, <2>3, StopsKept DEF Over
  <2> QED BY <1>8, <2>2, <2>3 DEF StartBusy, Fail, Return
<1> QED BY <1>1, <1>2, <1>3, <1>4, <1>5, <1>6, <1>7, <1>8 DEF DrainExpires, DequeueError

\* A pool is built, or a resolution change begins.
LEMMA StopsBuild ==
  ASSUME Displaying, LastIsLast, Stopped, Configure \/ PumpTail \/ Rebuild
  PROVE  LastIsLast' /\ Stopped'
<1> USE DEF LoopPcs, DrainPcs
<1>1. ASSUME Reconfigure, state = "Reconfiguring", pc \notin LoopPcs PROVE LastIsLast' /\ Stopped'
  <2>1. capDone' = capDone
    BY <1>1 DEF Reconfigure, poolRest
  <2>2. CASE configure_capture(target, pending) /\ pc' = "return"
    BY <1>1, <2>1, <2>2, StopsPools
  <2>3. ~configure_capture_throws(target, pending)
    BY PoolsSucceed DEF Displaying
  <2>4. CASE pc' = "return" /\ UNCHANGED <<state, phase, blocked, saw_last>>
    BY <1>1, <2>4, StopsKept DEF Reconfigure, poolRest
  <2> QED BY <1>1, <2>2, <2>3, <2>4 DEF Reconfigure
<1>2. CASE Configure
  <2>1. /\ pc = "configure" /\ state = "Configured" /\ UNCHANGED <<outQ, inFw, capDone>>
    BY <1>2 DEF Configure, poolRest, Displaying, Courses
  <2>2. CASE configure_capture(target, pending) /\ Goto("outputs")
    BY <2>1, <2>2, StopsPools DEF Goto
  <2>3. ~configure_capture_throws(target, pending)
    BY PoolsSucceed DEF Displaying
  <2>4. CASE Throw(state, target, pending, import_backlog) /\ UNCHANGED <<phase, blocked, saw_last>>
    <3>1. pc' = "idle"
      BY <2>4 DEF Throw, Return
    <3> QED BY <2>1, <2>4, <3>1, StopsKept DEF Over
  <2> QED BY <1>2, <2>2, <2>3, <2>4 DEF Configure
<1>3. CASE PumpTail
  <2>1. pc = "tail" /\ ~Fault
    BY <1>3, NoFault DEF PumpTail, Displaying
  <2>2. CASE state = "Streaming" /\ BeginDrain("drc") /\ UNCHANGED drainRest
    <3>1. phase # "last"
      BY <2>1, <2>2 DEF Stopped, Over
    <3> QED BY <2>2, <3>1, StopsTurn DEF BeginDrain, drainRest
  <2>3. CASE state = "Reconfiguring" /\ Reconfigure
    BY <1>1, <2>1, <2>3
  <2>4. CASE Goto("return") /\ UNCHANGED <<state, saw_last, decoderVars>>
    <3>1. pc' = "return"
      BY <2>4 DEF Goto
    <3> QED BY <2>1, <2>4, <3>1, StopsKept DEF decoderVars
  <2> QED BY <1>3, <2>1, <2>2, <2>3, <2>4 DEF PumpTail, StopBusy
<1>4. CASE Rebuild
  <2>1. pc = "rebuild" /\ state = "Reconfiguring"
    BY <1>4 DEF Rebuild, Displaying, Courses
  <2> QED BY <1>1, <1>4, <2>1 DEF Rebuild
<1> QED BY <1>2, <1>3, <1>4

\* The drain is over.
LEMMA StopsDrained ==
  ASSUME Displaying, LastIsLast, Stopped, Drained
  PROVE  LastIsLast' /\ Stopped'
<1> USE DEF LoopPcs, DrainPcs
<1>1. pc = "drained" /\ saw_last' = saw_last /\ UNCHANGED <<outQ, blocked>> /\ Ended
  BY DEF Drained, Ended
<1>2. CASE state' = "RestartPending" /\ Goto("start") /\ UNCHANGED <<phase, inFw, capDone>>
  <2>1. pc' = "start" /\ state \notin Over
    BY <1>1, <1>2 DEF Goto, Displaying, Courses, Over
  <2> QED BY <1>1, <1>2, <2>1, StopsKept
<1>3. CASE state' = "Reconfiguring" /\ Goto("rebuild") /\ phase' = "announced" /\ capDone' = <<>>
  <2>1. pc' = "rebuild"
    BY <1>3 DEF Goto
  <2>2. ~Ended'
    BY <2>1 DEF Ended
  <2> QED BY <1>3, <2>2 DEF LastIsLast, Stopped
<1>4. CASE state' = "Finished" /\ Return("ok") /\ UNCHANGED <<phase, inFw, capDone>>
  <2>1. pc' = "idle"
    BY <1>4 DEF Return
  <2> QED BY <1>1, <1>4, <2>1, StopsKept DEF Over
<1> QED BY <1>2, <1>3, <1>4 DEF Drained

\* The call does the next thing, or ends.
LEMMA StopsAfter ==
  ASSUME Displaying, LastIsLast, Stopped,
         CallDone \/ SubmitLoops \/ SubmitGivesUp \/ WaitReturns \/ WaitPolls \/ WaitExpires
           \/ Accept
  PROVE  LastIsLast' /\ Stopped'
<1> USE DEF LoopPcs, DrainPcs
<1>1. CASE CallDone \/ SubmitLoops \/ SubmitGivesUp \/ WaitReturns \/ WaitPolls
  <2>1. /\ pc = "return" /\ pc' \in {"idle", "events", "return"}
        /\ UNCHANGED <<state, phase, blocked, outQ, inFw, capDone>>
    BY <1>1 DEF CallDone, SubmitLoops, SubmitGivesUp, WaitReturns, WaitPolls, Return,
                PumpAgain, PumpStart, callRest, decoderVars
  <2> QED BY <2>1, StopsKept
<1>2. CASE WaitExpires
  <2>1. pc = "return" /\ ~StopBusy("timeout") /\ UNCHANGED drainRest
    BY <1>2, NoFault DEF WaitExpires, StopBusy, Displaying
  <2>2. CASE state = "Streaming" /\ BeginDrain("timeout")
    <3>1. phase # "last"
      BY <2>1, <2>2 DEF Stopped, Over
    <3> QED BY <2>1, <2>2, <3>1, StopsTurn DEF BeginDrain, drainRest
  <2>3. CASE Return("error") /\ UNCHANGED <<state, phase>>
    <3>1. pc' = "idle"
      BY <2>3 DEF Return
    <3> QED BY <2>1, <2>3, <3>1, StopsKept DEF drainRest
  <2> QED BY <1>2, <2>1, <2>2, <2>3 DEF WaitExpires
<1>3. CASE Accept
  <2>1. /\ pc = "return" /\ pc' \in {"idle", "return"} /\ call \in {"slot", "submit"}
        /\ UNCHANGED <<state, phase, blocked, inFw, capDone>>
    BY <1>3, Zenon DEF Accept, Return
  <2>2. state \notin Over
    BY <2>1 DEF Displaying, Courses, PixelInv, SettledInv, Places, Over
  <2>3. phase \notin {"stop", "last"}
    BY <2>1, <2>2 DEF Stopped
  <2> QED BY <2>1, <2>3 DEF LastIsLast, Stopped, Ended
<1> QED BY <1>1, <1>2, <1>3

\* What a healthy decoder returns: no errors, and in CAPTURE pictures or LAST.
Clean ==
  /\ \A i \in DOMAIN outDone : ~outDone[i].error
  /\ \A i \in DOMAIN capDone : /\ ~capDone[i].error
                               /\ capDone[i].payload \/ capDone[i].ts = NoToken

\* A CAPTURE buffer of such a decoder comes back: its picture is published, or
\* nobody waits for it.
LEMMA CaptureReturns ==
  ASSUME Displaying, Clean, ReturnCapture,
         NEW d, d = Head(capDone)
  PROVE  /\ pc \in {"captures", "dcaptures"} /\ capDone # <<>> /\ capDone' = Tail(capDone)
         /\ Goto(pc) /\ saw_last' = (saw_last \/ d.last)
         /\ UNCHANGED <<state, next_token, phase, blocked, outQ, inFw>>
         /\ \/ Discarded(d, pending) /\ UNCHANGED <<target, pending>>
            \/ /\ d.ts \in Tokens /\ pending[d.ts] # None
               /\ target' = [target EXCEPT ![pending[d.ts]] =
                               Published(target[pending[d.ts]], d.slot)]
               /\ pending' = Erase(pending, {d.ts})
<1> DEFINE took == take_capture(cap, d.slot)
           m    == IF state = "Streaming" THEN memory ELSE "Unallocated"
           R(n, late) == ImportNext(m, capGeom, import_backlog, took, target, pending, n, late)
           k    == cap[d.slot].import_token
<1>1. /\ pc \in {"captures", "dcaptures"} /\ capDone # <<>> /\ capDone' = Tail(capDone)
      /\ UNCHANGED <<next_token, phase, blocked, outQ, inFw>>
  BY DEF ReturnCapture
<1>2. PICK n \in Dropped(import_backlog, target, pending), late \in BOOLEAN :
        \/ R(n, late).throws
        \/ /\ ~R(n, late).throws
           /\ saw_last' = (saw_last \/ d.last) /\ Complete(d, k, R(n, late))
  BY Zenon DEF ReturnCapture
<1>3. m # "Import"
  BY DEF Displaying
<1> HIDE DEF took, m, k
<1> DEFINE r == R(n, late)
<1>4. r.target = target /\ r.pending = pending /\ ~r.throws
  BY <1>3, NoNext
<1> HIDE DEF R
<1>5. Complete(d, k, r) /\ saw_last' = (saw_last \/ d.last)
  BY <1>2, <1>4
<1> HIDE DEF r
<1>6. ~d.error
  <2>1. capDone \in Seq(CapReturn) /\ 1 \in DOMAIN capDone /\ d = capDone[1]
    <3>1. capDone \in Seq(CapReturn)
      BY PixelTypes DEF Displaying
    <3>2. d = capDone[1] /\ Len(capDone) \in Nat /\ Len(capDone) >= 1
          /\ DOMAIN capDone = 1..Len(capDone)
      BY <1>1, <3>1, Beheaded
    <3> QED BY <3>1, <3>2
  <2> QED BY <2>1 DEF Clean
<1>7. Spoiled(d, k) = {}
  BY <1>6 DEF Spoiled, Displaying
<1>8. ~Fault
  BY NoFault DEF Displaying
<1>9. CASE Discarded(d, pending)
  BY <1>1, <1>4, <1>5, <1>7, <1>9 DEF Complete
<1>10. CASE ~Discarded(d, pending)
  <2>1. d.ts \in Tokens /\ pending[d.ts] # None
    BY <1>10 DEF Discarded
  <2>2. /\ target' = [r.target EXCEPT ![r.pending[d.ts]] =
                        Published(r.target[r.pending[d.ts]], d.slot)]
        /\ pending' = Erase(r.pending, {d.ts}) /\ Goto(pc) /\ state' = state
    BY <1>4, <1>5, <1>7, <1>8, <1>10, Zenon DEF Complete
  <2> QED BY <1>1, <1>4, <1>5, <2>1, <2>2
<1> QED BY <1>9, <1>10

\* LAST comes back, or a buffer before it.
LEMMA StopsCapture ==
  ASSUME Displaying, Clean, LastIsLast, Stopped, ReturnCapture
  PROVE  LastIsLast' /\ Stopped'
<1> DEFINE d == Head(capDone)
           a == Tail(capDone)
<1>1. /\ pc \in {"captures", "dcaptures"} /\ capDone # <<>> /\ capDone' = a
      /\ pc' = pc /\ saw_last' = (saw_last \/ d.last)
      /\ UNCHANGED <<state, phase, blocked, outQ, inFw>>
  BY CaptureReturns DEF Goto
<1>2. /\ d = capDone[1] /\ Len(capDone) \in Nat /\ Len(a) = Len(capDone) - 1
      /\ Len(capDone) >= 1 /\ DOMAIN capDone = 1..Len(capDone) /\ a \in Seq(CapReturn)
      /\ \A i \in DOMAIN a : i + 1 \in DOMAIN capDone /\ a[i] = capDone[i + 1] /\ i \in Nat
  <2>1. capDone \in Seq(CapReturn)
    BY PixelTypes DEF Displaying
  <2> QED BY <1>1, <2>1, Beheaded
<1>3. d.last => phase = "last" /\ a = <<>>
  <2> SUFFICES ASSUME d.last PROVE phase = "last" /\ a = <<>>
    OBVIOUS
  <2>1. phase = "last" /\ Len(capDone) = 1
    BY <1>2 DEF LastIsLast
  <2> DEFINE l == Len(capDone)
             m == Len(a)
  <2>2. l = 1 /\ m = l - 1
    BY <1>2, <2>1
  <2> HIDE DEF l, m
  <2>3. m = 0
    BY <2>2
  <2> QED BY <1>2, <2>1, <2>3, EmptySeq DEF m
<1>4. ~Ended
  BY <1>1 DEF LastIsLast
<1>5. Ended' => d.last
  BY <1>1, <1>4 DEF Ended
<1>6. ASSUME NEW i \in DOMAIN a, a[i].last PROVE phase = "last" /\ i = Len(a)
  <2>1. phase = "last" /\ i + 1 = Len(capDone)
    BY <1>2, <1>6 DEF LastIsLast
  <2>2. i = Len(capDone) - 1
    BY <1>2, <1>6, <2>1
  <2> QED BY <1>2, <2>1, <2>2
<1> HIDE DEF d, a
<1>7. LastIsLast'
  BY <1>1, <1>3, <1>5, <1>6 DEF LastIsLast
<1>8. Stopped'
  BY <1>1 DEF Stopped
<1> QED BY <1>7, <1>8

\* The decoder's own steps.
LEMMA StopsFirmware ==
  ASSUME Displaying, LastIsLast, Stopped, Firmware
  PROVE  LastIsLast' /\ Stopped'
<1>1. /\ FirmwareStep /\ UNCHANGED <<state, pc, saw_last>> /\ ~Fault
      /\ capDone \in Seq(CapReturn) /\ Ended' = Ended
  BY NoFault, PixelTypes DEF Firmware, driverVars, Displaying, Ended
<1>2. CASE phase' = phase /\ phase # "last" /\ capDone' = capDone
  BY <1>1, <1>2 DEF LastIsLast, Stopped
<1>3. CASE phase' = phase /\ UNCHANGED <<inFw, outQ, blocked, capDone>>
  BY <1>1, <1>3 DEF LastIsLast, Stopped
<1>4. CASE FwAnnounce
  <2>1. ~Ended /\ phase' = "announced" /\ capDone' = capDone
    BY <1>4 DEF FwAnnounce, LastIsLast
  <2>2. \A i \in DOMAIN capDone : ~capDone[i].last
    BY <1>4 DEF FwAnnounce, LastIsLast
  <2> QED BY <1>1, <2>1, <2>2 DEF LastIsLast, Stopped
<1>5. ASSUME NEW k \in Tokens, NEW c \in CapSlots, FwEmit(k, c)
      PROVE  LastIsLast' /\ Stopped'
  <2> DEFINE e == [slot |-> c, ts |-> k, last |-> FALSE, error |-> FALSE, payload |-> TRUE]
  <2>1. phase' = phase /\ phase # "last" /\ capDone' = Append(capDone, e)
    BY <1>5 DEF FwEmit, Emit
  <2>2. e \in CapReturn /\ ~e.last
    BY DEF CapReturn
  <2> HIDE DEF e
  <2> DEFINE a == Append(capDone, e)
             l == Len(capDone) + 1
  <2>3. a[l] = e /\ \A i \in DOMAIN a : (i \in DOMAIN capDone /\ a[i] = capDone[i]) \/ i = l
    BY <1>1, <2>2, Appended
  <2> HIDE DEF a, l
  <2>4. \A i \in DOMAIN a : ~a[i].last
    BY <2>1, <2>2, <2>3 DEF LastIsLast
  <2>5. capDone' = a
    BY <2>1 DEF a
  <2> QED BY <1>1, <2>1, <2>4, <2>5 DEF LastIsLast, Stopped
<1>6. ASSUME NEW c \in CapSlots, FwLast(c) PROVE LastIsLast' /\ Stopped'
  <2> DEFINE e == [slot |-> c, ts |-> NoToken, last |-> TRUE, error |-> FALSE, payload |-> FALSE]
  <2>1. /\ phase = "stop" /\ phase' = "last" /\ inFw = {} /\ (outQ = <<>> \/ blocked)
        /\ UNCHANGED <<inFw, outQ, blocked>> /\ capDone' = Append(capDone, e)
    BY <1>6 DEF FwLast, Emit
  <2>2. e \in CapReturn
    BY DEF CapReturn
  <2> HIDE DEF e
  <2> DEFINE a == Append(capDone, e)
             l == Len(capDone) + 1
  <2>3. /\ Len(a) = l
        /\ \A i \in DOMAIN a : (i \in DOMAIN capDone /\ a[i] = capDone[i]) \/ i = l
    BY <1>1, <2>2, Appended, AppendProperties
  <2> HIDE DEF a, l
  <2>4. \A i \in DOMAIN a : a[i].last => i = Len(a)
    BY <2>1, <2>3 DEF LastIsLast
  <2>5. capDone' = a /\ ~Ended
    BY <2>1 DEF a, LastIsLast
  <2> QED BY <1>1, <2>1, <2>4, <2>5 DEF LastIsLast, Stopped
<1> QED BY <1>1, <1>2, <1>3, <1>4, <1>5, <1>6 DEF FirmwareStep, FwDecode, FwResolutionChange,
           FwReject, FwReturnOutput, FwSpoil, Decoding

\* LAST comes last, and the decoder is stopped under a drain only.
LEMMA StopsStep ==
  ASSUME Displaying, Clean, LastIsLast, Stopped, [Next]_vars
  PROVE  LastIsLast' /\ Stopped'
<1>1. CASE UNCHANGED vars
  <2>1. UNCHANGED <<capDone, phase, inFw, outQ, blocked, pc, saw_last, state>>
    BY <1>1 DEF vars, driverVars, decoderVars
  <2> QED BY <2>1 DEF LastIsLast, Stopped, Ended
<1> QED BY <1>1, StopsClient, StopsTurns, StopsBuild, StopsDrained, StopsAfter, StopsCapture,
        StopsFirmware DEF Next, Working, Looping, Expiring

\* A healthy decoder returns no errors.
LEMMA CleanStep ==
  ASSUME PixelInv, Well, Clean, [Next]_vars
  PROVE  Clean'
<1>1. /\ outDone \in Seq(OutReturn) /\ capDone \in Seq(CapReturn) /\ ~Fault
  BY NoFault, PixelTypes DEF PixelInv, SettledInv, TypeInv, TypeOK, DecoderTypeOK
<1>2. CASE UNCHANGED <<outDone, capDone>>
  BY <1>2 DEF Clean
<1>3. CASE ReturnOutput
  <2> DEFINE a == Tail(outDone)
  <2>1. outDone # <<>> /\ outDone' = a /\ capDone' = capDone
    BY <1>3 DEF ReturnOutput
  <2>2. \A i \in DOMAIN a : i + 1 \in DOMAIN outDone /\ a[i] = outDone[i + 1]
    BY <1>1, <2>1, Beheaded
  <2> HIDE DEF a
  <2> QED BY <2>1, <2>2 DEF Clean
<1>4. CASE ReturnCapture
  <2> DEFINE a == Tail(capDone)
  <2>1. capDone # <<>> /\ capDone' = a /\ outDone' = outDone
    BY <1>4 DEF ReturnCapture
  <2>2. \A i \in DOMAIN a : i + 1 \in DOMAIN capDone /\ a[i] = capDone[i + 1]
    BY <1>1, <2>1, Beheaded
  <2> HIDE DEF a
  <2> QED BY <2>1, <2>2 DEF Clean
<1>5. CASE Drained
  <2>1. outDone' = outDone /\ (capDone' = capDone \/ capDone' = <<>>)
    BY <1>5 DEF Drained
  <2> QED BY <2>1 DEF Clean
<1>6. ASSUME NEW e \in CapReturn, capDone' = Append(capDone, e), outDone' = outDone,
             ~e.error, e.payload \/ e.ts = NoToken
      PROVE  Clean'
  <2> DEFINE a == Append(capDone, e)
             l == Len(capDone) + 1
  <2>1. a[l] = e /\ \A i \in DOMAIN a : (i \in DOMAIN capDone /\ a[i] = capDone[i]) \/ i = l
    BY <1>1, Appended
  <2> HIDE DEF a, l
  <2>2. \A i \in DOMAIN a : ~a[i].error /\ (a[i].payload \/ a[i].ts = NoToken)
    BY <1>6, <2>1 DEF Clean
  <2>3. capDone' = a
    BY <1>6 DEF a
  <2> QED BY <1>6, <2>2, <2>3 DEF Clean
<1>7. ASSUME NEW o \in OutSlots, FwReturnOutput(o) PROVE Clean'
  <2> DEFINE e == [slot |-> o, error |-> FALSE]
             a == Append(outDone, e)
             l == Len(outDone) + 1
  <2>1. e \in OutReturn /\ ~e.error /\ outDone' = a /\ capDone' = capDone
    BY <1>7 DEF OutReturn, FwReturnOutput
  <2> HIDE DEF e
  <2>2. a[l] = e /\ \A i \in DOMAIN a : (i \in DOMAIN outDone /\ a[i] = outDone[i]) \/ i = l
    BY <1>1, <2>1, Appended
  <2> HIDE DEF a, l
  <2> QED BY <2>1, <2>2 DEF Clean
<1>8. ASSUME NEW k \in Tokens, NEW c \in CapSlots, FwEmit(k, c) PROVE Clean'
  <2> DEFINE e == [slot |-> c, ts |-> k, last |-> FALSE, error |-> FALSE, payload |-> TRUE]
  <2>1. e \in CapReturn /\ ~e.error /\ e.payload /\ capDone' = Append(capDone, e) /\ outDone' = outDone
    BY <1>8 DEF CapReturn, FwEmit, Emit
  <2> HIDE DEF e
  <2> QED BY <1>6, <2>1
<1>9. ASSUME NEW c \in CapSlots, FwLast(c) PROVE Clean'
  <2> DEFINE e == [slot |-> c, ts |-> NoToken, last |-> TRUE, error |-> FALSE, payload |-> FALSE]
  <2>1. e \in CapReturn /\ ~e.error /\ e.ts = NoToken /\ capDone' = Append(capDone, e)
        /\ outDone' = outDone
    BY <1>9 DEF CapReturn, FwLast, Emit
  <2> HIDE DEF e
  <2> QED BY <1>6, <2>1
<1>10. CASE Firmware
  BY <1>1, <1>2, <1>7, <1>8, <1>9, <1>10 DEF Firmware, FirmwareStep, FwAnnounce, FwDecode,
     FwResolutionChange, FwReject, FwSpoil
<1>11. Accept => UNCHANGED <<outDone, capDone>>
  BY DEF Accept
<1> QED BY <1>2, <1>3, <1>4, <1>5, <1>10, <1>11, QueueSteps

-----------------------------------------------------------------------------
(* Every live picture is somewhere.                                        *)

\* The pictures the decoder has and has not written yet.
Unwritten == inFw \cup {outQ[i].token : i \in DOMAIN outQ}

Accounted ==
  \A k \in Tokens : pending[k] # None =>
    k \in Unwritten \/ \E i \in DOMAIN capDone : capDone[i].ts = k

\* A token of the map was in the map before, or is the newest.
LEMMA LiveBefore ==
  ASSUME PixelInv, Courses, [Next]_vars, NEW k \in Tokens, pending'[k] # None
  PROVE  pending[k] # None \/ (k = next_token /\ next_token' = next_token + 1)
<1>1. Agree(target', pending') /\ Agree(target, pending) /\ Typed(target', pending')
      /\ Typed(target, pending)
  <2>1. SettledInv'
    BY SettledStep DEF PixelInv
  <2> QED BY <2>1, PixelTypes DEF SettledInv, TypeInv, TypeOK, Typed
<1> DEFINE t == pending'[k]
<1>2. t \in Targets /\ target'[t].pending /\ target'[t].token = k
  BY <1>1 DEF Agree, Typed
<1>3. ASSUME target[t].pending, target[t].token = k PROVE pending[k] # None
  BY <1>1, <1>2, <1>3, SlotsAssumption DEF Agree
<1> HIDE DEF t
<1>4. Pictured
  BY PicturesStep
<1>5. CASE Stays(target[t], target'[t])
  BY <1>2, <1>3, <1>5 DEF Stays
<1>6. ~Drops(target[t], target'[t])
  BY <1>2 DEF Drops
<1>7. ASSUME NEW u \in Targets, Accepting(u) \/ Publishing(u) \/ Releasing(u)
      PROVE  pending[k] # None \/ (k = next_token /\ next_token' = next_token + 1)
  BY <1>2, <1>5, <1>6, <1>7 DEF Accepting, Publishing, Releasing, Apart
<1> QED BY <1>2, <1>4, <1>5, <1>6, <1>7 DEF Pictured, Losing

\* No live picture goes astray: from the queue it goes into the decoder, from there
\* into a CAPTURE buffer, and when that is dequeued the picture is live no more.
LEMMA AccountedStep ==
  ASSUME Displaying, Clean, LastIsLast, Accounted, [Next]_vars
  PROVE  Accounted'
<1>1. /\ outQ \in Seq(AccessUnit) /\ capDone \in Seq(CapReturn) /\ ~Fault /\ next_token \in Nat
      /\ TypeInv
  BY NoFault, PixelTypes DEF Displaying, PixelInv, SettledInv, TypeInv, TypeOK, DecoderTypeOK
<1>2. \A k \in Tokens : pending'[k] # None =>
        pending[k] # None \/ (k = next_token /\ next_token' = next_token + 1)
  BY LiveBefore DEF Displaying
<1>3. CASE UNCHANGED <<next_token, out, outQ, inFw, outDone, capDone>>
  <2>1. \A k \in Tokens : pending'[k] # None => pending[k] # None
    BY <1>1, <1>2, <1>3
  <2> QED BY <1>3, <2>1 DEF Accounted, Unwritten
<1>4. CASE Accept
  <2> DEFINE e == [slot |-> free_output(out), token |-> next_token, geom |-> SurfGeom[arg]]
             a == Append(outQ, e)
             l == Len(outQ) + 1
  <2>1. outQ' = a /\ UNCHANGED <<inFw, capDone>> /\ call \in {"slot", "submit"}
        /\ free_outputs(out) # {}
    BY <1>4 DEF Accept, NewToken
  <2>2. e \in AccessUnit
    <3>1. free_output(out) \in OutSlots
      BY <2>1, FreeOutput DEF free_outputs
    <3>2. arg \in Targets /\ next_token \in Tokens
      BY <1>1, <2>1 DEF TypeInv, CallShape
    <3>3. SurfGeom[arg] \in Geoms
      BY <3>2, DecoderAssumption
    <3> QED BY <3>1, <3>2, <3>3 DEF AccessUnit
  <2>3. e.token = next_token
    OBVIOUS
  <2> HIDE DEF e
  <2>4. /\ a[l] = e /\ l \in DOMAIN a
        /\ \A i \in DOMAIN outQ : i \in DOMAIN a /\ a[i] = outQ[i]
    BY <1>1, <2>2, Appended
  <2> HIDE DEF a, l
  <2>5. Unwritten \subseteq Unwritten' /\ next_token \in Unwritten'
    BY <2>1, <2>3, <2>4 DEF Unwritten
  <2> QED BY <1>2, <2>1, <2>5 DEF Accounted
<1>5. CASE ReturnOutput
  <2>1. UNCHANGED <<next_token, outQ, inFw, capDone>>
    BY <1>5 DEF ReturnOutput
  <2>2. \A k \in Tokens : pending'[k] # None => pending[k] # None
    BY <1>1, <1>2, <2>1
  <2> QED BY <2>1, <2>2 DEF Accounted, Unwritten
<1>6. CASE ReturnCapture
  <2> DEFINE d == Head(capDone)
             a == Tail(capDone)
  <2>1. /\ capDone # <<>> /\ capDone' = a /\ UNCHANGED <<outQ, inFw, next_token>>
        /\ \/ Discarded(d, pending) /\ UNCHANGED <<target, pending>>
           \/ pending' = Erase(pending, {d.ts})
    BY <1>6, CaptureReturns
  <2>2. /\ d = capDone[1] /\ 1 \in DOMAIN capDone
        /\ \A i \in DOMAIN capDone : i = 1 \/ (i - 1 \in DOMAIN a /\ a[i - 1] = capDone[i])
    BY <1>1, <2>1, Beheaded
  <2>3. d.payload \/ d.ts \notin Tokens
    BY <2>2, IdleFields DEF Clean
  <2>4. d.ts \in Tokens => pending'[d.ts] = None
    <3> HIDE DEF d, a
    <3>1. CASE Discarded(d, pending) /\ UNCHANGED <<target, pending>>
      BY <2>3, <3>1, IdleFields DEF Discarded
    <3>2. CASE pending' = Erase(pending, {d.ts})
      BY <3>2 DEF Erase
    <3> QED BY <2>1, <3>1, <3>2
  <2>5. \A k \in Tokens : pending'[k] # None => pending[k] # None
    BY <1>1, <1>2, <2>1
  <2> HIDE DEF d, a
  <2>6. ASSUME NEW k \in Tokens, pending'[k] # None, NEW i \in DOMAIN capDone, capDone[i].ts = k
        PROVE  \E j \in DOMAIN capDone' : capDone'[j].ts = k
    <3>1. i # 1
      BY <2>2, <2>4, <2>6
    <3> QED BY <2>1, <2>2, <2>6, <3>1
  <2> QED BY <2>1, <2>5, <2>6 DEF Accounted, Unwritten
<1>7. CASE Drained
  <2>1. inFw = {} /\ capDone = <<>> /\ UNCHANGED <<outQ, next_token>>
    BY <1>7 DEF Drained, LastIsLast, Ended
  <2>2. inFw' = {} /\ capDone' = <<>>
    BY <1>7, <2>1 DEF Drained
  <2>3. \A k \in Tokens : pending'[k] # None => pending[k] # None
    BY <1>1, <1>2, <2>1
  <2> QED BY <2>1, <2>2, <2>3 DEF Accounted, Unwritten
<1>8. CASE Firmware
  <2>1. pending' = pending /\ FirmwareStep
    BY <1>8 DEF Firmware, driverVars
  <2>2. CASE UNCHANGED <<outQ, inFw, capDone>>
    BY <2>1, <2>2 DEF Accounted, Unwritten
  <2>3. CASE FwDecode
    <3> DEFINE a == Tail(outQ)
               h == Head(outQ)
    <3>1. outQ # <<>> /\ outQ' = a /\ inFw' = inFw \cup {h.token} /\ capDone' = capDone
      BY <2>3 DEF FwDecode, Decoding
    <3>2. /\ h = outQ[1] /\ 1 \in DOMAIN outQ
          /\ \A i \in DOMAIN outQ : i = 1 \/ (i - 1 \in DOMAIN a /\ a[i - 1] = outQ[i])
      BY <1>1, <3>1, Beheaded
    <3> HIDE DEF a, h
    <3>3. Unwritten \subseteq Unwritten'
      BY <3>1, <3>2 DEF Unwritten
    <3> QED BY <2>1, <3>1, <3>3 DEF Accounted
  <2>4. ASSUME NEW e \in CapReturn, capDone' = Append(capDone, e), outQ' = outQ,
               \A k \in inFw : k \in inFw' \/ e.ts = k
        PROVE  Accounted'
    <3> DEFINE a == Append(capDone, e)
               l == Len(capDone) + 1
    <3>1. /\ a[l] = e /\ l \in DOMAIN a
          /\ \A i \in DOMAIN capDone : i \in DOMAIN a /\ a[i] = capDone[i]
      BY <1>1, Appended
    <3> HIDE DEF a, l
    <3>2. capDone' = a
      BY <2>4 DEF a
    <3>3. \A k \in Unwritten : k \in Unwritten' \/ e.ts = k
      BY <2>4 DEF Unwritten
    <3> QED BY <2>1, <3>1, <3>2, <3>3 DEF Accounted
  <2>5. ASSUME NEW k \in Tokens, NEW c \in CapSlots, FwEmit(k, c) PROVE Accounted'
    <3> DEFINE e == [slot |-> c, ts |-> k, last |-> FALSE, error |-> FALSE, payload |-> TRUE]
    <3>1. e \in CapReturn /\ e.ts = k /\ capDone' = Append(capDone, e) /\ outQ' = outQ
          /\ inFw' = inFw \ {k}
      BY <2>5 DEF CapReturn, FwEmit, Emit
    <3> HIDE DEF e
    <3> QED BY <2>4, <3>1
  <2>6. ASSUME NEW c \in CapSlots, FwLast(c) PROVE Accounted'
    <3> DEFINE e == [slot |-> c, ts |-> NoToken, last |-> TRUE, error |-> FALSE, payload |-> FALSE]
    <3>1. e \in CapReturn /\ capDone' = Append(capDone, e) /\ UNCHANGED <<outQ, inFw>>
      BY <2>6 DEF CapReturn, FwLast, Emit
    <3> HIDE DEF e
    <3> QED BY <2>4, <3>1
  <2> QED BY <1>1, <2>1, <2>2, <2>3, <2>5, <2>6 DEF FirmwareStep, FwAnnounce, FwResolutionChange,
             FwReject, FwReturnOutput, FwSpoil
<1> QED BY <1>3, <1>4, <1>5, <1>6, <1>7, <1>8, QueueSteps

-----------------------------------------------------------------------------
(* The flush of a wait() that drains.                                      *)

\* The picture of a sync that drains has not failed, and the call that flushes it
\* is under way, or it is there.
Flushed ==
  \A t \in Targets : waiter[t] = "drained" =>
    /\ call = "wait" /\ arg = t /\ ~target[t].error
    /\ drain_for = "timeout" \/ (pc = "return" /\ ~target[t].pending)

NobodyDrains == \A t \in Targets : waiter[t] # "drained"

\* The call of a sync that drains ends, as any other call.
LEMMA FlushedEnds ==
  ASSUME TypeInv, Flushed, NEW result \in {"ok", "error"}, Return(result)
  PROVE  Flushed'
<1>1. \A t \in Targets : waiter'[t] # "drained"
  BY DEF Flushed, Return, TypeInv, TypeOK
<1> QED BY <1>1 DEF Flushed

\* Where nobody drains, nobody begins to.
LEMMA FlushedNobody ==
  ASSUME NobodyDrains, waiter' = waiter PROVE Flushed'
BY DEF NobodyDrains, Flushed

\* A turn of a loop that fails nothing.
LEMMA FlushedTurns ==
  ASSUME Flushed, UNCHANGED <<call, arg, drain_for, waiter>>, pc # "return",
         \A t \in Targets : waiter[t] = "drained" /\ ~target[t].error => ~target'[t].error
  PROVE  Flushed'
BY DEF Flushed

\* The client's calls.
LEMMA FlushedClient ==
  ASSUME Displaying, Flushed, Client \/ \E t \in Targets : Relock(t)
  PROVE  Flushed'
<1>1. waiter \in [Targets -> Waits]
  BY DEF Displaying, PixelInv, SettledInv, TypeInv, TypeOK
<1>2. ASSUME call = "none" PROVE NobodyDrains
  BY <1>2 DEF Flushed, NobodyDrains
<1>3. ASSUME call = "none", NEW t \in Targets, NEW x, x # "drained",
             waiter' = [waiter EXCEPT ![t] = x] \/ waiter' = waiter
      PROVE  Flushed'
  BY <1>1, <1>2, <1>3 DEF NobodyDrains, Flushed
<1>4. \A t \in Targets : Forget(waiter, t) = waiter \/ Forget(waiter, t) = [waiter EXCEPT ![t] = "idle"]
  BY DEF Forget
<1>5. ASSUME NEW t \in Targets, NEW p \in Policies, Submit(t, p) PROVE Flushed'
  BY <1>3, <1>4, <1>5 DEF Submit
<1>6. ASSUME NEW t \in Targets, WaitSettled(t) \/ Wait(t) \/ Relock(t) PROVE Flushed'
  <2>1. call = "none" /\ \E x \in {"ok", "error", "polling"} :
          waiter' = [waiter EXCEPT ![t] = x] \/ waiter' = waiter
    BY <1>6 DEF WaitSettled, Wait, Relock, Enter
  <2> QED BY <1>3, <2>1
<1>7. ASSUME NEW t \in Targets, Release(t) PROVE Flushed'
  BY <1>3, <1>4, <1>7 DEF Release
<1>8. CASE Service \/ Finish
  <2>1. call = "none" /\ waiter' = waiter
    BY <1>8 DEF Service, Enter, Finish
  <2> QED BY <1>2, <2>1, FlushedNobody
<1> QED BY <1>5, <1>6, <1>7, <1>8 DEF Client

\* A flush goes on.
LEMMA FlushedLoops ==
  ASSUME Displaying, Clean, Flushed,
         HandleEvents \/ LoopEnds \/ LastSeen \/ ReturnOutput \/ ReturnCapture \/ DrainTurn
  PROVE  Flushed'
<1>1. Typed(target, pending) /\ Agree(target, pending)
  BY PixelTypes DEF Displaying
<1>2. CASE HandleEvents \/ LoopEnds \/ LastSeen
  <2>1. UNCHANGED <<call, arg, drain_for, waiter, target>> /\ pc # "return"
    BY <1>2 DEF HandleEvents, LoopEnds, LastSeen, Goto
  <2> QED BY <2>1, FlushedTurns
<1>3. CASE ReturnOutput
  <2> DEFINE d == Head(outDone)
             K == IF d.error THEN {out[d.slot].token} ELSE {}
  <2>1. /\ UNCHANGED <<call, arg, drain_for, waiter>> /\ pc # "return" /\ outDone # <<>>
        /\ target' = FailTokens(target, pending, K)
    BY <1>3 DEF ReturnOutput
  <2>2. ~d.error
    <3>1. outDone \in Seq(OutReturn)
      BY DEF Displaying, PixelInv, SettledInv, TypeInv, TypeOK, DecoderTypeOK
    <3>2. d = outDone[1] /\ DOMAIN outDone = 1..Len(outDone) /\ Len(outDone) \in Nat
          /\ Len(outDone) >= 1
      BY <2>1, <3>1, Beheaded
    <3>3. 1 \in DOMAIN outDone
      BY <3>2
    <3> QED BY <3>2, <3>3 DEF Clean
  <2>3. K = {}
    BY <2>2
  <2> HIDE DEF K
  <2>4. target' = target
    BY <1>1, <2>1, <2>3 DEF FailTokens, Typed
  <2> QED BY <2>1, <2>4, FlushedTurns
<1>4. CASE ReturnCapture
  <2> DEFINE d == Head(capDone)
  <2>1. /\ pc # "return" /\ Goto(pc)
        /\ \/ target' = target
           \/ /\ d.ts \in Tokens /\ pending[d.ts] # None
              /\ target' = [target EXCEPT ![pending[d.ts]] =
                              Published(target[pending[d.ts]], d.slot)]
    BY <1>4, CaptureReturns
  <2> DEFINE u == pending[d.ts]
  <2>2. \A t \in Targets : target'[t] = target[t] \/ target'[t] = Published(target[t], d.slot)
    BY <1>1, <2>1 DEF Typed
  <2> HIDE DEF d
  <2>3. \A r \in Target : ~Published(r, d.slot).error
    BY DEF Published, Target
  <2>4. \A t \in Targets : ~target[t].error => ~target'[t].error
    BY <1>1, <2>2, <2>3 DEF Typed
  <2>5. UNCHANGED <<call, arg, drain_for, waiter>>
    BY <2>1 DEF Goto
  <2> QED BY <2>1, <2>4, <2>5, FlushedTurns
<1>5. CASE DrainTurn
  <2> DEFINE R(n, late) == ImportNext(memory, capGeom, import_backlog,
                                      requeue_capture(memory, cap, target), target,
                                      pending, n, late)
  <2>1. \A n, late : R(n, late).target = target /\ ~R(n, late).throws
    BY NoNext DEF Displaying
  <2>a. pc = "drain" /\ \E n, late : R(n, late).throws
                               \/ (target' = R(n, late).target /\ Goto("devents"))
    BY <1>5, Zenon DEF DrainTurn
  <2> HIDE DEF R
  <2>2. pc = "drain" /\ Goto("devents") /\ target' = target
    BY <2>1, <2>a, Zenon
  <2>3. UNCHANGED <<call, arg, drain_for, waiter>>
    BY <2>2 DEF Goto
  <2> QED BY <2>2, <2>3, FlushedTurns
<1> QED BY <1>2, <1>3, <1>4, <1>5

\* The drain ends: what it flushes has been parsed and written, or its access unit
\* still waits behind a resolution change, and START waits for that.
LEMMA FlushedDrained ==
  ASSUME Displaying, LastIsLast, Accounted, Flushed, Filed(out, outQ, outDone),
         Drained \/ Start \/ StartBusy
  PROVE  Flushed'
<1>1. Typed(target, pending) /\ Agree(target, pending) /\ TypeInv
  BY PixelTypes DEF Displaying, PixelInv, SettledInv
<1>2. CASE Drained
  <2>1. pc = "drained" /\ inFw = {} /\ capDone = <<>>
    BY <1>2 DEF Drained, LastIsLast, Ended
  <2>2. \A k \in Tokens : pending[k] # None => k \notin Unrecoverable
    <3> SUFFICES ASSUME NEW k \in Tokens, pending[k] # None PROVE k \notin Unrecoverable
      OBVIOUS
    <3>1. PICK i \in DOMAIN outQ : outQ[i].token = k
      BY <2>1 DEF Accounted, Unwritten
    <3>2. outQ[i].slot \in OutSlots /\ out[outQ[i].slot].queued /\ out[outQ[i].slot].token = k
      BY <1>1, <3>1, Waiters DEF Filed, TypeInv
    <3> QED BY <3>2 DEF Unrecoverable
  <2>3. target' = target
    <3>1. \A t \in Targets : ~\E k \in Unrecoverable \cap Tokens : pending[k] = t
      BY <2>2, SlotsAssumption
    <3> QED BY <1>1, <1>2, <3>1 DEF Drained, FailTokens, Typed
  <2>4. CASE Goto("start")
    <3>1. UNCHANGED <<call, arg, drain_for, waiter>>
      BY <2>4 DEF Goto
    <3> QED BY <2>1, <2>3, <3>1, FlushedTurns
  <2>5. CASE Goto("rebuild")
    <3>1. UNCHANGED <<call, arg, drain_for, waiter>>
      BY <2>5 DEF Goto
    <3> QED BY <2>1, <2>3, <3>1, FlushedTurns
  <2>6. CASE Return("ok")
    BY <1>1, <2>6, FlushedEnds
  <2> QED BY <1>2, <2>4, <2>5, <2>6 DEF Drained
<1>3. CASE Start
  <2>1. /\ outQ = <<>> /\ inFw = {} /\ capDone = <<>> /\ pc' = "return"
        /\ UNCHANGED <<target, call, arg, waiter>>
    BY <1>3 DEF Start, OutputBusy, LastIsLast, Ended
  <2>2. \A k \in Tokens : pending[k] = None
    BY <2>1 DEF Accounted, Unwritten
  <2>3. \A t \in Targets : ~target[t].pending
    BY <1>1, <2>2, SlotsAssumption DEF Agree
  <2> QED BY <2>1, <2>3 DEF Flushed
<1>4. CASE StartBusy
  <2>1. CASE Goto("soutputs") /\ target' = target /\ pc = "start"
    <3>1. UNCHANGED <<call, arg, drain_for, waiter>>
      BY <2>1 DEF Goto
    <3> QED BY <2>1, <3>1, FlushedTurns
  <2>2. CASE Return("error")
    BY <1>1, <2>2, FlushedEnds
  <2> QED BY <1>4, <2>1, <2>2 DEF StartBusy
<1> QED BY <1>2, <1>3, <1>4

\* Nobody drains while a pool is built or a submit() is served.
LEMMA FlushedElse ==
  ASSUME Displaying, Flushed,
         \/ Configure \/ PumpTail \/ Rebuild \/ CallDone \/ SubmitLoops \/ SubmitGivesUp
         \/ Accept \/ DequeueError \/ DrainExpires
  PROVE  Flushed'
<1>1. TypeInv /\ ~Fault
  BY NoFault DEF Displaying, PixelInv, SettledInv
<1>2. ASSUME NEW result \in {"ok", "error"}, Return(result) PROVE Flushed'
  BY <1>1, <1>2, FlushedEnds
<1>3. CASE Configure \/ PumpTail \/ Rebuild
  <2>1. pc \in {"configure", "tail", "rebuild"} /\ drain_for # "timeout"
    BY <1>3 DEF Configure, PumpTail, Rebuild, Displaying, Courses, PixelInv, SettledInv, Places,
                PassPcs
  <2>2. NobodyDrains
    BY <2>1 DEF Flushed, NobodyDrains
  <2>3. Reconfigure => waiter' = waiter \/ Return("error")
    BY DEF Reconfigure
  <2>4. waiter' = waiter \/ Return("error")
    BY <1>3, <2>3 DEF Configure, PumpTail, Rebuild, Goto, Throw
  <2> QED BY <1>2, <2>2, <2>4, FlushedNobody
<1>4. CASE CallDone \/ SubmitGivesUp
  BY <1>2, <1>4 DEF CallDone, SubmitGivesUp
<1>5. CASE SubmitLoops \/ Accept
  <2>1. call # "wait"
    BY <1>5 DEF SubmitLoops, Accept
  <2>2. NobodyDrains
    BY <2>1 DEF Flushed, NobodyDrains
  <2>3. waiter' = waiter \/ Return("error")
    BY <1>5, Zenon DEF SubmitLoops, PumpAgain, Accept
  <2> QED BY <1>2, <2>2, <2>3, FlushedNobody
<1>6. ~DequeueError /\ ~DrainExpires
  BY <1>1 DEF DequeueError, DrainExpires
<1> QED BY <1>3, <1>4, <1>5, <1>6

\* wait() returns, polls again or begins to drain.
LEMMA FlushedWaits ==
  ASSUME Displaying, Flushed, WaitReturns \/ WaitPolls \/ WaitExpires
  PROVE  Flushed'
<1>1. TypeInv /\ ~Fault /\ waiter \in [Targets -> Waits]
  BY NoFault DEF Displaying, PixelInv, SettledInv, TypeInv, TypeOK
<1>2. CASE WaitReturns
  BY <1>1, <1>2, FlushedEnds DEF WaitReturns
<1>3. CASE WaitPolls \/ WaitExpires
  <2>1. pc = "return" /\ call = "wait" /\ target[arg].pending /\ arg \in Targets
    BY <1>1, <1>3 DEF WaitPolls, WaitExpires, TypeInv, CallShape
  <2>2. drain_for = "none"
    BY <2>1 DEF Displaying, PixelInv, SettledInv, Places, PassPcs
  <2>3. NobodyDrains
    BY <2>1, <2>2 DEF Flushed, NobodyDrains
  <2>4. CASE WaitPolls
    BY <2>3, <2>4, FlushedNobody DEF WaitPolls
  <2>5. CASE Return("error")
    BY <1>1, <2>5, FlushedEnds
  <2>6. CASE BeginDrain("timeout") /\ waiter' = [waiter EXCEPT ![arg] = "drained"]
             /\ UNCHANGED <<call, arg>>
    <3>1. ~target[arg].error
      BY <2>1 DEF Displaying, PixelInv, Sound, Fated
    <3>2. target' = target /\ drain_for' = "timeout"
      BY <2>6 DEF BeginDrain
    <3>3. \A t \in Targets : waiter'[t] = "drained" => t = arg
      BY <1>1, <2>3, <2>6 DEF NobodyDrains
    <3> QED BY <2>1, <2>6, <3>1, <3>2, <3>3 DEF Flushed
  <2> QED BY <1>1, <1>3, <2>4, <2>5, <2>6 DEF WaitExpires
<1> QED BY <1>2, <1>3

\* Every step keeps the promise of the flush.
LEMMA FlushedStep ==
  ASSUME Displaying, Clean, LastIsLast, Accounted, Flushed, Filed(out, outQ, outDone),
         [Next]_vars
  PROVE  Flushed'
<1>1. CASE Firmware \/ UNCHANGED vars
  <2>1. UNCHANGED <<waiter, call, arg, target, drain_for, pc>>
    BY <1>1 DEF Firmware, vars, driverVars
  <2> QED BY <2>1 DEF Flushed
<1> QED BY <1>1, FlushedClient, FlushedLoops, FlushedDrained, FlushedElse, FlushedWaits
        DEF Next, Working, Looping, Expiring

\* In decode order no sync ever drains.
LEMMA NobodyStep ==
  ASSUME TypeInv, mode # "DisplayOrder", NobodyDrains, [Next]_vars
  PROVE  NobodyDrains'
<1>1. waiter \in [Targets -> Waits]
  BY DEF TypeInv, TypeOK
<1>2. ASSUME NEW t, NEW x, x # "drained",
             waiter' = [waiter EXCEPT ![t] = x] \/ waiter' = waiter
      PROVE  NobodyDrains'
  BY <1>1, <1>2 DEF NobodyDrains
<1>3. ASSUME waiter' = waiter PROVE NobodyDrains'
  BY <1>3 DEF NobodyDrains
<1>4. ASSUME NEW result \in {"ok", "error"}, Return(result) PROVE NobodyDrains'
  BY <1>2, <1>4 DEF Return
<1>5. ASSUME NEW t \in Targets, waiter' = Forget(waiter, t) PROVE NobodyDrains'
  BY <1>2, <1>5 DEF Forget
<1>6. CASE Client \/ \E t \in Targets : Relock(t)
  <2>1. ASSUME NEW t \in Targets, NEW p \in Policies, Submit(t, p) PROVE NobodyDrains'
    BY <1>5, <2>1 DEF Submit
  <2>2. ASSUME NEW t \in Targets, WaitSettled(t) \/ Wait(t) \/ Relock(t) PROVE NobodyDrains'
    <3>1. \E x \in {"ok", "error", "polling"} :
            waiter' = [waiter EXCEPT ![t] = x] \/ waiter' = waiter
      BY <2>2 DEF WaitSettled, Wait, Relock
    <3> QED BY <1>2, <3>1
  <2>3. ASSUME NEW t \in Targets, Release(t) PROVE NobodyDrains'
    BY <1>5, <2>3, Zenon DEF Release
  <2> QED BY <1>3, <1>6, <2>1, <2>2, <2>3 DEF Client, Service, Finish
<1>7. CASE Working
  <2>1. ASSUME NEW st, NEW tg, NEW pd, NEW b, Throw(st, tg, pd, b) PROVE NobodyDrains'
    BY <1>4, <2>1 DEF Throw
  <2>2. Reconfigure => waiter' = waiter \/ Return("error")
    BY DEF Reconfigure
  <2>3. ASSUME NEW p, Goto(p) PROVE NobodyDrains'
    BY <1>3, <2>3 DEF Goto
  <2>4. ASSUME NEW d, NEW k, NEW r, Complete(d, k, r) PROVE NobodyDrains'
    BY <2>1, <2>3, <2>4, Zenon DEF Complete
  <2>5. CASE ReturnCapture \/ DrainTurn
    BY <2>1, <2>3, <2>4, <2>5, Zenon DEF ReturnCapture, DrainTurn
  <2>6. CASE Configure \/ PumpTail \/ Rebuild
    BY <1>3, <1>4, <2>1, <2>2, <2>3, <2>6, Zenon DEF Configure, PumpTail, Rebuild
  <2>7. CASE Accept
    <3>1. waiter' = waiter \/ Return("error")
      BY <2>7, Zenon DEF Accept
    <3> QED BY <1>3, <1>4, <3>1
  <2>8. CASE WaitReturns
    BY <1>4, <2>8 DEF WaitReturns
  <2> QED BY <1>3, <1>4, <1>7, <2>3, <2>5, <2>6, <2>7, <2>8 DEF Working, HandleEvents, ReturnOutput,
               LoopEnds, LastSeen, Drained, Start, CallDone
<1>8. CASE Looping \/ Expiring \/ DequeueError
  BY <1>3, <1>4, <1>8 DEF Looping, Expiring, SubmitLoops, PumpAgain, WaitPolls, StartBusy, Goto,
             SubmitGivesUp, WaitExpires, DrainExpires, DequeueError, Throw
<1>9. CASE Firmware \/ UNCHANGED vars
  BY <1>3, <1>9 DEF Firmware, vars, driverVars
<1> QED BY <1>6, <1>7, <1>8, <1>9 DEF Next

\* What holds in display order as long as nothing has failed.
Displays ==
  mode = "DisplayOrder" /\ faults = 0 =>
    Clean /\ LastIsLast /\ Stopped /\ Accounted /\ Flushed

\* The memory of a session in display order never takes client buffers.
Mapped == mode = "DisplayOrder" => memory # "Import"

Undrained == mode # "DisplayOrder" => NobodyDrains

FlushInv == PixelInv /\ Courses /\ Filed(out, outQ, outDone) /\ Mapped /\ Undrained
            /\ Displays

\* It holds before the first call.
LEMMA FlushInit == Init => Filed(out, outQ, outDone) /\ Mapped /\ Undrained /\ Displays
<1> SUFFICES ASSUME Init PROVE Filed(out, outQ, outDone) /\ Mapped /\ Undrained /\ Displays
  OBVIOUS
<1>1. /\ outQ = <<>> /\ outDone = <<>> /\ capDone = <<>> /\ memory = "Unallocated" /\ pc = "idle"
      /\ phase = "cold"
      /\ \A k \in Tokens : pending[k] = None
      /\ \A t \in Targets : waiter[t] = "idle"
  BY DEF Init, DecoderInit
<1>2. Filed(out, outQ, outDone) /\ Mapped /\ Undrained
  BY <1>1 DEF Filed, Mapped, Undrained, NobodyDrains
<1>3. Clean /\ LastIsLast /\ Stopped /\ Accounted /\ Flushed
  BY <1>1 DEF Clean, LastIsLast, Ended, DrainPcs, Stopped, Accounted, Flushed
<1> QED BY <1>2, <1>3 DEF Displays

\* The invariant is inductive, next to those of the pictures and the calls.
LEMMA FlushStep == FlushInv /\ [Next]_vars => FlushInv'
<1> SUFFICES ASSUME FlushInv, [Next]_vars PROVE FlushInv'
  OBVIOUS
<1>1. PixelInv' /\ Courses'
  BY PixelStep, CoursesStep DEF FlushInv
<1>2. Filed(out, outQ, outDone)'
  BY FiledStep DEF FlushInv, PixelInv, SettledInv
<1>3. Mapped'
  <2>1. mode' = mode
    BY ModeStays
  <2> QED BY <2>1, PoolMemories DEF FlushInv, Mapped, NoImport
<1>a. Undrained'
  BY ModeStays, NobodyStep DEF FlushInv, PixelInv, SettledInv, Undrained
<1>4. Displays'
  <2> SUFFICES ASSUME mode' = "DisplayOrder", faults' = 0
               PROVE  (Clean /\ LastIsLast /\ Stopped /\ Accounted /\ Flushed)'
    BY DEF Displays
  <2>1. mode = "DisplayOrder" /\ Well
    BY ModeStays, WellStep DEF FlushInv, PixelInv, SettledInv, TypeInv
  <2>2. Displaying /\ Clean /\ LastIsLast /\ Stopped /\ Accounted /\ Flushed
    BY <2>1 DEF FlushInv, Mapped, Displays, Displaying, Well
  <2>3. Filed(out, outQ, outDone)
    BY DEF FlushInv
  <2> QED BY <2>2, <2>3, CleanStep, StopsStep, AccountedStep, FlushedStep DEF Displaying
<1> QED BY <1>1, <1>2, <1>3, <1>4, <1>a DEF FlushInv

\* As long as the decoder is healthy, the drain of a sync flushes its picture out
\* of the reorder window: when drain and restart are over it is there, also behind
\* a resolution change (session.cc:627).
THEOREM DrainsFlush == Spec => [](faults = 0 => DrainFlushes)
<1>1. Init => FlushInv
  BY PixelInit, PromiseStarts, FlushInit DEF FlushInv
<1>2. FlushInv /\ faults = 0 => DrainFlushes
  <2> SUFFICES ASSUME FlushInv, faults = 0, NEW t \in Targets, waiter[t] = "drained", pc = "return"
               PROVE  ~target[t].pending /\ ~target[t].error
    BY DEF DrainFlushes
  <2>1. mode = "DisplayOrder"
    BY DEF FlushInv, Undrained, NobodyDrains
  <2>2. drain_for = "none"
    BY DEF FlushInv, PixelInv, SettledInv, Places, PassPcs
  <2> QED BY <2>1, <2>2 DEF FlushInv, Displays, Flushed
<1> QED BY <1>1, <1>2, FlushStep, PTL DEF Spec

-----------------------------------------------------------------------------
(* The order of the client buffers.                                        *)

\* b2 is b without its first n entries.
Without(b, n, b2) ==
  /\ DOMAIN b2 = 1..(Len(b) - n)
  /\ \A i \in DOMAIN b2 : i + n \in DOMAIN b /\ b2[i] = b[i + n]

\* What one call of queue_import_next does.
NoBuffer(m, b, cp, r) ==
  /\ m # "Import" \/ b = <<>> \/ \E c \in CapSlots : cp[c].queued
  /\ r.backlog = b /\ r.cap = cp /\ ~r.throws
Skips(g, b, cp, pd, n, late, r) ==
  /\ Without(b, n, r.backlog) /\ r.cap = cp
  /\ IF r.throws THEN n < Len(b) /\ (late \/ TooSmall(b[n + 1], g))
     ELSE n = Len(b) \/ AwaitsRebuild(b[n + 1], g, pd)
Queues1(g, b, cp, pd, n, late, r) ==
  /\ n < Len(b) /\ n + 1 \in DOMAIN b /\ b[n + 1].buf \in Targets
  /\ Without(b, n + 1, r.backlog) /\ ~r.throws
  /\ ~AwaitsRebuild(b[n + 1], g, pd)
  /\ r.cap = queue_capture_import(cp, b[n + 1].buf, b[n + 1].token)
NextCases(m, g, b, cp, pd, n, late, r) ==
  \/ NoBuffer(m, b, cp, r)
  \/ /\ m = "Import" /\ b # <<>> /\ n \in 0..Len(b) /\ \A j \in 1..n : b[j].buf = None
     /\ \A c \in CapSlots : ~cp[c].queued
     /\ Skips(g, b, cp, pd, n, late, r) \/ Queues1(g, b, cp, pd, n, late, r)

\* Nothing else can happen: the entries that are dropped have no buffer.
LEMMA NextShape ==
  ASSUME NEW mem \in CaptureMemory, NEW m \in {mem, "Unallocated"}, NEW g,
         NEW b \in Seq(ImportEntry), NEW cp \in [CapSlots -> Frame],
         NEW tg, NEW pd, Typed(tg, pd), NEW nt \in Nat \ {0},
         Sound(mem, b, cp, tg, pd, nt),
         NEW n \in Dropped(b, tg, pd), NEW late \in BOOLEAN
  PROVE  NextCases(m, g, b, cp, pd, n, late, ImportNext(m, g, b, cp, tg, pd, n, late))
<1> DEFINE r == ImportNext(m, g, b, cp, tg, pd, n, late)
<1> DEFINE head   == b[n + 1]
           stays  == n = Len(b) \/ AwaitsRebuild(head, g, pd)
           throws == ~stays /\ (late \/ TooSmall(head, g))
           none   == capture_queued(cp) = {}
<1>1. /\ IsFiniteSet(capture_queued(cp))
      /\ Cardinality(capture_queued(cp)) >= kImportWindow <=> capture_queued(cp) # {}
  <2>1. IsFiniteSet(CapSlots) /\ capture_queued(cp) \in SUBSET CapSlots
    BY SlotsAssumption DEF capture_queued
  <2>2. IsFiniteSet(capture_queued(cp))
    BY <2>1, FS_Subset
  <2>3. Cardinality(capture_queued(cp)) \in Nat
    BY <2>2, FS_CardinalityType
  <2>4. Cardinality(capture_queued(cp)) = 0 <=> capture_queued(cp) = {}
    BY <2>2, FS_EmptySet
  <2> QED BY <2>2, <2>3, <2>4 DEF kImportWindow
<1>2. CASE m # "Import" \/ b = <<>> \/ capture_queued(cp) # {}
  <2>1. r = [backlog |-> b, cap |-> cp, target |-> tg, pending |-> pd, throws |-> FALSE]
    BY <1>1, <1>2 DEF ImportNext
  <2> HIDE DEF r
  <2>2. r.backlog = b /\ r.cap = cp /\ r.throws = FALSE
    BY <2>1
  <2> QED BY <1>2, <2>2 DEF r, NextCases, NoBuffer, capture_queued
<1>3. CASE ~(m # "Import" \/ b = <<>> \/ capture_queued(cp) # {})
  <2>1. /\ r.backlog = SubSeq(b, IF stays \/ throws THEN n + 1 ELSE n + 2, Len(b))
        /\ r.cap = IF stays \/ throws THEN cp
                   ELSE queue_capture_import(cp, head.buf, head.token)
        /\ r.throws = throws
    BY <1>1, <1>3 DEF ImportNext
  <2>2. Len(b) \in Nat /\ DOMAIN b = 1..Len(b) /\ n \in 0..Len(b)
        /\ \A j \in 1..n : j \in DOMAIN b
    BY Entries DEF Dropped
  <2>3. \A j \in 1..n : b[j].buf = None
    <3> SUFFICES ASSUME NEW i \in 1..n, b[i].buf # None PROVE FALSE
      OBVIOUS
    <3>1. Unusable(b[i], tg, pd)
      BY DEF Dropped
    <3>2. pd[b[i].token] # None
            /\ (tg[pd[b[i].token]].publish = "Direct" \/ ~tg[pd[b[i].token]].destination)
      BY <3>1 DEF Unusable, Disowned
    <3> QED BY <2>2, <3>2 DEF Sound, Owners, Owned1
  <2> HIDE DEF r
  <2>4. m = "Import" /\ b # <<>> /\ \A c \in CapSlots : ~cp[c].queued
    BY <1>3 DEF capture_queued
  <2>5. CASE stays \/ throws
    <3>1. n + 1 \in 1..(Len(b) + 1)
      BY <2>2
    <3> DEFINE b2 == SubSeq(b, n + 1, Len(b))
    <3>2. r.backlog = b2 /\ r.cap = cp
      BY <2>1, <2>5
    <3>3. /\ DOMAIN b2 = 1..(Len(b) - (n + 1) + 1)
          /\ \A i \in DOMAIN b2 : b2[i] = b[i + (n + 1) - 1]
      BY <3>1, SuffixSound
    <3> HIDE DEF b2
    <3>4. Without(b, n, b2)
      <4>1. Len(b) - (n + 1) + 1 = Len(b) - n
        BY <2>2
      <4>2. \A i \in 1..(Len(b) - n) : i + (n + 1) - 1 = i + n /\ i + n \in 1..Len(b)
        BY <2>2
      <4> QED BY <2>2, <3>3, <4>1, <4>2 DEF Without
    <3>5. throws => n < Len(b)
      <4>1. throws => n # Len(b)
        OBVIOUS
      <4> DEFINE l == Len(b)
      <4>2. l \in Nat /\ n \in 0..l
        BY <2>2
      <4> HIDE DEF l, throws
      <4>3. n # l => n < l
        BY <4>2
      <4> QED BY <4>1, <4>3 DEF l
    <3>6. Skips(g, b, cp, pd, n, late, r)
      BY <2>1, <2>5, <3>2, <3>4, <3>5 DEF Skips
    <3> QED BY <2>2, <2>3, <2>4, <3>6 DEF NextCases, r
  <2>6. CASE ~(stays \/ throws)
    <3>0. n # Len(b)
      BY <2>6
    <3>a. n + 1 \in 1..Len(b) /\ n + 2 \in 1..(Len(b) + 1) /\ n < Len(b)
      <4> DEFINE l == Len(b)
      <4>1. l \in Nat /\ n \in 0..l /\ n # l
        BY <2>2, <3>0
      <4> HIDE DEF l
      <4>2. n + 1 \in 1..l /\ n + 2 \in 1..(l + 1) /\ n < l
        BY <4>1
      <4> QED BY <4>2 DEF l
    <3> DEFINE b2 == SubSeq(b, n + 2, Len(b))
    <3>2. r.backlog = b2 /\ r.cap = queue_capture_import(cp, head.buf, head.token)
          /\ ~r.throws /\ ~AwaitsRebuild(head, g, pd)
      BY <2>1, <2>6
    <3>3. /\ DOMAIN b2 = 1..(Len(b) - (n + 2) + 1)
          /\ \A i \in DOMAIN b2 : b2[i] = b[i + (n + 2) - 1]
      BY <3>a, SuffixSound
    <3> HIDE DEF b2
    <3>4. Without(b, n + 1, b2)
      <4>1. Len(b) - (n + 2) + 1 = Len(b) - (n + 1)
        BY <2>2
      <4>2. \A i \in 1..(Len(b) - (n + 1)) :
              i + (n + 2) - 1 = i + (n + 1) /\ i + (n + 1) \in 1..Len(b)
        BY <2>2
      <4> QED BY <2>2, <3>3, <4>1, <4>2 DEF Without
    <3>5. head.buf \in Targets
      <4>1. ~Unusable(head, tg, pd)
        BY <2>2, <3>a DEF Dropped
      <4>2. head.buf # None
        BY <4>1 DEF Unusable
      <4> QED BY <2>2, <3>a, <4>2, Entries
    <3>6. Queues1(g, b, cp, pd, n, late, r)
      BY <2>2, <3>a, <3>2, <3>4, <3>5 DEF Queues1
    <3> QED BY <2>2, <2>3, <2>4, <3>6 DEF NextCases, r
  <2> QED BY <2>5, <2>6
<1> QED BY <1>2, <1>3

\* The backlog and the buffer that is queued before it are in the order of their
\* pictures.
Asc(b, cp) ==
  /\ \A i, j \in DOMAIN b : i < j => b[i].token < b[j].token
  /\ \A c \in CapSlots, i \in DOMAIN b : cp[c].import_token < b[i].token

\* What is left has its places in what was there.
LEMMA Rests ==
  ASSUME NEW b \in Seq(ImportEntry), NEW n \in 0..Len(b), NEW b2, Without(b, n, b2)
  PROVE  \A i \in DOMAIN b2 :
           /\ i \in Nat /\ n < i + n /\ i + n \in DOMAIN b /\ b2[i] = b[i + n]
           /\ \A j \in DOMAIN b2 : i < j => i + n < j + n
<1> DEFINE l == Len(b)
<1>1. l \in Nat /\ n \in 0..l /\ DOMAIN b2 = 1..(l - n)
  BY LenProperties DEF Without
<1> HIDE DEF l
<1>2. \A i \in DOMAIN b2 : /\ i \in Nat /\ n < i + n
                           /\ \A j \in DOMAIN b2 : i < j => i + n < j + n
  BY <1>1
<1> QED BY <1>2 DEF Without

\* queue_import_next keeps the order.
LEMMA NextAsc ==
  ASSUME NEW m, NEW g, NEW b \in Seq(ImportEntry), NEW cp \in [CapSlots -> Frame], NEW pd,
         NEW n, NEW late, NEW r, NextCases(m, g, b, cp, pd, n, late, r), Asc(b, cp)
  PROVE  Asc(r.backlog, r.cap) /\ (b = <<>> => r.backlog = <<>>)
         /\ (m # "Import" => r.backlog = b)
<1> DEFINE b2 == r.backlog
<1>1. CASE NoBuffer(m, b, cp, r)
  BY <1>1 DEF NoBuffer
<1>2. CASE /\ m = "Import" /\ b # <<>> /\ n \in 0..Len(b)
           /\ Skips(g, b, cp, pd, n, late, r)
  <2>1. r.cap = cp /\ \A i \in DOMAIN b2 : /\ i + n \in DOMAIN b /\ b2[i] = b[i + n]
                      /\ \A j \in DOMAIN b2 : i < j => i + n < j + n
    BY <1>2, Rests DEF Skips
  <2> HIDE DEF b2
  <2>2. Asc(b2, cp)
    BY <2>1 DEF Asc
  <2> QED BY <1>2, <2>1, <2>2 DEF b2
<1>3. CASE /\ m = "Import" /\ b # <<>> /\ n \in 0..Len(b)
           /\ Queues1(g, b, cp, pd, n, late, r)
  <2> DEFINE k == n + 1
             v == [queued |-> TRUE, import_token |-> b[k].token, buf |-> b[k].buf]
  <2>1. k \in 0..Len(b) /\ k \in DOMAIN b
    <3>1. DOMAIN b = 1..Len(b)
      BY LenProperties
    <3> QED BY <1>3, <3>1 DEF Queues1
  <2>2. \A c \in CapSlots : r.cap[c] = cp[c] \/ r.cap[c] = v
    BY <1>3 DEF Queues1, queue_capture_import
  <2>3. v.import_token = b[k].token
    OBVIOUS
  <2>4. Without(b, k, b2)
    BY <1>3 DEF Queues1
  <2> HIDE DEF k, v, b2
  <2>5. \A i \in DOMAIN b2 : /\ i + k \in DOMAIN b /\ b2[i] = b[i + k] /\ k < i + k
                      /\ \A j \in DOMAIN b2 : i < j => i + k < j + k
    BY <2>1, <2>4, Rests
  <2>6. Asc(b2, r.cap)
    BY <2>1, <2>2, <2>3, <2>5 DEF Asc
  <2> QED BY <1>3, <2>6 DEF b2
<1> QED BY <1>1, <1>2, <1>3 DEF NextCases

\* An entry leaves the queue, or a slot is queued that carries nothing.
Fades(cp, cp2) ==
  \A c \in CapSlots : cp2[c].import_token = cp[c].import_token \/ cp2[c].import_token = NoToken

\* What the buffers lose does not disturb their order.
LEMMA FadesAsc ==
  ASSUME NEW b \in Seq(ImportEntry), NEW cp, NEW cp2, Asc(b, cp), Fades(cp, cp2)
  PROVE  Asc(b, cp2)
<1>1. \A i \in DOMAIN b : b[i].token \in Tokens
  BY Entries
<1>2. \A k \in Tokens : NoToken < k
  BY DEF Tokens, NoToken
<1> QED BY <1>1, <1>2 DEF Asc, Fades

\* An empty backlog is in order.
LEMMA EmptyAsc == \A cp : Asc(<<>>, cp)
BY DEF Asc

\* requeue_capture queues what carries nothing.
LEMMA RequeueFades ==
  ASSUME NEW mem, NEW cp \in [CapSlots -> Frame], NEW tg
  PROVE  Fades(cp, requeue_capture(mem, cp, tg))
<1>1. \A f \in Frame : [f EXCEPT !.queued = TRUE].import_token = f.import_token
  BY DEF Frame
<1>2. \A c \in CapSlots : \/ requeue_capture(mem, cp, tg)[c] = cp[c]
                         \/ requeue_capture(mem, cp, tg)[c] = [cp[c] EXCEPT !.queued = TRUE]
  BY DEF requeue_capture
<1> QED BY <1>1, <1>2 DEF Fades

\* The buffers of this pool wait in their order, and none without a pool.
AscInv == Asc(import_backlog, cap) /\ (memory = "Unallocated" => import_backlog = <<>>)

\* The pool lives on: no resolution change gets as far as its end.
Lives == state # "Reconfiguring" /\ state' # "Reconfiguring"

\* What every step does that queues nothing.
Lingers ==
  /\ memory' = memory /\ Fades(cap, cap')
  /\ import_backlog' = import_backlog \/ import_backlog' = <<>>

\* Then they stay in order.
LEMMA LingersAsc ==
  ASSUME PixelInv, AscInv, Lingers PROVE AscInv'
BY PixelTypes, FadesAsc, EmptyAsc DEF Lingers, AscInv

\* Only these steps queue something.
LEMMA OrderSteps ==
  ASSUME PixelInv, Courses, Lives, [Next]_vars
  PROVE  Lingers \/ Accept \/ ReturnCapture \/ DrainTurn \/ Configure
<1>1. cap \in [CapSlots -> Frame]
  BY PixelTypes
<1>2. Fades(cap, cap)
  BY DEF Fades
<1>3. \A tg : Fades(cap, requeue_capture(memory, cap, tg))
  BY <1>1, RequeueFades
<1>4. UNCHANGED <<memory, import_backlog>> /\ (cap' = cap \/ \E tg : cap' = requeue_capture(memory, cap, tg))
        => Lingers
  BY <1>2, <1>3 DEF Lingers
<1>5. CASE Client \/ \E t \in Targets : Relock(t)
  <2>1. ASSUME NEW tg, PumpStart(tg), UNCHANGED <<memory, import_backlog>> PROVE Lingers
    BY <1>4, <2>1 DEF PumpStart
  <2>2. ASSUME NEW t \in Targets, NEW p \in Policies, Submit(t, p) PROVE Lingers
    BY <2>1, <2>2 DEF Submit
  <2>3. ASSUME NEW c, NEW t, Enter(c, t) PROVE Lingers
    BY <2>1, <2>3 DEF Enter
  <2>4. ASSUME NEW t \in Targets, WaitSettled(t) PROVE Lingers
    BY <1>4, <2>4 DEF WaitSettled
  <2>5. ASSUME NEW t \in Targets, Release(t) PROVE Lingers
    BY <1>4, <2>5, Zenon DEF Release, Lives
  <2>6. ASSUME Finish PROVE Lingers
    BY <1>4, <2>6 DEF Finish, drainRest, BeginDrain, StopBusy
  <2> QED BY <1>5, <2>2, <2>3, <2>4, <2>5, <2>6 DEF Client, Relock, Service, Wait
<1>6. ASSUME NEW st, NEW tg, NEW pd, UNCHANGED <<memory, cap>>,
             Unwind(st, tg, pd, import_backlog) \/ Fail(tg, pd)
      PROVE  Lingers
  BY <1>2, <1>6 DEF Unwind, Fail, Lingers
<1>7. CASE PumpTail \/ Rebuild
  <2>1. PumpTail
    BY <1>7 DEF Rebuild, Courses, Lives
  <2>2. CASE BeginDrain("drc") /\ UNCHANGED drainRest
    BY <1>4, <2>2 DEF BeginDrain, drainRest
  <2>3. CASE StopBusy("drc") /\ UNCHANGED drainRest
    BY <1>6, <2>3 DEF StopBusy, drainRest
  <2>4. CASE cap' = requeue_capture(memory, cap, target) /\ UNCHANGED <<memory, import_backlog>>
    BY <1>4, <2>4
  <2> QED BY <2>1, <2>2, <2>3, <2>4 DEF PumpTail, Lives
<1>8. CASE Drained
  <2>1. UNCHANGED <<memory, import_backlog>>
        /\ (cap' = cap \/ cap' = requeue_capture(memory, cap, target))
    BY <1>8 DEF Drained, Lives
  <2> QED BY <1>4, <2>1
<1>9. CASE SubmitLoops
  <2>1. UNCHANGED <<memory, import_backlog>> /\ PumpStart(target)
    BY <1>9 DEF SubmitLoops, callRest, PumpAgain
  <2> QED BY <1>4, <2>1 DEF PumpStart
<1>10. CASE StartBusy \/ DrainExpires \/ DequeueError \/ WaitExpires
  BY <1>4, <1>6, <1>10 DEF StartBusy, DrainExpires, DequeueError, WaitExpires, Throw, drainRest,
       BeginDrain, StopBusy
<1>11. CASE HandleEvents \/ ReturnOutput \/ LoopEnds \/ LastSeen \/ Start \/ CallDone
            \/ WaitReturns \/ WaitPolls \/ SubmitGivesUp \/ Firmware \/ UNCHANGED vars
  <2>1. UNCHANGED <<memory, import_backlog, cap>>
    BY <1>11 DEF HandleEvents, ReturnOutput, LoopEnds, LastSeen, Start, CallDone,
         WaitReturns, WaitPolls, SubmitGivesUp, Firmware, vars, driverVars, callRest
  <2> QED BY <1>4, <2>1
<1> QED BY <1>5, <1>7, <1>8, <1>9, <1>10, <1>11 DEF Next, Working, Looping, Expiring

-----------------------------------------------------------------------------
(* The calls of queue_import_next.                                         *)

\* r is what queue_import_next returns.
NextOf(m, g, b, cp, tg, pd, n, late, r) ==
  /\ r.target = tg /\ r.pending = pd
  /\ r.backlog \in Seq(ImportEntry) /\ r.cap \in [CapSlots -> Frame]
  /\ NextCases(m, g, b, cp, pd, n, late, r)

\* Every choice the code has is one of those.
LEMMA NextIs ==
  ASSUME NEW mem \in CaptureMemory, NEW m \in {mem, "Unallocated"}, NEW g,
         NEW b \in Seq(ImportEntry), NEW cp \in [CapSlots -> Frame],
         NEW tg, NEW pd, Typed(tg, pd), NEW nt \in Nat \ {0},
         Sound(mem, b, cp, tg, pd, nt),
         NEW n \in Dropped(b, tg, pd), NEW late \in BOOLEAN,
         NEW r, r = ImportNext(m, g, b, cp, tg, pd, n, late)
  PROVE  NextOf(m, g, b, cp, tg, pd, n, late, r)
<1>1. Nexted(mem, m, b, cp, tg, pd, nt, r)
  BY NextSound
<1>2. NextCases(m, g, b, cp, pd, n, late, r)
  BY NextShape
<1> QED BY <1>1, <1>2 DEF Nexted, NextOf

\* submit() queues the buffer when it is first in the backlog.
AcceptNext(n, late, r) ==
  /\ NextOf(memory, capGeom, NewBacklog, cap, NewTarget, NewPending, n, late, r)
  /\ cap' = r.cap /\ import_backlog' = r.backlog /\ (late => r.throws) /\ FenceCost(late)
  /\ target' = NewTarget /\ pending' = NewPending
  /\ \/ Return("error") /\ (r.throws \/ state # "Configured")
     \/ ~r.throws /\ state = "Configured" /\ call' = "bringup" /\ UNCHANGED <<arg, pc, drain_for, waiter>>

\* Nothing else can happen to it.
LEMMA AcceptNexts ==
  ASSUME PixelInv, Accept
  PROVE  \E n, late, r : AcceptNext(n, late, r)
<1> DEFINE R(n, late) == ImportNext(memory, capGeom, NewBacklog, cap, NewTarget, NewPending,
                                    n, late)
           b == NewBacklog
           tg == NewTarget
           pd == NewPending
<1>1. PICK n \in Dropped(b, tg, pd), late \in BOOLEAN :
        /\ cap' = R(n, late).cap /\ import_backlog' = R(n, late).backlog
        /\ target' = R(n, late).target /\ pending' = R(n, late).pending
        /\ late => R(n, late).throws
        /\ FenceCost(late)
        /\ \/ (R(n, late).throws \/ state # "Configured") /\ Return("error")
           \/ /\ ~R(n, late).throws /\ state = "Configured"
              /\ call' = "bringup" /\ UNCHANGED <<arg, pc, drain_for, waiter>>
  BY Zenon DEF Accept, NewToken, NewTarget, NewPending, NewBacklog, NewBuffer
<1>2. /\ next_token + 1 \in Nat \ {0} /\ Typed(tg, pd) /\ b \in Seq(ImportEntry)
      /\ Sound(memory, b, cap, tg, pd, next_token + 1)
  BY AcceptSound
<1> DEFINE r == R(n, late)
<1>3. r = ImportNext(memory, capGeom, b, cap, tg, pd, n, late)
  OBVIOUS
<1> HIDE DEF b, tg, pd, R
<1>4. NextOf(memory, capGeom, b, cap, tg, pd, n, late, r)
  BY <1>2, <1>3, PixelTypes, NextIs
<1>5. r.target = tg /\ r.pending = pd
  BY <1>4 DEF NextOf
<1>6. target' = NewTarget /\ pending' = NewPending
  BY <1>1, <1>5 DEF tg, pd
<1>7. AcceptNext(n, late, r)
  BY <1>1, <1>4, <1>6, Zenon DEF AcceptNext, b, tg, pd
<1> QED BY <1>7

\* A drain queues whatever the decoder may need to write into.
DrainNext(n, late, r) ==
  /\ NextOf(memory, capGeom, import_backlog, requeue_capture(memory, cap, target), target, pending,
            n, late, r)
  /\ \/ /\ r.throws /\ FenceCost(late) /\ cap' = r.cap
        /\ Throw(state, target, pending, r.backlog)
     \/ /\ ~late /\ ~r.throws
        /\ cap' = IF memory = "Import" /\ capture_queued(r.cap) = {}
                  THEN queue_capture_scratch(r.cap) ELSE r.cap
        /\ target' = target /\ pending' = pending /\ import_backlog' = r.backlog
        /\ Goto("devents") /\ UNCHANGED <<state, faults>>

\* Every turn is of that shape.
LEMMA DrainNexts ==
  ASSUME PixelInv, DrainTurn
  PROVE  \E n, late, r : DrainNext(n, late, r)
<1> DEFINE rq == requeue_capture(memory, cap, target)
           b  == import_backlog
           R(n, late) == ImportNext(memory, capGeom, b, rq, target, pending, n, late)
<1>1. PICK n \in Dropped(b, target, pending), late \in BOOLEAN :
        \/ /\ R(n, late).throws /\ FenceCost(late) /\ cap' = R(n, late).cap
           /\ Throw(state, R(n, late).target, R(n, late).pending, R(n, late).backlog)
        \/ /\ ~late /\ ~R(n, late).throws
           /\ cap' = IF memory = "Import" /\ capture_queued(R(n, late).cap) = {}
                     THEN queue_capture_scratch(R(n, late).cap) ELSE R(n, late).cap
           /\ target' = R(n, late).target /\ pending' = R(n, late).pending
           /\ import_backlog' = R(n, late).backlog
           /\ Goto("devents") /\ UNCHANGED <<state, faults>>
  BY Zenon DEF DrainTurn
<1>2. Sound(memory, b, rq, target, pending, next_token) /\ rq \in [CapSlots -> Frame]
  <2>1. rq \in [CapSlots -> Frame]
    <3>1. NoToken \in Tokens \cup {NoToken} /\ None \in Targets \cup {None, Scratch}
      OBVIOUS
    <3> QED BY <3>1, PixelTypes, PoolTypes
  <2>2. Fine(memory, b, rq, target, pending, next_token, capDone, capMem, cliMem)
    BY Begins, PixelTypes, Requeued DEF FineHere
  <2> QED BY <2>1, <2>2 DEF Fine
<1> DEFINE r == R(n, late)
<1>3. r = ImportNext(memory, capGeom, b, rq, target, pending, n, late)
  OBVIOUS
<1> HIDE DEF b, rq, R
<1>4. NextOf(memory, capGeom, b, rq, target, pending, n, late, r)
  BY <1>2, <1>3, PixelTypes, NextIs DEF b
<1>5. r.target = target /\ r.pending = pending
  BY <1>4 DEF NextOf
<1> HIDE DEF r
<1>6. \/ /\ r.throws /\ FenceCost(late) /\ cap' = r.cap
         /\ Throw(state, target, pending, r.backlog)
      \/ /\ ~late /\ ~r.throws
         /\ cap' = IF memory = "Import" /\ capture_queued(r.cap) = {}
                   THEN queue_capture_scratch(r.cap) ELSE r.cap
         /\ target' = target /\ pending' = pending
         /\ import_backlog' = r.backlog
         /\ Goto("devents") /\ UNCHANGED <<state, faults>>
  BY <1>1, <1>5, Zenon DEF r
<1>7. DrainNext(n, late, r)
  BY <1>4, <1>6, Zenon DEF DrainNext, b, rq
<1> QED BY <1>7

\* The buffer that comes back makes room for the next one.
CaptureNext(n, late, r) ==
  LET d == Head(capDone) IN
  /\ NextOf(IF state = "Streaming" THEN memory ELSE "Unallocated", capGeom, import_backlog,
            take_capture(cap, d.slot), target, pending, n, late, r)
  /\ cap' = r.cap
  /\ \/ /\ r.throws /\ FenceCost(late) /\ UNCHANGED <<saw_last, cliMem>>
        /\ Throw(state, target, pending, r.backlog)
     \/ /\ ~late /\ ~r.throws /\ Complete(d, cap[d.slot].import_token, r)

\* Every buffer that comes back is dealt with so.
LEMMA CaptureNexts ==
  ASSUME PixelInv, ReturnCapture
  PROVE  \E n, late, r : CaptureNext(n, late, r)
<1> DEFINE d    == Head(capDone)
           took == take_capture(cap, d.slot)
           m    == IF state = "Streaming" THEN memory ELSE "Unallocated"
           b    == import_backlog
           R(n, late) == ImportNext(m, capGeom, b, took, target, pending, n, late)
<1>1. PICK n \in Dropped(b, target, pending), late \in BOOLEAN :
        /\ cap' = R(n, late).cap
        /\ \/ /\ R(n, late).throws /\ FenceCost(late) /\ UNCHANGED <<saw_last, cliMem>>
              /\ Throw(state, R(n, late).target, R(n, late).pending, R(n, late).backlog)
           \/ /\ ~late /\ ~R(n, late).throws
              /\ Complete(d, cap[d.slot].import_token, R(n, late))
  BY Zenon DEF ReturnCapture
<1>2. Sound(memory, b, took, target, pending, next_token) /\ took \in [CapSlots -> Frame]
  BY FineTakes DEF Fine, ReturnCapture
<1> DEFINE r == R(n, late)
<1>3. r = ImportNext(m, capGeom, b, took, target, pending, n, late)
      /\ m \in {memory, "Unallocated"}
  OBVIOUS
<1> HIDE DEF b, took, R, m
<1>4. NextOf(m, capGeom, b, took, target, pending, n, late, r)
  BY <1>2, <1>3, PixelTypes, NextIs DEF b
<1>5. r.target = target /\ r.pending = pending
  BY <1>4 DEF NextOf
<1> HIDE DEF r, d
<1>6. /\ cap' = r.cap
      /\ \/ /\ r.throws /\ FenceCost(late) /\ UNCHANGED <<saw_last, cliMem>>
            /\ Throw(state, target, pending, r.backlog)
         \/ /\ ~late /\ ~r.throws /\ Complete(d, cap[d.slot].import_token, r)
  BY <1>1, <1>5, Zenon DEF r
<1>7. CaptureNext(n, late, r)
  BY <1>4, <1>6, Zenon DEF CaptureNext, b, took, m, d
<1> QED BY <1>7

\* The first pool is built, over the backlog b, or the attempt ends in an error.
PoolNext(b, n, late, r) ==
  /\ b \in Backlogs(target, pending) /\ b \in Seq(ImportEntry) /\ Lengthened(b, target, pending)
  /\ NextOf(PoolMemory(target, pending), fwGeom, b, fresh_capture, target, pending, n, late, r)
  /\ StartPool(target, pending, b, r)
  /\ \/ /\ ~r.throws /\ target' = target /\ pending' = pending /\ import_backlog' = r.backlog
        /\ source_change' = FALSE /\ saw_last' = FALSE /\ state' = "Streaming"
        /\ phase' = "run" /\ blocked' = FALSE /\ UNCHANGED faults
     \/ /\ r.throws /\ FenceCost(late)
        /\ UNCHANGED <<saw_last, phase, blocked>> /\ source_change' = TRUE
        /\ Unwind("Configured", target, pending, r.backlog)
Refused ==
  /\ Fault /\ memory' = "Unallocated" /\ cap' = fresh_capture /\ source_change' = TRUE
  /\ Unwind("Configured", target, pending, import_backlog)
  /\ UNCHANGED <<saw_last, phase, blocked, capGeom>>

\* One of the two happens whenever the first pool is to be built.
LEMMA PoolNexts ==
  ASSUME PixelInv, memory = "Unallocated", UNCHANGED <<next_token, capDone, cliMem>>,
         configure_capture(target, pending) \/ configure_capture_throws(target, pending)
  PROVE  Refused \/ \E b, n, late, r : PoolNext(b, n, late, r)
<1> DEFINE N(b, n, late) ==
      ImportNext(PoolMemory(target, pending), fwGeom, b, fresh_capture, target, pending, n, late)
<1>1. ASSUME NEW b \in Backlogs(target, pending), NEW n \in Dropped(b, target, pending),
             NEW late \in BOOLEAN, NEW r, r = N(b, n, late), StartPool(target, pending, b, r)
      PROVE  /\ b \in Seq(ImportEntry) /\ Lengthened(b, target, pending)
             /\ r.target = target /\ r.pending = pending
             /\ NextOf(PoolMemory(target, pending), fwGeom, b, fresh_capture, target, pending,
                       n, late, r)
  <2> DEFINE mem == PoolMemory(target, pending)
             cm  == [c \in CapSlots |-> NoToken]
             cp  == fresh_capture
             s   == <<>>
  <2>1. memory' = mem /\ mem \in CaptureMemory /\ cp \in [CapSlots -> Frame]
        /\ r = ImportNext(mem, fwGeom, b, cp, target, pending, n, late)
    BY <1>1 DEF StartPool, PoolMemory, CaptureMemory, fresh_capture, IdleFrame, Frame, NoToken
  <2>2. TypeOK /\ b \in Seq(ImportEntry) /\ Lengthened(b, target, pending)
    BY Lengthens, PixelTypes DEF PixelInv, SettledInv, TypeInv
  <2>3. capDone = <<>> /\ \A t \in Targets : target[t].frame = NoFrame
    BY NoPool
  <2>4. Fine(memory, import_backlog, cap, target, pending, next_token, capDone, capMem, cliMem)
    BY Begins DEF FineHere
  <2>5. \A k \in Tokens : pending[k] # None => k < next_token
    BY LiveTokens
  <2> HIDE DEF mem, cm
  <2>6. Fine(mem, b, cp, target, pending, next_token, s, cm, cliMem)
    BY <2>1, <2>2, <2>3, <2>4, <2>5, PixelTypes, PoolBegins
  <2>7. Sound(mem, b, cp, target, pending, next_token)
    BY <2>6 DEF Fine
  <2> HIDE DEF cp, s
  <2>8. NextOf(mem, fwGeom, b, cp, target, pending, n, late, r)
    BY <2>1, <2>2, <2>7, PixelTypes, NextIs
  <2>9. r.target = target /\ r.pending = pending
    BY <2>8 DEF NextOf
  <2> QED BY <2>2, <2>8, <2>9 DEF mem, cp
<1>2. CASE configure_capture(target, pending)
  <2>0. PICK b \in Backlogs(target, pending) : \E n \in Dropped(b, target, pending) :
          /\ ~N(b, n, FALSE).throws
          /\ StartPool(target, pending, b, N(b, n, FALSE))
          /\ target' = N(b, n, FALSE).target /\ pending' = N(b, n, FALSE).pending
          /\ import_backlog' = N(b, n, FALSE).backlog
    BY <1>2, Zenon DEF configure_capture
  <2>1. PICK n \in Dropped(b, target, pending) :
          /\ ~N(b, n, FALSE).throws
          /\ StartPool(target, pending, b, N(b, n, FALSE))
          /\ target' = N(b, n, FALSE).target /\ pending' = N(b, n, FALSE).pending
          /\ import_backlog' = N(b, n, FALSE).backlog
    BY <2>0, Zenon
  <2>2. source_change' = FALSE /\ saw_last' = FALSE /\ state' = "Streaming"
        /\ phase' = "run" /\ blocked' = FALSE /\ UNCHANGED faults
    BY <1>2, Zenon DEF configure_capture
  <2> DEFINE late == FALSE
             r    == N(b, n, late)
  <2>3. late \in BOOLEAN /\ r = N(b, n, late)
    OBVIOUS
  <2>4. /\ ~r.throws /\ StartPool(target, pending, b, r) /\ target' = r.target
        /\ pending' = r.pending /\ import_backlog' = r.backlog
    BY <2>1
  <2> HIDE DEF r, N, late
  <2>5. PoolNext(b, n, late, r)
    BY <1>1, <2>2, <2>3, <2>4 DEF PoolNext
  <2> QED BY <2>5
<1>3. CASE configure_capture_throws(target, pending)
  <2>1. CASE Refused
    BY <2>1
  <2>2. CASE \E b \in Backlogs(target, pending), late \in BOOLEAN :
               \E n \in Dropped(b, target, pending) :
               /\ N(b, n, late).throws /\ FenceCost(late)
               /\ StartPool(target, pending, b, N(b, n, late))
               /\ Unwind("Configured", N(b, n, late).target, N(b, n, late).pending,
                         N(b, n, late).backlog)
    <3>0. PICK b \in Backlogs(target, pending), late \in BOOLEAN :
               \E n \in Dropped(b, target, pending) :
               /\ N(b, n, late).throws /\ FenceCost(late)
               /\ StartPool(target, pending, b, N(b, n, late))
               /\ Unwind("Configured", N(b, n, late).target, N(b, n, late).pending,
                         N(b, n, late).backlog)
      BY <2>2, Zenon
    <3>1. PICK n \in Dropped(b, target, pending) :
               /\ N(b, n, late).throws /\ FenceCost(late)
               /\ StartPool(target, pending, b, N(b, n, late))
               /\ Unwind("Configured", N(b, n, late).target, N(b, n, late).pending,
                         N(b, n, late).backlog)
      BY <3>0, Zenon
    <3> DEFINE r == N(b, n, late)
    <3>2. r = N(b, n, late)
      OBVIOUS
    <3>3. /\ r.throws /\ FenceCost(late) /\ StartPool(target, pending, b, r)
          /\ Unwind("Configured", r.target, r.pending, r.backlog)
      BY <3>1
    <3> HIDE DEF r, N
    <3>4. /\ b \in Seq(ImportEntry) /\ Lengthened(b, target, pending)
          /\ r.target = target /\ r.pending = pending
          /\ NextOf(PoolMemory(target, pending), fwGeom, b, fresh_capture, target, pending,
                    n, late, r)
      BY <1>1, <3>2, <3>3
    <3>5. Unwind("Configured", target, pending, r.backlog)
      BY <3>3, <3>4
    <3>6. UNCHANGED <<saw_last, phase, blocked>> /\ source_change' = TRUE
      BY <1>3 DEF configure_capture_throws
    <3>7. PoolNext(b, n, late, r)
      BY <3>3, <3>4, <3>5, <3>6 DEF PoolNext
    <3> QED BY <3>7
  <2> QED BY <1>3, <2>1, <2>2, Zenon DEF configure_capture_throws, Refused
<1> QED BY <1>2, <1>3

-----------------------------------------------------------------------------
(* The client buffers go out in the order of their pictures.               *)

\* An accepted picture goes to the end.
LEMMA PushAsc ==
  ASSUME PixelInv, AscInv, Accept
  PROVE  NewBacklog \in Seq(ImportEntry) /\ Asc(NewBacklog, cap)
<1> DEFINE b == NewBacklog
           b0 == import_backlog
<1>2. /\ b \in Seq(ImportEntry)
      /\ \A i \in DOMAIN b : \/ i \in DOMAIN b0 /\ b[i] = b0[i]
                             \/ /\ b[i].token = next_token
                                /\ \A j \in DOMAIN b0 : j < i
                                /\ \A j \in DOMAIN b : j < i => j \in DOMAIN b0 /\ b[j] = b0[j]
  BY AcceptSound
<1>3. /\ \A i \in DOMAIN b0 : b0[i].token < next_token
      /\ \A c \in CapSlots : cap[c].import_token < next_token
      /\ \A i \in DOMAIN b0 : i \in Nat
  <2>1. DOMAIN b0 = 1..Len(b0)
    BY PixelTypes, LenProperties
  <2> QED BY <2>1 DEF PixelInv, Sound, Past
<1>4. DOMAIN b = 1..Len(b) /\ Len(b) \in Nat
  BY <1>2, LenProperties
<1> HIDE DEF b
<1>5. Asc(b, cap)
  <2>1. ASSUME NEW i \in DOMAIN b, NEW j \in DOMAIN b, i < j PROVE b[i].token < b[j].token
    <3>1. CASE j \in DOMAIN b0 /\ b[j] = b0[j]
      <4>1. i \in DOMAIN b0 /\ b[i] = b0[i]
        BY <1>2, <1>3, <1>4, <2>1, <3>1
      <4> QED BY <2>1, <3>1, <4>1 DEF AscInv, Asc
    <3>2. CASE b[j].token = next_token /\ i \in DOMAIN b0 /\ b[i] = b0[i]
      BY <1>3, <3>2
    <3> QED BY <1>2, <2>1, <3>1, <3>2
  <2>2. \A c \in CapSlots, i \in DOMAIN b : cap[c].import_token < b[i].token
    BY <1>2, <1>3 DEF AscInv, Asc
  <2> QED BY <2>1, <2>2 DEF Asc
<1> QED BY <1>2, <1>5 DEF b

\* A new picture is the youngest: its buffer goes behind the others.
LEMMA AcceptAsc ==
  ASSUME PixelInv, AscInv, Accept PROVE AscInv'
<1>1. PICK n, late, r : AcceptNext(n, late, r)
  BY AcceptNexts, Zenon
<1> DEFINE b == NewBacklog
<1>2. b \in Seq(ImportEntry) /\ Asc(b, cap)
  BY PushAsc
<1> HIDE DEF b
<1>3. Asc(r.backlog, r.cap) /\ (b = <<>> => r.backlog = <<>>)
  BY <1>1, <1>2, PixelTypes, NextAsc DEF AcceptNext, NextOf, b
<1>4. memory' = memory /\ (memory = "Unallocated" => r.backlog = <<>>)
  <2>1. memory = "Unallocated" => b = <<>>
    BY DEF b, NewBacklog, AscInv
  <2> QED BY <1>3, <2>1 DEF Accept
<1> QED BY <1>1, <1>3, <1>4 DEF AscInv, AcceptNext

\* An error leaves the backlog as it is, or empties it.
LEMMA UnwoundAsc ==
  ASSUME NEW st, NEW tg, NEW pd, NEW b, Unwind(st, tg, pd, b), Asc(b, cap')
  PROVE  Asc(import_backlog', cap') /\ (b = <<>> => import_backlog' = <<>>)
<1>1. import_backlog' = b \/ import_backlog' = <<>>
  BY DEF Unwind, Fail
<1> QED BY <1>1, EmptyAsc

\* A CAPTURE buffer comes back, or a drain goes round.
LEMMA LoopsAsc ==
  ASSUME PixelInv, AscInv, ReturnCapture \/ DrainTurn PROVE AscInv'
<1> DEFINE b0 == import_backlog
<1>a. memory' = memory
  BY DEF ReturnCapture, DrainTurn
<1>b. b0 \in Seq(ImportEntry) /\ cap \in [CapSlots -> Frame]
  BY PixelTypes
<1>1. ASSUME NEW m, NEW cp \in [CapSlots -> Frame], NEW n, NEW late, NEW r, Fades(cap, cp),
             NextOf(m, capGeom, b0, cp, target, pending, n, late, r)
      PROVE  /\ Asc(r.backlog, r.cap) /\ (b0 = <<>> => r.backlog = <<>>)
             /\ r.backlog \in Seq(ImportEntry) /\ r.cap \in [CapSlots -> Frame]
  <2>1. Asc(b0, cp)
    BY <1>b, <1>1, FadesAsc DEF AscInv
  <2> QED BY <1>b, <1>1, <2>1, NextAsc DEF NextOf
<1>2. ASSUME NEW b, Asc(b, cap'), b0 = <<>> => b = <<>>,
             (\E st, tg, pd : Unwind(st, tg, pd, b)) \/ import_backlog' = b
      PROVE  AscInv'
  BY <1>a, <1>2, UnwoundAsc DEF AscInv
<1>3. CASE ReturnCapture
  <2> DEFINE d == Head(capDone)
             took == take_capture(cap, d.slot)
             m == IF state = "Streaming" THEN memory ELSE "Unallocated"
  <2>1. PICK n, late, r : CaptureNext(n, late, r)
    BY <1>3, CaptureNexts, Zenon
  <2>2. Fades(cap, took)
    BY <1>b, IdleFields DEF take_capture, Fades
  <2>3. took \in [CapSlots -> Frame]
    BY <1>3, FineTakes DEF ReturnCapture
  <2>4. NextOf(m, capGeom, b0, took, target, pending, n, late, r)
    BY <2>1 DEF CaptureNext
  <2> HIDE DEF m, took
  <2>5. Asc(r.backlog, r.cap) /\ (b0 = <<>> => r.backlog = <<>>)
    BY <1>1, <2>2, <2>3, <2>4
  <2>6. (\E st, tg, pd : Unwind(st, tg, pd, r.backlog)) \/ import_backlog' = r.backlog
    BY <2>1, Zenon DEF CaptureNext, Throw, Complete
  <2>7. cap' = r.cap
    BY <2>1 DEF CaptureNext
  <2> QED BY <1>2, <2>5, <2>6, <2>7
<1>4. CASE DrainTurn
  <2> DEFINE rq == requeue_capture(memory, cap, target)
  <2>1. PICK n, late, r : DrainNext(n, late, r)
    BY <1>4, DrainNexts, Zenon
  <2>2. Fades(cap, rq) /\ rq \in [CapSlots -> Frame]
    <3>1. NoToken \in Tokens \cup {NoToken} /\ None \in Targets \cup {None, Scratch}
      OBVIOUS
    <3> QED BY <1>b, <3>1, PixelTypes, PoolTypes, RequeueFades
  <2>3. NextOf(memory, capGeom, b0, rq, target, pending, n, late, r)
    BY <2>1 DEF DrainNext
  <2> HIDE DEF rq
  <2>4. /\ Asc(r.backlog, r.cap) /\ (b0 = <<>> => r.backlog = <<>>)
        /\ r.backlog \in Seq(ImportEntry)
    BY <1>1, <2>2, <2>3
  <2>5. Fades(r.cap, cap')
    <3>1. CASE cap' = r.cap
      BY <3>1 DEF Fades
    <3>2. CASE cap' = queue_capture_scratch(r.cap)
      <4> DEFINE v == [queued |-> TRUE, import_token |-> NoToken, buf |-> Scratch]
      <4>1. r.cap \in [CapSlots -> Frame]
        BY <2>3 DEF NextOf
      <4>2. \A c \in CapSlots : cap'[c] = r.cap[c] \/ cap'[c] = v
        BY <3>2, <4>1 DEF queue_capture_scratch, queue_capture_import
      <4>3. v.import_token = NoToken
        OBVIOUS
      <4> HIDE DEF v
      <4> QED BY <4>2, <4>3 DEF Fades
    <3> QED BY <2>1, <3>1, <3>2 DEF DrainNext
  <2>6. Asc(r.backlog, cap')
    BY <2>4, <2>5, FadesAsc
  <2>7. (\E st, tg, pd : Unwind(st, tg, pd, r.backlog)) \/ import_backlog' = r.backlog
    BY <2>1, Zenon DEF DrainNext, Throw
  <2> QED BY <1>2, <2>4, <2>6, <2>7
<1> QED BY <1>3, <1>4

\* The live pictures are listed in their order.
LEMMA ListedAsc ==
  ASSUME import_backlog = <<>>, NEW b \in Seq(ImportEntry), Lengthened(b, target, pending)
  PROVE  Asc(b, fresh_capture)
<1>1. \A c \in CapSlots : fresh_capture[c].import_token = NoToken
  BY DEF fresh_capture, IdleFrame, Frame, NoToken
<1>2. \A i \in DOMAIN b : b[i].token \in Tokens
  BY Entries
<1>3. \A i \in DOMAIN b : i \notin DOMAIN import_backlog
  OBVIOUS
<1>4. \A k \in Tokens : NoToken < k
  BY DEF Tokens, NoToken
<1> QED BY <1>1, <1>2, <1>3, <1>4 DEF Asc, Lengthened

\* The first pool begins with the live pictures, in their order.
LEMMA ConfigureAsc ==
  ASSUME PixelInv, AscInv, Configure PROVE AscInv'
<1>1. CASE memory # "Unallocated"
  <2>1. \E st, tg, pd : Unwind(st, tg, pd, import_backlog)
    BY <1>1 DEF Configure, Throw
  <2>2. UNCHANGED <<memory, cap>>
    BY <1>1 DEF Configure
  <2> QED BY <1>1, <2>1, <2>2, UnwoundAsc DEF AscInv
<1>2. CASE memory = "Unallocated"
  <2>1. import_backlog = <<>>
    BY <1>2 DEF AscInv
  <2>2. UNCHANGED <<next_token, capDone, cliMem>>
    BY DEF Configure, poolRest
  <2>3. configure_capture(target, pending) \/ configure_capture_throws(target, pending)
    BY <1>2 DEF Configure
  <2>4. CASE Refused
    <3>1. import_backlog' = <<>>
      BY <2>1, <2>4 DEF Refused, Unwind, Fail
    <3> QED BY <3>1, EmptyAsc DEF AscInv
  <2>5. CASE \E b, n, late, r : PoolNext(b, n, late, r)
    <3>1. PICK b, n, late, r : PoolNext(b, n, late, r)
      BY <2>5, Zenon
    <3> DEFINE mem == PoolMemory(target, pending)
               cp == fresh_capture
    <3>2. /\ b \in Seq(ImportEntry) /\ Lengthened(b, target, pending)
          /\ NextOf(mem, fwGeom, b, cp, target, pending, n, late, r)
          /\ memory' = mem /\ cap' = requeue_capture(mem, r.cap, target)
      BY <3>1 DEF PoolNext, StartPool
    <3>3. cp \in [CapSlots -> Frame]
      BY DEF fresh_capture, IdleFrame, Frame, NoToken
    <3>5. Asc(b, cp)
      BY <2>1, <3>2, ListedAsc
    <3> HIDE DEF mem, cp
    <3>6. Asc(r.backlog, r.cap) /\ r.backlog \in Seq(ImportEntry) /\ r.cap \in [CapSlots -> Frame]
      BY <3>2, <3>3, <3>5, NextAsc DEF NextOf
    <3>7. Asc(r.backlog, cap')
      BY <3>2, <3>6, FadesAsc, RequeueFades
    <3>8. import_backlog' = r.backlog \/ \E st, tg, pd : Unwind(st, tg, pd, r.backlog)
      BY <3>1, Zenon DEF PoolNext
    <3>9. Asc(import_backlog', cap')
      BY <3>7, <3>8, UnwoundAsc
    <3>10. memory' # "Unallocated"
      BY <3>2 DEF mem, PoolMemory
    <3> QED BY <3>9, <3>10 DEF AscInv
  <2> QED BY <1>2, <2>2, <2>3, <2>4, <2>5, PoolNexts
<1> QED BY <1>1, <1>2

\* Every step in the life of a pool keeps the order.
LEMMA AscStep ==
  ASSUME PixelInv, Courses, AscInv, Lives, [Next]_vars PROVE AscInv'
BY OrderSteps, LingersAsc, AcceptAsc, LoopsAsc, ConfigureAsc

\* In the life of one pool the client buffers wait, and go to the decoder, in the
\* order of their pictures, whatever fails (session.h:193).
THEOREM BuffersInOrder == Spec /\ [](state # "Reconfiguring") => []InSubmissionOrder
<1>1. Init => PixelInv /\ Courses /\ AscInv
  <2>1. Init => AscInv
    BY EmptyAsc DEF Init, AscInv
  <2> QED BY <2>1, PixelInit, PromiseStarts
<1>2. PixelInv /\ Courses /\ AscInv /\ [Next]_vars /\ state # "Reconfiguring"
        /\ (state # "Reconfiguring")'
        => (PixelInv /\ Courses /\ AscInv)'
  BY PixelStep, CoursesStep, AscStep DEF Lives
<1>3. AscInv => InSubmissionOrder
  BY DEF AscInv, Asc, InSubmissionOrder
<1> QED BY <1>1, <1>2, <1>3, PTL DEF Spec

-----------------------------------------------------------------------------
(* Surfaces of one geometry: no resolution change is ever announced.       *)

\* The streams of this instance all have one geometry.
OneGeometry == \A g, h \in Geoms : g = h

Running == {"Streaming", "Draining", "RestartPending"}

\* The one SOURCE_CHANGE is the first, and it is handled before the pool runs.
OneChange ==
  /\ ~blocked /\ state # "Reconfiguring" /\ drain_for # "drc"
  /\ phase = "cold" => ~evt /\ ~source_change
  /\ ~(evt /\ source_change)
  /\ pc = "configure" => source_change
  /\ state \in Running => ~evt /\ ~source_change /\ phase \notin {"cold", "announced"}

\* What most steps do.
LEMMA OneChangeKept ==
  ASSUME OneChange, UNCHANGED <<blocked, evt, source_change>>,
         phase' = phase \/ phase' \notin {"cold", "announced"},
         state' \in Running => state \in Running,
         pc' = "configure" => pc = "configure",
         state' # "Reconfiguring", drain_for' # "drc"
  PROVE  OneChange'
BY DEF OneChange

\* The decoder announces the first geometry only.
LEMMA OneChangeFirmware ==
  ASSUME OneGeometry, PixelInv, OneChange, Firmware PROVE OneChange'
<1>1. FirmwareStep /\ UNCHANGED <<state, drain_for, source_change, pc>>
  BY DEF Firmware, driverVars
<1>2. CASE FwAnnounce
  BY <1>1, <1>2 DEF FwAnnounce, OneChange, Running
<1>3. CASE FwResolutionChange
  <2>1. outQ # <<>> /\ Head(outQ).geom # fwGeom
    BY <1>3 DEF FwResolutionChange, Decoding
  <2>2. outQ \in Seq(AccessUnit) /\ fwGeom \in Geoms
    BY DEF PixelInv, SettledInv, TypeInv, TypeOK, DecoderTypeOK
  <2>3. Head(outQ) \in AccessUnit
    BY <2>1, <2>2, HeadTailProperties
  <2> QED BY <2>1, <2>2, <2>3 DEF AccessUnit, OneGeometry
<1>4. CASE UNCHANGED <<blocked, evt>> /\ (phase' = phase \/ phase' = "last")
  <2>1. state # "Reconfiguring" /\ drain_for # "drc"
    BY DEF OneChange
  <2> QED BY <1>1, <1>4, <2>1, OneChangeKept
<1> QED BY <1>1, <1>2, <1>3, <1>4 DEF FirmwareStep, FwDecode, FwReject, FwReturnOutput, FwEmit,
          FwSpoil, FwLast

\* The pool is built after the change was seen.
LEMMA OneChangeConfigure ==
  ASSUME Courses, OneChange, Configure PROVE OneChange'
<1>1. /\ pc = "configure" /\ source_change /\ ~evt /\ state = "Configured"
      /\ phase # "cold" /\ evt' = evt
  BY DEF Configure, Courses, OneChange, poolRest
<1>2. ASSUME Return("error") PROVE pc' = "idle" /\ drain_for' = "none"
  BY <1>2 DEF Return
<1>3. ASSUME NEW st \in {"Configured"}, NEW tg, NEW pd, NEW b, Unwind(st, tg, pd, b)
      PROVE  state' \in {"Configured", "Finished", "Failed"}
  BY <1>3 DEF Unwind, Fail
<1>4. CASE configure_capture(target, pending) /\ Goto("outputs")
  <2>1. /\ state' = "Streaming" /\ source_change' = FALSE /\ phase' = "run" /\ blocked' = FALSE
        /\ pc' = "outputs" /\ drain_for' = drain_for
    BY <1>4, Zenon DEF configure_capture, Goto
  <2> QED BY <1>1, <2>1 DEF OneChange
<1>5. CASE configure_capture_throws(target, pending) /\ Return("error")
  <2>1. source_change' = TRUE /\ UNCHANGED <<phase, blocked>>
    BY <1>5 DEF configure_capture_throws
  <2>2. \E tg, pd, b : Unwind("Configured", tg, pd, b)
    BY <1>5, Zenon DEF configure_capture_throws
  <2>3. state' \in {"Configured", "Finished", "Failed"}
    BY <1>3, <2>2
  <2> QED BY <1>1, <1>2, <1>5, <2>1, <2>3 DEF OneChange, Running
<1>6. CASE Throw(state, target, pending, import_backlog)
           /\ UNCHANGED <<source_change, phase, blocked>>
  <2>1. state' \in {"Configured", "Finished", "Failed"}
    BY <1>1, <1>3, <1>6 DEF Throw
  <2> QED BY <1>1, <1>2, <1>6, <2>1 DEF OneChange, Running, Throw
<1> QED BY <1>4, <1>5, <1>6, Zenon DEF Configure

\* Every step keeps it.
LEMMA OneChangeStep ==
  ASSUME OneGeometry, PixelInv, Courses, OneChange, [Next]_vars PROVE OneChange'
<1> DEFINE Flags == UNCHANGED <<blocked, evt, source_change>>
           Quits  == pc' # "configure" /\ drain_for' # "drc"
<1>1. state # "Reconfiguring" /\ drain_for # "drc" /\ pc # "rebuild"
      /\ ~(source_change /\ state = "Streaming")
  BY DEF OneChange, Courses, Running
<1>2. Flags /\ UNCHANGED <<phase, state>> /\ Quits => OneChange'
  BY <1>1, OneChangeKept
<1>3. ASSUME NEW tg, NEW pd, NEW b, Unwind(state, tg, pd, b) \/ Fail(tg, pd)
      PROVE  state' \in {state, "Finished", "Failed"}
  BY <1>3 DEF Unwind, Fail
<1>4. Flags /\ UNCHANGED phase /\ state' \in {state, "Finished", "Failed"} /\ Quits => OneChange'
  BY <1>1, OneChangeKept DEF Running
<1>5. (\E p : Goto(p) /\ p # "configure") \/ Return("error") \/ Return("ok") => Quits
  BY <1>1 DEF Goto, Return
<1>6. CASE Client \/ \E t \in Targets : Relock(t)
  <2>1. ASSUME NEW tg, PumpStart(tg), UNCHANGED <<drain_for, state, source_change, decoderVars>>
        PROVE  OneChange'
    BY <1>1, <1>2, <2>1 DEF PumpStart, decoderVars
  <2>2. ASSUME NEW t \in Targets, NEW p \in Policies, Submit(t, p) PROVE OneChange'
    BY <2>1, <2>2 DEF Submit
  <2>3. ASSUME NEW c, NEW t, Enter(c, t) PROVE OneChange'
    BY <2>1, <2>3 DEF Enter
  <2>4. ASSUME NEW t \in Targets, WaitSettled(t) PROVE OneChange'
    BY <1>1, <2>4, OneChangeKept DEF WaitSettled, decoderVars
  <2>5. ASSUME NEW t \in Targets, Release(t) PROVE OneChange'
    <3>1. UNCHANGED <<pc, drain_for, state, source_change, decoderVars>>
      BY <1>1, <2>5, Zenon DEF Release
    <3> QED BY <1>1, <3>1, OneChangeKept DEF decoderVars
  <2>6. ASSUME Finish PROVE OneChange'
    <3>1. Flags
      BY <2>6 DEF Finish, drainRest
    <3>2. CASE BeginDrain("finish") /\ state = "Streaming"
      BY <1>1, <3>1, <3>2, OneChangeKept DEF BeginDrain, Running
    <3>3. CASE UNCHANGED <<pc, drain_for, phase>> /\ state' = "Finished"
      BY <1>1, <3>1, <3>3, OneChangeKept DEF Running
    <3> QED BY <2>6, <3>2, <3>3 DEF Finish, StopBusy
  <2> QED BY <1>6, <2>2, <2>3, <2>4, <2>5, <2>6 DEF Client, Relock, Service, Wait
<1>7. CASE PumpTail \/ Rebuild
  <2>1. UNCHANGED <<state, source_change, decoderVars>> /\ Goto("return")
    BY <1>1, <1>7 DEF PumpTail, Rebuild
  <2> QED BY <1>2, <1>5, <2>1 DEF decoderVars
<1>8. CASE HandleEvents
  <2>1. /\ source_change' = (source_change \/ evt) /\ evt' = FALSE
        /\ UNCHANGED <<state, phase, blocked>>
    BY <1>8 DEF HandleEvents
  <2>2. drain_for' = drain_for /\ (pc' = "configure" => source_change')
    BY <1>8 DEF HandleEvents, Goto
  <2> QED BY <1>1, <2>1, <2>2 DEF OneChange
<1>9. CASE DrainTurn
  <2>1. Flags /\ UNCHANGED phase
    BY <1>9 DEF DrainTurn
  <2>2. (UNCHANGED state /\ Goto("devents")) \/ \E tg, pd, b : Throw(state, tg, pd, b)
    BY <1>9, Zenon DEF DrainTurn
  <2> QED BY <1>3, <1>4, <1>5, <2>1, <2>2 DEF Throw
<1>10. CASE ReturnCapture
  <2>1. Flags /\ UNCHANGED phase /\ pc # "configure"
    BY <1>10 DEF ReturnCapture
  <2>2. ASSUME NEW d, NEW k, NEW r, Complete(d, k, r)
        PROVE  (UNCHANGED state /\ Goto(pc)) \/ \E tg, pd, b : Throw(state, tg, pd, b)
    BY <2>2, Zenon DEF Complete
  <2>3. (UNCHANGED state /\ Goto(pc)) \/ \E tg, pd, b : Throw(state, tg, pd, b)
    BY <1>10, <2>2, Zenon DEF ReturnCapture
  <2> QED BY <1>3, <1>4, <1>5, <2>1, <2>3 DEF Throw
<1>11. CASE Drained
  <2>1. Flags /\ state = "Draining" /\ UNCHANGED phase
    BY <1>1, <1>11 DEF Drained, Courses, DrainPcs
  <2>2. \/ state' = "RestartPending" /\ Goto("start")
        \/ state' = "Finished" /\ Return("ok")
    BY <1>1, <1>11 DEF Drained
  <2> QED BY <1>1, <1>5, <2>1, <2>2, OneChangeKept DEF Running
<1>12. CASE Start
  <2>1. /\ Flags /\ state = "RestartPending" /\ phase' = "run" /\ state' = "Streaming"
        /\ pc' = "return" /\ drain_for' = "none"
    BY <1>12 DEF Start, Courses
  <2> QED BY <2>1, OneChangeKept DEF Running
<1>13. CASE Accept
  <2>1. Flags /\ UNCHANGED <<phase, state>> /\ pc = "return"
    BY <1>13 DEF Accept
  <2>2. Return("error") \/ UNCHANGED <<pc, drain_for>>
    BY <1>13, Zenon DEF Accept
  <2> QED BY <1>1, <1>2, <1>5, <2>1, <2>2
<1>14. CASE WaitExpires
  <2>1. Flags
    BY <1>14 DEF WaitExpires, drainRest
  <2>2. CASE state = "Streaming" /\ BeginDrain("timeout")
    BY <1>1, <2>1, <2>2, OneChangeKept DEF BeginDrain, Running
  <2>3. CASE /\ UNCHANGED phase /\ Return("error")
             /\ state' = state \/ (state = "Streaming" /\ state' = "Draining")
    BY <1>1, <1>5, <2>1, <2>3, OneChangeKept DEF Running
  <2> QED BY <1>14, <2>2, <2>3 DEF WaitExpires, StopBusy
<1>15. CASE StartBusy \/ DrainExpires \/ DequeueError
  <2>1. Flags /\ UNCHANGED phase
    BY <1>15 DEF StartBusy, DrainExpires, DequeueError, decoderVars
  <2>2. \/ UNCHANGED state /\ Goto("soutputs")
        \/ Fail(target, pending) /\ Return("error")
        \/ Throw(state, target, pending, import_backlog)
    BY <1>15 DEF StartBusy, DrainExpires, DequeueError
  <2> QED BY <1>3, <1>4, <1>5, <2>1, <2>2 DEF Throw
<1>16. CASE \/ ReturnOutput \/ LoopEnds \/ LastSeen \/ CallDone \/ WaitReturns \/ WaitPolls
            \/ SubmitLoops \/ SubmitGivesUp
  <2>1. Flags /\ UNCHANGED <<phase, state>>
    BY <1>16 DEF ReturnOutput, LoopEnds, LastSeen, CallDone, WaitReturns, WaitPolls,
         SubmitLoops, SubmitGivesUp, callRest, decoderVars
  <2>2. Quits
    BY <1>1, <1>5, <1>16 DEF ReturnOutput, LoopEnds, LastSeen, CallDone, WaitReturns, WaitPolls,
         SubmitLoops, SubmitGivesUp, Goto, Return, PumpAgain, PumpStart
  <2> QED BY <1>2, <2>1, <2>2
<1>17. CASE UNCHANGED vars
  BY <1>17 DEF vars, driverVars, decoderVars, OneChange
<1> QED BY <1>6, <1>7, <1>8, <1>9, <1>10, <1>11, <1>12, <1>13, <1>14, <1>15, <1>16, <1>17,
        OneChangeFirmware, OneChangeConfigure DEF Next, Working, Looping, Expiring

\* The first change is the only one, in every behaviour.
LEMMA AlwaysOneChange ==
  ASSUME OneGeometry PROVE Spec => [](OneChange /\ state # "Reconfiguring")
<1>1. Init => PixelInv /\ Courses /\ OneChange
  <2>1. Init => OneChange
    BY DEF Init, DecoderInit, OneChange, Running
  <2> QED BY <2>1, PixelInit, PromiseStarts
<1>2. PixelInv /\ Courses /\ OneChange /\ [Next]_vars
        => (PixelInv /\ Courses /\ OneChange)'
  BY PixelStep, CoursesStep, OneChangeStep
<1>3. OneChange => state # "Reconfiguring"
  BY DEF OneChange
<1> QED BY <1>1, <1>2, <1>3, PTL DEF Spec

\* Streams of one geometry never lose a pool: their client buffers go out in the
\* order of their pictures (session.h:193), under every fault of the decoder.
THEOREM OneGeometryInOrder ==
  ASSUME OneGeometry PROVE Spec => []InSubmissionOrder
BY AlwaysOneChange, BuffersInOrder, PTL

-----------------------------------------------------------------------------
(* The buffers of an Import pool and the pictures to come.                 *)

\* One geometry, pictures that all want their buffer, and a pool.
Uniform == OneGeometry /\ "Direct" \notin Policies /\ CapSlots # {}

\* What came back came back in its own buffer, and is a picture unless the drain
\* is complete.
Matched(cp, done, ph) ==
  \A i \in DOMAIN done :
    /\ done[i].payload => cp[done[i].slot].import_token = done[i].ts
    /\ done[i].payload \/ ph = "last"

\* The buffer that the decoder owns is for the next picture of U, those that the
\* decoder has to write; or it is the scratch buffer, and none is to come.
Foremost(cp, done, U, st) ==
  \A c \in CapSlots : cp[c].queued /\ (\A i \in DOMAIN done : done[i].slot # c) =>
    \/ cp[c].import_token = NoToken /\ st # "Streaming" /\ U = {}
    \/ cp[c].import_token \in U /\ \A k \in U : cp[c].import_token <= k

\* Every picture to come has its buffer, and no buffer waits for another one.
Lined(b, cp, U) ==
  /\ \A i \in DOMAIN b : b[i].token \in U
  /\ \A k \in U : \/ \E c \in CapSlots : cp[c].import_token = k
                  \/ \E i \in DOMAIN b : b[i].token = k

Backed(b) == \A i \in DOMAIN b : b[i].buf # None

Line(b, cp, done, U, st, ph) ==
  /\ Matched(cp, done, ph) /\ Backed(b)
  /\ ph # "last" => Foremost(cp, done, U, st) /\ Lined(b, cp, U)

\* The pool as Sound knows it.
Single(cp) ==
  /\ \A c \in CapSlots : cp[c].queued \/ cp[c] = IdleFrame
  /\ \A c, d \in CapSlots : cp[c].queued /\ cp[d].queued => c = d

\* Returned buffers are still queued, until they are dequeued.
Undequeued(cp, done) == \A i \in DOMAIN done : done[i].slot \in CapSlots /\ cp[done[i].slot].queued

\* In a pool of one geometry no head of the backlog is held up, or too small.
LEMMA NeverHeldUp ==
  ASSUME OneGeometry, NEW g \in Geoms, NEW e \in ImportEntry,
         NEW pd \in [Tokens -> Targets \cup {None}]
  PROVE  ~AwaitsRebuild(e, g, pd) /\ (e.buf # None => ~TooSmall(e, g))
<1>1. \A h \in Geoms : LayoutSize[h] = LayoutSize[g] /\ ~(LayoutSize[h] < LayoutSize[g])
  <2>1. \A h \in Geoms : h = g /\ LayoutSize[h] \in Nat
    BY SessionAssumption DEF OneGeometry
  <2> QED BY <2>1
<1>2. \A t \in Targets : SurfGeom[t] \in Geoms
  BY DecoderAssumption
<1>3. e.token \in Tokens /\ e.buf \in Targets \cup {None}
  BY DEF ImportEntry
<1> QED BY <1>1, <1>2, <1>3 DEF AwaitsRebuild, TooSmall, import_compatible

\* queue_import_next: the next buffer is the one of the next picture.
LEMMA LineNext ==
  ASSUME Uniform, NEW m, NEW g \in Geoms, NEW b \in Seq(ImportEntry),
         NEW cp \in [CapSlots -> Frame], NEW pd \in [Tokens -> Targets \cup {None}],
         NEW n, NEW late, NEW r, NextCases(m, g, b, cp, pd, n, late, r), late => Fault, ~Fault,
         NEW done, NEW U \in SUBSET Tokens, NEW st, NEW ph,
         Single(cp), Undequeued(cp, done), Asc(b, cp), Line(b, cp, done, U, st, ph)
  PROVE  /\ Line(r.backlog, r.cap, done, U, st, ph) /\ ~r.throws
         /\ m = "Import" => r.backlog = <<>> \/ \E c \in CapSlots : r.cap[c].queued
<1>1. CASE NoBuffer(m, b, cp, r)
  BY <1>1 DEF NoBuffer
<1>2. CASE ~NoBuffer(m, b, cp, r)
  <2>1. /\ m = "Import" /\ b # <<>> /\ n \in 0..Len(b) /\ \A j \in 1..n : b[j].buf = None
        /\ \A c \in CapSlots : ~cp[c].queued
        /\ Skips(g, b, cp, pd, n, late, r) \/ Queues1(g, b, cp, pd, n, late, r)
    BY <1>2 DEF NextCases
  <2>2. /\ DOMAIN b = 1..Len(b) /\ Len(b) \in Nat /\ \A i \in DOMAIN b : b[i] \in ImportEntry
    BY LenProperties, ElementOfSeq
  <2>3. Len(b) # 0
    BY <2>1, EmptySeq
  <2> DEFINE l == Len(b)
  <2>4. l \in Nat /\ l # 0 /\ n \in 0..l /\ DOMAIN b = 1..l
    BY <2>1, <2>2, <2>3
  <2>5. \A j \in 1..n : j \notin DOMAIN b
    BY <2>1 DEF Line, Backed
  <2> HIDE DEF l
  <2>6. n = 0 /\ 1 \in DOMAIN b /\ n + 1 = 1 /\ n # l
    <3>1. 1 \notin 1..n
      BY <2>4, <2>5
    <3> QED BY <2>4, <3>1
  <2>7. ~AwaitsRebuild(b[1], g, pd) /\ ~TooSmall(b[1], g)
    BY <2>2, <2>6, NeverHeldUp DEF Uniform, Line, Backed
  <2>8. ~Skips(g, b, cp, pd, n, late, r)
    BY <2>6, <2>7 DEF Skips, l
  <2>9. /\ Without(b, 1, r.backlog) /\ ~r.throws
        /\ r.cap = queue_capture_import(cp, b[1].buf, b[1].token)
    BY <2>1, <2>6, <2>8 DEF Queues1
  <2> DEFINE f == free_capture(cp)
             v == [queued |-> TRUE, import_token |-> b[1].token, buf |-> b[1].buf]
             b2 == r.backlog
  <2>10. f \in CapSlots
    BY <2>1, Zenon DEF free_capture, Uniform
  <2>11. /\ r.cap[f] = v /\ \A c \in CapSlots : c # f => r.cap[c] = cp[c]
    BY <2>9, <2>10 DEF queue_capture_import
  <2>12. v.queued /\ v.import_token = b[1].token
    OBVIOUS
  <2>13. /\ DOMAIN b2 = 1..(l - 1) /\ \A i \in DOMAIN b2 : i + 1 \in DOMAIN b /\ b2[i] = b[i + 1]
    BY <2>9 DEF Without, l
  <2> HIDE DEF f, v, b2
  <2>14. \A i \in DOMAIN b : i = 1 \/ (1 < i /\ \E j \in DOMAIN b2 : b2[j] = b[i])
    <3> SUFFICES ASSUME NEW i \in 1..l, i # 1 PROVE 1 < i /\ \E j \in DOMAIN b2 : b2[j] = b[i]
      BY <2>4
    <3>1. 1 < i /\ i - 1 \in 1..(l - 1) /\ (i - 1) + 1 = i
      BY <2>4
    <3> QED BY <2>13, <3>1
  <2>15. DOMAIN done = {}
    BY <2>1 DEF Undequeued
  <2>16. \A c \in CapSlots : cp[c].import_token = NoToken
    BY <2>1 DEF Single, IdleFrame
  <2>17. \A k \in U : k # NoToken
    BY DEF Tokens, NoToken
  <2>18. Matched(r.cap, done, ph)
    BY <2>15 DEF Matched
  <2>19. Backed(b2)
    BY <2>13 DEF Line, Backed
  <2>20. ASSUME ph # "last" PROVE Foremost(r.cap, done, U, st) /\ Lined(b2, r.cap, U)
    <3>1. Lined(b, cp, U)
      BY <2>20 DEF Line
    <3>2. \A k \in U : \E i \in DOMAIN b : b[i].token = k
      BY <2>16, <2>17, <3>1 DEF Lined
    <3>3. b[1].token \in U
      BY <2>6, <3>1 DEF Lined
    <3>4. \A k \in U : b[1].token <= k
      <4>1. \A i \in DOMAIN b : b[i].token \in Tokens
        BY Entries
      <4>2. \A i \in DOMAIN b : b[1].token = b[i].token \/ b[1].token < b[i].token
        BY <2>6, <2>14 DEF Asc
      <4>3. \A i, j \in Tokens : i = j \/ i < j => i <= j
        BY SlotsAssumption DEF Tokens
      <4> QED BY <2>6, <3>2, <4>1, <4>2, <4>3
    <3>5. Foremost(r.cap, done, U, st)
      BY <2>1, <2>11, <2>12, <3>3, <3>4 DEF Foremost
    <3>6. ASSUME NEW k \in U
          PROVE  (\E c \in CapSlots : r.cap[c].import_token = k) \/ \E i \in DOMAIN b2 : b2[i].token = k
      BY <2>10, <2>11, <2>12, <2>14, <3>2
    <3>7. \A i \in DOMAIN b2 : b2[i].token \in U
      BY <2>13, <3>1 DEF Lined
    <3> QED BY <3>5, <3>6, <3>7 DEF Lined
  <2> QED BY <2>9, <2>10, <2>11, <2>12, <2>18, <2>19, <2>20 DEF Line, b2
<1> QED BY <1>1, <1>2

\* DQBUF: the buffer takes its picture along.
LEMMA LineTakes ==
  ASSUME NEW cp \in [CapSlots -> Frame], NEW done \in Seq(CapReturn), done # <<>>,
         NEW took, took = take_capture(cp, Head(done).slot),
         Single(cp), Undequeued(cp, done), Undequeued(took, Tail(done)),
         NEW U, \A i \in DOMAIN done : done[i].ts \notin U,
         NEW b, NEW st, NEW ph, Line(b, cp, done, U, st, ph)
  PROVE  /\ Line(b, took, Tail(done), U, st, ph) /\ Single(took)
         /\ \A c \in CapSlots : ~took[c].queued
<1> DEFINE d  == Head(done)
           a  == Tail(done)
<1>1. d = done[1] /\ 1 \in DOMAIN done /\ d.slot \in CapSlots /\ cp[d.slot].queued
  BY Beheaded DEF Undequeued
<1> HIDE DEF d
<1>2. /\ took[d.slot] = IdleFrame /\ \A c \in CapSlots : c # d.slot => took[c] = cp[c]
  BY <1>1 DEF take_capture, d
<1>3. \A c \in CapSlots : ~took[c].queued
  BY <1>1, <1>2 DEF Single, IdleFrame
<1> HIDE DEF a
<1>4. DOMAIN a = {}
  BY <1>3 DEF Undequeued, a
<1>5. Single(took)
  BY <1>2, <1>3 DEF Single
<1>6. Matched(took, a, ph) /\ Foremost(took, a, U, st)
  BY <1>3, <1>4 DEF Matched, Foremost
<1>7. ASSUME ph # "last", Lined(b, cp, U) PROVE Lined(b, took, U)
  <2>1. done[1].payload /\ cp[d.slot].import_token = d.ts /\ d.ts \notin U
    BY <1>1, <1>7 DEF Line, Matched
  <2>2. \A k \in U, c \in CapSlots : cp[c].import_token = k => took[c].import_token = k
    BY <1>2, <2>1
  <2> QED BY <1>7, <2>2 DEF Lined
<1> QED BY <1>3, <1>5, <1>6, <1>7 DEF Line, a

\* The scratch buffer goes out when nothing is to come any more.
LEMMA LineScratch ==
  ASSUME NEW b, b = <<>>, NEW cp \in [CapSlots -> Frame], NEW done, Single(cp), Undequeued(cp, done),
         \A c \in CapSlots : ~cp[c].queued, CapSlots # {}, NEW U \in SUBSET Tokens,
         NEW st, st # "Streaming", NEW ph, Line(b, cp, done, U, st, ph)
  PROVE  Line(b, queue_capture_scratch(cp), done, U, st, ph)
<1> DEFINE f   == free_capture(cp)
           cp2 == queue_capture_scratch(cp)
           v   == [queued |-> TRUE, import_token |-> NoToken, buf |-> Scratch]
<1>1. f \in CapSlots
  BY Zenon DEF free_capture
<1>2. /\ cp2[f] = v /\ \A c \in CapSlots : c # f => cp2[c] = cp[c]
  BY <1>1 DEF queue_capture_scratch, queue_capture_import
<1>3. v.import_token = NoToken
  OBVIOUS
<1> HIDE DEF f, cp2, v
<1>4. (\A i \in DOMAIN done : FALSE) /\ (\A i \in DOMAIN b : FALSE)
  <2>1. \A i \in DOMAIN done : FALSE
    BY DEF Undequeued
  <2>2. \A i \in DOMAIN b : FALSE
    OBVIOUS
  <2> QED BY <2>1, <2>2
<1>5. \A c \in CapSlots : cp[c].import_token = NoToken
  BY DEF Single, IdleFrame
<1>6. Matched(cp2, done, ph) /\ Backed(b)
  BY <1>4 DEF Matched, Backed
<1>7. ASSUME ph # "last" PROVE Foremost(cp2, done, U, st) /\ Lined(b, cp2, U)
  <2>1. Lined(b, cp, U)
    BY <1>7 DEF Line
  <2>2. \A k \in U : k # NoToken
    BY DEF Tokens, NoToken
  <2>3. U = {}
    BY <1>4, <1>5, <2>1, <2>2 DEF Lined
  <2> QED BY <1>2, <1>3, <1>4, <2>3 DEF Foremost, Lined
<1> QED BY <1>6, <1>7 DEF Line, cp2

\* A picture is submitted while the pool streams.
LEMMA LinePush ==
  ASSUME NEW b, NEW b2, NEW cp \in [CapSlots -> Frame], NEW done, NEW U \in SUBSET Tokens,
         NEW k \in Tokens, \A j \in U : j < k,
         DOMAIN b \subseteq DOMAIN b2,
         \A i \in DOMAIN b2 : \/ i \in DOMAIN b /\ b2[i] = b[i]
                              \/ b2[i].token = k /\ b2[i].buf # None,
         \A i \in DOMAIN b : b2[i] = b[i],
         \E i \in DOMAIN b2 : b2[i].token = k,
         NEW ph, Line(b, cp, done, U, "Streaming", ph)
  PROVE  Line(b2, cp, done, U \cup {k}, "Streaming", ph)
<1>1. Backed(b2)
  BY DEF Line, Backed
<1>2. ASSUME ph # "last" PROVE Lined(b2, cp, U \cup {k})
  BY <1>2 DEF Line, Lined
<1>3. ASSUME ph # "last" PROVE Foremost(cp, done, U \cup {k}, "Streaming")
  <2>1. \A i \in U : i <= k
    <3>1. \A i, j \in Tokens : i < j => i <= j
      BY SlotsAssumption DEF Tokens
    <3> QED BY <3>1
  <2> QED BY <1>3, <2>1 DEF Line, Foremost
<1> QED BY <1>1, <1>2, <1>3 DEF Line

\* The decoder writes the next picture into the buffer it owns.
LEMMA LineWrites ==
  ASSUME NEW b, NEW cp \in [CapSlots -> Frame], NEW done \in Seq(CapReturn),
         NEW U \in SUBSET Tokens, NEW k \in U, \A j \in U : k <= j,
         Single(cp), Asc(b, cp), NEW c \in CapSlots, cp[c].queued,
         \A i \in DOMAIN done : done[i].slot # c,
         NEW e \in CapReturn, e.slot = c, e.ts = k, e.payload,
         NEW st, NEW ph, ph # "last", Line(b, cp, done, U, st, ph)
  PROVE  Line(b, cp, Append(done, e), U \ {k}, st, ph)
<1> DEFINE a == Append(done, e)
           l == Len(done) + 1
<1>1. /\ l \in DOMAIN a /\ a[l] = e /\ \A i \in DOMAIN done : i \in DOMAIN a /\ a[i] = done[i]
      /\ \A i \in DOMAIN a : i \in DOMAIN done \/ i = l
  <2>1. Len(done) + 1 \in 1..(Len(done) + 1)
    BY LenProperties
  <2> QED BY <2>1, Appended
<1> HIDE DEF a, l
<1>2. cp[c].import_token = k
  <2>1. cp[c].import_token \in U /\ cp[c].import_token <= k
    BY DEF Line, Foremost
  <2>2. \A i, j \in Tokens : i <= j /\ j <= i => i = j
    BY SlotsAssumption DEF Tokens
  <2> QED BY <2>1, <2>2
<1>3. Matched(cp, a, ph)
  BY <1>1, <1>2 DEF Line, Matched
<1>4. Foremost(cp, a, U \ {k}, st)
  BY <1>1 DEF Single, Foremost
<1>5. Lined(b, cp, U \ {k})
  <2>1. \A i \in DOMAIN b : b[i].token # k
    <3>1. \A i \in DOMAIN b : cp[c].import_token < b[i].token
      BY DEF Asc
    <3>2. \A i \in Tokens : ~(i < i)
      BY SlotsAssumption DEF Tokens
    <3> QED BY <1>2, <3>1, <3>2
  <2> QED BY <2>1 DEF Line, Lined
<1> QED BY <1>3, <1>4, <1>5 DEF Line, a

\* Nothing is to come, and the decoder says so.
LEMMA LineLast ==
  ASSUME NEW b, NEW cp, NEW done \in Seq(CapReturn), NEW U, NEW st, NEW ph,
         NEW e \in CapReturn, ~e.payload, Line(b, cp, done, U, st, ph)
  PROVE  Line(b, cp, Append(done, e), U, st, "last")
<1> DEFINE a == Append(done, e)
           l == Len(done) + 1
<1>1. /\ a[l] = e /\ \A i \in DOMAIN done : a[i] = done[i]
      /\ \A i \in DOMAIN a : i \in DOMAIN done \/ i = l
  BY Appended
<1> HIDE DEF a, l
<1>2. Matched(cp, a, "last")
  BY <1>1 DEF Line, Matched
<1> QED BY <1>2 DEF Line, a

\* A pool begins with every live picture in its backlog.
LEMMA LineBegins ==
  ASSUME NEW b, NEW done, DOMAIN done = {}, NEW U, NEW st, NEW ph, Backed(b),
         \A i \in DOMAIN b : b[i].token \in U, \A k \in U : \E i \in DOMAIN b : b[i].token = k
  PROVE  /\ Line(b, fresh_capture, done, U, st, ph) /\ Single(fresh_capture)
         /\ Undequeued(fresh_capture, done)
<1>1. \A c \in CapSlots : fresh_capture[c] = IdleFrame /\ ~fresh_capture[c].queued
  BY DEF fresh_capture, IdleFrame
<1> QED BY <1>1 DEF Line, Matched, Foremost, Lined, Single, Undequeued

\* The session goes on, or stops, around a pool that stays as it is.
LEMMA LineStays ==
  ASSUME NEW b, NEW cp, NEW done, NEW U, NEW st, NEW ph, Line(b, cp, done, U, st, ph),
         NEW st2, st2 = "Streaming" => st = "Streaming", NEW ph2, ph2 = ph \/ (ph # "last" /\ ph2 # "last")
  PROVE  Line(b, cp, done, U, st2, ph2)
<1>1. Matched(cp, done, ph2)
  BY DEF Line, Matched
<1>2. Foremost(cp, done, U, st) => Foremost(cp, done, U, st2)
  BY DEF Foremost
<1> QED BY <1>1, <1>2 DEF Line

-----------------------------------------------------------------------------
(* The pictures come in the order of their tokens.                         *)

\* Those that the decoder has to write.
Coming(q, fw) == fw \cup {q[i].token : i \in DOMAIN q}

\* Pictures are parsed, and written, in the order of their tokens, each once; every
\* token is one that has been given out.
InTurn(q, fw, done, nt) ==
  /\ \A i, j \in DOMAIN q : i < j => q[i].token < q[j].token
  /\ \A k \in fw, i \in DOMAIN q : k < q[i].token
  /\ \A k \in Coming(q, fw) : k < nt
  /\ \A i \in DOMAIN done : done[i].ts \notin Coming(q, fw) /\ done[i].ts < nt

\* What waits in the queues carries tokens.
LEMMA Carried ==
  ASSUME NEW q \in Seq(AccessUnit), NEW done \in Seq(CapReturn)
  PROVE  /\ \A i \in DOMAIN q : q[i].token \in Tokens
         /\ \A i \in DOMAIN done : done[i].ts \in Tokens \cup {NoToken}
<1>1. \A i \in DOMAIN q : q[i] \in AccessUnit
  BY LenProperties, ElementOfSeq
<1>2. \A i \in DOMAIN done : done[i] \in CapReturn
  BY LenProperties, ElementOfSeq
<1> QED BY <1>1, <1>2 DEF AccessUnit, CapReturn

\* A new access unit.
LEMMA TurnPush ==
  ASSUME NEW q \in Seq(AccessUnit), NEW e \in AccessUnit, NEW fw \in SUBSET Tokens,
         NEW done \in Seq(CapReturn), NEW nt \in Nat, e.token = nt, InTurn(q, fw, done, nt)
  PROVE  /\ InTurn(Append(q, e), fw, done, nt + 1)
         /\ Coming(Append(q, e), fw) = Coming(q, fw) \cup {nt}
<1> DEFINE a == Append(q, e)
           l == Len(q) + 1
<1>1. /\ l \in DOMAIN a /\ a[l] = e /\ \A i \in DOMAIN q : i \in DOMAIN a /\ a[i] = q[i]
      /\ \A i \in DOMAIN a : i \in DOMAIN q \/ i = l
      /\ (\A i \in DOMAIN q : ~(l < i)) /\ ~(l < l)
  <2>1. Len(q) \in Nat /\ DOMAIN q = 1..Len(q) /\ Len(q) + 1 \in 1..(Len(q) + 1)
    BY LenProperties
  <2>2. (\A i \in DOMAIN q : ~(Len(q) + 1 < i)) /\ ~(Len(q) + 1 < Len(q) + 1)
    BY <2>1
  <2> QED BY <2>1, <2>2, Appended
<1> HIDE DEF a, l
<1>2. Coming(a, fw) = Coming(q, fw) \cup {nt}
  BY <1>1 DEF Coming
<1>3. /\ \A k \in Coming(q, fw) : k \in Nat /\ k < nt
      /\ \A i \in DOMAIN done : done[i].ts \in Nat /\ done[i].ts < nt
  <2>1. \A i \in DOMAIN q : q[i].token \in Tokens
    BY Carried
  <2>2. \A i \in DOMAIN done : done[i].ts \in Tokens \cup {NoToken}
    BY Carried
  <2>3. \A k \in Tokens \cup {NoToken} : k \in Nat
    BY SlotsAssumption DEF Tokens, NoToken
  <2> QED BY <2>1, <2>2, <2>3 DEF Coming, InTurn
<1>4. \A k \in Coming(a, fw) : k < nt + 1
  BY <1>2, <1>3
<1>5. \A i \in DOMAIN done : done[i].ts \notin Coming(a, fw) /\ done[i].ts < nt + 1
  BY <1>2, <1>3 DEF InTurn
<1>6. \A i, j \in DOMAIN a : i < j => a[i].token < a[j].token
  <2> SUFFICES ASSUME NEW i \in DOMAIN a, NEW j \in DOMAIN a, i < j
               PROVE  a[i].token < a[j].token
    OBVIOUS
  <2>1. i \in DOMAIN q /\ a[i] = q[i]
    BY <1>1
  <2>2. CASE j \in DOMAIN q
    BY <1>1, <2>1, <2>2 DEF InTurn
  <2>3. CASE a[j] = e
    BY <1>3, <2>1, <2>3 DEF Coming
  <2> QED BY <1>1, <2>2, <2>3
<1>7. \A k \in fw, i \in DOMAIN a : k < a[i].token
  BY <1>1, <1>3 DEF InTurn, Coming
<1> QED BY <1>2, <1>4, <1>5, <1>6, <1>7 DEF InTurn, a

\* An access unit is parsed, or thrown away.
LEMMA TurnParse ==
  ASSUME NEW q \in Seq(AccessUnit), q # <<>>, NEW fw, NEW done, NEW nt, InTurn(q, fw, done, nt)
  PROVE  /\ InTurn(Tail(q), fw \cup {Head(q).token}, done, nt)
         /\ Coming(Tail(q), fw \cup {Head(q).token}) = Coming(q, fw)
         /\ InTurn(Tail(q), fw, done, nt)
<1> DEFINE a == Tail(q)
           k == Head(q).token
<1>1. /\ k = q[1].token /\ 1 \in DOMAIN q
      /\ \A i \in DOMAIN a : i + 1 \in DOMAIN q /\ a[i] = q[i + 1] /\ 1 < i + 1
      /\ \A i, j \in DOMAIN a : i < j => i + 1 < j + 1
      /\ \A i \in DOMAIN q : i = 1 \/ (i - 1 \in DOMAIN a /\ a[i - 1] = q[i])
  <2>1. /\ Head(q) = q[1] /\ Len(q) \in Nat /\ Len(q) >= 1 /\ DOMAIN q = 1..Len(q)
        /\ DOMAIN Tail(q) = 1..(Len(q) - 1)
        /\ \A i \in DOMAIN Tail(q) : i + 1 \in DOMAIN q /\ Tail(q)[i] = q[i + 1]
        /\ \A i \in DOMAIN q : i = 1 \/ (i - 1 \in DOMAIN Tail(q) /\ Tail(q)[i - 1] = q[i])
    BY Beheaded
  <2> DEFINE l == Len(q)
  <2>2. l \in Nat /\ l >= 1 /\ DOMAIN q = 1..l /\ DOMAIN a = 1..(l - 1)
    BY <2>1
  <2> HIDE DEF l, a
  <2>3. 1 \in DOMAIN q /\ (\A i \in DOMAIN a : 1 < i + 1) /\ \A i, j \in DOMAIN a : i < j => i + 1 < j + 1
    BY <2>2
  <2> QED BY <2>1, <2>3 DEF a
<1> HIDE DEF a, k
<1>2. Coming(a, fw \cup {k}) = Coming(q, fw)
  <2>1. \A i \in DOMAIN q : q[i].token = k \/ \E j \in DOMAIN a : a[j].token = q[i].token
    BY <1>1
  <2>2. \A j \in DOMAIN a : \E i \in DOMAIN q : q[i].token = a[j].token
    BY <1>1
  <2> QED BY <1>1, <2>1, <2>2 DEF Coming
<1>3. Coming(a, fw) \subseteq Coming(q, fw)
  BY <1>1 DEF Coming
<1>4. \A i \in DOMAIN a : k < a[i].token /\ \A j \in fw : j < a[i].token
  BY <1>1 DEF InTurn
<1>5. \A i, j \in DOMAIN a : i < j => a[i].token < a[j].token
  BY <1>1 DEF InTurn
<1>6. InTurn(a, fw, done, nt)
  BY <1>3, <1>4, <1>5 DEF InTurn
<1>7. InTurn(a, fw \cup {k}, done, nt)
  BY <1>2, <1>4, <1>5 DEF InTurn
<1> QED BY <1>2, <1>6, <1>7 DEF a, k

\* A buffer comes back, with a picture of the decoder's or with none.
LEMMA TurnWrite ==
  ASSUME NEW q \in Seq(AccessUnit), NEW fw \in SUBSET Tokens, NEW done \in Seq(CapReturn),
         NEW nt \in Nat \ {0}, InTurn(q, fw, done, nt),
         NEW e \in CapReturn, NEW k \in fw \cup {NoToken}, e.ts \in {k, NoToken}
  PROVE  /\ InTurn(q, fw \ {k}, Append(done, e), nt)
         /\ Coming(q, fw \ {k}) = Coming(q, fw) \ {k}
<1> DEFINE a == Append(done, e)
           l == Len(done) + 1
<1>1. /\ a[l] = e /\ \A i \in DOMAIN done : a[i] = done[i]
      /\ \A i \in DOMAIN a : i \in DOMAIN done \/ i = l
  BY Appended
<1> HIDE DEF a, l
<1>2. \A i \in DOMAIN q : q[i].token \in Tokens /\ q[i].token # k
  <2>1. \A i \in DOMAIN q : q[i].token \in Tokens
    BY Carried
  <2>2. \A j \in Tokens : ~(j < j) /\ j # NoToken
    BY SlotsAssumption DEF Tokens, NoToken
  <2> QED BY <2>1, <2>2 DEF InTurn
<1>3. Coming(q, fw \ {k}) = Coming(q, fw) \ {k}
  BY <1>2 DEF Coming
<1>4. e.ts < nt /\ e.ts \notin Coming(q, fw \ {k})
  <2>1. NoToken < nt /\ \A j \in Coming(q, fw) : j # NoToken
    BY <1>2 DEF Coming, NoToken, Tokens
  <2> QED BY <1>3, <2>1 DEF InTurn, Coming
<1>5. InTurn(q, fw \ {k}, a, nt)
  BY <1>1, <1>3, <1>4 DEF InTurn
<1> QED BY <1>3, <1>5 DEF a

\* A buffer is dequeued.
LEMMA TurnTake ==
  ASSUME NEW q, NEW fw, NEW done \in Seq(CapReturn), done # <<>>, NEW nt, InTurn(q, fw, done, nt)
  PROVE  InTurn(q, fw, Tail(done), nt)
<1>1. \A i \in DOMAIN Tail(done) : i + 1 \in DOMAIN done /\ Tail(done)[i] = done[i + 1]
  BY Beheaded
<1> QED BY <1>1 DEF InTurn

\* The order of the pictures, in the session.
Turns == InTurn(outQ, inFw, capDone, next_token)

\* What the decoder does to its queues.
LEMMA FirmwareTurns ==
  ASSUME TypeOK, Firmware, Turns, next_token \in Nat \ {0}
  PROVE  Turns'
<1>1. /\ outQ \in Seq(AccessUnit) /\ inFw \in SUBSET Tokens /\ capDone \in Seq(CapReturn)
      /\ next_token' = next_token /\ FirmwareStep
  BY DEF TypeOK, DecoderTypeOK, Firmware, driverVars
<1>2. CASE UNCHANGED <<outQ, inFw, capDone>>
  BY <1>1, <1>2 DEF Turns
<1>3. CASE FwDecode
  BY <1>1, <1>3, TurnParse DEF FwDecode, Decoding, Turns
<1>4. CASE FwReject
  BY <1>1, <1>4, TurnParse DEF FwReject, Decoding, Turns
<1>5. ASSUME NEW c \in CapSlots, FwLast(c) PROVE Turns'
  <2> DEFINE e == [slot |-> c, ts |-> NoToken, last |-> TRUE, error |-> FALSE, payload |-> FALSE]
  <2>1. /\ capDone' = Append(capDone, e) /\ UNCHANGED <<outQ, inFw>>
        /\ e \in CapReturn /\ e.ts = NoToken
    BY <1>5 DEF FwLast, Emit, CapReturn
  <2> HIDE DEF e
  <2>2. InTurn(outQ, inFw \ {NoToken}, Append(capDone, e), next_token)
    BY <1>1, <2>1, TurnWrite DEF Turns
  <2>3. inFw \ {NoToken} = inFw
    BY <1>1 DEF Tokens, NoToken
  <2> QED BY <1>1, <2>1, <2>2, <2>3 DEF Turns
<1>6. ASSUME NEW k \in Tokens, NEW c \in CapSlots, FwEmit(k, c) \/ FwSpoil(k, c) PROVE Turns'
  <2>1. PICK e : /\ e \in CapReturn /\ e.ts \in {k, NoToken}
                 /\ capDone' = Append(capDone, e) /\ UNCHANGED outQ /\ inFw' = inFw \ {k}
    BY <1>6 DEF FwEmit, FwSpoil, Emit, CapReturn
  <2>2. k \in inFw
    BY <1>6 DEF FwEmit, FwSpoil, NextOut
  <2>3. InTurn(outQ, inFw \ {k}, Append(capDone, e), next_token)
    <3>1. InTurn(outQ, inFw, capDone, next_token) /\ e \in CapReturn /\ e.ts \in {k, NoToken}
          /\ k \in inFw \cup {NoToken}
      BY <2>1, <2>2 DEF Turns
    <3> QED BY <1>1, <3>1, TurnWrite
  <2> QED BY <1>1, <2>1, <2>3 DEF Turns
<1> QED BY <1>1, <1>2, <1>3, <1>4, <1>5, <1>6 DEF FirmwareStep, FwAnnounce, FwResolutionChange,
           FwReturnOutput

\* Every step keeps the order.
LEMMA TurnsStep ==
  ASSUME PixelInv, Turns, [Next]_vars PROVE Turns'
<1>1. /\ TypeOK /\ outQ \in Seq(AccessUnit) /\ inFw \in SUBSET Tokens
      /\ capDone \in Seq(CapReturn) /\ next_token \in Nat \ {0}
  BY PixelTypes DEF PixelInv, SettledInv, TypeInv, TypeOK, DecoderTypeOK
<1>2. CASE UNCHANGED <<next_token, out, outQ, inFw, outDone, capDone>>
  BY <1>2 DEF Turns
<1>3. CASE Accept
  <2> DEFINE e == [slot |-> free_output(out), token |-> next_token, geom |-> SurfGeom[arg]]
  <2>1. /\ outQ' = Append(outQ, e) /\ UNCHANGED <<inFw, capDone>> /\ next_token' = next_token + 1
    BY <1>3 DEF Accept, NewToken
  <2>2. e \in AccessUnit /\ e.token = next_token
    <3>1. free_output(out) \in OutSlots
      BY <1>3, FreeOutput DEF Accept, free_outputs
    <3>2. arg \in Targets /\ next_token \in Tokens
      BY <1>3, AcceptSound
    <3> QED BY <3>1, <3>2, DecoderAssumption DEF AccessUnit
  <2> HIDE DEF e
  <2> QED BY <1>1, <2>1, <2>2, TurnPush DEF Turns
<1>4. CASE ReturnOutput
  BY <1>4 DEF ReturnOutput, Turns
<1>5. CASE ReturnCapture
  BY <1>1, <1>5, TurnTake DEF ReturnCapture, Turns
<1>6. CASE Drained
  <2>1. UNCHANGED <<outQ, next_token>>
        /\ (UNCHANGED <<inFw, capDone>> \/ (inFw' = {} /\ capDone' = <<>>))
    BY <1>6 DEF Drained
  <2>2. InTurn(outQ, {}, <<>>, next_token)
    BY DEF InTurn, Coming, Turns
  <2> QED BY <2>1, <2>2 DEF Turns
<1> QED BY <1>1, <1>2, <1>3, <1>4, <1>5, <1>6, QueueSteps, FirmwareTurns

-----------------------------------------------------------------------------
(* The pictures want their buffers.                                        *)

\* A picture that is pending, or about to be submitted, has a buffer to go to.
Wants ==
  \A t \in Targets :
    target[t].pending \/ (arg = t /\ call \in {"submit", "slot"}) => target[t].destination

\* Only submit() begins a submit.
LEMMA SubmitCalls ==
  ASSUME [Next]_vars, call' \in {"submit", "slot"}
  PROVE  \/ call \in {"submit", "slot"} /\ arg' = arg
         \/ \E t \in Targets, p \in Policies : Submit(t, p)
<1>1. CASE UNCHANGED <<call, arg>>
  BY <1>1
<1>2. ASSUME NEW result, Return(result) PROVE FALSE
  BY <1>2 DEF Return
<1>3. ASSUME NEW c \in {"service", "wait"}, NEW t, Enter(c, t) PROVE FALSE
  BY <1>3 DEF Enter
<1>4. ASSUME NEW p, Goto(p) PROVE UNCHANGED <<call, arg>>
  BY <1>4 DEF Goto
<1>5. CASE Client \/ \E t \in Targets : Relock(t)
  <2>1. ASSUME NEW t \in Targets, WaitSettled(t) \/ Release(t) PROVE UNCHANGED <<call, arg>>
    BY <2>1, Zenon DEF WaitSettled, Release
  <2>2. ASSUME Finish PROVE UNCHANGED <<call, arg>>
    BY <2>2 DEF Finish
  <2> QED BY <1>1, <1>3, <1>5, <2>1, <2>2 DEF Client, Relock, Service, Wait
<1>6. CASE Configure \/ PumpTail \/ Rebuild
  BY <1>1, <1>2, <1>4, <1>6, Zenon DEF Configure, PumpTail, Rebuild, Reconfigure, Throw
<1>7. CASE ReturnCapture \/ DrainTurn
  <2>1. ASSUME NEW d, NEW k, NEW r, Complete(d, k, r) PROVE (\E p : Goto(p)) \/ Return("error")
    BY <2>1, Zenon DEF Complete, Throw
  <2>2. ReturnCapture => (\E p : Goto(p)) \/ Return("error")
    BY <2>1, Zenon DEF ReturnCapture, Throw
  <2>3. DrainTurn => (\E p : Goto(p)) \/ Return("error")
    BY Zenon DEF DrainTurn, Throw
  <2> QED BY <1>1, <1>2, <1>4, <1>7, <2>2, <2>3
<1>8. CASE HandleEvents \/ ReturnOutput \/ LoopEnds \/ LastSeen \/ Drained \/ Start
  <2>1. UNCHANGED <<call, arg>> \/ Return("ok")
    BY <1>8 DEF HandleEvents, ReturnOutput, LoopEnds, LastSeen, Drained, Start, Goto
  <2> QED BY <1>1, <1>2, <2>1
<1>9. CASE CallDone \/ WaitReturns \/ SubmitGivesUp \/ DrainExpires \/ DequeueError
  BY <1>2, <1>9 DEF CallDone, WaitReturns, SubmitGivesUp, DrainExpires, DequeueError, Throw
<1>10. CASE Accept
  <2>1. call' = "bringup" \/ Return("error")
    BY <1>10, Zenon DEF Accept
  <2> QED BY <1>2, <2>1
<1>11. CASE SubmitLoops \/ WaitPolls \/ StartBusy \/ WaitExpires
  BY <1>1, <1>2, <1>4, <1>11
     DEF SubmitLoops, WaitPolls, StartBusy, WaitExpires, PumpAgain
<1>12. CASE Firmware \/ UNCHANGED vars
  BY <1>1, <1>12 DEF Firmware, vars, driverVars
<1> QED BY <1>5, <1>6, <1>7, <1>8, <1>9, <1>10, <1>11, <1>12 DEF Next, Working, Looping, Expiring

\* Where a picture is to go is settled before it is submitted.
LEMMA WantsStep ==
  ASSUME "Direct" \notin Policies, PixelInv, Courses, Wants, [Next]_vars PROVE Wants'
<1>1. Pictured
  BY PicturesStep
<1>2. \A t \in Targets : Stays(target[t], target'[t]) /\ target[t].pending => target'[t].destination
  BY DEF Stays, Wants
<1>3. ASSUME NEW t \in Targets, target'[t].pending PROVE target'[t].destination
  <2>1. ~Drops(target[t], target'[t])
    BY <1>3 DEF Drops
  <2>2. CASE Stays(target[t], target'[t])
    BY <1>2, <1>3, <2>2 DEF Stays
  <2>3. CASE Accepting(t)
    BY <2>3 DEF Accepting, Wants
  <2>4. ASSUME NEW u \in Targets, Accepting(u) \/ Publishing(u) \/ Releasing(u)
        PROVE  target'[t].destination
    BY <1>3, <2>1, <2>2, <2>3, <2>4 DEF Accepting, Publishing, Releasing, Apart
  <2> QED BY <1>1, <2>1, <2>2, <2>4 DEF Pictured, Losing
<1>4. ASSUME NEW t \in Targets, arg' = t, call' \in {"submit", "slot"} PROVE target'[t].destination
  <2>1. CASE call \in {"submit", "slot"} /\ arg' = arg
    <3>1. ~target[t].pending /\ target[t].destination /\ call # "none"
      BY <1>4, <2>1 DEF PixelInv, SettledInv, TypeInv, Places, CallShape, Wants
    <3>2. ~Drops(target[t], target'[t]) /\ ~Publishing(t) /\ ~Releasing(t)
      BY <3>1 DEF Drops, Publishing, Releasing
    <3>3. Stays(target[t], target'[t]) \/ Accepting(t)
      BY <1>1, <3>1, <3>2 DEF Pictured, Losing, Accepting, Publishing, Releasing, Apart
    <3> QED BY <3>1, <3>3 DEF Stays, Accepting
  <2>2. ASSUME NEW u \in Targets, NEW p \in Policies, Submit(u, p) PROVE target'[t].destination
    <3> DEFINE r == IF target[u].pending THEN Released(target[u]) ELSE target[u]
               x == [r EXCEPT !.publish = p, !.destination = (p # "Direct")]
    <3>1. u = t /\ p # "Direct" /\ target' = [target EXCEPT ![u] = x]
      BY <1>4, <2>2 DEF Submit
    <3>2. r \in Target
      BY PixelTypes, ReleasedFields DEF Typed
    <3> HIDE DEF r
    <3>3. x.destination = (p # "Direct")
      BY <3>2 DEF Target
    <3> HIDE DEF x
    <3>4. target'[u] = x
      BY <3>1, Elsewhere
    <3> QED BY <3>1, <3>3, <3>4
  <2> QED BY <1>4, <2>1, <2>2, SubmitCalls
<1> QED BY <1>3, <1>4 DEF Wants

-----------------------------------------------------------------------------
(* What may happen to a pool of client buffers while nothing fails.        *)

\* The pool streams, is drained by finish(), or is done with.
Steady ==
  /\ state \in {"Streaming", "Draining", "Finished"}
  /\ state = "Streaming" => phase = "run"
  /\ state = "Draining" => pc \in DrainPcs

\* A session of one geometry in which nothing has failed.
Healthy ==
  /\ PixelInv /\ Courses /\ OneChange /\ Mapped /\ Undrained /\ Well /\ Clean
  /\ Wants /\ Turns /\ AscInv

Importing == Healthy /\ memory = "Import" /\ Steady

\* What every step does that touches neither the buffers nor the pictures to come.
Calm ==
  /\ UNCHANGED <<memory, import_backlog, cap, capDone, outQ, inFw>>
  /\ \/ UNCHANGED <<state, phase>> /\ (state = "Draining" => pc' \in DrainPcs)
     \/ state' = "Finished" /\ UNCHANGED phase
     \/ state = "Streaming" /\ state' = "Draining" /\ phase' = "stop" /\ pc' = "drain"

\* The clients' calls do.
LEMMA CalmClient ==
  ASSUME Importing, Client \/ \E t \in Targets : Relock(t) PROVE Calm
<1>1. /\ call = "none" => state # "Draining"
      /\ state \notin {"Reconfiguring", "Failed"} /\ ~Fault
      /\ \A tg : requeue_capture(memory, cap, tg) = cap
  <2>1. call = "none" => pc = "idle"
    BY DEF Importing, Healthy, PixelInv, SettledInv, Places
  <2> QED BY <2>1, NoFault DEF Importing, Healthy, Steady, DrainPcs, requeue_capture
<1>2. ASSUME call = "none", UNCHANGED <<memory, import_backlog, cap, capDone, outQ, inFw, state, phase>>
      PROVE  Calm
  BY <1>1, <1>2 DEF Calm
<1>3. ASSUME NEW tg, PumpStart(tg), call = "none",
             UNCHANGED <<memory, import_backlog, state, decoderVars>>
      PROVE  Calm
  <2>1. cap' = cap
    BY <1>1, <1>3 DEF PumpStart
  <2> QED BY <1>2, <1>3, <2>1 DEF decoderVars
<1>4. ASSUME NEW t \in Targets, NEW p \in Policies, Submit(t, p) PROVE Calm
  BY <1>3, <1>4 DEF Submit
<1>5. ASSUME NEW c, NEW t, Enter(c, t) PROVE Calm
  BY <1>3, <1>5 DEF Enter
<1>6. ASSUME NEW t \in Targets, WaitSettled(t) PROVE Calm
  BY <1>2, <1>6 DEF WaitSettled, decoderVars
<1>7. ASSUME NEW t \in Targets, Release(t) PROVE Calm
  <2>1. call = "none" /\ UNCHANGED <<memory, import_backlog, cap, state, decoderVars>>
    BY <1>1, <1>7, Zenon DEF Release
  <2> QED BY <1>2, <2>1 DEF decoderVars
<1>8. ASSUME Finish PROVE Calm
  <2>1. UNCHANGED <<memory, cap, capDone, outQ, inFw>>
    BY <1>8 DEF Finish, drainRest
  <2>2. \/ state = "Streaming" /\ BeginDrain("finish")
        \/ state' = "Finished" /\ UNCHANGED <<phase, import_backlog>>
    BY <1>1, <1>8 DEF Finish, StopBusy
  <2> QED BY <2>1, <2>2 DEF BeginDrain, Calm
<1> QED BY <1>4, <1>5, <1>6, <1>7, <1>8 DEF Client, Relock, Service, Wait

\* The passes and the drain of finish() do, when they queue nothing.
LEMMA CalmLoops ==
  ASSUME Importing, HandleEvents \/ ReturnOutput \/ LoopEnds \/ LastSeen \/ Drained \/ PumpTail
  PROVE  Calm
<1>1. /\ state = "Draining" => pc \in DrainPcs
      /\ state # "Reconfiguring" /\ ~(source_change /\ state = "Streaming")
      /\ requeue_capture(memory, cap, target) = cap
      /\ drain_for # "drc" /\ drain_for # "timeout"
  <2>1. drain_for = "timeout" => \E t \in Targets : waiter[t] = "drained"
    BY DEF Importing, Healthy, Courses, PixelInv, SettledInv, TypeInv, CallShape
  <2>2. mode # "DisplayOrder" => \A t \in Targets : waiter[t] # "drained"
    BY DEF Importing, Healthy, Undrained, NobodyDrains
  <2> QED BY <2>1, <2>2 DEF Importing, Healthy, Steady, OneChange, Running, Mapped, requeue_capture
<1>2. CASE HandleEvents
  <2>1. UNCHANGED <<memory, import_backlog, cap, capDone, outQ, inFw, state, phase>>
    BY <1>2 DEF HandleEvents
  <2>2. pc \in DrainPcs => pc' \in DrainPcs
    BY <1>2 DEF HandleEvents, Goto, DrainPcs
  <2> QED BY <1>1, <2>1, <2>2 DEF Calm
<1>3. CASE ReturnOutput
  BY <1>1, <1>3 DEF ReturnOutput, Calm
<1>4. CASE LoopEnds \/ LastSeen
  <2>1. UNCHANGED <<memory, import_backlog, cap, capDone, outQ, inFw, state, phase>>
    BY <1>4 DEF LoopEnds, LastSeen, decoderVars
  <2>2. pc \in DrainPcs => pc' \in DrainPcs
    BY <1>4 DEF LoopEnds, LastSeen, Goto, DrainPcs
  <2> QED BY <1>1, <2>1, <2>2 DEF Calm
<1>5. CASE Drained
  <2>1. UNCHANGED <<memory, import_backlog, cap, capDone, outQ, inFw, phase>> /\ state' = "Finished"
    BY <1>1, <1>5 DEF Drained
  <2> QED BY <2>1 DEF Calm
<1>6. CASE PumpTail
  <2>1. UNCHANGED <<memory, import_backlog, cap, capDone, outQ, inFw, state, phase>>
    BY <1>1, <1>6 DEF PumpTail, decoderVars
  <2>2. pc \notin DrainPcs
    BY <1>6 DEF PumpTail, DrainPcs
  <2> QED BY <1>1, <2>1, <2>2 DEF Calm
<1> QED BY <1>2, <1>3, <1>4, <1>5, <1>6

\* And so does what a call does between its passes.
LEMMA CalmAfter ==
  ASSUME Importing,
         \/ CallDone \/ SubmitLoops \/ SubmitGivesUp \/ WaitReturns \/ WaitPolls \/ WaitExpires
         \/ StartBusy \/ Start \/ DrainExpires \/ DequeueError \/ Configure \/ Rebuild
  PROVE  Calm
<1>1. /\ state = "Draining" => pc \in DrainPcs
      /\ state \in {"Streaming", "Draining", "Finished"} /\ ~Fault /\ mode # "DisplayOrder"
      /\ requeue_capture(memory, cap, target) = cap
  BY NoFault DEF Importing, Healthy, Steady, Mapped, requeue_capture
<1>2. ~(StartBusy \/ Start \/ DrainExpires \/ DequeueError \/ Configure \/ Rebuild)
  BY <1>1 DEF StartBusy, Start, DrainExpires, DequeueError, Configure, Rebuild, Importing,
     Healthy, Courses
<1>3. pc = "return" /\ pc \notin DrainPcs
  BY <1>2 DEF CallDone, SubmitLoops, SubmitGivesUp, WaitReturns, WaitPolls, WaitExpires, DrainPcs
<1>4. UNCHANGED <<memory, import_backlog, cap, capDone, outQ, inFw, state, phase>>
  <2>1. CASE CallDone \/ SubmitGivesUp \/ WaitReturns \/ WaitPolls
    BY <2>1 DEF CallDone, SubmitGivesUp, WaitReturns, WaitPolls, callRest, decoderVars
  <2>2. CASE SubmitLoops
    <3>1. PumpStart(target) /\ UNCHANGED callRest
      BY <2>2 DEF SubmitLoops, PumpAgain
    <3> QED BY <1>1, <3>1 DEF PumpStart, callRest, decoderVars
  <2>3. CASE WaitExpires
    BY <1>1, <2>3 DEF WaitExpires, drainRest
  <2> QED BY <1>2, <2>1, <2>2, <2>3
<1> QED BY <1>1, <1>3, <1>4 DEF Calm

\* All but five kinds of steps.
LEMMA CalmSteps ==
  ASSUME Importing, [Next]_vars
  PROVE  Calm \/ Accept \/ ReturnCapture \/ DrainTurn \/ Firmware
<1>1. CASE UNCHANGED vars
  BY <1>1 DEF vars, driverVars, decoderVars, Calm, Importing, Steady
<1> QED BY <1>1, CalmClient, CalmLoops, CalmAfter DEF Next, Working, Looping, Expiring

-----------------------------------------------------------------------------
(* The buffers are ready for the pictures to come.                         *)

Ready == Line(import_backlog, cap, capDone, Unwritten, state, phase)

\* The queues and the pool, as the lemmas about Line want them.
LEMMA ReadyNow ==
  ASSUME Healthy
  PROVE  /\ Undequeued(cap, capDone) /\ (memory = "Import" => Single(cap))
         /\ Unwritten = Coming(outQ, inFw) /\ Unwritten \in SUBSET Tokens
         /\ outQ \in Seq(AccessUnit) /\ inFw \in SUBSET Tokens /\ capGeom \in Geoms
         /\ fwGeom \in Geoms /\ ~Fault /\ TypeInv
<1>1. /\ outQ \in Seq(AccessUnit) /\ inFw \in SUBSET Tokens /\ capGeom \in Geoms
      /\ fwGeom \in Geoms /\ TypeInv /\ TypeOK
  BY DEF Healthy, PixelInv, SettledInv, TypeInv, TypeOK, DecoderTypeOK
<1>2. Unwritten = Coming(outQ, inFw)
  BY DEF Unwritten, Coming
<1>3. \A i \in DOMAIN outQ : outQ[i].token \in Tokens
  BY <1>1, Waiters
<1>4. Unwritten \in SUBSET Tokens
  BY <1>1, <1>3 DEF Unwritten
<1>5. Undequeued(cap, capDone)
  BY <1>1, Waiters DEF Healthy, PixelInv, Returned, Undequeued
<1>6. memory = "Import" => Single(cap)
  BY DEF Healthy, PixelInv, Sound, PoolOK, Single
<1> QED BY <1>1, <1>2, <1>4, <1>5, <1>6, NoFault DEF Healthy

\* A step that touches nothing.
LEMMA ReadyCalm ==
  ASSUME Importing, Ready, Calm PROVE Steady' /\ Ready'
<1>1. Steady'
  BY DEF Importing, Steady, Calm, DrainPcs
<1>2. UNCHANGED <<import_backlog, cap, capDone>> /\ Unwritten' = Unwritten
  BY DEF Calm, Unwritten
<1>3. /\ state' = "Streaming" => state = "Streaming"
      /\ phase' = phase \/ (phase # "last" /\ phase' # "last")
  BY DEF Importing, Steady, Calm
<1>4. Line(import_backlog, cap, capDone, Unwritten, state', phase')
  BY <1>3, LineStays DEF Ready
<1> QED BY <1>1, <1>2, <1>4 DEF Ready

\* submit() puts its buffer behind the others, or straight into the pool.
LEMMA ReadyAccept ==
  ASSUME Uniform, Importing, Ready, Accept PROVE Steady' /\ Ready'
<1>1. state = "Streaming" /\ phase = "run" /\ UNCHANGED <<state, phase, capDone>>
  BY DEF Importing, Healthy, Steady, Courses, Accept, DrainPcs
<1>2. PICK n, late, r : AcceptNext(n, late, r)
  BY AcceptNexts, Zenon DEF Importing, Healthy
<1> DEFINE b  == import_backlog
           b2 == NewBacklog
           e  == [token |-> next_token, buf |-> arg]
           l  == Len(b) + 1
           pd == NewPending
           U  == Unwritten
           U2 == Unwritten \cup {next_token}
<1>3. b2 = Append(b, e) /\ e.token = next_token /\ e.buf # None /\ next_token \in Tokens
  <2>1. arg \in Targets /\ target[arg].destination
    BY DEF Accept, Importing, Healthy, Wants, PixelInv, SettledInv, TypeInv, CallShape
  <2>2. next_token \in Tokens
    BY AcceptSound DEF Importing, Healthy
  <2> QED BY <2>1, <2>2, SlotsAssumption DEF Importing, NewBacklog, NewBuffer, push
<1>4. b2 \in Seq(ImportEntry) /\ Asc(b2, cap) /\ b \in Seq(ImportEntry) /\ e \in ImportEntry
  <2>1. arg \in Targets
    BY DEF Accept, Importing, Healthy, PixelInv, SettledInv, TypeInv, CallShape
  <2> QED BY <1>3, <2>1, PushAsc, PixelTypes DEF Importing, Healthy, ImportEntry
<1>5. /\ DOMAIN b \subseteq DOMAIN b2 /\ \A i \in DOMAIN b : b2[i] = b[i]
      /\ l \in DOMAIN b2 /\ b2[l] = e /\ \A i \in DOMAIN b2 : i \in DOMAIN b \/ i = l
  <2>1. l \in 1..l
    BY <1>4, LenProperties
  <2> QED BY <1>3, <1>4, <2>1, Appended
<1>6. Unwritten' = U2 /\ \A j \in U : j < next_token
  <2> DEFINE a == [slot |-> free_output(out), token |-> next_token, geom |-> SurfGeom[arg]]
  <2>1. outQ' = Append(outQ, a) /\ inFw' = inFw
    BY DEF Accept, NewToken
  <2>2. a \in AccessUnit /\ a.token = next_token
    <3>1. free_output(out) \in OutSlots
      BY FreeOutput DEF Accept, free_outputs
    <3>2. arg \in Targets
      BY DEF Accept, Importing, Healthy, PixelInv, SettledInv, TypeInv, CallShape
    <3> QED BY <1>3, <3>1, <3>2, DecoderAssumption DEF AccessUnit
  <2> HIDE DEF a
  <2>3. Coming(outQ', inFw') = Coming(outQ, inFw) \cup {next_token}
    <3>1. InTurn(outQ, inFw, capDone, next_token) /\ next_token \in Nat /\ capDone \in Seq(CapReturn)
          /\ outQ \in Seq(AccessUnit) /\ inFw \in SUBSET Tokens
      BY ReadyNow, PixelTypes DEF Importing, Healthy, Turns
    <3> QED BY <2>1, <2>2, <3>1, TurnPush
  <2>4. Unwritten' = Coming(outQ', inFw') /\ U = Coming(outQ, inFw)
    BY DEF Unwritten, Coming
  <2> QED BY <2>3, <2>4 DEF Importing, Healthy, Turns, InTurn
<1> HIDE DEF b, b2, e, l, pd, U, U2
<1>7. U \in SUBSET Tokens /\ Line(b, cap, capDone, U, "Streaming", phase)
  BY <1>1, ReadyNow DEF Importing, Ready, U, b
<1>8. Line(b2, cap, capDone, U2, "Streaming", phase)
  <2>1. \A i \in DOMAIN b2 : \/ i \in DOMAIN b /\ b2[i] = b[i]
                             \/ b2[i].token = next_token /\ b2[i].buf # None
    BY <1>3, <1>5
  <2>2. \E i \in DOMAIN b2 : b2[i].token = next_token
    BY <1>3, <1>5
  <2>3. Line(b2, cap, capDone, U \cup {next_token}, "Streaming", phase)
    <3>1. /\ cap \in [CapSlots -> Frame] /\ next_token \in Tokens /\ \A j \in U : j < next_token
          /\ DOMAIN b \subseteq DOMAIN b2 /\ \A i \in DOMAIN b : b2[i] = b[i]
      BY <1>3, <1>5, <1>6, PixelTypes DEF Importing, Healthy
    <3> QED BY <1>7, <2>1, <2>2, <3>1, LinePush
  <2> QED BY <2>3 DEF U, U2
<1>9. /\ NextCases("Import", capGeom, b2, cap, pd, n, late, r) /\ (late => Fault)
      /\ import_backlog' = r.backlog /\ cap' = r.cap
  BY <1>2 DEF AcceptNext, NextOf, FenceCost, Importing, b2, pd
<1>10. Line(r.backlog, r.cap, capDone, U2, "Streaming", phase)
  <2>1. /\ capGeom \in Geoms /\ cap \in [CapSlots -> Frame] /\ pd \in [Tokens -> Targets \cup {None}]
        /\ U2 \in SUBSET Tokens /\ Single(cap) /\ Undequeued(cap, capDone) /\ ~Fault
    BY <1>3, <1>7, ReadyNow, PixelTypes, AcceptSound DEF Importing, Healthy, Typed, pd, U2, U
  <2> QED BY <1>4, <1>8, <1>9, <2>1, LineNext
<1>11. Ready'
  BY <1>1, <1>6, <1>9, <1>10 DEF Ready
<1>12. Steady'
  BY <1>1 DEF Steady
<1> QED BY <1>11, <1>12

\* A buffer comes back with its picture, and makes room for the next one.
LEMMA ReadyCapture ==
  ASSUME Uniform, Importing, Ready, ReturnCapture PROVE Steady' /\ Ready'
<1> DEFINE d    == Head(capDone)
           took == take_capture(cap, d.slot)
           m    == IF state = "Streaming" THEN memory ELSE "Unallocated"
           b    == import_backlog
           done == Tail(capDone)
           U    == Unwritten
<1>1. /\ capDone # <<>> /\ capDone' = done /\ UNCHANGED <<outQ, inFw, phase>>
      /\ capDone \in Seq(CapReturn) /\ cap \in [CapSlots -> Frame]
  BY PixelTypes DEF ReturnCapture, Importing, Healthy
<1>2. PICK n, late, r : CaptureNext(n, late, r)
  BY CaptureNexts, Zenon DEF Importing, Healthy
<1>3. /\ took \in [CapSlots -> Frame] /\ Undequeued(took, done)
  <2>1. /\ took \in [CapSlots -> Frame] /\ done \in Seq(CapReturn)
        /\ \A i \in DOMAIN done : took[done[i].slot].queued
    BY <1>1, FineTakes DEF Importing, Healthy, Fine, Returned
  <2>2. \A i \in DOMAIN done : done[i] \in CapReturn
    BY <2>1, LenProperties, ElementOfSeq
  <2>3. \A i \in DOMAIN done : done[i].slot \in CapSlots
    BY <2>2 DEF CapReturn
  <2> QED BY <2>1, <2>3 DEF Undequeued
<1>4. Line(b, took, done, U, state, phase) /\ Single(took)
  <2>1. /\ Single(cap) /\ Undequeued(cap, capDone) /\ \A i \in DOMAIN capDone : capDone[i].ts \notin U
    BY ReadyNow DEF Importing, Healthy, Turns, InTurn
  <2>2. Line(b, cap, capDone, U, state, phase)
    BY DEF Ready
  <2> HIDE DEF took, b, U
  <2>3. took = take_capture(cap, Head(capDone).slot)
    BY DEF took
  <2> QED BY <1>1, <1>3, <2>1, <2>2, <2>3, LineTakes
<1>5. Asc(b, took) /\ b \in Seq(ImportEntry)
  <2>1. Fades(cap, took)
    BY <1>1, IdleFields DEF take_capture, Fades
  <2> QED BY <2>1, PixelTypes, FadesAsc DEF Importing, Healthy, AscInv
<1> HIDE DEF took, m, b, done, U
<1>6. /\ NextCases(m, capGeom, b, took, pending, n, late, r) /\ (late => Fault)
  <2>1. NextOf(m, capGeom, b, took, target, pending, n, late, r)
    BY <1>2 DEF CaptureNext, m, b, took
  <2>2. late => Fault
    BY <1>2 DEF CaptureNext, FenceCost
  <2> QED BY <2>1, <2>2 DEF NextOf
<1>7. Line(r.backlog, r.cap, done, U, state, phase) /\ ~r.throws
  <2>1. /\ capGeom \in Geoms /\ pending \in [Tokens -> Targets \cup {None}]
        /\ U \in SUBSET Tokens /\ ~Fault
    BY ReadyNow, PixelTypes DEF Importing, Healthy, Typed, U
  <2> QED BY <1>3, <1>4, <1>5, <1>6, <2>1, LineNext
<1>8. Complete(d, cap[d.slot].import_token, r) /\ cap' = r.cap
  BY <1>2, <1>7 DEF CaptureNext
<1> HIDE DEF d
<1>9. import_backlog' = r.backlog /\ state' = state /\ Goto(pc)
  <2>1. ~Fault /\ \A x : Policy(x) = "Import"
    BY ReadyNow DEF Importing, Policy
  <2> QED BY <1>8, <2>1 DEF Complete
<1>10. Unwritten' = U
  BY <1>1 DEF Unwritten, U
<1>11. Ready'
  BY <1>1, <1>7, <1>8, <1>9, <1>10 DEF Ready
<1>12. Steady'
  BY <1>1, <1>9 DEF Importing, Steady, Goto
<1> QED BY <1>11, <1>12

\* The drain of finish() queues the next buffer, or the scratch buffer after them all.
LEMMA ReadyDrain ==
  ASSUME Uniform, Importing, Ready, DrainTurn PROVE Steady' /\ Ready'
<1> DEFINE b == import_backlog
           U == Unwritten
<1>1. /\ UNCHANGED <<capDone, outQ, inFw, phase>> /\ state = "Draining"
      /\ requeue_capture(memory, cap, target) = cap
  BY DEF DrainTurn, Importing, Healthy, Courses, DrainPcs, requeue_capture
<1>2. PICK n, late, r : DrainNext(n, late, r)
  BY DrainNexts, Zenon DEF Importing, Healthy
<1>3. /\ NextCases("Import", capGeom, b, cap, pending, n, late, r) /\ (late => Fault)
      /\ r.cap \in [CapSlots -> Frame] /\ r.backlog \in Seq(ImportEntry)
  <2>1. NextOf("Import", capGeom, b, cap, target, pending, n, late, r)
    BY <1>1, <1>2 DEF DrainNext, Importing
  <2>2. late => Fault
    BY <1>2 DEF DrainNext, FenceCost
  <2> QED BY <2>1, <2>2 DEF NextOf
<1>4. /\ cap \in [CapSlots -> Frame] /\ b \in Seq(ImportEntry)
      /\ capGeom \in Geoms /\ pending \in [Tokens -> Targets \cup {None}]
      /\ U \in SUBSET Tokens /\ ~Fault /\ Single(cap) /\ Undequeued(cap, capDone)
      /\ Asc(b, cap) /\ Line(b, cap, capDone, U, state, phase)
  BY ReadyNow, PixelTypes DEF Importing, Healthy, Typed, AscInv, Ready
<1> HIDE DEF b, U
<1>5. /\ Line(r.backlog, r.cap, capDone, U, state, phase) /\ ~r.throws
      /\ r.backlog = <<>> \/ \E c \in CapSlots : r.cap[c].queued
  BY <1>3, <1>4, LineNext
<1>6. /\ cap' = IF memory = "Import" /\ capture_queued(r.cap) = {}
                THEN queue_capture_scratch(r.cap) ELSE r.cap
      /\ import_backlog' = r.backlog /\ pc' = "devents" /\ state' = state
  BY <1>2, <1>5 DEF DrainNext, Goto
<1>7. CASE \E c \in CapSlots : r.cap[c].queued
  <2>1. cap' = r.cap
    BY <1>6, <1>7 DEF capture_queued
  <2>2. Unwritten' = U
    BY <1>1 DEF Unwritten, U
  <2> QED BY <1>1, <1>5, <1>6, <2>1, <2>2 DEF Ready, Steady, DrainPcs
<1>8. CASE \A c \in CapSlots : ~r.cap[c].queued
  <2>1. cap' = queue_capture_scratch(r.cap) /\ r.backlog = <<>>
    BY <1>5, <1>6, <1>8 DEF capture_queued, Importing
  <2>2. r.cap = cap
    <3>1. ASSUME Queues1(capGeom, b, cap, pending, n, late, r), \A c \in CapSlots : ~cap[c].queued
          PROVE  FALSE
      <4> DEFINE v == [queued |-> TRUE, import_token |-> b[n + 1].token, buf |-> b[n + 1].buf]
      <4>1. free_capture(cap) \in CapSlots
        BY <3>1, Zenon DEF free_capture, Uniform
      <4>2. r.cap[free_capture(cap)] = v /\ v.queued
        BY <1>4, <3>1, <4>1 DEF Queues1, queue_capture_import
      <4> QED BY <1>8, <4>1, <4>2
    <3> QED BY <1>3, <3>1 DEF NextCases, NoBuffer, Skips
  <2>3. Undequeued(r.cap, capDone) /\ Single(r.cap) /\ CapSlots # {} /\ state # "Streaming"
    BY <1>1, <1>4, <2>2 DEF Uniform
  <2>4. Line(r.backlog, cap', capDone, U, state, phase)
    BY <1>3, <1>4, <1>5, <1>8, <2>1, <2>3, LineScratch
  <2>5. Unwritten' = U
    BY <1>1 DEF Unwritten, U
  <2> QED BY <1>1, <1>6, <2>4, <2>5 DEF Ready, Steady, DrainPcs
<1> QED BY <1>7, <1>8

\* The decoder parses, writes the next picture into the one buffer it has, or says
\* LAST into it.
LEMMA ReadyFirmware ==
  ASSUME Importing, Ready, Firmware PROVE Steady' /\ Ready'
<1> DEFINE U == Unwritten
<1>1. /\ FirmwareStep /\ UNCHANGED <<memory, import_backlog, cap, state, pc>> /\ mode = "DecodeOrder"
      /\ outQ \in Seq(AccessUnit) /\ inFw \in SUBSET Tokens /\ capDone \in Seq(CapReturn)
      /\ U = Coming(outQ, inFw) /\ U \in SUBSET Tokens /\ ~Fault
  <2>1. mode \in SessionMode
    BY DEF Importing, Healthy, PixelInv, SettledInv, TypeInv, TypeOK
  <2>2. FirmwareStep /\ UNCHANGED <<memory, import_backlog, cap, state, pc>> /\ mode = "DecodeOrder"
    BY <2>1 DEF Firmware, driverVars, Importing, Healthy, Mapped, SessionMode
  <2> QED BY <2>2, ReadyNow, PixelTypes DEF Importing, Healthy
<1>2. /\ Line(import_backlog, cap, capDone, U, state, phase)
      /\ InTurn(outQ, inFw, capDone, next_token) /\ Asc(import_backlog, cap)
  BY DEF Ready, Importing, Healthy, Turns, AscInv
<1> HIDE DEF U
<1>3. ASSUME UNCHANGED capDone, Coming(outQ', inFw') = U, phase' = phase \/ phase = "cold",
             phase' # "last" \/ phase' = phase
      PROVE  Steady' /\ Ready'
  <2>1. Line(import_backlog, cap, capDone, U, state, phase')
    <3>1. phase' = phase \/ (phase # "last" /\ phase' # "last")
      BY <1>3
    <3> QED BY <1>2, <3>1, LineStays
  <2>2. Unwritten' = U
    BY <1>3 DEF Unwritten, Coming
  <2> QED BY <1>1, <1>3, <2>1, <2>2 DEF Importing, Steady, Ready
<1>4. CASE FwAnnounce \/ FwResolutionChange
  <2>1. UNCHANGED <<outQ, inFw, capDone>> /\ (phase' = phase \/ (phase = "cold" /\ phase' = "announced"))
    BY <1>4 DEF FwAnnounce, FwResolutionChange
  <2>2. Coming(outQ', inFw') = U
    BY <1>1, <2>1
  <2> QED BY <1>3, <2>1, <2>2
<1>5. CASE \E o \in OutSlots : FwReturnOutput(o)
  <2>1. UNCHANGED <<outQ, inFw, capDone, phase>>
    BY <1>5 DEF FwReturnOutput
  <2>2. Coming(outQ', inFw') = U
    BY <1>1, <2>1
  <2> QED BY <1>3, <2>1, <2>2
<1>6. CASE FwDecode
  <2>1. /\ UNCHANGED <<capDone, phase>> /\ outQ # <<>>
        /\ outQ' = Tail(outQ) /\ inFw' = inFw \cup {Head(outQ).token}
    BY <1>6 DEF FwDecode, Decoding
  <2>2. Coming(outQ', inFw') = U
    BY <1>1, <1>2, <2>1, TurnParse
  <2> QED BY <1>3, <2>1, <2>2
<1>7. ~FwReject /\ \A k \in Tokens, c \in CapSlots : ~FwSpoil(k, c)
  BY <1>1 DEF FwReject, FwSpoil
<1>8. ASSUME NEW c \in CapSlots, FwLast(c) PROVE Steady' /\ Ready'
  <2> DEFINE e == [slot |-> c, ts |-> NoToken, last |-> TRUE, error |-> FALSE, payload |-> FALSE]
  <2>1. /\ e \in CapReturn /\ ~e.payload /\ capDone' = Append(capDone, e)
        /\ UNCHANGED <<outQ, inFw>> /\ phase = "stop" /\ phase' = "last"
    BY <1>8 DEF CapReturn, FwLast, Emit
  <2> HIDE DEF e
  <2>2. Line(import_backlog, cap, Append(capDone, e), U, state, "last")
    BY <1>1, <1>2, <2>1, LineLast
  <2>3. Unwritten' = U
    BY <2>1 DEF Unwritten, U
  <2> QED BY <1>1, <2>1, <2>2, <2>3 DEF Importing, Steady, Ready
<1>9. ASSUME NEW k \in Tokens, NEW c \in CapSlots, FwEmit(k, c) PROVE Steady' /\ Ready'
  <2> DEFINE e == [slot |-> c, ts |-> k, last |-> FALSE, error |-> FALSE, payload |-> TRUE]
  <2>1. /\ e \in CapReturn /\ e.payload /\ e.slot = c /\ e.ts = k
        /\ capDone' = Append(capDone, e)
        /\ UNCHANGED <<outQ, phase>> /\ inFw' = inFw \ {k} /\ phase # "last"
        /\ k \in inFw /\ \A j \in inFw : k <= j
        /\ cap[c].queued /\ \A i \in DOMAIN capDone : capDone[i].slot # c
    BY <1>1, <1>9 DEF CapReturn, FwEmit, Emit, NextOut, Owned
  <2> HIDE DEF e
  <2>2. k \in U /\ \A j \in U : k <= j
    <3>1. \A j \in Tokens : k < j => k <= j
      BY SlotsAssumption DEF Tokens
    <3>2. \A i \in DOMAIN outQ : outQ[i].token \in Tokens
      BY <1>1, Carried
    <3> QED BY <1>1, <1>2, <2>1, <3>1, <3>2 DEF Coming, InTurn
  <2>3. Coming(outQ, inFw \ {k}) = U \ {k}
    <3>1. \A j \in Tokens : ~(j < j)
      BY SlotsAssumption DEF Tokens
    <3>2. \A i \in DOMAIN outQ : outQ[i].token # k
      BY <1>2, <2>1, <3>1 DEF InTurn
    <3> QED BY <1>1, <3>2 DEF Coming
  <2>4. Unwritten' = U \ {k}
    BY <2>1, <2>3 DEF Unwritten, Coming
  <2>5. Line(import_backlog, cap, Append(capDone, e), U \ {k}, state, phase)
    <3>1. Single(cap) /\ cap \in [CapSlots -> Frame]
      BY ReadyNow, PixelTypes DEF Importing, Healthy
    <3> QED BY <1>1, <1>2, <2>1, <2>2, <3>1, LineWrites
  <2> QED BY <1>1, <2>1, <2>4, <2>5 DEF Importing, Steady, Ready
<1> QED BY <1>1, <1>4, <1>5, <1>6, <1>7, <1>8, <1>9 DEF FirmwareStep

\* The pool stays ready.
LEMMA ReadyStep ==
  ASSUME Uniform, Importing, Ready, [Next]_vars PROVE Steady' /\ Ready'
BY CalmSteps, ReadyCalm, ReadyAccept, ReadyCapture, ReadyDrain, ReadyFirmware

-----------------------------------------------------------------------------
(* The first picture, and the pool that is built for it.                   *)

\* Until the pool is there the session has one picture at most, the one whose
\* submit() waits for the decoder.
Bringup ==
  /\ memory = "Unallocated" /\ phase \in {"cold", "announced"}
  /\ \A k \in Tokens : pending[k] # None <=> k \in Unwritten
  /\ \A j, k \in Unwritten : j = k
  /\ call # "bringup" => Unwritten = {}

Fresh == Healthy /\ state = "Configured" /\ Bringup

\* The pool is built, and its first buffer is for that picture.
LEMMA FreshPool ==
  ASSUME Uniform, Fresh, Configure
  PROVE  state' = "Streaming" /\ (memory' = "Import" => Steady' /\ Ready')
<1> DEFINE mem == PoolMemory(target, pending)
           cp  == fresh_capture
           U   == Unwritten
<1>1. /\ UNCHANGED <<next_token, capDone, cliMem, outQ, inFw>> /\ memory = "Unallocated"
      /\ configure_capture(target, pending) \/ configure_capture_throws(target, pending)
      /\ capDone = <<>> /\ import_backlog = <<>>
  BY NoPool DEF Fresh, Healthy, Bringup, AscInv, Configure, poolRest
<1>2. PICK b, n, late, r : PoolNext(b, n, late, r)
  <2>1. ~Refused
    BY ReadyNow DEF Fresh, Refused
  <2> QED BY <1>1, <2>1, PoolNexts, Zenon DEF Fresh, Healthy
<1>3. /\ b \in Seq(ImportEntry) /\ Lengthened(b, target, pending) /\ b \in Backlogs(target, pending)
      /\ NextCases(mem, fwGeom, b, cp, pending, n, late, r)
      /\ r.cap \in [CapSlots -> Frame] /\ memory' = mem /\ cap' = requeue_capture(mem, r.cap, target)
  BY <1>2 DEF PoolNext, StartPool, NextOf
<1>4. CASE mem # "Import"
  <2>1. ~r.throws
    BY <1>3, <1>4 DEF NextCases, NoBuffer
  <2>2. state' = "Streaming"
    BY <1>2, <2>1 DEF PoolNext
  <2> QED BY <1>3, <1>4, <2>2
<1>5. CASE mem = "Import"
  <2>1. ImportGranted(target, pending)
    BY <1>5 DEF PoolMemory
  <2>2. PICK x \in Tokens : pending[x] # None /\ U = {x}
    <3>1. PICK x \in FirstPending(pending) : TRUE
      BY <2>1, Zenon DEF ImportGranted, ImportAsked
    <3>2. x \in Tokens /\ pending[x] # None
      BY <3>1 DEF FirstPending
    <3> QED BY <3>2 DEF Fresh, Bringup
  <2>3. Unlisted(target, pending) = {x}
    <3>1. \A k \in Tokens : pending[k] # None => target[pending[k]].destination
      BY PixelTypes DEF Fresh, Healthy, Wants, Agree, Typed
    <3>2. \A k \in Tokens : pending[k] # None <=> k = x
      BY <2>2 DEF Fresh, Bringup
    <3>3. DOMAIN import_backlog = {}
      BY <1>1
    <3> QED BY <3>1, <3>2, <3>3 DEF Unlisted
  <2>4. \A i \in DOMAIN b : b[i].token = x /\ b[i].buf # None
    <3>1. DOMAIN import_backlog = {}
      BY <1>1
    <3> QED BY <1>3, <2>2, <2>3, <3>1 DEF Lengthened
  <2>5. 1 \in DOMAIN b
    <3> DEFINE e(s) == [i \in DOMAIN s |-> [token |-> s[i], buf |-> pending[s[i]]]]
    <3>1. PICK s \in Ascending({x}) : b = import_backlog \o e(s)
      BY <1>3, <2>1, <2>3, Zenon DEF Backlogs
    <3>2. Cardinality({x}) = 1
      BY FS_Singleton
    <3>3. s \in [1..1 -> {x}]
      BY <3>2, Zenon DEF Ascending
    <3>4. [token |-> x, buf |-> pending[x]] \in ImportEntry
      BY <2>2, PixelTypes DEF Fresh, Healthy, Typed, ImportEntry
    <3>5. e(s) \in [1..1 -> ImportEntry]
      BY <3>3, <3>4
    <3> DEFINE q == e(s)
    <3> HIDE DEF q
    <3>6. q \in [1..1 -> ImportEntry] /\ b = import_backlog \o q
      BY <3>1, <3>5 DEF q
    <3>7. q \in Seq(ImportEntry) /\ import_backlog \in Seq(ImportEntry)
          /\ Len(import_backlog) = 0
      BY <1>1, <3>6, SeqDef, EmptySeq
    <3>8. Len(q) = 1
      <4> DEFINE h == Len(q)
      <4>1. h \in Nat /\ 1..h = 1..1
        BY <3>6, <3>7, LenProperties
      <4> HIDE DEF h
      <4>2. h = 1
        BY <4>1, SameInterval
      <4> QED BY <4>2 DEF h
    <3>9. Len(b) = 0 + 1
      BY <3>6, <3>7, <3>8, ConcatProperties
    <3>10. DOMAIN b = 1..Len(b)
      BY <1>3, LenProperties
    <3> QED BY <3>9, <3>10
  <2>6. /\ Line(b, cp, capDone, U, "Streaming", "run") /\ Single(cp) /\ Undequeued(cp, capDone)
    <3>1. DOMAIN capDone = {} /\ Backed(b)
      BY <1>1, <2>4 DEF Backed
    <3>2. /\ \A i \in DOMAIN b : b[i].token \in U
          /\ \A k \in U : \E i \in DOMAIN b : b[i].token = k
      BY <2>2, <2>4, <2>5
    <3> HIDE DEF U
    <3> QED BY <3>1, <3>2, LineBegins
  <2>7. /\ Asc(b, cp) /\ cp \in [CapSlots -> Frame] /\ fwGeom \in Geoms /\ ~Fault
        /\ pending \in [Tokens -> Targets \cup {None}] /\ U \in SUBSET Tokens
    <3>1. Asc(b, cp)
      BY <1>1, <1>3, ListedAsc
    <3>2. cp \in [CapSlots -> Frame]
      BY DEF fresh_capture, IdleFrame, Frame, NoToken
    <3> QED BY <3>1, <3>2, ReadyNow, PixelTypes DEF Fresh, Healthy, Typed
  <2> DEFINE hung == r.throws /\ late
  <2>a. NextCases(mem, fwGeom, b, cp, pending, n, hung, r) /\ (hung => Fault)
    <3>1. NextCases(mem, fwGeom, b, cp, pending, n, hung, r)
      BY <1>3 DEF NextCases, NoBuffer, Skips, Queues1
    <3>2. hung => Fault
      BY <1>2 DEF PoolNext, FenceCost
    <3> QED BY <3>1, <3>2
  <2> HIDE DEF cp, U, hung
  <2>8. Line(r.backlog, r.cap, capDone, U, "Streaming", "run") /\ ~r.throws
    BY <1>3, <2>6, <2>7, <2>a, LineNext
  <2>9. state' = "Streaming" /\ phase' = "run" /\ import_backlog' = r.backlog /\ cap' = r.cap
    BY <1>2, <1>3, <1>5, <2>8 DEF PoolNext, requeue_capture
  <2>10. Unwritten' = U
    BY <1>1 DEF Unwritten, U
  <2> QED BY <1>1, <2>8, <2>9, <2>10 DEF Ready, Steady
<1> QED BY <1>4, <1>5

\* Without a resolution change only the first one, which Configure handles, builds
\* a pool; and no session is opened twice.
LEMMA OnePool ==
  ASSUME Courses, OneChange, [Next]_vars
  PROVE  /\ memory' = memory \/ Configure
         /\ state' = "Configured" => state = "Configured"
<1> DEFINE Good == /\ memory' = memory \/ Configure
                   /\ state' = "Configured" => state = "Configured"
<1>1. ASSUME NEW st \in SessionState, st = "Configured" => state = "Configured",
             NEW tg, NEW pd, NEW b, Unwind(st, tg, pd, b) \/ Fail(tg, pd)
      PROVE  state' = "Configured" => state = "Configured"
  BY <1>1 DEF Unwind, Fail
<1>2. state # "Reconfiguring" /\ pc # "rebuild" /\ drain_for # "drc"
      /\ (pc = "configure" => state = "Configured")
  BY DEF OneChange, Courses
<1>3. UNCHANGED <<memory, state>> => Good
  OBVIOUS
<1>4. ASSUME NEW t \in Targets, Release(t) PROVE Good
  BY <1>2, <1>4, Zenon DEF Release
<1>5. CASE Client \/ \E t \in Targets : Relock(t)
  <2>1. ASSUME NEW t \in Targets, NEW p \in Policies, Submit(t, p) PROVE Good
    BY <2>1 DEF Submit
  <2>2. ASSUME NEW c, NEW t, Enter(c, t) PROVE Good
    BY <2>2 DEF Enter
  <2>3. ASSUME NEW t \in Targets, WaitSettled(t) PROVE Good
    BY <2>3 DEF WaitSettled
  <2>4. ASSUME Finish PROVE Good
    BY <2>4 DEF Finish, BeginDrain, StopBusy, drainRest
  <2> QED BY <1>4, <1>5, <2>1, <2>2, <2>3, <2>4 DEF Client, Relock, Service, Wait
<1>6. CASE Configure
  BY <1>2, <1>6 DEF Configure
<1>7. CASE PumpTail \/ Rebuild
  BY <1>2, <1>7 DEF PumpTail, Rebuild, BeginDrain, StopBusy, Fail, drainRest
<1>8. CASE DrainTurn
  <2>1. memory' = memory
    BY <1>8 DEF DrainTurn
  <2>2. state' = state \/ \E tg, pd, b : Unwind(state, tg, pd, b)
    BY <1>8, Zenon DEF DrainTurn, Throw
  <2> QED BY <2>1, <2>2 DEF Unwind, Fail
<1>9. CASE ReturnCapture
  <2>1. memory' = memory
    BY <1>9 DEF ReturnCapture
  <2>2. ASSUME NEW d, NEW k, NEW r, Complete(d, k, r)
        PROVE  state' = state \/ \E tg, pd, b : Unwind(state, tg, pd, b)
    BY <2>2, Zenon DEF Complete, Throw
  <2>3. state' = state \/ \E tg, pd, b : Unwind(state, tg, pd, b)
    BY <1>9, <2>2, Zenon DEF ReturnCapture, Throw
  <2> QED BY <2>1, <2>3 DEF Unwind, Fail
<1>10. CASE DequeueError \/ DrainExpires \/ StartBusy
  BY <1>10 DEF DequeueError, DrainExpires, StartBusy, Throw, Unwind, Fail
<1>11. CASE Drained \/ Start \/ WaitExpires
  BY <1>11 DEF Drained, Start, WaitExpires, BeginDrain, StopBusy, Fail, drainRest
<1>12. CASE Accept \/ HandleEvents \/ ReturnOutput \/ LoopEnds \/ LastSeen
  BY <1>12 DEF Accept, HandleEvents, ReturnOutput, LoopEnds, LastSeen
<1>13. CASE CallDone \/ WaitReturns \/ SubmitLoops \/ WaitPolls \/ SubmitGivesUp
  BY <1>13 DEF CallDone, WaitReturns, SubmitLoops, WaitPolls, SubmitGivesUp, callRest
<1>14. CASE Firmware \/ UNCHANGED vars
  BY <1>14 DEF Firmware, vars, driverVars
<1> QED BY <1>5, <1>6, <1>7, <1>8, <1>9, <1>10, <1>11, <1>12, <1>13, <1>14
        DEF Next, Working, Looping, Expiring

\* What touches neither pictures nor memory keeps it, and a picture's submit() goes on.
LEMMA BringupKept ==
  ASSUME Bringup, UNCHANGED <<memory, pending, outQ, inFw>>, phase' \in {phase, "announced"},
         call' = call \/ Unwritten = {}
  PROVE  Bringup'
<1>1. Unwritten' = Unwritten
  BY DEF Unwritten
<1> QED BY <1>1 DEF Bringup

\* The first submit() gives its picture to the decoder.
LEMMA BringupAccept ==
  ASSUME Fresh, Accept PROVE Bringup'
<1>1. /\ memory = "Unallocated" /\ memory' = memory /\ phase' = phase /\ inFw' = inFw
      /\ Unwritten = {} /\ \A k \in Tokens : pending[k] = None
      /\ call' = "bringup" /\ pending' = NewPending
  <2>1. call \in {"submit", "slot"} /\ state = "Configured"
    BY DEF Accept, Fresh
  <2>2. PICK n, late, r : AcceptNext(n, late, r)
    BY AcceptNexts, Zenon DEF Fresh, Healthy
  <2>3. ~r.throws
    BY <2>2 DEF AcceptNext, NextOf, NextCases, NoBuffer, Fresh, Bringup
  <2>4. call' = "bringup" /\ pending' = NewPending
    BY <2>1, <2>2, <2>3 DEF AcceptNext
  <2> QED BY <2>1, <2>4 DEF Accept, Fresh, Bringup
<1>2. /\ arg \in Targets /\ next_token \in Tokens /\ NewPending[next_token] = arg
      /\ \A j \in Tokens : j # next_token => NewPending[j] = pending[j]
  BY AcceptSound DEF Fresh, Healthy
<1>3. Unwritten' = {next_token}
  <2> DEFINE a == [slot |-> free_output(out), token |-> next_token, geom |-> SurfGeom[arg]]
  <2>1. outQ' = Append(outQ, a)
    BY DEF Accept, NewToken
  <2>2. a \in AccessUnit /\ a.token = next_token
    <3>1. free_output(out) \in OutSlots
      BY FreeOutput DEF Accept, free_outputs
    <3> QED BY <1>2, <3>1, DecoderAssumption DEF AccessUnit
  <2> HIDE DEF a
  <2>3. Coming(Append(outQ, a), inFw) = Coming(outQ, inFw) \cup {next_token}
    <3>1. /\ InTurn(outQ, inFw, capDone, next_token) /\ next_token \in Nat
          /\ outQ \in Seq(AccessUnit) /\ inFw \in SUBSET Tokens /\ capDone \in Seq(CapReturn)
      BY ReadyNow, PixelTypes DEF Fresh, Healthy, Turns
    <3> QED BY <2>2, <3>1, TurnPush
  <2>4. Unwritten' = Coming(Append(outQ, a), inFw) /\ Unwritten = Coming(outQ, inFw)
    BY <1>1, <2>1 DEF Unwritten, Coming
  <2> QED BY <1>1, <2>3, <2>4
<1>4. arg # None
  BY <1>2, SlotsAssumption
<1> QED BY <1>1, <1>2, <1>3, <1>4 DEF Fresh, Bringup

\* Until the pool is there the session stays without one.
LEMMA BringupStep ==
  ASSUME Uniform, Fresh, [Next]_vars, state' = "Configured" PROVE Bringup'
<1>1. /\ state = "Configured" /\ memory = "Unallocated" /\ ~Fault
      /\ phase \in {"cold", "announced"} /\ capDone = <<>>
      /\ Typed(target, pending) /\ Agree(target, pending) /\ Courses /\ OneChange
  BY ReadyNow, NoPool, PixelTypes DEF Fresh, Healthy, Bringup
<1>2. /\ pc \notin {"rebuild", "start", "soutputs"} /\ pc \notin DrainPcs
  BY <1>1 DEF Courses
<1>3. call # "bringup" => Unwritten = {} /\ \A t \in Targets : ~target[t].pending
  <2>1. call # "bringup" => Unwritten = {} /\ \A k \in Tokens : pending[k] = None
    BY DEF Fresh, Bringup
  <2> QED BY <1>1, <2>1, SlotsAssumption DEF Agree
<1>4. ASSUME UNCHANGED <<memory, pending, outQ, inFw>>, phase' \in {phase, "announced"},
             call' = call \/ call # "bringup"
      PROVE  Bringup'
  BY <1>3, <1>4, BringupKept DEF Fresh
<1>5. CASE Client \/ \E t \in Targets : Relock(t)
  <2>1. ASSUME NEW t \in Targets PROVE release_token(target, pending, t) = pending \/ call # "none"
    BY <1>3 DEF release_token
  <2>2. ASSUME NEW t \in Targets, NEW p \in Policies, Submit(t, p) PROVE Bringup'
    BY <1>4, <2>1, <2>2 DEF Submit, decoderVars
  <2>3. ASSUME NEW c, NEW t, Enter(c, t) PROVE Bringup'
    BY <1>4, <2>3 DEF Enter, decoderVars
  <2>4. ASSUME NEW t \in Targets, WaitSettled(t) PROVE Bringup'
    BY <1>4, <2>4 DEF WaitSettled, decoderVars
  <2>5. ASSUME NEW t \in Targets, Release(t) PROVE Bringup'
    <3>1. /\ call = "none" /\ call' = call /\ pending' = release_token(target, pending, t)
          /\ UNCHANGED <<memory, decoderVars>>
      BY <1>1, <2>5, Zenon DEF Release
    <3> QED BY <1>4, <2>1, <3>1 DEF decoderVars
  <2>6. ASSUME Finish PROVE FALSE
    BY <1>1, <2>6 DEF Finish
  <2> QED BY <1>5, <2>2, <2>3, <2>4, <2>5, <2>6 DEF Client, Relock, Service, Wait
<1>6. CASE ReturnOutput
  <2>1. outDone \in Seq(OutReturn) /\ outDone # <<>>
    BY <1>6 DEF ReturnOutput, Fresh, Healthy, PixelInv, SettledInv, TypeInv, TypeOK, DecoderTypeOK
  <2>2. ~Head(outDone).error
    <3>1. 1 \in DOMAIN outDone /\ Head(outDone) = outDone[1]
      BY <2>1, HeadTailProperties, EmptySeq, LenProperties
    <3> QED BY <3>1 DEF Fresh, Healthy, Clean
  <2>3. pending' = Erase(pending, {}) /\ UNCHANGED <<memory, outQ, inFw, phase, call>>
    BY <1>6, <2>2 DEF ReturnOutput
  <2>4. Erase(pending, {}) = pending
    BY <1>1 DEF Erase, Typed
  <2> QED BY <1>4, <2>3, <2>4
<1>7. ~(\/ ReturnCapture \/ Rebuild \/ DrainTurn \/ LastSeen \/ Drained \/ Start \/ StartBusy
        \/ DrainExpires \/ DequeueError)
  BY <1>1, <1>2 DEF ReturnCapture, Rebuild, DrainTurn, LastSeen, Drained, Start, StartBusy,
     DrainExpires, DequeueError, DrainPcs
<1>8. CASE PumpTail \/ HandleEvents \/ LoopEnds
  BY <1>1, <1>4, <1>8 DEF PumpTail, HandleEvents, LoopEnds, Goto, decoderVars, BeginDrain, StopBusy
<1>9. ~Configure
  BY <1>1, FreshPool
<1>10. CASE CallDone \/ SubmitLoops \/ WaitPolls
  BY <1>1, <1>4, <1>10 DEF CallDone, SubmitLoops, WaitPolls, callRest, decoderVars, PumpAgain
<1>11. CASE WaitReturns \/ SubmitGivesUp
  BY <1>1, <1>4, <1>11 DEF WaitReturns, SubmitGivesUp, callRest, decoderVars
<1>12. ~WaitExpires
  <2>1. call = "wait" => arg \in Targets
    BY DEF Fresh, Healthy, PixelInv, SettledInv, TypeInv, CallShape
  <2> QED BY <1>3, <2>1 DEF WaitExpires
<1>13. CASE Firmware
  <2>1. FirmwareStep /\ UNCHANGED <<memory, pending, call>>
    BY <1>13 DEF Firmware, driverVars
  <2>2. FwAnnounce \/ \E o \in OutSlots : FwReturnOutput(o)
    BY <1>1, <2>1 DEF FirmwareStep, FwDecode, FwResolutionChange, FwReject, FwLast, FwEmit,
       FwSpoil, Decoding
  <2>3. UNCHANGED <<outQ, inFw>> /\ phase' \in {phase, "announced"}
    BY <2>2 DEF FwAnnounce, FwReturnOutput
  <2> QED BY <1>4, <2>1, <2>3
<1>14. CASE UNCHANGED vars
  BY <1>4, <1>14 DEF vars, driverVars, decoderVars
<1> QED BY <1>5, <1>6, <1>7, <1>8, <1>9, <1>10, <1>11, <1>12, <1>13, <1>14, BringupAccept
        DEF Next, Working, Looping, Expiring

-----------------------------------------------------------------------------
(* The invariant, and what it says of a session in which nothing fails.    *)

\* Everything that the buffers of an Import pool rest on.
Provided ==
  /\ Clean
  /\ state = "Configured" => Bringup
  /\ memory = "Import" => Steady /\ Ready

HoleInv ==
  /\ PixelInv /\ Courses /\ OneChange /\ Mapped /\ Undrained /\ Wants /\ Turns /\ AscInv
  /\ faults = 0 => Provided

\* It holds before the first call.
LEMMA HoleInit == ASSUME Init PROVE HoleInv
<1>1. /\ outQ = <<>> /\ inFw = {} /\ outDone = <<>> /\ capDone = <<>> /\ memory = "Unallocated"
      /\ state = "Configured" /\ phase = "cold" /\ pc = "idle" /\ call = "none" /\ ~blocked
      /\ ~evt /\ ~source_change /\ drain_for = "none" /\ import_backlog = <<>>
      /\ next_token = 1 /\ cap = fresh_capture
      /\ \A k \in Tokens : pending[k] = None
      /\ \A t \in Targets : waiter[t] = "idle" /\ ~target[t].pending
  BY DEF Init, DecoderInit
<1>2. PixelInv /\ Courses /\ Mapped /\ Undrained
  BY PixelInit, PromiseStarts, FlushInit
<1>3. OneChange /\ Wants
  BY <1>1 DEF OneChange, Running, Wants
<1>4. AscInv
  BY <1>1, EmptyAsc DEF AscInv
<1>5. Turns
  BY <1>1 DEF Turns, InTurn, Coming
<1>6. Clean /\ Bringup
  BY <1>1 DEF Clean, Bringup, Unwritten
<1> QED BY <1>1, <1>2, <1>3, <1>4, <1>5, <1>6 DEF HoleInv, Provided

\* Every step keeps it.
LEMMA HoleStep ==
  ASSUME Uniform, HoleInv, [Next]_vars PROVE HoleInv'
<1>1. PixelInv' /\ Courses' /\ OneChange' /\ Wants' /\ Turns'
  BY PixelStep, CoursesStep, OneChangeStep, WantsStep, TurnsStep DEF HoleInv, Uniform
<1>2. TypeInv /\ mode' = mode
  BY ModeStays DEF HoleInv, PixelInv, SettledInv
<1>3. AscInv'
  <2>1. Lives
    BY <1>1 DEF HoleInv, OneChange, Lives
  <2> QED BY <2>1, AscStep DEF HoleInv
<1>4. Undrained'
  BY <1>2, NobodyStep DEF HoleInv, PixelInv, SettledInv, Undrained
<1>5. Mapped'
  BY <1>2, PoolMemories DEF HoleInv, Mapped, NoImport
<1>6. ASSUME faults' = 0 PROVE Provided'
  <2>1. Well /\ Provided /\ Healthy
    <3>1. Well
      BY <1>2, <1>6, WellStep DEF TypeInv
    <3> QED BY <3>1 DEF HoleInv, Healthy, Provided, Well
  <2>2. Clean'
    BY <2>1, CleanStep DEF HoleInv, Provided
  <2>3. (memory' = memory \/ Configure) /\ (state' = "Configured" => state = "Configured")
    BY OnePool DEF HoleInv
  <2>4. state' = "Configured" => Bringup'
    BY <2>1, <2>3, BringupStep DEF Fresh, Provided
  <2>5. ASSUME memory' = "Import" PROVE Steady' /\ Ready'
    <3>1. CASE memory = "Import"
      BY <2>1, <3>1, ReadyStep DEF Importing, Provided
    <3>2. CASE Configure
      <4>1. state = "Configured"
        BY <3>2 DEF Configure, HoleInv, Courses
      <4> QED BY <2>1, <2>5, <3>2, <4>1, FreshPool DEF Fresh, Provided
    <3> QED BY <2>3, <2>5, <3>1, <3>2
  <2> QED BY <2>2, <2>4, <2>5 DEF Provided
<1> QED BY <1>1, <1>3, <1>4, <1>5, <1>6 DEF HoleInv

\* What comes back into a buffer of the pool is the picture it was queued for.
LEMMA ReadyMatches ==
  ASSUME HoleInv PROVE Lockstep
<1> SUFFICES ASSUME memory = "Import", faults = 0, NEW i \in DOMAIN capDone, capDone[i].payload
             PROVE  cap[capDone[i].slot].import_token = capDone[i].ts
  BY DEF Lockstep
<1> QED BY DEF HoleInv, Provided, Ready, Line, Matched

\* While the pool streams every picture to come has its buffer.
LEMMA ReadyLines ==
  ASSUME HoleInv PROVE NoHoles
<1> SUFFICES ASSUME memory = "Import", state = "Streaming", faults = 0, NEW k \in Unwritten
             PROVE  \/ \E c \in CapSlots : cap[c].import_token = k
                    \/ \E i \in DOMAIN import_backlog : import_backlog[i].token = k
  BY DEF NoHoles, Unwritten
<1>1. phase # "last"
  BY DEF HoleInv, Provided, Steady
<1> QED BY <1>1 DEF HoleInv, Provided, Ready, Line, Lined

\* So it holds in every behaviour.
LEMMA AlwaysProvided ==
  ASSUME Uniform PROVE Spec => []HoleInv
<1>1. Init => HoleInv
  BY HoleInit
<1>2. HoleInv /\ [Next]_vars => HoleInv'
  BY HoleStep
<1> QED BY <1>1, <1>2, PTL DEF Spec

\* In streams of one geometry whose pictures all want their buffer, a healthy
\* decoder writes every picture into the buffer that was queued for it
\* (session.h:193).
THEOREM UniformLockstep ==
  ASSUME Uniform PROVE Spec => []Lockstep
<1>1. HoleInv => Lockstep
  BY ReadyMatches
<1> QED BY <1>1, AlwaysProvided, PTL

\* And every picture it has yet to write has a buffer, queued or in the backlog,
\* also when the surface was released meanwhile.
THEOREM UniformNoHoles ==
  ASSUME Uniform PROVE Spec => []NoHoles
<1>1. HoleInv => NoHoles
  BY ReadyLines
<1> QED BY <1>1, AlwaysProvided, PTL
=============================================================================
