------------------------------ MODULE Session ------------------------------
(***************************************************************************)
(* One decode session (src/src/iris/session.h, session.cc): the object     *)
(* that sequences every ioctl, associates completions with callers by      *)
(* token, and publishes each picture to its target.                        *)
(*                                                                         *)
(* Session::mutex_ admits one call at a time.  `call` is the call that     *)
(* holds it, `arg` its target and `pc` the place the call has reached; the *)
(* firmware may take steps between any two of them.  wait() gives the lock *)
(* up while it polls, so `waiter` remembers the waits under way.  A bound  *)
(* in time (a steady_clock deadline) is a step that may be taken whenever  *)
(* the code compares the clock with it.                                    *)
(*                                                                         *)
(* A definition named X_... that nothing uses is a mutant of the one after *)
(* it: a bug the code could have, with which some property must fail.      *)
(***************************************************************************)
EXTENDS Decoder

CONSTANTS
  Policies,       \* publish policies the clients of this instance ask for
  ImportAllowed,  \* SessionConfig::import_allowed
  LayoutSize,     \* LayoutSize[g]: bytes of geometry g's buffer layout
  Modes,          \* what the kernel may answer to the DISPLAY_DELAY controls
  SyncExpiry,     \* the modes in which a wait() may reach its deadline
  Ops             \* what the clients of this instance do besides submit()

ASSUME SessionAssumption ==
  /\ Policies \subseteq {"Direct", "Copy", "Import"}
  /\ Modes \subseteq {"DecodeOrder", "DisplayOrder"}
  /\ ImportAllowed \in BOOLEAN /\ SyncExpiry \subseteq {"DecodeOrder", "DisplayOrder"}
  /\ LayoutSize \in [Geoms -> Nat]
  /\ Ops \subseteq {"wait", "release", "service", "finish"}

VARIABLES
  state,                           \* state_
  target,                          \* the Target of every surface
  pending, next_token,             \* pending_, next_token_
  memory, capGeom,                 \* capture_memory_, capture_layout_
  source_change, saw_last, import_rejected,
  import_backlog,                  \* import_backlog_
  call, arg, pc, drain_for,        \* the call under the lock
  waiter                           \* each target's wait(): under way, result

driverVars == <<state, target, pending, next_token, memory, capGeom,
                source_change, saw_last, import_rejected, import_backlog,
                call, arg, pc, drain_for, waiter>>
vars == <<driverVars, mode, out, cap, decoderVars>>

SessionState == {"Configured", "Streaming", "Draining", "RestartPending",
                 "Reconfiguring", "Finished", "Failed"}
SessionMode  == {"DecodeOrder", "DisplayOrder"}

\* session.h Target.  destination is the surface's own StableBuffer or null.
Target == [token : Tokens \cup {NoToken}, pending : BOOLEAN,
           completed : BOOLEAN, error : BOOLEAN,
           publish : {"Direct", "Copy", "Import"}, destination : BOOLEAN,
           frame : CapSlots \cup {NoFrame}]

\* session.h ImportEntry; buf None is the entry with fd -1.
ImportEntry == [token : Tokens, buf : Targets \cup {None}]

\* submit first waits out a resolution change, then ("slot") for a free
\* OUTPUT slot, then ("bringup") for the first SOURCE_CHANGE.
Calls == {"none", "submit", "slot", "bringup", "service", "wait", "finish"}
Pcs   == {"idle", "events", "configure", "outputs", "captures", "tail",
          "return", "drain", "devents", "doutputs", "dcaptures", "flush",
          "drained", "rebuild", "start", "soutputs"}
Drains  == {"none", "drc", "timeout", "finish"}
Waits   == {"idle", "polling", "drained", "ok", "error"}
Waiting(t) == waiter[t] \in {"polling", "drained"}
-----------------------------------------------------------------------------
(* Helpers on targets and on the map of live tokens.                       *)

X_Failed(r) == [r EXCEPT !.pending = FALSE]    \* the error is not recorded
Failed(r)   == [r EXCEPT !.pending = FALSE, !.error = TRUE]
Released(r) == [r EXCEPT !.pending = FALSE, !.frame = NoFrame,
                         !.completed = FALSE, !.error = FALSE,
                         !.token = NoToken]

\* The targets that own a token of K fail, and those tokens leave the map.
FailTokens(tg, pd, K) ==
  [t \in Targets |-> IF \E k \in K \cap Tokens : pd[k] = t THEN Failed(tg[t])
                     ELSE tg[t]]
Erase(pd, K) == [k \in Tokens |-> IF k \in K THEN None ELSE pd[k]]

\* release_locked
release_target(tg, t)        == [tg EXCEPT ![t] = Released(tg[t])]
X_release_token(tg, pd, t)   == pd              \* the token stays live
release_token(tg, pd, t)     == IF tg[t].pending THEN Erase(pd, {tg[t].token})
                                ELSE pd

\* The map's first entry: the smallest live token.
FirstPending(pd) == {k \in Tokens : pd[k] # None /\
                       \A j \in Tokens : pd[j] # None => k <= j}

import_compatible(g, h) == LayoutSize[g] = LayoutSize[h]
-----------------------------------------------------------------------------
(* queue_import_next: hand the firmware the next client buffer when it has *)
(* none (kImportWindow = 1).                                               *)

\* Buffers the firmware may choose from.
X_kImportWindow == 2
kImportWindow   == 1

\* import_backlog_.push_back.
X_push(b, k, buf) == <<[token |-> k, buf |-> buf]>> \o b      \* push_front
push(b, k, buf)   == Append(b, [token |-> k, buf |-> buf])

\* An entry without a buffer to decode into is dropped, and the target that
\* still owns it fails if the entry has a buffer that it no longer wants.
Disowned(e, tg, pd) ==
  /\ e.buf # None /\ pd[e.token] # None
  /\ tg[pd[e.token]].publish = "Direct" \/ ~tg[pd[e.token]].destination
X_Unusable(e, tg, pd) == e.buf = None \/ pd[e.token] = None   \* or released
Unusable(e, tg, pd) == e.buf = None \/ Disowned(e, tg, pd)

\* How many entries are dropped from the front (one number).
Dropped(b, tg, pd) ==
  {i \in 0..Len(b) : /\ \A j \in 1..i : Unusable(b[j], tg, pd)
                     /\ i < Len(b) => ~Unusable(b[i + 1], tg, pd)}

\* The head belongs to a picture of a geometry not announced yet.
AwaitsRebuild(e, g, pd) ==
  pd[e.token] # None /\ ~import_compatible(SurfGeom[pd[e.token]], g)

\* VIDIOC_QBUF refuses a DMA-BUF smaller than the plane.
TooSmall(e, g) == LayoutSize[SurfGeom[e.buf]] < LayoutSize[g]

\* The session after queue_import_next, given that n entries are dropped.
\* `late` is a fence of the client's buffer that did not signal in time
\* (wait_dma_buf); then, or when QBUF refuses the buffer, the call throws and
\* the entry stays at the head.
ImportNext(mem, g, b, cp, tg, pd, n, late) ==
  LET K      == {b[j].token : j \in {i \in 1..n : Disowned(b[i], tg, pd)}}
      head   == b[n + 1]
      stays  == n = Len(b) \/ AwaitsRebuild(head, g, pd)
      throws == ~stays /\ (late \/ TooSmall(head, g))
  IN IF mem # "Import" \/ b = <<>>
        \/ Cardinality(capture_queued(cp)) >= kImportWindow
     THEN [backlog |-> b, cap |-> cp, target |-> tg, pending |-> pd,
           throws |-> FALSE]
     ELSE [backlog |-> SubSeq(b, IF stays \/ throws THEN n + 1 ELSE n + 2,
                              Len(b)),
           cap     |-> IF stays \/ throws THEN cp
                       ELSE queue_capture_import(cp, head.buf, head.token),
           target  |-> FailTokens(tg, pd, K),
           pending |-> Erase(pd, K),
           throws  |-> throws]

FenceCost(late) == IF late THEN Fault ELSE UNCHANGED faults
-----------------------------------------------------------------------------
(* Leaving a call.                                                         *)

Goto(p) == pc' = p /\ UNCHANGED <<call, arg, drain_for, waiter>>

Return(result) ==
  /\ call' = "none" /\ arg' = None /\ pc' = "idle" /\ drain_for' = "none"
  /\ waiter' = IF call = "wait" THEN [waiter EXCEPT ![arg] = result]
               ELSE waiter

\* fail(): terminal, and every pending target fails.
X_Fail(tg, pd) ==       \* clear_import_backlog is forgotten
  /\ state' = "Failed" /\ UNCHANGED import_backlog
  /\ target' = FailTokens(tg, pd, Tokens) /\ pending' = Erase(pd, Tokens)
Fail(tg, pd) ==
  /\ state' = "Failed"
  /\ target' = FailTokens(tg, pd, Tokens) /\ pending' = Erase(pd, Tokens)
  /\ import_backlog' = <<>>

\* An iris::Error leaves the state st, targets tg, map pd and backlog b.
\* pump() catches it, calls fail() and rethrows.  Outside pump() nobody calls
\* fail(): a drain that wait() or finish() started, and release() (no call
\* under way), let the error pass or swallow it.
Unwind(st, tg, pd, b) ==
  \/ /\ call # "none" /\ drain_for \in {"none", "drc"}
     /\ Fail(tg, pd)
  \/ /\ call = "none" \/ drain_for \in {"timeout", "finish"}
     /\ state' = IF drain_for = "finish" THEN "Finished" ELSE st
     /\ target' = tg /\ pending' = pd /\ import_backlog' = b

Throw(st, tg, pd, b) == Unwind(st, tg, pd, b) /\ Return("error")
-----------------------------------------------------------------------------
(* configure_capture and enter_streaming: build the CAPTURE pool for the   *)
(* geometry the decoder announced, and start it.                           *)

\* Import memory when the oldest live picture asks for it and can have it.
ImportAsked(tg, pd) ==
  \E k \in FirstPending(pd) : tg[pd[k]].publish = "Import"
ImportGranted(tg, pd) ==
  /\ ImportAsked(tg, pd) /\ ImportAllowed /\ mode = "DecodeOrder"
  /\ \E k \in FirstPending(pd) : /\ tg[pd[k]].destination
                                 /\ import_compatible(SurfGeom[pd[k]], fwGeom)
PoolMemory(tg, pd) == IF ImportGranted(tg, pd) THEN "Import" ELSE "Mmap"

\* Live pictures with a buffer that are not in the backlog join its end, in
\* token order.
Unlisted(tg, pd) ==
  {k \in Tokens : /\ pd[k] # None /\ tg[pd[k]].destination
                  /\ \A i \in DOMAIN import_backlog : import_backlog[i].token # k}
Ascending(S) == {s \in [1..Cardinality(S) -> S] :
                   \A i, j \in 1..Cardinality(S) : i < j => s[i] < s[j]}
Backlogs(tg, pd) ==
  IF ImportGranted(tg, pd)
  THEN {import_backlog \o [i \in DOMAIN s |-> [token |-> s[i], buf |-> pd[s[i]]]] :
          s \in Ascending(Unlisted(tg, pd))}
  ELSE {import_backlog}

\* What configure_capture has done when it calls enter_streaming, and the
\* first buffers it queues; b is the backlog it starts from.
StartPool(tg, pd, b, r) ==
  /\ memory' = PoolMemory(tg, pd) /\ capGeom' = fwGeom
  /\ cap' = requeue_capture(PoolMemory(tg, pd), r.cap, tg)
  /\ import_rejected' = (import_rejected \/
                           (ImportAsked(tg, pd) /\ ~ImportGranted(tg, pd)))
  /\ capMem' = [c \in CapSlots |-> NoToken]

configure_capture(tg, pd) ==
  \E b \in Backlogs(tg, pd) : \E n \in Dropped(b, tg, pd) :
    LET r == ImportNext(PoolMemory(tg, pd), fwGeom, b, fresh_capture, tg, pd,
                        n, FALSE)
    IN /\ ~r.throws
       /\ StartPool(tg, pd, b, r)
       /\ target' = r.target /\ pending' = r.pending
       /\ import_backlog' = r.backlog
       /\ source_change' = FALSE /\ saw_last' = FALSE /\ state' = "Streaming"
       /\ phase' = "run" /\ blocked' = FALSE
       /\ UNCHANGED faults

\* It throws: the decoder refuses the format or the buffers, and no pool
\* exists; or the first client buffer cannot be queued, and one does.
configure_capture_throws(tg, pd) ==
  /\ source_change' = TRUE /\ UNCHANGED <<saw_last, phase, blocked>>
  /\ \/ /\ Fault
        /\ memory' = "Unallocated" /\ cap' = fresh_capture
        /\ Unwind("Configured", tg, pd, import_backlog)
        /\ UNCHANGED <<capGeom, import_rejected, capMem>>
     \/ \E b \in Backlogs(tg, pd), late \in BOOLEAN :
          \E n \in Dropped(b, tg, pd) :
            LET r == ImportNext(PoolMemory(tg, pd), fwGeom, b, fresh_capture,
                                tg, pd, n, late)
            IN /\ r.throws /\ FenceCost(late)
               /\ StartPool(tg, pd, b, r)
               /\ Unwind("Configured", r.target, r.pending, r.backlog)

\* The variables neither of the two touches.
poolRest == <<mode, next_token, out, evt, fwGeom, outQ, inFw, outDone, capDone,
              cliMem>>

\* continue_reconfigure waits while a frame of the old pool is held;
\* otherwise the pool goes (release_capture) and a new one is built.
X_Deferred(tg) == FALSE              \* the pool goes with frames held
Deferred(tg)   == capture_held(tg) # {}
-----------------------------------------------------------------------------
(* The calls of the clients.                                               *)

\* pump() begins: free slots are requeued, unless the session has failed and
\* the pass is over at once.
PumpStart(tg) ==
  /\ cap' = IF state = "Failed" THEN cap ELSE requeue_capture(memory, cap, tg)
  /\ pc' = IF state = "Failed" THEN "return" ELSE "events"

Forget(w, t) == IF Waiting(t) THEN w ELSE [w EXCEPT ![t] = "idle"]

\* submit, up to its first pump.  va::submit stores the policy and the
\* destination just before it calls Session::submit; it chooses the policy
\* without the lock (supports_import), so it may be that of a pool which is
\* gone, and any policy is possible here.  A client does not submit into a
\* surface that it is syncing.  An access unit larger than au_capacity is refused
\* here before anything changes, which is no step of the model.
Submit(t, p) ==
  /\ call = "none" /\ state \notin {"Failed", "Finished"}
  /\ ~Waiting(t) /\ next_token <= MaxToken
  /\ LET r == IF target[t].pending THEN Released(target[t]) ELSE target[t]
     IN target' = [target EXCEPT ![t] =
                     [r EXCEPT !.publish = p, !.destination = (p # "Direct")]]
  /\ pending' = release_token(target, pending, t)
  /\ call' = "submit" /\ arg' = t /\ PumpStart(target')
  /\ waiter' = Forget(waiter, t)
  /\ UNCHANGED <<state, mode, next_token, out, memory, capGeom,
                 source_change, saw_last, import_rejected, import_backlog,
                 drain_for, decoderVars>>

Enter(c, t) ==
  /\ call = "none"
  /\ call' = c /\ arg' = t /\ PumpStart(target)
  /\ UNCHANGED <<state, mode, target, pending, next_token, out, memory, capGeom,
                 source_change, saw_last, import_rejected,
                 import_backlog, drain_for, decoderVars>>

Service == state # "Failed" /\ Enter("service", None) /\ UNCHANGED waiter

\* wait on a target that is not pending answers at once.
WaitSettled(t) ==
  /\ call = "none" /\ ~Waiting(t) /\ ~target[t].pending
  /\ waiter' = [waiter EXCEPT ![t] = IF target[t].error THEN "error" ELSE "ok"]
  /\ UNCHANGED <<state, mode, target, pending, next_token, out, cap, memory,
                 capGeom, source_change, saw_last, import_rejected,
                 import_backlog, call, arg, pc, drain_for, decoderVars>>

Wait(t) ==
  /\ ~Waiting(t) /\ target[t].pending /\ state # "Failed"
  /\ Enter("wait", t)
  /\ waiter' = [waiter EXCEPT ![t] = "polling"]

\* The poll outside the lock is over and wait() has the lock again.
Relock(t) == Waiting(t) /\ Enter("wait", t) /\ UNCHANGED waiter

\* release.  Another thread may be inside wait() on the same target: the
\* target of a context that is being destroyed (picture.cc:127).
Release(t) ==
  /\ call = "none"
  /\ waiter' = Forget(waiter, t)
  /\ UNCHANGED <<call, arg, pc, drain_for>>
  /\ LET tg == release_target(target, t)
         pd == release_token(target, pending, t)
     IN \/ /\ state # "Reconfiguring" \/ Deferred(tg)
           /\ target' = tg /\ pending' = pd
           /\ UNCHANGED <<state, mode, next_token, out, cap, memory, capGeom,
                          source_change, saw_last, import_rejected,
                          import_backlog, decoderVars>>
        \/ /\ state = "Reconfiguring" /\ ~Deferred(tg)
           /\ configure_capture(tg, pd) \/ configure_capture_throws(tg, pd)
           /\ UNCHANGED poolRest

\* STOP.  EBUSY (a fault) makes drain() throw with the state at Draining.
\* Only what BeginDrain leaves alone in both cases is listed as unchanged.
BeginDrain(why) ==
  /\ drain_for' = why /\ pc' = "drain"
  /\ state' = "Draining" /\ saw_last' = FALSE /\ phase' = "stop"
  /\ UNCHANGED <<target, pending, import_backlog, faults>>

StopBusy(why) ==
  /\ Fault /\ saw_last' = FALSE /\ UNCHANGED phase
  /\ IF why = "drc" THEN Fail(target, pending)
     ELSE /\ state' = IF why = "finish" THEN "Finished" ELSE "Draining"
          /\ UNCHANGED <<target, pending, import_backlog>>

drainRest == <<mode, next_token, out, cap, memory, capGeom, source_change,
               import_rejected, blocked, evt, fwGeom, outQ, inFw, outDone,
               capDone, capMem, cliMem>>

\* finish: drain a streaming session; any other one is over at once.
Finish ==
  /\ call = "none" /\ state \notin {"Failed", "Finished"}
  /\ UNCHANGED <<waiter, arg, drainRest>>
  /\ \/ /\ state = "Streaming"
        /\ call' = "finish" /\ BeginDrain("finish")
     \/ /\ state = "Streaming"
        /\ StopBusy("finish") /\ UNCHANGED <<call, pc, drain_for>>
     \/ /\ state # "Streaming" /\ state' = "Finished"
        /\ UNCHANGED <<call, pc, drain_for, saw_last, phase, target, pending,
                       import_backlog, faults>>
-----------------------------------------------------------------------------
(* pump(): one service pass.                                               *)

\* handle_events, in pump() and in drain().
HandleEvents ==
  /\ pc \in {"events", "devents"}
  /\ source_change' = (source_change \/ evt) /\ evt' = FALSE
  /\ Goto(CASE pc = "devents" -> "doutputs"
            [] pc = "events" /\ source_change' /\ state = "Configured" -> "configure"
            [] OTHER -> "outputs")
  /\ UNCHANGED <<state, mode, target, pending, next_token, out, cap, memory,
                 capGeom, saw_last, import_rejected, import_backlog, phase,
                 blocked, fwGeom, outQ, inFw, outDone, capDone, capMem, cliMem,
                 faults>>

\* configure_capture from pump().  A pool left over from a failed attempt
\* makes allocate_capture throw.
Configure ==
  /\ pc = "configure"
  /\ UNCHANGED poolRest
  /\ \/ /\ memory = "Unallocated"
        /\ configure_capture(target, pending) /\ Goto("outputs")
     \/ /\ memory = "Unallocated"
        /\ configure_capture_throws(target, pending) /\ Return("error")
     \/ /\ memory # "Unallocated"
        /\ Throw(state, target, pending, import_backlog)
        /\ UNCHANGED <<cap, memory, capGeom, source_change, saw_last,
                       import_rejected, phase, blocked, capMem, faults>>

\* handle_output_returns: one returned OUTPUT buffer, in each of the loops
\* that call it.
ReturnOutput ==
  /\ pc \in {"outputs", "doutputs", "flush", "soutputs"} /\ outDone # <<>>
  /\ LET d == Head(outDone)
         K == IF d.error THEN {out[d.slot].token} ELSE {}
     IN /\ out' = [out EXCEPT ![d.slot] = IdleOutput]
        /\ target' = FailTokens(target, pending, K)
        /\ pending' = Erase(pending, K)
  /\ outDone' = Tail(outDone)
  /\ UNCHANGED <<state, mode, next_token, cap, memory, capGeom, source_change,
                 saw_last, import_rejected, import_backlog, call, arg, pc,
                 drain_for, waiter, phase, blocked, evt, fwGeom, outQ, inFw,
                 capDone, capMem, cliMem, faults>>

\* A loop over DQBUF ends with EAGAIN (or EPIPE on CAPTURE).
LoopEnds ==
  /\ \/ /\ pc = "outputs" /\ outDone = <<>>
        /\ Goto(IF state \in {"Streaming", "Draining"} THEN "captures" ELSE "tail")
     \/ pc = "doutputs" /\ outDone = <<>> /\ Goto("dcaptures")
     \/ pc = "soutputs" /\ outDone = <<>> /\ Goto("start")
     \/ pc = "captures" /\ capDone = <<>> /\ Goto("tail")
     \/ pc = "dcaptures" /\ capDone = <<>> /\ Goto("drain")
  /\ UNCHANGED <<state, mode, target, pending, next_token, out, cap, memory,
                 capGeom, source_change, saw_last, import_rejected,
                 import_backlog, decoderVars>>

\* Any other errno of DQBUF is an error.
DequeueError ==
  /\ pc \in {"outputs", "doutputs", "flush", "soutputs", "captures", "dcaptures"}
  /\ Fault
  /\ Throw(state, target, pending, import_backlog)
  /\ UNCHANGED <<mode, next_token, out, cap, memory, capGeom, source_change,
                 saw_last, import_rejected, phase, blocked, evt, fwGeom, outQ,
                 inFw, outDone, capDone, capMem, cliMem>>
-----------------------------------------------------------------------------
(* handle_capture_returns: one returned CAPTURE buffer.                    *)

\* publish(): the policy a picture is really published with, and its target
\* afterwards.  Only a Direct target keeps the CAPTURE slot.
X_Policy(r) == IF memory = "Import" THEN "Import" ELSE r.publish  \* no fallback
Policy(r) == CASE memory = "Import"    -> "Import"
               [] memory # "Import" /\ r.publish = "Import" -> "Copy"
               [] OTHER                -> r.publish
X_Published(r, slot) ==              \* a copied picture keeps its slot
  [r EXCEPT !.pending = FALSE, !.completed = TRUE, !.error = FALSE,
            !.publish = Policy(r), !.frame = slot]
Published(r, slot) ==
  [r EXCEPT !.pending = FALSE, !.completed = TRUE, !.error = FALSE,
            !.publish = Policy(r),
            !.frame = IF Policy(r) = "Direct" THEN slot ELSE NoFrame]

\* Nothing to publish: an error marker, an empty buffer, or a picture whose
\* token nobody waits for any more.
Discarded(d, pd) ==
  \/ d.error /\ d.ts = NoToken
  \/ ~d.payload
  \/ d.ts \notin Tokens
  \/ d.ts \in Tokens /\ pd[d.ts] = None

\* The tokens that fail with this buffer: its own if it is flagged ERROR; its
\* own and the buffer's owner if an Import picture landed elsewhere.
X_Spoiled(d, slot_token) == IF d.error THEN {d.ts} ELSE {}   \* not compared
Spoiled(d, slot_token) ==
  CASE d.error -> {d.ts}
    [] ~d.error /\ memory = "Import" /\ slot_token # d.ts -> {d.ts, slot_token}
    [] OTHER -> {}

\* d is dequeued, its slot taken back and the next client buffer queued (r);
\* slot_token is the token the buffer was queued for.
Complete(d, slot_token, r) ==
  \/ /\ Discarded(d, r.pending)
     /\ target' = r.target /\ pending' = r.pending
     /\ import_backlog' = r.backlog
     /\ Goto(pc) /\ UNCHANGED <<state, cliMem, faults>>
  \/ /\ ~Discarded(d, r.pending) /\ Spoiled(d, slot_token) # {}
     /\ target' = FailTokens(r.target, r.pending, Spoiled(d, slot_token))
     /\ pending' = Erase(r.pending, Spoiled(d, slot_token))
     /\ import_backlog' = r.backlog
     /\ Goto(pc) /\ UNCHANGED <<state, cliMem, faults>>
  \/ /\ ~Discarded(d, r.pending) /\ Spoiled(d, slot_token) = {}
     /\ LET t  == r.pending[d.ts]
            pd == Erase(r.pending, {d.ts})
        IN \/ /\ target' = [r.target EXCEPT ![t] = Published(r.target[t], d.slot)]
              /\ pending' = pd /\ import_backlog' = r.backlog
              /\ cliMem' = IF Policy(r.target[t]) = "Copy"
                           THEN [cliMem EXCEPT ![t] = capMem[d.slot]] ELSE cliMem
              /\ Goto(pc) /\ UNCHANGED <<state, faults>>
           \/ \* the copy engine throws
              /\ Policy(r.target[t]) = "Copy" /\ Fault
              /\ Throw(state, [r.target EXCEPT ![t] =
                                 [Failed(r.target[t]) EXCEPT !.publish = "Copy"]],
                       pd, r.backlog)
              /\ UNCHANGED cliMem

ReturnCapture ==
  /\ pc \in {"captures", "dcaptures"} /\ capDone # <<>>
  /\ capDone' = Tail(capDone)
  /\ UNCHANGED <<mode, next_token, out, memory, capGeom, source_change,
                 import_rejected, phase, blocked, evt, fwGeom, outQ, inFw,
                 outDone, capMem>>
  /\ \E n \in Dropped(import_backlog, target, pending), late \in BOOLEAN :
       LET d    == Head(capDone)
           took == take_capture(cap, d.slot)
           r    == ImportNext(IF state = "Streaming" THEN memory ELSE "Unallocated",
                              capGeom, import_backlog, took, target, pending,
                              n, late)
       IN /\ cap' = r.cap
          /\ \/ /\ r.throws /\ FenceCost(late) /\ UNCHANGED <<saw_last, cliMem>>
                /\ Throw(state, r.target, r.pending, r.backlog)
             \/ /\ ~late /\ ~r.throws
                /\ saw_last' = (saw_last \/ d.last)
                /\ Complete(d, cap[d.slot].import_token, r)
-----------------------------------------------------------------------------
(* The end of a pass: a resolution change begins or goes on.               *)

\* continue_reconfigure, under pump(): deferred, done or failed.
Reconfigure ==
  /\ UNCHANGED poolRest
  /\ \/ /\ Deferred(target)
        /\ pc' = "return" /\ drain_for' = "none"
        /\ UNCHANGED <<state, target, pending, import_backlog, cap, memory,
                       capGeom, source_change, saw_last, import_rejected, phase,
                       blocked, capMem, faults, call, arg, waiter>>
     \/ /\ ~Deferred(target) /\ configure_capture(target, pending)
        /\ pc' = "return" /\ drain_for' = "none"
        /\ UNCHANGED <<call, arg, waiter>>
     \/ /\ ~Deferred(target) /\ configure_capture_throws(target, pending)
        /\ Return("error")

PumpTail ==
  /\ pc = "tail"
  /\ \/ /\ source_change /\ state = "Streaming"
        /\ UNCHANGED drainRest
        /\ \/ BeginDrain("drc") /\ UNCHANGED <<call, arg, waiter>>
           \/ StopBusy("drc") /\ Return("error")
     \/ state = "Reconfiguring" /\ Reconfigure
     \/ /\ state # "Reconfiguring" /\ ~(source_change /\ state = "Streaming")
        /\ cap' = requeue_capture(memory, cap, target)
        /\ Goto("return")
        /\ UNCHANGED <<state, mode, target, pending, next_token, out, memory,
                       capGeom, source_change, saw_last, import_rejected,
                       import_backlog, decoderVars>>

\* The drain of a resolution change is over.
Rebuild == pc = "rebuild" /\ Reconfigure
-----------------------------------------------------------------------------
(* drain() and restart().                                                  *)

\* One turn of the wait for LAST: whatever the firmware may need to write
\* into is queued, in an Import pool a scratch buffer if nothing else is.
DrainTurn ==
  /\ pc = "drain" /\ ~saw_last
  /\ UNCHANGED <<mode, next_token, out, memory, capGeom, source_change,
                 saw_last, import_rejected, phase, blocked, evt, fwGeom, outQ,
                 inFw, outDone, capDone, capMem, cliMem>>
  /\ \E n \in Dropped(import_backlog, target, pending), late \in BOOLEAN :
       LET r == ImportNext(memory, capGeom, import_backlog,
                           requeue_capture(memory, cap, target), target,
                           pending, n, late)
       IN \/ /\ r.throws /\ FenceCost(late) /\ cap' = r.cap
             /\ Throw(state, r.target, r.pending, r.backlog)
          \/ /\ ~late /\ ~r.throws
             /\ cap' = IF memory = "Import" /\ capture_queued(r.cap) = {}
                       THEN queue_capture_scratch(r.cap) ELSE r.cap
             /\ target' = r.target /\ pending' = r.pending
             /\ import_backlog' = r.backlog
             /\ Goto("devents") /\ UNCHANGED <<state, faults>>

\* No LAST within kLastWaitMs: a fault of the firmware.
DrainExpires ==
  /\ pc = "drain" /\ ~saw_last /\ Fault
  /\ Fail(target, pending) /\ Return("error")
  /\ UNCHANGED <<mode, next_token, out, cap, memory, capGeom, source_change,
                 saw_last, import_rejected, phase, blocked, evt, fwGeom, outQ,
                 inFw, outDone, capDone, capMem, cliMem>>

\* LAST was seen.  Before a START the OUTPUT buffers are given kOutputDrainMs
\* to come back; the wait ends when they are or when the time is up.
X_LastSeen ==                        \* LAST is not waited for
  /\ \/ pc = "drain" /\ Goto(IF drain_for = "timeout" THEN "flush" ELSE "drained")
     \/ pc = "flush" /\ Goto("drained")
  /\ UNCHANGED <<state, mode, target, pending, next_token, out, cap, memory,
                 capGeom, source_change, saw_last, import_rejected,
                 import_backlog, decoderVars>>
LastSeen ==
  /\ \/ pc = "drain" /\ saw_last
        /\ Goto(IF drain_for = "timeout" THEN "flush" ELSE "drained")
     \/ pc = "flush" /\ Goto("drained")
  /\ UNCHANGED <<state, mode, target, pending, next_token, out, cap, memory,
                 capGeom, source_change, saw_last, import_rejected,
                 import_backlog, decoderVars>>

\* fail_unrecoverable_tokens: only a token whose OUTPUT slot is still queued
\* can decode later.
Unrecoverable ==
  {k \in Tokens : \A o \in OutSlots : ~(out[o].queued /\ out[o].token = k)}

\* The end of drain(), and what its caller does next: restart() requeues
\* and starts; reconfigure() stops CAPTURE and rebuilds; finish() is done.
Drained ==
  /\ pc = "drained"
  /\ target' = FailTokens(target, pending, Unrecoverable)
  /\ pending' = Erase(pending, Unrecoverable)
  /\ UNCHANGED <<mode, next_token, out, memory, capGeom, source_change,
                 saw_last, import_rejected, import_backlog, blocked, evt,
                 fwGeom, outQ, outDone, capMem, cliMem, faults>>
  /\ \/ /\ drain_for = "timeout"
        /\ state' = "RestartPending" /\ Goto("start")
        /\ cap' = requeue_capture(memory, cap, target)
        /\ UNCHANGED <<phase, inFw, capDone>>
     \/ /\ drain_for = "drc"
        /\ state' = "Reconfiguring" /\ Goto("rebuild")
        /\ cap' = mark_all_capture_returned
        /\ phase' = "announced" /\ inFw' = {} /\ capDone' = <<>>
     \/ /\ drain_for = "finish"
        /\ state' = "Finished" /\ Return("ok")
        /\ UNCHANGED <<cap, phase, inFw, capDone>>

\* DECODER_CMD_START is EBUSY while the decoder has an OUTPUT buffer.
OutputBusy == outQ # <<>> \/ \E o \in OutSlots : Consumed(o)

Start ==
  /\ pc = "start" /\ ~OutputBusy
  /\ phase' = "run" /\ saw_last' = FALSE /\ state' = "Streaming"
  /\ pc' = "return" /\ drain_for' = "none" /\ UNCHANGED <<call, arg, waiter>>
  /\ UNCHANGED <<mode, target, pending, next_token, out, cap, memory, capGeom,
                 source_change, import_rejected, import_backlog, blocked, evt,
                 fwGeom, outQ, inFw, outDone, capDone, capMem, cliMem, faults>>

StartBusy ==
  /\ pc = "start" /\ OutputBusy
  /\ \/ Goto("soutputs") /\ UNCHANGED <<state, target, pending, import_backlog>>
     \/ Fail(target, pending) /\ Return("error")    \* stayed busy
  /\ UNCHANGED <<mode, next_token, out, cap, memory, capGeom, source_change,
                 saw_last, import_rejected, decoderVars>>
-----------------------------------------------------------------------------
(* What the call does when a service pass has returned.                    *)

callRest == <<state, mode, target, pending, next_token, out, memory, capGeom,
              source_change, saw_last, import_rejected,
              import_backlog, decoderVars>>

PumpAgain(c) == /\ call' = c /\ PumpStart(target)
                /\ UNCHANGED <<arg, drain_for, waiter>>

\* service() is done; submit() is done once the first SOURCE_CHANGE came.
CallDone ==
  /\ pc = "return" /\ UNCHANGED <<callRest, cap>>
  /\ \/ call = "service" /\ Return("ok")
     \/ call = "bringup" /\ state # "Configured" /\ Return("ok")

\* submit() goes round again: while a resolution change waits, while no
\* OUTPUT slot is free, while CAPTURE is not configured.
SubmitLoops ==
  /\ pc = "return" /\ UNCHANGED callRest
  /\ \/ call = "submit" /\ state = "Reconfiguring" /\ PumpAgain("submit")
     \/ /\ call = "slot" \/ (call = "submit" /\ state # "Reconfiguring")
        /\ free_outputs(out) = {} /\ state \in {"Streaming", "Configured"}
        /\ PumpAgain("slot")
     \/ call = "bringup" /\ state = "Configured" /\ PumpAgain("bringup")

\* Each of those loops may run into its deadline (SURFACE_BUSY, TIMEDOUT),
\* and the second gives up at once (HW_BUSY) when the session stopped
\* streaming under it.  No SOURCE_CHANGE within kSourceChangeWaitMs is a
\* fault of the firmware; the picture stays pending and queued.  Or QBUF refuses
\* the OUTPUT buffer: then nothing has changed yet but next_token_, and whether a
\* number that nobody has is skipped makes no difference.
SubmitGivesUp ==
  /\ pc = "return" /\ UNCHANGED <<state, mode, target, pending, next_token,
     out, cap, memory, capGeom, source_change, saw_last, import_rejected,
     import_backlog, phase, blocked, evt, fwGeom, outQ, inFw, outDone, capDone,
     capMem, cliMem>>
  /\ \/ call = "submit" /\ state = "Reconfiguring" /\ UNCHANGED faults
     \/ /\ call = "slot" \/ (call = "submit" /\ state # "Reconfiguring")
        /\ \/ free_outputs(out) = {} /\ UNCHANGED faults
           \/ free_outputs(out) # {} /\ Fault
     \/ call = "bringup" /\ state = "Configured" /\ Fault
  /\ Return("error")

X_NewToken == next_token - 1          \* token 0 means no token
NewToken   == next_token              \* next_token_++

\* The access unit goes into a free OUTPUT slot under a new token.  A fence
\* or QBUF error of the Import buffer leaves submit() with the picture queued.
Accept ==
  /\ pc = "return" /\ free_outputs(out) # {}
  /\ call = "slot" \/ (call = "submit" /\ state # "Reconfiguring")
  /\ LET o  == free_output(out)
         k  == NewToken
         tg == [target EXCEPT ![arg] =
                  [target[arg] EXCEPT !.token = k, !.pending = TRUE,
                     !.completed = FALSE, !.error = FALSE, !.frame = NoFrame]]
         pd == [pending EXCEPT ![k] = arg]
         b  == IF memory = "Import"
               THEN push(import_backlog, k,
                         IF target[arg].destination THEN arg ELSE None)
               ELSE import_backlog
     IN /\ out' = [out EXCEPT ![o] = [queued |-> TRUE, token |-> k]]
        /\ outQ' = Append(outQ, [slot |-> o, token |-> k, geom |-> SurfGeom[arg]])
        /\ \E n \in Dropped(b, tg, pd), late \in BOOLEAN :
             LET r == ImportNext(memory, capGeom, b, cap, tg, pd, n, late)
             IN /\ cap' = r.cap /\ target' = r.target /\ pending' = r.pending
                /\ import_backlog' = r.backlog
                /\ late => r.throws
                /\ FenceCost(late)
                /\ \/ (r.throws \/ state # "Configured") /\ Return("error")
                   \/ /\ ~r.throws /\ state = "Configured"
                      /\ call' = "bringup" /\ UNCHANGED <<arg, pc, drain_for, waiter>>
  /\ next_token' = next_token + 1
  /\ UNCHANGED <<state, mode, memory, capGeom, source_change, saw_last,
                 import_rejected, phase, blocked, evt, fwGeom, inFw, outDone,
                 capDone, capMem, cliMem>>

\* The head of wait()'s loop, target settled or session failed.
WaitReturns ==
  /\ pc = "return" /\ call = "wait"
  /\ ~target[arg].pending \/ state = "Failed"
  /\ Return(IF target[arg].pending \/ target[arg].error THEN "error" ELSE "ok")
  /\ UNCHANGED <<callRest, cap>>

\* Not yet: unlock and poll.
WaitPolls ==
  /\ pc = "return" /\ call = "wait" /\ target[arg].pending /\ state # "Failed"
  /\ call' = "none" /\ arg' = None /\ pc' = "idle" /\ UNCHANGED <<drain_for, waiter>>
  /\ UNCHANGED <<callRest, cap>>

\* The deadline.  Display-order firmware may hold the picture back: one drain
\* flushes it.  Otherwise the token is given up.
X_WaitExpires == FALSE                \* the clock is never looked at
WaitExpires ==
  /\ mode \in SyncExpiry
  /\ pc = "return" /\ call = "wait" /\ target[arg].pending /\ state # "Failed"
  /\ LET drains == /\ mode = "DisplayOrder" /\ waiter[arg] = "polling"
                   /\ state = "Streaming"
     IN \/ /\ drains /\ BeginDrain("timeout")
           /\ waiter' = [waiter EXCEPT ![arg] = "drained"]
           /\ UNCHANGED <<call, arg, drainRest>>
        \/ /\ drains /\ StopBusy("timeout") /\ Return("error")
           /\ UNCHANGED drainRest
        \/ /\ ~drains /\ Return("error")
           /\ target' = [target EXCEPT ![arg] = Failed(target[arg])]
           /\ pending' = Erase(pending, {target[arg].token})
           /\ UNCHANGED <<state, saw_last, phase, import_backlog, faults, drainRest>>
-----------------------------------------------------------------------------
Init ==
  /\ DecoderInit
  /\ state = "Configured" /\ mode \in Modes
  /\ target = [t \in Targets |->
                 [token |-> NoToken, pending |-> FALSE, completed |-> FALSE,
                  error |-> FALSE, publish |-> "Direct", destination |-> FALSE,
                  frame |-> NoFrame]]
  /\ pending = [k \in Tokens |-> None] /\ next_token = 1
  /\ out = [o \in OutSlots |-> IdleOutput] /\ cap = fresh_capture
  /\ memory = "Unallocated" /\ capGeom = fwGeom
  /\ source_change = FALSE /\ saw_last = FALSE /\ import_rejected = FALSE
  /\ import_backlog = <<>>
  /\ call = "none" /\ arg = None /\ pc = "idle" /\ drain_for = "none"
  /\ waiter = [t \in Targets |-> "idle"]

Client ==
  \/ \E t \in Targets :
       \/ \E p \in Policies : Submit(t, p)
       \/ "wait" \in Ops /\ (WaitSettled(t) \/ Wait(t))
       \/ "release" \in Ops /\ Release(t)
  \/ "service" \in Ops /\ Service
  \/ "finish" \in Ops /\ Finish

\* The steps of the call that holds the lock that are not deadlines.
Working ==
  \/ HandleEvents \/ Configure \/ ReturnOutput \/ LoopEnds
  \/ ReturnCapture \/ PumpTail \/ Rebuild
  \/ DrainTurn \/ LastSeen \/ Drained \/ Start
  \/ CallDone \/ Accept \/ WaitReturns

Looping == SubmitLoops \/ WaitPolls \/ StartBusy
Expiring == SubmitGivesUp \/ WaitExpires \/ DrainExpires
Firmware == FirmwareStep /\ UNCHANGED <<driverVars, mode, out, cap>>

Next ==
  \/ Client \/ (\E t \in Targets : Relock(t))
  \/ Working \/ Looping \/ Expiring \/ DequeueError
  \/ Firmware

Spec == Init /\ [][Next]_vars

\* What may be relied on.  The call under the lock runs on.  A thread that
\* polls gets the lock again, and the loops of submit() and wait() reach their
\* deadlines, however often others take the lock in between; so does the loop
\* of restart(), which a resolution change keeps busy.  The decoder goes on
\* with what it has; in display order it may keep a picture back until it is
\* stopped.  No client is obliged to call anything.
Obliged == Firmware /\ (mode = "DecodeOrder" \/ phase # "run")
Fairness ==
  /\ WF_vars(Working \/ Looping)
  /\ SF_vars(SubmitGivesUp /\ (call = "bringup" \/ UNCHANGED faults))
  /\ SF_vars(StartBusy /\ call' = "none")
  /\ \A t \in Targets : SF_vars(Relock(t)) /\ SF_vars(arg = t /\ WaitExpires)
  /\ WF_vars(Obliged)

FairSpec == Spec /\ Fairness

TypeOK ==
  /\ state \in SessionState /\ mode \in SessionMode
  /\ target \in [Targets -> Target]
  /\ pending \in [Tokens -> Targets \cup {None}]
  /\ next_token \in 1..(MaxToken + 1)
  /\ out \in [OutSlots -> OutputSlot] /\ cap \in [CapSlots -> Frame]
  /\ memory \in CaptureMemory /\ capGeom \in Geoms
  /\ source_change \in BOOLEAN /\ saw_last \in BOOLEAN
  /\ import_rejected \in BOOLEAN
  /\ import_backlog \in Seq(ImportEntry)
  /\ call \in Calls /\ arg \in Targets \cup {None} /\ pc \in Pcs
  /\ drain_for \in Drains /\ waiter \in [Targets -> Waits]
  /\ DecoderTypeOK
-----------------------------------------------------------------------------
(* Safety.                                                                 *)

\* The map of live tokens and the targets tell the same story: a token in
\* the map belongs to a pending target that carries it, and every pending
\* target can be found by its token (session.h:185).  A target lost from the
\* map would never complete; a stale entry would complete a stranger.
PendingAgree ==
  /\ \A k \in Tokens : pending[k] # None =>
       target[pending[k]].pending /\ target[pending[k]].token = k
  /\ \A t \in Targets : target[t].pending =>
       target[t].token \in Tokens /\ pending[target[t].token] = t

\* architecture.md section 10, invariant 2: the firmware never owns a slot
\* whose pixels a surface still holds.
HeldNotQueued == \A c \in CapSlots : held(target, c) => ~cap[c].queued

\* What a published target shows is its own picture, whole and unchanged,
\* for as long as it is not released: in the slot it holds, or in its stable
\* buffer (publish(), requeue_capture(), queue_import_next()).
PublishedPixels ==
  \A t \in Targets : target[t].completed =>
    IF target[t].frame # NoFrame THEN capMem[target[t].frame] = target[t].token
    ELSE cliMem[t] = target[t].token

\* After fail() nothing is pending and no client buffer waits: every waiter
\* gets its answer from the target alone (session.cc:853).
FailedIsClean ==
  state = "Failed" => (\A k \in Tokens : pending[k] = None) /\ import_backlog = <<>>

\* architecture.md section 10, invariant 9: one client buffer at a time with
\* the firmware, and the scratch buffer never next to one.
ImportWindow ==
  memory = "Import" => Cardinality(capture_queued(cap)) <= 1

\* wait() says OK for a picture only if the picture was published, unless the
\* target was released meanwhile (invariant 4).
SyncHonest ==
  \A t \in Targets : waiter[t] = "ok" =>
    ~target[t].pending /\ ~target[t].error /\
    (target[t].completed \/ target[t].token = NoToken)

\* Invariant 9, without faults: a picture comes back in the buffer that was
\* queued for it, so no picture is ever counted as misplaced.
Lockstep ==
  memory = "Import" /\ faults = 0 =>
    \A i \in DOMAIN capDone :
      LET d == capDone[i] IN
        d.payload /\ d.ts \in Tokens /\ pending[d.ts] # None =>
          cap[d.slot].import_token = d.ts

\* Invariant 9: every picture the firmware has yet to write has its buffer,
\* queued or waiting in the backlog, released or not (a healthy decoder).
NoHoles ==
  memory = "Import" /\ state = "Streaming" /\ faults = 0 =>
    \A k \in inFw \cup {outQ[i].token : i \in DOMAIN outQ} :
      \/ \E c \in CapSlots : cap[c].import_token = k
      \/ \E i \in DOMAIN import_backlog : import_backlog[i].token = k

\* Display order: one drain flushes the reorder window, so a picture that its
\* sync drained for is there when the drain and the restart are over
\* (session.cc:627).  For a healthy decoder.
DrainFlushes ==
  \A t \in Targets : waiter[t] = "drained" /\ pc = "return" =>
    ~target[t].pending /\ ~target[t].error

\* The client buffers go to the firmware in the order of their pictures
\* (session.h:193).
InSubmissionOrder ==
  /\ \A i, j \in DOMAIN import_backlog :
       i < j => import_backlog[i].token < import_backlog[j].token
  /\ \A c \in CapSlots, i \in DOMAIN import_backlog :
       cap[c].import_token < import_backlog[i].token

\* finish() drains so every pending target completes or fails
\* (picture.cc:158).
FinishedIsClean == state = "Finished" => \A t \in Targets : ~target[t].pending

\* No call keeps the lock for ever: every loop under it ends, with a healthy
\* decoder before its deadline, the wait for LAST in particular, for which
\* drain() must leave the decoder a buffer (session.cc:698).
CallReturns == call # "none" ~> call = "none"

\* Every sync is answered, and without its deadline in the modes that are not
\* in SyncExpiry: the decoder never runs out of buffers for the picture that is
\* waited for.  A finished session serves nobody any more.
SyncAnswered ==
  \A t \in Targets : Waiting(t) ~> ~Waiting(t) \/ state = "Finished"
-----------------------------------------------------------------------------
(* The session implements DecodePromise.                                   *)

Fate(r) == CASE r.pending -> "pending" [] r.completed -> "published"
             [] r.error -> "failed" [] OTHER -> "none"
Pixels(t) == CASE ~target[t].completed -> NoToken
               [] target[t].completed /\ target[t].frame # NoFrame ->
                    capMem[target[t].frame]
               [] OTHER -> cliMem[t]

Answer(t) == CASE ~Waiting(t) -> waiter[t]
               [] Waiting(t) /\ drain_for = "timeout" /\ arg = t -> "flushing"
               [] OTHER -> "asked"

Promise == INSTANCE DecodePromise WITH
  fate    <- [t \in Targets |-> Fate(target[t])],
  picture <- [t \in Targets |-> target[t].token],
  shows   <- [t \in Targets |-> Pixels(t)],
  answer  <- [t \in Targets |-> Answer(t)],
  last    <- next_token - 1,
  open    <- state \notin {"Finished", "Failed"}

\* Every picture has one fate, decided once; a surface shows its own picture
\* until it is released; a sync says SUCCESS only for a picture that is there.
KeepsPromise == Promise!PromiseSpec
=============================================================================
