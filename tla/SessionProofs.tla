--------------------------- MODULE SessionProofs ---------------------------
(***************************************************************************)
(* What becomes of pictures in Session, for every number of surfaces,      *)
(* slots, pictures and faults: the map of live tokens agrees with the      *)
(* targets, a settled target stays as it is, a failed session leaves       *)
(* nothing behind, and a sync answers OK only for what is there.           *)
(***************************************************************************)
EXTENDS Session, FiniteSetTheorems, SequenceTheorems, WellFoundedInduction, TLAPS

-----------------------------------------------------------------------------
(* SlotPool's operators.                                                   *)

\* A nonempty set of slot numbers has a least one: what the search of
\* SlotPool::free_output from the first slot on returns is defined.
LEMMA LeastSlot ==
  ASSUME NEW N \in Nat, NEW S \in SUBSET (1..N), S # {}
  PROVE  \E m \in S : \A n \in S : m <= n
<1> DEFINE Below(m) == {n \in S : n <= m}
           T == {Below(m) : m \in S}
<1>1. IsFiniteSet(S)
  <2>1. 1 \in Int /\ N \in Int
    OBVIOUS
  <2>2. IsFiniteSet(1..N)
    BY <2>1, FS_Interval, Zenon
  <2> QED BY <2>2, FS_Subset, Zenon
<1>2. T \subseteq FiniteSubsetsOf(S)
  <2>1. ASSUME NEW m \in S PROVE Below(m) \in FiniteSubsetsOf(S)
    <3>1. Below(m) \in SUBSET S
      OBVIOUS
    <3> QED BY <3>1, <1>1, FS_Subset, Zenon DEF FiniteSubsetsOf
  <2> QED BY <2>1, Zenon
<1>a. T # {}
  BY Zenon
<1>3. PICK x \in T : \A y \in T : <<y, x>> \notin StrictSubsetOrdering(S)
  <2>1. IsWellFoundedOn(StrictSubsetOrdering(S), FiniteSubsetsOf(S))
    BY <1>1, FS_StrictSubsetOrderingWellFounded
  <2> HIDE DEF T
  <2> QED BY <2>1, <1>2, <1>a, WFMin
<1>4. PICK m \in S : x = Below(m)
  BY <1>3
<1>5. ASSUME NEW n \in S, ~(m <= n) PROVE FALSE
  <2>0. n \in Int /\ m \in Int /\ n <= m /\ ~(m <= n)
    BY <1>5
  <2>1. m \in Below(m) /\ m \notin Below(n)
    BY <2>0
  <2>2. ASSUME NEW i \in Below(n) PROVE i \in Below(m)
    BY <2>0, <2>2
  <2>4. <<Below(n), Below(m)>> \notin StrictSubsetOrdering(S)
    BY <1>3, <1>4
  <2>5. Below(n) \in SUBSET S /\ Below(m) \in SUBSET S
    OBVIOUS
  <2>6. Below(n) \subseteq Below(m) /\ Below(n) # Below(m)
    BY <2>1, <2>2
  <2> HIDE DEF Below
  <2>3. <<Below(n), Below(m)>> \in StrictSubsetOrdering(S)
    BY <2>5, <2>6 DEF StrictSubsetOrdering
  <2> QED BY <2>3, <2>4
<1> QED BY <1>5

\* free_output finds a slot that is not queued whenever there is one.
LEMMA FreeOutput ==
  ASSUME NEW ot, free_outputs(ot) # {}
  PROVE  free_output(ot) \in free_outputs(ot)
<1>1. NOut \in Nat
  BY SlotsAssumption
<1>2. free_outputs(ot) \in SUBSET (1..NOut)
  BY DEF free_outputs, OutSlots
<1>3. \E o \in free_outputs(ot) : \A p \in free_outputs(ot) : o <= p
  BY <1>1, <1>2, LeastSlot
<1> QED BY <1>3, Zenon DEF free_output

\* The pool operators return pools.
LEMMA PoolTypes ==
  ASSUME NEW cp \in [CapSlots -> Frame], NEW tg, NEW mem,
         NEW buf \in Targets \cup {None, Scratch},
         NEW k \in Tokens \cup {NoToken}, NEW c
  PROVE  /\ fresh_capture \in [CapSlots -> Frame]
         /\ requeue_capture(mem, cp, tg) \in [CapSlots -> Frame]
         /\ queue_capture_import(cp, buf, k) \in [CapSlots -> Frame]
         /\ queue_capture_scratch(cp) \in [CapSlots -> Frame]
         /\ take_capture(cp, c) \in [CapSlots -> Frame]
         /\ mark_all_capture_returned \in [CapSlots -> Frame]
<1>1. IdleFrame \in Frame /\ [queued |-> TRUE, import_token |-> k, buf |-> buf] \in Frame
  BY DEF IdleFrame, Frame
<1>2. [queued |-> TRUE, import_token |-> NoToken, buf |-> Scratch] \in Frame
  BY DEF Frame
<1>3. \A f \in Frame : [f EXCEPT !.queued = TRUE] \in Frame
  BY DEF Frame
<1>4. queue_capture_import(cp, buf, k) \in [CapSlots -> Frame]
  BY <1>1 DEF queue_capture_import
<1>5. queue_capture_scratch(cp) \in [CapSlots -> Frame]
  BY <1>2 DEF queue_capture_scratch, queue_capture_import
<1>6. requeue_capture(mem, cp, tg) \in [CapSlots -> Frame]
  BY <1>3 DEF requeue_capture
<1> QED BY <1>1, <1>4, <1>5, <1>6 DEF fresh_capture, take_capture, mark_all_capture_returned

-----------------------------------------------------------------------------
(* Types of the helpers.                                                   *)

\* A target stays a target when its picture is failed or released
\* (fail_all_pending, release_locked).
LEMMA FailedType ==
  ASSUME NEW r \in Target
  PROVE  Failed(r) \in Target /\ Released(r) \in Target
BY DEF Target, Failed, Released, NoFrame, NoToken

\* fail_all_pending and its partial forms keep targets and map well-typed.
LEMMA FailTypes ==
  ASSUME NEW tg \in [Targets -> Target],
         NEW pd \in [Tokens -> Targets \cup {None}], NEW K
  PROVE  /\ FailTokens(tg, pd, K) \in [Targets -> Target]
         /\ Erase(pd, K) \in [Tokens -> Targets \cup {None}]
<1>1. \A t \in Targets : tg[t] \in Target /\ Failed(tg[t]) \in Target
  BY FailedType
<1>2. FailTokens(tg, pd, K) \in [Targets -> Target]
  BY <1>1 DEF FailTokens
<1> QED BY <1>2 DEF Erase

\* release_locked gives back a target and a map of tokens.
LEMMA ReleaseTypes ==
  ASSUME NEW tg \in [Targets -> Target],
         NEW pd \in [Tokens -> Targets \cup {None}], NEW t \in Targets
  PROVE  /\ release_target(tg, t) \in [Targets -> Target]
         /\ release_token(tg, pd, t) \in [Tokens -> Targets \cup {None}]
<1>1. Released(tg[t]) \in Target
  BY FailedType
<1> QED BY <1>1, FailTypes DEF release_target, release_token

ImportResult ==
  [backlog : Seq(ImportEntry), cap : [CapSlots -> Frame],
   target : [Targets -> Target], pending : [Tokens -> Targets \cup {None}],
   throws : BOOLEAN]

\* queue_import_next keeps what it changes well-typed.
LEMMA ImportNextType ==
  ASSUME NEW mem, NEW g, NEW b \in Seq(ImportEntry),
         NEW cp \in [CapSlots -> Frame], NEW tg \in [Targets -> Target],
         NEW pd \in [Tokens -> Targets \cup {None}],
         NEW n \in Dropped(b, tg, pd), NEW late \in BOOLEAN
  PROVE  ImportNext(mem, g, b, cp, tg, pd, n, late) \in ImportResult
<1>1. n \in 0..Len(b) /\ Len(b) \in Nat
  BY DEF Dropped
<1>2. \A m \in 1..(Len(b) + 2) : SubSeq(b, m, Len(b)) \in Seq(ImportEntry)
  <2>1. TAKE m \in 1..(Len(b) + 2)
  <2>2. \A i \in m..Len(b) : b[i] \in ImportEntry
    BY <1>1, ElementOfSeq
  <2> QED BY <1>1, <2>2, SubSeqProperties
<1>3. ASSUME n # Len(b)
      PROVE  queue_capture_import(cp, b[n + 1].buf, b[n + 1].token) \in [CapSlots -> Frame]
  <2>1. b[n + 1] \in ImportEntry
    BY <1>1, <1>3, ElementOfSeq
  <2>2. b[n + 1].buf \in Targets \cup {None, Scratch} /\ b[n + 1].token \in Tokens \cup {NoToken}
    BY <2>1 DEF ImportEntry
  <2> QED BY <2>2, PoolTypes
<1> DEFINE K == {b[j].token : j \in {i \in 1..n : Disowned(b[i], tg, pd)}}
<1>4. /\ FailTokens(tg, pd, K) \in [Targets -> Target]
      /\ Erase(pd, K) \in [Tokens -> Targets \cup {None}]
  BY FailTypes
<1> HIDE DEF K
<1>5. n + 1 \in 1..(Len(b) + 2) /\ n + 2 \in 1..(Len(b) + 2)
  BY <1>1
<1> QED BY <1>1, <1>2, <1>3, <1>4, <1>5 DEF ImportNext, ImportResult, K

\* enter_streaming starts from a well-typed backlog.
LEMMA BacklogsType ==
  ASSUME TypeOK, NEW tg \in [Targets -> Target],
         NEW pd \in [Tokens -> Targets \cup {None}], NEW b \in Backlogs(tg, pd)
  PROVE  b \in Seq(ImportEntry)
<1>1. CASE ~ImportGranted(tg, pd)
  BY <1>1 DEF Backlogs, TypeOK
<1>2. CASE ImportGranted(tg, pd)
  <2> DEFINE S == Unlisted(tg, pd)
             e(s) == [i \in DOMAIN s |-> [token |-> s[i], buf |-> pd[s[i]]]]
  <2>1. PICK s \in Ascending(S) : b = import_backlog \o e(s)
    BY <1>2 DEF Backlogs
  <2>2. S \in SUBSET Tokens /\ \A k \in S : pd[k] \in Targets
    BY DEF Unlisted
  <2>3. Cardinality(S) \in Nat
    <3>1. MaxToken \in Int /\ 1 \in Int
      BY SlotsAssumption
    <3>2. IsFiniteSet(Tokens)
      BY <3>1, FS_Interval, Zenon DEF Tokens
    <3> QED BY <2>2, <3>2, FS_Subset, FS_CardinalityType
  <2>4. s \in [1..Cardinality(S) -> S]
    BY <2>1 DEF Ascending
  <2>5. \A i \in 1..Cardinality(S) :
          [token |-> s[i], buf |-> pd[s[i]]] \in ImportEntry
    BY <2>2, <2>4 DEF ImportEntry
  <2>6. e(s) \in [1..Cardinality(S) -> ImportEntry]
    BY <2>4, <2>5
  <2>7. e(s) \in Seq(ImportEntry)
    BY <2>3, <2>6, SeqDef
  <2> QED BY <2>1, <2>7, ConcatProperties DEF TypeOK
<1> QED BY <1>1, <1>2

\* What configure_capture assigns, whether it throws or not.
ConfiguredTypes ==
  /\ memory' \in CaptureMemory /\ capGeom' \in Geoms
  /\ cap' \in [CapSlots -> Frame] /\ import_rejected' \in BOOLEAN
  /\ capMem' \in [CapSlots -> Tokens \cup {NoToken}]
  /\ target' \in [Targets -> Target]
  /\ pending' \in [Tokens -> Targets \cup {None}]
  /\ import_backlog' \in Seq(ImportEntry)
  /\ source_change' \in BOOLEAN /\ saw_last' \in BOOLEAN
  /\ state' \in SessionState /\ phase' \in Phases /\ blocked' \in BOOLEAN
  /\ faults' \in 0..MaxFaults

\* Counting a failure keeps the count within its bound.
LEMMA FaultType ==
  ASSUME TypeOK, Fault PROVE faults' \in 0..MaxFaults
BY DecoderAssumption DEF TypeOK, DecoderTypeOK, Fault

\* What pump() and fail() leave behind when a pass is abandoned has its type.
LEMMA UnwindType ==
  ASSUME TypeOK, NEW st \in SessionState, NEW tg \in [Targets -> Target],
         NEW pd \in [Tokens -> Targets \cup {None}], NEW b \in Seq(ImportEntry),
         Unwind(st, tg, pd, b) \/ Fail(tg, pd)
  PROVE  /\ state' \in SessionState
         /\ target' \in [Targets -> Target]
         /\ pending' \in [Tokens -> Targets \cup {None}]
         /\ import_backlog' \in Seq(ImportEntry)
<1>1. <<>> \in Seq(ImportEntry) /\ {"Failed", "Finished"} \subseteq SessionState
  BY EmptySeq DEF SessionState
<1>2. CASE Fail(tg, pd)
  BY <1>1, <1>2, FailTypes DEF Fail
<1>3. CASE Unwind(st, tg, pd, b) /\ ~Fail(tg, pd)
  BY <1>1, <1>3 DEF Unwind
<1> QED BY <1>2, <1>3

\* configure_capture leaves a typed pool and backlog, whether it streams or
\* throws half-way.
LEMMA ConfigureType ==
  ASSUME TypeOK, NEW tg \in [Targets -> Target],
         NEW pd \in [Tokens -> Targets \cup {None}],
         configure_capture(tg, pd) \/ configure_capture_throws(tg, pd)
  PROVE  ConfiguredTypes
<1> DEFINE N(b, n, late) ==
      ImportNext(PoolMemory(tg, pd), fwGeom, b, fresh_capture, tg, pd, n, late)
<1>1. PoolMemory(tg, pd) \in CaptureMemory /\ "Unallocated" \in CaptureMemory
  BY DEF PoolMemory, CaptureMemory
<1>2. fresh_capture \in [CapSlots -> Frame]
  BY DEF fresh_capture, IdleFrame, Frame, NoToken
<1>3. ASSUME NEW b \in Backlogs(tg, pd), NEW n \in Dropped(b, tg, pd),
             NEW late \in BOOLEAN
      PROVE  LET r == N(b, n, late) IN
             /\ r.backlog \in Seq(ImportEntry) /\ r.cap \in [CapSlots -> Frame]
             /\ requeue_capture(PoolMemory(tg, pd), r.cap, tg) \in [CapSlots -> Frame]
             /\ r.target \in [Targets -> Target]
             /\ r.pending \in [Tokens -> Targets \cup {None}]
  <2>1. b \in Seq(ImportEntry)
    BY BacklogsType
  <2>2. NoToken \in Tokens \cup {NoToken} /\ None \in Targets \cup {None, Scratch}
    OBVIOUS
  <2> HIDE DEF N
  <2> QED BY <1>2, <2>1, <2>2, ImportNextType, PoolTypes DEF N, ImportResult
<1>4. ASSUME NEW b, NEW r, StartPool(tg, pd, b, r),
             requeue_capture(PoolMemory(tg, pd), r.cap, tg) \in [CapSlots -> Frame]
      PROVE  /\ memory' \in CaptureMemory /\ capGeom' \in Geoms
             /\ cap' \in [CapSlots -> Frame] /\ import_rejected' \in BOOLEAN
             /\ capMem' \in [CapSlots -> Tokens \cup {NoToken}]
  BY <1>1, <1>4 DEF StartPool, TypeOK, DecoderTypeOK
<1>5. CASE configure_capture(tg, pd)
  <2>0. PICK b \in Backlogs(tg, pd) : \E n \in Dropped(b, tg, pd) :
          /\ StartPool(tg, pd, b, N(b, n, FALSE))
          /\ target' = N(b, n, FALSE).target /\ pending' = N(b, n, FALSE).pending
          /\ import_backlog' = N(b, n, FALSE).backlog
    BY <1>5 DEF configure_capture
  <2>1. PICK n \in Dropped(b, tg, pd) :
          /\ StartPool(tg, pd, b, N(b, n, FALSE))
          /\ target' = N(b, n, FALSE).target /\ pending' = N(b, n, FALSE).pending
          /\ import_backlog' = N(b, n, FALSE).backlog
    BY <2>0, Zenon
  <2> HIDE DEF N
  <2>2. /\ target' \in [Targets -> Target]
        /\ pending' \in [Tokens -> Targets \cup {None}]
        /\ import_backlog' \in Seq(ImportEntry)
    BY <2>1, <1>3
  <2>3. /\ memory' \in CaptureMemory /\ capGeom' \in Geoms
        /\ cap' \in [CapSlots -> Frame] /\ import_rejected' \in BOOLEAN
        /\ capMem' \in [CapSlots -> Tokens \cup {NoToken}]
    BY <2>1, <1>3, <1>4
  <2>4. /\ source_change' \in BOOLEAN /\ saw_last' \in BOOLEAN
        /\ state' \in SessionState /\ phase' \in Phases /\ blocked' \in BOOLEAN
        /\ faults' \in 0..MaxFaults
    BY <1>5 DEF configure_capture, TypeOK, DecoderTypeOK, SessionState, Phases
  <2> QED BY <2>2, <2>3, <2>4 DEF ConfiguredTypes
<1>6. CASE configure_capture_throws(tg, pd)
  <2>1. source_change' \in BOOLEAN /\ saw_last' \in BOOLEAN
        /\ phase' \in Phases /\ blocked' \in BOOLEAN
    BY <1>6 DEF configure_capture_throws, TypeOK, DecoderTypeOK
  <2>2. "Configured" \in SessionState /\ import_backlog \in Seq(ImportEntry)
    BY DEF SessionState, TypeOK
  <2>3. CASE /\ Fault
             /\ memory' = "Unallocated" /\ cap' = fresh_capture
             /\ Unwind("Configured", tg, pd, import_backlog)
             /\ UNCHANGED <<capGeom, import_rejected, capMem>>
    <3>1. /\ memory' \in CaptureMemory /\ capGeom' \in Geoms
          /\ cap' \in [CapSlots -> Frame] /\ import_rejected' \in BOOLEAN
          /\ capMem' \in [CapSlots -> Tokens \cup {NoToken}]
      BY <1>1, <1>2, <2>3 DEF TypeOK, DecoderTypeOK
    <3> QED BY <2>1, <2>2, <2>3, <3>1, UnwindType, FaultType DEF ConfiguredTypes
  <2>4. CASE \E b \in Backlogs(tg, pd), late \in BOOLEAN :
               \E n \in Dropped(b, tg, pd) :
                 /\ FenceCost(late) /\ StartPool(tg, pd, b, N(b, n, late))
                 /\ Unwind("Configured", N(b, n, late).target,
                           N(b, n, late).pending, N(b, n, late).backlog)
    <3>1. PICK b \in Backlogs(tg, pd), late \in BOOLEAN :
               \E n \in Dropped(b, tg, pd) :
                 /\ FenceCost(late) /\ StartPool(tg, pd, b, N(b, n, late))
                 /\ Unwind("Configured", N(b, n, late).target,
                           N(b, n, late).pending, N(b, n, late).backlog)
      BY <2>4, Zenon
    <3>2. PICK n \in Dropped(b, tg, pd) :
                 /\ FenceCost(late) /\ StartPool(tg, pd, b, N(b, n, late))
                 /\ Unwind("Configured", N(b, n, late).target,
                           N(b, n, late).pending, N(b, n, late).backlog)
      BY <3>1, Zenon
    <3> HIDE DEF N
    <3>3. faults' \in 0..MaxFaults
      BY <3>2, FaultType DEF FenceCost, TypeOK, DecoderTypeOK
    <3>4. /\ memory' \in CaptureMemory /\ capGeom' \in Geoms
          /\ cap' \in [CapSlots -> Frame] /\ import_rejected' \in BOOLEAN
          /\ capMem' \in [CapSlots -> Tokens \cup {NoToken}]
      BY <3>2, <1>3, <1>4
    <3>5. /\ state' \in SessionState /\ target' \in [Targets -> Target]
          /\ pending' \in [Tokens -> Targets \cup {None}]
          /\ import_backlog' \in Seq(ImportEntry)
      BY <3>2, <1>3, <2>2, UnwindType
    <3> QED BY <2>1, <3>3, <3>4, <3>5 DEF ConfiguredTypes
  <2> QED BY <1>6, <2>3, <2>4 DEF configure_capture_throws
<1> QED BY <1>5, <1>6
-----------------------------------------------------------------------------
(* Type correctness.                                                       *)

\* A call on behalf of a target has that target, and submit() has a token
\* left for its picture until it has used it.
CallShape ==
  /\ call \in {"submit", "slot", "bringup", "wait"} => arg \in Targets
  /\ call \in {"submit", "slot"} => next_token \in Tokens

TypeInv == TypeOK /\ CallShape

\* A session that has just opened the decoder is well-typed.
LEMMA TypeInit == Init => TypeInv
<1> SUFFICES ASSUME Init PROVE TypeInv
  OBVIOUS
<1>1. \A t \in Targets : target[t] \in Target
  BY DEF Init, Target, NoToken, NoFrame
<1>2. target \in [Targets -> Target]
  BY <1>1 DEF Init
<1>3. fresh_capture \in [CapSlots -> Frame] /\ IdleOutput \in OutputSlot
  BY DEF fresh_capture, IdleFrame, Frame, NoToken, IdleOutput, OutputSlot
<1>4. fwGeom \in Geoms
  BY DecoderAssumption DEF Init, DecoderInit
<1>a. /\ outQ \in Seq(AccessUnit) /\ outDone \in Seq(OutReturn)
      /\ capDone \in Seq(CapReturn) /\ import_backlog \in Seq(ImportEntry)
  BY EmptySeq DEF Init, DecoderInit
<1>b. /\ capMem \in [CapSlots -> Tokens \cup {NoToken}]
      /\ cliMem \in [Targets -> Tokens \cup {NoToken}]
  BY DEF Init, DecoderInit
<1>c. faults \in 0..MaxFaults
  BY DecoderAssumption DEF Init, DecoderInit
<1>d. /\ inFw \in SUBSET Tokens /\ phase \in Phases
      /\ blocked \in BOOLEAN /\ evt \in BOOLEAN
  BY DEF Init, DecoderInit, Phases
<1>5. DecoderTypeOK
  BY <1>4, <1>a, <1>b, <1>c, <1>d DEF DecoderTypeOK
<1>6. next_token \in 1..(MaxToken + 1) /\ mode \in SessionMode
  BY SlotsAssumption, SessionAssumption DEF Init, SessionMode
<1>7. state \in SessionState /\ memory \in CaptureMemory /\ pc \in Pcs
  BY DEF Init, SessionState, CaptureMemory, Pcs
<1>8. call \in Calls /\ drain_for \in Drains /\ waiter \in [Targets -> Waits]
  BY DEF Init, Calls, Drains, Waits
<1>9. TypeOK
  BY <1>2, <1>3, <1>4, <1>a, <1>5, <1>6, <1>7, <1>8 DEF Init, TypeOK
<1> QED BY <1>9 DEF TypeInv, CallShape, Init

\* Leaving a call or going on with it.
LEMMA FlowTypes ==
  ASSUME TypeInv,
         \/ \E p \in Pcs : Goto(p)
         \/ \E result \in {"ok", "error"} : Return(result)
  PROVE  /\ call' \in Calls /\ arg' \in Targets \cup {None} /\ pc' \in Pcs
         /\ drain_for' \in Drains /\ waiter' \in [Targets -> Waits]
         /\ call' \in {call, "none"} /\ (call' # "none" => arg' = arg)
<1>1. CASE \E p \in Pcs : Goto(p)
  BY <1>1 DEF Goto, TypeInv, TypeOK
<1>2. CASE \E result \in {"ok", "error"} : Return(result)
  <2>1. {"ok", "error"} \subseteq Waits /\ "idle" \in Pcs
        /\ "none" \in Calls /\ "none" \in Drains
    BY DEF Waits, Pcs, Calls, Drains
  <2> QED BY <1>2, <2>1 DEF Return, TypeInv, TypeOK
<1> QED BY <1>1, <1>2

\* An exception out of any place of a call leaves the session well-typed, with
\* the call at its end.
LEMMA ThrowTypes ==
  ASSUME TypeInv, NEW st \in SessionState, NEW tg \in [Targets -> Target],
         NEW pd \in [Tokens -> Targets \cup {None}], NEW b \in Seq(ImportEntry),
         Throw(st, tg, pd, b)
  PROVE  /\ state' \in SessionState /\ target' \in [Targets -> Target]
         /\ pending' \in [Tokens -> Targets \cup {None}]
         /\ import_backlog' \in Seq(ImportEntry)
         /\ call' \in Calls /\ arg' \in Targets \cup {None} /\ pc' \in Pcs
         /\ drain_for' \in Drains /\ waiter' \in [Targets -> Waits]
         /\ call' = "none"
<1>1. Unwind(st, tg, pd, b) /\ Return("error")
  BY DEF Throw
<1>2. call' = "none"
  BY <1>1 DEF Return
<1> QED BY <1>1, <1>2, UnwindType, FlowTypes DEF TypeInv

\* No step of the decoder breaks the types of what it owns.
LEMMA FirmwareTypes ==
  ASSUME TypeOK, FirmwareStep PROVE DecoderTypeOK'
<1> USE DEF TypeOK, DecoderTypeOK
<1>1. CASE FwAnnounce
  <2>1. Head(outQ) \in AccessUnit
    BY <1>1, HeadTailProperties DEF FwAnnounce
  <2> QED BY <1>1, <2>1 DEF FwAnnounce, AccessUnit, Phases
<1>2. CASE FwDecode
  <2>1. Head(outQ) \in AccessUnit /\ Tail(outQ) \in Seq(AccessUnit)
    BY <1>2, HeadTailProperties DEF FwDecode, Decoding
  <2> QED BY <1>2, <2>1 DEF FwDecode, AccessUnit
<1>3. CASE FwResolutionChange
  <2>1. Head(outQ) \in AccessUnit
    BY <1>3, HeadTailProperties DEF FwResolutionChange, Decoding
  <2> QED BY <1>3, <2>1 DEF FwResolutionChange, AccessUnit
<1>4. CASE FwReject
  <2>1. Head(outQ) \in AccessUnit /\ Tail(outQ) \in Seq(AccessUnit)
    BY <1>4, HeadTailProperties DEF FwReject, Decoding
  <2>2. [slot |-> Head(outQ).slot, error |-> TRUE] \in OutReturn
    BY <2>1 DEF AccessUnit, OutReturn
  <2> QED BY <1>4, <2>1, <2>2, FaultType DEF FwReject
<1>5. CASE \E o \in OutSlots : FwReturnOutput(o)
  BY <1>5 DEF FwReturnOutput, OutReturn
<1>6. ASSUME NEW c \in CapSlots, NEW ts \in Tokens \cup {NoToken},
             NEW last \in BOOLEAN, NEW error \in BOOLEAN, NEW payload \in BOOLEAN,
             Emit(c, ts, last, error, payload)
      PROVE  capDone' \in Seq(CapReturn)
  BY <1>6 DEF Emit, CapReturn
<1>7. CASE \E c \in CapSlots : FwLast(c)
  BY <1>6, <1>7 DEF FwLast, Phases
<1>8. CASE \E k \in Tokens, c \in CapSlots : FwEmit(k, c)
  BY <1>6, <1>8 DEF FwEmit, Write
<1>9. CASE \E k \in Tokens, c \in CapSlots : FwSpoil(k, c)
  BY <1>6, <1>9, FaultType DEF FwSpoil
<1> QED BY <1>1, <1>2, <1>3, <1>4, <1>5, <1>7, <1>8, <1>9 DEF FirmwareStep

\* requeue_capture at the head of a pass.
LEMMA PumpTypes ==
  ASSUME TypeInv, NEW tg, PumpStart(tg)
  PROVE  cap' \in [CapSlots -> Frame] /\ pc' \in Pcs
<1>1. None \in Targets \cup {None, Scratch} /\ NoToken \in Tokens \cup {NoToken}
  OBVIOUS
<1>2. requeue_capture(memory, cap, tg) \in [CapSlots -> Frame]
  BY <1>1, PoolTypes DEF TypeInv, TypeOK
<1> QED BY <1>2 DEF PumpStart, TypeInv, TypeOK, Pcs

\* The entry of every call (submit, wait, service, release, finish) keeps the
\* types.
LEMMA ClientTypes == TypeInv /\ Client => TypeInv'
<1> SUFFICES ASSUME TypeInv, Client PROVE TypeInv'
  OBVIOUS
<1> USE DEF TypeInv, TypeOK, CallShape, DecoderTypeOK
<1>1. ASSUME NEW t \in Targets, NEW p \in Policies, Submit(t, p)
      PROVE  TypeInv'
  <2> DEFINE r == IF target[t].pending THEN Released(target[t]) ELSE target[t]
  <2>1. r \in Target /\ p \in {"Direct", "Copy", "Import"}
    BY FailedType, SessionAssumption
  <2>2. [r EXCEPT !.publish = p, !.destination = (p # "Direct")] \in Target
    BY <2>1 DEF Target
  <2>3. target' \in [Targets -> Target]
    BY <1>1, <2>2 DEF Submit
  <2>4. pending' \in [Tokens -> Targets \cup {None}]
    BY <1>1, ReleaseTypes DEF Submit
  <2>5. cap' \in [CapSlots -> Frame] /\ pc' \in Pcs
    BY <1>1, PumpTypes DEF Submit
  <2>6. waiter' \in [Targets -> Waits] /\ call' \in Calls
    BY <1>1 DEF Submit, Forget, Waits, Calls
  <2>7. next_token' \in Tokens
    BY <1>1, SlotsAssumption DEF Submit, Tokens
  <2> QED BY <1>1, <2>3, <2>4, <2>5, <2>6, <2>7 DEF Submit, decoderVars
<1>2. ASSUME NEW c \in {"service", "wait"}, NEW t \in Targets \cup {None}, Enter(c, t),
             waiter' \in [Targets -> Waits], c = "wait" => t \in Targets
      PROVE  TypeInv'
  <2>1. cap' \in [CapSlots -> Frame] /\ pc' \in Pcs
    BY <1>2, PumpTypes DEF Enter
  <2> QED BY <1>2, <2>1 DEF Enter, decoderVars, Calls
<1>3. ASSUME NEW t \in Targets, WaitSettled(t) \/ Wait(t)
      PROVE  TypeInv'
  <2>1. waiter' \in [Targets -> Waits]
    BY <1>3 DEF WaitSettled, Wait, Waits
  <2>2. CASE WaitSettled(t)
    BY <2>1, <2>2 DEF WaitSettled, decoderVars
  <2>3. CASE Wait(t)
    BY <1>2, <2>1, <2>3 DEF Wait
  <2> QED BY <1>3, <2>2, <2>3
<1>4. ASSUME NEW t \in Targets, Release(t)
      PROVE  TypeInv'
  <2> DEFINE tg == release_target(target, t)
             pd == release_token(target, pending, t)
  <2>1. tg \in [Targets -> Target] /\ pd \in [Tokens -> Targets \cup {None}]
    BY ReleaseTypes
  <2>2. waiter' \in [Targets -> Waits]
    BY <1>4 DEF Release, Forget, Waits
  <2> HIDE DEF tg, pd
  <2>3. CASE /\ target' = tg /\ pending' = pd
             /\ UNCHANGED <<state, mode, next_token, out, cap, memory, capGeom,
                          source_change, saw_last, import_rejected,
                          import_backlog, decoderVars>>
    BY <1>4, <2>1, <2>2, <2>3 DEF Release, decoderVars
  <2>4. CASE /\ configure_capture(tg, pd) \/ configure_capture_throws(tg, pd)
             /\ UNCHANGED poolRest
    <3>1. ConfiguredTypes
      BY <2>1, <2>4, ConfigureType
    <3> QED BY <1>4, <2>2, <2>4, <3>1 DEF Release, ConfiguredTypes, poolRest
  <2> QED BY <1>4, <2>3, <2>4 DEF Release, tg, pd
<1>5. CASE Service
  BY <1>2, <1>5 DEF Service
<1>6. CASE Finish
  <2>1. /\ state' \in SessionState /\ call' \in Calls /\ pc' \in Pcs
        /\ drain_for' \in Drains /\ saw_last' \in BOOLEAN /\ phase' \in Phases
        /\ faults' \in 0..MaxFaults
    BY <1>6, FaultType
       DEF Finish, BeginDrain, StopBusy, SessionState, Calls, Pcs, Drains, Phases
  <2>2. UNCHANGED <<target, pending, import_backlog, waiter, arg, drainRest>>
    BY <1>6 DEF Finish, BeginDrain, StopBusy
  <2>3. call' \in {call, "finish"}
    BY <1>6 DEF Finish
  <2> QED BY <2>1, <2>2, <2>3 DEF drainRest
<1> QED BY <1>1, <1>3, <1>4, <1>5, <1>6 DEF Client

\* queue_import_next from the state a step starts in.
LEMMA ImportNextHere ==
  ASSUME TypeOK, NEW mem, NEW cp \in [CapSlots -> Frame],
         NEW n \in Dropped(import_backlog, target, pending), NEW late \in BOOLEAN
  PROVE  ImportNext(mem, capGeom, import_backlog, cp, target, pending, n, late)
           \in ImportResult
BY ImportNextType DEF TypeOK

\* One returned CAPTURE buffer: what becomes of its picture.
LEMMA CompleteTypes ==
  ASSUME TypeInv, NEW d \in CapReturn, NEW k \in Tokens \cup {NoToken},
         NEW r \in ImportResult, pc \in {"captures", "dcaptures"}, Complete(d, k, r)
  PROVE  /\ state' \in SessionState /\ target' \in [Targets -> Target]
         /\ pending' \in [Tokens -> Targets \cup {None}]
         /\ import_backlog' \in Seq(ImportEntry)
         /\ cliMem' \in [Targets -> Tokens \cup {NoToken}]
         /\ faults' \in 0..MaxFaults
         /\ call' \in Calls /\ arg' \in Targets \cup {None} /\ pc' \in Pcs
         /\ drain_for' \in Drains /\ waiter' \in [Targets -> Waits]
         /\ call' \in {call, "none"} /\ (call' # "none" => arg' = arg)
<1>0. /\ r.backlog \in Seq(ImportEntry) /\ r.target \in [Targets -> Target]
      /\ r.pending \in [Tokens -> Targets \cup {None}]
  BY DEF ImportResult
<1>1. ASSUME Goto(pc), UNCHANGED state
      PROVE  /\ state' \in SessionState
             /\ call' \in Calls /\ arg' \in Targets \cup {None} /\ pc' \in Pcs
             /\ drain_for' \in Drains /\ waiter' \in [Targets -> Waits]
             /\ call' \in {call, "none"} /\ (call' # "none" => arg' = arg)
  BY <1>1 DEF Goto, TypeInv, TypeOK
<1>2. CASE /\ Discarded(d, r.pending)
           /\ target' = r.target /\ pending' = r.pending
           /\ import_backlog' = r.backlog
           /\ Goto(pc) /\ UNCHANGED <<state, cliMem, faults>>
  BY <1>0, <1>1, <1>2 DEF TypeInv, TypeOK, DecoderTypeOK
<1>3. CASE /\ ~Discarded(d, r.pending) /\ Spoiled(d, k) # {}
           /\ target' = FailTokens(r.target, r.pending, Spoiled(d, k))
           /\ pending' = Erase(r.pending, Spoiled(d, k))
           /\ import_backlog' = r.backlog
           /\ Goto(pc) /\ UNCHANGED <<state, cliMem, faults>>
  BY <1>0, <1>1, <1>3, FailTypes DEF TypeInv, TypeOK, DecoderTypeOK
<1>4. CASE ~Discarded(d, r.pending) /\ Spoiled(d, k) = {}
  <2> DEFINE t  == r.pending[d.ts]
             pd == Erase(r.pending, {d.ts})
  <2>1. t \in Targets /\ pd \in [Tokens -> Targets \cup {None}]
    BY <1>0, <1>4, FailTypes DEF Discarded
  <2>2. Policy(r.target[t]) \in {"Direct", "Copy", "Import"}
    BY <1>0, <2>1 DEF Policy, Target
  <2>3. d.slot \in CapSlots
    BY DEF CapReturn
  <2>4. CASE /\ target' = [r.target EXCEPT ![t] = Published(r.target[t], d.slot)]
             /\ pending' = pd /\ import_backlog' = r.backlog
             /\ cliMem' = IF Policy(r.target[t]) = "Copy"
                          THEN [cliMem EXCEPT ![t] = capMem[d.slot]] ELSE cliMem
             /\ Goto(pc) /\ UNCHANGED <<state, faults>>
    <3>1. r.target[t] \in Target
      BY <1>0, <2>1
    <3>2. Published(r.target[t], d.slot) \in Target
      BY <2>2, <2>3, <3>1 DEF Published, Target, NoFrame
    <3>3. target' \in [Targets -> Target]
      BY <1>0, <2>4, <3>2
    <3>4. cliMem' \in [Targets -> Tokens \cup {NoToken}]
      BY <2>1, <2>3, <2>4 DEF TypeInv, TypeOK, DecoderTypeOK
    <3> QED BY <1>0, <1>1, <2>1, <2>4, <3>3, <3>4 DEF TypeInv, TypeOK, DecoderTypeOK
  <2>5. CASE /\ Fault
             /\ Throw(state, [r.target EXCEPT ![t] =
                                [Failed(r.target[t]) EXCEPT !.publish = "Copy"]],
                      pd, r.backlog)
             /\ UNCHANGED cliMem
    <3>1. Failed(r.target[t]) \in Target
      BY <1>0, <2>1, FailedType
    <3>2. [Failed(r.target[t]) EXCEPT !.publish = "Copy"] \in Target
      BY <3>1 DEF Target
    <3>3. [r.target EXCEPT ![t] = [Failed(r.target[t]) EXCEPT !.publish = "Copy"]]
            \in [Targets -> Target]
      BY <1>0, <3>2
    <3>4. state \in SessionState
      BY DEF TypeInv, TypeOK
    <3>5. faults' \in 0..MaxFaults /\ cliMem' \in [Targets -> Tokens \cup {NoToken}]
      BY <2>5, FaultType DEF TypeInv, TypeOK, DecoderTypeOK
    <3> QED BY <1>0, <2>1, <2>5, <3>3, <3>4, <3>5, ThrowTypes
  <2> QED BY <1>4, <2>4, <2>5 DEF Complete
<1> QED BY <1>2, <1>3, <1>4 DEF Complete

\* One turn of handle_capture_returns keeps the types.
LEMMA ReturnCaptureTypes == TypeInv /\ ReturnCapture => TypeInv'
<1> SUFFICES ASSUME TypeInv, ReturnCapture PROVE TypeInv'
  OBVIOUS
<1> DEFINE d    == Head(capDone)
           took == take_capture(cap, d.slot)
           mem  == IF state = "Streaming" THEN memory ELSE "Unallocated"
           r(n, late) == ImportNext(mem, capGeom, import_backlog, took, target,
                                    pending, n, late)
<1>1. d \in CapReturn /\ Tail(capDone) \in Seq(CapReturn)
  BY HeadTailProperties DEF TypeInv, TypeOK, DecoderTypeOK, ReturnCapture
<1>2. took \in [CapSlots -> Frame] /\ cap[d.slot].import_token \in Tokens \cup {NoToken}
  <2>1. NoToken \in Tokens \cup {NoToken} /\ None \in Targets \cup {None, Scratch}
    OBVIOUS
  <2>2. cap \in [CapSlots -> Frame] /\ d.slot \in CapSlots
    BY <1>1 DEF TypeInv, TypeOK, CapReturn
  <2> QED BY <2>1, <2>2, PoolTypes DEF Frame
<1>3. PICK n \in Dropped(import_backlog, target, pending), late \in BOOLEAN :
        /\ cap' = r(n, late).cap
        /\ \/ /\ r(n, late).throws /\ FenceCost(late) /\ UNCHANGED <<saw_last, cliMem>>
              /\ Throw(state, r(n, late).target, r(n, late).pending, r(n, late).backlog)
           \/ /\ ~late /\ ~r(n, late).throws
              /\ saw_last' = (saw_last \/ d.last)
              /\ Complete(d, cap[d.slot].import_token, r(n, late))
  BY Zenon DEF ReturnCapture
<1> HIDE DEF r, took, mem
<1>4. r(n, late) \in ImportResult
  BY <1>2, ImportNextHere DEF r, TypeInv
<1>5. saw_last' \in BOOLEAN
  BY <1>1, <1>3 DEF TypeInv, TypeOK, CapReturn
<1>6. /\ state' \in SessionState /\ target' \in [Targets -> Target]
      /\ pending' \in [Tokens -> Targets \cup {None}]
      /\ import_backlog' \in Seq(ImportEntry)
      /\ cliMem' \in [Targets -> Tokens \cup {NoToken}]
      /\ faults' \in 0..MaxFaults
      /\ call' \in Calls /\ arg' \in Targets \cup {None} /\ pc' \in Pcs
      /\ drain_for' \in Drains /\ waiter' \in [Targets -> Waits]
      /\ call' \in {call, "none"} /\ (call' # "none" => arg' = arg)
  <2>1. CASE /\ FenceCost(late) /\ UNCHANGED cliMem
             /\ Throw(state, r(n, late).target, r(n, late).pending, r(n, late).backlog)
    <3>1. faults' \in 0..MaxFaults /\ cliMem' \in [Targets -> Tokens \cup {NoToken}]
      BY <2>1, FaultType DEF FenceCost, TypeInv, TypeOK, DecoderTypeOK
    <3>2. state \in SessionState
      BY DEF TypeInv, TypeOK
    <3> QED BY <1>4, <2>1, <3>1, <3>2, ThrowTypes DEF ImportResult
  <2>2. CASE Complete(d, cap[d.slot].import_token, r(n, late))
    <3>1. pc \in {"captures", "dcaptures"}
      BY DEF ReturnCapture
    <3> DEFINE k  == cap[d.slot].import_token
               rr == r(n, late)
    <3>2. k \in Tokens \cup {NoToken} /\ Complete(d, k, rr)
      BY <1>2, <2>2
    <3>3. rr \in ImportResult
      BY <1>4
    <3>4. d \in CapReturn
      BY <1>1
    <3> HIDE DEF d, k, rr
    <3> QED BY <3>1, <3>2, <3>3, <3>4, CompleteTypes
  <2> QED BY <1>3, <2>1, <2>2
<1>7. cap' \in [CapSlots -> Frame] /\ capDone' \in Seq(CapReturn)
  BY <1>1, <1>3, <1>4 DEF ReturnCapture, ImportResult
<1>8. UNCHANGED <<mode, next_token, out, memory, capGeom, source_change,
                 import_rejected, phase, blocked, evt, fwGeom, outQ, inFw,
                 outDone, capMem>>
  BY DEF ReturnCapture
<1> QED BY <1>5, <1>6, <1>7, <1>8 DEF TypeInv, TypeOK, CallShape, DecoderTypeOK

\* One turn of the loop of drain() keeps the types.
LEMMA DrainTurnTypes == TypeInv /\ DrainTurn => TypeInv'
<1> SUFFICES ASSUME TypeInv, DrainTurn PROVE TypeInv'
  OBVIOUS
<1> DEFINE rq == requeue_capture(memory, cap, target)
           r(n, late) == ImportNext(memory, capGeom, import_backlog, rq, target,
                                    pending, n, late)
<1>1. NoToken \in Tokens \cup {NoToken} /\ None \in Targets \cup {None, Scratch}
  OBVIOUS
<1>2. rq \in [CapSlots -> Frame]
  BY <1>1, PoolTypes DEF TypeInv, TypeOK
<1>3. PICK n \in Dropped(import_backlog, target, pending), late \in BOOLEAN :
        \/ /\ r(n, late).throws /\ FenceCost(late) /\ cap' = r(n, late).cap
           /\ Throw(state, r(n, late).target, r(n, late).pending, r(n, late).backlog)
        \/ /\ ~late /\ ~r(n, late).throws
           /\ cap' = IF memory = "Import" /\ capture_queued(r(n, late).cap) = {}
                     THEN queue_capture_scratch(r(n, late).cap) ELSE r(n, late).cap
           /\ target' = r(n, late).target /\ pending' = r(n, late).pending
           /\ import_backlog' = r(n, late).backlog
           /\ Goto("devents") /\ UNCHANGED <<state, faults>>
  BY Zenon DEF DrainTurn
<1> DEFINE rr == r(n, late)
<1> HIDE DEF r, rq
<1>4. rr \in ImportResult
  BY <1>2, ImportNextHere DEF r, rq, TypeInv
<1>5. CASE /\ FenceCost(late) /\ cap' = rr.cap
           /\ Throw(state, rr.target, rr.pending, rr.backlog)
  <2>1. faults' \in 0..MaxFaults /\ state \in SessionState
    BY <1>5, FaultType DEF FenceCost, TypeInv, TypeOK, DecoderTypeOK
  <2>2. /\ rr.backlog \in Seq(ImportEntry) /\ rr.cap \in [CapSlots -> Frame]
        /\ rr.target \in [Targets -> Target]
        /\ rr.pending \in [Tokens -> Targets \cup {None}]
    BY <1>4 DEF ImportResult
  <2> HIDE DEF rr
  <2>3. /\ state' \in SessionState /\ target' \in [Targets -> Target]
        /\ pending' \in [Tokens -> Targets \cup {None}]
        /\ import_backlog' \in Seq(ImportEntry)
        /\ call' \in Calls /\ arg' \in Targets \cup {None} /\ pc' \in Pcs
        /\ drain_for' \in Drains /\ waiter' \in [Targets -> Waits]
        /\ call' = "none"
    BY <1>5, <2>1, <2>2, ThrowTypes
  <2> QED BY <1>5, <2>1, <2>2, <2>3
          DEF DrainTurn, TypeInv, TypeOK, CallShape, DecoderTypeOK
<1>6. CASE /\ cap' = IF memory = "Import" /\ capture_queued(rr.cap) = {}
                     THEN queue_capture_scratch(rr.cap) ELSE rr.cap
           /\ target' = rr.target /\ pending' = rr.pending
           /\ import_backlog' = rr.backlog
           /\ Goto("devents") /\ UNCHANGED <<state, faults>>
  <2>1. rr.cap \in [CapSlots -> Frame]
    BY <1>4 DEF ImportResult
  <2>2. cap' \in [CapSlots -> Frame]
    BY <1>1, <1>6, <2>1, PoolTypes
  <2> QED BY <1>4, <1>6, <2>2
          DEF ImportResult, Goto, Pcs, DrainTurn, TypeInv, TypeOK, CallShape, DecoderTypeOK
<1> QED BY <1>3, <1>5, <1>6

\* continue_reconfigure keeps the types.
LEMMA ReconfigureTypes == TypeInv /\ Reconfigure => TypeInv'
<1> SUFFICES ASSUME TypeInv, Reconfigure PROVE TypeInv'
  OBVIOUS
<1>1. target \in [Targets -> Target] /\ pending \in [Tokens -> Targets \cup {None}]
  BY DEF TypeInv, TypeOK
<1>2. "return" \in Pcs /\ "none" \in Drains
  BY DEF Pcs, Drains
<1>3. CASE /\ pc' = "return" /\ drain_for' = "none"
           /\ UNCHANGED <<state, target, pending, import_backlog, cap, memory,
                       capGeom, source_change, saw_last, import_rejected, phase,
                       blocked, capMem, faults, call, arg, waiter>>
  BY <1>2, <1>3 DEF Reconfigure, poolRest, TypeInv, TypeOK, CallShape, DecoderTypeOK
<1>4. CASE /\ configure_capture(target, pending)
           /\ pc' = "return" /\ drain_for' = "none" /\ UNCHANGED <<call, arg, waiter>>
  <2>1. ConfiguredTypes
    BY <1>1, <1>4, ConfigureType DEF TypeInv
  <2> QED BY <1>2, <1>4, <2>1
          DEF ConfiguredTypes, Reconfigure, poolRest, TypeInv, TypeOK, CallShape, DecoderTypeOK
<1>5. CASE configure_capture_throws(target, pending) /\ Return("error")
  <2>1. ConfiguredTypes
    BY <1>1, <1>5, ConfigureType DEF TypeInv
  <2>2. /\ call' = "none" /\ call' \in Calls /\ arg' \in Targets \cup {None}
        /\ pc' \in Pcs /\ drain_for' \in Drains /\ waiter' \in [Targets -> Waits]
    BY <1>5, FlowTypes DEF Return
  <2> QED BY <1>5, <2>1, <2>2
          DEF ConfiguredTypes, Reconfigure, poolRest, TypeInv, TypeOK, CallShape, DecoderTypeOK
<1> QED BY <1>3, <1>4, <1>5 DEF Reconfigure

\* pump()'s first configuration of the pool keeps the types.
LEMMA ConfigureTypes == TypeInv /\ Configure => TypeInv'
<1> SUFFICES ASSUME TypeInv, Configure PROVE TypeInv'
  OBVIOUS
<1>1. /\ target \in [Targets -> Target] /\ pending \in [Tokens -> Targets \cup {None}]
      /\ import_backlog \in Seq(ImportEntry) /\ state \in SessionState
      /\ "outputs" \in Pcs
  BY DEF TypeInv, TypeOK, Pcs
<1>2. CASE configure_capture(target, pending) /\ Goto("outputs")
  <2>1. ConfiguredTypes
    BY <1>1, <1>2, ConfigureType DEF TypeInv
  <2> QED BY <1>1, <1>2, <2>1
          DEF ConfiguredTypes, Configure, Goto, poolRest, TypeInv, TypeOK, CallShape, DecoderTypeOK
<1>3. CASE configure_capture_throws(target, pending) /\ Return("error")
  <2>1. ConfiguredTypes
    BY <1>1, <1>3, ConfigureType DEF TypeInv
  <2>2. /\ call' = "none" /\ call' \in Calls /\ arg' \in Targets \cup {None}
        /\ pc' \in Pcs /\ drain_for' \in Drains /\ waiter' \in [Targets -> Waits]
    BY <1>3, FlowTypes DEF Return
  <2> QED BY <1>3, <2>1, <2>2
          DEF ConfiguredTypes, Configure, poolRest, TypeInv, TypeOK, CallShape, DecoderTypeOK
<1>4. CASE /\ Throw(state, target, pending, import_backlog)
           /\ UNCHANGED <<cap, memory, capGeom, source_change, saw_last,
                          import_rejected, phase, blocked, capMem, faults>>
  <2>1. /\ state' \in SessionState /\ target' \in [Targets -> Target]
        /\ pending' \in [Tokens -> Targets \cup {None}]
        /\ import_backlog' \in Seq(ImportEntry)
        /\ call' \in Calls /\ arg' \in Targets \cup {None} /\ pc' \in Pcs
        /\ drain_for' \in Drains /\ waiter' \in [Targets -> Waits]
        /\ call' = "none"
    BY <1>1, <1>4, ThrowTypes
  <2> QED BY <1>4, <2>1
          DEF Configure, poolRest, TypeInv, TypeOK, CallShape, DecoderTypeOK
<1> QED BY <1>2, <1>3, <1>4 DEF Configure

\* The end of a pump() pass keeps the types, whether it goes on to a drain, hands
\* over a buffer or returns.
LEMMA PumpTailTypes == TypeInv /\ PumpTail => TypeInv'
<1> SUFFICES ASSUME TypeInv, PumpTail PROVE TypeInv'
  OBVIOUS
<1>1. CASE UNCHANGED drainRest /\ BeginDrain("drc") /\ UNCHANGED <<call, arg, waiter>>
  <2>1. {"Draining"} \subseteq SessionState /\ {"drain"} \subseteq Pcs
        /\ "drc" \in Drains /\ "stop" \in Phases
    BY DEF SessionState, Pcs, Drains, Phases
  <2> QED BY <1>1, <2>1 DEF drainRest, BeginDrain, TypeInv, TypeOK, CallShape, DecoderTypeOK
<1>2. CASE UNCHANGED drainRest /\ StopBusy("drc") /\ Return("error")
  <2>1. /\ target \in [Targets -> Target] /\ pending \in [Tokens -> Targets \cup {None}]
        /\ import_backlog \in Seq(ImportEntry) /\ state \in SessionState
    BY DEF TypeInv, TypeOK
  <2>2. Fail(target, pending) /\ Fault /\ saw_last' = FALSE /\ UNCHANGED phase
    BY <1>2 DEF StopBusy
  <2>3. /\ state' \in SessionState /\ target' \in [Targets -> Target]
        /\ pending' \in [Tokens -> Targets \cup {None}]
        /\ import_backlog' \in Seq(ImportEntry) /\ faults' \in 0..MaxFaults
    BY <2>1, <2>2, UnwindType, FaultType DEF TypeInv
  <2>4. /\ call' = "none" /\ call' \in Calls /\ arg' \in Targets \cup {None}
        /\ pc' \in Pcs /\ drain_for' \in Drains /\ waiter' \in [Targets -> Waits]
    BY <1>2, FlowTypes DEF Return
  <2> QED BY <1>2, <2>2, <2>3, <2>4 DEF drainRest, TypeInv, TypeOK, CallShape, DecoderTypeOK
<1>3. CASE Reconfigure
  BY <1>3, ReconfigureTypes
<1>4. CASE /\ cap' = requeue_capture(memory, cap, target) /\ Goto("return")
           /\ UNCHANGED <<state, mode, target, pending, next_token, out, memory,
                       capGeom, source_change, saw_last, import_rejected,
                       import_backlog, decoderVars>>
  <2>1. None \in Targets \cup {None, Scratch} /\ NoToken \in Tokens \cup {NoToken}
    OBVIOUS
  <2>2. cap' \in [CapSlots -> Frame]
    BY <1>4, <2>1, PoolTypes DEF TypeInv, TypeOK
  <2> QED BY <1>4, <2>2
          DEF Goto, Pcs, decoderVars, TypeInv, TypeOK, CallShape, DecoderTypeOK
<1> QED BY <1>1, <1>2, <1>3, <1>4 DEF PumpTail

\* The body of submit() keeps the types: there is a token and a free OUTPUT slot
\* for the picture.
LEMMA AcceptTypes == TypeInv /\ Accept => TypeInv'
<1> SUFFICES ASSUME TypeInv, Accept PROVE TypeInv'
  OBVIOUS
<1> DEFINE o  == free_output(out)
           k  == NewToken
           tg == [target EXCEPT ![arg] =
                    [target[arg] EXCEPT !.token = k, !.pending = TRUE,
                       !.completed = FALSE, !.error = FALSE, !.frame = NoFrame]]
           pd == [pending EXCEPT ![k] = arg]
           b  == IF memory = "Import"
                 THEN push(import_backlog, k,
                           IF target[arg].destination THEN arg ELSE None)
                 ELSE import_backlog
           r(n, late) == ImportNext(memory, capGeom, b, cap, tg, pd, n, late)
<1>1. call \in {"submit", "slot"} /\ arg \in Targets /\ k \in Tokens
  BY DEF Accept, TypeInv, CallShape, NewToken
<1>2. o \in OutSlots
  BY FreeOutput DEF Accept, free_outputs
<1>3. target[arg] \in Target
  BY <1>1 DEF TypeInv, TypeOK
<1>4. [target[arg] EXCEPT !.token = k, !.pending = TRUE,
         !.completed = FALSE, !.error = FALSE, !.frame = NoFrame] \in Target
  <2> HIDE DEF k
  <2> QED BY <1>1, <1>3 DEF Target
<1>5. tg \in [Targets -> Target] /\ pd \in [Tokens -> Targets \cup {None}]
  <2> HIDE DEF k
  <2> QED BY <1>1, <1>4 DEF TypeInv, TypeOK
<1>6. b \in Seq(ImportEntry)
  <2>1. [token |-> k, buf |-> IF target[arg].destination THEN arg ELSE None] \in ImportEntry
    <3> HIDE DEF k
    <3> QED BY <1>1 DEF ImportEntry
  <2>2. import_backlog \in Seq(ImportEntry)
    BY DEF TypeInv, TypeOK
  <2> HIDE DEF k
  <2> QED BY <2>1, <2>2 DEF push
<1>7. /\ out' = [out EXCEPT ![o] = [queued |-> TRUE, token |-> k]]
      /\ outQ' = Append(outQ, [slot |-> o, token |-> k, geom |-> SurfGeom[arg]])
  BY DEF Accept
<1>8. out' \in [OutSlots -> OutputSlot] /\ outQ' \in Seq(AccessUnit)
  <2>1. [queued |-> TRUE, token |-> k] \in OutputSlot
    <3> HIDE DEF k
    <3> QED BY <1>1 DEF OutputSlot
  <2>2. [slot |-> o, token |-> k, geom |-> SurfGeom[arg]] \in AccessUnit
    <3> HIDE DEF k, o
    <3> QED BY <1>1, <1>2, DecoderAssumption DEF AccessUnit
  <2>3. out \in [OutSlots -> OutputSlot] /\ outQ \in Seq(AccessUnit)
    BY DEF TypeInv, TypeOK, DecoderTypeOK
  <2> DEFINE s == [queued |-> TRUE, token |-> k]
             a == [slot |-> o, token |-> k, geom |-> SurfGeom[arg]]
  <2>4. out' = [out EXCEPT ![o] = s] /\ outQ' = Append(outQ, a)
    BY <1>7
  <2>5. s \in OutputSlot /\ a \in AccessUnit
    BY <2>1, <2>2
  <2> HIDE DEF s, a
  <2>6. out' \in [OutSlots -> OutputSlot]
    BY <2>3, <2>4, <2>5
  <2> QED BY <2>3, <2>4, <2>5, <2>6, AppendProperties
<1>9. PICK n \in Dropped(b, tg, pd), late \in BOOLEAN :
        /\ cap' = r(n, late).cap /\ target' = r(n, late).target
        /\ pending' = r(n, late).pending
        /\ import_backlog' = r(n, late).backlog
        /\ FenceCost(late)
        /\ \/ Return("error")
           \/ call' = "bringup" /\ UNCHANGED <<arg, pc, drain_for, waiter>>
  BY Zenon DEF Accept
<1> DEFINE rr == r(n, late)
<1>10. rr \in ImportResult
  <2>1. cap \in [CapSlots -> Frame]
    BY DEF TypeInv, TypeOK
  <2> HIDE DEF b, tg, pd
  <2> QED BY <1>5, <1>6, <2>1, ImportNextType
<1>11. /\ cap' \in [CapSlots -> Frame] /\ target' \in [Targets -> Target]
       /\ pending' \in [Tokens -> Targets \cup {None}]
       /\ import_backlog' \in Seq(ImportEntry)
  <2> HIDE DEF r
  <2> QED BY <1>9, <1>10 DEF ImportResult
<1>12. faults' \in 0..MaxFaults
  BY <1>9, FaultType DEF FenceCost, TypeInv, TypeOK, DecoderTypeOK
<1>13. /\ call' \in Calls /\ arg' \in Targets \cup {None} /\ pc' \in Pcs
       /\ drain_for' \in Drains /\ waiter' \in [Targets -> Waits]
       /\ call' \in {"none", "bringup"} /\ (call' = "bringup" => arg' = arg)
  <2>1. CASE Return("error")
    BY <2>1, FlowTypes DEF Return
  <2>2. CASE call' = "bringup" /\ UNCHANGED <<arg, pc, drain_for, waiter>>
    BY <2>2 DEF Calls, TypeInv, TypeOK
  <2> QED BY <1>9, <2>1, <2>2
<1>14. next_token' \in 1..(MaxToken + 1)
  BY <1>1, SlotsAssumption DEF Accept, NewToken, Tokens
<1> HIDE DEF o, k, tg, pd, b, r
<1> QED BY <1>1, <1>8, <1>11, <1>12, <1>13, <1>14
        DEF Accept, TypeInv, TypeOK, CallShape, DecoderTypeOK

\* The short stretches of a call keep the types.
LEMMA OtherTypes ==
  TypeInv /\ (\/ HandleEvents \/ ReturnOutput \/ LoopEnds \/ LastSeen
              \/ Drained \/ Start \/ CallDone \/ WaitReturns) => TypeInv'
<1> SUFFICES ASSUME TypeInv PROVE
      (\/ HandleEvents \/ ReturnOutput \/ LoopEnds \/ LastSeen
       \/ Drained \/ Start \/ CallDone \/ WaitReturns) => TypeInv'
  OBVIOUS
<1> USE DEF TypeInv, TypeOK, CallShape, DecoderTypeOK
<1>1. CASE HandleEvents
  BY <1>1 DEF HandleEvents, Goto, Pcs
<1>2. CASE ReturnOutput
  <2>1. Head(outDone) \in OutReturn /\ Tail(outDone) \in Seq(OutReturn)
    BY <1>2, HeadTailProperties DEF ReturnOutput
  <2>2. out' \in [OutSlots -> OutputSlot]
    BY <1>2, <2>1 DEF ReturnOutput, OutReturn, IdleOutput, OutputSlot, NoToken
  <2>3. target' \in [Targets -> Target] /\ pending' \in [Tokens -> Targets \cup {None}]
    BY <1>2, FailTypes DEF ReturnOutput
  <2> QED BY <1>2, <2>1, <2>2, <2>3 DEF ReturnOutput
<1>3. CASE LoopEnds
  BY <1>3 DEF LoopEnds, Goto, Pcs, decoderVars
<1>4. CASE LastSeen
  BY <1>4 DEF LastSeen, Goto, Pcs, decoderVars
<1>5. CASE Drained
  <2>1. target' \in [Targets -> Target] /\ pending' \in [Tokens -> Targets \cup {None}]
    BY <1>5, FailTypes DEF Drained
  <2>2. /\ requeue_capture(memory, cap, target) \in [CapSlots -> Frame]
        /\ mark_all_capture_returned \in [CapSlots -> Frame]
    <3>1. None \in Targets \cup {None, Scratch} /\ NoToken \in Tokens \cup {NoToken}
      OBVIOUS
    <3> QED BY <3>1, PoolTypes
  <2>3. <<>> \in Seq(CapReturn)
    BY EmptySeq
  <2>4. cap' \in [CapSlots -> Frame] /\ state' \in SessionState
        /\ phase' \in Phases /\ inFw' \in SUBSET Tokens /\ capDone' \in Seq(CapReturn)
    BY <1>5, <2>2, <2>3 DEF Drained, SessionState, Phases
  <2>5. /\ call' \in Calls /\ arg' \in Targets \cup {None} /\ pc' \in Pcs
        /\ drain_for' \in Drains /\ waiter' \in [Targets -> Waits]
        /\ call' \in {call, "none"} /\ (call' # "none" => arg' = arg)
    <3>1. {"start", "rebuild"} \subseteq Pcs
      BY DEF Pcs
    <3>2. \/ \E p \in Pcs : Goto(p)
          \/ \E result \in {"ok", "error"} : Return(result)
      BY <1>5, <3>1 DEF Drained
    <3> QED BY <3>2, FlowTypes
  <2> QED BY <1>5, <2>1, <2>4, <2>5 DEF Drained
<1>6. CASE Start
  BY <1>6 DEF Start, Phases, SessionState, Pcs, Drains
<1>7. CASE CallDone
  BY <1>7 DEF CallDone, callRest, decoderVars, Return, Calls, Pcs, Drains
<1>8. CASE WaitReturns
  BY <1>8 DEF WaitReturns, callRest, decoderVars, Return, Calls, Pcs, Drains, Waits
<1> QED BY <1>1, <1>2, <1>3, <1>4, <1>5, <1>6, <1>7, <1>8

\* The loops of submit(), wait() and drain() keep the types, deadlines and failed
\* dequeues included.
LEMMA LoopTypes ==
  TypeInv /\ (Looping \/ Expiring \/ DequeueError) => TypeInv'
<1> SUFFICES ASSUME TypeInv PROVE (Looping \/ Expiring \/ DequeueError) => TypeInv'
  OBVIOUS
<1>0. /\ target \in [Targets -> Target] /\ pending \in [Tokens -> Targets \cup {None}]
      /\ import_backlog \in Seq(ImportEntry) /\ state \in SessionState
  BY DEF TypeInv, TypeOK
<1>1. CASE SubmitLoops
  <2>1. PICK c \in {"submit", "slot", "bringup"} :
          PumpAgain(c) /\ (c \in {"submit", "slot"} => call \in {"submit", "slot"})
                       /\ call \in {"submit", "slot", "bringup"}
    BY <1>1 DEF SubmitLoops
  <2>2. cap' \in [CapSlots -> Frame] /\ pc' \in Pcs
    BY <2>1, PumpTypes DEF PumpAgain
  <2>3. UNCHANGED callRest
    BY <1>1 DEF SubmitLoops
  <2> QED BY <2>1, <2>2, <2>3
      DEF PumpAgain, callRest, decoderVars, Calls, TypeInv, TypeOK, CallShape, DecoderTypeOK
<1>2. CASE WaitPolls
  BY <1>2 DEF WaitPolls, callRest, decoderVars, Calls, Pcs,
              TypeInv, TypeOK, CallShape, DecoderTypeOK
<1>3. ASSUME Fail(target, pending) /\ Return("error")
      PROVE  /\ state' \in SessionState /\ target' \in [Targets -> Target]
             /\ pending' \in [Tokens -> Targets \cup {None}]
             /\ import_backlog' \in Seq(ImportEntry)
             /\ call' = "none" /\ call' \in Calls /\ arg' \in Targets \cup {None}
             /\ pc' \in Pcs /\ drain_for' \in Drains /\ waiter' \in [Targets -> Waits]
  <2>1. call' = "none"
    BY <1>3 DEF Return
  <2> QED BY <1>0, <1>3, <2>1, UnwindType, FlowTypes DEF TypeInv
<1>4. CASE StartBusy
  <2>1. CASE Goto("soutputs") /\ UNCHANGED <<state, target, pending, import_backlog>>
    BY <1>4, <2>1 DEF StartBusy, Goto, Pcs, decoderVars, TypeInv, TypeOK, CallShape, DecoderTypeOK
  <2>2. CASE Fail(target, pending) /\ Return("error")
    BY <1>3, <1>4, <2>2 DEF StartBusy, decoderVars, TypeInv, TypeOK, CallShape, DecoderTypeOK
  <2> QED BY <1>4, <2>1, <2>2 DEF StartBusy
<1>5. CASE DrainExpires
  <2>1. faults' \in 0..MaxFaults /\ Fail(target, pending) /\ Return("error")
    BY <1>5, FaultType DEF DrainExpires, TypeInv
  <2> QED BY <1>3, <1>5, <2>1 DEF DrainExpires, TypeInv, TypeOK, CallShape, DecoderTypeOK
<1>6. CASE SubmitGivesUp
  <2>1. Return("error") /\ call' = "none"
    BY <1>6 DEF SubmitGivesUp, Return
  <2>2. faults' \in 0..MaxFaults
    BY <1>6, FaultType DEF SubmitGivesUp, TypeInv, TypeOK, DecoderTypeOK
  <2>3. /\ call' \in Calls /\ arg' \in Targets \cup {None} /\ pc' \in Pcs
        /\ drain_for' \in Drains /\ waiter' \in [Targets -> Waits]
    BY <2>1, FlowTypes
  <2> QED BY <1>6, <2>1, <2>2, <2>3
          DEF SubmitGivesUp, TypeInv, TypeOK, CallShape, DecoderTypeOK
<1>7. CASE WaitExpires
  <2>1. arg \in Targets /\ call = "wait"
    BY <1>7 DEF WaitExpires, TypeInv, CallShape
  <2>2. CASE /\ BeginDrain("timeout")
             /\ waiter' = [waiter EXCEPT ![arg] = "drained"]
             /\ UNCHANGED <<call, arg, drainRest>>
    <3>1. "drained" \in Waits /\ "Draining" \in SessionState /\ "drain" \in Pcs
          /\ "timeout" \in Drains /\ "stop" \in Phases
      BY DEF Waits, SessionState, Pcs, Drains, Phases
    <3>2. waiter' \in [Targets -> Waits]
      BY <2>2, <3>1 DEF TypeInv, TypeOK
    <3> QED BY <2>2, <3>1, <3>2
            DEF drainRest, BeginDrain, TypeInv, TypeOK, CallShape, DecoderTypeOK
  <2>3. CASE StopBusy("timeout") /\ Return("error") /\ UNCHANGED drainRest
    <3>1. /\ call' = "none" /\ call' \in Calls /\ arg' \in Targets \cup {None}
          /\ pc' \in Pcs /\ drain_for' \in Drains /\ waiter' \in [Targets -> Waits]
      BY <2>3, FlowTypes DEF Return
    <3>2. /\ Fault /\ saw_last' = FALSE /\ UNCHANGED phase /\ state' = "Draining"
          /\ UNCHANGED <<target, pending, import_backlog>>
      BY <2>3 DEF StopBusy
    <3>3. faults' \in 0..MaxFaults /\ state' \in SessionState
      BY <3>2, FaultType DEF TypeInv, SessionState
    <3> QED BY <2>3, <3>1, <3>2, <3>3
            DEF drainRest, TypeInv, TypeOK, CallShape, DecoderTypeOK
  <2>4. CASE /\ Return("error")
             /\ target' = [target EXCEPT ![arg] = Failed(target[arg])]
             /\ pending' = Erase(pending, {target[arg].token})
             /\ UNCHANGED <<state, saw_last, phase, import_backlog, faults, drainRest>>
    <3>1. /\ call' = "none" /\ call' \in Calls /\ arg' \in Targets \cup {None}
          /\ pc' \in Pcs /\ drain_for' \in Drains /\ waiter' \in [Targets -> Waits]
      BY <2>4, FlowTypes DEF Return
    <3>2. Failed(target[arg]) \in Target
      BY <1>0, <2>1, FailedType
    <3>3. target' \in [Targets -> Target] /\ pending' \in [Tokens -> Targets \cup {None}]
      BY <1>0, <2>4, <3>2, FailTypes
    <3> QED BY <2>4, <3>1, <3>3
            DEF drainRest, TypeInv, TypeOK, CallShape, DecoderTypeOK
  <2> QED BY <1>7, <2>2, <2>3, <2>4 DEF WaitExpires
<1>8. CASE DequeueError
  <2>1. Throw(state, target, pending, import_backlog) /\ faults' \in 0..MaxFaults
    BY <1>8, FaultType DEF DequeueError, TypeInv
  <2>2. /\ state' \in SessionState /\ target' \in [Targets -> Target]
        /\ pending' \in [Tokens -> Targets \cup {None}]
        /\ import_backlog' \in Seq(ImportEntry)
        /\ call' \in Calls /\ arg' \in Targets \cup {None} /\ pc' \in Pcs
        /\ drain_for' \in Drains /\ waiter' \in [Targets -> Waits]
        /\ call' = "none"
    BY <1>0, <2>1, ThrowTypes
  <2> QED BY <1>8, <2>1, <2>2 DEF DequeueError, TypeInv, TypeOK, CallShape, DecoderTypeOK
<1> QED BY <1>1, <1>2, <1>4, <1>5, <1>6, <1>7, <1>8 DEF Looping, Expiring

\* Every step keeps the inductive invariant: one case per disjunct of Next.
LEMMA TypeStep == TypeInv /\ [Next]_vars => TypeInv'
<1> SUFFICES ASSUME TypeInv, [Next]_vars PROVE TypeInv'
  OBVIOUS
<1>1. CASE Client
  BY <1>1, ClientTypes
<1>2. ASSUME NEW t \in Targets, Relock(t) PROVE TypeInv'
  <2>1. cap' \in [CapSlots -> Frame] /\ pc' \in Pcs
    BY <1>2, PumpTypes DEF Relock, Enter
  <2> QED BY <1>2, <2>1 DEF Relock, Enter, Calls, decoderVars,
                            TypeInv, TypeOK, CallShape, DecoderTypeOK
<1>3. CASE Working
  BY <1>3, ConfigureTypes, ReturnCaptureTypes, PumpTailTypes, ReconfigureTypes,
     DrainTurnTypes, AcceptTypes, OtherTypes DEF Working, Rebuild
<1>4. CASE Looping \/ Expiring \/ DequeueError
  BY <1>4, LoopTypes
<1>5. CASE Firmware
  <2>1. DecoderTypeOK'
    BY <1>5, FirmwareTypes DEF Firmware, TypeInv
  <2> QED BY <1>5, <2>1 DEF Firmware, driverVars, TypeInv, TypeOK, CallShape
<1>6. CASE UNCHANGED vars
  BY <1>6 DEF vars, driverVars, decoderVars, TypeInv, TypeOK, CallShape, DecoderTypeOK
<1> QED BY <1>1, <1>2, <1>3, <1>4, <1>5, <1>6 DEF Next

\* Every variable of session.cc and of the decoder keeps its type, and a
\* submit() always has a token and a free slot for its picture.
THEOREM TypeCorrect == Spec => []TypeOK
<1>1. TypeInv => TypeOK
  BY DEF TypeInv
<1> QED BY <1>1, TypeInit, TypeStep, PTL DEF Spec

-----------------------------------------------------------------------------
(* The map of live tokens and the targets.                                 *)

Typed(tg, pd) == tg \in [Targets -> Target] /\ pd \in [Tokens -> Targets \cup {None}]

\* PendingAgree of any targets and map; and a target that is neither pending nor
\* in error has its picture, or has been released.
Agree(tg, pd) ==
  /\ \A k \in Tokens : pd[k] # None => tg[pd[k]].pending /\ tg[pd[k]].token = k
  /\ \A t \in Targets : tg[t].pending => tg[t].token \in Tokens /\ pd[tg[t].token] = t
  /\ \A t \in Targets : ~tg[t].pending /\ ~tg[t].error =>
       tg[t].completed \/ tg[t].token = NoToken

\* From (tg, pd) to (tg2, pd2) pictures only settle: no token appears, and a
\* target that was settled is left alone.
Settles(tg, pd, tg2, pd2) ==
  /\ \A k \in Tokens : pd2[k] # None => pd[k] # None
  /\ \A t \in Targets : ~tg[t].pending => tg2[t] = tg[t]

\* Tokens not given out yet are not in the map.
Unused == \A k \in Tokens : k >= next_token => pending[k] = None

\* Where a call may be: no drain inside a pass, a finishing drain only in
\* finish(), nobody past its first look at a session that has failed, and the
\* picture that is being submitted is not pending yet, nor synced.
PassPcs == {"idle", "events", "configure", "outputs", "captures", "tail", "return"}
Places ==
  /\ call = "none" => pc = "idle"
  /\ pc \in PassPcs => drain_for = "none"
  /\ drain_for = "finish" => call = "finish"
  /\ call \in {"submit", "slot"} => ~target[arg].pending /\ waiter[arg] # "ok"
  /\ state = "Failed" => pc \in {"idle", "return"} /\ call \in {"none", "wait"}

SettledInv ==
  TypeInv /\ Agree(target, pending) /\ Unused /\ Places /\ FailedIsClean /\ SyncHonest

-----------------------------------------------------------------------------
(* Pictures only settle.                                                   *)

\* fail_all_pending and its partial forms.
LEMMA FailSettles ==
  ASSUME NEW tg, NEW pd, Typed(tg, pd), Agree(tg, pd), NEW K
  PROVE  /\ Agree(FailTokens(tg, pd, K), Erase(pd, K))
         /\ Settles(tg, pd, FailTokens(tg, pd, K), Erase(pd, K))
<1> DEFINE tg2 == FailTokens(tg, pd, K)
           pd2 == Erase(pd, K)
           hit(t) == \E k \in K \cap Tokens : pd[k] = t
<1>1. \A t \in Targets : tg2[t] = IF hit(t) THEN Failed(tg[t]) ELSE tg[t]
  BY DEF FailTokens
<1>2. \A k \in Tokens : pd2[k] = IF k \in K THEN None ELSE pd[k]
  BY DEF Erase
<1>3. \A t \in Targets : hit(t) <=> tg[t].pending /\ tg[t].token \in K
  BY SlotsAssumption DEF Agree, Typed
<1>4. \A t \in Targets : /\ Failed(tg[t]).pending = FALSE /\ Failed(tg[t]).error = TRUE
                         /\ Failed(tg[t]).token = tg[t].token
  BY DEF Failed, Typed, Target
<1> HIDE DEF tg2, pd2, hit
<1>5. Settles(tg, pd, tg2, pd2)
  BY <1>1, <1>2, <1>3 DEF Settles
<1>6. ASSUME NEW k \in Tokens, pd2[k] # None
      PROVE  tg2[pd2[k]].pending /\ tg2[pd2[k]].token = k
  <2>1. k \notin K /\ pd2[k] = pd[k] /\ pd[k] \in Targets
    BY <1>2, <1>6 DEF Typed
  <2>2. tg[pd[k]].pending /\ tg[pd[k]].token = k
    BY <2>1, <1>6 DEF Agree
  <2>3. ~hit(pd[k])
    BY <2>1, <2>2, <1>3
  <2>4. tg2[pd[k]] = tg[pd[k]]
    BY <2>1, <2>3, <1>1
  <2> QED BY <2>1, <2>2, <2>4
<1>7. ASSUME NEW t \in Targets, tg2[t].pending
      PROVE  tg2[t].token \in Tokens /\ pd2[tg2[t].token] = t
  <2>1. ~hit(t) /\ tg2[t] = tg[t]
    BY <1>1, <1>4, <1>7
  <2>2. tg[t].token \in Tokens /\ pd[tg[t].token] = t
    BY <2>1, <1>7 DEF Agree
  <2> QED BY <2>1, <2>2, <1>2, <1>3, <1>7
<1>8. ASSUME NEW t \in Targets, ~tg2[t].pending, ~tg2[t].error
      PROVE  tg2[t].completed \/ tg2[t].token = NoToken
  <2>1. tg2[t] = tg[t]
    BY <1>1, <1>4, <1>8
  <2> QED BY <2>1, <1>8 DEF Agree
<1>9. Agree(tg2, pd2)
  BY <1>6, <1>7, <1>8 DEF Agree
<1> QED BY <1>5, <1>9 DEF tg2, pd2

\* release_locked: the picture's token leaves the map, other targets stay.
LEMMA ReleaseSettles ==
  ASSUME NEW tg, NEW pd, Typed(tg, pd), Agree(tg, pd), NEW t \in Targets,
         NEW r \in Target, ~r.pending,
         \/ r.token = NoToken
         \/ /\ ~tg[t].pending /\ r.token = tg[t].token
            /\ r.error = tg[t].error /\ r.completed = tg[t].completed
  PROVE  /\ Agree([tg EXCEPT ![t] = r], release_token(tg, pd, t))
         /\ \A k \in Tokens : release_token(tg, pd, t)[k] # None => pd[k] # None
<1> DEFINE tg2 == [tg EXCEPT ![t] = r]
           pd2 == release_token(tg, pd, t)
<1>1. tg2[t] = r /\ \A u \in Targets : u # t => tg2[u] = tg[u]
  BY DEF Typed
<1>2. \A k \in Tokens : pd2[k] = IF tg[t].pending /\ k = tg[t].token THEN None ELSE pd[k]
  BY DEF release_token, Erase
<1> HIDE DEF tg2, pd2
<1>3. ASSUME NEW k \in Tokens, pd2[k] # None
      PROVE  tg2[pd2[k]].pending /\ tg2[pd2[k]].token = k
  <2>1. pd2[k] = pd[k] /\ pd[k] \in Targets /\ tg[pd[k]].pending /\ tg[pd[k]].token = k
    BY <1>2, <1>3 DEF Agree, Typed
  <2>2. pd[k] # t
    BY <2>1, <1>2, <1>3
  <2> QED BY <2>1, <2>2, <1>1
<1>4. ASSUME NEW u \in Targets, tg2[u].pending
      PROVE  tg2[u].token \in Tokens /\ pd2[tg2[u].token] = u
  <2>1. u # t /\ tg2[u] = tg[u]
    BY <1>1, <1>4
  <2>2. tg[u].token \in Tokens /\ pd[tg[u].token] = u
    BY <2>1, <1>4 DEF Agree
  <2>3. tg[t].pending => tg[u].token # tg[t].token
    BY <2>1, <2>2 DEF Agree
  <2> QED BY <2>1, <2>2, <2>3, <1>2
<1>5. ASSUME NEW u \in Targets, ~tg2[u].pending, ~tg2[u].error
      PROVE  tg2[u].completed \/ tg2[u].token = NoToken
  BY <1>1, <1>5 DEF Agree
<1>6. Agree(tg2, pd2)
  BY <1>3, <1>4, <1>5 DEF Agree
<1> QED BY <1>6, <1>2 DEF tg2, pd2

\* One picture settles: its target keeps an error or the picture, and its token
\* leaves the map.
LEMMA OneSettles ==
  ASSUME NEW tg, NEW pd, Typed(tg, pd), Agree(tg, pd), NEW k \in Tokens, pd[k] # None,
         NEW x \in Target, ~x.pending, x.error \/ x.completed
  PROVE  LET tg2 == [tg EXCEPT ![pd[k]] = x] IN
         /\ Typed(tg2, Erase(pd, {k})) /\ Agree(tg2, Erase(pd, {k}))
         /\ Settles(tg, pd, tg2, Erase(pd, {k}))
         /\ \A j \in Tokens : Erase(pd, {k})[j] # pd[k] /\ Erase(pd, {k})[j] \in {pd[j], None}
<1> DEFINE t   == pd[k]
           tg2 == [tg EXCEPT ![t] = x]
           pd2 == Erase(pd, {k})
<1>0. t \in Targets /\ tg[t].pending /\ tg[t].token = k
  BY DEF Typed, Agree
<1>a. Typed(tg2, pd2)
  BY <1>0 DEF Typed, Erase
<1>1. tg2[t] = x /\ \A u \in Targets : u # t => tg2[u] = tg[u]
  BY <1>0 DEF Typed
<1>2. \A j \in Tokens : pd2[j] = IF j = k THEN None ELSE pd[j]
  BY DEF Erase
<1> HIDE DEF tg2, pd2, t
<1>3. \A j \in Tokens : j # k => pd[j] # t
  BY <1>0, SlotsAssumption DEF Agree
<1>4. \A u \in Targets : u # t /\ tg[u].pending => tg[u].token # k
  BY <1>0 DEF Agree, t
<1>5. ASSUME NEW j \in Tokens, pd2[j] # None
      PROVE  tg2[pd2[j]].pending /\ tg2[pd2[j]].token = j
  <2>1. j # k /\ pd2[j] = pd[j] /\ pd[j] \in Targets /\ pd[j] # t
    BY <1>2, <1>3, <1>5 DEF Typed
  <2>2. tg[pd[j]].pending /\ tg[pd[j]].token = j
    BY <2>1, <1>5 DEF Agree
  <2> QED BY <1>1, <2>1, <2>2
<1>6. ASSUME NEW u \in Targets, tg2[u].pending
      PROVE  tg2[u].token \in Tokens /\ pd2[tg2[u].token] = u
  <2>1. u # t /\ tg2[u] = tg[u]
    BY <1>1, <1>6
  <2>2. tg[u].token \in Tokens /\ pd[tg[u].token] = u
    BY <2>1, <1>6 DEF Agree
  <2> QED BY <1>2, <1>4, <1>6, <2>1, <2>2
<1>7. ASSUME NEW u \in Targets, ~tg2[u].pending, ~tg2[u].error
      PROVE  tg2[u].completed \/ tg2[u].token = NoToken
  BY <1>1, <1>7 DEF Agree
<1>8. Agree(tg2, pd2)
  BY <1>5, <1>6, <1>7 DEF Agree
<1>9. Settles(tg, pd, tg2, pd2)
  BY <1>0, <1>1, <1>2 DEF Settles
<1>10. \A j \in Tokens : pd2[j] # t /\ pd2[j] \in {pd[j], None}
  BY <1>0, <1>2, <1>3, SlotsAssumption
<1> QED BY <1>a, <1>8, <1>9, <1>10 DEF tg2, pd2, t

\* Two steps that only settle are one.
LEMMA SettlesTwice ==
  ASSUME NEW tg, NEW pd, NEW tg2, NEW pd2, NEW tg3, NEW pd3,
         Settles(tg, pd, tg2, pd2), Settles(tg2, pd2, tg3, pd3)
  PROVE  Settles(tg, pd, tg3, pd3)
BY DEF Settles

\* queue_import_next fails the targets whose buffers nobody wants any more.
LEMMA ImportNextSettles ==
  ASSUME NEW mem, NEW g, NEW b, NEW cp, NEW tg, NEW pd, NEW n, NEW late,
         Typed(tg, pd), Agree(tg, pd)
  PROVE  LET r == ImportNext(mem, g, b, cp, tg, pd, n, late) IN
         Agree(r.target, r.pending) /\ Settles(tg, pd, r.target, r.pending)
<1> DEFINE K == {b[j].token : j \in {i \in 1..n : Disowned(b[i], tg, pd)}}
           r == ImportNext(mem, g, b, cp, tg, pd, n, late)
<1>1. \/ r.target = tg /\ r.pending = pd
      \/ r.target = FailTokens(tg, pd, K) /\ r.pending = Erase(pd, K)
  BY DEF ImportNext
<1>2. Settles(tg, pd, tg, pd)
  BY DEF Settles
<1> HIDE DEF K, r
<1>3. Agree(r.target, r.pending) /\ Settles(tg, pd, r.target, r.pending)
  BY <1>1, <1>2, FailSettles
<1> QED BY <1>3 DEF r

\* What an exception leaves of the pictures, and of a session that it fails.
AfterUnwind(tg, pd) ==
  /\ Agree(target', pending') /\ Settles(tg, pd, target', pending')
  /\ FailedIsClean'

\* fail() fails every pending picture and empties the backlog.
LEMMA FailIsClean ==
  ASSUME NEW tg, NEW pd, Typed(tg, pd), Agree(tg, pd), Fail(tg, pd)
  PROVE  AfterUnwind(tg, pd)
BY FailSettles DEF Fail, AfterUnwind, FailedIsClean, Erase

\* pump() fails the session, everybody else lets the error pass.
LEMMA UnwindSettles ==
  ASSUME NEW st, st # "Failed", NEW tg, NEW pd, NEW b,
         Typed(tg, pd), Agree(tg, pd), Unwind(st, tg, pd, b)
  PROVE  AfterUnwind(tg, pd) /\ (call = "none" => state' # "Failed")
<1>1. CASE call # "none" /\ Fail(tg, pd)
  BY <1>1, FailIsClean
<1>2. CASE /\ state' = IF drain_for = "finish" THEN "Finished" ELSE st
           /\ target' = tg /\ pending' = pd
  BY <1>2 DEF AfterUnwind, FailedIsClean, Settles
<1> QED BY <1>1, <1>2 DEF Unwind

\* A new pool, or the attempt to make one, only settles pictures; it never leaves
\* a failed session to a call that goes on.
LEMMA ConfigureSettles ==
  ASSUME TypeOK, NEW tg, NEW pd, Typed(tg, pd), Agree(tg, pd),
         configure_capture(tg, pd) \/ configure_capture_throws(tg, pd)
  PROVE  /\ AfterUnwind(tg, pd)
         /\ configure_capture(tg, pd) => state' = "Streaming"
         /\ call = "none" => state' # "Failed"
<1> DEFINE N(b, n, late) ==
      ImportNext(PoolMemory(tg, pd), fwGeom, b, fresh_capture, tg, pd, n, late)
<1>1. ASSUME NEW b, NEW n, NEW late
      PROVE  /\ Agree(N(b, n, late).target, N(b, n, late).pending)
             /\ Settles(tg, pd, N(b, n, late).target, N(b, n, late).pending)
  BY ImportNextSettles
<1>2. ASSUME NEW b \in Backlogs(tg, pd), NEW n \in Dropped(b, tg, pd), NEW late \in BOOLEAN
      PROVE  Typed(N(b, n, late).target, N(b, n, late).pending)
  <2>1. b \in Seq(ImportEntry)
    BY BacklogsType DEF Typed
  <2>2. fresh_capture \in [CapSlots -> Frame]
    BY DEF fresh_capture, IdleFrame, Frame, NoToken
  <2>3. N(b, n, late) \in ImportResult
    <3> HIDE DEF N
    <3> QED BY <2>1, <2>2, ImportNextType DEF N, Typed
  <2> HIDE DEF N
  <2> QED BY <2>3 DEF ImportResult, Typed
<1> HIDE DEF N
<1>3. CASE configure_capture(tg, pd)
  <2>1. PICK b \in Backlogs(tg, pd) : \E n \in Dropped(b, tg, pd) :
          target' = N(b, n, FALSE).target /\ pending' = N(b, n, FALSE).pending
    BY <1>3, Zenon DEF configure_capture, N
  <2>2. PICK n \in Dropped(b, tg, pd) :
          target' = N(b, n, FALSE).target /\ pending' = N(b, n, FALSE).pending
    BY <2>1, Zenon
  <2>3. state' = "Streaming"
    BY <1>3 DEF configure_capture
  <2> QED BY <2>2, <2>3, <1>1 DEF AfterUnwind, FailedIsClean
<1>4. CASE configure_capture_throws(tg, pd) /\ ~configure_capture(tg, pd)
  <2>1. CASE Unwind("Configured", tg, pd, import_backlog)
    BY <2>1, <1>4, UnwindSettles
  <2>2. CASE \E b \in Backlogs(tg, pd), late \in BOOLEAN : \E n \in Dropped(b, tg, pd) :
               Unwind("Configured", N(b, n, late).target, N(b, n, late).pending,
                      N(b, n, late).backlog)
    <3>1. PICK b \in Backlogs(tg, pd), late \in BOOLEAN : \E n \in Dropped(b, tg, pd) :
               Unwind("Configured", N(b, n, late).target, N(b, n, late).pending,
                      N(b, n, late).backlog)
      BY <2>2, Zenon
    <3>2. PICK n \in Dropped(b, tg, pd) :
               Unwind("Configured", N(b, n, late).target, N(b, n, late).pending,
                      N(b, n, late).backlog)
      BY <3>1, Zenon
    <3>3. AfterUnwind(N(b, n, late).target, N(b, n, late).pending)
          /\ (call = "none" => state' # "Failed")
      BY <3>2, <1>1, <1>2, UnwindSettles
    <3>4. Settles(tg, pd, target', pending')
      BY <3>3, <1>1, SettlesTwice DEF AfterUnwind
    <3> QED BY <3>3, <3>4, <1>4 DEF AfterUnwind
  <2> QED BY <1>4, <2>1, <2>2 DEF configure_capture_throws, N
<1> QED BY <1>3, <1>4

-----------------------------------------------------------------------------
(* Places of a call.                                                       *)

\* The pictures have only settled and the call is somewhere it may be: the
\* invariant is kept, an OK of before still holds, a new one is right.
LEMMA Kept ==
  ASSUME SettledInv, TypeInv', Agree(target', pending'),
         Settles(target, pending, target', pending'), next_token' = next_token,
         FailedIsClean', Places',
         \A t \in Targets : waiter'[t] = "ok" =>
           waiter[t] = "ok" \/ (~target'[t].pending /\ ~target'[t].error)
  PROVE  SettledInv'
<1>1. Unused'
  BY DEF SettledInv, Unused, Settles
<1>2. SyncHonest'
  <2> SUFFICES ASSUME NEW t \in Targets, waiter'[t] = "ok"
               PROVE  /\ ~target'[t].pending /\ ~target'[t].error
                      /\ target'[t].completed \/ target'[t].token = NoToken
    BY DEF SyncHonest
  <2>1. CASE waiter[t] = "ok"
    <3>1. /\ ~target[t].pending /\ ~target[t].error
          /\ target[t].completed \/ target[t].token = NoToken
      BY <2>1 DEF SettledInv, SyncHonest
    <3> QED BY <3>1 DEF Settles
  <2>2. CASE ~target'[t].pending /\ ~target'[t].error
    BY <2>2 DEF Agree
  <2> QED BY <2>1, <2>2
<1> QED BY <1>1, <1>2 DEF SettledInv

\* Nothing happened to the pictures.
LEMMA Unsettled ==
  ASSUME SettledInv, UNCHANGED <<target, pending>>
  PROVE  Agree(target', pending') /\ Settles(target, pending, target', pending')
BY DEF SettledInv, Settles

\* A call in the middle of its work holds a session that has not failed.
LEMMA InCall ==
  ASSUME SettledInv, pc \notin {"idle", "return"}
  PROVE  state # "Failed" /\ call # "none"
BY DEF SettledInv, Places

\* The call goes on to another place.
LEMMA GoesOn ==
  ASSUME SettledInv, TypeInv', NEW p, pc' = p,
         UNCHANGED <<call, arg, drain_for, waiter, next_token>>,
         pc \notin {"idle", "return"}, p \in PassPcs => pc \in PassPcs,
         state' # "Failed",
         Agree(target', pending'), Settles(target, pending, target', pending')
  PROVE  SettledInv'
<1>1. Places'
  <2>1. call # "none"
    BY InCall
  <2>2. call \in {"submit", "slot"} => target'[arg].pending = FALSE /\ waiter[arg] # "ok"
    <3> SUFFICES ASSUME call \in {"submit", "slot"}
                 PROVE  target'[arg].pending = FALSE /\ waiter[arg] # "ok"
      OBVIOUS
    <3>1. arg \in Targets /\ ~target[arg].pending /\ waiter[arg] # "ok"
      BY DEF SettledInv, Places, TypeInv, CallShape
    <3>2. target[arg].pending \in BOOLEAN
      BY <3>1 DEF SettledInv, TypeInv, TypeOK, Target
    <3> QED BY <3>1, <3>2 DEF Settles
  <2> QED BY <2>1, <2>2 DEF Places, SettledInv
<1>2. FailedIsClean'
  BY DEF FailedIsClean
<1> QED BY <1>1, <1>2, Kept

\* The call ends.
LEMMA Ends ==
  ASSUME SettledInv, TypeInv', NEW result, Return(result), next_token' = next_token,
         result = "ok" => call # "wait" \/ (~target'[arg].pending /\ ~target'[arg].error),
         Agree(target', pending'), Settles(target, pending, target', pending'),
         FailedIsClean'
  PROVE  SettledInv'
<1>1. Places'
  BY DEF Places, Return
<1>2. ASSUME NEW t \in Targets, waiter'[t] = "ok"
      PROVE  waiter[t] = "ok" \/ (~target'[t].pending /\ ~target'[t].error)
  BY <1>2 DEF Return, SettledInv, TypeInv, TypeOK
<1> QED BY <1>1, <1>2, Kept

\* The call ends with an exception.
LEMMA Throws ==
  ASSUME SettledInv, TypeInv', NEW st, st # "Failed", NEW tg, NEW pd, NEW b,
         Typed(tg, pd), Agree(tg, pd), Settles(target, pending, tg, pd),
         Throw(st, tg, pd, b), next_token' = next_token
  PROVE  SettledInv'
<1>1. AfterUnwind(tg, pd) /\ Return("error")
  BY UnwindSettles DEF Throw
<1>2. Settles(target, pending, target', pending')
  BY <1>1, SettlesTwice DEF AfterUnwind
<1>3. Agree(target', pending') /\ FailedIsClean'
  BY <1>1 DEF AfterUnwind
<1> QED BY <1>1, <1>2, <1>3, Ends

\* The call fails the session and ends.
LEMMA Fails ==
  ASSUME SettledInv, TypeInv', Fail(target, pending), Return("error"),
         next_token' = next_token
  PROVE  SettledInv'
<1>1. Typed(target, pending) /\ Agree(target, pending)
  BY DEF SettledInv, TypeInv, TypeOK, Typed
<1>2. AfterUnwind(target, pending)
  BY <1>1, FailIsClean
<1>3. /\ Agree(target', pending') /\ Settles(target, pending, target', pending')
      /\ FailedIsClean'
  BY <1>2 DEF AfterUnwind
<1> QED BY <1>3, Ends

-----------------------------------------------------------------------------
(* The calls of the clients.                                               *)

\* A call begins: one of a session that has failed looks no further.
LEMMA EnterKeeps ==
  ASSUME SettledInv, TypeInv', NEW c \in {"service", "wait"}, NEW t, Enter(c, t),
         c = "service" => state # "Failed",
         \A u \in Targets : waiter'[u] = "ok" => waiter[u] = "ok"
  PROVE  SettledInv'
<1>1. /\ Agree(target', pending') /\ Settles(target, pending, target', pending')
      /\ next_token' = next_token
  BY Unsettled DEF Enter
<1>2. FailedIsClean'
  BY DEF Enter, SettledInv, FailedIsClean
<1>3. Places'
  BY DEF Enter, PumpStart, SettledInv, Places, PassPcs
<1> QED BY <1>1, <1>2, <1>3, Kept

\* submit() takes the surface back, and forgets the sync of its last picture.
LEMMA SubmitKeeps ==
  ASSUME SettledInv, TypeInv', NEW t \in Targets, NEW p \in Policies, Submit(t, p)
  PROVE  SettledInv'
<1> DEFINE was == IF target[t].pending THEN Released(target[t]) ELSE target[t]
           r == [was EXCEPT !.publish = p, !.destination = (p # "Direct")]
<1>1. /\ target' = [target EXCEPT ![t] = r]
      /\ pending' = release_token(target, pending, t)
      /\ waiter' = [waiter EXCEPT ![t] = "idle"]
      /\ call = "none" /\ call' = "submit" /\ arg' = t /\ pc' \in {"return", "events"}
      /\ state # "Failed" /\ UNCHANGED <<state, next_token, drain_for>>
  BY DEF Submit, Forget, PumpStart
<1>2. Typed(target, pending) /\ Agree(target, pending)
  BY DEF SettledInv, TypeInv, TypeOK, Typed
<1>3. target[t] \in Target /\ was \in Target
  BY <1>2, FailedType DEF Typed
<1>4. r \in Target /\ ~r.pending /\ r.token = was.token /\ r.error = was.error
      /\ r.completed = was.completed
  <2>1. p \in {"Direct", "Copy", "Import"}
    BY SessionAssumption
  <2>2. ~was.pending
    BY DEF Released
  <2> HIDE DEF was
  <2> QED BY <2>1, <2>2, <1>3 DEF Target
<1>5. \/ r.token = NoToken
      \/ /\ ~target[t].pending /\ r.token = target[t].token
         /\ r.error = target[t].error /\ r.completed = target[t].completed
  BY <1>3, <1>4 DEF Released, Target
<1> HIDE DEF r, was
<1>6. /\ Agree(target', pending')
      /\ \A k \in Tokens : pending'[k] # None => pending[k] # None
  BY <1>1, <1>2, <1>4, <1>5, ReleaseSettles
<1>7. /\ target'[t] = r /\ waiter'[t] = "idle"
      /\ \A u \in Targets : u # t => target'[u] = target[u] /\ waiter'[u] = waiter[u]
  BY <1>1 DEF SettledInv, TypeInv, TypeOK
<1>8. Unused' /\ FailedIsClean'
  BY <1>1, <1>6 DEF SettledInv, Unused, FailedIsClean
<1>9. Places'
  BY <1>1, <1>4, <1>7 DEF SettledInv, Places, PassPcs
<1>10. SyncHonest'
  BY <1>7 DEF SettledInv, SyncHonest
<1> QED BY <1>6, <1>8, <1>9, <1>10 DEF SettledInv

\* release() takes the surface back, and may be what a new pool waited for.
LEMMA ReleaseKeeps ==
  ASSUME SettledInv, TypeInv', NEW t \in Targets, Release(t)
  PROVE  SettledInv'
<1> DEFINE tg == release_target(target, t)
           pd == release_token(target, pending, t)
<1>1. /\ call = "none" /\ UNCHANGED <<call, arg, pc, drain_for, next_token>>
      /\ waiter' = Forget(waiter, t)
  BY DEF Release, poolRest
<1>2. Typed(target, pending) /\ Agree(target, pending)
  BY DEF SettledInv, TypeInv, TypeOK, Typed
<1>3. Released(target[t]) \in Target
  BY <1>2, FailedType DEF Typed
<1>a. Released(target[t]).token = NoToken /\ ~Released(target[t]).pending
  BY <1>2 DEF Released, Typed, Target
<1>4. /\ Agree(tg, pd) /\ Typed(tg, pd)
      /\ \A k \in Tokens : pd[k] # None => pending[k] # None
  <2>1. Typed(tg, pd)
    BY <1>2, ReleaseTypes DEF Typed
  <2>2. tg = [target EXCEPT ![t] = Released(target[t])]
    BY DEF release_target
  <2> HIDE DEF tg
  <2> QED BY <1>2, <1>3, <1>a, <2>1, <2>2, ReleaseSettles
<1>5. /\ tg[t] = Released(target[t])
      /\ \A u \in Targets : u # t => tg[u] = target[u]
  BY <1>2 DEF release_target, Typed
<1>6. /\ Agree(target', pending') /\ Settles(tg, pd, target', pending')
      /\ FailedIsClean' /\ (state' = "Failed" => state = "Failed")
  <2>1. CASE target' = tg /\ pending' = pd /\ UNCHANGED <<state, import_backlog>>
    BY <2>1, <1>4 DEF SettledInv, FailedIsClean, Settles
  <2>2. CASE configure_capture(tg, pd) \/ configure_capture_throws(tg, pd)
    <3> HIDE DEF tg, pd
    <3>1. AfterUnwind(tg, pd) /\ state' # "Failed"
      BY <2>2, <1>1, <1>4, ConfigureSettles DEF SettledInv, TypeInv
    <3> QED BY <3>1 DEF AfterUnwind
  <2> QED BY <2>1, <2>2 DEF Release
<1>7. ASSUME NEW u \in Targets, waiter'[u] = "ok"
      PROVE  u # t /\ waiter[u] = "ok"
  BY <1>1, <1>7 DEF Forget, Waiting, SettledInv, TypeInv, TypeOK
<1> HIDE DEF tg, pd
<1>8. Unused'
  BY <1>1, <1>4, <1>6 DEF SettledInv, Unused, Settles
<1>9. Places'
  BY <1>1, <1>6 DEF SettledInv, Places
<1>10. SyncHonest'
  <2> SUFFICES ASSUME NEW u \in Targets, waiter'[u] = "ok"
               PROVE  /\ ~target'[u].pending /\ ~target'[u].error
                      /\ target'[u].completed \/ target'[u].token = NoToken
    BY DEF SyncHonest
  <2>1. /\ ~target[u].pending /\ ~target[u].error
        /\ target[u].completed \/ target[u].token = NoToken
    BY <1>7 DEF SettledInv, SyncHonest
  <2>2. target'[u] = target[u]
    BY <1>5, <1>6, <1>7, <2>1 DEF Settles
  <2> QED BY <2>1, <2>2
<1> QED BY <1>6, <1>8, <1>9, <1>10 DEF SettledInv

\* Every entry of a client keeps the invariant.
LEMMA ClientKeeps ==
  ASSUME SettledInv, TypeInv', Client PROVE SettledInv'
<1>1. ASSUME NEW t \in Targets, WaitSettled(t)
      PROVE  SettledInv'
  <2>1. /\ UNCHANGED <<state, target, pending, next_token, import_backlog, call, arg, pc, drain_for>>
        /\ call = "none" /\ ~target[t].pending
        /\ waiter' = [waiter EXCEPT ![t] = IF target[t].error THEN "error" ELSE "ok"]
    BY <1>1 DEF WaitSettled
  <2>2. FailedIsClean' /\ Places'
    BY <2>1 DEF SettledInv, FailedIsClean, Places
  <2>3. ASSUME NEW u \in Targets, waiter'[u] = "ok"
        PROVE  waiter[u] = "ok" \/ (~target'[u].pending /\ ~target'[u].error)
    BY <2>1, <2>3 DEF SettledInv, TypeInv, TypeOK
  <2> QED BY <2>1, <2>2, <2>3, Unsettled, Kept
<1>2. ASSUME NEW t \in Targets, Wait(t)
      PROVE  SettledInv'
  <2>1. \A u \in Targets : waiter'[u] = "ok" => waiter[u] = "ok"
    BY <1>2 DEF Wait, SettledInv, TypeInv, TypeOK
  <2> QED BY <1>2, <2>1, EnterKeeps DEF Wait
<1>3. CASE Service
  BY <1>3, EnterKeeps DEF Service
<1>4. CASE Finish
  <2>1. /\ call = "none" /\ UNCHANGED <<target, pending, next_token, import_backlog, waiter, arg>>
        /\ state' # "Failed"
    BY <1>4 DEF Finish, BeginDrain, StopBusy, drainRest
  <2>2. Places'
    BY <1>4, <2>1 DEF Finish, BeginDrain, SettledInv, Places, PassPcs
  <2>3. FailedIsClean'
    BY <2>1 DEF FailedIsClean
  <2> QED BY <2>1, <2>2, <2>3, Unsettled, Kept
<1> QED BY <1>1, <1>2, <1>3, <1>4, SubmitKeeps, ReleaseKeeps DEF Client

-----------------------------------------------------------------------------
(* pump().                                                                 *)

\* Targets and map have their types in every state of the invariant.
LEMMA TypedHere ==
  ASSUME SettledInv
  PROVE  Typed(target, pending) /\ Agree(target, pending)
BY DEF SettledInv, TypeInv, TypeOK, Typed

\* Events, the ends of the dequeuing loops, LAST.
LEMMA TurnsKeep ==
  ASSUME SettledInv, TypeInv', HandleEvents \/ LoopEnds \/ LastSeen
  PROVE  SettledInv'
<1>1. UNCHANGED <<target, pending, state, next_token>> /\ pc \notin {"idle", "return"}
  BY DEF HandleEvents, LoopEnds, LastSeen
<1>2. PICK p : Goto(p) /\ (p \in PassPcs => pc \in PassPcs)
  BY DEF HandleEvents, LoopEnds, LastSeen, Goto, PassPcs
<1>3. pc' = p /\ UNCHANGED <<call, arg, drain_for, waiter>>
  BY <1>2 DEF Goto
<1>4. state' # "Failed"
  BY <1>1, InCall
<1>5. Agree(target', pending') /\ Settles(target, pending, target', pending')
  BY <1>1, Unsettled
<1> QED BY <1>1, <1>2, <1>3, <1>4, <1>5, GoesOn

\* An OUTPUT buffer comes back, with its picture's error if it has one.
LEMMA ReturnOutputKeeps ==
  ASSUME SettledInv, TypeInv', ReturnOutput PROVE SettledInv'
<1> DEFINE d == Head(outDone)
           K == IF d.error THEN {out[d.slot].token} ELSE {}
<1>1. target' = FailTokens(target, pending, K) /\ pending' = Erase(pending, K)
  BY DEF ReturnOutput
<1> HIDE DEF K, d
<1>2. Agree(target', pending') /\ Settles(target, pending, target', pending')
  BY <1>1, TypedHere, FailSettles
<1>3. pc' = pc /\ UNCHANGED <<state, call, arg, drain_for, waiter, next_token>>
      /\ pc \notin {"idle", "return"}
  BY DEF ReturnOutput
<1>4. state' # "Failed"
  BY <1>3, InCall
<1> QED BY <1>2, <1>3, <1>4, GoesOn

\* The first pool of a session.
LEMMA ConfigureKeeps ==
  ASSUME SettledInv, TypeInv', Configure PROVE SettledInv'
<1>0. /\ Typed(target, pending) /\ Agree(target, pending) /\ TypeOK
      /\ pc = "configure" /\ state # "Failed" /\ next_token' = next_token
  BY TypedHere, InCall DEF Configure, poolRest, SettledInv, TypeInv
<1>1. CASE configure_capture(target, pending) /\ Goto("outputs")
  <2>1. AfterUnwind(target, pending) /\ state' = "Streaming"
    BY <1>0, <1>1, ConfigureSettles
  <2> QED BY <1>0, <1>1, <2>1, GoesOn DEF AfterUnwind, Goto, PassPcs
<1>2. CASE configure_capture_throws(target, pending) /\ Return("error")
  <2>1. AfterUnwind(target, pending)
    BY <1>0, <1>2, ConfigureSettles
  <2> QED BY <1>0, <1>2, <2>1, Ends DEF AfterUnwind
<1>3. CASE Throw(state, target, pending, import_backlog)
  <2>1. Settles(target, pending, target, pending)
    BY DEF Settles
  <2> QED BY <1>0, <1>3, <2>1, Throws
<1> QED BY <1>1, <1>2, <1>3 DEF Configure

\* A CAPTURE buffer comes back and its picture is published, fails or is dropped.
LEMMA CompleteKeeps ==
  ASSUME SettledInv, TypeInv', NEW d, NEW k, NEW r,
         Typed(r.target, r.pending), Agree(r.target, r.pending),
         Settles(target, pending, r.target, r.pending),
         pc \in {"captures", "dcaptures"}, next_token' = next_token,
         Complete(d, k, r)
  PROVE  SettledInv'
<1>1. state # "Failed"
  BY InCall
<1>2. ASSUME Goto(pc), UNCHANGED state, Agree(target', pending'),
             Settles(r.target, r.pending, target', pending')
      PROVE  SettledInv'
  <2>1. Settles(target, pending, target', pending')
    BY <1>2, SettlesTwice
  <2> QED BY <1>1, <1>2, <2>1, GoesOn DEF Goto
<1>3. CASE target' = r.target /\ pending' = r.pending /\ Goto(pc) /\ UNCHANGED state
  <2>1. Settles(r.target, r.pending, target', pending')
    BY <1>3 DEF Settles
  <2> QED BY <1>2, <1>3, <2>1
<1>4. CASE /\ target' = FailTokens(r.target, r.pending, Spoiled(d, k))
           /\ pending' = Erase(r.pending, Spoiled(d, k)) /\ Goto(pc) /\ UNCHANGED state
  BY <1>2, <1>4, FailSettles
<1>5. CASE ~Discarded(d, r.pending)
  <2> DEFINE t  == r.pending[d.ts]
             pd == Erase(r.pending, {d.ts})
  <2>1. d.ts \in Tokens /\ t \in Targets /\ r.target[t].pending /\ r.target[t].token = d.ts
    BY <1>5 DEF Discarded, Typed, Agree
  <2>2. ASSUME NEW x \in Target, ~x.pending, x.error \/ x.completed
        PROVE  LET tg == [r.target EXCEPT ![t] = x] IN
               Agree(tg, pd) /\ Settles(r.target, r.pending, tg, pd)
    <3> DEFINE j == d.ts
    <3>1. j \in Tokens /\ r.pending[j] # None
      BY <2>1, SlotsAssumption
    <3> HIDE DEF j
    <3>2. LET tg2 == [r.target EXCEPT ![r.pending[j]] = x] IN
            /\ Agree(tg2, Erase(r.pending, {j}))
            /\ Settles(r.target, r.pending, tg2, Erase(r.pending, {j}))
      BY <2>2, <3>1, OneSettles
    <3> QED BY <3>2 DEF j
  <2>3. pd \in [Tokens -> Targets \cup {None}] /\ r.target[t] \in Target
    BY <2>1 DEF Typed, Erase
  <2>4. CASE /\ target' = [r.target EXCEPT ![t] = Published(r.target[t], d.slot)]
             /\ pending' = pd /\ Goto(pc) /\ UNCHANGED state
    <3>1. target'[t] \in Target
      BY <2>1 DEF TypeInv, TypeOK
    <3>2. target'[t] = Published(r.target[t], d.slot)
      BY <2>1, <2>4 DEF Typed
    <3>3. Published(r.target[t], d.slot).pending = FALSE
          /\ Published(r.target[t], d.slot).completed = TRUE
      BY <2>3 DEF Published, Target
    <3> HIDE DEF t, pd
    <3> QED BY <1>2, <2>2, <2>4, <3>1, <3>2, <3>3
  <2>5. CASE Throw(state, [r.target EXCEPT ![t] =
                             [Failed(r.target[t]) EXCEPT !.publish = "Copy"]],
                   pd, r.backlog)
    <3> DEFINE x  == [Failed(r.target[t]) EXCEPT !.publish = "Copy"]
               tg == [r.target EXCEPT ![t] = x]
    <3>1. x \in Target /\ ~x.pending /\ x.error
      BY <2>3 DEF Failed, Target
    <3>2. Typed(tg, pd)
      BY <2>3, <3>1 DEF Typed
    <3> HIDE DEF x, t, pd
    <3>3. Agree(tg, pd) /\ Settles(r.target, r.pending, tg, pd)
      BY <2>2, <3>1
    <3>4. Settles(target, pending, tg, pd)
      BY <3>3, SettlesTwice
    <3> HIDE DEF tg
    <3>5. Throw(state, tg, pd, r.backlog)
      BY <2>5 DEF tg, x
    <3> QED BY <1>1, <3>2, <3>3, <3>4, <3>5, Throws
  <2>6. CASE Spoiled(d, k) # {}
    BY <1>4, <1>5, <2>6 DEF Complete
  <2> QED BY <1>5, <2>4, <2>5, <2>6 DEF Complete
<1> QED BY <1>3, <1>5 DEF Complete

\* queue_import_next from the state a step starts in only settles pictures.
LEMMA ImportHereSettles ==
  ASSUME SettledInv, NEW mem, NEW cp \in [CapSlots -> Frame],
         NEW n \in Dropped(import_backlog, target, pending), NEW late \in BOOLEAN
  PROVE  LET r == ImportNext(mem, capGeom, import_backlog, cp, target, pending, n, late)
         IN /\ Typed(r.target, r.pending) /\ Agree(r.target, r.pending)
            /\ Settles(target, pending, r.target, r.pending)
<1> DEFINE r == ImportNext(mem, capGeom, import_backlog, cp, target, pending, n, late)
<1>1. r \in ImportResult
  BY ImportNextHere DEF SettledInv, TypeInv
<1>2. Agree(r.target, r.pending) /\ Settles(target, pending, r.target, r.pending)
  BY TypedHere, ImportNextSettles
<1> HIDE DEF r
<1>3. Typed(r.target, r.pending)
  BY <1>1 DEF ImportResult, Typed
<1> QED BY <1>2, <1>3 DEF r

\* One turn of handle_capture_returns.
LEMMA ReturnCaptureKeeps ==
  ASSUME SettledInv, TypeInv', ReturnCapture PROVE SettledInv'
<1> DEFINE d    == Head(capDone)
           took == take_capture(cap, d.slot)
           mem  == IF state = "Streaming" THEN memory ELSE "Unallocated"
           r(n, late) == ImportNext(mem, capGeom, import_backlog, took, target,
                                    pending, n, late)
<1>1. took \in [CapSlots -> Frame]
  <2>1. d \in CapReturn
    BY HeadTailProperties DEF SettledInv, TypeInv, TypeOK, DecoderTypeOK, ReturnCapture
  <2>2. cap \in [CapSlots -> Frame] /\ d.slot \in CapSlots
    BY <2>1 DEF SettledInv, TypeInv, TypeOK, CapReturn
  <2>3. NoToken \in Tokens \cup {NoToken} /\ None \in Targets \cup {None, Scratch}
    OBVIOUS
  <2> QED BY <2>2, <2>3, PoolTypes DEF Frame
<1>2. PICK n \in Dropped(import_backlog, target, pending), late \in BOOLEAN :
        \/ Throw(state, r(n, late).target, r(n, late).pending, r(n, late).backlog)
        \/ Complete(d, cap[d.slot].import_token, r(n, late))
  BY Zenon DEF ReturnCapture
<1>3. /\ pc \in {"captures", "dcaptures"} /\ next_token' = next_token
      /\ state # "Failed"
  BY InCall DEF ReturnCapture
<1> DEFINE rr == r(n, late)
           k  == cap[d.slot].import_token
<1> HIDE DEF took, mem
<1>4. /\ Typed(rr.target, rr.pending) /\ Agree(rr.target, rr.pending)
      /\ Settles(target, pending, rr.target, rr.pending)
  BY <1>1, ImportHereSettles
<1> HIDE DEF r, d
<1>5. CASE Throw(state, rr.target, rr.pending, rr.backlog)
  <2> HIDE DEF rr
  <2> QED BY <1>3, <1>4, <1>5, Throws
<1>6. CASE Complete(d, k, rr)
  <2> HIDE DEF rr, k
  <2> QED BY <1>3, <1>4, <1>6, CompleteKeeps
<1> QED BY <1>2, <1>5, <1>6

\* The call is at its end with nothing left to drain: it decides what to do.
LEMMA ComesBack ==
  ASSUME SettledInv, TypeInv', pc' = "return", drain_for' = "none",
         UNCHANGED <<call, arg, waiter, next_token>>,
         pc \notin {"idle", "return"}, state' # "Failed",
         Agree(target', pending'), Settles(target, pending, target', pending')
  PROVE  SettledInv'
<1>1. Places'
  <2>1. call # "none"
    BY InCall
  <2>2. call \in {"submit", "slot"} => target'[arg].pending = FALSE /\ waiter[arg] # "ok"
    <3> SUFFICES ASSUME call \in {"submit", "slot"}
                 PROVE  target'[arg].pending = FALSE /\ waiter[arg] # "ok"
      OBVIOUS
    <3>1. arg \in Targets /\ ~target[arg].pending /\ waiter[arg] # "ok"
      BY DEF SettledInv, Places, TypeInv, CallShape
    <3>2. target[arg].pending \in BOOLEAN
      BY <3>1 DEF SettledInv, TypeInv, TypeOK, Target
    <3> QED BY <3>1, <3>2 DEF Settles
  <2> QED BY <2>1, <2>2 DEF Places
<1>2. FailedIsClean'
  BY DEF FailedIsClean
<1> QED BY <1>1, <1>2, Kept

\* continue_reconfigure.
LEMMA ReconfigureKeeps ==
  ASSUME SettledInv, TypeInv', Reconfigure, pc \in {"tail", "rebuild"}
  PROVE  SettledInv'
<1>0. /\ Typed(target, pending) /\ Agree(target, pending) /\ TypeOK
      /\ state # "Failed" /\ next_token' = next_token
  BY TypedHere, InCall DEF Reconfigure, poolRest, SettledInv, TypeInv
<1>1. CASE /\ pc' = "return" /\ drain_for' = "none"
           /\ UNCHANGED <<state, target, pending, call, arg, waiter>>
  BY <1>0, <1>1, Unsettled, ComesBack
<1>2. CASE /\ configure_capture(target, pending) /\ pc' = "return"
           /\ drain_for' = "none" /\ UNCHANGED <<call, arg, waiter>>
  <2>1. AfterUnwind(target, pending) /\ state' = "Streaming"
    BY <1>0, <1>2, ConfigureSettles
  <2> QED BY <1>0, <1>2, <2>1, ComesBack DEF AfterUnwind
<1>3. CASE configure_capture_throws(target, pending) /\ Return("error")
  <2>1. AfterUnwind(target, pending)
    BY <1>0, <1>3, ConfigureSettles
  <2> QED BY <1>0, <1>3, <2>1, Ends DEF AfterUnwind
<1> QED BY <1>1, <1>2, <1>3 DEF Reconfigure

\* The end of a pass.
LEMMA PumpTailKeeps ==
  ASSUME SettledInv, TypeInv', PumpTail PROVE SettledInv'
<1>1. pc = "tail" /\ state # "Failed" /\ call # "none" /\ drain_for = "none"
  BY InCall DEF PumpTail, SettledInv, Places, PassPcs
<1>2. CASE BeginDrain("drc") /\ UNCHANGED <<call, arg, waiter, next_token>>
  <2>1. /\ pc' = "drain" /\ drain_for' = "drc" /\ state' = "Draining"
        /\ UNCHANGED <<target, pending>>
    BY <1>2 DEF BeginDrain
  <2>2. Places'
    BY <1>1, <1>2, <2>1 DEF SettledInv, Places, PassPcs
  <2>3. FailedIsClean'
    BY <2>1 DEF FailedIsClean
  <2> QED BY <1>2, <2>1, <2>2, <2>3, Unsettled, Kept
<1>3. CASE StopBusy("drc") /\ Return("error") /\ next_token' = next_token
  BY <1>3, Fails DEF StopBusy
<1>4. CASE Reconfigure
  BY <1>1, <1>4, ReconfigureKeeps
<1>5. CASE Goto("return") /\ UNCHANGED <<state, target, pending, next_token>>
  BY <1>1, <1>5, Unsettled, ComesBack DEF Goto
<1> QED BY <1>2, <1>3, <1>4, <1>5 DEF PumpTail, drainRest

-----------------------------------------------------------------------------
(* drain() and restart().                                                  *)

\* One turn of the wait for LAST.
LEMMA DrainTurnKeeps ==
  ASSUME SettledInv, TypeInv', DrainTurn PROVE SettledInv'
<1> DEFINE rq == requeue_capture(memory, cap, target)
           r(n, late) == ImportNext(memory, capGeom, import_backlog, rq, target,
                                    pending, n, late)
<1>1. rq \in [CapSlots -> Frame]
  <2>1. NoToken \in Tokens \cup {NoToken} /\ None \in Targets \cup {None, Scratch}
    OBVIOUS
  <2> QED BY <2>1, PoolTypes DEF SettledInv, TypeInv, TypeOK
<1>2. PICK n \in Dropped(import_backlog, target, pending), late \in BOOLEAN :
        \/ Throw(state, r(n, late).target, r(n, late).pending, r(n, late).backlog)
        \/ /\ target' = r(n, late).target /\ pending' = r(n, late).pending
           /\ Goto("devents") /\ UNCHANGED state
  BY Zenon DEF DrainTurn
<1>3. pc = "drain" /\ next_token' = next_token /\ state # "Failed"
  BY InCall DEF DrainTurn
<1> DEFINE rr == r(n, late)
<1> HIDE DEF rq
<1>4. /\ Typed(rr.target, rr.pending) /\ Agree(rr.target, rr.pending)
      /\ Settles(target, pending, rr.target, rr.pending)
  BY <1>1, ImportHereSettles
<1> HIDE DEF r
<1>5. CASE Throw(state, rr.target, rr.pending, rr.backlog)
  <2> HIDE DEF rr
  <2> QED BY <1>3, <1>4, <1>5, Throws
<1>6. CASE /\ target' = rr.target /\ pending' = rr.pending
           /\ Goto("devents") /\ UNCHANGED state
  <2> HIDE DEF rr
  <2> QED BY <1>3, <1>4, <1>6, GoesOn DEF Goto, PassPcs
<1> QED BY <1>2, <1>5, <1>6

\* LAST or the OUTPUT buffers do not come in time, or DQBUF reports an error.
LEMMA ExpiresKeep ==
  ASSUME SettledInv, TypeInv', DrainExpires \/ StartBusy \/ DequeueError
  PROVE  SettledInv'
<1>1. CASE DrainExpires
  BY <1>1, Fails DEF DrainExpires
<1>2. CASE StartBusy
  <2>1. pc = "start" /\ next_token' = next_token /\ state # "Failed"
    BY <1>2, InCall DEF StartBusy
  <2>2. CASE Goto("soutputs") /\ UNCHANGED <<state, target, pending>>
    BY <2>1, <2>2, Unsettled, GoesOn DEF Goto, PassPcs
  <2>3. CASE Fail(target, pending) /\ Return("error")
    BY <2>1, <2>3, Fails
  <2> QED BY <1>2, <2>2, <2>3 DEF StartBusy
<1>3. CASE DequeueError
  <2>1. state # "Failed" /\ next_token' = next_token
        /\ Throw(state, target, pending, import_backlog)
    BY <1>3, InCall DEF DequeueError
  <2>2. Settles(target, pending, target, pending)
    BY DEF Settles
  <2> QED BY <2>1, <2>2, TypedHere, Throws
<1> QED BY <1>1, <1>2, <1>3

\* fail_unrecoverable_tokens, and what the drain was for; then START.
LEMMA DrainedKeeps ==
  ASSUME SettledInv, TypeInv', Drained \/ Start PROVE SettledInv'
<1>1. CASE Drained
  <2>1. Agree(target', pending') /\ Settles(target, pending, target', pending')
    BY <1>1, TypedHere, FailSettles DEF Drained
  <2>2. pc = "drained" /\ next_token' = next_token /\ state' # "Failed"
    BY <1>1 DEF Drained
  <2>3. CASE Goto("start") \/ Goto("rebuild")
    BY <2>1, <2>2, <2>3, GoesOn DEF Goto, PassPcs
  <2>4. CASE drain_for = "finish" /\ Return("ok")
    <3>1. call = "finish"
      BY <2>4 DEF SettledInv, Places
    <3>2. FailedIsClean'
      BY <2>2 DEF FailedIsClean
    <3> QED BY <2>1, <2>2, <2>4, <3>1, <3>2, Ends
  <2> QED BY <1>1, <2>3, <2>4 DEF Drained
<1>2. CASE Start
  <2>1. /\ UNCHANGED <<target, pending, call, arg, waiter, next_token>> /\ pc = "start"
        /\ pc' = "return" /\ drain_for' = "none" /\ state' # "Failed"
    BY <1>2 DEF Start
  <2> QED BY <2>1, Unsettled, ComesBack
<1> QED BY <1>1, <1>2

-----------------------------------------------------------------------------
(* The end of a call.                                                      *)

\* service(), submit() and wait() return, or go round again.
LEMMA ReturnsKeep ==
  ASSUME SettledInv, TypeInv',
         CallDone \/ SubmitGivesUp \/ WaitReturns \/ SubmitLoops \/ WaitPolls
  PROVE  SettledInv'
<1>1. UNCHANGED <<state, target, pending, next_token, import_backlog>>
  BY DEF CallDone, SubmitGivesUp, WaitReturns, SubmitLoops, WaitPolls, callRest
<1>2. /\ Agree(target', pending') /\ Settles(target, pending, target', pending')
      /\ FailedIsClean'
  BY <1>1, Unsettled DEF SettledInv, FailedIsClean
<1>3. CASE CallDone
  <2>1. Return("ok") /\ call # "wait"
    BY <1>3 DEF CallDone
  <2> QED BY <1>1, <1>2, <2>1, Ends
<1>4. CASE SubmitGivesUp
  BY <1>1, <1>2, <1>4, Ends DEF SubmitGivesUp
<1>5. CASE WaitReturns
  <2> DEFINE result == IF target[arg].pending \/ target[arg].error THEN "error" ELSE "ok"
  <2>1. Return(result)
    BY <1>5 DEF WaitReturns
  <2>2. result = "ok" => ~target'[arg].pending /\ ~target'[arg].error
    BY <1>1
  <2> HIDE DEF result
  <2> QED BY <1>1, <1>2, <2>1, <2>2, Ends
<1>6. CASE SubmitLoops
  <2>1. PICK c \in {"submit", "slot", "bringup"} :
          /\ PumpAgain(c) /\ state # "Failed" /\ (c # "bringup" => call \in {"submit", "slot"})
          /\ call # "none" /\ pc = "return"
    BY <1>6 DEF SubmitLoops
  <2>2. Places'
    BY <1>1, <2>1 DEF PumpAgain, PumpStart, SettledInv, Places, PassPcs
  <2>3. waiter' = waiter
    BY <2>1 DEF PumpAgain
  <2> QED BY <1>1, <1>2, <2>2, <2>3, Kept
<1>7. CASE WaitPolls
  <2>1. call' = "none" /\ pc' = "idle" /\ UNCHANGED <<drain_for, waiter>> /\ pc = "return"
        /\ state # "Failed"
    BY <1>7 DEF WaitPolls
  <2>2. Places'
    BY <1>1, <2>1 DEF SettledInv, Places, PassPcs
  <2> QED BY <1>1, <1>2, <2>1, <2>2, Kept
<1> QED BY <1>3, <1>4, <1>5, <1>6, <1>7

\* The deadline of a sync.
LEMMA WaitExpiresKeeps ==
  ASSUME SettledInv, TypeInv', WaitExpires PROVE SettledInv'
<1>0. /\ pc = "return" /\ call = "wait" /\ state # "Failed" /\ arg \in Targets
      /\ target[arg].pending /\ drain_for = "none" /\ next_token' = next_token
      /\ waiter \in [Targets -> Waits]
  BY DEF WaitExpires, drainRest, SettledInv, TypeInv, TypeOK, CallShape, Places, PassPcs
<1>1. CASE /\ BeginDrain("timeout") /\ UNCHANGED <<call, arg>>
           /\ waiter' = [waiter EXCEPT ![arg] = "drained"]
  <2>1. /\ pc' = "drain" /\ drain_for' = "timeout" /\ state' = "Draining"
        /\ UNCHANGED <<target, pending>>
    BY <1>1 DEF BeginDrain
  <2>2. Places' /\ FailedIsClean'
    BY <1>0, <1>1, <2>1 DEF Places, PassPcs, FailedIsClean
  <2>3. \A t \in Targets : waiter'[t] = "ok" => waiter[t] = "ok"
    BY <1>0, <1>1
  <2> QED BY <1>0, <2>1, <2>2, <2>3, Unsettled, Kept
<1>2. CASE StopBusy("timeout") /\ Return("error")
  <2>1. state' = "Draining" /\ UNCHANGED <<target, pending>>
    BY <1>2 DEF StopBusy
  <2>2. FailedIsClean'
    BY <2>1 DEF FailedIsClean
  <2> QED BY <1>0, <1>2, <2>1, <2>2, Unsettled, Ends
<1>3. CASE /\ Return("error") /\ UNCHANGED state
           /\ target' = [target EXCEPT ![arg] = Failed(target[arg])]
           /\ pending' = Erase(pending, {target[arg].token})
  <2> DEFINE k == target[arg].token
  <2>1. k \in Tokens /\ pending[k] = arg
    BY <1>0, TypedHere DEF Agree
  <2>2. \A t \in Targets : (\E j \in {k} \cap Tokens : pending[j] = t) <=> t = arg
    BY <2>1
  <2>3. target \in [Targets -> Target]
    BY TypedHere DEF Typed
  <2> HIDE DEF k
  <2>4. target' = FailTokens(target, pending, {k}) /\ pending' = Erase(pending, {k})
    BY <1>3, <2>2, <2>3 DEF FailTokens, k
  <2>5. Agree(target', pending') /\ Settles(target, pending, target', pending')
    BY <2>4, TypedHere, FailSettles
  <2>6. FailedIsClean'
    BY <1>0, <1>3 DEF FailedIsClean
  <2> QED BY <1>0, <1>3, <2>5, <2>6, Ends
<1> QED BY <1>1, <1>2, <1>3 DEF WaitExpires

\* The picture is accepted: a new token, which no target had, makes its target
\* pending, and every other one stays as it is.
LEMMA AcceptKeeps ==
  ASSUME SettledInv, TypeInv', Accept PROVE SettledInv'
<1> DEFINE k  == NewToken
           x  == [target[arg] EXCEPT !.token = k, !.pending = TRUE,
                    !.completed = FALSE, !.error = FALSE, !.frame = NoFrame]
           tg == [target EXCEPT ![arg] = x]
           pd == [pending EXCEPT ![k] = arg]
           b  == IF memory = "Import"
                 THEN push(import_backlog, k,
                           IF target[arg].destination THEN arg ELSE None)
                 ELSE import_backlog
           r(n, late) == ImportNext(memory, capGeom, b, cap, tg, pd, n, late)
<1>1. /\ call \in {"submit", "slot"} /\ arg \in Targets /\ k = next_token /\ k \in Tokens
      /\ ~target[arg].pending /\ waiter[arg] # "ok" /\ state # "Failed"
      /\ drain_for = "none" /\ pc = "return" /\ next_token' = next_token + 1
      /\ state' = state
  BY DEF Accept, SettledInv, TypeInv, CallShape, Places, PassPcs, NewToken
<1>2. PICK n \in Dropped(b, tg, pd), late \in BOOLEAN :
        /\ target' = r(n, late).target /\ pending' = r(n, late).pending
        /\ \/ Return("error")
           \/ call' = "bringup" /\ UNCHANGED <<arg, pc, drain_for, waiter>>
  BY Zenon DEF Accept
<1>3. Typed(target, pending) /\ Agree(target, pending) /\ pending[k] = None
  BY <1>1, TypedHere DEF SettledInv, Unused, Tokens
<1>4. x \in Target /\ x.pending = TRUE /\ x.token = k
  <2>1. target[arg] \in Target
    BY <1>1, <1>3 DEF Typed
  <2> HIDE DEF k
  <2> QED BY <1>1, <2>1 DEF Target
<1> HIDE DEF k, x
<1>5. /\ tg[arg] = x /\ \A u \in Targets : u # arg => tg[u] = target[u]
      /\ pd[k] = arg /\ \A j \in Tokens : j # k => pd[j] = pending[j]
      /\ Typed(tg, pd)
  BY <1>1, <1>3, <1>4 DEF Typed
<1> HIDE DEF tg, pd, b
<1>6. Agree(tg, pd)
  <2>1. ASSUME NEW j \in Tokens, pd[j] # None
        PROVE  tg[pd[j]].pending /\ tg[pd[j]].token = j
    <3>1. CASE j = k
      BY <3>1, <1>4, <1>5
    <3>2. CASE j # k
      <4>1. pd[j] = pending[j] /\ pending[j] \in Targets
        BY <3>2, <2>1, <1>3, <1>5 DEF Typed
      <4>2. target[pending[j]].pending /\ target[pending[j]].token = j
        BY <4>1, <2>1, <1>3 DEF Agree
      <4> QED BY <1>1, <1>5, <4>1, <4>2
    <3> QED BY <3>1, <3>2
  <2>2. ASSUME NEW u \in Targets, tg[u].pending
        PROVE  tg[u].token \in Tokens /\ pd[tg[u].token] = u
    <3>1. CASE u = arg
      BY <3>1, <1>1, <1>4, <1>5
    <3>2. CASE u # arg
      <4>1. tg[u] = target[u] /\ target[u].token \in Tokens /\ pending[target[u].token] = u
        BY <3>2, <2>2, <1>3, <1>5 DEF Agree
      <4>2. target[u].token # k
        BY <4>1, <1>3, SlotsAssumption
      <4> QED BY <4>1, <4>2, <1>5
    <3> QED BY <3>1, <3>2
  <2>3. ASSUME NEW u \in Targets, ~tg[u].pending, ~tg[u].error
        PROVE  tg[u].completed \/ tg[u].token = NoToken
    BY <2>3, <1>3, <1>4, <1>5 DEF Agree
  <2> QED BY <2>1, <2>2, <2>3 DEF Agree
<1>7. Agree(target', pending') /\ Settles(tg, pd, target', pending')
  BY <1>2, <1>5, <1>6, ImportNextSettles
<1>8. waiter' = waiter /\ Places' /\ FailedIsClean'
  BY <1>1, <1>2 DEF Return, Places, PassPcs, FailedIsClean
<1>9. Unused'
  <2> SUFFICES ASSUME NEW j \in Tokens, j >= next_token + 1 PROVE pending'[j] = None
    BY <1>1 DEF Unused
  <2>1. j >= next_token /\ j # k
    BY <1>1 DEF Tokens
  <2>2. pd[j] = None
    BY <2>1, <1>5 DEF SettledInv, Unused
  <2> QED BY <2>2, <1>7 DEF Settles
<1>10. SyncHonest'
  <2> SUFFICES ASSUME NEW u \in Targets, waiter'[u] = "ok"
               PROVE  /\ ~target'[u].pending /\ ~target'[u].error
                      /\ target'[u].completed \/ target'[u].token = NoToken
    BY DEF SyncHonest
  <2>1. /\ u # arg /\ ~target[u].pending /\ ~target[u].error
        /\ target[u].completed \/ target[u].token = NoToken
    BY <1>1, <1>8 DEF SettledInv, SyncHonest
  <2>2. target'[u] = target[u]
    BY <2>1, <1>5, <1>7 DEF Settles
  <2> QED BY <2>1, <2>2
<1> QED BY <1>7, <1>8, <1>9, <1>10 DEF SettledInv

-----------------------------------------------------------------------------
(* Every step of Session.                                                  *)

\* A session that has just opened has no pictures.
LEMMA SettledInit == Init => SettledInv
<1> SUFFICES ASSUME Init PROVE SettledInv
  OBVIOUS
<1>1. /\ state = "Configured" /\ call = "none" /\ pc = "idle" /\ drain_for = "none"
      /\ \A k \in Tokens : pending[k] = None
      /\ \A t \in Targets : /\ target[t].pending = FALSE /\ target[t].token = NoToken
                            /\ waiter[t] = "idle"
  BY DEF Init
<1>2. TypeInv
  BY TypeInit
<1>3. Agree(target, pending) /\ Unused /\ Places /\ FailedIsClean /\ SyncHonest
  BY <1>1 DEF Agree, Unused, Places, FailedIsClean, SyncHonest
<1> QED BY <1>2, <1>3 DEF SettledInv

\* Every step keeps the invariant: one case per disjunct of Next.
LEMMA SettledStep == SettledInv /\ [Next]_vars => SettledInv'
<1> SUFFICES ASSUME SettledInv, [Next]_vars PROVE SettledInv'
  OBVIOUS
<1>1. TypeInv'
  BY TypeStep DEF SettledInv
<1>2. CASE Client
  BY <1>1, <1>2, ClientKeeps
<1>3. ASSUME NEW t \in Targets, Relock(t)
      PROVE  SettledInv'
  BY <1>1, <1>3, EnterKeeps DEF Relock
<1>4. CASE Working
  <2>1. CASE Rebuild
    BY <1>1, <2>1, ReconfigureKeeps DEF Rebuild
  <2> QED BY <1>1, <1>4, <2>1, TurnsKeep, ConfigureKeeps, ReturnOutputKeeps,
             ReturnCaptureKeeps, PumpTailKeeps, DrainTurnKeeps, DrainedKeeps,
             ReturnsKeep, AcceptKeeps DEF Working
<1>5. CASE Looping \/ Expiring \/ DequeueError
  BY <1>1, <1>5, ReturnsKeep, ExpiresKeep, WaitExpiresKeeps DEF Looping, Expiring
<1>6. CASE UNCHANGED driverVars
  <2>1. UNCHANGED <<state, target, pending, next_token, import_backlog, call, arg,
                    pc, drain_for, waiter>>
    BY <1>6 DEF driverVars
  <2>2. FailedIsClean' /\ Places'
    BY <2>1 DEF SettledInv, FailedIsClean, Places
  <2> QED BY <1>1, <2>1, <2>2, Unsettled, Kept
<1> QED BY <1>2, <1>3, <1>4, <1>5, <1>6 DEF Next, Firmware, vars

\* SettledInv holds in every state.
LEMMA AlwaysSettled == Spec => []SettledInv
BY SettledInit, SettledStep, PTL DEF Spec

\* pending_ and the targets never disagree: no completion is lost, none reaches
\* a stranger (session.h:185).
THEOREM TokensAgree == Spec => []PendingAgree
<1>1. SettledInv => PendingAgree
  BY DEF SettledInv, Agree, PendingAgree
<1> QED BY <1>1, AlwaysSettled, PTL

\* wait() answers OK only for a picture that was published, or whose target was
\* released meanwhile (architecture.md section 10, invariant 4).
THEOREM SyncsAreHonest == Spec => []SyncHonest
<1>1. SettledInv => SyncHonest
  BY DEF SettledInv
<1> QED BY <1>1, AlwaysSettled, PTL

\* A session that has failed leaves no picture pending and no client buffer
\* waiting (fail(), session.cc:853).
THEOREM FailuresAreClean == Spec => []FailedIsClean
<1>1. SettledInv => FailedIsClean
  BY DEF SettledInv
<1> QED BY <1>1, AlwaysSettled, PTL
=============================================================================
