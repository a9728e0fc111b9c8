---------------------------- MODULE PixelProofs ----------------------------
(***************************************************************************)
(* Whose memory the decoder writes into, in Session, for every number of   *)
(* surfaces, slots, pictures and faults: never a slot that a surface holds *)
(* and never two client buffers at a time, so that a published surface     *)
(* shows its own picture.  And that Session implements DecodePromise.      *)
(*                                                                         *)
(* The predicates take the pool, the backlog, the targets and the map as   *)
(* arguments: a handler changes them one helper after the other, and each  *)
(* helper has one lemma.                                                   *)
(***************************************************************************)
EXTENDS SessionProofs
\* The pool.  An idle slot carries nothing; only an Import pool has client
\* buffers, one at a time; frames are held in an Mmap pool only, and what is
\* held is not queued.
PoolOK(mem, cp, tg) ==
  /\ \A c \in CapSlots : cp[c].queued \/ cp[c] = IdleFrame
  /\ mem # "Import" => \A c \in CapSlots : cp[c].buf = None
  /\ mem = "Unallocated" => \A c \in CapSlots : ~cp[c].queued
  /\ mem # "Mmap" => \A t \in Targets : tg[t].frame = NoFrame
  /\ mem = "Import" => \A c, d \in CapSlots : cp[c].queued /\ cp[d].queued => c = d
  /\ \A c \in CapSlots, t \in Targets : tg[t].frame = c => ~cp[c].queued

\* A target asks for a buffer exactly when it has one (va::submit).
Wanting(r) == r.destination <=> r.publish # "Direct"

\* A target has one fate, and a frame only if its picture is published.
Fated(tg) ==
  \A t \in Targets :
    /\ tg[t].pending => /\ ~tg[t].completed /\ ~tg[t].error
                        /\ tg[t].frame = NoFrame /\ Wanting(tg[t])
    /\ tg[t].completed => ~tg[t].error
    /\ tg[t].frame # NoFrame => tg[t].completed

\* The pictures of one surface are in the backlog in their order, and behind
\* the one whose buffer is queued.
Ordered(b, cp) ==
  /\ \A i, j \in DOMAIN b :
       i < j /\ b[i].buf = b[j].buf /\ b[i].buf # None => b[i].token < b[j].token
  /\ \A c \in CapSlots, i \in DOMAIN b :
       b[i].buf # None /\ cp[c].buf = b[i].buf => cp[c].import_token < b[i].token

\* Nobody's buffer waits for a picture younger than the one it is pending for,
\* and the buffer that waits or is queued for a live picture is its own.
Owned1(b, tg, pd) ==
  \A i \in DOMAIN b : pd[b[i].token] # None /\ b[i].buf # None =>
    /\ b[i].buf = pd[b[i].token]
    /\ tg[b[i].buf].destination /\ tg[b[i].buf].publish # "Direct"
Owners(b, cp, tg, pd) ==
  /\ \A i \in DOMAIN b, k \in Tokens :
       pd[k] # None /\ b[i].buf = pd[k] => b[i].token <= k
  /\ Owned1(b, tg, pd)
  /\ \A c \in CapSlots : cp[c].import_token \in Tokens =>
       cp[c].buf \in Targets /\ pd[cp[c].import_token] \in {None, cp[c].buf}

\* Every token around has been given out.
Past(b, cp, nt) ==
  /\ \A i \in DOMAIN b : b[i].token < nt
  /\ \A c \in CapSlots : cp[c].import_token < nt

Sound(mem, b, cp, tg, pd, nt) ==
  /\ PoolOK(mem, cp, tg) /\ Fated(tg) /\ Ordered(b, cp)
  /\ Owners(b, cp, tg, pd) /\ Past(b, cp, nt)

\* The buffer of t neither waits nor is with the decoder.
NotUsed(b, cp, t) ==
  /\ \A i \in DOMAIN b : b[i].buf # t
  /\ \A c \in CapSlots : cp[c].buf # t

\* Slots may be queued, but no queued slot changes.
Adds(cp, cp2) == \A c \in CapSlots : cp[c].queued => cp2[c] = cp[c]

\* What a helper may do to the backlog and the pool.
Moves(b, cp, b2, cp2) ==
  Adds(cp, cp2) /\ \A t \in Targets : NotUsed(b, cp, t) => NotUsed(b2, cp2, t)

\* From (tg, pd) to (tg2, pd2) some pending pictures fail, nothing else.
Losses(tg, pd, tg2, pd2) ==
  /\ \A t \in Targets : tg2[t] = tg[t] \/ (tg[t].pending /\ tg2[t] = Failed(tg[t]))
  /\ \A k \in Tokens : pd2[k] = pd[k] \/ pd2[k] = None

-----------------------------------------------------------------------------
(* Losing pictures.                                                        *)

\* The entries of a backlog.
LEMMA Entries ==
  ASSUME NEW b \in Seq(ImportEntry)
  PROVE  /\ Len(b) \in Nat /\ DOMAIN b = 1..Len(b)
         /\ \A i \in DOMAIN b : b[i].token \in Tokens /\ b[i].buf \in Targets \cup {None}
<1>1. Len(b) \in Nat /\ DOMAIN b = 1..Len(b)
  BY LenProperties
<1>2. \A i \in DOMAIN b : b[i] \in ImportEntry
  BY <1>1, ElementOfSeq
<1> QED BY <1>1, <1>2 DEF ImportEntry

\* What fail_all_pending changes of a target.
LEMMA FailedFields ==
  ASSUME NEW r \in Target
  PROVE  /\ Failed(r).pending = FALSE /\ Failed(r).error = TRUE
         /\ Failed(r).completed = r.completed /\ Failed(r).frame = r.frame
         /\ Failed(r).token = r.token /\ Failed(r).publish = r.publish
         /\ Failed(r).destination = r.destination
BY DEF Failed, Target

\* fail_all_pending and its partial forms fail pending pictures only.
LEMMA FailLoses ==
  ASSUME NEW tg, NEW pd, Typed(tg, pd), Agree(tg, pd), NEW K
  PROVE  Losses(tg, pd, FailTokens(tg, pd, K), Erase(pd, K))
<1>1. \A t \in Targets : (\E k \in K \cap Tokens : pd[k] = t) => tg[t].pending
  BY SlotsAssumption DEF Agree
<1>2. \A t \in Targets : FailTokens(tg, pd, K)[t] =
        IF \E k \in K \cap Tokens : pd[k] = t THEN Failed(tg[t]) ELSE tg[t]
  BY DEF FailTokens
<1>3. \A k \in Tokens : Erase(pd, K)[k] = IF k \in K THEN None ELSE pd[k]
  BY DEF Erase
<1> QED BY <1>1, <1>2, <1>3 DEF Losses

\* Losing twice is losing.
LEMMA LosesTwice ==
  ASSUME NEW tg, NEW pd, Typed(tg, pd), NEW tg2, NEW pd2, NEW tg3, NEW pd3,
         Losses(tg, pd, tg2, pd2), Losses(tg2, pd2, tg3, pd3)
  PROVE  Losses(tg, pd, tg3, pd3)
<1>1. \A t \in Targets : Failed(tg[t]).pending = FALSE
  BY FailedFields DEF Typed
<1> QED BY <1>1 DEF Losses

\* Losing nothing.
LEMMA LosesNone ==
  ASSUME NEW tg, NEW pd
  PROVE  Losses(tg, pd, tg, pd)
BY DEF Losses

\* What a loss leaves alone of each target.
LEMMA LossFields ==
  ASSUME NEW tg, NEW pd, Typed(tg, pd), NEW tg2, NEW pd2, Losses(tg, pd, tg2, pd2),
         NEW t \in Targets
  PROVE  /\ tg2[t].frame = tg[t].frame /\ tg2[t].completed = tg[t].completed
         /\ tg2[t].token = tg[t].token /\ tg2[t].publish = tg[t].publish
         /\ tg2[t].destination = tg[t].destination
         /\ tg2[t].pending => tg[t].pending /\ tg2[t] = tg[t]
         /\ tg2[t] = tg[t] \/ (tg[t].pending /\ ~tg2[t].pending /\ tg2[t].error)
<1>1. CASE tg2[t] = tg[t]
  BY <1>1
<1>2. CASE tg[t].pending /\ tg2[t] = Failed(tg[t])
  <2>1. tg[t] \in Target
    BY DEF Typed
  <2> QED BY <1>2, <2>1, FailedFields
<1> QED BY <1>1, <1>2 DEF Losses

\* Losses keep the pool, the backlog and the fates sound.
LEMMA LossesSound ==
  ASSUME NEW mem, NEW b \in Seq(ImportEntry), NEW cp \in [CapSlots -> Frame],
         NEW tg, NEW pd, Typed(tg, pd), NEW nt,
         Sound(mem, b, cp, tg, pd, nt), NEW tg2, NEW pd2, Losses(tg, pd, tg2, pd2)
  PROVE  Sound(mem, b, cp, tg2, pd2, nt)
<1>1. \A t \in Targets :
         /\ tg2[t].frame = tg[t].frame /\ tg2[t].completed = tg[t].completed
         /\ tg2[t].publish = tg[t].publish /\ tg2[t].destination = tg[t].destination
         /\ tg2[t].pending => tg[t].pending /\ tg2[t] = tg[t]
         /\ tg2[t] = tg[t] \/ (tg[t].pending /\ ~tg2[t].pending)
  BY LossFields
<1>2. \A k \in Tokens : pd2[k] # None => pd2[k] = pd[k]
  BY DEF Losses
<1>3. PoolOK(mem, cp, tg2)
  BY <1>1 DEF Sound, PoolOK
<1>4. Fated(tg2)
  BY <1>1 DEF Sound, Fated, Wanting
<1>5. Owners(b, cp, tg2, pd2)
  <2>1. \A i \in DOMAIN b : b[i].token \in Tokens /\ b[i].buf \in Targets \cup {None}
    BY Entries
  <2>2. Owned1(b, tg2, pd2)
    <3> SUFFICES ASSUME NEW i \in DOMAIN b, pd2[b[i].token] # None, b[i].buf # None
                 PROVE  /\ b[i].buf = pd2[b[i].token]
                        /\ tg2[b[i].buf].destination /\ tg2[b[i].buf].publish # "Direct"
      BY DEF Owned1
    <3>1. b[i].buf \in Targets /\ pd2[b[i].token] = pd[b[i].token]
      BY <1>2, <2>1
    <3>2. /\ b[i].buf = pd[b[i].token]
          /\ tg[b[i].buf].destination /\ tg[b[i].buf].publish # "Direct"
      BY <3>1 DEF Sound, Owners, Owned1
    <3> QED BY <1>1, <3>1, <3>2
  <2> QED BY <1>2, <2>1, <2>2 DEF Sound, Owners
<1> QED BY <1>3, <1>4, <1>5 DEF Sound

-----------------------------------------------------------------------------
(* The helpers of the pool.                                                *)

\* requeue_capture queues only slots that carry nothing and that nobody holds.
LEMMA RequeueSound ==
  ASSUME NEW mem, NEW b, NEW cp \in [CapSlots -> Frame], NEW tg, NEW pd, NEW nt,
         Sound(mem, b, cp, tg, pd, nt)
  PROVE  LET cp2 == requeue_capture(mem, cp, tg) IN
         Sound(mem, b, cp2, tg, pd, nt) /\ Moves(b, cp, b, cp2)
<1> DEFINE cp2 == requeue_capture(mem, cp, tg)
<1>1. CASE mem # "Mmap"
  <2>1. cp2 = cp
    BY <1>1 DEF requeue_capture
  <2> QED BY <2>1 DEF Moves, Adds
<1>2. CASE mem = "Mmap"
  <2>1. \A c \in CapSlots : cp2[c] = IF cp[c].queued \/ held(tg, c) THEN cp[c]
                                     ELSE [cp[c] EXCEPT !.queued = TRUE]
    BY <1>2 DEF requeue_capture
  <2> HIDE DEF cp2
  <2>2. \A c \in CapSlots : /\ cp2[c].buf = cp[c].buf
                            /\ cp2[c].import_token = cp[c].import_token
                            /\ cp[c].queued => cp2[c] = cp[c]
                            /\ cp2[c].queued => cp[c].queued \/ ~held(tg, c)
                            /\ cp2[c].queued \/ cp2[c] = cp[c]
    BY <2>1 DEF Frame
  <2>3. PoolOK(mem, cp2, tg)
    BY <1>2, <2>2 DEF Sound, PoolOK, held
  <2>4. Ordered(b, cp2) /\ Owners(b, cp2, tg, pd) /\ Past(b, cp2, nt)
    BY <2>2 DEF Sound, Ordered, Owners, Past
  <2>5. Moves(b, cp, b, cp2)
    BY <2>2 DEF Moves, Adds, NotUsed
  <2> QED BY <2>3, <2>4, <2>5 DEF Sound, cp2
<1> QED BY <1>1, <1>2

\* An idle slot carries neither a buffer nor a token.
LEMMA IdleFields ==
  IdleFrame.queued = FALSE /\ IdleFrame.buf = None /\ IdleFrame.import_token = NoToken
  /\ NoToken \notin Tokens /\ None \notin Targets
BY SlotsAssumption DEF IdleFrame, NoToken, Tokens

\* A slot that is taken back, or a whole pool that is emptied.
LEMMA EmptiedSound ==
  ASSUME NEW mem, NEW mem2, NEW b \in Seq(ImportEntry), NEW cp \in [CapSlots -> Frame],
         NEW tg, NEW pd, NEW nt \in Nat \ {0}, Sound(mem, b, cp, tg, pd, nt), NEW cp2,
         \/ /\ mem2 = mem
            /\ \A c \in CapSlots : cp2[c] = cp[c] \/ cp2[c] = IdleFrame
         \/ /\ mem2 = "Mmap" \/ \A t \in Targets : tg[t].frame = NoFrame
            /\ \A c \in CapSlots : cp2[c] = IdleFrame
  PROVE  /\ Sound(mem2, b, cp2, tg, pd, nt)
         /\ \A t \in Targets : NotUsed(b, cp, t) => NotUsed(b, cp2, t)
<1>1. \A c \in CapSlots : cp2[c] = cp[c] \/ cp2[c] = IdleFrame
  OBVIOUS
<1>2. PoolOK(mem2, cp2, tg)
  BY IdleFields DEF Sound, PoolOK
<1>3. \A i \in DOMAIN b : b[i].token \in Tokens /\ b[i].buf \in Targets \cup {None}
  BY Entries
<1>4. Ordered(b, cp2) /\ Owners(b, cp2, tg, pd)
  BY <1>1, <1>3, IdleFields DEF Sound, Ordered, Owners
<1>5. Past(b, cp2, nt)
  BY <1>1, IdleFields DEF Sound, Past, NoToken
<1>6. \A t \in Targets : NotUsed(b, cp, t) => NotUsed(b, cp2, t)
  BY <1>1, IdleFields DEF NotUsed
<1> QED BY <1>2, <1>4, <1>5, <1>6 DEF Sound

\* A DMA-BUF is queued while the decoder has none (queue_capture_import and
\* queue_capture_scratch).
LEMMA QueueSound ==
  ASSUME NEW b \in Seq(ImportEntry), NEW cp \in [CapSlots -> Frame], NEW tg, NEW pd,
         NEW nt \in Nat \ {0}, Sound("Import", b, cp, tg, pd, nt),
         \A c \in CapSlots : ~cp[c].queued,
         NEW u \in Targets \cup {Scratch}, NEW k \in Tokens \cup {NoToken}, k < nt,
         k \in Tokens => u \in Targets /\ pd[k] \in {None, u},
         \A i \in DOMAIN b : b[i].buf = u => k < b[i].token
  PROVE  /\ Sound("Import", b, queue_capture_import(cp, u, k), tg, pd, nt)
         /\ Adds(cp, queue_capture_import(cp, u, k))
         /\ \A t \in Targets : NotUsed(b, cp, t) /\ t # u =>
              NotUsed(b, queue_capture_import(cp, u, k), t)
<1> DEFINE f   == free_capture(cp)
           v   == [queued |-> TRUE, import_token |-> k, buf |-> u]
           cp2 == queue_capture_import(cp, u, k)
<1>1. \A c \in CapSlots : cp2[c] = IF c = f THEN v ELSE IdleFrame
  BY DEF queue_capture_import, Sound, PoolOK
<1>2. v.queued = TRUE /\ v.import_token = k /\ v.buf = u /\ u # None
  BY SlotsAssumption
<1>3. \A i \in DOMAIN b : b[i].token \in Tokens /\ b[i].buf \in Targets \cup {None}
  BY Entries
<1> HIDE DEF f, v, cp2
<1>4. \A c \in CapSlots : \/ c = f /\ cp2[c].queued /\ cp2[c].import_token = k /\ cp2[c].buf = u
                         \/ /\ c # f /\ cp2[c] = IdleFrame /\ ~cp2[c].queued
                            /\ cp2[c].import_token = NoToken /\ cp2[c].buf = None
  BY <1>1, <1>2, IdleFields
<1>5. PoolOK("Import", cp2, tg)
  <2>1. \A t \in Targets : tg[t].frame = None
    BY DEF Sound, PoolOK, NoFrame
  <2>2. None \notin CapSlots
    BY SlotsAssumption
  <2> QED BY <1>4, <2>1, <2>2 DEF PoolOK, NoFrame
<1>6. Ordered(b, cp2)
  BY <1>3, <1>4 DEF Sound, Ordered
<1>7. Owners(b, cp2, tg, pd)
  BY <1>4, IdleFields DEF Sound, Owners
<1>8. Past(b, cp2, nt)
  BY <1>4 DEF Sound, Past, NoToken
<1>9. \A t \in Targets : NotUsed(b, cp, t) /\ t # u => NotUsed(b, cp2, t)
  BY <1>4, IdleFields DEF NotUsed
<1> QED BY <1>5, <1>6, <1>7, <1>8, <1>9 DEF Sound, Adds, cp2

\* Entries leave the front of the backlog.
LEMMA SuffixSound ==
  ASSUME NEW mem, NEW b \in Seq(ImportEntry), NEW cp, NEW tg, NEW pd, NEW nt,
         Sound(mem, b, cp, tg, pd, nt), NEW m \in 1..(Len(b) + 1)
  PROVE  LET b2 == SubSeq(b, m, Len(b)) IN
         /\ b2 \in Seq(ImportEntry)
         /\ Sound(mem, b2, cp, tg, pd, nt)
         /\ DOMAIN b2 = 1..(Len(b) - m + 1) /\ \A i \in DOMAIN b2 : b2[i] = b[i + m - 1]
         /\ \A t : NotUsed(b, cp, t) => NotUsed(b2, cp, t)
<1> DEFINE b2 == SubSeq(b, m, Len(b))
<1>1. Len(b) \in Nat /\ DOMAIN b = 1..Len(b)
  BY LenProperties
<1>2. \A i \in m..Len(b) : b[i] \in ImportEntry
  BY <1>1, ElementOfSeq
<1>3. /\ b2 \in Seq(ImportEntry)
      /\ DOMAIN b2 = 1..(Len(b) - m + 1) /\ \A i \in DOMAIN b2 : b2[i] = b[i + m - 1]
  <2>1. b2 \in Seq(ImportEntry) /\ Len(b2) = Len(b) - m + 1
        /\ \A i \in 1..(Len(b) - m + 1) : b2[i] = b[m + i - 1]
    BY <1>1, <1>2, SubSeqProperties
  <2> HIDE DEF b2
  <2>2. DOMAIN b2 = 1..Len(b2)
    BY <2>1, LenProperties
  <2> QED BY <1>1, <2>1, <2>2
<1> HIDE DEF b2
<1>4. \A i \in DOMAIN b2 : /\ i + m - 1 \in DOMAIN b /\ b2[i] = b[i + m - 1]
                           /\ \A j \in DOMAIN b2 : i < j => i + m - 1 < j + m - 1
  BY <1>1, <1>3
<1>5. Ordered(b2, cp)
  BY <1>4 DEF Sound, Ordered
<1>6. Owners(b2, cp, tg, pd) /\ Past(b2, cp, nt)
  BY <1>4 DEF Sound, Owners, Owned1, Past
<1>7. \A t : NotUsed(b, cp, t) => NotUsed(b2, cp, t)
  BY <1>4 DEF NotUsed
<1> QED BY <1>3, <1>5, <1>6, <1>7 DEF Sound, b2

\* What queue_import_next leaves; m is "Unallocated" where the code does not call it.
Nexted(mem, m, b, cp, tg, pd, nt, r) ==
  /\ r.target = tg /\ r.pending = pd
  /\ r.backlog \in Seq(ImportEntry) /\ r.cap \in [CapSlots -> Frame]
  /\ Sound(mem, r.backlog, r.cap, tg, pd, nt)
  /\ Moves(b, cp, r.backlog, r.cap) /\ (m # "Import" => r.cap = cp)

\* queue_import_next neither fails a picture (the buffer that waits for a live
\* picture is still wanted) nor disturbs what is queued.
LEMMA NextSound ==
  ASSUME NEW mem \in CaptureMemory, NEW m \in {mem, "Unallocated"}, NEW g,
         NEW b \in Seq(ImportEntry), NEW cp \in [CapSlots -> Frame],
         NEW tg, NEW pd, Typed(tg, pd), NEW nt \in Nat \ {0},
         Sound(mem, b, cp, tg, pd, nt),
         NEW n \in Dropped(b, tg, pd), NEW late \in BOOLEAN
  PROVE  Nexted(mem, m, b, cp, tg, pd, nt, ImportNext(m, g, b, cp, tg, pd, n, late))
<1> DEFINE r == ImportNext(m, g, b, cp, tg, pd, n, late)
<1>1. r.backlog \in Seq(ImportEntry) /\ r.cap \in [CapSlots -> Frame]
  <2>1. r \in ImportResult
    BY ImportNextType DEF Typed
  <2> HIDE DEF r
  <2> QED BY <2>1 DEF ImportResult
<1> DEFINE K      == {b[j].token : j \in {i \in 1..n : Disowned(b[i], tg, pd)}}
           head   == b[n + 1]
           stays  == n = Len(b) \/ AwaitsRebuild(head, g, pd)
           throws == ~stays /\ (late \/ TooSmall(head, g))
<1>2. CASE m # "Import" \/ b = <<>> \/ Cardinality(capture_queued(cp)) >= kImportWindow
  <2>1. r = [backlog |-> b, cap |-> cp, target |-> tg, pending |-> pd, throws |-> FALSE]
    BY <1>2 DEF ImportNext
  <2> HIDE DEF r
  <2>2. r.target = tg /\ r.pending = pd /\ r.backlog = b /\ r.cap = cp
    BY <2>1
  <2>3. Moves(b, cp, b, cp)
    BY DEF Moves, Adds
  <2> QED BY <1>1, <2>2, <2>3 DEF Nexted, r
<1>3. CASE ~(m # "Import" \/ b = <<>> \/ Cardinality(capture_queued(cp)) >= kImportWindow)
  <2>1. /\ r.backlog = SubSeq(b, IF stays \/ throws THEN n + 1 ELSE n + 2, Len(b))
        /\ r.cap = IF stays \/ throws THEN cp
                   ELSE queue_capture_import(cp, head.buf, head.token)
        /\ r.target = FailTokens(tg, pd, K) /\ r.pending = Erase(pd, K)
    BY <1>3 DEF ImportNext
  <2>2. Len(b) \in Nat /\ DOMAIN b = 1..Len(b) /\ n \in 0..Len(b)
        /\ \A j \in 1..n : j \in DOMAIN b
    BY Entries DEF Dropped
  <2>3. K = {}
    <3>1. ASSUME NEW i \in 1..n, Disowned(b[i], tg, pd) PROVE FALSE
      <4>1. i \in DOMAIN b
        BY <2>2
      <4>2. b[i].buf # None /\ pd[b[i].token] # None
            /\ (tg[pd[b[i].token]].publish = "Direct" \/ ~tg[pd[b[i].token]].destination)
        BY <3>1 DEF Disowned
      <4> QED BY <4>1, <4>2 DEF Sound, Owners, Owned1
    <3> QED BY <3>1
  <2>4. r.target = tg /\ r.pending = pd
    <3>1. FailTokens(tg, pd, {}) = tg
      BY DEF FailTokens, Typed
    <3>2. Erase(pd, {}) = pd
      BY DEF Erase, Typed
    <3> QED BY <2>1, <2>3, <3>1, <3>2
  <2> HIDE DEF r, K
  <2>5. CASE stays \/ throws
    <3>1. n + 1 \in 1..(Len(b) + 1)
      BY <2>2
    <3> DEFINE b2 == SubSeq(b, n + 1, Len(b))
    <3>2. r.backlog = b2 /\ r.cap = cp
      BY <2>1, <2>5
    <3>3. Sound(mem, b2, cp, tg, pd, nt) /\ \A t : NotUsed(b, cp, t) => NotUsed(b2, cp, t)
      BY <3>1, SuffixSound
    <3> HIDE DEF b2
    <3>4. Sound(mem, r.backlog, r.cap, tg, pd, nt) /\ Moves(b, cp, r.backlog, r.cap)
      BY <3>2, <3>3 DEF Moves, Adds
    <3> QED BY <1>1, <1>3, <2>4, <3>4 DEF Nexted, r
  <2>6. CASE ~(stays \/ throws)
    <3>0. n # Len(b)
      BY <2>6
    <3>a. n + 1 \in 1..Len(b) /\ n + 2 \in 1..(Len(b) + 1) /\ n < Len(b)
      <4> DEFINE l == Len(b)
      <4>1. l \in Nat /\ n \in 0..l /\ n # l
        BY <2>2, <3>0
      <4> HIDE DEF l
      <4>2. n + 1 \in 1..l /\ n + 2 \in 1..(l + 1) /\ n < l
        BY <4>1
      <4> QED BY <4>2 DEF l
    <3>1. n + 2 \in 1..(Len(b) + 1) /\ n + 1 \in DOMAIN b /\ n < Len(b)
      BY <2>2, <3>a
    <3> DEFINE b2 == SubSeq(b, n + 2, Len(b))
    <3>2. r.backlog = b2 /\ r.cap = queue_capture_import(cp, head.buf, head.token)
      BY <2>1, <2>6
    <3>3. /\ b2 \in Seq(ImportEntry) /\ Sound(mem, b2, cp, tg, pd, nt)
          /\ DOMAIN b2 = 1..(Len(b) - (n + 2) + 1)
          /\ \A i \in DOMAIN b2 : b2[i] = b[i + (n + 2) - 1]
          /\ \A t : NotUsed(b, cp, t) => NotUsed(b2, cp, t)
      BY <3>1, SuffixSound
    <3> HIDE DEF b2
    <3>4. head.token \in Tokens /\ head.buf \in Targets
      <4>1. ~Unusable(head, tg, pd)
        BY <2>2, <3>1 DEF Dropped
      <4>2. head.buf # None
        BY <4>1 DEF Unusable
      <4> QED BY <3>1, <4>2, Entries
    <3>5. mem = "Import" /\ \A c \in CapSlots : ~cp[c].queued
      <4>1. IsFiniteSet(CapSlots) /\ capture_queued(cp) \in SUBSET CapSlots
        BY SlotsAssumption DEF capture_queued
      <4>2. IsFiniteSet(capture_queued(cp))
        BY <4>1, FS_Subset
      <4>3. Cardinality(capture_queued(cp)) \in Nat
        BY <4>2, FS_CardinalityType
      <4>4. Cardinality(capture_queued(cp)) = 0
        BY <1>3, <4>3 DEF kImportWindow
      <4>5. capture_queued(cp) = {}
        BY <4>2, <4>4, FS_EmptySet
      <4> QED BY <1>3, <4>5 DEF capture_queued
    <3>6. head.token < nt /\ pd[head.token] \in {None, head.buf}
      BY <3>1, <3>4, SlotsAssumption DEF Sound, Past, Owners, Owned1
    <3>7. \A i \in DOMAIN b2 : b2[i].buf = head.buf => head.token < b2[i].token
      <4> SUFFICES ASSUME NEW i \in DOMAIN b2, b2[i].buf = head.buf
                   PROVE  head.token < b2[i].token
        OBVIOUS
      <4>1. b2[i] = b[i + (n + 2) - 1] /\ i + (n + 2) - 1 \in DOMAIN b
            /\ n + 1 < i + (n + 2) - 1
        BY <2>2, <3>3
      <4> QED BY <3>1, <3>4, <4>1, SlotsAssumption DEF Sound, Ordered
    <3> DEFINE u == head.buf
               k == head.token
               cp2 == queue_capture_import(cp, u, k)
    <3>8. u \in Targets \cup {Scratch} /\ k \in Tokens \cup {NoToken}
      BY <3>4
    <3>9. \E i \in DOMAIN b : b[i].buf = u
      BY <3>1
    <3>x. r.cap = cp2 /\ k < nt /\ u \in Targets /\ pd[k] \in {None, u}
          /\ \A i \in DOMAIN b2 : b2[i].buf = u => k < b2[i].token
      BY <3>2, <3>4, <3>6, <3>7
    <3> HIDE DEF u, k
    <3>10. /\ Sound("Import", b2, cp2, tg, pd, nt) /\ Adds(cp, cp2)
           /\ \A t \in Targets : NotUsed(b2, cp, t) /\ t # u => NotUsed(b2, cp2, t)
      BY <3>3, <3>5, <3>8, <3>x, QueueSound
    <3>11. \A t \in Targets : NotUsed(b, cp, t) => NotUsed(b2, cp2, t)
      <4>1. \A t \in Targets : NotUsed(b, cp, t) => t # u
        BY <3>9 DEF NotUsed
      <4> QED BY <3>3, <3>10, <4>1
    <3> HIDE DEF cp2
    <3>12. Sound(mem, r.backlog, r.cap, tg, pd, nt) /\ Moves(b, cp, r.backlog, r.cap)
      BY <3>2, <3>5, <3>x, <3>10, <3>11 DEF Moves
    <3> QED BY <1>1, <1>3, <2>4, <3>12 DEF Nexted, r
  <2> QED BY <2>5, <2>6
<1> QED BY <1>2, <1>3

-----------------------------------------------------------------------------
(* What the memories show.                                                 *)

\* The picture in the memory behind a slot.
Behind(cp, c, cm, lm) == IF cp[c].buf \in Targets THEN lm[cp[c].buf] ELSE cm[c]

\* A slot that waits for DQBUF is still queued and waits once; a whole picture
\* is in the memory behind its slot.
Returned(cp, done, cm, lm) ==
  /\ \A i \in DOMAIN done : cp[done[i].slot].queued
  /\ \A i, j \in DOMAIN done : done[i].slot = done[j].slot => i = j
  /\ \A i \in DOMAIN done : done[i].payload /\ ~done[i].error =>
       done[i].ts \in Tokens /\ done[i].ts = Behind(cp, done[i].slot, cm, lm)

\* A held frame shows the picture of the surface that holds it.
FramePixels(tg, cm) ==
  \A t \in Targets : tg[t].frame # NoFrame => cm[tg[t].frame] = tg[t].token

\* The stable buffer of a published surface shows its picture, if no frame does.
BufferPixels(tg, lm) ==
  \A t \in Targets : tg[t].completed /\ tg[t].frame = NoFrame => lm[t] = tg[t].token

\* In an Import pool no published surface's buffer waits for another picture.
Unshown(mem, b, cp, tg) ==
  mem = "Import" => \A t \in Targets : tg[t].completed => NotUsed(b, cp, t)

Shown(mem, b, cp, tg, lm) == Unshown(mem, b, cp, tg) /\ BufferPixels(tg, lm)

\* An Import pool that follows another kind of pool, or none, starts from an
\* empty backlog.
CleanStart == memory' = "Import" /\ memory # "Import" => import_backlog = <<>>

\* What holds after each helper of a step, and at its end: the first three in any
\* case, the last if it held before the step and no leftovers come alive.
Fine(mem, b, cp, tg, pd, nt, done, cm, lm) ==
  /\ Sound(mem, b, cp, tg, pd, nt)
  /\ Returned(cp, done, cm, lm) /\ FramePixels(tg, cm)
  /\ Shown(memory, import_backlog, cap, target, cliMem) /\ CleanStart =>
       Shown(mem, b, cp, tg, lm)

\* Where a call may be when it touches the pool.
Stages ==
  /\ pc = "configure" => state = "Configured"
  /\ pc = "rebuild" => state = "Reconfiguring"
  /\ state = "Reconfiguring" => phase = "announced" /\ capDone = <<>>
  /\ call \in {"submit", "slot"} => Wanting(target[arg])

PixelInv ==
  /\ SettledInv /\ Stages
  /\ Sound(memory, import_backlog, cap, target, pending, next_token)
  /\ Returned(cap, capDone, capMem, cliMem) /\ FramePixels(target, capMem)

\* What a step leaves, in terms of what held before it.
FineHere == Fine(memory, import_backlog, cap, target, pending, next_token,
                 capDone, capMem, cliMem)
FineNext == Fine(memory', import_backlog', cap', target', pending', next_token',
                 capDone', capMem', cliMem')

\* A step begins with what holds.
LEMMA Begins ==
  ASSUME PixelInv
  PROVE  FineHere
BY DEF PixelInv, FineHere, Fine

\* Pictures fail.
LEMMA FineLoses ==
  ASSUME NEW mem, NEW b \in Seq(ImportEntry), NEW cp \in [CapSlots -> Frame],
         NEW tg, NEW pd, Typed(tg, pd), NEW nt, NEW done, NEW cm, NEW lm,
         Fine(mem, b, cp, tg, pd, nt, done, cm, lm),
         NEW tg2, NEW pd2, Losses(tg, pd, tg2, pd2)
  PROVE  Fine(mem, b, cp, tg2, pd2, nt, done, cm, lm)
<1>1. \A t \in Targets : /\ tg2[t].frame = tg[t].frame /\ tg2[t].completed = tg[t].completed
                         /\ tg2[t].token = tg[t].token
  BY LossFields
<1>2. Sound(mem, b, cp, tg2, pd2, nt)
  BY LossesSound DEF Fine
<1>3. FramePixels(tg2, cm)
  BY <1>1 DEF Fine, FramePixels
<1>4. Shown(mem, b, cp, tg, lm) => Shown(mem, b, cp, tg2, lm)
  BY <1>1 DEF Shown, Unshown, BufferPixels
<1> QED BY <1>2, <1>3, <1>4 DEF Fine

\* The backlog goes (clear_import_backlog).
LEMMA FineClears ==
  ASSUME NEW mem, NEW b, NEW cp, NEW tg, NEW pd, NEW nt, NEW done, NEW cm, NEW lm,
         Fine(mem, b, cp, tg, pd, nt, done, cm, lm)
  PROVE  Fine(mem, <<>>, cp, tg, pd, nt, done, cm, lm)
<1>1. Sound(mem, <<>>, cp, tg, pd, nt)
  BY DEF Fine, Sound, Ordered, Owners, Owned1, Past
<1>2. Shown(mem, b, cp, tg, lm) => Shown(mem, <<>>, cp, tg, lm)
  BY DEF Shown, Unshown, NotUsed
<1> QED BY <1>1, <1>2 DEF Fine

\* The slots that wait for DQBUF are slots.
LEMMA DoneSlots ==
  ASSUME NEW done \in Seq(CapReturn)
  PROVE  \A i \in DOMAIN done : done[i].slot \in CapSlots
<1>1. \A i \in 1..Len(done) : done[i] \in CapReturn
  BY ElementOfSeq
<1>2. DOMAIN done = 1..Len(done)
  BY LenProperties
<1> QED BY <1>1, <1>2 DEF CapReturn

\* The pool and the backlog move, but what is queued stays.
LEMMA FineMoves ==
  ASSUME NEW mem, NEW b, NEW cp, NEW tg, NEW pd, NEW nt, NEW done, NEW cm, NEW lm,
         Fine(mem, b, cp, tg, pd, nt, done, cm, lm),
         done \in Seq(CapReturn), NEW b2, NEW cp2, Sound(mem, b2, cp2, tg, pd, nt), Adds(cp, cp2),
         \A t \in Targets : tg[t].completed /\ NotUsed(b, cp, t) => NotUsed(b2, cp2, t)
  PROVE  Fine(mem, b2, cp2, tg, pd, nt, done, cm, lm)
<1>1. \A i \in DOMAIN done : done[i].slot \in CapSlots
  BY DoneSlots
<1>2. \A i \in DOMAIN done : cp[done[i].slot].queued /\ cp2[done[i].slot] = cp[done[i].slot]
  BY <1>1 DEF Fine, Returned, Adds
<1>3. Returned(cp2, done, cm, lm)
  BY <1>2 DEF Fine, Returned, Behind
<1>4. Shown(mem, b, cp, tg, lm) => Shown(mem, b2, cp2, tg, lm)
  BY DEF Shown, Unshown
<1> QED BY <1>3, <1>4 DEF Fine

\* Every buffer comes back at STREAMOFF (mark_all_capture_returned).
LEMMA FineEmpties ==
  ASSUME NEW mem, NEW b \in Seq(ImportEntry), NEW cp \in [CapSlots -> Frame],
         NEW tg, NEW pd, NEW nt \in Nat \ {0}, NEW done, NEW cm, NEW lm,
         Fine(mem, b, cp, tg, pd, nt, done, cm, lm)
  PROVE  Fine(mem, b, fresh_capture, tg, pd, nt, <<>>, cm, lm)
<1>1. \A c \in CapSlots : fresh_capture[c] = IdleFrame
  BY DEF fresh_capture
<1>2. /\ Sound(mem, b, fresh_capture, tg, pd, nt)
      /\ \A t \in Targets : NotUsed(b, cp, t) => NotUsed(b, fresh_capture, t)
  BY <1>1, EmptiedSound DEF Fine
<1>3. Returned(fresh_capture, <<>>, cm, lm)
  BY DEF Returned
<1>4. Shown(mem, b, cp, tg, lm) => Shown(mem, b, fresh_capture, tg, lm)
  BY <1>2 DEF Shown, Unshown
<1> QED BY <1>2, <1>3, <1>4 DEF Fine

\* An error of pump() fails the session; any other one passes.
LEMMA FineUnwinds ==
  ASSUME NEW mem, NEW b \in Seq(ImportEntry), NEW cp \in [CapSlots -> Frame],
         NEW tg, NEW pd, Typed(tg, pd), Agree(tg, pd), NEW nt, NEW done, NEW cm, NEW lm,
         Fine(mem, b, cp, tg, pd, nt, done, cm, lm),
         NEW st, Unwind(st, tg, pd, b) \/ Fail(tg, pd)
  PROVE  Fine(mem, import_backlog', cp, target', pending', nt, done, cm, lm)
<1>1. CASE Fail(tg, pd)
  <2>1. Losses(tg, pd, FailTokens(tg, pd, Tokens), Erase(pd, Tokens))
    BY FailLoses
  <2>2. Fine(mem, b, cp, target', pending', nt, done, cm, lm)
    BY <1>1, <2>1, FineLoses DEF Fail
  <2>3. import_backlog' = <<>>
    BY <1>1 DEF Fail
  <2> QED BY <2>2, <2>3, FineClears
<1>2. CASE target' = tg /\ pending' = pd /\ import_backlog' = b
  BY <1>2
<1> QED BY <1>1, <1>2 DEF Unwind

\* A target that is not pending any more takes the place of the one that was: it
\* is released, published or in error.
LEMMA FineReplaces ==
  ASSUME NEW mem, NEW b \in Seq(ImportEntry), NEW cp \in [CapSlots -> Frame],
         NEW tg, NEW pd, Typed(tg, pd), Agree(tg, pd), NEW nt, NEW done, NEW cm, NEW lm,
         Fine(mem, b, cp, tg, pd, nt, done, cm, lm),
         NEW t \in Targets, NEW x \in Target, ~x.pending, NEW pd2,
         \A k \in Tokens : pd2[k] # t /\ pd2[k] \in {pd[k], None},
         x.completed => ~x.error, x.frame # NoFrame => x.completed,
         x.frame # NoFrame =>
           cm[x.frame] = x.token /\ mem = "Mmap" /\ ~cp[x.frame].queued,
         Shown(memory, import_backlog, cap, target, cliMem) /\ CleanStart /\ x.completed =>
           /\ mem = "Import" => NotUsed(b, cp, t)
           /\ x.frame = NoFrame => lm[t] = x.token
  PROVE  Fine(mem, b, cp, [tg EXCEPT ![t] = x], pd2, nt, done, cm, lm)
<1> DEFINE tg2 == [tg EXCEPT ![t] = x]
<1>1. tg2[t] = x /\ \A u \in Targets : u # t => tg2[u] = tg[u]
  BY DEF Typed
<1> HIDE DEF tg2
<1>2. PoolOK(mem, cp, tg2)
  <2>1. \A u \in Targets :
          tg2[u].frame # NoFrame => mem = "Mmap" /\ ~cp[tg2[u].frame].queued
    <3>1. CASE mem = "Mmap"
      <4>1. \A u \in Targets : tg[u].frame # NoFrame => ~cp[tg[u].frame].queued
        BY DEF Fine, Sound, PoolOK, Typed, Target
      <4> QED BY <1>1, <3>1, <4>1
    <3>2. CASE mem # "Mmap"
      BY <1>1, <3>2 DEF Fine, Sound, PoolOK
    <3> QED BY <3>1, <3>2
  <2>2. \A c \in CapSlots : c # NoFrame
    BY SlotsAssumption DEF NoFrame
  <2> QED BY <2>1, <2>2 DEF Fine, Sound, PoolOK
<1>3. Fated(tg2)
  BY <1>1 DEF Fine, Sound, Fated
<1>4. Owners(b, cp, tg2, pd2)
  <2>1. \A i \in DOMAIN b : b[i].token \in Tokens /\ b[i].buf \in Targets \cup {None}
    BY Entries
  <2>2. \A k \in Tokens : pd2[k] # None => pd2[k] = pd[k] /\ pd2[k] # t
    OBVIOUS
  <2>3. Owned1(b, tg2, pd2)
    <3> SUFFICES ASSUME NEW i \in DOMAIN b, pd2[b[i].token] # None, b[i].buf # None
                 PROVE  /\ b[i].buf = pd2[b[i].token]
                        /\ tg2[b[i].buf].destination /\ tg2[b[i].buf].publish # "Direct"
      BY DEF Owned1
    <3>1. b[i].token \in Tokens /\ b[i].buf \in Targets
      BY <2>1
    <3>2. pd2[b[i].token] = pd[b[i].token] /\ pd[b[i].token] # t
      BY <2>2, <3>1
    <3>3. /\ b[i].buf = pd[b[i].token]
          /\ tg[b[i].buf].destination /\ tg[b[i].buf].publish # "Direct"
      BY <3>2 DEF Fine, Sound, Owners, Owned1
    <3>4. tg2[b[i].buf] = tg[b[i].buf]
      BY <1>1, <3>1, <3>2, <3>3
    <3> QED BY <3>2, <3>3, <3>4
  <2> QED BY <2>1, <2>2, <2>3 DEF Fine, Sound, Owners
<1>5. FramePixels(tg2, cm)
  BY <1>1 DEF Fine, FramePixels
<1>6. ASSUME Shown(memory, import_backlog, cap, target, cliMem), CleanStart
      PROVE  Shown(mem, b, cp, tg2, lm)
  BY <1>1, <1>6 DEF Fine, Shown, Unshown, BufferPixels
<1> QED BY <1>2, <1>3, <1>4, <1>5, <1>6 DEF Fine, Sound, tg2

-----------------------------------------------------------------------------
(* Steps that leave the pool to what is queued.                            *)

\* The types a step starts from.
LEMMA PixelTypes ==
  ASSUME PixelInv
  PROVE  /\ Typed(target, pending) /\ Agree(target, pending)
         /\ cap \in [CapSlots -> Frame] /\ import_backlog \in Seq(ImportEntry)
         /\ capDone \in Seq(CapReturn) /\ next_token \in Nat \ {0}
         /\ memory \in CaptureMemory
         /\ capMem \in [CapSlots -> Tokens \cup {NoToken}]
         /\ cliMem \in [Targets -> Tokens \cup {NoToken}]
<1>1. next_token \in Nat \ {0}
  <2>1. next_token \in 1..(MaxToken + 1)
    BY DEF PixelInv, SettledInv, TypeInv, TypeOK
  <2> QED BY <2>1, SlotsAssumption
<1> QED BY <1>1, TypedHere DEF PixelInv, SettledInv, TypeInv, TypeOK, DecoderTypeOK

\* Nothing a picture depends on changes.
LEMMA Still ==
  ASSUME PixelInv, UNCHANGED <<memory, import_backlog, cap, target, pending, next_token,
                               capDone, capMem, cliMem>>
  PROVE  FineNext
<1>1. FineHere
  BY Begins
<1> QED BY <1>1 DEF FineHere, FineNext

\* What requeue_capture queues was in nobody's hands.
LEMMA Requeued ==
  ASSUME NEW mem, NEW b, NEW cp \in [CapSlots -> Frame], NEW tg, NEW pd, NEW nt,
         NEW done \in Seq(CapReturn), NEW cm, NEW lm,
         Fine(mem, b, cp, tg, pd, nt, done, cm, lm)
  PROVE  Fine(mem, b, requeue_capture(mem, cp, tg), tg, pd, nt, done, cm, lm)
<1> DEFINE cp2 == requeue_capture(mem, cp, tg)
<1>1. Sound(mem, b, cp2, tg, pd, nt) /\ Moves(b, cp, b, cp2)
  BY RequeueSound DEF Fine
<1> HIDE DEF cp2
<1>2. Fine(mem, b, cp2, tg, pd, nt, done, cm, lm)
  BY <1>1, FineMoves DEF Moves
<1> QED BY <1>2 DEF cp2

\* The pool is requeued, or left as it is.
LEMMA StillRequeued ==
  ASSUME PixelInv, cap' \in {cap, requeue_capture(memory, cap, target)},
         UNCHANGED <<memory, import_backlog, target, pending, next_token, capDone,
                     capMem, cliMem>>
  PROVE  FineNext
<1>1. Fine(memory, import_backlog, requeue_capture(memory, cap, target), target, pending,
           next_token, capDone, capMem, cliMem)
  BY Begins, PixelTypes, Requeued DEF FineHere
<1>2. CASE cap' = cap
  BY <1>2, Still
<1> QED BY <1>1, <1>2 DEF FineNext

\* Pictures fail, and nothing else happens.
LEMMA StillLoses ==
  ASSUME PixelInv, Losses(target, pending, target', pending'),
         UNCHANGED <<memory, import_backlog, cap, next_token, capDone, capMem, cliMem>>
  PROVE  FineNext
<1>1. Fine(memory, import_backlog, cap, target', pending', next_token, capDone, capMem, cliMem)
  BY Begins, PixelTypes, FineLoses DEF FineHere
<1> QED BY <1>1 DEF FineNext

\* An error of the driver's own making.
LEMMA StillUnwinds ==
  ASSUME PixelInv, NEW st, Unwind(st, target, pending, import_backlog) \/ Fail(target, pending),
         UNCHANGED <<memory, cap, next_token, capDone, capMem, cliMem>>
  PROVE  FineNext
<1>1. Fine(memory, import_backlog', cap, target', pending', next_token, capDone, capMem, cliMem)
  BY Begins, PixelTypes, FineUnwinds DEF FineHere
<1> QED BY <1>1 DEF FineNext

\* The call is at no place that asks anything of the pool.
LEMMA StagesKept ==
  ASSUME PixelInv, pc' \notin {"configure", "rebuild"},
         state' = "Reconfiguring" => state = "Reconfiguring",
         UNCHANGED <<phase, capDone>>,
         call' \in {"submit", "slot"} =>
           /\ call \in {"submit", "slot"} /\ arg' = arg
           /\ target'[arg].publish = target[arg].publish
           /\ target'[arg].destination = target[arg].destination
  PROVE  Stages'
BY DEF PixelInv, Stages, Wanting

\* The call is over.
LEMMA StagesEnd ==
  ASSUME PixelInv, NEW result, Return(result),
         state' = "Reconfiguring" => state = "Reconfiguring", UNCHANGED <<phase, capDone>>
  PROVE  Stages'
BY DEF PixelInv, Stages, Return

\* An error ends the call, and leaves no pool half-way through its rebuilding.
LEMMA StagesThrow ==
  ASSUME PixelInv, NEW st, NEW tg, NEW pd, NEW b, Unwind(st, tg, pd, b) \/ Fail(tg, pd),
         Return("error"), st = "Reconfiguring" => state = "Reconfiguring",
         UNCHANGED <<phase, capDone>>
  PROVE  Stages'
<1>1. state' = "Reconfiguring" => state = "Reconfiguring"
  BY DEF Unwind, Fail
<1> QED BY <1>1, StagesEnd

\* Events, the ends of the dequeuing loops, LAST, START.
LEMMA TurnsFine ==
  ASSUME PixelInv, HandleEvents \/ LoopEnds \/ LastSeen \/ Start
  PROVE  FineNext /\ Stages'
<1>1. UNCHANGED <<memory, import_backlog, cap, target, pending, next_token,
                  capDone, capMem, cliMem, call, arg>>
  BY DEF HandleEvents, LoopEnds, LastSeen, Start, Goto, decoderVars
<1>2. FineNext
  BY <1>1, Still
<1>3. /\ pc' = "configure" => state' = "Configured"
      /\ pc' # "rebuild" /\ (state' = "Reconfiguring" => state' = state /\ phase' = phase)
  BY DEF HandleEvents, LoopEnds, LastSeen, Start, Goto, decoderVars
<1>4. Stages'
  BY <1>1, <1>3 DEF PixelInv, Stages
<1> QED BY <1>2, <1>4

\* The calls that begin or go round again: free slots are requeued.
LEMMA PumpsFine ==
  ASSUME PixelInv, NEW c \in Calls, NEW t,
         (Enter(c, t) /\ c \notin {"submit", "slot"}) \/ SubmitLoops
  PROVE  FineNext /\ Stages'
<1>1. /\ UNCHANGED <<memory, import_backlog, target, pending, next_token, capDone, capMem,
                     cliMem, state, phase>>
      /\ PumpStart(target)
  BY DEF Enter, SubmitLoops, PumpAgain, callRest, decoderVars
<1>2. FineNext
  BY <1>1, StillRequeued DEF PumpStart
<1>3. call' \in {"submit", "slot"} => call \in {"submit", "slot"} /\ arg' = arg
  BY DEF Enter, SubmitLoops, PumpAgain
<1>4. Stages'
  BY <1>1, <1>3, StagesKept DEF PumpStart
<1> QED BY <1>2, <1>4

\* The ends of the calls that only look.
LEMMA ReturnsFine ==
  ASSUME PixelInv, CallDone \/ SubmitGivesUp \/ WaitReturns \/ WaitPolls
  PROVE  FineNext /\ Stages'
<1>1. UNCHANGED <<memory, import_backlog, cap, target, pending, next_token, capDone, capMem,
                  cliMem, state, phase>>
  BY DEF CallDone, SubmitGivesUp, WaitReturns, WaitPolls, callRest, decoderVars
<1>2. pc' = "idle" /\ call' = "none"
  BY DEF CallDone, SubmitGivesUp, WaitReturns, WaitPolls, Return
<1>3. Stages'
  BY <1>1, <1>2, StagesKept
<1> QED BY <1>1, <1>3, Still

\* An OUTPUT buffer comes back.
LEMMA ReturnOutputFine ==
  ASSUME PixelInv, ReturnOutput PROVE FineNext /\ Stages'
<1> DEFINE d == Head(outDone)
           K == IF d.error THEN {out[d.slot].token} ELSE {}
<1>1. target' = FailTokens(target, pending, K) /\ pending' = Erase(pending, K)
  BY DEF ReturnOutput
<1> HIDE DEF K, d
<1>2. Losses(target, pending, target', pending')
  BY <1>1, PixelTypes, FailLoses
<1>3. /\ UNCHANGED <<memory, import_backlog, cap, next_token, capDone, capMem, cliMem, state,
                     phase, call, arg, pc>>
      /\ pc \notin {"configure", "rebuild"}
  BY DEF ReturnOutput
<1>4. call \in {"submit", "slot"} => /\ target'[arg].publish = target[arg].publish
                                     /\ target'[arg].destination = target[arg].destination
  BY <1>2, PixelTypes, LossFields DEF PixelInv, SettledInv, TypeInv, CallShape
<1> QED BY <1>2, <1>3, <1>4, StillLoses, StagesKept

\* LAST or the OUTPUT buffers do not come, or DQBUF reports an error.
LEMMA ExpiresFine ==
  ASSUME PixelInv, DrainExpires \/ StartBusy \/ DequeueError
  PROVE  FineNext /\ Stages'
<1>1. CASE DrainExpires \/ DequeueError \/ (StartBusy /\ Fail(target, pending) /\ Return("error"))
  <2>1. /\ UNCHANGED <<memory, cap, next_token, capDone, capMem, cliMem, phase>>
        /\ Unwind(state, target, pending, import_backlog) \/ Fail(target, pending)
        /\ Return("error")
    BY <1>1 DEF DrainExpires, StartBusy, DequeueError, Throw, decoderVars
  <2> QED BY <2>1, StillUnwinds, StagesThrow
<1>2. CASE StartBusy /\ Goto("soutputs") /\ UNCHANGED <<state, target, pending, import_backlog>>
  <2>1. UNCHANGED <<memory, import_backlog, cap, target, pending, next_token, capDone, capMem,
                    cliMem, state, phase, call, arg>> /\ pc' = "soutputs"
    BY <1>2 DEF StartBusy, Goto, decoderVars
  <2> QED BY <2>1, Still, StagesKept
<1> QED BY <1>1, <1>2 DEF StartBusy

\* The deadline of a sync.
LEMMA WaitExpiresFine ==
  ASSUME PixelInv, WaitExpires PROVE FineNext /\ Stages'
<1>0. /\ UNCHANGED <<memory, cap, next_token, capDone, capMem, cliMem>>
      /\ call = "wait" /\ arg \in Targets /\ target[arg].pending
  BY DEF WaitExpires, drainRest, PixelInv, SettledInv, TypeInv, CallShape
<1>1. CASE BeginDrain("timeout") /\ UNCHANGED <<call, arg>>
  <2>1. UNCHANGED <<import_backlog, target, pending>> /\ pc' = "drain" /\ state' = "Draining"
    BY <1>1 DEF BeginDrain
  <2>2. FineNext
    BY <1>0, <2>1, Still
  <2>3. Stages'
    BY <1>0, <1>1, <2>1 DEF Stages
  <2> QED BY <2>2, <2>3
<1>2. CASE StopBusy("timeout") /\ Return("error")
  <2>1. UNCHANGED <<import_backlog, target, pending, phase>> /\ state' = "Draining"
    BY <1>2 DEF StopBusy
  <2> QED BY <1>0, <1>2, <2>1, Still, StagesEnd
<1>3. CASE /\ Return("error") /\ UNCHANGED <<state, phase, import_backlog>>
           /\ target' = [target EXCEPT ![arg] = Failed(target[arg])]
           /\ pending' = Erase(pending, {target[arg].token})
  <2>1. Losses(target, pending, target', pending')
    BY <1>0, <1>3, PixelTypes DEF Losses, Typed, Erase
  <2> QED BY <1>0, <1>3, <2>1, StillLoses, StagesEnd
<1> QED BY <1>1, <1>2, <1>3 DEF WaitExpires

\* finish() and the syncs that are answered at once.
LEMMA FinishFine ==
  ASSUME PixelInv, Finish \/ \E t \in Targets : WaitSettled(t)
  PROVE  FineNext /\ Stages'
<1>1. UNCHANGED <<memory, import_backlog, cap, target, pending, next_token, capDone, capMem,
                  cliMem, arg>> /\ call = "none" /\ pc = "idle"
  BY DEF Finish, BeginDrain, StopBusy, drainRest, WaitSettled, decoderVars, PixelInv,
         SettledInv, Places
<1>2. /\ call' \in {"none", "finish"} /\ pc' \in {"idle", "drain"}
      /\ state' = "Reconfiguring" => state' = state /\ phase' = phase
  BY <1>1 DEF Finish, BeginDrain, StopBusy, WaitSettled, decoderVars
<1>3. Stages'
  BY <1>1, <1>2 DEF PixelInv, Stages
<1> QED BY <1>1, <1>3, Still

\* fail_unrecoverable_tokens, and what the drain was for.
LEMMA DrainedFine ==
  ASSUME PixelInv, Drained PROVE FineNext /\ Stages'
<1>1. Losses(target, pending, target', pending')
  BY PixelTypes, FailLoses DEF Drained
<1>2. Fine(memory, import_backlog, cap, target', pending', next_token, capDone, capMem, cliMem)
  BY <1>1, Begins, PixelTypes, FineLoses DEF FineHere
<1>3. UNCHANGED <<memory, import_backlog, next_token, capMem, cliMem>> /\ pc = "drained"
  BY DEF Drained
<1>4. CASE /\ state' \in {"RestartPending", "Finished"} /\ UNCHANGED <<phase, capDone>>
           /\ cap' \in {cap, requeue_capture(memory, cap, target)}
           /\ Goto("start") \/ (drain_for = "finish" /\ Return("ok"))
  <2>1. \A c \in CapSlots : held(target', c) <=> held(target, c)
    BY <1>1, PixelTypes, LossFields DEF held
  <2>2. requeue_capture(memory, cap, target') = requeue_capture(memory, cap, target)
    BY <2>1 DEF requeue_capture
  <2>3. Fine(memory, import_backlog, requeue_capture(memory, cap, target'), target', pending',
             next_token, capDone, capMem, cliMem)
    BY <1>2, PixelTypes, Requeued
  <2>4. FineNext
    BY <1>2, <1>3, <1>4, <2>2, <2>3 DEF FineNext
  <2>5. call' \in {"submit", "slot"} => call \in {"submit", "slot"} /\ arg' = arg
    BY <1>4 DEF Goto, Return
  <2>6. call \in {"submit", "slot"} => /\ target'[arg].publish = target[arg].publish
                                       /\ target'[arg].destination = target[arg].destination
    BY <1>1, PixelTypes, LossFields DEF PixelInv, SettledInv, TypeInv, CallShape
  <2>7. pc' \notin {"configure", "rebuild"}
    BY <1>4 DEF Goto, Return
  <2> QED BY <1>4, <2>4, <2>5, <2>6, <2>7, StagesKept
<1>5. CASE /\ state' = "Reconfiguring" /\ Goto("rebuild") /\ cap' = mark_all_capture_returned
           /\ phase' = "announced" /\ capDone' = <<>>
  <2>1. Typed(target', pending')
    BY PixelTypes, FailTypes DEF Drained, Typed
  <2>2. Fine(memory, import_backlog, fresh_capture, target', pending', next_token, <<>>,
             capMem, cliMem)
    BY <1>2, <2>1, PixelTypes, FineEmpties
  <2>3. FineNext
    BY <1>3, <1>5, <2>2 DEF FineNext, mark_all_capture_returned
  <2>4. call \in {"submit", "slot"} => /\ target'[arg].publish = target[arg].publish
                                       /\ target'[arg].destination = target[arg].destination
    BY <1>1, PixelTypes, LossFields DEF PixelInv, SettledInv, TypeInv, CallShape
  <2>5. Stages'
    BY <1>5, <2>4 DEF PixelInv, Stages, Wanting, Goto
  <2> QED BY <2>3, <2>5
<1> QED BY <1>4, <1>5 DEF Drained

-----------------------------------------------------------------------------
(* Steps that queue a client buffer.                                       *)

\* queue_import_next between two other helpers.
LEMMA FineNexts ==
  ASSUME NEW mem \in CaptureMemory, NEW m \in {mem, "Unallocated"}, NEW g,
         NEW b \in Seq(ImportEntry), NEW cp \in [CapSlots -> Frame],
         NEW tg, NEW pd, Typed(tg, pd), NEW nt \in Nat \ {0},
         NEW done \in Seq(CapReturn), NEW cm, NEW lm,
         Fine(mem, b, cp, tg, pd, nt, done, cm, lm),
         NEW n \in Dropped(b, tg, pd), NEW late \in BOOLEAN,
         NEW r, r = ImportNext(m, g, b, cp, tg, pd, n, late)
  PROVE  /\ Nexted(mem, m, b, cp, tg, pd, nt, r)
         /\ Fine(mem, r.backlog, r.cap, tg, pd, nt, done, cm, lm)
<1>1. Sound(mem, b, cp, tg, pd, nt)
  BY DEF Fine
<1>2. Nexted(mem, m, b, cp, tg, pd, nt, r)
  BY <1>1, NextSound
<1>3. Fine(mem, r.backlog, r.cap, tg, pd, nt, done, cm, lm)
  BY <1>2, FineMoves DEF Nexted, Moves
<1> QED BY <1>2, <1>3

\* The scratch buffer is queued when the decoder has nothing else.
LEMMA FineScratch ==
  ASSUME NEW b \in Seq(ImportEntry), NEW cp \in [CapSlots -> Frame], NEW tg, NEW pd,
         NEW nt \in Nat \ {0}, NEW done \in Seq(CapReturn), NEW cm, NEW lm,
         Fine("Import", b, cp, tg, pd, nt, done, cm, lm), capture_queued(cp) = {}
  PROVE  Fine("Import", b, queue_capture_scratch(cp), tg, pd, nt, done, cm, lm)
<1> DEFINE u == Scratch
           k == NoToken
           cp2 == queue_capture_import(cp, u, k)
<1>1. \A i \in DOMAIN b : b[i].buf # u
  BY Entries, SlotsAssumption
<1>2. k \notin Tokens /\ k < nt
  BY IdleFields DEF NoToken
<1>3. Sound("Import", b, cp, tg, pd, nt) /\ \A c \in CapSlots : ~cp[c].queued
  BY DEF Fine, capture_queued
<1>a. u \in Targets \cup {Scratch} /\ k \in Tokens \cup {NoToken} /\ \A t \in Targets : t # u
  BY SlotsAssumption
<1> HIDE DEF u, k
<1>4. /\ Sound("Import", b, cp2, tg, pd, nt) /\ Adds(cp, cp2)
      /\ \A t \in Targets : NotUsed(b, cp, t) /\ t # u => NotUsed(b, cp2, t)
  BY <1>1, <1>2, <1>3, <1>a, QueueSound
<1> HIDE DEF cp2
<1>5. Fine("Import", b, cp2, tg, pd, nt, done, cm, lm)
  BY <1>4, <1>a, FineMoves
<1> QED BY <1>5 DEF queue_capture_scratch, cp2, u, k

\* One turn of the wait for LAST.
LEMMA DrainTurnFine ==
  ASSUME PixelInv, DrainTurn
  PROVE  /\ FineNext /\ Stages'
         /\ target' = target \/ \E b : Throw(state, target, pending, b)
<1> DEFINE rq == requeue_capture(memory, cap, target)
           R(n, late) == ImportNext(memory, capGeom, import_backlog, rq, target,
                                    pending, n, late)
<1>1. Fine(memory, import_backlog, rq, target, pending, next_token, capDone, capMem, cliMem)
      /\ rq \in [CapSlots -> Frame]
  <2>1. rq \in [CapSlots -> Frame]
    <3>1. NoToken \in Tokens \cup {NoToken} /\ None \in Targets \cup {None, Scratch}
      OBVIOUS
    <3> QED BY <3>1, PixelTypes, PoolTypes
  <2> QED BY <2>1, Begins, PixelTypes, Requeued DEF FineHere
<1>2. PICK n \in Dropped(import_backlog, target, pending), late \in BOOLEAN :
        \/ /\ cap' = R(n, late).cap
           /\ Throw(state, R(n, late).target, R(n, late).pending, R(n, late).backlog)
        \/ /\ cap' = IF memory = "Import" /\ capture_queued(R(n, late).cap) = {}
                     THEN queue_capture_scratch(R(n, late).cap) ELSE R(n, late).cap
           /\ target' = R(n, late).target /\ pending' = R(n, late).pending
           /\ import_backlog' = R(n, late).backlog
           /\ Goto("devents") /\ UNCHANGED state
  BY Zenon DEF DrainTurn
<1>3. UNCHANGED <<memory, next_token, capDone, capMem, cliMem, phase>>
  BY DEF DrainTurn
<1> HIDE DEF rq
<1> DEFINE r == R(n, late)
<1>4. /\ r.target = target /\ r.pending = pending
      /\ r.backlog \in Seq(ImportEntry) /\ r.cap \in [CapSlots -> Frame]
      /\ Fine(memory, r.backlog, r.cap, target, pending, next_token, capDone, capMem, cliMem)
  <2>1. r = ImportNext(memory, capGeom, import_backlog, rq, target, pending, n, late)
    OBVIOUS
  <2> HIDE DEF r
  <2>2. /\ Nexted(memory, memory, import_backlog, rq, target, pending, next_token, r)
        /\ Fine(memory, r.backlog, r.cap, target, pending, next_token, capDone, capMem, cliMem)
    BY <1>1, <2>1, PixelTypes, FineNexts
  <2> QED BY <2>2 DEF Nexted
<1> HIDE DEF R
<1>5. CASE cap' = r.cap /\ Throw(state, r.target, r.pending, r.backlog)
  <2> HIDE DEF r
  <2>1. Fine(memory, import_backlog', r.cap, target', pending', next_token, capDone, capMem,
             cliMem)
    BY <1>4, <1>5, PixelTypes, FineUnwinds DEF Throw
  <2>2. Stages'
    BY <1>3, <1>5, StagesThrow DEF Throw
  <2>3. \E b : Throw(state, target, pending, b)
    BY <1>4, <1>5
  <2> QED BY <1>3, <1>5, <2>1, <2>2, <2>3 DEF FineNext
<1>6. CASE /\ cap' = IF memory = "Import" /\ capture_queued(r.cap) = {}
                     THEN queue_capture_scratch(r.cap) ELSE r.cap
           /\ target' = r.target /\ pending' = r.pending
           /\ import_backlog' = r.backlog
           /\ Goto("devents") /\ UNCHANGED state
  <2> HIDE DEF r
  <2>1. Fine(memory, r.backlog, cap', target, pending, next_token, capDone, capMem, cliMem)
    BY <1>4, <1>6, PixelTypes, FineScratch
  <2>2. FineNext
    BY <1>3, <1>4, <1>6, <2>1 DEF FineNext
  <2>3. Stages'
    BY <1>3, <1>4, <1>6, StagesKept DEF Goto
  <2> QED BY <1>4, <1>6, <2>2, <2>3
<1> QED BY <1>2, <1>5, <1>6

\* What the accepted picture makes of its target, of the map and of the backlog.
NewTarget == [target EXCEPT ![arg] =
                [target[arg] EXCEPT !.token = next_token, !.pending = TRUE,
                   !.completed = FALSE, !.error = FALSE, !.frame = NoFrame]]
NewPending == [pending EXCEPT ![next_token] = arg]
NewBuffer  == IF target[arg].destination THEN arg ELSE None
NewBacklog == IF memory = "Import" THEN push(import_backlog, next_token, NewBuffer)
              ELSE import_backlog

\* The picture is accepted, and its buffer waits behind all that wait already.
LEMMA AcceptSound ==
  ASSUME PixelInv, Accept
  PROVE  /\ call \in {"submit", "slot"} /\ arg \in Targets /\ next_token \in Tokens
         /\ ~target[arg].pending /\ next_token + 1 \in Nat \ {0}
         /\ NewBuffer \in {None, arg}
         /\ LET x == NewTarget[arg] IN
              /\ x.pending = TRUE /\ x.completed = FALSE /\ x.error = FALSE
              /\ x.frame = NoFrame /\ x.token = next_token /\ Wanting(x)
              /\ x.destination = target[arg].destination
         /\ \A u \in Targets : u # arg => NewTarget[u] = target[u]
         /\ NewPending[next_token] = arg
         /\ \A j \in Tokens : j # next_token => NewPending[j] = pending[j]
         /\ Typed(NewTarget, NewPending)
         /\ NewBacklog \in Seq(ImportEntry)
         /\ \A i \in DOMAIN NewBacklog :
              \/ i \in DOMAIN import_backlog /\ NewBacklog[i] = import_backlog[i]
              \/ /\ NewBacklog[i].token = next_token /\ NewBacklog[i].buf = NewBuffer
                 /\ memory = "Import"
                 /\ \A j \in DOMAIN import_backlog : j < i
                 /\ \A j \in DOMAIN NewBacklog : j < i => j \in DOMAIN import_backlog
                                                /\ NewBacklog[j] = import_backlog[j]
         /\ memory = "Import" =>
              /\ DOMAIN import_backlog \subseteq DOMAIN NewBacklog
              /\ \E i \in DOMAIN NewBacklog :
                   NewBacklog[i].token = next_token /\ NewBacklog[i].buf = NewBuffer
         /\ Sound(memory, NewBacklog, cap, NewTarget, NewPending, next_token + 1)
<1> DEFINE k  == next_token
           x  == [target[arg] EXCEPT !.token = k, !.pending = TRUE,
                    !.completed = FALSE, !.error = FALSE, !.frame = NoFrame]
           tg == [target EXCEPT ![arg] = x]
           pd == [pending EXCEPT ![k] = arg]
           e  == IF target[arg].destination THEN arg ELSE None
           b  == IF memory = "Import" THEN push(import_backlog, k, e) ELSE import_backlog
<1>1. /\ call \in {"submit", "slot"} /\ arg \in Targets /\ k = next_token /\ k \in Tokens
      /\ ~target[arg].pending
  BY DEF Accept, PixelInv, SettledInv, TypeInv, CallShape, Places, PassPcs
<1>3. /\ Typed(target, pending) /\ Agree(target, pending) /\ pending[k] = None
      /\ cap \in [CapSlots -> Frame] /\ import_backlog \in Seq(ImportEntry)
      /\ memory \in CaptureMemory /\ capDone \in Seq(CapReturn)
      /\ next_token + 1 \in Nat \ {0} /\ next_token \in Nat
  BY <1>1, PixelTypes DEF PixelInv, SettledInv, Unused, Tokens
<1>a. target[arg] \in Target /\ Wanting(target[arg])
  BY <1>1, <1>3 DEF Typed, PixelInv, Stages
<1>4. /\ x \in Target /\ x.pending = TRUE /\ x.completed = FALSE /\ x.error = FALSE
      /\ x.frame = NoFrame /\ Wanting(x) /\ x.destination = target[arg].destination
      /\ x.token = k
  BY <1>1, <1>a DEF Target, Wanting, NoFrame
<1>b. e \in Targets \cup {None} /\ (e # None => e = arg /\ target[arg].destination)
  BY <1>1
<1> HIDE DEF k, x, e
<1>5. /\ tg[arg] = x /\ \A u \in Targets : u # arg => tg[u] = target[u]
      /\ pd[k] = arg /\ \A j \in Tokens : j # k => pd[j] = pending[j]
      /\ Typed(tg, pd)
  BY <1>1, <1>3, <1>4 DEF Typed
<1>6. /\ b \in Seq(ImportEntry)
      /\ \A i \in DOMAIN b :
           \/ i \in DOMAIN import_backlog /\ b[i] = import_backlog[i]
           \/ /\ b[i].token = k /\ b[i].buf = e /\ memory = "Import"
              /\ \A j \in DOMAIN import_backlog : j < i
              /\ \A j \in DOMAIN b : j < i => j \in DOMAIN import_backlog
                                              /\ b[j] = import_backlog[j]
      /\ memory = "Import" =>
           /\ DOMAIN import_backlog \subseteq DOMAIN b
           /\ \E i \in DOMAIN b : b[i].token = k /\ b[i].buf = e
  <2>1. CASE memory # "Import"
    BY <1>3, <2>1
  <2>2. CASE memory = "Import"
    <3> DEFINE v == [token |-> k, buf |-> e]
               l == Len(import_backlog)
    <3>1. v \in ImportEntry /\ v.token = k /\ v.buf = e
      BY <1>1, <1>b DEF ImportEntry
    <3>2. b = Append(import_backlog, v)
      BY <2>2 DEF push
    <3>3. DOMAIN import_backlog = 1..l /\ l \in Nat
      BY <1>3, LenProperties
    <3> HIDE DEF v, b
    <3>4. /\ b \in Seq(ImportEntry) /\ Len(b) = l + 1
          /\ \A i \in 1..l : b[i] = import_backlog[i]
          /\ b[l + 1] = v
      BY <1>3, <3>1, <3>2, AppendProperties
    <3>5. DOMAIN b = 1..Len(b)
      BY <3>4, LenProperties
    <3> HIDE DEF l
    <3>6. DOMAIN b = 1..(l + 1)
      BY <3>4, <3>5
    <3>7. l + 1 \in DOMAIN b /\ DOMAIN import_backlog \subseteq DOMAIN b
      BY <3>3, <3>6
    <3> QED BY <2>2, <3>1, <3>3, <3>4, <3>6, <3>7
  <2> QED BY <2>1, <2>2
<1>7. \A i \in DOMAIN import_backlog :
        /\ import_backlog[i].token \in Tokens /\ import_backlog[i].token < k
        /\ import_backlog[i].buf \in Targets \cup {None}
  BY <1>1, <1>3, Entries DEF PixelInv, Sound, Past
<1>8. \A c \in CapSlots : /\ cap[c].import_token < k
                          /\ cap[c].import_token \in Tokens \cup {NoToken}
  BY <1>1, <1>3 DEF PixelInv, Sound, Past, Frame
<1>9. \A j \in Tokens : pending[j] # arg
  BY <1>1, <1>3, SlotsAssumption DEF Agree
<1> HIDE DEF tg, pd, b
<1>10. Sound(memory, b, cap, tg, pd, next_token + 1)
  <2>1. PoolOK(memory, cap, tg)
    <3>1. \A u \in Targets : tg[u].frame = target[u].frame \/ tg[u].frame = NoFrame
      BY <1>4, <1>5
    <3>2. \A c \in CapSlots : c # NoFrame
      BY SlotsAssumption DEF NoFrame
    <3> QED BY <3>1, <3>2 DEF PixelInv, Sound, PoolOK
  <2>2. Fated(tg)
    BY <1>4, <1>5 DEF PixelInv, Sound, Fated
  <2>3. Ordered(b, cap)
    <3>1. ASSUME NEW i \in DOMAIN b, NEW j \in DOMAIN b, i < j, b[i].buf = b[j].buf,
                 b[i].buf # None
          PROVE  b[i].token < b[j].token
      BY <1>6, <1>7, <3>1 DEF PixelInv, Sound, Ordered
    <3>2. ASSUME NEW c \in CapSlots, NEW i \in DOMAIN b, b[i].buf # None,
                 cap[c].buf = b[i].buf
          PROVE  cap[c].import_token < b[i].token
      BY <1>6, <1>8, <3>2 DEF PixelInv, Sound, Ordered
    <3> QED BY <3>1, <3>2 DEF Ordered
  <2>4. Owners(b, cap, tg, pd)
    <3>1. ASSUME NEW i \in DOMAIN b, NEW j \in Tokens, pd[j] # None, b[i].buf = pd[j]
          PROVE  b[i].token <= j
      <4>1. CASE i \in DOMAIN import_backlog /\ b[i] = import_backlog[i]
        <5>1. CASE j = k
          BY <4>1, <5>1, <1>1, <1>7 DEF Tokens
        <5>2. CASE j # k
          BY <3>1, <4>1, <5>2, <1>5 DEF PixelInv, Sound, Owners
        <5> QED BY <5>1, <5>2
      <4>2. CASE b[i].token = k /\ b[i].buf = e
        <5>1. pd[j] = arg
          BY <1>b, <3>1, <4>2
        <5>2. j = k
          BY <1>5, <1>9, <5>1
        <5> QED BY <1>1, <4>2, <5>2 DEF Tokens
      <4> QED BY <1>6, <4>1, <4>2
    <3>2. ASSUME NEW i \in DOMAIN b, pd[b[i].token] # None, b[i].buf # None
          PROVE  /\ b[i].buf = pd[b[i].token]
                 /\ tg[b[i].buf].destination /\ tg[b[i].buf].publish # "Direct"
      <4>1. CASE i \in DOMAIN import_backlog /\ b[i] = import_backlog[i]
        <5>1. b[i].token \in Tokens /\ b[i].token # k /\ b[i].buf \in Targets
          BY <1>1, <1>7, <3>2, <4>1 DEF Tokens
        <5>2. pd[b[i].token] = pending[b[i].token]
          BY <1>5, <5>1
        <5>3. /\ b[i].buf = pending[b[i].token]
              /\ target[b[i].buf].destination /\ target[b[i].buf].publish # "Direct"
          BY <3>2, <4>1, <5>2 DEF PixelInv, Sound, Owners, Owned1
        <5>4. tg[b[i].buf] = target[b[i].buf]
          BY <1>5, <1>9, <5>1, <5>3
        <5> QED BY <5>2, <5>3, <5>4
      <4>2. CASE b[i].token = k /\ b[i].buf = e
        BY <1>4, <1>5, <1>b, <3>2, <4>2 DEF Wanting
      <4> QED BY <1>6, <4>1, <4>2
    <3>3. ASSUME NEW c \in CapSlots, cap[c].import_token \in Tokens
          PROVE  cap[c].buf \in Targets /\ pd[cap[c].import_token] \in {None, cap[c].buf}
      <4>1. cap[c].import_token # k
        BY <1>1, <1>8 DEF Tokens
      <4> QED BY <1>5, <3>3, <4>1 DEF PixelInv, Sound, Owners
    <3> QED BY <3>1, <3>2, <3>3 DEF Owners, Owned1
  <2>5. Past(b, cap, next_token + 1)
    <3>1. \A i \in DOMAIN b : b[i].token < next_token + 1
      BY <1>1, <1>3, <1>6, <1>7 DEF Tokens
    <3>2. \A c \in CapSlots : cap[c].import_token < next_token + 1
      <4>1. \A j \in Tokens \cup {NoToken} : j < next_token => j < next_token + 1
        BY <1>1 DEF Tokens, NoToken
      <4> QED BY <1>1, <1>8, <4>1
    <3> QED BY <3>1, <3>2 DEF Past
  <2> QED BY <2>1, <2>2, <2>3, <2>4, <2>5 DEF Sound
<1>11. e \in {None, arg}
  BY <1>b
<1>12. /\ tg = NewTarget /\ pd = NewPending /\ b = NewBacklog /\ e = NewBuffer /\ k = next_token
  BY DEF tg, pd, b, e, x, k, NewTarget, NewPending, NewBacklog, NewBuffer
<1>13. x = NewTarget[arg]
  BY <1>5, <1>12
<1> QED BY <1>1, <1>3, <1>4, <1>5, <1>6, <1>10, <1>11, <1>12, <1>13

\* So nobody shows what it should not.
LEMMA AcceptFine ==
  ASSUME PixelInv, Accept
  PROVE  FineNext /\ Stages' /\ target' = NewTarget
<1> DEFINE R(n, late) == ImportNext(memory, capGeom, NewBacklog, cap, NewTarget, NewPending,
                                    n, late)
           tg == NewTarget
           pd == NewPending
           e  == NewBuffer
           b  == NewBacklog
<1>1. /\ next_token' = next_token + 1 /\ state' = state
      /\ UNCHANGED <<memory, capDone, capMem, cliMem, phase>> /\ pc = "return"
  BY DEF Accept
<1>2. PICK n \in Dropped(b, tg, pd), late \in BOOLEAN :
        /\ cap' = R(n, late).cap
        /\ target' = R(n, late).target /\ pending' = R(n, late).pending
        /\ import_backlog' = R(n, late).backlog
        /\ \/ Return("error")
           \/ call' = "bringup" /\ UNCHANGED <<arg, pc, drain_for, waiter>>
  BY Zenon DEF Accept, NewToken, NewTarget, NewPending, NewBacklog, NewBuffer
<1>3. /\ cap \in [CapSlots -> Frame] /\ memory \in CaptureMemory /\ capDone \in Seq(CapReturn)
  BY PixelTypes
<1>5. /\ next_token + 1 \in Nat \ {0} /\ Typed(tg, pd) /\ b \in Seq(ImportEntry)
      /\ ~tg[arg].completed /\ tg[arg].frame = NoFrame /\ e \in {None, arg}
      /\ \A u \in Targets : u # arg => tg[u] = target[u]
      /\ \A i \in DOMAIN b : \/ i \in DOMAIN import_backlog /\ b[i] = import_backlog[i]
                             \/ b[i].buf = e
      /\ Sound(memory, b, cap, tg, pd, next_token + 1)
  BY AcceptSound
<1> HIDE DEF tg, pd, b, e
<1>11. FramePixels(tg, capMem)
  BY <1>5 DEF PixelInv, FramePixels
<1>12. ASSUME Shown(memory, import_backlog, cap, target, cliMem)
       PROVE  Shown(memory, b, cap, tg, cliMem)
  <2>1. BufferPixels(tg, cliMem)
    BY <1>5, <1>12 DEF Shown, BufferPixels
  <2>2. ASSUME memory = "Import", NEW u \in Targets, tg[u].completed
        PROVE  NotUsed(b, cap, u)
    <3>1. u # arg /\ target[u].completed
      BY <1>5, <2>2
    <3>2. NotUsed(import_backlog, cap, u)
      BY <1>12, <2>2, <3>1 DEF Shown, Unshown
    <3>3. u # None
      BY SlotsAssumption
    <3> QED BY <1>5, <3>1, <3>2, <3>3 DEF NotUsed
  <2> QED BY <2>1, <2>2 DEF Shown, Unshown
<1>13. Fine(memory, b, cap, tg, pd, next_token + 1, capDone, capMem, cliMem)
  BY <1>5, <1>11, <1>12 DEF PixelInv, Fine
<1> DEFINE r == R(n, late)
<1>14. /\ r.target = tg /\ r.pending = pd
       /\ Fine(memory, r.backlog, r.cap, tg, pd, next_token + 1, capDone, capMem, cliMem)
  <2>1. r = ImportNext(memory, capGeom, b, cap, tg, pd, n, late)
    BY DEF b, tg, pd
  <2> HIDE DEF r
  <2>2. /\ Nexted(memory, memory, b, cap, tg, pd, next_token + 1, r)
        /\ Fine(memory, r.backlog, r.cap, tg, pd, next_token + 1, capDone, capMem, cliMem)
    BY <1>3, <1>5, <1>13, <2>1, FineNexts
  <2> QED BY <2>2 DEF Nexted
<1> HIDE DEF R
<1>15. FineNext
  BY <1>1, <1>2, <1>14 DEF FineNext
<1>16. Stages'
  BY <1>1, <1>2 DEF PixelInv, Stages, Return
<1>17. target' = tg
  BY <1>2, <1>14
<1> QED BY <1>15, <1>16, <1>17 DEF tg

-----------------------------------------------------------------------------
(* A CAPTURE buffer comes back.                                            *)

\* DQBUF: the slot is taken back, and what it shows is known from before.
LEMMA FineTakes ==
  ASSUME PixelInv, capDone # <<>>,
         NEW d, d = Head(capDone), NEW took, took = take_capture(cap, d.slot)
  PROVE  /\ d \in CapReturn /\ cap[d.slot].queued
         /\ took \in [CapSlots -> Frame] /\ took[d.slot] = IdleFrame
         /\ \A c \in CapSlots : c # d.slot => took[c] = cap[c]
         /\ Tail(capDone) \in Seq(CapReturn)
         /\ Fine(memory, import_backlog, took, target, pending, next_token,
                 Tail(capDone), capMem, cliMem)
         /\ d.payload /\ ~d.error =>
              d.ts \in Tokens /\ d.ts = Behind(cap, d.slot, capMem, cliMem)
<1> DEFINE done == Tail(capDone)
           l    == Len(done)
<1>1. /\ d \in CapReturn /\ done \in Seq(CapReturn) /\ 1 \in DOMAIN capDone /\ d = capDone[1]
      /\ DOMAIN done = 1..l /\ l \in Nat
      /\ \A i \in 1..l : i + 1 \in DOMAIN capDone /\ done[i] = capDone[i + 1]
  <2>1. capDone \in Seq(CapReturn)
    BY PixelTypes
  <2>2. /\ d \in CapReturn /\ done \in Seq(CapReturn) /\ l = Len(capDone) - 1
        /\ \A i \in 1..l : done[i] = capDone[i + 1]
    BY <2>1, HeadTailProperties
  <2>3. d = capDone[1] /\ DOMAIN capDone = 1..Len(capDone) /\ Len(capDone) \in Nat
    BY <2>1, LenProperties
  <2>4. Len(capDone) # 0
    BY <2>1, EmptySeq
  <2> HIDE DEF done
  <2>5. DOMAIN done = 1..l /\ l \in Nat
    BY <2>2, LenProperties
  <2> HIDE DEF l
  <2> QED BY <2>2, <2>3, <2>4, <2>5
<1>2. d.slot \in CapSlots /\ cap[d.slot].queued
  BY <1>1 DEF CapReturn, PixelInv, Returned
<1>3. /\ took \in [CapSlots -> Frame] /\ took[d.slot] = IdleFrame
      /\ \A c \in CapSlots : c # d.slot => took[c] = cap[c]
  BY <1>2, PixelTypes DEF take_capture, IdleFrame, Frame, NoToken
<1>4. \A i \in 1..l : done[i].slot \in CapSlots /\ done[i].slot # d.slot
  <2> SUFFICES ASSUME NEW i \in 1..l PROVE done[i].slot \in CapSlots /\ done[i].slot # d.slot
    OBVIOUS
  <2> HIDE DEF done, l
  <2>1. i + 1 # 1
    BY <1>1
  <2>2. done[i].slot # d.slot
    BY <1>1, <2>1 DEF PixelInv, Returned
  <2>3. done[i] \in CapReturn
    BY <1>1, ElementOfSeq DEF l
  <2> QED BY <2>2, <2>3 DEF CapReturn
<1> HIDE DEF done, l
<1>5. Returned(took, done, capMem, cliMem)
  <2>1. \A i \in 1..l : took[done[i].slot] = cap[done[i].slot]
    BY <1>3, <1>4
  <2>2. ASSUME NEW i \in DOMAIN done, NEW j \in DOMAIN done, done[i].slot = done[j].slot
        PROVE  i = j
    <3>1. i + 1 = j + 1
      BY <1>1, <2>2 DEF PixelInv, Returned
    <3> QED BY <1>1, <3>1
  <2>3. ASSUME NEW i \in DOMAIN done
        PROVE  /\ took[done[i].slot].queued
               /\ done[i].payload /\ ~done[i].error =>
                    done[i].ts \in Tokens /\ done[i].ts = Behind(took, done[i].slot, capMem, cliMem)
    BY <1>1, <2>1 DEF PixelInv, Returned, Behind
  <2> QED BY <2>2, <2>3 DEF Returned
<1>6. /\ Sound(memory, import_backlog, took, target, pending, next_token)
      /\ \A t \in Targets : NotUsed(import_backlog, cap, t) => NotUsed(import_backlog, took, t)
  <2> DEFINE mem == memory
             b   == import_backlog
             cp  == cap
  <2>1. /\ \A c \in CapSlots : took[c] = cp[c] \/ took[c] = IdleFrame
        /\ b \in Seq(ImportEntry) /\ cp \in [CapSlots -> Frame] /\ next_token \in Nat \ {0}
        /\ Sound(mem, b, cp, target, pending, next_token)
    BY <1>3, PixelTypes DEF PixelInv
  <2> HIDE DEF mem, b, cp
  <2>2. /\ Sound(mem, b, took, target, pending, next_token)
        /\ \A t \in Targets : NotUsed(b, cp, t) => NotUsed(b, took, t)
    BY <2>1, EmptiedSound
  <2> QED BY <2>2 DEF mem, b, cp
<1>7. Shown(memory, import_backlog, cap, target, cliMem) =>
        Shown(memory, import_backlog, took, target, cliMem)
  BY <1>6 DEF Shown, Unshown
<1>8. Fine(memory, import_backlog, took, target, pending, next_token, done, capMem, cliMem)
  BY <1>5, <1>6, <1>7 DEF Fine, PixelInv
<1>9. d.payload /\ ~d.error =>
        d.ts \in Tokens /\ d.ts = Behind(cap, d.slot, capMem, cliMem)
  BY <1>1 DEF PixelInv, Returned
<1> QED BY <1>1, <1>2, <1>3, <1>8, <1>9 DEF done

\* The copy engine writes the picture of a surface that is not published yet.
LEMMA FineCopies ==
  ASSUME NEW mem, mem # "Import", NEW b, NEW cp, NEW tg, NEW pd, NEW nt,
         NEW done \in Seq(CapReturn), NEW cm, NEW lm \in [Targets -> Tokens \cup {NoToken}],
         Fine(mem, b, cp, tg, pd, nt, done, cm, lm),
         NEW t \in Targets, ~tg[t].completed, NEW v
  PROVE  Fine(mem, b, cp, tg, pd, nt, done, cm, [lm EXCEPT ![t] = v])
<1> DEFINE lm2 == [lm EXCEPT ![t] = v]
<1>1. \A u \in Targets : u # t => lm2[u] = lm[u]
  OBVIOUS
<1> HIDE DEF lm2
<1>2. \A c \in CapSlots : cp[c].buf \notin Targets
  BY SlotsAssumption DEF Fine, Sound, PoolOK
<1>3. \A i \in DOMAIN done : done[i].slot \in CapSlots
  BY DoneSlots
<1>4. \A i \in DOMAIN done : Behind(cp, done[i].slot, cm, lm2) = Behind(cp, done[i].slot, cm, lm)
  BY <1>2, <1>3 DEF Behind
<1>5. Returned(cp, done, cm, lm2)
  BY <1>4 DEF Fine, Returned
<1>6. Shown(mem, b, cp, tg, lm) => Shown(mem, b, cp, tg, lm2)
  BY <1>1 DEF Shown, Unshown, BufferPixels
<1> QED BY <1>5, <1>6 DEF Fine, lm2

\* What publish() makes of a target.
LEMMA PublishedFields ==
  ASSUME NEW q \in Target, NEW c \in CapSlots
  PROVE  LET x == Published(q, c) IN
         /\ x \in Target /\ x.pending = FALSE /\ x.completed = TRUE /\ x.error = FALSE
         /\ x.token = q.token
         /\ x.frame = IF Policy(q) = "Direct" THEN c ELSE NoFrame
         /\ Policy(q) \in {"Direct", "Copy", "Import"}
<1>1. Policy(q) \in {"Direct", "Copy", "Import"}
  BY DEF Policy, Target
<1> QED BY <1>1 DEF Published, Target, NoFrame

\* The picture is published: in the buffer that was queued for it, in the frame it
\* came in, or in the copy.
LEMMA PublishFine ==
  ASSUME PixelInv, NEW d \in CapReturn, NEW m \in {memory, "Unallocated"},
         cap[d.slot].queued, NEW took \in [CapSlots -> Frame], took[d.slot] = IdleFrame,
         \A c \in CapSlots : c # d.slot => took[c] = cap[c],
         NEW r, Nexted(memory, m, import_backlog, took, target, pending, next_token, r),
         NEW done \in Seq(CapReturn),
         Fine(memory, r.backlog, r.cap, target, pending, next_token, done, capMem, cliMem),
         d.payload, ~d.error, d.ts \in Tokens, d.ts = Behind(cap, d.slot, capMem, cliMem),
         NEW t \in Targets, pending[d.ts] = t,
         memory = "Import" => cap[d.slot].import_token = d.ts,
         cliMem' = IF Policy(target[t]) = "Copy"
                   THEN [cliMem EXCEPT ![t] = capMem[d.slot]] ELSE cliMem
  PROVE  Fine(memory, r.backlog, r.cap, [target EXCEPT ![t] = Published(target[t], d.slot)],
              Erase(pending, {d.ts}), next_token, done, capMem, cliMem')
<1> DEFINE x == Published(target[t], d.slot)
<1>1. /\ Typed(target, pending) /\ Agree(target, pending) /\ target[t] \in Target
      /\ target[t].pending /\ target[t].token = d.ts /\ t # None
      /\ d.slot \in CapSlots /\ d.slot # NoFrame
      /\ r.backlog \in Seq(ImportEntry) /\ r.cap \in [CapSlots -> Frame]
      /\ cap[d.slot] \in Frame /\ memory \in CaptureMemory
  BY PixelTypes, SlotsAssumption DEF Typed, Agree, CapReturn, NoFrame, Nexted
<1>2. ~target[t].completed /\ target[t].frame = NoFrame
  BY <1>1 DEF PixelInv, Sound, Fated
<1>3. Policy(target[t]) \in {"Direct", "Copy", "Import"}
  BY <1>1, PublishedFields
<1>4. /\ x \in Target /\ x.pending = FALSE /\ x.completed = TRUE /\ x.error = FALSE
      /\ x.token = d.ts
      /\ x.frame = IF Policy(target[t]) = "Direct" THEN d.slot ELSE NoFrame
  BY <1>1, PublishedFields
<1> HIDE DEF x
<1>5. \A j \in Tokens : Erase(pending, {d.ts})[j] # t
                        /\ Erase(pending, {d.ts})[j] \in {pending[j], None}
  <2>1. \A j \in Tokens : Erase(pending, {d.ts})[j] = IF j = d.ts THEN None ELSE pending[j]
    BY DEF Erase
  <2>2. \A j \in Tokens : pending[j] = t => j = d.ts
    BY <1>1 DEF Agree
  <2> QED BY <1>1, <2>1, <2>2
<1>6. CASE memory = "Import"
  <2>1. Policy(target[t]) = "Import" /\ cliMem' = cliMem /\ x.frame = NoFrame
    BY <1>4, <1>6 DEF Policy
  <2>2. cap[d.slot].buf = t
    BY <1>1, <1>6 DEF PixelInv, Sound, Owners
  <2>3. cliMem[t] = x.token
    BY <1>4, <2>2 DEF Behind
  <2>4. NotUsed(import_backlog, took, t)
    <3>1. ASSUME NEW i \in DOMAIN import_backlog, import_backlog[i].buf = t PROVE FALSE
      <4> DEFINE j == import_backlog[i].token
                 k == d.ts
      <4>1. j \in Tokens
        BY PixelTypes, Entries
      <4>2. j <= k
        BY <1>1, <3>1 DEF PixelInv, Sound, Owners
      <4>3. k < j
        BY <1>1, <1>6, <2>2, <3>1 DEF PixelInv, Sound, Ordered
      <4>4. k \in Int /\ j \in Int
        BY <4>1 DEF Tokens
      <4> HIDE DEF j, k
      <4> QED BY <4>2, <4>3, <4>4
    <3>2. ASSUME NEW c \in CapSlots, took[c].buf = t PROVE FALSE
      <4>1. c # d.slot /\ cap[c].buf = t
        BY <1>1, <3>2, IdleFields
      <4>2. cap[c].queued
        BY <1>1, <4>1, IdleFields DEF PixelInv, Sound, PoolOK
      <4> QED BY <1>1, <1>6, <4>1, <4>2 DEF PixelInv, Sound, PoolOK
    <3> QED BY <3>1, <3>2 DEF NotUsed
  <2>5. NotUsed(r.backlog, r.cap, t)
    BY <2>4 DEF Nexted, Moves
  <2>6. Fine(memory, r.backlog, r.cap, [target EXCEPT ![t] = x], Erase(pending, {d.ts}),
             next_token, done, capMem, cliMem)
    BY <1>1, <1>4, <1>5, <2>1, <2>3, <2>5, FineReplaces
  <2> QED BY <2>1, <2>6 DEF x
<1>7. CASE memory # "Import"
  <2>1. capMem[d.slot] = d.ts
    <3>1. cap[d.slot].buf \notin Targets
      BY <1>1, <1>7, SlotsAssumption DEF PixelInv, Sound, PoolOK
    <3> QED BY <3>1 DEF Behind
  <2>2. memory = "Mmap"
    BY <1>1, <1>7 DEF PixelInv, Sound, PoolOK, CaptureMemory
  <2>3. ~r.cap[d.slot].queued
    BY <1>1, <1>7, IdleFields DEF Nexted
  <2>4. Fine(memory, r.backlog, r.cap, target, pending, next_token, done, capMem, cliMem')
    BY <1>2, <1>7, PixelTypes, FineCopies
  <2>5. x.frame = NoFrame => cliMem'[t] = x.token
    <3>1. CASE Policy(target[t]) = "Direct"
      BY <1>1, <1>4, <3>1
    <3>2. CASE Policy(target[t]) = "Copy"
      BY <1>1, <1>4, <2>1, <3>2, PixelTypes
    <3>3. Policy(target[t]) # "Import"
      BY <1>7 DEF Policy
    <3> QED BY <1>3, <3>1, <3>2, <3>3
  <2>6. x.frame # NoFrame => x.frame = d.slot
    BY <1>4
  <2>7. Fine(memory, r.backlog, r.cap, [target EXCEPT ![t] = x], Erase(pending, {d.ts}),
             next_token, done, capMem, cliMem')
    <3> DEFINE pd2 == Erase(pending, {d.ts})
    <3>1. /\ r.backlog \in Seq(ImportEntry) /\ r.cap \in [CapSlots -> Frame]
          /\ Typed(target, pending) /\ Agree(target, pending)
          /\ x \in Target /\ ~x.pending /\ x.completed /\ ~x.error
      BY <1>1, <1>4
    <3>2. \A k \in Tokens : pd2[k] # t /\ pd2[k] \in {pending[k], None}
      BY <1>5
    <3>3. x.frame # NoFrame =>
            capMem[x.frame] = x.token /\ memory = "Mmap" /\ ~r.cap[x.frame].queued
      BY <1>4, <2>1, <2>2, <2>3, <2>6
    <3>4. memory # "Import" /\ (x.frame = NoFrame => cliMem'[t] = x.token)
      BY <1>7, <2>5
    <3> HIDE DEF pd2
    <3>5. Fine(memory, r.backlog, r.cap, [target EXCEPT ![t] = x], pd2, next_token, done,
               capMem, cliMem')
      BY <2>4, <3>1, <3>2, <3>3, <3>4, FineReplaces
    <3> QED BY <3>5 DEF pd2
  <2> QED BY <2>7 DEF x
<1> QED BY <1>6, <1>7

\* One picture settles: its target leaves the map.
LEMMA OneAgrees ==
  ASSUME NEW tg, NEW pd, Typed(tg, pd), Agree(tg, pd), NEW k \in Tokens,
         NEW t \in Targets, pd[k] = t,
         NEW x \in Target, ~x.pending, x.error \/ x.completed,
         NEW tg2, tg2 = [tg EXCEPT ![t] = x], NEW pd2, pd2 = Erase(pd, {k})
  PROVE  Typed(tg2, pd2) /\ Agree(tg2, pd2)
<1>1. pd[k] # None
  BY SlotsAssumption
<1> QED BY <1>1, OneSettles

\* The others do not: each keeps its token, and no token is left with the target.
LEMMA OneLeaves ==
  ASSUME NEW tg, NEW pd, Typed(tg, pd), Agree(tg, pd), NEW k \in Tokens,
         NEW t \in Targets, pd[k] = t, NEW pd2, pd2 = Erase(pd, {k})
  PROVE  \A j \in Tokens : pd2[j] # t /\ pd2[j] \in {pd[j], None}
<1>1. t # None
  BY SlotsAssumption
<1>2. \A j \in Tokens : pd2[j] = IF j = k THEN None ELSE pd[j]
  BY DEF Erase
<1>3. \A j \in Tokens : pd[j] = t => j = k
  BY <1>1 DEF Agree
<1> QED BY <1>1, <1>2, <1>3

\* What becomes of the picture of the buffer.
LEMMA CompleteFine ==
  ASSUME PixelInv, NEW d \in CapReturn, NEW m \in {memory, "Unallocated"},
         cap[d.slot].queued, NEW took \in [CapSlots -> Frame], took[d.slot] = IdleFrame,
         \A c \in CapSlots : c # d.slot => took[c] = cap[c],
         NEW r, Nexted(memory, m, import_backlog, took, target, pending, next_token, r),
         NEW done \in Seq(CapReturn),
         Fine(memory, r.backlog, r.cap, target, pending, next_token, done, capMem, cliMem),
         d.payload /\ ~d.error => d.ts \in Tokens /\ d.ts = Behind(cap, d.slot, capMem, cliMem),
         Complete(d, cap[d.slot].import_token, r)
  PROVE  /\ Fine(memory, import_backlog', r.cap, target', pending', next_token, done, capMem,
                 cliMem')
         /\ \/ UNCHANGED state /\ Goto(pc)
               /\ \A u \in Targets : ~target[u].pending => target'[u] = target[u]
            \/ \E tg, pd : Throw(state, tg, pd, r.backlog)
<1> DEFINE k == cap[d.slot].import_token
<1>1. /\ Typed(target, pending) /\ Agree(target, pending) /\ r.target = target
      /\ r.pending = pending /\ r.backlog \in Seq(ImportEntry) /\ r.cap \in [CapSlots -> Frame]
      /\ d.slot \in CapSlots
  BY PixelTypes DEF Nexted, CapReturn
<1>2. CASE target' = r.target /\ pending' = r.pending /\ import_backlog' = r.backlog
           /\ Goto(pc) /\ UNCHANGED <<state, cliMem>>
  BY <1>1, <1>2
<1>3. CASE /\ target' = FailTokens(r.target, r.pending, Spoiled(d, k))
           /\ pending' = Erase(r.pending, Spoiled(d, k)) /\ import_backlog' = r.backlog
           /\ Goto(pc) /\ UNCHANGED <<state, cliMem>>
  <2>1. Losses(target, pending, target', pending')
    BY <1>1, <1>3, FailLoses
  <2>2. Fine(memory, r.backlog, r.cap, target', pending', next_token, done, capMem, cliMem)
    BY <1>1, <2>1, FineLoses
  <2>3. \A u \in Targets : ~target[u].pending => target'[u] = target[u]
    BY <2>1 DEF Losses
  <2> QED BY <1>3, <2>2, <2>3
<1>4. CASE ~Discarded(d, r.pending) /\ Spoiled(d, k) = {}
  <2> DEFINE t  == pending[d.ts]
             pd == Erase(pending, {d.ts})
  <2>1. d.payload /\ d.ts \in Tokens /\ t # None
    BY <1>1, <1>4 DEF Discarded
  <2>2. ~d.error /\ (memory = "Import" => k = d.ts)
    BY <1>4 DEF Spoiled
  <2>3. t \in Targets /\ target[t].pending /\ target[t].token = d.ts /\ target[t] \in Target
    BY <1>1, <2>1 DEF Typed, Agree
  <2>4. \A u \in Targets : ~target[u].pending => u # t
    BY <2>3
  <2>5. CASE /\ target' = [target EXCEPT ![t] = Published(target[t], d.slot)]
             /\ pending' = pd /\ import_backlog' = r.backlog
             /\ cliMem' = IF Policy(target[t]) = "Copy"
                          THEN [cliMem EXCEPT ![t] = capMem[d.slot]] ELSE cliMem
             /\ Goto(pc) /\ UNCHANGED state
    <3>1. \A u \in Targets : ~target[u].pending => target'[u] = target[u]
      BY <1>1, <2>4, <2>5 DEF Typed
    <3> DEFINE u == t
               pd2 == Erase(pending, {d.ts})
               tg2 == [target EXCEPT ![u] = Published(target[u], d.slot)]
    <3>2. /\ u \in Targets /\ pending[d.ts] = u
          /\ cliMem' = IF Policy(target[u]) = "Copy"
                       THEN [cliMem EXCEPT ![u] = capMem[d.slot]] ELSE cliMem
          /\ target' = tg2 /\ pending' = pd2 /\ import_backlog' = r.backlog
      BY <2>3, <2>5
    <3> HIDE DEF u
    <3>a. ~d.error /\ d.payload /\ d.ts \in Tokens /\ d.ts = Behind(cap, d.slot, capMem, cliMem)
          /\ (memory = "Import" => cap[d.slot].import_token = d.ts)
      BY <2>1, <2>2
    <3>b. Fine(memory, r.backlog, r.cap, tg2, pd2, next_token, done, capMem, cliMem')
      BY <3>2, <3>a, PublishFine
    <3> HIDE DEF tg2, pd2
    <3>3. Fine(memory, import_backlog', r.cap, target', pending', next_token, done, capMem, cliMem')
      BY <3>2, <3>b
    <3> QED BY <2>5, <3>1, <3>3
  <2>6. CASE /\ Throw(state, [target EXCEPT ![t] =
                               [Failed(target[t]) EXCEPT !.publish = "Copy"]], pd, r.backlog)
             /\ UNCHANGED cliMem
    <3> DEFINE x  == [Failed(target[t]) EXCEPT !.publish = "Copy"]
               tg == [target EXCEPT ![t] = x]
    <3>1. ~target[t].completed /\ target[t].frame = NoFrame
      BY <2>3 DEF PixelInv, Sound, Fated
    <3>2. /\ x \in Target /\ x.pending = FALSE /\ x.error = TRUE /\ x.completed = FALSE
          /\ x.frame = NoFrame
      BY <2>3, <3>1 DEF Failed, Target
    <3> DEFINE u   == t
               k2  == d.ts
               tg2 == [target EXCEPT ![u] = x]
               pd2 == Erase(pending, {k2})
    <3>3. k2 \in Tokens /\ u \in Targets /\ pending[k2] = u
      BY <2>1, <2>3
    <3> HIDE DEF u, k2, x
    <3>a. ~x.pending /\ (x.error \/ x.completed)
      BY <3>2
    <3>b. /\ tg2 = [target EXCEPT ![u] = x] /\ pd2 = Erase(pending, {k2})
          /\ Typed(target, pending) /\ Agree(target, pending) /\ x \in Target
      BY <1>1, <3>2
    <3> HIDE DEF tg2, pd2
    <3>4. Typed(tg2, pd2) /\ Agree(tg2, pd2)
      BY <3>3, <3>a, <3>b, OneAgrees
    <3>c. \A j \in Tokens : pd2[j] # u /\ pd2[j] \in {pending[j], None}
      BY <3>3, <3>b, OneLeaves
    <3>d. /\ x.completed => ~x.error /\ (x.frame # NoFrame => x.completed)
          /\ x.frame = NoFrame /\ ~x.completed /\ x \in Target /\ u \in Targets
          /\ r.backlog \in Seq(ImportEntry) /\ r.cap \in [CapSlots -> Frame]
          /\ Fine(memory, r.backlog, r.cap, target, pending, next_token, done, capMem, cliMem)
      BY <1>1, <3>2, <3>3
    <3>5. Fine(memory, r.backlog, r.cap, [target EXCEPT ![u] = x], pd2, next_token, done, capMem,
               cliMem)
      BY <3>a, <3>b, <3>c, <3>d, FineReplaces
    <3>6. /\ Typed(tg, pd) /\ Agree(tg, pd)
          /\ Fine(memory, r.backlog, r.cap, tg, pd, next_token, done, capMem, cliMem)
      BY <3>4, <3>5 DEF k2, u, pd2, tg2
    <3> HIDE DEF pd, tg
    <3>7. Throw(state, tg, pd, r.backlog)
      BY <2>6 DEF tg, x, pd
    <3>8. Fine(memory, import_backlog', r.cap, target', pending', next_token, done, capMem,
               cliMem)
      BY <1>1, <3>6, <3>7, FineUnwinds DEF Throw
    <3> QED BY <2>6, <3>7, <3>8
  <2> QED BY <1>1, <1>4, <2>5, <2>6 DEF Complete
<1> QED BY <1>2, <1>3, <1>4 DEF Complete

\* One turn of handle_capture_returns.
LEMMA ReturnCaptureFine ==
  ASSUME PixelInv, ReturnCapture PROVE FineNext /\ Stages'
<1> DEFINE d    == Head(capDone)
           took == take_capture(cap, d.slot)
           m    == IF state = "Streaming" THEN memory ELSE "Unallocated"
           R(n, late) == ImportNext(m, capGeom, import_backlog, took, target, pending, n, late)
<1>1. PICK n \in Dropped(import_backlog, target, pending), late \in BOOLEAN :
        /\ cap' = R(n, late).cap
        /\ \/ /\ UNCHANGED cliMem
              /\ Throw(state, R(n, late).target, R(n, late).pending, R(n, late).backlog)
           \/ Complete(d, cap[d.slot].import_token, R(n, late))
  BY Zenon DEF ReturnCapture
<1>2. /\ pc \in {"captures", "dcaptures"} /\ capDone # <<>> /\ capDone' = Tail(capDone)
      /\ UNCHANGED <<memory, next_token, capMem, phase>>
  BY DEF ReturnCapture
<1>3. state # "Reconfiguring" /\ m \in {memory, "Unallocated"}
  BY <1>2 DEF PixelInv, Stages
<1>4. /\ d \in CapReturn /\ cap[d.slot].queued
      /\ took \in [CapSlots -> Frame] /\ took[d.slot] = IdleFrame
      /\ \A c \in CapSlots : c # d.slot => took[c] = cap[c]
      /\ capDone' \in Seq(CapReturn)
      /\ Fine(memory, import_backlog, took, target, pending, next_token, capDone', capMem, cliMem)
      /\ d.payload /\ ~d.error =>
           d.ts \in Tokens /\ d.ts = Behind(cap, d.slot, capMem, cliMem)
  <2> DEFINE done == Tail(capDone)
  <2>1. /\ d \in CapReturn /\ cap[d.slot].queued
        /\ took \in [CapSlots -> Frame] /\ took[d.slot] = IdleFrame
        /\ \A c \in CapSlots : c # d.slot => took[c] = cap[c]
        /\ done \in Seq(CapReturn)
        /\ Fine(memory, import_backlog, took, target, pending, next_token, done, capMem, cliMem)
        /\ d.payload /\ ~d.error =>
             d.ts \in Tokens /\ d.ts = Behind(cap, d.slot, capMem, cliMem)
    BY <1>2, FineTakes
  <2> QED BY <1>2, <2>1
<1> HIDE DEF d, took, m
<1> DEFINE r == R(n, late)
<1>5. r = ImportNext(m, capGeom, import_backlog, took, target, pending, n, late)
  OBVIOUS
<1> HIDE DEF R
<1>6. /\ cap' = r.cap
      /\ \/ UNCHANGED cliMem /\ Throw(state, r.target, r.pending, r.backlog)
         \/ Complete(d, cap[d.slot].import_token, r)
  BY <1>1
<1> HIDE DEF r
<1>7. /\ Nexted(memory, m, import_backlog, took, target, pending, next_token, r)
      /\ Fine(memory, r.backlog, r.cap, target, pending, next_token, capDone', capMem, cliMem)
  BY <1>3, <1>4, <1>5, PixelTypes, FineNexts
<1>8. CASE UNCHANGED cliMem /\ Throw(state, r.target, r.pending, r.backlog)
  <2>1. Fine(memory, import_backlog', r.cap, target', pending', next_token, capDone', capMem,
             cliMem)
    BY <1>4, <1>7, <1>8, PixelTypes, FineUnwinds DEF Throw, Nexted
  <2>2. state' # "Reconfiguring" /\ pc' = "idle" /\ call' = "none"
    BY <1>3, <1>8 DEF Throw, Unwind, Fail, Return
  <2> QED BY <1>2, <1>6, <1>8, <2>1, <2>2 DEF FineNext, Stages
<1>9. CASE Complete(d, cap[d.slot].import_token, r)
  <2>1. /\ Fine(memory, import_backlog', r.cap, target', pending', next_token, capDone', capMem,
                cliMem')
        /\ \/ UNCHANGED state /\ Goto(pc)
              /\ \A u \in Targets : ~target[u].pending => target'[u] = target[u]
           \/ \E tg, pd : Throw(state, tg, pd, r.backlog)
    BY <1>3, <1>4, <1>7, <1>9, CompleteFine
  <2>2. FineNext
    BY <1>2, <1>6, <2>1 DEF FineNext
  <2>3. CASE UNCHANGED state /\ Goto(pc)
             /\ \A u \in Targets : ~target[u].pending => target'[u] = target[u]
    <3>1. call \in {"submit", "slot"} => arg \in Targets /\ ~target[arg].pending
      BY DEF PixelInv, SettledInv, TypeInv, CallShape, Places
    <3>2. Stages'
      BY <1>2, <1>3, <2>3, <3>1 DEF Goto, PixelInv, Stages
    <3> QED BY <2>2, <3>2
  <2>4. CASE \E tg, pd : Throw(state, tg, pd, r.backlog)
    <3>1. state' # "Reconfiguring" /\ pc' = "idle" /\ call' = "none"
      BY <1>3, <2>4 DEF Throw, Unwind, Fail, Return
    <3> QED BY <2>2, <3>1 DEF Stages
  <2> QED BY <2>1, <2>2, <2>3, <2>4
<1> QED BY <1>6, <1>8, <1>9

-----------------------------------------------------------------------------
(* A new pool.                                                             *)

\* The backlog that a new pool starts from: what waited already, and behind it the
\* live pictures it does not know, in their order.
Lengthened(b, tg, pd) ==
  /\ \A i \in DOMAIN b : i \in DOMAIN import_backlog => b[i] = import_backlog[i]
  /\ \A i \in DOMAIN b : i \notin DOMAIN import_backlog =>
       b[i].token \in Unlisted(tg, pd) /\ b[i].buf = pd[b[i].token]
  /\ \A i, j \in DOMAIN b : i < j /\ j \in DOMAIN import_backlog => i \in DOMAIN import_backlog
  /\ \A i, j \in DOMAIN b : i < j /\ i \notin DOMAIN import_backlog => b[i].token < b[j].token

\* Intervals from 1 with the same elements have the same length.
LEMMA SameInterval ==
  ASSUME NEW h \in Nat, NEW m \in Nat, 1..h = 1..m
  PROVE  h = m
<1>1. h \in 1..h \/ h = 0
  OBVIOUS
<1>2. m \in 1..m \/ m = 0
  OBVIOUS
<1>3. h <= m
  BY <1>1
<1>4. m <= h
  BY <1>2
<1> QED BY <1>3, <1>4

\* Whatever backlog a new pool starts from is such a one.
LEMMA Lengthens ==
  ASSUME TypeOK, NEW tg, NEW pd, Typed(tg, pd), NEW b \in Backlogs(tg, pd)
  PROVE  b \in Seq(ImportEntry) /\ Lengthened(b, tg, pd)
<1>1. b \in Seq(ImportEntry)
  BY BacklogsType DEF Typed
<1>2. CASE ~ImportGranted(tg, pd)
  <2>1. b = import_backlog
    BY <1>2 DEF Backlogs
  <2> QED BY <1>1, <2>1 DEF Lengthened
<1>3. CASE ImportGranted(tg, pd)
  <2> DEFINE S == Unlisted(tg, pd)
             m == Cardinality(S)
             l == Len(import_backlog)
             e(s) == [i \in DOMAIN s |-> [token |-> s[i], buf |-> pd[s[i]]]]
  <2>1. PICK s \in Ascending(S) : b = import_backlog \o e(s)
    BY <1>3 DEF Backlogs
  <2>2. S \in SUBSET Tokens /\ \A k \in S : pd[k] \in Targets
    BY DEF Unlisted, Typed
  <2>3. m \in Nat
    <3>1. MaxToken \in Int /\ 1 \in Int
      BY SlotsAssumption
    <3>2. IsFiniteSet(Tokens)
      BY <3>1, FS_Interval, Zenon DEF Tokens
    <3> QED BY <2>2, <3>2, FS_Subset, FS_CardinalityType
  <2>4. s \in [1..m -> S] /\ \A i, j \in 1..m : i < j => s[i] < s[j]
    BY <2>1 DEF Ascending
  <2> HIDE DEF m
  <2>5. \A i \in 1..m : [token |-> s[i], buf |-> pd[s[i]]] \in ImportEntry
    BY <2>2, <2>4 DEF ImportEntry
  <2>6. /\ e(s) \in [1..m -> ImportEntry]
        /\ \A i \in 1..m : e(s)[i].token = s[i] /\ e(s)[i].buf = pd[s[i]]
    BY <2>4, <2>5
  <2> DEFINE n == e(s)
  <2> HIDE DEF n
  <2>7. n \in [1..m -> ImportEntry] /\ \A i \in 1..m : n[i].token = s[i] /\ n[i].buf = pd[s[i]]
    BY <2>6 DEF n
  <2>8. n \in Seq(ImportEntry) /\ Len(n) = m /\ import_backlog \in Seq(ImportEntry)
    <3>1. n \in Seq(ImportEntry) /\ import_backlog \in Seq(ImportEntry)
      BY <2>3, <2>7, SeqDef DEF TypeOK
    <3> DEFINE h == Len(n)
    <3>2. h \in Nat /\ 1..h = 1..m
      BY <2>7, <3>1, LenProperties
    <3> HIDE DEF h
    <3>3. h = m
      BY <2>3, <3>2, SameInterval
    <3> QED BY <3>1, <3>3 DEF h
  <2>9. l \in Nat /\ DOMAIN import_backlog = 1..l /\ b = import_backlog \o n
    BY <2>1, <2>8, LenProperties DEF n
  <2> HIDE DEF l
  <2>10. DOMAIN b = 1..(l + m) /\ \A i \in 1..(l + m) :
           b[i] = IF i <= l THEN import_backlog[i] ELSE n[i - l]
    <3>1. Len(b) = l + m /\ \A i \in 1..(l + m) :
            b[i] = IF i <= l THEN import_backlog[i] ELSE n[i - l]
      BY <2>8, <2>9, ConcatProperties DEF l
    <3> QED BY <1>1, <3>1, LenProperties
  <2>11. ASSUME NEW i \in DOMAIN b, i \in DOMAIN import_backlog
         PROVE  b[i] = import_backlog[i]
    BY <2>3, <2>9, <2>10, <2>11
  <2>12. ASSUME NEW i \in DOMAIN b, i \notin DOMAIN import_backlog
         PROVE  /\ i - l \in 1..m /\ b[i].token = s[i - l] /\ b[i].buf = pd[b[i].token]
                /\ b[i].token \in S
    <3>1. i - l \in 1..m /\ ~(i <= l)
      BY <2>3, <2>9, <2>10, <2>12
    <3>2. b[i] = n[i - l]
      BY <2>10, <3>1
    <3> QED BY <2>4, <2>7, <3>1, <3>2
  <2>13. ASSUME NEW i \in DOMAIN b, NEW j \in DOMAIN b, i < j, j \in DOMAIN import_backlog
         PROVE  i \in DOMAIN import_backlog
    BY <2>3, <2>9, <2>10, <2>13
  <2>14. ASSUME NEW i \in DOMAIN b, NEW j \in DOMAIN b, i < j, i \notin DOMAIN import_backlog
         PROVE  b[i].token < b[j].token
    <3>1. j \notin DOMAIN import_backlog
      BY <2>13, <2>14
    <3>2. /\ i - l \in 1..m /\ b[i].token = s[i - l]
          /\ j - l \in 1..m /\ b[j].token = s[j - l]
      BY <2>12, <2>14, <3>1
    <3>3. i - l < j - l
      BY <2>3, <2>9, <2>10, <2>14
    <3> QED BY <2>4, <3>2, <3>3
  <2> QED BY <1>1, <2>11, <2>12, <2>13, <2>14 DEF Lengthened
<1> QED BY <1>2, <1>3

\* A new pool over the old backlog and what is added to it: no buffer is with the
\* decoder, and no surface that shows its picture in its buffer is given away.
LEMMA PoolBegins ==
  ASSUME TypeOK, NEW tg, NEW pd, Typed(tg, pd), Agree(tg, pd), next_token \in Nat \ {0},
         \A k \in Tokens : pd[k] # None => k < next_token,
         \A t \in Targets : tg[t].frame = NoFrame,
         NEW done,
         Fine(memory, import_backlog, cap, tg, pd, next_token, done, capMem, cliMem),
         NEW mem, memory' = mem, NEW b \in Seq(ImportEntry), Lengthened(b, tg, pd), NEW cm
  PROVE  Fine(mem, b, fresh_capture, tg, pd, next_token, <<>>, cm, cliMem)
<1> DEFINE b0 == import_backlog
           cp == cap
           cp2 == fresh_capture
<1>1. /\ \A c \in CapSlots : cp2[c] = IdleFrame
      /\ b0 \in Seq(ImportEntry) /\ cp \in [CapSlots -> Frame]
  BY DEF fresh_capture, TypeOK
<1> HIDE DEF b0, cp, cp2
<1>2. Sound(memory, b0, cp, tg, pd, next_token)
  BY DEF Fine, b0, cp
<1>3. /\ Sound(mem, b0, cp2, tg, pd, next_token)
      /\ \A t \in Targets : NotUsed(b0, cp, t) => NotUsed(b0, cp2, t)
  BY <1>1, <1>2, EmptiedSound
<1>4. /\ \A i \in DOMAIN b0 : b0[i].token \in Tokens /\ b0[i].buf \in Targets \cup {None}
      /\ \A i \in DOMAIN b : b[i].token \in Tokens /\ b[i].buf \in Targets \cup {None}
  BY <1>1, Entries
<1>5. /\ \A i \in DOMAIN b : i \in DOMAIN b0 => b[i] = b0[i]
      /\ \A i \in DOMAIN b : i \notin DOMAIN b0 =>
           b[i].token \in Unlisted(tg, pd) /\ b[i].buf = pd[b[i].token]
      /\ \A i, j \in DOMAIN b : i < j /\ j \in DOMAIN b0 => i \in DOMAIN b0
      /\ \A i, j \in DOMAIN b : i < j /\ i \notin DOMAIN b0 => b[i].token < b[j].token
  BY DEF Lengthened, b0
<1>6. \A i \in DOMAIN b : i \notin DOMAIN b0 =>
        /\ b[i].buf \in Targets /\ b[i].token < next_token
        /\ pd[b[i].token] = b[i].buf /\ tg[b[i].buf].pending /\ tg[b[i].buf].destination
        /\ tg[b[i].buf].publish # "Direct" /\ ~tg[b[i].buf].completed
        /\ tg[b[i].buf].token = b[i].token
        /\ \A j \in DOMAIN b0 : b0[j].token # b[i].token
  <2> SUFFICES ASSUME NEW i \in DOMAIN b, i \notin DOMAIN b0
               PROVE  /\ b[i].buf \in Targets /\ b[i].token < next_token
                      /\ pd[b[i].token] = b[i].buf
                      /\ tg[b[i].buf].pending /\ tg[b[i].buf].destination
                      /\ tg[b[i].buf].publish # "Direct" /\ ~tg[b[i].buf].completed
                      /\ tg[b[i].buf].token = b[i].token
                      /\ \A j \in DOMAIN b0 : b0[j].token # b[i].token
    OBVIOUS
  <2> DEFINE k == b[i].token
             t == b[i].buf
  <2>1. /\ k \in Tokens /\ pd[k] = t /\ pd[k] # None /\ tg[pd[k]].destination
        /\ \A j \in DOMAIN b0 : b0[j].token # k
    BY <1>5 DEF Unlisted, b0
  <2> HIDE DEF k, t
  <2>2. t \in Targets /\ k < next_token /\ tg[t].pending /\ tg[t].token = k
    BY <2>1 DEF Typed, Agree
  <2>3. tg[t].publish # "Direct" /\ ~tg[t].completed
    BY <1>2, <2>1, <2>2 DEF Sound, Fated, Wanting
  <2> QED BY <2>1, <2>2, <2>3 DEF k, t
<1>7. Ordered(b, cp2)
  <2>1. ASSUME NEW i \in DOMAIN b, NEW j \in DOMAIN b, i < j, b[i].buf = b[j].buf,
               b[i].buf # None
        PROVE  b[i].token < b[j].token
    <3>1. CASE i \notin DOMAIN b0
      BY <1>5, <2>1, <3>1
    <3>2. CASE i \in DOMAIN b0 /\ j \in DOMAIN b0
      BY <1>3, <1>5, <2>1, <3>2 DEF Sound, Ordered
    <3>3. CASE i \in DOMAIN b0 /\ j \notin DOMAIN b0
      <4> DEFINE p == b[i].token
                 q == b[j].token
      <4>1. p \in Tokens /\ q \in Tokens /\ pd[q] # None /\ b0[i].buf = pd[q]
            /\ b0[i].token = p /\ p # q
        BY <1>4, <1>5, <1>6, <2>1, <3>3
      <4>2. p <= q
        BY <1>3, <3>3, <4>1 DEF Sound, Owners
      <4> HIDE DEF p, q
      <4>3. p < q
        BY <4>1, <4>2 DEF Tokens
      <4> QED BY <4>3 DEF p, q
    <3> QED BY <3>1, <3>2, <3>3
  <2>2. \A c \in CapSlots : cp2[c].buf = None
    BY <1>1, IdleFields
  <2> QED BY <2>1, <2>2 DEF Ordered
<1>8. Owners(b, cp2, tg, pd)
  <2>1. ASSUME NEW i \in DOMAIN b, NEW k \in Tokens, pd[k] # None, b[i].buf = pd[k]
        PROVE  b[i].token <= k
    <3>1. CASE i \in DOMAIN b0
      BY <1>3, <1>5, <2>1, <3>1 DEF Sound, Owners
    <3>2. CASE i \notin DOMAIN b0
      <4>1. tg[pd[k]].token = k
        BY <2>1 DEF Agree
      <4>2. b[i].token = k
        BY <1>6, <2>1, <3>2, <4>1
      <4> QED BY <4>2 DEF Tokens
    <3> QED BY <3>1, <3>2
  <2>2. ASSUME NEW i \in DOMAIN b, pd[b[i].token] # None, b[i].buf # None
        PROVE  /\ b[i].buf = pd[b[i].token]
               /\ tg[b[i].buf].destination /\ tg[b[i].buf].publish # "Direct"
    <3>1. CASE i \in DOMAIN b0
      BY <1>3, <1>5, <2>2, <3>1 DEF Sound, Owners, Owned1
    <3>2. CASE i \notin DOMAIN b0
      BY <1>6, <3>2
    <3> QED BY <3>1, <3>2
  <2>3. \A c \in CapSlots : cp2[c].import_token \notin Tokens
    BY <1>1, IdleFields
  <2> QED BY <2>1, <2>2, <2>3 DEF Owners, Owned1
<1>9. Past(b, cp2, next_token)
  BY <1>3, <1>5, <1>6 DEF Sound, Past
<1>10. Sound(mem, b, cp2, tg, pd, next_token)
  BY <1>3, <1>7, <1>8, <1>9 DEF Sound
<1>11. Returned(cp2, <<>>, cm, cliMem) /\ FramePixels(tg, cm)
  BY DEF Returned, FramePixels
<1>12. ASSUME Shown(memory, import_backlog, cap, target, cliMem), CleanStart
       PROVE  Shown(mem, b, cp2, tg, cliMem)
  <2>1. Shown(memory, b0, cp, tg, cliMem)
    BY <1>12 DEF Fine, b0, cp
  <2>2. ASSUME mem = "Import", NEW t \in Targets, tg[t].completed
        PROVE  NotUsed(b, cp2, t)
    <3>1. NotUsed(b0, cp2, t)
      <4>1. CASE memory = "Import"
        BY <1>3, <2>1, <2>2, <4>1 DEF Shown, Unshown
      <4>2. CASE memory # "Import"
        <5>1. b0 = <<>>
          BY <1>12, <2>2, <4>2 DEF CleanStart, b0
        <5> QED BY <1>1, <5>1, IdleFields DEF NotUsed
      <4> QED BY <4>1, <4>2
    <3> QED BY <1>5, <1>6, <2>2, <3>1 DEF NotUsed
  <2> QED BY <2>1, <2>2 DEF Shown, Unshown
<1> QED BY <1>10, <1>11, <1>12 DEF Fine, cp2

\* The buffers that enter_streaming queues.
LEMMA PoolGoes ==
  ASSUME TypeOK, NEW tg, NEW pd, Typed(tg, pd), Agree(tg, pd), next_token \in Nat \ {0},
         \A k \in Tokens : pd[k] # None => k < next_token,
         \A t \in Targets : tg[t].frame = NoFrame,
         NEW done,
         Fine(memory, import_backlog, cap, tg, pd, next_token, done, capMem, cliMem),
         NEW b \in Backlogs(tg, pd), NEW n \in Dropped(b, tg, pd), NEW late \in BOOLEAN,
         NEW r, r = ImportNext(PoolMemory(tg, pd), fwGeom, b, fresh_capture, tg, pd, n, late),
         StartPool(tg, pd, b, r)
  PROVE  /\ r.target = tg /\ r.pending = pd /\ r.backlog \in Seq(ImportEntry)
         /\ cap' \in [CapSlots -> Frame]
         /\ Fine(memory', r.backlog, cap', tg, pd, next_token, <<>>, capMem', cliMem)
<1> DEFINE mem == PoolMemory(tg, pd)
           cm  == [c \in CapSlots |-> NoToken]
           cp  == fresh_capture
           s   == <<>>
<1>1. /\ memory' = mem /\ capMem' = cm /\ cap' = requeue_capture(mem, r.cap, tg)
      /\ r = ImportNext(mem, fwGeom, b, cp, tg, pd, n, late)
  BY DEF StartPool
<1>2. mem \in CaptureMemory
  BY DEF PoolMemory, CaptureMemory
<1>3. cp \in [CapSlots -> Frame]
  BY DEF fresh_capture, IdleFrame, Frame, NoToken
<1> HIDE DEF mem, cm
<1>4. b \in Seq(ImportEntry) /\ Lengthened(b, tg, pd)
  BY Lengthens
<1>5. Fine(mem, b, cp, tg, pd, next_token, s, cm, cliMem)
  BY <1>1, <1>4, PoolBegins
<1>6. s \in Seq(CapReturn)
  OBVIOUS
<1> HIDE DEF cp, s
<1>7. /\ Nexted(mem, mem, b, cp, tg, pd, next_token, r)
      /\ Fine(mem, r.backlog, r.cap, tg, pd, next_token, s, cm, cliMem)
  BY <1>1, <1>2, <1>3, <1>4, <1>5, <1>6, FineNexts
<1>8. /\ r.target = tg /\ r.pending = pd /\ r.backlog \in Seq(ImportEntry)
      /\ r.cap \in [CapSlots -> Frame]
  BY <1>7 DEF Nexted
<1>9. requeue_capture(mem, r.cap, tg) \in [CapSlots -> Frame]
  <2>1. NoToken \in Tokens \cup {NoToken} /\ None \in Targets \cup {None, Scratch}
    OBVIOUS
  <2> QED BY <1>8, <2>1, PoolTypes
<1>10. Fine(mem, r.backlog, requeue_capture(mem, r.cap, tg), tg, pd, next_token, s, cm, cliMem)
  BY <1>6, <1>7, <1>8, Requeued
<1> QED BY <1>1, <1>8, <1>9, <1>10 DEF s

\* configure_capture, whether it throws or not.
LEMMA ConfigureFine ==
  ASSUME TypeOK, NEW tg, NEW pd, Typed(tg, pd), Agree(tg, pd), next_token \in Nat \ {0},
         \A k \in Tokens : pd[k] # None => k < next_token,
         \A t \in Targets : tg[t].frame = NoFrame,
         NEW done,
         Fine(memory, import_backlog, cap, tg, pd, next_token, done, capMem, cliMem),
         configure_capture(tg, pd) \/ configure_capture_throws(tg, pd),
         capDone = <<>>, UNCHANGED <<next_token, capDone, cliMem>>
  PROVE  FineNext
<1> DEFINE N(b, n, late) ==
      ImportNext(PoolMemory(tg, pd), fwGeom, b, fresh_capture, tg, pd, n, late)
<1>1. CASE configure_capture(tg, pd)
  <2>0. PICK b \in Backlogs(tg, pd) : \E n \in Dropped(b, tg, pd) :
          /\ StartPool(tg, pd, b, N(b, n, FALSE))
          /\ target' = N(b, n, FALSE).target /\ pending' = N(b, n, FALSE).pending
          /\ import_backlog' = N(b, n, FALSE).backlog
    BY <1>1, Zenon DEF configure_capture
  <2>1. PICK n \in Dropped(b, tg, pd) :
          /\ StartPool(tg, pd, b, N(b, n, FALSE))
          /\ target' = N(b, n, FALSE).target /\ pending' = N(b, n, FALSE).pending
          /\ import_backlog' = N(b, n, FALSE).backlog
    BY <2>0, Zenon
  <2> DEFINE late == FALSE
             r    == N(b, n, late)
  <2>2. late \in BOOLEAN
        /\ r = ImportNext(PoolMemory(tg, pd), fwGeom, b, fresh_capture, tg, pd, n, late)
    OBVIOUS
  <2>3. /\ StartPool(tg, pd, b, r) /\ target' = r.target /\ pending' = r.pending
        /\ import_backlog' = r.backlog
    BY <2>1
  <2> HIDE DEF r, N, late
  <2>4. /\ r.target = tg /\ r.pending = pd
        /\ Fine(memory', r.backlog, cap', tg, pd, next_token, <<>>, capMem', cliMem)
    BY <2>2, <2>3, PoolGoes
  <2> QED BY <2>3, <2>4 DEF FineNext
<1>2. CASE configure_capture_throws(tg, pd)
  <2>1. CASE /\ memory' = "Unallocated" /\ cap' = fresh_capture
             /\ Unwind("Configured", tg, pd, import_backlog) /\ UNCHANGED capMem
    <3> DEFINE b == import_backlog
               mem == "Unallocated"
    <3>1. b \in Seq(ImportEntry) /\ fresh_capture \in [CapSlots -> Frame]
      BY DEF TypeOK, fresh_capture, IdleFrame, Frame, NoToken
    <3>2. Lengthened(b, tg, pd)
      <4>1. DOMAIN b = 1..Len(b) /\ Len(b) \in Nat
        BY <3>1, LenProperties
      <4>2. \A i, j \in DOMAIN b : i \in DOMAIN import_backlog /\ j \in DOMAIN import_backlog
        OBVIOUS
      <4> QED BY <4>2 DEF Lengthened
    <3> HIDE DEF b, mem
    <3>3. Fine(mem, b, fresh_capture, tg, pd, next_token, <<>>, capMem, cliMem)
      BY <2>1, <3>1, <3>2, PoolBegins DEF mem
    <3>4. Unwind("Configured", tg, pd, b)
      BY <2>1 DEF b
    <3>5. Fine(mem, import_backlog', fresh_capture, target', pending', next_token, <<>>, capMem,
               cliMem)
      BY <3>1, <3>3, <3>4, FineUnwinds
    <3> QED BY <2>1, <3>5 DEF FineNext, mem
  <2>2. CASE \E b \in Backlogs(tg, pd), late \in BOOLEAN : \E n \in Dropped(b, tg, pd) :
               /\ StartPool(tg, pd, b, N(b, n, late))
               /\ Unwind("Configured", N(b, n, late).target, N(b, n, late).pending,
                         N(b, n, late).backlog)
    <3>0. PICK b \in Backlogs(tg, pd), late \in BOOLEAN : \E n \in Dropped(b, tg, pd) :
            /\ StartPool(tg, pd, b, N(b, n, late))
            /\ Unwind("Configured", N(b, n, late).target, N(b, n, late).pending,
                      N(b, n, late).backlog)
      BY <2>2, Zenon
    <3>1. PICK n \in Dropped(b, tg, pd) :
            /\ StartPool(tg, pd, b, N(b, n, late))
            /\ Unwind("Configured", N(b, n, late).target, N(b, n, late).pending,
                      N(b, n, late).backlog)
      BY <3>0, Zenon
    <3> DEFINE r == N(b, n, late)
    <3>2. r = ImportNext(PoolMemory(tg, pd), fwGeom, b, fresh_capture, tg, pd, n, late)
      OBVIOUS
    <3>3. StartPool(tg, pd, b, r) /\ Unwind("Configured", r.target, r.pending, r.backlog)
      BY <3>1
    <3> HIDE DEF r, N
    <3>4. /\ r.target = tg /\ r.pending = pd /\ r.backlog \in Seq(ImportEntry)
          /\ cap' \in [CapSlots -> Frame]
          /\ Fine(memory', r.backlog, cap', tg, pd, next_token, <<>>, capMem', cliMem)
      BY <3>2, <3>3, PoolGoes
    <3> DEFINE q == r.backlog
    <3>5. /\ q \in Seq(ImportEntry) /\ Unwind("Configured", tg, pd, q)
          /\ Fine(memory', q, cap', tg, pd, next_token, <<>>, capMem', cliMem)
      BY <3>3, <3>4
    <3> HIDE DEF q
    <3>6. Fine(memory', import_backlog', cap', target', pending', next_token, <<>>, capMem',
               cliMem)
      BY <3>4, <3>5, FineUnwinds
    <3> QED BY <3>6 DEF FineNext
  <2> QED BY <1>2, <2>1, <2>2, Zenon DEF configure_capture_throws
<1> QED BY <1>1, <1>2

\* Live pictures carry tokens that were given out.
LEMMA LiveTokens ==
  ASSUME PixelInv, NEW k \in Tokens, pending[k] # None
  PROVE  k < next_token
<1>1. next_token \in Nat /\ ~(k >= next_token)
  BY PixelTypes DEF PixelInv, SettledInv, Unused
<1> QED BY <1>1 DEF Tokens

\* A sequence without an index is empty.
LEMMA EmptyDomain ==
  ASSUME NEW S, NEW q \in Seq(S), DOMAIN q = {}
  PROVE  q = <<>>
<1>1. Len(q) \in Nat /\ DOMAIN q = 1..Len(q)
  BY LenProperties
<1>2. 1 \notin DOMAIN q
  OBVIOUS
<1>3. Len(q) \notin Nat \ {0}
  BY <1>1, <1>2
<1> QED BY <1>3, EmptySeq

\* Without a pool nothing waits for DQBUF, and nothing is held.
LEMMA NoPool ==
  ASSUME PixelInv, memory = "Unallocated"
  PROVE  capDone = <<>> /\ \A t \in Targets : target[t].frame = NoFrame
<1>1. \A c \in CapSlots : ~cap[c].queued
  BY DEF PixelInv, Sound, PoolOK
<1>2. capDone \in Seq(CapReturn)
  BY PixelTypes
<1>3. DOMAIN capDone = {}
  BY <1>1, <1>2, DoneSlots DEF PixelInv, Returned
<1>4. capDone = <<>>
  BY <1>2, <1>3, EmptyDomain
<1> QED BY <1>4 DEF PixelInv, Sound, PoolOK

\* The picture that is being submitted is left alone.
LEMMA StagesCalled ==
  ASSUME PixelInv, AfterUnwind(target, pending), state' = "Streaming",
         pc' \notin {"configure", "rebuild"}, UNCHANGED <<call, arg>>
  PROVE  Stages'
<1>1. call \in {"submit", "slot"} => target'[arg] = target[arg]
  BY DEF PixelInv, SettledInv, TypeInv, CallShape, Places, AfterUnwind, Settles
<1> QED BY <1>1 DEF PixelInv, Stages

\* configure_capture from pump().
LEMMA ConfigureStepFine ==
  ASSUME PixelInv, Configure PROVE FineNext /\ Stages'
<1>1. /\ pc = "configure" /\ state = "Configured" /\ TypeOK
      /\ UNCHANGED <<next_token, capDone, cliMem>>
      /\ Typed(target, pending) /\ Agree(target, pending)
  BY PixelTypes DEF Configure, poolRest, PixelInv, Stages, SettledInv, TypeInv
<1>2. ASSUME memory = "Unallocated",
             configure_capture(target, pending) \/ configure_capture_throws(target, pending)
      PROVE  FineNext
  <2>1. /\ capDone = <<>> /\ \A t \in Targets : target[t].frame = NoFrame
        /\ next_token \in Nat \ {0}
    BY <1>2, NoPool, PixelTypes
  <2>2. Fine(memory, import_backlog, cap, target, pending, next_token, capDone, capMem, cliMem)
    BY Begins DEF FineHere
  <2>3. \A k \in Tokens : pending[k] # None => k < next_token
    BY LiveTokens
  <2> QED BY <1>1, <1>2, <2>1, <2>2, <2>3, ConfigureFine
<1>3. CASE /\ memory = "Unallocated"
           /\ configure_capture(target, pending) /\ Goto("outputs")
  <2>1. state' = "Streaming" /\ AfterUnwind(target, pending)
    BY <1>1, <1>3, ConfigureSettles
  <2>2. Stages'
    BY <1>3, <2>1, StagesCalled DEF Goto
  <2> QED BY <1>2, <1>3, <2>2
<1>4. CASE /\ memory = "Unallocated"
           /\ configure_capture_throws(target, pending) /\ Return("error")
  <2>1. state' # "Reconfiguring"
    BY <1>4, Zenon DEF configure_capture_throws, Unwind, Fail
  <2>2. Stages'
    BY <1>4, <2>1 DEF Stages, Return
  <2> QED BY <1>2, <1>4, <2>2
<1>5. CASE /\ Throw(state, target, pending, import_backlog)
           /\ UNCHANGED <<cap, memory, phase, capMem>>
  <2>1. FineNext
    BY <1>1, <1>5, StillUnwinds DEF Throw
  <2>2. Stages'
    BY <1>1, <1>5, StagesThrow DEF Throw
  <2> QED BY <2>1, <2>2
<1> QED BY <1>3, <1>4, <1>5, Zenon DEF Configure

\* continue_reconfigure, in a pass.
LEMMA ReconfigureFine ==
  ASSUME PixelInv, Reconfigure, state = "Reconfiguring" PROVE FineNext /\ Stages'
<1>1. /\ TypeOK /\ UNCHANGED <<next_token, capDone, cliMem>> /\ capDone = <<>>
      /\ Typed(target, pending) /\ Agree(target, pending)
  BY PixelTypes DEF Reconfigure, poolRest, PixelInv, Stages, SettledInv, TypeInv
<1>2. ASSUME ~Deferred(target),
             configure_capture(target, pending) \/ configure_capture_throws(target, pending)
      PROVE  FineNext
  <2>1. \A t \in Targets : target[t].frame = NoFrame
    BY <1>1, <1>2 DEF Deferred, capture_held, held, Typed, Target
  <2>2. /\ Fine(memory, import_backlog, cap, target, pending, next_token, capDone, capMem, cliMem)
        /\ next_token \in Nat \ {0}
    BY Begins, PixelTypes DEF FineHere
  <2>3. \A k \in Tokens : pending[k] # None => k < next_token
    BY LiveTokens
  <2> QED BY <1>1, <1>2, <2>1, <2>2, <2>3, ConfigureFine
<1>3. CASE /\ pc' = "return"
           /\ UNCHANGED <<state, target, pending, import_backlog, cap, memory, phase, capMem, call,
                          arg>>
  <2>1. FineNext
    BY <1>1, <1>3, Still
  <2>2. Stages'
    BY <1>1, <1>3, StagesKept
  <2> QED BY <2>1, <2>2
<1>4. CASE /\ ~Deferred(target) /\ configure_capture(target, pending)
           /\ pc' = "return" /\ UNCHANGED <<call, arg>>
  <2>1. state' = "Streaming" /\ AfterUnwind(target, pending)
    BY <1>1, <1>4, ConfigureSettles
  <2>2. Stages'
    BY <1>4, <2>1, StagesCalled
  <2> QED BY <1>2, <1>4, <2>2
<1>5. CASE /\ ~Deferred(target) /\ configure_capture_throws(target, pending) /\ Return("error")
  <2>1. state' # "Reconfiguring"
    BY <1>5, Zenon DEF configure_capture_throws, Unwind, Fail
  <2>2. Stages'
    BY <1>5, <2>1 DEF Stages, Return
  <2> QED BY <1>2, <1>5, <2>2
<1> QED BY <1>3, <1>4, <1>5, Zenon DEF Reconfigure

\* The end of a pass, and of the drain of a resolution change.
LEMMA TailsFine ==
  ASSUME PixelInv, PumpTail \/ Rebuild PROVE FineNext /\ Stages'
<1>1. CASE Reconfigure /\ (state = "Reconfiguring" \/ pc = "rebuild")
  BY <1>1, ReconfigureFine DEF PixelInv, Stages
<1>2. CASE UNCHANGED drainRest /\ BeginDrain("drc") /\ UNCHANGED <<call, arg>>
  <2>1. /\ UNCHANGED <<memory, import_backlog, cap, target, pending, next_token, capDone, capMem,
                       cliMem, call, arg>>
        /\ pc' = "drain" /\ state' = "Draining"
    BY <1>2 DEF BeginDrain, drainRest
  <2>2. Stages'
    BY <2>1 DEF PixelInv, Stages
  <2> QED BY <2>1, <2>2, Still
<1>3. CASE UNCHANGED drainRest /\ StopBusy("drc") /\ Return("error")
  <2>1. /\ UNCHANGED <<memory, cap, next_token, capDone, capMem, cliMem, phase>>
        /\ Fail(target, pending) /\ Return("error")
    BY <1>3 DEF StopBusy, drainRest
  <2>2. FineNext
    BY <2>1, StillUnwinds
  <2>3. state' # "Reconfiguring"
    BY <2>1 DEF Fail
  <2>4. Stages'
    BY <2>1, <2>3, StagesEnd
  <2> QED BY <2>2, <2>4
<1>4. CASE /\ cap' = requeue_capture(memory, cap, target) /\ Goto("return")
           /\ UNCHANGED <<state, target, pending, next_token, memory, import_backlog, decoderVars>>
  <2>1. UNCHANGED <<capDone, capMem, cliMem, phase>>
    BY <1>4 DEF decoderVars
  <2>2. FineNext
    BY <1>4, <2>1, StillRequeued
  <2>3. Stages'
    BY <1>4, <2>1, StagesKept DEF Goto
  <2> QED BY <2>2, <2>3
<1> QED BY <1>1, <1>2, <1>3, <1>4, Zenon DEF PumpTail, Rebuild

\* The token of a target leaves the map with it.
LEMMA TokenLeaves ==
  ASSUME NEW tg, NEW pd, Typed(tg, pd), Agree(tg, pd), NEW t \in Targets,
         NEW pd2, pd2 = release_token(tg, pd, t)
  PROVE  \A j \in Tokens : pd2[j] # t /\ pd2[j] \in {pd[j], None}
<1>1. t # None
  BY SlotsAssumption
<1>2. \A j \in Tokens : pd2[j] = IF tg[t].pending /\ j = tg[t].token THEN None ELSE pd[j]
  BY DEF release_token, Erase
<1>3. \A j \in Tokens : pd[j] = t => tg[t].pending /\ j = tg[t].token
  BY <1>1 DEF Agree
<1> QED BY <1>1, <1>2, <1>3

\* A surface is released; the pool of another geometry may have waited for that.
LEMMA ReleaseFine ==
  ASSUME PixelInv, NEW t \in Targets, Release(t) PROVE FineNext /\ Stages'
<1> DEFINE x  == Released(target[t])
           tg == release_target(target, t)
           pd == release_token(target, pending, t)
<1>1. /\ call = "none" /\ pc = "idle" /\ UNCHANGED <<call, arg, pc>>
      /\ Typed(target, pending) /\ Agree(target, pending) /\ target[t] \in Target
      /\ TypeOK /\ UNCHANGED <<next_token, capDone, cliMem>>
  <2>1. UNCHANGED <<next_token, capDone, cliMem>>
    BY Zenon DEF Release, poolRest, decoderVars
  <2> QED BY <2>1, PixelTypes DEF Release, PixelInv, SettledInv, Places, TypeInv, Typed
<1>2. /\ x \in Target /\ ~x.pending /\ ~x.completed /\ ~x.error /\ x.frame = NoFrame
      /\ x.token = NoToken
  BY <1>1 DEF Released, Target, NoFrame, NoToken
<1>3. tg = [target EXCEPT ![t] = x]
  BY DEF release_target
<1>4. \A j \in Tokens : pd[j] # t /\ pd[j] \in {pending[j], None}
  BY <1>1, TokenLeaves
<1>5. Typed(tg, pd) /\ Agree(tg, pd)
  <2>1. Typed(tg, pd)
    BY <1>1, <1>2, <1>3 DEF Typed, release_token, Erase
  <2>2. Agree([target EXCEPT ![t] = x], pd)
    <3> HIDE DEF x
    <3> QED BY <1>1, <1>2, ReleaseSettles
  <2> QED BY <1>3, <2>1, <2>2
<1> HIDE DEF x, tg, pd
<1>6. Fine(memory, import_backlog, cap, tg, pd, next_token, capDone, capMem, cliMem)
  <2>1. Fine(memory, import_backlog, cap, target, pending, next_token, capDone, capMem, cliMem)
    BY Begins DEF FineHere
  <2>2. Fine(memory, import_backlog, cap, [target EXCEPT ![t] = x], pd, next_token, capDone,
             capMem, cliMem)
    BY <1>1, <1>2, <1>4, <2>1, PixelTypes, FineReplaces
  <2> QED BY <1>3, <2>2
<1>7. CASE /\ target' = tg /\ pending' = pd
           /\ UNCHANGED <<state, cap, memory, import_backlog, decoderVars>>
  <2>1. UNCHANGED <<capMem, phase>>
    BY <1>7 DEF decoderVars
  <2>2. FineNext
    BY <1>1, <1>6, <1>7, <2>1 DEF FineNext
  <2>3. Stages'
    BY <1>1, <1>7, <2>1, StagesKept
  <2> QED BY <2>2, <2>3
<1>8. CASE /\ state = "Reconfiguring" /\ ~Deferred(tg)
           /\ configure_capture(tg, pd) \/ configure_capture_throws(tg, pd)
  <2>1. capDone = <<>> /\ next_token \in Nat \ {0}
    BY <1>8, PixelTypes DEF PixelInv, Stages
  <2>2. \A u \in Targets : tg[u].frame = NoFrame
    BY <1>5, <1>8 DEF Deferred, capture_held, held, Typed, Target
  <2>3. \A k \in Tokens : pd[k] # None => k < next_token
    BY <1>4, LiveTokens
  <2>4. FineNext
    BY <1>1, <1>5, <1>6, <1>8, <2>1, <2>2, <2>3, ConfigureFine
  <2>5. state' # "Reconfiguring"
    BY <1>8, Zenon DEF configure_capture, configure_capture_throws, Unwind, Fail
  <2>6. Stages'
    BY <1>1, <2>5 DEF Stages
  <2> QED BY <2>4, <2>6
<1> QED BY <1>7, <1>8, Zenon DEF Release, tg, pd

\* submit() takes the surface back before its first pass.
LEMMA SubmitFine ==
  ASSUME PixelInv, NEW t \in Targets, NEW p \in Policies, Submit(t, p)
  PROVE  FineNext /\ Stages'
<1> DEFINE q  == IF target[t].pending THEN Released(target[t]) ELSE target[t]
           x  == [q EXCEPT !.publish = p, !.destination = (p # "Direct")]
           pd == release_token(target, pending, t)
           tg == [target EXCEPT ![t] = x]
           rq == requeue_capture(memory, cap, tg)
<1>1. /\ target' = tg /\ pending' = pd
      /\ call' = "submit" /\ arg' = t /\ pc' \in {"return", "events"}
      /\ cap' \in {cap, rq}
      /\ UNCHANGED <<state, memory, import_backlog, next_token, capDone, capMem, cliMem, phase>>
  BY DEF Submit, PumpStart, decoderVars
<1>2. /\ Typed(target, pending) /\ Agree(target, pending) /\ target[t] \in Target
      /\ p \in {"Direct", "Copy", "Import"}
  BY PixelTypes, SessionAssumption DEF Typed
<1>3. /\ q \in Target /\ q.pending = FALSE
      /\ q.completed => target[t].completed /\ q = target[t]
      /\ q.frame # NoFrame => q = target[t]
  BY <1>2 DEF Released, Target, NoFrame, NoToken
<1> HIDE DEF q
<1>4. /\ x \in Target /\ x.pending = FALSE /\ x.completed = q.completed /\ x.error = q.error
      /\ x.frame = q.frame /\ x.token = q.token
      /\ x.publish = p /\ x.destination = (p # "Direct")
  BY <1>2, <1>3 DEF Target
<1> HIDE DEF x
<1>5. \A j \in Tokens : pd[j] # t /\ pd[j] \in {pending[j], None}
  BY <1>2, TokenLeaves
<1>6. /\ x.completed => ~x.error
      /\ x.frame # NoFrame => x.completed
      /\ x.frame # NoFrame =>
           capMem[x.frame] = x.token /\ memory = "Mmap" /\ ~cap[x.frame].queued
  <2>1. q.completed => ~q.error
    BY <1>3 DEF PixelInv, Sound, Fated
  <2>2. ASSUME q.frame # NoFrame
        PROVE  /\ q.completed /\ capMem[q.frame] = q.token /\ memory = "Mmap"
               /\ ~cap[q.frame].queued
    <3>1. q = target[t] /\ target[t].frame \in CapSlots
      BY <1>2, <1>3, <2>2 DEF Target
    <3> QED BY <2>2, <3>1 DEF PixelInv, Sound, Fated, PoolOK, FramePixels
  <2> QED BY <1>4, <2>1, <2>2
<1>7. Shown(memory, import_backlog, cap, target, cliMem) /\ x.completed =>
        /\ memory = "Import" => NotUsed(import_backlog, cap, t)
        /\ x.frame = NoFrame => cliMem[t] = x.token
  BY <1>3, <1>4 DEF Shown, Unshown, BufferPixels
<1> HIDE DEF pd
<1>8. Fine(memory, import_backlog, cap, tg, pd, next_token, capDone, capMem, cliMem)
  <2>1. Fine(memory, import_backlog, cap, target, pending, next_token, capDone, capMem, cliMem)
    BY Begins DEF FineHere
  <2>2. ~x.pending
    BY <1>4
  <2> QED BY <1>2, <1>4, <1>5, <1>6, <1>7, <2>1, <2>2, PixelTypes, FineReplaces
<1> HIDE DEF tg
<1>9. Fine(memory, import_backlog, rq, tg, pd, next_token, capDone, capMem, cliMem)
  BY <1>8, PixelTypes, Requeued
<1>10. FineNext
  BY <1>1, <1>8, <1>9 DEF FineNext
<1>11. target'[t].publish = p /\ target'[t].destination = (p # "Direct")
  BY <1>1, <1>2, <1>4 DEF tg, Typed
<1>12. Stages'
  BY <1>1, <1>11 DEF PixelInv, Stages, Wanting
<1> QED BY <1>10, <1>12

-----------------------------------------------------------------------------
(* The decoder.                                                            *)

\* The decoder gives a buffer back.
LEMMA GivesBack ==
  ASSUME NEW cp, NEW done \in Seq(CapReturn), NEW cm, NEW lm, Returned(cp, done, cm, lm),
         NEW v \in CapReturn, cp[v.slot].queued,
         \A i \in DOMAIN done : done[i].slot # v.slot,
         NEW cm2, NEW lm2,
         \A i \in DOMAIN done :
           Behind(cp, done[i].slot, cm2, lm2) = Behind(cp, done[i].slot, cm, lm),
         v.payload /\ ~v.error => v.ts \in Tokens /\ v.ts = Behind(cp, v.slot, cm2, lm2),
         NEW done2, done2 = Append(done, v)
  PROVE  done2 \in Seq(CapReturn) /\ Returned(cp, done2, cm2, lm2)
<1> DEFINE l == Len(done)
<1>1. DOMAIN done = 1..l /\ l \in Nat
  BY LenProperties
<1>2. /\ done2 \in Seq(CapReturn) /\ Len(done2) = l + 1
      /\ \A i \in 1..l : done2[i] = done[i]
      /\ done2[l + 1] = v
  BY AppendProperties
<1>3. DOMAIN done2 = 1..(l + 1)
  BY <1>2, LenProperties
<1> HIDE DEF l
<1>4. \A i \in DOMAIN done2 : (i \in DOMAIN done /\ done2[i] = done[i]) \/ (i = l + 1 /\ done2[i] = v)
  BY <1>1, <1>2, <1>3
<1>5. \A i \in DOMAIN done2 : cp[done2[i].slot].queued
  BY <1>4 DEF Returned
<1>6. \A i, j \in DOMAIN done2 : done2[i].slot = done2[j].slot => i = j
  BY <1>4 DEF Returned
<1>7. \A i \in DOMAIN done2 : done2[i].payload /\ ~done2[i].error =>
        done2[i].ts \in Tokens /\ done2[i].ts = Behind(cp, done2[i].slot, cm2, lm2)
  BY <1>4 DEF Returned
<1> QED BY <1>2, <1>5, <1>6, <1>7 DEF Returned

\* A picture is lost, or LAST comes: nothing is written.
LEMMA SpoilFine ==
  ASSUME PixelInv, Firmware, NEW c \in CapSlots,
         FwLast(c) \/ \E k \in Tokens : FwSpoil(k, c)
  PROVE  FineNext
<1>1. /\ UNCHANGED <<memory, import_backlog, cap, target, pending, next_token, capMem, cliMem>>
      /\ Owned(c)
  BY DEF Firmware, driverVars, FwLast, FwSpoil
<1>2. PICK v \in CapReturn : /\ capDone' = Append(capDone, v) /\ v.slot = c
                             /\ ~(v.payload /\ ~v.error)
  <2>1. CASE FwLast(c)
    <3> DEFINE w == [slot |-> c, ts |-> NoToken, last |-> TRUE, error |-> FALSE, payload |-> FALSE]
    <3>1. w \in CapReturn /\ capDone' = Append(capDone, w) /\ w.slot = c /\ ~w.payload
      BY <2>1 DEF FwLast, Emit, CapReturn, NoToken
    <3> HIDE DEF w
    <3> QED BY <3>1
  <2>2. ASSUME NEW k \in Tokens, FwSpoil(k, c)
        PROVE  \E v \in CapReturn : /\ capDone' = Append(capDone, v) /\ v.slot = c
                                    /\ ~(v.payload /\ ~v.error)
    <3>1. ASSUME NEW ts \in Tokens \cup {NoToken}, NEW error \in BOOLEAN, NEW payload \in BOOLEAN,
                 Emit(c, ts, FALSE, error, payload), ~(payload /\ ~error)
          PROVE  \E v \in CapReturn : /\ capDone' = Append(capDone, v) /\ v.slot = c
                                      /\ ~(v.payload /\ ~v.error)
      <4> DEFINE w == [slot |-> c, ts |-> ts, last |-> FALSE, error |-> error, payload |-> payload]
      <4>1. w \in CapReturn /\ capDone' = Append(capDone, w) /\ w.slot = c
            /\ ~(w.payload /\ ~w.error)
        BY <3>1 DEF Emit, CapReturn
      <4> HIDE DEF w
      <4> QED BY <4>1
    <3>2. CASE Emit(c, NoToken, FALSE, TRUE, FALSE)
      BY <3>1, <3>2
    <3>3. CASE Emit(c, k, FALSE, TRUE, TRUE)
      BY <3>1, <3>3
    <3>4. CASE Emit(c, k, FALSE, FALSE, FALSE)
      BY <3>1, <3>4
    <3> QED BY <2>2, <3>2, <3>3, <3>4 DEF FwSpoil
  <2> QED BY <2>1, <2>2
<1>3. capDone \in Seq(CapReturn) /\ Returned(cap, capDone, capMem, cliMem)
  BY PixelTypes DEF PixelInv
<1>4. cap[v.slot].queued /\ \A i \in DOMAIN capDone : capDone[i].slot # v.slot
  BY <1>1, <1>2 DEF Owned
<1>5. Returned(cap, capDone', capMem, cliMem)
  BY <1>2, <1>3, <1>4, GivesBack
<1>6. FineHere
  BY Begins
<1> QED BY <1>1, <1>5, <1>6 DEF FineHere, FineNext, Fine

\* A picture is written: not over one that a surface shows.
LEMMA EmitFine ==
  ASSUME PixelInv, Firmware, NEW c \in CapSlots, NEW k \in Tokens, FwEmit(k, c)
  PROVE  FineNext
<1> DEFINE v == [slot |-> c, ts |-> k, last |-> FALSE, error |-> FALSE, payload |-> TRUE]
<1>1. /\ UNCHANGED <<memory, import_backlog, cap, target, pending, next_token>>
      /\ Owned(c) /\ Write(k, c) /\ capDone' = Append(capDone, v)
  BY DEF Firmware, driverVars, FwEmit, Emit
<1>2. v \in CapReturn /\ v.slot = c /\ v.ts = k
  BY DEF CapReturn
<1> HIDE DEF v
<1>3. /\ capDone \in Seq(CapReturn) /\ Returned(cap, capDone, capMem, cliMem)
      /\ capMem \in [CapSlots -> Tokens \cup {NoToken}]
      /\ cliMem \in [Targets -> Tokens \cup {NoToken}]
      /\ \A i \in DOMAIN capDone : capDone[i].slot \in CapSlots
  BY PixelTypes, DoneSlots DEF PixelInv
<1>4. cap[c].queued /\ \A i \in DOMAIN capDone : capDone[i].slot # c
  BY <1>1 DEF Owned
<1>5. FineHere
  BY Begins
<1>6. CASE cap[c].buf \in Targets
  <2> DEFINE u == cap[c].buf
  <2>1. cliMem' = [cliMem EXCEPT ![u] = k] /\ capMem' = capMem
    BY <1>1, <1>6 DEF Write
  <2>2. memory = "Import"
    BY <1>6, SlotsAssumption DEF PixelInv, Sound, PoolOK
  <2>3. \A i \in DOMAIN capDone : FALSE
    BY <1>3, <1>4, <2>2 DEF PixelInv, Sound, PoolOK, Returned
  <2>4. Behind(cap, c, capMem', cliMem') = k
    BY <1>3, <1>6, <2>1 DEF Behind
  <2>5. Returned(cap, capDone', capMem', cliMem')
    BY <1>1, <1>2, <1>3, <1>4, <2>3, <2>4, GivesBack
  <2>6. FramePixels(target, capMem')
    BY <2>1 DEF PixelInv, FramePixels
  <2>7. ASSUME Shown(memory, import_backlog, cap, target, cliMem)
        PROVE  Shown(memory, import_backlog, cap, target, cliMem')
    <3>1. \A t \in Targets : target[t].completed => t # u
      BY <2>2, <2>7 DEF Shown, Unshown, NotUsed
    <3>2. \A t \in Targets : t # u => cliMem'[t] = cliMem[t]
      BY <1>3, <2>1
    <3> QED BY <2>7, <3>1, <3>2 DEF Shown, BufferPixels
  <2> QED BY <1>1, <1>5, <2>5, <2>6, <2>7 DEF FineHere, FineNext, Fine
<1>7. CASE cap[c].buf \notin Targets
  <2>1. capMem' = [capMem EXCEPT ![c] = k] /\ cliMem' = cliMem
    BY <1>1, <1>7 DEF Write
  <2>2. Behind(cap, c, capMem', cliMem') = k
    BY <1>3, <1>7, <2>1 DEF Behind
  <2>3. \A d \in CapSlots : d # c => Behind(cap, d, capMem', cliMem') = Behind(cap, d, capMem, cliMem)
    BY <1>3, <2>1 DEF Behind
  <2>4. \A i \in DOMAIN capDone :
          Behind(cap, capDone[i].slot, capMem', cliMem') = Behind(cap, capDone[i].slot, capMem, cliMem)
    BY <1>3, <1>4, <2>3
  <2>5. Returned(cap, capDone', capMem', cliMem')
    BY <1>1, <1>2, <1>3, <1>4, <2>2, <2>4, GivesBack
  <2>6. FramePixels(target, capMem')
    <3> SUFFICES ASSUME NEW t \in Targets, target[t].frame # NoFrame
                 PROVE  capMem'[target[t].frame] = target[t].token
      BY DEF FramePixels
    <3>1. target[t].frame \in CapSlots
      BY PixelTypes DEF Typed, Target
    <3>2. target[t].frame # c
      BY <1>4 DEF PixelInv, Sound, PoolOK
    <3> QED BY <1>3, <2>1, <3>1, <3>2 DEF PixelInv, FramePixels
  <2> QED BY <1>1, <1>5, <2>1, <2>5, <2>6 DEF FineHere, FineNext, Fine
<1> QED BY <1>6, <1>7

\* Any step of the decoder.
LEMMA FirmwareFine ==
  ASSUME PixelInv, Firmware PROVE FineNext /\ Stages'
<1>1. FineNext
  <2>1. CASE \/ FwAnnounce \/ FwDecode \/ FwResolutionChange \/ FwReject
             \/ \E o \in OutSlots : FwReturnOutput(o)
    <3>1. UNCHANGED <<memory, import_backlog, cap, target, pending, next_token, capDone, capMem,
                      cliMem>>
      BY <2>1 DEF Firmware, driverVars, FwAnnounce, FwDecode, FwResolutionChange, FwReject,
                  FwReturnOutput
    <3> QED BY <3>1, Still
  <2> QED BY <2>1, SpoilFine, EmitFine DEF Firmware, FirmwareStep
<1>2. phase = "announced" => phase' = phase /\ capDone' = capDone
  BY DEF Firmware, FirmwareStep, FwAnnounce, FwDecode, FwResolutionChange, FwReject,
         FwReturnOutput, FwLast, FwEmit, FwSpoil, Decoding
<1>3. UNCHANGED <<state, pc, call, arg, target>>
  BY DEF Firmware, driverVars
<1> QED BY <1>1, <1>2, <1>3 DEF PixelInv, Stages, Wanting

-----------------------------------------------------------------------------
(* The invariant, and what it says.                                        *)

Showing == Shown(memory, import_backlog, cap, target, cliMem)

\* A new session has no pool, and no surface shows anything.
LEMMA PixelInit == Init => PixelInv /\ Showing
<1> SUFFICES ASSUME Init PROVE PixelInv /\ Showing
  OBVIOUS
<1>1. /\ state = "Configured" /\ memory = "Unallocated" /\ import_backlog = <<>>
      /\ cap = fresh_capture /\ capDone = <<>> /\ pc = "idle" /\ call = "none" /\ next_token = 1
      /\ \A t \in Targets : /\ target[t].pending = FALSE /\ target[t].completed = FALSE
                            /\ target[t].frame = NoFrame
  BY DEF Init, DecoderInit
<1>2. \A c \in CapSlots : cap[c] = IdleFrame
  BY <1>1 DEF fresh_capture
<1>3. \A c \in CapSlots : cap[c].queued = FALSE /\ cap[c].buf = None /\ cap[c].import_token = 0
  BY <1>2 DEF IdleFrame, NoToken
<1>4. 0 \notin Tokens /\ None \notin CapSlots
  BY SlotsAssumption DEF Tokens
<1>5. PoolOK(memory, cap, target)
  BY <1>1, <1>2, <1>3, <1>4 DEF PoolOK, NoFrame
<1>6. Fated(target)
  BY <1>1 DEF Fated
<1>7. Ordered(import_backlog, cap) /\ Owners(import_backlog, cap, target, pending)
      /\ Past(import_backlog, cap, next_token)
  BY <1>1, <1>3, <1>4 DEF Ordered, Owners, Owned1, Past
<1>8. Returned(cap, capDone, capMem, cliMem) /\ FramePixels(target, capMem) /\ Stages
  BY <1>1 DEF Returned, FramePixels, Stages
<1>9. Showing
  BY <1>1 DEF Showing, Shown, Unshown, BufferPixels
<1> QED BY <1>5, <1>6, <1>7, <1>8, <1>9, SettledInit DEF PixelInv, Sound

\* One case per action.
LEMMA StepFine ==
  ASSUME PixelInv, Next PROVE FineNext /\ Stages'
<1>1. CASE Client
  <2>1. ASSUME NEW t \in Targets, NEW p \in Policies, Submit(t, p)
        PROVE  FineNext /\ Stages'
    BY <2>1, SubmitFine
  <2>2. ASSUME NEW t \in Targets, WaitSettled(t)
        PROVE  FineNext /\ Stages'
    BY <2>2, FinishFine
  <2>3. ASSUME NEW t \in Targets, Wait(t)
        PROVE  FineNext /\ Stages'
    BY <2>3, PumpsFine DEF Wait, Calls
  <2>4. ASSUME NEW t \in Targets, Release(t)
        PROVE  FineNext /\ Stages'
    BY <2>4, ReleaseFine
  <2>5. CASE Service
    BY <2>5, PumpsFine DEF Service, Calls
  <2>6. CASE Finish
    BY <2>6, FinishFine
  <2> QED BY <1>1, <2>1, <2>2, <2>3, <2>4, <2>5, <2>6 DEF Client
<1>2. ASSUME NEW t \in Targets, Relock(t)
      PROVE  FineNext /\ Stages'
  BY <1>2, PumpsFine DEF Relock, Calls
<1>3. CASE Working
  BY <1>3, TurnsFine, ConfigureStepFine, ReturnOutputFine, ReturnCaptureFine, TailsFine,
     DrainTurnFine, DrainedFine, ReturnsFine, AcceptFine DEF Working
<1>4. CASE Looping \/ Expiring \/ DequeueError
  <2>1. CASE SubmitLoops
    <3>1. "none" \in Calls
      BY DEF Calls
    <3> QED BY <2>1, <3>1, PumpsFine
  <2> QED BY <1>4, <2>1, ReturnsFine, ExpiresFine, WaitExpiresFine DEF Looping, Expiring
<1>5. CASE Firmware
  BY <1>5, FirmwareFine
<1> QED BY <1>1, <1>2, <1>3, <1>4, <1>5 DEF Next

\* Every step of the specification keeps them.
LEMMA PixelStep == PixelInv /\ [Next]_vars => PixelInv' /\ (Showing /\ CleanStart => Showing')
<1> SUFFICES ASSUME PixelInv, [Next]_vars
             PROVE  PixelInv' /\ (Showing /\ CleanStart => Showing')
  OBVIOUS
<1>1. SettledInv'
  BY SettledStep DEF PixelInv
<1>2. FineNext /\ Stages'
  <2>1. CASE Next
    BY <2>1, StepFine
  <2>2. CASE UNCHANGED vars
    <3>1. UNCHANGED <<memory, import_backlog, cap, target, pending, next_token, capDone, capMem,
                      cliMem, state, pc, phase, call, arg>>
      BY <2>2 DEF vars, driverVars, decoderVars
    <3>2. Stages'
      BY <3>1 DEF PixelInv, Stages, Wanting
    <3> QED BY <3>1, <3>2, Still
  <2> QED BY <2>1, <2>2
<1> QED BY <1>1, <1>2 DEF PixelInv, FineNext, Fine, Showing

\* And so they hold in every reachable state.
LEMMA AlwaysPixels == Spec => []PixelInv
<1>1. PixelInv /\ [Next]_vars => PixelInv'
  BY PixelStep
<1> QED BY <1>1, PixelInit, PTL DEF Spec

\* The firmware never owns a slot whose pixels a surface still holds
\* (architecture.md section 10, invariant 2; requeue_capture, publish()).
THEOREM HeldSlotsStay == Spec => []HeldNotQueued
<1>1. PixelInv => HeldNotQueued
  BY DEF PixelInv, Sound, PoolOK, HeldNotQueued, held
<1> QED BY <1>1, AlwaysPixels, PTL

\* At most one client buffer is with the firmware, and the scratch buffer never
\* next to one (architecture.md section 10, invariant 9; queue_import_next).
THEOREM OneBufferAtATime == Spec => []ImportWindow
<1>1. PixelInv => ImportWindow
  <2> SUFFICES ASSUME PixelInv, memory = "Import"
               PROVE  Cardinality(capture_queued(cap)) <= 1
    BY DEF ImportWindow
  <2> DEFINE Q == capture_queued(cap)
  <2>1. \A c, d \in Q : c = d
    BY DEF PixelInv, Sound, PoolOK, capture_queued
  <2> HIDE DEF Q
  <2>2. CASE Q = {}
    BY <2>2, FS_EmptySet DEF Q
  <2>3. CASE Q # {}
    <3>1. PICK c \in Q : TRUE
      BY <2>3
    <3>2. Q = {c}
      BY <2>1, <3>1
    <3>3. Cardinality({c}) = 1
      BY FS_Singleton, Zenon
    <3>4. Cardinality(Q) = 1
      BY <3>2, <3>3
    <3> QED BY <3>4 DEF Q
  <2> QED BY <2>2, <2>3
<1> QED BY <1>1, AlwaysPixels, PTL

\* What the buffers show, and what a CAPTURE slot shows, is what the property asks.
LEMMA ShowingPixels == PixelInv /\ Showing => PublishedPixels
BY DEF PixelInv, Showing, Shown, BufferPixels, FramePixels, PublishedPixels

\* A published surface shows its own picture, whole and unchanged, until it is
\* released, as long as no Import pool starts over leftovers of an earlier one
\* (publish(), requeue_capture(), queue_import_next(), configure_capture()).
THEOREM PicturesStay == Spec /\ [][CleanStart]_vars => []PublishedPixels
<1>1. Init => PixelInv /\ Showing
  BY PixelInit
<1>2. (PixelInv /\ Showing) /\ [Next]_vars /\ [CleanStart]_vars => (PixelInv /\ Showing)'
  <2> SUFFICES ASSUME PixelInv, Showing, [Next]_vars, [CleanStart]_vars
               PROVE  (PixelInv /\ Showing)'
    OBVIOUS
  <2>1. CASE CleanStart
    BY <2>1, PixelStep
  <2>2. CASE UNCHANGED vars
    <3>1. CleanStart
      BY <2>2 DEF CleanStart, vars, driverVars
    <3> QED BY <3>1, PixelStep
  <2> QED BY <2>1, <2>2
<1> QED BY <1>1, <1>2, ShowingPixels, PTL DEF Spec

-----------------------------------------------------------------------------
(* Session implements DecodePromise: every step of the session is a step   *)
(* of the promise or changes nothing that it speaks of.  A step is seen in *)
(* three parts: what happens to pictures and to syncs, and whether the     *)
(* session is closed.                                                      *)

\* The places of a drain.
DrainPcs == {"drain", "devents", "doutputs", "dcaptures", "flush", "drained"}

\* Which state the session is in at each place of a call, and whose drain it
\* is: a flush belongs to a wait() that has asked for it once.
Courses ==
  /\ pc = "configure" => state = "Configured"
  /\ pc = "rebuild" => state = "Reconfiguring"
  /\ pc \in DrainPcs => state = "Draining"
  /\ pc \in {"start", "soutputs"} => state = "RestartPending"
  /\ state = "Finished" => call \in {"none", "service", "wait"}
  /\ drain_for = "timeout" => call = "wait" /\ waiter[arg] = "drained"
  /\ drain_for = "drc" => pc \in DrainPcs \cup {"rebuild"}
  /\ pc = "rebuild" => drain_for = "drc"
  /\ call = "wait" => Waiting(arg)

\* A call that is over is nowhere.
LEMMA CoursesEnd ==
  ASSUME call' = "none", pc' = "idle", drain_for' = "none"
  PROVE  Courses'
BY DEF Courses, DrainPcs

\* A call begins.
LEMMA CoursesBegin ==
  ASSUME PixelInv, Courses, NEW c, NEW t, Enter(c, t), c \in {"service", "wait"},
         c = "wait" => waiter'[t] \in {"polling", "drained"}
  PROVE  Courses'
<1>1. pc = "idle" /\ drain_for = "none"
  BY DEF Enter, PixelInv, SettledInv, Places, PassPcs
<1>2. /\ call' = c /\ arg' = t /\ pc' \in {"return", "events"} /\ drain_for' = "none"
      /\ state' = state
  BY <1>1 DEF Enter, PumpStart
<1> QED BY <1>2 DEF Courses, DrainPcs, Waiting

\* The client's calls.
LEMMA CoursesClient ==
  ASSUME PixelInv, Courses, Client \/ \E t \in Targets : Relock(t)
  PROVE  Courses'
<1>1. call = "none" => pc = "idle" /\ drain_for = "none"
  BY DEF PixelInv, SettledInv, Places, PassPcs
<1>2. ASSUME NEW t \in Targets, NEW p \in Policies, Submit(t, p) PROVE Courses'
  <2>1. /\ call' = "submit" /\ arg' = t /\ pc' \in {"return", "events"}
        /\ drain_for' = "none" /\ state' = state /\ state # "Finished"
    BY <1>1, <1>2 DEF Submit, PumpStart
  <2> QED BY <2>1 DEF Courses, DrainPcs
<1>3. ASSUME NEW t \in Targets, WaitSettled(t) PROVE Courses'
  <2>1. call' = "none" /\ pc' = "idle" /\ drain_for' = "none"
    BY <1>1, <1>3 DEF WaitSettled
  <2> QED BY <2>1, CoursesEnd
<1>4. ASSUME NEW t \in Targets, Wait(t) PROVE Courses'
  <2>1. waiter'[t] = "polling"
    BY <1>4 DEF Wait, PixelInv, SettledInv, TypeInv, TypeOK
  <2> QED BY <2>1, <1>4, CoursesBegin DEF Wait
<1>5. ASSUME NEW t \in Targets, Relock(t) PROVE Courses'
  BY <1>5, CoursesBegin DEF Relock, Waiting
<1>6. ASSUME NEW t \in Targets, Release(t) PROVE Courses'
  <2>1. call' = "none" /\ pc' = "idle" /\ drain_for' = "none"
    BY <1>1, <1>6 DEF Release
  <2> QED BY <2>1, CoursesEnd
<1>7. CASE Service
  BY <1>7, CoursesBegin DEF Service
<1>8. CASE Finish
  <2>1. CASE call' = "finish" /\ BeginDrain("finish")
    BY <2>1 DEF BeginDrain, Courses, DrainPcs
  <2>2. CASE UNCHANGED <<call, pc, drain_for>> /\ call = "none"
    BY <2>2, <1>1, CoursesEnd
  <2> QED BY <1>8, <2>1, <2>2 DEF Finish
<1> QED BY <1>2, <1>3, <1>4, <1>5, <1>6, <1>7, <1>8 DEF Client

\* The call ends, or goes on at place p in the same state of the session.
LEMMA CoursesTurn ==
  ASSUME Courses, UNCHANGED <<state, call, arg, drain_for, waiter>>,
         \/ pc' = pc
         \/ pc' = "configure" /\ state = "Configured" /\ drain_for # "drc"
         \/ pc' \in DrainPcs /\ pc \in DrainPcs
         \/ pc' \in {"start", "soutputs"} /\ pc \in {"start", "soutputs"}
         \/ pc' \in PassPcs \ {"configure"} /\ drain_for # "drc"
  PROVE  Courses'
BY DEF Courses, DrainPcs, PassPcs, Waiting

\* Turns of the loops under the lock.
LEMMA CoursesLoops ==
  ASSUME PixelInv, Courses, HandleEvents \/ LoopEnds \/ LastSeen \/ ReturnOutput
  PROVE  Courses'
<1>1. pc \in PassPcs => drain_for # "drc"
  BY DEF PixelInv, SettledInv, Places
<1>2. CASE HandleEvents
  BY <1>1, <1>2, CoursesTurn DEF HandleEvents, Goto, DrainPcs, PassPcs
<1>3. CASE LoopEnds
  BY <1>1, <1>3, CoursesTurn DEF LoopEnds, Goto, DrainPcs, PassPcs
<1>4. CASE LastSeen
  BY <1>4, CoursesTurn DEF LastSeen, Goto, DrainPcs
<1>5. CASE ReturnOutput
  BY <1>5, CoursesTurn DEF ReturnOutput
<1> QED BY <1>2, <1>3, <1>4, <1>5

\* An error or a result ends the call.
LEMMA CoursesReturn ==
  ASSUME NEW result, Return(result) PROVE Courses'
BY CoursesEnd DEF Return

\* A pass or a drain builds the pool, or a resolution change waits.
LEMMA CoursesPools ==
  ASSUME PixelInv, Courses, Configure \/ PumpTail \/ Rebuild
  PROVE  Courses'
<1>1. TypeOK /\ Typed(target, pending) /\ Agree(target, pending)
  BY PixelTypes DEF PixelInv, SettledInv, TypeInv
<1>2. configure_capture(target, pending) => state' = "Streaming"
  BY <1>1, ConfigureSettles
<1>3. ASSUME Reconfigure PROVE Courses'
  <2>1. CASE Deferred(target) /\ pc' = "return" /\ drain_for' = "none"
             /\ UNCHANGED <<state, call, arg, waiter>>
    <3>1. drain_for # "timeout" => state' # "Finished" \/ call \in {"none", "service", "wait"}
      BY <2>1 DEF Courses
    <3> QED BY <2>1 DEF Courses, DrainPcs, Waiting
  <2>2. CASE configure_capture(target, pending) /\ pc' = "return" /\ drain_for' = "none"
             /\ UNCHANGED <<call, arg, waiter>>
    BY <1>2, <2>2 DEF Courses, DrainPcs, Waiting
  <2>3. CASE Return("error")
    BY <2>3, CoursesReturn
  <2> QED BY <1>3, <2>1, <2>2, <2>3 DEF Reconfigure
<1>4. CASE Configure
  <2>1. CASE configure_capture(target, pending) /\ Goto("outputs") /\ pc = "configure"
    <3>1. drain_for = "none"
      BY <2>1 DEF PixelInv, SettledInv, Places, PassPcs
    <3> QED BY <1>2, <2>1, <3>1 DEF Goto, Courses, DrainPcs, Waiting
  <2>2. CASE Return("error")
    BY <2>2, CoursesReturn
  <2> QED BY <1>4, <2>1, <2>2 DEF Configure, Throw
<1>5. CASE PumpTail
  <2>1. pc = "tail" /\ drain_for = "none"
    BY <1>5 DEF PumpTail, PixelInv, SettledInv, Places, PassPcs
  <2>2. CASE BeginDrain("drc") /\ UNCHANGED <<call, arg, waiter>>
    BY <2>2 DEF BeginDrain, Courses, DrainPcs, Waiting
  <2>3. CASE Return("error")
    BY <2>3, CoursesReturn
  <2>4. CASE Reconfigure
    BY <2>4, <1>3
  <2>5. CASE Goto("return") /\ state' = state
    BY <2>1, <2>5, CoursesTurn DEF Goto, PassPcs
  <2> QED BY <1>5, <2>2, <2>3, <2>4, <2>5 DEF PumpTail
<1>6. CASE Rebuild
  BY <1>3, <1>6 DEF Rebuild
<1> QED BY <1>4, <1>5, <1>6

\* What one turn of handle_capture_returns may be: nothing new, pictures that
\* fail, one that is published, or an exception, of queue_import_next or of the
\* copy of one picture.
CopyFailed(r) == [Failed(r) EXCEPT !.publish = "Copy"]
Turned == Goto(pc) /\ state' = state
Comes ==
  \/ Turned /\ target' = target
  \/ Turned /\ \E K : target' = FailTokens(target, pending, K)
  \/ Turned /\ \E k \in Tokens, slot \in CapSlots :
       pending[k] # None /\ target' = [target EXCEPT ![pending[k]] =
                                         Published(target[pending[k]], slot)]
  \/ \E b : Throw(state, target, pending, b)
  \/ \E k \in Tokens : \E b :
       pending[k] # None /\ Throw(state, [target EXCEPT ![pending[k]] =
                                            CopyFailed(target[pending[k]])],
                                  Erase(pending, {k}), b)

\* A turn is one of these: the buffer that waits for a live picture is still wanted,
\* so queue_import_next itself never fails one.
LEMMA WhatComes ==
  ASSUME PixelInv, ReturnCapture PROVE Comes
<1> DEFINE d    == Head(capDone)
           took == take_capture(cap, d.slot)
           m    == IF state = "Streaming" THEN memory ELSE "Unallocated"
           R(n, late) == ImportNext(m, capGeom, import_backlog, took, target, pending, n, late)
           k    == cap[d.slot].import_token
<1>1. PICK n \in Dropped(import_backlog, target, pending), late \in BOOLEAN :
        \/ Throw(state, R(n, late).target, R(n, late).pending, R(n, late).backlog)
        \/ Complete(d, k, R(n, late))
  BY Zenon DEF ReturnCapture
<1>2. capDone # <<>> /\ pc \in {"captures", "dcaptures"} /\ m \in {memory, "Unallocated"}
  BY DEF ReturnCapture
<1>3. /\ d \in CapReturn /\ took \in [CapSlots -> Frame]
      /\ Fine(memory, import_backlog, took, target, pending, next_token, Tail(capDone),
              capMem, cliMem)
  BY <1>2, FineTakes
<1> HIDE DEF d, took, m, k
<1> DEFINE r == R(n, late)
<1>4. r = ImportNext(m, capGeom, import_backlog, took, target, pending, n, late)
  OBVIOUS
<1> HIDE DEF R
<1>5. Throw(state, r.target, r.pending, r.backlog) \/ Complete(d, k, r)
  BY <1>1
<1> HIDE DEF r
<1>6. r.target = target /\ r.pending = pending
  <2>1. Sound(memory, import_backlog, took, target, pending, next_token)
    BY <1>3 DEF Fine
  <2>2. Nexted(memory, m, import_backlog, took, target, pending, next_token, r)
    BY <1>2, <1>3, <1>4, <2>1, PixelTypes, NextSound
  <2> QED BY <2>2 DEF Nexted
<1>7. CASE Throw(state, target, pending, r.backlog)
  BY <1>7 DEF Comes
<1>8. CASE Complete(d, k, r)
  <2>1. CASE Turned /\ target' = target
    BY <2>1 DEF Comes
  <2>2. CASE Turned /\ target' = FailTokens(target, pending, Spoiled(d, k))
    BY <2>2 DEF Comes
  <2>3. CASE ~Discarded(d, pending)
    <3>1. d.ts \in Tokens /\ pending[d.ts] # None /\ d.slot \in CapSlots
      BY <1>3, <2>3 DEF Discarded, CapReturn
    <3>2. CASE Turned /\ target' = [target EXCEPT ![pending[d.ts]] =
                                      Published(target[pending[d.ts]], d.slot)]
      BY <3>1, <3>2 DEF Comes
    <3>3. CASE Throw(state, [target EXCEPT ![pending[d.ts]] =
                               CopyFailed(target[pending[d.ts]])],
                     Erase(pending, {d.ts}), r.backlog)
      BY <3>1, <3>3 DEF Comes
    <3> QED BY <1>6, <1>8, <2>2, <2>3, <3>2, <3>3 DEF Complete, CopyFailed, Turned
  <2> QED BY <1>6, <1>8, <2>1, <2>3 DEF Complete, Turned
<1> QED BY <1>5, <1>6, <1>7, <1>8

\* CAPTURE buffers come back, and the drain goes round, ends or fails.
LEMMA CoursesDrains ==
  ASSUME PixelInv, Courses,
         ReturnCapture \/ DrainTurn \/ Drained \/ Start \/ StartBusy \/ DrainExpires
           \/ DequeueError
  PROVE  Courses'
<1>1. CASE ReturnCapture
  <2>1. CASE Goto(pc) /\ state' = state
    BY <2>1, CoursesTurn DEF Goto
  <2>2. CASE Return("error")
    BY <2>2, CoursesReturn
  <2>3. (Goto(pc) /\ state' = state) \/ Return("error")
    BY <1>1, WhatComes DEF Comes, Turned, Throw
  <2> QED BY <2>1, <2>2, <2>3
<1>2. CASE DrainTurn
  <2>1. CASE pc = "drain" /\ Goto("devents") /\ state' = state
    BY <2>1, CoursesTurn DEF Goto, DrainPcs
  <2>2. CASE Return("error")
    BY <2>2, CoursesReturn
  <2>3. (pc = "drain" /\ Goto("devents") /\ state' = state) \/ Return("error")
    BY <1>2 DEF DrainTurn, Throw
  <2> QED BY <2>1, <2>2, <2>3
<1>3. CASE Drained
  <2>1. CASE drain_for = "timeout" /\ state' = "RestartPending" /\ Goto("start")
    BY <2>1 DEF Goto, Courses, DrainPcs, Waiting
  <2>2. CASE drain_for = "drc" /\ state' = "Reconfiguring" /\ Goto("rebuild")
    BY <2>2 DEF Goto, Courses, DrainPcs, Waiting
  <2>3. CASE Return("ok")
    BY <2>3, CoursesReturn
  <2> QED BY <1>3, <2>1, <2>2, <2>3 DEF Drained
<1>4. CASE Start
  BY <1>4 DEF Start, Courses, DrainPcs, Waiting
<1>5. CASE StartBusy
  <2>1. CASE pc = "start" /\ Goto("soutputs") /\ state' = state
    BY <2>1, CoursesTurn DEF Goto
  <2>2. CASE Return("error")
    BY <2>2, CoursesReturn
  <2> QED BY <1>5, <2>1, <2>2 DEF StartBusy
<1>6. CASE DrainExpires \/ DequeueError
  BY <1>6, CoursesReturn DEF DrainExpires, DequeueError, Throw
<1> QED BY <1>1, <1>2, <1>3, <1>4, <1>5, <1>6

\* What a call does when its pass is over.
LEMMA CoursesAfter ==
  ASSUME PixelInv, Courses,
         CallDone \/ SubmitLoops \/ SubmitGivesUp \/ Accept \/ WaitReturns \/ WaitPolls
           \/ WaitExpires
  PROVE  Courses'
<1>1. pc = "return" /\ drain_for = "none"
  BY DEF CallDone, SubmitLoops, SubmitGivesUp, Accept, WaitReturns, WaitPolls,
         WaitExpires, PixelInv, SettledInv, Places, PassPcs
<1>2. CASE CallDone
  BY <1>2, CoursesReturn DEF CallDone
<1>3. CASE SubmitLoops
  <2>1. /\ call \in {"submit", "slot", "bringup"} /\ call' \in {"submit", "slot", "bringup"}
        /\ pc' \in {"return", "events"} /\ UNCHANGED <<state, arg, drain_for, waiter>>
    BY <1>3 DEF SubmitLoops, PumpAgain, PumpStart, callRest
  <2> QED BY <1>1, <2>1 DEF Courses, DrainPcs
<1>4. CASE SubmitGivesUp
  BY <1>4, CoursesReturn DEF SubmitGivesUp
<1>5. CASE Accept
  <2>1. CASE Return("error")
    BY <2>1, CoursesReturn
  <2>2. CASE /\ state = "Configured" /\ state' = state /\ call' = "bringup"
             /\ UNCHANGED <<arg, pc, drain_for, waiter>>
    BY <1>1, <2>2 DEF Courses, DrainPcs
  <2>3. \/ Return("error")
        \/ /\ state = "Configured" /\ state' = state /\ call' = "bringup"
           /\ UNCHANGED <<arg, pc, drain_for, waiter>>
    BY <1>5 DEF Accept
  <2> QED BY <2>1, <2>2, <2>3
<1>6. CASE WaitReturns
  BY <1>6, CoursesReturn DEF WaitReturns
<1>7. CASE WaitPolls
  <2>1. call' = "none" /\ pc' = "idle" /\ drain_for' = "none"
    BY <1>1, <1>7 DEF WaitPolls
  <2> QED BY <2>1, CoursesEnd
<1>8. CASE WaitExpires
  <2>1. CASE /\ call = "wait" /\ BeginDrain("timeout")
             /\ waiter' = [waiter EXCEPT ![arg] = "drained"] /\ UNCHANGED <<call, arg>>
    <3>1. waiter'[arg] = "drained"
      BY <2>1 DEF PixelInv, SettledInv, TypeInv, TypeOK, CallShape
    <3> QED BY <2>1, <3>1 DEF BeginDrain, Courses, DrainPcs, Waiting
  <2>2. CASE Return("error")
    BY <2>2, CoursesReturn
  <2> QED BY <1>8, <2>1, <2>2 DEF WaitExpires
<1> QED BY <1>2, <1>3, <1>4, <1>5, <1>6, <1>7, <1>8

\* Every step keeps the course of its call.
LEMMA CoursesStep ==
  ASSUME PixelInv, Courses, [Next]_vars PROVE Courses'
<1>1. CASE Firmware \/ UNCHANGED vars
  <2>1. UNCHANGED <<state, call, arg, pc, drain_for, waiter>>
    BY <1>1 DEF Firmware, vars, driverVars
  <2> QED BY <2>1 DEF Courses, Waiting
<1> QED BY <1>1, CoursesClient, CoursesLoops, CoursesPools, CoursesDrains, CoursesAfter
        DEF Next, Working, Looping, Expiring

-----------------------------------------------------------------------------
(* What becomes of the pictures.                                           *)

\* The fate and the picture of a target stay, and where it is to go unless a call
\* begins; or a pending one is lost.
Stays(r, r2) == /\ r2.token = r.token /\ r2.pending = r.pending
                /\ r2.completed = r.completed /\ r2.error = r.error
                /\ r.pending \/ call # "none" => r2.destination = r.destination
Drops(r, r2) == /\ r.pending /\ ~r2.pending /\ r2.error /\ ~r2.completed
                /\ r2.token = r.token
Apart(t) == \A u \in Targets : u # t => Stays(target[u], target'[u]) \/ Drops(target[u], target'[u])

Losing == next_token' = next_token
          /\ \A u \in Targets : Stays(target[u], target'[u]) \/ Drops(target[u], target'[u])
Accepting(t) ==
  /\ Apart(t) /\ next_token' = next_token + 1 /\ next_token \in Tokens
  /\ state \notin {"Finished", "Failed"}
  /\ ~target[t].pending /\ target'[t].pending /\ ~target'[t].completed
  /\ target'[t].token = next_token
  /\ call \in {"submit", "slot"} /\ arg = t /\ target'[t].destination = target[t].destination
Publishing(t) ==
  /\ Apart(t) /\ next_token' = next_token
  /\ target[t].pending /\ ~target'[t].pending /\ target'[t].completed
  /\ target'[t].token = target[t].token
Releasing(t) ==
  /\ Apart(t) /\ next_token' = next_token /\ call = "none"
  /\ ~target'[t].pending /\ ~target'[t].completed /\ ~target'[t].error
  /\ target'[t].token = NoToken

Pictured == Losing \/ \E t \in Targets : Accepting(t) \/ Publishing(t) \/ Releasing(t)

\* Nothing happens to the targets.
LEMMA PicturesRest ==
  ASSUME UNCHANGED <<target, next_token>> PROVE Pictured
BY DEF Pictured, Losing, Stays

\* What a loss does to one target.
LEMMA LossOfOne ==
  ASSUME PixelInv, NEW tg, NEW pd, Typed(tg, pd), NEW tg2, NEW pd2, Losses(tg, pd, tg2, pd2),
         NEW t \in Targets, tg[t].pending => ~tg[t].completed
  PROVE  Stays(tg[t], tg2[t]) \/ Drops(tg[t], tg2[t])
<1>1. /\ tg2[t].completed = tg[t].completed /\ tg2[t].token = tg[t].token
      /\ tg2[t] = tg[t] \/ (tg[t].pending /\ ~tg2[t].pending /\ tg2[t].error)
  BY LossFields
<1> QED BY <1>1 DEF Stays, Drops

\* A pending picture is nowhere yet.
LEMMA PendingNowhere ==
  ASSUME PixelInv, NEW t \in Targets, target[t].pending
  PROVE  ~target[t].completed /\ ~target[t].error
BY DEF PixelInv, Sound, Fated

\* Pictures are lost.
LEMMA PicturesLost ==
  ASSUME PixelInv, next_token' = next_token, NEW pd2, Losses(target, pending, target', pd2)
  PROVE  Pictured
<1>1. Typed(target, pending)
  BY PixelTypes
<1>2. \A t \in Targets : Stays(target[t], target'[t]) \/ Drops(target[t], target'[t])
  BY <1>1, PendingNowhere, LossOfOne
<1> QED BY <1>2 DEF Pictured, Losing

\* An exception loses every picture, or none.
LEMMA UnwindLoses ==
  ASSUME NEW tg, NEW pd, Typed(tg, pd), Agree(tg, pd), NEW st, NEW b,
         Unwind(st, tg, pd, b) \/ Fail(tg, pd)
  PROVE  Losses(tg, pd, target', pending')
<1>1. CASE Fail(tg, pd)
  BY <1>1, FailLoses DEF Fail
<1>2. CASE target' = tg /\ pending' = pd
  BY <1>2, LosesNone
<1> QED BY <1>1, <1>2 DEF Unwind

\* A new pool, or the attempt to make one, does too.
LEMMA ConfigureLoses ==
  ASSUME TypeOK, NEW tg, NEW pd, Typed(tg, pd), Agree(tg, pd),
         configure_capture(tg, pd) \/ configure_capture_throws(tg, pd)
  PROVE  Losses(tg, pd, target', pending')
<1> DEFINE N(b, n, late) ==
      ImportNext(PoolMemory(tg, pd), fwGeom, b, fresh_capture, tg, pd, n, late)
<1>1. ASSUME NEW b \in Backlogs(tg, pd), NEW n \in Dropped(b, tg, pd), NEW late \in BOOLEAN,
             NEW r, r = N(b, n, late)
      PROVE  /\ Typed(r.target, r.pending) /\ Agree(r.target, r.pending)
             /\ Losses(tg, pd, r.target, r.pending)
  <2> DEFINE K == {b[j].token : j \in {i \in 1..n : Disowned(b[i], tg, pd)}}
  <2>1. b \in Seq(ImportEntry)
    BY BacklogsType DEF Typed
  <2>2. fresh_capture \in [CapSlots -> Frame]
    BY DEF fresh_capture, IdleFrame, Frame, NoToken
  <2>3. r \in ImportResult
    <3>1. N(b, n, late) \in ImportResult
      <4> HIDE DEF N
      <4> QED BY <2>1, <2>2, ImportNextType DEF N, Typed
    <3> HIDE DEF N
    <3> QED BY <1>1, <3>1
  <2>4. Agree(r.target, r.pending)
    <3>1. Agree(N(b, n, late).target, N(b, n, late).pending)
      BY ImportNextSettles
    <3> HIDE DEF N
    <3> QED BY <1>1, <3>1
  <2>5. \/ r.target = tg /\ r.pending = pd
        \/ r.target = FailTokens(tg, pd, K) /\ r.pending = Erase(pd, K)
    BY <1>1 DEF ImportNext
  <2> HIDE DEF K, N
  <2>6. Losses(tg, pd, r.target, r.pending)
    BY <2>5, FailLoses, LosesNone
  <2> QED BY <2>3, <2>4, <2>6 DEF ImportResult, Typed
<1> HIDE DEF N
<1>2. CASE configure_capture(tg, pd)
  <2>1. PICK b \in Backlogs(tg, pd) : \E n \in Dropped(b, tg, pd) :
          target' = N(b, n, FALSE).target /\ pending' = N(b, n, FALSE).pending
    BY <1>2, Zenon DEF configure_capture, N
  <2>2. PICK n \in Dropped(b, tg, pd) :
          target' = N(b, n, FALSE).target /\ pending' = N(b, n, FALSE).pending
    BY <2>1, Zenon
  <2> QED BY <2>2, <1>1
<1>3. CASE configure_capture_throws(tg, pd)
  <2>1. CASE Unwind("Configured", tg, pd, import_backlog)
    BY <2>1, UnwindLoses
  <2>2. CASE \E b \in Backlogs(tg, pd), late \in BOOLEAN : \E n \in Dropped(b, tg, pd) :
               Unwind("Configured", N(b, n, late).target, N(b, n, late).pending,
                      N(b, n, late).backlog)
    <3>1. PICK b \in Backlogs(tg, pd), late \in BOOLEAN : \E n \in Dropped(b, tg, pd) :
               Unwind("Configured", N(b, n, late).target, N(b, n, late).pending,
                      N(b, n, late).backlog)
      BY <2>2, Zenon
    <3>2. PICK n \in Dropped(b, tg, pd) :
               Unwind("Configured", N(b, n, late).target, N(b, n, late).pending,
                      N(b, n, late).backlog)
      BY <3>1, Zenon
    <3>3. /\ Typed(N(b, n, late).target, N(b, n, late).pending)
          /\ Agree(N(b, n, late).target, N(b, n, late).pending)
          /\ Losses(tg, pd, N(b, n, late).target, N(b, n, late).pending)
      BY <1>1
    <3>4. Losses(N(b, n, late).target, N(b, n, late).pending, target', pending')
      BY <3>2, <3>3, UnwindLoses
    <3> QED BY <3>3, <3>4, LosesTwice
  <2> QED BY <1>3, <2>1, <2>2 DEF configure_capture_throws, N
<1> QED BY <1>2, <1>3


\* An exception is thrown, or fail() called.
LEMMA PicturesThrow ==
  ASSUME PixelInv, next_token' = next_token, NEW st, NEW b,
         Unwind(st, target, pending, b) \/ Fail(target, pending)
  PROVE  Pictured
BY PixelTypes, UnwindLoses, PicturesLost

\* A pass builds the pool, or a resolution change does.
LEMMA PicturesConfigure ==
  ASSUME PixelInv, next_token' = next_token,
         configure_capture(target, pending) \/ configure_capture_throws(target, pending)
  PROVE  Pictured
<1>1. TypeOK
  BY DEF PixelInv, SettledInv, TypeInv
<1> QED BY <1>1, PixelTypes, ConfigureLoses, PicturesLost

\* One target is replaced.
LEMMA Elsewhere ==
  ASSUME PixelInv, NEW t \in Targets, NEW x, target' = [target EXCEPT ![t] = x]
  PROVE  Apart(t) /\ target'[t] = x
<1>1. Typed(target, pending)
  BY PixelTypes
<1> QED BY <1>1 DEF Typed, Apart, Stays

\* What release_locked leaves of a target.
LEMMA ReleasedFields ==
  ASSUME NEW r \in Target
  PROVE  /\ Released(r) \in Target /\ ~Released(r).pending /\ ~Released(r).completed
         /\ ~Released(r).error /\ Released(r).token = NoToken
BY DEF Released, Target, NoToken, NoFrame

\* submit() begins: a picture that is still pending is given up.
LEMMA PicturesSubmit ==
  ASSUME PixelInv, NEW t \in Targets, NEW p \in Policies, Submit(t, p)
  PROVE  Pictured
<1> DEFINE r == IF target[t].pending THEN Released(target[t]) ELSE target[t]
           x == [r EXCEPT !.publish = p, !.destination = (p # "Direct")]
<1>1. target[t] \in Target /\ next_token' = next_token /\ call = "none"
  BY PixelTypes DEF Submit, Typed
<1>2. target' = [target EXCEPT ![t] = x]
  BY DEF Submit
<1>3. r \in Target
  BY <1>1, ReleasedFields
<1> HIDE DEF r
<1>4. /\ x.pending = r.pending /\ x.completed = r.completed /\ x.error = r.error
      /\ x.token = r.token
  BY <1>3 DEF Target
<1> HIDE DEF x
<1>5. Apart(t) /\ target'[t] = x
  BY <1>2, Elsewhere
<1>6. CASE target[t].pending
  <2>1. ~r.pending /\ ~r.completed /\ ~r.error /\ r.token = NoToken
    BY <1>1, <1>6, ReleasedFields DEF r
  <2> QED BY <1>1, <1>4, <1>5, <2>1 DEF Pictured, Releasing
<1>7. CASE ~target[t].pending
  <2>1. Stays(target[t], target'[t])
    BY <1>1, <1>4, <1>5, <1>7 DEF Stays, r
  <2> QED BY <1>1, <1>5, <2>1 DEF Pictured, Losing, Apart
<1> QED BY <1>6, <1>7

\* The client releases a surface; a resolution change may go on with it.
LEMMA PicturesRelease ==
  ASSUME PixelInv, NEW t \in Targets, Release(t)
  PROVE  Pictured
<1> DEFINE x  == Released(target[t])
           tg == release_target(target, t)
           pd == release_token(target, pending, t)
<1>1. /\ Typed(target, pending) /\ Agree(target, pending) /\ target[t] \in Target
      /\ TypeOK /\ next_token' = next_token /\ call = "none"
  <2>1. next_token' = next_token /\ call = "none"
    BY Zenon DEF Release, poolRest
  <2> QED BY <2>1, PixelTypes DEF PixelInv, SettledInv, TypeInv, Typed
<1>2. x \in Target /\ ~x.pending /\ ~x.completed /\ ~x.error /\ x.token = NoToken
  BY <1>1, ReleasedFields
<1>3. tg = [target EXCEPT ![t] = x]
  BY DEF release_target
<1>4. Typed(tg, pd) /\ Agree(tg, pd)
  <2>1. Typed(tg, pd)
    BY <1>1, <1>2, <1>3 DEF Typed, release_token, Erase
  <2>2. Agree([target EXCEPT ![t] = x], pd)
    <3> HIDE DEF x
    <3> QED BY <1>1, <1>2, ReleaseSettles
  <2> QED BY <1>3, <2>1, <2>2
<1>5. tg[t] = x /\ \A u \in Targets : u # t => tg[u] = target[u]
  BY <1>1, <1>3 DEF Typed
<1>6. \/ target' = tg /\ pending' = pd
      \/ configure_capture(tg, pd) \/ configure_capture_throws(tg, pd)
  BY Zenon DEF Release
<1> HIDE DEF x, tg, pd
<1>7. Losses(tg, pd, target', pending')
  BY <1>1, <1>4, <1>6, ConfigureLoses, LosesNone
<1>8. target'[t] = x
  BY <1>2, <1>5, <1>7 DEF Losses
<1>9. Apart(t)
  <2> SUFFICES ASSUME NEW u \in Targets, u # t
               PROVE  Stays(target[u], target'[u]) \/ Drops(target[u], target'[u])
    BY DEF Apart
  <2>1. tg[u].pending => ~tg[u].completed
    BY <1>5, PendingNowhere
  <2>2. Stays(tg[u], target'[u]) \/ Drops(tg[u], target'[u])
    BY <1>4, <1>7, <2>1, LossOfOne
  <2> QED BY <1>5, <2>2
<1> QED BY <1>1, <1>2, <1>8, <1>9 DEF Pictured, Releasing

\* An access unit is queued under a new token.
LEMMA PicturesAccept ==
  ASSUME PixelInv, Courses, Accept
  PROVE  Pictured
<1> DEFINE x == [target[arg] EXCEPT !.token = next_token, !.pending = TRUE,
                    !.completed = FALSE, !.error = FALSE, !.frame = NoFrame]
<1>1. /\ call \in {"submit", "slot"} /\ arg \in Targets /\ next_token \in Tokens
      /\ ~target[arg].pending /\ next_token' = next_token + 1
      /\ state \notin {"Finished", "Failed"}
  <2>1. free_outputs(out) # {} /\ call \in {"submit", "slot"} /\ next_token' = next_token + 1
    BY DEF Accept
  <2> QED BY <2>1 DEF PixelInv, SettledInv, TypeInv, CallShape, Places, Courses
<1>2. target' = [target EXCEPT ![arg] = x]
  BY AcceptFine DEF NewTarget
<1>3. target[arg] \in Target
  BY <1>1, PixelTypes DEF Typed
<1>4. /\ x.pending /\ ~x.completed /\ x.token = next_token
      /\ x.destination = target[arg].destination
  BY <1>3 DEF Target
<1> HIDE DEF x
<1>5. Apart(arg) /\ target'[arg] = x
  BY <1>1, <1>2, Elsewhere
<1> QED BY <1>1, <1>4, <1>5 DEF Pictured, Accepting


\* A CAPTURE buffer comes back: its picture is there, or lost.
LEMMA PicturesCome ==
  ASSUME PixelInv, ReturnCapture
  PROVE  Pictured
<1>1. next_token' = next_token /\ Typed(target, pending) /\ Agree(target, pending)
  BY PixelTypes DEF ReturnCapture
<1>2. CASE target' = target
  BY <1>1, <1>2, PicturesRest
<1>3. ASSUME NEW K, target' = FailTokens(target, pending, K) PROVE Pictured
  BY <1>1, <1>3, FailLoses, PicturesLost
<1>4. ASSUME NEW k \in Tokens, NEW slot \in CapSlots, pending[k] # None,
             target' = [target EXCEPT ![pending[k]] = Published(target[pending[k]], slot)]
      PROVE  Pictured
  <2> DEFINE t == pending[k]
             x == Published(target[t], slot)
  <2>1. t \in Targets /\ target[t] \in Target /\ target[t].pending
    BY <1>1, <1>4 DEF Typed, Agree
  <2>2. ~x.pending /\ x.completed /\ x.token = target[t].token
    BY <2>1, PublishedFields
  <2> HIDE DEF x, t
  <2>3. Apart(t) /\ target'[t] = x
    BY <1>4, <2>1, Elsewhere DEF t, x
  <2> QED BY <1>1, <2>1, <2>2, <2>3 DEF Pictured, Publishing
<1>5. ASSUME NEW b, Throw(state, target, pending, b) PROVE Pictured
  BY <1>1, <1>5, PicturesThrow DEF Throw
<1>6. ASSUME NEW k \in Tokens, NEW b, pending[k] # None,
             Throw(state, [target EXCEPT ![pending[k]] = CopyFailed(target[pending[k]])],
                   Erase(pending, {k}), b)
      PROVE  Pictured
  <2> DEFINE t   == pending[k]
             x   == CopyFailed(target[t])
             tg2 == [target EXCEPT ![t] = x]
             pd2 == Erase(pending, {k})
  <2>1. t \in Targets /\ target[t] \in Target /\ target[t].pending /\ ~target[t].completed
    BY <1>1, <1>4, <1>6, PendingNowhere DEF Typed, Agree
  <2>2. /\ x \in Target /\ ~x.pending /\ ~x.completed /\ x.error
        /\ x.token = target[t].token
    BY <2>1 DEF CopyFailed, Failed, Target
  <2> HIDE DEF x, t
  <2>3. Typed(tg2, pd2) /\ Agree(tg2, pd2)
    BY <1>1, <2>1, <2>2, OneAgrees DEF t
  <2>4. tg2[t] = x /\ \A u \in Targets : u # t => tg2[u] = target[u]
    BY <1>1, <2>1 DEF Typed
  <2> HIDE DEF tg2, pd2
  <2>5. Losses(tg2, pd2, target', pending')
    BY <1>6, <2>3, UnwindLoses DEF Throw, tg2, pd2, t, x
  <2>6. ASSUME NEW u \in Targets PROVE Stays(target[u], target'[u]) \/ Drops(target[u], target'[u])
    <3>1. CASE u = t
      <4>1. target'[u] = x
        BY <2>2, <2>4, <2>5, <3>1 DEF Losses
      <4> QED BY <2>1, <2>2, <3>1, <4>1 DEF Drops
    <3>2. CASE u # t
      <4>1. tg2[u] = target[u] /\ (tg2[u].pending => ~tg2[u].completed)
        BY <2>4, <3>2, PendingNowhere
      <4>2. Stays(tg2[u], target'[u]) \/ Drops(tg2[u], target'[u])
        BY <2>3, <2>5, <4>1, LossOfOne
      <4> QED BY <4>1, <4>2
    <3> QED BY <3>1, <3>2
  <2> QED BY <1>1, <2>6 DEF Pictured, Losing
<1> QED BY <1>2, <1>3, <1>4, <1>5, <1>6, WhatComes DEF Comes

\* Everything else the call under the lock does.
LEMMA PicturesWork ==
  ASSUME PixelInv,
         \/ HandleEvents \/ LoopEnds \/ LastSeen \/ ReturnOutput
         \/ Configure \/ PumpTail \/ Rebuild
         \/ DrainTurn \/ Drained \/ Start \/ StartBusy \/ DrainExpires \/ DequeueError
  PROVE  Pictured
<1>1. /\ Typed(target, pending) /\ Agree(target, pending)
      /\ next_token' = next_token
  <2>1. Reconfigure => next_token' = next_token
    BY DEF Reconfigure, poolRest
  <2> QED BY <2>1, PixelTypes
          DEF HandleEvents, LoopEnds, LastSeen, ReturnOutput, Configure, PumpTail, Rebuild,
              DrainTurn, Drained, Start, StartBusy, DrainExpires, DequeueError, poolRest,
              drainRest
<1>2. CASE UNCHANGED target
  BY <1>1, <1>2, PicturesRest
<1>3. ASSUME NEW K, target' = FailTokens(target, pending, K) PROVE Pictured
  BY <1>1, <1>3, FailLoses, PicturesLost
<1>4. ASSUME NEW b, Throw(state, target, pending, b) PROVE Pictured
  BY <1>1, <1>4, PicturesThrow DEF Throw
<1>5. CASE Fail(target, pending)
  BY <1>1, <1>5, PicturesThrow
<1>6. CASE Reconfigure
  BY <1>1, <1>2, <1>6, PicturesConfigure DEF Reconfigure
<1>7. CASE HandleEvents \/ LoopEnds \/ LastSeen \/ Start \/ StartBusy
  BY <1>2, <1>5, <1>7 DEF HandleEvents, LoopEnds, LastSeen, Start, StartBusy
<1>8. CASE ReturnOutput
  BY <1>3, <1>8 DEF ReturnOutput
<1>9. CASE Drained
  BY <1>3, <1>9 DEF Drained
<1>10. CASE Configure
  BY <1>1, <1>4, <1>10, PicturesConfigure DEF Configure
<1>11. CASE PumpTail \/ Rebuild
  <2>1. CASE PumpTail /\ ~Reconfigure
    BY <1>2, <1>5, <2>1 DEF PumpTail, BeginDrain, StopBusy
  <2> QED BY <1>6, <1>11, <2>1 DEF Rebuild
<1>12. CASE DrainTurn
  BY <1>2, <1>4, <1>12, DrainTurnFine
<1>13. CASE DrainExpires \/ DequeueError
  BY <1>4, <1>5, <1>13 DEF DrainExpires, DequeueError
<1> QED BY <1>7, <1>8, <1>9, <1>10, <1>11, <1>12, <1>13

\* A wait() gives up its picture at the deadline, or flushes it out.
LEMMA PicturesExpire ==
  ASSUME PixelInv, WaitExpires
  PROVE  Pictured
<1>1. /\ Typed(target, pending) /\ Agree(target, pending) /\ next_token' = next_token
      /\ arg \in Targets /\ target[arg].pending
  BY PixelTypes DEF WaitExpires, drainRest, PixelInv, SettledInv, TypeInv, CallShape
<1>2. CASE UNCHANGED target
  BY <1>1, <1>2, PicturesRest
<1>3. CASE target' = [target EXCEPT ![arg] = Failed(target[arg])]
  <2>1. target[arg] \in Target /\ ~target[arg].completed
    BY <1>1, PendingNowhere DEF Typed
  <2>2. Apart(arg) /\ target'[arg] = Failed(target[arg])
    BY <1>1, <1>3, Elsewhere
  <2>3. Drops(target[arg], target'[arg])
    BY <1>1, <2>1, <2>2, FailedFields DEF Drops
  <2> QED BY <1>1, <2>2, <2>3 DEF Pictured, Losing, Apart
<1> QED BY <1>2, <1>3 DEF WaitExpires, BeginDrain, StopBusy

\* What the other steps do to the pictures: nothing.
LEMMA PicturesElse ==
  ASSUME PixelInv,
         \/ \E t \in Targets : WaitSettled(t) \/ Wait(t) \/ Relock(t)
         \/ Service \/ Finish \/ CallDone \/ SubmitLoops \/ SubmitGivesUp
         \/ WaitReturns \/ WaitPolls \/ Firmware \/ UNCHANGED vars
  PROVE  Pictured
<1>1. UNCHANGED <<target, next_token>>
  BY DEF WaitSettled, Wait, Relock, Service, Enter, Finish, BeginDrain, StopBusy, drainRest,
         CallDone, SubmitLoops, SubmitGivesUp, WaitReturns, WaitPolls, callRest, Firmware,
         vars, driverVars
<1> QED BY <1>1, PicturesRest

\* No step does anything else to the pictures.
LEMMA PicturesStep ==
  ASSUME PixelInv, Courses, [Next]_vars
  PROVE  Pictured
<1>1. CASE Client
  <2>1. ASSUME NEW t \in Targets, NEW p \in Policies, Submit(t, p) PROVE Pictured
    BY <2>1, PicturesSubmit
  <2>2. ASSUME NEW t \in Targets, Release(t) PROVE Pictured
    BY <2>2, PicturesRelease
  <2> QED BY <1>1, <2>1, <2>2, PicturesElse DEF Client
<1>2. CASE Working \/ Looping \/ Expiring \/ DequeueError
  BY <1>2, PicturesCome, PicturesWork, PicturesAccept, PicturesExpire, PicturesElse
     DEF Working, Looping, Expiring
<1>3. CASE Firmware \/ (\E t \in Targets : Relock(t)) \/ UNCHANGED vars
  BY <1>3, PicturesElse
<1> QED BY <1>1, <1>2, <1>3 DEF Next


-----------------------------------------------------------------------------
(* What becomes of the syncs.                                              *)

Over == {"Finished", "Failed"}

\* The sync of t is asked or answered, goes on to its flush or comes back from it,
\* or is forgotten.
Told(t) ==
  /\ \A u \in Targets : u # t => Answer(u)' = Answer(u)
  /\ Answer(t)' \in {"idle", "asked", "flushing", "ok", "error"}
  /\ Answer(t)' = "asked" => \/ Answer(t) = "flushing"
                             \/ Answer(t) # "asked" /\ target[t].pending
  /\ Answer(t)' = "flushing" => Answer(t) = "asked" /\ target[t].pending
  /\ Answer(t)' = "ok" => ~target'[t].pending /\ ~target'[t].error
  /\ Answer(t)' = "error" => \/ target'[t].pending \/ ~target'[t].completed
                             \/ state' \in Over \/ Answer(t) = "flushing"
  /\ Answer(t)' = "idle" => Answer(t) \notin {"asked", "flushing"}

Answered == (\A t \in Targets : Answer(t)' = Answer(t)) \/ \E t \in Targets : Told(t)

\* Nothing happens to the syncs.
LEMMA SameAnswers ==
  ASSUME waiter' = waiter,
         \/ UNCHANGED <<arg, drain_for>>
         \/ drain_for # "timeout" /\ drain_for' # "timeout"
  PROVE  Answered
<1>1. \A t \in Targets : Waiting(t)' = Waiting(t)
  BY DEF Waiting
<1>2. \A t \in Targets : Answer(t)' = Answer(t)
  BY <1>1 DEF Answer
<1> QED BY <1>2 DEF Answered

\* What a sync is told when the call is not its own flush.
LEMMA OtherAnswers ==
  ASSUME NEW t \in Targets, NEW w, waiter' = [waiter EXCEPT ![t] = w],
         waiter \in [Targets -> Waits],
         drain_for = "timeout" => arg = t,
         drain_for' = "timeout" => arg' = t
  PROVE  /\ waiter'[t] = w /\ \A u \in Targets : u # t => Answer(u)' = Answer(u)
         /\ w \notin {"polling", "drained"} => Answer(t)' = w
         /\ w \in {"polling", "drained"} =>
              Answer(t)' = IF drain_for' = "timeout" THEN "flushing" ELSE "asked"
<1>1. waiter'[t] = w /\ \A u \in Targets : u # t => waiter'[u] = waiter[u]
  OBVIOUS
<1>2. ASSUME NEW u \in Targets, u # t PROVE Answer(u)' = Answer(u)
  <2>1. Waiting(u)' = Waiting(u)
    BY <1>1, <1>2 DEF Waiting
  <2>2. ~(drain_for = "timeout" /\ arg = u) /\ ~(drain_for' = "timeout" /\ arg' = u)
    BY <1>2
  <2> QED BY <1>1, <1>2, <2>1, <2>2 DEF Answer
<1>3. Waiting(t)' <=> w \in {"polling", "drained"}
  BY <1>1 DEF Waiting
<1>4. w \notin {"polling", "drained"} => Answer(t)' = w
  BY <1>1, <1>3 DEF Answer
<1>5. w \in {"polling", "drained"} =>
        Answer(t)' = IF drain_for' = "timeout" THEN "flushing" ELSE "asked"
  BY <1>1, <1>3 DEF Answer
<1> QED BY <1>1, <1>2, <1>4, <1>5

\* What a sync has been told so far.
LEMMA AnswersNow ==
  ASSUME PixelInv, NEW t \in Targets
  PROVE  /\ ~Waiting(t) => Answer(t) \in {"idle", "ok", "error"}
         /\ Waiting(t) /\ drain_for # "timeout" => Answer(t) = "asked"
         /\ Waiting(t) /\ drain_for = "timeout" /\ arg = t => Answer(t) = "flushing"
<1>1. waiter[t] \in Waits
  BY DEF PixelInv, SettledInv, TypeInv, TypeOK
<1> QED BY <1>1 DEF Answer, Waiting, Waits

\* A call that is over has told its sync, if it is one, how it ended.
LEMMA AnswersReturn ==
  ASSUME PixelInv, Courses, NEW result \in {"ok", "error"}, Return(result),
         call = "wait" /\ result = "ok" =>
           ~target'[arg].pending /\ ~target'[arg].error,
         call = "wait" /\ result = "error" =>
           \/ target'[arg].pending \/ ~target'[arg].completed
           \/ state' \in Over \/ drain_for = "timeout"
  PROVE  Answered
<1>1. CASE call # "wait"
  <2>1. waiter' = waiter /\ drain_for # "timeout" /\ drain_for' # "timeout"
    BY <1>1 DEF Return, Courses
  <2> QED BY <2>1, SameAnswers
<1>2. CASE call = "wait"
  <2>1. arg \in Targets /\ Waiting(arg) /\ waiter \in [Targets -> Waits]
    BY <1>2 DEF PixelInv, SettledInv, TypeInv, TypeOK, CallShape, Courses
  <2>2. drain_for' = "none" /\ waiter' = [waiter EXCEPT ![arg] = result]
    BY <1>2 DEF Return
  <2>3. /\ \A u \in Targets : u # arg => Answer(u)' = Answer(u)
        /\ result \notin {"polling", "drained"}
    BY <2>1, <2>2, OtherAnswers
  <2>4. \A t \in Targets : t = arg => Answer(t)' = result
    BY <2>1, <2>2, <2>3, OtherAnswers
  <2>5. drain_for = "timeout" => Answer(arg) = "flushing"
    BY <2>1, AnswersNow
  <2>6. PICK t \in Targets : t = arg
    BY <2>1
  <2>7. Told(t)
    BY <1>2, <2>3, <2>4, <2>5, <2>6 DEF Told
  <2> QED BY <2>7 DEF Answered
<1> QED BY <1>1, <1>2

\* An exception that ends the call.
LEMMA AnswersThrow ==
  ASSUME PixelInv, Courses, NEW st, NEW tg, NEW pd, NEW b,
         Unwind(st, tg, pd, b) \/ Fail(tg, pd), Return("error")
  PROVE  Answered
<1>1. call = "wait" => state' \in Over \/ drain_for = "timeout"
  BY DEF Unwind, Fail, Over, PixelInv, SettledInv, Places
<1> QED BY <1>1, AnswersReturn


\* The clients' calls.
LEMMA AnswersClient ==
  ASSUME PixelInv, Courses, Client \/ \E t \in Targets : Relock(t)
  PROVE  Answered
<1>0. /\ call = "none" => drain_for = "none"
      /\ waiter \in [Targets -> Waits]
  BY DEF PixelInv, SettledInv, TypeInv, TypeOK, Places, PassPcs
<1>1. ASSUME NEW t \in Targets, waiter' = Forget(waiter, t), drain_for = "none",
             drain_for' = "none"
      PROVE  Answered
  <2>1. CASE Waiting(t)
    BY <1>1, <2>1, SameAnswers DEF Forget
  <2>2. CASE ~Waiting(t)
    <3>1. waiter' = [waiter EXCEPT ![t] = "idle"]
      BY <1>1, <2>2 DEF Forget
    <3>2. /\ \A u \in Targets : u # t => Answer(u)' = Answer(u)
          /\ Answer(t)' = "idle"
      BY <1>0, <1>1, <3>1, OtherAnswers
    <3>3. Answer(t) \in {"idle", "ok", "error"}
      BY <2>2, AnswersNow
    <3> QED BY <3>2, <3>3 DEF Answered, Told
  <2> QED BY <2>1, <2>2
<1>2. ASSUME NEW t \in Targets, NEW p \in Policies, Submit(t, p) PROVE Answered
  BY <1>0, <1>1, <1>2 DEF Submit
<1>3. ASSUME NEW t \in Targets, Release(t) PROVE Answered
  <2>1. call = "none" /\ waiter' = Forget(waiter, t) /\ drain_for' = drain_for
    BY <1>3 DEF Release
  <2> QED BY <1>0, <1>1, <2>1
<1>4. ASSUME NEW t \in Targets, WaitSettled(t) PROVE Answered
  <2> DEFINE w == IF target[t].error THEN "error" ELSE "ok"
  <2>1. /\ waiter' = [waiter EXCEPT ![t] = w] /\ target' = target
        /\ ~target[t].pending /\ drain_for = "none" /\ drain_for' = "none"
    BY <1>0, <1>4 DEF WaitSettled
  <2>2. w \in {"ok", "error"} /\ (w = "ok" <=> ~target[t].error)
    OBVIOUS
  <2> HIDE DEF w
  <2>3. /\ \A u \in Targets : u # t => Answer(u)' = Answer(u)
        /\ Answer(t)' = w
    BY <1>0, <2>1, <2>2, OtherAnswers
  <2>4. target[t].error => ~target[t].completed
    BY DEF PixelInv, Sound, Fated
  <2> QED BY <2>1, <2>2, <2>3, <2>4 DEF Answered, Told
<1>5. ASSUME NEW t \in Targets, Wait(t) PROVE Answered
  <2>1. /\ waiter' = [waiter EXCEPT ![t] = "polling"] /\ target[t].pending /\ ~Waiting(t)
        /\ drain_for = "none" /\ drain_for' = "none"
    BY <1>0, <1>5 DEF Wait, Enter
  <2>2. /\ \A u \in Targets : u # t => Answer(u)' = Answer(u)
        /\ Answer(t)' = "asked"
    BY <1>0, <2>1, OtherAnswers
  <2>3. Answer(t) # "asked"
    BY <2>1, AnswersNow
  <2> QED BY <2>1, <2>2, <2>3 DEF Answered, Told
<1>6. ASSUME NEW t \in Targets, Relock(t) PROVE Answered
  BY <1>0, <1>6, SameAnswers DEF Relock, Enter
<1>7. CASE Service
  BY <1>0, <1>7, SameAnswers DEF Service, Enter
<1>8. CASE Finish
  BY <1>0, <1>8, SameAnswers DEF Finish, BeginDrain
<1> QED BY <1>2, <1>3, <1>4, <1>5, <1>6, <1>7, <1>8 DEF Client

\* The call under the lock goes on.
LEMMA AnswersWork ==
  ASSUME PixelInv, Courses,
         \/ HandleEvents \/ LoopEnds \/ LastSeen \/ ReturnOutput \/ Configure \/ PumpTail
         \/ Rebuild \/ DrainTurn \/ ReturnCapture \/ Drained \/ StartBusy \/ DrainExpires
         \/ DequeueError
  PROVE  Answered
<1>1. ASSUME NEW p, Goto(p) PROVE Answered
  BY <1>1, SameAnswers DEF Goto
<1>2. CASE HandleEvents \/ LoopEnds \/ LastSeen \/ ReturnOutput
  BY <1>1, <1>2, SameAnswers DEF HandleEvents, LoopEnds, LastSeen, ReturnOutput
<1>3. ASSUME NEW st, NEW tg, NEW pd, NEW b, Throw(st, tg, pd, b) PROVE Answered
  BY <1>3, AnswersThrow DEF Throw
<1>4. CASE configure_capture_throws(target, pending) /\ Return("error")
  <2>1. PICK st, tg, pd, b : Unwind(st, tg, pd, b)
    BY <1>4, Zenon DEF configure_capture_throws
  <2> QED BY <1>4, <2>1, AnswersThrow
<1>5. ASSUME Reconfigure, pc \in {"tail", "rebuild"} PROVE Answered
  <2>1. drain_for # "timeout"
    BY <1>5 DEF PixelInv, SettledInv, Places, PassPcs, Courses
  <2>2. CASE waiter' = waiter /\ drain_for' = "none"
    BY <2>1, <2>2, SameAnswers
  <2> QED BY <1>4, <1>5, <2>2 DEF Reconfigure
<1>6. CASE Configure
  BY <1>1, <1>3, <1>4, <1>6 DEF Configure
<1>7. CASE PumpTail
  <2>1. pc = "tail" /\ drain_for = "none"
    BY <1>7 DEF PumpTail, PixelInv, SettledInv, Places, PassPcs
  <2>2. CASE BeginDrain("drc") /\ waiter' = waiter
    BY <2>1, <2>2, SameAnswers DEF BeginDrain
  <2>3. CASE StopBusy("drc") /\ Return("error")
    BY <2>3, AnswersThrow DEF StopBusy
  <2> QED BY <1>1, <1>5, <1>7, <2>1, <2>2, <2>3 DEF PumpTail
<1>8. CASE Rebuild
  BY <1>5, <1>8 DEF Rebuild
<1>9. CASE ReturnCapture
  BY <1>1, <1>3, <1>9, WhatComes DEF Comes, Turned
<1>10. CASE DrainTurn
  <2>1. Goto("devents") \/ \E st, tg, pd, b : Throw(st, tg, pd, b)
    BY <1>10, Zenon DEF DrainTurn
  <2> QED BY <1>1, <1>3, <2>1
<1>11. CASE Drained
  <2>1. CASE drain_for = "finish" /\ Return("ok")
    <3>1. call # "wait"
      BY <2>1 DEF PixelInv, SettledInv, Places
    <3> QED BY <2>1, <3>1, AnswersReturn
  <2> QED BY <1>1, <1>11, <2>1 DEF Drained
<1>12. CASE StartBusy
  BY <1>1, <1>12, AnswersThrow DEF StartBusy
<1>13. CASE DrainExpires \/ DequeueError
  BY <1>3, <1>13, AnswersThrow DEF DrainExpires, DequeueError
<1> QED BY <1>2, <1>6, <1>7, <1>8, <1>9, <1>10, <1>11, <1>12, <1>13

\* The restart after a flush: the sync goes on.
LEMMA AnswersStart ==
  ASSUME PixelInv, Courses, Start
  PROVE  Answered
<1>1. waiter' = waiter /\ drain_for' = "none" /\ UNCHANGED arg
  BY DEF Start
<1>2. CASE drain_for # "timeout"
  BY <1>1, <1>2, SameAnswers
<1>3. CASE drain_for = "timeout"
  <2>1. /\ call = "wait" /\ arg \in Targets /\ Waiting(arg) /\ waiter[arg] = "drained"
        /\ waiter \in [Targets -> Waits]
    BY <1>3 DEF PixelInv, SettledInv, TypeInv, TypeOK, CallShape, Courses
  <2>2. waiter' = [waiter EXCEPT ![arg] = "drained"]
    BY <1>1, <2>1
  <2>3. PICK t \in Targets : t = arg
    BY <2>1
  <2>4. /\ \A u \in Targets : u # t => Answer(u)' = Answer(u)
        /\ Answer(t)' = "asked"
    BY <1>1, <2>1, <2>2, <2>3, OtherAnswers
  <2>5. Answer(t) = "flushing"
    BY <1>3, <2>1, <2>3, AnswersNow
  <2> QED BY <2>4, <2>5 DEF Answered, Told
<1> QED BY <1>2, <1>3

\* The pass is over: the call ends, goes round again or polls.
LEMMA AnswersAfter ==
  ASSUME PixelInv, Courses, SyncHonest',
         CallDone \/ SubmitLoops \/ SubmitGivesUp \/ Accept \/ WaitReturns \/ WaitPolls
  PROVE  Answered
<1>1. pc = "return" /\ drain_for = "none"
  BY DEF CallDone, SubmitLoops, SubmitGivesUp, Accept, WaitReturns, WaitPolls, PixelInv,
         SettledInv, Places, PassPcs
<1>2. CASE waiter' = waiter /\ drain_for' = drain_for
  BY <1>1, <1>2, SameAnswers
<1>3. CASE CallDone
  BY <1>3, AnswersReturn DEF CallDone
<1>4. CASE SubmitLoops \/ WaitPolls
  BY <1>2, <1>4 DEF SubmitLoops, PumpAgain, WaitPolls
<1>5. CASE SubmitGivesUp
  BY <1>5, AnswersReturn DEF SubmitGivesUp
<1>6. CASE Accept
  BY <1>2, <1>6, AnswersReturn DEF Accept
<1>7. CASE WaitReturns
  <2> DEFINE result == IF target[arg].pending \/ target[arg].error THEN "error" ELSE "ok"
  <2>1. /\ Return(result) /\ UNCHANGED <<target, state>> /\ arg \in Targets
        /\ ~target[arg].pending \/ state = "Failed"
    BY <1>7 DEF WaitReturns, callRest, PixelInv, SettledInv, TypeInv, CallShape
  <2>2. result \in {"ok", "error"}
    OBVIOUS
  <2>3. result = "ok" => ~target[arg].pending /\ ~target[arg].error
    OBVIOUS
  <2>4. result = "error" => state = "Failed" \/ ~target[arg].completed
    BY <2>1 DEF PixelInv, Sound, Fated
  <2> HIDE DEF result
  <2> QED BY <2>1, <2>2, <2>3, <2>4, AnswersReturn DEF Over
<1> QED BY <1>3, <1>4, <1>5, <1>6, <1>7

\* The deadline of a sync: it is flushed once, or given up.
LEMMA AnswersExpire ==
  ASSUME PixelInv, Courses, WaitExpires
  PROVE  Answered
<1>1. /\ call = "wait" /\ arg \in Targets /\ Waiting(arg) /\ target[arg].pending
      /\ drain_for = "none" /\ waiter \in [Targets -> Waits]
  BY DEF WaitExpires, PixelInv, SettledInv, TypeInv, TypeOK, CallShape, Courses, Places,
         PassPcs
<1>2. CASE BeginDrain("timeout") /\ waiter' = [waiter EXCEPT ![arg] = "drained"] /\ arg' = arg
  <2>1. PICK t \in Targets : t = arg
    BY <1>1
  <2>2. drain_for' = "timeout"
    BY <1>2 DEF BeginDrain
  <2>3. /\ \A u \in Targets : u # t => Answer(u)' = Answer(u)
        /\ Answer(t)' = "flushing"
    BY <1>1, <1>2, <2>1, <2>2, OtherAnswers
  <2>4. Answer(t) = "asked"
    BY <1>1, <2>1, AnswersNow
  <2> QED BY <1>1, <2>1, <2>3, <2>4 DEF Answered, Told
<1>3. CASE StopBusy("timeout") /\ Return("error")
  BY <1>1, <1>3, AnswersReturn DEF StopBusy
<1>4. CASE Return("error") /\ target' = [target EXCEPT ![arg] = Failed(target[arg])]
  <2>1. target[arg] \in Target /\ ~target[arg].completed
    BY <1>1, PixelTypes, PendingNowhere DEF Typed
  <2>2. ~target'[arg].completed
    BY <1>1, <1>4, <2>1, PixelTypes, FailedFields DEF Typed
  <2> QED BY <1>4, <2>2, AnswersReturn
<1> QED BY <1>2, <1>3, <1>4 DEF WaitExpires

\* No step tells the syncs anything else.
LEMMA AnswersStep ==
  ASSUME PixelInv, Courses, PixelInv', [Next]_vars
  PROVE  Answered
<1>1. SyncHonest'
  BY DEF PixelInv, SettledInv
<1>2. CASE Firmware \/ UNCHANGED vars
  <2>1. UNCHANGED <<waiter, arg, drain_for>>
    BY <1>2 DEF Firmware, vars, driverVars
  <2> QED BY <2>1, SameAnswers
<1> QED BY <1>1, <1>2, AnswersClient, AnswersWork, AnswersStart, AnswersAfter, AnswersExpire
        DEF Next, Working, Looping, Expiring

-----------------------------------------------------------------------------
(* Whether the session is closed.                                          *)

\* A session that is finished or failed never accepts a picture again.
LEMMA OverForGood ==
  ASSUME PixelInv, Courses, [Next]_vars, state \in Over
  PROVE  state' \in Over
<1>1. /\ pc \notin DrainPcs \cup {"configure", "rebuild", "start", "soutputs"}
      /\ state \notin {"Configured", "Streaming", "Reconfiguring"}
  BY DEF Courses, Over
<1>2. ASSUME NEW tg, NEW pd, NEW b, Throw(state, tg, pd, b) PROVE state' \in Over
  BY <1>2 DEF Throw, Unwind, Fail, Over
<1>3. CASE UNCHANGED state
  BY <1>3
<1>4. CASE Client \/ \E t \in Targets : Relock(t)
  BY <1>1, <1>4 DEF Client, Relock, Submit, WaitSettled, Wait, Enter, Release, Service, Finish,
                    Over
<1>5. CASE HandleEvents \/ ReturnOutput \/ LoopEnds \/ LastSeen
  BY <1>5 DEF HandleEvents, ReturnOutput, LoopEnds, LastSeen
<1>6. CASE Configure \/ Rebuild \/ DrainTurn \/ DrainExpires \/ Drained \/ Start \/ StartBusy
  BY <1>1, <1>6 DEF Configure, Rebuild, DrainTurn, DrainExpires, Drained, Start, StartBusy,
                    DrainPcs
<1>7. CASE PumpTail
  BY <1>1, <1>7 DEF PumpTail
<1>8. CASE ReturnCapture
  BY <1>2, <1>8, WhatComes DEF Comes, Turned
<1>9. CASE DequeueError
  BY <1>2, <1>9 DEF DequeueError
<1>10. CASE CallDone \/ SubmitLoops \/ SubmitGivesUp \/ Accept \/ WaitReturns \/ WaitPolls
  BY <1>10 DEF CallDone, SubmitLoops, SubmitGivesUp, Accept, WaitReturns, WaitPolls, callRest
<1>11. CASE WaitExpires
  BY <1>1, <1>11 DEF WaitExpires
<1>12. CASE Firmware \/ UNCHANGED vars
  BY <1>12 DEF Firmware, vars, driverVars
<1> QED BY <1>4, <1>5, <1>6, <1>7, <1>8, <1>9, <1>10, <1>11, <1>12
        DEF Next, Working, Looping, Expiring

-----------------------------------------------------------------------------
(* The refinement.                                                         *)

Shows(r) == IF r.completed THEN r.token ELSE NoToken

\* A surface shows the picture it was published with, or nothing.
LEMMA PixelsAre ==
  ASSUME PublishedPixels, PublishedPixels', NEW t \in Targets
  PROVE  Pixels(t) = Shows(target[t]) /\ Pixels(t)' = Shows(target'[t])
<1>1. Pixels(t) = Shows(target[t])
  BY DEF Pixels, PublishedPixels, Shows
<1>2. Pixels(t)' = Shows(target'[t])
  BY DEF Pixels, PublishedPixels, Shows
<1> QED BY <1>1, <1>2

\* Fates and pixels of a target that nothing happens to, or whose picture is lost.
LEMMA FatesElsewhere ==
  ASSUME NEW r \in Target, NEW r2 \in Target, r.pending => ~r.completed /\ ~r.error
  PROVE  /\ Stays(r, r2) => /\ Fate(r2) = Fate(r) /\ Shows(r2) = Shows(r)
                            /\ r2.token = r.token /\ ~Drops(r, r2)
         /\ Drops(r, r2) => /\ Fate(r) = "pending" /\ Fate(r2) = "failed"
                            /\ Shows(r2) = Shows(r) /\ r2.token = r.token
<1>1. ASSUME Stays(r, r2)
      PROVE  /\ Fate(r2) = Fate(r) /\ Shows(r2) = Shows(r)
             /\ r2.token = r.token /\ ~Drops(r, r2)
  BY <1>1 DEF Stays, Drops, Fate, Shows
<1>2. ASSUME Drops(r, r2)
      PROVE  /\ Fate(r) = "pending" /\ Fate(r2) = "failed"
             /\ Shows(r2) = Shows(r) /\ r2.token = r.token
  BY <1>2 DEF Drops, Fate, Shows
<1> QED BY <1>1, <1>2


PicturesPromised ==
  \E S \in SUBSET Promise!PendingTargets :
    Promise!Lose(S) \/ \E t \in Targets :
      Promise!Accept(t, S) \/ Promise!Publish(t, S) \/ Promise!Release(t, S)

\* What a step does to the pictures is what the promise allows.
LEMMA PicturesMap ==
  ASSUME PixelInv, PixelInv', PublishedPixels, PublishedPixels', Pictured
  PROVE  PicturesPromised
<1>1. ASSUME NEW u \in Targets
      PROVE  /\ target[u] \in Target /\ target'[u] \in Target
             /\ target[u].pending => ~target[u].completed /\ ~target[u].error
             /\ Pixels(u) = Shows(target[u]) /\ Pixels(u)' = Shows(target'[u])
  BY <1>1, PixelsAre DEF PixelInv, SettledInv, TypeInv, TypeOK, Sound, Fated
<1>2. ASSUME NEW u \in Targets, Stays(target[u], target'[u])
      PROVE  /\ Fate(target'[u]) = Fate(target[u]) /\ Pixels(u)' = Pixels(u)
             /\ target'[u].token = target[u].token /\ ~Drops(target[u], target'[u])
  BY <1>1, <1>2, FatesElsewhere
<1>3. ASSUME NEW u \in Targets, Drops(target[u], target'[u])
      PROVE  /\ Fate(target[u]) = "pending" /\ Fate(target'[u]) = "failed"
             /\ Pixels(u)' = Pixels(u) /\ target'[u].token = target[u].token
  BY <1>1, <1>3, FatesElsewhere
<1> DEFINE S    == {u \in Targets : Drops(target[u], target'[u])}
           R(t) == {u \in Targets : u # t /\ Drops(target[u], target'[u])}
<1>4. S \in SUBSET Promise!PendingTargets /\ \A t \in Targets : R(t) \in SUBSET Promise!PendingTargets
  BY <1>3 DEF Promise!PendingTargets
<1>5. CASE Losing
  <2>1. \A u \in Targets : Fate(target'[u]) = IF u \in S THEN "failed" ELSE Fate(target[u])
    BY <1>2, <1>3, <1>5 DEF Losing
  <2>2. \A u \in Targets : Pixels(u)' = Pixels(u) /\ target'[u].token = target[u].token
    BY <1>2, <1>3, <1>5 DEF Losing
  <2> HIDE DEF S
  <2>3. Promise!Lose(S)
    BY <1>5, <2>1, <2>2 DEF Promise!Lose, Promise!Lost, Losing
  <2> QED BY <1>4, <2>3 DEF PicturesPromised
<1>6. ASSUME NEW t \in Targets, Apart(t)
      PROVE  /\ t \notin R(t)
             /\ \A u \in Targets : u # t =>
                  /\ Fate(target'[u]) = IF u \in R(t) THEN "failed" ELSE Fate(target[u])
                  /\ Pixels(u)' = Pixels(u) /\ target'[u].token = target[u].token
  BY <1>2, <1>3, <1>6 DEF Apart
<1>7. ASSUME NEW t \in Targets, Accepting(t), NEW W, W = R(t) PROVE Promise!Accept(t, W)
  <2>1. /\ Fate(target[t]) # "pending" /\ Fate(target'[t]) = "pending"
        /\ Pixels(t)' = 0 /\ target'[t].token = next_token
    <3>1. Fate(target'[t]) = "pending"
      <4>1. ~target'[t].error
        BY <1>7 DEF PixelInv, Sound, Fated, Accepting
      <4> QED BY <1>7, <4>1 DEF Fate, Accepting
    <3>2. Fate(target[t]) # "pending"
      BY <1>1, <1>7 DEF Fate, Accepting, Target
    <3> QED BY <1>1, <1>7, <3>1, <3>2 DEF Accepting, Shows, NoToken
  <2>2. next_token \in Nat /\ next_token <= MaxToken /\ MaxToken \in Nat
        /\ next_token' = next_token + 1
    BY <1>7, SlotsAssumption DEF Accepting, Tokens
  <2>3. /\ t \notin W
        /\ \A u \in Targets : u # t =>
             /\ Fate(target'[u]) = IF u \in W THEN "failed" ELSE Fate(target[u])
             /\ Pixels(u)' = Pixels(u) /\ target'[u].token = target[u].token
    BY <1>6, <1>7 DEF Accepting
  <2> HIDE DEF R
  <2> DEFINE f  == [u \in Targets |-> Fate(target[u])]
             f2 == [u \in Targets |-> Fate(target'[u])]
             p  == [u \in Targets |-> target[u].token]
             p2 == [u \in Targets |-> target'[u].token]
             x  == [u \in Targets |-> Pixels(u)]
  <2>4. f[t] # "pending" /\ f2 = Promise!Lost([f EXCEPT ![t] = "pending"], W)
    BY <2>1, <2>3 DEF Promise!Lost
  <2>5. p2 = [p EXCEPT ![t] = next_token - 1 + 1]
    <3>1. p2 = [p EXCEPT ![t] = next_token]
      BY <2>1, <2>3
    <3>2. next_token - 1 + 1 = next_token
      BY <2>2
    <3> HIDE DEF p, p2
    <3> QED BY <3>1, <3>2
  <2>6. x' = [x EXCEPT ![t] = 0]
    BY <2>1, <2>3
  <2>7. next_token - 1 < MaxToken /\ next_token' - 1 = next_token - 1 + 1
    BY <2>2
  <2>8. state \notin {"Finished", "Failed"}
    BY <1>7 DEF Accepting
  <2> QED BY <2>4, <2>5, <2>6, <2>7, <2>8 DEF Promise!Accept
<1>8. ASSUME NEW t \in Targets, Publishing(t), NEW W, W = R(t) PROVE Promise!Publish(t, W)
  <2>1. /\ Fate(target[t]) = "pending" /\ Fate(target'[t]) = "published"
        /\ Pixels(t)' = target[t].token /\ target'[t].token = target[t].token
    <3>1. Fate(target'[t]) = "published"
      <4>1. ~target'[t].error
        BY <1>8 DEF PixelInv, Sound, Fated, Publishing
      <4> QED BY <1>8, <4>1 DEF Fate, Publishing
    <3>2. Fate(target[t]) = "pending"
      BY <1>1, <1>8 DEF Fate, Publishing, Target
    <3> QED BY <1>1, <1>8, <3>1, <3>2 DEF Publishing, Shows
  <2>2. /\ t \notin W
        /\ \A u \in Targets : u # t =>
             /\ Fate(target'[u]) = IF u \in W THEN "failed" ELSE Fate(target[u])
             /\ Pixels(u)' = Pixels(u) /\ target'[u].token = target[u].token
    BY <1>6, <1>8 DEF Publishing
  <2> HIDE DEF R
  <2> QED BY <1>8, <2>1, <2>2 DEF Promise!Publish, Promise!Lost, Publishing
<1>9. ASSUME NEW t \in Targets, Releasing(t), NEW W, W = R(t) PROVE Promise!Release(t, W)
  <2>1. /\ Fate(target'[t]) = "none" /\ Pixels(t)' = 0 /\ target'[t].token = 0
    BY <1>1, <1>9 DEF Fate, Releasing, Shows, NoToken
  <2>2. \A u \in Targets : u # t =>
          /\ Fate(target'[u]) = IF u \in W THEN "failed" ELSE Fate(target[u])
          /\ Pixels(u)' = Pixels(u) /\ target'[u].token = target[u].token
    BY <1>6, <1>9 DEF Releasing
  <2> HIDE DEF R
  <2> QED BY <1>9, <2>1, <2>2 DEF Promise!Release, Promise!Lost, Releasing
<1> HIDE DEF R
<1>10. ASSUME NEW t \in Targets, Accepting(t) \/ Publishing(t) \/ Releasing(t)
       PROVE  PicturesPromised
  <2>1. PICK W \in SUBSET Promise!PendingTargets : W = R(t)
    BY <1>4
  <2>2. Promise!Accept(t, W) \/ Promise!Publish(t, W) \/ Promise!Release(t, W)
    BY <1>7, <1>8, <1>9, <1>10, <2>1
  <2> QED BY <2>2 DEF PicturesPromised
<1> QED BY <1>5, <1>10 DEF Pictured

\* What a step tells the syncs is what the promise allows.
LEMMA AnswersMap ==
  ASSUME PixelInv, PixelInv', Answered
  PROVE  (UNCHANGED [t \in Targets |-> Answer(t)]) \/ \E t \in Targets : Promise!Sync(t)
<1>1. CASE \A t \in Targets : Answer(t)' = Answer(t)
  BY <1>1
<1>2. ASSUME NEW t \in Targets, Told(t) PROVE Promise!Sync(t)
  <2> DEFINE a == Answer(t)'
  <2>1. target[t] \in Target /\ target'[t] \in Target
    BY DEF PixelInv, SettledInv, TypeInv, TypeOK
  <2>2. /\ target[t].pending => Fate(target[t]) = "pending"
        /\ ~target'[t].pending /\ ~target'[t].error => Fate(target'[t]) \in {"published", "none"}
        /\ Fate(target'[t]) = "published" => ~target'[t].pending /\ target'[t].completed
    <3>1. target[t].pending => Fate(target[t]) = "pending"
      <4>1. target[t].pending => ~target[t].completed /\ ~target[t].error
        BY PendingNowhere
      <4> QED BY <4>1 DEF Fate
    <3>2. ~target'[t].pending /\ ~target'[t].error => Fate(target'[t]) \in {"published", "none"}
      BY <2>1 DEF Fate, Target
    <3>3. Fate(target'[t]) = "published" => ~target'[t].pending /\ target'[t].completed
      <4>1. target'[t].pending => ~target'[t].completed
        BY DEF PixelInv, Sound, Fated
      <4> QED BY <2>1, <4>1 DEF Fate, Target
    <3> QED BY <3>1, <3>2, <3>3
  <2>3. [u \in Targets |-> Answer(u)]' = [[u \in Targets |-> Answer(u)] EXCEPT ![t] = a]
    BY <1>2 DEF Told
  <2>4. a \in Promise!Answers
    BY <1>2 DEF Told, Promise!Answers
  <2> QED BY <1>2, <2>2, <2>3, <2>4 DEF Promise!Sync, Told, Over
<1> QED BY <1>1, <1>2 DEF Answered


\* The initial states are the promise's.
LEMMA PromiseStarts == Init => Promise!PromiseInit /\ Courses
<1> SUFFICES ASSUME Init PROVE Promise!PromiseInit /\ Courses
  OBVIOUS
<1>1. \A t \in Targets :
        /\ Fate(target[t]) = "none" /\ target[t].token = 0
        /\ Pixels(t) = 0 /\ Answer(t) = "idle"
  <2> SUFFICES ASSUME NEW t \in Targets
               PROVE  /\ Fate(target[t]) = "none" /\ target[t].token = 0
                      /\ Pixels(t) = 0 /\ Answer(t) = "idle"
    OBVIOUS
  <2>1. /\ ~target[t].pending /\ ~target[t].completed /\ ~target[t].error
        /\ target[t].token = NoToken /\ waiter[t] = "idle"
    BY DEF Init
  <2> QED BY <2>1 DEF Fate, Pixels, Answer, Waiting, NoToken
<1>2. next_token - 1 = 0 /\ state \notin {"Finished", "Failed"}
  BY DEF Init
<1>3. Promise!PromiseInit
  BY <1>1, <1>2 DEF Promise!PromiseInit
<1>4. Courses
  BY DEF Init, Courses, DrainPcs
<1> QED BY <1>3, <1>4

\* Every step is a step of the promise.
LEMMA PromiseStep ==
  ASSUME PixelInv, PixelInv', PublishedPixels, PublishedPixels', Courses, [Next]_vars
  PROVE  Promise!PromiseNext
<1>1. PicturesPromised
  BY PicturesStep, PicturesMap
<1>2. (UNCHANGED [t \in Targets |-> Answer(t)]) \/ \E t \in Targets : Promise!Sync(t)
  BY AnswersStep, AnswersMap
<1>3. (state \notin {"Finished", "Failed"})' \in {state \notin {"Finished", "Failed"}, FALSE}
  <2>1. CASE state \in Over
    BY <2>1, OverForGood DEF Over
  <2>2. CASE state \notin Over
    BY <2>2 DEF Over
  <2> QED BY <2>1, <2>2
<1> QED BY <1>1, <1>2, <1>3 DEF Promise!PromiseNext, PicturesPromised

\* Every picture that a session accepts has one fate, decided once; a surface shows
\* its own picture, and nothing else, until the client lets go of it; a sync is
\* told SUCCESS only for a picture that is there, and none is forgotten
\* (architecture.md section 10, invariants 1, 4 and 8; session.h): as long as no
\* Import pool starts over leftovers of an earlier one.
THEOREM SessionKeepsPromise == Spec /\ [][CleanStart]_vars => KeepsPromise
<1>1. PixelInv /\ Courses /\ [Next]_vars => Courses'
  BY CoursesStep
<1>2. /\ PixelInv /\ PixelInv' /\ PublishedPixels /\ PublishedPixels' /\ Courses /\ [Next]_vars
      => [Promise!PromiseNext]_(Promise!promiseVars)
  BY PromiseStep
<1> QED BY <1>1, <1>2, AlwaysPixels, PicturesStay, PromiseStarts, PTL
        DEF Spec, KeepsPromise, Promise!PromiseSpec


-----------------------------------------------------------------------------
(* Sessions without Import pools.                                          *)

\* The codec has no Import format (picture.cc:95), or the firmware gives pictures
\* out in display order.
NoImport == ~ImportAllowed \/ mode = "DisplayOrder"

\* The mode never changes, and only configure_capture makes an Import pool.
LEMMA PoolMemories ==
  ASSUME [Next]_vars, NoImport
  PROVE  mode' = mode /\ (memory' = "Import" => memory = "Import")
<1>1. \A tg, pd : PoolMemory(tg, pd) = "Mmap"
  BY DEF PoolMemory, ImportGranted, NoImport
<1>2. ASSUME NEW tg, NEW pd, configure_capture(tg, pd) \/ configure_capture_throws(tg, pd)
      PROVE  memory' # "Import"
  <2>1. memory' \in {"Unallocated", PoolMemory(tg, pd)}
    BY <1>2, Zenon DEF configure_capture, configure_capture_throws, StartPool
  <2> QED BY <1>1, <2>1
<1>3. CASE Client \/ \E t \in Targets : Relock(t)
  <2>1. ASSUME NEW t \in Targets, Release(t)
        PROVE  mode' = mode /\ (memory' = "Import" => memory = "Import")
    <3>1. \/ memory' = memory
          \/ \E tg, pd : configure_capture(tg, pd) \/ configure_capture_throws(tg, pd)
      BY <2>1, Zenon DEF Release
    <3>2. mode' = mode
      BY <2>1, Zenon DEF Release, poolRest
    <3> QED BY <1>2, <3>1, <3>2
  <2> QED BY <1>3, <2>1 DEF Client, Relock, Submit, WaitSettled, Wait, Enter, Service, Finish,
                            drainRest
<1>4. CASE Reconfigure
  BY <1>2, <1>4 DEF Reconfigure, poolRest
<1>5. CASE Configure
  BY <1>2, <1>5 DEF Configure, poolRest
<1>6. CASE PumpTail
  BY <1>4, <1>6 DEF PumpTail, drainRest
<1>7. CASE Rebuild
  BY <1>4, <1>7 DEF Rebuild
<1>8. UNCHANGED <<mode, memory>> \/ Client \/ (\E t \in Targets : Relock(t))
        \/ Configure \/ PumpTail \/ Rebuild
  BY DEF Next, Working, Looping, Expiring, HandleEvents, ReturnOutput, LoopEnds, ReturnCapture,
         DrainTurn, LastSeen, Drained, Start, CallDone, Accept, WaitReturns, SubmitLoops,
         WaitPolls, StartBusy, SubmitGivesUp, WaitExpires, drainRest, DrainExpires,
         DequeueError, callRest, Firmware, vars, driverVars
<1> QED BY <1>3, <1>5, <1>6, <1>7, <1>8

\* There the promise is kept whatever happens.
THEOREM WithoutImport == Spec /\ NoImport => KeepsPromise /\ []PublishedPixels
<1>1. NoImport /\ [Next]_vars => NoImport' /\ CleanStart
  BY PoolMemories DEF NoImport, CleanStart
<1> QED BY <1>1, SessionKeepsPromise, PicturesStay, PTL DEF Spec
=============================================================================
