--------------------------- MODULE GpuCopyProofs ---------------------------
(***************************************************************************)
(* Theorems about GpuCopy, for every number of threads and buffers.        *)
(***************************************************************************)
EXTENDS GpuCopy, TLAPS

Call == {Idle} \cup Calls("notifying") \cup Calls("waiting")

GpuTypeOK ==
  /\ engine \in {"starting", "gpu", "cpu", "stopping", "joining", "closed"}
  /\ worker \in {"none", "starting", "checking", "asleep", "running", "ended"}
  /\ task \in Callers \cup {None} /\ running \in Callers \cup {None}
  /\ stop \in BOOLEAN
  /\ call \in [Callers -> Call]
  /\ done \in [Callers -> {"no", "ok", "error", "broken"}]

\* The worker holds a task exactly while it runs it, and never the one that
\* waits in the cell.
OneTask ==
  /\ (worker = "running") <=> (running # None)
  /\ task # None => task # running

\* Threads in run() use buffers of their own, and a thread outside has nothing
\* in its future.
Apart ==
  /\ \A c \in Callers : ~Busy(c) => done[c] = "no"
  /\ \A c, d \in Callers : c # d /\ Busy(c) /\ Busy(d) =>
       Uses(call[c].function) \cap Uses(call[d].function) = {}

\* The views are the worker's: there are none before it has a context, after it
\* ended, or without it.
ViewsOfWorker ==
  /\ worker \in {"none", "starting", "ended"} => source_views = {} /\ dest_views = {}
  /\ engine = "cpu" => worker \in {"none", "ended"}

\* A buffer whose forget() has succeeded has no view.
Forgotten ==
  \A c \in Callers :
    Busy(c) /\ call[c].function.kind = "forget" /\ done[c] = "ok" =>
      call[c].function.id \notin source_views \cup dest_views

GpuInv ==
  GpuTypeOK /\ OneTask /\ Apart /\ ViewsOfWorker /\ ReferencesAlive /\ Forgotten

-----------------------------------------------------------------------------
(* Steps of the worker.                                                    *)

\* A busy thread is in run() with a function of its own.
LEMMA BusyCalls ==
  ASSUME GpuTypeOK, NEW c \in Callers, Busy(c)
  PROVE  call[c].function \in Functions /\ call[c].at \in {"notifying", "waiting"}
BY DEF GpuTypeOK, Call, Calls, Busy, Idle

\* Start, sleeping and waking leave tasks, callers and views alone.
LEMMA WorkerTurns ==
  ASSUME GpuInv, Start \/ SpuriousWake
  PROVE  GpuInv'
<1> USE DEF GpuInv, GpuTypeOK, OneTask, Apart, ViewsOfWorker, ReferencesAlive, Forgotten, Busy
<1>1. CASE Start
  BY <1>1 DEF Start
<1>2. CASE SpuriousWake
  BY <1>2 DEF SpuriousWake
<1> QED BY <1>1, <1>2

\* The worker takes the task in the cell, sleeps, or ends with its views.
LEMMA CheckStep ==
  ASSUME GpuInv, Check
  PROVE  GpuInv'
<1> USE DEF GpuInv, GpuTypeOK, OneTask, Apart, ViewsOfWorker, ReferencesAlive, Forgotten, Busy
<1>1. CASE stop /\ worker' = "ended" /\ source_views' = {} /\ dest_views' = {}
           /\ UNCHANGED <<task, running>>
  BY <1>1 DEF Check
<1>2. CASE ~stop /\ task # None /\ running' = task /\ task' = None /\ worker' = "running"
           /\ UNCHANGED <<source_views, dest_views>>
  BY <1>2 DEF Check
<1>3. CASE ~stop /\ task = None /\ worker' = "asleep"
           /\ UNCHANGED <<task, running, source_views, dest_views>>
  BY <1>3 DEF Check
<1> QED BY <1>1, <1>2, <1>3 DEF Check

\* Whatever a task does to the views, it adds views of its own function's
\* buffers only, and a forget() leaves none of its buffer.
LEMMA TaskViews ==
  ASSUME NEW f \in Functions, NEW result \in {"ok", "error"},
         IF f.kind = "forget" THEN result = "ok" /\ forget(f.id)
         ELSE IF result = "ok" THEN Copied(f) ELSE NotCopied(f)
  PROVE  /\ source_views' \cup dest_views' \subseteq source_views \cup dest_views \cup Uses(f)
         /\ f.kind = "forget" => f.id \notin source_views' \cup dest_views'
<1>1. CASE f.kind = "forget"
  BY <1>1 DEF forget, Uses
<1>2. CASE f.kind # "forget"
  <2>1. f.kind = "copy"
    BY <1>2 DEF Functions
  <2>2. Copied(f) \/ NotCopied(f)
    BY <1>2
  <2> QED BY <2>1, <2>2, <1>2 DEF Copied, NotCopied, Imported, Unimported, Uses
<1> QED BY <1>1, <1>2

\* The worker runs its task: the caller is still blocked in run(), gets its
\* result, and no view of another thread's forgotten buffer comes back.
LEMMA RunTaskStep ==
  ASSUME GpuInv, RunTask
  PROVE  GpuInv'
<1> DEFINE f == call[running].function
<1>1. running \in Callers /\ running # None /\ running # task /\ worker = "running"
  BY DEF GpuInv, GpuTypeOK, OneTask, RunTask
<1>2. Busy(running) /\ done[running] = "no"
  BY <1>1 DEF GpuInv, ReferencesAlive
<1>3. f \in Functions
  BY <1>1, <1>2, BusyCalls DEF GpuInv
<1>4. PICK result \in {"ok", "error"} :
        /\ done' = [done EXCEPT ![running] = result]
        /\ IF f.kind = "forget" THEN result = "ok" /\ forget(f.id)
           ELSE IF result = "ok" THEN Copied(f) ELSE NotCopied(f)
  BY DEF RunTask
<1>5. running' = None /\ worker' = "checking" /\ UNCHANGED <<engine, task, stop, call, alive>>
  BY DEF RunTask
<1>6. GpuTypeOK'
  BY <1>1, <1>4, <1>5 DEF GpuInv, GpuTypeOK
<1>7. OneTask' /\ ViewsOfWorker'
  BY <1>1, <1>5, GpuAssumption DEF GpuInv, OneTask, ViewsOfWorker, GpuTypeOK
<1>8. Apart'
  BY <1>1, <1>2, <1>4, <1>5 DEF GpuInv, Apart, Busy, GpuTypeOK
<1>9. ReferencesAlive'
  BY <1>1, <1>4, <1>5, GpuAssumption DEF GpuInv, ReferencesAlive, Busy, GpuTypeOK
<1>10. Forgotten'
  <2> SUFFICES ASSUME NEW c \in Callers, Busy(c), call[c].function.kind = "forget",
                      done'[c] = "ok"
               PROVE  call[c].function.id \notin source_views' \cup dest_views'
    BY <1>5 DEF Forgotten, Busy
  <2>1. CASE c = running
    BY <2>1, <1>3, <1>4, TaskViews
  <2>2. CASE c # running
    <3>1. done[c] = "ok"
      BY <2>2, <1>1, <1>4 DEF GpuInv, GpuTypeOK
    <3>2. call[c].function.id \notin source_views \cup dest_views
      BY <3>1 DEF GpuInv, Forgotten
    <3>3. Uses(call[c].function) = {call[c].function.id}
      BY DEF Uses
    <3>4. call[c].function.id \notin Uses(f)
      BY <2>2, <3>3, <1>1, <1>2 DEF GpuInv, Apart
    <3> QED BY <3>2, <3>4, <1>3, <1>4, TaskViews
  <2> QED BY <2>1, <2>2
<1> QED BY <1>6, <1>7, <1>8, <1>9, <1>10 DEF GpuInv

-----------------------------------------------------------------------------
(* Steps of the callers.                                                   *)

\* A thread enters run(): it was outside, so it was nobody's task, and the task
\* it may replace is not the one the worker has taken.
LEMMA RunStep ==
  ASSUME GpuInv, NEW c \in Callers, NEW f \in Functions, run(c, f)
  PROVE  GpuInv'
<1> DEFINE at == IF engine = "gpu" THEN "notifying" ELSE "waiting"
<1>1. /\ call' = [call EXCEPT ![c] = [at |-> at, function |-> f]]
      /\ UNCHANGED <<engine, worker, running, stop, source_views, dest_views, alive>>
  BY DEF run, Post
<1>2. ~Busy(c) /\ c \notin {task, running} /\ done[c] = "no"
  BY DEF run, GpuInv, ReferencesAlive, Apart
<1>3. [at |-> at, function |-> f] \in Call
  BY DEF Call, Calls
<1>4. /\ call'[c].function = f /\ Busy(c)'
      /\ \A d \in Callers : d # c => call'[d] = call[d] /\ Busy(d)' = Busy(d)
  BY <1>1 DEF GpuInv, GpuTypeOK, Busy
<1>5. \A d \in Callers : Busy(d) => Uses(f) \cap Uses(call[d].function) = {}
  BY DEF run
<1>6. Apart' /\ call' \in [Callers -> Call]
  <2>1. \A d \in Callers : ~Busy(d)' => done'[d] = "no"
    <3> SUFFICES ASSUME NEW d \in Callers, ~Busy(d)'
                 PROVE  done'[d] = "no"
      OBVIOUS
    <3>1. d # c /\ ~Busy(d) /\ done[d] = "no"
      BY <1>4 DEF GpuInv, Apart
    <3>2. d # task
      BY <3>1 DEF GpuInv, ReferencesAlive
    <3> QED BY <3>1, <3>2 DEF run, Post, GpuInv, GpuTypeOK
  <2>2. ASSUME NEW a \in Callers, NEW d \in Callers, a # d, Busy(a)', Busy(d)'
        PROVE  Uses(call'[a].function) \cap Uses(call'[d].function) = {}
    BY <2>2, <1>4, <1>5 DEF GpuInv, Apart
  <2>3. call' \in [Callers -> Call]
    BY <1>1, <1>3 DEF GpuInv, GpuTypeOK
  <2> QED BY <2>1, <2>2, <2>3 DEF Apart
<1>7. CASE engine = "gpu"
  <2>1. task' = c /\ done' = [d \in Callers |-> IF d = task THEN "broken" ELSE done[d]]
    BY <1>7 DEF run, Post
  <2>2. GpuTypeOK' /\ OneTask' /\ ViewsOfWorker'
    BY <2>1, <1>1, <1>2, <1>6 DEF GpuInv, GpuTypeOK, OneTask, ViewsOfWorker
  <2>3. ReferencesAlive'
    <3> SUFFICES ASSUME NEW d \in Callers, d \in {task', running'}
                 PROVE  Busy(d)' /\ done'[d] = "no" /\ Uses(call'[d].function) \subseteq alive'
      BY DEF ReferencesAlive
    <3>1. CASE d = c
      BY <3>1, <2>1, <1>1, <1>2, <1>4 DEF run
    <3>2. CASE d # c
      <4>1. d = running /\ d # task
        BY <3>2, <2>1, <1>1, GpuAssumption DEF GpuInv, OneTask
      <4>2. Busy(d) /\ done[d] = "no" /\ Uses(call[d].function) \subseteq alive
        BY <4>1 DEF GpuInv, ReferencesAlive
      <4> QED BY <3>2, <4>1, <4>2, <2>1, <1>1, <1>4
    <3> QED BY <3>1, <3>2
  <2>4. Forgotten'
    BY <2>1, <1>1, <1>2, <1>4 DEF GpuInv, Forgotten
  <2> QED BY <2>2, <2>3, <2>4, <1>6 DEF GpuInv
<1>8. CASE engine # "gpu"
  <2>1. engine = "cpu" /\ UNCHANGED task /\ source_views = {} /\ dest_views = {}
    BY <1>8 DEF run, GpuInv, ViewsOfWorker
  <2>2. PICK result \in {"ok", "error"} : done' = [done EXCEPT ![c] = result]
    BY <1>8 DEF run
  <2>3. GpuTypeOK' /\ OneTask' /\ ViewsOfWorker'
    BY <2>1, <2>2, <1>1, <1>6 DEF GpuInv, GpuTypeOK, OneTask, ViewsOfWorker
  <2>4. ReferencesAlive'
    BY <2>1, <2>2, <1>1, <1>2, <1>4 DEF GpuInv, GpuTypeOK, ReferencesAlive
  <2>5. Forgotten'
    BY <2>1, <1>1 DEF Forgotten
  <2> QED BY <2>3, <2>4, <2>5, <1>6 DEF GpuInv
<1> QED BY <1>7, <1>8

\* A thread notifies the worker: its function and its place in the cell stay.
LEMMA NotifyStep ==
  ASSUME GpuInv, NEW c \in Callers, Notify(c)
  PROVE  GpuInv'
<1>1. Busy(c) /\ call[c] \in Calls("notifying")
  BY DEF Notify, Busy, GpuInv, GpuTypeOK, Call, Calls, Idle
<1>2. /\ call'[c] \in Calls("waiting") /\ call'[c].function = call[c].function
      /\ \A d \in Callers : d # c => call'[d] = call[d]
      /\ call' \in [Callers -> Call]
  BY <1>1 DEF Notify, GpuInv, GpuTypeOK, Call, Calls
<1>3. \A d \in Callers : Busy(d)' = Busy(d) /\ (Busy(d) => call'[d].function = call[d].function)
  BY <1>1, <1>2 DEF Busy, Calls
<1>4. UNCHANGED <<engine, task, running, stop, done, source_views, dest_views, alive>>
  BY DEF Notify
<1>5. worker' = IF worker = "asleep" THEN "checking" ELSE worker
  BY DEF Notify, notify_one
<1>6. GpuTypeOK' /\ OneTask' /\ ViewsOfWorker'
  BY <1>2, <1>4, <1>5 DEF GpuInv, GpuTypeOK, OneTask, ViewsOfWorker
<1>7. Apart' /\ ReferencesAlive' /\ Forgotten'
  BY <1>3, <1>4 DEF GpuInv, Apart, ReferencesAlive, Forgotten
<1> QED BY <1>6, <1>7 DEF GpuInv

\* A thread leaves run() only with a result, so neither the cell nor the worker
\* refers to it; the buffer it may destroy is used by no other thread.
LEMMA ReturnStep ==
  ASSUME GpuInv, NEW c \in Callers, Return(c)
  PROVE  GpuInv'
<1>1. Busy(c) /\ c \notin {task, running}
  BY DEF Return, Busy, GpuInv, ReferencesAlive
<1>2. /\ call' = [call EXCEPT ![c] = Idle] /\ done' = [done EXCEPT ![c] = "no"]
      /\ UNCHANGED <<engine, worker, task, running, stop, source_views, dest_views>>
  BY DEF Return
<1>3. /\ ~Busy(c)' /\ done'[c] = "no"
      /\ \A d \in Callers : d # c => /\ call'[d] = call[d] /\ done'[d] = done[d]
                                     /\ Busy(d)' = Busy(d)
  BY <1>2 DEF Busy, Idle, GpuInv, GpuTypeOK
<1>4. alive \ Uses(call[c].function) \subseteq alive'
  BY DEF Return, Uses
<1>5. GpuTypeOK' /\ OneTask' /\ ViewsOfWorker'
  BY <1>2 DEF GpuInv, GpuTypeOK, OneTask, ViewsOfWorker, Call
<1>6. Apart' /\ Forgotten'
  BY <1>2, <1>3 DEF GpuInv, Apart, Forgotten
<1>7. ReferencesAlive'
  <2> SUFFICES ASSUME NEW d \in Callers, d \in {task, running}
               PROVE  Busy(d) /\ done[d] = "no" /\ Uses(call[d].function) \subseteq alive'
    BY <1>1, <1>2, <1>3 DEF ReferencesAlive
  <2>1. Busy(d) /\ done[d] = "no" /\ Uses(call[d].function) \subseteq alive /\ d # c
    BY <1>1 DEF GpuInv, ReferencesAlive
  <2>2. Uses(call[d].function) \cap Uses(call[c].function) = {}
    BY <2>1, <1>1 DEF GpuInv, Apart
  <2> QED BY <2>1, <2>2, <1>4
<1> QED BY <1>5, <1>6, <1>7 DEF GpuInv

\* The destructor stops, notifies and joins without touching a task.
LEMMA DestructorStep ==
  ASSUME GpuInv, SetStop \/ NotifyStop \/ Join
  PROVE  GpuInv'
<1> USE DEF GpuInv, GpuTypeOK, OneTask, Apart, ViewsOfWorker, ReferencesAlive, Forgotten, Busy
<1>1. CASE SetStop
  BY <1>1 DEF SetStop
<1>2. CASE NotifyStop
  BY <1>2 DEF NotifyStop, notify_one
<1>3. CASE Join
  BY <1>3 DEF Join
<1> QED BY <1>1, <1>2, <1>3

-----------------------------------------------------------------------------
(* The theorems.                                                           *)

\* Every behaviour of the engine keeps the inductive invariant.
THEOREM AlwaysInv == GpuSpec => []GpuInv
<1>1. GpuInit => GpuInv
  <2> SUFFICES ASSUME GpuInit PROVE GpuInv
    OBVIOUS
  <2>1. \A c \in Callers : ~Busy(c) /\ done[c] = "no" /\ c \notin {task, running}
    BY GpuAssumption DEF GpuInit, Busy, Idle
  <2>2. Apart /\ ReferencesAlive /\ Forgotten
    BY <2>1 DEF Apart, ReferencesAlive, Forgotten
  <2>3. GpuTypeOK /\ OneTask /\ ViewsOfWorker
    BY DEF GpuInit, GpuTypeOK, OneTask, ViewsOfWorker, Call
  <2> QED BY <2>2, <2>3 DEF GpuInv
<1>2. GpuInv /\ [GpuNext]_gpuVars => GpuInv'
  <2> SUFFICES ASSUME GpuInv, [GpuNext]_gpuVars PROVE GpuInv'
    OBVIOUS
  <2>1. CASE UNCHANGED gpuVars
    BY <2>1 DEF gpuVars, GpuInv, GpuTypeOK, OneTask, Apart, ViewsOfWorker,
       ReferencesAlive, Forgotten, Busy
  <2>2. CASE GpuNext
    BY <2>2, WorkerTurns, CheckStep, RunTaskStep, RunStep, NotifyStep, ReturnStep,
       DestructorStep DEF GpuNext
  <2> QED BY <2>1, <2>2
<1> QED BY <1>1, <1>2, PTL DEF GpuSpec

\* As long as a task is queued or running, its caller is blocked in run() and
\* the buffers its lambda refers to exist, for any number of threads that
\* overwrite each other's tasks (gpu_copy.cc:261).
THEOREM TasksKeepReferences == GpuSpec => []ReferencesAlive
<1>1. GpuInv => ReferencesAlive
  BY DEF GpuInv
<1> QED BY <1>1, AlwaysInv, PTL

\* No import of a buffer is left when its forget() returns (publish.h:24).
THEOREM ForgetLeavesNothing == GpuSpec => ForgetForgets
<1>1. ASSUME GpuInv
      PROVE  [\A c \in Callers :
                Busy(c) /\ ~Busy(c)' /\ call[c].function.kind = "forget" /\ done[c] = "ok"
                  => call[c].function.id \notin source_views \cup dest_views]_gpuVars
  BY <1>1 DEF GpuInv, Forgotten
<1> QED BY <1>1, AlwaysInv, PTL DEF ForgetForgets
=============================================================================
