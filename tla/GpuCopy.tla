------------------------------ MODULE GpuCopy ------------------------------
(* The copy engine of the driver (gpu_copy.cc, publish.cc): one worker     *)
(* thread owns all EGL state and runs one packaged_task at a time, which   *)
(* any client thread leaves in the single cell task_ and waits for.  The   *)
(* sessions of a driver and its VA entry points share one engine, so       *)
(* several threads may be in run() at once.  Without a GPU the engine is   *)
(* CpuCopy, which copies in the calling thread.                            *)
(*                                                                         *)
(* The lambda of copy() captures its buffers by reference: they live as    *)
(* long as the caller is blocked in run().                                 *)
(*                                                                         *)
(* X_f is a mutant of f: a bug the code could have.  Nothing uses it.      *)


CONSTANTS
  None,             \* an invalid packaged_task
  Callers,          \* threads inside a VA entry point
  Frames,           \* ids of CAPTURE slots: sources of copies
  Stables           \* ids of stable surface buffers: destinations

ASSUME GpuAssumption == Frames \cap Stables = {} /\ None \notin Callers

VARIABLES
  engine,           \* DriverData::copier
  worker,           \* where the worker thread is
  task,             \* GpuCopy::task_: the caller whose task it is, or None
  running,          \* the task the worker has moved out of task_, likewise
  stop,             \* GpuCopy::stop_
  call,             \* where each caller is in run(), and its function
  done,             \* what is in each caller's future
  source_views, dest_views,   \* the imports GpuBlitter caches, by id
  alive             \* buffers that exist (the callers' side)

gpuVars ==
  <<engine, worker, task, running, stop, call, done, source_views, dest_views,
    alive>>

Functions ==
  [kind : {"copy"}, src : Frames, dst : Stables]
    \cup [kind : {"forget"}, id : Frames \cup Stables]
Uses(f) == IF f.kind = "copy" THEN {f.src, f.dst} ELSE {f.id}

Idle == [at |-> "idle"]
Calls(at) == [at : {at}, function : Functions]
Busy(c)   == call[c].at # "idle"
-----------------------------------------------------------------------------
(* The worker thread.                                                      *)

\* The driver starts with the CPU engine, or waits for the worker to have a
\* GLES context.
GpuInit ==
  /\ engine \in {"cpu", "starting"}
  /\ worker = IF engine = "cpu" THEN "none" ELSE "starting"
  /\ task = None /\ running = None /\ stop = FALSE
  /\ call = [c \in Callers |-> Idle] /\ done = [c \in Callers |-> "no"]
  /\ source_views = {} /\ dest_views = {} /\ alive = Frames \cup Stables

\* GpuBlitter's constructor succeeds, or throws: the worker ends, make_gpu_copy
\* joins it, and the driver takes CpuCopy.
Start ==
  /\ worker = "starting"
  /\ \/ worker' = "checking" /\ engine' = "gpu"
     \/ worker' = "ended" /\ engine' = "cpu"
  /\ UNCHANGED <<task, running, stop, call, done, source_views, dest_views, alive>>

\* The predicate of wake_.wait, evaluated under the mutex: leave the loop and
\* destroy the blitter with its views, take the task, or sleep.
Check ==
  /\ worker = "checking"
  /\ \/ /\ stop /\ worker' = "ended" /\ source_views' = {} /\ dest_views' = {}
        /\ UNCHANGED <<task, running>>
     \/ /\ ~stop /\ task # None
        /\ running' = task /\ task' = None /\ worker' = "running"
        /\ UNCHANGED <<source_views, dest_views>>
     \/ /\ ~stop /\ task = None /\ worker' = "asleep"
        /\ UNCHANGED <<task, running, source_views, dest_views>>
  /\ UNCHANGED <<engine, stop, call, done, alive>>

\* A condition variable may wake without a notification.
SpuriousWake ==
  /\ worker = "asleep" /\ worker' = "checking"
  /\ UNCHANGED <<engine, task, running, stop, call, done, source_views, dest_views, alive>>

\* wake_.notify_one: lost when nobody sleeps, which is why the predicate is
\* evaluated before sleeping.
notify_one == worker' = IF worker = "asleep" THEN "checking" ELSE worker

X_forget(id) == source_views' = source_views \ {id} /\ UNCHANGED dest_views
forget(id) ==
  /\ source_views' = source_views \ {id} /\ dest_views' = dest_views \ {id}

\* view(): the import is cached, or was there, or could not be made, in which
\* case one of another size has been dropped before.
Imported(views, id) == views \cup {id}
Unimported(views, id) == {views, views \ {id}}

Copied(f) ==
  /\ source_views' = Imported(source_views, f.src)
  /\ dest_views' = Imported(dest_views, f.dst)
NotCopied(f) ==
  \/ UNCHANGED <<source_views, dest_views>>                  \* format, fence
  \/ source_views' \in Unimported(source_views, f.src) /\ UNCHANGED dest_views
  \/ /\ source_views' = Imported(source_views, f.src)
     /\ dest_views' \in Unimported(dest_views, f.dst)
  \/ Copied(f)                                               \* glGetError

\* The task runs and makes its caller's future ready, with the exception if
\* the function threw one.
RunTask ==
  /\ worker = "running"
  /\ LET f == call[running].function
     IN \E result \in {"ok", "error"} :
          /\ done' = [done EXCEPT ![running] = result]
          /\ IF f.kind = "forget" THEN result = "ok" /\ forget(f.id)
             ELSE IF result = "ok" THEN Copied(f) ELSE NotCopied(f)
  /\ running' = None /\ worker' = "checking"
  /\ UNCHANGED <<engine, task, stop, call, alive>>
-----------------------------------------------------------------------------
(* The callers.                                                            *)

\* run(): the task takes the cell.  A task that was still in it is destroyed,
\* and its caller's future becomes a broken promise.
Post(c, f) ==
  /\ task' = c
  /\ done' = [d \in Callers |-> IF d = task THEN "broken" ELSE done[d]]
  /\ call' = [call EXCEPT ![c] = [at |-> "notifying", function |-> f]]

\* copy() or forget() of buffers no other thread uses meanwhile.
run(c, f) ==
  /\ ~Busy(c) /\ engine \in {"gpu", "cpu"}
  /\ Uses(f) \subseteq alive
  /\ \A d \in Callers : Busy(d) => Uses(f) \cap Uses(call[d].function) = {}
  /\ IF engine = "gpu" THEN Post(c, f)
     ELSE /\ call' = [call EXCEPT ![c] = [at |-> "waiting", function |-> f]]
          /\ \E result \in {"ok", "error"} :
               /\ f.kind = "forget" => result = "ok"
               /\ done' = [done EXCEPT ![c] = result]
          /\ UNCHANGED task
  /\ UNCHANGED <<engine, worker, running, stop, source_views, dest_views, alive>>

X_Notify(c) ==
  /\ call[c].at = "notifying" /\ UNCHANGED worker
  /\ call' = [call EXCEPT ![c].at = "waiting"]
  /\ UNCHANGED <<engine, task, running, stop, done, source_views, dest_views, alive>>
Notify(c) ==
  /\ call[c].at = "notifying" /\ notify_one
  /\ call' = [call EXCEPT ![c].at = "waiting"]
  /\ UNCHANGED <<engine, task, running, stop, done, source_views, dest_views, alive>>

\* done.get() returns or throws.  A buffer that was forgotten may be destroyed
\* now (a surface, a CAPTURE pool) or live on (a frame that is given back); an
\* exception does not keep it.
X_Return(c) ==
  /\ call[c].at = "waiting"
  /\ call' = [call EXCEPT ![c] = Idle] /\ done' = [done EXCEPT ![c] = "no"]
  /\ \/ UNCHANGED alive
     \/ call[c].function.kind = "forget" /\ alive' = alive \ {call[c].function.id}
  /\ UNCHANGED <<engine, worker, task, running, stop, source_views, dest_views>>
Return(c) ==
  /\ call[c].at = "waiting" /\ done[c] # "no"
  /\ call' = [call EXCEPT ![c] = Idle] /\ done' = [done EXCEPT ![c] = "no"]
  /\ \/ UNCHANGED alive
     \/ call[c].function.kind = "forget" /\ alive' = alive \ {call[c].function.id}
  /\ UNCHANGED <<engine, worker, task, running, stop, source_views, dest_views>>

\* terminate(), when no other entry point is running: ~GpuCopy sets stop_,
\* then notifies, then joins.
X_SetStop ==
  /\ \A c \in Callers : ~Busy(c)
  /\ engine = "gpu" /\ engine' = "joining" /\ stop' = TRUE
  /\ UNCHANGED <<worker, task, running, call, done, source_views, dest_views, alive>>
SetStop ==
  /\ \A c \in Callers : ~Busy(c)
  /\ engine = "gpu" /\ engine' = "stopping" /\ stop' = TRUE
  /\ UNCHANGED <<worker, task, running, call, done, source_views, dest_views, alive>>
NotifyStop ==
  /\ engine = "stopping" /\ engine' = "joining" /\ notify_one
  /\ UNCHANGED <<task, running, stop, call, done, source_views, dest_views, alive>>
Join ==
  /\ engine = "joining" /\ worker = "ended" /\ engine' = "closed"
  /\ UNCHANGED <<worker, task, running, stop, call, done, source_views, dest_views, alive>>

GpuNext ==
  \/ Start \/ Check \/ SpuriousWake \/ RunTask
  \/ \E c \in Callers : (\E f \in Functions : run(c, f)) \/ Notify(c) \/ Return(c)
  \/ SetStop \/ NotifyStop \/ Join

\* Threads that can run do; nobody has to call, and nothing wakes a thread
\* that was not notified.
GpuFairness ==
  /\ WF_gpuVars(Start) /\ WF_gpuVars(Check) /\ WF_gpuVars(RunTask)
  /\ WF_gpuVars(NotifyStop) /\ WF_gpuVars(Join)
  /\ \A c \in Callers : WF_gpuVars(Notify(c)) /\ WF_gpuVars(Return(c))

GpuSpec == GpuInit /\ [][GpuNext]_gpuVars /\ GpuFairness
-----------------------------------------------------------------------------
\* The lambda refers to the caller's buffers: as long as a task is queued or
\* running, its caller is blocked in run(), has no result, and its buffers
\* exist (gpu_copy.cc:265).
ReferencesAlive ==
  \A c \in Callers : c \in {task, running} =>
    Busy(c) /\ done[c] = "no" /\ Uses(call[c].function) \subseteq alive

\* A forget() that returned without an exception left no import behind, so
\* the buffer can be freed by REQBUFS(0) (publish.h:24).
ForgetForgets ==
  [][\A c \in Callers :
       Busy(c) /\ ~Busy(c)' /\ call[c].function.kind = "forget" /\ done[c] = "ok"
         => call[c].function.id \notin source_views \cup dest_views]_gpuVars

\* Every copy() and forget() ends, whatever the others do to the cell.
RunReturns == \A c \in Callers : Busy(c) ~> ~Busy(c)

\* The engine's destructor ends, and with it the worker and every import.
Terminates ==
  stop ~>
    engine = "closed" /\ worker = "ended" /\ source_views \cup dest_views = {}

\* A call fails only for a reason of its own (architecture.md:272: entry
\* points arrive from several client threads).
NoBrokenPromise == \A c \in Callers : done[c] # "broken"
=============================================================================
