------------------------------ MODULE VaDriver ------------------------------
(***************************************************************************)
(* The VA entry points (picture.cc, surface.cc, driver.cc) called by the   *)
(* threads of a client, over decode sessions that are here as abstract as  *)
(* DecodePromise: a map of pending targets that any call into the session  *)
(* may settle.                                                             *)
(*                                                                         *)
(* One action is a stretch of code under Driver::mutex, or one call into a *)
(* session, which holds that session's mutex.  Between them other threads  *)
(* run.  A surface object outlives its id: threads hold it by shared_ptr,  *)
(* sessions by plain pointers to its target.                               *)
(*                                                                         *)
(* Clients keep to what libva asks of them: one thread at a time decodes   *)
(* with a context (DecodesWith), and a surface is not reused, moved or     *)
(* destroyed while another thread's call has it (InCall, BeingDestroyed).  *)
(*                                                                         *)
(* X_f is a mutant of f: a bug the code could have.  Nothing uses it.      *)
(***************************************************************************)
EXTENDS FiniteSets

CONSTANTS
  None,
  Threads,          \* of the client
  Surfaces,         \* surfaces the client has created
  Contexts,         \* contexts it may create, once each
  Exported,         \* surfaces it may export
  Deferring         \* contexts whose translator holds pictures back (AV1)

ASSUME VaAssumption ==
  /\ Deferring \subseteq Contexts /\ Exported \subseteq Surfaces
  /\ None \notin Surfaces \cup Contexts

VARIABLES
  surfaces, contexts,   \* the tables of DriverData
  surface,              \* every Surface object, with its Target
  context,              \* every Context object
  pending,              \* Session::pending_ of each context's session
  thread,               \* where each thread is
  answer                \* the sync that succeeded in the last step, if one did (ghost)

vaVars == <<surfaces, contexts, surface, context, pending, thread, answer>>

\* Import is Copy here: either way the pixels land in the stable buffer.
Publish == {"Direct", "Copy"}

\* picture is what has become of the picture of the last vaBeginPicture
\* (ghost): "lost" was accepted and failed, "dropped" was accepted and let go
\* of by destroyContext.
Pictures == {"none", "accepted", "published", "lost", "dropped"}

Fresh == [owner |-> None, failed |-> FALSE,
          persistent_export |-> FALSE, publish |-> "Direct", frame |-> FALSE,
          pending |-> FALSE, completed |-> FALSE, error |-> FALSE,
          picture |-> "none"]

NoContext == [session |-> "none", current |-> None, held |-> None]

\* entry is the entry point a thread is in, at the place it has reached there;
\* owned is what a destroyContext has collected.
Idle == [at |-> "idle", entry |-> "none", s |-> None, c |-> None, owned |-> {}]
In(entry, place, s, c) == [Idle EXCEPT !.entry = entry, !.at = place, !.s = s, !.c = c]

VaInit ==
  /\ surfaces = Surfaces /\ contexts = {}
  /\ surface = [s \in Surfaces |-> Fresh]
  /\ context = [c \in Contexts |-> NoContext]
  /\ pending = [c \in Contexts |-> {}]
  /\ thread = [t \in Threads |-> Idle] /\ answer = None
-----------------------------------------------------------------------------
(* What clients do not do.                                                 *)

Decoding == {"beginPicture", "endPicture", "destroyContext"}

DecodesWith(c) ==
  \E t \in Threads : thread[t].entry \in Decoding /\ thread[t].c = c
InDecode(s) ==
  \/ \E t \in Threads : thread[t].at \in {"begin", "policy", "submit"} /\ thread[t].s = s
  \/ \E c \in Contexts : s \in {context[c].current, context[c].held}
InCall(s) ==
  \/ \E t \in Threads : thread[t].entry # "destroyContext" /\ thread[t].s = s
  \/ \E t \in Threads : thread[t].at \in {"policy", "submit"} /\ thread[t].s = s
  \/ \E c \in Contexts : context[c].current = s
BeingReused(s) == \E t \in Threads : thread[t].at = "begin" /\ thread[t].s = s
BeingDestroyed(s) == \E t \in Threads : s \in thread[t].owned
Held(s) == \E c \in Contexts : context[c].held = s
-----------------------------------------------------------------------------
(* The sessions.                                                           *)

\* A sync or an export that has waited ends with this status, or the export
\* goes on.
Answers(t, status) ==
  /\ thread' = [thread EXCEPT ![t] =
       IF status = "success" /\ @.entry = "export" THEN [@ EXCEPT !.at = "export"]
       ELSE Idle]
  /\ answer' = IF thread[t].entry = "sync" /\ status = "success"
               THEN [s |-> thread[t].s, waited |-> thread[t].at = "wait"] ELSE None

\* endPicture ends with its submit; a destroyContext goes on to finish().
Submitted(t) ==
  thread' = [thread EXCEPT ![t] =
    IF @.entry = "destroyContext" THEN [@ EXCEPT !.at = "finish"] ELSE Idle]

\* release(): the target leaves the map of this session.
Released(r) ==
  [r EXCEPT !.pending = FALSE, !.frame = FALSE, !.completed = FALSE, !.error = FALSE]
Forgotten(s, c) == [pending EXCEPT ![c] = @ \ {s}]

\* publish() and the error paths, for a target that was pending.
Settled(r, result) ==
  IF result = "published"
  THEN [r EXCEPT !.pending = FALSE, !.completed = TRUE, !.picture = "published",
                 !.frame = r.publish = "Direct"]
  ELSE [r EXCEPT !.pending = FALSE, !.error = TRUE, !.picture = "lost"]

\* A call into session c has the pictures in S completed or rejected.
Settle(c, S, result) ==
  /\ surface' = [s \in Surfaces |->
                   IF s \in S THEN Settled(surface[s], result[s]) ELSE surface[s]]
  /\ pending' = [pending EXCEPT ![c] = @ \ S]

\* Its decoder may still be asked, and may still fail.
Serves(c) == context[c].session \in {"open", "finished"}

\* pump(), from submit or wait.
pump(t) ==
  /\ thread[t].at \in {"submit", "wait"}
  /\ LET c == thread[t].c IN
       /\ context[c].session = "open"
       /\ \E S \in SUBSET pending[c] \ {{}} : \E result \in [S -> {"published", "lost"}] :
            Settle(c, S, result)
  /\ UNCHANGED <<surfaces, contexts, context, thread>>

\* A call into the session finds it broken: what it still had is lost, and
\* submit and wait throw (release does not).
fail(t) ==
  /\ thread[t].at \in {"submit", "wait", "begin", "destroy"}
  /\ LET c == thread[t].c
         s == thread[t].s
     IN /\ c # None /\ Serves(c)
        /\ context' = [context EXCEPT ![c].session = "failed"]
        /\ pending' = [pending EXCEPT ![c] = {}]
        /\ surface' = [x \in Surfaces |->
             LET r == IF x \in pending[c] THEN Settled(surface[x], "lost") ELSE surface[x]
             IN CASE x = s /\ thread[t].at = "wait" -> [r EXCEPT !.failed = TRUE]
                  [] x = s /\ thread[t].at = "submit" -> [r EXCEPT !.picture = "none"]
                  [] OTHER -> r]
  /\ CASE thread[t].at = "wait"   -> Answers(t, "error")
       [] thread[t].at = "submit" -> Submitted(t) /\ answer' = None
       [] OTHER                   -> UNCHANGED thread /\ answer' = None
  /\ UNCHANGED <<surfaces, contexts>>
-----------------------------------------------------------------------------
(* Decoding.                                                               *)

\* createContext, with these surfaces as render targets (none or all here).
createContext(t, c, targets) ==
  /\ thread[t].at = "idle" /\ context[c].session = "none"
  /\ contexts' = contexts \cup {c}
  /\ context' = [context EXCEPT ![c].session = "open"]
  /\ surface' = [s \in Surfaces |->
                   IF s \in targets \cap surfaces /\ surface[s].owner = None
                   THEN [surface[s] EXCEPT !.owner = c] ELSE surface[s]]
  /\ UNCHANGED <<surfaces, pending, thread>>

\* beginPicture under the mutex: the surface becomes c's; a context it moves
\* from releases its picture first.
X_LeavesOwner(s, c) == FALSE
LeavesOwner(s, c) == surface[s].owner \in contexts \ {c}
beginPicture(t, c, s) ==
  /\ thread[t].at = "idle" /\ c \in contexts /\ ~DecodesWith(c)
  /\ s \in surfaces /\ ~InCall(s) /\ ~BeingDestroyed(s) /\ ~Held(s)
  /\ context[c].current = None
  /\ IF LeavesOwner(s, c)
     THEN /\ surface' = [surface EXCEPT ![s] = [Released(@) EXCEPT !.owner = c]]
          /\ pending' = Forgotten(s, surface[s].owner)
     ELSE surface' = [surface EXCEPT ![s].owner = c] /\ UNCHANGED pending
  /\ context' = [context EXCEPT ![c].current = s]
  /\ thread' = [thread EXCEPT ![t] = In("beginPicture", "begin", s, c)]
  /\ UNCHANGED <<surfaces, contexts>>

\* and after it: whatever the surface held is released.
Reuse(t) ==
  /\ thread[t].at = "begin"
  /\ LET s == thread[t].s IN
       /\ surface' = [surface EXCEPT ![s] =
                        [Released(@) EXCEPT !.failed = FALSE, !.picture = "none"]]
       /\ pending' = Forgotten(s, thread[t].c)
  /\ thread' = [thread EXCEPT ![t] = Idle]
  /\ UNCHANGED <<surfaces, contexts, context>>

\* The translator refuses the picture: the surface has failed.  An AV1
\* translator may refuse while it builds the picture it held, which is gone.
Refused(c, s) ==
  \E h \in {context[c].held, None} :
    /\ context' = [context EXCEPT ![c].current = None, ![c].held = h]
    /\ surface' = [x \in Surfaces |->
         CASE x = s -> [surface[s] EXCEPT !.failed = TRUE, !.picture = "lost"]
           [] x # s /\ x = context[c].held /\ h = None ->
                [surface[x] EXCEPT !.picture = "lost"]
           [] OTHER -> surface[x]]

\* endPicture: the picture of a deferring translator waits for its successor,
\* and the one before it is submitted, if its surface is still there.
endPicture(t, c) ==
  /\ thread[t].at = "idle" /\ c \in contexts /\ ~DecodesWith(c)
  /\ context[c].current \in surfaces
  /\ LET s == context[c].current
         h == context[c].held
     IN \/ Refused(c, s) /\ UNCHANGED thread
        \/ /\ c \notin Deferring
           /\ context' = [context EXCEPT ![c].current = None]
           /\ thread' = [thread EXCEPT ![t] = In("endPicture", "policy", s, c)]
           /\ UNCHANGED surface
        \/ /\ c \in Deferring
           /\ context' = [context EXCEPT ![c].current = None, ![c].held = s]
           /\ IF h \in surfaces
              THEN thread' = [thread EXCEPT ![t] = In("endPicture", "policy", h, c)]
              ELSE UNCHANGED thread
           /\ UNCHANGED surface
  /\ UNCHANGED <<surfaces, contexts, pending>>

\* va::submit without a lock: the policy follows the surface's exports, and a
\* surface that is not decoded Direct gets a stable buffer.
X_publish_policy(s) == "Direct"
publish_policy(s) ==
  IF surface[s].persistent_export THEN "Copy" ELSE "Direct"
Policy(t) ==
  /\ thread[t].at = "policy"
  /\ LET s == thread[t].s
         p == publish_policy(s)
     IN surface' = [surface EXCEPT ![s].publish = p, ![s].failed = FALSE]
  /\ thread' = [thread EXCEPT ![t].at = "submit"]
  /\ UNCHANGED <<surfaces, contexts, context, pending>>

\* Session::submit accepts the picture, or throws before it has a token.
Submit(t) ==
  /\ thread[t].at = "submit"
  /\ LET s == thread[t].s
         c == thread[t].c
     IN \/ /\ context[c].session = "open"
           /\ surface' = [surface EXCEPT ![s] =
                [@ EXCEPT !.pending = TRUE, !.completed = FALSE, !.error = FALSE,
                          !.frame = FALSE, !.picture = "accepted"]]
           /\ pending' = [pending EXCEPT ![c] = @ \cup {s}]
        \/ /\ surface' = [surface EXCEPT ![s].picture = "none"]
           /\ UNCHANGED pending
  /\ Submitted(t)
  /\ UNCHANGED <<surfaces, contexts, context>>

\* destroyContext: the surfaces it owns are collected under the mutex, then
\* the translator gives up the picture it holds; if that throws the context
\* stays.
destroyContext(t, c) ==
  /\ thread[t].at = "idle" /\ c \in contexts /\ ~DecodesWith(c)
  /\ context[c].current = None
  /\ LET owned == {s \in surfaces : surface[s].owner = c}
         h == context[c].held
     IN /\ context' = [context EXCEPT ![c].held = None]
        /\ \/ /\ h # None /\ UNCHANGED thread
              /\ surface' = [surface EXCEPT ![h].picture = "lost"]
           \/ /\ thread' = [thread EXCEPT ![t] =
                   [In("destroyContext", IF h \in surfaces THEN "policy" ELSE "finish", h, c)
                      EXCEPT !.owned = owned]]
              /\ UNCHANGED surface
  /\ UNCHANGED <<surfaces, contexts, pending>>

\* Session::finish drains: its pictures are settled, but for those that wait
\* behind a resolution change; a drain that fails leaves none.
Finish(t) ==
  /\ thread[t].at = "finish"
  /\ LET c == thread[t].c IN
       /\ \E S \in SUBSET pending[c], ended \in {"finished", "failed"} :
            /\ ended = "failed" => S = pending[c]
            /\ \E result \in [S -> {"published", "lost"}] : Settle(c, S, result)
            /\ context' = [context EXCEPT ![c].session =
                             IF @ = "open" THEN ended ELSE @]
  /\ thread' = [thread EXCEPT ![t].at = "erase"]
  /\ UNCHANGED <<surfaces, contexts>>

Erase(t) ==
  /\ thread[t].at = "erase" /\ contexts' = contexts \ {thread[t].c}
  /\ thread' = [thread EXCEPT ![t].at = "disown"]
  /\ UNCHANGED <<surfaces, surface, context, pending>>

\* Every surface it owned is released if it is still pending, and disowned.
X_Disown(t) ==
  /\ thread[t].at = "disown"
  /\ \/ \E s \in thread[t].owned :
          /\ surface' = [surface EXCEPT ![s].owner = None]
          /\ thread' = [thread EXCEPT ![t].owned = @ \ {s}]
     \/ thread[t].owned = {} /\ thread' = [thread EXCEPT ![t] = Idle] /\ UNCHANGED surface
  /\ UNCHANGED <<surfaces, contexts, context, pending>>
Disown(t) ==
  /\ thread[t].at = "disown"
  /\ \/ \E s \in thread[t].owned :
          /\ IF surface[s].pending
             THEN /\ surface' = [surface EXCEPT ![s] = [Released(@) EXCEPT
                                   !.owner = None, !.picture = "dropped"]]
                  /\ pending' = Forgotten(s, thread[t].c)
             ELSE surface' = [surface EXCEPT ![s].owner = None] /\ UNCHANGED pending
          /\ thread' = [thread EXCEPT ![t].owned = @ \ {s}]
     \/ /\ thread[t].owned = {} /\ thread' = [thread EXCEPT ![t] = Idle]
        /\ UNCHANGED <<surface, pending>>
  /\ UNCHANGED <<surfaces, contexts, context>>
-----------------------------------------------------------------------------
(* Looking at surfaces.                                                    *)

session_of(s) == IF surface[s].owner \in contexts THEN surface[s].owner ELSE None

\* syncSurface and exportSurfaceHandle take the surface
\* and its owner's session under the mutex; the export waits if it has to.
FirstPlace(entry, s) ==
  IF entry = "sync" \/ surface[s].pending THEN "check" ELSE "export"
Look(t, s, entry) ==
  /\ thread[t].at = "idle" /\ s \in surfaces /\ ~BeingReused(s)
  /\ entry = "export" => s \in Exported /\ ~InDecode(s)
  /\ thread' = [thread EXCEPT ![t] = In(entry, FirstPlace(entry, s), s, session_of(s))]
  /\ UNCHANGED <<surfaces, contexts, surface, context, pending>>

\* wait_for: a surface that is not rendering is answered by its failed flag;
\* without a session the flag is read again.
wait_for(t) ==
  /\ thread[t].at \in {"check", "recheck"}
  /\ LET s == thread[t].s IN
       \/ /\ ~surface[s].pending
          /\ Answers(t, IF surface[s].failed THEN "error" ELSE "success")
       \/ /\ surface[s].pending /\ thread[t].at = "check" /\ answer' = None
          /\ thread' = [thread EXCEPT ![t].at =
                          IF thread[t].c = None THEN "recheck" ELSE "wait"]
       \/ surface[s].pending /\ thread[t].at = "recheck" /\ Answers(t, "error")
  /\ UNCHANGED <<surfaces, contexts, surface, context, pending>>

\* Session::wait returns when the target is settled, with an error if it
\* failed; an error is remembered by the surface.
X_WaitReturns(t) ==
  /\ thread[t].at = "wait" /\ ~surface[thread[t].s].pending
  /\ Answers(t, "success")
  /\ UNCHANGED <<surfaces, contexts, surface, context, pending>>
WaitReturns(t) ==
  /\ thread[t].at = "wait" /\ ~surface[thread[t].s].pending
  /\ LET e == surface[thread[t].s].error IN
       /\ Answers(t, IF e THEN "error" ELSE "success")
       /\ surface' = [surface EXCEPT ![thread[t].s].failed = @ \/ e]
  /\ UNCHANGED <<surfaces, contexts, context, pending>>

\* The deadline: the token is taken out of the map and the target fails.
WaitExpires(t) ==
  /\ thread[t].at = "wait" /\ surface[thread[t].s].pending
  /\ LET s == thread[t].s IN
       /\ surface' = [surface EXCEPT ![s] =
                        [Settled(@, "lost") EXCEPT !.failed = TRUE]]
       /\ pending' = Forgotten(s, thread[t].c)
  /\ Answers(t, "error") /\ UNCHANGED <<surfaces, contexts, context>>

\* querySurfaceStatus: a client that polls drives the session of a surface that
\* is rendering, and learns whether it still is.
querySurfaceStatus(t, s) ==
  /\ thread[t].at = "idle" /\ s \in surfaces /\ ~BeingReused(s)
  /\ surface[s].pending /\ session_of(s) # None
  /\ LET c == session_of(s) IN
       /\ \/ /\ context[c].session = "open" /\ UNCHANGED context
             /\ \E S \in SUBSET pending[c] : \E result \in [S -> {"published", "lost"}] :
                  Settle(c, S, result)
          \/ /\ Serves(c) /\ context' = [context EXCEPT ![c].session = "failed"]
             /\ Settle(c, pending[c], [x \in Surfaces |-> "lost"])
  /\ UNCHANGED <<surfaces, contexts, thread>>

\* exportSurfaceHandle under the mutex: the CAPTURE slot of a Direct surface,
\* else the stable buffer, which pins the surface if nothing was decoded.
Export(t) ==
  /\ thread[t].at = "export"
  /\ LET s == thread[t].s IN
       surface' = [surface EXCEPT ![s].persistent_export =
                     @ \/ ~(surface[s].frame \/ surface[s].completed)]
  /\ thread' = [thread EXCEPT ![t] = Idle]
  /\ UNCHANGED <<surfaces, contexts, context, pending>>

\* destroySurfaces of one surface: out of the table under the mutex, released
\* after it, and gone.
destroySurfaces(t, s) ==
  /\ thread[t].at = "idle" /\ s \in surfaces /\ ~InCall(s) /\ ~BeingDestroyed(s)
  /\ surfaces' = surfaces \ {s}
  /\ thread' = [thread EXCEPT ![t] = In("destroySurfaces", "destroy", s, session_of(s))]
  /\ UNCHANGED <<contexts, surface, context, pending>>

X_Destroyed(t) ==
  /\ thread[t].at = "destroy" /\ thread' = [thread EXCEPT ![t] = Idle]
  /\ UNCHANGED <<surfaces, contexts, surface, context, pending>>
Destroyed(t) ==
  /\ thread[t].at = "destroy"
  /\ LET s == thread[t].s
         c == thread[t].c
     IN IF c = None
        THEN /\ surface' = [surface EXCEPT ![s] = [Fresh EXCEPT !.pending = surface[s].pending]]
             /\ UNCHANGED pending
        ELSE surface' = [surface EXCEPT ![s] = Fresh] /\ pending' = Forgotten(s, c)
  /\ thread' = [thread EXCEPT ![t] = Idle]
  /\ UNCHANGED <<surfaces, contexts, context>>
-----------------------------------------------------------------------------
\* Everything that cannot end a sync.
Otherwise(t) ==
  \/ \E c \in Contexts :
       \/ \E targets \in {{}, Surfaces} : createContext(t, c, targets)
       \/ \E s \in Surfaces : beginPicture(t, c, s)
       \/ endPicture(t, c) \/ destroyContext(t, c)
  \/ Reuse(t) \/ Policy(t) \/ Submit(t)
  \/ Finish(t) \/ Erase(t) \/ Disown(t)
  \/ \E s \in Surfaces :
       \/ \E entry \in {"sync", "export"} : Look(t, s, entry)
       \/ querySurfaceStatus(t, s) \/ destroySurfaces(t, s)
  \/ pump(t) \/ Export(t) \/ Destroyed(t)

VaNext ==
  \E t \in Threads :
    \/ Otherwise(t) /\ answer' = None
    \/ wait_for(t) \/ WaitReturns(t) \/ WaitExpires(t) \/ fail(t)

VaSpec == VaInit /\ [][VaNext]_vaVars
-----------------------------------------------------------------------------
\* The flag every entry point reads and the map every completion goes through
\* agree: a target is pending in one session at most, whatever context its
\* surface has moved to (driver.h:45, picture.cc:195).
OnePending ==
  \A s \in Surfaces :
    LET in == {c \in Contexts : s \in pending[c]}
    IN Cardinality(in) = IF surface[s].pending THEN 1 ELSE 0

\* A session points into surfaces that exist: in the table, or held by the
\* thread that is destroying them; and a thread that submits to a session or
\* waits in one has one (surface.cc:151, surface.cc:58).
NoDangling ==
  /\ \A c \in Contexts : \A s \in pending[c] :
       s \in surfaces \/ \E t \in Threads : thread[t].at = "destroy" /\ thread[t].s = s
  /\ \A t \in Threads : thread[t].at \in {"submit", "wait"} => thread[t].c # None

\* A pending picture has somebody who can complete it or let go of it: a
\* context in the table, or the call that has taken it or its surface out
\* (picture.cc:158, surface.cc:151).
SomebodyServes ==
  \A c \in Contexts : \A s \in pending[c] :
    \/ c \in contexts
    \/ \E t \in Threads : thread[t].c = c /\
         \/ thread[t].at = "disown" /\ s \in thread[t].owned
         \/ thread[t].at = "destroy" /\ s = thread[t].s

\* Once a client may have imported the stable buffer, what it sees there is
\* the surface's picture: none is published as a CAPTURE slot any more
\* (surface.cc:271).
PersistentPixels ==
  \A s \in Surfaces :
    surface[s].persistent_export /\ surface[s].completed => ~surface[s].frame

\* A sync that waited says SUCCESS only if the picture was published, though
\* another thread may destroy the context, fail the session or settle the
\* target meanwhile (architecture.md:358).  A picture that finish() did not
\* settle and destroyContext released is the exception.
WaitIsHonest ==
  answer # None /\ answer.waited => surface[answer.s].picture \in {"published", "dropped"}

\* A sync never says SUCCESS for a picture that was accepted and is not there
\* (architecture.md:361).
SyncIsHonest ==
  answer # None => surface[answer.s].picture \notin {"lost", "dropped"}
=============================================================================
