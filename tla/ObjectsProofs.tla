--------------------------- MODULE ObjectsProofs ---------------------------
(***************************************************************************)
(* What ties the object tables together, for every number of threads,      *)
(* contexts, surfaces, images and handles: an open handle keeps its        *)
(* surface, an image shows the surface's picture, and a surface that is    *)
(* gone is pending nowhere.                                                *)
(***************************************************************************)
EXTENDS Objects, FiniteSetTheorems, TLAPS

SurfaceRec ==
  [fourcc : Fourccs, owner : Nat \cup {None}, pending : BOOLEAN, completed : BOOLEAN,
   publish : {"Direct", "Copy"}, frame : Pixels \cup {None}, stable : Pixels \cup {None},
   persistent_export : BOOLEAN, acquired_handles : Nat, picture : Nat]
ContextRec == [fourcc : Fourccs, streaming : BOOLEAN, pending : SUBSET Nat]
BufferRec  == [type : {"data", "image"}, derived : Nat \cup {None},
               fd : {"none", "frame", "stable"}]
Looking    == {"sync", "derive", "copy"}
ThreadRec  ==
  [at : {"idle", "destroy"} \cup Looking, s : Nat \cup {None}, image : Nat \cup {None},
   doomed : Seq(Nat), owners : Seq(Nat \cup {None})]

\* A surface that has been completed shows its picture.
Shows(r) ==
  r.completed => IF r.frame # None THEN r.frame.picture = r.picture
                 ELSE r.stable # None /\ r.stable.picture = r.picture

\* Ids in the tables are those that have been given out, and an entry is whole.
Surfaced ==
  /\ surfaces \subseteq DOMAIN object
  /\ \A s \in DOMAIN object : /\ s \in Nat /\ s < next_id["surface"]
                              /\ object[s] \in SurfaceRec /\ Shows(object[s])
Buffered ==
  /\ \A b \in DOMAIN buffers :
       b \in Nat /\ b < next_id["buffer"] /\ buffers[b] \in BufferRec
  /\ DOMAIN images \subseteq Nat

\* What is pending in a session belongs to its context.
Pends ==
  \A c \in DOMAIN contexts :
    /\ c \in Nat /\ c < next_id["context"] /\ contexts[c] \in ContextRec
    /\ \A s \in contexts[c].pending : s \in DOMAIN object /\ object[s].owner = c

\* A call that destroys surfaces has taken them from the table and knows the only
\* session that may have their pictures; one that reads a surface keeps it there.
Dooms(r) ==
  /\ Len(r.owners) = Len(r.doomed) /\ (r.at # "destroy" => r.doomed = <<>>)
  /\ \A i \in 1 .. Len(r.doomed) :
       /\ r.doomed[i] \notin surfaces /\ r.doomed[i] < next_id["surface"]
       /\ \A c \in DOMAIN contexts : r.doomed[i] \in contexts[c].pending => r.owners[i] = c
Calls ==
  /\ thread \in [Threads -> ThreadRec]
  /\ \A t \in Threads : Dooms(thread[t]) /\ (thread[t].at \in Looking => thread[t].s \in surfaces)

ObjectsInv ==
  /\ next_id \in [Kinds -> Nat] /\ pictures \in Nat
  /\ Surfaced /\ Buffered /\ Pends /\ Calls
  /\ HandlePins /\ ImageIsPicture /\ DestroyedReleased

-----------------------------------------------------------------------------
(* The tables and their counters.                                          *)

\* Nothing is numbered None, and no pixels are.
LEMMA NoneIsNothing == None \notin Nat /\ None \notin Pixels
BY ObjectsAssumption

\* n ids of each of these kinds are given out.
Grows(kinds, n) ==
  /\ next_id' \in [Kinds -> Nat]
  /\ \A k \in Kinds : next_id'[k] = IF k \in kinds THEN next_id[k] + n ELSE next_id[k]

\* What each call takes of the counters.
LEMMA Counters ==
  ASSUME next_id \in [Kinds -> Nat]
  PROVE  /\ Take([config |-> 1]) => Grows({"config"}, 1)
         /\ Take([context |-> 1]) => Grows({"context"}, 1)
         /\ Take([buffer |-> 1]) => Grows({"buffer"}, 1)
         /\ Take([buffer |-> 1, image |-> 1]) => Grows({"buffer", "image"}, 1)
         /\ \A n \in Nat : Take([surface |-> n]) => Grows({"surface"}, n)
<1>1. Take([config |-> 1]) => Grows({"config"}, 1)
  BY DEF Take, Grows, Kinds
<1>2. Take([context |-> 1]) => Grows({"context"}, 1)
  BY DEF Take, Grows, Kinds
<1>3. Take([buffer |-> 1]) => Grows({"buffer"}, 1)
  BY DEF Take, Grows, Kinds
<1>4. Take([buffer |-> 1, image |-> 1]) => Grows({"buffer", "image"}, 1)
  BY DEF Take, Grows, Kinds
<1>5. \A n \in Nat : Take([surface |-> n]) => Grows({"surface"}, n)
  BY DEF Take, Grows, Kinds
<1> QED BY <1>1, <1>2, <1>3, <1>4, <1>5

\* There are finitely many handles.
LEMMA HandlesCount ==
  ASSUME Buffered, next_id \in [Kinds -> Nat], NEW s
  PROVE  IsFiniteSet(OpenHandles(s)) /\ Cardinality(OpenHandles(s)) \in Nat
<1>1. OpenHandles(s) \in SUBSET (0 .. next_id["buffer"])
  BY DEF Buffered, OpenHandles, Kinds
<1>2. IsFiniteSet(0 .. next_id["buffer"])
  BY FS_Interval DEF Kinds
<1>3. IsFiniteSet(OpenHandles(s))
  BY <1>1, <1>2, FS_Subset
<1> QED BY <1>3, FS_CardinalityType

\* No handle is opened, the surfaces of those that are open stay, and so do the
\* counts.
HandlesStay ==
  /\ \A b \in DOMAIN buffers' : buffers'[b].fd # "none" =>
       /\ b \in DOMAIN buffers /\ buffers'[b] = buffers[b]
       /\ buffers[b].derived \in surfaces'
  /\ \A s \in surfaces' :
       IF s \in surfaces THEN object'[s].acquired_handles = object[s].acquired_handles
       ELSE object'[s].acquired_handles \in Nat

\* Then they are counted as before.
LEMMA PinsStay ==
  ASSUME HandlePins, Buffered, next_id \in [Kinds -> Nat], HandlesStay,
         \A s \in surfaces : object[s].acquired_handles \in Nat
  PROVE  HandlePins'
<1>1. \A b \in DOMAIN buffers' : buffers'[b].fd # "none" => buffers'[b].derived \in surfaces'
  BY DEF HandlesStay
<1>2. ASSUME NEW s \in surfaces'
      PROVE  Cardinality(OpenHandles(s)') <= object'[s].acquired_handles
  <2>1. CASE s \in surfaces
    <3>1. OpenHandles(s)' \in SUBSET OpenHandles(s)
      BY DEF HandlesStay, OpenHandles
    <3>2. /\ Cardinality(OpenHandles(s)') \in Nat
          /\ Cardinality(OpenHandles(s)') <= Cardinality(OpenHandles(s))
      BY <3>1, HandlesCount, FS_Subset, FS_CardinalityType
    <3>3. /\ Cardinality(OpenHandles(s)) <= object[s].acquired_handles
          /\ object'[s].acquired_handles = object[s].acquired_handles
          /\ object[s].acquired_handles \in Nat /\ Cardinality(OpenHandles(s)) \in Nat
      BY <1>2, <2>1, HandlesCount DEF HandlePins, HandlesStay
    <3> HIDE DEF OpenHandles
    <3> QED BY <3>2, <3>3
  <2>2. CASE s \notin surfaces
    <3>1. OpenHandles(s)' = {}
      BY <2>2 DEF HandlesStay, OpenHandles, HandlePins
    <3>2. object'[s].acquired_handles \in Nat
      BY <1>2, <2>2 DEF HandlesStay
    <3> QED BY <3>1, <3>2, FS_EmptySet
  <2> QED BY <2>1, <2>2
<1>3. \A s \in surfaces' : Cardinality({b \in DOMAIN buffers' :
            buffers'[b].derived = s /\ buffers'[b].fd # "none"}) <= object'[s].acquired_handles
  BY <1>2 DEF OpenHandles
<1> QED BY <1>1, <1>3 DEF HandlePins, OpenHandles

\* The driver starts with nothing.
LEMMA ObjectsStarts == ObjectsInit => ObjectsInv
<1> SUFFICES ASSUME ObjectsInit PROVE ObjectsInv
  OBVIOUS
<1>1. /\ next_id = [k \in Kinds |-> 1] /\ surfaces = {} /\ pictures = 0 /\ answer = None
      /\ DOMAIN contexts = {} /\ DOMAIN buffers = {} /\ DOMAIN images = {} /\ DOMAIN object = {}
      /\ thread = [t \in Threads |-> Idle]
  BY DEF ObjectsInit
<1>2. next_id \in [Kinds -> Nat]
  BY <1>1
<1>3. Surfaced /\ Buffered /\ Pends
  BY <1>1 DEF Surfaced, Buffered, Pends
<1>4. Idle \in ThreadRec
  BY DEF Idle, ThreadRec
<1>5. Calls
  BY <1>1, <1>4 DEF Calls, Dooms, Idle, Looking
<1>6. HandlePins /\ ImageIsPicture /\ DestroyedReleased
  BY <1>1 DEF HandlePins, ImageIsPicture, DestroyedReleased
<1> QED BY <1>1, <1>2, <1>3, <1>5, <1>6 DEF ObjectsInv

-----------------------------------------------------------------------------
(* What a step leaves.                                                     *)

\* A thread goes on, or to a place where it destroys nothing and has its surface.
Going ==
  /\ thread' \in [Threads -> ThreadRec]
  /\ \A t \in Threads :
       \/ thread'[t] = thread[t]
       \/ /\ thread[t].at # "destroy" /\ thread'[t].at # "destroy"
          /\ thread'[t].doomed = <<>> /\ thread'[t].owners = <<>>
          /\ thread'[t].at \in Looking => thread'[t].s \in surfaces

\* Surfaces change, but for their handles.
Redrawn ==
  /\ DOMAIN object' = DOMAIN object /\ surfaces' = surfaces
  /\ \A s \in DOMAIN object : object'[s] \in SurfaceRec /\ Shows(object'[s])
Redone ==
  /\ Redrawn
  /\ \A s \in DOMAIN object : object'[s].acquired_handles = object[s].acquired_handles

\* Sessions lose pictures, or have new ones of surfaces in the table.
Repending ==
  \A c \in DOMAIN contexts' :
    /\ c \in Nat /\ c < next_id'["context"] /\ contexts'[c] \in ContextRec
    /\ \A s \in contexts'[c].pending :
         /\ s \in DOMAIN object /\ object'[s].owner = c
         /\ s \in surfaces \/ (c \in DOMAIN contexts /\ s \in contexts[c].pending)

\* Buffers without handles come, others go.
Rebuilt ==
  /\ DOMAIN images' \subseteq Nat
  /\ \A b \in DOMAIN buffers' :
       b \in Nat /\ b < next_id'["buffer"] /\ buffers'[b] \in BufferRec
Rebuffered ==
  /\ Rebuilt
  /\ \A b \in DOMAIN buffers' :
       buffers'[b].fd = "none" \/ (b \in DOMAIN buffers /\ buffers'[b] = buffers[b])

Counting ==
  /\ next_id' \in [Kinds -> Nat] /\ pictures' \in Nat
  /\ next_id'["surface"] = next_id["surface"]
  /\ refused' = refused

\* A step that changes surfaces, sessions and buffers in these ways.
LEMMA StepKeeps ==
  ASSUME ObjectsInv, Going, Redrawn, Repending, Rebuilt, Counting, HandlePins', ImageIsPicture'
  PROVE  ObjectsInv'
<1>1. Surfaced'
  BY DEF ObjectsInv, Surfaced, Redrawn, Counting
<1>2. Buffered'
  BY DEF Rebuilt, Buffered
<1>3. Pends'
  BY DEF Repending, Pends, Redrawn
<1>4. ASSUME NEW t \in Threads
      PROVE  /\ Dooms(thread[t])'
             /\ thread'[t].at \in Looking => thread'[t].s \in surfaces'
  <2>1. CASE thread'[t] = thread[t]
    <3> DEFINE r == thread[t]
    <3>1. Dooms(r) /\ r \in ThreadRec /\ (r.at \in Looking => r.s \in surfaces)
      BY DEF ObjectsInv, Calls
    <3>2. ASSUME NEW i \in 1 .. Len(r.doomed)
          PROVE  /\ r.doomed[i] \notin surfaces' /\ r.doomed[i] < next_id'["surface"]
                 /\ \A c \in DOMAIN contexts' : r.doomed[i] \in contexts'[c].pending
                                                  => r.owners[i] = c
      <4> DEFINE x == r.doomed[i]
      <4>1. /\ x \notin surfaces /\ x < next_id["surface"]
            /\ \A c \in DOMAIN contexts : x \in contexts[c].pending => r.owners[i] = c
        BY <3>1, <3>2 DEF Dooms
      <4> HIDE DEF x, r
      <4>2. x \notin surfaces' /\ x < next_id'["surface"]
        BY <4>1 DEF Redrawn, Counting
      <4>3. ASSUME NEW c \in DOMAIN contexts', x \in contexts'[c].pending PROVE r.owners[i] = c
        BY <4>1, <4>3 DEF Repending
      <4> QED BY <4>2, <4>3 DEF x
    <3>3. thread'[t] = r
      BY <2>1
    <3> HIDE DEF r
    <3>4. Dooms(thread[t])'
      BY <3>1, <3>2, <3>3 DEF Dooms
    <3> QED BY <3>1, <3>3, <3>4 DEF Redrawn
  <2>2. CASE /\ thread'[t].at # "destroy" /\ thread'[t].doomed = <<>>
             /\ thread'[t].owners = <<>>
             /\ thread'[t].at \in Looking => thread'[t].s \in surfaces
    BY <2>2 DEF Dooms, Redrawn
  <2> QED BY <2>1, <2>2 DEF Going
<1>5. Calls'
  BY <1>4 DEF Calls, Going
<1>6. DestroyedReleased'
  <2> SUFFICES ASSUME NEW c \in DOMAIN contexts', NEW s \in contexts'[c].pending
               PROVE  s \in surfaces' \cup refused' \/ \E t \in Threads : s \in Range(thread'[t].doomed)
    BY DEF DestroyedReleased
  <2>1. CASE s \in surfaces
    BY <2>1 DEF Redrawn
  <2>2. CASE \E t \in Threads : s \in Range(thread[t].doomed)
    <3>1. PICK t \in Threads : s \in Range(thread[t].doomed)
      BY <2>2
    <3>2. thread'[t] = thread[t]
      <4>1. thread[t].at = "destroy"
        BY <3>1 DEF ObjectsInv, Calls, Dooms, Range
      <4> QED BY <4>1 DEF Going
    <3> QED BY <3>1, <3>2
  <2> QED BY <2>1, <2>2 DEF Repending, Redrawn, Counting, ObjectsInv, DestroyedReleased
<1> QED BY <1>1, <1>2, <1>3, <1>5, <1>6 DEF Counting, ObjectsInv

\* The same, when no handle is opened or counted.
LEMMA NoHandleStep ==
  ASSUME ObjectsInv, Going, Redone, Repending, Rebuffered, Counting, ImageIsPicture'
  PROVE  ObjectsInv'
<1>1. HandlePins'
  <2>1. HandlesStay
    <3>1. \A b \in DOMAIN buffers' : buffers'[b].fd # "none" =>
            /\ b \in DOMAIN buffers /\ buffers'[b] = buffers[b]
            /\ buffers[b].derived \in surfaces'
      BY DEF Rebuffered, ObjectsInv, HandlePins, Redone, Redrawn
    <3> QED BY <3>1 DEF HandlesStay, Redone, Redrawn, ObjectsInv, Surfaced
  <2>2. \A s \in surfaces : object[s].acquired_handles \in Nat
    BY DEF ObjectsInv, Surfaced, SurfaceRec
  <2> QED BY <2>1, <2>2, PinsStay DEF ObjectsInv
<1> QED BY <1>1, StepKeeps DEF Redone, Rebuffered

\* What is left alone stays as it was.
LEMMA LeftAlone ==
  ASSUME ObjectsInv
  PROVE  /\ object' = object /\ surfaces' = surfaces => Redone
         /\ contexts' = contexts /\ object' = object /\ next_id'["context"] = next_id["context"]
              => Repending
         /\ buffers' = buffers /\ images' = images /\ next_id'["buffer"] = next_id["buffer"]
              => Rebuffered
         /\ thread' = thread => Going
         /\ next_id' = next_id /\ pictures' = pictures /\ refused' = refused => Counting
         /\ answer' = None => ImageIsPicture'
<1>1. object' = object /\ surfaces' = surfaces => Redone
  BY DEF ObjectsInv, Surfaced, Redone, Redrawn
<1>2. contexts' = contexts /\ object' = object /\ next_id'["context"] = next_id["context"]
        => Repending
  BY DEF ObjectsInv, Pends, Repending
<1>3. buffers' = buffers /\ images' = images /\ next_id'["buffer"] = next_id["buffer"]
        => Rebuffered
  BY DEF ObjectsInv, Buffered, Rebuffered, Rebuilt
<1>4. thread' = thread => Going
  BY DEF ObjectsInv, Calls, Going
<1>5. next_id' = next_id /\ pictures' = pictures /\ refused' = refused => Counting
  BY DEF ObjectsInv, Counting
<1>6. answer' = None => ImageIsPicture'
  BY DEF ImageIsPicture
<1> QED BY <1>1, <1>2, <1>3, <1>4, <1>5, <1>6

\* A thread that destroys nothing goes where it destroys nothing.
LEMMA ThreadGoes ==
  ASSUME ObjectsInv, NEW t \in Threads, NEW r \in ThreadRec, thread[t].at # "destroy",
         r.at # "destroy", r.doomed = <<>>, r.owners = <<>>,
         r.at \in Looking => r.s \in surfaces, thread' = [thread EXCEPT ![t] = r]
  PROVE  Going
BY DEF ObjectsInv, Calls, Going

\* What it had in its lists.
LEMMA NothingDoomed ==
  ASSUME ObjectsInv, NEW t \in Threads, thread[t].at # "destroy"
  PROVE  /\ thread[t] \in ThreadRec /\ thread[t].doomed = <<>> /\ thread[t].owners = <<>>
         /\ thread[t].at \in Looking => thread[t].s \in surfaces
<1>1. thread[t] \in ThreadRec /\ Dooms(thread[t])
      /\ (thread[t].at \in Looking => thread[t].s \in surfaces)
  BY DEF ObjectsInv, Calls
<1>2. thread[t].doomed = <<>> /\ Len(thread[t].owners) = 0
  BY <1>1 DEF Dooms
<1>3. thread[t].owners \in Seq(Nat \cup {None})
  BY <1>1 DEF ThreadRec
<1> QED BY <1>1, <1>2, <1>3

\* What a session without one of its pictures is.
LEMMA ForgottenIs ==
  ASSUME Pends, NEW s, NEW c \in DOMAIN contexts \cup {None}
  PROVE  /\ DOMAIN Forgotten(s, c) = DOMAIN contexts
         /\ \A d \in DOMAIN contexts :
              /\ Forgotten(s, c)[d] \in ContextRec
              /\ Forgotten(s, c)[d].pending = IF d = c THEN contexts[d].pending \ {s}
                                              ELSE contexts[d].pending
              /\ Forgotten(s, c)[d].streaming = contexts[d].streaming
              /\ Forgotten(s, c)[d].fourcc = contexts[d].fourcc
<1>1. \A d \in DOMAIN contexts : contexts[d] \in ContextRec /\ d # None
  BY NoneIsNothing DEF Pends
<1>2. CASE c = None
  BY <1>1, <1>2 DEF Forgotten
<1>3. CASE c # None
  BY <1>1, <1>3 DEF Forgotten, ContextRec
<1> QED BY <1>2, <1>3

\* What becomes of a picture.
LEMMA OutcomesAre ==
  ASSUME ObjectsInv, NEW s \in DOMAIN object, NEW c \in DOMAIN contexts,
         NEW r \in Outcomes(s, c)
  PROVE  /\ r \in SurfaceRec /\ Shows(r) /\ r.owner = object[s].owner
         /\ r.acquired_handles = object[s].acquired_handles
<1>1. object[s] \in SurfaceRec /\ Shows(object[s]) /\ contexts[c].fourcc \in Fourccs
  BY DEF ObjectsInv, Surfaced, Pends, ContextRec
<1>2. CASE r = Lost(s)
  <2>1. /\ r.completed = object[s].completed /\ r.frame = object[s].frame
        /\ r.stable = object[s].stable /\ r.picture = object[s].picture
        /\ r \in SurfaceRec /\ r.owner = object[s].owner
        /\ r.acquired_handles = object[s].acquired_handles
    BY <1>1, <1>2 DEF Lost, SurfaceRec
  <2> QED BY <1>1, <2>1 DEF Shows
<1>3. CASE r = Published(s, c)
  <2> DEFINE pixels == [fourcc |-> contexts[c].fourcc, picture |-> object[s].picture]
  <2>1. pixels \in Pixels /\ pixels # None /\ pixels.picture = object[s].picture
    BY <1>1, NoneIsNothing DEF Pixels, SurfaceRec
  <2>2. r = [object[s] EXCEPT !.pending = FALSE, !.completed = TRUE,
               !.frame  = IF object[s].publish = "Direct" THEN pixels ELSE None,
               !.stable = IF object[s].publish = "Direct" THEN object[s].stable ELSE pixels]
    BY <1>1, <1>3 DEF Published, SurfaceRec
  <2> HIDE DEF pixels
  <2>3. /\ r.picture = object[s].picture /\ r.owner = object[s].owner
        /\ r.acquired_handles = object[s].acquired_handles
        /\ r.frame = IF object[s].publish = "Direct" THEN pixels ELSE None
        /\ object[s].publish # "Direct" => r.stable = pixels
    BY <1>1, <2>2 DEF SurfaceRec
  <2>4. r \in SurfaceRec
    BY <1>1, <2>1, <2>2 DEF SurfaceRec
  <2>5. Shows(r)
    BY <2>1, <2>3 DEF Shows
  <2> QED BY <2>3, <2>4, <2>5
<1> QED BY <1>2, <1>3 DEF Outcomes

\* A surface that has its stable buffer.
LEMMA StableIs ==
  ASSUME NEW r \in SurfaceRec
  PROVE  /\ ensure_stable(r) \in SurfaceRec
         /\ ensure_stable(r) = [r EXCEPT !.stable = ensure_stable(r).stable]
         /\ r.stable # None => ensure_stable(r).stable = r.stable
         /\ Shows(r) => Shows(ensure_stable(r))
<1>1. Blank(r.fourcc) \in Pixels
  BY DEF Blank, Pixels, SurfaceRec
<1>2. ensure_stable(r) = [r EXCEPT !.stable = IF r.stable = None THEN Blank(r.fourcc) ELSE r.stable]
  BY DEF ensure_stable, SurfaceRec
<1>3. ensure_stable(r) \in SurfaceRec
  BY <1>1, <1>2 DEF SurfaceRec
<1>4. /\ ensure_stable(r).stable = IF r.stable = None THEN Blank(r.fourcc) ELSE r.stable
      /\ ensure_stable(r).completed = r.completed /\ ensure_stable(r).frame = r.frame
      /\ ensure_stable(r).picture = r.picture
  BY <1>2 DEF SurfaceRec
<1>5. ensure_stable(r) = [r EXCEPT !.stable = ensure_stable(r).stable]
  BY <1>2, <1>4
<1>6. Shows(r) => Shows(ensure_stable(r))
  BY <1>4 DEF Shows
<1> QED BY <1>3, <1>4, <1>5, <1>6

\* A picture given up, or let go of.
LEMMA ReleasedIs ==
  ASSUME NEW r \in SurfaceRec
  PROVE  /\ Released(r) \in SurfaceRec /\ ~Released(r).completed /\ Shows(Released(r))
         /\ Released(r).owner = r.owner /\ Released(r).acquired_handles = r.acquired_handles
<1>1. /\ Released(r) \in SurfaceRec /\ Released(r).completed = FALSE
      /\ Released(r).owner = r.owner /\ Released(r).acquired_handles = r.acquired_handles
  BY DEF Released, SurfaceRec
<1> QED BY <1>1 DEF Shows

-----------------------------------------------------------------------------
(* Configs and contexts.                                                   *)

\* A config comes or goes; nothing hangs on it.
LEMMA ConfigSteps ==
  ASSUME ObjectsInv, refused' = refused, answer' = None,
         \/ \E p \in Profiles : \E asked \in Asked : createConfig(p, asked)
         \/ \E g \in DOMAIN configs : destroyConfig(g)
  PROVE  ObjectsInv'
<1>1. UNCHANGED <<contexts, surfaces, buffers, images, object, pictures, thread>>
  BY DEF createConfig, destroyConfig
<1>2. /\ next_id' \in [Kinds -> Nat]
      /\ \A k \in {"context", "surface", "buffer"} : next_id'[k] = next_id[k]
  <2>1. CASE next_id' = next_id
    BY <2>1 DEF ObjectsInv
  <2>2. CASE Take([config |-> 1])
    BY <2>2, Counters DEF ObjectsInv, Grows, Kinds
  <2> QED BY <2>1, <2>2 DEF createConfig, destroyConfig
<1>3. Counting
  BY <1>1, <1>2 DEF Counting, ObjectsInv
<1> QED BY <1>1, <1>2, <1>3, LeftAlone, NoHandleStep

\* A new context has nothing pending, and takes over surfaces that belong to nobody.
LEMMA CreateContextStep ==
  ASSUME ObjectsInv, refused' = refused, answer' = None, NEW g, NEW targets,
         createContext(g, targets)
  PROVE  ObjectsInv'
<1> DEFINE n     == next_id["context"]
           entry == [fourcc |-> IF "P010" \in configs[g].rt_format THEN "P010" ELSE "NV12",
                     streaming |-> FALSE, pending |-> {}]
<1>1. /\ UNCHANGED <<configs, surfaces, buffers, images, pictures, thread>>
      /\ contexts' = Added(contexts, {n}, entry) /\ Take([context |-> 1])
      /\ object' = [s \in DOMAIN object |->
           IF s \in targets \cap surfaces /\ object[s].owner = None
           THEN [object[s] EXCEPT !.owner = n] ELSE object[s]]
  BY DEF createContext, New
<1>2. /\ next_id' \in [Kinds -> Nat] /\ n \in Nat /\ next_id'["context"] = n + 1
      /\ next_id'["surface"] = next_id["surface"] /\ next_id'["buffer"] = next_id["buffer"]
  BY <1>1, Counters DEF ObjectsInv, Grows, Kinds
<1>3. entry \in ContextRec /\ entry.pending = {}
  BY DEF ContextRec, Fourccs
<1> HIDE DEF n, entry
<1>4. ASSUME NEW s \in DOMAIN object
      PROVE  /\ object'[s] \in SurfaceRec /\ Shows(object'[s])
             /\ object'[s].acquired_handles = object[s].acquired_handles
             /\ object[s].owner # None => object'[s].owner = object[s].owner
  <2>1. object[s] \in SurfaceRec /\ Shows(object[s])
    BY DEF ObjectsInv, Surfaced
  <2>2. CASE object'[s] = object[s]
    BY <2>1, <2>2
  <2>3. CASE object[s].owner = None /\ object'[s] = [object[s] EXCEPT !.owner = n]
    <3>1. /\ object'[s] \in SurfaceRec /\ object'[s].acquired_handles = object[s].acquired_handles
          /\ object'[s].completed = object[s].completed /\ object'[s].frame = object[s].frame
          /\ object'[s].stable = object[s].stable /\ object'[s].picture = object[s].picture
      BY <1>2, <2>1, <2>3 DEF SurfaceRec
    <3> QED BY <2>1, <2>3, <3>1 DEF Shows
  <2> QED BY <1>1, <2>2, <2>3
<1>5. Redone
  BY <1>1, <1>4 DEF Redone, Redrawn
<1>6. Repending
  <2> SUFFICES ASSUME NEW c \in DOMAIN contexts'
               PROVE  /\ c \in Nat /\ c < next_id'["context"] /\ contexts'[c] \in ContextRec
                      /\ \A s \in contexts'[c].pending :
                           /\ s \in DOMAIN object /\ object'[s].owner = c
                           /\ c \in DOMAIN contexts /\ s \in contexts[c].pending
    BY DEF Repending
  <2>1. CASE c = n
    <3>1. contexts'[c] = entry
      BY <1>1, <2>1 DEF Added
    <3> QED BY <1>2, <1>3, <2>1, <3>1
  <2>2. CASE c # n
    <3>1. c \in DOMAIN contexts /\ contexts'[c] = contexts[c]
      BY <1>1, <2>2 DEF Added
    <3>2. /\ c \in Nat /\ c < n /\ contexts[c] \in ContextRec
          /\ \A s \in contexts[c].pending : s \in DOMAIN object /\ object[s].owner = c
      BY <3>1 DEF ObjectsInv, Pends, n
    <3>3. c # None
      BY <3>2, NoneIsNothing
    <3> QED BY <1>2, <1>4, <3>1, <3>2, <3>3
  <2> QED BY <2>1, <2>2
<1>7. Counting
  BY <1>1, <1>2 DEF Counting, ObjectsInv
<1> QED BY <1>1, <1>2, <1>5, <1>6, <1>7, LeftAlone, NoHandleStep

\* A context goes with what is pending in it, which is settled or released.
LEMMA DestroyContextStep ==
  ASSUME ObjectsInv, refused' = refused, answer' = None, NEW c \in DOMAIN contexts,
         destroyContext(c)
  PROVE  ObjectsInv'
<1>1. PICK settled \in SUBSET contexts[c].pending :
        \E result \in [settled -> UNION {Outcomes(s, c) : s \in settled}] :
          /\ \A s \in settled : result[s] \in Outcomes(s, c)
          /\ object' = DestroyContext(c, object, result)
  BY DEF destroyContext
<1>2. PICK result \in [settled -> UNION {Outcomes(s, c) : s \in settled}] :
        /\ \A s \in settled : result[s] \in Outcomes(s, c)
        /\ object' = DestroyContext(c, object, result)
  BY <1>1
<1>3. /\ contexts' = Without(contexts, {c})
      /\ UNCHANGED <<next_id, configs, surfaces, buffers, images, pictures, thread>>
  BY DEF destroyContext
<1>4. DOMAIN object' = DOMAIN object
  BY <1>2 DEF DestroyContext
<1>5. ASSUME NEW s \in DOMAIN object
      PROVE  /\ object'[s] \in SurfaceRec /\ Shows(object'[s])
             /\ object'[s].acquired_handles = object[s].acquired_handles
             /\ object[s].owner # c => object'[s].owner = object[s].owner
  <2>1. object[s] \in SurfaceRec /\ Shows(object[s])
    BY DEF ObjectsInv, Surfaced
  <2>2. ASSUME NEW r \in SurfaceRec, Shows(r), r.owner = object[s].owner,
               r.acquired_handles = object[s].acquired_handles, NEW o \in Nat \cup {None},
               object[s].owner # c => o = r.owner, object'[s] = [r EXCEPT !.owner = o]
        PROVE  /\ object'[s] \in SurfaceRec /\ Shows(object'[s])
               /\ object'[s].acquired_handles = object[s].acquired_handles
               /\ object[s].owner # c => object'[s].owner = object[s].owner
    <3>1. /\ object'[s] \in SurfaceRec /\ object'[s].owner = o
          /\ object'[s].acquired_handles = object[s].acquired_handles
          /\ object'[s].completed = r.completed /\ object'[s].frame = r.frame
          /\ object'[s].stable = r.stable /\ object'[s].picture = r.picture
      BY <2>2 DEF SurfaceRec
    <3>2. Shows(object'[s])
      BY <2>2, <3>1 DEF Shows
    <3> QED BY <2>2, <3>1, <3>2
  <2>3. CASE s \in settled
    <3>1. /\ result[s] \in SurfaceRec /\ Shows(result[s]) /\ result[s].owner = object[s].owner
          /\ result[s].acquired_handles = object[s].acquired_handles
      BY <1>2, <2>3, OutcomesAre
    <3>2. object'[s] = [result[s] EXCEPT !.owner =
                          IF result[s].owner = c THEN None ELSE result[s].owner]
      BY <1>2, <2>3, <3>1 DEF DestroyContext, SurfaceRec
    <3>3. (IF result[s].owner = c THEN None ELSE result[s].owner) \in Nat \cup {None}
      BY <3>1 DEF SurfaceRec
    <3> QED BY <2>2, <3>1, <3>2, <3>3
  <2>4. CASE s \notin settled /\ object[s].owner = c /\ s \in surfaces
    <3> DEFINE r == IF object[s].pending THEN Released(object[s]) ELSE object[s]
    <3>1. /\ r \in SurfaceRec /\ Shows(r) /\ r.owner = object[s].owner
          /\ r.acquired_handles = object[s].acquired_handles
      BY <2>1, ReleasedIs
    <3>2. object'[s] = [r EXCEPT !.owner = None]
      BY <1>2, <2>4 DEF DestroyContext
    <3> HIDE DEF r
    <3> QED BY <2>2, <2>4, <3>1, <3>2
  <2>5. CASE object'[s] = object[s]
    BY <2>1, <2>5
  <2> QED BY <1>2, <2>3, <2>4, <2>5 DEF DestroyContext
<1>6. Redone
  BY <1>3, <1>4, <1>5 DEF Redone, Redrawn
<1>7. Repending
  <2> SUFFICES ASSUME NEW d \in DOMAIN contexts'
               PROVE  /\ d \in Nat /\ d < next_id'["context"] /\ contexts'[d] \in ContextRec
                      /\ \A s \in contexts'[d].pending :
                           /\ s \in DOMAIN object /\ object'[s].owner = d
                           /\ d \in DOMAIN contexts /\ s \in contexts[d].pending
    BY DEF Repending
  <2>1. d \in DOMAIN contexts /\ d # c /\ contexts'[d] = contexts[d]
    BY <1>3 DEF Without
  <2>2. /\ d \in Nat /\ d < next_id["context"] /\ contexts[d] \in ContextRec
        /\ \A s \in contexts[d].pending : s \in DOMAIN object /\ object[s].owner = d
    BY <2>1 DEF ObjectsInv, Pends
  <2> QED BY <1>3, <1>5, <2>1, <2>2
<1> QED BY <1>3, <1>6, <1>7, LeftAlone, NoHandleStep

-----------------------------------------------------------------------------
(* Surfaces.                                                               *)

\* One surface changes, and its session forgets it.
LEMMA SettleStep ==
  ASSUME ObjectsInv, refused' = refused, answer' = None, Going,
         NEW s \in DOMAIN object, NEW c \in DOMAIN contexts, NEW r \in Outcomes(s, c),
         object' = [object EXCEPT ![s] = r], contexts' = Forgotten(s, c),
         UNCHANGED <<next_id, configs, surfaces, buffers, images, pictures>>
  PROVE  ObjectsInv'
<1>1. /\ r \in SurfaceRec /\ Shows(r) /\ r.owner = object[s].owner
      /\ r.acquired_handles = object[s].acquired_handles
  BY OutcomesAre
<1>2. \A x \in DOMAIN object :
        /\ object[x] \in SurfaceRec /\ Shows(object[x])
        /\ object'[x] = IF x = s THEN r ELSE object[x]
  BY DEF ObjectsInv, Surfaced
<1>3. Redone
  BY <1>1, <1>2 DEF Redone, Redrawn
<1>4. Repending
  <2> SUFFICES ASSUME NEW d \in DOMAIN contexts'
               PROVE  /\ d \in Nat /\ d < next_id'["context"] /\ contexts'[d] \in ContextRec
                      /\ \A x \in contexts'[d].pending :
                           /\ x \in DOMAIN object /\ object'[x].owner = d
                           /\ d \in DOMAIN contexts /\ x \in contexts[d].pending
    BY DEF Repending
  <2>1. /\ d \in DOMAIN contexts /\ contexts'[d] \in ContextRec
        /\ contexts'[d].pending \subseteq contexts[d].pending
    <3>1. Pends /\ c \in DOMAIN contexts \cup {None}
      BY DEF ObjectsInv
    <3>2. DOMAIN Forgotten(s, c) = DOMAIN contexts
      BY <3>1, ForgottenIs
    <3>3. /\ Forgotten(s, c)[d] \in ContextRec
          /\ Forgotten(s, c)[d].pending = IF d = c THEN contexts[d].pending \ {s}
                                          ELSE contexts[d].pending
      BY <3>1, <3>2, ForgottenIs
    <3> QED BY <3>2, <3>3
  <2>2. /\ d \in Nat /\ d < next_id["context"]
        /\ \A x \in contexts[d].pending : x \in DOMAIN object /\ object[x].owner = d
    BY <2>1 DEF ObjectsInv, Pends
  <2> QED BY <1>1, <1>2, <2>1, <2>2
<1> QED BY <1>3, <1>4, LeftAlone, NoHandleStep

\* A picture is settled in any call into its session.
LEMMA CompleteStep ==
  ASSUME ObjectsInv, refused' = refused, answer' = None, NEW c \in DOMAIN contexts, Complete(c)
  PROVE  ObjectsInv'
<1>1. PICK s \in contexts[c].pending : \E r \in Outcomes(s, c) :
        object' = [object EXCEPT ![s] = r] /\ contexts' = Forgotten(s, c)
  BY DEF Complete
<1>2. s \in DOMAIN object
  BY DEF ObjectsInv, Pends
<1>3. Going
  BY LeftAlone DEF Complete
<1> QED BY <1>1, <1>2, <1>3, SettleStep DEF Complete

\* One surface changes.
LEMMA OneSurface ==
  ASSUME ObjectsInv, NEW s \in DOMAIN object, NEW r \in SurfaceRec, Shows(r),
         r.acquired_handles = object[s].acquired_handles,
         object' = [object EXCEPT ![s] = r], surfaces' = surfaces
  PROVE  Redone /\ \A x \in DOMAIN object : object'[x] = IF x = s THEN r ELSE object[x]
<1>1. \A x \in DOMAIN object :
        /\ object[x] \in SurfaceRec /\ Shows(object[x])
        /\ object'[x] = IF x = s THEN r ELSE object[x]
  BY DEF ObjectsInv, Surfaced
<1> QED BY <1>1 DEF Redone, Redrawn

\* A buffer handed out shows the same, and the handles are as before.
LEMMA ExportedIs ==
  ASSUME NEW r \in SurfaceRec, Shows(r)
  PROVE  /\ Exported(r) \in SurfaceRec /\ Shows(Exported(r)) /\ Exported(r).owner = r.owner
         /\ Exported(r).acquired_handles = r.acquired_handles
<1> DEFINE e == ensure_stable(r)
           flag == e.persistent_export \/ ~r.completed
<1>1. e \in SurfaceRec /\ Shows(e) /\ e = [r EXCEPT !.stable = e.stable]
  BY StableIs
<1>2. Exported(r) = [e EXCEPT !.persistent_export = flag]
  BY DEF Exported
<1>3. flag \in BOOLEAN
  OBVIOUS
<1> HIDE DEF e, flag
<1>4. e.owner = r.owner /\ e.acquired_handles = r.acquired_handles
  BY <1>1 DEF SurfaceRec
<1>5. Exported(r) \in SurfaceRec
  BY <1>1, <1>2, <1>3 DEF SurfaceRec
<1>6. /\ Exported(r).owner = e.owner /\ Exported(r).acquired_handles = e.acquired_handles
      /\ Exported(r).completed = e.completed /\ Exported(r).frame = e.frame
      /\ Exported(r).stable = e.stable /\ Exported(r).picture = e.picture
  BY <1>1, <1>2 DEF SurfaceRec
<1>7. Shows(Exported(r))
  BY <1>1, <1>6 DEF Shows
<1> QED BY <1>4, <1>5, <1>6, <1>7

\* An export gives the surface its buffer.
LEMMA ExportStep ==
  ASSUME ObjectsInv, refused' = refused, answer' = None, NEW s \in surfaces,
         exportSurfaceHandle(s)
  PROVE  ObjectsInv'
<1> DEFINE r == IF object[s].frame # None THEN object[s] ELSE Exported(object[s])
<1>1. s \in DOMAIN object /\ object[s] \in SurfaceRec /\ Shows(object[s])
  BY DEF ObjectsInv, Surfaced
<1>2. object' = [object EXCEPT ![s] = r] /\ UNCHANGED <<next_id, tables, pictures, thread>>
  BY DEF exportSurfaceHandle
<1>3. /\ r \in SurfaceRec /\ Shows(r) /\ r.owner = object[s].owner
      /\ r.acquired_handles = object[s].acquired_handles
  BY <1>1, ExportedIs
<1> HIDE DEF r
<1>4. Redone /\ \A x \in DOMAIN object : object'[x] = IF x = s THEN r ELSE object[x]
  BY <1>1, <1>2, <1>3, OneSurface DEF tables
<1>5. Repending
  BY <1>2, <1>3, <1>4 DEF Repending, ObjectsInv, Pends, tables
<1> QED BY <1>2, <1>4, <1>5, LeftAlone, NoHandleStep DEF tables

\* A picture begun, rendered and submitted: the surface is of its context alone.
LEMMA DecodeStep ==
  ASSUME ObjectsInv, refused' = refused, answer' = None, NEW c \in DOMAIN contexts,
         NEW s \in surfaces, Decode(c, s)
  PROVE  ObjectsInv'
<1> DEFINE p == publish_policy(s)
           q == [Released(object[s]) EXCEPT !.owner = c, !.publish = p,
                   !.pending = TRUE, !.picture = pictures + 1]
           r == IF p = "Copy" THEN ensure_stable(q) ELSE q
           o == owner_of(s)
           left == Forgotten(s, o)
           mine == Submitted(s, left[c])
<1>1. /\ s \in DOMAIN object /\ s \in Nat /\ object[s] \in SurfaceRec /\ pictures \in Nat
      /\ c \in Nat
  BY DEF ObjectsInv, Surfaced, Pends
<1>2. /\ pictures' = pictures + 1
      /\ object' = [object EXCEPT ![s] = r] /\ contexts' = [left EXCEPT ![c] = mine]
      /\ UNCHANGED <<next_id, configs, surfaces, buffers, images, thread>>
  BY DEF Decode
<1>3. p \in {"Direct", "Copy"} /\ pictures + 1 \in Nat
  BY <1>1 DEF publish_policy
<1>4. /\ Released(object[s]) \in SurfaceRec /\ ~Released(object[s]).completed
      /\ Released(object[s]).acquired_handles = object[s].acquired_handles
  BY <1>1, ReleasedIs
<1> HIDE DEF p
<1>5. /\ q \in SurfaceRec /\ q.owner = c /\ Shows(q)
      /\ q.acquired_handles = object[s].acquired_handles
  <2> DEFINE w == Released(object[s])
             n == pictures + 1
  <2>1. /\ w \in SurfaceRec /\ ~w.completed /\ w.acquired_handles = object[s].acquired_handles
        /\ n \in Nat
        /\ q = [w EXCEPT !.owner = c, !.publish = p, !.pending = TRUE, !.picture = n]
    BY <1>3, <1>4
  <2> HIDE DEF w, q, n
  <2>2. q \in SurfaceRec
    BY <1>1, <1>3, <2>1 DEF SurfaceRec
  <2>3. q.owner = c /\ q.acquired_handles = w.acquired_handles /\ q.completed = w.completed
    BY <2>1 DEF SurfaceRec
  <2>4. Shows(q)
    BY <2>1, <2>3 DEF Shows
  <2> QED BY <2>1, <2>2, <2>3, <2>4
<1> HIDE DEF q
<1>6. /\ r \in SurfaceRec /\ Shows(r) /\ r.owner = c
      /\ r.acquired_handles = object[s].acquired_handles
  <2>1. /\ ensure_stable(q) \in SurfaceRec /\ Shows(ensure_stable(q))
        /\ ensure_stable(q) = [q EXCEPT !.stable = ensure_stable(q).stable]
    BY <1>5, StableIs
  <2>2. ensure_stable(q).owner = c /\ ensure_stable(q).acquired_handles = q.acquired_handles
    BY <1>5, <2>1 DEF SurfaceRec
  <2> QED BY <1>5, <2>1, <2>2
<1> HIDE DEF r, mine
<1>7. Redone /\ \A x \in DOMAIN object : object'[x] = IF x = s THEN r ELSE object[x]
  BY <1>1, <1>2, <1>6, OneSurface
<1>8. Pends /\ o \in DOMAIN contexts \cup {None}
  BY DEF ObjectsInv, owner_of
<1>9. \A d \in DOMAIN contexts : s \in contexts[d].pending => o = d
  BY DEF ObjectsInv, Pends, owner_of
<1> HIDE DEF o
<1>10. DOMAIN left = DOMAIN contexts
  BY <1>8, ForgottenIs
<1>11. ASSUME NEW d \in DOMAIN contexts
       PROVE  left[d] \in ContextRec /\ left[d].pending = contexts[d].pending \ {s}
  <2>1. /\ left[d] \in ContextRec
        /\ left[d].pending = IF d = o THEN contexts[d].pending \ {s} ELSE contexts[d].pending
    BY <1>8, <1>10, ForgottenIs
  <2> HIDE DEF left
  <2> QED BY <1>9, <2>1
<1> HIDE DEF left
<1>12. mine \in ContextRec /\ mine.pending = left[c].pending \cup {s}
  BY <1>1, <1>11 DEF Submitted, ContextRec, SurfaceRec, mine
<1>13. Repending
  <2> SUFFICES ASSUME NEW d \in DOMAIN contexts'
               PROVE  /\ d \in Nat /\ d < next_id'["context"] /\ contexts'[d] \in ContextRec
                      /\ \A x \in contexts'[d].pending :
                           /\ x \in DOMAIN object /\ object'[x].owner = d
                           /\ x \in surfaces \/ (d \in DOMAIN contexts /\ x \in contexts[d].pending)
    BY DEF Repending
  <2>1. d \in DOMAIN contexts /\ contexts'[d] = IF d = c THEN mine ELSE left[d]
    BY <1>2, <1>10
  <2>2. /\ d \in Nat /\ d < next_id["context"]
        /\ \A x \in contexts[d].pending : x \in DOMAIN object /\ object[x].owner = d
    BY <2>1 DEF ObjectsInv, Pends
  <2>3. /\ contexts'[d] \in ContextRec
        /\ \A x \in contexts'[d].pending :
             (x = s /\ d = c) \/ (x # s /\ x \in contexts[d].pending)
    <3>1. CASE d = c
      BY <1>11, <1>12, <2>1, <3>1
    <3>2. CASE d # c
      BY <1>11, <2>1, <3>2
    <3> QED BY <3>1, <3>2
  <2> QED BY <1>1, <1>2, <1>6, <1>7, <2>1, <2>2, <2>3
<1>14. Counting
  BY <1>1, <1>2 DEF Counting, ObjectsInv
<1> QED BY <1>2, <1>7, <1>13, <1>14, LeftAlone, NoHandleStep

-----------------------------------------------------------------------------
(* Images and buffers.                                                     *)

\* A new buffer has no handle.
LEMMA BufferAdded ==
  ASSUME ObjectsInv, NEW entry \in BufferRec, entry.fd = "none",
         buffers' = Added(buffers, {next_id["buffer"]}, entry),
         next_id'["buffer"] = next_id["buffer"] + 1, DOMAIN images' \subseteq Nat
  PROVE  Rebuffered
<1> DEFINE n == next_id["buffer"]
<1>1. /\ n \in Nat /\ next_id'["buffer"] = n + 1
      /\ \A b \in DOMAIN buffers : b \in Nat /\ b < n /\ buffers[b] \in BufferRec
  BY DEF ObjectsInv, Buffered, Kinds
<1>2. buffers' = Added(buffers, {n}, entry)
  OBVIOUS
<1> HIDE DEF n
<1>3. ASSUME NEW b \in DOMAIN buffers'
      PROVE  /\ b \in Nat /\ b < next_id'["buffer"] /\ buffers'[b] \in BufferRec
             /\ buffers'[b].fd = "none" \/ (b \in DOMAIN buffers /\ buffers'[b] = buffers[b])
  <2>1. CASE b = n
    <3>1. buffers'[b] = entry
      BY <1>2, <2>1 DEF Added
    <3> QED BY <1>1, <2>1, <3>1
  <2>2. CASE b # n
    <3>1. b \in DOMAIN buffers /\ buffers'[b] = buffers[b]
      BY <1>2, <2>2 DEF Added
    <3> QED BY <1>1, <3>1
  <2> QED BY <2>1, <2>2
<1> QED BY <1>3 DEF Rebuffered, Rebuilt

\* What the calls make.
LEMMA BuffersAre ==
  /\ NewBuffer("data") \in BufferRec /\ NewBuffer("data").fd = "none"
  /\ NewBuffer("image") \in BufferRec /\ NewBuffer("image").fd = "none"
  /\ \A s \in Nat : /\ [NewBuffer("image") EXCEPT !.derived = s] \in BufferRec
                    /\ [NewBuffer("image") EXCEPT !.derived = s].fd = "none"
BY DEF NewBuffer, BufferRec

\* Buffers and images made by the client.
LEMMA CreateSteps ==
  ASSUME ObjectsInv, refused' = refused, answer' = None,
         createBuffer \/ \E f \in Formats : createImage(f)
  PROVE  ObjectsInv'
<1>1. UNCHANGED <<configs, contexts, surfaces, object, pictures, thread>>
  BY DEF createBuffer, createImage
<1>2. /\ next_id' \in [Kinds -> Nat] /\ next_id'["buffer"] = next_id["buffer"] + 1
      /\ next_id'["context"] = next_id["context"] /\ next_id'["surface"] = next_id["surface"]
  <2>1. CASE createBuffer
    BY <2>1, Counters DEF createBuffer, ObjectsInv, Grows, Kinds
  <2>2. CASE \E f \in Formats : createImage(f)
    BY <2>2, Counters DEF createImage, ObjectsInv, Grows, Kinds
  <2> QED BY <2>1, <2>2
<1>3. DOMAIN images' \subseteq Nat
  <2>1. DOMAIN images \subseteq Nat /\ next_id["image"] \in Nat
    BY DEF ObjectsInv, Buffered, Kinds
  <2> QED BY <2>1 DEF createBuffer, createImage, Added, New
<1>4. \/ buffers' = Added(buffers, {next_id["buffer"]}, NewBuffer("data"))
      \/ buffers' = Added(buffers, {next_id["buffer"]}, NewBuffer("image"))
  BY DEF createBuffer, createImage, New
<1>5. Rebuffered
  BY <1>2, <1>3, <1>4, BufferAdded, BuffersAre
<1>6. Counting
  BY <1>1, <1>2 DEF Counting, ObjectsInv
<1> QED BY <1>1, <1>2, <1>5, <1>6, LeftAlone, NoHandleStep

\* Buffers and images go.
LEMMA DestroySteps ==
  ASSUME ObjectsInv, refused' = refused, answer' = None,
         \/ \E b \in DOMAIN buffers : destroyBuffer(b)
         \/ \E i \in DOMAIN images : destroyImage(i)
  PROVE  ObjectsInv'
<1>1. UNCHANGED <<next_id, configs, contexts, surfaces, object, pictures, thread>>
  BY DEF destroyBuffer, destroyImage
<1>2. DOMAIN images' \subseteq DOMAIN images
  BY DEF destroyBuffer, destroyImage, Without
<1>3. \A b \in DOMAIN buffers' : b \in DOMAIN buffers /\ buffers'[b] = buffers[b]
  BY DEF destroyBuffer, destroyImage, Without
<1>4. Rebuffered
  BY <1>1, <1>2, <1>3 DEF Rebuffered, Rebuilt, ObjectsInv, Buffered
<1> QED BY <1>1, <1>4, LeftAlone, NoHandleStep

\* An image call that begins.
LEMMA ImageStarts ==
  ASSUME ObjectsInv, refused' = refused, answer' = None, NEW t \in Threads, NEW s \in surfaces,
         deriveImage(t, s) \/ \E i \in DOMAIN images : getImage(t, s, i)
  PROVE  ObjectsInv'
<1>1. UNCHANGED <<next_id, tables, object, pictures>> /\ thread[t].at = "idle"
  BY DEF deriveImage, getImage
<1>2. /\ thread[t] \in ThreadRec /\ thread[t].doomed = <<>> /\ thread[t].owners = <<>>
      /\ s \in Nat /\ DOMAIN images \subseteq Nat
  BY <1>1, NothingDoomed DEF ObjectsInv, Surfaced, Buffered
<1>3. Going
  <2>1. CASE deriveImage(t, s)
    <3> DEFINE r == [thread[t] EXCEPT !.at = "sync", !.s = s]
    <3>1. thread' = [thread EXCEPT ![t] = r]
      BY <2>1 DEF deriveImage
    <3>2. /\ r \in ThreadRec /\ r.at = "sync" /\ r.s = s /\ r.doomed = <<>> /\ r.owners = <<>>
      BY <1>2 DEF ThreadRec, Looking
    <3> HIDE DEF r
    <3> QED BY <1>1, <3>1, <3>2, ThreadGoes
  <2>2. ASSUME NEW i \in DOMAIN images, getImage(t, s, i) PROVE Going
    <3> DEFINE r == [thread[t] EXCEPT !.at = "sync", !.s = s, !.image = i]
    <3>1. thread' = [thread EXCEPT ![t] = r]
      BY <2>2 DEF getImage
    <3>2. /\ r \in ThreadRec /\ r.at = "sync" /\ r.s = s /\ r.doomed = <<>> /\ r.owners = <<>>
      BY <1>2, <2>2 DEF ThreadRec, Looking
    <3> HIDE DEF r
    <3> QED BY <1>1, <3>1, <3>2, ThreadGoes
  <2> QED BY <2>1, <2>2
<1> QED BY <1>1, <1>3, LeftAlone, NoHandleStep DEF tables

\* The wait of an image call.
LEMMA SyncStep ==
  ASSUME ObjectsInv, refused' = refused, answer' = None, NEW t \in Threads, Sync(t)
  PROVE  ObjectsInv'
<1> DEFINE s == thread[t].s
           c == owner_of(s)
           at == IF thread[t].image = None THEN "derive" ELSE "copy"
           r == [thread[t] EXCEPT !.at = at]
<1>1. thread[t].at = "sync" /\ UNCHANGED <<next_id, configs, surfaces, buffers, images, pictures>>
  BY DEF Sync
<1>2. /\ thread[t] \in ThreadRec /\ thread[t].doomed = <<>> /\ thread[t].owners = <<>>
      /\ s \in surfaces /\ s \in DOMAIN object
  BY <1>1, NothingDoomed DEF ObjectsInv, Surfaced, Looking
<1>3. thread' = [thread EXCEPT ![t] = r]
  BY <1>1, <1>2 DEF Sync
<1>4. at \in {"derive", "copy"}
  OBVIOUS
<1> HIDE DEF at
<1>5. r \in ThreadRec /\ r.at = at /\ r.s = s /\ r.doomed = <<>> /\ r.owners = <<>>
  BY <1>2, <1>4 DEF ThreadRec, Looking
<1>6. Going
  <2> HIDE DEF r
  <2> QED BY <1>1, <1>2, <1>3, <1>4, <1>5, ThreadGoes
<1>7. CASE object' = object /\ contexts' = contexts
  BY <1>1, <1>6, <1>7, LeftAlone, NoHandleStep
<1>8. CASE /\ c # None /\ \E x \in Outcomes(s, c) : object' = [object EXCEPT ![s] = x]
           /\ contexts' = Forgotten(s, c)
  <2>1. c \in DOMAIN contexts
    BY <1>8 DEF owner_of
  <2> HIDE DEF c, s
  <2> QED BY <1>1, <1>2, <1>6, <1>8, <2>1, SettleStep
<1> QED BY <1>7, <1>8 DEF Sync

\* What an image call returns is the surface's picture, or is blank in deriveImage.
LEMMA AnswerIsPicture ==
  ASSUME ObjectsInv, object' = object, NEW s \in DOMAIN object, NEW pixels,
         answer' = [s |-> s, pixels |-> pixels],
         \/ \E f : copies(s, f) /\ pixels = Source(s)
         \/ ~has_pixels(s) /\ pixels = Blank(object[s].fourcc)
  PROVE  ImageIsPicture'
<1>1. Shows(object[s])
  BY DEF ObjectsInv, Surfaced
<1>2. answer'.s = s /\ answer'.pixels = pixels
  OBVIOUS
<1>3. CASE \E f : copies(s, f) /\ pixels = Source(s)
  <2>1. pixels.picture = object[s].picture
    BY <1>1, <1>3 DEF copies, has_pixels, Source, Shows
  <2> QED BY <1>2, <2>1 DEF ImageIsPicture
<1>4. CASE ~has_pixels(s) /\ pixels = Blank(object[s].fourcc)
  <2>1. ~object[s].completed
    BY <1>1, <1>4 DEF has_pixels, Shows
  <2> QED BY <1>2, <1>4, <2>1 DEF ImageIsPicture
<1> QED BY <1>3, <1>4

\* An image call that ends.
LEMMA ImageEnds ==
  ASSUME ObjectsInv, refused' = refused, NEW t \in Threads, Derive(t) \/ Copy(t)
  PROVE  ObjectsInv'
<1> DEFINE s == thread[t].s
<1>1. /\ UNCHANGED <<configs, contexts, surfaces, object, pictures>>
      /\ thread[t].at \in {"derive", "copy"}
  BY DEF Derive, Copy, tables
<1>2. s \in surfaces /\ s \in DOMAIN object /\ s \in Nat
  BY <1>1, NothingDoomed DEF ObjectsInv, Surfaced, Looking
<1>3. thread' = [thread EXCEPT ![t] = Idle]
  BY DEF Derive, Copy, Returns, Throws
<1>4. Going
  <2>1. Idle \in ThreadRec /\ Idle.at = "idle" /\ Idle.doomed = <<>> /\ Idle.owners = <<>>
    BY DEF Idle, ThreadRec
  <2> QED BY <1>1, <1>3, <2>1, ThreadGoes DEF Looking
<1>5. ImageIsPicture'
  <2>1. CASE answer' = None
    BY <2>1 DEF ImageIsPicture
  <2>2. CASE \E f : copies(s, f) /\ answer' = [s |-> s, pixels |-> Source(s)]
    <3> HIDE DEF s
    <3> QED BY <1>1, <1>2, <2>2, AnswerIsPicture
  <2>3. CASE ~has_pixels(s) /\ answer' = [s |-> s, pixels |-> Blank(object[s].fourcc)]
    <3> HIDE DEF s
    <3> QED BY <1>1, <1>2, <2>3, AnswerIsPicture
  <2>4. CASE Derive(t)
    <3>1. \/ answer' = None
          \/ /\ ~(has_pixels(s) /\ ~copies(s, object[s].fourcc))
             /\ answer' = [s |-> s, pixels |-> IF copies(s, object[s].fourcc) THEN Source(s)
                                               ELSE Blank(object[s].fourcc)]
      BY <2>4 DEF Derive, Returns, Throws
    <3> QED BY <2>1, <2>2, <2>3, <3>1
  <2>5. CASE Copy(t)
    <3>1. \/ answer' = None
          \/ \E f : copies(s, f) /\ answer' = [s |-> s, pixels |-> Source(s)]
      BY <2>5 DEF Copy, Returns, Throws
    <3> QED BY <2>1, <2>2, <3>1
  <2> QED BY <2>4, <2>5
<1>6. CASE Copy(t)
  BY <1>1, <1>4, <1>5, <1>6, LeftAlone, NoHandleStep DEF Copy, tables
<1>7. CASE Derive(t)
  <2>1. Take([buffer |-> 1, image |-> 1])
    BY <1>7 DEF Derive
  <2>2. /\ next_id' \in [Kinds -> Nat] /\ next_id'["buffer"] = next_id["buffer"] + 1
        /\ next_id'["context"] = next_id["context"] /\ next_id'["surface"] = next_id["surface"]
    BY <2>1, Counters DEF ObjectsInv, Grows, Kinds
  <2>3. DOMAIN images' \subseteq Nat
    <3>1. DOMAIN images \subseteq Nat /\ next_id["image"] \in Nat
      BY DEF ObjectsInv, Buffered, Kinds
    <3>2. images' = Added(images, {next_id["image"]}, NewImage(object[s].fourcc))
      BY <1>7 DEF Derive, New
    <3> QED BY <3>1, <3>2 DEF Added
  <2>4. buffers' = Added(buffers, {next_id["buffer"]}, [NewBuffer("image") EXCEPT !.derived = s])
    BY <1>7 DEF Derive, New
  <2>5. Rebuffered
    <3> HIDE DEF s
    <3> QED BY <1>2, <2>2, <2>3, <2>4, BufferAdded, BuffersAre
  <2>6. Counting
    BY <1>1, <2>2 DEF Counting, ObjectsInv
  <2> QED BY <1>1, <1>4, <1>5, <2>2, <2>5, <2>6, LeftAlone, NoHandleStep
<1> QED BY <1>6, <1>7

-----------------------------------------------------------------------------
(* Handles.                                                                *)

\* One surface's handles are counted anew, one buffer's handle is opened or
\* closed, and everything else stays.
LEMMA HandleStep ==
  ASSUME ObjectsInv, refused' = refused, answer' = None,
         UNCHANGED <<next_id, configs, contexts, surfaces, images, pictures, thread>>,
         NEW b \in DOMAIN buffers, NEW fd \in {"none", "frame", "stable"},
         NEW s \in surfaces, s = buffers[b].derived, NEW r \in SurfaceRec, Shows(r),
         r.owner = object[s].owner,
         buffers' = [buffers EXCEPT ![b].fd = fd], object' = [object EXCEPT ![s] = r],
         IF fd = "none"
         THEN /\ b \in OpenHandles(s)
              /\ r.acquired_handles = Less(object[s].acquired_handles)
         ELSE r.acquired_handles = object[s].acquired_handles + 1
  PROVE  ObjectsInv'
<1>1. /\ s \in DOMAIN object /\ buffers[b] \in BufferRec /\ next_id \in [Kinds -> Nat]
      /\ \A x \in DOMAIN object : object[x] \in SurfaceRec /\ Shows(object[x])
      /\ Buffered /\ HandlePins
  BY DEF ObjectsInv, Surfaced, Buffered
<1>2. /\ DOMAIN object' = DOMAIN object
      /\ \A x \in DOMAIN object : object'[x] = IF x = s THEN r ELSE object[x]
  BY <1>1
<1>3. Redrawn
  BY <1>1, <1>2 DEF Redrawn
<1>4. Repending
  BY <1>2 DEF Repending, ObjectsInv, Pends
<1>5. /\ DOMAIN buffers' = DOMAIN buffers
      /\ \A x \in DOMAIN buffers : x # b => buffers'[x] = buffers[x]
      /\ buffers'[b].fd = fd /\ buffers'[b].derived = s /\ buffers'[b] \in BufferRec
  BY <1>1 DEF BufferRec
<1>6. Rebuilt
  BY <1>5 DEF Rebuilt, ObjectsInv, Buffered
<1>7. OpenHandles(s)' = IF fd = "none" THEN OpenHandles(s) \ {b} ELSE OpenHandles(s) \cup {b}
  <2>1. CASE fd = "none"
    BY <1>5, <2>1 DEF OpenHandles
  <2>2. CASE fd # "none"
    BY <1>5, <2>2 DEF OpenHandles
  <2> QED BY <2>1, <2>2
<1>8. /\ IsFiniteSet(OpenHandles(s)) /\ Cardinality(OpenHandles(s)) \in Nat
      /\ Cardinality(OpenHandles(s)) <= object[s].acquired_handles
      /\ object[s].acquired_handles \in Nat
  BY <1>1, HandlesCount DEF HandlePins, SurfaceRec
<1>9. Cardinality(OpenHandles(s)') <= object'[s].acquired_handles
  <2> DEFINE H == OpenHandles(s)
             n == object[s].acquired_handles
  <2>1. CASE fd = "none"
    <3>1. b \in H /\ object'[s].acquired_handles = Less(n)
      BY <1>1, <1>2, <2>1
    <3>2. Cardinality(H \ {b}) = Cardinality(H) - 1
      BY <1>8, <3>1, FS_RemoveElement
    <3>3. Cardinality(H) # 0
      BY <1>8, <3>1, FS_EmptySet
    <3>4. OpenHandles(s)' = H \ {b}
      BY <1>7, <2>1
    <3>5. Cardinality(H) \in Nat /\ Cardinality(H) <= n /\ n \in Nat
      BY <1>8
    <3> HIDE DEF H, n
    <3> QED BY <3>1, <3>2, <3>3, <3>4, <3>5 DEF Less
  <2>2. CASE fd # "none"
    <3>1. object'[s].acquired_handles = n + 1
      BY <1>1, <1>2, <2>2
    <3>2. /\ Cardinality(H \cup {b}) = IF b \in H THEN Cardinality(H) ELSE Cardinality(H) + 1
      BY <1>8, FS_AddElement
    <3>3. OpenHandles(s)' = H \cup {b}
      BY <1>7, <2>2
    <3>4. Cardinality(H) \in Nat /\ Cardinality(H) <= n /\ n \in Nat
      BY <1>8
    <3> HIDE DEF H, n
    <3> QED BY <3>1, <3>2, <3>3, <3>4
  <2> QED BY <2>1, <2>2
<1>10. ASSUME NEW x \in surfaces'
       PROVE  Cardinality({y \in DOMAIN buffers' :
                  buffers'[y].derived = x /\ buffers'[y].fd # "none"}) <= object'[x].acquired_handles
  <2>1. CASE x = s
    BY <1>9, <2>1 DEF OpenHandles
  <2>2. CASE x # s
    <3>1. {y \in DOMAIN buffers' : buffers'[y].derived = x /\ buffers'[y].fd # "none"}
            = OpenHandles(x)
      BY <1>5, <2>2 DEF OpenHandles
    <3>2. object'[x] = object[x] /\ x \in surfaces
      BY <1>2, <2>2 DEF ObjectsInv, Surfaced
    <3> QED BY <1>1, <3>1, <3>2 DEF HandlePins
  <2> QED BY <2>1, <2>2
<1>11. \A y \in DOMAIN buffers' : buffers'[y].fd # "none" => buffers'[y].derived \in surfaces'
  BY <1>1, <1>5 DEF HandlePins
<1>12. HandlePins'
  BY <1>10, <1>11 DEF HandlePins, OpenHandles
<1> QED BY <1>3, <1>4, <1>6, <1>12, LeftAlone, StepKeeps

\* A handle is acquired of the memory behind the surface.
LEMMA AcquireStep ==
  ASSUME ObjectsInv, refused' = refused, answer' = None, NEW b \in DOMAIN buffers,
         acquireBufferHandle(b)
  PROVE  ObjectsInv'
<1> DEFINE s == buffers[b].derived
           n == object[s].acquired_handles + 1
<1>1. /\ s \in surfaces /\ s \in DOMAIN object /\ object[s] \in SurfaceRec /\ Shows(object[s])
      /\ UNCHANGED <<next_id, configs, contexts, surfaces, images, pictures, thread>>
  BY DEF acquireBufferHandle, ObjectsInv, Surfaced
<1>2. ASSUME NEW e \in SurfaceRec, Shows(e), e.owner = object[s].owner,
             e.acquired_handles = object[s].acquired_handles,
             object' = [object EXCEPT ![s] = [e EXCEPT !.acquired_handles = n]],
             NEW fd \in {"frame", "stable"}, buffers' = [buffers EXCEPT ![b].fd = fd]
      PROVE  ObjectsInv'
  <2> DEFINE r == [e EXCEPT !.acquired_handles = n]
  <2>1. n \in Nat
    BY <1>1 DEF SurfaceRec
  <2> HIDE DEF s, n
  <2>2. r \in SurfaceRec
    BY <1>2, <2>1 DEF SurfaceRec
  <2>3. /\ r.owner = e.owner /\ r.acquired_handles = n /\ r.completed = e.completed
        /\ r.frame = e.frame /\ r.stable = e.stable /\ r.picture = e.picture
    BY <1>2 DEF SurfaceRec
  <2>4. Shows(r)
    BY <1>2, <2>3 DEF Shows
  <2>5. object' = [object EXCEPT ![s] = r] /\ s = buffers[b].derived /\ fd # "none"
        /\ r.acquired_handles = object[s].acquired_handles + 1
        /\ r.owner = object[s].owner
    BY <1>2, <2>3 DEF s, n
  <2> HIDE DEF r
  <2> QED BY <1>1, <1>2, <2>2, <2>4, <2>5, HandleStep
<1>3. CASE object[s].frame # None
  <2>1. object' = [object EXCEPT ![s] = [object[s] EXCEPT !.acquired_handles = n]]
    BY <1>3 DEF acquireBufferHandle
  <2>2. buffers' = [buffers EXCEPT ![b].fd = "frame"]
    BY <1>3 DEF acquireBufferHandle
  <2> HIDE DEF s, n
  <2> QED BY <1>1, <1>2, <2>1, <2>2
<1>4. CASE object[s].frame = None
  <2>1. object' = [object EXCEPT ![s] = [Exported(object[s]) EXCEPT !.acquired_handles = n]]
    BY <1>4 DEF acquireBufferHandle
  <2>2. buffers' = [buffers EXCEPT ![b].fd = "stable"]
    BY <1>4 DEF acquireBufferHandle
  <2> HIDE DEF s, n
  <2>3. /\ Exported(object[s]) \in SurfaceRec /\ Shows(Exported(object[s]))
        /\ Exported(object[s]).owner = object[s].owner
        /\ Exported(object[s]).acquired_handles = object[s].acquired_handles
    BY <1>1, ExportedIs
  <2> QED BY <1>2, <2>1, <2>2, <2>3
<1> QED BY <1>3, <1>4

\* A handle is released, and counted off the surface, which is still there.
LEMMA ReleaseHandleStep ==
  ASSUME ObjectsInv, refused' = refused, answer' = None, NEW b \in DOMAIN buffers,
         releaseBufferHandle(b)
  PROVE  ObjectsInv'
<1> DEFINE s == buffers[b].derived
           n == Less(object[s].acquired_handles)
           r == [object[s] EXCEPT !.acquired_handles = n]
<1>1. s \in surfaces /\ b \in OpenHandles(s)
  BY DEF releaseBufferHandle, ObjectsInv, HandlePins, OpenHandles
<1>2. /\ s \in DOMAIN object /\ object[s] \in SurfaceRec /\ Shows(object[s])
      /\ UNCHANGED <<next_id, configs, contexts, surfaces, images, pictures, thread>>
  BY <1>1 DEF releaseBufferHandle, ObjectsInv, Surfaced
<1>3. object' = [object EXCEPT ![s] = r] /\ buffers' = [buffers EXCEPT ![b].fd = "none"]
  BY <1>1 DEF releaseBufferHandle
<1>4. n \in Nat
  BY <1>2 DEF Less, SurfaceRec
<1>5. n = Less(object[s].acquired_handles) /\ s = buffers[b].derived
  OBVIOUS
<1> HIDE DEF s, n
<1>6. r \in SurfaceRec
  BY <1>2, <1>4 DEF SurfaceRec
<1>7. /\ r.owner = object[s].owner /\ r.acquired_handles = n
      /\ r.completed = object[s].completed /\ r.frame = object[s].frame
      /\ r.stable = object[s].stable /\ r.picture = object[s].picture
  BY <1>2 DEF SurfaceRec
<1>8. Shows(r)
  BY <1>2, <1>7 DEF Shows
<1> HIDE DEF r
<1> QED BY <1>1, <1>2, <1>3, <1>5, <1>6, <1>7, <1>8, HandleStep

-----------------------------------------------------------------------------
(* Surfaces come and go.                                                   *)

\* New surfaces are numbered beyond all that are known.
LEMMA CreateSurfacesStep ==
  ASSUME ObjectsInv, refused' = refused, answer' = None, NEW f \in Fourccs, NEW n \in 1 .. 2,
         createSurfaces2(f, n)
  PROVE  ObjectsInv'
<1> DEFINE first == next_id["surface"]
           ids == first .. first + n - 1
           new == NewSurface(f)
<1>1. /\ UNCHANGED <<configs, contexts, buffers, images, pictures, thread>>
      /\ surfaces' = surfaces \cup ids /\ object' = Added(object, ids, new)
  BY DEF createSurfaces2, New
<1>2. /\ next_id' \in [Kinds -> Nat] /\ first \in Nat /\ next_id'["surface"] = first + n
      /\ next_id'["context"] = next_id["context"] /\ next_id'["buffer"] = next_id["buffer"]
  <2>1. Take([surface |-> n]) /\ n \in Nat
    BY DEF createSurfaces2
  <2> QED BY <2>1, Counters DEF ObjectsInv, Grows, Kinds
<1>3. new \in SurfaceRec /\ Shows(new) /\ new.acquired_handles = 0
  BY DEF NewSurface, SurfaceRec, Shows
<1>4. \A i \in ids : i \in Nat /\ first <= i /\ i < first + n
  BY <1>2
<1>5. /\ surfaces \subseteq DOMAIN object
      /\ \A x \in DOMAIN object : /\ x \in Nat /\ x < first /\ x \notin ids
                                  /\ object[x] \in SurfaceRec /\ Shows(object[x])
  BY <1>2 DEF ObjectsInv, Surfaced
<1> HIDE DEF ids, new
<1>6. /\ DOMAIN object' = DOMAIN object \cup ids
      /\ \A x \in DOMAIN object : object'[x] = object[x]
      /\ \A x \in ids : object'[x] = new
  BY <1>1, <1>5 DEF Added
<1>7. Surfaced'
  <2>1. surfaces' \subseteq DOMAIN object'
    BY <1>1, <1>5, <1>6
  <2>2. ASSUME NEW x \in DOMAIN object'
        PROVE  /\ x \in Nat /\ x < next_id'["surface"]
               /\ object'[x] \in SurfaceRec /\ Shows(object'[x])
    BY <1>2, <1>3, <1>4, <1>5, <1>6, <2>2
  <2> QED BY <2>1, <2>2 DEF Surfaced
<1>8. Buffered' /\ Pends'
  BY <1>1, <1>2, <1>6 DEF ObjectsInv, Buffered, Pends
<1>9. Calls'
  <2> SUFFICES ASSUME NEW t \in Threads
               PROVE  Dooms(thread[t])' /\ (thread'[t].at \in Looking => thread'[t].s \in surfaces')
    BY <1>1 DEF ObjectsInv, Calls
  <2> DEFINE r == thread[t]
  <2>1. Dooms(r) /\ (r.at \in Looking => r.s \in surfaces) /\ thread'[t] = r /\ r \in ThreadRec
    BY <1>1 DEF ObjectsInv, Calls
  <2>2. ASSUME NEW i \in 1 .. Len(r.doomed)
        PROVE  r.doomed[i] \notin surfaces' /\ r.doomed[i] < next_id'["surface"]
    <3> DEFINE x == r.doomed[i]
    <3>1. x \in Nat /\ x \notin surfaces /\ x < first
      BY <2>1 DEF Dooms, ThreadRec
    <3> HIDE DEF x, r
    <3>2. x \notin ids
      BY <1>2, <1>4, <3>1
    <3>3. x < next_id'["surface"]
      BY <1>2, <3>1
    <3> QED BY <1>1, <3>1, <3>2, <3>3 DEF x
  <2> HIDE DEF r
  <2>3. Dooms(thread[t])'
    BY <1>1, <2>1, <2>2 DEF Dooms
  <2> QED BY <1>1, <2>1, <2>3
<1>10. HandlePins'
  <2>1. HandlesStay
    BY <1>1, <1>3, <1>5, <1>6 DEF HandlesStay, ObjectsInv, HandlePins
  <2>2. \A s \in surfaces : object[s].acquired_handles \in Nat
    BY <1>5 DEF SurfaceRec
  <2> QED BY <2>1, <2>2, PinsStay DEF ObjectsInv
<1>11. DestroyedReleased'
  BY <1>1 DEF ObjectsInv, DestroyedReleased
<1>12. ImageIsPicture'
  BY DEF ImageIsPicture
<1> QED BY <1>1, <1>2, <1>7, <1>8, <1>9, <1>10, <1>11, <1>12 DEF ObjectsInv

\* What the surfaces of a list become that are in the table.
LEMMA DoomedAre ==
  ASSUME ObjectsInv, NEW t \in Threads, NEW list \in Seq(DOMAIN object), NEW k \in Known(list)
  PROVE  LET doomed == [i \in DOMAIN k |-> list[k[i]]] IN
         /\ doomed \in Seq(Nat) /\ Range(doomed) = Range(list) \cap surfaces
         /\ [i \in DOMAIN doomed |-> owner_of(doomed[i])] \in Seq(Nat \cup {None})
         /\ Len([i \in DOMAIN doomed |-> owner_of(doomed[i])]) = Len(doomed)
         /\ \A i \in 1 .. Len(doomed) :
              [j \in DOMAIN doomed |-> owner_of(doomed[j])][i] = owner_of(doomed[i])
<1> DEFINE K == {i \in DOMAIN list : list[i] \in surfaces}
           m == Cardinality(K)
           doomed == [i \in DOMAIN k |-> list[k[i]]]
           owners == [i \in DOMAIN doomed |-> owner_of(doomed[i])]
<1>1. m \in Nat
  <2>1. DOMAIN list = 1 .. Len(list) /\ Len(list) \in Nat
    OBVIOUS
  <2>2. IsFiniteSet(1 .. Len(list)) /\ K \subseteq 1 .. Len(list)
    BY <2>1, FS_Interval
  <2> QED BY <2>2, FS_Subset, FS_CardinalityType
<1>2. k \in [1 .. m -> K] /\ Range(k) = K
  BY DEF Known, InOrder
<1>3. \A x \in DOMAIN object : x \in Nat
  BY DEF ObjectsInv, Surfaced
<1>4. \A i \in K : i \in DOMAIN list /\ list[i] \in surfaces /\ list[i] \in DOMAIN object
  OBVIOUS
<1>5. \A i \in DOMAIN list : list[i] \in surfaces => i \in K
  OBVIOUS
<1> HIDE DEF K, m
<1>6. /\ DOMAIN doomed = 1 .. m
      /\ \A i \in 1 .. m : doomed[i] = list[k[i]] /\ k[i] \in K /\ doomed[i] \in Nat
  BY <1>2, <1>3, <1>4
<1>7. doomed \in Seq(Nat) /\ Len(doomed) = m
  BY <1>1, <1>6
<1>8. Range(doomed) = Range(list) \cap surfaces
  <2>1. ASSUME NEW x \in Range(doomed) PROVE x \in Range(list) \cap surfaces
    BY <1>4, <1>6, <2>1 DEF Range
  <2>2. ASSUME NEW x \in Range(list) \cap surfaces PROVE x \in Range(doomed)
    <3>1. PICK j \in DOMAIN list : list[j] = x
      BY <2>2 DEF Range
    <3>2. j \in Range(k)
      BY <1>2, <1>5, <2>2, <3>1
    <3>3. PICK i \in DOMAIN k : k[i] = j
      BY <3>2 DEF Range
    <3> QED BY <1>2, <1>6, <3>1, <3>3 DEF Range
  <2> QED BY <2>1, <2>2
<1> HIDE DEF doomed
<1>9. \A i \in 1 .. m : owner_of(doomed[i]) \in Nat \cup {None}
  BY DEF owner_of, ObjectsInv, Pends
<1>10. owners \in [1 .. m -> Nat \cup {None}]
  BY <1>6, <1>9
<1>11. owners \in Seq(Nat \cup {None}) /\ Len(owners) = m
  BY <1>1, <1>10
<1>12. \A i \in 1 .. Len(doomed) : owners[i] = owner_of(doomed[i])
  BY <1>6, <1>7
<1> QED BY <1>7, <1>8, <1>11, <1>12 DEF doomed

\* The lists that a client may give.
LEMMA ListsAre == Lists \subseteq Seq(DOMAIN object)
<1> DEFINE S == DOMAIN object
<1>1. \A s \in S : <<s>> \in Seq(S)
  OBVIOUS
<1>2. \A a, b \in S : <<a, b>> \in Seq(S)
  OBVIOUS
<1>3. \A l \in S \X S : \E a, b \in S : l = <<a, b>>
  OBVIOUS
<1> SUFFICES ASSUME NEW l \in Lists PROVE l \in Seq(S)
  OBVIOUS
<1>4. CASE l \in {<<s>> : s \in S}
  BY <1>1, <1>4
<1>5. CASE l \in S \X S
  <2>1. PICK a \in S, b \in S : l = <<a, b>>
    BY <1>3, <1>5
  <2> QED BY <1>2, <2>1
<1> QED BY <1>4, <1>5 DEF Lists

\* Surfaces leave the table.  None of them has a handle, and the thread that took
\* them out, or refused, tells which they are.
LEMMA DestroySurfacesStep ==
  ASSUME ObjectsInv, answer' = None, NEW t \in Threads, NEW list \in Seq(DOMAIN object),
         destroySurfaces(t, list)
  PROVE  ObjectsInv'
<1>1. /\ thread[t].at = "idle"
      /\ UNCHANGED <<next_id, configs, contexts, buffers, images, object, pictures>>
  BY DEF destroySurfaces
<1>2. \A u \in Threads : thread[u].s \notin Range(list)
  BY DEF destroySurfaces, InCall
<1>3. \A i \in DOMAIN list : list[i] \in Range(list)
  BY DEF Range
<1>4. \A x \in DOMAIN object : x \in Nat /\ x < next_id["surface"] /\ object[x] \in SurfaceRec
  BY DEF ObjectsInv, Surfaced
<1>5. /\ surfaces' \subseteq surfaces
      /\ \A x \in surfaces \ surfaces' : x \in Range(list) /\ object[x].acquired_handles = 0
  <2>1. CASE Busy(list) # {}
    <3>1. PICK first \in Busy(list) :
            /\ \A i \in Busy(list) : first <= i
            /\ surfaces' = surfaces \ {list[i] : i \in 1 .. first - 1}
      BY <2>1 DEF destroySurfaces
    <3>2. DOMAIN list = 1 .. Len(list) /\ Len(list) \in Nat /\ first \in 1 .. Len(list)
      BY DEF Busy
    <3>3. \A i \in 1 .. first - 1 : i \in DOMAIN list /\ i \notin Busy(list)
      BY <3>1, <3>2
    <3> QED BY <1>3, <3>1, <3>3 DEF Busy
  <2>2. CASE Busy(list) = {}
    <3>1. surfaces' = surfaces \ Range(list)
      BY <2>2 DEF destroySurfaces
    <3> QED BY <2>2, <3>1 DEF Busy, Range
  <2> QED BY <2>1, <2>2
<1>6. Surfaced' /\ Buffered' /\ Pends'
  BY <1>1, <1>5 DEF ObjectsInv, Surfaced, Buffered, Pends
<1>7. HandlePins'
  <2>1. ASSUME NEW b \in DOMAIN buffers, buffers[b].fd # "none"
        PROVE  buffers[b].derived \in surfaces'
    <3> DEFINE s == buffers[b].derived
    <3>1. s \in surfaces /\ b \in OpenHandles(s)
      BY <2>1 DEF ObjectsInv, HandlePins, OpenHandles
    <3>2. IsFiniteSet(OpenHandles(s)) /\ Cardinality(OpenHandles(s)) \in Nat
      BY HandlesCount DEF ObjectsInv
    <3>3. Cardinality(OpenHandles(s)) # 0
      BY <3>1, <3>2, FS_EmptySet
    <3>4. Cardinality(OpenHandles(s)) <= object[s].acquired_handles
      BY <3>1 DEF ObjectsInv, HandlePins
    <3> HIDE DEF s
    <3>5. object[s].acquired_handles # 0
      BY <3>2, <3>3, <3>4
    <3> QED BY <1>5, <3>1, <3>5 DEF s
  <2>2. HandlesStay
    BY <1>1, <1>5, <2>1 DEF HandlesStay
  <2>3. \A s \in surfaces : object[s].acquired_handles \in Nat
    BY <1>4 DEF ObjectsInv, Surfaced, SurfaceRec
  <2> QED BY <2>2, <2>3, PinsStay DEF ObjectsInv
<1>8. \A u \in Threads :
        /\ thread[u] \in ThreadRec /\ Dooms(thread[u])
        /\ thread[u].at \in Looking => thread[u].s \in surfaces
  BY DEF ObjectsInv, Calls
\* The calls of other threads have what they had.
<1>9. ASSUME NEW u \in Threads, thread'[u] = thread[u]
      PROVE  Dooms(thread[u])' /\ (thread'[u].at \in Looking => thread'[u].s \in surfaces')
  <2> DEFINE r == thread[u]
  <2>1. r.at \in Looking => r.s \in surfaces'
    BY <1>2, <1>5, <1>8
  <2>2. Dooms(r) /\ thread'[u] = r
    BY <1>8, <1>9
  <2> HIDE DEF r
  <2>3. Dooms(thread[u])'
    BY <1>1, <1>5, <2>2 DEF Dooms
  <2> QED BY <2>1, <2>2, <2>3
<1>10. CASE Busy(list) # {}
  <2>1. thread' = thread /\ refused' = refused \cup (surfaces \ surfaces')
    BY <1>10 DEF destroySurfaces
  <2>2. Calls'
    BY <1>9, <2>1 DEF ObjectsInv, Calls
  <2>3. DestroyedReleased'
    BY <1>1, <2>1 DEF ObjectsInv, DestroyedReleased
  <2>4. ImageIsPicture'
    BY DEF ImageIsPicture
  <2> QED BY <1>1, <1>6, <1>7, <2>2, <2>3, <2>4 DEF ObjectsInv
<1>11. CASE Busy(list) = {}
  <2>1. PICK k \in Known(list) : Doom(t, [i \in DOMAIN k |-> list[k[i]]])
    BY <1>11 DEF destroySurfaces
  <2>2. surfaces' = surfaces \ Range(list) /\ refused' = refused
    BY <1>11 DEF destroySurfaces
  <2> DEFINE doomed == [i \in DOMAIN k |-> list[k[i]]]
             owners == [i \in DOMAIN doomed |-> owner_of(doomed[i])]
             r == [thread[t] EXCEPT !.at = "destroy", !.doomed = doomed, !.owners = owners]
  <2>3. thread' = [thread EXCEPT ![t] = r]
    BY <2>1 DEF Doom
  <2>4. /\ doomed \in Seq(Nat) /\ Range(doomed) = Range(list) \cap surfaces
        /\ owners \in Seq(Nat \cup {None}) /\ Len(owners) = Len(doomed)
        /\ \A i \in 1 .. Len(doomed) : owners[i] = owner_of(doomed[i])
    BY DoomedAre
  <2> HIDE DEF doomed, owners
  <2>5. /\ r \in ThreadRec /\ r.at = "destroy" /\ r.doomed = doomed /\ r.owners = owners
    BY <1>8, <2>4 DEF ThreadRec
  <2> HIDE DEF r
  <2>6. thread' \in [Threads -> ThreadRec] /\ thread'[t] = r
        /\ \A u \in Threads : u # t => thread'[u] = thread[u]
    BY <2>3, <2>5 DEF ObjectsInv, Calls
  <2>7. ASSUME NEW i \in 1 .. Len(doomed)
        PROVE  /\ doomed[i] \notin surfaces' /\ doomed[i] < next_id'["surface"]
               /\ \A c \in DOMAIN contexts' : doomed[i] \in contexts'[c].pending => owners[i] = c
    <3> DEFINE x == doomed[i]
    <3>1. x \in Range(list) /\ x \in surfaces /\ owners[i] = owner_of(x)
      <4>1. x \in Range(doomed)
        <5>1. DOMAIN doomed = 1 .. Len(doomed)
          BY <2>4
        <5> QED BY <5>1 DEF Range
      <4> QED BY <2>4, <4>1
    <3> HIDE DEF x
    <3>2. x \in DOMAIN object
      BY <3>1 DEF ObjectsInv, Surfaced
    <3>3. \A c \in DOMAIN contexts : x \in contexts[c].pending => owner_of(x) = c
      BY DEF ObjectsInv, Pends, owner_of
    <3> QED BY <1>1, <1>4, <2>2, <3>1, <3>2, <3>3 DEF x
  <2>8. Dooms(thread[t])'
    BY <2>4, <2>5, <2>6, <2>7 DEF Dooms
  <2>9. Calls'
    <3> SUFFICES ASSUME NEW u \in Threads
                 PROVE  Dooms(thread[u])' /\ (thread'[u].at \in Looking => thread'[u].s \in surfaces')
      BY <2>6 DEF Calls
    <3>1. CASE u = t
      BY <2>5, <2>6, <2>8, <3>1 DEF Looking
    <3>2. CASE u # t
      BY <1>9, <2>6, <3>2
    <3> QED BY <3>1, <3>2
  <2>10. DestroyedReleased'
    <3> SUFFICES ASSUME NEW c \in DOMAIN contexts', NEW s \in contexts'[c].pending
                 PROVE  s \in surfaces' \cup refused' \/ \E u \in Threads : s \in Range(thread'[u].doomed)
      BY DEF DestroyedReleased
    <3>1. s \in surfaces \cup refused \/ \E u \in Threads : s \in Range(thread[u].doomed)
      BY <1>1 DEF ObjectsInv, DestroyedReleased
    <3>2. CASE s \in surfaces
      BY <2>2, <2>4, <2>5, <2>6, <3>2
    <3>3. CASE \E u \in Threads : s \in Range(thread[u].doomed)
      <4>1. PICK u \in Threads : s \in Range(thread[u].doomed)
        BY <3>3
      <4>2. u # t
        BY <1>1, <1>8, <4>1 DEF Dooms, Range
      <4> QED BY <2>6, <4>1, <4>2
    <3> QED BY <2>2, <3>1, <3>2, <3>3
  <2>11. ImageIsPicture'
    BY DEF ImageIsPicture
  <2> QED BY <1>1, <1>6, <1>7, <2>9, <2>10, <2>11 DEF ObjectsInv
<1> QED BY <1>10, <1>11

\* The next of the surfaces is released by its session and gone, or the call ends.
LEMMA ReleaseStep ==
  ASSUME ObjectsInv, refused' = refused, answer' = None, NEW t \in Threads, Release(t)
  PROVE  ObjectsInv'
<1>1. /\ thread[t].at = "destroy"
      /\ UNCHANGED <<next_id, configs, surfaces, buffers, images, pictures>>
  BY DEF Release
<1>2. /\ \A u \in Threads :
           /\ thread[u] \in ThreadRec /\ Dooms(thread[u])
           /\ thread[u].at \in Looking => thread[u].s \in surfaces
      /\ thread \in [Threads -> ThreadRec]
  BY DEF ObjectsInv, Calls
<1>3. ImageIsPicture'
  BY DEF ImageIsPicture
<1>4. CASE thread[t].doomed = <<>>
  <2>1. thread' = [thread EXCEPT ![t] = Idle] /\ object' = object /\ contexts' = contexts
    BY <1>4 DEF Release
  <2>2. Surfaced' /\ Buffered' /\ Pends' /\ HandlePins'
    BY <1>1, <2>1 DEF ObjectsInv, Surfaced, Buffered, Pends, HandlePins, OpenHandles
  <2>3. Idle \in ThreadRec /\ Idle.doomed = <<>> /\ Idle.owners = <<>> /\ Idle.at = "idle"
    BY DEF Idle, ThreadRec
  <2>4. /\ thread' \in [Threads -> ThreadRec] /\ thread'[t] = Idle
        /\ \A u \in Threads : u # t => thread'[u] = thread[u]
    BY <1>2, <2>1, <2>3
  <2>5. Calls'
    <3> SUFFICES ASSUME NEW u \in Threads
                 PROVE  Dooms(thread[u])' /\ (thread'[u].at \in Looking => thread'[u].s \in surfaces')
      BY <2>4 DEF Calls
    <3>1. CASE u = t
      BY <2>3, <2>4, <3>1 DEF Dooms, Looking
    <3>2. CASE u # t
      BY <1>1, <1>2, <2>1, <2>4, <3>2 DEF Dooms
    <3> QED BY <3>1, <3>2
  <2>6. DestroyedReleased'
    <3>1. \A u \in Threads : \A s \in Range(thread[u].doomed) : u # t
      BY <1>4 DEF Range
    <3> QED BY <1>1, <2>1, <2>4, <3>1 DEF ObjectsInv, DestroyedReleased
  <2> QED BY <1>1, <1>3, <2>2, <2>5, <2>6 DEF ObjectsInv
<1>5. CASE thread[t].doomed # <<>>
  <2> DEFINE old == thread[t]
             s == Head(old.doomed)
             c == Head(old.owners)
             there == IF c \in DOMAIN contexts THEN c ELSE None
             r == [old EXCEPT !.doomed = Tail(old.doomed), !.owners = Tail(old.owners)]
  <2>1. /\ object' = Without(object, {s}) /\ contexts' = Forgotten(s, there)
        /\ thread' = [thread EXCEPT ![t].doomed = Tail(old.doomed), ![t].owners = Tail(old.owners)]
    BY <1>5 DEF Release
  <2>2. thread' = [thread EXCEPT ![t] = r]
    BY <1>2, <2>1
  <2>3. /\ old \in ThreadRec /\ Dooms(old) /\ old.doomed \in Seq(Nat)
        /\ old.owners \in Seq(Nat \cup {None}) /\ Len(old.owners) = Len(old.doomed)
        /\ old.doomed # <<>> /\ old.at = "destroy"
    BY <1>1, <1>2, <1>5 DEF ThreadRec, Dooms
  <2> HIDE DEF old
  <2>4. /\ Len(old.doomed) \in Nat /\ Len(old.doomed) # 0
        /\ old.doomed[1] = s /\ old.owners[1] = c /\ s \in Nat
        /\ Tail(old.doomed) \in Seq(Nat) /\ Tail(old.owners) \in Seq(Nat \cup {None})
        /\ Len(Tail(old.doomed)) = Len(old.doomed) - 1
        /\ Len(Tail(old.owners)) = Len(old.doomed) - 1
        /\ \A i \in 1 .. Len(old.doomed) - 1 :
             Tail(old.doomed)[i] = old.doomed[i + 1] /\ Tail(old.owners)[i] = old.owners[i + 1]
    BY <2>3
  <2>5. /\ s \notin surfaces
        /\ \A d \in DOMAIN contexts : s \in contexts[d].pending => c = d
    <3>1. 1 \in 1 .. Len(old.doomed)
      BY <2>4
    <3> QED BY <2>3, <2>4, <3>1 DEF Dooms
  <2>6. r \in ThreadRec /\ r.at = "destroy" /\ r.doomed = Tail(old.doomed) /\ r.owners = Tail(old.owners)
    BY <2>3, <2>4 DEF ThreadRec
  <2> HIDE DEF r
  <2>7. /\ thread' \in [Threads -> ThreadRec] /\ thread'[t] = r
        /\ \A u \in Threads : u # t => thread'[u] = thread[u]
    BY <1>2, <2>2, <2>6
  <2> HIDE DEF s
  <2>8. /\ DOMAIN object' = DOMAIN object \ {s}
        /\ \A x \in DOMAIN object \ {s} : object'[x] = object[x]
    BY <2>1 DEF Without
  <2>9. there \in DOMAIN contexts \cup {None} /\ Pends
    BY DEF ObjectsInv
  <2>10. \A d \in DOMAIN contexts : s \in contexts[d].pending => there = d
    BY <2>5
  <2> HIDE DEF c, there
  <2>11. DOMAIN contexts' = DOMAIN contexts
    BY <2>1, <2>9, ForgottenIs
  <2>12. ASSUME NEW d \in DOMAIN contexts
         PROVE  contexts'[d] \in ContextRec /\ contexts'[d].pending = contexts[d].pending \ {s}
    <3>1. DOMAIN Forgotten(s, there) = DOMAIN contexts
      BY <2>9, ForgottenIs
    <3>2. /\ Forgotten(s, there)[d] \in ContextRec
          /\ Forgotten(s, there)[d].pending = IF d = there THEN contexts[d].pending \ {s}
                                              ELSE contexts[d].pending
      BY <2>9, <3>1, ForgottenIs
    <3> QED BY <2>1, <2>10, <3>2
  <2>13. Surfaced' /\ Buffered'
    BY <1>1, <2>5, <2>8 DEF ObjectsInv, Surfaced, Buffered
  <2>14. Pends'
    BY <1>1, <2>8, <2>11, <2>12 DEF ObjectsInv, Pends
  <2>15. HandlePins'
    <3>1. HandlesStay
      BY <1>1, <2>5, <2>8 DEF HandlesStay, ObjectsInv, HandlePins, Surfaced
    <3>2. \A x \in surfaces : object[x].acquired_handles \in Nat
      BY DEF ObjectsInv, Surfaced, SurfaceRec
    <3> QED BY <3>1, <3>2, PinsStay DEF ObjectsInv
  <2>16. ASSUME NEW u \in Threads, u # t
         PROVE  Dooms(thread[u])' /\ (thread'[u].at \in Looking => thread'[u].s \in surfaces')
    <3> DEFINE other == thread[u]
    <3>1. /\ other.at \in Looking => other.s \in surfaces
          /\ Dooms(other) /\ thread'[u] = other
      BY <1>2, <2>7, <2>16
    <3> HIDE DEF other
    <3>2. Dooms(thread[u])'
      BY <1>1, <2>11, <2>12, <3>1 DEF Dooms
    <3> QED BY <1>1, <3>1, <3>2
  <2>17. Dooms(thread[t])'
    <3>1. ASSUME NEW i \in 1 .. Len(r.doomed)
          PROVE  /\ r.doomed[i] \notin surfaces' /\ r.doomed[i] < next_id'["surface"]
                 /\ \A d \in DOMAIN contexts' : r.doomed[i] \in contexts'[d].pending
                                                  => r.owners[i] = d
      <4>1. /\ i + 1 \in 1 .. Len(old.doomed)
            /\ r.doomed[i] = old.doomed[i + 1] /\ r.owners[i] = old.owners[i + 1]
        BY <2>4, <2>6
      <4>2. /\ old.doomed[i + 1] \notin surfaces /\ old.doomed[i + 1] < next_id["surface"]
            /\ \A d \in DOMAIN contexts : old.doomed[i + 1] \in contexts[d].pending
                                            => old.owners[i + 1] = d
        BY <2>3, <4>1 DEF Dooms
      <4> QED BY <1>1, <2>11, <2>12, <4>1, <4>2
    <3> QED BY <2>4, <2>6, <2>7, <3>1 DEF Dooms
  <2>18. Calls'
    <3> SUFFICES ASSUME NEW u \in Threads
                 PROVE  Dooms(thread[u])' /\ (thread'[u].at \in Looking => thread'[u].s \in surfaces')
      BY <2>7 DEF Calls
    <3>1. CASE u = t
      BY <2>6, <2>7, <2>17, <3>1 DEF Looking
    <3> QED BY <2>16, <3>1
  <2>19. DestroyedReleased'
    <3> SUFFICES ASSUME NEW d \in DOMAIN contexts', NEW x \in contexts'[d].pending
                 PROVE  x \in surfaces' \cup refused' \/ \E u \in Threads : x \in Range(thread'[u].doomed)
      BY DEF DestroyedReleased
    <3>1. d \in DOMAIN contexts /\ x \in contexts[d].pending /\ x # s
      BY <2>11, <2>12
    <3>2. x \in surfaces \cup refused \/ \E u \in Threads : x \in Range(thread[u].doomed)
      BY <3>1 DEF ObjectsInv, DestroyedReleased
    <3>3. ASSUME NEW u \in Threads, x \in Range(thread[u].doomed) PROVE x \in Range(thread'[u].doomed)
      <4>1. CASE u # t
        BY <2>7, <3>3, <4>1
      <4>2. CASE u = t
        <5>1. PICK i \in 1 .. Len(old.doomed) : old.doomed[i] = x
          BY <2>3, <3>3, <4>2 DEF Range, old
        <5>2. i # 1 /\ i - 1 \in 1 .. Len(old.doomed) - 1 /\ (i - 1) + 1 = i
          BY <2>4, <3>1, <5>1
        <5>3. r.doomed[i - 1] = x /\ i - 1 \in DOMAIN r.doomed
          BY <2>4, <2>6, <5>1, <5>2
        <5> QED BY <2>7, <4>2, <5>3 DEF Range
      <4> QED BY <4>1, <4>2
    <3> QED BY <1>1, <3>2, <3>3
  <2> QED BY <1>1, <1>3, <2>13, <2>14, <2>15, <2>18, <2>19 DEF ObjectsInv
<1> QED BY <1>4, <1>5

-----------------------------------------------------------------------------
(* The whole driver.                                                       *)

\* When the driver goes, it starts from nothing.
LEMMA TerminateStep ==
  ASSUME ObjectsInv, answer' = None, terminate
  PROVE  ObjectsInv'
<1>1. /\ DOMAIN contexts' = {} /\ DOMAIN images' = {} /\ DOMAIN buffers' = {} /\ surfaces' = {}
      /\ DOMAIN object' = {} /\ thread' = thread /\ pictures' = pictures
      /\ \A t \in Threads : thread[t].at = "idle"
  BY DEF terminate
<1>2. next_id' \in [Kinds -> Nat]
  BY ObjectsAssumption DEF terminate
<1>3. Surfaced' /\ Buffered' /\ Pends' /\ HandlePins' /\ DestroyedReleased' /\ ImageIsPicture'
  BY <1>1 DEF Surfaced, Buffered, Pends, HandlePins, DestroyedReleased, ImageIsPicture
<1>4. Calls'
  <2> SUFFICES ASSUME NEW t \in Threads
               PROVE  Dooms(thread[t])' /\ (thread'[t].at \in Looking => thread'[t].s \in surfaces')
    BY <1>1 DEF ObjectsInv, Calls
  <2>1. /\ thread'[t] = thread[t] /\ thread[t].at = "idle" /\ thread[t].doomed = <<>>
        /\ Len(thread[t].owners) = Len(thread[t].doomed)
    BY <1>1 DEF ObjectsInv, Calls, Dooms
  <2> QED BY <2>1 DEF Dooms, Looking
<1> QED BY <1>1, <1>2, <1>3, <1>4 DEF ObjectsInv

\* Every step keeps the tables together.
LEMMA ObjectsStep ==
  ASSUME ObjectsInv, [ObjectsNext]_objectsVars
  PROVE  ObjectsInv'
<1>1. CASE UNCHANGED objectsVars
  BY <1>1 DEF objectsVars, tables, ObjectsInv, Surfaced, Buffered, Pends, Calls, Dooms, HandlePins,
              OpenHandles, ImageIsPicture, DestroyedReleased
<1>2. CASE Tables /\ refused' = refused /\ answer' = None
  <2>1. \A s \in surfaces : s \in DOMAIN object
    BY DEF ObjectsInv, Surfaced
  <2> QED BY <1>2, ConfigSteps, CreateContextStep, DestroyContextStep, CompleteStep, DecodeStep,
             ExportStep, DestroySteps, AcquireStep, ReleaseHandleStep, CreateSteps,
             CreateSurfacesStep DEF Tables
<1>3. CASE \E t \in Threads, l \in Lists : destroySurfaces(t, l) /\ answer' = None
  BY <1>3, ListsAre, DestroySurfacesStep
<1>4. CASE terminate /\ answer' = None
  BY <1>4, TerminateStep
<1>5. CASE refused' = refused /\ \E t \in Threads : Derive(t) \/ Copy(t)
  BY <1>5, ImageEnds
<1> QED BY <1>1, <1>2, <1>3, <1>4, <1>5, ReleaseStep, SyncStep, ImageStarts DEF ObjectsNext

\* In every state of every run.
LEMMA AlwaysObjects == ObjectsSpec => []ObjectsInv
<1>1. ObjectsInit => ObjectsInv
  BY ObjectsStarts
<1>2. ObjectsInv /\ [ObjectsNext]_objectsVars => ObjectsInv'
  BY ObjectsStep
<1> QED BY <1>1, <1>2, PTL DEF ObjectsSpec

\* An open handle keeps its surface in the table, which counts it (buffer.cc:135,
\* surface.cc:145): no sequence of exports, acquisitions, releases and destroyed
\* images or lists leaves a client with memory that the driver forgot.
THEOREM HandlesPin == ObjectsSpec => []HandlePins
<1>1. ObjectsInv => HandlePins
  BY DEF ObjectsInv
<1> QED BY <1>1, AlwaysObjects, PTL

\* An image call that succeeds returns the surface's own picture, or from
\* deriveImage a blank one when there is none to return (image.cc:52, 164).
THEOREM ImagesShow == ObjectsSpec => []ImageIsPicture
<1>1. ObjectsInv => ImageIsPicture
  BY DEF ObjectsInv
<1> QED BY <1>1, AlwaysObjects, PTL

\* A surface that is gone is pending in no session, but for those of a list that
\* was refused halfway or is still being worked off (surface.cc:145).
THEOREM DestroyedAreReleased == ObjectsSpec => []DestroyedReleased
<1>1. ObjectsInv => DestroyedReleased
  BY DEF ObjectsInv
<1> QED BY <1>1, AlwaysObjects, PTL
=============================================================================
