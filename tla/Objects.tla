------------------------------ MODULE Objects ------------------------------
(***************************************************************************)
(* The object tables of the driver: configs, contexts, surfaces, buffers   *)
(* and images, and what connects them: derived images, acquired handles,   *)
(* lists of surfaces destroyed at once (config.cc, surface.cc, buffer.cc,  *)
(* image.cc, driver.cc, util/options.cc).                                  *)
(*                                                                         *)
(* Decoding is as small as the tables allow: a picture is begun, rendered  *)
(* and submitted in one step, and settled by the session at any later one. *)
(* VaDriver has its interleavings; here the calls that give up the         *)
(* driver's mutex half-way are deriveImage, getImage and destroySurfaces.  *)
(* A surface is not reused, moved or destroyed during another thread's     *)
(* call for it, as libva asks.                                             *)
(*                                                                         *)
(* Pixels are a picture's number and a format; picture 0 is a blank one.   *)
(*                                                                         *)
(* X_f is a mutant of f: a bug the code could have.  Nothing uses it.      *)
(***************************************************************************)
EXTENDS Integers, FiniteSets, Sequences, Functions

CONSTANTS
  None,
  Threads,          \* of the client
  Environments,     \* environments the driver may be started in
  Nodes,            \* what the decoder node may offer: sets of formats
  Profiles, Asked,  \* bounds: profiles and RT formats the client makes configs for
  Formats,          \* bound: formats of the images it creates
  Limit,            \* bound: objects of each kind ever created
  MaxTogether,      \* bound: surfaces and buffers ever created
  MaxPictures,      \* bound: pictures submitted
  MaxHandles        \* bound: handles acquired of one surface

Kinds == {"config", "context", "surface", "buffer", "image"}

Fourccs == {"NV12", "P010"}
Pixels  == [fourcc : Fourccs, picture : Nat]

ASSUME ObjectsAssumption ==
  /\ Limit \in [Kinds -> Nat] /\ MaxTogether \in Nat /\ MaxPictures \in Nat /\ MaxHandles \in Nat
  /\ None \notin Nat \cup Pixels

VARIABLES
  options, capabilities,
  next_id, configs, contexts, surfaces, buffers, images,
  object,           \* every Surface object, in the table or not
  pictures,         \* pictures submitted so far (ghost)
  refused,          \* surfaces a destroySurfaces took out before it threw (ghost)
  thread, answer    \* answer: what the image call that ended last returned (ghost)

tables == <<configs, contexts, surfaces, buffers, images>>
objectsVars == <<options, capabilities, next_id, tables, object, pictures,
                 refused, thread, answer>>

Blank(fourcc) == [fourcc |-> fourcc, picture |-> 0]

\* A table without some of its entries, and with new ones.
Without(table, ids) == [i \in DOMAIN table \ ids |-> table[i]]
Added(table, ids, entry) ==
  [i \in DOMAIN table \cup ids |-> IF i \in ids THEN entry ELSE table[i]]
-----------------------------------------------------------------------------
(* Options and capabilities, fixed when the driver is initialised.         *)

\* Options::from_environment.  An unknown value of V4L2_VA_PUBLISH is Auto.
from_environment(env) ==
  [publish |-> IF "V4L2_VA_PUBLISH" \in DOMAIN env /\ env["V4L2_VA_PUBLISH"]
                    \in {"copy", "direct", "import"}
               THEN env["V4L2_VA_PUBLISH"] ELSE "auto",
   experimental_profiles |-> "V4L2_VA_EXPERIMENTAL_PROFILES" \in DOMAIN env]

TenBit == {"HEVCMain10", "VP9Profile2"}

ProfilesOf(codec, p010, experimental) ==
  CASE codec = "H264" -> {"H264ConstrainedBaseline", "H264Main", "H264High"}
    [] codec = "HEVC" -> {"HEVCMain"} \cup (IF p010 THEN {"HEVCMain10"} ELSE {})
    [] codec = "VP9"  -> {"VP9Profile0"} \cup (IF p010 THEN {"VP9Profile2"} ELSE {})
    [] codec = "AV1"  -> IF experimental THEN {"AV1Profile0"} ELSE {}

Codecs == {"H264", "HEVC", "VP9", "AV1"}

probe_capabilities(node, opts) ==
  LET p010 == "P010" \in node
      decodes == IF "NV12" \in node THEN node \cap Codecs ELSE {}
  IN [p010 |-> p010,
      profiles |-> UNION {ProfilesOf(k, p010, opts.experimental_profiles) : k \in decodes}]

\* The RT formats of a profile: getConfigAttributes, and createConfig's own.
rt_formats(profile) ==
  {"NV12"} \cup IF capabilities.p010 /\ profile \in TenBit THEN {"P010"} ELSE {}
-----------------------------------------------------------------------------
(* Surfaces and the sessions of contexts.                                  *)

NewSurface(fourcc) ==
  [fourcc |-> fourcc, owner |-> None, pending |-> FALSE, completed |-> FALSE,
   publish |-> "Direct", frame |-> None, stable |-> None,
   persistent_export |-> FALSE, acquired_handles |-> 0, picture |-> 0]

has_pixels(s) == object[s].completed /\ (object[s].frame # None \/ object[s].stable # None)

ensure_stable(r) == [r EXCEPT !.stable = IF @ = None THEN Blank(r.fourcc) ELSE @]

\* A stable buffer that the client gets: before the first completion it is what
\* every later picture is copied into.
Exported(r) == [ensure_stable(r) EXCEPT !.persistent_export = @ \/ ~r.completed]

\* Import is Copy here: either way the pixels land in the stable buffer.
publish_policy(s) ==
  CASE options.publish \in {"copy", "import"} -> "Copy"
    [] options.publish = "direct"            -> "Direct"
    [] OTHER -> IF object[s].persistent_export THEN "Copy" ELSE "Direct"

owner_of(s) == IF object[s].owner \in DOMAIN contexts THEN object[s].owner ELSE None

Released(r) ==
  [r EXCEPT !.pending = FALSE, !.frame = None, !.completed = FALSE]

\* Session::release of s's target in context c; None is no session.
Forgotten(s, c) ==
  IF c = None THEN contexts ELSE [contexts EXCEPT ![c].pending = @ \ {s}]

\* The session of c publishes s's picture, or loses it.  A copy into a buffer
\* of another format throws, and the picture is lost.
Published(s, c) ==
  LET r == object[s]
      pixels == [fourcc |-> contexts[c].fourcc, picture |-> r.picture]
  IN [r EXCEPT !.pending = FALSE, !.completed = TRUE,
               !.frame  = IF r.publish = "Direct" THEN pixels ELSE None,
               !.stable = IF r.publish = "Direct" THEN @ ELSE pixels]
Lost(s) == [object[s] EXCEPT !.pending = FALSE]
Outcomes(s, c) ==
  {Lost(s)} \cup IF object[s].publish = "Direct" \/ contexts[c].fourcc = object[s].fourcc
                 THEN {Published(s, c)} ELSE {}

Idle == [at |-> "idle", s |-> None, image |-> None, doomed |-> <<>>, owners |-> <<>>]

\* Surfaces that a call is at work on.
InCall(s) == \E t \in Threads : thread[t].s = s \/ s \in Range(thread[t].doomed)

\* Ids are unique; each kind has a counter of its own here.  n(kind) ids are taken.
Take(n) ==
  /\ next_id' = [k \in Kinds |-> next_id[k] + IF k \in DOMAIN n THEN n[k] ELSE 0]
  /\ \A k \in Kinds : next_id'[k] <= Limit[k] + 1
  /\ next_id'["surface"] + next_id'["buffer"] <= MaxTogether + 2
New(kind) == next_id[kind]

ObjectsInit ==
  /\ \E env \in Environments : options = from_environment(env)
  /\ \E node \in Nodes : capabilities = probe_capabilities(node, options)
  /\ next_id = [k \in Kinds |-> 1] /\ configs = <<>> /\ contexts = <<>> /\ surfaces = {}
  /\ buffers = <<>> /\ images = <<>> /\ object = <<>>
  /\ pictures = 0 /\ refused = {}
  /\ thread = [t \in Threads |-> Idle] /\ answer = None
-----------------------------------------------------------------------------
(* Configs and contexts.                                                   *)

\* createConfig: a client that asks for RT formats gets them unchecked, as long
\* as one of them is known.
createConfig(profile, asked) ==
  /\ profile \in capabilities.profiles /\ Take([config |-> 1])
  /\ LET rt_format == IF asked = {} THEN rt_formats(profile) ELSE asked
     IN configs' = Added(configs, {New("config")}, [profile |-> profile, rt_format |-> rt_format])
  /\ UNCHANGED <<contexts, surfaces, buffers, images, object, pictures, thread>>

destroyConfig(g) ==
  /\ g \in DOMAIN configs /\ configs' = Without(configs, {g})
  /\ UNCHANGED <<next_id, contexts, surfaces, buffers, images, object, pictures, thread>>

\* createContext: the render targets that belong to nobody become its own.  A
\* ten-bit config starts a ten-bit session.
createContext(g, targets) ==
  /\ g \in DOMAIN configs /\ Take([context |-> 1])
  /\ contexts' = Added(contexts, {New("context")},
       [fourcc |-> IF "P010" \in configs[g].rt_format THEN "P010" ELSE "NV12",
        streaming |-> FALSE, pending |-> {}])
  /\ object' = [s \in DOMAIN object |->
       IF s \in targets \cap surfaces /\ object[s].owner = None
       THEN [object[s] EXCEPT !.owner = New("context")] ELSE object[s]]
  /\ UNCHANGED <<configs, surfaces, buffers, images, pictures, thread>>

\* finish() settles what it can, what else is pending of its surfaces is
\* released, and all of them are disowned.
DestroyContext(c, objects, result) ==
  [s \in DOMAIN objects |->
     IF s \in DOMAIN result THEN [result[s] EXCEPT !.owner = IF @ = c THEN None ELSE @]
     ELSE IF objects[s].owner = c /\ s \in surfaces
          THEN [(IF objects[s].pending THEN Released(objects[s]) ELSE objects[s])
                  EXCEPT !.owner = None]
          ELSE objects[s]]
destroyContext(c) ==
  /\ c \in DOMAIN contexts
  /\ \E settled \in SUBSET contexts[c].pending :
       \E result \in [settled -> UNION {Outcomes(s, c) : s \in settled}] :
         /\ \A s \in settled : result[s] \in Outcomes(s, c)
         /\ object' = DestroyContext(c, object, result)
  /\ contexts' = Without(contexts, {c})
  /\ UNCHANGED <<next_id, configs, surfaces, buffers, images, pictures, thread>>
-----------------------------------------------------------------------------
(* Surfaces.                                                               *)

createSurfaces2(fourcc, count) ==
  /\ Take([surface |-> count])
  /\ LET ids == New("surface") .. New("surface") + count - 1 IN
       /\ surfaces' = surfaces \cup ids
       /\ object' = Added(object, ids, NewSurface(fourcc))
  /\ UNCHANGED <<configs, contexts, buffers, images, pictures, thread>>

\* beginPicture .. endPicture: a surface that moves is released by its owner,
\* then by c; the first submitted picture fixes the session's format.
Submitted(s, session) ==
  [session EXCEPT !.pending = @ \cup {s}, !.streaming = TRUE,
                  !.fourcc = IF session.streaming THEN @ ELSE object[s].fourcc]
Decode(c, s) ==
  /\ c \in DOMAIN contexts /\ s \in surfaces /\ ~InCall(s)
  /\ pictures < MaxPictures /\ pictures' = pictures + 1
  /\ LET p == publish_policy(s)
         r == [Released(object[s]) EXCEPT !.owner = c, !.publish = p,
                 !.pending = TRUE, !.picture = pictures + 1]
     IN object' = [object EXCEPT ![s] = IF p = "Copy" THEN ensure_stable(r) ELSE r]
  /\ contexts' = [Forgotten(s, owner_of(s)) EXCEPT ![c] = Submitted(s, @)]
  /\ UNCHANGED <<next_id, configs, surfaces, buffers, images, thread>>

\* Any call into the session of c, among them querySurfaceStatus.
Complete(c) ==
  /\ c \in DOMAIN contexts
  /\ \E s \in contexts[c].pending : \E r \in Outcomes(s, c) :
       /\ object' = [object EXCEPT ![s] = r]
       /\ contexts' = Forgotten(s, c)
  /\ UNCHANGED <<next_id, configs, surfaces, buffers, images, pictures, thread>>

\* destroySurfaces: under the mutex the surfaces leave the table one by one, up
\* to the first with an acquired handle, which makes the call throw.
Busy(list) == {i \in DOMAIN list : list[i] \in surfaces
                                   /\ object[list[i]].acquired_handles # 0}
InOrder(K) == {p \in [1 .. Cardinality(K) -> K] :
                 Range(p) = K /\ \A i, j \in DOMAIN p : i < j => p[i] < p[j]}
Known(list) == InOrder({i \in DOMAIN list : list[i] \in surfaces})
Doom(t, doomed) ==
  thread' = [thread EXCEPT ![t] =
    [@ EXCEPT !.at = "destroy", !.doomed = doomed,
              !.owners = [i \in DOMAIN doomed |-> owner_of(doomed[i])]]]
X_destroySurfaces(t, list) ==
  /\ thread[t].at = "idle" /\ \A s \in Range(list) : ~InCall(s)
  /\ \E k \in Known(list) : Doom(t, [i \in DOMAIN k |-> list[k[i]]])
  /\ surfaces' = surfaces \ Range(list)
  /\ UNCHANGED <<refused, next_id, configs, contexts, buffers, images, object, pictures>>
destroySurfaces(t, list) ==
  /\ thread[t].at = "idle" /\ \A s \in Range(list) : ~InCall(s)
  /\ IF Busy(list) # {}
     THEN /\ \E first \in Busy(list) :
               /\ \A i \in Busy(list) : first <= i
               /\ surfaces' = surfaces \ {list[i] : i \in 1 .. first - 1}
          /\ refused' = refused \cup (surfaces \ surfaces')
          /\ UNCHANGED thread
     ELSE /\ \E k \in Known(list) : Doom(t, [i \in DOMAIN k |-> list[k[i]]])
          /\ surfaces' = surfaces \ Range(list)
          /\ UNCHANGED refused
  /\ UNCHANGED <<next_id, configs, contexts, buffers, images, object, pictures>>

\* After it, each is released by the session found with it.
X_Release(t) ==
  /\ thread[t].at = "destroy"
  /\ IF thread[t].doomed = <<>>
     THEN thread' = [thread EXCEPT ![t] = Idle] /\ UNCHANGED <<object, contexts>>
     ELSE LET s == Head(thread[t].doomed)
              c == Head(thread[t].owners)
          IN /\ object' = Without(object, {s})
             /\ UNCHANGED contexts
             /\ thread' = [thread EXCEPT ![t].doomed = Tail(@), ![t].owners = Tail(@)]
  /\ UNCHANGED <<next_id, configs, surfaces, buffers, images, pictures>>
Release(t) ==
  /\ thread[t].at = "destroy"
  /\ IF thread[t].doomed = <<>>
     THEN thread' = [thread EXCEPT ![t] = Idle] /\ UNCHANGED <<object, contexts>>
     ELSE LET s == Head(thread[t].doomed)
              c == Head(thread[t].owners)
              there == IF c \in DOMAIN contexts THEN c ELSE None
          IN /\ object' = Without(object, {s})
             /\ contexts' = Forgotten(s, there)
             /\ thread' = [thread EXCEPT ![t].doomed = Tail(@), ![t].owners = Tail(@)]
  /\ UNCHANGED <<next_id, configs, surfaces, buffers, images, pictures>>

\* exportSurfaceHandle of a surface that is not rendering.
exportSurfaceHandle(s) ==
  /\ s \in surfaces /\ ~object[s].pending
  /\ object' = [object EXCEPT ![s] =
       IF @.frame # None THEN @ ELSE Exported(@)]
  /\ UNCHANGED <<next_id, tables, pictures, thread>>
-----------------------------------------------------------------------------
(* Images and buffers.                                                     *)

NewBuffer(type) == [type |-> type, derived |-> None, fd |-> "none"]

\* A table with one more image and its buffer: the buffer's id comes first.
NewImage(fourcc) == [fourcc |-> fourcc, buf |-> New("buffer")]

createBuffer ==
  /\ Take([buffer |-> 1])
  /\ buffers' = Added(buffers, {New("buffer")}, NewBuffer("data"))
  /\ UNCHANGED <<configs, contexts, surfaces, images, object, pictures, thread>>

createImage(fourcc) ==
  /\ Take([buffer |-> 1, image |-> 1])
  /\ buffers' = Added(buffers, {New("buffer")}, NewBuffer("image"))
  /\ images' = Added(images, {New("image")}, NewImage(fourcc))
  /\ UNCHANGED <<configs, contexts, surfaces, object, pictures, thread>>

\* destroyBuffer closes an acquired fd; the surface's count is not told.
destroyBuffer(b) ==
  /\ b \in DOMAIN buffers /\ buffers' = Without(buffers, {b})
  /\ UNCHANGED <<next_id, configs, contexts, surfaces, images, object, pictures, thread>>

Less(n) == IF n > 0 THEN n - 1 ELSE n

\* destroyImage, with its buffer if that is still there.
destroyImage(i) ==
  /\ i \in DOMAIN images /\ images' = Without(images, {i})
  /\ \A t \in Threads : thread[t].image # i
  /\ buffers' = Without(buffers, {images[i].buf})
  /\ UNCHANGED <<next_id, configs, contexts, surfaces, object, pictures, thread>>

\* deriveImage and getImage take what they need under the mutex.
deriveImage(t, s) ==
  /\ thread[t].at = "idle" /\ s \in surfaces /\ ~InCall(s)
  /\ thread' = [thread EXCEPT ![t] = [@ EXCEPT !.at = "sync", !.s = s]]
  /\ UNCHANGED <<next_id, tables, object, pictures>>
getImage(t, s, i) ==
  /\ thread[t].at = "idle" /\ s \in surfaces /\ ~InCall(s)
  /\ i \in DOMAIN images /\ images[i].buf \in DOMAIN buffers
  /\ thread' = [thread EXCEPT ![t] = [@ EXCEPT !.at = "sync", !.s = s, !.image = i]]
  /\ UNCHANGED <<next_id, tables, object, pictures>>

\* The sync of a surface that is rendering, whose answer is ignored: its session
\* publishes it, or it fails, as does a wait that expires.
Sync(t) ==
  /\ thread[t].at = "sync"
  /\ LET s == thread[t].s
         c == owner_of(s)
     IN IF object[s].pending /\ c # None
        THEN /\ \E r \in Outcomes(s, c) : object' = [object EXCEPT ![s] = r]
             /\ contexts' = Forgotten(s, c)
        ELSE UNCHANGED <<object, contexts>>
  /\ thread' = [thread EXCEPT ![t].at = IF @ = "sync" /\ thread[t].image = None
                                        THEN "derive" ELSE "copy"]
  /\ UNCHANGED <<next_id, configs, surfaces, buffers, images, pictures>>

\* copy_pixels: the frame the surface holds comes before its stable buffer.
X_Source(s) == IF object[s].stable # None THEN object[s].stable ELSE object[s].frame
Source(s)   == IF object[s].frame # None THEN object[s].frame ELSE object[s].stable
copies(s, fourcc) == has_pixels(s) /\ Source(s).fourcc = fourcc

Returns(t, s, pixels) ==
  /\ thread' = [thread EXCEPT ![t] = Idle]
  /\ answer' = [s |-> s, pixels |-> pixels]
Throws(t) == thread' = [thread EXCEPT ![t] = Idle] /\ answer' = None

\* The rest of deriveImage: an image and its buffer, bound to the surface if the
\* id is still known, filled with its pixels or with zeros.  When the copy
\* throws they stay in the tables.
Derive(t) ==
  /\ thread[t].at = "derive" /\ Take([buffer |-> 1, image |-> 1])
  /\ LET s == thread[t].s
         f == object[s].fourcc
         pixels == IF copies(s, f) THEN Source(s) ELSE Blank(f)
     IN /\ buffers' = Added(buffers, {New("buffer")}, [NewBuffer("image") EXCEPT !.derived = s])
        /\ images' = Added(images, {New("image")}, NewImage(f))
        /\ IF has_pixels(s) /\ ~copies(s, f) THEN Throws(t) ELSE Returns(t, s, pixels)
  /\ UNCHANGED <<configs, contexts, surfaces, object, pictures>>

\* The rest of getImage.
Copy(t) ==
  /\ thread[t].at = "copy"
  /\ LET s == thread[t].s
         i == thread[t].image
     IN IF copies(s, images[i].fourcc)
        THEN Returns(t, s, Source(s))
        ELSE Throws(t)
  /\ UNCHANGED <<next_id, tables, object, pictures>>

\* acquireBufferHandle: the memory behind the surface an image was derived from;
\* the stable buffer, if the surface holds no frame.  An fd already there is
\* overwritten, and counted again.
acquireBufferHandle(b) ==
  /\ b \in DOMAIN buffers /\ buffers[b].type = "image" /\ buffers[b].derived \in surfaces
  /\ LET s == buffers[b].derived IN
       /\ object[s].acquired_handles < MaxHandles
       /\ IF object[s].frame # None
          THEN /\ buffers' = [buffers EXCEPT ![b].fd = "frame"]
               /\ object' = [object EXCEPT ![s].acquired_handles = @ + 1]
          ELSE /\ buffers' = [buffers EXCEPT ![b].fd = "stable"]
               /\ object' = [object EXCEPT ![s] =
                    [Exported(@) EXCEPT !.acquired_handles = object[s].acquired_handles + 1]]
  /\ UNCHANGED <<next_id, configs, contexts, surfaces, images, pictures, thread>>

releaseBufferHandle(b) ==
  /\ b \in DOMAIN buffers /\ buffers[b].fd # "none"
  /\ buffers' = [buffers EXCEPT ![b].fd = "none"]
  /\ object' = IF buffers[b].derived \in surfaces
               THEN [object EXCEPT ![buffers[b].derived].acquired_handles = Less(@)]
               ELSE object
  /\ UNCHANGED <<next_id, configs, contexts, surfaces, images, pictures, thread>>
-----------------------------------------------------------------------------
\* terminate, when no call is under way: the contexts are destroyed one after
\* the other, then the tables are cleared and the driver is gone.
terminate ==
  /\ \A t \in Threads : thread[t].at = "idle"
  /\ contexts' = <<>> /\ configs' = <<>> /\ images' = <<>> /\ buffers' = <<>> /\ surfaces' = {}
  /\ object' = <<>> /\ refused' = {}
  /\ next_id' = [k \in Kinds |-> Limit[k] + 1]
  /\ UNCHANGED <<pictures, thread>>

\* Entry points that hold the mutex, or one session's, from start to end.
Tables ==
  \/ \E p \in Profiles : \E asked \in Asked : createConfig(p, asked)
  \/ \E g \in DOMAIN configs : destroyConfig(g) \/ createContext(g, surfaces)
  \/ \E c \in DOMAIN contexts :
       destroyContext(c) \/ Complete(c) \/ \E s \in surfaces : Decode(c, s)
  \/ \E s \in surfaces : exportSurfaceHandle(s)
  \/ \E b \in DOMAIN buffers :
       destroyBuffer(b) \/ acquireBufferHandle(b) \/ releaseBufferHandle(b)
  \/ \E i \in DOMAIN images : destroyImage(i)
  \/ \E f \in Formats : createImage(f)
  \/ \E f \in Fourccs : \E n \in 1 .. 2 : createSurfaces2(f, n)
  \/ createBuffer

Lists == LET S == DOMAIN object IN {<<s>> : s \in S} \cup {l \in S \X S : l[1] # l[2]}

ObjectsNext ==
  /\ UNCHANGED <<options, capabilities>>
  /\ \/ Tables /\ UNCHANGED refused /\ answer' = None
     \/ \E t \in Threads, l \in Lists : destroySurfaces(t, l) /\ answer' = None
     \/ terminate /\ answer' = None
     \/ \E t \in Threads :
          /\ \/ /\ answer' = None
                /\ \/ Release(t) \/ Sync(t)
                   \/ \E s \in surfaces : deriveImage(t, s)
                                          \/ \E i \in DOMAIN images : getImage(t, s, i)
             \/ Derive(t) \/ Copy(t)
          /\ UNCHANGED refused

ObjectsSpec == ObjectsInit /\ [][ObjectsNext]_objectsVars
-----------------------------------------------------------------------------
\* The handles that buffers hold of a surface are counted by it, so it stays in
\* the table as long as one of them is open, however images are destroyed and
\* handles acquired twice (buffer.cc:135, surface.cc:145).
OpenHandles(s) == {b \in DOMAIN buffers : buffers[b].derived = s /\ buffers[b].fd # "none"}
HandlePins ==
  /\ \A b \in DOMAIN buffers : buffers[b].fd # "none" => buffers[b].derived \in surfaces
  /\ \A s \in surfaces : Cardinality(OpenHandles(s)) <= object[s].acquired_handles

\* An image call that succeeds returns the picture last begun on the surface,
\* in the surface's own format; only deriveImage may return a blank one, and only
\* when that picture is not there (image.cc:52, 164).  Older pictures in the
\* stable buffer, a moved surface or a sync that failed do not show.
ImageIsPicture ==
  answer # None =>
    LET r == object[answer.s] IN
      \/ answer.pixels.picture = r.picture
      \/ answer.pixels = Blank(r.fourcc) /\ ~r.completed

\* A surface that has left the table is pending nowhere once its destruction has
\* returned, unless destroySurfaces threw in the middle of its list: then the
\* session keeps a pointer to a target that is gone (surface.cc:145).
DestroyedReleased ==
  \A c \in DOMAIN contexts : \A s \in contexts[c].pending :
    s \in surfaces \cup refused \/ \E t \in Threads : s \in Range(thread[t].doomed)

\* Acquiring a handle marks the surface persistent "like an export does"
\* (buffer.cc:101), and every later completion is copied into the buffer the
\* client has (surface.cc:265): it is never published as a CAPTURE slot.
HandlePixels ==
  options.publish = "auto" =>
    \A s \in surfaces :
      object[s].persistent_export /\ object[s].completed => object[s].frame = None
=============================================================================
