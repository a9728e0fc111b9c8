------------------------------ MODULE VaProofs ------------------------------
(***************************************************************************)
(* What no interleaving of a client's threads breaks: a target is pending  *)
(* in the session of the context that owns its surface and in no other, a  *)
(* session never points into a surface that is gone, an exported surface   *)
(* goes on showing its picture, and a sync that waited tells the truth.    *)
(*                                                                         *)
(* The entry points look at a surface under Driver::mutex and act on it    *)
(* without it, so the argument is about what a call may still rely on when *)
(* it goes on: Fits says, for each place a call can be at, what the other  *)
(* threads cannot have changed.                                            *)
(***************************************************************************)
EXTENDS VaDriver, FiniteSetTheorems, TLAPS

Deciding == {"begin", "policy", "submit"}
Looking == {"check", "recheck", "wait", "export"}
Leaving == {"policy", "submit", "finish", "erase", "disown"}

Surface ==
  [owner: Contexts \cup {None}, failed: BOOLEAN, persistent_export: BOOLEAN,
   publish: Publish, frame: BOOLEAN, pending: BOOLEAN, completed: BOOLEAN,
   error: BOOLEAN, picture: Pictures]
Context ==
  [session: {"none", "open", "finished", "failed"},
   current: Surfaces \cup {None}, held: Surfaces \cup {None}]
Thread ==
  [at: {"idle", "destroy"} \cup Deciding \cup Looking \cup Leaving,
   entry: {"none", "sync", "export", "destroySurfaces"} \cup Decoding,
   s: Surfaces \cup {None}, c: Contexts \cup {None}, owned: SUBSET Surfaces]

VaTypeOK ==
  /\ surfaces \subseteq Surfaces /\ contexts \subseteq Contexts
  /\ surface \in [Surfaces -> Surface] /\ context \in [Contexts -> Context]
  /\ pending \in [Contexts -> SUBSET Surfaces] /\ thread \in [Threads -> Thread]

\* The entry point a thread is in goes with its place there.
Placed(r) ==
  /\ r.at = "idle" => r = Idle
  /\ r.at = "begin" => r.entry = "beginPicture"
  /\ r.at \in {"policy", "submit"} => r.entry \in {"endPicture", "destroyContext"}
  /\ r.at \in {"finish", "erase", "disown"} => r.entry = "destroyContext"
  /\ r.at = "destroy" => r.entry = "destroySurfaces"
  /\ r.at \in Looking => r.entry \in {"sync", "export"}
  /\ r.at = "export" => r.entry = "export"
  /\ r.entry \in Decoding => r.c # None
  /\ r.at \in Deciding \cup Looking \cup {"destroy"} => r.s # None
  /\ r.owned # {} => r.entry = "destroyContext"

\* It decodes with a surface that belongs to its context.
Begun(r) == r.at = "begin" => r.c \in contexts /\ context[r.c].current = r.s
Submitting(r) == r.at \in {"policy", "submit"} =>
  /\ r.c \in contexts /\ r.s \in surfaces
  /\ surface[r.s].owner = r.c /\ ~surface[r.s].pending
  /\ context[r.c].current # r.s /\ context[r.c].held # r.s

\* A destroyContext has all the surfaces of its context, and nothing else.
Owning(r) == r.entry = "destroyContext" =>
  /\ context[r.c].session # "none"
  /\ context[r.c].current = None /\ context[r.c].held = None
  /\ r.at # "disown" => r.c \in contexts
  /\ \A s \in Surfaces : s \in r.owned <=> s \in surfaces /\ surface[s].owner = r.c

\* A destroySurfaces has taken its surface from the context that owned it.
Destroying(r) == r.at = "destroy" => r.s \notin surfaces /\ surface[r.s].owner = r.c

\* A call that looks at a surface keeps it in the table.  If the surface has lost
\* the owner the call saw, its picture is no longer pending there; and nobody
\* decodes into a surface that is waited for or exported.
Settling(s) ==
  surface[s].pending \/ surface[s].error \/ surface[s].picture \in {"published", "dropped"}
LooksAt(r) == r.at \in Looking =>
  /\ r.s \in surfaces /\ ~BeingReused(r.s)
  /\ surface[r.s].owner # r.c => ~InDecode(r.s) /\ (r.c # None => ~surface[r.s].pending)
  /\ r.at = "wait" => r.c # None /\ ~InDecode(r.s) /\ Settling(r.s)
  /\ r.entry = "export" => ~InDecode(r.s)
  /\ r.at = "export" => ~surface[r.s].pending

Fits(r) ==
  Placed(r) /\ Begun(r) /\ Submitting(r) /\ Owning(r) /\ Destroying(r) /\ LooksAt(r)
Calls == \A t \in Threads : Fits(thread[t])

\* One thread at a time decodes with a context, and one destroys a surface.
OneDecodes == \A t, u \in Threads :
  thread[t].entry \in Decoding /\ thread[u].entry \in Decoding /\ thread[t].c = thread[u].c
    => t = u
OneDestroys == \A t, u \in Threads :
  thread[t].at = "destroy" /\ thread[u].at = "destroy" /\ thread[t].s = thread[u].s => t = u

\* The two records of what is pending agree, and the session is the owner's.
Targets ==
  \A s \in Surfaces :
    /\ \A c \in Contexts : s \in pending[c] <=> surface[s].pending /\ surface[s].owner = c
    /\ surface[s].pending => surface[s].owner # None

\* An owner is in the table, or its surface is on its way out of one of them.
Owned(s) == surface[s].owner # None =>
  \/ s \in surfaces /\ surface[s].owner \in contexts
  \/ \E t \in Threads : thread[t].at = "disown" /\ s \in thread[t].owned
  \/ \E t \in Threads : thread[t].at = "destroy" /\ thread[t].s = s
Owners == \A s \in Surfaces : Owned(s)

\* The pictures a context is at: the one between vaBeginPicture and vaEndPicture,
\* which was pending at most before Reuse, and the one a translator holds back.
Current(c) ==
  LET s == context[c].current IN
    s # None =>
      /\ c \in contexts /\ s \in surfaces /\ surface[s].owner = c
      /\ surface[s].pending =>
           \E t \in Threads : thread[t].at = "begin" /\ thread[t].s = s
Holding(c) ==
  LET h == context[c].held IN
    h # None =>
      /\ c \in contexts /\ h # context[c].current /\ ~surface[h].pending
      /\ h \in surfaces => surface[h].owner = c
Opened(c) == c \in contexts => context[c].session # "none"
Contents == \A c \in Contexts : Opened(c) /\ Current(c) /\ Holding(c)

\* Nothing decodes Direct into a surface that a client has imported.
Persists(s) == surface[s].persistent_export =>
  /\ surface[s].pending => surface[s].publish # "Direct"
  /\ surface[s].completed => ~surface[s].frame
Persistent ==
  /\ \A s \in Surfaces : Persists(s)
  /\ \A t \in Threads :
       thread[t].at = "submit" /\ surface[thread[t].s].persistent_export
         => surface[thread[t].s].publish # "Direct"

VaInv ==
  /\ VaTypeOK /\ Calls /\ OneDecodes /\ OneDestroys /\ Targets /\ Owners /\ Contents
  /\ Persistent
-----------------------------------------------------------------------------
(* What a step leaves of the records.                                      *)

\* None names no surface and no context.
LEMMA Apart == None \notin Surfaces /\ None \notin Contexts
BY VaAssumption

\* What a thread is at is there.
LEMMA InHand ==
  ASSUME NEW r \in Thread, Placed(r)
  PROVE  /\ r.at \in Deciding \cup Looking \cup {"destroy"} => r.s \in Surfaces
         /\ r.at \in Deciding \cup Leaving => r.entry \in Decoding
         /\ r.entry \in Decoding => r.c \in Contexts
BY DEF Placed, Thread, Deciding, Leaving, Decoding

\* A thread that does nothing fits in any state.
LEMMA AtRest ==
  /\ Idle \in Thread /\ Fits(Idle)
  /\ Idle.at = "idle" /\ Idle.entry = "none" /\ Idle.s = None /\ Idle.c = None
  /\ Idle.owned = {}
BY DEF Idle, Thread, Fits, Placed, Begun, Submitting, Owning, Destroying, LooksAt, Deciding,
       Looking, Leaving, Decoding

\* A thread that enters an entry point.
LEMMA Enters ==
  ASSUME NEW entry, NEW place, NEW s, NEW c
  PROVE  LET r == In(entry, place, s, c) IN
           r.entry = entry /\ r.at = place /\ r.s = s /\ r.c = c /\ r.owned = {}
BY DEF In, Idle

\* A thread that goes on in the entry point it is in.
LEMMA GoesOn ==
  ASSUME NEW r \in Thread, NEW place
  PROVE  LET m == [r EXCEPT !.at = place] IN
           /\ m.entry = r.entry /\ m.at = place /\ m.s = r.s /\ m.c = r.c
           /\ m.owned = r.owned
BY DEF Thread

\* A released target.
LEMMA Release ==
  ASSUME NEW r \in Surface
  PROVE  LET m == Released(r) IN
           /\ m \in Surface /\ m.owner = r.owner /\ ~m.pending /\ ~m.frame /\ ~m.completed
           /\ m.persistent_export = r.persistent_export /\ m.picture = r.picture
BY DEF Released, Surface

\* A picture that settles.
LEMMA SettleOne ==
  ASSUME NEW r \in Surface, NEW result \in {"published", "lost"}
  PROVE  LET m == Settled(r, result) IN
           /\ m \in Surface /\ m.owner = r.owner /\ ~m.pending
           /\ m.persistent_export = r.persistent_export /\ m.publish = r.publish
           /\ m.error \/ m.picture = "published"
           /\ m.completed /\ m.frame => (r.completed /\ r.frame) \/ r.publish = "Direct"
BY DEF Settled, Surface, Pictures

-----------------------------------------------------------------------------
(* Steps that leave every surface with its owner.                          *)

\* The tables stay, contexts keep what they are at, and targets only leave the
\* sessions.
Steady ==
  /\ surfaces' = surfaces /\ contexts' = contexts
  /\ context' \in [Contexts -> Context] /\ surface' \in [Surfaces -> Surface]
  /\ pending' \in [Contexts -> SUBSET Surfaces]
  /\ \A c \in Contexts :
       /\ context'[c].current = context[c].current /\ context'[c].held = context[c].held
       /\ context[c].session # "none" => context'[c].session # "none"
       /\ \A s \in Surfaces : s \in pending'[c] <=> s \in pending[c] /\ surface'[s].pending
  /\ \A s \in Surfaces :
       /\ surface'[s].owner = surface[s].owner
       /\ surface'[s].pending => surface[s].pending
       /\ Settling(s) => Settling(s)' \/ InDecode(s)

\* A call goes on to r, or ends, without a new surface or context in its hands.
Follows(p, r) ==
  /\ r.entry \in Decoding => p.entry \in Decoding /\ r.c = p.c
  /\ r.at \in Deciding => p.at \in Deciding /\ r.s = p.s
  /\ r.at = "begin" \/ r.at = "destroy" \/ p.at = "destroy" => r.at = p.at /\ r.s = p.s
  /\ p.at = "disown" /\ p.owned # {} => r.at = "disown" /\ r.owned = p.owned

\* Nobody has more surfaces in hand than before.
NoMoreInHand == \A x \in Surfaces :
  (InDecode(x)' => InDecode(x)) /\ (BeingReused(x)' => BeingReused(x))

\* A call that only goes on takes nothing into its hands.
LEMMA StillInHand ==
  ASSUME VaTypeOK, Calls, NEW t \in Threads, NEW r \in Thread, Follows(thread[t], r),
         thread' = [thread EXCEPT ![t] = r],
         \A c \in Contexts :
           context'[c].current = context[c].current /\ context'[c].held = context[c].held
  PROVE  NoMoreInHand
<1>1. \A u \in Threads : thread'[u] = IF u = t THEN r ELSE thread[u]
  BY DEF VaTypeOK
<1>2. SUFFICES ASSUME NEW x \in Surfaces
               PROVE  (InDecode(x)' => InDecode(x)) /\ (BeingReused(x)' => BeingReused(x))
  BY DEF NoMoreInHand
<1>3. BeingReused(x)' => BeingReused(x)
  BY <1>1 DEF BeingReused, Follows
<1>4. InDecode(x)' => InDecode(x)
  BY <1>1 DEF InDecode, Follows, Deciding
<1> QED BY <1>3, <1>4

\* What a call relies on still holds.
LEMMA FitsOn ==
  ASSUME VaTypeOK, Targets, Steady, NoMoreInHand, NEW r \in Thread, Fits(r)
  PROVE  Fits(r)'
<1>1. /\ r.at \in Deciding \cup Looking \cup {"destroy"} => r.s \in Surfaces
      /\ r.at \in Deciding \cup Leaving => r.entry \in Decoding
      /\ r.entry \in Decoding => r.c \in Contexts
  BY InHand DEF Fits
<1>2. Placed(r)'
  BY DEF Fits, Placed
<1>3. Begun(r)'
  BY <1>1 DEF Fits, Begun, Steady, Deciding
<1>4. Submitting(r)'
  BY <1>1 DEF Fits, Submitting, Steady, Deciding
<1>5. Owning(r)'
  BY <1>1 DEF Fits, Owning, Steady, Decoding
<1>6. Destroying(r)'
  BY <1>1 DEF Fits, Destroying, Steady
<1>7. LooksAt(r)'
  BY <1>1 DEF Fits, LooksAt, Steady, NoMoreInHand
<1> QED BY <1>2, <1>3, <1>4, <1>5, <1>6, <1>7 DEF Fits

\* So a steady step keeps the invariant.
LEMMA SteadyKeeps ==
  ASSUME VaInv, Steady, NEW t \in Threads, NEW r \in Thread, Fits(r), Follows(thread[t], r),
         thread' = [thread EXCEPT ![t] = r],
         thread[t].at = "begin" => r.at = "begin" \/ ~surface'[thread[t].s].pending,
         Persistent'
  PROVE  VaInv'
<1>1. /\ thread' \in [Threads -> Thread]
      /\ \A u \in Threads : thread'[u] = IF u = t THEN r ELSE thread[u]
  BY DEF VaInv, VaTypeOK
<1>2. NoMoreInHand
  BY StillInHand DEF VaInv, Steady
<1>3. VaTypeOK'
  BY <1>1 DEF VaInv, VaTypeOK, Steady
<1>4. Calls'
  <2>1. \A u \in Threads : Fits(thread[u])
    BY DEF VaInv, Calls
  <2>2. \A p \in Thread : Fits(p) => Fits(p)'
    BY <1>2, FitsOn DEF VaInv
  <2>3. \A u \in Threads : thread[u] \in Thread
    BY DEF VaInv, VaTypeOK
  <2> QED BY <1>1, <2>1, <2>2, <2>3 DEF Calls
<1>5. OneDecodes'
  BY <1>1 DEF VaInv, OneDecodes, Follows
<1>6. OneDestroys'
  BY <1>1 DEF VaInv, OneDestroys, Follows
<1>7. Targets'
  BY DEF VaInv, Targets, Steady
<1>8. Owners'
  <2> SUFFICES ASSUME NEW s \in Surfaces, surface[s].owner # None
               PROVE  Owned(s)'
    BY DEF Owners, Owned, Steady
  <2>1. Owned(s)
    BY DEF VaInv, Owners
  <2> QED BY <1>1, <2>1 DEF Owned, Steady, Follows
<1>9. Contents'
  <2> SUFFICES ASSUME NEW c \in Contexts
               PROVE  Opened(c)' /\ Current(c)' /\ Holding(c)'
    BY DEF Contents
  <2>1. Opened(c) /\ Current(c) /\ Holding(c)
    BY DEF VaInv, Contents
  <2>2. Opened(c)'
    BY <2>1 DEF Opened, Steady
  <2>3. context[c] \in Context
    BY DEF VaInv, VaTypeOK
  <2>4. Current(c)'
    BY <1>1, <2>1, <2>3 DEF Current, Steady, Context, Follows
  <2>5. Holding(c)'
    BY <2>1, <2>3 DEF Holding, Steady, Context
  <2> QED BY <2>2, <2>4, <2>5
<1> QED BY <1>3, <1>4, <1>5, <1>6, <1>7, <1>8, <1>9 DEF VaInv

\* A target that is released or settles, or keeps what it has: nothing is exported
\* and no policy chosen.
Quietly(p, m) ==
  /\ m \in Surface /\ m.owner = p.owner /\ m.publish = p.publish
  /\ m.persistent_export = p.persistent_export
  /\ m.pending => p.pending
  /\ m.completed /\ m.frame =>
       (p.completed /\ p.frame) \/ (p.pending /\ p.publish = "Direct")
NoExport == \A s \in Surfaces : Quietly(surface[s], surface'[s])

\* Then nothing that was exported is decoded Direct.
LEMMA QuietlyPersists ==
  ASSUME VaTypeOK, Calls, Persistent, NoExport,
         \A u \in Threads : thread'[u].at = "submit" => thread'[u] = thread[u]
  PROVE  Persistent'
<1>1. \A u \in Threads : thread[u].at = "submit" => thread[u].s \in Surfaces
  BY InHand DEF VaTypeOK, Calls, Fits, Deciding
<1>2. ASSUME NEW s \in Surfaces
      PROVE  Persists(s)'
  BY DEF Persistent, Persists, NoExport, Quietly
<1>3. ASSUME NEW u \in Threads, thread'[u].at = "submit",
             surface'[thread'[u].s].persistent_export
      PROVE  surface'[thread'[u].s].publish # "Direct"
  BY <1>1, <1>3 DEF Persistent, NoExport, Quietly
<1> QED BY <1>2, <1>3 DEF Persistent

\* Such a step, of a call that goes on to r.
LEMMA QuietlyKeeps ==
  ASSUME VaInv, Steady, NoExport, NEW t \in Threads, NEW r \in Thread, Fits(r),
         Follows(thread[t], r), thread' = [thread EXCEPT ![t] = r], r.at # "submit",
         thread[t].at = "begin" => ~surface'[thread[t].s].pending
  PROVE  VaInv'
<1>1. \A u \in Threads : thread'[u].at = "submit" => thread'[u] = thread[u]
  BY DEF VaInv, VaTypeOK
<1>2. Persistent'
  BY <1>1, QuietlyPersists DEF VaInv
<1> QED BY <1>2, SteadyKeeps

\* Such a step, of a call that stays where it is.
LEMMA QuietlyStays ==
  ASSUME VaInv, Steady, NoExport, NEW t \in Threads, thread' = thread
  PROVE  VaInv'
<1>1. thread[t] \in Thread /\ Fits(thread[t]) /\ thread' = [thread EXCEPT ![t] = thread[t]]
  BY DEF VaInv, VaTypeOK, Calls
<1>2. Follows(thread[t], thread[t])
  BY DEF Follows
<1>3. Persistent'
  BY QuietlyPersists DEF VaInv
<1> QED BY <1>1, <1>2, <1>3, SteadyKeeps

\* Pictures of one session settle.
SettlesIn(c) ==
  \E S \in SUBSET pending[c] : \E result \in [S -> {"published", "lost"}] : Settle(c, S, result)

\* Whatever becomes of the pictures that settle, their surfaces stay where they are.
LEMMA SettleSteady ==
  ASSUME VaTypeOK, Targets, NEW c \in Contexts, SettlesIn(c),
         surfaces' = surfaces, contexts' = contexts, context' \in [Contexts -> Context],
         \A d \in Contexts :
           /\ context'[d].current = context[d].current /\ context'[d].held = context[d].held
           /\ context[d].session # "none" => context'[d].session # "none"
  PROVE  Steady /\ NoExport
<1>1. PICK S \in SUBSET pending[c] : \E result \in [S -> {"published", "lost"}] :
                                        Settle(c, S, result)
  BY DEF SettlesIn
<1>2. PICK result \in [S -> {"published", "lost"}] : Settle(c, S, result)
  BY <1>1
<1>3. ASSUME NEW s \in Surfaces
      PROVE  /\ Quietly(surface[s], surface'[s])
             /\ surface'[s].pending <=> surface[s].pending /\ s \notin S
             /\ Settling(s) => Settling(s)'
  <2>1. surface[s] \in Surface
    BY DEF VaTypeOK
  <2>2. CASE s \in S
    <3>1. surface'[s] = Settled(surface[s], result[s])
      BY <1>2, <2>2 DEF Settle
    <3>2. result[s] \in {"published", "lost"}
      BY <1>2, <2>2
    <3>3. surface[s].pending
      BY <1>1, <2>2 DEF Targets
    <3>4. /\ surface'[s] \in Surface /\ surface'[s].owner = surface[s].owner
          /\ ~surface'[s].pending
          /\ surface'[s].persistent_export = surface[s].persistent_export
          /\ surface'[s].publish = surface[s].publish
          /\ surface'[s].error \/ surface'[s].picture = "published"
          /\ surface'[s].completed /\ surface'[s].frame =>
               (surface[s].completed /\ surface[s].frame) \/ surface[s].publish = "Direct"
      BY <2>1, <3>1, <3>2, SettleOne
    <3>5. Quietly(surface[s], surface'[s])
      BY <3>3, <3>4 DEF Quietly
    <3>6. Settling(s)'
      BY <3>4 DEF Settling
    <3> QED BY <2>2, <3>4, <3>5, <3>6
  <2>3. CASE s \notin S
    <3>1. surface'[s] = surface[s]
      BY <1>2, <2>3 DEF Settle
    <3>2. Quietly(surface[s], surface'[s])
      BY <2>1, <3>1 DEF Quietly
    <3>3. Settling(s) => Settling(s)'
      BY <3>1, Zenon DEF Settling
    <3> QED BY <2>3, <3>1, <3>2, <3>3
  <2> QED BY <2>2, <2>3
<1>4. /\ pending' \in [Contexts -> SUBSET Surfaces]
      /\ \A d \in Contexts : \A s \in Surfaces :
           s \in pending'[d] <=> s \in pending[d] /\ (d = c => s \notin S)
  BY <1>2 DEF Settle, VaTypeOK
<1>5. surface' \in [Surfaces -> Surface]
  <2>1. surface' = [s \in Surfaces |-> surface'[s]]
    BY <1>2 DEF Settle
  <2>2. \A s \in Surfaces : surface'[s] \in Surface
    BY <1>3 DEF Quietly
  <2> QED BY <2>1, <2>2
<1>6. \A d \in Contexts : \A s \in Surfaces :
        s \in pending'[d] <=> s \in pending[d] /\ surface'[s].pending
  BY <1>1, <1>3, <1>4 DEF Targets
<1>7. \A s \in Surfaces :
        /\ surface'[s].owner = surface[s].owner
        /\ surface'[s].pending => surface[s].pending
        /\ Settling(s) => Settling(s)' \/ InDecode(s)
  BY <1>3 DEF Quietly
<1>8. Steady
  BY <1>4, <1>5, <1>6, <1>7 DEF Steady
<1> QED BY <1>3, <1>8 DEF NoExport


\* A sync or an export that has its answer ends, or goes on to export a surface
\* whose picture has settled.
LEMMA AnswersFit ==
  ASSUME VaTypeOK, Calls, NEW t \in Threads, NEW status \in {"success", "error"},
         Answers(t, status), thread[t].at \in Looking,
         status = "success" => ~surface[thread[t].s].pending
  PROVE  \E r \in Thread : /\ Fits(r) /\ Follows(thread[t], r) /\ r.at \in {"idle", "export"}
                           /\ thread' = [thread EXCEPT ![t] = r]
<1> DEFINE p == thread[t]
           m == [p EXCEPT !.at = "export"]
<1>1. p \in Thread /\ Fits(p) /\ p.at \in Looking
  BY DEF VaTypeOK, Calls
<1>2. CASE status = "success" /\ p.entry = "export"
  <2>1. /\ m \in Thread /\ m.entry = p.entry /\ m.at = "export" /\ m.s = p.s /\ m.c = p.c
        /\ m.owned = p.owned
    BY <1>1 DEF Thread, Looking
  <2>2. thread' = [thread EXCEPT ![t] = m]
    BY <1>2 DEF Answers
  <2>3. ~surface[p.s].pending
    BY <1>2
  <2> HIDE DEF m, p
  <2>4. Placed(m)
    BY <1>1, <1>2, <2>1 DEF Fits, Placed, Looking, Deciding, Decoding
  <2>5. LooksAt(m)
    BY <1>1, <1>2, <2>1, <2>3 DEF Fits, LooksAt, Looking
  <2>6. Fits(m)
    BY <1>2, <2>1, <2>4, <2>5 DEF Fits, Begun, Submitting, Owning, Destroying
  <2>7. Follows(p, m)
    BY <1>1, <1>2, <2>1 DEF Follows, Decoding, Deciding, Looking
  <2> QED BY <2>1, <2>2, <2>6, <2>7 DEF p
<1>3. CASE ~(status = "success" /\ p.entry = "export")
  <2>1. thread' = [thread EXCEPT ![t] = Idle]
    BY <1>3 DEF Answers
  <2>2. Follows(p, Idle)
    BY <1>1, AtRest DEF Follows, Decoding, Deciding, Looking
  <2> QED BY <2>1, <2>2, AtRest
<1> QED BY <1>2, <1>3

\* A call that ends, and is not destroying a context's surfaces or its own, leaves
\* nothing in anybody's hands.
LEMMA EndsFit ==
  ASSUME NEW p \in Thread, p.at # "destroy", p.at # "disown" \/ p.owned = {}
  PROVE  Fits(Idle) /\ Follows(p, Idle)
BY AtRest DEF Follows, Decoding, Deciding

-----------------------------------------------------------------------------
(* The steps of the sessions.                                              *)

\* submit and wait drive the session.
LEMMA pumpKeeps ==
  ASSUME VaInv, NEW t \in Threads, pump(t)
  PROVE  VaInv'
<1>1. thread[t].c \in Contexts
  BY InHand DEF VaInv, VaTypeOK, Calls, Fits, LooksAt, Thread, pump, Looking, Leaving
<1>2. SettlesIn(thread[t].c)
  BY DEF pump, SettlesIn
<1>3. Steady /\ NoExport
  BY <1>1, <1>2, SettleSteady DEF VaInv, VaTypeOK, pump
<1> QED BY <1>3, QuietlyStays DEF pump

\* So does a client that polls.
LEMMA querySurfaceStatusKeeps ==
  ASSUME VaInv, NEW t \in Threads, NEW s \in Surfaces, querySurfaceStatus(t, s)
  PROVE  VaInv'
<1> DEFINE c == session_of(s)
<1>1. c \in Contexts
  BY Apart DEF VaInv, VaTypeOK, session_of, querySurfaceStatus
<1>2. surfaces' = surfaces /\ contexts' = contexts /\ thread' = thread
  BY DEF querySurfaceStatus
<1>3. context' = context \/ context' = [context EXCEPT ![c].session = "failed"]
  BY DEF querySurfaceStatus
<1>4. SettlesIn(c)
  <2>1. CASE \E S \in SUBSET pending[c] : \E result \in [S -> {"published", "lost"}] :
               Settle(c, S, result)
    BY <2>1 DEF SettlesIn
  <2>2. CASE Settle(c, pending[c], [x \in Surfaces |-> "lost"])
    <3> DEFINE lost == [x \in pending[c] |-> "lost"]
    <3>1. lost \in [pending[c] -> {"published", "lost"}]
      OBVIOUS
    <3>2. pending[c] \subseteq Surfaces
      BY <1>1 DEF VaInv, VaTypeOK
    <3>3. Settle(c, pending[c], lost)
      BY <2>2, <3>2 DEF Settle
    <3> QED BY <3>1, <3>3 DEF SettlesIn
  <2> QED BY <2>1, <2>2 DEF querySurfaceStatus
<1> HIDE DEF c
<1>5. /\ context' \in [Contexts -> Context]
      /\ \A d \in Contexts :
           /\ context'[d].current = context[d].current /\ context'[d].held = context[d].held
           /\ context[d].session # "none" => context'[d].session # "none"
  BY <1>1, <1>3 DEF VaInv, VaTypeOK, Context
<1>6. Steady /\ NoExport
  BY <1>1, <1>2, <1>4, <1>5, SettleSteady DEF VaInv
<1> QED BY <1>2, <1>6, QuietlyStays

\* destroyContext goes on from the place it is at.
LEMMA LeavesFit ==
  ASSUME NEW p \in Thread, Fits(p), p.entry = "destroyContext", p.at # "disown",
         NEW place \in {"finish", "erase"}, NEW r, r = [p EXCEPT !.at = place]
  PROVE  r \in Thread /\ Fits(r) /\ Follows(p, r) /\ r.at = place
<1>1. /\ r \in Thread /\ r.entry = p.entry /\ r.at = place /\ r.s = p.s /\ r.c = p.c
      /\ r.owned = p.owned
  BY DEF Thread, Leaving
<1>2. Fits(r)
  BY <1>1 DEF Fits, Placed, Begun, Submitting, Owning, Destroying, LooksAt, Deciding, Looking,
              Decoding
<1>3. Follows(p, r)
  BY <1>1 DEF Follows, Deciding, Fits, Placed
<1> QED BY <1>1, <1>2, <1>3

\* finish() drains the session; what it leaves stays pending there.
LEMMA FinishKeeps ==
  ASSUME VaInv, NEW t \in Threads, Finish(t)
  PROVE  VaInv'
<1> DEFINE c == thread[t].c
           r == [thread[t] EXCEPT !.at = "erase"]
<1>1. /\ thread[t] \in Thread /\ Fits(thread[t]) /\ thread[t].at = "finish"
      /\ thread[t].entry = "destroyContext" /\ c \in Contexts
  BY InHand DEF VaInv, VaTypeOK, Calls, Fits, Placed, Finish, Leaving
<1>2. PICK ended \in {"finished", "failed"} :
        context' = [context EXCEPT ![c].session = IF @ = "open" THEN ended ELSE @]
  BY DEF Finish
<1>3. SettlesIn(c)
  BY DEF SettlesIn, Finish
<1>4. surfaces' = surfaces /\ contexts' = contexts /\ thread' = [thread EXCEPT ![t] = r]
  BY DEF Finish
<1>5. r \in Thread /\ Fits(r) /\ Follows(thread[t], r) /\ r.at = "erase"
  BY <1>1, LeavesFit
<1> HIDE DEF c, r
<1>6. /\ context' \in [Contexts -> Context]
      /\ \A d \in Contexts :
           /\ context'[d].current = context[d].current /\ context'[d].held = context[d].held
           /\ context[d].session # "none" => context'[d].session # "none"
  BY <1>1, <1>2 DEF VaInv, VaTypeOK, Context
<1>7. Steady /\ NoExport
  BY <1>1, <1>3, <1>4, <1>6, SettleSteady DEF VaInv
<1> QED BY <1>1, <1>4, <1>5, <1>7, QuietlyKeeps

-----------------------------------------------------------------------------
(* Steps that touch one surface.                                           *)

\* The surface keeps its owner, and either its place in the map or none.
LEMMA OneSteady ==
  ASSUME VaTypeOK, Targets, NEW s \in Surfaces, NEW m \in Surface,
         surface' = [surface EXCEPT ![s] = m], m.owner = surface[s].owner,
         \/ pending' = pending /\ (m.pending <=> surface[s].pending)
         \/ /\ ~m.pending
            /\ \E c \in Contexts : /\ pending' = Forgotten(s, c)
                                   /\ surface[s].pending => surface[s].owner = c,
         \/ InDecode(s)
         \/ Settling(s) => m.pending \/ m.error \/ m.picture \in {"published", "dropped"},
         surfaces' = surfaces, contexts' = contexts, context' = context
  PROVE  Steady
<1>1. /\ surface' \in [Surfaces -> Surface]
      /\ \A x \in Surfaces : surface'[x] = IF x = s THEN m ELSE surface[x]
  BY DEF VaTypeOK
<1>2. m.pending => surface[s].pending
  OBVIOUS
<1>3. pending' \in [Contexts -> SUBSET Surfaces]
  BY DEF VaTypeOK, Forgotten
<1>4. \A d \in Contexts : \A x \in Surfaces :
        x \in pending'[d] <=> x \in pending[d] /\ surface'[x].pending
  <2>1. CASE pending' = pending /\ (m.pending <=> surface[s].pending)
    BY <1>1, <2>1 DEF Targets
  <2>2. ASSUME ~m.pending, NEW c \in Contexts, pending' = Forgotten(s, c),
               surface[s].pending => surface[s].owner = c
        PROVE  \A d \in Contexts : \A x \in Surfaces :
                 x \in pending'[d] <=> x \in pending[d] /\ surface'[x].pending
    <3>1. \A d \in Contexts : \A x \in Surfaces :
            x \in pending'[d] <=> x \in pending[d] /\ (d = c => x # s)
      BY <2>2 DEF Forgotten, VaTypeOK
    <3> QED BY <1>1, <2>2, <3>1 DEF Targets
  <2> QED BY <2>1, <2>2
<1>5. \A x \in Surfaces :
        /\ surface'[x].owner = surface[x].owner
        /\ surface'[x].pending => surface[x].pending
        /\ Settling(x) => Settling(x)' \/ InDecode(x)
  <2> TAKE x \in Surfaces
  <2>1. CASE x = s
    BY <1>1, <1>2, <2>1 DEF Settling
  <2>2. CASE x # s
    <3>1. surface'[x] = surface[x]
      BY <1>1, <2>2
    <3>2. Settling(x) => Settling(x)'
      BY <3>1, Zenon DEF Settling
    <3> QED BY <3>1, <3>2
  <2> QED BY <2>1, <2>2
<1>6. \A d \in Contexts :
        /\ context'[d].current = context[d].current /\ context'[d].held = context[d].held
        /\ context[d].session # "none" => context'[d].session # "none"
  OBVIOUS
<1>7. context' \in [Contexts -> Context]
  BY DEF VaTypeOK
<1> QED BY <1>1, <1>3, <1>4, <1>5, <1>6, <1>7 DEF Steady

\* If that surface changes quietly, nothing is exported.
LEMMA OneNoExport ==
  ASSUME VaTypeOK, NEW s \in Surfaces, NEW m, Quietly(surface[s], m),
         surface' = [surface EXCEPT ![s] = m]
  PROVE  NoExport
<1>1. \A x \in Surfaces : surface'[x] = IF x = s THEN m ELSE surface[x]
  BY DEF VaTypeOK
<1>2. \A x \in Surfaces : Quietly(surface[x], surface[x])
  BY DEF VaTypeOK, Quietly
<1> QED BY <1>1, <1>2 DEF NoExport

\* Nothing changes but where one thread is.
LEMMA NothingTouched ==
  ASSUME VaTypeOK, surfaces' = surfaces, contexts' = contexts, surface' = surface,
         context' = context, pending' = pending, Targets
  PROVE  Steady /\ NoExport
<1>1. \A x \in Surfaces : Quietly(surface[x], surface'[x])
  BY DEF VaTypeOK, Quietly
<1>2. \A x \in Surfaces : Settling(x) => Settling(x)'
  BY Zenon DEF Settling
<1> QED BY <1>1, <1>2 DEF Steady, NoExport, VaTypeOK, Targets

\* vaBeginPicture releases what its surface held.
LEMMA ReuseKeeps ==
  ASSUME VaInv, NEW t \in Threads, Reuse(t)
  PROVE  VaInv'
<1> DEFINE s == thread[t].s
           c == thread[t].c
           r == Released(surface[s])
           m == [r EXCEPT !.failed = FALSE, !.picture = "none"]
<1>1. /\ thread[t] \in Thread /\ Fits(thread[t]) /\ thread[t].at = "begin"
      /\ s \in Surfaces /\ c \in Contexts /\ surface[s] \in Surface
  BY InHand DEF VaInv, VaTypeOK, Calls, Fits, Reuse, Deciding
<1>2. surface[s].owner = c
  BY <1>1, Apart DEF Fits, Begun, VaInv, Contents, Current
<1>3. /\ r \in Surface /\ r.owner = c /\ ~r.pending /\ ~r.completed /\ ~r.frame
      /\ r.persistent_export = surface[s].persistent_export /\ r.publish = surface[s].publish
  BY <1>1, <1>2, Release DEF Released, Surface
<1>4. /\ surface' = [surface EXCEPT ![s] = m] /\ pending' = Forgotten(s, c)
      /\ thread' = [thread EXCEPT ![t] = Idle]
      /\ surfaces' = surfaces /\ contexts' = contexts /\ context' = context
  BY DEF Reuse
<1> HIDE DEF r
<1>5. /\ m \in Surface /\ m.owner = c /\ ~m.pending /\ ~m.completed /\ ~m.frame
      /\ m.persistent_export = surface[s].persistent_export /\ m.publish = surface[s].publish
  BY <1>3 DEF Surface, Pictures
<1>6. InDecode(s)
  BY <1>1 DEF InDecode
<1> HIDE DEF m, s, c
<1>7. Steady
  BY <1>1, <1>2, <1>4, <1>5, <1>6, OneSteady DEF VaInv
<1>8. NoExport
  <2>1. Quietly(surface[s], m)
    BY <1>2, <1>5 DEF Quietly
  <2> QED BY <1>1, <1>4, <2>1, OneNoExport DEF VaInv
<1>9. ~surface'[s].pending
  BY <1>1, <1>4, <1>5 DEF VaInv, VaTypeOK
<1> QED BY <1>1, <1>4, <1>7, <1>8, <1>9, EndsFit, AtRest, QuietlyKeeps DEF s

\* A surface that is in the hands of a decoding call or context, and not just being
\* begun, belongs to that context, and is not pending yet.
LEMMA HandsOwn ==
  ASSUME VaInv, NEW s \in surfaces, InDecode(s), ~BeingReused(s)
  PROVE  /\ surface[s].owner \in contexts /\ ~surface[s].pending
         /\ LET c == surface[s].owner IN
              \/ s \in {context[c].current, context[c].held}
              \/ \E u \in Threads : thread[u].at \in {"policy", "submit"} /\ thread[u].c = c
<1>1. s \in Surfaces
  BY DEF VaInv, VaTypeOK
<1>2. CASE \E u \in Threads : thread[u].at \in {"begin", "policy", "submit"} /\ thread[u].s = s
  <2>1. PICK u \in Threads : thread[u].at \in {"begin", "policy", "submit"} /\ thread[u].s = s
    BY <1>2
  <2>2. Fits(thread[u]) /\ thread[u].at # "begin"
    BY <2>1 DEF VaInv, Calls, BeingReused
  <2> QED BY <2>1, <2>2 DEF Fits, Submitting
<1>3. CASE \E d \in Contexts : s \in {context[d].current, context[d].held}
  <2>1. PICK d \in Contexts : s \in {context[d].current, context[d].held}
    BY <1>3
  <2>2. Current(d) /\ Holding(d)
    BY DEF VaInv, Contents
  <2> QED BY <1>1, <2>1, <2>2, Apart DEF Current, Holding, BeingReused
<1> QED BY <1>2, <1>3 DEF InDecode

\* A sync or an export starts from the owner the surface has now.
LEMMA LookKeeps ==
  ASSUME VaInv, NEW t \in Threads, NEW s \in Surfaces, NEW entry \in {"sync", "export"},
         Look(t, s, entry)
  PROVE  VaInv'
<1> DEFINE place == FirstPlace(entry, s)
           c == session_of(s)
           r == In(entry, place, s, c)
<1>1. /\ thread[t].at = "idle" /\ s \in surfaces /\ ~BeingReused(s)
      /\ entry = "export" => ~InDecode(s)
      /\ thread' = [thread EXCEPT ![t] = r]
      /\ surfaces' = surfaces /\ contexts' = contexts /\ surface' = surface
      /\ context' = context /\ pending' = pending
  BY DEF Look
<1>2. place \in {"check", "export"} /\ (place = "export" => entry = "export" /\ ~surface[s].pending)
  BY DEF FirstPlace
<1>3. /\ c \in Contexts \cup {None}
      /\ c # surface[s].owner => c = None /\ surface[s].owner \notin contexts
  BY DEF session_of, VaInv, VaTypeOK
<1> HIDE DEF place, c
<1>4. r.entry = entry /\ r.at = place /\ r.s = s /\ r.c = c /\ r.owned = {}
  BY Enters
<1>5. r \in Thread
  BY <1>2, <1>3 DEF In, Idle, Thread, Looking
<1> HIDE DEF r
<1>6. c # surface[s].owner => ~InDecode(s)
  BY <1>1, <1>3, HandsOwn
<1>7. Placed(r)
  BY <1>2, <1>4, Apart DEF Placed, Looking, Deciding, Decoding
<1>8. LooksAt(r)
  BY <1>1, <1>2, <1>3, <1>4, <1>6, Apart DEF LooksAt
<1>9. Fits(r)
  BY <1>2, <1>4, <1>7, <1>8 DEF Fits, Begun, Submitting, Owning, Destroying
<1>10. Follows(thread[t], r) /\ r.at # "submit"
  BY <1>1, <1>2, <1>4 DEF Follows, Decoding, Deciding
<1>11. Steady /\ NoExport
  BY <1>1, NothingTouched DEF VaInv
<1> QED BY <1>1, <1>5, <1>9, <1>10, <1>11, QuietlyKeeps


\* It waits only for a picture that is pending, and so in nobody's hands.
LEMMA wait_forKeeps ==
  ASSUME VaInv, NEW t \in Threads, wait_for(t)
  PROVE  VaInv'
<1> DEFINE p == thread[t]
           s == p.s
<1>1. /\ p \in Thread /\ Fits(p) /\ p.at \in {"check", "recheck"} /\ p.at \in Looking
      /\ s \in Surfaces
  BY InHand DEF VaInv, VaTypeOK, Calls, Fits, wait_for, Looking
<1>2. /\ surfaces' = surfaces /\ contexts' = contexts /\ surface' = surface
      /\ context' = context /\ pending' = pending
  BY DEF wait_for
<1>3. Steady /\ NoExport
  BY <1>2, NothingTouched DEF VaInv
<1>4. ASSUME NEW status \in {"success", "error"}, Answers(t, status),
             status = "success" => ~surface[s].pending
      PROVE  VaInv'
  <2>1. PICK r \in Thread : /\ Fits(r) /\ Follows(p, r) /\ r.at \in {"idle", "export"}
                            /\ thread' = [thread EXCEPT ![t] = r]
    BY <1>1, <1>4, AnswersFit DEF VaInv
  <2> QED BY <1>1, <1>3, <2>1, QuietlyKeeps
<1>5. ASSUME surface[s].pending, p.at = "check", NEW place,
             place = IF p.c = None THEN "recheck" ELSE "wait",
             thread' = [thread EXCEPT ![t].at = place]
      PROVE  VaInv'
  <2> DEFINE r == [p EXCEPT !.at = place]
  <2>1. /\ r \in Thread /\ r.entry = p.entry /\ r.at = place /\ r.s = s /\ r.c = p.c
        /\ r.owned = p.owned
    BY <1>1, <1>5 DEF Thread, Looking
  <2>2. thread' = [thread EXCEPT ![t] = r]
    BY <1>5
  <2> HIDE DEF r
  <2>3. Placed(r)
    BY <1>1, <1>5, <2>1 DEF Fits, Placed, Looking, Deciding, Decoding
  <2>4. place = "wait" => ~InDecode(s) /\ Settling(s)
    <3>1. s \in surfaces /\ ~BeingReused(s)
      BY <1>1 DEF Fits, LooksAt
    <3> QED BY <1>5, <3>1, HandsOwn DEF Settling
  <2>5. LooksAt(r)
    BY <1>1, <1>5, <2>1, <2>4 DEF Fits, LooksAt, Looking
  <2>6. Fits(r)
    BY <1>1, <1>5, <2>1, <2>3, <2>5 DEF Fits, Placed, Begun, Submitting, Owning, Destroying, Looking
  <2>7. Follows(p, r) /\ r.at # "submit"
    BY <1>1, <1>5, <2>1 DEF Follows, Decoding, Deciding
  <2> QED BY <1>1, <1>3, <2>1, <2>2, <2>6, <2>7, QuietlyKeeps
<1> QED BY <1>4, <1>5 DEF wait_for

\* The wait ends with a target that has settled.
LEMMA WaitReturnsKeeps ==
  ASSUME VaInv, NEW t \in Threads, WaitReturns(t)
  PROVE  VaInv'
<1> DEFINE p == thread[t]
           s == p.s
           e == surface[s].error
           status == IF e THEN "error" ELSE "success"
           m == [surface[s] EXCEPT !.failed = @ \/ e]
<1>1. /\ p \in Thread /\ Fits(p) /\ p.at = "wait" /\ p.at \in Looking /\ s \in Surfaces
      /\ surface[s] \in Surface /\ ~surface[s].pending
  BY InHand DEF VaInv, VaTypeOK, Calls, Fits, WaitReturns, Looking
<1>2. /\ surfaces' = surfaces /\ contexts' = contexts /\ context' = context
      /\ pending' = pending /\ surface' = [surface EXCEPT ![s] = m] /\ Answers(t, status)
  BY DEF WaitReturns
<1>3. status \in {"success", "error"}
  OBVIOUS
<1>4. /\ m \in Surface /\ m.owner = surface[s].owner /\ (m.pending <=> surface[s].pending)
      /\ m.error = surface[s].error /\ m.picture = surface[s].picture
      /\ Quietly(surface[s], m)
  BY <1>1 DEF Surface, Quietly
<1> HIDE DEF m, status
<1>5. Settling(s) => m.pending \/ m.error \/ m.picture \in {"published", "dropped"}
  BY <1>1, <1>4 DEF Settling
<1>6. Steady /\ NoExport
  BY <1>1, <1>2, <1>4, <1>5, OneSteady, OneNoExport DEF VaInv
<1>7. PICK r \in Thread : /\ Fits(r) /\ Follows(p, r) /\ r.at \in {"idle", "export"}
                          /\ thread' = [thread EXCEPT ![t] = r]
  BY <1>1, <1>2, <1>3, AnswersFit DEF VaInv
<1> QED BY <1>1, <1>6, <1>7, QuietlyKeeps

\* The wait ends at its deadline: the token is in the map of the session it waits in.
LEMMA WaitExpiresKeeps ==
  ASSUME VaInv, NEW t \in Threads, WaitExpires(t)
  PROVE  VaInv'
<1> DEFINE p == thread[t]
           s == p.s
           c == p.c
           r == Settled(surface[s], "lost")
           m == [r EXCEPT !.failed = TRUE]
<1>1. /\ p \in Thread /\ Fits(p) /\ p.at = "wait" /\ p.at \in Looking /\ s \in Surfaces
      /\ surface[s] \in Surface /\ surface[s].pending
  BY InHand DEF VaInv, VaTypeOK, Calls, Fits, WaitExpires, Looking
<1>2. c \in Contexts /\ surface[s].owner = c
  BY <1>1 DEF Fits, LooksAt, Thread
<1>3. /\ surfaces' = surfaces /\ contexts' = contexts /\ context' = context
      /\ pending' = Forgotten(s, c) /\ surface' = [surface EXCEPT ![s] = m]
      /\ Answers(t, "error")
  BY DEF WaitExpires
<1>4. /\ r \in Surface /\ r.owner = surface[s].owner /\ ~r.pending /\ r.error
      /\ r.persistent_export = surface[s].persistent_export /\ r.publish = surface[s].publish
      /\ r.completed /\ r.frame => (surface[s].completed /\ surface[s].frame)
  BY <1>1 DEF Settled, Surface, Pictures
<1> HIDE DEF r
<1>5. /\ m \in Surface /\ m.owner = surface[s].owner /\ ~m.pending /\ m.error
      /\ Quietly(surface[s], m)
  BY <1>4 DEF Surface, Quietly
<1> HIDE DEF m, c
<1>6. Steady
  BY <1>1, <1>2, <1>3, <1>5, OneSteady DEF VaInv
<1>7. NoExport
  BY <1>1, <1>3, <1>5, OneNoExport DEF VaInv
<1>8. PICK q \in Thread : /\ Fits(q) /\ Follows(p, q) /\ q.at \in {"idle", "export"}
                          /\ thread' = [thread EXCEPT ![t] = q]
  BY <1>1, <1>3, AnswersFit DEF VaInv
<1> QED BY <1>1, <1>6, <1>7, <1>8, QuietlyKeeps

\* The session fails: what it had is lost, whatever the call that finds out.
LEMMA failKeeps ==
  ASSUME VaInv, NEW t \in Threads, fail(t)
  PROVE  VaInv'
<1> DEFINE p == thread[t]
           s == p.s
           c == p.c
           r(x) == IF x \in pending[c] THEN Settled(surface[x], "lost") ELSE surface[x]
           m(x) == CASE x = s /\ p.at = "wait" -> [r(x) EXCEPT !.failed = TRUE]
                     [] x = s /\ p.at = "submit" -> [r(x) EXCEPT !.picture = "none"]
                     [] OTHER -> r(x)
<1>1. /\ p \in Thread /\ Fits(p) /\ p.at \in {"submit", "wait", "begin", "destroy"}
      /\ s \in Surfaces /\ c \in Contexts
  BY InHand DEF VaInv, VaTypeOK, Calls, Fits, fail, Looking, Deciding, Thread
<1>2. /\ surfaces' = surfaces /\ contexts' = contexts
      /\ context' = [context EXCEPT ![c].session = "failed"]
      /\ pending' = [pending EXCEPT ![c] = {}]
      /\ surface' = [x \in Surfaces |-> m(x)]
  BY DEF fail
<1>3. ASSUME NEW x \in Surfaces
      PROVE  /\ r(x) \in Surface /\ Quietly(surface[x], r(x))
             /\ r(x).pending <=> surface[x].pending /\ x \notin pending[c]
             /\ Settling(x) => \/ r(x).pending \/ r(x).error
                               \/ r(x).picture \in {"published", "dropped"}
  <2>1. surface[x] \in Surface /\ (x \in pending[c] => surface[x].pending)
    BY <1>1 DEF VaInv, VaTypeOK, Targets
  <2>2. CASE x \in pending[c]
    BY <2>1, <2>2 DEF Settled, Surface, Pictures, Quietly
  <2>3. CASE x \notin pending[c]
    BY <2>1, <2>3 DEF Quietly, Settling
  <2> QED BY <2>2, <2>3
<1> HIDE DEF r
<1>4. ASSUME NEW x \in Surfaces
      PROVE  /\ surface'[x] \in Surface /\ Quietly(surface[x], surface'[x])
             /\ surface'[x].pending <=> surface[x].pending /\ x \notin pending[c]
             /\ Settling(x) => Settling(x)' \/ InDecode(x)
  <2>1. /\ r(x) \in Surface /\ Quietly(surface[x], r(x))
        /\ r(x).pending <=> surface[x].pending /\ x \notin pending[c]
        /\ Settling(x) => \/ r(x).pending \/ r(x).error
                          \/ r(x).picture \in {"published", "dropped"}
    BY <1>3
  <2>2. surface'[x] = m(x)
    BY <1>2
  <2>3. CASE x = s /\ p.at = "wait"
    <3>1. surface'[x] = [r(x) EXCEPT !.failed = TRUE]
      BY <2>2, <2>3
    <3> QED BY <2>1, <3>1 DEF Surface, Quietly, Settling
  <2>4. CASE x = s /\ p.at = "submit"
    <3>1. surface'[x] = [r(x) EXCEPT !.picture = "none"]
      BY <2>2, <2>4
    <3>2. InDecode(x)
      BY <2>4 DEF InDecode
    <3> QED BY <2>1, <3>1, <3>2 DEF Surface, Quietly, Pictures
  <2>5. CASE ~(x = s /\ p.at = "wait") /\ ~(x = s /\ p.at = "submit")
    <3>1. surface'[x] = r(x)
      BY <2>2, <2>5
    <3> QED BY <2>1, <3>1 DEF Settling
  <2> QED BY <2>3, <2>4, <2>5
<1>5. surface' \in [Surfaces -> Surface]
  BY <1>2, <1>4
<1> HIDE DEF m
<1>6. /\ pending' \in [Contexts -> SUBSET Surfaces]
      /\ \A d \in Contexts : \A x \in Surfaces :
           x \in pending'[d] <=> x \in pending[d] /\ d # c
  BY <1>1, <1>2 DEF VaInv, VaTypeOK
<1>7. \A d \in Contexts : \A x \in Surfaces :
        x \in pending'[d] <=> x \in pending[d] /\ surface'[x].pending
  <2> TAKE d \in Contexts
  <2> TAKE x \in Surfaces
  <2>1. x \in pending[d] => surface[x].pending /\ surface[x].owner = d
    BY DEF VaInv, Targets
  <2>2. x \in pending[c] => surface[x].owner = c
    BY <1>1 DEF VaInv, Targets
  <2> QED BY <1>4, <1>6, <2>1, <2>2
<1>8. /\ context' \in [Contexts -> Context]
      /\ \A d \in Contexts :
           /\ context'[d].current = context[d].current /\ context'[d].held = context[d].held
           /\ context[d].session # "none" => context'[d].session # "none"
  BY <1>1, <1>2 DEF VaInv, VaTypeOK, Context
<1>9. Steady
  BY <1>2, <1>4, <1>5, <1>6, <1>7, <1>8 DEF Steady, Quietly
<1>10. NoExport
  BY <1>4 DEF NoExport
<1>11. CASE p.at = "wait"
  <2>1. Answers(t, "error")
    BY <1>11 DEF fail
  <2>2. PICK q \in Thread : /\ Fits(q) /\ Follows(p, q) /\ q.at \in {"idle", "export"}
                            /\ thread' = [thread EXCEPT ![t] = q]
    BY <1>1, <1>11, <2>1, AnswersFit DEF VaInv, Looking
  <2> QED BY <1>9, <1>10, <1>11, <2>2, QuietlyKeeps
<1>12. CASE p.at = "submit"
  <2>1. Submitted(t)
    BY <1>12 DEF fail
  <2>2. CASE p.entry = "destroyContext"
    <3> DEFINE q == [p EXCEPT !.at = "finish"]
    <3>1. thread' = [thread EXCEPT ![t] = q]
      BY <2>1, <2>2 DEF Submitted
    <3>2. q \in Thread /\ Fits(q) /\ Follows(p, q) /\ q.at = "finish"
      BY <1>1, <1>12, <2>2, LeavesFit
    <3> HIDE DEF q
    <3> QED BY <1>9, <1>10, <1>12, <3>1, <3>2, QuietlyKeeps
  <2>3. CASE p.entry # "destroyContext"
    <3>1. thread' = [thread EXCEPT ![t] = Idle]
      BY <2>1, <2>3 DEF Submitted
    <3> QED BY <1>1, <1>9, <1>10, <1>12, <3>1, EndsFit, AtRest, QuietlyKeeps
  <2> QED BY <2>2, <2>3
<1>13. CASE p.at \notin {"wait", "submit"}
  <2>1. thread' = thread
    BY <1>13 DEF fail
  <2> QED BY <1>9, <1>10, <2>1, QuietlyStays
<1> QED BY <1>11, <1>12, <1>13


\* va::submit picks the policy after the exports, and the picture it is for is not
\* pending yet.
LEMMA PolicyKeeps ==
  ASSUME VaInv, NEW t \in Threads, Policy(t)
  PROVE  VaInv'
<1> DEFINE p == thread[t]
           s == p.s
           policy == publish_policy(s)
           m == [surface[s] EXCEPT !.publish = policy, !.failed = FALSE]
           r == [p EXCEPT !.at = "submit"]
<1>1. /\ p \in Thread /\ Fits(p) /\ p.at = "policy" /\ p.at \in Deciding /\ s \in Surfaces
      /\ surface[s] \in Surface /\ ~surface[s].pending
  BY InHand DEF VaInv, VaTypeOK, Calls, Fits, Submitting, Policy, Deciding
<1>2. /\ surfaces' = surfaces /\ contexts' = contexts /\ context' = context
      /\ pending' = pending /\ surface' = [surface EXCEPT ![s] = m]
      /\ thread' = [thread EXCEPT ![t] = r]
  BY DEF Policy
<1>3. policy \in Publish /\ (surface[s].persistent_export => policy # "Direct")
  BY DEF publish_policy, Publish
<1> HIDE DEF policy
<1>4. /\ m \in Surface /\ m.owner = surface[s].owner /\ (m.pending <=> surface[s].pending)
      /\ m.error = surface[s].error /\ m.picture = surface[s].picture /\ m.publish = policy
      /\ m.persistent_export = surface[s].persistent_export
      /\ m.completed = surface[s].completed /\ m.frame = surface[s].frame
  BY <1>1, <1>3 DEF Surface
<1>5. /\ r \in Thread /\ r.entry = p.entry /\ r.at = "submit" /\ r.s = s /\ r.c = p.c
      /\ r.owned = p.owned
  BY <1>1 DEF Thread, Leaving
<1> HIDE DEF m, r
<1>6. Fits(r)
  BY <1>1, <1>5 DEF Fits, Placed, Begun, Submitting, Owning, Destroying, LooksAt, Looking,
                    Deciding
<1>7. Follows(p, r)
  BY <1>1, <1>5 DEF Follows, Deciding
<1>8. InDecode(s)
  BY <1>1 DEF InDecode
<1>9. Steady
  BY <1>1, <1>2, <1>4, <1>8, OneSteady DEF VaInv
<1>10. \A x \in Surfaces : surface'[x] = IF x = s THEN m ELSE surface[x]
  BY <1>2 DEF VaInv, VaTypeOK
<1>11. Persistent'
  <2>1. \A x \in Surfaces : Persists(x)'
    BY <1>1, <1>4, <1>10 DEF VaInv, Persistent, Persists
  <2>2. \A u \in Threads : thread'[u] = IF u = t THEN r ELSE thread[u]
    BY <1>2, <1>5 DEF VaInv, VaTypeOK
  <2>3. \A u \in Threads : thread[u].at = "submit" => thread[u].s \in Surfaces
    BY InHand DEF VaInv, VaTypeOK, Calls, Fits, Deciding
  <2>4. ASSUME NEW u \in Threads, thread'[u].at = "submit",
               surface'[thread'[u].s].persistent_export
        PROVE  surface'[thread'[u].s].publish # "Direct"
    <3>1. CASE u = t
      BY <1>1, <1>3, <1>4, <1>5, <1>10, <2>2, <2>4, <3>1
    <3>2. CASE u # t
      BY <1>3, <1>4, <1>10, <2>2, <2>3, <2>4, <3>2 DEF VaInv, Persistent
    <3> QED BY <3>1, <3>2
  <2> QED BY <2>1, <2>4 DEF Persistent
<1> QED BY <1>1, <1>2, <1>5, <1>6, <1>7, <1>9, <1>11, SteadyKeeps

\* What is exported is not pending, nor about to be, and has no slot any more if it
\* is pinned.
LEMMA ExportKeeps ==
  ASSUME VaInv, NEW t \in Threads, Export(t)
  PROVE  VaInv'
<1> DEFINE p == thread[t]
           s == p.s
           m == [surface[s] EXCEPT !.persistent_export =
                   @ \/ ~(surface[s].frame \/ surface[s].completed)]
<1>1. /\ p \in Thread /\ Fits(p) /\ p.at = "export" /\ p.at \in Looking /\ s \in Surfaces
      /\ surface[s] \in Surface /\ ~surface[s].pending /\ ~InDecode(s)
  BY InHand DEF VaInv, VaTypeOK, Calls, Fits, Placed, LooksAt, Export, Looking
<1>2. /\ surfaces' = surfaces /\ contexts' = contexts /\ context' = context
      /\ pending' = pending /\ thread' = [thread EXCEPT ![t] = Idle]
  BY DEF Export
<1>3. surface' = [surface EXCEPT ![s] = m]
  BY DEF Export
<1>4. /\ m \in Surface /\ m.owner = surface[s].owner /\ (m.pending <=> surface[s].pending)
      /\ m.error = surface[s].error /\ m.picture = surface[s].picture
      /\ m.publish = surface[s].publish
      /\ m.completed = surface[s].completed /\ m.frame = surface[s].frame
      /\ m.frame => m.persistent_export = surface[s].persistent_export
  BY <1>1 DEF Surface
<1> HIDE DEF m
<1>5. Settling(s) => m.pending \/ m.error \/ m.picture \in {"published", "dropped"}
  BY <1>1, <1>4 DEF Settling
<1>6. Steady
  BY <1>1, <1>2, <1>3, <1>4, <1>5, OneSteady DEF VaInv
<1>7. \A x \in Surfaces : surface'[x] = IF x = s THEN m ELSE surface[x]
  BY <1>3 DEF VaInv, VaTypeOK
<1>8. Persistent'
  <2>1. \A x \in Surfaces : Persists(x)'
    BY <1>1, <1>4, <1>7 DEF VaInv, Persistent, Persists
  <2>2. \A u \in Threads : thread'[u] = IF u = t THEN Idle ELSE thread[u]
    BY <1>2 DEF VaInv, VaTypeOK
  <2>3. \A u \in Threads : thread[u].at = "submit" => thread[u].s \in Surfaces \ {s}
    BY <1>1, InHand DEF VaInv, VaTypeOK, Calls, Fits, Deciding, InDecode
  <2>4. ASSUME NEW u \in Threads, thread'[u].at = "submit",
               surface'[thread'[u].s].persistent_export
        PROVE  surface'[thread'[u].s].publish # "Direct"
    <3>1. u # t
      BY <2>2, <2>4, AtRest
    <3> QED BY <1>7, <2>2, <2>3, <2>4, <3>1 DEF VaInv, Persistent
  <2> QED BY <2>1, <2>4 DEF Persistent
<1>9. Follows(p, Idle)
  BY <1>1, EndsFit
<1> QED BY <1>1, <1>2, <1>6, <1>8, <1>9, AtRest, SteadyKeeps

-----------------------------------------------------------------------------
(* Steps that move surfaces and pictures between contexts and calls.       *)

\* A picture enters its session: nobody else submits the surface, waits for it or
\* exports it.
LEMMA AcceptKeeps ==
  ASSUME VaInv, NEW t \in Threads, thread[t].at = "submit", NEW r \in Thread, Fits(r),
         Follows(thread[t], r), r.at \in {"idle", "finish"}, thread' = [thread EXCEPT ![t] = r],
         NEW s, s = thread[t].s, NEW c, c = thread[t].c, NEW m \in Surface,
         surface' = [surface EXCEPT ![s] = m],
         m.owner = surface[s].owner, m.publish = surface[s].publish,
         m.persistent_export = surface[s].persistent_export,
         m.pending, ~m.completed, pending' = [pending EXCEPT ![c] = @ \cup {s}],
         surfaces' = surfaces, contexts' = contexts, context' = context
  PROVE  VaInv'
<1>1. /\ s \in Surfaces /\ c \in Contexts /\ c \in contexts /\ s \in surfaces
      /\ surface[s].owner = c /\ ~surface[s].pending
      /\ context[c].current # s /\ context[c].held # s
      /\ thread[t].entry \in Decoding
  BY InHand DEF VaInv, VaTypeOK, Calls, Fits, Submitting, Deciding, Leaving
<1>2. /\ thread' \in [Threads -> Thread]
      /\ \A u \in Threads : thread'[u] = IF u = t THEN r ELSE thread[u]
  BY DEF VaInv, VaTypeOK
<1>3. /\ surface' \in [Surfaces -> Surface]
      /\ \A x \in Surfaces : surface'[x] = IF x = s THEN m ELSE surface[x]
  BY DEF VaInv, VaTypeOK
<1>4. /\ pending' \in [Contexts -> SUBSET Surfaces]
      /\ \A d \in Contexts : \A x \in Surfaces :
           x \in pending'[d] <=> x \in pending[d] \/ (d = c /\ x = s)
  BY <1>1 DEF VaInv, VaTypeOK
<1>5. NoMoreInHand
  BY StillInHand DEF VaInv
<1>6. VaTypeOK'
  BY <1>2, <1>3, <1>4 DEF VaInv, VaTypeOK
<1>7. Calls'
  <2>1. ASSUME NEW p \in Thread, Fits(p),
               p.at \in {"policy", "submit"} => p.s # s
        PROVE  Fits(p)'
    <3>1. /\ p.at \in Deciding \cup Looking \cup {"destroy"} => p.s \in Surfaces
          /\ p.entry \in Decoding => p.c \in Contexts
      BY <2>1, InHand DEF Fits
    <3>2. Placed(p)'
      BY <2>1 DEF Fits, Placed
    <3>3. Begun(p)'
      BY <2>1 DEF Fits, Begun
    <3>4. Submitting(p)'
      BY <1>3, <2>1, <3>1 DEF Fits, Submitting, Deciding
    <3>5. Owning(p)'
      BY <1>1, <1>3, <2>1 DEF Fits, Owning
    <3>6. Destroying(p)'
      BY <1>1, <1>3, <2>1, <3>1 DEF Fits, Destroying
    <3>7. LooksAt(p)'
      <4>1. InDecode(s)
        BY DEF InDecode
      <4>2. CASE p.s = s
        <5>1. p.at \in Looking =>
                ~BeingReused(s)' /\ surface'[s].owner = p.c /\ p.at # "wait" /\ p.entry # "export"
          BY <1>1, <1>3, <1>5, <2>1, <4>1, <4>2 DEF Fits, LooksAt, NoMoreInHand
        <5>2. p.at = "export" => p.entry = "export"
          BY <2>1 DEF Fits, Placed
        <5> QED BY <1>1, <4>2, <5>1, <5>2 DEF LooksAt, Looking
      <4>3. CASE p.s # s
        <5>1. p.at \in Looking => p.s \in Surfaces /\ surface'[p.s] = surface[p.s]
          BY <1>3, <3>1, <4>3
        <5>2. p.at \in Looking => (Settling(p.s) => Settling(p.s)')
          BY <5>1, Zenon DEF Settling
        <5> QED BY <1>5, <2>1, <5>1, <5>2 DEF Fits, LooksAt, NoMoreInHand
      <4> QED BY <4>2, <4>3
    <3> QED BY <3>2, <3>3, <3>4, <3>5, <3>6, <3>7 DEF Fits
  <2>2. Fits(r)'
    BY <2>1
  <2>3. ASSUME NEW u \in Threads, u # t
        PROVE  Fits(thread[u])'
    <3>1. thread[u] \in Thread /\ Fits(thread[u])
      BY DEF VaInv, VaTypeOK, Calls
    <3>2. thread[u].at \in {"policy", "submit"} => thread[u].s # s
      BY <1>1, <2>3, <3>1, InHand DEF Fits, Submitting, VaInv, OneDecodes, Leaving
    <3>3. \A p \in Thread : Fits(p) /\ (p.at \in {"policy", "submit"} => p.s # s) => Fits(p)'
      BY <2>1
    <3> QED BY <1>2, <2>3, <3>1, <3>2, <3>3
  <2>4. Fits(thread[t])'
    BY <1>2, <2>2
  <2> QED BY <2>3, <2>4 DEF Calls
<1>8. OneDecodes' /\ OneDestroys'
  BY <1>2 DEF VaInv, OneDecodes, OneDestroys, Follows
<1>9. Targets'
  BY <1>1, <1>3, <1>4, Apart DEF VaInv, Targets
<1>10. Owners'
  <2> SUFFICES ASSUME NEW x \in Surfaces
               PROVE  Owned(x)'
    BY DEF Owners
  <2>1. Owned(x)
    BY DEF VaInv, Owners
  <2> QED BY <1>1, <1>2, <1>3, <2>1 DEF Owned
<1>11. Contents'
  <2> SUFFICES ASSUME NEW d \in Contexts
               PROVE  Opened(d)' /\ Current(d)' /\ Holding(d)'
    BY DEF Contents
  <2>1. Opened(d) /\ Current(d) /\ Holding(d) /\ context[d] \in Context
    BY DEF VaInv, VaTypeOK, Contents
  <2>2. Opened(d)'
    BY <2>1 DEF Opened
  <2>3. Current(d)'
    BY <1>1, <1>2, <1>3, <2>1 DEF Current, Context
  <2>4. Holding(d)'
    BY <1>1, <1>3, <2>1 DEF Holding, Context
  <2> QED BY <2>2, <2>3, <2>4
<1>12. Persistent'
  <2>1. \A x \in Surfaces : Persists(x)'
    BY <1>1, <1>3 DEF VaInv, Persistent, Persists
  <2>2. \A u \in Threads : thread[u].at = "submit" => thread[u].s \in Surfaces
    BY InHand DEF VaInv, VaTypeOK, Calls, Fits, Deciding
  <2> QED BY <1>2, <1>3, <2>1, <2>2 DEF VaInv, Persistent
<1> QED BY <1>6, <1>7, <1>8, <1>9, <1>10, <1>11, <1>12 DEF VaInv


\* submit() accepts the picture, or throws.
LEMMA SubmitKeeps ==
  ASSUME VaInv, NEW t \in Threads, Submit(t)
  PROVE  VaInv'
<1> DEFINE p == thread[t]
           s == p.s
           c == p.c
           r == IF p.entry = "destroyContext" THEN [p EXCEPT !.at = "finish"] ELSE Idle
<1>1. /\ p \in Thread /\ Fits(p) /\ p.at = "submit" /\ s \in Surfaces /\ c \in Contexts
      /\ surface[s] \in Surface
  BY InHand DEF VaInv, VaTypeOK, Calls, Fits, Submit, Deciding, Leaving
<1>2. /\ surfaces' = surfaces /\ contexts' = contexts /\ context' = context
      /\ thread' = [thread EXCEPT ![t] = r]
  BY DEF Submit, Submitted
<1>3. r \in Thread /\ Fits(r) /\ Follows(p, r) /\ r.at \in {"idle", "finish"}
  <2>1. CASE p.entry = "destroyContext"
    BY <1>1, <2>1, LeavesFit
  <2>2. CASE p.entry # "destroyContext"
    BY <1>1, <2>2, EndsFit, AtRest
  <2> QED BY <2>1, <2>2
<1> HIDE DEF r
<1>4. CASE /\ surface' = [surface EXCEPT ![s] =
                [@ EXCEPT !.pending = TRUE, !.completed = FALSE, !.error = FALSE,
                          !.frame = FALSE, !.picture = "accepted"]]
           /\ pending' = [pending EXCEPT ![c] = @ \cup {s}]
  <2> DEFINE m == [surface[s] EXCEPT !.pending = TRUE, !.completed = FALSE, !.error = FALSE,
                                     !.frame = FALSE, !.picture = "accepted"]
  <2>1. /\ m \in Surface /\ m.owner = surface[s].owner /\ m.publish = surface[s].publish
        /\ m.persistent_export = surface[s].persistent_export
        /\ m.pending /\ ~m.completed
    BY <1>1 DEF Surface, Pictures
  <2>2. surface' = [surface EXCEPT ![s] = m]
    BY <1>4
  <2> HIDE DEF m
  <2> QED BY <1>1, <1>2, <1>3, <1>4, <2>1, <2>2, AcceptKeeps
<1>5. CASE surface' = [surface EXCEPT ![s].picture = "none"] /\ pending' = pending
  <2> DEFINE m == [surface[s] EXCEPT !.picture = "none"]
  <2>1. m \in Surface /\ Quietly(surface[s], m) /\ (m.pending <=> surface[s].pending)
    BY <1>1 DEF Surface, Pictures, Quietly
  <2>2. surface' = [surface EXCEPT ![s] = m]
    BY <1>5
  <2>3. InDecode(s)
    BY <1>1 DEF InDecode
  <2> HIDE DEF m
  <2>4. m.owner = surface[s].owner
    BY <2>1 DEF Quietly
  <2>5. Steady
    BY <1>1, <1>2, <1>5, <2>1, <2>2, <2>3, <2>4, OneSteady DEF VaInv
  <2>6. NoExport
    BY <1>1, <2>1, <2>2, OneNoExport DEF VaInv
  <2> QED BY <1>1, <1>2, <1>3, <2>5, <2>6, QuietlyKeeps
<1> QED BY <1>4, <1>5 DEF Submit

\* The surfaces a new context takes had no owner, so nobody was at work on them.
LEMMA createContextKeeps ==
  ASSUME VaInv, NEW t \in Threads, NEW c \in Contexts, NEW targets,
         createContext(t, c, targets)
  PROVE  VaInv'
<1> DEFINE taken(x) == x \in targets \cap surfaces /\ surface[x].owner = None
<1>1. /\ surfaces' = surfaces /\ contexts' = contexts \cup {c} /\ c \notin contexts
      /\ pending' = pending /\ thread' = thread
  BY DEF createContext, VaInv, Contents, Opened
<1>2. /\ context' \in [Contexts -> Context]
      /\ context[c].session = "none"
      /\ \A d \in Contexts :
           /\ context'[d].current = context[d].current /\ context'[d].held = context[d].held
           /\ context'[d].session = IF d = c THEN "open" ELSE context[d].session
  BY DEF createContext, VaInv, VaTypeOK, Context
<1>3. ASSUME NEW x \in Surfaces
      PROVE  /\ surface'[x] \in Surface
             /\ surface'[x].owner = IF taken(x) THEN c ELSE surface[x].owner
             /\ surface'[x].pending = surface[x].pending
             /\ surface'[x].persistent_export = surface[x].persistent_export
             /\ surface'[x].publish = surface[x].publish
             /\ surface'[x].completed = surface[x].completed
             /\ surface'[x].frame = surface[x].frame
             /\ surface'[x].error = surface[x].error
             /\ surface'[x].picture = surface[x].picture
  <2>1. surface[x] \in Surface
    BY DEF VaInv, VaTypeOK
  <2>2. CASE taken(x)
    <3>1. surface'[x] = [surface[x] EXCEPT !.owner = c]
      BY <2>2 DEF createContext
    <3> QED BY <2>1, <2>2, <3>1 DEF Surface
  <2>3. CASE ~taken(x)
    <3>1. surface'[x] = surface[x]
      BY <2>3 DEF createContext
    <3> QED BY <2>1, <2>3, <3>1
  <2> QED BY <2>2, <2>3
<1>4. surface' \in [Surfaces -> Surface]
  <2>1. surface' = [x \in Surfaces |-> surface'[x]]
    BY DEF createContext
  <2> QED BY <1>3, <2>1
<1>5. ASSUME NEW x \in Surfaces, taken(x)
      PROVE  x \in surfaces /\ surface[x].owner = None /\ ~surface[x].pending
  BY <1>5 DEF VaInv, Targets
<1>6. None \notin contexts
  BY Apart DEF VaInv, VaTypeOK
<1> HIDE DEF taken
<1>7. VaTypeOK'
  BY <1>1, <1>2, <1>4 DEF VaInv, VaTypeOK
<1>8. NoMoreInHand
  BY <1>1, <1>2 DEF NoMoreInHand, InDecode, BeingReused
<1>9. Calls'
  <2> SUFFICES ASSUME NEW u \in Threads
               PROVE  Fits(thread[u])'
    BY DEF Calls
  <2> DEFINE p == thread[u]
  <2>1. p \in Thread /\ Fits(p) /\ thread'[u] = p
    BY <1>1 DEF VaInv, VaTypeOK, Calls
  <2>2. /\ p.at \in Deciding \cup Looking \cup {"destroy"} => p.s \in Surfaces
        /\ p.entry \in Decoding => p.c \in Contexts
    BY <2>1, InHand DEF Fits
  <2> HIDE DEF p
  <2>3. ASSUME NEW q, q = p
        PROVE  Fits(q)'
    <3>1. Placed(q)'
      BY <2>1, <2>3 DEF Fits, Placed
    <3>2. Begun(q)'
      BY <1>1, <1>2, <2>1, <2>2, <2>3 DEF Fits, Begun, Deciding, Placed, Decoding
    <3>3. Submitting(q)'
      BY <1>1, <1>2, <1>3, <1>5, <1>6, <2>1, <2>2, <2>3
         DEF Fits, Submitting, Deciding, Placed, Decoding
    <3>4. Owning(q)'
      BY <1>1, <1>2, <1>3, <1>5, <2>1, <2>2, <2>3, Apart DEF Fits, Owning, Decoding
    <3>5. Destroying(q)'
      BY <1>1, <1>3, <1>5, <2>1, <2>2, <2>3 DEF Fits, Destroying
    <3>6. LooksAt(q)'
      <4> SUFFICES ASSUME q.at \in Looking
                   PROVE  LooksAt(q)'
        BY DEF LooksAt
      <4>1. q.s \in Surfaces /\ q.s \in surfaces /\ ~BeingReused(q.s) /\ ~BeingReused(q.s)'
        BY <1>8, <2>1, <2>2, <2>3 DEF Fits, LooksAt, NoMoreInHand
      <4>2. InDecode(q.s)' => InDecode(q.s)
        BY <1>8, <4>1 DEF NoMoreInHand
      <4>3. taken(q.s) => ~InDecode(q.s) /\ ~surface[q.s].pending
        BY <1>5, <1>6, <4>1, HandsOwn
      <4>4. Settling(q.s) => Settling(q.s)'
        BY <1>3, <4>1 DEF Settling
      <4> QED BY <1>1, <1>3, <2>1, <2>3, <4>1, <4>2, <4>3, <4>4 DEF Fits, LooksAt
    <3> QED BY <3>1, <3>2, <3>3, <3>4, <3>5, <3>6 DEF Fits
  <2> QED BY <2>1, <2>3
<1>10. OneDecodes' /\ OneDestroys'
  BY <1>1 DEF VaInv, OneDecodes, OneDestroys
<1>11. Targets'
  BY <1>1, <1>3, <1>5, Apart DEF VaInv, Targets
<1>12. Owners'
  <2> SUFFICES ASSUME NEW x \in Surfaces
               PROVE  Owned(x)'
    BY DEF Owners
  <2>1. Owned(x)
    BY DEF VaInv, Owners
  <2> QED BY <1>1, <1>3, <1>5, <2>1 DEF Owned
<1>13. Contents'
  <2> SUFFICES ASSUME NEW d \in Contexts
               PROVE  Opened(d)' /\ Current(d)' /\ Holding(d)'
    BY DEF Contents
  <2>1. Opened(d) /\ Current(d) /\ Holding(d) /\ context[d] \in Context
    BY DEF VaInv, VaTypeOK, Contents
  <2>2. Opened(d)'
    BY <1>1, <1>2, <2>1 DEF Opened
  <2>3. Current(d)'
    BY <1>1, <1>2, <1>3, <1>5, <1>6, <2>1 DEF Current, Context
  <2>4. Holding(d)'
    BY <1>1, <1>2, <1>3, <1>5, <1>6, <2>1 DEF Holding, Context
  <2> QED BY <2>2, <2>3, <2>4
<1>14. Persistent'
  <2>1. \A x \in Surfaces : Persists(x)'
    BY <1>3 DEF VaInv, Persistent, Persists
  <2>2. \A u \in Threads : thread[u].at = "submit" => thread[u].s \in Surfaces
    BY InHand DEF VaInv, VaTypeOK, Calls, Fits, Deciding
  <2> QED BY <1>1, <1>3, <2>1, <2>2 DEF VaInv, Persistent
<1> QED BY <1>7, <1>9, <1>10, <1>11, <1>12, <1>13, <1>14 DEF VaInv


\* A surface that nobody's destroyContext has belongs to a context of the table.
LEMMA OwnerHere ==
  ASSUME VaInv, NEW s \in surfaces, ~BeingDestroyed(s)
  PROVE  /\ surface[s].owner \in contexts \cup {None}
         /\ surface[s].owner = None => ~surface[s].pending
<1>1. s \in Surfaces /\ Owned(s)
  BY DEF VaInv, VaTypeOK, Owners
<1>2. \A u \in Threads : thread[u].at = "destroy" => thread[u].s # s
  BY DEF VaInv, Calls, Fits, Destroying
<1>3. surface[s].owner \in contexts \cup {None}
  BY <1>1, <1>2 DEF Owned, BeingDestroyed
<1> QED BY <1>1, <1>3 DEF VaInv, Targets

\* The other calls do not have the surface that a call takes for its context, and
\* the context has no other call.
LEMMA beginPictureKeeps ==
  ASSUME VaInv, NEW t \in Threads, NEW c \in Contexts, NEW s \in Surfaces,
         beginPicture(t, c, s)
  PROVE  VaInv'
<1> DEFINE r == In("beginPicture", "begin", s, c)
           m == surface'[s]
<1>1. /\ thread[t].at = "idle" /\ thread[t] = Idle /\ c \in contexts /\ ~DecodesWith(c)
      /\ s \in surfaces /\ ~InCall(s) /\ ~BeingDestroyed(s) /\ ~Held(s)
      /\ context[c].current = None
      /\ surfaces' = surfaces /\ contexts' = contexts
      /\ thread' = [thread EXCEPT ![t] = r]
      /\ context' = [context EXCEPT ![c].current = s]
  BY DEF beginPicture, VaInv, Calls, Fits, Placed
<1>2. /\ surface[s] \in Surface /\ surface[s].owner \in contexts \cup {None}
      /\ surface[s].owner = None => ~surface[s].pending
  BY <1>1, OwnerHere DEF VaInv, VaTypeOK
<1>3. /\ r \in Thread /\ r.entry = "beginPicture" /\ r.at = "begin" /\ r.s = s /\ r.c = c
      /\ r.owned = {}
  BY DEF In, Idle, Thread, Deciding, Decoding
<1> HIDE DEF r
<1>4. \A x \in Surfaces \ {s} : surface'[x] = surface[x]
  BY DEF beginPicture, VaInv, VaTypeOK
<1>5. /\ surface' \in [Surfaces -> Surface] /\ m.owner = c
      /\ m.pending => surface[s].pending /\ surface[s].owner = c
      /\ m.persistent_export = surface[s].persistent_export /\ m.publish = surface[s].publish
      /\ m.completed => surface[s].completed /\ m.frame = surface[s].frame
      /\ pending' \in [Contexts -> SUBSET Surfaces]
      /\ \A d \in Contexts : \A x \in Surfaces :
           x \in pending'[d] <=> x \in pending[d] /\ (x = s => m.pending)
  <2>1. CASE LeavesOwner(s, c)
    <3> DEFINE q == Released(surface[s])
    <3>1. q \in Surface /\ ~q.pending /\ ~q.completed
          /\ q.persistent_export = surface[s].persistent_export
          /\ q.publish = surface[s].publish
      BY <1>2 DEF Released, Surface
    <3>2. surface' = [surface EXCEPT ![s] = [q EXCEPT !.owner = c]]
          /\ pending' = Forgotten(s, surface[s].owner)
      BY <2>1 DEF beginPicture
    <3> HIDE DEF q
    <3>3. surface' \in [Surfaces -> Surface] /\ m = [q EXCEPT !.owner = c]
      BY <3>1, <3>2 DEF VaInv, VaTypeOK, Surface
    <3>4. m.owner = c /\ ~m.pending /\ ~m.completed
          /\ m.persistent_export = surface[s].persistent_export
          /\ m.publish = surface[s].publish
      BY <3>1, <3>3 DEF Surface
    <3> HIDE DEF m
    <3>5. /\ pending' \in [Contexts -> SUBSET Surfaces]
          /\ \A d \in Contexts : \A x \in Surfaces :
               x \in pending'[d] <=> x \in pending[d] /\ (d = surface[s].owner => x # s)
      BY <3>2 DEF Forgotten, VaInv, VaTypeOK
    <3>6. \A d \in Contexts : s \in pending[d] => d = surface[s].owner
      BY DEF VaInv, Targets
    <3> QED BY <3>3, <3>4, <3>5, <3>6
  <2>2. CASE ~LeavesOwner(s, c)
    <3>1. surface' = [surface EXCEPT ![s].owner = c] /\ pending' = pending
      BY <2>2 DEF beginPicture
    <3>2. surface[s].owner \in {c, None}
      BY <1>2, <2>2 DEF LeavesOwner
    <3>3. surface' \in [Surfaces -> Surface] /\ m = [surface[s] EXCEPT !.owner = c]
      BY <1>2, <3>1 DEF VaInv, VaTypeOK, Surface
    <3>4. /\ m.owner = c /\ m.pending = surface[s].pending
          /\ m.completed = surface[s].completed /\ m.frame = surface[s].frame
          /\ m.persistent_export = surface[s].persistent_export
          /\ m.publish = surface[s].publish
      BY <1>2, <3>3 DEF Surface
    <3> HIDE DEF m
    <3>5. \A d \in Contexts : s \in pending[d] => surface[s].pending
      BY DEF VaInv, Targets
    <3> QED BY <1>2, <3>1, <3>2, <3>3, <3>4, <3>5 DEF VaInv, VaTypeOK
  <2> QED BY <2>1, <2>2
<1>6. /\ context' \in [Contexts -> Context]
      /\ \A d \in Contexts :
           /\ context'[d].session = context[d].session /\ context'[d].held = context[d].held
           /\ context'[d].current = IF d = c THEN s ELSE context[d].current
  BY <1>1 DEF VaInv, VaTypeOK, Context
<1>7. /\ thread' \in [Threads -> Thread]
      /\ \A u \in Threads : thread'[u] = IF u = t THEN r ELSE thread[u]
  BY <1>1, <1>3 DEF VaInv, VaTypeOK
<1>8. VaTypeOK'
  BY <1>1, <1>5, <1>6, <1>7 DEF VaInv, VaTypeOK
<1> HIDE DEF m
<1>9. \A x \in Surfaces \ {s} :
        (InDecode(x)' => InDecode(x)) /\ (BeingReused(x)' => BeingReused(x))
  BY <1>3, <1>6, <1>7 DEF InDecode, BeingReused
<1>10. ASSUME NEW u \in Threads, u # t
       PROVE  /\ thread[u].entry \in Decoding => thread[u].c # c
              /\ thread[u].at \in Deciding \cup Looking \cup {"destroy"} => thread[u].s # s
              /\ s \notin thread[u].owned
  <2>1. thread[u] \in Thread /\ Fits(thread[u])
    BY DEF VaInv, VaTypeOK, Calls
  <2>2. thread[u].at = "begin" => thread[u].s # s
    BY <1>1, <2>1 DEF Fits, Placed, InCall
  <2> QED BY <1>1, <2>1, <2>2 DEF DecodesWith, BeingDestroyed, InCall, Fits, Placed, Deciding,
                     Looking
<1>11. Calls'
  <2>1. ASSUME NEW p \in Thread, Fits(p), p.entry \in Decoding => p.c # c,
               p.at \in Deciding \cup Looking \cup {"destroy"} => p.s # s, s \notin p.owned
        PROVE  Fits(p)'
    <3>1. /\ p.at \in Deciding \cup Looking \cup {"destroy"} => p.s \in Surfaces \ {s}
          /\ p.at \in Deciding \cup Leaving => p.entry \in Decoding
          /\ p.entry \in Decoding => p.c \in Contexts \ {c}
      BY <2>1, InHand DEF Fits
    <3>2. Placed(p)'
      BY <2>1 DEF Fits, Placed
    <3>3. Begun(p)'
      BY <1>1, <1>6, <2>1, <3>1 DEF Fits, Begun, Deciding
    <3>4. Submitting(p)'
      BY <1>1, <1>4, <1>6, <2>1, <3>1 DEF Fits, Submitting, Deciding
    <3>5. Owning(p)'
      BY <1>1, <1>4, <1>5, <1>6, <2>1, <3>1 DEF Fits, Owning, Decoding, m
    <3>6. Destroying(p)'
      BY <1>1, <1>4, <2>1, <3>1 DEF Fits, Destroying
    <3>7. LooksAt(p)'
      <4>1. p.at \in Looking => p.s \in Surfaces \ {s} /\ surface'[p.s] = surface[p.s]
        BY <1>4, <3>1
      <4>2. p.at \in Looking => (Settling(p.s) => Settling(p.s)')
        BY <4>1, Zenon DEF Settling
      <4> QED BY <1>1, <1>9, <2>1, <4>1, <4>2 DEF Fits, LooksAt
    <3> QED BY <3>2, <3>3, <3>4, <3>5, <3>6, <3>7 DEF Fits
  <2>2. Fits(r)'
    BY <1>1, <1>3, <1>6, Apart DEF Fits, Placed, Begun, Submitting, Owning, Destroying, LooksAt,
       Deciding, Looking, Decoding
  <2>3. ASSUME NEW u \in Threads, u # t
        PROVE  Fits(thread[u])'
    <3>1. thread[u] \in Thread /\ Fits(thread[u])
      BY DEF VaInv, VaTypeOK, Calls
    <3>2. \A p \in Thread :
            /\ Fits(p) /\ (p.entry \in Decoding => p.c # c)
            /\ p.at \in Deciding \cup Looking \cup {"destroy"} => p.s # s
            /\ s \notin p.owned
            => Fits(p)'
      BY <2>1
    <3> QED BY <1>7, <1>10, <2>3, <3>1, <3>2
  <2>4. Fits(thread[t])'
    BY <1>7, <2>2
  <2> QED BY <2>3, <2>4 DEF Calls
<1>12. OneDecodes' /\ OneDestroys'
  BY <1>1, <1>3, <1>7 DEF VaInv, OneDecodes, OneDestroys, DecodesWith
<1>13. Targets'
  BY <1>4, <1>5, Apart DEF VaInv, Targets, m
<1>14. Owners'
  <2> SUFFICES ASSUME NEW x \in Surfaces
               PROVE  Owned(x)'
    BY DEF Owners
  <2>1. Owned(x)
    BY DEF VaInv, Owners
  <2> QED BY <1>1, <1>4, <1>5, <1>7, <2>1 DEF Owned, m
<1>15. Contents'
  <2> SUFFICES ASSUME NEW d \in Contexts
               PROVE  Opened(d)' /\ Current(d)' /\ Holding(d)'
    BY DEF Contents
  <2>1. Opened(d) /\ Current(d) /\ Holding(d) /\ context[d] \in Context
    BY DEF VaInv, VaTypeOK, Contents
  <2>2. Opened(d)'
    BY <1>1, <1>6, <2>1 DEF Opened
  <2>3. d # c => context[d].current # s
    BY <1>1 DEF InCall
  <2>4. context[d].held # s
    BY <1>1 DEF Held
  <2>5. Current(d)'
    BY <1>1, <1>3, <1>4, <1>5, <1>6, <1>7, <2>1, <2>3 DEF Current, Context, m
  <2>6. Holding(d)'
    BY <1>1, <1>4, <1>6, <2>1, <2>4 DEF Holding, Context
  <2> QED BY <2>2, <2>5, <2>6
<1>16. Persistent'
  <2>1. \A x \in Surfaces : Persists(x)'
    BY <1>4, <1>5 DEF VaInv, Persistent, Persists, m
  <2>2. \A u \in Threads : thread'[u].at = "submit" =>
          thread'[u] = thread[u] /\ thread[u].s \in Surfaces \ {s}
    BY <1>3, <1>7, <1>10, InHand DEF VaInv, VaTypeOK, Calls, Fits, Deciding
  <2> QED BY <1>4, <2>1, <2>2 DEF VaInv, Persistent
<1> QED BY <1>8, <1>11, <1>12, <1>13, <1>14, <1>15, <1>16 DEF VaInv


\* A context hands the pictures it is at to a call, keeps one of them, or loses
\* them, while no other call decodes with it.
HandsOver(c, k) ==
  /\ c \in contexts /\ ~DecodesWith(c)
  /\ surfaces' = surfaces /\ contexts' = contexts /\ pending' = pending
  /\ surface' \in [Surfaces -> Surface]
  /\ \A x \in Surfaces :
       /\ surface'[x].owner = surface[x].owner
       /\ surface'[x].pending <=> surface[x].pending
       /\ surface'[x].publish = surface[x].publish
       /\ surface'[x].persistent_export = surface[x].persistent_export
       /\ surface'[x].completed = surface[x].completed
       /\ surface'[x].frame = surface[x].frame
       /\ surface'[x].error = surface[x].error
       /\ surface'[x].picture # surface[x].picture =>
            x \in {context[c].current, context[c].held}
  /\ context' = [context EXCEPT ![c] = k]
  /\ k \in Context /\ k.session = context[c].session /\ k.current = None
  /\ k.held \in {None, context[c].current, context[c].held}

\* What the call is given.
IsGiven(r, c, k) ==
  /\ r \in Thread /\ r.at \in {"idle", "policy", "finish"} /\ Placed(r)
  /\ r.entry \in Decoding => r.c = c
  /\ r.at = "policy" =>
       r.s \in surfaces \cap {context[c].current, context[c].held} /\ k.held # r.s
  /\ r.entry = "destroyContext" =>
       k.held = None /\ r.owned = {s \in surfaces : surface[s].owner = c}

\* A picture that a context hands to a call is not pending: the reuse of its surface
\* is over.
LEMMA HeldStill ==
  ASSUME VaInv, NEW c \in Contexts, ~DecodesWith(c),
         NEW s \in {context[c].current, context[c].held}, s # None
  PROVE  /\ s \in Surfaces /\ c \in contexts /\ ~surface[s].pending
         /\ s \in surfaces => surface[s].owner = c
<1>1. Current(c) /\ Holding(c) /\ context[c] \in Context
  BY DEF VaInv, VaTypeOK, Contents
<1>2. CASE s = context[c].held
  BY <1>1, <1>2 DEF Holding, Context
<1>3. CASE s = context[c].current
  <2>1. s \in Surfaces /\ c \in contexts /\ surface[s].owner = c
    BY <1>1, <1>3 DEF Current, Context
  <2>2. ASSUME NEW u \in Threads, thread[u].at = "begin", thread[u].s = s
        PROVE  FALSE
    <3>1. /\ thread[u] \in Thread /\ Fits(thread[u])
          /\ thread[u].entry \in Decoding /\ thread[u].c \in Contexts
      BY <2>2, InHand DEF VaInv, VaTypeOK, Calls, Fits, Deciding
    <3>2. context[thread[u].c].current = s
      BY <2>2, <3>1 DEF Fits, Begun
    <3>3. surface[s].owner = thread[u].c
      BY <3>1, <3>2 DEF VaInv, Contents, Current
    <3> QED BY <2>1, <3>1, <3>3 DEF DecodesWith
  <2> QED BY <1>1, <1>3, <2>1, <2>2 DEF Current
<1> QED BY <1>2, <1>3

\* A context hands over.
LEMMA HandsOverKeeps ==
  ASSUME VaInv, NEW t \in Threads, thread[t].at = "idle", NEW c \in Contexts, NEW k,
         HandsOver(c, k), NEW r, IsGiven(r, c, k), thread' = [thread EXCEPT ![t] = r]
  PROVE  VaInv'
<1>1. /\ c \in contexts /\ ~DecodesWith(c)
      /\ surfaces' = surfaces /\ contexts' = contexts /\ pending' = pending
      /\ surface' \in [Surfaces -> Surface] /\ k \in Context /\ r \in Thread
  BY DEF HandsOver, IsGiven
<1>2. ASSUME NEW x \in Surfaces
      PROVE  /\ surface'[x].owner = surface[x].owner
             /\ surface'[x].pending <=> surface[x].pending
             /\ surface'[x].publish = surface[x].publish
             /\ surface'[x].persistent_export = surface[x].persistent_export
             /\ surface'[x].completed = surface[x].completed
             /\ surface'[x].frame = surface[x].frame
             /\ Settling(x) => Settling(x)' \/ InDecode(x)
  BY DEF HandsOver, Settling, InDecode
<1>3. /\ context' \in [Contexts -> Context]
      /\ \A d \in Contexts : context'[d] = IF d = c THEN k ELSE context[d]
  BY DEF HandsOver, VaInv, VaTypeOK
<1>4. /\ k.session = context[c].session /\ k.current = None
      /\ k.held \in {None, context[c].current, context[c].held}
  BY DEF HandsOver
<1>5. /\ thread' \in [Threads -> Thread]
      /\ \A u \in Threads : thread'[u] = IF u = t THEN r ELSE thread[u]
  BY <1>1 DEF VaInv, VaTypeOK
<1>6. VaTypeOK'
  BY <1>1, <1>3, <1>5 DEF VaInv, VaTypeOK
<1>7. thread[t] = Idle
  BY DEF VaInv, Calls, Fits, Placed
<1>8. NoMoreInHand
  <2> SUFFICES ASSUME NEW x \in Surfaces
               PROVE  (InDecode(x)' => InDecode(x)) /\ (BeingReused(x)' => BeingReused(x))
    BY DEF NoMoreInHand
  <2>1. BeingReused(x)' => BeingReused(x)
    BY <1>5 DEF BeingReused, IsGiven
  <2>2. ASSUME NEW u \in Threads, thread'[u].at \in {"begin", "policy", "submit"},
               thread'[u].s = x
        PROVE  InDecode(x)
    <3>1. CASE u = t
      BY <1>5, <2>2, <3>1 DEF IsGiven, InDecode
    <3>2. CASE u # t
      BY <1>5, <2>2, <3>2 DEF InDecode
    <3> QED BY <3>1, <3>2
  <2>3. ASSUME NEW d \in Contexts, x \in {context'[d].current, context'[d].held}
        PROVE  InDecode(x)
    BY <1>3, <1>4, <2>3, Apart DEF InDecode
  <2> QED BY <2>1, <2>2, <2>3 DEF InDecode
<1>9. Calls'
  <2>1. ASSUME NEW p \in Thread, Fits(p), p.entry \in Decoding => p.c # c
        PROVE  Fits(p)'
    <3>1. /\ p.at \in Deciding \cup Looking \cup {"destroy"} => p.s \in Surfaces
          /\ p.at \in Deciding \cup Leaving => p.entry \in Decoding
          /\ p.entry \in Decoding => p.c \in Contexts \ {c}
      BY <2>1, InHand DEF Fits
    <3>2. Placed(p)'
      BY <2>1 DEF Fits, Placed
    <3>3. Begun(p)'
      BY <1>1, <1>3, <2>1, <3>1 DEF Fits, Begun, Deciding
    <3>4. Submitting(p)'
      BY <1>1, <1>2, <1>3, <2>1, <3>1 DEF Fits, Submitting, Deciding
    <3>5. Owning(p)'
      BY <1>1, <1>2, <1>3, <2>1, <3>1 DEF Fits, Owning, Decoding
    <3>6. Destroying(p)'
      BY <1>1, <1>2, <2>1, <3>1 DEF Fits, Destroying
    <3>7. LooksAt(p)'
      BY <1>1, <1>2, <1>8, <2>1, <3>1 DEF Fits, LooksAt, NoMoreInHand
    <3> QED BY <3>2, <3>3, <3>4, <3>5, <3>6, <3>7 DEF Fits
  <2>2. Fits(r)'
    <3>1. r.at = "policy" =>
            /\ r.s \in surfaces /\ r.s \in Surfaces /\ surface[r.s].owner = c
            /\ ~surface[r.s].pending /\ k.held # r.s /\ r.c = c
      <4> SUFFICES ASSUME r.at = "policy"
                   PROVE  /\ r.s \in surfaces /\ r.s \in Surfaces /\ surface[r.s].owner = c
                          /\ ~surface[r.s].pending /\ k.held # r.s /\ r.c = c
        OBVIOUS
      <4>1. /\ r.s \in surfaces /\ r.s \in {context[c].current, context[c].held}
            /\ k.held # r.s /\ r.s # None /\ r.entry \in Decoding
        BY Apart DEF IsGiven, Placed, Deciding, Decoding, VaInv, VaTypeOK
      <4>2. r.c = c
        BY <4>1 DEF IsGiven
      <4> QED BY <1>1, <4>1, <4>2, HeldStill
    <3>2. r.entry = "destroyContext" => r.c = c /\ k.held = None
      BY DEF IsGiven, Decoding
    <3>3. context[c].session # "none"
      BY <1>1 DEF VaInv, Contents, Opened
    <3>4. Placed(r)'
      BY DEF IsGiven, Placed
    <3>5. Submitting(r)'
      BY <1>1, <1>2, <1>3, <1>4, <3>1, Apart DEF IsGiven, Submitting
    <3>6. Owning(r)'
      BY <1>1, <1>2, <1>3, <1>4, <3>2, <3>3 DEF IsGiven, Owning
    <3> QED BY <3>4, <3>5, <3>6 DEF IsGiven, Fits, Begun, Destroying, LooksAt, Looking
  <2>3. ASSUME NEW u \in Threads, u # t
        PROVE  Fits(thread[u])'
    <3>1. thread[u] \in Thread /\ Fits(thread[u])
      BY DEF VaInv, VaTypeOK, Calls
    <3>2. thread[u].entry \in Decoding => thread[u].c # c
      BY <1>1 DEF DecodesWith
    <3>3. \A p \in Thread : Fits(p) /\ (p.entry \in Decoding => p.c # c) => Fits(p)'
      BY <2>1
    <3> QED BY <1>5, <2>3, <3>1, <3>2, <3>3
  <2>4. Fits(thread[t])'
    BY <1>5, <2>2
  <2> QED BY <2>3, <2>4 DEF Calls
<1>10. OneDecodes' /\ OneDestroys'
  BY <1>1, <1>5 DEF VaInv, OneDecodes, OneDestroys, DecodesWith, IsGiven
<1>11. Targets'
  BY <1>1, <1>2 DEF VaInv, Targets
<1>12. Owners'
  <2> SUFFICES ASSUME NEW x \in Surfaces
               PROVE  Owned(x)'
    BY DEF Owners
  <2>1. Owned(x)
    BY DEF VaInv, Owners
  <2> QED BY <1>1, <1>2, <1>5, <2>1 DEF Owned
<1>13. Contents'
  <2> SUFFICES ASSUME NEW d \in Contexts
               PROVE  Opened(d)' /\ Current(d)' /\ Holding(d)'
    BY DEF Contents
  <2>1. Opened(d) /\ Current(d) /\ Holding(d) /\ context[d] \in Context
    BY DEF VaInv, VaTypeOK, Contents
  <2>2. Opened(d)'
    BY <1>1, <1>3, <1>4, <2>1 DEF Opened
  <2>3. Current(d)'
    <3>1. \A u \in Threads : thread[u].at = "begin" => thread'[u] = thread[u]
      BY <1>5
    <3> QED BY <1>1, <1>2, <1>3, <1>4, <2>1, <3>1 DEF Current, Context
  <2>4. Holding(d)'
    <3>1. CASE d = c
      <4> SUFFICES ASSUME k.held # None
                   PROVE  Holding(d)'
        BY <1>3, <3>1 DEF Holding
      <4>1. /\ k.held \in Surfaces /\ ~surface[k.held].pending
            /\ k.held \in surfaces => surface[k.held].owner = c
        BY <1>1, <1>4, HeldStill
      <4> QED BY <1>1, <1>2, <1>3, <1>4, <3>1, <4>1 DEF Holding
    <3>2. CASE d # c
      BY <1>1, <1>2, <1>3, <2>1, <3>2 DEF Holding, Context
    <3> QED BY <3>1, <3>2
  <2> QED BY <2>2, <2>3, <2>4
<1>14. Persistent'
  <2>1. \A x \in Surfaces : Persists(x)'
    BY <1>2 DEF VaInv, Persistent, Persists
  <2>2. \A u \in Threads : thread'[u].at = "submit" =>
          thread'[u] = thread[u] /\ thread[u].s \in Surfaces
    BY <1>5, InHand DEF VaInv, VaTypeOK, Calls, Fits, Deciding, IsGiven
  <2> QED BY <1>2, <2>1, <2>2 DEF VaInv, Persistent
<1> QED BY <1>6, <1>9, <1>10, <1>11, <1>12, <1>13, <1>14 DEF VaInv


\* A call that is given a picture, or nothing.
LEMMA IsGivenOne ==
  ASSUME NEW c \in Contexts, NEW k, NEW x, VaInv, x \in surfaces,
         x \in {context[c].current, context[c].held}, k.held # x,
         NEW r, r = In("endPicture", "policy", x, c)
  PROVE  IsGiven(r, c, k)
<1>1. x \in Surfaces
  BY DEF VaInv, VaTypeOK
<1>2. r \in Thread
  BY <1>1 DEF In, Idle, Thread, Leaving, Decoding
<1>3. r.entry = "endPicture" /\ r.at = "policy" /\ r.s = x /\ r.c = c /\ r.owned = {}
  BY Enters
<1>4. Placed(r)
  BY <1>1, <1>3, Apart DEF Placed, Deciding, Looking, Decoding
<1> QED BY <1>2, <1>3, <1>4 DEF IsGiven

\* vaEndPicture fails, keeps the picture, or submits it or the one before.
LEMMA endPictureKeeps ==
  ASSUME VaInv, NEW t \in Threads, NEW c \in Contexts, endPicture(t, c)
  PROVE  VaInv'
<1> DEFINE s == context[c].current
           h == context[c].held
<1>1. /\ thread[t].at = "idle" /\ thread[t] = Idle /\ c \in contexts /\ ~DecodesWith(c)
      /\ s \in surfaces /\ s \in Surfaces /\ context[c] \in Context
      /\ surfaces' = surfaces /\ contexts' = contexts /\ pending' = pending
  BY DEF endPicture, VaInv, VaTypeOK, Calls, Fits, Placed
<1>2. h # s
  BY <1>1, Apart DEF VaInv, Contents, Holding
<1>3. \A k : IsGiven(Idle, c, k)
  BY AtRest DEF IsGiven, Fits, Decoding
<1>4. CASE Refused(c, s) /\ thread' = thread
  <2>1. PICK g \in {h, None} :
          /\ context' = [context EXCEPT ![c].current = None, ![c].held = g]
          /\ surface' = [x \in Surfaces |->
               CASE x = s -> [surface[s] EXCEPT !.failed = TRUE, !.picture = "lost"]
                 [] x # s /\ x = h /\ g = None -> [surface[x] EXCEPT !.picture = "lost"]
                 [] OTHER -> surface[x]]
    BY <1>4 DEF Refused
  <2> DEFINE k == [context[c] EXCEPT !.current = None, !.held = g]
  <2>2. context' = [context EXCEPT ![c] = k] /\ k \in Context /\ k.current = None /\ k.held = g
        /\ k.session = context[c].session
    BY <1>1, <2>1 DEF Context, VaInv, VaTypeOK
  <2> HIDE DEF k
  <2>3. ASSUME NEW x \in Surfaces
        PROVE  /\ surface'[x] \in Surface /\ surface'[x].owner = surface[x].owner
               /\ surface'[x].pending <=> surface[x].pending
               /\ surface'[x].publish = surface[x].publish
               /\ surface'[x].persistent_export = surface[x].persistent_export
               /\ surface'[x].completed = surface[x].completed
               /\ surface'[x].frame = surface[x].frame
               /\ surface'[x].error = surface[x].error
               /\ surface'[x].picture # surface[x].picture => x \in {s, h}
    <3>1. surface[x] \in Surface
      BY DEF VaInv, VaTypeOK
    <3>2. CASE x = s
      <4>1. surface'[x] = [surface[x] EXCEPT !.failed = TRUE, !.picture = "lost"]
        BY <2>1, <3>2
      <4> QED BY <3>1, <3>2, <4>1 DEF Surface, Pictures
    <3>3. CASE x # s /\ x = h /\ g = None
      <4>1. surface'[x] = [surface[x] EXCEPT !.picture = "lost"]
        BY <2>1, <3>3
      <4> QED BY <3>1, <3>3, <4>1 DEF Surface, Pictures
    <3>4. CASE x # s /\ ~(x = h /\ g = None)
      <4>1. surface'[x] = surface[x]
        BY <2>1, <3>4
      <4> QED BY <3>1, <4>1
    <3> QED BY <3>2, <3>3, <3>4
  <2>4. surface' \in [Surfaces -> Surface]
    BY <2>1, <2>3
  <2>5. HandsOver(c, k)
    BY <1>1, <2>2, <2>3, <2>4 DEF HandsOver
  <2>6. thread' = [thread EXCEPT ![t] = Idle]
    BY <1>1, <1>4 DEF VaInv, VaTypeOK
  <2> QED BY <1>1, <1>3, <2>5, <2>6, HandsOverKeeps
<1>5. ASSUME surface' = surface, NEW k \in Context, context' = [context EXCEPT ![c] = k],
             k.session = context[c].session, k.current = None, k.held \in {s, h}
      PROVE  HandsOver(c, k)
  BY <1>1, <1>5 DEF HandsOver, VaInv, VaTypeOK
<1>6. CASE /\ context' = [context EXCEPT ![c].current = None]
           /\ thread' = [thread EXCEPT ![t] = In("endPicture", "policy", s, c)]
           /\ surface' = surface
  <2> DEFINE k == [context[c] EXCEPT !.current = None]
  <2>1. context' = [context EXCEPT ![c] = k] /\ k \in Context /\ k.current = None /\ k.held = h
        /\ k.session = context[c].session
    BY <1>1, <1>6 DEF Context, VaInv, VaTypeOK
  <2> HIDE DEF k
  <2>2. HandsOver(c, k)
    BY <1>5, <1>6, <2>1
  <2>3. IsGiven(In("endPicture", "policy", s, c), c, k)
    BY <1>1, <1>2, <2>1, IsGivenOne
  <2> QED BY <1>1, <1>6, <2>2, <2>3, HandsOverKeeps
<1>7. CASE /\ context' = [context EXCEPT ![c].current = None, ![c].held = s]
           /\ IF h \in surfaces
              THEN thread' = [thread EXCEPT ![t] = In("endPicture", "policy", h, c)]
              ELSE thread' = thread
           /\ surface' = surface
  <2> DEFINE k == [context[c] EXCEPT !.current = None, !.held = s]
  <2>1. context' = [context EXCEPT ![c] = k] /\ k \in Context /\ k.current = None /\ k.held = s
        /\ k.session = context[c].session
    BY <1>1, <1>7 DEF Context, VaInv, VaTypeOK
  <2> HIDE DEF k
  <2>2. HandsOver(c, k)
    BY <1>5, <1>7, <2>1
  <2>3. CASE h \in surfaces
    <3>1. IsGiven(In("endPicture", "policy", h, c), c, k)
      BY <1>1, <1>2, <2>1, <2>3, IsGivenOne
    <3> QED BY <1>1, <1>7, <2>2, <2>3, <3>1, HandsOverKeeps
  <2>4. CASE h \notin surfaces
    <3>1. thread' = [thread EXCEPT ![t] = Idle]
      BY <1>1, <1>7, <2>4 DEF VaInv, VaTypeOK
    <3> QED BY <1>1, <1>3, <2>2, <3>1, HandsOverKeeps
  <2> QED BY <2>3, <2>4
<1> QED BY <1>4, <1>6, <1>7 DEF endPicture

\* vaDestroyContext collects the surfaces of its context.
LEMMA destroyContextKeeps ==
  ASSUME VaInv, NEW t \in Threads, NEW c \in Contexts, destroyContext(t, c)
  PROVE  VaInv'
<1> DEFINE h == context[c].held
           owned == {s \in surfaces : surface[s].owner = c}
           k == [context[c] EXCEPT !.held = None]
<1>1. /\ thread[t].at = "idle" /\ thread[t] = Idle /\ c \in contexts /\ ~DecodesWith(c)
      /\ context[c].current = None /\ context[c] \in Context
      /\ surfaces' = surfaces /\ contexts' = contexts /\ pending' = pending
      /\ context' = [context EXCEPT ![c].held = None]
  BY DEF destroyContext, VaInv, VaTypeOK, Calls, Fits, Placed
<1>2. /\ context' = [context EXCEPT ![c] = k] /\ k \in Context /\ k.current = None
      /\ k.held = None /\ k.session = context[c].session
  BY <1>1 DEF Context, VaInv, VaTypeOK
<1> HIDE DEF k
<1>3. CASE h # None /\ thread' = thread /\ surface' = [surface EXCEPT ![h].picture = "lost"]
  <2> DEFINE m == [surface[h] EXCEPT !.picture = "lost"]
  <2>1. h \in Surfaces
    BY <1>1, <1>3 DEF Context
  <2>2. /\ m \in Surface /\ m.owner = surface[h].owner /\ m.pending = surface[h].pending
        /\ m.publish = surface[h].publish
        /\ m.persistent_export = surface[h].persistent_export
        /\ m.completed = surface[h].completed /\ m.frame = surface[h].frame
        /\ m.error = surface[h].error
    BY <2>1 DEF VaInv, VaTypeOK, Surface, Pictures
  <2>3. surface' = [surface EXCEPT ![h] = m]
    BY <1>3
  <2> HIDE DEF m
  <2>4. surface' \in [Surfaces -> Surface]
        /\ \A x \in Surfaces : surface'[x] = IF x = h THEN m ELSE surface[x]
    BY <2>2, <2>3 DEF VaInv, VaTypeOK
  <2>5. HandsOver(c, k)
    BY <1>1, <1>2, <2>2, <2>4 DEF HandsOver
  <2>6. thread' = [thread EXCEPT ![t] = Idle] /\ IsGiven(Idle, c, k)
    BY <1>1, <1>3, AtRest DEF VaInv, VaTypeOK, IsGiven, Fits, Decoding
  <2> QED BY <1>1, <2>5, <2>6, HandsOverKeeps
<1>4. ASSUME NEW place, place = IF h \in surfaces THEN "policy" ELSE "finish", surface' = surface,
             thread' = [thread EXCEPT ![t] =
                          [In("destroyContext", place, h, c) EXCEPT !.owned = owned]]
      PROVE  VaInv'
  <2> DEFINE r == [In("destroyContext", place, h, c) EXCEPT !.owned = owned]
  <2>1. /\ r \in Thread /\ r.entry = "destroyContext" /\ r.at = place /\ r.s = h /\ r.c = c
        /\ r.owned = owned
    BY <1>1, <1>4 DEF In, Idle, Thread, Leaving, Decoding, Context, VaInv, VaTypeOK
  <2>2. thread' = [thread EXCEPT ![t] = r]
    BY <1>4
  <2> HIDE DEF r
  <2>3. place = "policy" => h \in surfaces /\ h # None
    BY <1>4, Apart DEF VaInv, VaTypeOK
  <2>4. place \in {"policy", "finish"}
    BY <1>4
  <2>5. Placed(r)
    BY <2>1, <2>3, <2>4, Apart DEF Placed, Deciding, Looking, Decoding
  <2>6. IsGiven(r, c, k)
    BY <1>2, <2>1, <2>3, <2>4, <2>5 DEF IsGiven
  <2>7. HandsOver(c, k)
    BY <1>1, <1>2, <1>4 DEF HandsOver, VaInv, VaTypeOK
  <2> QED BY <1>1, <2>2, <2>6, <2>7, HandsOverKeeps
<1> QED BY <1>3, <1>4 DEF destroyContext


\* destroyContext takes the context out of the table: the surfaces it owns are in
\* its hands.
LEMMA EraseKeeps ==
  ASSUME VaInv, NEW t \in Threads, Erase(t)
  PROVE  VaInv'
<1> DEFINE p == thread[t]
           c == p.c
<1>0. PICK r : r = [p EXCEPT !.at = "disown"]
  OBVIOUS
<1>1. /\ p \in Thread /\ Fits(p) /\ p.at = "erase" /\ p.entry = "destroyContext"
      /\ p.entry \in Decoding /\ c \in Contexts
      /\ surfaces' = surfaces /\ surface' = surface /\ context' = context
      /\ pending' = pending /\ contexts' = contexts \ {c}
      /\ thread' = [thread EXCEPT ![t] = r]
  BY <1>0, InHand DEF Erase, VaInv, VaTypeOK, Calls, Fits, Placed, Leaving
<1>2. /\ r \in Thread /\ r.entry = p.entry /\ r.at = "disown" /\ r.s = p.s /\ r.c = c
      /\ r.owned = p.owned
  BY <1>0, <1>1 DEF Thread, Leaving
<1>3. /\ context[c].current = None /\ context[c].held = None
      /\ \A s \in Surfaces : s \in p.owned <=> s \in surfaces /\ surface[s].owner = c
  BY <1>1 DEF Fits, Owning
<1>4. /\ thread' \in [Threads -> Thread]
      /\ \A u \in Threads : thread'[u] = IF u = t THEN r ELSE thread[u]
  BY <1>1, <1>2 DEF VaInv, VaTypeOK
<1>5. VaTypeOK'
  BY <1>1, <1>4 DEF VaInv, VaTypeOK
<1>6. NoMoreInHand
  BY <1>1, <1>2, <1>4 DEF NoMoreInHand, InDecode, BeingReused
<1>7. Calls'
  <2>1. ASSUME NEW q \in Thread, Fits(q), q.entry \in Decoding => q.c # c
        PROVE  Fits(q)'
    <3>1. /\ q.at \in Deciding \cup Looking \cup {"destroy"} => q.s \in Surfaces
          /\ q.at \in Deciding \cup Leaving => q.entry \in Decoding
      BY <2>1, InHand DEF Fits
    <3>2. Placed(q)'
      BY <2>1 DEF Fits, Placed
    <3>3. Begun(q)'
      BY <1>1, <2>1, <3>1 DEF Fits, Begun, Deciding
    <3>4. Submitting(q)'
      BY <1>1, <2>1, <3>1 DEF Fits, Submitting, Leaving
    <3>5. Owning(q)'
      BY <1>1, <2>1, <3>1 DEF Fits, Owning, Decoding
    <3>6. Destroying(q)'
      BY <1>1, <2>1 DEF Fits, Destroying
    <3>7. LooksAt(q)'
      BY <1>1, <1>6, <2>1, <3>1 DEF Fits, LooksAt, NoMoreInHand, Settling
    <3> QED BY <3>2, <3>3, <3>4, <3>5, <3>6, <3>7 DEF Fits
  <2>2. Fits(r)'
    BY <1>1, <1>2 DEF Fits, Placed, Begun, Submitting, Owning, Destroying, LooksAt, Looking,
                      Deciding, Decoding
  <2>3. ASSUME NEW u \in Threads, u # t
        PROVE  Fits(thread[u])'
    <3>1. thread[u] \in Thread /\ Fits(thread[u])
      BY DEF VaInv, VaTypeOK, Calls
    <3>2. thread[u].entry \in Decoding => thread[u].c # c
      BY <1>1, <2>3 DEF VaInv, OneDecodes
    <3>3. \A q \in Thread : Fits(q) /\ (q.entry \in Decoding => q.c # c) => Fits(q)'
      BY <2>1
    <3> QED BY <1>4, <2>3, <3>1, <3>2, <3>3
  <2>4. Fits(thread[t])'
    BY <1>4, <2>2
  <2> QED BY <2>3, <2>4 DEF Calls
<1>8. OneDecodes' /\ OneDestroys'
  BY <1>1, <1>2, <1>4 DEF VaInv, OneDecodes, OneDestroys
<1>9. Targets'
  BY <1>1 DEF VaInv, Targets
<1>10. Owners'
  <2> SUFFICES ASSUME NEW x \in Surfaces
               PROVE  Owned(x)'
    BY DEF Owners
  <2>1. Owned(x)
    BY DEF VaInv, Owners
  <2> QED BY <1>1, <1>2, <1>3, <1>4, <2>1 DEF Owned
<1>11. Contents'
  <2> SUFFICES ASSUME NEW d \in Contexts
               PROVE  Opened(d)' /\ Current(d)' /\ Holding(d)'
    BY DEF Contents
  <2>1. Opened(d) /\ Current(d) /\ Holding(d)
    BY DEF VaInv, Contents
  <2>2. \A u \in Threads : thread[u].at = "begin" => thread'[u] = thread[u]
    BY <1>1, <1>4
  <2>3. Current(d)'
    BY <1>1, <1>3, <2>1, <2>2 DEF Current
  <2>4. Opened(d)' /\ Holding(d)'
    BY <1>1, <1>3, <2>1 DEF Opened, Holding
  <2> QED BY <2>3, <2>4
<1>12. Persistent'
  <2>1. \A x \in Surfaces : Persists(x)'
    BY <1>1 DEF VaInv, Persistent, Persists
  <2> QED BY <1>1, <1>2, <1>4, <2>1 DEF VaInv, Persistent
<1> QED BY <1>5, <1>7, <1>8, <1>9, <1>10, <1>11, <1>12 DEF VaInv

\* The surfaces it owned are disowned one by one.  A call that still waits for one
\* of them finds it settled.
LEMMA DisownOne ==
  ASSUME VaInv, NEW t \in Threads, thread[t].at = "disown", NEW s \in thread[t].owned,
         NEW m \in Surface, surface' = [surface EXCEPT ![s] = m],
         m.owner = None, ~m.pending, m.publish = surface[s].publish,
         m.persistent_export = surface[s].persistent_export,
         m.completed => surface[s].completed /\ m.frame = surface[s].frame,
         Settling(s) => m.error \/ m.picture \in {"published", "dropped"},
         IF surface[s].pending THEN pending' = Forgotten(s, thread[t].c) ELSE pending' = pending,
         thread' = [thread EXCEPT ![t].owned = @ \ {s}],
         surfaces' = surfaces, contexts' = contexts, context' = context
  PROVE  VaInv'
<1> DEFINE p == thread[t]
           c == p.c
<1>0. PICK r : r = [p EXCEPT !.owned = @ \ {s}]
  OBVIOUS
<1>1. /\ p \in Thread /\ Fits(p) /\ p.entry = "destroyContext" /\ p.entry \in Decoding
      /\ p.at = "disown" /\ c \in Contexts /\ thread' = [thread EXCEPT ![t] = r]
  BY <1>0, InHand DEF VaInv, VaTypeOK, Calls, Fits, Placed, Leaving
<1>2. /\ r \in Thread /\ r.entry = p.entry /\ r.at = "disown" /\ r.s = p.s /\ r.c = c
      /\ r.owned = p.owned \ {s}
  BY <1>0, <1>1 DEF Thread, Leaving
<1>3. /\ context[c].current = None /\ context[c].held = None
      /\ \A x \in Surfaces : x \in p.owned <=> x \in surfaces /\ surface[x].owner = c
  BY <1>1 DEF Fits, Owning
<1>4. s \in Surfaces /\ s \in surfaces /\ surface[s].owner = c
  BY <1>1, <1>3 DEF Thread
<1>5. /\ thread' \in [Threads -> Thread]
      /\ \A u \in Threads : thread'[u] = IF u = t THEN r ELSE thread[u]
  BY <1>1, <1>2 DEF VaInv, VaTypeOK
<1>6. /\ surface' \in [Surfaces -> Surface]
      /\ \A x \in Surfaces : surface'[x] = IF x = s THEN m ELSE surface[x]
  BY <1>4 DEF VaInv, VaTypeOK
<1>7. /\ pending' \in [Contexts -> SUBSET Surfaces]
      /\ \A d \in Contexts : \A x \in Surfaces :
           x \in pending'[d] <=> x \in pending[d] /\ x # s
  <2>1. \A d \in Contexts : s \in pending[d] => surface[s].pending /\ d = c
    BY <1>4 DEF VaInv, Targets
  <2>2. CASE surface[s].pending
    <3>1. pending' = Forgotten(s, c)
      BY <2>2
    <3> HIDE DEF c
    <3> QED BY <1>4, <2>1, <3>1 DEF Forgotten, VaInv, VaTypeOK
  <2>3. CASE ~surface[s].pending
    BY <2>1, <2>3 DEF VaInv, VaTypeOK
  <2> QED BY <2>2, <2>3
<1>8. VaTypeOK'
  BY <1>5, <1>6, <1>7 DEF VaInv, VaTypeOK
<1>9. NoMoreInHand
  BY <1>1, <1>2, <1>5 DEF NoMoreInHand, InDecode, BeingReused
<1>10. \A u \in Threads \ {t} : thread[u].entry \in Decoding => thread[u].c # c
  BY <1>1 DEF VaInv, OneDecodes
<1>11. ~BeingReused(s) => ~InDecode(s)
  <2> SUFFICES ASSUME ~BeingReused(s), InDecode(s)
               PROVE  FALSE
    OBVIOUS
  <2>1. \/ s \in {context[c].current, context[c].held}
        \/ \E u \in Threads : thread[u].at \in {"policy", "submit"} /\ thread[u].c = c
    BY <1>4, HandsOwn
  <2>2. ASSUME NEW u \in Threads, thread[u].at \in {"policy", "submit"}, thread[u].c = c
        PROVE  FALSE
    <3>1. thread[u].entry \in Decoding /\ u # t
      BY <1>1, <2>2, InHand DEF VaInv, VaTypeOK, Calls, Fits, Leaving
    <3> QED BY <1>10, <2>2, <3>1
  <2> QED BY <1>3, <1>4, <2>1, <2>2, Apart
<1> HIDE DEF c
<1>12. Calls'
  <2>1. ASSUME NEW q \in Thread, Fits(q), q.entry \in Decoding => q.c # c
        PROVE  Fits(q)'
    <3>1. /\ q.at \in Deciding \cup Looking \cup {"destroy"} => q.s \in Surfaces
          /\ q.at \in Deciding \cup Leaving => q.entry \in Decoding
          /\ q.entry \in Decoding => q.c \in Contexts
      BY <2>1, InHand DEF Fits
    <3>2. Placed(q)'
      BY <2>1 DEF Fits, Placed
    <3>3. Begun(q)'
      BY <2>1 DEF Fits, Begun
    <3>4. Submitting(q)'
      BY <1>4, <1>6, <2>1, <3>1 DEF Fits, Submitting, Leaving
    <3>5. Owning(q)'
      BY <1>4, <1>6, <2>1, <3>1, Apart DEF Fits, Owning, Decoding
    <3>6. Destroying(q)'
      BY <1>4, <1>6, <2>1, <3>1 DEF Fits, Destroying
    <3>7. LooksAt(q)'
      <4>1. CASE q.s = s
        <5>1. q.at \in Looking => ~BeingReused(s)' /\ ~InDecode(s)'
          BY <1>4, <1>9, <1>11, <2>1, <4>1 DEF Fits, LooksAt, NoMoreInHand
        <5>2. q.at = "wait" => q.c # None /\ Settling(s)'
          BY <1>4, <1>6, <2>1, <4>1 DEF Fits, LooksAt, Settling, Looking
        <5> QED BY <1>4, <1>6, <4>1, <5>1, <5>2 DEF LooksAt
      <4>2. CASE q.s # s
        <5>1. q.at \in Looking => q.s \in Surfaces /\ surface'[q.s] = surface[q.s]
          BY <1>6, <3>1, <4>2
        <5>2. q.at \in Looking => (Settling(q.s) => Settling(q.s)')
          BY <5>1, Zenon DEF Settling
        <5> QED BY <1>9, <2>1, <5>1, <5>2 DEF Fits, LooksAt, NoMoreInHand
      <4> QED BY <4>1, <4>2
    <3> QED BY <3>2, <3>3, <3>4, <3>5, <3>6, <3>7 DEF Fits
  <2>2. Fits(r)'
    <3>1. Owning(r)'
      BY <1>1, <1>2, <1>3, <1>4, <1>6, Apart DEF Fits, Owning, c
    <3>2. Placed(r)'
      BY <1>1, <1>2 DEF Fits, Placed, Deciding, Looking, c
    <3> QED BY <1>2, <3>1, <3>2 DEF Fits, Begun, Submitting, Destroying, LooksAt, Looking
  <2>3. ASSUME NEW u \in Threads, u # t
        PROVE  Fits(thread[u])'
    <3>1. thread[u] \in Thread /\ Fits(thread[u])
      BY DEF VaInv, VaTypeOK, Calls
    <3>2. \A q \in Thread : Fits(q) /\ (q.entry \in Decoding => q.c # c) => Fits(q)'
      BY <2>1
    <3> QED BY <1>5, <1>10, <2>3, <3>1, <3>2
  <2>4. Fits(thread[t])'
    BY <1>5, <2>2
  <2> QED BY <2>3, <2>4 DEF Calls
<1>13. OneDecodes' /\ OneDestroys'
  BY <1>1, <1>2, <1>5 DEF VaInv, OneDecodes, OneDestroys, c
<1>14. Targets'
  BY <1>6, <1>7 DEF VaInv, Targets
<1>15. Owners'
  <2> SUFFICES ASSUME NEW x \in Surfaces
               PROVE  Owned(x)'
    BY DEF Owners
  <2>1. Owned(x)
    BY DEF VaInv, Owners
  <2> QED BY <1>1, <1>2, <1>5, <1>6, <2>1 DEF Owned
<1>16. Contents'
  <2> SUFFICES ASSUME NEW d \in Contexts
               PROVE  Opened(d)' /\ Current(d)' /\ Holding(d)'
    BY DEF Contents
  <2>1. Opened(d) /\ Current(d) /\ Holding(d) /\ context[d] \in Context
    BY DEF VaInv, VaTypeOK, Contents
  <2>2. \A u \in Threads : thread[u].at = "begin" => thread'[u] = thread[u]
    BY <1>1, <1>5
  <2>3. context[d].current # s /\ context[d].held # s
    BY <1>3, <1>4, <2>1, Apart DEF Current, Holding, c
  <2>4. Current(d)'
    BY <1>6, <2>1, <2>2, <2>3 DEF Current, Context
  <2>5. Opened(d)' /\ Holding(d)'
    BY <1>6, <2>1, <2>3 DEF Opened, Holding, Context
  <2> QED BY <2>4, <2>5
<1>17. Persistent'
  <2>1. \A x \in Surfaces : Persists(x)'
    BY <1>4, <1>6 DEF VaInv, Persistent, Persists
  <2>2. \A u \in Threads : thread'[u].at = "submit" =>
          thread'[u] = thread[u] /\ thread[u].s \in Surfaces
    BY <1>2, <1>5, InHand DEF VaInv, VaTypeOK, Calls, Fits, Deciding
  <2> QED BY <1>6, <2>1, <2>2 DEF VaInv, Persistent
<1> QED BY <1>8, <1>12, <1>13, <1>14, <1>15, <1>16, <1>17 DEF VaInv


\* Disowned with a picture still pending, the surface has dropped it.
LEMMA DisownKeeps ==
  ASSUME VaInv, NEW t \in Threads, Disown(t)
  PROVE  VaInv'
<1>1. /\ thread[t] \in Thread /\ Fits(thread[t]) /\ thread[t].at = "disown"
      /\ surfaces' = surfaces /\ contexts' = contexts /\ context' = context
  BY DEF Disown, VaInv, VaTypeOK, Calls
<1>2. ASSUME NEW s \in thread[t].owned, thread' = [thread EXCEPT ![t].owned = @ \ {s}],
             surface[s].pending, pending' = Forgotten(s, thread[t].c),
             surface' = [surface EXCEPT ![s] =
                           [Released(@) EXCEPT !.owner = None, !.picture = "dropped"]]
      PROVE  VaInv'
  <2> DEFINE q == Released(surface[s])
             m == [q EXCEPT !.owner = None, !.picture = "dropped"]
  <2>1. s \in Surfaces /\ surface[s] \in Surface
    BY <1>1 DEF Thread, VaInv, VaTypeOK
  <2>2. /\ q \in Surface /\ ~q.pending /\ ~q.completed /\ q.publish = surface[s].publish
        /\ q.persistent_export = surface[s].persistent_export
    BY <2>1 DEF Released, Surface
  <2>3. surface' = [surface EXCEPT ![s] = m]
    BY <1>2
  <2> HIDE DEF q
  <2>4. /\ m \in Surface /\ m.owner = None /\ ~m.pending /\ m.publish = surface[s].publish
        /\ m.persistent_export = surface[s].persistent_export /\ ~m.completed
        /\ m.picture = "dropped"
    BY <2>2 DEF Surface, Pictures
  <2> HIDE DEF m
  <2> QED BY <1>1, <1>2, <2>3, <2>4, DisownOne
<1>3. ASSUME NEW s \in thread[t].owned, thread' = [thread EXCEPT ![t].owned = @ \ {s}],
             ~surface[s].pending, pending' = pending,
             surface' = [surface EXCEPT ![s].owner = None]
      PROVE  VaInv'
  <2> DEFINE m == [surface[s] EXCEPT !.owner = None]
  <2>1. s \in Surfaces /\ surface[s] \in Surface
    BY <1>1 DEF Thread, VaInv, VaTypeOK
  <2>2. surface' = [surface EXCEPT ![s] = m]
    BY <1>3
  <2>3. /\ m \in Surface /\ m.owner = None /\ ~m.pending /\ m.publish = surface[s].publish
        /\ m.persistent_export = surface[s].persistent_export
        /\ m.completed = surface[s].completed /\ m.frame = surface[s].frame
        /\ m.error = surface[s].error /\ m.picture = surface[s].picture
    BY <1>3, <2>1 DEF Surface
  <2>4. Settling(s) => m.error \/ m.picture \in {"published", "dropped"}
    BY <1>3, <2>3 DEF Settling
  <2> HIDE DEF m
  <2> QED BY <1>1, <1>3, <2>2, <2>3, <2>4, DisownOne
<1>4. CASE /\ thread[t].owned = {} /\ thread' = [thread EXCEPT ![t] = Idle]
           /\ UNCHANGED <<surface, pending>>
  <2>1. Steady /\ NoExport
    BY <1>1, <1>4, NothingTouched DEF VaInv
  <2>2. Fits(Idle) /\ Follows(thread[t], Idle)
    BY <1>1, <1>4, EndsFit
  <2> QED BY <1>1, <1>4, <2>1, <2>2, AtRest, QuietlyKeeps
<1> QED BY <1>2, <1>3, <1>4 DEF Disown

\* A surface leaves the table: nobody else had it.
LEMMA destroySurfacesKeeps ==
  ASSUME VaInv, NEW t \in Threads, NEW s \in Surfaces, destroySurfaces(t, s)
  PROVE  VaInv'
<1>1. PICK r : r = In("destroySurfaces", "destroy", s, session_of(s))
  OBVIOUS
<1>2. /\ thread[t].at = "idle" /\ thread[t] = Idle /\ s \in surfaces /\ ~InCall(s)
      /\ ~BeingDestroyed(s) /\ surfaces' = surfaces \ {s} /\ contexts' = contexts
      /\ surface' = surface /\ context' = context /\ pending' = pending
      /\ thread' = [thread EXCEPT ![t] = r]
  BY <1>1 DEF destroySurfaces, VaInv, Calls, Fits, Placed
<1>3. surface[s].owner \in contexts \cup {None} /\ session_of(s) = surface[s].owner
  BY <1>2, OwnerHere DEF session_of
<1>4. /\ r.entry = "destroySurfaces" /\ r.at = "destroy" /\ r.s = s /\ r.c = surface[s].owner
      /\ r.owned = {} /\ r \in Thread
  BY <1>1, <1>3 DEF In, Idle, Thread, VaInv, VaTypeOK
<1>5. /\ thread' \in [Threads -> Thread]
      /\ \A u \in Threads : thread'[u] = IF u = t THEN r ELSE thread[u]
  BY <1>2, <1>4 DEF VaInv, VaTypeOK
<1>6. VaTypeOK'
  BY <1>2, <1>5 DEF VaInv, VaTypeOK
<1>7. NoMoreInHand
  BY <1>2, <1>4, <1>5 DEF NoMoreInHand, InDecode, BeingReused
<1>8. Calls'
  <2>1. ASSUME NEW q \in Thread, Fits(q), q.at \in Looking \cup {"policy", "submit"} => q.s # s,
               s \notin q.owned
        PROVE  Fits(q)'
    <3>1. q.at \in Deciding \cup Looking \cup {"destroy"} => q.s \in Surfaces
      BY <2>1, InHand DEF Fits
    <3>2. Placed(q)'
      BY <2>1 DEF Fits, Placed
    <3>3. Begun(q)'
      BY <1>2, <2>1 DEF Fits, Begun
    <3>4. Submitting(q)'
      BY <1>2, <2>1 DEF Fits, Submitting
    <3>5. Owning(q)'
      BY <1>2, <2>1 DEF Fits, Owning
    <3>6. Destroying(q)'
      BY <1>2, <2>1 DEF Fits, Destroying
    <3>7. LooksAt(q)'
      BY <1>2, <1>7, <2>1, <3>1 DEF Fits, LooksAt, NoMoreInHand, Settling
    <3> QED BY <3>2, <3>3, <3>4, <3>5, <3>6, <3>7 DEF Fits
  <2>2. Fits(r)'
    BY <1>2, <1>4, Apart DEF Fits, Placed, Begun, Submitting, Owning, Destroying, LooksAt,
       Looking, Deciding, Decoding
  <2>3. ASSUME NEW u \in Threads, u # t
        PROVE  Fits(thread[u])'
    <3>1. thread[u] \in Thread /\ Fits(thread[u])
      BY DEF VaInv, VaTypeOK, Calls
    <3>2. /\ thread[u].at \in Looking \cup {"policy", "submit"} => thread[u].s # s
          /\ s \notin thread[u].owned
      BY <1>2, <3>1 DEF InCall, BeingDestroyed, Fits, Placed
    <3>3. \A q \in Thread :
            /\ Fits(q) /\ (q.at \in Looking \cup {"policy", "submit"} => q.s # s)
            /\ s \notin q.owned
            => Fits(q)'
      BY <2>1
    <3> QED BY <1>5, <2>3, <3>1, <3>2, <3>3
  <2>4. Fits(thread[t])'
    BY <1>5, <2>2
  <2> QED BY <2>3, <2>4 DEF Calls
<1>9. OneDecodes'
  BY <1>4, <1>5 DEF VaInv, OneDecodes, Decoding
<1>10. OneDestroys'
  <2>1. \A u \in Threads : thread[u].at = "destroy" => thread[u].s # s
    BY <1>2 DEF VaInv, Calls, Fits, Destroying
  <2> QED BY <1>4, <1>5, <2>1 DEF VaInv, OneDestroys
<1>11. Targets'
  BY <1>2 DEF VaInv, Targets
<1>12. Owners'
  <2> SUFFICES ASSUME NEW x \in Surfaces
               PROVE  Owned(x)'
    BY DEF Owners
  <2>1. Owned(x)
    BY DEF VaInv, Owners
  <2> QED BY <1>2, <1>4, <1>5, <2>1 DEF Owned
<1>13. Contents'
  <2> SUFFICES ASSUME NEW d \in Contexts
               PROVE  Opened(d)' /\ Current(d)' /\ Holding(d)'
    BY DEF Contents
  <2>1. Opened(d) /\ Current(d) /\ Holding(d)
    BY DEF VaInv, Contents
  <2>2. context[d].current # s
    BY <1>2 DEF InCall
  <2>3. \A u \in Threads : thread[u].at = "begin" => thread'[u] = thread[u]
    BY <1>2, <1>5
  <2>4. Current(d)'
    BY <1>2, <2>1, <2>2, <2>3 DEF Current
  <2>5. Opened(d)' /\ Holding(d)'
    BY <1>2, <2>1 DEF Opened, Holding
  <2> QED BY <2>4, <2>5
<1>14. Persistent'
  <2>1. \A x \in Surfaces : Persists(x)'
    BY <1>2 DEF VaInv, Persistent, Persists
  <2> QED BY <1>2, <1>4, <1>5, <2>1 DEF VaInv, Persistent
<1> QED BY <1>6, <1>8, <1>9, <1>10, <1>11, <1>12, <1>13, <1>14 DEF VaInv

\* And it is gone: the context that owned it has let go of it.
LEMMA DestroyedKeeps ==
  ASSUME VaInv, NEW t \in Threads, Destroyed(t)
  PROVE  VaInv'
<1> DEFINE s == thread[t].s
           c == thread[t].c
<1>1. /\ thread[t] \in Thread /\ Fits(thread[t]) /\ thread[t].at = "destroy"
      /\ s \in Surfaces /\ s \notin surfaces /\ surface[s].owner = c
      /\ surfaces' = surfaces /\ contexts' = contexts /\ context' = context
      /\ thread' = [thread EXCEPT ![t] = Idle]
  BY InHand DEF Destroyed, VaInv, VaTypeOK, Calls, Fits, Destroying
<1>2. c \in Contexts \cup {None}
  BY <1>1 DEF Thread
<1>3. PICK f \in Surface :
        /\ f.owner = None /\ ~f.pending /\ ~f.persistent_export
        /\ surface' = [surface EXCEPT ![s] = f]
        /\ pending' \in [Contexts -> SUBSET Surfaces]
        /\ \A d \in Contexts : \A x \in Surfaces :
             x \in pending'[d] <=> x \in pending[d] /\ x # s
  <2>1. \A d \in Contexts : s \in pending[d] => d = c
    BY <1>1 DEF VaInv, Targets
  <2>2. Fresh \in Surface /\ Fresh.owner = None /\ ~Fresh.pending /\ ~Fresh.persistent_export
    BY DEF Fresh, Surface, Publish, Pictures
  <2>3. CASE c = None
    <3> DEFINE f == [Fresh EXCEPT !.pending = surface[s].pending]
    <3>1. surface[s].pending \in BOOLEAN /\ ~surface[s].pending
      BY <1>1, <2>3 DEF VaInv, VaTypeOK, Targets, Surface
    <3>2. f \in Surface /\ f.owner = None /\ ~f.pending /\ ~f.persistent_export
      BY <2>2, <3>1 DEF Surface
    <3>3. surface' = [surface EXCEPT ![s] = f] /\ pending' = pending
      BY <2>3 DEF Destroyed
    <3> HIDE DEF f
    <3> QED BY <2>1, <2>3, <3>2, <3>3, Apart DEF VaInv, VaTypeOK
  <2>4. CASE c # None
    <3>1. surface' = [surface EXCEPT ![s] = Fresh] /\ pending' = Forgotten(s, c)
      BY <2>4 DEF Destroyed
    <3>2. \A d \in Contexts : pending'[d] = IF d = c THEN pending[d] \ {s} ELSE pending[d]
      BY <3>1 DEF Forgotten, VaInv, VaTypeOK
    <3>3. pending' \in [Contexts -> SUBSET Surfaces]
      BY <3>1 DEF Forgotten, VaInv, VaTypeOK
    <3> HIDE DEF c, s
    <3> QED BY <2>1, <2>2, <3>1, <3>2, <3>3
  <2> QED BY <2>3, <2>4
<1> HIDE DEF s, c
<1>5. /\ surface' \in [Surfaces -> Surface]
      /\ \A x \in Surfaces : surface'[x] = IF x = s THEN f ELSE surface[x]
  BY <1>1, <1>3 DEF VaInv, VaTypeOK
<1>6. /\ thread' \in [Threads -> Thread]
      /\ \A u \in Threads : thread'[u] = IF u = t THEN Idle ELSE thread[u]
  BY <1>1, AtRest DEF VaInv, VaTypeOK
<1>7. VaTypeOK'
  BY <1>1, <1>3, <1>5, <1>6 DEF VaInv, VaTypeOK
<1>8. NoMoreInHand
  BY <1>1, <1>6, AtRest DEF NoMoreInHand, InDecode, BeingReused
<1>9. Calls'
  <2>1. ASSUME NEW q \in Thread, Fits(q), q.at = "destroy" => q.s # s
        PROVE  Fits(q)'
    <3>1. q.at \in Deciding \cup Looking \cup {"destroy"} => q.s \in Surfaces
      BY <2>1, InHand DEF Fits
    <3>2. Placed(q)'
      BY <2>1 DEF Fits, Placed
    <3>3. Begun(q)'
      BY <1>1, <2>1 DEF Fits, Begun
    <3>4. Submitting(q)'
      BY <1>1, <1>5, <2>1, <3>1 DEF Fits, Submitting, Deciding
    <3>5. Owning(q)'
      BY <1>1, <1>5, <2>1 DEF Fits, Owning
    <3>6. Destroying(q)'
      BY <1>1, <1>5, <2>1, <3>1 DEF Fits, Destroying
    <3>7. LooksAt(q)'
      <4>1. q.at \in Looking => q.s \in Surfaces /\ surface'[q.s] = surface[q.s]
        BY <1>1, <1>5, <2>1, <3>1 DEF Fits, LooksAt
      <4>2. q.at \in Looking => (Settling(q.s) => Settling(q.s)')
        BY <4>1, Zenon DEF Settling
      <4> QED BY <1>1, <1>8, <2>1, <4>1, <4>2 DEF Fits, LooksAt, NoMoreInHand
    <3> QED BY <3>2, <3>3, <3>4, <3>5, <3>6, <3>7 DEF Fits
  <2>2. Fits(Idle)'
    BY <2>1, AtRest
  <2>3. ASSUME NEW u \in Threads, u # t
        PROVE  Fits(thread[u])'
    <3>1. thread[u] \in Thread /\ Fits(thread[u])
      BY DEF VaInv, VaTypeOK, Calls
    <3>2. thread[u].at = "destroy" => thread[u].s # s
      BY <1>1, <2>3 DEF VaInv, OneDestroys, s
    <3>3. \A q \in Thread : Fits(q) /\ (q.at = "destroy" => q.s # s) => Fits(q)'
      BY <2>1
    <3> QED BY <1>6, <2>3, <3>1, <3>2, <3>3
  <2>4. Fits(thread[t])'
    BY <1>6, <2>2
  <2> QED BY <2>3, <2>4 DEF Calls
<1>10. OneDecodes' /\ OneDestroys'
  BY <1>6, AtRest DEF VaInv, OneDecodes, OneDestroys, Decoding
<1>11. Targets'
  BY <1>3, <1>5, Apart DEF VaInv, Targets
<1>12. Owners'
  <2> SUFFICES ASSUME NEW x \in Surfaces
               PROVE  Owned(x)'
    BY DEF Owners
  <2>1. Owned(x)
    BY DEF VaInv, Owners
  <2> QED BY <1>1, <1>3, <1>5, <1>6, <2>1 DEF Owned, s
<1>13. Contents'
  <2> SUFFICES ASSUME NEW d \in Contexts
               PROVE  Opened(d)' /\ Current(d)' /\ Holding(d)'
    BY DEF Contents
  <2>1. Opened(d) /\ Current(d) /\ Holding(d) /\ context[d] \in Context
    BY DEF VaInv, VaTypeOK, Contents
  <2>2. \A u \in Threads : thread[u].at = "begin" => thread'[u] = thread[u]
    BY <1>1, <1>6
  <2>3. Current(d)'
    BY <1>1, <1>5, <2>1, <2>2 DEF Current, Context
  <2>4. Opened(d)' /\ Holding(d)'
    BY <1>1, <1>3, <1>5, <2>1 DEF Opened, Holding, Context
  <2> QED BY <2>3, <2>4
<1>14. Persistent'
  <2>1. \A x \in Surfaces : Persists(x)'
    BY <1>3, <1>5 DEF VaInv, Persistent, Persists
  <2>2. \A u \in Threads : thread'[u].at = "submit" =>
          /\ thread'[u] = thread[u] /\ thread[u].s \in Surfaces \ {s}
    <3> SUFFICES ASSUME NEW u \in Threads, thread'[u].at = "submit"
                 PROVE  thread'[u] = thread[u] /\ thread[u].s \in Surfaces \ {s}
      OBVIOUS
    <3>1. thread'[u] = thread[u]
      BY <1>6, AtRest
    <3>2. thread[u] \in Thread /\ Fits(thread[u])
      BY DEF VaInv, VaTypeOK, Calls
    <3> QED BY <1>1, <3>1, <3>2, InHand DEF Fits, Submitting, Deciding
  <2> QED BY <1>5, <2>1, <2>2 DEF VaInv, Persistent
<1> QED BY <1>7, <1>9, <1>10, <1>11, <1>12, <1>13, <1>14 DEF VaInv
-----------------------------------------------------------------------------
(* What holds always.                                                      *)

\* The client has its surfaces, and has done nothing with them.
LEMMA VaInitHolds == VaInit => VaInv
<1> SUFFICES ASSUME VaInit
             PROVE  VaInv
  OBVIOUS
<1>1. Fresh \in Surface /\ Fresh.owner = None /\ ~Fresh.pending /\ ~Fresh.persistent_export
  BY DEF Fresh, Surface, Publish, Pictures
<1>2. /\ NoContext \in Context /\ NoContext.current = None /\ NoContext.held = None
  BY DEF NoContext, Context
<1>3. VaTypeOK
  BY <1>1, <1>2, AtRest DEF VaInit, VaTypeOK
<1>4. Calls /\ OneDecodes /\ OneDestroys
  BY AtRest DEF VaInit, Calls, OneDecodes, OneDestroys, Decoding
<1>5. Targets /\ Owners /\ Persistent
  BY <1>1, AtRest DEF VaInit, Targets, Owners, Owned, Persistent, Persists
<1>6. Contents
  BY <1>2 DEF VaInit, Contents, Opened, Current, Holding
<1> QED BY <1>3, <1>4, <1>5, <1>6 DEF VaInv

\* Every step keeps the invariant, one lemma for each.
LEMMA VaStep == VaInv /\ [VaNext]_vaVars => VaInv'
<1> SUFFICES ASSUME VaInv, [VaNext]_vaVars
             PROVE  VaInv'
  OBVIOUS
<1>1. CASE UNCHANGED vaVars
  <2>1. /\ surfaces' = surfaces /\ contexts' = contexts /\ surface' = surface
        /\ context' = context /\ pending' = pending /\ thread' = thread
    BY <1>1 DEF vaVars
  <2>2. VaTypeOK' /\ OneDecodes' /\ OneDestroys' /\ Targets'
    BY <2>1 DEF VaInv, VaTypeOK, OneDecodes, OneDestroys, Targets
  <2>3. Calls'
    BY <2>1 DEF VaInv, Calls, Fits, Placed, Begun, Submitting, Owning, Destroying, LooksAt,
                BeingReused, InDecode, Settling
  <2>4. Owners' /\ Contents' /\ Persistent'
    BY <2>1 DEF VaInv, Owners, Owned, Contents, Opened, Current, Holding, Persistent, Persists
  <2> QED BY <2>2, <2>3, <2>4 DEF VaInv
<1>2. ASSUME NEW t \in Threads, Otherwise(t)
      PROVE  VaInv'
  <2>1. ASSUME NEW c \in Contexts,
               \/ \E targets \in {{}, Surfaces} : createContext(t, c, targets)
               \/ \E s \in Surfaces : beginPicture(t, c, s)
               \/ endPicture(t, c) \/ destroyContext(t, c)
        PROVE  VaInv'
    BY <2>1, createContextKeeps, beginPictureKeeps, endPictureKeeps, destroyContextKeeps
  <2>2. ASSUME NEW s \in Surfaces,
               \/ \E entry \in {"sync", "export"} : Look(t, s, entry)
               \/ querySurfaceStatus(t, s) \/ destroySurfaces(t, s)
        PROVE  VaInv'
    BY <2>2, LookKeeps, querySurfaceStatusKeeps, destroySurfacesKeeps
  <2> QED BY <1>2, <2>1, <2>2, ReuseKeeps, PolicyKeeps, SubmitKeeps, FinishKeeps, EraseKeeps,
             DisownKeeps, pumpKeeps, ExportKeeps, DestroyedKeeps DEF Otherwise
<1> QED BY <1>1, <1>2, wait_forKeeps, WaitReturnsKeeps, WaitExpiresKeeps, failKeeps DEF VaNext

\* And so it holds in every reachable state.
LEMMA AlwaysVa == VaSpec => []VaInv
<1>1. VaInv /\ [VaNext]_vaVars => VaInv'
  BY VaStep
<1> QED BY <1>1, VaInitHolds, PTL DEF VaSpec


\* Whatever the threads do, a target is pending in one session at most, and the
\* flag the entry points read says so (driver.h:45, picture.cc:195).
THEOREM PendingInOne == VaSpec => []OnePending
<1>1. VaInv => OnePending
  <2> SUFFICES ASSUME VaInv, NEW s \in Surfaces
               PROVE  Cardinality({c \in Contexts : s \in pending[c]})
                        = IF surface[s].pending THEN 1 ELSE 0
    BY DEF OnePending
  <2>1. CASE surface[s].pending
    <3> DEFINE owner == surface[s].owner
    <3>1. owner \in Contexts
      BY <2>1 DEF VaInv, VaTypeOK, Targets, Surface
    <3>2. {c \in Contexts : s \in pending[c]} = {owner}
      BY <2>1, <3>1 DEF VaInv, Targets
    <3> HIDE DEF owner
    <3>3. Cardinality({owner}) = 1
      BY FS_Singleton, Zenon
    <3> QED BY <2>1, <3>2, <3>3
  <2>2. CASE ~surface[s].pending
    <3>1. {c \in Contexts : s \in pending[c]} = {}
      BY <2>2 DEF VaInv, Targets
    <3> QED BY <2>2, <3>1, FS_EmptySet
  <2> QED BY <2>1, <2>2
<1> QED BY <1>1, AlwaysVa, PTL

\* No session points into a surface that is gone, and no thread submits to or waits
\* in a session it does not have (surface.cc:58, surface.cc:151).
THEOREM NothingDangles == VaSpec => []NoDangling
<1>1. VaInv => NoDangling
  <2> SUFFICES ASSUME VaInv
               PROVE  NoDangling
    OBVIOUS
  <2>1. ASSUME NEW c \in Contexts, NEW s \in pending[c]
        PROVE  s \in surfaces \/ \E t \in Threads : thread[t].at = "destroy" /\ thread[t].s = s
    <3>1. s \in Surfaces /\ surface[s].owner # None
      BY <2>1, Apart DEF VaInv, VaTypeOK, Targets
    <3>2. Owned(s)
      BY <3>1 DEF VaInv, Owners
    <3>3. \A t \in Threads : s \in thread[t].owned => s \in surfaces
      BY <3>1 DEF VaInv, Calls, Fits, Placed, Owning
    <3> QED BY <3>1, <3>2, <3>3 DEF Owned
  <2>2. ASSUME NEW t \in Threads, thread[t].at \in {"submit", "wait"}
        PROVE  thread[t].c # None
    <3>1. Fits(thread[t]) /\ thread[t].at \in Leaving \cup Looking
      BY <2>2 DEF VaInv, Calls, Leaving, Looking
    <3> QED BY <2>2, <3>1 DEF Fits, Placed, LooksAt, Decoding, Looking
  <2> QED BY <2>1, <2>2 DEF NoDangling
<1> QED BY <1>1, AlwaysVa, PTL

\* Every pending picture has a context in the table, or a call on its way out, that
\* will complete it or let go of it (picture.cc:158, surface.cc:151).
THEOREM EveryPictureServed == VaSpec => []SomebodyServes
<1>1. VaInv => SomebodyServes
  <2> SUFFICES ASSUME VaInv, NEW c \in Contexts, NEW s \in pending[c]
               PROVE  \/ c \in contexts
                      \/ \E t \in Threads : thread[t].c = c /\
                           \/ thread[t].at = "disown" /\ s \in thread[t].owned
                           \/ thread[t].at = "destroy" /\ s = thread[t].s
    BY DEF SomebodyServes
  <2>1. s \in Surfaces /\ surface[s].owner = c /\ c # None
    BY Apart DEF VaInv, VaTypeOK, Targets
  <2>2. Owned(s)
    BY <2>1 DEF VaInv, Owners
  <2>3. ASSUME NEW t \in Threads, s \in thread[t].owned
        PROVE  thread[t].c = c
    BY <2>1, <2>3 DEF VaInv, Calls, Fits, Placed, Owning
  <2>4. ASSUME NEW t \in Threads, thread[t].at = "destroy", thread[t].s = s
        PROVE  thread[t].c = c
    BY <2>1, <2>4 DEF VaInv, Calls, Fits, Destroying
  <2> QED BY <2>1, <2>2, <2>3, <2>4 DEF Owned
<1> QED BY <1>1, AlwaysVa, PTL

\* A surface that was imported before it was decoded never shows a CAPTURE slot
\* instead of its stable buffer (surface.cc:271, driver.cc:74).
THEOREM ImportedSurfacesShow == VaSpec => []PersistentPixels
<1>1. VaInv => PersistentPixels
  BY DEF VaInv, Persistent, Persists, PersistentPixels
<1> QED BY <1>1, AlwaysVa, PTL

\* A vaSyncSurface that waited reports SUCCESS only for a picture that was published,
\* or that a destroyContext let go of, whatever the other threads do meanwhile
\* (architecture.md:358, surface.cc:58).
THEOREM WaitsTellTruth == VaSpec => []WaitIsHonest
<1>1. VaInit => WaitIsHonest
  BY DEF VaInit, WaitIsHonest
<1>2. VaInv /\ WaitIsHonest /\ [VaNext]_vaVars => WaitIsHonest'
  <2> SUFFICES ASSUME VaInv, WaitIsHonest, [VaNext]_vaVars
               PROVE  WaitIsHonest'
    OBVIOUS
  <2>1. CASE UNCHANGED vaVars
    BY <2>1 DEF vaVars, WaitIsHonest
  <2>2. CASE answer' = None
    BY <2>2 DEF WaitIsHonest
  <2>3. ASSUME NEW t \in Threads, wait_for(t)
        PROVE  WaitIsHonest'
    <3>1. thread[t].at # "wait"
      BY <2>3 DEF wait_for
    <3>2. ASSUME NEW status, Answers(t, status)
          PROVE  answer' = None \/ ~answer'.waited
      BY <3>1, <3>2 DEF Answers
    <3>3. answer' = None \/ ~answer'.waited
      BY <2>3, <3>2 DEF wait_for
    <3> QED BY <3>3 DEF WaitIsHonest
  <2>4. ASSUME NEW t \in Threads, WaitExpires(t)
        PROVE  WaitIsHonest'
    BY <2>2, <2>4 DEF WaitExpires, Answers
  <2>5. ASSUME NEW t \in Threads, fail(t)
        PROVE  WaitIsHonest'
    BY <2>2, <2>5 DEF fail, Answers
  <2>6. ASSUME NEW t \in Threads, WaitReturns(t)
        PROVE  WaitIsHonest'
    <3> DEFINE s == thread[t].s
    <3>1. /\ thread[t] \in Thread /\ Fits(thread[t]) /\ thread[t].at = "wait"
          /\ thread[t].at \in Looking /\ s \in Surfaces /\ ~surface[s].pending
      BY <2>6, InHand DEF VaInv, VaTypeOK, Calls, Fits, WaitReturns, Looking
    <3>2. surface[s].error \/ surface[s].picture \in {"published", "dropped"}
      BY <3>1 DEF Fits, LooksAt, Settling
    <3>3. surface'[s].picture = surface[s].picture
      BY <2>6, <3>1 DEF WaitReturns, VaInv, VaTypeOK, Surface
    <3>4. answer' # None => ~surface[s].error /\ answer'.s = s
      BY <2>6 DEF WaitReturns, Answers
    <3> QED BY <3>2, <3>3, <3>4 DEF WaitIsHonest
  <2> QED BY <2>1, <2>2, <2>3, <2>4, <2>5, <2>6 DEF VaNext
<1> QED BY <1>1, <1>2, AlwaysVa, PTL DEF VaSpec
=============================================================================
