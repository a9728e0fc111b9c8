--------------------------- MODULE DecodePromise ---------------------------
(***************************************************************************)
(* What a decode session promises the surfaces of a context, without a     *)
(* decoder, a pool or a queue: docs/architecture.md section 10, invariants *)
(* 1, 4 and 8, and the comments of session.h.  Session implements it.      *)
(*                                                                         *)
(* Every picture accepted for a surface has one fate, decided once.  What  *)
(* a surface shows is its own picture, until the client lets go of it.  A  *)
(* sync is answered SUCCESS only for a picture that is there.              *)
(***************************************************************************)
EXTENDS Naturals

CONSTANTS Targets, MaxToken

VARIABLES
  fate,     \* of each target's picture
  picture,  \* each target's picture: the pictures accepted are 1, 2, ...
  shows,    \* the picture in each target's pixels, 0 if it shows none
  answer,   \* of each target's latest sync
  last,     \* pictures accepted so far
  open      \* the session still accepts pictures

promiseVars == <<fate, picture, shows, answer, last, open>>

Fates   == {"none", "pending", "published", "failed"}
\* flushing: the sync is past its deadline and has one last flush under way.
Answers == {"idle", "asked", "flushing", "ok", "error"}

PromiseInit ==
  /\ fate = [t \in Targets |-> "none"] /\ picture = [t \in Targets |-> 0]
  /\ shows = [t \in Targets |-> 0]
  /\ answer = [t \in Targets |-> "idle"] /\ last = 0 /\ open = TRUE

PendingTargets == {t \in Targets : fate[t] = "pending"}
Lost(f, S) == [t \in Targets |-> IF t \in S THEN "failed" ELSE f[t]]
-----------------------------------------------------------------------------
(* A step decides fates, and may answer a sync or close the session with   *)
(* it.  In every step some pending pictures S may be lost: one, a pair     *)
(* that landed in each other's buffers, all of them when the session dies. *)

\* A new picture for t, which shows nothing from now on.
Accept(t, S) ==
  /\ open /\ last < MaxToken /\ fate[t] # "pending"
  /\ last' = last + 1
  /\ picture' = [picture EXCEPT ![t] = last + 1]
  /\ fate' = Lost([fate EXCEPT ![t] = "pending"], S)
  /\ shows' = [shows EXCEPT ![t] = 0]

\* The picture of t is there.
Publish(t, S) ==
  /\ fate[t] = "pending" /\ t \notin S
  /\ fate' = Lost([fate EXCEPT ![t] = "published"], S)
  /\ shows' = [shows EXCEPT ![t] = picture[t]]
  /\ UNCHANGED <<picture, last>>

Lose(S) == fate' = Lost(fate, S) /\ UNCHANGED <<picture, shows, last>>

\* The client lets go of t, or submits into it while it is pending.
Release(t, S) ==
  /\ fate' = [Lost(fate, S) EXCEPT ![t] = "none"]
  /\ picture' = [picture EXCEPT ![t] = 0]
  /\ shows' = [shows EXCEPT ![t] = 0]
  /\ UNCHANGED last

\* One sync is asked or answered, goes on to a flush or comes back from it, or
\* is forgotten with its target's picture.  An error for a picture that is
\* there: the session is gone, or the flush failed after it had brought it.
Sync(t) ==
  \E a \in Answers :
    /\ answer' = [answer EXCEPT ![t] = a]
    /\ a = "asked" => \/ answer[t] = "flushing"
                      \/ answer[t] # "asked" /\ fate[t] = "pending"
    /\ a = "flushing" => answer[t] = "asked" /\ fate[t] = "pending"
    /\ a = "ok" => fate'[t] \in {"published", "none"}
    /\ a = "error" => fate'[t] # "published" \/ ~open' \/ answer[t] = "flushing"
    /\ a = "idle" => answer[t] \notin {"asked", "flushing"}

PromiseNext ==
  /\ \E S \in SUBSET PendingTargets :
       Lose(S) \/ \E t \in Targets :
         Accept(t, S) \/ Publish(t, S) \/ Release(t, S)
  /\ UNCHANGED answer \/ \E t \in Targets : Sync(t)
  /\ open' \in {open, FALSE}

PromiseSpec == PromiseInit /\ [][PromiseNext]_promiseVars
=============================================================================
