---------------------------- MODULE VideoSystem ----------------------------
(***************************************************************************)
(* Uploads, transcoding jobs and DELETE requests over the same two stores, *)
(* and what their interleavings must preserve.                             *)
(***************************************************************************)
EXTENDS VideoPipeline, FileDeletion

vars == <<storeVars, videoVars, deleteVars>>

(* Every variable holds a value of its kind.                               *)
TypeOK == StoreTypeOK /\ VideoTypeOK /\ DeleteTypeOK

Init == StoreInit /\ VideoInit /\ DeleteInit

Next ==
  \/ VideoNext /\ UNCHANGED deleteVars
  \/ DeleteNext /\ UNCHANGED videoVars

Spec == Init /\ [][Next]_vars

FairSpec == Spec /\ VideoFairness /\ DeleteFairness

(***************************************************************************)
(* Who is doing what.                                                      *)
(***************************************************************************)
Answered == {"idle", "accepted", "duplicate", "rejected"}

(* No request is being served and no job is waiting or running.            *)
Quiet ==
  /\ \A u \in Uploads : upc[u] \in Answered /\ job[u] # "pending"
  /\ \A d \in Deleters : dpc[d] \in DeleteAnswered

RolledBack(u) == upc[u] \in {"unstage", "rejected"}

(***************************************************************************)
(* Safety.                                                                 *)
(***************************************************************************)

(* The object a ready video's row points at is in the store, until a       *)
(* DELETE of that video withdraws it: no delivery of the job, clean-up of  *)
(* a failed step or concurrent DELETE takes away an object that mark_ready *)
(* has published (tasks.py 504-529, management.py 239-245).                *)
ReadyHasObject ==
  \A u \in Uploads :
    rows[u].status = "ready" => rows[u].key \in objects \/ Withdrawn(u)

(* No row is stuck `processing` with nobody left to settle it: its request *)
(* is still going to queue the job or roll the row back, or the job is in  *)
(* the stream (the purpose stated at upload.py 812-814).                   *)
ProcessingIsOwned ==
  \A u \in Uploads :
    rows[u].status = "processing" =>
      upc[u] \in {"enqueue", "rollback"} \/ job[u] = "pending"

(* A worker that finds no row was overtaken by a DELETE or by the roll-    *)
(* back of a failed enqueue; it never runs ahead of the INSERT (upload.py  *)
(* 773-776).                                                               *)
JobHasRecord ==
  \A u \in Uploads :
    wpc[u] # "idle" /\ ~Exists(u) => DeleteRequested(u) \/ RolledBack(u)

(* "Matching an active `processing` video [...] attaches the caller to the *)
(* in-flight job" (readme.md 186-187): a duplicate upload is answered with *)
(* a row that stays.  It is lost only to a DELETE, or to the roll-back of  *)
(* the upload that created it, whose enqueue failed after the duplicate    *)
(* was answered (upload.py 740-758, 811-819).                              *)
AttachedRowKept ==
  \A u \in Uploads :
    upc[u] = "duplicate" /\ ~Exists(attached[u]) =>
      DeleteRequested(attached[u]) \/ RolledBack(attached[u])

(* What a DELETE reported deleted does not come back, neither the row nor  *)
(* the object it named, whatever the job and its deliveries do afterwards  *)
(* (mark_ready and mark_failed find no row, postgres.py 367-405; a failed  *)
(* removal is reported, management.py 244-248).                            *)
NoResurrection ==
  \A d \in Deleters :
    dpc[d] = "deleted" => ~Exists(did[d]) /\ dsnap[d].key \notin objects

(* The webhooks queued for a video agree with its record (tasks.py 535,    *)
(* 542-548).                                                               *)
EventsMatchRecord ==
  \A u \in Uploads :
    /\ <<u, "video.completed">> \in events => rows[u].status \in {"ready", "none"}
    /\ <<u, "video.failed">> \in events => rows[u].status \in {"failed", "none"}

(* When everything has come to rest, an object no row points at is the     *)
(* output of a job that published and announced its video between the      *)
(* SELECT and the DELETE of a request to delete it.  Every other path      *)
(* through upload, job and DELETE cleans up after itself, if the deletes   *)
(* that do so succeed and no worker dies (upload.py 789-823, tasks.py      *)
(* 517-529 and 551, management.py 239-255).                                *)
PublishedWhileDeleted(u) ==
  /\ <<u, "video.completed">> \in events
  /\ \E d \in Deleters :
       did[d] = u /\ dpc[d] = "deleted" /\ dsnap[d].status = "processing"

StrandedOnlyByRace ==
  Quiet =>
    \A k \in objects :
      \/ Referenced(k)
      \/ k.dir = "videos" /\ \E u \in Uploads : k.tag \in {u} \X Runs /\ PublishedWhileDeleted(u)

(* The docstring of delete_upload (management.py 221-225): the object is   *)
(* removed first and a worker that finds no row discards its output, "so   *)
(* no orphan is left either way".                                          *)
NoOrphanLeft == Quiet => \A k \in objects : Referenced(k)

(* mark_ready flips a processing row to ready (store.py 136-139), and a    *)
(* video goes from processing to ready or to failed (readme.md 162): a     *)
(* settled row does not change its status again.                           *)
SettledIsFinal ==
  [][\A u \in Uploads :
       rows[u].status \in {"ready", "failed"} =>
         rows'[u].status \in {rows[u].status, "none"}]_rows

(***************************************************************************)
(* Liveness, under FairSpec.                                               *)
(***************************************************************************)

(* A video does not stay `processing`: it is settled, or its row is gone.  *)
ProcessingEnds ==
  \A u \in Uploads : rows[u].status = "processing" ~> rows[u].status # "processing"

(* The staged raw object is temporary: whether the request fails half way, *)
(* the job fails, or workers die, it is removed in the end (upload.py      *)
(* 791-793 and 817-818, tasks.py 550-551).                                 *)
StagedRaw(u) == \E vis \in Visibilities : Key("raw/videos", vis, u) \in objects

RawReclaimed == \A u \in Uploads : StagedRaw(u) ~> ~StagedRaw(u)

(***************************************************************************)
(* The system implements the life cycle its owner sees.  A row that is     *)
(* absent before the INSERT was never registered; absent later it is gone. *)
(***************************************************************************)
ObservedState(u) ==
  IF Exists(u) THEN rows[u].status
  ELSE IF upc[u] \in {"idle", "stage", "create"} THEN "none"
  ELSE "gone"

Lifecycle ==
  INSTANCE VideoLifecycle
    WITH state  <- [u \in Uploads |-> ObservedState(u)],
         served <- [u \in Uploads |-> rows[u].status = "ready" /\ rows[u].key \in objects]

(* Every step of handlers, workers and failures is a step of the life      *)
(* cycle or invisible to the owner, and no video is processed for ever.    *)
ImplementsLifecycle == Lifecycle!FairSpec

=============================================================================
