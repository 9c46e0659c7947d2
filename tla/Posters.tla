------------------------------- MODULE Posters -------------------------------
(***************************************************************************)
(* Posters on request: POST /files/{id}/poster (app/routers/posters.py)    *)
(* and the job it queues (generate_poster_task, app/tasks.py), which       *)
(* extracts a frame of a ready video, stores it as an image of its own and *)
(* links the video to it.  The module starts where VideoPipeline ends,     *)
(* with videos that are ready.                                             *)
(***************************************************************************)
EXTENDS MediaStore

CONSTANTS
  Videos,          (* videos that are ready                                *)
  PosterRequests   (* poster requests; the delivery of a request's job     *)
                   (* names the poster row it creates                      *)

ASSUME PosterAssumption ==
  /\ Videos \cup PosterRequests = Uploads
  /\ Videos \cap PosterRequests = {}
  /\ MaxRuns > 0

VARIABLES
  qpc,        (* where each request handler is                             *)
  target,     (* the video the request names                               *)
  seen,       (* the poster of that video as the handler read it           *)
  pjob,       (* the stream entry of the request's job                     *)
  tpc,        (* where the worker that runs the job is                     *)
  tsnap       (* the video as the worker read it                           *)

requestVars == <<qpc, target, seen>>
taskVars    == <<tpc, tsnap>>
posterVars  == <<requestVars, pjob, taskVars>>

RequestSteps == {"idle", "check", "enqueue", "accepted", "exists", "rejected"}

TaskSteps == {"idle", "load", "extract", "put", "poster_row", "drop_frame", "link",
              "linked", "drop_poster", "drop_row", "gave_up", "finished"}

PosterTypeOK ==
  /\ qpc \in [PosterRequests -> RequestSteps]
  /\ target \in [PosterRequests -> Videos \cup {None}]
  /\ seen \in [PosterRequests -> Jobs \cup {None}]
  /\ pjob \in [PosterRequests -> {"none", "pending", "acked"}]
  /\ tpc \in [PosterRequests -> TaskSteps]
  /\ tsnap \in [PosterRequests -> Rows]

(* A video as compress_video_task leaves it, without an inline poster: its *)
(* first delivery names the output.                                        *)
ReadyVideo(v, vis) ==
  [NoRow EXCEPT !.status = "ready", !.kind = "video", !.vis = vis, !.task = TRUE,
                !.key = Key("videos", vis, <<v, 1>>)]

PosterInit ==
  /\ \E vis \in [Videos -> Visibilities] :
       /\ rows = [i \in Ids |-> IF i \in Videos THEN ReadyVideo(i, vis[i]) ELSE NoRow]
       /\ objects = {ReadyVideo(v, vis[v]).key : v \in Videos}
  /\ qpc = [q \in PosterRequests |-> "idle"]
  /\ target = [q \in PosterRequests |-> None]
  /\ seen = [q \in PosterRequests |-> None]
  /\ pjob = [q \in PosterRequests |-> "none"]
  /\ tpc = [q \in PosterRequests |-> "idle"]
  /\ tsnap = [q \in PosterRequests |-> NoRow]

(* The task mints a uuid for its poster, and the poster inherits the       *)
(* visibility the video had when the task read it.                         *)
PosterId(q) == <<q, 1>>

(* Mutant: the visibility is not passed on.                                *)
NewPosterKeyPublic(q) == Key("posters", "public", PosterId(q))

NewPosterKey(q) == Key("posters", tsnap[q].vis, PosterId(q))

NewPosterRow(q) ==
  [NoRow EXCEPT !.status = "ready", !.kind = "image", !.key = NewPosterKey(q),
                !.vis = tsnap[q].vis]

RequestStep(q, from, to) ==
  /\ qpc[q] = from
  /\ qpc' = [qpc EXCEPT ![q] = to]

TaskStep(q, from, to) ==
  /\ tpc[q] = from
  /\ tpc' = [tpc EXCEPT ![q] = to]

(***************************************************************************)
(* The handler.  Without a row, a video, or a ready one, it answers 404,   *)
(* 400 or 409, and 502 if the lookup fails; none of these is a step.       *)
(***************************************************************************)
RequestPoster(q) ==
  /\ \E v \in Videos :
       /\ rows[v].status = "ready"
       /\ RequestStep(q, "idle", IF rows[v].poster = None THEN "enqueue" ELSE "check")
       /\ target' = [target EXCEPT ![q] = v]
       /\ seen' = [seen EXCEPT ![q] = rows[v].poster]
  /\ UNCHANGED <<storeVars, pjob, taskVars>>

(* Mutant: a poster is made whether or not there is one.                   *)
CheckRegenerates(q) ==
  /\ RequestStep(q, "check", "enqueue")
  /\ UNCHANGED <<storeVars, target, seen, pjob, taskVars>>

(* A live poster is returned; one that was deleted is made again.  The     *)
(* lookup is not guarded, so a failure is answered 500.                    *)
CheckPoster(q) ==
  /\ \/ RequestStep(q, "check", "exists") /\ Exists(seen[q])
     \/ RequestStep(q, "check", "enqueue") /\ ~Exists(seen[q])
     \/ RequestStep(q, "check", "rejected") /\ LookupRaises
  /\ UNCHANGED <<storeVars, target, seen, pjob, taskVars>>

EnqueuePoster(q) ==
  LET queued == [pjob EXCEPT ![q] = "pending"] IN
  /\ \/ RequestStep(q, "enqueue", "accepted") /\ pjob' = queued
     \/ /\ RequestStep(q, "enqueue", "rejected")
        /\ "enqueue" \in Faults
        /\ pjob' = pjob \/ ("lost_reply" \in Faults /\ pjob' = queued)
  /\ UNCHANGED <<storeVars, target, seen, taskVars>>

(***************************************************************************)
(* The stream.  A worker that dies during a poster job is left out: its    *)
(* next delivery starts over under fresh names, as another request would.  *)
(***************************************************************************)
DeliverPoster(q) ==
  /\ pjob[q] = "pending"
  /\ TaskStep(q, "idle", "load")
  /\ UNCHANGED <<storeVars, requestVars, pjob, tsnap>>

AcknowledgePoster(q) ==
  /\ tpc[q] \in {"finished", "gave_up"}
  /\ pjob[q] = "pending"
  /\ pjob' = [pjob EXCEPT ![q] = "acked"]
  /\ UNCHANGED <<storeVars, requestVars, taskVars>>

(***************************************************************************)
(* generate_poster_task.  Without a ready video there is nothing to do.    *)
(***************************************************************************)
LoadVideo(q) ==
  LET video == rows[target[q]] IN
  /\ \/ /\ TaskStep(q, "load", "extract")
        /\ video.status = "ready"
        /\ tsnap' = [tsnap EXCEPT ![q] = video]
     \/ /\ TaskStep(q, "load", "finished")
        /\ video.status # "ready" \/ LookupRaises
        /\ UNCHANGED tsnap
  /\ UNCHANGED <<storeVars, requestVars, pjob>>

(* Probing, seeking and extracting read the object in place; all fail once *)
(* it is gone.                                                             *)
ExtractPoster(q) ==
  /\ \/ TaskStep(q, "extract", "put") /\ tsnap[q].key \in objects
     \/ TaskStep(q, "extract", "finished")
  /\ UNCHANGED <<storeVars, requestVars, pjob, tsnap>>

PutPoster(q) ==
  /\ \/ TaskStep(q, "put", "poster_row") /\ Put(NewPosterKey(q))
     \/ TaskStep(q, "put", "finished") /\ PutRefused(NewPosterKey(q))
     \/ TaskStep(q, "put", "gave_up") /\ PutEscapes(NewPosterKey(q))
  /\ UNCHANGED <<rows, requestVars, pjob, tsnap>>

CreatePosterRow(q) ==
  LET created == Insert(PosterId(q), NewPosterRow(q)) IN
  /\ \/ TaskStep(q, "poster_row", "link") /\ rows' = created
     \/ TaskStep(q, "poster_row", "drop_frame") /\ StatementRaises(created)
  /\ UNCHANGED <<objects, requestVars, pjob, tsnap>>

(* Mutant: a video that is gone is not noticed.                            *)
LinkUnchecked(q) ==
  /\ TaskStep(q, "link", "finished") /\ rows' = SetPoster(target[q], PosterId(q))
  /\ UNCHANGED <<objects, requestVars, pjob, tsnap>>

(* set_poster: an UPDATE, then the video is read again.                    *)
LinkNewPoster(q) ==
  LET linked == SetPoster(target[q], PosterId(q)) IN
  /\ \/ /\ TaskStep(q, "link", IF Exists(target[q]) THEN "linked" ELSE "drop_poster")
        /\ rows' = linked
     \/ TaskStep(q, "link", "drop_poster") /\ StatementRaises(linked)
  /\ UNCHANGED <<objects, requestVars, pjob, tsnap>>

ReadNewLink(q) ==
  /\ \/ TaskStep(q, "linked", "finished") /\ Exists(target[q])
     \/ TaskStep(q, "linked", "drop_poster") /\ (~Exists(target[q]) \/ LookupRaises)
  /\ UNCHANGED <<storeVars, requestVars, pjob, tsnap>>

(* Mutant: the object of a poster without a row is left behind.            *)
KeepObject(q) ==
  /\ \/ TaskStep(q, "drop_frame", "finished")
     \/ TaskStep(q, "drop_poster", "drop_row")
  /\ UNCHANGED <<storeVars, requestVars, pjob, tsnap>>

(* An OSError ends the job with the row, if there is one, in place.        *)
DropNewObject(q) ==
  /\ \/ TaskStep(q, "drop_frame", "finished") /\ RemoveSuppressed(NewPosterKey(q))
     \/ TaskStep(q, "drop_poster", "drop_row") /\ RemoveSuppressed(NewPosterKey(q))
     \/ \E from \in {"drop_frame", "drop_poster"} : TaskStep(q, from, "gave_up") /\ RemoveEscapes
  /\ UNCHANGED <<rows, requestVars, pjob, tsnap>>

(* The statement is tried once, and a failure is suppressed.               *)
DropNewRow(q) ==
  LET dropped == DeleteRow(PosterId(q)) IN
  /\ \/ TaskStep(q, "drop_row", "finished") /\ rows' = dropped
     \/ TaskStep(q, "drop_row", "gave_up") /\ StatementRaises(dropped)
  /\ UNCHANGED <<objects, requestVars, pjob, tsnap>>

GeneratePoster(q) ==
  \/ LoadVideo(q) \/ ExtractPoster(q) \/ PutPoster(q) \/ CreatePosterRow(q)
  \/ LinkNewPoster(q) \/ ReadNewLink(q) \/ DropNewObject(q) \/ DropNewRow(q)

PosterNext ==
  \E q \in PosterRequests :
    \/ RequestPoster(q) \/ CheckPoster(q) \/ EnqueuePoster(q)
    \/ DeliverPoster(q) \/ GeneratePoster(q) \/ AcknowledgePoster(q)

=============================================================================
