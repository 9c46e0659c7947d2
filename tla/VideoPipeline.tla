--------------------------- MODULE VideoPipeline ---------------------------
(***************************************************************************)
(* A video from POST /upload/video (app/routers/upload.py) to the end of   *)
(* the job that transcodes it (compress_video_task, app/tasks.py).         *)
(*                                                                         *)
(* The request handler stages the raw bytes, records the upload as         *)
(* `processing`, and queues a job in a Redis stream; a worker takes the    *)
(* job, swaps the raw object for the compressed one and marks the row      *)
(* ready or failed.  A delivery that is not acknowledged because its       *)
(* worker died is delivered again.                                         *)
(***************************************************************************)
EXTENDS MediaStore

CONSTANTS
  VideoVisibilities,   (* the visibilities a request may ask for           *)
  PosterChoices        (* whether poster_seconds is given                  *)

ASSUME VideoAssumption ==
  /\ VideoVisibilities \subseteq Visibilities
  /\ PosterChoices \subseteq BOOLEAN

VARIABLES
  req,        (* what each upload request asks for                         *)
  upc,        (* where each upload handler is                              *)
  attached,   (* the row a duplicate upload was answered with              *)
  job,        (* the stream entry of each upload's compression job         *)
  wpc,        (* where the worker that runs the job is                     *)
  run,        (* how many times the job was delivered                      *)
  wvis,       (* the visibility the worker read from the row               *)
  events      (* webhook deliveries queued: <<upload, event>>              *)

uploadVars == <<req, upc, attached>>
workerVars == <<wpc, run, wvis>>
videoVars  == <<req, upc, attached, job, wpc, run, wvis, events>>

Requests == [bytes: Contents, vis: VideoVisibilities, poster: PosterChoices]

UploadSteps == {"idle", "stage", "create", "unstage", "enqueue", "rollback",
                "link_task", "accepted", "duplicate", "rejected"}

WorkerSteps == {"idle", "load", "encode", "put", "publish", "retract", "discard",
                "frame", "poster_row", "drop_frame", "link", "linked",
                "drop_poster", "drop_row", "notify_completed",
                "fail", "notify_failed", "cleanup", "finished", "crashed"}

JobStates == {"none", "pending", "acked", "trimmed"}

Events == {"video.completed", "video.failed"}

VideoTypeOK ==
  /\ req \in [Uploads -> Requests]
  /\ upc \in [Uploads -> UploadSteps]
  /\ attached \in [Uploads -> Ids \cup {None}]
  /\ job \in [Uploads -> JobStates]
  /\ wpc \in [Uploads -> WorkerSteps]
  /\ run \in [Uploads -> 0..MaxRuns]
  /\ wvis \in [Uploads -> Visibilities]
  /\ events \subseteq Uploads \X Events

VideoInit ==
  /\ req \in [Uploads -> Requests]
  /\ upc = [u \in Uploads |-> "idle"]
  /\ attached = [u \in Uploads |-> None]
  /\ job = [u \in Uploads |-> "none"]
  /\ wpc = [u \in Uploads |-> "idle"]
  /\ run = [u \in Uploads |-> 0]
  /\ wvis = [u \in Uploads |-> "public"]
  /\ events = {}

(***************************************************************************)
(* Names.  compress_video_task mints one uuid per delivery and uses it for *)
(* the output and for the poster.                                          *)
(***************************************************************************)
RawKey(u)    == Key("raw/videos", req[u].vis, u)

Delivery(u)  == <<u, run[u]>>
OutputKey(u) == Key("videos", wvis[u], Delivery(u))
PosterKey(u) == Key("posters", wvis[u], Delivery(u))

VideoHash(u) == [bytes |-> req[u].bytes, poster |-> req[u].poster]

VideoRow(u) ==
  [NoRow EXCEPT !.status = "processing", !.kind = "video", !.key = RawKey(u),
                !.vis = req[u].vis, !.hash = VideoHash(u)]

PosterRow(u) ==
  [NoRow EXCEPT !.status = "ready", !.kind = "image", !.key = PosterKey(u),
                !.vis = wvis[u]]

UploadStep(u, from, to) ==
  /\ upc[u] = from
  /\ upc' = [upc EXCEPT ![u] = to]

WorkerStep(u, from, to) ==
  /\ wpc[u] = from
  /\ wpc' = [wpc EXCEPT ![u] = to]

(***************************************************************************)
(* POST /upload/video.  By the time of the lookup the body is hashed in a  *)
(* temp file, which the handler removes whatever happens.                  *)
(***************************************************************************)
LookupHit(u) ==
  /\ UploadStep(u, "idle", "duplicate")
  /\ \E id \in FindActiveVideoByHash(VideoHash(u)) : attached' = [attached EXCEPT ![u] = id]
  /\ UNCHANGED <<storeVars, req, job, workerVars, events>>

LookupMiss(u) ==
  /\ UploadStep(u, "idle", "stage")
  /\ FindActiveVideoByHash(VideoHash(u)) = {} \/ LookupRaises
  /\ UNCHANGED <<storeVars, req, attached, job, workerVars, events>>

(* Mutant: the job is queued although the row was never inserted.          *)
StageSkipsCreate(u) ==
  /\ UploadStep(u, "stage", "enqueue") /\ Put(RawKey(u))
  /\ UNCHANGED <<rows, req, attached, job, workerVars, events>>

Stage(u) ==
  /\ \/ UploadStep(u, "stage", "create") /\ Put(RawKey(u))
     \/ UploadStep(u, "stage", "rejected") /\ PutRaises(RawKey(u))
  /\ UNCHANGED <<rows, req, attached, job, workerVars, events>>

CreateRecord(u) ==
  LET created == Insert(u, VideoRow(u)) IN
  /\ \/ UploadStep(u, "create", "enqueue") /\ rows' = created
     \/ UploadStep(u, "create", "unstage") /\ StatementRaises(created)
  /\ UNCHANGED <<objects, req, attached, job, workerVars, events>>

Enqueue(u) ==
  LET queued == [job EXCEPT ![u] = "pending"] IN
  /\ \/ UploadStep(u, "enqueue", "link_task") /\ job' = queued
     \/ /\ "enqueue" \in Faults
        /\ job' = job \/ ("lost_reply" \in Faults /\ job' = queued)
        /\ UploadStep(u, "enqueue", "rollback")
  /\ UNCHANGED <<rows, objects, req, attached, workerVars, events>>

Rollback(u) ==
  /\ UploadStep(u, "rollback", "unstage")
  /\ DeleteRowSuppressed(u)
  /\ UNCHANGED <<objects, req, attached, job, workerVars, events>>

Unstage(u) ==
  /\ UploadStep(u, "unstage", "rejected")
  /\ RemoveLast(RawKey(u))
  /\ UNCHANGED <<rows, req, attached, job, workerVars, events>>

LinkTask(u) ==
  /\ UploadStep(u, "link_task", "accepted")
  /\ rows' = SetTaskId(u) \/ StatementRaises(SetTaskId(u))
  /\ UNCHANGED <<objects, req, attached, job, workerVars, events>>

Upload(u) ==
  \/ Stage(u) \/ CreateRecord(u) \/ Enqueue(u)
  \/ Rollback(u) \/ Unstage(u) \/ LinkTask(u)

(***************************************************************************)
(* The stream.  A message is delivered to one worker at a time; it is      *)
(* acknowledged once its task has returned or raised, and delivered again  *)
(* if the worker died before that.  MaxRuns bounds the deliveries.         *)
(***************************************************************************)
Deliver(u) ==
  /\ job[u] = "pending"
  /\ run[u] < MaxRuns
  /\ \E from \in {"idle", "crashed"} : WorkerStep(u, from, "load")
  /\ run' = [run EXCEPT ![u] = @ + 1]
  /\ UNCHANGED <<storeVars, uploadVars, job, wvis, events>>

Acknowledge(u) ==
  /\ WorkerStep(u, "finished", "idle")
  /\ job' = [job EXCEPT ![u] = "acked"]
  /\ UNCHANGED <<storeVars, uploadVars, run, wvis, events>>

Crash(u) ==
  /\ "crash" \in Faults
  /\ run[u] < MaxRuns
  /\ wpc[u] \notin {"idle", "crashed"}
  /\ wpc' = [wpc EXCEPT ![u] = "crashed"]
  /\ UNCHANGED <<storeVars, uploadVars, job, run, wvis, events>>

Trim(u) ==
  /\ "trim" \in Faults
  /\ job[u] = "pending" /\ wpc[u] = "idle"
  /\ job' = [job EXCEPT ![u] = "trimmed"]
  /\ UNCHANGED <<storeVars, uploadVars, workerVars, events>>

(***************************************************************************)
(* compress_video_task.  The first read is outside its try block: a        *)
(* failure there ends the task with no mark_failed and no cleanup.         *)
(***************************************************************************)
LoadRecord(u) ==
  /\ \/ /\ wvis' = [wvis EXCEPT ![u] = IF Exists(u) THEN rows[u].vis ELSE "public"]
        /\ WorkerStep(u, "load", "encode")
     \/ WorkerStep(u, "load", "finished") /\ LookupRaises /\ UNCHANGED wvis
  /\ UNCHANGED <<storeVars, uploadVars, job, run, events>>

(* Resolve the raw input, probe it, run ffmpeg.  Any of them may fail, and *)
(* all do once the raw object is gone.                                     *)
Encode(u) ==
  /\ \/ WorkerStep(u, "encode", "put") /\ RawKey(u) \in objects
     \/ WorkerStep(u, "encode", "fail")
  /\ UNCHANGED <<storeVars, uploadVars, job, run, wvis, events>>

(* Mutant: the error of a failed upload of the output is swallowed.        *)
PutOutputSwallowsError(u) ==
  /\ WorkerStep(u, "put", "publish")
  /\ Put(OutputKey(u)) \/ PutRaises(OutputKey(u))
  /\ UNCHANGED <<rows, uploadVars, job, run, wvis, events>>

PutOutput(u) ==
  /\ \/ WorkerStep(u, "put", "publish") /\ Put(OutputKey(u))
     \/ WorkerStep(u, "put", "fail") /\ PutRaises(OutputKey(u))
  /\ UNCHANGED <<rows, uploadVars, job, run, wvis, events>>

(* mark_ready.  The poster inherits the visibility the UPDATE returns.     *)
Publish(u) ==
  LET marked == MarkReady(u, OutputKey(u)) IN
  /\ \/ /\ Exists(u)
        /\ rows' = marked
        /\ wvis' = [wvis EXCEPT ![u] = rows[u].vis]
        /\ WorkerStep(u, "publish", IF req[u].poster THEN "frame" ELSE "notify_completed")
     \/ WorkerStep(u, "publish", "discard") /\ ~Exists(u) /\ UNCHANGED <<rows, wvis>>
     \/ WorkerStep(u, "publish", "retract") /\ StatementRaises(marked) /\ UNCHANGED wvis
  /\ UNCHANGED <<objects, uploadVars, job, run, events>>

Retract(u) ==
  /\ WorkerStep(u, "retract", "fail")
  /\ RemoveLast(OutputKey(u))
  /\ UNCHANGED <<rows, uploadVars, job, run, wvis, events>>

(* Mutant: the output of a video deleted meanwhile is left behind.         *)
DiscardKeepsOutput(u) ==
  /\ WorkerStep(u, "discard", "cleanup")
  /\ UNCHANGED <<storeVars, uploadVars, job, run, wvis, events>>

(* An OSError here is handled like any failure of the job.                 *)
Discard(u) ==
  /\ \/ WorkerStep(u, "discard", "cleanup") /\ RemoveSuppressed(OutputKey(u))
     \/ WorkerStep(u, "discard", "fail") /\ RemoveEscapes
  /\ UNCHANGED <<rows, uploadVars, job, run, wvis, events>>

(* Mutant: a failure is announced but not recorded.                        *)
FailSkipsMark(u) ==
  /\ WorkerStep(u, "fail", "notify_failed")
  /\ UNCHANGED <<storeVars, uploadVars, job, run, wvis, events>>

Fail(u) ==
  /\ \/ WorkerStep(u, "fail", "notify_failed") /\ Exists(u) /\ rows' = MarkFailed(u)
     \/ WorkerStep(u, "fail", "cleanup") /\ ~Exists(u) /\ UNCHANGED rows
     \/ WorkerStep(u, "fail", "cleanup") /\ StatementRaises(MarkFailed(u))
  /\ UNCHANGED <<objects, uploadVars, job, run, wvis, events>>

(* _enqueue_webhook, for a record with a callback_url: never raises.       *)
NotifyEvent(u, from, event) ==
  /\ WorkerStep(u, from, "cleanup")
  /\ \/ events' = events \cup {<<u, event>>}
     \/ "notify" \in Faults /\ UNCHANGED events
  /\ UNCHANGED <<storeVars, uploadVars, job, run, wvis>>

Notify(u) ==
  \/ NotifyEvent(u, "notify_completed", "video.completed")
  \/ NotifyEvent(u, "notify_failed", "video.failed")

(* Mutant: the `finally` that removes the raw object is lost.              *)
CleanupKeepsRaw(u) ==
  /\ WorkerStep(u, "cleanup", "finished")
  /\ UNCHANGED <<storeVars, uploadVars, job, run, wvis, events>>

Cleanup(u) ==
  /\ WorkerStep(u, "cleanup", "finished")
  /\ RemoveLast(RawKey(u))
  /\ UNCHANGED <<rows, uploadVars, job, run, wvis, events>>

(***************************************************************************)
(* _extract_and_store_poster, when the request asked for one.  Whatever it *)
(* raises, the task goes on to announce the video.                         *)
(***************************************************************************)
ExtractFrame(u) ==
  /\ \/ WorkerStep(u, "frame", "poster_row") /\ Put(PosterKey(u))
     \/ WorkerStep(u, "frame", "notify_completed") /\ UNCHANGED objects
     \/ WorkerStep(u, "frame", "notify_completed") /\ PutRaises(PosterKey(u))
  /\ UNCHANGED <<rows, uploadVars, job, run, wvis, events>>

CreatePoster(u) ==
  LET created == Insert(Delivery(u), PosterRow(u)) IN
  /\ \/ WorkerStep(u, "poster_row", "link") /\ rows' = created
     \/ WorkerStep(u, "poster_row", "drop_frame") /\ StatementRaises(created)
  /\ UNCHANGED <<objects, uploadVars, job, run, wvis, events>>

LinkPoster(u) ==
  LET linked == SetPoster(u, Delivery(u)) IN
  /\ \/ WorkerStep(u, "link", IF Exists(u) THEN "linked" ELSE "drop_poster") /\ rows' = linked
     \/ WorkerStep(u, "link", "drop_poster") /\ StatementRaises(linked)
  /\ UNCHANGED <<objects, uploadVars, job, run, wvis, events>>

(* set_poster re-reads the video: a video deleted in between is gone too.  *)
ReadLinked(u) ==
  /\ \/ WorkerStep(u, "linked", "notify_completed") /\ Exists(u)
     \/ WorkerStep(u, "linked", "drop_poster") /\ (~Exists(u) \/ LookupRaises)
  /\ UNCHANGED <<storeVars, uploadVars, job, run, wvis, events>>

(* An OSError skips the deletion of the row.                               *)
DropPosterObject(u) ==
  /\ \/ WorkerStep(u, "drop_frame", "notify_completed") /\ RemoveLast(PosterKey(u))
     \/ WorkerStep(u, "drop_poster", "drop_row") /\ RemoveSuppressed(PosterKey(u))
     \/ WorkerStep(u, "drop_poster", "notify_completed") /\ RemoveEscapes
  /\ UNCHANGED <<rows, uploadVars, job, run, wvis, events>>

DropPosterRow(u) ==
  /\ WorkerStep(u, "drop_row", "notify_completed")
  /\ DeleteRowSuppressed(Delivery(u))
  /\ UNCHANGED <<objects, uploadVars, job, run, wvis, events>>

StorePoster(u) ==
  \/ ExtractFrame(u) \/ CreatePoster(u) \/ LinkPoster(u)
  \/ ReadLinked(u) \/ DropPosterObject(u) \/ DropPosterRow(u)

Compress(u) ==
  \/ LoadRecord(u) \/ Encode(u) \/ PutOutput(u)
  \/ Publish(u) \/ Retract(u) \/ Discard(u)
  \/ StorePoster(u)
  \/ Fail(u) \/ Notify(u) \/ Cleanup(u)

Worker(u) == Deliver(u) \/ Compress(u) \/ Acknowledge(u)

VideoNext ==
  \E u \in Uploads :
    \/ LookupHit(u) \/ LookupMiss(u) \/ Upload(u)
    \/ Worker(u) \/ Crash(u) \/ Trim(u)

(***************************************************************************)
(* A request once admitted is served to its answer, and the workers keep   *)
(* taking jobs and running them.  No client is obliged to send a request,  *)
(* and no fault is obliged to happen.                                      *)
(***************************************************************************)
VideoFairness ==
  \A u \in Uploads :
    /\ WF_<<storeVars, videoVars>>(Upload(u))
    /\ WF_<<storeVars, videoVars>>(Worker(u))

=============================================================================
