------------------------- MODULE VideoOutcomeProofs -------------------------
(***************************************************************************)
(* How the job of an upload ends, under the failures that leave the        *)
(* outcome decided: what is announced agrees with the record, a settled    *)
(* video stays settled, no video is left `processing` with nobody to       *)
(* settle it, and VideoSystem implements VideoLifecycle.                   *)
(***************************************************************************)
EXTENDS VideoProofs

(***************************************************************************)
(* Without crashes a job is delivered once, so what it announces is final. *)
(***************************************************************************)

(* mark_ready has returned and the webhook is still to be queued.          *)
Announcing == {"frame", "poster_row", "drop_frame", "link", "linked", "drop_poster",
               "drop_row", "notify_completed"}

(* The job has nothing left to do but to clean up.                         *)
Done(u) == wpc[u] \in {"cleanup", "finished"} \/ (wpc[u] = "idle" /\ job[u] = "acked")

Outcome(u) ==
  /\ wpc[u] # "crashed"
  /\ wpc[u] \in Announcing => rows[u].status \in {"ready", "none"}
  /\ wpc[u] = "notify_failed" => rows[u].status \in {"failed", "none"}
  /\ <<u, "video.completed">> \in events => Done(u) /\ rows[u].status \in {"ready", "none"}
  /\ <<u, "video.failed">> \in events => Done(u) /\ rows[u].status \in {"failed", "none"}

(* A settled row belongs to a job that has settled it.                     *)
SettledBy(u) ==
  rows[u].status \in {"ready", "failed"} =>
    wpc[u] \in Announcing \cup {"notify_failed"} \/ Done(u)

OutcomeInv == \A u \in Uploads : Outcome(u)
SettledInv == \A u \in Uploads : SettledBy(u)

(* The requests leave the worker, the job's end and the webhooks alone.    *)
LEMMA RequestSteps ==
  ASSUME TypeInv, RecordInv, NEW u \in Uploads, LookupHit(u) \/ LookupMiss(u) \/ Upload(u)
  PROVE  /\ UNCHANGED <<wpc, run, wvis, events>>
         /\ job'[u] = job[u] \/ (upc[u] = "enqueue" /\ job[u] = "none" /\ job'[u] = "pending")
         /\ \/ rows'[u].status = rows[u].status
            \/ rows'[u].status = "none"
            \/ rows'[u].status = "processing" /\ job[u] = "none" /\ wpc[u] = "idle"
<1>. USE DEF TypeInv, TypeOK, VideoTypeOK
<1>0. UploadRecord(u)
  BY DEF RecordInv
<1>1. /\ UNCHANGED <<wpc, run, wvis, events>>
      /\ job'[u] = job[u] \/ (upc[u] = "enqueue" /\ job'[u] = "pending")
  BY DEF LookupHit, LookupMiss, Upload, Stage, CreateRecord, Enqueue, Rollback, Unstage, LinkTask,
         UploadStep, workerVars
<1>2. upc[u] \in {"create", "enqueue"} => job[u] = "none" /\ wpc[u] = "idle"
  BY <1>0 DEF UploadRecord, Early
<1>3. RowMove(u)
  BY RowMoves DEF VideoStep
<1>4. NoRow.status = "none" /\ VideoRow(u).status = "processing"
  BY DEF VideoRow, NoRow
<1>. QED
  BY <1>1, <1>2, <1>3, <1>4 DEF RowMove

(* How the worker of a job may move, and what it leaves in the row.        *)
WorkerMove(u) ==
  \/ wpc[u] = "idle" /\ wpc'[u] = "load" /\ job[u] = "pending"
  \/ wpc[u] = "load" /\ wpc'[u] \in {"encode", "finished"}
  \/ wpc[u] = "encode" /\ wpc'[u] \in {"put", "fail"}
  \/ wpc[u] = "put" /\ wpc'[u] \in {"publish", "fail"}
  \/ /\ wpc[u] = "publish" /\ wpc'[u] \in {"frame", "notify_completed"}
     /\ Exists(u) /\ rows'[u].status = "ready"
  \/ wpc[u] = "publish" /\ wpc'[u] = "discard" /\ ~Exists(u)
  \/ wpc[u] = "publish" /\ wpc'[u] = "retract"
  \/ wpc[u] = "retract" /\ wpc'[u] = "fail"
  \/ wpc[u] = "discard" /\ wpc'[u] \in {"cleanup", "fail"}
  \/ wpc[u] = "fail" /\ wpc'[u] = "notify_failed" /\ Exists(u) /\ rows'[u].status = "failed"
  \/ wpc[u] = "fail" /\ wpc'[u] = "cleanup"
  \/ wpc[u] \in Announcing /\ wpc'[u] \in Announcing
  \/ wpc[u] \in {"notify_completed", "notify_failed"} /\ wpc'[u] = "cleanup"
  \/ wpc[u] = "cleanup" /\ wpc'[u] = "finished"

(* Every step of a task is one of these.                                   *)
LEMMA WorkerMoves ==
  ASSUME TypeInv, NEW u \in Uploads, Deliver(u) \/ Compress(u), wpc[u] # "crashed"
  PROVE  /\ WorkerMove(u)
         /\ UNCHANGED <<upc, job>>
<1>. USE DEF TypeInv, TypeOK, VideoTypeOK, WorkerStep, uploadVars
<1>0. u \in Ids /\ StoreTypeOK
  BY DEF Ids
<1>1. CASE Deliver(u)
  BY <1>1 DEF Deliver, WorkerMove
<1>2. CASE LoadRecord(u) \/ Encode(u) \/ PutOutput(u) \/ Retract(u) \/ Discard(u) \/ Cleanup(u)
  BY <1>2 DEF LoadRecord, Encode, PutOutput, Retract, Discard, Cleanup, WorkerMove
<1>3. CASE Publish(u)
  BY <1>0, <1>3, UpdatedRow DEF Publish, WorkerMove
<1>4. CASE Fail(u)
  BY <1>0, <1>4, UpdatedRow DEF Fail, WorkerMove
<1>5. CASE Notify(u)
  BY <1>5 DEF Notify, NotifyEvent, WorkerMove
<1>6. CASE StorePoster(u)
  BY <1>6 DEF StorePoster, ExtractFrame, CreatePoster, LinkPoster, ReadLinked, DropPosterObject,
              DropPosterRow, WorkerMove, Announcing
<1>. QED
  BY <1>1, <1>2, <1>3, <1>4, <1>5, <1>6 DEF Compress

(* Only the step that queues a webhook changes the queue.                  *)
LEMMA EventSteps ==
  ASSUME TypeInv, NEW u \in Uploads, VideoStep(u)
  PROVE  \/ events' = events
         \/ /\ wpc[u] = "notify_completed" /\ wpc'[u] = "cleanup" /\ rows' = rows
            /\ events' = events \cup {<<u, "video.completed">>}
         \/ /\ wpc[u] = "notify_failed" /\ wpc'[u] = "cleanup" /\ rows' = rows
            /\ events' = events \cup {<<u, "video.failed">>}
<1>. USE DEF TypeInv, TypeOK, VideoTypeOK
<1>1. CASE Notify(u)
  BY <1>1 DEF Notify, NotifyEvent, WorkerStep, storeVars
<1>2. CASE LookupHit(u) \/ LookupMiss(u) \/ Upload(u)
  BY <1>2 DEF LookupHit, LookupMiss, Upload, Stage, CreateRecord, Enqueue, Rollback, Unstage,
              LinkTask
<1>3. CASE Deliver(u) \/ Acknowledge(u) \/ Crash(u) \/ Trim(u)
  BY <1>3 DEF Deliver, Acknowledge, Crash, Trim
<1>4. CASE Compress(u) /\ ~ Notify(u)
  BY <1>4 DEF Compress, LoadRecord, Encode, PutOutput, Publish, Retract, Discard, StorePoster,
              ExtractFrame, CreatePoster, LinkPoster, ReadLinked, DropPosterObject,
              DropPosterRow, Fail, Cleanup
<1>. QED
  BY <1>1, <1>2, <1>3, <1>4 DEF VideoStep, Worker

(* A step keeps the outcome of every job.                                  *)
LEMMA OutcomeStep ==
  ASSUME TypeInv, RecordInv, OutcomeInv, [Next]_vars, "crash" \notin Faults
  PROVE  OutcomeInv'
<1>. SUFFICES ASSUME NEW u \in Uploads PROVE Outcome(u)'
  BY DEF OutcomeInv
<1>0. Outcome(u)
  BY DEF OutcomeInv
<1>. USE DEF Outcome, Done, Announcing
<1>1. CASE SameUpload(u) /\ (rows'[u] = rows[u] \/ \E d \in Deleters : DeletedBy(u, d))
  BY <1>0, <1>1 DEF SameUpload, DeletedBy, NoRow
<1>2. CASE LookupHit(u) \/ LookupMiss(u) \/ Upload(u)
  BY <1>0, <1>2, RequestSteps
<1>3. CASE Acknowledge(u) \/ Trim(u)
  BY <1>0, <1>3 DEF Acknowledge, Trim, WorkerStep, storeVars, workerVars, TypeInv, TypeOK, VideoTypeOK
<1>4. CASE Deliver(u) \/ Compress(u)
  <2>1. WorkerMove(u) /\ UNCHANGED <<upc, job>>
    BY <1>0, <1>4, WorkerMoves
  <2>2. RowMove(u)
    BY <1>4, RowMoves DEF VideoStep, Worker
  <2>3. upc[u] \notin {"rollback", "create"} \/ upc'[u] = upc[u]
    BY <2>1
  <2>4. wpc'[u] # "crashed"
    BY <2>1 DEF WorkerMove
  <2>5. wpc'[u] \in Announcing => rows'[u].status \in {"ready", "none"}
    BY <1>0, <2>1, <2>2 DEF WorkerMove, RowMove, NoRow
  <2>6. wpc'[u] = "notify_failed" => rows'[u].status \in {"failed", "none"}
    BY <2>1 DEF WorkerMove
  <2>7. Done(u) => Done(u)' /\ rows'[u].status \in {rows[u].status, "none"}
    BY <2>1, <2>2 DEF WorkerMove, RowMove, NoRow
  <2>8. \/ events' = events
        \/ /\ wpc[u] = "notify_completed" /\ wpc'[u] = "cleanup" /\ rows' = rows
           /\ events' = events \cup {<<u, "video.completed">>}
        \/ /\ wpc[u] = "notify_failed" /\ wpc'[u] = "cleanup" /\ rows' = rows
           /\ events' = events \cup {<<u, "video.failed">>}
    BY <1>4, EventSteps DEF VideoStep, Worker
  <2>. QED
    BY <1>0, <2>4, <2>5, <2>6, <2>7, <2>8
<1>. QED
  BY <1>1, <1>2, <1>3, <1>4, UploadFrame DEF VideoStep, Worker, Crash

(* The initial state announces nothing.                                    *)
LEMMA OutcomeInit == Init => OutcomeInv /\ SettledInv
BY DEF Init, StoreInit, VideoInit, OutcomeInv, SettledInv, Outcome, SettledBy, Announcing,
       NoRow, Ids

(* If no worker dies, the outcome of every job is kept throughout.         *)
LEMMA OutcomeInvariant ==
  ASSUME "crash" \notin Faults
  PROVE  Spec => [](TypeInv /\ RecordInv /\ OutcomeInv)
<1>1. TypeInv /\ RecordInv /\ OutcomeInv /\ [Next]_vars => OutcomeInv'
  BY OutcomeStep
<1>. QED
  BY <1>1, OutcomeInit, RecordInvariant, PTL DEF Spec

(* If no worker dies, the webhooks queued for a video agree with its       *)
(* record, lost replies and every other failure included (tasks.py 535,    *)
(* 542-548).                                                               *)
THEOREM WebhooksTellTheRecord ==
  ASSUME "crash" \notin Faults
  PROVE  Spec => []EventsMatchRecord
<1>1. OutcomeInv => EventsMatchRecord
  BY DEF OutcomeInv, Outcome, EventsMatchRecord
<1>. QED
  BY <1>1, OutcomeInvariant, PTL

(* A step settles only rows of jobs that then have nothing left to settle. *)
LEMMA SettledStep ==
  ASSUME TypeInv, RecordInv, OutcomeInv, SettledInv, [Next]_vars,
         "crash" \notin Faults, "lost_reply" \notin Faults
  PROVE  SettledInv'
<1>. SUFFICES ASSUME NEW u \in Uploads PROVE SettledBy(u)'
  BY DEF SettledInv
<1>0. SettledBy(u) /\ Outcome(u)
  BY DEF SettledInv, OutcomeInv
<1>. USE DEF SettledBy, Done, Announcing
<1>1. CASE SameUpload(u) /\ (rows'[u] = rows[u] \/ \E d \in Deleters : DeletedBy(u, d))
  BY <1>0, <1>1 DEF SameUpload, DeletedBy, NoRow
<1>2. CASE LookupHit(u) \/ LookupMiss(u) \/ Upload(u)
  BY <1>0, <1>2, RequestSteps
<1>3. CASE Acknowledge(u) \/ Trim(u)
  BY <1>0, <1>3 DEF Acknowledge, Trim, WorkerStep, storeVars, workerVars, TypeInv, TypeOK, VideoTypeOK
<1>4. CASE Deliver(u) \/ Compress(u)
  <2>1. WorkerMove(u) /\ UNCHANGED <<upc, job>>
    BY <1>0, <1>4, WorkerMoves DEF Outcome
  <2>2. RowMove(u)
    BY <1>4, RowMoves DEF VideoStep, Worker
  <2>3. wpc[u] = "publish" /\ wpc'[u] = "retract" => rows' = rows
    BY <1>4 DEF Deliver, Compress, LoadRecord, Encode, PutOutput, Publish, Retract, Discard,
                StorePoster, ExtractFrame, CreatePoster, LinkPoster, ReadLinked,
                DropPosterObject, DropPosterRow, Fail, Notify, NotifyEvent, Cleanup, WorkerStep,
                StatementRaises, TypeInv, TypeOK, VideoTypeOK
  <2>. QED
    BY <1>0, <2>1, <2>2, <2>3 DEF WorkerMove, RowMove, NoRow
<1>. QED
  BY <1>1, <1>2, <1>3, <1>4, UploadFrame DEF VideoStep, Worker, Crash

(* What a step does to the status of a settled video.                      *)
LEMMA SettledKeeps ==
  ASSUME TypeInv, RecordInv, OutcomeInv, SettledInv, [Next]_vars,
         NEW u \in Uploads, rows[u].status \in {"ready", "failed"}
  PROVE  rows'[u].status \in {rows[u].status, "none"}
<1>0. wpc[u] \in Announcing \cup {"notify_failed"} \/ Done(u)
  BY DEF SettledInv, SettledBy
<1>1. CASE RowMove(u) /\ upc[u] # "create"
  BY <1>0, <1>1 DEF RowMove, NoRow, Announcing, Done
<1>2. upc[u] # "create"
  BY DEF RecordInv, UploadRecord, Early, Exists
<1>. QED
  BY <1>1, <1>2, UploadFrame, RowMoves DEF DeletedBy, NoRow

(* If no worker dies and a call that reported failure did not take effect, *)
(* a settled video keeps its status until its row is gone (readme.md 162). *)
THEOREM SettledForGood ==
  ASSUME "crash" \notin Faults, "lost_reply" \notin Faults
  PROVE  Spec => SettledIsFinal
<1>1. TypeInv /\ RecordInv /\ OutcomeInv /\ SettledInv /\ [Next]_vars => SettledInv'
  BY SettledStep
<1>2. TypeInv /\ RecordInv /\ OutcomeInv /\ SettledInv /\ [Next]_vars =>
        [\A u \in Uploads :
           rows[u].status \in {"ready", "failed"} =>
             rows'[u].status \in {rows[u].status, "none"}]_rows
  BY SettledKeeps
<1>. QED
  BY <1>1, <1>2, OutcomeInit, OutcomeInvariant, PTL DEF Spec, SettledIsFinal

(***************************************************************************)
(* A row is `processing` as long as its request or its job will settle it. *)
(***************************************************************************)
Owned(u) ==
  /\ upc[u] \in {"link_task", "accepted"} => job[u] # "none"
  /\ \/ upc[u] \in {"unstage", "rejected"}
     \/ job[u] \in {"acked", "trimmed"}
     \/ wpc[u] \in Announcing \cup {"discard", "notify_failed", "cleanup", "finished"}
     => rows[u].status # "processing"

OwnedInv == \A u \in Uploads : Owned(u)

(* A step leaves no row behind that is still `processing`.                 *)
LEMMA OwnedStep ==
  ASSUME TypeInv, RecordInv, OwnedInv, [Next]_vars,
         Faults \cap {"metadata", "lookup", "trim"} = {}
  PROVE  OwnedInv'
<1>. SUFFICES ASSUME NEW u \in Uploads PROVE Owned(u)'
  BY DEF OwnedInv
<1>. USE DEF TypeInv, TypeOK, VideoTypeOK
<1>0. Owned(u) /\ UploadRecord(u) /\ u \in Ids /\ StoreTypeOK
  BY DEF OwnedInv, RecordInv, Ids
<1>1. CASE SameUpload(u) /\ (rows'[u] = rows[u] \/ \E d \in Deleters : DeletedBy(u, d))
  BY <1>0, <1>1 DEF Owned, SameUpload, DeletedBy, NoRow
<1>2. CASE LookupHit(u) \/ LookupMiss(u) \/ Stage(u) \/ Unstage(u)
  BY <1>0, <1>2 DEF LookupHit, LookupMiss, Stage, Unstage, UploadStep, Owned, UploadRecord, Early,
                    Exists, storeVars, workerVars
<1>3. CASE CreateRecord(u)
  BY <1>0, <1>3 DEF CreateRecord, UploadStep, StatementRaises, Owned, UploadRecord, Early,
                    Announcing, workerVars
<1>4. CASE Enqueue(u)
  BY <1>0, <1>4 DEF Enqueue, UploadStep, Owned, UploadRecord, Early, Announcing, workerVars
<1>5. CASE Rollback(u)
  <2>1. rows'[u].status = "none"
    BY <1>0, <1>5 DEF Rollback, DeleteRowSuppressed, StatementRaises, DeleteRow, NoRow, StoreTypeOK
  <2>. QED
    BY <1>5, <2>1 DEF Rollback, UploadStep, Owned
<1>6. CASE LinkTask(u)
  <2>1. rows'[u].status = rows[u].status
    BY <1>0, <1>6, UpdatedRow DEF LinkTask, StatementRaises, SetTaskId, Update
  <2>. QED
    BY <1>0, <1>6, <2>1 DEF LinkTask, UploadStep, Owned, workerVars
<1>7. CASE Acknowledge(u) \/ Crash(u)
  BY <1>0, <1>7 DEF Acknowledge, Crash, WorkerStep, Owned, uploadVars, storeVars, Announcing
<1>8. CASE Deliver(u)
  BY <1>0, <1>8 DEF Deliver, WorkerStep, Owned, uploadVars, storeVars, Announcing
<1>9. CASE Compress(u)
  <2>1. wpc[u] # "crashed"
    BY <1>9 DEF Compress, LoadRecord, Encode, PutOutput, Publish, Retract, Discard, StorePoster,
                ExtractFrame, CreatePoster, LinkPoster, ReadLinked, DropPosterObject,
                DropPosterRow, Fail, Notify, NotifyEvent, Cleanup, WorkerStep
  <2>2. WorkerMove(u) /\ UNCHANGED <<upc, job>> /\ RowMove(u)
    BY <1>9, <2>1, WorkerMoves, RowMoves DEF VideoStep, Worker
  <2>3. upc[u] # "create"
    BY <1>0, <1>9 DEF UploadRecord, Early, Compress, LoadRecord, Encode, PutOutput, Publish,
                Retract, Discard, StorePoster, ExtractFrame, CreatePoster, LinkPoster, ReadLinked,
                DropPosterObject, DropPosterRow, Fail, Notify, NotifyEvent, Cleanup, WorkerStep
  <2>4. rows'[u].status \in {rows[u].status, "none", "ready", "failed"}
    BY <2>2, <2>3 DEF RowMove, NoRow
  <2>5. wpc[u] = "load" => wpc'[u] # "finished"
    BY <1>9 DEF Compress, LoadRecord, Encode, PutOutput, Publish, Retract, Discard, StorePoster,
                ExtractFrame, CreatePoster, LinkPoster, ReadLinked, DropPosterObject,
                DropPosterRow, Fail, Notify, NotifyEvent, Cleanup, WorkerStep, LookupRaises
  <2>6. wpc[u] = "fail" /\ wpc'[u] = "cleanup" => rows'[u].status = "none"
    BY <1>9 DEF Compress, LoadRecord, Encode, PutOutput, Publish, Retract, Discard, StorePoster,
                ExtractFrame, CreatePoster, LinkPoster, ReadLinked, DropPosterObject,
                DropPosterRow, Fail, Notify, NotifyEvent, Cleanup, WorkerStep, StatementRaises,
                Exists
  <2>. QED
    BY <1>0, <2>2, <2>4, <2>5, <2>6 DEF WorkerMove, Owned, Announcing, Exists
<1>. QED
  BY <1>1, <1>2, <1>3, <1>4, <1>5, <1>6, <1>7, <1>8, <1>9, UploadFrame
     DEF VideoStep, Upload, Worker, Trim

(* No row is `processing` before the first step, and who owns one is told. *)
LEMMA OwnedTells ==
  /\ Init => OwnedInv
  /\ TypeInv /\ RecordInv /\ OwnedInv => ProcessingIsOwned
<1>1. Init => OwnedInv
  BY DEF Init, StoreInit, VideoInit, OwnedInv, Owned, NoRow, Ids
<1>2. ASSUME TypeInv, RecordInv, OwnedInv, NEW u \in Uploads, rows[u].status = "processing"
      PROVE  upc[u] \in {"enqueue", "rollback"} \/ job[u] = "pending"
  <2>1. upc[u] \in UploadSteps /\ job[u] \in JobStates
    BY <1>2 DEF TypeInv, TypeOK, VideoTypeOK
  <2>2. UploadRecord(u) /\ Owned(u)
    BY <1>2 DEF RecordInv, OwnedInv
  <2>. QED
    BY <1>2, <2>1, <2>2 DEF UploadSteps, JobStates, UploadRecord, Owned, Early, Exists
<1>. QED
  BY <1>1, <1>2 DEF ProcessingIsOwned

(* If the database answers and the stream keeps its messages, no row is    *)
(* stuck `processing` with nobody left to settle it, whatever else fails:  *)
(* a failed enqueue rolls its row back, and a job that fails, or whose     *)
(* worker dies, is settled or delivered again (upload.py 811-823).         *)
THEOREM ProcessingHasOwner ==
  ASSUME Faults \cap {"metadata", "lookup", "trim"} = {}
  PROVE  Spec => []ProcessingIsOwned
<1>1. TypeInv /\ RecordInv /\ OwnedInv /\ [Next]_vars => OwnedInv'
  BY OwnedStep
<1>. QED
  BY <1>1, OwnedTells, RecordInvariant, PTL DEF Spec

(***************************************************************************)
(* The refinement.  What the owner sees of an upload is a function of its  *)
(* row, of where its request is and of one object; every step changes it   *)
(* for at most one upload, and as VideoLifecycle allows.                   *)
(***************************************************************************)
Served(u) == rows[u].status = "ready" /\ rows[u].key \in objects

SameView(u) == ObservedState(u)' = ObservedState(u) /\ Served(u)' = Served(u)

ViewInv == TypeInv /\ RecordInv /\ HistoryInv /\ KeyInv /\ OutcomeInv /\ SettledInv

(* The object of a row that stays ready is stored once, and taken away     *)
(* only by a DELETE of that row.                                           *)
LEMMA ServedFrame ==
  ASSUME ViewInv, [Next]_vars, NEW u \in Uploads, rows[u].status = "ready",
         rows'[u].status = "ready", rows'[u].key = rows[u].key
  PROVE  \/ Served(u)' = Served(u)
         \/ /\ Served(u) /\ ~Served(u)'
            /\ \E d \in Deleters : did[d] = u /\ dpc[d] = "object" /\ dpc'[d] = "row"
<1>0. u \in Ids /\ Exists(u)
  BY DEF Ids, Exists
<1>1. PICK k : k = rows[u].key
  OBVIOUS
<1>2. NameOf(u, k) /\ VideoKey(u, k) /\ k.dir = "videos"
  BY <1>0, <1>1 DEF ViewInv, HistoryInv, RowNamed, KeyInv, RowKeys
<1>3. k \notin objects => k \notin objects'
  BY <1>0, <1>2, Additions, NamesUsedOnce DEF ViewInv
<1>4. ASSUME k \in objects, k \notin objects'
      PROVE  \E d \in Deleters : did[d] = u /\ dpc[d] = "object" /\ dpc'[d] = "row"
  <2>1. Removable(k)
    BY <1>4, Removals DEF ViewInv
  <2>. QED
    BY <1>2, <2>1, VideoKeyUnique DEF Removable, PrePublish, ViewInv
<1>. QED
  BY <1>1, <1>3, <1>4 DEF Served

(* A view that changes for one upload only is a step of the life cycle.    *)
LEMMA OneView ==
  ASSUME NEW v \in Uploads, NEW s, NEW p, ObservedState(v)' = s, Served(v)' = p,
         \A u \in Uploads : u # v => SameView(u)
  PROVE  Lifecycle!Becomes(v, s, p)
BY DEF Lifecycle!Becomes, SameView, Served

(* The step of one upload is seen of no other.                             *)
LEMMA OtherView ==
  ASSUME ViewInv, [Next]_vars, NEW v \in Uploads, VideoStep(v), UNCHANGED deleteVars,
         NEW u \in Uploads, u # v
  PROVE  SameView(u)
<1>1. SameUpload(u) /\ rows'[u] = rows[u]
  BY OtherUpload DEF ViewInv
<1>2. ObservedState(u)' = ObservedState(u)
  BY <1>1 DEF SameUpload, ObservedState, Exists
<1>3. Served(u)' = Served(u)
  BY <1>1, ServedFrame DEF Served, deleteVars
<1>. QED
  BY <1>2, <1>3 DEF SameView

(* Before its INSERT an upload is not registered, and never is again.      *)
LEMMA RegisteredStays ==
  ASSUME TypeInv, [Next]_vars, NEW u \in Uploads, upc'[u] \in {"idle", "stage", "create"}
  PROVE  upc[u] \in {"idle", "stage", "create"}
<1>. USE DEF TypeInv, TypeOK, VideoTypeOK
<1>1. CASE SameUpload(u)
  BY <1>1 DEF SameUpload
<1>2. CASE LookupHit(u) \/ LookupMiss(u) \/ Upload(u)
  BY <1>2 DEF LookupHit, LookupMiss, Upload, Stage, CreateRecord, Enqueue, Rollback, Unstage,
              LinkTask, UploadStep
<1>3. ASSUME Worker(u) \/ Crash(u) \/ Trim(u) PROVE upc' = upc
  BY <1>3 DEF Worker, Crash, Trim, Deliver, Acknowledge, Compress, LoadRecord, Encode, PutOutput,
              Publish, Retract, Discard, StorePoster, ExtractFrame, CreatePoster, LinkPoster,
              ReadLinked, DropPosterObject, DropPosterRow, Fail, Notify, NotifyEvent, Cleanup,
              uploadVars
<1>. QED
  BY <1>1, <1>2, <1>3, UploadFrame DEF VideoStep

(* What the owner sees of a step of the upload or of its job.              *)
LEMMA OwnView ==
  ASSUME ViewInv, [Next]_vars, NEW v \in Uploads, VideoStep(v), UNCHANGED deleteVars
  PROVE  SameView(v) \/ Lifecycle!Next
<1>0. TypeInv /\ v \in Ids /\ rows[v].status \in Statuses
  BY DEF ViewInv, TypeInv, TypeOK, StoreTypeOK, Rows, Ids
<1>1. \A u \in Uploads : u # v => SameView(u)
  BY OtherView
<1>2. \A s, p : ObservedState(v)' = s /\ Served(v)' = p => Lifecycle!Becomes(v, s, p)
  BY <1>1, OneView
<1>3. RowMove(v)
  BY <1>0, RowMoves
<1>4. CASE rows'[v].status = rows[v].status /\ rows'[v].key = rows[v].key
  <2>1. Served(v)' = Served(v)
    <3>1. CASE rows[v].status = "ready"
      BY <1>4, <3>1, ServedFrame DEF deleteVars
    <3>2. CASE rows[v].status # "ready"
      BY <1>4, <3>2 DEF Served
    <3>. QED
      BY <3>1, <3>2
  <2>2. CASE ObservedState(v)' = ObservedState(v)
    BY <2>1, <2>2 DEF SameView
  <2>3. CASE ObservedState(v)' # ObservedState(v)
    <3>1. ObservedState(v) = "none" /\ ObservedState(v)' = "gone" /\ ~Exists(v)
      BY <1>0, <1>4, <2>3, RegisteredStays DEF ObservedState, Exists
    <3>2. Served(v)' = FALSE
      BY <2>1, <3>1 DEF Served, Exists
    <3>3. Lifecycle!Refuse(v)
      BY <1>2, <3>1, <3>2 DEF Lifecycle!Refuse
    <3>. QED
      BY <3>3 DEF Lifecycle!Next
  <2>. QED
    BY <2>2, <2>3
<1>5. CASE rows'[v] = NoRow /\ upc[v] = "rollback"
  <2>1. ObservedState(v)' = "gone" /\ Served(v)' = FALSE
    BY <1>0, <1>5, RegisteredStays DEF ObservedState, Exists, Served, NoRow
  <2>2. CASE Exists(v)
    <3>1. ObservedState(v) \in {"processing", "ready", "failed"}
      BY <1>0, <2>2 DEF ObservedState, Exists, Statuses
    <3>2. Lifecycle!Remove(v)
      BY <1>2, <2>1, <3>1 DEF Lifecycle!Remove
    <3>. QED
      BY <3>2 DEF Lifecycle!Next, Lifecycle!Settle
  <2>3. CASE ~Exists(v)
    BY <1>5, <2>1, <2>3 DEF SameView, ObservedState, Served, Exists
  <2>. QED
    BY <2>2, <2>3
<1>6. CASE rows'[v] = VideoRow(v) /\ upc[v] = "create"
  <2>1. ~Exists(v)
    BY <1>6 DEF ViewInv, RecordInv, UploadRecord, Early
  <2>2. ObservedState(v)' = "processing" /\ Served(v)' = FALSE
    BY <1>6 DEF ObservedState, Exists, Served, VideoRow, NoRow
  <2>3. Lifecycle!Register(v)
    BY <1>2, <1>6, <2>1, <2>2 DEF Lifecycle!Register, ObservedState
  <2>. QED
    BY <2>3 DEF Lifecycle!Next
<1>7. CASE /\ Exists(v) /\ wpc[v] = "publish" /\ objects' = objects
           /\ rows'[v].status = "ready" /\ rows'[v].key = OutputKey(v)
  <2>1. ObservedState(v) = "processing"
    BY <1>0, <1>7 DEF ViewInv, SettledInv, SettledBy, Announcing, Done, ObservedState, Exists,
                      Statuses
  <2>2. ObservedState(v)' = "ready" /\ Served(v)' = TRUE
    BY <1>7 DEF ViewInv, KeyInv, OutputStored, ObservedState, Exists, Served
  <2>3. Lifecycle!Complete(v)
    BY <1>2, <2>1, <2>2 DEF Lifecycle!Complete
  <2>. QED
    BY <2>3 DEF Lifecycle!Next, Lifecycle!Settle
<1>8. CASE Exists(v) /\ wpc[v] = "fail" /\ rows'[v].status = "failed"
  <2>1. ObservedState(v) = "processing"
    BY <1>0, <1>8 DEF ViewInv, SettledInv, SettledBy, Announcing, Done, ObservedState, Exists,
                      Statuses
  <2>2. ObservedState(v)' = "failed" /\ Served(v)' = FALSE
    BY <1>8 DEF ObservedState, Exists, Served
  <2>3. Lifecycle!Fail(v)
    BY <1>2, <2>1, <2>2 DEF Lifecycle!Fail
  <2>. QED
    BY <2>3 DEF Lifecycle!Next, Lifecycle!Settle
<1>. QED
  BY <1>3, <1>4, <1>5, <1>6, <1>7, <1>8 DEF RowMove

(* What the owners see of a step of a DELETE.                              *)
LEMMA DeleteView ==
  ASSUME ViewInv, [Next]_vars, NEW d \in Deleters, LoadForDelete(d) \/ Delete(d),
         UNCHANGED videoVars
  PROVE  (\A u \in Uploads : SameView(u)) \/ Lifecycle!Next
<1>0. TypeInv /\ upc' = upc
  BY DEF ViewInv, videoVars
<1>1. ASSUME NEW u \in Uploads, rows'[u] = rows[u]
      PROVE  \/ SameView(u)
             \/ /\ rows[u].status = "ready" /\ did[d] = u
                /\ Served(u) /\ ~Served(u)' /\ ObservedState(u)' = ObservedState(u)
  <2>1. ObservedState(u)' = ObservedState(u)
    BY <1>0, <1>1 DEF ObservedState, Exists
  <2>2. CASE rows[u].status # "ready"
    BY <1>1, <2>1, <2>2 DEF SameView, Served
  <2>3. CASE rows[u].status = "ready"
    <3>1. \/ Served(u)' = Served(u)
          \/ /\ Served(u) /\ ~Served(u)'
             /\ \E e \in Deleters : did[e] = u /\ dpc[e] = "object" /\ dpc'[e] = "row"
      BY <1>1, <2>3, ServedFrame
    <3>2. ASSUME NEW e \in Deleters, dpc[e] = "object", dpc'[e] = "row" PROVE e = d
      BY <1>0, <3>2, OtherDelete DEF SameDelete
    <3>. QED
      BY <2>1, <2>3, <3>1, <3>2 DEF SameView
  <2>. QED
    BY <2>2, <2>3
<1>2. \A u \in Uploads : u # did[d] => SameView(u)
  BY <1>0, <1>1, OtherRow DEF DeletedBy
<1>3. CASE did[d] \notin Uploads
  BY <1>2, <1>3
<1>4. CASE did[d] \in Uploads
  <2>1. PICK v \in Uploads : v = did[d]
    BY <1>4
  <2>2. \A s, p : ObservedState(v)' = s /\ Served(v)' = p => Lifecycle!Becomes(v, s, p)
    BY <1>2, <2>1, OneView
  <2>3. v \in Ids /\ rows[v].status \in Statuses /\ upc[v] \notin Early
    BY <2>1 DEF ViewInv, TypeInv, TypeOK, StoreTypeOK, Rows, Ids, RecordInv, DeleteRecorded
  <2>4. CASE SameView(v)
    BY <1>2, <2>1, <2>4
  <2>5. CASE /\ rows[v].status = "ready" /\ Served(v) /\ ~Served(v)'
             /\ ObservedState(v)' = ObservedState(v)
    <3>1. ObservedState(v) = "ready" /\ Served(v)' = FALSE
      BY <2>5 DEF ObservedState, Exists, Served
    <3>2. Lifecycle!Withdraw(v)
      BY <2>2, <2>5, <3>1 DEF Lifecycle!Withdraw, Served
    <3>. QED
      BY <3>2 DEF Lifecycle!Next
  <2>6. CASE rows'[v] = NoRow
    <3>1. ObservedState(v)' = "gone" /\ Served(v)' = FALSE
      BY <1>0, <2>3, <2>6 DEF ObservedState, Exists, Served, NoRow, Early
    <3>2. CASE Exists(v)
      <4>1. ObservedState(v) \in {"processing", "ready", "failed"}
        BY <2>3, <3>2 DEF ObservedState, Exists, Statuses
      <4>2. Lifecycle!Remove(v)
        BY <2>2, <3>1, <4>1 DEF Lifecycle!Remove
      <4>. QED
        BY <4>2 DEF Lifecycle!Next, Lifecycle!Settle
    <3>3. CASE ~Exists(v)
      BY <2>3, <2>4, <3>1, <3>3 DEF SameView, ObservedState, Exists, Served, Early
    <3>. QED
      BY <3>2, <3>3
  <2>. QED
    BY <1>0, <1>1, <2>1, <2>4, <2>5, <2>6, OtherRow DEF DeletedBy
<1>. QED
  BY <1>3, <1>4

(* If no worker dies and no reply is lost, all of this is kept throughout. *)
LEMMA ViewInvariant ==
  ASSUME "crash" \notin Faults, "lost_reply" \notin Faults
  PROVE  Spec => []ViewInv
<1>1. TypeInv /\ RecordInv /\ OutcomeInv /\ SettledInv /\ [Next]_vars => SettledInv'
  BY SettledStep
<1>. QED
  BY <1>1, OutcomeInit, OutcomeInvariant, HistoryInvariant, KeyInvariant, PTL DEF Spec, ViewInv

(* If no worker dies and a call that reported failure did not take effect, *)
(* every step of handlers, workers, DELETE requests and the remaining      *)
(* failures is a step of the life cycle VideoLifecycle promises to the     *)
(* owner, or is not seen by them.                                          *)
THEOREM VideosFollowLifecycle ==
  ASSUME "crash" \notin Faults, "lost_reply" \notin Faults
  PROVE  Spec => Lifecycle!Spec
<1>1. Init => Lifecycle!Init
  <2>. SUFFICES ASSUME Init PROVE Lifecycle!Init
    OBVIOUS
  <2>1. ASSUME NEW u \in Uploads PROVE rows[u].status = "none" /\ upc[u] = "idle"
    BY DEF Init, StoreInit, VideoInit, NoRow, Ids
  <2>2. \A u \in Uploads : ObservedState(u) = "none"
    BY <2>1 DEF ObservedState, Exists
  <2>3. \A u \in Uploads : (rows[u].status = "ready" /\ rows[u].key \in objects) = FALSE
    BY <2>1
  <2>. QED
    BY <2>2, <2>3, Zenon DEF Lifecycle!Init
<1>2. ViewInv /\ [Next]_vars => [Lifecycle!Next]_(Lifecycle!lifecycleVars)
  <2>. SUFFICES ASSUME ViewInv, [Next]_vars
                PROVE  Lifecycle!Next \/ UNCHANGED Lifecycle!lifecycleVars
    OBVIOUS
  <2>1. ASSUME \A u \in Uploads : SameView(u) PROVE UNCHANGED Lifecycle!lifecycleVars
    BY <2>1 DEF SameView, Served, Lifecycle!lifecycleVars
  <2>2. CASE UNCHANGED vars
    BY <2>2 DEF vars, storeVars, videoVars, Lifecycle!lifecycleVars, ObservedState, Exists
  <2>3. ASSUME NEW v \in Uploads, VideoStep(v), UNCHANGED deleteVars
        PROVE  (\A u \in Uploads : SameView(u)) \/ Lifecycle!Next
    BY <2>3, OwnView, OtherView
  <2>. QED
    BY <2>1, <2>2, <2>3, DeleteView DEF Next, VideoNext, DeleteNext, VideoStep
<1>. QED
  BY <1>1, <1>2, ViewInvariant, PTL DEF Spec, Lifecycle!Spec

(***************************************************************************)
(* Who is to remove each object that VideoSystem has stored, when deletes  *)
(* of objects and webhooks succeed, no worker dies and no reply is lost:   *)
(* every object is pointed at by a row, or somebody is still going to      *)
(* remove it, or it is the output that lost the race with a DELETE.        *)
(***************************************************************************)

CleanFaults == Faults \cap {"remove", "notify", "disk", "lost_reply", "crash"} = {}

(* The job of u has settled its row.                                       *)
Settling(u) == wpc[u] \in Announcing \cup {"notify_failed"} \/ Done(u)

(* mark_ready has returned, and the video is announced or about to be.     *)
Published(u) == wpc[u] \in Announcing \/ <<u, "video.completed">> \in events

(* What is known of the row of a video, and of the poster of its delivery. *)
VideoFacts(u) ==
  /\ wpc[u] # "idle" => job[u] = "pending"
  /\ upc[u] = "rollback" => job[u] = "none"
  /\ Exists(u) /\ rows[u].key.dir = "raw/videos" => rows[u].key = RawKey(u)
  /\ Exists(u) /\ rows[u].key.dir = "videos" => rows[u].status = "ready"
  /\ wpc[u] \in {"link", "linked", "drop_poster", "drop_row"} /\ Exists(Delivery(u)) =>
       rows[Delivery(u)].key = PosterKey(u)
  /\ wpc[u] = "drop_row" => PosterKey(u) \notin objects

(* What a DELETE has read is what the row still holds, unless the job of   *)
(* the video has published it since.                                       *)
DeleteFacts(d) ==
  /\ dpc[d] # "idle" /\ did[d] \in Uploads =>
       /\ dsnap[d].status # "none"
       /\ dsnap[d].status = "processing" \/ Settling(did[d])
       /\ Exists(did[d]) /\ dsnap[d].key # rows[did[d]].key =>
            dsnap[d].status = "processing" /\ Published(did[d])
  /\ dpc[d] # "idle" /\ did[d] \in Jobs /\ Exists(did[d]) => dsnap[d].key = rows[did[d]].key
  /\ dpc[d] \in {"poster_object", "poster_row"} =>
       /\ NameOf(dsnap[d].poster, dposter[d].key)
       /\ Exists(dsnap[d].poster) => dposter[d].key = rows[dsnap[d].poster].key
  /\ dpc[d] = "poster_row" => dposter[d].key \notin objects
  /\ dpc[d] # "broken"

HeldBy(i, k) == Exists(i) /\ rows[i].key = k

(* The output of a job that published while a DELETE was under way.        *)
LostRace(u, k) ==
  /\ k.dir = "videos" /\ k.tag \in {u} \X Runs
  /\ Published(u)
  /\ \E d \in Deleters :
       did[d] = u /\ dpc[d] \in Dropped /\ dsnap[d].status = "processing"

RawAccount(u, k) ==
  /\ k = RawKey(u)
  /\ \/ upc[u] \in {"create", "rollback", "unstage"}
     \/ wpc[u] \notin {"idle", "load", "finished", "crashed"}
     \/ HeldBy(u, k)

OutputAccount(u, k) ==
  \/ k = OutputKey(u) /\ wpc[u] \in {"publish", "retract", "discard"}
  \/ k.dir = "videos" /\ k.tag \in {u} \X Runs /\ HeldBy(u, k)
  \/ LostRace(u, k)

PosterAccount(u, k) ==
  \/ k = PosterKey(u) /\ wpc[u] \in {"poster_row", "drop_frame", "drop_poster"}
  \/ k.dir = "posters" /\ k.tag \in Jobs /\ HeldBy(k.tag, k)

Account(k) ==
  \E u \in Uploads : RawAccount(u, k) \/ OutputAccount(u, k) \/ PosterAccount(u, k)

StorageInv ==
  /\ \A u \in Uploads : VideoFacts(u)
  /\ \A d \in Deleters : DeleteFacts(d)
  /\ \A k \in objects : Account(k)

(***************************************************************************)
(* What the steps do to the things these facts are about.                  *)
(***************************************************************************)

(* A job that has settled its row stays settled, and what is published is  *)
(* announced.                                                              *)
LEMMA SettlingStable ==
  ASSUME CleanFaults, ViewInv, [Next]_vars, NEW u \in Uploads
  PROVE  /\ Settling(u) => Settling(u)'
         /\ Published(u) => Published(u)'
<1>. USE DEF Settling, Published, Announcing, Done, CleanFaults
<1>0. TypeInv /\ RecordInv /\ Outcome(u)
  BY DEF ViewInv, OutcomeInv
<1>1. CASE SameUpload(u)
  BY <1>1 DEF SameUpload
<1>2. CASE LookupHit(u) \/ LookupMiss(u) \/ Upload(u)
  BY <1>0, <1>2, RequestSteps
<1>3. CASE Acknowledge(u) \/ Trim(u)
  BY <1>0, <1>3 DEF Acknowledge, Trim, WorkerStep, workerVars, TypeInv, TypeOK, VideoTypeOK
<1>4. CASE Deliver(u) \/ Compress(u)
  <2>1. WorkerMove(u) /\ UNCHANGED <<upc, job>>
    BY <1>0, <1>4, WorkerMoves DEF Outcome
  <2>2. events \subseteq events'
    BY <1>0, <1>4, EventSteps DEF VideoStep, Worker
  <2>3. wpc[u] = "notify_completed" /\ wpc'[u] = "cleanup" => <<u, "video.completed">> \in events'
    BY <1>4 DEF Deliver, Compress, LoadRecord, Encode, PutOutput, Publish, Retract, Discard,
                StorePoster, ExtractFrame, CreatePoster, LinkPoster, ReadLinked,
                DropPosterObject, DropPosterRow, Fail, Notify, NotifyEvent, Cleanup, WorkerStep
  <2>. QED
    BY <2>1, <2>2, <2>3 DEF WorkerMove
<1>. QED
  BY <1>0, <1>1, <1>2, <1>3, <1>4, UploadFrame DEF VideoStep, Worker, Crash

(* Where the worker is with the poster it is storing.                      *)
PosterPhase == {"poster_row", "drop_frame", "link", "linked", "drop_poster", "drop_row"}

(* The requests and the poster's steps do not change what a delivery has   *)
(* read.                                                                   *)
LEMMA PosterPhaseSteps ==
  ASSUME TypeInv, [Next]_vars, NEW u \in Uploads, wpc'[u] \in PosterPhase \cup {"retract", "discard"}
  PROVE  run'[u] = run[u] /\ wvis'[u] = wvis[u]
<1>. USE DEF TypeInv, TypeOK, VideoTypeOK, PosterPhase
<1>1. CASE SameUpload(u)
  BY <1>1 DEF SameUpload
<1>2. CASE LookupHit(u) \/ LookupMiss(u) \/ Upload(u) \/ Trim(u)
  BY <1>2 DEF LookupHit, LookupMiss, Upload, Stage, CreateRecord, Enqueue, Rollback, Unstage,
              LinkTask, Trim, workerVars
<1>3. CASE Deliver(u) \/ Acknowledge(u) \/ Crash(u)
  BY <1>3 DEF Deliver, Acknowledge, Crash, WorkerStep
<1>4. CASE Compress(u)
  BY <1>4 DEF Compress, LoadRecord, Encode, PutOutput, Publish, Retract, Discard, StorePoster,
              ExtractFrame, CreatePoster, LinkPoster, ReadLinked, DropPosterObject,
              DropPosterRow, Fail, Notify, NotifyEvent, Cleanup, WorkerStep
<1>. QED
  BY <1>1, <1>2, <1>3, <1>4, UploadFrame DEF VideoStep, Worker

(* What a request asked for does not change.                               *)
LEMMA RequestStays ==
  ASSUME [Next]_vars
  PROVE  req' = req
BY DEF Next, vars, videoVars, VideoNext, LookupHit, LookupMiss, Upload, Stage, CreateRecord,
       Enqueue, Rollback, Unstage, LinkTask, Worker, Crash, Trim, Deliver, Acknowledge, Compress,
       LoadRecord, Encode, PutOutput, Publish, Retract, Discard, StorePoster, ExtractFrame,
       CreatePoster, LinkPoster, ReadLinked, DropPosterObject, DropPosterRow, Fail, Notify,
       NotifyEvent, Cleanup, uploadVars

(* Who may delete the row of a poster.                                     *)
PosterDropped(j) ==
  \/ \E u \in Uploads : wpc[u] = "drop_row" /\ Delivery(u) = j
  \/ \E d \in Deleters : did[d] = j /\ dpc[d] = "row"
  \/ \E d \in Deleters : dsnap[d].poster = j /\ dpc[d] = "poster_row"

(* A poster's row stays, is inserted by its delivery, or is deleted by one *)
(* of these.                                                               *)
LEMMA PosterMoves ==
  ASSUME TypeInv, [Next]_vars, NEW j \in Jobs
  PROVE  \/ rows'[j] = rows[j]
         \/ \E u \in Uploads : PosterInserted(u, j)
         \/ rows'[j] = NoRow /\ PosterDropped(j)
<1>0. j \in Ids /\ j \notin Uploads /\ StoreTypeOK
  BY StoreAssumption DEF Ids, TypeInv, TypeOK
<1>1. CASE rows'[j] # rows[j] /\ rows'[j] = NoRow
  <2>1. ASSUME NEW u \in Uploads, VideoStep(u) PROVE wpc[u] = "drop_row" /\ Delivery(u) = j
    <3>1. CASE LookupHit(u) \/ LookupMiss(u) \/ Upload(u)
      BY <1>0, <1>1, <3>1, OneRow
         DEF LookupHit, LookupMiss, Upload, Stage, CreateRecord, Enqueue, Rollback, Unstage,
             LinkTask, SetTaskId, storeVars
    <3>2. CASE Deliver(u) \/ Acknowledge(u) \/ Crash(u) \/ Trim(u)
      BY <1>1, <3>2 DEF Deliver, Acknowledge, Crash, Trim, storeVars
    <3>3. CASE CreatePoster(u)
      <4>1. CASE j = Delivery(u)
        <5>1. rows'[j] = PosterRow(u)
          BY <1>0, <1>1, <3>3, <4>1 DEF CreatePoster, Insert, StatementRaises, StoreTypeOK
        <5>2. PosterRow(u).status = "ready" /\ NoRow.status = "none"
          BY DEF PosterRow, NoRow
        <5>. QED
          BY <1>1, <5>1, <5>2
      <4>2. CASE j # Delivery(u)
        BY <1>0, <1>1, <3>3, <4>2, OneRow DEF CreatePoster
      <4>. QED
        BY <4>1, <4>2
    <3>4. CASE DropPosterRow(u)
      BY <1>0, <1>1, <3>4, OneRow DEF DropPosterRow, WorkerStep
    <3>5. CASE Compress(u) /\ ~ CreatePoster(u) /\ ~ DropPosterRow(u)
      BY <1>0, <1>1, <3>5, OneRow
         DEF Compress, LoadRecord, Encode, PutOutput, Publish, Retract, Discard, StorePoster,
             ExtractFrame, LinkPoster, ReadLinked, DropPosterObject, Fail, Notify, NotifyEvent,
             Cleanup, MarkReady, MarkFailed, SetPoster, storeVars
    <3>. QED
      BY <2>1, <3>1, <3>2, <3>3, <3>4, <3>5 DEF VideoStep, Worker
  <2>2. ASSUME NEW d \in Deleters, LoadForDelete(d) \/ Delete(d)
        PROVE  \/ did[d] = j /\ dpc[d] = "row"
               \/ dsnap[d].poster = j /\ dpc[d] = "poster_row"
    BY <1>0, <1>1, <2>2, OneRow
       DEF LoadForDelete, Delete, DeleteObject, DeleteRendition, DeleteRecord, LoadPoster,
           DeletePosterObject, DeletePosterRecord, DeleteStep, storeVars
  <2>. QED
    BY <1>1, <2>1, <2>2
       DEF Next, vars, storeVars, VideoNext, DeleteNext, VideoStep, PosterDropped
<1>. QED
  BY <1>1, PosterFrame

(* A poster's row that is named already is not inserted.                   *)
LEMMA PosterInsertedOnce ==
  ASSUME TypeInv, NEW j \in Jobs, NEW k, NameOf(j, k), NEW u \in Uploads, PosterInserted(u, j)
  PROVE  FALSE
BY StoreAssumption DEF PosterInserted, NameOf, PosterName, Past, PrePoster, Delivery

(***************************************************************************)
(* The facts about videos.                                                 *)
(***************************************************************************)

(* Where the row of a video points, and that its job is queued.            *)
LEMMA VideoRowFactsStep ==
  ASSUME CleanFaults, ViewInv, StorageInv, [Next]_vars, NEW u \in Uploads
  PROVE  /\ wpc'[u] # "idle" => job'[u] = "pending"
         /\ upc'[u] = "rollback" => job'[u] = "none"
         /\ Exists(u)' /\ rows'[u].key.dir = "raw/videos" => rows'[u].key = RawKey(u)'
         /\ Exists(u)' /\ rows'[u].key.dir = "videos" => rows'[u].status = "ready"
<1>. USE DEF CleanFaults
<1>0. /\ TypeInv /\ RecordInv /\ Outcome(u) /\ SettledBy(u) /\ UploadRecord(u)
      /\ VideoFacts(u) /\ RawKey(u)' = RawKey(u)
  BY RequestStays DEF ViewInv, OutcomeInv, SettledInv, RecordInv, StorageInv, RawKey
<1>1. CASE SameUpload(u) /\ (rows'[u] = rows[u] \/ \E d \in Deleters : DeletedBy(u, d))
  BY <1>0, <1>1 DEF SameUpload, DeletedBy, NoRow, VideoFacts, Exists
<1>2. ASSUME VideoStep(u)
      PROVE  /\ Exists(u)' /\ rows'[u].key.dir = "raw/videos" => rows'[u].key = RawKey(u)'
             /\ Exists(u)' /\ rows'[u].key.dir = "videos" => rows'[u].status = "ready"
  <2>1. RowMove(u)
    BY <1>0, <1>2, RowMoves
  <2>2. VideoRow(u).key = RawKey(u) /\ RawKey(u).dir = "raw/videos" /\ OutputKey(u).dir = "videos"
    BY DEF VideoRow, NoRow, RawKey, OutputKey, Key
  <2>3. wpc[u] = "fail" => rows[u].status # "ready"
    BY <1>0 DEF SettledBy, Announcing, Done
  <2>. QED
    BY <1>0, <2>1, <2>2, <2>3 DEF RowMove, NoRow, VideoFacts, Exists
<1>3. ASSUME VideoStep(u)
      PROVE  /\ wpc'[u] # "idle" => job'[u] = "pending"
             /\ upc'[u] = "rollback" => job'[u] = "none"
  <2>1. CASE LookupHit(u) \/ LookupMiss(u) \/ Upload(u)
    <3>1. upc'[u] = "rollback" => job'[u] = job[u] /\ upc[u] = "enqueue"
      BY <1>0, <2>1 DEF LookupHit, LookupMiss, Upload, Stage, CreateRecord, Enqueue, Rollback,
                        Unstage, LinkTask, UploadStep, TypeInv, TypeOK, VideoTypeOK
    <3>. QED
      BY <1>0, <2>1, <3>1, RequestSteps DEF VideoFacts, UploadRecord, Early
  <2>2. CASE Acknowledge(u) \/ Trim(u)
    <3>1. job[u] = "pending" /\ wpc'[u] = "idle" /\ upc'[u] # "rollback"
      BY <1>0, <2>2 DEF Acknowledge, Trim, WorkerStep, uploadVars, workerVars, VideoFacts, TypeInv,
                        TypeOK, VideoTypeOK
    <3>. QED
      BY <3>1
  <2>3. CASE Deliver(u) \/ Compress(u)
    <3>1. WorkerMove(u) /\ UNCHANGED <<upc, job>>
      BY <1>0, <2>3, WorkerMoves DEF Outcome
    <3>2. wpc[u] # "idle" \/ job[u] = "pending"
      BY <3>1 DEF WorkerMove, Announcing
    <3>3. (wpc[u] # "idle" => job[u] = "pending") /\ (upc[u] = "rollback" => job[u] = "none")
      BY <1>0 DEF VideoFacts
    <3>. QED
      BY <3>1, <3>2, <3>3
  <2>. QED
    BY <1>3, <2>1, <2>2, <2>3 DEF VideoStep, Worker, Crash
<1>. QED
  BY <1>0, <1>1, <1>2, <1>3, UploadFrame

(* The poster of a delivery is in its row until the worker takes it back.  *)
LEMMA PosterFactsStep ==
  ASSUME CleanFaults, ViewInv, StorageInv, [Next]_vars, NEW u \in Uploads
  PROVE  /\ wpc'[u] \in {"link", "linked", "drop_poster", "drop_row"} /\ Exists(Delivery(u))' =>
              rows'[Delivery(u)'].key = PosterKey(u)'
         /\ wpc'[u] = "drop_row" => PosterKey(u)' \notin objects'
<1>. USE DEF CleanFaults
<1>0. TypeInv /\ VideoFacts(u) /\ NoRow.status = "none"
  BY DEF ViewInv, StorageInv, NoRow
<1>. SUFFICES ASSUME wpc'[u] \in {"link", "linked", "drop_poster", "drop_row"}
              PROVE  /\ Exists(Delivery(u))' => rows'[Delivery(u)'].key = PosterKey(u)'
                     /\ wpc'[u] = "drop_row" => PosterKey(u)' \notin objects'
  OBVIOUS
<1>1. Delivery(u)' = Delivery(u) /\ PosterKey(u)' = PosterKey(u)
  BY <1>0, PosterPhaseSteps DEF PosterPhase, Delivery, PosterKey
<1>2. PICK k : k = PosterKey(u)
  OBVIOUS
<1>3. PICK j : j = Delivery(u)
  OBVIOUS
<1>4. CASE wpc'[u] = wpc[u]
  <2>1. j \in Jobs
    BY <1>0, <1>3, <1>4, NamesType
  <2>2. Exists(j)' => rows'[j].key = k
    <3>1. ASSUME NEW v \in Uploads, PosterInserted(v, j) PROVE FALSE
      BY <1>3, <1>4, <3>1 DEF PosterInserted, Delivery
    <3>. QED
      BY <1>0, <1>2, <1>3, <1>4, <2>1, <3>1, PosterMoves DEF VideoFacts, Exists
  <2>3. wpc'[u] = "drop_row" => k \notin objects'
    <3>1. ASSUME NEW v \in Uploads, Storable(v, k), wpc[u] = "drop_row" PROVE FALSE
      BY <1>2, <3>1 DEF Storable, RawKey, OutputKey, PosterKey, Key, Delivery
    <3>. QED
      BY <1>0, <1>2, <1>4, <3>1, Additions DEF VideoFacts
  <2>. QED
    BY <1>1, <1>2, <1>3, <2>2, <2>3 DEF Exists
<1>5. CASE wpc'[u] # wpc[u]
  <2>1. VideoStep(u)
    BY <1>0, <1>5, UploadFrame DEF SameUpload
  <2>2. StorePoster(u)
    BY <1>0, <1>5, <2>1
       DEF VideoStep, LookupHit, LookupMiss, Upload, Stage, CreateRecord, Enqueue, Rollback,
           Unstage, LinkTask, Worker, Crash, Trim, Deliver, Acknowledge, Compress, LoadRecord,
           Encode, PutOutput, Publish, Retract, Discard, Fail, Notify, NotifyEvent, Cleanup,
           WorkerStep, workerVars, TypeInv, TypeOK, VideoTypeOK
  <2>3. wpc[u] # "idle" /\ j \in Jobs
    BY <1>0, <1>3, <2>2, NamesType
       DEF StorePoster, ExtractFrame, CreatePoster, LinkPoster, ReadLinked, DropPosterObject,
           DropPosterRow, WorkerStep
  <2>4. CASE CreatePoster(u)
    <3>1. rows' = Insert(Delivery(u), PosterRow(u)) /\ wpc'[u] = "link"
      BY <1>0, <2>4 DEF CreatePoster, WorkerStep, TypeInv, TypeOK, VideoTypeOK
    <3>2. PosterRow(u).key = PosterKey(u)
      BY DEF PosterRow, NoRow
    <3>3. rows'[j].key = PosterKey(u)
      BY <1>0, <1>3, <2>3, <3>1, <3>2 DEF Insert, TypeInv, TypeOK, StoreTypeOK, Ids
    <3>. QED
      BY <1>1, <1>3, <3>1, <3>3
  <2>5. CASE StorePoster(u) /\ ~ CreatePoster(u)
    <3>1. /\ wpc[u] \in {"link", "linked", "drop_poster"}
          /\ wpc'[u] = "drop_row" => Remove(PosterKey(u))
      BY <1>0, <1>5, <2>5
         DEF StorePoster, ExtractFrame, LinkPoster, ReadLinked, DropPosterObject, DropPosterRow,
             WorkerStep, RemoveSuppressed, RemoveRefused, TypeInv, TypeOK, VideoTypeOK
    <3>2. Exists(j)' => rows'[j].key = PosterKey(u)
      <4>1. ASSUME NEW v \in Uploads, PosterInserted(v, j) PROVE FALSE
        BY <1>3, <3>1, <4>1 DEF PosterInserted, Delivery
      <4>. QED
        BY <1>0, <1>3, <2>3, <3>1, <4>1, PosterMoves DEF VideoFacts, Exists
    <3>. QED
      BY <1>1, <1>3, <3>1, <3>2 DEF Remove, Exists
  <2>. QED
    BY <2>2, <2>4, <2>5
<1>. QED
  BY <1>4, <1>5

(***************************************************************************)
(* The facts about DELETE requests.                                        *)
(***************************************************************************)

(* A DELETE keeps to the record it has read, and does not break off.       *)
LEMMA OwnDelete ==
  ASSUME CleanFaults, ViewInv, NEW d \in Deleters, Delete(d)
  PROVE  /\ did'[d] = did[d] /\ dsnap'[d] = dsnap[d]
         /\ dpc[d] # "idle" /\ dpc'[d] \notin {"idle", "broken"}
<1>1. dsnap[d].rends = {}
  BY DEF ViewInv, KeyInv, DeleteKeys
<1>. QED
  BY <1>1 DEF Delete, DeleteObject, DeleteRendition, DeleteRecord, LoadPoster, DeletePosterObject,
              DeletePosterRecord, DeleteStep, Remaining, RemoveEscapes, CleanFaults, ViewInv,
              TypeInv, TypeOK, DeleteTypeOK

(* What a DELETE has read of a video: the job may publish after it, and    *)
(* then the record it read was still `processing`.                         *)
LEMMA VideoSnapStep ==
  ASSUME CleanFaults, ViewInv, StorageInv, [Next]_vars, NEW d \in Deleters, NEW u \in Uploads,
         dpc[d] # "idle", did[d] = u
  PROVE  /\ dsnap[d].status = "processing" \/ Settling(u)'
         /\ Exists(u)' /\ dsnap[d].key # rows'[u].key =>
              dsnap[d].status = "processing" /\ Published(u)'
<1>. USE DEF CleanFaults
<1>0. /\ TypeInv /\ RecordInv /\ SettledBy(u) /\ NoRow.status = "none" /\ u \in Ids
      /\ dsnap[d].status = "processing" \/ Settling(u)
      /\ Exists(u) /\ dsnap[d].key # rows[u].key =>
           dsnap[d].status = "processing" /\ Published(u)
      /\ upc[u] \notin Early
  BY DEF ViewInv, SettledInv, StorageInv, DeleteFacts, NoRow, Ids, RecordInv, DeleteRecorded
<1>1. (Settling(u) => Settling(u)') /\ (Published(u) => Published(u)')
  BY SettlingStable
<1>2. ASSUME Exists(u)', dsnap[d].key # rows'[u].key
      PROVE  dsnap[d].status = "processing" /\ Published(u)'
  <2>1. CASE Exists(u) /\ rows'[u].key = rows[u].key
    BY <1>0, <1>1, <1>2, <2>1
  <2>2. CASE SameUpload(u) /\ (rows'[u] = rows[u] \/ \E e \in Deleters : DeletedBy(u, e))
    BY <1>0, <1>2, <2>1, <2>2 DEF DeletedBy, Exists
  <2>3. CASE VideoStep(u) /\ wpc[u] = "publish" /\ wpc'[u] \in Announcing
    BY <1>0, <2>3 DEF Settling, Announcing, Done, Published
  <2>4. CASE VideoStep(u) /\ Exists(u) /\ wpc[u] = "publish" /\ wpc'[u] = "retract"
    <3>1. rows' = rows
      BY <1>0, <2>4
         DEF VideoStep, LookupHit, LookupMiss, Upload, Stage, CreateRecord, Enqueue, Rollback,
             Unstage, LinkTask, Worker, Crash, Trim, Deliver, Acknowledge, Compress, LoadRecord,
             Encode, PutOutput, Publish, Retract, Discard, StorePoster, ExtractFrame,
             CreatePoster, LinkPoster, ReadLinked, DropPosterObject, DropPosterRow, Fail,
             Notify, NotifyEvent, Cleanup, WorkerStep, workerVars, StatementRaises,
             TypeInv, TypeOK, VideoTypeOK
    <3>. QED
      BY <2>1, <2>4, <3>1
  <2>. QED
    BY <1>0, <1>2, <2>1, <2>2, <2>3, <2>4, UploadFrame, RowMoves
       DEF RowMove, Exists, Early, Announcing
<1>. QED
  BY <1>0, <1>1, <1>2

(* What a DELETE has read of a poster is what the row still holds.         *)
LEMMA PosterSnapStep ==
  ASSUME CleanFaults, ViewInv, [Next]_vars, NEW j \in Jobs, NEW k, NameOf(j, k),
         Exists(j) => k = rows[j].key
  PROVE  Exists(j)' => k = rows'[j].key
<1>1. TypeInv /\ NoRow.status = "none"
  BY DEF ViewInv, NoRow
<1>. QED
  BY <1>1, PosterMoves, PosterInsertedOnce DEF Exists

(* So the facts about a DELETE are kept.                                   *)
LEMMA DeleteFactsStep ==
  ASSUME CleanFaults, ViewInv, StorageInv, [Next]_vars, NEW d \in Deleters
  PROVE  DeleteFacts(d)'
<1>0. TypeInv /\ DeleteFacts(d) /\ DeleteHistory(d) /\ NoRow.status = "none"
  BY DEF ViewInv, StorageInv, HistoryInv, NoRow
<1>. DEFINE Same == did'[d] = did[d] /\ dsnap'[d] = dsnap[d]
<1>1. CASE LoadForDelete(d)
  <2>1. PICK id \in Ids : Exists(id) /\ did'[d] = id /\ dsnap'[d] = rows[id]
    BY <1>0, <1>1 DEF LoadForDelete, TypeInv, TypeOK, DeleteTypeOK
  <2>2. rows' = rows /\ dpc'[d] = "object"
    BY <1>0, <1>1 DEF LoadForDelete, DeleteStep, storeVars, TypeInv, TypeOK, DeleteTypeOK
  <2>3. id \in Uploads => rows[id].status = "processing" \/ Settling(id)'
    <3>1. id \in Uploads => rows[id].status = "processing" \/ Settling(id)
      BY <2>1 DEF ViewInv, SettledInv, SettledBy, Settling, Exists, TypeInv, TypeOK, StoreTypeOK,
                  Rows, Statuses
    <3>. QED
      BY <3>1, SettlingStable
  <2>4. id \in Uploads => Settling(id)' = Settling(did[d])'
    BY <2>1 DEF Settling, Done
  <2>. QED
    BY <2>1, <2>2, <2>3, <2>4 DEF DeleteFacts, Exists
<1>2. ASSUME Same, dpc[d] # "idle", did[d] \in Uploads
      PROVE  /\ dsnap'[d].status # "none"
             /\ dsnap'[d].status = "processing" \/ Settling(did[d])'
             /\ Exists(did[d])' /\ dsnap'[d].key # rows'[did'[d]].key =>
                  dsnap'[d].status = "processing" /\ Published(did[d])'
  <2>1. PICK u \in Uploads : u = did[d]
    BY <1>2
  <2>2. /\ dsnap[d].status = "processing" \/ Settling(u)'
        /\ Exists(u)' /\ dsnap[d].key # rows'[u].key =>
             dsnap[d].status = "processing" /\ Published(u)'
    BY <1>2, <2>1, VideoSnapStep
  <2>3. dsnap[d].status # "none"
    BY <1>0, <1>2 DEF DeleteFacts
  <2>. QED
    BY <1>2, <2>1, <2>2, <2>3 DEF Settling, Done, Published, Exists
<1>3. ASSUME Same, dpc[d] # "idle", did[d] \in Jobs
      PROVE  Exists(did[d])' => dsnap'[d].key = rows'[did'[d]].key
  <2>1. PICK j \in Jobs : j = did[d]
    BY <1>3
  <2>2. PICK k : k = dsnap[d].key
    OBVIOUS
  <2>3. NameOf(j, k) /\ (Exists(j) => k = rows[j].key)
    BY <1>0, <1>3, <2>1, <2>2 DEF DeleteHistory, DeleteFacts
  <2>4. Exists(j)' => k = rows'[j].key
    BY <2>3, PosterSnapStep
  <2>. QED
    BY <1>3, <2>1, <2>2, <2>4 DEF Exists
<1>4. ASSUME Same, dpc[d] \in {"poster_object", "poster_row"}, dposter'[d] = dposter[d]
      PROVE  /\ NameOf(dsnap[d].poster, dposter[d].key)'
             /\ Exists(dsnap[d].poster)' => dposter'[d].key = rows'[dsnap'[d].poster].key
             /\ dposter[d].key \notin objects => dposter'[d].key \notin objects'
  <2>1. PICK j \in Jobs : j = dsnap[d].poster
    BY <1>0, <1>4 DEF TypeInv
  <2>2. PICK k : k = dposter[d].key
    OBVIOUS
  <2>3. NameOf(j, k) /\ (Exists(j) => k = rows[j].key) /\ j \in Ids
    BY <1>0, <1>4, <2>1, <2>2 DEF DeleteFacts, Ids
  <2>4. Exists(j)' => k = rows'[j].key
    BY <2>3, PosterSnapStep
  <2>5. NameOf(j, k)'
    BY <1>0, <2>3, NameStable
  <2>6. k \notin objects => k \notin objects'
    BY <1>0, <2>3, Additions, NamesUsedOnce
  <2>. QED
    BY <1>4, <2>1, <2>2, <2>4, <2>5, <2>6 DEF Exists, NameOf, VideoName, PosterName
<1>5. CASE SameDelete(d)
  BY <1>0, <1>2, <1>3, <1>4, <1>5 DEF SameDelete, DeleteFacts
<1>6. CASE Delete(d)
  <2>1. Same /\ dpc[d] # "idle" /\ dpc'[d] \notin {"idle", "broken"}
    BY <1>6, OwnDelete
  <2>2. CASE LoadPoster(d) /\ dpc'[d] = "poster_object"
    <3>1. PICK j \in Jobs : j = dsnap[d].poster
      BY <1>0, <2>2 DEF LoadPoster, DeleteStep, TypeInv
    <3>2. Exists(j) /\ dposter'[d] = rows[j] /\ rows' = rows
      BY <1>0, <2>2, <3>1 DEF LoadPoster, DeleteStep, storeVars, TypeInv, TypeOK, DeleteTypeOK
    <3>3. PICK k : k = rows[j].key
      OBVIOUS
    <3>4. NameOf(j, k)'
      BY <1>0, <3>2, <3>3, NameStable DEF ViewInv, HistoryInv, RowNamed, Ids
    <3>5. NameOf(dsnap[d].poster, dposter[d].key)'
      BY <2>1, <3>1, <3>2, <3>3, <3>4 DEF NameOf, VideoName, PosterName
    <3>. QED
      BY <1>2, <1>3, <2>1, <2>2, <3>1, <3>2, <3>5 DEF DeleteFacts
  <2>3. CASE DeletePosterObject(d)
    <3>1. /\ dpc[d] = "poster_object" /\ dpc'[d] = "poster_row" /\ dposter' = dposter
          /\ dposter[d].key \notin objects'
      BY <1>0, <2>1, <2>3 DEF DeletePosterObject, DeleteStep, RemoveSuppressed, RemoveRefused,
                              RemoveEscapes, Remove, CleanFaults, TypeInv, TypeOK, DeleteTypeOK
    <3>. QED
      BY <1>2, <1>3, <1>4, <2>1, <3>1 DEF DeleteFacts
  <2>4. CASE dpc'[d] \notin {"poster_object", "poster_row"}
    BY <1>2, <1>3, <2>1, <2>4 DEF DeleteFacts
  <2>5. CASE Delete(d) /\ ~ LoadPoster(d) /\ ~ DeletePosterObject(d)
    <3>1. dpc'[d] \notin {"poster_object", "poster_row"}
      BY <1>0, <2>5 DEF Delete, DeleteObject, DeleteRendition, DeleteRecord, DeletePosterRecord,
                        DeleteStep, Remaining, TypeInv, TypeOK, DeleteTypeOK
    <3>. QED
      BY <2>4, <3>1
  <2>6. LoadPoster(d) => dpc'[d] # "poster_row"
    BY <1>0 DEF LoadPoster, DeleteStep, TypeInv, TypeOK, DeleteTypeOK
  <2>. QED
    BY <1>6, <2>2, <2>3, <2>4, <2>5, <2>6
<1>. QED
  BY <1>0, <1>1, <1>5, <1>6, DeleteFrame

(***************************************************************************)
(* Each object is accounted for.                                           *)
(***************************************************************************)

(* Whoever stores an object is the one that accounts for it.               *)
LEMMA CleanAdditions ==
  ASSUME CleanFaults, TypeInv, [Next]_vars, NEW k \in objects', k \notin objects
  PROVE  Account(k)'
<1>. USE DEF CleanFaults, TypeInv, TypeOK, VideoTypeOK, Put, PutRaises, PutRefused, PutEscapes,
             Remove, RemoveRaises, RemoveRefused, RemoveEscapes, RemoveSuppressed, RemoveLast
<1>1. ASSUME NEW u \in Uploads, LookupHit(u) \/ LookupMiss(u) \/ Upload(u)
      PROVE  k = RawKey(u) /\ upc'[u] = "create"
  BY <1>1 DEF LookupHit, LookupMiss, Upload, Stage, CreateRecord, Enqueue, Rollback,
              Unstage, LinkTask, UploadStep, storeVars
<1>2. ASSUME NEW u \in Uploads, Worker(u) \/ Crash(u) \/ Trim(u)
      PROVE  /\ run' = run /\ wvis' = wvis
             /\ \/ k = OutputKey(u) /\ wpc'[u] = "publish"
                \/ k = PosterKey(u) /\ wpc'[u] = "poster_row"
  BY <1>2 DEF Worker, Crash, Trim, Deliver, Acknowledge, Compress, LoadRecord, Encode, PutOutput,
              Publish, Retract, Discard, StorePoster, ExtractFrame, CreatePoster, LinkPoster,
              ReadLinked, DropPosterObject, DropPosterRow, Fail, Notify, NotifyEvent, Cleanup,
              WorkerStep, storeVars
<1>3. ASSUME NEW d \in Deleters, LoadForDelete(d) \/ Delete(d) PROVE FALSE
  BY <1>3 DEF LoadForDelete, Delete, DeleteObject, DeleteRendition, DeleteRecord, LoadPoster,
              DeletePosterObject, DeletePosterRecord, storeVars
<1>4. PICK u \in Uploads : VideoStep(u)
  BY <1>3 DEF Next, vars, storeVars, VideoNext, DeleteNext, VideoStep
<1>5. CASE LookupHit(u) \/ LookupMiss(u) \/ Upload(u)
  <2>1. k = RawKey(u)' /\ upc'[u] = "create"
    BY <1>1, <1>5, RequestStays DEF RawKey
  <2>. QED
    BY <2>1 DEF Account, RawAccount
<1>6. CASE Worker(u) \/ Crash(u) \/ Trim(u)
  <2>1. \/ k = OutputKey(u)' /\ wpc'[u] = "publish"
        \/ k = PosterKey(u)' /\ wpc'[u] = "poster_row"
    BY <1>2, <1>6 DEF OutputKey, PosterKey, Delivery
  <2>. QED
    BY <2>1 DEF Account, OutputAccount, PosterAccount
<1>. QED
  BY <1>4, <1>5, <1>6 DEF VideoStep

(* A row goes with its own job's request, or by the statement of a DELETE. *)
LEMMA DeletedRow ==
  ASSUME CleanFaults, ViewInv, [Next]_vars, NEW u \in Uploads, rows'[u] # rows[u], ~VideoStep(u)
  PROVE  \E d \in Deleters :
           /\ DeletedBy(u, d) /\ did'[d] = u /\ dsnap'[d] = dsnap[d]
           /\ dpc'[d] \in {"load_poster", "deleted"}
<1>0. TypeInv
  BY DEF ViewInv
<1>1. PICK d \in Deleters : LoadForDelete(d) \/ Delete(d)
  BY <1>0, OtherUpload DEF Next, vars, storeVars, VideoNext, DeleteNext, VideoStep
<1>2. DeletedBy(u, d)
  BY <1>0, <1>1, OtherRow
<1>3. DeleteRecord(d)
  BY <1>1, <1>2 DEF DeletedBy, LoadForDelete, Delete, DeleteObject, DeleteRendition, LoadPoster,
                    DeletePosterObject, DeletePosterRecord, DeleteStep
<1>4. dpc'[d] \in {"load_poster", "deleted"} /\ did' = did /\ dsnap' = dsnap
  BY <1>0, <1>3 DEF DeleteRecord, DeleteStep, StatementRaises, CleanFaults, TypeInv, TypeOK,
                    DeleteTypeOK
<1>. QED
  BY <1>2, <1>4 DEF DeletedBy

(* What a DELETE at its statement has left behind.                         *)
LEMMA DeletedUnderneath ==
  ASSUME ViewInv, StorageInv, NEW u \in Uploads, NEW d \in Deleters, did[d] = u, dpc[d] = "row",
         Exists(u), rows[u].key \in objects
  PROVE  dsnap[d].status = "processing" /\ Published(u)
BY DEF ViewInv, HistoryInv, DeleteHistory, Removed, StorageInv, DeleteFacts

(* The raw object is the request's until its job is queued, then the job's.*)
LEMMA RawAccountStep ==
  ASSUME CleanFaults, ViewInv, StorageInv, [Next]_vars, NEW u \in Uploads, NEW k \in objects,
         k \in objects', RawAccount(u, k)
  PROVE  RawAccount(u, k)'
<1>. USE DEF CleanFaults
<1>0. /\ TypeInv /\ RecordInv /\ Outcome(u) /\ UploadRecord(u) /\ VideoFacts(u)
      /\ k = RawKey(u) /\ RawKey(u)' = RawKey(u) /\ k.dir = "raw/videos"
      /\ VideoRow(u).key = k /\ VideoRow(u).status = "processing" /\ u \in Ids
  BY RequestStays DEF ViewInv, OutcomeInv, RecordInv, StorageInv, RawAccount, RawKey, Key, VideoRow,
                      NoRow, Ids
<1>1. CASE SameUpload(u) /\ rows'[u] = rows[u]
  BY <1>0, <1>1 DEF SameUpload, RawAccount, HeldBy, Exists
<1>2. CASE SameUpload(u) /\ rows'[u] # rows[u] /\ ~VideoStep(u)
  <2>1. PICK d \in Deleters : DeletedBy(u, d)
    BY <1>2, DeletedRow
  <2>2. HeldBy(u, k) => Published(u)
    BY <2>1, DeletedUnderneath DEF HeldBy, DeletedBy
  <2>3. HeldBy(u, k) => rows[u].status # "ready"
    BY <1>0 DEF HeldBy, ViewInv, KeyInv, RowKeys
  <2>4. HeldBy(u, k) => wpc[u] \in Announcing
    BY <1>0, <2>2, <2>3 DEF Published, Outcome, HeldBy, Exists
  <2>. QED
    BY <1>0, <1>2, <2>4 DEF RawAccount, SameUpload, Announcing
<1>3. CASE LookupHit(u) \/ LookupMiss(u) \/ Upload(u)
  <2>0. wpc' = wpc
    BY <1>0, <1>3, RequestSteps
  <2>1. CASE upc'[u] \in {"create", "rollback", "unstage"}
    BY <1>0, <2>1 DEF RawAccount
  <2>2. CASE Unstage(u)
    BY <1>0, <2>2 DEF Unstage, RemoveLast, Remove, RemoveRaises, RemoveRefused, RemoveEscapes
  <2>3. CASE upc[u] = "create" /\ upc'[u] = "enqueue"
    <3>1. CreateRecord(u)
      BY <1>3, <2>3 DEF LookupHit, LookupMiss, Upload, Stage, Enqueue, Rollback, Unstage, LinkTask,
                        UploadStep
    <3>2. rows' = Insert(u, VideoRow(u))
      BY <1>0, <2>3, <3>1 DEF CreateRecord, UploadStep, TypeInv, TypeOK, VideoTypeOK
    <3>3. rows'[u] = VideoRow(u)
      BY <1>0, <3>2 DEF Insert, TypeInv, TypeOK, StoreTypeOK
    <3>. QED
      BY <1>0, <3>3 DEF RawAccount, HeldBy, Exists
  <2>4. CASE rows'[u].status = rows[u].status /\ rows'[u].key = rows[u].key
             /\ upc[u] \notin {"create", "rollback", "unstage"}
    BY <1>0, <2>0, <2>4 DEF RawAccount, HeldBy, Exists
  <2>5. upc[u] \in {"create", "rollback", "unstage"} =>
           \/ upc'[u] \in {"create", "rollback", "unstage"} \/ Unstage(u)
           \/ upc[u] = "create" /\ upc'[u] = "enqueue"
    BY <1>0, <1>3 DEF LookupHit, LookupMiss, Upload, Stage, CreateRecord, Enqueue, Rollback,
                      Unstage, LinkTask, UploadStep, TypeInv, TypeOK, VideoTypeOK
  <2>6. ASSUME upc[u] \notin {"create", "rollback", "unstage"}
        PROVE  rows'[u].status = rows[u].status /\ rows'[u].key = rows[u].key
    <3>1. wpc'[u] = wpc[u]
      BY <2>0
    <3>. QED
      BY <1>0, <1>3, <2>6, <3>1, RowMoves DEF RowMove, VideoStep
  <2>. QED
    BY <2>1, <2>2, <2>3, <2>4, <2>5, <2>6
<1>4. CASE Acknowledge(u) \/ Trim(u)
  BY <1>0, <1>4 DEF Acknowledge, Trim, WorkerStep, workerVars, uploadVars, storeVars, RawAccount,
                    HeldBy, Exists, TypeInv, TypeOK, VideoTypeOK
<1>5. CASE Deliver(u) \/ Compress(u)
  <2>1. WorkerMove(u) /\ UNCHANGED upc
    BY <1>0, <1>5, WorkerMoves DEF Outcome
  <2>2. CASE wpc'[u] \notin {"idle", "load", "finished", "crashed"}
    BY <1>0, <2>2 DEF RawAccount
  <2>3. CASE wpc[u] = "cleanup"
    <3>1. Cleanup(u)
      BY <1>5, <2>3 DEF Deliver, Compress, LoadRecord, Encode, PutOutput, Publish, Retract, Discard,
                        StorePoster, ExtractFrame, CreatePoster, LinkPoster, ReadLinked,
                        DropPosterObject, DropPosterRow, Fail, Notify, NotifyEvent, WorkerStep
    <3>. QED
      BY <1>0, <3>1 DEF Cleanup, RemoveLast, Remove, RemoveRaises, RemoveRefused, RemoveEscapes
  <2>4. CASE wpc[u] \in {"idle", "load"} /\ wpc'[u] \in {"load", "finished"}
    <3>1. rows' = rows
      BY <1>5, <2>4 DEF Deliver, Compress, LoadRecord, Encode, PutOutput, Publish, Retract, Discard,
                        StorePoster, ExtractFrame, CreatePoster, LinkPoster, ReadLinked,
                        DropPosterObject, DropPosterRow, Fail, Notify, NotifyEvent, Cleanup,
                        WorkerStep, storeVars
    <3>. QED
      BY <1>0, <2>1, <2>4, <3>1 DEF RawAccount, HeldBy, Exists
  <2>. QED
    BY <2>1, <2>2, <2>3, <2>4 DEF WorkerMove, Announcing
<1>. QED
  BY <1>0, <1>1, <1>2, <1>3, <1>4, <1>5, UploadFrame DEF VideoStep, Worker, Crash

(* A DELETE that has deleted the row stays past that statement.            *)
LEMMA DroppedStays ==
  ASSUME CleanFaults, ViewInv, [Next]_vars, NEW d \in Deleters, dpc[d] \in Dropped
  PROVE  dpc'[d] \in Dropped /\ did'[d] = did[d] /\ dsnap'[d] = dsnap[d]
<1>0. TypeInv
  BY DEF ViewInv
<1>1. CASE SameDelete(d)
  BY <1>1 DEF SameDelete
<1>2. CASE Delete(d)
  BY <1>0, <1>2, OwnDelete
     DEF Delete, DeleteObject, DeleteRendition, DeleteRecord, LoadPoster, DeletePosterObject,
         DeletePosterRecord, DeleteStep, Dropped, TypeInv, TypeOK, DeleteTypeOK
<1>3. ~LoadForDelete(d)
  BY DEF LoadForDelete, DeleteStep, Dropped
<1>. QED
  BY <1>0, <1>1, <1>2, <1>3, DeleteFrame

(* The output is the worker's until mark_ready, then the row's; when the   *)
(* row goes under a published output, a DELETE had read `processing`.      *)
LEMMA OutputAccountStep ==
  ASSUME CleanFaults, ViewInv, StorageInv, [Next]_vars, NEW u \in Uploads, NEW k \in objects,
         k \in objects', OutputAccount(u, k)
  PROVE  OutputAccount(u, k)'
<1>. USE DEF CleanFaults
<1>0. /\ TypeInv /\ RecordInv /\ Outcome(u) /\ UploadRecord(u) /\ VideoFacts(u) /\ SettledBy(u)
      /\ u \in Ids
  BY DEF ViewInv, OutcomeInv, SettledInv, RecordInv, StorageInv, Ids
<1>1. CASE k = OutputKey(u) /\ wpc[u] \in {"publish", "retract", "discard"}
  <2>0. k.dir = "videos" /\ k.tag \in {u} \X Runs
    BY <1>0, <1>1 DEF OutputKey, Key, Delivery, TypeInv
  <2>1. CASE wpc'[u] = wpc[u] /\ run'[u] = run[u] /\ wvis'[u] = wvis[u]
    BY <1>1, <2>1 DEF OutputAccount, OutputKey, Delivery
  <2>2. CASE Publish(u)
    <3>1. CASE wpc'[u] \in {"retract", "discard"}
      BY <1>0, <1>1, <2>2, <3>1, PosterPhaseSteps DEF OutputAccount, OutputKey, Delivery
    <3>2. CASE wpc'[u] \in {"frame", "notify_completed"}
      <4>1. Exists(u) /\ rows' = MarkReady(u, k)
        BY <1>0, <1>1, <2>2, <3>2 DEF Publish, WorkerStep, TypeInv, TypeOK, VideoTypeOK
      <4>2. rows'[u].status = "ready" /\ rows'[u].key = k
        BY <1>0, <4>1, UpdatedRow DEF TypeInv, TypeOK
      <4>. QED
        BY <2>0, <4>2 DEF OutputAccount, HeldBy, Exists
    <3>. QED
      BY <1>0, <2>2, <3>1, <3>2 DEF Publish, WorkerStep, TypeInv, TypeOK, VideoTypeOK
  <2>3. CASE Retract(u) \/ Discard(u)
    BY <1>1, <2>3 DEF Retract, Discard, RemoveLast, RemoveSuppressed, Remove, RemoveRaises,
                      RemoveRefused, RemoveEscapes
  <2>4. CASE LookupHit(u) \/ LookupMiss(u) \/ Upload(u) \/ Trim(u)
    BY <1>0, <2>1, <2>4, RequestSteps DEF Trim, workerVars
  <2>5. ASSUME Worker(u) \/ Crash(u) PROVE Publish(u) \/ Retract(u) \/ Discard(u)
    BY <1>1, <2>5
       DEF Worker, Crash, Deliver, Acknowledge, Compress, LoadRecord, Encode, PutOutput, StorePoster,
           ExtractFrame, CreatePoster, LinkPoster, ReadLinked, DropPosterObject, DropPosterRow,
           Fail, Notify, NotifyEvent, Cleanup, WorkerStep
  <2>. QED
    BY <1>0, <2>1, <2>2, <2>3, <2>4, <2>5, UploadFrame DEF VideoStep, SameUpload
<1>2. CASE k.dir = "videos" /\ k.tag \in {u} \X Runs /\ HeldBy(u, k)
  <2>1. CASE rows'[u].status = rows[u].status /\ rows'[u].key = rows[u].key
    BY <1>2, <2>1 DEF OutputAccount, HeldBy, Exists
  <2>2. CASE VideoStep(u)
    <3>1. Settling(u) /\ upc[u] \notin Early
      BY <1>0, <1>2 DEF VideoFacts, HeldBy, SettledBy, Settling, UploadRecord
    <3>2. wpc[u] \notin {"publish", "fail"} /\ upc[u] \notin {"create", "rollback"}
      BY <1>0, <3>1 DEF Settling, Announcing, Done, VideoFacts, UploadRecord, Early
    <3>. QED
      BY <1>0, <2>1, <2>2, <3>2, RowMoves DEF RowMove
  <2>3. CASE ~VideoStep(u) /\ rows'[u] # rows[u]
    <3>1. PICK d \in Deleters : /\ DeletedBy(u, d) /\ did'[d] = u /\ dsnap'[d] = dsnap[d]
                                /\ dpc'[d] \in {"load_poster", "deleted"}
      BY <2>3, DeletedRow
    <3>2. dsnap[d].status = "processing" /\ Published(u)
      BY <1>2, <3>1, DeletedUnderneath DEF DeletedBy, HeldBy
    <3>3. Published(u)'
      BY <3>2, SettlingStable
    <3>. QED
      BY <1>2, <3>1, <3>2, <3>3 DEF OutputAccount, LostRace, Dropped
  <2>. QED
    BY <2>1, <2>2, <2>3
<1>3. CASE LostRace(u, k)
  <2>1. PICK d \in Deleters : did[d] = u /\ dpc[d] \in Dropped /\ dsnap[d].status = "processing"
    BY <1>3 DEF LostRace
  <2>2. did'[d] = u /\ dpc'[d] \in Dropped /\ dsnap'[d].status = "processing"
    BY <2>1, DroppedStays
  <2>3. Published(u)'
    BY <1>3, SettlingStable DEF LostRace
  <2>. QED
    BY <1>3, <2>2, <2>3 DEF OutputAccount, LostRace
<1>. QED
  BY <1>1, <1>2, <1>3 DEF OutputAccount

(* The frame is the worker's until the poster's row is there, then the     *)
(* row's, and nobody deletes the row before the object.                    *)
LEMMA PosterAccountStep ==
  ASSUME CleanFaults, ViewInv, StorageInv, [Next]_vars, NEW u \in Uploads, NEW k \in objects,
         k \in objects', PosterAccount(u, k)
  PROVE  PosterAccount(u, k)'
<1>. USE DEF CleanFaults
<1>0. TypeInv /\ RecordInv
  BY DEF ViewInv
<1>1. CASE k = PosterKey(u) /\ wpc[u] \in {"poster_row", "drop_frame", "drop_poster"}
  <2>0. k.dir = "posters" /\ k.tag = Delivery(u) /\ Delivery(u) \in Jobs
    BY <1>0, <1>1, NamesType DEF PosterKey, Key
  <2>1. CASE wpc'[u] \in {"poster_row", "drop_frame", "drop_poster"}
    BY <1>0, <1>1, <2>1, PosterPhaseSteps DEF PosterPhase, PosterAccount, PosterKey, Delivery
  <2>2. CASE CreatePoster(u)
    <3>1. CASE rows' = Insert(Delivery(u), PosterRow(u))
      <4>1. PICK j \in Jobs : j = Delivery(u)
        BY <2>0
      <4>2. rows'[j] = PosterRow(u)
        BY <1>0, <3>1, <4>1 DEF Insert, TypeInv, TypeOK, StoreTypeOK, Ids
      <4>3. PosterRow(u).key = k /\ PosterRow(u).status = "ready"
        BY <1>1 DEF PosterRow, NoRow
      <4>. QED
        BY <2>0, <4>1, <4>2, <4>3 DEF PosterAccount, HeldBy, Exists
    <3>2. CASE wpc'[u] = "drop_frame"
      BY <2>1, <3>2
    <3>. QED
      BY <1>0, <2>2, <3>1, <3>2 DEF CreatePoster, WorkerStep, TypeInv, TypeOK, VideoTypeOK
  <2>3. CASE DropPosterObject(u)
    BY <1>1, <2>3 DEF DropPosterObject, RemoveLast, RemoveSuppressed, Remove, RemoveRaises,
                      RemoveRefused, RemoveEscapes
  <2>4. CASE LookupHit(u) \/ LookupMiss(u) \/ Upload(u) \/ Trim(u)
    BY <1>0, <1>1, <2>1, <2>4, RequestSteps DEF Trim, workerVars
  <2>5. ASSUME Worker(u) \/ Crash(u) PROVE CreatePoster(u) \/ DropPosterObject(u)
    BY <1>1, <2>5
       DEF Worker, Crash, Deliver, Acknowledge, Compress, LoadRecord, Encode, PutOutput, Publish,
           Retract, Discard, StorePoster, ExtractFrame, LinkPoster, ReadLinked, DropPosterRow,
           Fail, Notify, NotifyEvent, Cleanup, WorkerStep
  <2>. QED
    BY <1>0, <1>1, <2>1, <2>2, <2>3, <2>4, <2>5, UploadFrame DEF VideoStep, SameUpload
<1>2. CASE k.dir = "posters" /\ k.tag \in Jobs /\ HeldBy(k.tag, k)
  <2>1. PICK j \in Jobs : j = k.tag
    BY <1>2
  <2>2. rows[j].key = k /\ Exists(j) /\ j \in Ids
    BY <1>2, <2>1 DEF HeldBy, Ids
  <2>3. CASE rows'[j] = rows[j]
    BY <1>2, <2>1, <2>2, <2>3 DEF PosterAccount, HeldBy, Exists
  <2>4. ASSUME NEW v \in Uploads, PosterInserted(v, j) PROVE FALSE
    BY <1>0, <2>2, <2>4, PosterInsertedOnce DEF ViewInv, HistoryInv, RowNamed
  <2>5. ASSUME NEW v \in Uploads, wpc[v] = "drop_row", Delivery(v) = j PROVE FALSE
    BY <2>2, <2>5 DEF StorageInv, VideoFacts
  <2>6. ASSUME NEW d \in Deleters, did[d] = j, dpc[d] = "row" PROVE FALSE
    BY <2>2, <2>6 DEF StorageInv, DeleteFacts, ViewInv, HistoryInv, DeleteHistory, Removed
  <2>7. ASSUME NEW d \in Deleters, dsnap[d].poster = j, dpc[d] = "poster_row" PROVE FALSE
    BY <2>2, <2>7 DEF StorageInv, DeleteFacts
  <2>. QED
    BY <1>0, <2>3, <2>4, <2>5, <2>6, <2>7, PosterMoves DEF PosterDropped
<1>. QED
  BY <1>1, <1>2 DEF PosterAccount

(* So under these failures every object stays accounted for.               *)
LEMMA StorageInvariant ==
  ASSUME CleanFaults
  PROVE  Spec => [](ViewInv /\ StorageInv)
<1>1. Init => StorageInv
  <2>. SUFFICES ASSUME Init PROVE StorageInv
    OBVIOUS
  <2>1. ASSUME NEW u \in Uploads PROVE VideoFacts(u)
    BY <2>1 DEF Init, StoreInit, VideoInit, VideoFacts, Exists, NoRow, Ids
  <2>2. ASSUME NEW d \in Deleters PROVE DeleteFacts(d)
    BY <2>2 DEF Init, DeleteInit, DeleteFacts
  <2>3. objects = {}
    BY DEF Init, StoreInit
  <2>. QED
    BY <2>1, <2>2, <2>3 DEF StorageInv
<1>2. ViewInv /\ StorageInv /\ [Next]_vars => StorageInv'
  <2>. SUFFICES ASSUME ViewInv, StorageInv, [Next]_vars PROVE StorageInv'
    OBVIOUS
  <2>1. ASSUME NEW u \in Uploads PROVE VideoFacts(u)'
    BY <2>1, VideoRowFactsStep, PosterFactsStep DEF VideoFacts
  <2>2. ASSUME NEW d \in Deleters PROVE DeleteFacts(d)'
    BY <2>2, DeleteFactsStep
  <2>3. ASSUME NEW k \in objects' PROVE Account(k)'
    <3>1. CASE k \notin objects
      BY <2>3, <3>1, CleanAdditions DEF ViewInv
    <3>2. CASE k \in objects
      <4>1. PICK u \in Uploads : RawAccount(u, k) \/ OutputAccount(u, k) \/ PosterAccount(u, k)
        BY <3>2 DEF StorageInv, Account
      <4>. QED
        BY <2>3, <3>2, <4>1, RawAccountStep, OutputAccountStep, PosterAccountStep DEF Account
    <3>. QED
      BY <3>1, <3>2
  <2>. QED
    BY <2>1, <2>2, <2>3 DEF StorageInv
<1>3. "crash" \notin Faults /\ "lost_reply" \notin Faults
  BY DEF CleanFaults
<1>. QED
  BY <1>1, <1>2, <1>3, ViewInvariant, PTL DEF Spec

(* When no delete of an object fails, no webhook is lost, no worker dies   *)
(* and no reply is lost, the only object left behind at rest is the output *)
(* of a job that published between the SELECT and the DELETE of a request; *)
(* failing SELECTs, statements, uploads, enqueues and trimmed messages     *)
(* strand nothing (upload.py 789-823, tasks.py 517-529 and 551,            *)
(* management.py 239-255).                                                 *)
THEOREM OnlyTheRaceStrands ==
  ASSUME CleanFaults
  PROVE  Spec => []StrandedOnlyByRace
<1>1. ViewInv /\ StorageInv => StrandedOnlyByRace
  <2>. SUFFICES ASSUME ViewInv, StorageInv, Quiet, NEW k \in objects
                PROVE  \/ Referenced(k)
                       \/ /\ k.dir = "videos"
                          /\ \E u \in Uploads : k.tag \in {u} \X Runs /\ PublishedWhileDeleted(u)
    BY DEF StrandedOnlyByRace
  <2>1. PICK u \in Uploads : RawAccount(u, k) \/ OutputAccount(u, k) \/ PosterAccount(u, k)
    BY DEF StorageInv, Account
  <2>2. wpc[u] = "idle" /\ upc[u] \in Answered
    BY DEF StorageInv, VideoFacts, Quiet
  <2>3. ASSUME NEW i \in Ids, HeldBy(i, k) PROVE Referenced(k)
    BY <2>3 DEF HeldBy, Referenced, Held, Exists
  <2>4. LostRace(u, k) => PublishedWhileDeleted(u)
    <3>1. \A d \in Deleters : dpc[d] \in Dropped => dpc[d] = "deleted"
      BY DEF Quiet, DeleteAnswered, Dropped
    <3>. QED
      BY <2>2, <3>1 DEF LostRace, Published, Announcing, PublishedWhileDeleted
  <2>. QED
    BY <2>1, <2>2, <2>3, <2>4
       DEF RawAccount, OutputAccount, PosterAccount, LostRace, Answered, Ids
<1>. QED
  BY <1>1, StorageInvariant, PTL

=============================================================================
