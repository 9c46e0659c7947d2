---------------------------- MODULE PollProofs ----------------------------
(***************************************************************************)
(* Proofs about TaskPolling, for every number of uploads and deliveries    *)
(* and whatever fails: what a client that polls a task is told agrees with *)
(* the record, and with what it was told before.                           *)
(***************************************************************************)
EXTENDS TaskPolling, VideoProofs

(***************************************************************************)
(* The polled system is the system of VideoSystem with an observer.        *)
(***************************************************************************)

(* A step of the polled system is one of the system, or leaves it alone.   *)
LEMMA PollStep == [PollNext]_tvars => [Next]_vars
<1>. SUFFICES ASSUME PollNext PROVE [Next]_vars
  BY DEF tvars, vars
<1>1. CASE DeleteNext /\ UNCHANGED <<videoVars, pollVars>>
  BY <1>1 DEF Next
<1>2. ASSUME NEW u \in Uploads, UNCHANGED deleteVars,
             \/ LookupHit(u) \/ LookupMiss(u) \/ Upload(u)
             \/ RunJob(u) \/ StoreResult(u) \/ Expire(u) \/ Poll(u)
      PROVE  [Next]_vars
  <2>1. CASE LookupHit(u) \/ LookupMiss(u) \/ Upload(u)
    BY <1>2, <2>1 DEF Next, VideoNext
  <2>2. CASE RunJob(u) \/ StoreResult(u)
    BY <1>2, <2>2 DEF Next, VideoNext, RunJob, StoreResult, Worker
  <2>3. CASE Expire(u) \/ Poll(u)
    BY <1>2, <2>3 DEF vars, Expire, Poll, PollTask, IsResultReady, GetResult, PollRaises
  <2>. QED
    BY <1>2, <2>1, <2>2, <2>3
<1>. QED
  BY <1>1, <1>2 DEF PollNext

(* Polling, storing and forgetting results change nothing for the uploads, *)
(* jobs and DELETE requests: what is proved of them holds beside any       *)
(* number of polls (routers/tasks.py only reads).                          *)
THEOREM PollingOnlyObserves == PollSpec => Spec
BY PollStep, PTL DEF PollSpec, PollInit, Spec

(* So a job never runs ahead of its INSERT (upload.py 773-776) ...         *)
THEOREM PolledJobsFollowRecords == PollSpec => []JobHasRecord
BY PollingOnlyObserves, JobsFollowRecords, PTL

(* ... and what was deleted stays deleted, whatever fails.                 *)
THEOREM PolledDeletedStaysDeleted == PollSpec => []NoResurrection
BY PollingOnlyObserves, DeletedStaysDeleted, PTL

(***************************************************************************)
(* What the result and the answers mean.  A worker that reaches its end    *)
(* without having raised leaves a settled row or none.                     *)
(***************************************************************************)
Decided(u) == rows[u].status # "processing"

Finishing == {"frame", "poster_row", "drop_frame", "link", "linked", "drop_poster", "drop_row",
              "notify_completed", "discard", "cleanup", "finished"}

WorkRecorded(u) ==
  /\ wpc[u] # "idle" => job[u] = "pending"
  /\ result[u] # "none" => job[u] = "acked"
  /\ wpc[u] \in {"fail", "notify_failed"} => raised[u]
  /\ wpc[u] \in Finishing => raised[u] \/ Decided(u)
  /\ result[u] = "returned" => Decided(u)

(* The job that raised without marking its row has nobody to mark it now.  *)
ToldRecorded(u) ==
  /\ ppc[u] = "get_result" => result[u] # "none"
  /\ ppc[u] # "idle" \/ told[u] # "nothing" => upc[u] = "accepted"
  /\ told[u] = "completed" => Decided(u) /\ ppc[u] = "idle"
  /\ told[u] = "failed" => Decided(u) \/ result[u] \in {"raised", "expired"}
  /\ told[u] = "failed" /\ ppc[u] # "idle" =>
       /\ result[u] \in {"raised", "expired"}
       /\ rows[u].status \in {"processing", "none"}

PollInv ==
  /\ PollTypeOK
  /\ \A u \in Uploads : WorkRecorded(u) /\ ToldRecorded(u)

(* The observer's variables keep their types.                              *)
LEMMA PollTypeStep ==
  ASSUME PollTypeOK, [PollNext]_tvars
  PROVE  PollTypeOK'
<1>. USE DEF PollTypeOK
<1>1. CASE UNCHANGED pollVars
  BY <1>1 DEF pollVars
<1>2. ASSUME NEW u \in Uploads, RunJob(u) PROVE PollTypeOK'
  <2>. DEFINE raise == wpc'[u] \notin {"load", "crashed"} /\ (raised[u] \/ Raises(u))
  <2>1. raise \in BOOLEAN
    OBVIOUS
  <2>2. \/ raised' = [raised EXCEPT ![u] = raise]
        \/ raised' = [raised EXCEPT ![u] = TRUE]
    BY <1>2 DEF RunJob
  <2>. HIDE DEF raise
  <2>. QED
    BY <1>2, <2>1, <2>2 DEF RunJob
<1>3. ASSUME NEW u \in Uploads, StoreResult(u) PROVE PollTypeOK'
  BY <1>3 DEF StoreResult, Results
<1>4. ASSUME NEW u \in Uploads, Expire(u) PROVE PollTypeOK'
  BY <1>4 DEF Expire, Results
<1>5. ASSUME NEW u \in Uploads, Poll(u) PROVE PollTypeOK'
  BY <1>5 DEF Poll, PollTask, IsResultReady, GetResult, PollRaises, Tell, Look, ToldByRow,
              ToldByResult, Tells
<1>. QED
  BY <1>1, <1>2, <1>3, <1>4, <1>5 DEF PollNext, tvars, pollVars

(***************************************************************************)
(* What one step does to one upload and to what was told of it.            *)
(***************************************************************************)
SamePoll(u) ==
  raised'[u] = raised[u] /\ result'[u] = result[u] /\ ppc'[u] = ppc[u] /\ told'[u] = told[u]

OwnPollStep(u) ==
  \/ (LookupHit(u) \/ LookupMiss(u) \/ Upload(u)) /\ UNCHANGED pollVars
  \/ RunJob(u) \/ StoreResult(u) \/ Expire(u) \/ Poll(u)

(* The polls and results of other uploads are other variables.             *)
LEMMA OtherPoll ==
  ASSUME PollTypeOK, NEW u \in Uploads, NEW v \in Uploads, v # u, OwnPollStep(v)
  PROVE  SamePoll(u)
<1>. USE DEF PollTypeOK, SamePoll
<1>1. CASE UNCHANGED pollVars
  BY <1>1 DEF pollVars
<1>2. CASE RunJob(v)
  BY <1>2 DEF RunJob
<1>3. CASE StoreResult(v) \/ Expire(v)
  BY <1>3 DEF StoreResult, Expire
<1>4. CASE Poll(v)
  BY <1>4 DEF Poll, PollTask, IsResultReady, GetResult, PollRaises, Tell, Look
<1>. QED
  BY <1>1, <1>2, <1>3, <1>4 DEF OwnPollStep

(* A step of the polled system is a step of this upload or of its          *)
(* observer, or leaves both alone, except that a DELETE may take the row.  *)
LEMMA PollFrame ==
  ASSUME TypeInv, PollTypeOK, [PollNext]_tvars, NEW u \in Uploads
  PROVE  \/ OwnPollStep(u) /\ UNCHANGED deleteVars
         \/ SameUpload(u) /\ SamePoll(u) /\ (rows'[u] = rows[u] \/ rows'[u] = NoRow)
<1>1. CASE UNCHANGED tvars
  BY <1>1 DEF tvars, vars, storeVars, videoVars, pollVars, SameUpload, SamePoll
<1>2. CASE DeleteNext /\ UNCHANGED <<videoVars, pollVars>>
  BY <1>2, OtherRow DEF DeleteNext, DeletedBy, videoVars, pollVars, SameUpload, SamePoll
<1>3. ASSUME NEW v \in Uploads, v # u, OwnPollStep(v)
      PROVE  SameUpload(u) /\ SamePoll(u) /\ rows'[u] = rows[u]
  <2>1. SamePoll(u)
    BY <1>3, OtherPoll
  <2>2. CASE Expire(v) \/ Poll(v)
    BY <2>1, <2>2 DEF Expire, Poll, PollTask, IsResultReady, GetResult, PollRaises, storeVars,
                      videoVars, SameUpload
  <2>3. VideoStep(v) => SameUpload(u) /\ rows'[u] = rows[u]
    BY <1>3, OtherUpload
  <2>. QED
    BY <1>3, <2>1, <2>2, <2>3 DEF OwnPollStep, RunJob, StoreResult, VideoStep, Worker
<1>. QED
  BY <1>1, <1>2, <1>3 DEF PollNext, OwnPollStep

(* Once its row was inserted a video does not become `processing` again.   *)
LEMMA DecidedStays ==
  ASSUME TypeInv, [Next]_vars, NEW u \in Uploads, upc[u] \notin Early, Decided(u)
  PROVE  Decided(u)'
<1>1. NoRow.status # "processing"
  BY DEF NoRow
<1>2. VideoStep(u) => Decided(u)'
  BY <1>1, RowMoves DEF RowMove, Decided, Early
<1>. QED
  BY <1>1, <1>2, UploadFrame DEF DeletedBy, Decided

(* A worker that stays among the last steps without having raised entered  *)
(* them by marking the row ready or by finding none.                       *)
LEMMA FinishingEntered ==
  ASSUME TypeInv, NEW u \in Uploads, Compress(u), wpc'[u] \in Finishing,
         wpc[u] \notin Finishing \cup {"fail", "notify_failed"}
  PROVE  Raises(u) \/ Decided(u)'
<1>. USE DEF TypeInv, TypeOK, VideoTypeOK, Finishing
<1>1. CASE LoadRecord(u)
  BY <1>1 DEF LoadRecord, WorkerStep, Raises
<1>2. CASE Publish(u)
  <2>1. u \in Ids /\ StoreTypeOK
    BY DEF Ids
  <2>2. CASE Exists(u) /\ rows' = MarkReady(u, OutputKey(u))
    BY <2>1, <2>2, UpdatedRow DEF Decided
  <2>3. CASE ~Exists(u) /\ rows' = rows
    BY <2>3 DEF Exists, Decided
  <2>4. CASE wpc'[u] = "retract"
    BY <2>4
  <2>. QED
    BY <1>2, <2>2, <2>3, <2>4 DEF Publish, WorkerStep
<1>3. CASE Compress(u) /\ ~ LoadRecord(u) /\ ~ Publish(u)
  BY <1>3 DEF Compress, Encode, PutOutput, Retract, Discard, StorePoster, ExtractFrame,
              CreatePoster, LinkPoster, ReadLinked, DropPosterObject, DropPosterRow, Fail, Notify,
              NotifyEvent, Cleanup, WorkerStep
<1>. QED
  BY <1>1, <1>2, <1>3

(* The steps of a worker keep what its result will mean.                   *)
LEMMA WorkOwnJob ==
  ASSUME TypeInv, RecordInv, PollTypeOK, [Next]_vars, NEW u \in Uploads, WorkRecorded(u), RunJob(u)
  PROVE  WorkRecorded(u)'
<1>. USE DEF TypeInv, TypeOK, VideoTypeOK, PollTypeOK, WorkRecorded
<1>0. UploadRecord(u)
  BY DEF RecordInv
<1>1. result' = result
  BY DEF RunJob
<1>2. /\ wpc'[u] \notin {"load", "crashed"} => (raised[u] \/ Raises(u) => raised'[u])
  BY DEF RunJob
<1>3. CASE Deliver(u) \/ Crash(u) \/ Trim(u)
  <2>1. rows' = rows /\ (job'[u] = job[u] \/ job[u] = "pending")
    BY <1>3 DEF Deliver, Crash, Trim, storeVars
  <2>2. \/ wpc'[u] \in {"load", "crashed"} /\ job'[u] = job[u] /\ job[u] = "pending"
        \/ wpc'[u] = wpc[u] /\ wpc[u] = "idle"
    BY <1>3 DEF Deliver, Crash, Trim, WorkerStep, workerVars
  <2>. QED
    BY <1>1, <2>1, <2>2 DEF Decided, Finishing
<1>4. CASE Compress(u)
  <2>1. wpc[u] # "idle" /\ job' = job /\ upc' = upc /\ wpc'[u] \notin {"idle", "load", "crashed"}
    BY <1>4 DEF Compress, LoadRecord, Encode, PutOutput, Publish, Retract, Discard, StorePoster,
                ExtractFrame, CreatePoster, LinkPoster, ReadLinked, DropPosterObject,
                DropPosterRow, Fail, Notify, NotifyEvent, Cleanup, WorkerStep, uploadVars
  <2>2. job[u] = "pending" /\ result[u] = "none" /\ upc[u] \notin Early
    BY <1>0, <2>1 DEF UploadRecord
  <2>3. Decided(u) => Decided(u)'
    BY <2>2, DecidedStays
  <2>4. wpc'[u] \in {"fail", "notify_failed"} => wpc'[u] = "fail" \/ wpc[u] = "fail"
    BY <1>4 DEF Compress, LoadRecord, Encode, PutOutput, Publish, Retract, Discard, StorePoster,
                ExtractFrame, CreatePoster, LinkPoster, ReadLinked, DropPosterObject,
                DropPosterRow, Fail, Notify, NotifyEvent, Cleanup, WorkerStep
  <2>5. wpc'[u] \in {"fail", "notify_failed"} => raised'[u]
    BY <1>2, <2>1, <2>4 DEF Raises
  <2>6. wpc'[u] \in Finishing => raised'[u] \/ Decided(u)'
    BY <1>2, <1>4, <2>1, <2>3, FinishingEntered
  <2>. QED
    BY <1>1, <2>1, <2>2, <2>5, <2>6
<1>. QED
  BY <1>3, <1>4 DEF RunJob

(* So does every other step.                                               *)
LEMMA WorkStep ==
  ASSUME TypeInv, RecordInv, PollTypeOK, [PollNext]_tvars, NEW u \in Uploads, WorkRecorded(u)
  PROVE  WorkRecorded(u)'
<1>. USE DEF TypeInv, TypeOK, VideoTypeOK, PollTypeOK, WorkRecorded
<1>0. UploadRecord(u) /\ [Next]_vars
  BY PollStep DEF RecordInv
<1>1. upc[u] \notin Early /\ Decided(u) => Decided(u)'
  BY <1>0, DecidedStays
<1>2. CASE SameUpload(u) /\ SamePoll(u) /\ (rows'[u] = rows[u] \/ rows'[u] = NoRow)
  BY <1>2 DEF SameUpload, SamePoll, Decided, NoRow
<1>3. CASE (LookupHit(u) \/ LookupMiss(u) \/ Upload(u)) /\ UNCHANGED pollVars
  <2>1. wpc' = wpc /\ raised' = raised /\ result' = result
    BY <1>3 DEF LookupHit, LookupMiss, Upload, Stage, CreateRecord, Enqueue, Rollback, Unstage,
                LinkTask, workerVars, pollVars
  <2>2. CASE upc[u] \in Early \cup {"enqueue"}
    <3>1. wpc[u] = "idle" /\ result[u] = "none"
      BY <1>0, <2>2 DEF UploadRecord
    <3>. QED
      BY <2>1, <3>1 DEF Finishing
  <2>3. CASE upc[u] \notin Early \cup {"enqueue"}
    <3>1. job' = job
      BY <1>3, <2>3 DEF LookupHit, LookupMiss, Upload, Stage, CreateRecord, Enqueue, Rollback,
                        Unstage, LinkTask, UploadStep
    <3>. QED
      BY <1>1, <2>1, <2>3, <3>1
  <2>. QED
    BY <2>2, <2>3
<1>4. CASE RunJob(u)
  BY <1>0, <1>4, WorkOwnJob
<1>5. CASE StoreResult(u)
  <2>1. wpc[u] = "finished" /\ wpc'[u] = "idle" /\ job'[u] = "acked" /\ rows' = rows
    BY <1>5 DEF StoreResult, Acknowledge, WorkerStep, storeVars
  <2>2. result'[u] = "returned" => ~raised[u]
    BY <1>5 DEF StoreResult
  <2>. QED
    BY <2>1, <2>2 DEF Finishing, Decided
<1>6. CASE Expire(u) \/ Poll(u)
  BY <1>6 DEF Expire, Poll, PollTask, IsResultReady, GetResult, PollRaises, storeVars, videoVars,
              Decided
<1>. QED
  BY <1>2, <1>3, <1>4, <1>5, <1>6, PollFrame DEF OwnPollStep

(* The answer of one step of a poll.                                       *)
LEMMA ToldOwnPoll ==
  ASSUME PollTypeOK, StoreTypeOK, NEW u \in Uploads, WorkRecorded(u), ToldRecorded(u), Poll(u)
  PROVE  ToldRecorded(u)'
<1>. USE DEF PollTypeOK, ToldRecorded
<1>0. result' = result /\ rows' = rows /\ upc' = upc /\ (Decided(u)' <=> Decided(u))
  BY DEF Poll, PollTask, IsResultReady, GetResult, PollRaises, storeVars, videoVars, Decided
<1>1. CASE PollTask(u)
  <2>1. upc[u] = "accepted" /\ ppc[u] = "idle"
    BY <1>1 DEF PollTask, Tell, Look
  <2>2. CASE Tell(u, "idle", "unknown")
    BY <1>0, <2>1, <2>2 DEF Tell
  <2>3. ASSUME NEW status \in ToldByRow(rows[u].status), Tell(u, "idle", status)
        PROVE  ToldRecorded(u)'
    <3>1. Decided(u) /\ status \in {"completed", "failed"}
      BY <2>3 DEF ToldByRow, Decided
    <3>. QED
      BY <1>0, <2>1, <2>3, <3>1 DEF Tell
  <2>4. CASE Resolved(u) /\ ToldByRow(rows[u].status) = {} /\ Look(u, "idle", "is_ready")
    <3>1. rows[u].status \in Statuses
      BY DEF StoreTypeOK, Rows, Ids
    <3>2. rows[u].status = "processing"
      BY <2>4, <3>1 DEF Resolved, Exists, ToldByRow, Statuses
    <3>3. told[u] # "completed" /\ (told[u] = "failed" => result[u] \in {"raised", "expired"})
      BY <3>2 DEF Decided
    <3>. QED
      BY <1>0, <2>1, <2>4, <3>2, <3>3 DEF Look
  <2>. QED
    BY <1>1, <2>2, <2>3, <2>4 DEF PollTask
<1>2. CASE IsResultReady(u)
  BY <1>0, <1>2 DEF IsResultReady, Tell, Look
<1>3. CASE GetResult(u)
  <2>1. ppc[u] = "get_result"
    BY <1>3 DEF GetResult, Tell, Look
  <2>2. CASE result[u] # "expired" /\ Tell(u, "get_result", ToldByResult(result[u]))
    <3>1. \/ result[u] = "raised" /\ ToldByResult(result[u]) = "failed"
          \/ result[u] = "returned" /\ ToldByResult(result[u]) = "completed"
      BY <2>1, <2>2 DEF ToldByResult, Results
    <3>2. result[u] = "returned" => Decided(u)
      BY DEF WorkRecorded
    <3>. QED
      BY <1>0, <2>1, <2>2, <3>1, <3>2 DEF Tell
  <2>3. CASE Look(u, "get_result", "idle")
    BY <1>0, <2>1, <2>3 DEF Look
  <2>. QED
    BY <1>3, <2>2, <2>3 DEF GetResult
<1>4. CASE PollRaises(u)
  BY <1>0, <1>4 DEF PollRaises, Look
<1>. QED
  BY <1>1, <1>2, <1>3, <1>4 DEF Poll

(* A step that leaves the answers alone cannot take back what they said.   *)
LEMMA ToldFrame ==
  ASSUME TypeInv, RecordInv, [Next]_vars, NEW u \in Uploads, WorkRecorded(u), ToldRecorded(u),
         ppc'[u] = ppc[u], told'[u] = told[u], upc[u] = "accepted" => upc'[u] = "accepted",
         result'[u] = result[u] \/ result'[u] = "expired" \/ result[u] = "none",
         rows'[u].status \in {rows[u].status, "none"} \/ wpc[u] # "idle"
  PROVE  ToldRecorded(u)'
<1>. USE DEF ToldRecorded
<1>1. upc[u] = "accepted" /\ Decided(u) => Decided(u)'
  BY DecidedStays DEF Early
<1>2. result[u] # "none" => wpc[u] = "idle"
  BY DEF WorkRecorded
<1>3. result[u] # "none" => result'[u] # "none"
  OBVIOUS
<1>4. result[u] \in {"raised", "expired"} => result'[u] \in {"raised", "expired"}
  OBVIOUS
<1>. QED
  BY <1>1, <1>2, <1>3, <1>4

(* What a client was told keeps its meaning.                               *)
LEMMA ToldStep ==
  ASSUME TypeInv, RecordInv, PollTypeOK, [PollNext]_tvars, NEW u \in Uploads,
         WorkRecorded(u), ToldRecorded(u)
  PROVE  ToldRecorded(u)'
<1>. USE DEF TypeInv, TypeOK, VideoTypeOK, PollTypeOK
<1>0. [Next]_vars /\ StoreTypeOK
  BY PollStep
<1>1. CASE SameUpload(u) /\ SamePoll(u) /\ (rows'[u] = rows[u] \/ rows'[u] = NoRow)
  BY <1>0, <1>1, ToldFrame DEF SameUpload, SamePoll, NoRow
<1>2. CASE (LookupHit(u) \/ LookupMiss(u) \/ Upload(u)) /\ UNCHANGED pollVars
  <2>1. CASE upc[u] = "accepted"
    BY <1>2, <2>1 DEF LookupHit, LookupMiss, Upload, Stage, CreateRecord, Enqueue, Rollback,
                      Unstage, LinkTask, UploadStep
  <2>2. CASE upc[u] # "accepted"
    BY <1>2, <2>2 DEF pollVars, ToldRecorded
  <2>. QED
    BY <2>1, <2>2
<1>3. CASE RunJob(u)
  <2>1. result' = result /\ ppc' = ppc /\ told' = told
    BY <1>3 DEF RunJob
  <2>2. upc' = upc /\ (rows' = rows \/ wpc[u] # "idle")
    BY <1>3 DEF RunJob, Deliver, Crash, Trim, Compress, LoadRecord, Encode, PutOutput, Publish,
                Retract, Discard, StorePoster, ExtractFrame, CreatePoster, LinkPoster, ReadLinked,
                DropPosterObject, DropPosterRow, Fail, Notify, NotifyEvent, Cleanup, WorkerStep,
                uploadVars, storeVars
  <2>. QED
    BY <1>0, <2>1, <2>2, ToldFrame
<1>4. CASE StoreResult(u)
  <2>1. upc' = upc /\ rows' = rows /\ wpc[u] # "idle"
    BY <1>4 DEF StoreResult, Acknowledge, WorkerStep, uploadVars, storeVars
  <2>2. result[u] = "none"
    BY <2>1 DEF WorkRecorded
  <2>. QED
    BY <1>0, <1>4, <2>1, <2>2, ToldFrame DEF StoreResult
<1>5. CASE Expire(u)
  BY <1>0, <1>5, ToldFrame DEF Expire, storeVars, videoVars
<1>6. CASE Poll(u)
  BY <1>0, <1>6, ToldOwnPoll
<1>. QED
  BY <1>1, <1>2, <1>3, <1>4, <1>5, <1>6, PollFrame DEF OwnPollStep

(* What results and answers mean is kept throughout.                       *)
LEMMA PollInvariant == PollSpec => [](TypeInv /\ RecordInv /\ PollInv)
<1>1. PollInit => PollInv
  BY DEF PollInit, Init, VideoInit, PollInv, PollTypeOK, WorkRecorded, ToldRecorded, Results,
         Tells, Finishing
<1>2. TypeInv /\ RecordInv /\ PollInv /\ [PollNext]_tvars => PollInv'
  <2>. SUFFICES ASSUME TypeInv, RecordInv, PollInv, [PollNext]_tvars PROVE PollInv'
    OBVIOUS
  <2>. QED
    BY PollTypeStep, WorkStep, ToldStep DEF PollInv
<1>. QED
  BY <1>1, <1>2, PollingOnlyObserves, RecordInvariant, PTL DEF PollSpec

(* Every variable of the observer keeps its type.                          *)
THEOREM PollTypeCorrect == PollSpec => []PollTypeOK
<1>1. PollInv => PollTypeOK
  BY DEF PollInv
<1>. QED
  BY <1>1, PollInvariant, PTL

(* Whatever fails and however often the job is delivered, `completed` is   *)
(* told only of a video that is settled or gone, and an outcome once told  *)
(* is taken back for `pending` only when the result of a job that could    *)
(* not mark its row has expired (routers/tasks.py 40-62, tasks.py 473).    *)
THEOREM PollsAreTruthful == PollSpec => PollsTellOutcome
<1>1. TypeInv /\ RecordInv /\ PollInv /\ [PollNext]_tvars =>
        [\A u \in Uploads :
           /\ told'[u] = "completed" => rows[u].status # "processing"
           /\ told[u] \in {"completed", "failed"} /\ told'[u] = "pending" =>
                /\ told[u] = "failed"
                /\ result[u] = "expired"
                /\ rows[u].status \in {"processing", "none"}]_told
  <2>. SUFFICES ASSUME TypeInv, RecordInv, PollInv, [PollNext]_tvars, NEW u \in Uploads
                PROVE  /\ told'[u] = "completed" => rows[u].status # "processing"
                       /\ told[u] \in {"completed", "failed"} /\ told'[u] = "pending" =>
                            /\ told[u] = "failed"
                            /\ result[u] = "expired"
                            /\ rows[u].status \in {"processing", "none"}
    OBVIOUS
  <2>. USE DEF PollTypeOK
  <2>0. WorkRecorded(u) /\ ToldRecorded(u) /\ ToldRecorded(u)' /\ PollTypeOK
    BY ToldStep DEF PollInv
  <2>1. CASE told'[u] = told[u]
    BY <2>0, <2>1 DEF ToldRecorded, Decided
  <2>2. CASE told'[u] # told[u]
    <3>1. Poll(u)
      BY <2>0, <2>2, PollFrame
         DEF OwnPollStep, SamePoll, pollVars, RunJob, StoreResult, Expire
    <3>2. told'[u] = "completed" => Decided(u)
      BY <2>0, <3>1 DEF ToldRecorded, Decided, Poll, PollTask, IsResultReady, GetResult,
                        PollRaises, storeVars
    <3>3. told'[u] = "pending" => ppc[u] = "is_ready" /\ result[u] \in {"none", "expired"}
      BY <2>0, <2>2, <3>1 DEF Poll, PollTask, IsResultReady, GetResult, PollRaises, Tell, Look,
                              ToldByRow, ToldByResult
    <3>. QED
      BY <2>0, <3>2, <3>3 DEF ToldRecorded, Decided
  <2>. QED
    BY <2>1, <2>2
<1>. QED
  BY <1>1, PollInvariant, PTL DEF PollSpec, PollsTellOutcome

=============================================================================
