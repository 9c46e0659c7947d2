---------------------------- MODULE VideoProofs ----------------------------
(***************************************************************************)
(* Proofs about VideoSystem, for every number of uploads, deliveries and   *)
(* DELETE requests.                                                        *)
(***************************************************************************)
EXTENDS VideoSystem, TLAPS

(***************************************************************************)
(* What each statement and failure of MediaStore leaves behind has the     *)
(* type of the store.                                                      *)
(***************************************************************************)

(* The statements that write one row keep a well-typed table.              *)
LEMMA StatementTypes ==
  ASSUME StoreTypeOK, NEW id \in Ids
  PROVE  /\ \A row \in Rows : Insert(id, row) \in [Ids -> Rows]
         /\ \A key \in Keys : MarkReady(id, key) \in [Ids -> Rows]
         /\ \A poster \in Jobs : SetPoster(id, poster) \in [Ids -> Rows]
         /\ MarkFailed(id) \in [Ids -> Rows]
         /\ SetTaskId(id) \in [Ids -> Rows]
         /\ DeleteRow(id) \in [Ids -> Rows]
<1>1. rows[id] \in Rows
  BY DEF StoreTypeOK
<1>2. NoRow \in Rows
  BY DEF NoRow, Rows, Statuses, Kinds, Visibilities
<1>3. \A row \in Rows : Insert(id, row) \in [Ids -> Rows]
  BY DEF Insert, StoreTypeOK
<1>4. \A key \in Keys : [rows[id] EXCEPT !.status = "ready", !.key = key] \in Rows
  BY <1>1 DEF Rows, Statuses
<1>5. \A poster \in Jobs : [rows[id] EXCEPT !.poster = poster] \in Rows
  BY <1>1 DEF Rows
<1>6. [rows[id] EXCEPT !.status = "failed"] \in Rows
  BY <1>1 DEF Rows, Statuses
<1>7. [rows[id] EXCEPT !.task = TRUE] \in Rows
  BY <1>1 DEF Rows
<1>8. \A row \in Rows : Update(id, row) \in [Ids -> Rows]
  BY DEF Update, StoreTypeOK
<1>9. DeleteRow(id) \in [Ids -> Rows]
  BY <1>2 DEF DeleteRow, StoreTypeOK
<1>. QED
  BY <1>3, <1>4, <1>5, <1>6, <1>7, <1>8, <1>9
     DEF MarkReady, MarkFailed, SetTaskId, SetPoster

(* Calls to the object store never invent a key.                           *)
LEMMA ObjectsType ==
  ASSUME StoreTypeOK
  PROVE  /\ \A key \in Keys : Put(key) \/ PutRaises(key) => objects' \subseteq Keys
         /\ \A key : Remove(key) \/ RemoveSuppressed(key) \/ RemoveLast(key) => objects' \subseteq Keys
         /\ RemoveRaises \/ RemoveEscapes => objects' \subseteq Keys
BY DEF StoreTypeOK, Put, PutRaises, PutRefused, PutEscapes, Remove, RemoveSuppressed,
       RemoveLast, RemoveRaises, RemoveRefused, RemoveEscapes

(***************************************************************************)
(* Type correctness.  TypeOK alone is not inductive: that the keys a       *)
(* worker writes are keys rests on its job having been delivered, and that *)
(* a cascade reads a row rests on the record it starts from having one.    *)
(***************************************************************************)
TypeInv ==
  /\ TypeOK
  /\ \A u \in Uploads : wpc[u] # "idle" => run[u] \in Runs
  /\ \A d \in Deleters : dpc[d] # "idle" => did[d] \in Ids
  /\ \A d \in Deleters :
       dpc[d] \in {"load_poster", "poster_object", "poster_row"} => dsnap[d].poster \in Jobs

(* The names a request and a delivery mint are keys and ids.               *)
LEMMA NamesType ==
  ASSUME TypeInv, NEW u \in Uploads
  PROVE  /\ RawKey(u) \in Keys
         /\ VideoRow(u) \in Rows
         /\ wpc[u] # "idle" => /\ Delivery(u) \in Jobs
                               /\ OutputKey(u) \in Keys
                               /\ PosterKey(u) \in Keys
                               /\ PosterRow(u) \in Rows
<1>1. req[u] \in Requests /\ wvis[u] \in Visibilities
  BY DEF TypeInv, TypeOK, VideoTypeOK
<1>2. req[u].vis \in Visibilities /\ VideoHash(u) \in Hashes
  BY <1>1, VideoAssumption DEF Requests, VideoHash, VideoSignatures, Hashes
<1>3. ASSUME NEW dir \in Dirs, NEW vis \in Visibilities, NEW tag \in Tags
      PROVE  Key(dir, vis, tag) \in Keys
  BY DEF Key, Keys
<1>4. u \in Tags /\ Jobs \subseteq Tags
  BY DEF Tags, Ids
<1>5. RawKey(u) \in Keys
  BY <1>2, <1>3, <1>4 DEF RawKey, Dirs
<1>6. VideoRow(u) \in Rows
  BY <1>2, <1>5 DEF VideoRow, NoRow, Rows, Statuses, Kinds
<1>7. ASSUME wpc[u] # "idle"
      PROVE  /\ Delivery(u) \in Jobs
             /\ OutputKey(u) \in Keys
             /\ PosterKey(u) \in Keys
             /\ PosterRow(u) \in Rows
  <2>1. Delivery(u) \in Jobs
    BY <1>7 DEF Delivery, Jobs, TypeInv
  <2>2. OutputKey(u) \in Keys /\ PosterKey(u) \in Keys
    BY <1>1, <1>3, <1>4, <2>1 DEF OutputKey, PosterKey, Dirs
  <2>3. PosterRow(u) \in Rows
    BY <1>1, <2>2 DEF PosterRow, NoRow, Rows, Statuses, Kinds
  <2>. QED
    BY <2>1, <2>2, <2>3
<1>. QED
  BY <1>5, <1>6, <1>7

(* The initial state is well typed.                                        *)
LEMMA TypeInvInit == Init => TypeInv
<1>. SUFFICES ASSUME Init PROVE TypeInv
  OBVIOUS
<1>1. NoRow \in Rows
  BY DEF NoRow, Rows, Statuses, Kinds, Visibilities
<1>2. StoreTypeOK
  BY <1>1 DEF Init, StoreInit, StoreTypeOK
<1>3. VideoTypeOK
  BY StoreAssumption
     DEF Init, VideoInit, VideoTypeOK, UploadSteps, WorkerSteps, JobStates, Visibilities
<1>4. DeleteTypeOK
  BY <1>1 DEF Init, DeleteInit, DeleteTypeOK, DeleteSteps
<1>. QED
  BY <1>2, <1>3, <1>4 DEF TypeInv, TypeOK, Init, VideoInit, DeleteInit

(* A step of an upload request keeps the types.                            *)
LEMMA TypeInvUpload ==
  ASSUME TypeInv, NEW u \in Uploads, UNCHANGED deleteVars,
         LookupHit(u) \/ LookupMiss(u) \/ Upload(u)
  PROVE  TypeInv'
<1>. USE DEF TypeInv, TypeOK, VideoTypeOK, DeleteTypeOK, deleteVars, workerVars, storeVars
<1>1. CASE LookupHit(u)
  <2>1. FindActiveVideoByHash(VideoHash(u)) \subseteq Ids
    BY DEF FindActiveVideoByHash
  <2>. QED
    BY <1>1, <2>1 DEF LookupHit, UploadStep, UploadSteps, StoreTypeOK
<1>2. CASE LookupMiss(u)
  BY <1>2 DEF LookupMiss, UploadStep, UploadSteps, StoreTypeOK
<1>3. CASE Stage(u)
  <2>1. objects' \subseteq Keys
    BY <1>3, NamesType, ObjectsType DEF Stage
  <2>. QED
    BY <1>3, <2>1 DEF Stage, UploadStep, UploadSteps, StoreTypeOK
<1>4. CASE CreateRecord(u)
  <2>1. Insert(u, VideoRow(u)) \in [Ids -> Rows]
    BY NamesType, StatementTypes DEF Ids
  <2>2. rows' \in [Ids -> Rows]
    BY <1>4, <2>1 DEF CreateRecord, StatementRaises, StoreTypeOK
  <2>. QED
    BY <1>4, <2>2 DEF CreateRecord, UploadStep, UploadSteps, StoreTypeOK
<1>5. CASE Enqueue(u)
  BY <1>5 DEF Enqueue, UploadStep, UploadSteps, JobStates, StoreTypeOK
<1>6. CASE Rollback(u)
  <2>1. DeleteRow(u) \in [Ids -> Rows]
    BY StatementTypes DEF Ids
  <2>2. rows' \in [Ids -> Rows]
    BY <1>6, <2>1 DEF Rollback, DeleteRowSuppressed, StatementRaises, StoreTypeOK
  <2>. QED
    BY <1>6, <2>2 DEF Rollback, UploadStep, UploadSteps, StoreTypeOK
<1>7. CASE Unstage(u)
  <2>1. objects' \subseteq Keys
    BY <1>7, ObjectsType DEF Unstage
  <2>. QED
    BY <1>7, <2>1 DEF Unstage, UploadStep, UploadSteps, StoreTypeOK
<1>8. CASE LinkTask(u)
  <2>1. SetTaskId(u) \in [Ids -> Rows]
    BY StatementTypes DEF Ids
  <2>2. rows' \in [Ids -> Rows]
    BY <1>8, <2>1 DEF LinkTask, StatementRaises, StoreTypeOK
  <2>. QED
    BY <1>8, <2>2 DEF LinkTask, UploadStep, UploadSteps, StoreTypeOK
<1>. QED
  BY <1>1, <1>2, <1>3, <1>4, <1>5, <1>6, <1>7, <1>8 DEF Upload

(* So does a step of the stream or of a worker.                            *)
LEMMA TypeInvWorker ==
  ASSUME TypeInv, NEW u \in Uploads, UNCHANGED deleteVars,
         Worker(u) \/ Crash(u) \/ Trim(u)
  PROVE  TypeInv'
<1>. USE DEF TypeInv, TypeOK, VideoTypeOK, DeleteTypeOK, deleteVars, uploadVars, storeVars
<1>1. CASE Deliver(u)
  <2>1. run[u] + 1 \in Runs
    BY <1>1, StoreAssumption DEF Deliver, Runs
  <2>2. run' \in [Uploads -> 0..MaxRuns] /\ run'[u] \in Runs
    BY <1>1, <2>1, StoreAssumption DEF Deliver, Runs
  <2>3. \A v \in Uploads : wpc'[v] # "idle" => run'[v] \in Runs
    BY <1>1, <2>2 DEF Deliver, WorkerStep
  <2>4. wpc' \in [Uploads -> WorkerSteps]
    BY <1>1 DEF Deliver, WorkerStep, WorkerSteps
  <2>. QED
    BY <1>1, <2>2, <2>3, <2>4 DEF Deliver, StoreTypeOK
<1>2. CASE Acknowledge(u)
  BY <1>2 DEF Acknowledge, WorkerStep, WorkerSteps, JobStates, StoreTypeOK
<1>3. CASE Crash(u)
  BY <1>3 DEF Crash, WorkerSteps, StoreTypeOK
<1>4. CASE Trim(u)
  BY <1>4 DEF Trim, JobStates, workerVars, StoreTypeOK
<1>5. CASE LoadRecord(u)
  BY <1>5 DEF LoadRecord, WorkerStep, WorkerSteps, StoreTypeOK, Visibilities, Exists, Ids, Rows
<1>6. CASE Encode(u)
  BY <1>6 DEF Encode, WorkerStep, WorkerSteps, StoreTypeOK
<1>7. CASE PutOutput(u)
  <2>1. objects' \subseteq Keys
    BY <1>7, NamesType, ObjectsType DEF PutOutput, WorkerStep
  <2>. QED
    BY <1>7, <2>1 DEF PutOutput, WorkerStep, WorkerSteps, StoreTypeOK
<1>8. CASE Publish(u)
  <2>1. MarkReady(u, OutputKey(u)) \in [Ids -> Rows]
    BY <1>8, NamesType, StatementTypes DEF Ids, Publish, WorkerStep
  <2>2. rows' \in [Ids -> Rows]
    BY <1>8, <2>1 DEF Publish, StatementRaises, StoreTypeOK
  <2>. QED
    BY <1>8, <2>2 DEF Publish, WorkerStep, WorkerSteps, StoreTypeOK, Ids, Rows
<1>9. CASE Retract(u)
  <2>1. objects' \subseteq Keys
    BY <1>9, NamesType, ObjectsType DEF Retract
  <2>. QED
    BY <1>9, <2>1 DEF Retract, WorkerStep, WorkerSteps, StoreTypeOK
<1>10. CASE Discard(u)
  <2>1. objects' \subseteq Keys
    BY <1>10, NamesType, ObjectsType DEF Discard
  <2>. QED
    BY <1>10, <2>1 DEF Discard, WorkerStep, WorkerSteps, StoreTypeOK
<1>11. CASE Fail(u)
  <2>1. MarkFailed(u) \in [Ids -> Rows]
    BY StatementTypes DEF Ids
  <2>2. rows' \in [Ids -> Rows]
    BY <1>11, <2>1 DEF Fail, StatementRaises, StoreTypeOK
  <2>. QED
    BY <1>11, <2>2 DEF Fail, WorkerStep, WorkerSteps, StoreTypeOK
<1>12. CASE Notify(u)
  BY <1>12 DEF Notify, NotifyEvent, Events, WorkerStep, WorkerSteps, StoreTypeOK
<1>13. CASE Cleanup(u)
  <2>1. objects' \subseteq Keys
    BY <1>13, NamesType, ObjectsType DEF Cleanup
  <2>. QED
    BY <1>13, <2>1 DEF Cleanup, WorkerStep, WorkerSteps, StoreTypeOK
<1>14. CASE ExtractFrame(u)
  <2>1. objects' \subseteq Keys
    BY <1>14, NamesType, ObjectsType DEF ExtractFrame, WorkerStep, StoreTypeOK
  <2>. QED
    BY <1>14, <2>1 DEF ExtractFrame, WorkerStep, WorkerSteps, StoreTypeOK
<1>15. CASE CreatePoster(u)
  <2>1. Insert(Delivery(u), PosterRow(u)) \in [Ids -> Rows]
    BY <1>15, NamesType, StatementTypes DEF Ids, CreatePoster, WorkerStep
  <2>2. rows' \in [Ids -> Rows]
    BY <1>15, <2>1 DEF CreatePoster, StatementRaises, StoreTypeOK
  <2>. QED
    BY <1>15, <2>2 DEF CreatePoster, WorkerStep, WorkerSteps, StoreTypeOK
<1>16. CASE LinkPoster(u)
  <2>1. SetPoster(u, Delivery(u)) \in [Ids -> Rows]
    BY <1>16, NamesType, StatementTypes DEF Ids, LinkPoster, WorkerStep
  <2>2. rows' \in [Ids -> Rows]
    BY <1>16, <2>1 DEF LinkPoster, StatementRaises, StoreTypeOK
  <2>. QED
    BY <1>16, <2>2 DEF LinkPoster, WorkerStep, WorkerSteps, StoreTypeOK
<1>17. CASE ReadLinked(u)
  BY <1>17 DEF ReadLinked, WorkerStep, WorkerSteps, StoreTypeOK
<1>18. CASE DropPosterObject(u)
  <2>1. objects' \subseteq Keys
    BY <1>18, NamesType, ObjectsType DEF DropPosterObject
  <2>. QED
    BY <1>18, <2>1 DEF DropPosterObject, WorkerStep, WorkerSteps, StoreTypeOK
<1>19. CASE DropPosterRow(u)
  <2>1. DeleteRow(Delivery(u)) \in [Ids -> Rows]
    BY <1>19, NamesType, StatementTypes DEF Ids, DropPosterRow, WorkerStep
  <2>2. rows' \in [Ids -> Rows]
    BY <1>19, <2>1 DEF DropPosterRow, DeleteRowSuppressed, StatementRaises, StoreTypeOK
  <2>. QED
    BY <1>19, <2>2 DEF DropPosterRow, WorkerStep, WorkerSteps, StoreTypeOK
<1>. QED
  BY <1>1, <1>2, <1>3, <1>4, <1>5, <1>6, <1>7, <1>8, <1>9, <1>10, <1>11, <1>12,
     <1>13, <1>14, <1>15, <1>16, <1>17, <1>18, <1>19
     DEF Worker, Compress, StorePoster

(* And so does a step of a DELETE request.                                 *)
LEMMA TypeInvDelete ==
  ASSUME TypeInv, NEW d \in Deleters, UNCHANGED videoVars,
         LoadForDelete(d) \/ Delete(d)
  PROVE  TypeInv'
<1>. USE DEF TypeInv, TypeOK, VideoTypeOK, DeleteTypeOK, videoVars, storeVars
<1>1. CASE LoadForDelete(d)
  BY <1>1 DEF LoadForDelete, DeleteStep, DeleteSteps, StoreTypeOK
<1>2. CASE DeleteObject(d)
  <2>1. objects' \subseteq Keys
    BY <1>2, ObjectsType DEF DeleteObject
  <2>. QED
    BY <1>2, <2>1 DEF DeleteObject, Remaining, DeleteStep, DeleteSteps, StoreTypeOK
<1>3. CASE DeleteRendition(d)
  <2>1. objects' \subseteq Keys
    BY <1>3, ObjectsType DEF DeleteRendition
  <2>2. ASSUME NEW k \in dsnap[d].rends,
               dsnap' = [dsnap EXCEPT ![d].rends = @ \ {k}],
               DeleteStep(d, "renditions", Remaining(dsnap[d].rends \ {k}))
        PROVE  TypeInv'
    <3>1. [dsnap[d] EXCEPT !.rends = @ \ {k}] \in Rows
      BY DEF Rows
    <3>2. dsnap' \in [Deleters -> Rows]
      BY <2>2, <3>1
    <3>3. \A e \in Deleters : dsnap'[e].poster = dsnap[e].poster
      BY <2>2 DEF Rows
    <3>. QED
      BY <1>3, <2>1, <2>2, <3>2, <3>3
         DEF DeleteRendition, Remaining, DeleteStep, DeleteSteps, StoreTypeOK
  <2>3. CASE DeleteStep(d, "renditions", "broken") /\ dsnap' = dsnap
    BY <1>3, <2>1, <2>3 DEF DeleteRendition, DeleteStep, DeleteSteps, StoreTypeOK
  <2>. QED
    BY <1>3, <2>2, <2>3 DEF DeleteRendition
<1>4. CASE DeleteRecord(d)
  <2>1. did[d] \in Ids
    BY <1>4 DEF DeleteRecord, DeleteStep
  <2>2. DeleteRow(did[d]) \in [Ids -> Rows]
    BY <2>1, StatementTypes
  <2>3. rows' \in [Ids -> Rows]
    BY <1>4, <2>2 DEF DeleteRecord, StatementRaises, StoreTypeOK
  <2>4. HasPoster(dsnap[d]) => dsnap[d].poster \in Jobs
    BY DEF HasPoster, Rows
  <2>. QED
    BY <1>4, <2>3, <2>4 DEF DeleteRecord, DeleteStep, DeleteSteps, StoreTypeOK
<1>5. CASE LoadPoster(d)
  <2>1. dsnap[d].poster \in Ids
    BY <1>5 DEF LoadPoster, DeleteStep, Ids
  <2>2. dposter' \in [Deleters -> Rows]
    BY <1>5, <2>1 DEF LoadPoster, StoreTypeOK
  <2>. QED
    BY <1>5, <2>2 DEF LoadPoster, DeleteStep, DeleteSteps, StoreTypeOK
<1>6. CASE DeletePosterObject(d)
  <2>1. objects' \subseteq Keys
    BY <1>6, ObjectsType DEF DeletePosterObject
  <2>. QED
    BY <1>6, <2>1 DEF DeletePosterObject, DeleteStep, DeleteSteps, StoreTypeOK
<1>7. CASE DeletePosterRecord(d)
  <2>1. dsnap[d].poster \in Ids
    BY <1>7 DEF DeletePosterRecord, DeleteStep, Ids
  <2>2. DeleteRow(dsnap[d].poster) \in [Ids -> Rows]
    BY <2>1, StatementTypes
  <2>3. rows' \in [Ids -> Rows]
    BY <1>7, <2>2 DEF DeletePosterRecord, DeleteRowSuppressed, StatementRaises, StoreTypeOK
  <2>. QED
    BY <1>7, <2>3 DEF DeletePosterRecord, DeleteStep, DeleteSteps, StoreTypeOK
<1>. QED
  BY <1>1, <1>2, <1>3, <1>4, <1>5, <1>6, <1>7 DEF Delete

(* Every step keeps the types.                                             *)
LEMMA TypeInvStep ==
  ASSUME TypeInv, [Next]_vars
  PROVE  TypeInv'
<1>1. CASE UNCHANGED vars
  BY <1>1 DEF vars, storeVars, videoVars, deleteVars, TypeInv, TypeOK, StoreTypeOK,
              VideoTypeOK, DeleteTypeOK
<1>2. CASE VideoNext /\ UNCHANGED deleteVars
  BY <1>2, TypeInvUpload, TypeInvWorker DEF VideoNext
<1>3. CASE DeleteNext /\ UNCHANGED videoVars
  BY <1>3, TypeInvDelete DEF DeleteNext
<1>. QED
  BY <1>1, <1>2, <1>3 DEF Next

(* The strengthened type invariant holds throughout.                       *)
LEMMA TypeInvariant == Spec => []TypeInv
<1>1. TypeInv /\ [Next]_vars => TypeInv'
  BY TypeInvStep
<1>. QED
  BY <1>1, TypeInvInit, PTL DEF Spec

(* Every reachable state is well typed.  In particular the handlers and    *)
(* workers only ever address objects by keys they have minted, and rows by *)
(* ids.                                                                    *)
THEOREM TypeCorrect == Spec => []TypeOK
<1>1. TypeInv => TypeOK
  BY DEF TypeInv
<1>. QED
  BY <1>1, TypeInvariant, PTL

(***************************************************************************)
(* Who may remove what.  Every object a handler removes is named by a key  *)
(* it minted or read from a row, so the argument is about the names that   *)
(* rows hold: a row of a video holds the raw key or the output of one of   *)
(* the deliveries so far, and never the output of a delivery that has not  *)
(* passed mark_ready.                                                      *)
(***************************************************************************)
PrePublish == {"load", "encode", "put", "publish", "retract", "discard"}

VideoKey(u, k) ==
  \/ k.dir = "raw/videos"
  \/ /\ k.dir = "videos"
     /\ \E r \in 1..run[u] : k.tag = <<u, r>>
     /\ wpc[u] \in PrePublish => k.tag # Delivery(u)

(* The keys held by the rows of videos and of posters.                     *)
RowKeys ==
  /\ \A i \in Ids : rows[i].rends = {}
  /\ \A u \in Uploads :
       /\ Exists(u) => VideoKey(u, rows[u].key)
       /\ rows[u].status = "ready" => rows[u].key.dir = "videos"
  /\ \A j \in Jobs : Exists(j) => rows[j].key.dir = "posters"

(* The keys a DELETE has read and is about to remove.                      *)
DeleteKeys ==
  \A d \in Deleters :
    /\ dsnap[d].rends = {}
    /\ dpc[d] = "object" =>
         IF did[d] \in Uploads THEN VideoKey(did[d], dsnap[d].key)
         ELSE dsnap[d].key.dir = "posters"
    /\ dpc[d] = "poster_object" => dposter[d].key.dir = "posters"

(* A worker that is about to publish an output has stored it.              *)
OutputStored == \A u \in Uploads : wpc[u] = "publish" => OutputKey(u) \in objects

KeyInv == RowKeys /\ DeleteKeys /\ OutputStored /\ ReadyHasObject

(* A step that lets a worker enter PrePublish is a new delivery.           *)
LEMMA WorkerControl ==
  ASSUME TypeInv, [Next]_vars, NEW u \in Uploads
  PROVE  \/ run'[u] = run[u] /\ (wpc'[u] \in PrePublish => wpc[u] \in PrePublish)
         \/ run'[u] = run[u] + 1
<1>. USE DEF TypeInv, TypeOK, VideoTypeOK, workerVars, PrePublish
<1>1. CASE UNCHANGED videoVars
  BY <1>1 DEF videoVars
<1>2. ASSUME NEW v \in Uploads, LookupHit(v) \/ LookupMiss(v) \/ Upload(v) \/ Trim(v)
      PROVE  UNCHANGED workerVars
  BY <1>2 DEF LookupHit, LookupMiss, Upload, Stage, CreateRecord, Enqueue, Rollback, Unstage,
              LinkTask, Trim
<1>3. ASSUME NEW v \in Uploads, Deliver(v)
      PROVE  \A w \in Uploads : \/ run'[w] = run[w] /\ wpc'[w] = wpc[w]
                                \/ run'[w] = run[w] + 1
  BY <1>3 DEF Deliver, WorkerStep
<1>4. ASSUME NEW v \in Uploads, Crash(v) \/ Acknowledge(v) \/ Fail(v) \/ Notify(v) \/ Cleanup(v)
      PROVE  run' = run /\ wpc'[v] \notin PrePublish /\ \E s : wpc' = [wpc EXCEPT ![v] = s]
  BY <1>4 DEF Crash, Acknowledge, Fail, Notify, NotifyEvent, Cleanup, WorkerStep
<1>5. ASSUME NEW v \in Uploads, StorePoster(v)
      PROVE  run' = run /\ wpc'[v] \notin PrePublish /\ \E s : wpc' = [wpc EXCEPT ![v] = s]
  BY <1>5 DEF StorePoster, ExtractFrame, CreatePoster, LinkPoster, ReadLinked,
              DropPosterObject, DropPosterRow, WorkerStep
<1>6. ASSUME NEW v \in Uploads, LoadRecord(v) \/ Encode(v) \/ PutOutput(v) \/ Publish(v)
                                  \/ Retract(v) \/ Discard(v)
      PROVE  run' = run /\ wpc[v] \in PrePublish /\ \E s : wpc' = [wpc EXCEPT ![v] = s]
  BY <1>6 DEF LoadRecord, Encode, PutOutput, Publish, Retract, Discard, WorkerStep
<1>. QED
  BY <1>1, <1>2, <1>3, <1>4, <1>5, <1>6
     DEF Next, vars, VideoNext, Worker, Compress

(* So a key a row of the video may hold stays one.                         *)
LEMMA VideoKeyStable ==
  ASSUME TypeInv, [Next]_vars, NEW u \in Uploads, NEW k, VideoKey(u, k)
  PROVE  VideoKey(u, k)'
<1>1. run[u] \in Nat
  BY StoreAssumption DEF TypeInv, TypeOK, VideoTypeOK
<1>2. CASE run'[u] = run[u] /\ (wpc'[u] \in PrePublish => wpc[u] \in PrePublish)
  BY <1>2 DEF VideoKey, Delivery
<1>3. CASE run'[u] = run[u] + 1
  BY <1>1, <1>3 DEF VideoKey, Delivery
<1>. QED
  BY <1>2, <1>3, WorkerControl

(* No two videos share a key of a delivery.                                *)
LEMMA VideoKeyUnique ==
  ASSUME TypeInv, NEW u \in Uploads, NEW v \in Uploads, NEW k, k.dir = "videos",
         VideoKey(u, k)
  PROVE  /\ VideoKey(v, k) => u = v
         /\ wpc[v] \in PrePublish => k # OutputKey(v)
BY DEF VideoKey, OutputKey, Delivery, Key

(* What a step may do to the row of a video.  Without lost replies a       *)
(* statement that raises leaves the table alone.                           *)
RowStep(i) ==
  \/ rows'[i].status = rows[i].status /\ rows'[i].key = rows[i].key /\ rows'[i].rends = rows[i].rends
  \/ rows'[i] = NoRow
  \/ i \in Uploads /\ rows'[i] = VideoRow(i)
  \/ /\ i \in Uploads /\ Exists(i)
     /\ rows'[i].status = "failed" /\ rows'[i].key = rows[i].key /\ rows'[i].rends = rows[i].rends
  \/ /\ i \in Uploads /\ Exists(i) /\ wpc[i] = "publish" /\ wpc'[i] \notin PrePublish
     /\ UNCHANGED <<run, objects>>
     /\ rows'[i].status = "ready" /\ rows'[i].key = OutputKey(i) /\ rows'[i].rends = rows[i].rends
  \/ i \in Jobs /\ \E v \in Uploads : rows'[i] = PosterRow(v)

(* Every step does one of these to each row (the statements of             *)
(* PostgresMetadataStore touch one row each).                              *)
LEMMA RowSteps ==
  ASSUME TypeInv, [Next]_vars, "lost_reply" \notin Faults, NEW i \in Ids
  PROVE  RowStep(i)
<1>. USE DEF TypeInv, TypeOK, StoreTypeOK
<1>1. ASSUME rows' = rows PROVE RowStep(i)
  BY <1>1 DEF RowStep
<1>2. ASSUME NEW id \in Ids, rows' = DeleteRow(id) PROVE RowStep(i)
  BY <1>2 DEF RowStep, DeleteRow
<1>3. ASSUME NEW committed, StatementRaises(committed) PROVE rows' = rows
  BY <1>3 DEF StatementRaises
<1>4. ASSUME NEW u \in Uploads, LookupHit(u) \/ LookupMiss(u) \/ Upload(u) PROVE RowStep(i)
  <2>1. CASE LookupHit(u) \/ LookupMiss(u) \/ Stage(u) \/ Enqueue(u) \/ Unstage(u)
    BY <2>1, <1>1 DEF LookupHit, LookupMiss, Stage, Enqueue, Unstage, storeVars
  <2>2. CASE CreateRecord(u)
    BY <2>2, <1>1, <1>3 DEF CreateRecord, Insert, RowStep
  <2>3. CASE Rollback(u)
    BY <2>3, <1>1, <1>2, <1>3 DEF Rollback, DeleteRowSuppressed, Ids
  <2>4. CASE LinkTask(u)
    <3>1. rows[u] \in Rows
      BY DEF Ids
    <3>2. CASE rows' = SetTaskId(u)
      BY <3>1, <3>2 DEF SetTaskId, Update, RowStep, Rows
    <3>. QED
      BY <2>4, <3>2, <1>1, <1>3 DEF LinkTask
  <2>. QED
    BY <1>4, <2>1, <2>2, <2>3, <2>4 DEF Upload
<1>5. ASSUME NEW u \in Uploads, Compress(u) PROVE RowStep(i)
  <2>. USE DEF VideoTypeOK
  <2>0. rows[u] \in Rows
    BY DEF Ids
  <2>1. CASE LoadRecord(u) \/ Encode(u) \/ PutOutput(u) \/ Retract(u) \/ Discard(u)
              \/ Notify(u) \/ Cleanup(u)
    BY <2>1, <1>1 DEF LoadRecord, Encode, PutOutput, Retract, Discard, Notify, NotifyEvent,
                      Cleanup, storeVars
  <2>2. CASE Publish(u)
    <3>1. CASE /\ Exists(u) /\ rows' = MarkReady(u, OutputKey(u))
               /\ \E s \in {"frame", "notify_completed"} : WorkerStep(u, "publish", s)
      BY <2>0, <2>2, <3>1 DEF Publish, MarkReady, Update, RowStep, Rows, WorkerStep, PrePublish
    <3>. QED
      BY <2>2, <3>1, <1>1, <1>3 DEF Publish
  <2>3. CASE Fail(u)
    <3>1. CASE Exists(u) /\ rows' = MarkFailed(u)
      BY <2>0, <3>1 DEF MarkFailed, Update, RowStep, Rows
    <3>. QED
      BY <2>3, <3>1, <1>1, <1>3 DEF Fail
  <2>4. CASE StorePoster(u)
    <3>1. CASE ExtractFrame(u) \/ ReadLinked(u) \/ DropPosterObject(u)
      BY <3>1, <1>1 DEF ExtractFrame, ReadLinked, DropPosterObject, storeVars
    <3>2. CASE CreatePoster(u)
      <4>1. Delivery(u) \in Jobs
        BY <3>2, NamesType DEF CreatePoster, WorkerStep
      <4>. QED
        BY <3>2, <4>1, <1>1, <1>3 DEF CreatePoster, Insert, RowStep
    <3>3. CASE LinkPoster(u)
      <4>1. CASE rows' = SetPoster(u, Delivery(u))
        BY <2>0, <4>1 DEF SetPoster, Update, RowStep, Rows
      <4>. QED
        BY <3>3, <4>1, <1>1, <1>3 DEF LinkPoster
    <3>4. CASE DropPosterRow(u)
      <4>1. Delivery(u) \in Ids
        BY <3>4, NamesType DEF DropPosterRow, WorkerStep, Ids
      <4>. QED
        BY <3>4, <4>1, <1>1, <1>2, <1>3 DEF DropPosterRow, DeleteRowSuppressed
    <3>. QED
      BY <2>4, <3>1, <3>2, <3>3, <3>4 DEF StorePoster
  <2>. QED
    BY <1>5, <2>1, <2>2, <2>3, <2>4 DEF Compress
<1>6. ASSUME NEW u \in Uploads, Deliver(u) \/ Acknowledge(u) \/ Crash(u) \/ Trim(u)
      PROVE  RowStep(i)
  BY <1>1, <1>6 DEF Deliver, Acknowledge, Crash, Trim, storeVars
<1>7. ASSUME NEW d \in Deleters, LoadForDelete(d) \/ Delete(d) PROVE RowStep(i)
  <2>1. CASE LoadForDelete(d) \/ DeleteObject(d) \/ DeleteRendition(d) \/ LoadPoster(d)
              \/ DeletePosterObject(d)
    BY <2>1, <1>1 DEF LoadForDelete, DeleteObject, DeleteRendition, LoadPoster,
                      DeletePosterObject, storeVars
  <2>2. CASE DeleteRecord(d)
    <3>1. did[d] \in Ids
      BY <2>2 DEF DeleteRecord, DeleteStep
    <3>. QED
      BY <2>2, <3>1, <1>1, <1>2, <1>3 DEF DeleteRecord
  <2>3. CASE DeletePosterRecord(d)
    <3>1. dsnap[d].poster \in Ids
      BY <2>3 DEF DeletePosterRecord, DeleteStep, Ids
    <3>. QED
      BY <2>3, <3>1, <1>1, <1>2, <1>3 DEF DeletePosterRecord, DeleteRowSuppressed
  <2>. QED
    BY <1>7, <2>1, <2>2, <2>3 DEF Delete
<1>8. CASE UNCHANGED vars
  BY <1>1, <1>8 DEF vars, storeVars
<1>. QED
  BY <1>4, <1>5, <1>6, <1>7, <1>8 DEF Next, VideoNext, DeleteNext, Worker

(* The objects that a step takes out of the store: raw uploads, posters,   *)
(* an output nobody publishes, or what a DELETE has read.                  *)
Taken(k) ==
  \/ k.dir = "posters"
  \/ \E u \in Uploads :
       k = RawKey(u) \/ (wpc[u] \in {"retract", "discard"} /\ k = OutputKey(u))
  \/ \E d \in Deleters :
       \/ dpc[d] = "object" /\ dpc'[d] = "row" /\ did' = did /\ k = dsnap[d].key
       \/ dpc[d] = "poster_object" /\ k = dposter[d].key

(* Every object that a step takes out of the store is one of these: here   *)
(* only images have renditions.                                            *)
LEMMA Takings ==
  ASSUME TypeInv, \A d \in Deleters : dsnap[d].rends = {}, [Next]_vars,
         NEW k \in objects, k \notin objects'
  PROVE  Taken(k)
<1>. USE DEF Put, PutRaises, PutRefused, PutEscapes, Remove, RemoveRaises, RemoveRefused,
              RemoveEscapes, RemoveSuppressed, RemoveLast
<1>1. objects' # objects
  OBVIOUS
<1>2. ASSUME NEW u \in Uploads, LookupHit(u) \/ LookupMiss(u) \/ Upload(u) PROVE Taken(k)
  BY <1>1, <1>2 DEF LookupHit, LookupMiss, Upload, Stage, CreateRecord, Enqueue, Rollback,
                    Unstage, LinkTask, Taken, storeVars
<1>3. ASSUME NEW u \in Uploads, Compress(u) PROVE Taken(k)
  <2>1. CASE Retract(u) \/ Discard(u)
    BY <1>1, <2>1 DEF Retract, Discard, WorkerStep, Taken
  <2>2. CASE Cleanup(u)
    BY <1>1, <2>2 DEF Cleanup, Taken
  <2>3. CASE StorePoster(u)
    BY <1>1, <2>3 DEF StorePoster, ExtractFrame, CreatePoster, LinkPoster, ReadLinked,
                      DropPosterObject, DropPosterRow, PosterKey, Key, Taken, storeVars
  <2>. QED
    BY <1>1, <1>3, <2>1, <2>2, <2>3
       DEF Compress, LoadRecord, Encode, PutOutput, Publish, Fail, Notify, NotifyEvent, storeVars
<1>4. ASSUME NEW u \in Uploads, Deliver(u) \/ Acknowledge(u) \/ Crash(u) \/ Trim(u)
      PROVE  FALSE
  BY <1>1, <1>4 DEF Deliver, Acknowledge, Crash, Trim, storeVars
<1>5. ASSUME NEW d \in Deleters, LoadForDelete(d) \/ Delete(d) PROVE Taken(k)
  <2>1. CASE DeleteObject(d)
    BY <1>1, <2>1 DEF DeleteObject, DeleteStep, Remaining, Taken, TypeInv, TypeOK, DeleteTypeOK
  <2>2. CASE DeletePosterObject(d)
    BY <1>1, <2>2 DEF DeletePosterObject, DeleteStep, Taken
  <2>3. CASE DeleteRendition(d)
    BY <2>3 DEF DeleteRendition
  <2>. QED
    BY <1>1, <1>5, <2>1, <2>2, <2>3
       DEF Delete, LoadForDelete, DeleteRecord, LoadPoster, DeletePosterRecord, storeVars
<1>. QED
  BY <1>1, <1>2, <1>3, <1>4, <1>5
     DEF Next, vars, storeVars, VideoNext, DeleteNext, Worker

(* Without PATCHes a DELETE has read a key of the video itself.            *)
Removable(k) ==
  \/ k.dir \in {"raw/videos", "posters"}
  \/ \E u \in Uploads : wpc[u] \in {"retract", "discard"} /\ k = OutputKey(u)
  \/ \E d \in Deleters : /\ did[d] \in Uploads /\ VideoKey(did[d], k)
                         /\ dpc[d] = "object" /\ dpc'[d] = "row" /\ did' = did

(* Everything that is taken bears the name of whoever takes it.            *)
LEMMA Removals ==
  ASSUME TypeInv, KeyInv, [Next]_vars, NEW k \in objects, k \notin objects'
  PROVE  Removable(k)
<1>1. Taken(k)
  BY Takings DEF KeyInv, DeleteKeys
<1>2. \A u \in Uploads : RawKey(u).dir = "raw/videos"
  BY DEF RawKey, Key
<1>3. \A d \in Deleters :
        /\ dpc[d] = "object" =>
             (did[d] \in Uploads /\ VideoKey(did[d], dsnap[d].key)) \/ dsnap[d].key.dir = "posters"
        /\ dpc[d] = "poster_object" => dposter[d].key.dir = "posters"
  BY DEF KeyInv, DeleteKeys
<1>. QED
  BY <1>1, <1>2, <1>3 DEF Taken, Removable

(* A DELETE that has removed the object of a row keeps hold of the row     *)
(* until the row is gone.                                                  *)
LEMMA WithdrawnStable ==
  ASSUME TypeInv, [Next]_vars, "lost_reply" \notin Faults, NEW u \in Uploads, Withdrawn(u)
  PROVE  Withdrawn(u)' \/ rows'[u] = NoRow
<1>. USE DEF TypeInv, TypeOK, DeleteTypeOK, Withdrawn
<1>1. PICK d \in Deleters :
        did[d] = u /\ dpc[d] \in {"renditions", "row", "store_unavailable", "broken"}
  OBVIOUS
<1>2. CASE UNCHANGED deleteVars
  BY <1>1, <1>2 DEF deleteVars
<1>3. ASSUME NEW e \in Deleters, e # d, LoadForDelete(e) \/ Delete(e)
      PROVE  did'[d] = did[d] /\ dpc'[d] = dpc[d]
  BY <1>3 DEF LoadForDelete, Delete, DeleteObject, DeleteRendition, DeleteRecord, LoadPoster,
              DeletePosterObject, DeletePosterRecord, DeleteStep
<1>4. CASE DeleteRendition(d)
  BY <1>1, <1>4 DEF DeleteRendition, DeleteStep, Remaining
<1>5. CASE DeleteRecord(d)
  <2>1. CASE rows' = DeleteRow(did[d])
    BY <1>1, <2>1 DEF DeleteRow, StoreTypeOK, Ids
  <2>2. CASE DeleteStep(d, "row", "store_unavailable")
    BY <1>1, <1>5, <2>2 DEF DeleteRecord, DeleteStep
  <2>. QED
    BY <1>5, <2>1, <2>2 DEF DeleteRecord
<1>6. CASE LoadForDelete(d) \/ DeleteObject(d) \/ LoadPoster(d) \/ DeletePosterObject(d)
             \/ DeletePosterRecord(d)
  BY <1>1, <1>6 DEF LoadForDelete, DeleteObject, LoadPoster, DeletePosterObject,
                    DeletePosterRecord, DeleteStep
<1>. QED
  BY <1>1, <1>2, <1>3, <1>4, <1>5, <1>6 DEF Next, vars, DeleteNext, Delete

(* The initial state has no rows and no readers.                           *)
LEMMA KeyInvInit == Init => KeyInv
BY StoreAssumption
   DEF Init, StoreInit, VideoInit, DeleteInit, KeyInv, RowKeys, DeleteKeys, OutputStored,
       ReadyHasObject, NoRow, Exists, Ids

(* A step keeps the keys of the rows.                                      *)
LEMMA RowKeysStep ==
  ASSUME TypeInv, KeyInv, [Next]_vars, "lost_reply" \notin Faults
  PROVE  RowKeys'
<1>. USE DEF KeyInv, RowKeys
<1>0. ASSUME NEW u \in Uploads
      PROVE  /\ VideoRow(u).rends = {}
             /\ PosterRow(u).rends = {} /\ PosterRow(u).key.dir = "posters"
  BY DEF VideoRow, PosterRow, NoRow, PosterKey, Key
<1>1. ASSUME NEW i \in Ids PROVE rows'[i].rends = {}
  BY <1>0, <1>1, RowSteps DEF RowStep, NoRow
<1>2. ASSUME NEW u \in Uploads
      PROVE  /\ Exists(u)' => VideoKey(u, rows[u].key)'
             /\ rows'[u].status = "ready" => rows'[u].key.dir = "videos"
  <2>0. u \in Ids /\ u \notin Jobs
    BY StoreAssumption DEF Ids
  <2>1. RowStep(u)
    BY <2>0, RowSteps
  <2>2. \A k : VideoKey(u, k) => VideoKey(u, k)'
    BY VideoKeyStable
  <2>3. CASE rows'[u].status = rows[u].status /\ rows'[u].key = rows[u].key
    BY <2>2, <2>3 DEF Exists, VideoKey
  <2>4. CASE rows'[u] = NoRow
    BY <2>4 DEF NoRow, Exists
  <2>5. CASE rows'[u] = VideoRow(u)
    BY <2>5 DEF VideoRow, NoRow, RawKey, Key, VideoKey
  <2>6. CASE Exists(u) /\ rows'[u].status = "failed" /\ rows'[u].key = rows[u].key
    BY <2>2, <2>6 DEF VideoKey
  <2>7. CASE /\ wpc[u] = "publish" /\ wpc'[u] \notin PrePublish /\ run' = run
             /\ rows'[u].key = OutputKey(u)
    <3>1. run[u] \in 1..run[u]
      BY <2>7, StoreAssumption DEF TypeInv, Runs
    <3>. QED
      BY <2>7, <3>1 DEF OutputKey, Delivery, Key, VideoKey
  <2>. QED
    BY <2>0, <2>1, <2>3, <2>4, <2>5, <2>6, <2>7 DEF RowStep
<1>3. ASSUME NEW j \in Jobs, Exists(j)' PROVE rows'[j].key.dir = "posters"
  <2>1. j \in Ids /\ j \notin Uploads
    BY StoreAssumption DEF Ids
  <2>2. RowStep(j)
    BY <2>1, RowSteps
  <2>. QED
    BY <1>0, <1>3, <2>1, <2>2 DEF RowStep, Exists, NoRow
<1>. QED
  BY <1>1, <1>2, <1>3

(* A step keeps the keys that DELETE requests have read.                   *)
LEMMA DeleteKeysStep ==
  ASSUME TypeInv, KeyInv, [Next]_vars
  PROVE  DeleteKeys'
<1>. USE DEF TypeInv, TypeOK, DeleteTypeOK, KeyInv
<1>. SUFFICES ASSUME NEW d \in Deleters
              PROVE  /\ dsnap'[d].rends = {}
                     /\ dpc'[d] = "object" =>
                          IF did'[d] \in Uploads THEN VideoKey(did[d], dsnap[d].key)'
                          ELSE dsnap'[d].key.dir = "posters"
                     /\ dpc'[d] = "poster_object" => dposter'[d].key.dir = "posters"
  BY DEF DeleteKeys
<1>1. \A u \in Uploads : \A k : VideoKey(u, k) => VideoKey(u, k)'
  BY VideoKeyStable DEF TypeInv, TypeOK, DeleteTypeOK
<1>2. CASE did'[d] = did[d] /\ dsnap'[d] = dsnap[d] /\ dposter'[d] = dposter[d] /\ dpc'[d] = dpc[d]
  BY <1>1, <1>2 DEF DeleteKeys, VideoKey
<1>3. CASE LoadForDelete(d)
  <2>1. PICK id \in Ids : Exists(id) /\ did'[d] = id /\ dsnap'[d] = rows[id]
    BY <1>3 DEF LoadForDelete
  <2>2. dpc'[d] = "object"
    BY <1>3 DEF LoadForDelete, DeleteStep
  <2>3. CASE id \in Uploads
    <3>1. VideoKey(id, rows[id].key)
      BY <2>1, <2>3 DEF RowKeys
    <3>2. VideoKey(did[d], dsnap[d].key)'
      BY <1>1, <2>1, <2>3, <3>1 DEF VideoKey
    <3>. QED
      BY <2>1, <2>2, <2>3, <3>2 DEF RowKeys
  <2>4. CASE id \in Jobs
    BY <2>1, <2>2, <2>4, StoreAssumption DEF RowKeys
  <2>. QED
    BY <2>1, <2>3, <2>4 DEF Ids
<1>4. CASE DeleteObject(d) \/ DeleteRecord(d) \/ DeletePosterObject(d) \/ DeletePosterRecord(d)
  BY <1>4 DEF DeleteObject, DeleteRecord, DeletePosterObject, DeletePosterRecord, DeleteStep,
              Remaining, DeleteKeys
<1>5. CASE DeleteRendition(d)
  BY <1>5 DEF DeleteRendition, DeleteStep, DeleteKeys
<1>6. CASE LoadPoster(d)
  BY <1>6 DEF LoadPoster, DeleteStep, DeleteKeys, RowKeys
<1>7. ASSUME NEW e \in Deleters, e # d, LoadForDelete(e) \/ Delete(e)
      PROVE  did'[d] = did[d] /\ dsnap'[d] = dsnap[d] /\ dposter'[d] = dposter[d]
             /\ dpc'[d] = dpc[d]
  BY <1>7 DEF LoadForDelete, Delete, DeleteObject, DeleteRendition, DeleteRecord, LoadPoster,
              DeletePosterObject, DeletePosterRecord, DeleteStep
<1>. QED
  BY <1>2, <1>3, <1>4, <1>5, <1>6, <1>7 DEF Next, vars, deleteVars, DeleteNext, Delete

(* A worker comes to publish by storing its output.                        *)
LEMMA PublishReached ==
  ASSUME TypeInv, [Next]_vars, NEW u \in Uploads, wpc'[u] = "publish"
  PROVE  \/ OutputKey(u)' \in objects'
         \/ wpc[u] = "publish" /\ run'[u] = run[u] /\ wvis'[u] = wvis[u]
<1>. USE DEF TypeInv, TypeOK, VideoTypeOK
<1>1. CASE PutOutput(u)
  <2>1. Put(OutputKey(u)) /\ wvis' = wvis /\ run' = run
    BY <1>1 DEF PutOutput, WorkerStep
  <2>. QED
    BY <2>1 DEF Put, OutputKey, Delivery
<1>2. ASSUME NEW v \in Uploads, Compress(v), v # u
      PROVE  wpc[u] = "publish" /\ run'[u] = run[u] /\ wvis'[u] = wvis[u]
  BY <1>2 DEF Compress, LoadRecord, Encode, PutOutput, Publish, Retract, Discard, StorePoster,
              ExtractFrame, CreatePoster, LinkPoster, ReadLinked, DropPosterObject,
              DropPosterRow, Fail, Notify, NotifyEvent, Cleanup, WorkerStep
<1>3. CASE Compress(u) /\ ~ PutOutput(u)
  BY <1>3 DEF Compress, LoadRecord, Encode, Publish, Retract, Discard, StorePoster,
              ExtractFrame, CreatePoster, LinkPoster, ReadLinked, DropPosterObject,
              DropPosterRow, Fail, Notify, NotifyEvent, Cleanup, WorkerStep
<1>4. ASSUME NEW v \in Uploads, Deliver(v) \/ Acknowledge(v) \/ Crash(v)
      PROVE  wpc[u] = "publish" /\ run'[u] = run[u] /\ wvis'[u] = wvis[u]
  BY <1>4 DEF Deliver, Acknowledge, Crash, WorkerStep
<1>5. ASSUME NEW v \in Uploads, LookupHit(v) \/ LookupMiss(v) \/ Upload(v) \/ Trim(v)
      PROVE  UNCHANGED workerVars
  BY <1>5 DEF LookupHit, LookupMiss, Upload, Stage, CreateRecord, Enqueue, Rollback, Unstage,
              LinkTask, Trim
<1>6. CASE UNCHANGED videoVars \/ UNCHANGED workerVars
  BY <1>6 DEF videoVars, workerVars
<1>. QED
  BY <1>1, <1>2, <1>3, <1>4, <1>5, <1>6 DEF Next, vars, VideoNext, Worker

(* A worker about to publish still has the output it stored.               *)
LEMMA OutputStoredStep ==
  ASSUME TypeInv, KeyInv, [Next]_vars
  PROVE  OutputStored'
<1>. SUFFICES ASSUME NEW u \in Uploads, wpc'[u] = "publish", OutputKey(u)' \notin objects'
              PROVE  FALSE
  BY DEF OutputStored
<1>1. wpc[u] = "publish" /\ run'[u] = run[u] /\ wvis'[u] = wvis[u]
  BY PublishReached
<1>2. PICK k : k = OutputKey(u)
  OBVIOUS
<1>3. k \in objects /\ k.dir = "videos" /\ k.tag = Delivery(u)
  BY <1>1, <1>2 DEF KeyInv, OutputStored, OutputKey, Key
<1>4. OutputKey(u)' = k
  BY <1>1, <1>2 DEF OutputKey, Delivery
<1>5. ~ Removable(k)
  <2>1. ASSUME NEW v \in Uploads, VideoKey(v, k) PROVE FALSE
    BY <1>1, <1>3, <2>1 DEF VideoKey, Delivery, PrePublish
  <2>2. ASSUME NEW v \in Uploads, wpc[v] \in {"retract", "discard"}, k = OutputKey(v)
        PROVE  FALSE
    BY <1>1, <1>3, <2>2 DEF OutputKey, Delivery, Key
  <2>. QED
    BY <1>3, <2>1, <2>2 DEF Removable
<1>. QED
  BY <1>3, <1>4, <1>5, Removals

(* No step takes a published object away from its row.                     *)
LEMMA ReadyHasObjectStep ==
  ASSUME TypeInv, KeyInv, [Next]_vars, "lost_reply" \notin Faults
  PROVE  ReadyHasObject'
<1>. SUFFICES ASSUME NEW u \in Uploads, rows'[u].status = "ready"
              PROVE  rows'[u].key \in objects' \/ Withdrawn(u)'
  BY DEF ReadyHasObject
<1>0. u \in Ids /\ u \notin Jobs
  BY StoreAssumption DEF Ids
<1>1. CASE wpc[u] = "publish" /\ objects' = objects /\ rows'[u].key = OutputKey(u)
  BY <1>1 DEF KeyInv, OutputStored
<1>2. CASE rows'[u].status = rows[u].status /\ rows'[u].key = rows[u].key
  <2>. DEFINE k == rows[u].key
  <2>1. Exists(u) /\ VideoKey(u, k) /\ k.dir = "videos" /\ (k \in objects \/ Withdrawn(u))
    BY <1>2 DEF KeyInv, RowKeys, ReadyHasObject, Exists
  <2>2. rows'[u].key = k /\ rows'[u] # NoRow
    BY <1>2 DEF NoRow
  <2>. HIDE DEF k
  <2>3. CASE k \in objects /\ k \notin objects'
    <3>1. Removable(k)
      BY <2>3, Removals
    <3>2. PICK d \in Deleters : /\ did[d] \in Uploads /\ VideoKey(did[d], k)
                                /\ dpc'[d] = "row" /\ did' = did
      BY <2>1, <3>1, VideoKeyUnique DEF Removable, PrePublish
    <3>3. did'[d] = u
      BY <2>1, <3>2, VideoKeyUnique
    <3>. QED
      BY <3>2, <3>3 DEF Withdrawn
  <2>4. CASE Withdrawn(u)
    BY <2>2, <2>4, WithdrawnStable
  <2>. QED
    BY <2>1, <2>2, <2>3, <2>4
<1>3. NoRow.status = "none" /\ VideoRow(u).status = "processing"
  BY DEF NoRow, VideoRow
<1>. QED
  BY <1>0, <1>1, <1>2, <1>3, RowSteps DEF RowStep

(* Without lost replies the names that rows hold are kept throughout.      *)
LEMMA KeyInvariant ==
  ASSUME "lost_reply" \notin Faults
  PROVE  Spec => [](TypeInv /\ KeyInv)
<1>1. TypeInv /\ KeyInv /\ [Next]_vars => KeyInv'
  <2>. SUFFICES ASSUME TypeInv, KeyInv, [Next]_vars PROVE KeyInv'
    OBVIOUS
  <2>. QED
    BY RowKeysStep, DeleteKeysStep, OutputStoredStep, ReadyHasObjectStep DEF KeyInv
<1>. QED
  BY <1>1, KeyInvInit, TypeInvariant, PTL DEF Spec

(* Unless a call that reported failure may have taken effect, no delivery  *)
(* of a job, no clean-up of a failed step and no DELETE of another row     *)
(* takes away the object that a ready video's row points at.               *)
THEOREM PublishedObjectsStay ==
  ASSUME "lost_reply" \notin Faults
  PROVE  Spec => []ReadyHasObject
<1>1. KeyInv => ReadyHasObject
  BY DEF KeyInv
<1>. QED
  BY <1>1, KeyInvariant, PTL

(***************************************************************************)
(* What VideoSystem keeps whatever fails: lost replies, dying workers,     *)
(* trimmed messages and full disks included.  The argument is about the    *)
(* past: which steps a request or a delivery has behind it when a row, a   *)
(* key or a DELETE is seen, and which it can therefore never take again.   *)
(***************************************************************************)

(***************************************************************************)
(* The steps of one upload, and what the steps of the others and of the    *)
(* DELETE requests leave alone.                                            *)
(***************************************************************************)
VideoStep(u) ==
  \/ LookupHit(u) \/ LookupMiss(u) \/ Upload(u)
  \/ Worker(u) \/ Crash(u) \/ Trim(u)

SameUpload(u) ==
  /\ req'[u] = req[u] /\ upc'[u] = upc[u] /\ attached'[u] = attached[u]
  /\ job'[u] = job[u] /\ wpc'[u] = wpc[u] /\ run'[u] = run[u] /\ wvis'[u] = wvis[u]
  /\ \A e : <<u, e>> \in events' <=> <<u, e>> \in events

SameDelete(d) ==
  dpc'[d] = dpc[d] /\ did'[d] = did[d] /\ dsnap'[d] = dsnap[d] /\ dposter'[d] = dposter[d]

(* The row of a video is deleted by a request that was about to do so.     *)
DeletedBy(i, d) == did[d] = i /\ dpc[d] = "row" /\ rows'[i] = NoRow

(* Each statement, raised or not, touches one row.                         *)
LEMMA OneRow ==
  ASSUME StoreTypeOK, NEW id, NEW i \in Ids, i # id
  PROVE  /\ \A row : rows' = Insert(id, row) \/ StatementRaises(Insert(id, row)) => rows'[i] = rows[i]
         /\ rows' = DeleteRow(id) \/ DeleteRowSuppressed(id) \/ StatementRaises(DeleteRow(id))
              => rows'[i] = rows[i]
         /\ \A row : rows' = Update(id, row) \/ StatementRaises(Update(id, row)) => rows'[i] = rows[i]
BY DEF StoreTypeOK, StatementRaises, Insert, Update, DeleteRow, DeleteRowSuppressed

(* What the UPDATEs write into the row they find.                          *)
LEMMA UpdatedRow ==
  ASSUME StoreTypeOK, NEW id \in Ids, Exists(id)
  PROVE  /\ \A key : /\ MarkReady(id, key)[id].status = "ready"
                     /\ MarkReady(id, key)[id].key = key
         /\ /\ MarkFailed(id)[id].status = "failed"
            /\ MarkFailed(id)[id].key = rows[id].key
         /\ /\ SetTaskId(id)[id].status = rows[id].status
            /\ SetTaskId(id)[id].key = rows[id].key
         /\ \A poster : /\ SetPoster(id, poster)[id].status = rows[id].status
                        /\ SetPoster(id, poster)[id].key = rows[id].key
<1>0. rows[id] \in Rows
  BY DEF StoreTypeOK
<1>1. ASSUME NEW row PROVE Update(id, row)[id] = row
  BY DEF Update, StoreTypeOK
<1>2. ASSUME NEW key
      PROVE  MarkReady(id, key)[id].status = "ready" /\ MarkReady(id, key)[id].key = key
  <2>. DEFINE row == [rows[id] EXCEPT !.status = "ready", !.key = key]
  <2>1. row.status = "ready" /\ row.key = key
    BY <1>0 DEF Rows
  <2>2. MarkReady(id, key) = Update(id, row)
    BY DEF MarkReady
  <2>. HIDE DEF row
  <2>. QED
    BY <1>1, <2>1, <2>2
<1>3. MarkFailed(id)[id].status = "failed" /\ MarkFailed(id)[id].key = rows[id].key
  <2>. DEFINE row == [rows[id] EXCEPT !.status = "failed"]
  <2>1. row.status = "failed" /\ row.key = rows[id].key
    BY <1>0 DEF Rows
  <2>2. MarkFailed(id) = Update(id, row)
    BY DEF MarkFailed
  <2>. HIDE DEF row
  <2>. QED
    BY <1>1, <2>1, <2>2
<1>4. SetTaskId(id)[id].status = rows[id].status /\ SetTaskId(id)[id].key = rows[id].key
  <2>. DEFINE row == [rows[id] EXCEPT !.task = TRUE]
  <2>1. row.status = rows[id].status /\ row.key = rows[id].key
    BY <1>0 DEF Rows
  <2>2. SetTaskId(id) = Update(id, row)
    BY DEF SetTaskId
  <2>. HIDE DEF row
  <2>. QED
    BY <1>1, <2>1, <2>2
<1>5. ASSUME NEW poster
      PROVE  /\ SetPoster(id, poster)[id].status = rows[id].status
             /\ SetPoster(id, poster)[id].key = rows[id].key
  <2>. DEFINE row == [rows[id] EXCEPT !.poster = poster]
  <2>1. row.status = rows[id].status /\ row.key = rows[id].key
    BY <1>0 DEF Rows
  <2>2. SetPoster(id, poster) = Update(id, row)
    BY DEF SetPoster
  <2>. HIDE DEF row
  <2>. QED
    BY <1>1, <2>1, <2>2
<1>. QED
  BY <1>2, <1>3, <1>4, <1>5

(* The steps of one upload leave the state and the row of another alone.   *)
LEMMA OtherUpload ==
  ASSUME TypeInv, NEW u \in Uploads, NEW v \in Uploads, v # u, VideoStep(v)
  PROVE  SameUpload(u) /\ rows'[u] = rows[u]
<1>. USE DEF TypeInv, TypeOK, VideoTypeOK
<1>0. u \in Ids /\ u \notin Jobs /\ StoreTypeOK
  BY StoreAssumption DEF Ids
<1>1. ASSUME LookupHit(v) \/ LookupMiss(v) \/ Upload(v)
      PROVE  SameUpload(u) /\ rows'[u] = rows[u]
  <2>1. SameUpload(u)
    BY <1>1 DEF LookupHit, LookupMiss, Upload, Stage, CreateRecord, Enqueue, Rollback, Unstage,
                LinkTask, UploadStep, SameUpload, workerVars
  <2>2. rows'[u] = rows[u]
    BY <1>0, <1>1, OneRow
       DEF LookupHit, LookupMiss, Upload, Stage, CreateRecord, Enqueue, Rollback, Unstage,
           LinkTask, SetTaskId, storeVars
  <2>. QED
    BY <2>1, <2>2
<1>2. ASSUME Worker(v) \/ Crash(v) \/ Trim(v)
      PROVE  SameUpload(u) /\ rows'[u] = rows[u]
  <2>0. wpc[v] # "idle" => u # Delivery(v)
    BY <1>0, NamesType
  <2>1. CASE Deliver(v) \/ Acknowledge(v) \/ Crash(v) \/ Trim(v)
    BY <1>2, <2>1 DEF Deliver, Acknowledge, Crash, Trim, WorkerStep, SameUpload, workerVars,
                      uploadVars, storeVars
  <2>2. CASE LoadRecord(v) \/ Encode(v) \/ PutOutput(v) \/ Retract(v) \/ Discard(v) \/ Cleanup(v)
    BY <1>2, <2>2 DEF LoadRecord, Encode, PutOutput, Retract, Discard, Cleanup, WorkerStep,
                      SameUpload, uploadVars, storeVars
  <2>3. CASE Notify(v)
    BY <1>2, <2>3 DEF Notify, NotifyEvent, WorkerStep, SameUpload, uploadVars, storeVars
  <2>4. CASE Publish(v)
    <3>1. rows'[u] = rows[u]
      BY <1>0, <1>2, <2>4, OneRow DEF Publish, MarkReady
    <3>. QED
      BY <1>2, <2>4, <3>1 DEF Publish, WorkerStep, SameUpload, uploadVars
  <2>5. CASE Fail(v)
    <3>1. rows'[u] = rows[u]
      BY <1>0, <1>2, <2>5, OneRow DEF Fail, MarkFailed
    <3>. QED
      BY <1>2, <2>5, <3>1 DEF Fail, WorkerStep, SameUpload, uploadVars
  <2>6. CASE StorePoster(v)
    <3>1. rows'[u] = rows[u]
      BY <1>0, <1>2, <2>0, <2>6, OneRow
         DEF StorePoster, ExtractFrame, CreatePoster, LinkPoster, ReadLinked, DropPosterObject,
             DropPosterRow, SetPoster, WorkerStep, storeVars
    <3>. QED
      BY <1>2, <2>6, <3>1
         DEF StorePoster, ExtractFrame, CreatePoster, LinkPoster, ReadLinked, DropPosterObject,
             DropPosterRow, WorkerStep, SameUpload, uploadVars
  <2>. QED
    BY <1>2, <2>1, <2>2, <2>3, <2>4, <2>5, <2>6 DEF Worker, Compress
<1>. QED
  BY <1>1, <1>2 DEF VideoStep

(* A DELETE leaves the row of a video alone unless it is at its statement. *)
LEMMA OtherRow ==
  ASSUME TypeInv, NEW u \in Uploads, NEW d \in Deleters, LoadForDelete(d) \/ Delete(d)
  PROVE  rows'[u] = rows[u] \/ DeletedBy(u, d)
<1>. USE DEF TypeInv, TypeOK
<1>0. u \in Ids /\ u \notin Jobs /\ StoreTypeOK
  BY StoreAssumption DEF Ids
<1>1. CASE DeleteRecord(d)
  <2>1. CASE did[d] = u
    BY <1>0, <1>1, <2>1 DEF DeleteRecord, DeleteStep, StatementRaises, DeleteRow, DeletedBy,
                            StoreTypeOK
  <2>2. CASE did[d] # u
    BY <1>0, <1>1, <2>2, OneRow DEF DeleteRecord
  <2>. QED
    BY <2>1, <2>2
<1>2. CASE DeletePosterRecord(d)
  BY <1>0, <1>2, OneRow DEF DeletePosterRecord, DeleteStep
<1>. QED
  BY <1>1, <1>2 DEF Delete, LoadForDelete, DeleteObject, DeleteRendition, LoadPoster,
                          DeletePosterObject, storeVars

(* A step belongs to this upload, or leaves its state alone, and its row   *)
(* too unless a DELETE is at its statement.                                *)
LEMMA UploadFrame ==
  ASSUME TypeInv, [Next]_vars, NEW u \in Uploads
  PROVE  \/ VideoStep(u) /\ UNCHANGED deleteVars
         \/ /\ SameUpload(u)
            /\ rows'[u] = rows[u] \/ \E d \in Deleters : DeletedBy(u, d)
<1>1. ASSUME UNCHANGED videoVars PROVE SameUpload(u)
  BY <1>1 DEF videoVars, SameUpload
<1>2. CASE UNCHANGED vars
  BY <1>1, <1>2 DEF vars, storeVars, videoVars
<1>3. CASE VideoNext /\ UNCHANGED deleteVars
  BY <1>3, OtherUpload DEF VideoNext, VideoStep
<1>4. CASE DeleteNext /\ UNCHANGED videoVars
  BY <1>1, <1>4, OtherRow DEF DeleteNext
<1>. QED
  BY <1>2, <1>3, <1>4 DEF Next

(* The delivery that names a poster's row inserts it.                      *)
PosterInserted(u, j) ==
  /\ wpc[u] = "poster_row" /\ wpc'[u] \in {"link", "drop_frame"}
  /\ run'[u] = run[u] /\ j = Delivery(u) /\ rows'[j] = PosterRow(u)

(* The row of a poster is inserted by the delivery that names it, and      *)
(* changes no more until it is deleted.                                    *)
LEMMA PosterFrame ==
  ASSUME TypeInv, [Next]_vars, NEW j \in Jobs
  PROVE  \/ rows'[j] = rows[j] \/ rows'[j] = NoRow
         \/ \E u \in Uploads : PosterInserted(u, j)
<1>. USE DEF TypeInv, TypeOK, VideoTypeOK
<1>0. j \in Ids /\ j \notin Uploads /\ StoreTypeOK
  BY StoreAssumption DEF Ids
<1>1. ASSUME NEW id, rows' = DeleteRow(id) \/ DeleteRowSuppressed(id) \/ StatementRaises(DeleteRow(id))
      PROVE  rows'[j] = rows[j] \/ rows'[j] = NoRow
  BY <1>0, <1>1 DEF DeleteRow, DeleteRowSuppressed, StatementRaises, StoreTypeOK
<1>2. ASSUME NEW u \in Uploads, LookupHit(u) \/ LookupMiss(u) \/ Upload(u)
      PROVE  rows'[j] = rows[j]
  BY <1>0, <1>2, OneRow
     DEF LookupHit, LookupMiss, Upload, Stage, CreateRecord, Enqueue, Rollback, Unstage,
         LinkTask, SetTaskId, storeVars
<1>3. ASSUME NEW u \in Uploads, CreatePoster(u)
      PROVE  rows'[j] = rows[j] \/ PosterInserted(u, j)
  <2>1. CASE j # Delivery(u)
    BY <1>0, <1>3, <2>1, OneRow DEF CreatePoster
  <2>2. CASE j = Delivery(u)
    BY <1>0, <1>3, <2>2
       DEF CreatePoster, Insert, StatementRaises, WorkerStep, PosterInserted, StoreTypeOK
  <2>. QED
    BY <2>1, <2>2
<1>4. ASSUME NEW u \in Uploads, Compress(u), ~ CreatePoster(u), ~ DropPosterRow(u)
      PROVE  rows'[j] = rows[j]
  BY <1>0, <1>4, OneRow
     DEF Compress, LoadRecord, Encode, PutOutput, Publish, Retract, Discard, StorePoster,
         ExtractFrame, LinkPoster, ReadLinked, DropPosterObject, Fail, Notify, NotifyEvent,
         Cleanup, MarkReady, MarkFailed, SetPoster, storeVars
<1>5. ASSUME NEW u \in Uploads, Deliver(u) \/ Acknowledge(u) \/ Crash(u) \/ Trim(u)
      PROVE  rows' = rows
  BY <1>5 DEF Deliver, Acknowledge, Crash, Trim, storeVars
<1>6. ASSUME NEW u \in Uploads, DropPosterRow(u)
      PROVE  rows'[j] = rows[j] \/ rows'[j] = NoRow
  BY <1>1, <1>6 DEF DropPosterRow
<1>7. ASSUME NEW d \in Deleters, LoadForDelete(d) \/ Delete(d)
      PROVE  rows'[j] = rows[j] \/ rows'[j] = NoRow
  BY <1>1, <1>7 DEF LoadForDelete, Delete, DeleteObject, DeleteRendition, DeleteRecord,
                    LoadPoster, DeletePosterObject, DeletePosterRecord, storeVars
<1>. QED
  BY <1>2, <1>3, <1>4, <1>5, <1>6, <1>7
     DEF Next, vars, storeVars, VideoNext, DeleteNext, Worker

(* A DELETE leaves the state of the others alone.                          *)
LEMMA OtherDelete ==
  ASSUME TypeInv, NEW d \in Deleters, NEW e \in Deleters, e # d, LoadForDelete(e) \/ Delete(e)
  PROVE  SameDelete(d)
BY DEF LoadForDelete, Delete, DeleteObject, DeleteRendition, DeleteRecord, LoadPoster,
       DeletePosterObject, DeletePosterRecord, DeleteStep, SameDelete, TypeInv, TypeOK, DeleteTypeOK

(* A step belongs to this DELETE, or leaves its state alone.               *)
LEMMA DeleteFrame ==
  ASSUME TypeInv, [Next]_vars, NEW d \in Deleters
  PROVE  \/ (LoadForDelete(d) \/ Delete(d)) /\ UNCHANGED videoVars
         \/ SameDelete(d)
<1>1. ASSUME UNCHANGED deleteVars PROVE SameDelete(d)
  BY <1>1 DEF deleteVars, SameDelete
<1>. QED
  BY <1>1, OtherDelete DEF Next, vars, DeleteNext

(***************************************************************************)
(* The record of an upload.  Up to its INSERT an upload has no row and no  *)
(* job, and nobody can have seen it; after it, the row is there unless a   *)
(* DELETE asked for it or the request rolled it back.                      *)
(***************************************************************************)
Early == {"idle", "stage", "create", "duplicate"}

UploadRecord(u) ==
  /\ upc[u] \in Early => ~Exists(u)
  /\ upc[u] \in Early \cup {"enqueue"} => job[u] = "none"
  /\ job[u] = "none" => wpc[u] = "idle"
  /\ upc[u] \in {"enqueue", "rollback", "link_task", "accepted"} =>
       Exists(u) \/ DeleteRequested(u)
  /\ upc[u] = "duplicate" => attached[u] \in Uploads /\ upc[attached[u]] \notin Early

DeleteRecorded(d) ==
  /\ dpc[d] = "idle" => did[d] = None
  /\ did[d] \in Uploads => upc[did[d]] \notin Early

PosterKind == \A j \in Jobs : rows[j].kind # "video"

RecordInv ==
  /\ \A u \in Uploads : UploadRecord(u)
  /\ \A d \in Deleters : DeleteRecorded(d)
  /\ PosterKind

(* An upload does not go back before its INSERT.                           *)
LEMMA EarlyBehind ==
  ASSUME TypeInv, [Next]_vars, NEW u \in Uploads, upc'[u] \in Early
  PROVE  upc[u] \in Early
<1>. USE DEF TypeInv, TypeOK, VideoTypeOK, Early
<1>1. CASE SameUpload(u)
  BY <1>1 DEF SameUpload
<1>2. CASE LookupHit(u) \/ LookupMiss(u) \/ Upload(u)
  BY <1>2 DEF LookupHit, LookupMiss, Upload, Stage, CreateRecord, Enqueue, Rollback, Unstage,
              LinkTask, UploadStep
<1>3. ASSUME Worker(u) \/ Crash(u) \/ Trim(u) PROVE upc' = upc
  BY <1>3 DEF Worker, Crash, Trim, Deliver, Acknowledge, Compress, LoadRecord, Encode, PutOutput,
              Publish, Retract, Discard, StorePoster, ExtractFrame, CreatePoster, LinkPoster,
              ReadLinked, DropPosterObject, DropPosterRow, Fail, Notify, NotifyEvent, Cleanup,
              uploadVars
<1>. QED
  BY <1>1, <1>2, <1>3, UploadFrame DEF VideoStep

(* A request to delete a row is not forgotten.                             *)
LEMMA RequestedStable ==
  ASSUME TypeInv, RecordInv, [Next]_vars, NEW id \in Ids, DeleteRequested(id)
  PROVE  DeleteRequested(id)'
<1>1. PICK d \in Deleters : did[d] = id
  BY DEF DeleteRequested
<1>2. CASE SameDelete(d)
  BY <1>1, <1>2 DEF SameDelete, DeleteRequested
<1>3. ~ LoadForDelete(d)
  BY <1>1, StoreAssumption DEF RecordInv, DeleteRecorded, LoadForDelete, DeleteStep
<1>4. Delete(d) => did' = did
  BY DEF Delete, DeleteObject, DeleteRendition, DeleteRecord, LoadPoster, DeletePosterObject,
         DeletePosterRecord
<1>. QED
  BY <1>1, <1>2, <1>3, <1>4, DeleteFrame DEF DeleteRequested

(* A step of a request or of its job keeps its record.                     *)
LEMMA UploadRecordOwnStep ==
  ASSUME TypeInv, RecordInv, [Next]_vars, NEW u \in Uploads, VideoStep(u), UNCHANGED deleteVars
  PROVE  UploadRecord(u)'
<1>. USE DEF TypeInv, TypeOK, VideoTypeOK
<1>0. u \in Ids /\ StoreTypeOK /\ rows \in [Ids -> Rows] /\ UploadRecord(u)
  BY DEF Ids, StoreTypeOK, RecordInv
<1>1. \A v \in Uploads : upc[v] \notin Early => upc'[v] \notin Early
  BY EarlyBehind
<1>2. DeleteRequested(u)' <=> DeleteRequested(u)
  BY DEF DeleteRequested, deleteVars
<1>3. CASE LookupHit(u)
  <2>1. PICK id \in Ids : /\ id \in FindActiveVideoByHash(VideoHash(u))
                          /\ attached' = [attached EXCEPT ![u] = id]
    BY <1>3 DEF LookupHit, FindActiveVideoByHash
  <2>2. id \in Uploads /\ Exists(id)
    BY <2>1 DEF FindActiveVideoByHash, Exists, RecordInv, PosterKind, Ids
  <2>3. upc[id] \notin Early
    BY <2>2 DEF RecordInv, UploadRecord
  <2>4. upc'[id] \notin Early /\ attached'[u] = id
    BY <1>1, <2>1, <2>2, <2>3
  <2>. QED
    BY <1>0, <1>2, <1>3, <2>2, <2>4
       DEF LookupHit, UploadStep, UploadRecord, Early, Exists, storeVars, workerVars
<1>4. CASE LookupMiss(u) \/ Stage(u) \/ Unstage(u)
  BY <1>0, <1>2, <1>4 DEF LookupMiss, Stage, Unstage, UploadStep, UploadRecord, Early, Exists,
                          storeVars, workerVars
<1>5. CASE CreateRecord(u)
  <2>1. CASE UploadStep(u, "create", "enqueue") /\ rows' = Insert(u, VideoRow(u))
    <3>1. rows'[u].status = "processing"
      BY <1>0, <2>1 DEF Insert, VideoRow, NoRow
    <3>. QED
      BY <1>0, <1>2, <1>5, <2>1, <3>1
         DEF CreateRecord, UploadStep, UploadRecord, Early, Exists, workerVars
  <2>2. CASE UploadStep(u, "create", "unstage")
    BY <1>0, <1>2, <1>5, <2>2 DEF CreateRecord, UploadStep, UploadRecord, Early, workerVars
  <2>. QED
    BY <1>5, <2>1, <2>2 DEF CreateRecord
<1>6. CASE Enqueue(u)
  BY <1>0, <1>2, <1>6 DEF Enqueue, UploadStep, UploadRecord, Early, Exists, workerVars
<1>7. CASE Rollback(u)
  BY <1>0, <1>2, <1>7 DEF Rollback, UploadStep, UploadRecord, Early, workerVars
<1>8. CASE LinkTask(u)
  <2>1. Exists(u) => Exists(u)'
    BY <1>0, <1>8, UpdatedRow DEF LinkTask, StatementRaises, Exists
  <2>. QED
    BY <1>0, <1>2, <1>8, <2>1 DEF LinkTask, UploadStep, UploadRecord, Early, workerVars
<1>9. CASE Deliver(u) \/ Acknowledge(u) \/ Crash(u) \/ Trim(u)
  BY <1>0, <1>2, <1>9 DEF Deliver, Acknowledge, Crash, Trim, WorkerStep, UploadRecord, Early,
                          Exists, storeVars, uploadVars, workerVars
<1>10. CASE Compress(u)
  <2>1. wpc[u] # "idle" /\ UNCHANGED <<upc, attached, job>>
    BY <1>10 DEF Compress, LoadRecord, Encode, PutOutput, Publish, Retract, Discard, StorePoster,
                 ExtractFrame, CreatePoster, LinkPoster, ReadLinked, DropPosterObject,
                 DropPosterRow, Fail, Notify, NotifyEvent, Cleanup, WorkerStep, uploadVars
  <2>2. u # Delivery(u)
    BY <2>1, NamesType, StoreAssumption
  <2>3. Exists(u) => Exists(u)'
    <3>1. CASE LoadRecord(u) \/ Encode(u) \/ PutOutput(u) \/ Retract(u) \/ Discard(u)
               \/ Notify(u) \/ Cleanup(u)
      BY <3>1 DEF LoadRecord, Encode, PutOutput, Retract, Discard, Notify, NotifyEvent, Cleanup,
                  Exists, storeVars
    <3>2. CASE Publish(u) \/ Fail(u)
      BY <1>0, <3>2, UpdatedRow DEF Publish, Fail, StatementRaises, Exists
    <3>3. CASE StorePoster(u)
      <4>1. CASE LinkPoster(u)
        BY <1>0, <4>1, UpdatedRow DEF LinkPoster, StatementRaises, Exists
      <4>2. CASE StorePoster(u) /\ ~ LinkPoster(u)
        BY <1>0, <2>2, <4>2, OneRow
           DEF StorePoster, ExtractFrame, CreatePoster, ReadLinked, DropPosterObject,
               DropPosterRow, storeVars, Exists
      <4>. QED
        BY <3>3, <4>1, <4>2
    <3>. QED
      BY <1>10, <3>1, <3>2, <3>3 DEF Compress
  <2>4. upc[u] \notin Early /\ job[u] # "none"
    BY <1>0, <2>1 DEF UploadRecord
  <2>. QED
    BY <1>0, <1>2, <2>1, <2>3, <2>4 DEF UploadRecord, Early
<1>. QED
  BY <1>3, <1>4, <1>5, <1>6, <1>7, <1>8, <1>9, <1>10 DEF VideoStep, Upload, Worker

(* No step makes the row of a poster the row of a video.                   *)
LEMMA PosterKindStep ==
  ASSUME TypeInv, RecordInv, [Next]_vars
  PROVE  PosterKind'
<1>1. ASSUME NEW u \in Uploads PROVE PosterRow(u).kind = "image"
  BY DEF PosterRow, NoRow
<1>2. NoRow.kind = "file"
  BY DEF NoRow
<1>. QED
  BY <1>1, <1>2, PosterFrame DEF PosterInserted, PosterKind, RecordInv

(* So the record of every upload and of every DELETE is kept.              *)
LEMMA RecordInvStep ==
  ASSUME TypeInv, RecordInv, [Next]_vars
  PROVE  RecordInv'
<1>1. ASSUME NEW u \in Uploads PROVE UploadRecord(u)'
  <2>0. u \in Ids /\ UploadRecord(u)
    BY DEF Ids, RecordInv
  <2>1. CASE SameUpload(u) /\ rows'[u] = rows[u]
    BY <2>0, <2>1, RequestedStable, EarlyBehind DEF SameUpload, UploadRecord, Exists
  <2>2. ASSUME SameUpload(u), NEW d \in Deleters, DeletedBy(u, d) PROVE UploadRecord(u)'
    <3>1. DeleteRequested(u)' /\ ~Exists(u)'
      BY <2>0, <2>2, RequestedStable DEF DeletedBy, DeleteRequested, Exists, NoRow
    <3>. QED
      BY <2>0, <2>2, <3>1, EarlyBehind DEF SameUpload, UploadRecord
  <2>. QED
    BY <2>1, <2>2, UploadFrame, UploadRecordOwnStep
<1>2. ASSUME NEW d \in Deleters PROVE DeleteRecorded(d)'
  <2>0. DeleteRecorded(d)
    BY DEF RecordInv
  <2>1. CASE SameDelete(d)
    BY <2>0, <2>1, EarlyBehind DEF SameDelete, DeleteRecorded
  <2>2. CASE LoadForDelete(d) /\ UNCHANGED videoVars
    BY <2>2 DEF LoadForDelete, DeleteStep, DeleteRecorded, RecordInv, UploadRecord, videoVars,
                TypeInv, TypeOK, DeleteTypeOK
  <2>3. CASE Delete(d)
    <3>1. did' = did /\ dpc'[d] # "idle"
      BY <2>3 DEF Delete, DeleteObject, DeleteRendition, DeleteRecord, LoadPoster,
                  DeletePosterObject, DeletePosterRecord, DeleteStep, Remaining,
                  TypeInv, TypeOK, DeleteTypeOK
    <3>. QED
      BY <2>0, <3>1, EarlyBehind DEF DeleteRecorded
  <2>. QED
    BY <2>1, <2>2, <2>3, DeleteFrame
<1>. QED
  BY <1>1, <1>2, PosterKindStep DEF RecordInv

(* The initial state has neither rows nor requests.                        *)
LEMMA RecordInvInit == Init => RecordInv
BY StoreAssumption
   DEF Init, StoreInit, VideoInit, DeleteInit, RecordInv, UploadRecord, DeleteRecorded,
       PosterKind, Early, NoRow, Exists, Ids

(* The records of uploads and DELETE requests are kept throughout.         *)
LEMMA RecordInvariant == Spec => [](TypeInv /\ RecordInv)
<1>1. TypeInv /\ RecordInv /\ [Next]_vars => RecordInv'
  BY RecordInvStep
<1>. QED
  BY <1>1, RecordInvInit, TypeInvariant, PTL DEF Spec

(* What the records of a job and of a duplicate upload tell of its row.    *)
LEMMA RecordsTell ==
  ASSUME TypeInv, RecordInv
  PROVE  JobHasRecord /\ AttachedRowKept
<1>1. \A u \in Uploads : UploadRecord(u) /\ upc[u] \in UploadSteps
  BY DEF RecordInv, TypeInv, TypeOK, VideoTypeOK
<1>2. ASSUME NEW u \in Uploads, wpc[u] # "idle", ~Exists(u)
      PROVE  DeleteRequested(u) \/ RolledBack(u)
  BY <1>1, <1>2 DEF UploadRecord, Early, UploadSteps, RolledBack
<1>3. ASSUME NEW u \in Uploads, upc[u] = "duplicate", ~Exists(attached[u])
      PROVE  DeleteRequested(attached[u]) \/ RolledBack(attached[u])
  <2>1. attached[u] \in Uploads /\ upc[attached[u]] \notin Early
    BY <1>1, <1>3 DEF UploadRecord
  <2>. QED
    BY <1>1, <1>3, <2>1 DEF UploadRecord, Early, UploadSteps, RolledBack
<1>. QED
  BY <1>2, <1>3 DEF JobHasRecord, AttachedRowKept

(* Whatever fails, a worker that finds no row was overtaken by a DELETE or *)
(* by the roll-back of a failed enqueue: no job runs ahead of the INSERT   *)
(* (upload.py 773-776).                                                    *)
THEOREM JobsFollowRecords == Spec => []JobHasRecord
BY RecordsTell, RecordInvariant, PTL

(* Whatever fails, a duplicate upload is answered with the row of a video, *)
(* and loses it only to a DELETE or to the roll-back of the upload that    *)
(* created it (upload.py 740-758, 811-819).                                *)
THEOREM DuplicatesKeepTheirRow == Spec => []AttachedRowKept
BY RecordsTell, RecordInvariant, PTL

(***************************************************************************)
(* The names that were used up.  A key is minted once: an upload stages    *)
(* its raw object before its row can be seen, and a delivery stores its    *)
(* output and its poster before a row names them.                          *)
(***************************************************************************)
PrePut    == {"load", "encode", "put"}
PrePoster == PrePublish \cup {"frame", "poster_row"}

(* A delivery of the job of u whose worker has left the given steps.       *)
Past(u, tag, steps) ==
  /\ \E r \in 1..run[u] : tag = <<u, r>>
  /\ wpc[u] \in steps => tag # Delivery(u)

VideoName(u, k) ==
  \/ k.dir = "raw/videos" /\ k.tag = u /\ upc[u] \notin Early
  \/ k.dir = "videos" /\ Past(u, k.tag, PrePut)

PosterName(j, k) ==
  /\ k.dir = "posters" /\ k.tag = j
  /\ \E u \in Uploads : Past(u, j, PrePoster)

NameOf(i, k) ==
  IF i \in Uploads THEN VideoName(i, k) ELSE PosterName(i, k)

Removed == {"renditions", "row", "load_poster", "poster_object", "poster_row", "deleted"}
Dropped == {"load_poster", "poster_object", "poster_row", "deleted"}

RowNamed(i) == Exists(i) => NameOf(i, rows[i].key)

(* What a DELETE has removed and has not found again.                      *)
DeleteHistory(d) ==
  /\ dpc[d] # "idle" => NameOf(did[d], dsnap[d].key)
  /\ dpc[d] \in Removed => dsnap[d].key \notin objects
  /\ dpc[d] \in Dropped => ~Exists(did[d])

HistoryInv ==
  /\ \A i \in Ids : RowNamed(i)
  /\ \A d \in Deleters : DeleteHistory(d)

(* What the steps of an upload and of its job do to its row.               *)
RowMove(u) ==
  \/ rows'[u].status = rows[u].status /\ rows'[u].key = rows[u].key
  \/ rows'[u] = NoRow /\ upc[u] = "rollback"
  \/ rows'[u] = VideoRow(u) /\ upc[u] = "create" /\ upc'[u] \in {"enqueue", "unstage"}
  \/ /\ Exists(u) /\ wpc[u] = "publish" /\ wpc'[u] \in {"frame", "notify_completed", "retract"}
     /\ UNCHANGED <<run, upc, objects>> /\ rows'[u].status = "ready" /\ rows'[u].key = OutputKey(u)
  \/ /\ Exists(u) /\ wpc[u] = "fail" /\ wpc'[u] \in {"notify_failed", "cleanup"}
     /\ upc' = upc /\ rows'[u].status = "failed" /\ rows'[u].key = rows[u].key

(* Every step of the upload and of its job does one of these.              *)
LEMMA RowMoves ==
  ASSUME TypeInv, NEW u \in Uploads, VideoStep(u)
  PROVE  RowMove(u)
<1>. USE DEF TypeInv, TypeOK, VideoTypeOK
<1>0. u \in Ids /\ StoreTypeOK
  BY DEF Ids
<1>1. ASSUME rows'[u] = rows[u] PROVE RowMove(u)
  BY <1>1 DEF RowMove
<1>2. CASE LookupHit(u) \/ LookupMiss(u) \/ Stage(u) \/ Enqueue(u) \/ Unstage(u)
  BY <1>1, <1>2 DEF LookupHit, LookupMiss, Stage, Enqueue, Unstage, storeVars
<1>3. CASE CreateRecord(u)
  BY <1>0, <1>1, <1>3 DEF CreateRecord, UploadStep, StatementRaises, Insert, StoreTypeOK, RowMove
<1>4. CASE Rollback(u)
  BY <1>0, <1>1, <1>4 DEF Rollback, UploadStep, DeleteRowSuppressed, StatementRaises, DeleteRow,
                          StoreTypeOK, RowMove
<1>5. CASE LinkTask(u)
  <2>1. CASE rows' = SetTaskId(u) /\ Exists(u)
    BY <1>0, <2>1, UpdatedRow DEF RowMove
  <2>2. CASE rows' = SetTaskId(u) /\ ~Exists(u)
    BY <1>1, <2>2 DEF SetTaskId, Update
  <2>. QED
    BY <1>1, <1>5, <2>1, <2>2 DEF LinkTask, StatementRaises
<1>6. CASE Deliver(u) \/ Acknowledge(u) \/ Crash(u) \/ Trim(u)
  BY <1>1, <1>6 DEF Deliver, Acknowledge, Crash, Trim, storeVars
<1>7. CASE LoadRecord(u) \/ Encode(u) \/ PutOutput(u) \/ Retract(u) \/ Discard(u)
             \/ Notify(u) \/ Cleanup(u)
  BY <1>1, <1>7 DEF LoadRecord, Encode, PutOutput, Retract, Discard, Notify, NotifyEvent, Cleanup,
                    storeVars
<1>8. CASE Publish(u)
  <2>1. CASE rows' = MarkReady(u, OutputKey(u)) /\ Exists(u)
    <3>1. wpc'[u] \in {"frame", "notify_completed", "retract"} /\ wpc[u] = "publish"
          /\ UNCHANGED <<run, upc, objects>>
      BY <1>8, <2>1 DEF Publish, WorkerStep, uploadVars
    <3>. QED
      BY <1>0, <2>1, <3>1, UpdatedRow DEF RowMove
  <2>2. CASE rows' = MarkReady(u, OutputKey(u)) /\ ~Exists(u)
    BY <1>1, <2>2 DEF MarkReady, Update
  <2>. QED
    BY <1>1, <1>8, <2>1, <2>2 DEF Publish, StatementRaises
<1>9. CASE Fail(u)
  <2>1. CASE rows' = MarkFailed(u) /\ Exists(u)
    <3>1. wpc'[u] \in {"notify_failed", "cleanup"} /\ wpc[u] = "fail" /\ upc' = upc
      BY <1>9, <2>1 DEF Fail, WorkerStep, uploadVars
    <3>. QED
      BY <1>0, <2>1, <3>1, UpdatedRow DEF RowMove
  <2>2. CASE rows' = MarkFailed(u) /\ ~Exists(u)
    BY <1>1, <2>2 DEF MarkFailed, Update
  <2>. QED
    BY <1>1, <1>9, <2>1, <2>2 DEF Fail, StatementRaises
<1>10. CASE StorePoster(u)
  <2>1. CASE LinkPoster(u)
    <3>1. CASE rows' = SetPoster(u, Delivery(u)) /\ Exists(u)
      BY <1>0, <3>1, UpdatedRow DEF RowMove
    <3>2. CASE rows' = SetPoster(u, Delivery(u)) /\ ~Exists(u)
      BY <1>1, <3>2 DEF SetPoster, Update
    <3>. QED
      BY <1>1, <2>1, <3>1, <3>2 DEF LinkPoster, StatementRaises
  <2>2. CASE CreatePoster(u) \/ DropPosterRow(u)
    <3>1. u # Delivery(u)
      BY <2>2, NamesType, StoreAssumption DEF CreatePoster, DropPosterRow, WorkerStep
    <3>. QED
      BY <1>0, <1>1, <2>2, <3>1, OneRow DEF CreatePoster, DropPosterRow
  <2>. QED
    BY <1>1, <1>10, <2>1, <2>2
       DEF StorePoster, ExtractFrame, ReadLinked, DropPosterObject, storeVars
<1>. QED
  BY <1>2, <1>3, <1>4, <1>5, <1>6, <1>7, <1>8, <1>9, <1>10
     DEF VideoStep, Upload, Worker, Compress

(* A worker enters these steps only with a new delivery.                   *)
LEMMA WorkerProgress ==
  ASSUME TypeInv, [Next]_vars, NEW u \in Uploads
  PROVE  \/ /\ run'[u] = run[u]
            /\ wpc'[u] \in PrePut => wpc[u] \in PrePut
            /\ wpc'[u] \in PrePoster => wpc[u] \in PrePoster
         \/ run'[u] = run[u] + 1
<1>. USE DEF TypeInv, TypeOK, VideoTypeOK, PrePut, PrePoster, PrePublish
<1>1. CASE SameUpload(u)
  BY <1>1 DEF SameUpload
<1>2. ASSUME LookupHit(u) \/ LookupMiss(u) \/ Upload(u) \/ Trim(u) PROVE UNCHANGED workerVars
  BY <1>2 DEF LookupHit, LookupMiss, Upload, Stage, CreateRecord, Enqueue, Rollback, Unstage,
              LinkTask, Trim
<1>3. CASE Deliver(u)
  BY <1>3 DEF Deliver
<1>4. CASE Crash(u) \/ Acknowledge(u) \/ Fail(u) \/ Notify(u) \/ Cleanup(u)
  BY <1>4 DEF Crash, Acknowledge, Fail, Notify, NotifyEvent, Cleanup, WorkerStep
<1>5. CASE StorePoster(u)
  BY <1>5 DEF StorePoster, ExtractFrame, CreatePoster, LinkPoster, ReadLinked,
              DropPosterObject, DropPosterRow, WorkerStep
<1>6. CASE LoadRecord(u) \/ Encode(u) \/ PutOutput(u) \/ Publish(u) \/ Retract(u) \/ Discard(u)
  BY <1>6 DEF LoadRecord, Encode, PutOutput, Publish, Retract, Discard, WorkerStep
<1>. QED
  BY <1>1, <1>2, <1>3, <1>4, <1>5, <1>6, UploadFrame DEF VideoStep, Worker, Compress, workerVars

(* So a delivery that has left them stays past them, and a name that a row *)
(* or a DELETE has seen stays used up.                                     *)
LEMMA NameStable ==
  ASSUME TypeInv, [Next]_vars, NEW i \in Ids, NEW k, NameOf(i, k)
  PROVE  NameOf(i, k)'
<1>1. ASSUME NEW u \in Uploads, NEW tag, NEW steps, steps \in {PrePut, PrePoster}, Past(u, tag, steps)
      PROVE  Past(u, tag, steps)'
  <2>1. run[u] \in Nat
    BY StoreAssumption DEF TypeInv, TypeOK, VideoTypeOK
  <2>2. CASE run'[u] = run[u] /\ (wpc'[u] \in steps => wpc[u] \in steps)
    BY <1>1, <2>2 DEF Past, Delivery
  <2>3. CASE run'[u] = run[u] + 1
    BY <1>1, <2>1, <2>3 DEF Past, Delivery
  <2>. QED
    BY <1>1, <2>2, <2>3, WorkerProgress
<1>2. ASSUME NEW u \in Uploads, VideoName(u, k) PROVE VideoName(u, k)'
  BY <1>1, <1>2, EarlyBehind DEF VideoName
<1>3. ASSUME PosterName(i, k) PROVE PosterName(i, k)'
  BY <1>1, <1>3 DEF PosterName
<1>. QED
  BY <1>2, <1>3 DEF NameOf

(* The objects a step may store.                                           *)
Storable(u, k) ==
  \/ upc[u] = "stage" /\ k = RawKey(u)
  \/ wpc[u] = "put" /\ k = OutputKey(u)
  \/ wpc[u] = "frame" /\ k = PosterKey(u)

(* Every object that a step adds to the store is one of these.             *)
LEMMA Additions ==
  ASSUME TypeInv, [Next]_vars, NEW k \in objects', k \notin objects
  PROVE  \E u \in Uploads : Storable(u, k)
<1>. USE DEF Put, PutRaises, PutRefused, PutEscapes, Remove, RemoveRaises, RemoveRefused,
              RemoveEscapes, RemoveSuppressed, RemoveLast
<1>1. ASSUME NEW u \in Uploads, LookupHit(u) \/ LookupMiss(u) \/ Upload(u) PROVE Storable(u, k)
  BY <1>1 DEF LookupHit, LookupMiss, Upload, Stage, CreateRecord, Enqueue, Rollback,
              Unstage, LinkTask, UploadStep, Storable, storeVars
<1>2. ASSUME NEW u \in Uploads, Worker(u) \/ Crash(u) \/ Trim(u) PROVE Storable(u, k)
  BY <1>2 DEF Worker, Crash, Trim, Deliver, Acknowledge, Compress, LoadRecord, Encode, PutOutput,
              Publish, Retract, Discard, StorePoster, ExtractFrame, CreatePoster, LinkPoster,
              ReadLinked, DropPosterObject, DropPosterRow, Fail, Notify, NotifyEvent, Cleanup,
              WorkerStep, Storable, storeVars
<1>3. ASSUME NEW d \in Deleters, LoadForDelete(d) \/ Delete(d) PROVE FALSE
  BY <1>3 DEF LoadForDelete, Delete, DeleteObject, DeleteRendition, DeleteRecord, LoadPoster,
              DeletePosterObject, DeletePosterRecord, storeVars
<1>. QED
  BY <1>1, <1>2, <1>3 DEF Next, vars, storeVars, VideoNext, DeleteNext

(* None of them is a name that is used up.                                 *)
LEMMA NamesUsedOnce ==
  ASSUME TypeInv, NEW i \in Ids, NEW k, NameOf(i, k), NEW v \in Uploads, Storable(v, k)
  PROVE  FALSE
<1>. USE DEF Key
<1>1. k.dir \in {"raw/videos", "videos", "posters"}
  BY DEF NameOf, VideoName, PosterName
<1>2. CASE upc[v] = "stage" /\ k = RawKey(v)
  BY <1>2 DEF NameOf, VideoName, PosterName, RawKey, Early
<1>3. CASE wpc[v] = "put" /\ k = OutputKey(v)
  BY <1>3 DEF NameOf, VideoName, PosterName, OutputKey, Delivery, Past, PrePut
<1>4. CASE wpc[v] = "frame" /\ k = PosterKey(v)
  BY <1>4 DEF NameOf, VideoName, PosterName, PosterKey, Delivery, Past, PrePoster
<1>. QED
  BY <1>2, <1>3, <1>4 DEF Storable

(* A row keeps the key it names, or is given one that is used up.          *)
LEMMA NewNames ==
  ASSUME TypeInv, [Next]_vars, NEW i \in Ids, Exists(i)'
  PROVE  \/ Exists(i) /\ rows'[i].key = rows[i].key
         \/ NameOf(i, rows[i].key)'
<1>. USE DEF TypeInv, TypeOK, VideoTypeOK
<1>0. NoRow.status = "none" /\ rows'[i].status # "none"
  BY DEF NoRow, Exists
<1>1. CASE rows'[i].status = rows[i].status /\ rows'[i].key = rows[i].key
  BY <1>0, <1>1 DEF Exists
<1>2. rows'[i] # NoRow
  BY <1>0
<1>3. CASE i \in Uploads
  <2>1. CASE rows'[i] = VideoRow(i) /\ upc'[i] \in {"enqueue", "unstage"}
    <3>1. VideoRow(i).key.dir = "raw/videos" /\ VideoRow(i).key.tag = i
      BY DEF VideoRow, NoRow, RawKey, Key
    <3>. QED
      BY <1>3, <2>1, <3>1 DEF NameOf, VideoName, Early
  <2>2. CASE /\ wpc[i] = "publish" /\ wpc'[i] \in {"frame", "notify_completed", "retract"}
             /\ run' = run /\ rows'[i].key = OutputKey(i)
    <3>1. rows'[i].key.dir = "videos" /\ rows'[i].key.tag = Delivery(i)'
      BY <2>2 DEF OutputKey, Key, Delivery
    <3>2. run'[i] \in 1..run'[i]
      BY <1>3, <2>2, StoreAssumption DEF Runs
    <3>. QED
      BY <1>3, <2>2, <3>1, <3>2 DEF NameOf, VideoName, Past, PrePut, Delivery
  <2>3. CASE SameUpload(i) /\ (rows'[i] = rows[i] \/ \E d \in Deleters : DeletedBy(i, d))
    BY <1>1, <1>2, <2>3 DEF DeletedBy
  <2>4. CASE RowMove(i)
    BY <1>1, <1>2, <2>1, <2>2, <2>4 DEF RowMove
  <2>. QED
    BY <1>3, <2>3, <2>4, UploadFrame, RowMoves
<1>4. CASE i \in Jobs
  <2>1. ASSUME NEW u \in Uploads, PosterInserted(u, i) PROVE NameOf(i, rows[i].key)'
    <3>1. PosterRow(u).key.dir = "posters" /\ PosterRow(u).key.tag = i
      BY <2>1 DEF PosterInserted, PosterRow, NoRow, PosterKey, Key
    <3>2. run'[u] \in 1..run'[u]
      BY <2>1, StoreAssumption DEF PosterInserted, Runs
    <3>3. Past(u, i, PrePoster)'
      BY <2>1, <3>2 DEF PosterInserted, Past, PrePoster, PrePublish, Delivery
    <3>4. i \notin Uploads
      BY <1>4, StoreAssumption
    <3>. QED
      BY <2>1, <3>1, <3>3, <3>4 DEF PosterInserted, NameOf, PosterName
  <2>. QED
    BY <1>1, <1>2, <1>4, <2>1, PosterFrame
<1>. QED
  BY <1>3, <1>4 DEF Ids

(* Every row names an object that its video or poster has used up.         *)
LEMMA RowNamedStep ==
  ASSUME TypeInv, HistoryInv, [Next]_vars, NEW i \in Ids
  PROVE  RowNamed(i)'
<1>1. CASE Exists(i) /\ rows'[i].key = rows[i].key
  <2>1. PICK k : k = rows[i].key
    OBVIOUS
  <2>2. NameOf(i, k)'
    BY <1>1, <2>1, NameStable DEF HistoryInv, RowNamed
  <2>. QED
    BY <1>1, <2>1, <2>2 DEF RowNamed, NameOf, VideoName, PosterName
<1>. QED
  BY <1>1, NewNames DEF RowNamed

(* A row that is gone while somebody still holds its name stays gone.      *)
LEMMA GoneStaysGone ==
  ASSUME TypeInv, RecordInv, [Next]_vars, NEW i \in Ids, NEW k, NameOf(i, k),
         i \in Uploads => upc[i] \notin Early, ~Exists(i)
  PROVE  ~Exists(i)'
<1>0. NoRow.status = "none"
  BY DEF NoRow
<1>1. CASE i \in Uploads
  BY <1>0, <1>1, UploadFrame, RowMoves DEF RowMove, DeletedBy, Exists, Early
<1>2. CASE i \in Jobs
  <2>1. i \notin Uploads
    BY <1>2, StoreAssumption
  <2>2. ASSUME NEW u \in Uploads, PosterInserted(u, i) PROVE FALSE
    BY <2>1, <2>2 DEF PosterInserted, NameOf, PosterName, Past, PrePoster, Delivery
  <2>. QED
    BY <1>0, <1>2, <2>2, PosterFrame DEF Exists
<1>. QED
  BY <1>1, <1>2 DEF Ids

(* How a DELETE moves: it is begun, or goes past the removal of the object *)
(* and of the row.                                                         *)
LEMMA DeleteMoves ==
  ASSUME TypeInv, [Next]_vars, NEW d \in Deleters
  PROVE  \/ SameDelete(d)
         \/ /\ rows' = rows /\ dpc'[d] = "object"
            /\ \E id \in Ids : Exists(id) /\ did'[d] = id /\ dsnap'[d] = rows[id]
         \/ /\ did'[d] = did[d] /\ dsnap'[d].key = dsnap[d].key /\ dpc[d] # "idle"
            /\ dpc'[d] \in Removed => dpc[d] \in Removed \/ dsnap[d].key \notin objects'
            /\ dpc'[d] \in Dropped => dpc[d] \in Dropped \/ ~Exists(did[d])'
<1>. USE DEF TypeInv, TypeOK, DeleteTypeOK
<1>1. CASE LoadForDelete(d)
  BY <1>1 DEF LoadForDelete, DeleteStep, storeVars
<1>2. CASE Delete(d)
  <2>1. did'[d] = did[d] /\ dsnap'[d].key = dsnap[d].key /\ dpc[d] # "idle"
    <3>1. CASE DeleteRendition(d)
      BY <3>1 DEF DeleteRendition, DeleteStep, Rows
    <3>. QED
      BY <1>2, <3>1 DEF Delete, DeleteObject, DeleteRecord, LoadPoster, DeletePosterObject,
                        DeletePosterRecord, DeleteStep
  <2>2. dpc'[d] \in Removed => dpc[d] \in Removed \/ dsnap[d].key \notin objects'
    <3>1. CASE DeleteObject(d)
      BY <3>1 DEF DeleteObject, DeleteStep, Remove, Removed
    <3>2. CASE Delete(d) /\ ~ DeleteObject(d)
      BY <3>2 DEF Delete, DeleteRendition, DeleteRecord, LoadPoster, DeletePosterObject,
                  DeletePosterRecord, DeleteStep, Removed
    <3>. QED
      BY <1>2, <3>1, <3>2
  <2>3. dpc'[d] \in Dropped => dpc[d] \in Dropped \/ ~Exists(did[d])'
    <3>1. CASE DeleteRecord(d) /\ rows' = DeleteRow(did[d])
      BY <2>1, <3>1 DEF DeleteRow, StoreTypeOK, NoRow, Exists
    <3>2. CASE Delete(d) /\ ~ (DeleteRecord(d) /\ rows' = DeleteRow(did[d]))
      BY <3>2 DEF Delete, DeleteObject, DeleteRendition, DeleteRecord, LoadPoster,
                  DeletePosterObject, DeletePosterRecord, DeleteStep, Dropped, Remaining
    <3>. QED
      BY <1>2, <3>1, <3>2
  <2>. QED
    BY <2>1, <2>2, <2>3
<1>. QED
  BY <1>1, <1>2, DeleteFrame

(* Nothing a DELETE has removed comes back while it runs or afterwards.    *)
LEMMA DeleteHistoryStep ==
  ASSUME TypeInv, RecordInv, HistoryInv, [Next]_vars, NEW d \in Deleters
  PROVE  DeleteHistory(d)'
<1>0. DeleteHistory(d) /\ (dpc[d] # "idle" => did[d] \in Ids)
  BY DEF HistoryInv, TypeInv
<1>1. dpc[d] # "idle" /\ dsnap[d].key \notin objects => dsnap[d].key \notin objects'
  BY <1>0, Additions, NamesUsedOnce DEF DeleteHistory
<1>2. dpc[d] # "idle" /\ ~Exists(did[d]) => rows'[did[d]].status = "none"
  BY <1>0, GoneStaysGone DEF DeleteHistory, RecordInv, DeleteRecorded, Exists
<1>3. ASSUME dpc[d] # "idle", did'[d] = did[d], dsnap'[d].key = dsnap[d].key
      PROVE  NameOf(did[d], dsnap[d].key)'
  <2>1. PICK i \in Ids, k \in {dsnap[d].key} : i = did[d]
    BY <1>0, <1>3
  <2>2. NameOf(i, k)'
    BY <1>0, <1>3, <2>1, NameStable DEF DeleteHistory
  <2>. QED
    BY <1>3, <2>1, <2>2 DEF NameOf, VideoName, PosterName
<1>4. CASE SameDelete(d)
  BY <1>0, <1>1, <1>2, <1>3, <1>4 DEF SameDelete, DeleteHistory, Removed, Dropped, Exists
<1>5. ASSUME rows' = rows, dpc'[d] = "object",
             NEW id \in Ids, Exists(id), did'[d] = id, dsnap'[d] = rows[id]
      PROVE  DeleteHistory(d)'
  <2>1. PICK k : k = rows[id].key
    OBVIOUS
  <2>2. NameOf(id, k)'
    BY <1>5, <2>1, NameStable DEF HistoryInv, RowNamed
  <2>. QED
    BY <1>5, <2>1, <2>2 DEF DeleteHistory, Removed, Dropped, NameOf, VideoName, PosterName
<1>6. ASSUME did'[d] = did[d], dsnap'[d].key = dsnap[d].key, dpc[d] # "idle",
             dpc'[d] \in Removed => dpc[d] \in Removed \/ dsnap[d].key \notin objects',
             dpc'[d] \in Dropped => dpc[d] \in Dropped \/ ~Exists(did[d])'
      PROVE  DeleteHistory(d)'
  BY <1>0, <1>1, <1>2, <1>3, <1>6 DEF DeleteHistory, Exists
<1>. QED
  BY <1>4, <1>5, <1>6, DeleteMoves

(* The names in use are kept throughout.                                   *)
LEMMA HistoryInvariant == Spec => [](TypeInv /\ RecordInv /\ HistoryInv)
<1>1. Init => HistoryInv
  BY StoreAssumption
     DEF Init, StoreInit, DeleteInit, HistoryInv, RowNamed, DeleteHistory, Removed, Dropped,
         NoRow, Exists
<1>2. TypeInv /\ RecordInv /\ HistoryInv /\ [Next]_vars => HistoryInv'
  <2>. SUFFICES ASSUME TypeInv, RecordInv, HistoryInv, [Next]_vars PROVE HistoryInv'
    OBVIOUS
  <2>. QED
    BY RowNamedStep, DeleteHistoryStep DEF HistoryInv
<1>. QED
  BY <1>1, <1>2, RecordInvariant, PTL DEF Spec

(* Whatever fails, what a DELETE reported deleted does not come back: no   *)
(* delivery of a job, however late, and no retry or clean-up inserts the   *)
(* row again or stores the object again (postgres.py 367-405, management.py*)
(* 239-255).                                                               *)
THEOREM DeletedStaysDeleted == Spec => []NoResurrection
<1>1. HistoryInv => NoResurrection
  BY DEF HistoryInv, DeleteHistory, Removed, Dropped, NoResurrection
<1>. QED
  BY <1>1, HistoryInvariant, PTL

=============================================================================
