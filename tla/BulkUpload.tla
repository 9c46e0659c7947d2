----------------------------- MODULE BulkUpload -----------------------------
(***************************************************************************)
(* POST /upload/images: the files of a request are read one after another  *)
(* under a cap each and a cap together (_read_capped, _read_bulk_files),   *)
(* those that were read are processed side by side, a few at a time, and   *)
(* the results are put back in the order of the files (upload_images of    *)
(* app/routers/upload.py).                                                 *)
(***************************************************************************)
EXTENDS Integers, FiniteSetsExt, SequencesExt

CONSTANTS
  MaxFiles,       (* files in a request, ten in the code                   *)
  MaxSize,        (* bound on the size of a file in the model              *)
  MaxImage,       (* MAX_IMAGE_UPLOAD_BYTES                                *)
  MaxBulk,        (* MAX_BULK_UPLOAD_TOTAL_BYTES                           *)
  ReadSize,       (* bytes per read, 1 MB in the code                      *)
  MaxParallel     (* _BULK_IMAGE_CONCURRENCY_LIMIT                         *)

ASSUME BulkAssumption ==
  /\ {MaxFiles, MaxSize, MaxImage, MaxBulk} \subseteq Nat
  /\ {ReadSize, MaxParallel} \subseteq Nat \ {0}

VARIABLES
  batch,       (* the files of the request                                 *)
  slots,       (* read_results: what has been read of each file so far     *)
  total,       (* total_bytes                                              *)
  work,        (* what has become of the files that were read              *)
  reply        (* the items answered, a failure, or nothing yet            *)

bulkVars == <<batch, slots, total, work, reply>>

(* What is buffered after k reads.                                         *)
Buffered(body, k) == Min({k * ReadSize, body.size})

Reads(body) == (body.size + ReadSize - 1) \div ReadSize

(* What the k-th read leads to: it may raise; then the connection is       *)
(* looked at, and then the size.                                           *)
AfterRead(body, k, max) ==
  CASE body.fate = "unreadable" /\ k = body.at -> "processing_failed"
    [] body.fate = "client_gone" /\ k >= body.at -> "client_gone"
    [] OTHER -> IF Buffered(body, k) > max THEN "too_large" ELSE "read"

ReadCapped(body, max) ==
  LET stops == {k \in 1..Reads(body) : AfterRead(body, k, max) # "read"} IN
  IF stops = {} THEN "read" ELSE AfterRead(body, Min(stops), max)

(* A body: its size, what happens to it at which read, and whether it is   *)
(* an image.                                                               *)
Bodies ==
  {b \in [size : 0..MaxSize, fate : {"whole", "client_gone", "unreadable"},
          at : 1..MaxSize, image : BOOLEAN] :
     IF b.fate = "whole" THEN b.at = 1 ELSE b.image /\ b.at <= Reads(b)}

(* How the processing of a file that was read may end.                     *)
Ends == {"success", "invalid_image", "processing_failed"}

BulkIdle == batch = <<>> /\ slots = <<>> /\ total = 0 /\ work = <<>> /\ reply = <<>>

(* No file or too many: 400, which is no step.                             *)
BulkInit ==
  /\ batch \in UNION {[1..n -> Bodies] : n \in 1..MaxFiles}
  /\ slots = <<>> /\ total = 0 /\ work = <<>> /\ reply = <<>>

Reading == reply = <<>> /\ Len(slots) < Len(batch)

(* Mutant: only the file itself is held against the aggregate cap.         *)
ReadOneForgetful ==
  LET body    == batch[Len(slots) + 1]
      outcome == ReadCapped(body, MaxImage) IN
  /\ Reading
  /\ outcome # "client_gone"
  /\ slots' = Append(slots, outcome)
  /\ total' = IF outcome = "read" THEN body.size ELSE total
  /\ UNCHANGED <<batch, work, reply>>

(* The aggregate cap is looked at before a file is read, not after.        *)
ReadOne ==
  LET body    == batch[Len(slots) + 1]
      outcome == IF total >= MaxBulk THEN "batch_too_large" ELSE ReadCapped(body, MaxImage) IN
  /\ Reading
  /\ outcome # "client_gone"
  /\ slots' = Append(slots, outcome)
  /\ total' = IF outcome = "read" THEN total + body.size ELSE total
  /\ UNCHANGED <<batch, work, reply>>

(* A client that is gone fails the whole request.                          *)
ReadAborted ==
  /\ Reading
  /\ total < MaxBulk
  /\ ReadCapped(batch[Len(slots) + 1], MaxImage) = "client_gone"
  /\ reply' = <<"client_gone">>
  /\ UNCHANGED <<batch, slots, total, work>>

(* One task for each file that was read, numbered in the order of files.   *)
TaskIndices(read) == SetToSortSeq({i \in DOMAIN read : read[i] = "read"}, <)

Gather ==
  /\ reply = <<>> /\ work = <<>>
  /\ Len(slots) = Len(batch)
  /\ TaskIndices(slots) # <<>>
  /\ work' = [j \in DOMAIN TaskIndices(slots) |-> "waiting"]
  /\ UNCHANGED <<batch, slots, total, reply>>

Running == {j \in DOMAIN work : work[j] = "running"}

Acquire(j) ==
  /\ j \in DOMAIN work /\ work[j] = "waiting"
  /\ Cardinality(Running) < MaxParallel
  /\ work' = [work EXCEPT ![j] = "running"]
  /\ UNCHANGED <<batch, slots, total, reply>>

(* _process_single_image never raises here: a bad image and any failure    *)
(* are results.                                                            *)
Process(j) ==
  LET body == batch[TaskIndices(slots)[j]] IN
  /\ j \in Running
  /\ \E end \in IF body.image THEN {"success", "processing_failed"} ELSE {"invalid_image"} :
       work' = [work EXCEPT ![j] = end]
  /\ UNCHANGED <<batch, slots, total, reply>>

(* Mutant: results are taken in order, without the map of indices.         *)
ItemsUnmapped(read, done) ==
  [i \in DOMAIN read |-> IF i \in DOMAIN done THEN done[i] ELSE read[i]]

FinalItems(read, done) ==
  LET indices == TaskIndices(read) IN
  [i \in DOMAIN read |->
     IF \E j \in DOMAIN indices : indices[j] = i
       THEN done[CHOOSE j \in DOMAIN indices : indices[j] = i] ELSE read[i]]

Respond ==
  /\ reply = <<>>
  /\ batch # <<>> /\ Len(slots) = Len(batch)
  /\ Len(work) = Len(TaskIndices(slots))
  /\ \A j \in DOMAIN work : work[j] \in Ends
  /\ reply' = FinalItems(slots, work)
  /\ UNCHANGED <<batch, slots, total, work>>

BulkNext ==
  \/ ReadOne \/ ReadAborted \/ Gather \/ Respond
  \/ \E j \in 1..MaxFiles : Acquire(j) \/ Process(j)

=============================================================================
