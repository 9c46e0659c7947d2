---------------------------- MODULE CappedStream ----------------------------
(***************************************************************************)
(* How a video or a generic file gets onto the disk: _stream_capped_to_temp*)
(* (app/routers/utils.py) reads, checks and writes one chunk at a time     *)
(* into a temp file, which it removes if anything goes wrong and otherwise *)
(* leaves to its caller, upload_video or upload_generic_file.  A body is   *)
(* the one of BulkUpload.                                                  *)
(***************************************************************************)
EXTENDS BulkUpload

CONSTANT MaxStream      (* MAX_VIDEO_UPLOAD_BYTES or MAX_FILE_UPLOAD_BYTES *)

ASSUME StreamAssumption == MaxStream \in Nat

VARIABLES
  sent,        (* what the client sends                                    *)
  chunks,      (* how many chunks have been read                           *)
  disk,        (* the bytes in the temp file; nothing when there is none   *)
  spc          (* where the request is, or how the stream ended            *)

streamVars == <<sent, chunks, disk, spc>>

StreamInit == sent \in Bodies /\ chunks = 0 /\ disk = {} /\ spc = "start"

StreamIdle == sent = <<>> /\ chunks = 0 /\ disk = {} /\ spc = "idle"

(* mkstemp; when it fails there is nothing to remove.                      *)
MakeTemp ==
  /\ spc = "start"
  /\ \/ disk' = {0} /\ spc' = "streaming"
     \/ disk' = disk /\ spc' = "no_temp"
  /\ UNCHANGED <<sent, chunks>>

(* Mutant: the chunk is written before the size is looked at.              *)
WrittenUnchecked(k) == {Buffered(sent, k)}

(* The size is looked at first, so the chunk too many is not written.      *)
Written(k) == IF AfterRead(sent, k, MaxStream) = "read" THEN {Buffered(sent, k)} ELSE disk

(* One turn of the loop.  What was read is written, or the loop is left by *)
(* an exception; a write that raises (a full disk) may have written some.  *)
StreamChunk ==
  LET k == chunks + 1 IN
  /\ spc = "streaming" /\ chunks < Reads(sent)
  /\ chunks' = k
  /\ \/ disk' = Written(k) /\ spc' = IF AfterRead(sent, k, MaxStream) = "read"
                                       THEN "streaming" ELSE AfterRead(sent, k, MaxStream)
     \/ /\ AfterRead(sent, k, MaxStream) = "read"
        /\ \E n \in Buffered(sent, k - 1)..Buffered(sent, k) : disk' = {n}
        /\ spc' = "disk_failed"
  /\ UNCHANGED sent

Aborts == {"processing_failed", "client_gone", "too_large", "disk_failed", "cancelled"}

(* Any await may be cancelled: the handler is written for BaseException.   *)
CancelStream ==
  /\ spc = "streaming"
  /\ spc' = "cancelled"
  /\ UNCHANGED <<sent, chunks, disk>>

(* `except BaseException: os.unlink(temp_path); raise`                     *)
UnlinkTemp ==
  /\ spc \in Aborts /\ disk # {}
  /\ disk' = {}
  /\ UNCHANGED <<sent, chunks, spc>>

EndStream ==
  /\ spc = "streaming" /\ chunks = Reads(sent)
  /\ spc' = "staged"
  /\ UNCHANGED <<sent, chunks, disk>>

(* Whatever the caller makes of the file, its `finally` removes it.        *)
CallerRemoves ==
  /\ spc = "staged"
  /\ disk' = {} /\ spc' = "ended"
  /\ UNCHANGED <<sent, chunks>>

StreamNext ==
  \/ MakeTemp \/ StreamChunk \/ CancelStream \/ UnlinkTemp \/ EndStream \/ CallerRemoves

(* A temp file never holds more than the cap, one that is handed on is the *)
(* whole body, and only a body beyond the cap is refused for its size      *)
(* (utils.py 51-87).                                                       *)
TempWithinCap ==
  /\ \A n \in disk : n <= MaxStream
  /\ spc = "staged" => sent.size <= MaxStream /\ disk = {sent.size}
  /\ spc = "too_large" => sent.size > MaxStream

=============================================================================
