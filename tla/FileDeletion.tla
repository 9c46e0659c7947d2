---------------------------- MODULE FileDeletion ----------------------------
(***************************************************************************)
(* DELETE /files/{id} (app/routers/management.py): the object first, then  *)
(* its renditions, then the row, then the poster of a video.  The handler  *)
(* decides everything from the record it read before its first delete.     *)
(***************************************************************************)
EXTENDS MediaStore

CONSTANT Deleters   (* DELETE requests                                     *)

VARIABLES
  dpc,        (* where each DELETE handler is                              *)
  did,        (* the row the request names                                 *)
  dsnap,      (* that row as the handler read it                           *)
  dposter     (* the poster row, as the cascade read it                    *)

deleteVars == <<dpc, did, dsnap, dposter>>

DeleteSteps == {"idle", "object", "renditions", "row", "load_poster",
                "poster_object", "poster_row",
                "deleted", "storage_unavailable", "store_unavailable", "broken"}

DeleteTypeOK ==
  /\ dpc \in [Deleters -> DeleteSteps]
  /\ did \in [Deleters -> Ids \cup {None}]
  /\ dsnap \in [Deleters -> Rows]
  /\ dposter \in [Deleters -> Rows]

DeleteInit ==
  /\ dpc = [d \in Deleters |-> "idle"]
  /\ did = [d \in Deleters |-> None]
  /\ dsnap = [d \in Deleters |-> NoRow]
  /\ dposter = [d \in Deleters |-> NoRow]

DeleteStep(d, from, to) ==
  /\ dpc[d] = from
  /\ dpc' = [dpc EXCEPT ![d] = to]

(* A request for an unknown id is answered 404, and one whose lookup fails *)
(* 502, without touching anything: neither is a step.                      *)
LoadForDelete(d) ==
  /\ DeleteStep(d, "idle", "object")
  /\ \E id \in Ids :
       /\ Exists(id)
       /\ did' = [did EXCEPT ![d] = id]
       /\ dsnap' = [dsnap EXCEPT ![d] = rows[id]]
  /\ UNCHANGED <<storeVars, dposter>>

(* Once the objects are gone the row follows.                              *)
Remaining(rends) == IF rends = {} THEN "row" ELSE "renditions"

DeleteObject(d) ==
  /\ \/ DeleteStep(d, "object", Remaining(dsnap[d].rends)) /\ Remove(dsnap[d].key)
     \/ DeleteStep(d, "object", "storage_unavailable") /\ RemoveRaises
  /\ UNCHANGED <<rows, did, dsnap, dposter>>

(* The loop over record.renditions; a StorageError is suppressed, an       *)
(* OSError ends the request (500) with the main object gone and the row    *)
(* in place.                                                               *)
DeleteRendition(d) ==
  /\ \/ \E k \in dsnap[d].rends :
          /\ RemoveSuppressed(k)
          /\ dsnap' = [dsnap EXCEPT ![d].rends = @ \ {k}]
          /\ DeleteStep(d, "renditions", Remaining(dsnap[d].rends \ {k}))
     \/ DeleteStep(d, "renditions", "broken") /\ RemoveEscapes /\ UNCHANGED dsnap
  /\ UNCHANGED <<rows, did, dposter>>

HasPoster(record) == record.kind = "video" /\ record.poster # None

DeleteRecord(d) ==
  /\ \/ /\ DeleteStep(d, "row", IF HasPoster(dsnap[d]) THEN "load_poster" ELSE "deleted")
        /\ rows' = DeleteRow(did[d])
     \/ /\ DeleteStep(d, "row", "store_unavailable")
        /\ StatementRaises(DeleteRow(did[d]))
  /\ UNCHANGED <<objects, did, dsnap, dposter>>

(* _cascade_delete_poster: best effort, every failure is swallowed but an  *)
(* OSError, which keeps the poster's row.  A poster is stored without      *)
(* renditions, so only its object is deleted.                              *)
LoadPoster(d) ==
  LET poster == dsnap[d].poster IN
  /\ \/ /\ DeleteStep(d, "load_poster", "poster_object")
        /\ Exists(poster)
        /\ dposter' = [dposter EXCEPT ![d] = rows[poster]]
     \/ /\ DeleteStep(d, "load_poster", "deleted")
        /\ ~Exists(poster) \/ LookupRaises
        /\ UNCHANGED dposter
  /\ UNCHANGED <<storeVars, did, dsnap>>

DeletePosterObject(d) ==
  /\ \/ DeleteStep(d, "poster_object", "poster_row") /\ RemoveSuppressed(dposter[d].key)
     \/ DeleteStep(d, "poster_object", "broken") /\ RemoveEscapes
  /\ UNCHANGED <<rows, did, dsnap, dposter>>

DeletePosterRecord(d) ==
  /\ DeleteStep(d, "poster_row", "deleted")
  /\ DeleteRowSuppressed(dsnap[d].poster)
  /\ UNCHANGED <<objects, did, dsnap, dposter>>

Delete(d) ==
  \/ DeleteObject(d) \/ DeleteRendition(d) \/ DeleteRecord(d)
  \/ LoadPoster(d) \/ DeletePosterObject(d) \/ DeletePosterRecord(d)

(* A DELETE once admitted runs to its answer.                              *)
DeleteFairness == \A d \in Deleters : WF_<<storeVars, deleteVars>>(Delete(d))

(***************************************************************************)
(* What the requests have done to a row.                                   *)
(***************************************************************************)
DeleteAnswered == {"idle", "deleted", "storage_unavailable", "store_unavailable", "broken"}

DeleteRequested(id) == \E d \in Deleters : did[d] = id

(* A DELETE of the row has removed the object it found; the row follows    *)
(* unless the statement that deletes it raises, or the request breaks off. *)
Withdrawn(id) ==
  \E d \in Deleters :
    did[d] = id /\ dpc[d] \in {"renditions", "row", "store_unavailable", "broken"}

DeleteNext == \E d \in Deleters : LoadForDelete(d) \/ Delete(d)

=============================================================================
