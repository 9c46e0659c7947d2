----------------------------- MODULE MediaStore -----------------------------
(***************************************************************************)
(* The two stores every handler of the service works on: the `uploads`     *)
(* table of PostgreSQL (app/services/metadata) and the object store        *)
(* (app/services/storage).  The module declares their state, the           *)
(* statements handlers issue against the table, and the ways a call to     *)
(* either store can fail.  It has no next-state relation of its own: the   *)
(* handlers that share the stores are modelled in the modules that extend  *)
(* this one, one action per external call, since other handlers run        *)
(* between any two awaits.                                                 *)
(***************************************************************************)
EXTENDS Naturals, FiniteSets

CONSTANTS
  Uploads,      (* upload requests; each creates at most one row, and      *)
                (* names the row it creates                                *)
  MaxRuns,      (* bound: deliveries of one queue message to a worker      *)
  Patchers,     (* visibility (PATCH) requests                             *)
  Contents,     (* the bytes of an upload                                  *)
  Renditions,   (* names of the materialized image renditions              *)
  Faults,       (* the failures that may happen in a behaviour             *)
  None          (* no key, no hash, no linked row                          *)

FaultKinds == {"lookup",     \* a SELECT raises MetadataError
               "metadata",   \* an INSERT, UPDATE or DELETE raises MetadataError
               "put",        \* storing or copying an object raises
               "remove",     \* deleting an object raises StorageError
               "enqueue",    \* queueing a compression job raises
               "notify",     \* queueing a webhook delivery raises
               "disk",       \* the local backend raises OSError
               "lost_reply", \* a write or enqueue that raises took effect
               "crash",      \* the worker process dies during a job
               "trim"}       \* the bounded stream drops a waiting message

Runs == 1..MaxRuns

(***************************************************************************)
(* uuid4 names are fresh, so a name is identified with the step that mints *)
(* it: an upload request, a delivery of a job, or a PATCH request.  A      *)
(* delivery of a video's job also names the poster row it creates.         *)
(***************************************************************************)
Jobs == Uploads \X Runs
Ids  == Uploads \cup Jobs
Tags == Ids \cup Patchers

Visibilities == {"public", "private"}
Statuses     == {"none", "processing", "ready", "failed"}
Kinds        == {"image", "video", "file"}
Dirs         == {"raw/videos", "videos", "posters", "images", "files"}

Keys == [dir: Dirs, vis: Visibilities, tag: Tags, part: Renditions \cup {"main"}]

(* An image or a file is hashed by its bytes and the options of the        *)
(* request; a video by its bytes and the options of its transcoding, of    *)
(* which the poster matters here, but not by its visibility.               *)
Signatures ==
  [bytes: Contents, kind: {"image", "file"}, vis: Visibilities, thumbnail: BOOLEAN]

VideoSignatures == [bytes: Contents, poster: BOOLEAN]

Hashes == Signatures \cup VideoSignatures

Rows == [status: Statuses, kind: Kinds, key: Keys \cup {None}, rends: SUBSET Keys,
         vis: Visibilities, hash: Hashes \cup {None}, poster: Jobs \cup {None},
         task: BOOLEAN]

ASSUME StoreAssumption ==
  /\ MaxRuns \in Nat
  /\ Faults \subseteq FaultKinds
  /\ Uploads \cap Jobs = {} /\ Ids \cap Patchers = {}
  /\ "main" \notin Renditions
  /\ None \notin Keys \cup Hashes \cup Ids

VARIABLES
  rows,         (* the uploads table; status "none" is: no such row        *)
  objects       (* the keys that hold an object                            *)

storeVars == <<rows, objects>>

NoRow == [status |-> "none", kind |-> "file", key |-> None, rends |-> {},
          vis |-> "public", hash |-> None, poster |-> None, task |-> FALSE]

StoreTypeOK ==
  /\ rows \in [Ids -> Rows]
  /\ objects \subseteq Keys

StoreInit ==
  /\ rows = [i \in Ids |-> NoRow]
  /\ objects = {}

(***************************************************************************)
(* Object keys.  `storage_prefix` puts the objects of private records      *)
(* under private/, which is the `vis` of a key.                            *)
(***************************************************************************)
Key(dir, vis, tag) == [dir |-> dir, vis |-> vis, tag |-> tag, part |-> "main"]

RenditionKey(key, name) == [key EXCEPT !.part = name]

(* What a row points at.                                                   *)
Held(row) == {row.key} \cup row.rends

Referenced(k) == \E i \in Ids : rows[i].status # "none" /\ k \in Held(rows[i])

Exists(id) == rows[id].status # "none"

(* to_public: the objects whose plain or imgproxy URL an answer about a    *)
(* row holds.  Neither kind of URL expires or asks for a token.  The key   *)
(* of the poster comes with the video by a JOIN, its visibility does not.  *)
DurableKeys(id) ==
  IF rows[id].status = "ready" /\ rows[id].vis = "public"
    THEN Held(rows[id]) \cup {rows[i].key : i \in {j \in Ids : j = rows[id].poster /\ Exists(j)}}
    ELSE {}

(* storage_key is NOT NULL.                                                *)
KeysNotNull == \A i \in Ids : Exists(i) => rows[i].key # None

(***************************************************************************)
(* Statements of PostgresMetadataStore: the table each leaves behind.  An  *)
(* UPDATE or DELETE that matches no row leaves the table as it is.         *)
(***************************************************************************)
Insert(id, row) == [rows EXCEPT ![id] = row]

Update(id, row) == IF Exists(id) THEN [rows EXCEPT ![id] = row] ELSE rows

DeleteRow(id) == [rows EXCEPT ![id] = NoRow]

(* Mutant: mark_ready keeps the raw key.                                   *)
MarkReadyKeepsKey(id, key) == Update(id, [rows[id] EXCEPT !.status = "ready"])

MarkReady(id, key) == Update(id, [rows[id] EXCEPT !.status = "ready", !.key = key])

MarkFailed(id) == Update(id, [rows[id] EXCEPT !.status = "failed"])

SetTaskId(id) == Update(id, [rows[id] EXCEPT !.task = TRUE])

SetPoster(id, poster) == Update(id, [rows[id] EXCEPT !.poster = poster])

(* A NULL for the renditions, which is no set of keys.                     *)
NullRends == {None}

(* COALESCE: a NULL storage_key or renditions keeps the column.            *)
SetVisibility(id, vis, key, rends) ==
  Update(id, [rows[id] EXCEPT !.vis = vis,
                              !.key = IF key = None THEN @ ELSE key,
                              !.rends = IF rends = NullRends THEN @ ELSE rends])

(* Mutant: the visibility is not part of the signature.                    *)
FindReadyAnyVisibility(hash) ==
  {i \in Ids : /\ rows[i].status = "ready" /\ rows[i].kind # "video"
               /\ [rows[i].hash EXCEPT !.vis = "public"] = [hash EXCEPT !.vis = "public"]}

(* The lookups of idempotent uploads return the newest match.  created_at  *)
(* of overlapping uploads is not ordered with the handlers' steps, so any  *)
(* match may be the newest.                                                *)
FindReadyByHash(hash) ==
  {i \in Ids : rows[i].status = "ready" /\ rows[i].hash = hash}

FindActiveVideoByHash(hash) ==
  {i \in Ids : /\ rows[i].kind = "video"
               /\ rows[i].status \in {"ready", "processing"}
               /\ rows[i].hash = hash}

(***************************************************************************)
(* Failing calls.  A statement that raises left the table alone, or its    *)
(* commit landed and only the reply was lost (connection drop, or          *)
(* command_timeout); the same holds for an upload.                         *)
(***************************************************************************)
LookupRaises == "lookup" \in Faults

StatementRaises(committed) ==
  /\ "metadata" \in Faults
  /\ \/ rows' = rows
     \/ "lost_reply" \in Faults /\ rows' = committed

Put(key) == objects' = objects \cup {key}

PutRefused(key) ==
  /\ "put" \in Faults
  /\ \/ objects' = objects
     \/ "lost_reply" \in Faults /\ Put(key)

(* The local backend lets an OSError through (a full or failing disk),     *)
(* which no `except StorageError` catches.  It opens the file before it    *)
(* writes, so what was written so far may stay under the key.              *)
PutEscapes(key) == "disk" \in Faults /\ (objects' = objects \/ Put(key))

PutRaises(key) == PutRefused(key) \/ PutEscapes(key)

Remove(key) == objects' = objects \ {key}

RemoveRefused == "remove" \in Faults /\ objects' = objects

RemoveEscapes == "disk" \in Faults /\ objects' = objects

RemoveRaises == RemoveRefused \/ RemoveEscapes

(* `with contextlib.suppress(StorageError): await delete_file(key)`; an    *)
(* OSError goes on to whoever catches it.                                  *)
RemoveSuppressed(key) == Remove(key) \/ RemoveRefused

(* The same where nothing is left to do, so that it makes no difference.   *)
RemoveLast(key) == Remove(key) \/ RemoveRaises

(* `with contextlib.suppress(MetadataError): await store.delete(id)`       *)
DeleteRowSuppressed(id) == rows' = DeleteRow(id) \/ StatementRaises(DeleteRow(id))

=============================================================================
