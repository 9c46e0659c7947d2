# filemanager-fastapi in TLA+

A verification project for the file manager service: TLA+ modules translated from
`src/app`, the TLC configurations that check them on small instances, and TLAPS proofs of
what must hold for every instance. Every definition that models code is tied to its lines
by `map` in `PROJECT.json`; paths below are relative to `src/app`.

## 1. The system

An API process serves HTTP requests; worker processes take jobs from a Redis stream. Both
share two stores and nothing else: the `uploads` table in PostgreSQL and an object store
(local disk, S3, GCS or B2). There is no transaction across the two, and a handler awaits
between any two calls, so every other handler and worker may run in between. No lock is
taken anywhere. Consistency rests on the order in which each handler calls the stores, on
fresh uuid names, and on clean-up code in every error path.

| Component | State | Operations | Talks to | What makes it correct |
|---|---|---|---|---|
| Metadata store (`services/metadata`) | the `uploads` table | one statement per method, each atomic | everything | an UPDATE of a row that is gone changes nothing; reuse lookups return usable rows |
| Object store (`services/storage`) | key → object | upload, copy, delete, presign | everything | an object some row names is there; an object no row names goes away; private objects are under `private/` |
| Video upload (`routers/upload.py`) | staged raw object, `processing` row | stage, insert, enqueue, link task, roll back | stores, stream | no row without a job, no job without a row, no orphan when a step fails |
| Compression job (`tasks.py`, `broker.py`) | stream entry, worker | load, encode, store output, publish, poster, fail, announce, clean up | stores, stream | each video settles, once; a redelivered job does no damage; raw bytes are reclaimed |
| Image and file upload (`routers/upload.py`) | objects stored so far | lookup, encode, store, record, take back | stores | all objects and the row, or none |
| Deletion (`routers/management.py`) | record read first | object, renditions, row, poster | stores | what is deleted stays deleted and leaves nothing |
| Visibility change (`routers/visibility.py`) | record read first, copies | copy, re-point, remove old, poster | stores | no object is lost, no private object stays public |
| Webhooks (`services/webhooks.py`, `routers/webhooks.py`, `tasks.py`) | webhook columns, messages | announce, redeliver, post with retries, record | table, stream, receiver | receivers get terminal events; the dead letter is truthful; nothing is pending for ever |
| On-demand posters (`routers/posters.py`, `tasks.py`) | poster row and link | request, extract, link, replace | stores, stream | one poster per video, none stranded |
| Share links, access, playback (`routers/management.py`, `auth.py`, `playback.py`) | share token of a row | create, revoke, resolve | table, store | a private object is served only to its owner or a token holder; a link dies with the next one |
| Bulk upload, capped streaming, temp files (`routers/upload.py`, `utils.py`) | budget, semaphore, temp files | admit, read, abort | image upload | caps hold; temp files go away |
| Images, renditions, validation (`services/image_vips.py`, `renditions.py`, `file_validation.py`) | none | pure functions | uploads | names, sizes and decisions as documented |
| Task status, listing, batch (`routers/tasks.py`, `management.py`, `batch.py`) | result backend | poll, page, look up | table, Redis | what a client is told is true and stays true; no row is skipped |
| Application life cycle (`main.py`, `broker.py`, `services/*/__init__.py`, `health.py`) | pool, storage client, Redis client, broker | start, first use, shut down | everything | one client of each kind, closed once |
| QR codes (`routers/qr.py`, `services/qr_generator.py`) | none | pure functions | | a logo leaves the code readable |
| Configuration, schemas, middleware, migrations | none | declarations | | see `components` in `PROJECT.json` |

The hard behaviours are the ones where a handler acts on a record it read earlier (DELETE,
PATCH and the job all do), where one of several steps fails and the others must be taken
back, where a worker dies and its job is delivered again over what the first delivery left,
and where a call raises although it took effect. `hazards` in `PROJECT.json` lists them line
by line with the properties aimed at each.

## 2. Modules

| Module | Models | Extends |
|---|---|---|
| `MediaStore` | table, object store, statements, failing calls | |
| `VideoPipeline` | `POST /upload/video` and `compress_video_task` with its inline poster | `MediaStore` |
| `FileDeletion` | `DELETE /files/{id}` | `MediaStore` |
| `Visibility` | `PATCH /files/{id}` | `MediaStore` |
| `ImageUpload` | image and generic file uploads, the items of a bulk upload | `MediaStore` |
| `VideoLifecycle` | abstract specification: what the owner of a video observes | |
| `VideoSystem` | uploads + jobs + DELETE; refines `VideoLifecycle` | `VideoPipeline`, `FileDeletion` |
| `PatchedVideoSystem` | `VideoSystem` + PATCH | `VideoSystem`, `Visibility` |
| `ImageSystem` | image uploads + DELETE + PATCH | `ImageUpload`, `FileDeletion`, `Visibility` |
| `WebhookDelivery` | announcement, redelivery, delivery and dead letter | |
| `Posters` | `POST /files/{id}/poster` and `generate_poster_task` | `MediaStore` |
| `PosterSystem` | poster requests and jobs + DELETE + PATCH | `Posters`, `FileDeletion`, `Visibility` |
| `Access` | credentials, scopes, the access ladder, how bytes are handed out | |
| `ImagePipeline` | sizes, limits and renditions of an image, their names | |
| `VideoTrim` | probing, trim window, codecs and poster frame of an encode | |
| `ContentChecks` | the type a generic file is stored under, the scan of text | |
| `TaskPolling` | `GET /tasks/{id}` beside uploads, jobs, DELETE and expiring results | `VideoSystem` |
| `BulkUpload` | `POST /upload/images`: capped reads, side-by-side processing, order | |
| `CappedStream` | `_stream_capped_to_temp` and the temp file of a video or generic upload | `BulkUpload` |
| `ShareLinks` | `POST` and `DELETE /files/{id}/share` beside PATCH and DELETE; who holds a live link | |
| `Listing` | `GET /files` page by page over a changing table; `POST /files/batch` | |
| `ClientLifecycle` | the clients of an API or worker process from start to shutdown | |
| `QrCodes` | what is refused, which symbol is taken, where the logo goes | |
| `Decisions` | all that does not meet the media stores: each pure decision asked for every input, and one of the five machines (bulk upload, stream, share link, listing, clients) at a time, step by step | `Access`, `ImagePipeline`, `VideoTrim`, `ContentChecks`, `QrCodes`, `CappedStream`, `ShareLinks`, `Listing`, `ClientLifecycle` |
| `VideoProofs` | proofs about `VideoSystem`: types, keys, published objects, what becomes of rows | `VideoSystem`, `TLAPS` |
| `VideoOutcomeProofs` | proofs about `VideoSystem`: outcomes, webhooks, the refinement of `VideoLifecycle`, what is left in the store | `VideoProofs` |
| `PollProofs` | proofs about `TaskPolling` | `TaskPolling`, `VideoOutcomeProofs` |
| `PatchedProofs` | proofs about `PatchedVideoSystem` | `PatchedVideoSystem`, `VideoOutcomeProofs` |
| `ImageProofs` | proofs about `ImageSystem` | `ImageSystem`, `TLAPS` |
| `PosterProofs` | proofs about `PosterSystem` | `PosterSystem`, `TLAPS` |
| `DecisionProofs` | proofs about `Decisions` | `Decisions`, `TLAPS` |
| `WebhookProofs` | proofs about `WebhookDelivery` | `WebhookDelivery`, `TLAPS` |
| `MCImage` | the forms of an upload and the symmetry of `image_requests` | `ImageSystem` |

### How code becomes actions

- One action per external call: a statement, an object store call, an enqueue. Everything a
  handler does between two awaits that reach a store belongs to the action of the call
  before it. Early returns and `except` branches are disjuncts of that action. The program
  counter of a handler (`upc`, `wpc`, `dpc`, `vpc`, `ipc`, `mpc`, `qpc`, `tpc`, `ppc`, `lpc`, `spc`,
  `cpc`) names the next call.
- A uuid4 is fresh, so a name is identified with the step that mints it: an upload, a
  delivery of a job (`<<upload, run>>`), a PATCH. That freshness is the one assumption
  about names. An upload's row is named by the upload.
- A key is a record of directory, side of the `private/` boundary, name and part. Bytes are
  a model value; a content hash is the record of what the code hashes.
- A row is a record; status `"none"` means there is no such row. A row's `updated_at`,
  sizes and dimensions are left out; no property depends on them.
- There is one owner, except in `Access` and `Listing`. Owner-scoped statements differ from unscoped ones only for a caller
  who is not the owner, and such a caller gets 404 before anything changes.
- `FindActiveVideoByHash` and `FindReadyByHash` take the newest match by `created_at`,
  which is not ordered with the steps of overlapping handlers, so any match may be taken.

- Pure code (`Access`, `ImagePipeline`, `VideoTrim`, `ContentChecks`, `QrCodes`) is a set of operators
  named after the functions. `Decisions` has one action per decision, which puts the question
  to them and keeps the answer; its properties are stated about question and answer, from the
  documentation and not from the operators. The machines it holds share no state with each
  other; in a behaviour all but one of them stand idle.
- `DurableKeys` is `to_public` reduced to the one thing about it that can go wrong: which
  objects an answer links to by a plain or an imgproxy URL, neither of which expires or asks
  for a token. The key of a video's poster comes with the row by a JOIN, its visibility does
  not.
- `TaskPolling` adds to the worker only what the result backend sees: whether the delivery
  raised. A result is stored under the task id before the message is acknowledged, a later
  delivery replaces it, and it expires at any time after that.
- Between two awaits nothing else runs in a process, so in `ClientLifecycle` a caller that
  finds no client and a free lock is inside the lock at once, and a client built without an
  await (Redis, GCS) is there at once. That uvicorn and the taskiq receiver drain their work
  before the shutdown handlers run, and that taskiq_fastapi runs the lifespan in a worker too,
  is taken from those libraries and marked external.

### Failures

`Faults` is the set of failures that may happen in a behaviour: a SELECT raises (`lookup`),
another statement raises (`metadata`), storing or copying raises (`put`), deleting raises
(`remove`), queueing a job or a webhook raises (`enqueue`, `notify`), a call that raises took
effect nevertheless (`lost_reply`), the worker dies (`crash`), the bounded stream drops a
waiting job (`trim`), the local disk fails (`disk`). Every failing call may fail every time.

The last is of its own kind: `LocalStorage` raises `OSError`, not `StorageError` (local.py
47-95), so a handler whose clean-up is written for `StorageError` is left at once. Each action
says which of the two its code catches: `PutRefused` and `RemoveRefused` are what an
`except StorageError` sees, `PutEscapes` and `RemoveEscapes` what goes past it. A handler left
this way ends `"broken"`, and a write that broke off may leave an object under its key. The
compression job catches every exception and marks its video failed, but an `OSError` out of a
clean-up cuts that clean-up short; a poster job may end with its poster half taken back
(`"gave_up"`).

### Bounds

`Uploads`, `Deleters`, `Patchers`, `Contents`, `Renditions`, `Messages`, `ShareRequests`,
`Callers` are finite sets of model values or strings. `MaxRuns` bounds how often a message is delivered; the last delivery does not
die, since a job whose every worker dies never ends. `MaxAttempts` is
`WEBHOOK_MAX_ATTEMPTS`. Each request acts once, so the state spaces are finite without a
state constraint. `CHECK_DEADLOCK FALSE` is right in every configuration: when all requests
are answered and all jobs are acknowledged the system stops.

## 3. Runs

| Run | Instance | Shows |
|---|---|---|
| `video_races` | two uploads, one DELETE, `put` and `enqueue` | `AttachedRowKept`, `EventsMatchRecord`, `StrandedOnlyByRace`, refinement of `VideoLifecycle` with its fairness |
| `video_every_fault` | one upload, two deliveries, one DELETE, one polling client, all ten failures; 1.7 million states | `JobHasRecord`, `NoResurrection`, `PollsTellOutcome` |
| `video_crashes` | one upload, three deliveries, one DELETE, `put`, `enqueue`, `crash` | `ProcessingIsOwned`, and under fairness `ProcessingEnds`, `RawReclaimed` |
| `video_patched` | one upload, one PATCH, one DELETE, `put`, both visibilities | what a PATCH in any phase may and may not do to row, key, prefix and poster |
| `image_requests` | two uploads of any form, two PATCH, one DELETE, one rendition, `lookup`, `metadata`, `put`, `disk`; 2.9 million states | `RowHasObjects`, `KeysUnshared`, `StrandedOnlyByOverlap`, `PrivateBehindPrefix`, `AnsweredAsAsked` |
| `posters` | one ready video, two poster requests, one DELETE, one PATCH, `lookup`, `metadata`, `put`, `disk`, `enqueue`; 4.2 million states | `LinkedPosterHasObject`, `LivePosterKept`, `KeptPosterIsLinked`, `StrandedOnlyByCopy`, `PosterSharesPrivacy` |
| `decisions` | two tenants, two records, all scopes; sizes around every threshold; times around the limit; files over three chunks; batches of three; three share requests of any kind; four rows with two timestamps and two owners; three callers; all 40 QR versions; 2.9 million states | `AccessLadder`, `RenditionsFit`, `RecordDescribesEncode`, `StoredTypeFits`, `BulkInOrder`, `UploadsWithinCaps`, `LogoLeavesCodeReadable`, `LinksFollowOwner`, `PagesCoverListing`, `NoClientLeaks` |
| `webhooks` | two messages, two attempts, two deliveries each, `lookup`, `metadata`, `notify`, `crash` | `ReceivedIsTerminal`, `DeliveredWasAccepted`, `DeadLetterIsExhausted`, `PendingEnds` |

Why the bounds are enough. Two uploads of one content are the smallest instance in which a
duplicate attaches to a row somebody else may roll back; a third changes nothing, as each
handler meets the others only through the row it attached to. A DELETE or PATCH acts on one
row, and one such request per row meets every step of the row's other handlers; two PATCH
requests are there because their overlap is a case of its own. Three deliveries let a worker
die twice, the second time over what the first left. Two attempts have a first and a last.
Two poster requests have a winner and a loser. A worker that dies during a poster job is left
out: its next delivery mints fresh names and is indistinguishable from another request. The
sizes and times of `decisions` lie on, below and above each constant the code compares with;
a batch of three has a refused file before, between and after the others, and two permits for
three items make one wait. Chunk, overlap and header are scaled down from 64 kB, 256 and 8192
bytes with their order kept, and patterns are no longer than the overlap, as in the code.
One rendition distinguishes the main object from the others; the handlers treat renditions
alike and one by one. Three share requests are a link, what supersedes it, and one that
overlaps both. Four rows over two timestamps make pages of one and two end inside a group of
equal timestamps, with a row added and one removed between pages. Three callers put one inside
a lock and two at its door.

The type invariants of the systems are proved; they are not among the properties of the runs,
which are about behaviour. The inductive invariants of `ImageProofs`, `PosterProofs`, `PollProofs`
and `PatchedProofs` were checked by TLC before they were proved: on instances of the size of the
runs, and those of `PosterProofs` and `PatchedProofs`, in part, on larger ones with two PATCHes,
two deliveries and more kinds of failure.

Four runs exhibit a disagreement between the code and what the repository says of it; each
checks one property and finds it violated.

| Run | Disagreement |
|---|---|
| `delete_orphans_output` | a DELETE that read the video before `mark_ready` strands the compressed output, against the docstring of `delete_upload` |
| `lookup_failure_strands` | `get_by_id` outside the `try` of `compress_video_task`: one failing SELECT leaves the row `processing` with no job |
| `redelivery_flips_ready` | a job redelivered after `mark_ready` marks the ready video failed |
| `patch_during_job` | a video turned private while it is compressed is published under the public prefix |

The properties named `...Only...` and their exceptions describe further races: each says the
good thing and names the one way it fails, so that the check fails if a second way appears.

- `AttachedRowKept`: a duplicate is answered with a processing row that its creator then
  rolls back because its enqueue failed (upload.py 740-758, 811-819).
- `RawReadyOnlyByPatch`: a PATCH that read a processing video re-points the row, ready by
  then, at a copy of the raw upload (visibility.py 212-215).
- `ExposedOnlyByPatch`: a PATCH to private between the worker's reading of the visibility and
  `mark_ready` (tasks.py 474, 507) leaves the output under the public prefix, and so do two that
  overlap, when the one that turns the column private found nothing to rotate.
- `PosterFollowsVideo`: the poster of a video turned private stays public if the PATCH read the
  video before the poster was linked, was broken off by an `OSError`, or could not copy the
  poster or put the copy in its row, or if a PATCH published the poster itself (`PosterLags`).
- `StrandedOnlyByOverlap`: two PATCH requests, or a PATCH and a DELETE, on one row leave a
  copy nobody names.
- `PrivateBehindPrefix`: a PATCH to private that found the row private already, overlapping
  one to public, leaves a private row on a public key. One that read a row without renditions
  leaves those that another PATCH has published meanwhile (section 4).
- `AnsweredAsAsked`: the signature in `content_hash` outlives a PATCH, so a later upload
  may be answered with a record of another visibility.

- `LinkedPosterHasObject`: a poster link that took effect but could not be read back is taken
  down object first; if the deletion of the row then raises, a video stays linked to a poster
  row without an object (tasks.py 382-388). A DELETE of the video is no exception: it removes
  the row before it touches the poster.
- `StrandedOnlyByCopy`: a job that takes its poster back does not know of the copy a PATCH has
  made of it meanwhile, nor does a DELETE that read the key before (`CopyMissed`). A DELETE that
  read the key of the copy is no excuse (`RemovedKnowing`).
- Both `Stranded...` properties except what a handler worked on when the disk failed under it
  (`BrokenOff`), and nothing else: no other request's objects are lost or left by it.
- `PosterSharesPrivacy`: a video turned private while its poster is made is linked to a public
  poster. A PATCH of the poster alone to private leaves the answer about its public video with a
  durable URL of the private object, against "Private objects do not get a durable imgproxy URL
  at all" (imgproxy.py 71-73). The losing poster of two requests, "a harmless standalone image
  row" (posters.py 37-38), keeps its visibility whatever becomes of the video. And two
  overlapping PATCHes of one row can leave it `public` on a private key (`WrotePublicOnly`,
  section 4).
- `RenditionsFit`: renditions are made by the width of the source and listed by the width of
  the output, so with `optimization=size` the `w1600` of a 2000 pixel image is stored and can
  be downloaded but is not in the answer, against readme.md 435 ("Only widths <= the source
  image's width are encoded and returned").
- `StoredTypeFits`: AAC frames pass `_is_mp3`, which is tried first, so AAC is stored as
  `audio/mpeg` unless declared, and the AAC branch of `_sniff_audio` is unreachable; an M4A may
  be declared `video/mp4` although the docstring of `_is_mp4` speaks of brands not "claimed by
  a more specific type above" (file_validation.py 160-161).
- `UploadsWithinCaps`: the aggregate budget of a bulk upload is exceeded by up to one file,
  since it is looked at before a file is read. A streamed upload never puts more than its cap
  on the disk.
- `PollsTellOutcome`: a job that could not mark its row (its first SELECT raised, or
  `mark_failed` did) is told `failed` while its result lasts and `pending` for ever after,
  since the row says `processing` and nobody remembers. `completed` may also be told of a job
  whose video was deleted under it.
- `LinksFollowOwner`: a POST answered 502 may have rotated the token (the commit landed, the
  reply did not), so a link may die with a request that failed. Nothing else than a request of
  the owner ends it; a PATCH to private does not.
- `PagesCoverListing`: paging by offset is exact only while the caller's own rows stay: a row
  added makes another come twice, a row removed makes another be missed.
- `AccessLadder`: a download judges the name of a rendition before the caller, so an unknown
  name is answered 400 for any record that exists.

Two documents also disagree with each other: `readme.md` 585-586 says turning a record public
does not rotate its keys, `docs/PRODUCTION.md` 110 says it does. The code rotates
(visibility.py 109), and so does the model. And `stream_video` says that a public file on
local storage always takes the X-Accel path (playback.py 94-96, 119-122); with
`LOCAL_PUBLIC_BASE_URL` set, `has_public_base_url` is true and the client is redirected, as
its own docstring says (storage/__init__.py 109). `StreamVideo` follows the code. A comment
in `upload_video` (upload.py 825-828) says a failed `set_task_id` leaves polling at 404 "until
a retry sets it"; no code retries it, and in `TaskPolling` such a task stays `unknown`.

### Fairness

`FairSpec` assumes weak fairness of each admitted upload request, each worker and each
DELETE, and `WebhookDelivery!Spec` of each message. The code justifies it: an asyncio handler
that has started runs to its answer, every store and HTTP call ends in a result or an
exception (`command_timeout`, `WEBHOOK_TIMEOUT_SECONDS`), ffmpeg is limited in time, and
workers keep reading the stream and claim what a dead worker left. Nothing is assumed of
clients, who need not send a request, and no failure is obliged to happen or to cease, except
that the last delivery of a message within the bound does not die. `ProcessingEnds` is
checked without `lookup`, `metadata` and `trim`: with them it is false, as
`lookup_failure_strands` shows for the first, because nothing but the job settles a row.

## 4. Proofs

The theorems hold for every number of requests, deliveries, contents, renditions, callers,
records and sizes, and for every set of failures except where an assumption on `Faults` is
named. Each such assumption is there because the property is false in the code without it,
or because the run it belongs to makes it as well.

| Module | Theorem | Property | `Faults` |
|---|---|---|---|
| `VideoProofs` | `TypeCorrect` | `TypeOK` | any |
| | `PublishedObjectsStay` | `ReadyHasObject` | no `lost_reply` |
| | `JobsFollowRecords` | `JobHasRecord` | any |
| | `DuplicatesKeepTheirRow` | `AttachedRowKept` | any |
| | `DeletedStaysDeleted` | `NoResurrection` | any |
| `VideoOutcomeProofs` | `WebhooksTellTheRecord` | `EventsMatchRecord` | no `crash` |
| | `SettledForGood` | `SettledIsFinal` | no `crash`, `lost_reply` |
| | `ProcessingHasOwner` | `ProcessingIsOwned` | no `metadata`, `lookup`, `trim` |
| | `VideosFollowLifecycle` | safety of `VideoLifecycle` | no `crash`, `lost_reply` |
| | `OnlyTheRaceStrands` | `StrandedOnlyByRace` | no `remove`, `notify`, `disk`, `lost_reply`, `crash` |
| `PollProofs` | `PollingOnlyObserves` | `TaskPolling` implements `VideoSystem` | any |
| | `PolledJobsFollowRecords`, `PolledDeletedStaysDeleted` | `JobHasRecord`, `NoResurrection` | any |
| | `PollTypeCorrect`, `PollsAreTruthful` | `PollTypeOK`, `PollsTellOutcome` | any |
| `PatchedProofs` | `PatchedTypeCorrect` | `PatchedTypeOK` | any |
| | `PatchedRowsFollowRecords` | `JobHasRecord`, `AttachedRowKept` | any |
| | `PatchedDeletedStaysDeleted` | `NoResurrection` | any |
| | `ReadyNamesOutput` | `RawReadyOnlyByPatch` | any |
| | `PatchedWebhooksTellTheRecord` | `EventsMatchRecord` | no `crash` |
| | `ExposureExplained` | `ExposedOnlyByPatch` | no `crash` |
| | `PatchedSettledForGood` | `SettledIsFinal` | no `crash`, `lost_reply` |
| | `PatchedProcessingHasOwner` | `ProcessingIsOwned` | no `metadata`, `lookup`, `trim` |
| | `PatchedObjectsStay` | `ReadyHasObject` | no `lost_reply` |
| | `PostersFollowVideos` | `PosterFollowsVideo` | no `crash`, `lookup`, `lost_reply` |
| `ImageProofs` | `ImagesWellTyped` | `TypeOK` | any |
| | `RowsShareNothing` | `KeysUnshared` | any |
| | `ObjectsOfRowsStay` | `RowHasObjects` | no `lost_reply` |
| | `PrivateUnderPrefix` | `PrivateBehindPrefix` | any |
| | `AnswersAsAsked` | `AnsweredAsAsked` | any |
| | `OnlyOverlapsStrand` | `StrandedOnlyByOverlap` | no `remove`, `lost_reply` |
| `PosterProofs` | `PostersWellTyped` | `TypeOK` | any |
| | `LivePostersAreKept` | `LivePosterKept` | any |
| | `KeptPostersAreLinked` | `KeptPosterIsLinked` | no `lost_reply` |
| | `LinkedPostersHaveObjects` | `LinkedPosterHasObject` | no `lost_reply` |
| | `PostersSharePrivacy` | `PosterSharesPrivacy` | any |
| | `OnlyCopiesAreStranded` | `StrandedOnlyByCopy` | no `remove`, `lost_reply` |
| `WebhookProofs` | `HookTypeCorrect`, `ReceiversGetTerminalEvents`, `DeliveredIsTrue`, `DeadLettersAreExhausted` | `TypeOK`, `ReceivedIsTerminal`, `DeliveredWasAccepted`, `DeadLetterIsExhausted` | any |
| `DecisionProofs` | `LinksObeyTheOwner`, `ClientsDoNotLeak` | `LinksFollowOwner`, `NoClientLeaks` | |
| | `LadderHolds`, `LogoKeepsItsPlace`, `RecordsDescribeTheEncode`, `StoredTypesFit`, `RenditionsFitTheImage` | `AccessLadder`, `LogoLeavesCodeReadable`, `RecordDescribesEncode`, `StoredTypeFits`, `RenditionsFit` | |
| | `TempFilesKeepTheCap` | `TempWithinCap`, a part of `UploadsWithinCaps` | |

**Videos.** `TypeOK` is not inductive: that the key a worker writes is a key rests on its job
having been delivered, and that a cascade reads a row on the DELETE having named one. `TypeInv`
adds both. `ReadyHasObject` is false with lost replies: `mark_ready` may commit and raise, and
the clean-up then removes an object a ready row names until `mark_failed` lands. `KeyInv` says
which keys each actor may name: a row's key is the raw key of its upload or an output of a
delivery that has been made (`RowKeys`), what a DELETE read is such a key (`DeleteKeys`), and a
worker about to publish has its output in the store (`OutputStored`). The argument has three
parts: outputs of different deliveries and uploads are different (`VideoKeyUnique`), so whoever
removes an object removes one of its own or one a DELETE read (`Takings`, `Removals`); a row changes only
in a few ways (`RowSteps`); and a DELETE that has removed the object it read remains the
explanation until the row goes (`WithdrawnStable`).

Its last part is about what happened to a row. `RecordInv` ties each place an upload or
a job can be to the row being there, or to the DELETE or the roll-back that took it;
`JobHasRecord` and `AttachedRowKept` are read off it. `HistoryInv` adds that a row and what a
DELETE read name only objects that can have been stored by then, that a DELETE past its first
step has that object gone, and that one past its row has the row gone; with the steps of upload
and job sorted by what they do to a row (`RowMove`), nothing inserts it or stores it again.

`VideoOutcomeProofs` is about what is told. `OutcomeInv` relates the end a job came to, the
events queued and the status of the row; `SettledInv` says that a settled row belongs to a job
that has settled it, so that nobody settles it a second time (with a dying worker a second
delivery would: `redelivery_flips_ready`). `OwnedInv` is the contraposition that is inductive: a
request rolled back, a job acknowledged or a worker past its verdict has no `processing` row.
`VideosFollowLifecycle` is the refinement: under `ViewInv`, the conjunction of the above, each
step changes what the owner observes by one action of `VideoLifecycle` or not at all. It shows
the safety part, `Lifecycle!Spec`; the fairness part is the run's.

Its last part accounts for every object: `StorageInv` names for each object in the store
the row or the handler that has it and will remove it, for raw uploads, outputs and posters, and
the one race (`published between the SELECT and the DELETE`) after which nobody does.

**Polling.** `PollSpec` implements `Spec` of `VideoSystem`, so what is proved of the one holds
beside any number of polls. For `PollsTellOutcome`, `PollInv` relates what the result backend and
the client know to the row: a worker that comes to its end without having raised leaves a settled
row or none, a stored result belongs to an acknowledged message, and a `failed` that is told of a
row nobody settled was read from the result of a job that raised.

**Patched videos.** A PATCH is a second actor that writes keys. Its steps are sorted once by what
they do to rows, objects and its own variables (`VisEffect`, `VisRows`), those of `VideoSystem` by
what they do to a row (`RowMoves`, `FieldMoves`); every proof below has one lemma per part of its
invariant for each of the two. `BaseInv` holds whatever fails: types and records, rows that have a
key and no renditions, posters that have no poster, and PATCHes that have read such rows. As a
PATCH writes no status and no program counter, `JobHasRecord`, `EventsMatchRecord`,
`ProcessingIsOwned` and `SettledIsFinal` keep the invariants they have without it.

- `RawReadyOnlyByPatch` (`RawInv`): a row off its output is not ready and has no poster, unless a
  PATCH is there that read it when that was so (`Explained`); such a PATCH stays with the row.
- `ExposedOnlyByPatch` (`ExposeInv`): until the job is past `mark_ready` (`JobPast`) nobody but
  an explaining PATCH has worked on the video, so the output lies where the column said. Then the
  row names that output (`OutputRow`), or the copy of a PATCH that wrote the visibility the copy
  has (`CopyRow`); if the column says otherwise, a PATCH wrote it that made no copy (`Blind`). A
  second delivery after a crash mints a second output and breaks this: TLC finds the property
  violated with `crash` and two deliveries.
- `PosterFollowsVideo` (`FollowInv`): while a private video has a public poster, a PATCH will come
  to it or is the reason why not (`Follows`). Before the poster is linked (`Unlinked`) nobody can
  have read the link, and what the worker knows of the visibility is right unless a PATCH has
  changed it since (`LinkFacts`). Each assumption is needed: TLC finds the property violated with
  `crash` and two deliveries, with `lookup`, and with `lost_reply` beside `metadata`.
- `ReadyHasObject` (`KeepInv`): a row, a DELETE and a PATCH name for a video only its raw object,
  outputs of its deliveries and copies of PATCHes past their statement (`RowName`, `Passed`), so
  nothing is removed for one video that another one's row names. For the same video a PATCH
  removes what it read only once the row has moved on, or a copy the row never got
  (`CopyKeeps`, `PatchKeeps`), and a DELETE that removed it has the row in hand (`Withdrawn`). A
  lost reply breaks it as it does without PATCHes.
- `NoResurrection` (`UsedInv`): `HistoryInv` with the copies of PATCHes among the names that are
  used up (`CopyName`). A PATCH mints one name; the copies it makes of a video and of its poster
  lie in different directories, and it is past the copying of a row when anything names its copy,
  so nobody stores an object again that a DELETE has removed (`UsedNotStored`).

The refinement of `VideoLifecycle` does not carry over. A PATCH that made its copy before a DELETE
removed the object it read re-points the row at that copy, and a video that could not be played
any more can be until the row goes. Nor does `StrandedOnlyByRace`, even once all PATCHes are
answered: one that read a processing video re-points the ready row at its copy of the raw upload
and removes the raw object it read (visibility.py 212-232), so nobody names the output any more.

**Images.** The store is shared by uploads, PATCHes and DELETEs that act on what they read
earlier, so the proofs rest on who owns a name. `OwnInv` says: a key bears the name of the
upload or PATCH that minted it; an upload's name is the row's once the row may have been
inserted (`Made`), and a PATCH's once the statement that re-points the row may have landed
(`Out`; with lost replies that includes its clean-up); every key a row, a DELETE or a PATCH
holds of row `i` is owned by `i` (`Owns`); what an upload or a PATCH has stored and not yet
given away is in the store. A key has one owner, so `KeysUnshared` follows, and an actor that
removes what it stored, or what it read of its row, takes nothing from another
(`OwnedKeys`). `RowHasObjects` then needs one more thing, that what a PATCH removes after it
has written is not what it wrote (`CopiesAreNew`). `PrivateInv` strengthens
`PrivateBehindPrefix` from the objects in the store to all keys of the row; `HashInv` says that
a row shows its signature's visibility until a PATCH has named it. For `StrandedOnlyByOverlap`,
`Account` names who holds each object, `Seen` says that a row never holds a key of its own
upload that a DELETE or PATCH under way has not read (PATCHes only replace such keys), and
`Fresh` that a PATCH that has not begun has stored nothing.

**Posters.** Three machines share the store here, so each proof starts from what a step of one of
them does to rows and objects, and what it leaves of the others. `LinkInv` says which rows there
are and what they link to: a poster row exists only past the insert of its job (`Made`), a video
links only to posters whose job has come to link (`Linked`), a request past its check has found
the poster it saw gone (`SeenFacts`), and a job that has linked finds its video linked to its
own poster or to a later one (`LinkFacts`); `LivePosterKept` and `KeptPosterIsLinked` are read off
it. `KeyInv` gives every key an owner as `OwnInv` does for images, with one difference: a PATCH
of a video goes on to its poster, so a copy may belong to either row (`WorkedOn`). A copy is in
the store until the row points at it, and a poster has its object while nobody takes it back
(`PosterHeld`). `PrivacyInv` strengthens `PosterSharesPrivacy` with what a job inherited from the
video it read. `StrandInv` accounts for every object (`Accounted`), and adds that a row that still
bears its own key bears the one that every DELETE and PATCH of it has read (`KeySeen`) and that
what was removed does not come back (`StaysRemoved`, `StaysDropped`).

Three things changed because a proof of these two systems failed. `PrivateBehindPrefix` was false with four
overlapping PATCHes, which the run's two do not reach: a PATCH that read a row whose renditions
an earlier rotation had found gone writes `private` and a NULL for the renditions, COALESCE
keeps the column, and meanwhile another PATCH had put public renditions there (visibility.py
212-215, postgres.py 457-460). TLC finds the trace with four PATCH requests; the property now
names the exception (`KeptRenditions`). `PosterSharesPrivacy` was false with two overlapping
PATCHes of one row, of which the run has one: a PATCH to `public` that read the row when it was
public already has no object to rotate and writes the word alone, after another has moved the
object behind the prefix; the row then says `public` and its durable URL names a private key
(visibility.py 109, 212-215, imgproxy.py 71-73). The property now names it (`WrotePublicOnly`).
In exchange `PosterSharesPrivacy`, which was claimed only once all is quiet, is claimed and
proved of every state, and `LinkedPosterHasObject` and `StrandedOnlyByCopy` lost exceptions that
the proofs showed to be unnecessary. And several assumptions on the constants were missing:
`StoreAssumption` now says that row names and PATCH names differ and that no rendition is called
`main`, and `QrAssumption`, `TrimAssumption`, `ImageAssumption` and `ScanAssumption` say which
constants are naturals.

**Webhooks.** None of the three properties is inductive alone: that a dead letter was tried as
often as configured rests on what the delivery that writes it has counted, and that an event is
terminal on when its message was queued. `HookInv` adds that the attempts a delivery has counted
go with where it is (`Counted`), that nothing is queued before the video has settled
(`SettledFirst`), that a queued event is about the row as it is unless the video settled again
(`AboutTheRow`), and that a payload was read from a settled video (`PayloadSettled`).

**Decisions.** `ShareInv`: no request that replaces links, began after the token in the row was
told and has been answered left it there (`TokenCurrent`); a link that was told is in the row or
was replaced by a request it did not come after (`LinkKept`); a request answered before another
began stays so (`BeforeAnswered`). `ClientInv`: at most one caller of each kind is opening
(`OneOpens`), every open client is the one in the module variable, and a client is still open at
the end only if it was not yet its turn to be closed or its `aclose` raised.
`AnswerInv` says that an answer is the operator's value at the question, so that the properties
of the pure decisions become facts about the operators, for all sizes: `WindowsCover`, for one,
shows that windows that overlap by as much as a pattern is long miss no tag, wherever chunks
meet. `StreamInv` adds to `TempWithinCap` that the temp file holds exactly the chunks read so far.

Assumptions: only those in the modules (`...Assumption`), which say that the constants have
their kinds and that names of different sorts are distinct. TLC evaluates them in every run.

Model-checked only:

- everything under fairness (`ProcessingEnds`, `RawReclaimed`, `PendingEnds`, the liveness of
  `VideoLifecycle`): out of the prover's reach;
- `BulkInOrder` and the budget in `UploadsWithinCaps` (a sum over a set and a sort) and
  `PagesCoverListing` (a sort and its pages): they need induction over data.

## 5. Not modelled

- What ffmpeg, libvips and segno do with the bytes, HTTP parsing, response bodies, logging,
  metrics. The temp files of a compression job, which live and die inside one delivery.
- `validate_callback_url`, webhook signatures, the signing of imgproxy URLs, response headers,
  the probes: stateless and without a decision about records.
- `config.py`, `schemas.py`, `urls.py`: declarations. Where a setting decides something it is
  a constant of the module that uses it.
- The migrations: read for the columns, for NOT NULL and for the absence of foreign keys.
- `PROJECT.json` gives the status of every component and the reason.

## 6. State of the project

Done: the stores with ten kinds of failure, video upload and job, DELETE, PATCH, image upload,
posters, webhooks, polling, the life cycle they refine; share links, listing, capped streams,
bulk uploads, client life cycle; the decisions that need no store; the proofs of section 4, which
leave no safety property of a run unproved but the three that need induction over data.

What could follow: an abstract specification of a video's storage under PATCHes and DELETEs that
allows the exceptions named above, as `VideoLifecycle` does for the system without PATCHes.
