------------------------------ MODULE Decisions ------------------------------
(***************************************************************************)
(* The parts of the service that stand alone: who is admitted, what an     *)
(* image becomes, what a trim keeps, what type a file is given, where a QR *)
(* code's logo goes, each asked once for every input; and step by step a   *)
(* bulk upload, a streamed body, the requests for a share link, a walk     *)
(* through the listing and the life of a process' clients.  A behaviour is *)
(* about one of them.                                                      *)
(***************************************************************************)
EXTENDS Access, ImagePipeline, VideoTrim, ContentChecks, QrCodes,
        CappedStream, ShareLinks, Listing, ClientLifecycle

VARIABLES
  question,    (* the topic and what is asked                              *)
  answer       (* what the code decides, nothing before it has             *)

machineVars == <<bulkVars, streamVars, shareVars, listVars, clientVars>>

vars == <<question, answer, machineVars>>

Ask(topic, asked) == [topic |-> topic, asked |-> asked]

(* A token by header or by query; when both are there, one is the          *)
(* backend's.                                                              *)
Credentials ==
  {c \in [header : Tokens, query : Tokens] :
     c.header \in {NoToken} \cup {Static(o) : o \in Owners}
     \/ c.query \in {NoToken} \cup {Static(o) : o \in Owners}}

NotBinary(type) == type.plain /\ type.base \notin MagicTypes \cup DOMAIN MimeAliases

Questions ==
  \/ \E c \in Credentials, s \in Sites : question = Ask("access", [site |-> s, by |-> c])
  \/ \E img \in Images : question = Ask("image", img)
  \/ \E job \in Encodings : question = Ask("video", job)
  \/ \E h \in BinaryFiles, declared, guess \in MediaTypes :
       /\ guess.plain
       /\ question = Ask("type", [file |-> h, declared |-> declared, guess |-> guess])
  \/ \E h \in TextFiles, declared, guess \in {t \in MediaTypes : NotBinary(t)} :
       question = Ask("type", [file |-> h, declared |-> declared, guess |-> guess])
  \/ \E req \in QrRequests : question = Ask("qr", req)

Machines == {"bulk", "stream", "share", "list", "clients"}

Init ==
  /\ answer = <<>>
  /\ Questions \/ \E m \in Machines : question = Ask(m, <<>>)
  /\ IF question.topic = "bulk" THEN BulkInit ELSE BulkIdle
  /\ IF question.topic = "stream" THEN StreamInit ELSE StreamIdle
  /\ IF question.topic = "share" THEN ShareInit ELSE ShareIdle
  /\ IF question.topic = "list" THEN ListInit ELSE ListIdle
  /\ IF question.topic = "clients" THEN ClientInit ELSE ClientIdle

Decide(topic, decided) ==
  /\ question.topic = topic /\ answer = <<>>
  /\ answer' = <<decided>>
  /\ UNCHANGED <<question, machineVars>>

DecideAccess ==
  LET site       == question.asked.site
      by         == question.asked.by
      principals == ResolvePrincipalOptional(site, by.header, by.query) IN
  Decide("access",
    [principals |-> principals,
     manage  |-> VerifyToken(principals),
     upload  |-> [scope \in UploadScopes |-> RequireScopes(principals, scope)],
     presign |-> CreatePresignedUpload(site, by.header),
     stream  |-> [r \in Records |-> [asked \in Asked |-> StreamVideo(site, principals, r, asked)]],
     share   |-> [asked \in Asked |-> PlaySharedVideo(site, asked)]])

DecideImage == Decide("image", ValidateAndStripImage(question.asked))

DecideVideo ==
  LET job == question.asked IN
  Decide("video", [truncated |-> Truncated(job), container |-> Container(job),
                   args |-> BuildFfmpegArgs(job), seek |-> PosterSeekSeconds(job)])

DecideType ==
  LET asked == question.asked IN
  Decide("type", ValidateFileFromPath(asked.file, asked.declared, asked.guess))

DecideQr == Decide("qr", GenerateQrcode(question.asked))

Next ==
  \/ DecideAccess \/ DecideImage \/ DecideVideo \/ DecideType \/ DecideQr
  \/ BulkNext /\ UNCHANGED <<question, answer, streamVars, shareVars, listVars, clientVars>>
  \/ StreamNext /\ UNCHANGED <<question, answer, bulkVars, shareVars, listVars, clientVars>>
  \/ ShareNext /\ UNCHANGED <<question, answer, bulkVars, streamVars, listVars, clientVars>>
  \/ ListNext /\ UNCHANGED <<question, answer, bulkVars, streamVars, shareVars, clientVars>>
  \/ ClientNext /\ UNCHANGED <<question, answer, bulkVars, streamVars, shareVars, listVars>>

Spec == Init /\ [][Next]_vars

Answered(topic) == question.topic = topic /\ answer # <<>>

(***************************************************************************)
(* Access.                                                                 *)
(***************************************************************************)
Served(response) == response.status \in {200, 302}

PrivateRecords == {r \in Records : r.vis = "private"}

ReadableBy(decided) == {r \in PrivateRecords : Served(decided.stream[r]["main"])}

(* The two upper rungs.                                                    *)
GrantsAll(p) == p.master \/ "manage:files" \in p.scopes

(* "The load-bearing property is that the bottom two rungs -- the ones     *)
(* that reach a browser -- grant no owner access at all" (auth.py 28-29):  *)
(* without the master secret or manage:files nothing is managed and no     *)
(* more than one private record can be read, and a read grant reads one    *)
(* record whatever else its token carries.                                 *)
BrowserTokensAreNarrow(decided) ==
  \A p \in decided.principals :
    /\ ~GrantsAll(p) => decided.manage = 403
    /\ \/ GrantsAll(p) /\ "read:file" \notin p.scopes
       \/ Cardinality(ReadableBy(decided)) <= 1

(* Nobody reads a private record of another tenant, and without a          *)
(* principal none is read.                                                 *)
TenantsAreApart(decided) ==
  \A r \in ReadableBy(decided) : \E p \in decided.principals : p.owner = r.owner

(* A refused private record is answered like a missing one, 404, so that   *)
(* its existence is not told (playback.py 97-99); the name of a rendition  *)
(* is looked at first, and an unknown one answered 400.                    *)
RefusalsLookMissing(decided) ==
  \A r \in PrivateRecords, asked \in Asked :
    r \notin ReadableBy(decided) /\ question.asked.site.signs =>
      decided.stream[r][asked].status = IF asked = "unknown" THEN 400 ELSE 404

(* When private media is streamed no client is given a URL of a private or *)
(* a shared object (utils.py 245-250, playback.py 189-192).                *)
PrivateUrlsAreKept(decided) ==
  question.asked.site.stream =>
    /\ \A r \in ReadableBy(decided) : decided.stream[r]["main"].via \in {"app", "nginx"}
    /\ \A asked \in Asked : decided.share[asked].via \notin {"signed_url", "public_url"}

(* A token minted for one kind of upload does that and nothing else        *)
(* (auth.py 349-357).                                                      *)
MintedTokensOnlyUpload(decided) ==
  decided.presign = 200 =>
    \A owner \in Owners, scope \in UploadScopes :
      LET minted == ResolvePrincipal(question.asked.site, Minted(owner, scope)) IN
      /\ {s \in UploadScopes : RequireScopes(minted, s) = 200} = {scope}
      /\ VerifyToken(minted) = 403
      /\ \A r \in PrivateRecords : ~MayReadRecord(minted, r)

(* The access ladder of auth.py 16-29, for every credential by header or   *)
(* query, every record and every way to serve it.                          *)
AccessLadder ==
  Answered("access") =>
    /\ BrowserTokensAreNarrow(answer[1])
    /\ TenantsAreApart(answer[1])
    /\ RefusalsLookMissing(answer[1])
    /\ PrivateUrlsAreKept(answer[1])
    /\ MintedTokensOnlyUpload(answer[1])

(***************************************************************************)
(* Images, trims, types.                                                   *)
(***************************************************************************)

(* "Only widths <= the source image's width are encoded and returned in    *)
(* renditions" (readme.md 435): exactly those are stored and can be        *)
(* downloaded under each of their names.  The answer leaves out the ones   *)
(* wider than the image has become, which happens only to an image that    *)
(* was shrunk; what is stored stays within the profile and the limits.     *)
RenditionsFit ==
  LET img  == question.asked
      done == answer[1]
      fitting == {n \in RenditionNames :
                    n = "thumbnail" \/ RenditionSpec[n].width <= img.width} IN
  Answered("image") /\ done.ok =>
    /\ done.renditions = IF img.thumbnail /\ img.materialize THEN fitting ELSE {}
    /\ \A n \in RenditionNames, plain \in BOOLEAN : \A text \in RenditionAliases[n] :
         FoundRenditions(done, [text |-> text, plain |-> plain]) = {n} \cap done.renditions
    /\ ListedRenditions(done) \subseteq done.renditions
    /\ \A n \in done.renditions \ ListedRenditions(done) :
         done.width < RenditionSpec[n].width /\ Max({img.width, img.height}) > MaxDim(img.optimization)
    /\ Max({done.width, done.height}) <= MaxDim(img.optimization)
    /\ img.optimization = "lossless" =>
         img.actual * done.width * done.height <= LosslessMaxOutputBytes

(* The record tells the truth about what ffmpeg was told to write: a video *)
(* is marked truncated exactly when the limit cut the part that was asked  *)
(* for, an end beyond the input not counted ("would otherwise look like a  *)
(* multi-minute request", tasks.py 151-154), and nothing is claimed of an  *)
(* input that could not be probed; only codecs a WebM may hold are stored  *)
(* as WebM; the default poster frame lies inside the clip.                 *)
RecordDescribesEncode ==
  LET job     == question.asked
      decided == answer[1] IN
  Answered("video") =>
    /\ decided.truncated <=>
         /\ job.probing = "reported"
         /\ FfmpegOutput(decided.args, job.length)
              < FfmpegOutput([decided.args EXCEPT !.t = {}], job.length)
    /\ decided.container = "webm" <=> decided.args.codecs[2] = "libopus"
    /\ 0 <= decided.seek
    /\ decided.seek = 0 \/ decided.seek < 10 * job.length

(* Formats that share a container or a frame sync, which the bytes do not  *)
(* tell apart or the code does not: AAC is sniffed as MP3, which is tried  *)
(* first, and an M4A may be declared an MP4.                               *)
Confusable == {{"video/webm", "audio/webm"}, {"video/webm", "video/x-matroska"},
               {"audio/ogg", "video/ogg"}, {"audio/aac", "audio/mpeg"}, {"audio/mp4", "video/mp4"}}

(* "the sniff MUST win and mismatch MUST reject" (file_validation.py 407): *)
(* a file is stored under a type with known signatures only if its bytes   *)
(* are of that type, and text is stored as text only if no tag is anywhere *)
(* in it, wherever chunks meet (file_validation.py 332-334).               *)
StoredTypeFits ==
  LET h       == question.asked.file
      type    == answer[1]
      sniffed == SniffMagicType(h) IN
  Answered("type") /\ type # "" =>
    /\ type \in AllowedContentTypes
    /\ type \in MagicTypes => type = sniffed \/ {type, sniffed} \in Confusable
    /\ type \in TextTypes => h.tags = {}

(* What reads a QR code needs its three finder patterns, with the format   *)
(* information beside them the outer nine modules of three corners, and at *)
(* level H recovers 30% of the rest.                                       *)
FinderModules == 9

(* "staying well under that [...] keeps the code reliably scannable"       *)
(* (qr_generator.py 18-20): the logo takes no more than its share of the   *)
(* side, its backing covers whole modules in the exact centre, a tenth of  *)
(* the code at most and nothing of the corners, at every version and scale.*)
LogoLeavesCodeReadable ==
  Answered("qr") =>
    \A drawn \in answer[1].overlay :
      LET geo  == drawn.place
          side == answer[1].symbol IN
      /\ 100 * drawn.logo <= 22 * side * question.asked.scale
      /\ 2 * geo.at + geo.backing = side * question.asked.scale
      /\ geo.start >= QrBorder + FinderModules
      /\ 10 * geo.modules * geo.modules <= (side - 2 * QrBorder) * (side - 2 * QrBorder)

(***************************************************************************)
(* Bulk uploads.                                                           *)
(***************************************************************************)

(* What a file would be answered if it were uploaded alone.                *)
Alone(body) ==
  IF ReadCapped(body, MaxImage) # "read" THEN {ReadCapped(body, MaxImage)}
  ELSE IF body.image THEN {"success", "processing_failed"} ELSE {"invalid_image"}

(* "Map processed items back into their exact original slot indices"       *)
(* (upload.py 661): whatever order the items end in, and whichever files   *)
(* were refused, each file is answered with its own result, as if it had   *)
(* been sent alone, or was refused for the whole batch.                    *)
BulkInOrder ==
  reply \notin {<<>>, <<"client_gone">>} =>
    /\ Len(reply) = Len(batch)
    /\ \A i \in DOMAIN reply :
         reply[i] \in Alone(batch[i]) \/ (reply[i] = "batch_too_large" /\ slots[i] = reply[i])

HeldBefore(i) == MapThenSumSet(LAMBDA k : batch[k].size, {k \in 1..(i - 1) : slots[k] = "read"})

(* "Aggregate memory budget" (readme.md 869): a request holds less than    *)
(* the budget and one more file, the one that was let in last, and a file  *)
(* is refused for the batch only when the budget is used up.               *)
BulkWithinBudget ==
  /\ HeldBefore(Len(slots) + 1) < MaxBulk + MaxImage
  /\ \A i \in DOMAIN slots : slots[i] = "batch_too_large" <=> HeldBefore(i) >= MaxBulk

(* What an upload takes, of memory in a bulk upload (upload.py 569-575) or *)
(* of the disk in a streamed one (utils.py 70-82), stays within its caps   *)
(* at every moment, and nobody is refused who kept to them.                *)
UploadsWithinCaps == BulkWithinBudget /\ TempWithinCap

=============================================================================
