---------------------------- MODULE ContentChecks ----------------------------
(***************************************************************************)
(* The content type a generic file is stored under                         *)
(* (app/services/file_validation.py): what the first bytes say, what the   *)
(* client declared, what the name suggests; and the scan of text files in  *)
(* overlapping chunks.                                                     *)
(***************************************************************************)
EXTENDS Integers, FiniteSetsExt

CONSTANTS
  Lengths,       (* lengths of files tried                                 *)
  HeaderSize,    (* how much of a file validate_file_content sees          *)
  ChunkSize,     (* _SCAN_CHUNK_SIZE                                       *)
  OverlapSize    (* _OVERLAP_SIZE                                          *)

ASSUME ScanAssumption ==
  /\ Lengths \subseteq Nat
  /\ {HeaderSize, ChunkSize, OverlapSize} \subseteq Nat
  /\ 0 < OverlapSize /\ OverlapSize < ChunkSize

(* A file is the signature it starts with, what tells formats with that    *)
(* signature apart (the byte after 0xFF), and at most one tag: where it    *)
(* is, how long, and whether it is active markup.  No pattern is longer    *)
(* than the overlap.                                                       *)
PlainSignatures == {"pdf", "png", "jpeg", "gif", "webp", "wave", "id3", "ogg", "flac",
                    "zip", "gzip", "tar", "ebml", "moov", "executable", "text"}

Boxed == {"M4A", "avif", "qt", "isom"}

Content(signature, byte, length, tags) ==
  [sig |-> signature, byte |-> byte, length |-> length, tags |-> tags]

Tags(length) ==
  {t \in [at : 0..length, width : 1..OverlapSize, markup : BOOLEAN] : t.at + t.width <= length}

BinaryFiles ==
  {Content(s, 0, HeaderSize, {}) : s \in PlainSignatures \cup Boxed}
  \cup {Content("sync", b, HeaderSize, {}) : b \in 224..255}

TextFiles ==
  UNION {{Content("text", 0, n, {t}) : t \in Tags(n)} \cup {Content("text", 0, n, {})} : n \in Lengths}

(* 0xFF, then 111 and a version that is not reserved.                      *)
IsMp3(h) == h.sig = "id3" \/ (h.sig = "sync" /\ h.byte >= 224 /\ (h.byte \div 8) % 4 # 1)

(* 0xFF, then 1111 and layer 0.                                            *)
IsAac(h) == h.sig = "sync" /\ h.byte >= 240 /\ (h.byte \div 2) % 4 = 0

(* A boxed container whose brand is neither of these.                      *)
IsMp4(h) == h.sig \in Boxed \ {"avif", "qt"}

MimeOfSignature ==
  [s \in (PlainSignatures \ {"id3", "executable", "text"}) \cup Boxed |->
     CASE s = "pdf" -> "application/pdf"   [] s = "png"  -> "image/png"
       [] s = "jpeg" -> "image/jpeg"       [] s = "gif"  -> "image/gif"
       [] s = "webp" -> "image/webp"       [] s = "wave" -> "audio/wav"
       [] s = "ogg"  -> "audio/ogg"        [] s = "flac" -> "audio/flac"
       [] s = "zip"  -> "application/zip"  [] s = "gzip" -> "application/gzip"
       [] s = "tar"  -> "application/x-tar" [] s = "ebml" -> "video/webm"
       [] s = "M4A"  -> "audio/mp4"        [] s = "avif" -> "image/avif"
       [] s \in {"qt", "moov"} -> "video/quicktime"
       [] s = "isom" -> "video/mp4"]

(* MP3 is tried before AAC.  The empty string is no type.                  *)
SniffMagicType(h) ==
  IF IsMp3(h) THEN "audio/mpeg"
  ELSE IF IsAac(h) THEN "audio/aac"
  ELSE IF h.sig \in DOMAIN MimeOfSignature THEN MimeOfSignature[h.sig] ELSE ""

InHeader(h) == {t \in h.tags : t.at + t.width <= HeaderSize}

IsDangerousContent(h) == h.sig = "executable" \/ \E t \in InHeader(h) : t.markup

TextTypes == {"text/plain", "text/csv", "application/json"}

(* Types with a validator, and the headers it accepts.                     *)
MagicValidators(type, h) ==
  CASE type = "audio/mpeg" -> IsMp3(h)
    [] type = "audio/aac"  -> IsAac(h)
    [] type = "video/mp4"  -> IsMp4(h)
    [] type = "video/ogg"  -> h.sig = "ogg"
    [] type \in {"video/x-matroska", "audio/webm"} -> h.sig = "ebml"
    [] OTHER -> h.sig \in DOMAIN MimeOfSignature /\ MimeOfSignature[h.sig] = type

MagicTypes ==
  {MimeOfSignature[s] : s \in DOMAIN MimeOfSignature}
  \cup {"audio/mpeg", "audio/aac", "video/ogg", "video/x-matroska", "audio/webm"}

AllowedContentTypes == MagicTypes \cup TextTypes \cup {"application/octet-stream"}

VerifyMagicBytesForType(h, type) == type \in MagicTypes => MagicValidators(type, h)

MimeAliases ==
  [alias \in {"audio/mp3", "audio/x-wav", "audio/wave", "application/ogg", "audio/x-flac",
              "audio/x-m4a", "application/x-zip-compressed", "application/x-gzip",
              "application/tar", "image/jpg", "image/pjpeg"} |->
     CASE alias = "audio/mp3" -> "audio/mpeg"
       [] alias \in {"audio/x-wav", "audio/wave"} -> "audio/wav"
       [] alias = "application/ogg" -> "audio/ogg"
       [] alias = "audio/x-flac" -> "audio/flac"
       [] alias = "audio/x-m4a" -> "audio/mp4"
       [] alias = "application/x-zip-compressed" -> "application/zip"
       [] alias = "application/x-gzip" -> "application/gzip"
       [] alias = "application/tar" -> "application/x-tar"
       [] alias \in {"image/jpg", "image/pjpeg"} -> "image/jpeg"]

(* A type as a client spells it, with parameters, blanks and capitals or   *)
(* without; "image/svg+xml" stands for what is not allowed.                *)
MediaTypes ==
  [base : AllowedContentTypes \cup DOMAIN MimeAliases \cup {"", "image/svg+xml"}, plain : BOOLEAN]

NormalizeMediaType(type) ==
  IF type.base \in DOMAIN MimeAliases THEN MimeAliases[type.base] ELSE type.base

(* A guess from the name counts only if the bytes do not contradict it.    *)
GuessContentType(guess, h) ==
  LET type == NormalizeMediaType(guess) IN
  IF type \in AllowedContentTypes /\ VerifyMagicBytesForType(h, type) THEN type ELSE ""

FirstOf(a, b, c) == IF a # "" THEN a ELSE IF b # "" THEN b ELSE c

(* The type stored, or the empty string when the file is refused.          *)
ValidateFileContent(h, spelled, guess) ==
  LET declared == NormalizeMediaType(spelled) IN
  IF IsDangerousContent(h) THEN ""
  ELSE IF declared \in {"", "application/octet-stream"}
    THEN FirstOf(SniffMagicType(h), GuessContentType(guess, h), "application/octet-stream")
  ELSE IF declared \notin AllowedContentTypes \/ ~VerifyMagicBytesForType(h, declared) THEN ""
  ELSE IF declared \in TextTypes /\ InHeader(h) # {} THEN ""
  ELSE declared

(* Mutant: nothing is carried over.                                        *)
ScanWindowsDisjoint(length) ==
  {<<i * ChunkSize, Min({(i + 1) * ChunkSize, length})>> :
     i \in 0..((length + ChunkSize - 1) \div ChunkSize - 1)}

(* The windows of the scan, as pairs of first position and end: each chunk *)
(* with what is carried over from the one before.  That a window which     *)
(* happens to begin like an executable is refused too is left out.         *)
ScanWindows(length) ==
  {<<IF i = 0 THEN 0 ELSE i * ChunkSize - OverlapSize, Min({(i + 1) * ChunkSize, length})>> :
     i \in 0..((length + ChunkSize - 1) \div ChunkSize - 1)}

ScanFileForDangerousText(h) ==
  \E t \in h.tags : \E w \in ScanWindows(h.length) : w[1] <= t.at /\ t.at + t.width <= w[2]

(* Text is scanned from end to end.                                        *)
ValidateFileFromPath(h, spelled, guess) ==
  LET type == ValidateFileContent(h, spelled, guess) IN
  IF type \in TextTypes /\ ScanFileForDangerousText(h) THEN "" ELSE type

=============================================================================
