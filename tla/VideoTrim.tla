------------------------------ MODULE VideoTrim ------------------------------
(***************************************************************************)
(* Which part of a video a compression keeps, and where its poster frame   *)
(* is taken from (_effective_output_duration, _build_ffmpeg_args,          *)
(* compress_video_task and _poster_seek_seconds of app/tasks.py).  Times   *)
(* are hundredths of a second; an option that is absent is an empty set.   *)
(***************************************************************************)
EXTENDS Integers, FiniteSetsExt

CONSTANTS
  Times,           (* durations and timestamps tried                       *)
  MaxDuration      (* VIDEO_MAX_DURATION_SECONDS, 0 for no limit           *)

ASSUME TrimAssumption == Times \subseteq Nat /\ MaxDuration \in Int

Option(S) == {{}} \cup {{x} : x \in S}

OrElse(option, default) == IF option = {} THEN default ELSE Max(option)

(* An encode as it is asked for, the real length of the input and how      *)
(* ffprobe fares with it.                                                  *)
Formats   == {"mp4", "webm_vp9", "webm_av1"}
Probings  == {"reported", "unreported", "error", "malformed", "timeout"}
Encodings == [from : Option(Times), to : Option(Times), length : Times, probing : Probings,
              format : Formats, optimization : {"balanced", "quality"}]

(* A probe that fails in any way never fails the job.                      *)
ProbeVideoMetadata(job) == IF job.probing = "reported" THEN {job.length} ELSE {}

(* Mutant: the window is not clamped against the input.                    *)
WholeRequest(job) ==
  {Max({0, OrElse(job.to, d) - OrElse(job.from, 0)}) : d \in ProbeVideoMetadata(job)}

(* What the trim asks for, within what the input has.                      *)
EffectiveOutputDuration(job) ==
  {LET start     == OrElse(job.from, 0)
       available == Max({0, d - start}) IN
   IF job.to = {} THEN available ELSE Min({Max({0, OrElse(job.to, 0) - start}), available}) :
     d \in ProbeVideoMetadata(job)}

Truncated(job) ==
  \E d \in EffectiveOutputDuration(job) : MaxDuration > 0 /\ d > MaxDuration

(* The key and the content type of the output go by this.                  *)
Container(job) == IF job.format \in {"webm_vp9", "webm_av1"} THEN "webm" ELSE "mp4"

(* The arguments: -ss and -to before -i, -t after it, then the widest      *)
(* frame and the codecs.                                                   *)
BuildFfmpegArgs(job) ==
  [ss |-> job.from, to |-> job.to,
   t |-> IF MaxDuration > 0 THEN {MaxDuration} ELSE {},
   scale |-> IF job.optimization = "balanced" THEN 1280 ELSE 1920,
   codecs |-> CASE job.format = "webm_vp9" -> <<"libvpx-vp9", "libopus">>
                [] job.format = "webm_av1" -> <<"libsvtav1", "libopus">>
                [] OTHER                   -> <<"libx264", "aac">>]

(* What ffmpeg makes of them: it reads the input from -ss up to -to or to  *)
(* its end and writes no more than -t of it.                               *)
FfmpegOutput(args, length) ==
  LET last == Min({length} \cup args.to)
      read == Max({0, last - OrElse(args.ss, 0)}) IN
  Min({read} \cup args.t)

(* A tenth into the clip, and a tenth of a second before its end at the    *)
(* latest; in thousandths of a second.                                     *)
PosterSeekSeconds(job) ==
  LET d == OrElse(ProbeVideoMetadata(job), 0) IN
  IF d <= 0 THEN 0 ELSE Min({d, Max({10 * d - 100, 0})})

=============================================================================
