---------------------------- MODULE ImagePipeline ----------------------------
(***************************************************************************)
(* What becomes of an uploaded image: its size, its renditions, and which  *)
(* renditions the answer lists and a download finds                        *)
(* (app/services/image_vips.py, app/services/renditions.py,                *)
(* _filter_renditions of app/routers/utils.py).  Pixels are left to        *)
(* libvips; sizes are numbers.                                             *)
(***************************************************************************)
EXTENDS Integers, FiniteSetsExt

CONSTANTS
  Sides,             (* widths and heights tried                           *)
  Pages              (* numbers of frames tried                            *)

ASSUME ImageAssumption == Sides \subseteq Nat \ {0} /\ Pages \subseteq Nat \ {0}

(* Settings of app/config.py.                                              *)
MaxImagePixels          == 50000000
AnimationMaxFrames      == 300
AnimationMaxTotalPixels == 100000000
LosslessMaxOutputBytes  == 8 * 1024 * 1024

Optimizations == {"size", "balanced", "quality", "lossless"}

(* An upload: its size after auto-rotation, its frames, the profile asked  *)
(* for, the bytes per pixel a lossless probe of a thumbnail finds and the  *)
(* bytes per pixel of the real encode.                                     *)
Images == [width : Sides, height : Sides, pages : Pages, optimization : Optimizations,
           thumbnail : BOOLEAN, materialize : BOOLEAN, probe : 0..1, actual : 0..1]

RenditionNames == {"thumbnail", "w400", "w800", "w1600"}

RenditionSpec ==
  [n \in RenditionNames |->
     CASE n = "thumbnail" -> [width |-> 300, crop |-> TRUE]
       [] n = "w400"      -> [width |-> 400, crop |-> FALSE]
       [] n = "w800"      -> [width |-> 800, crop |-> FALSE]
       [] n = "w1600"     -> [width |-> 1600, crop |-> FALSE]]

RenditionAliases ==
  [n \in RenditionNames |->
     CASE n = "thumbnail" -> {"thumbnail", "thumb", "t300"}
       [] n = "w400"      -> {"w400", "400"}
       [] n = "w800"      -> {"w800", "800"}
       [] n = "w1600"     -> {"w1600", "1600"}]

(* A name as a client spells it; case and surrounding blanks are ignored.  *)
Spellings == [text : UNION {RenditionAliases[n] : n \in RenditionNames} \cup {"w1200", ""},
              plain : BOOLEAN]

NormalizeRenditionName(spelling) == {n \in RenditionNames : spelling.text \in RenditionAliases[n]}

(* Mutant: off by one at the width of the source.                          *)
StrictlyNarrower(width) ==
  {n \in RenditionNames : RenditionSpec[n].crop \/ RenditionSpec[n].width < width}

GenerateMaterializedRenditions(width) ==
  {n \in RenditionNames : RenditionSpec[n].crop \/ ~(width < RenditionSpec[n].width)}

FilterRenditions(renditions, width) ==
  {n \in renditions : RenditionSpec[n].crop \/ ~(RenditionSpec[n].width > width)}

MaxDim(optimization) ==
  CASE optimization = "size"     -> 1280
    [] optimization = "balanced" -> 1920
    [] optimization = "quality"  -> 3840
    [] optimization = "lossless" -> 4096

(* libvips scales both sides and rounds to the nearest pixel, one at least.*)
Scaled(side, longest, dim) == Max({1, (2 * side * dim + longest) \div (2 * longest)})

FitWithin(width, height, dim) ==
  LET longest == Max({width, height}) IN
  IF width > dim \/ height > dim
    THEN <<Scaled(width, longest, dim), Scaled(height, longest, dim)>>
    ELSE <<width, height>>

(* The projection from the probe of one frame, then the size of what was   *)
(* encoded.                                                                *)
LosslessFits(img, size) ==
  LET pixels == size[1] * size[2]
      limit  == LosslessMaxOutputBytes \div img.pages IN
  img.optimization = "lossless" => img.probe * pixels <= limit /\ img.actual * pixels <= limit

Rejected == [ok |-> FALSE, width |-> 0, height |-> 0, renditions |-> {}]

(* Renditions come from the source, before it is shrunk.                   *)
Encode(img) ==
  LET size == FitWithin(img.width, img.height, MaxDim(img.optimization)) IN
  IF ~LosslessFits(img, size) THEN Rejected
  ELSE [ok |-> TRUE, width |-> size[1], height |-> size[2],
        renditions |-> IF img.thumbnail /\ img.materialize
                         THEN GenerateMaterializedRenditions(img.width) ELSE {}]

ProcessAnimated(img) ==
  IF \/ img.width * img.height > MaxImagePixels
     \/ img.pages > AnimationMaxFrames
     \/ img.width * img.height > AnimationMaxTotalPixels \div img.pages
    THEN Rejected ELSE Encode(img)

(* A file that is no image, or does not decode, is rejected before this.   *)
ValidateAndStripImage(img) ==
  IF img.pages > 1 THEN ProcessAnimated(img)
  ELSE IF img.width * img.height > MaxImagePixels THEN Rejected
  ELSE Encode(img)

(* What the answer to the upload lists, and what a later download finds.   *)
ListedRenditions(done) == FilterRenditions(done.renditions, done.width)

FoundRenditions(done, spelling) == NormalizeRenditionName(spelling) \cap done.renditions

=============================================================================
