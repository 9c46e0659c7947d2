------------------------------ MODULE QrCodes ------------------------------
(***************************************************************************)
(* POST /generate/qrcode and its five variants (app/routers/qr.py): what   *)
(* is refused, and where the logo goes (app/services/qr_generator.py).     *)
(* A pure decision: nothing is stored.                                     *)
(***************************************************************************)
EXTENDS Naturals, FiniteSetsExt

CONSTANT QrScales         (* pixels per module, 1 to 20 in the code        *)

ASSUME QrAssumption == QrScales \subseteq Nat \ {0}

(* The form's own fields are in order or not; `version` is the smallest    *)
(* symbol the content fits into at the error level asked for, 0 when it    *)
(* fits into none.  (Micro symbols, never made for a logo, count as 1.)    *)
QrRequests ==
  [fields : BOOLEAN, format : {"png", "svg", "other"},
   logo : {"none", "empty", "too_large", "no_image", "too_many_pixels", "image"},
   version : 0..40, scale : QrScales]

(* Modules along a side, the quiet zone of four on each side included, as  *)
(* segno's symbol_size() counts them.                                      *)
QrBorder == 4

SymbolSize(version) == 17 + 4 * version + 2 * QrBorder

(* An odd number of modules, like the symbol's own.                        *)
TargetModules(n) ==
  LET m == Max({3, (22 * n) \div 100}) IN IF m % 2 = 0 THEN m + 1 ELSE m

LogoBackingGeometry(n, scale) ==
  [modules |-> TargetModules(n), start |-> (n - TargetModules(n)) \div 2,
   backing |-> TargetModules(n) * scale, at |-> ((n - TargetModules(n)) \div 2) * scale]

(* Mutant: the smallest symbols are taken for a logo too.                  *)
VersionAsMade(version) == version

VersionForLogo(version) == IF version < 3 THEN 3 ELSE version

Refused(status) == [status |-> status, symbol |-> 0, overlay |-> {}]

(* The logo is cropped to a square that leaves a module free all around.   *)
WithLogo(req) ==
  LET n   == SymbolSize(VersionForLogo(req.version))
      geo == LogoBackingGeometry(n, req.scale) IN
  [status |-> 200, symbol |-> n,
   overlay |-> {[place |-> geo, logo |-> Max({1, geo.backing - 2 * req.scale})]}]

(* An empty logo is none.  The content is encoded before the logo is       *)
(* looked at.                                                              *)
GenerateQrcode(req) ==
  IF ~req.fields \/ req.format = "other" THEN Refused(400)
  ELSE IF req.logo = "too_large" THEN Refused(413)
  ELSE IF req.version = 0 \/ req.logo \in {"no_image", "too_many_pixels"} THEN Refused(400)
  ELSE IF req.logo = "image" THEN WithLogo(req)
  ELSE [status |-> 200, symbol |-> SymbolSize(req.version), overlay |-> {}]

=============================================================================
