------------------------------- MODULE Access -------------------------------
(***************************************************************************)
(* Who may do what: credentials and scopes (app/routers/auth.py), and how  *)
(* a record's bytes are handed out (app/routers/playback.py,               *)
(* resolve_playback of app/routers/utils.py).  Everything here is a pure   *)
(* decision.  A set of at most one principal stands for "Principal or      *)
(* None".                                                                  *)
(***************************************************************************)
EXTENDS FiniteSets, Naturals

CONSTANTS
  Owners,    (* tenants                                                    *)
  FileIds    (* record ids; the empty string is no id                      *)

ASSUME AccessAssumption == Owners \subseteq STRING /\ FileIds \subseteq STRING \ {""}

UploadScopes    == {"upload:image", "upload:video", "upload:file"}
PrincipalScopes == UploadScopes \cup {"read:file", "manage:files"}

(* A bearer string: absent, one of the configured secrets, a JWT that      *)
(* decodes (signature, expiry, subject and scope list are in order), or    *)
(* anything else.                                                          *)
NoToken    == [kind |-> "none", sub |-> "", scopes |-> {}, file |-> ""]
Rubbish    == [NoToken EXCEPT !.kind = "invalid"]
Static(o)  == [NoToken EXCEPT !.kind = "static", !.sub = o]
Jwts       == [kind : {"jwt"}, sub : Owners, scopes : SUBSET PrincipalScopes, file : FileIds \cup {""}]
Tokens     == {NoToken, Rubbish} \cup {Static(o) : o \in Owners} \cup Jwts

(* The settings that matter: JWT_SECRET_KEY is set, the backend is an      *)
(* object store and not the local disk, it has a public base URL, it can   *)
(* sign, private media is streamed, local media is served by the app.      *)
Sites == [jwt : BOOLEAN, remote : BOOLEAN, base : BOOLEAN, signs : BOOLEAN,
          stream : BOOLEAN, direct : BOOLEAN]

(* What a record is for these decisions.                                   *)
Records == [id : FileIds, owner : Owners, vis : {"public", "private"}]

(***************************************************************************)
(* Credentials.                                                            *)
(***************************************************************************)

(* A read grant must name its record, or the token is none at all.         *)
DecodeCapabilityJwt(site, t) ==
  IF /\ site.jwt /\ t.kind = "jwt"
     /\ t.scopes \cap PrincipalScopes # {}
     /\ "read:file" \in t.scopes => t.file # ""
    THEN {[owner |-> t.sub, master |-> FALSE, scopes |-> t.scopes,
           file |-> IF "read:file" \in t.scopes THEN t.file ELSE ""]}
    ELSE {}

ResolvePrincipal(site, t) ==
  IF t.kind = "static"
    THEN {[owner |-> t.sub, master |-> TRUE, scopes |-> {}, file |-> ""]}
    ELSE DecodeCapabilityJwt(site, t)

(* The header wins over ?token=.                                           *)
TokenFromRequest(header, query) == IF header.kind # "none" THEN header ELSE query

ResolvePrincipalOptional(site, header, query) ==
  ResolvePrincipal(site, TokenFromRequest(header, query))

HasScope(p, scope) == p.master \/ scope \in p.scopes

(* Mutant: whoever may upload may manage.                                  *)
UploadersManage(p) == p.master \/ p.scopes \cap (UploadScopes \cup {"manage:files"}) # {}

GrantsOwnerAccess(p) == p.master \/ "manage:files" \in p.scopes

MayReadRecord(principals, r) ==
  \E p \in principals :
    /\ p.owner = r.owner
    /\ IF p.file # "" THEN p.file = r.id ELSE GrantsOwnerAccess(p)

(* The dependencies of the routes, as the status they answer with.         *)
Admit(principals, allowed) ==
  IF principals = {} THEN 401 ELSE IF principals \cap allowed # {} THEN 200 ELSE 403

VerifyToken(principals) == Admit(principals, {p \in principals : GrantsOwnerAccess(p)})

RequireScopes(principals, scope) ==
  Admit(principals, {p \in principals : HasScope(p, scope)})

(* Looks at the header alone.                                              *)
VerifyStaticToken(header) ==
  IF header.kind = "none" THEN 401 ELSE IF header.kind = "static" THEN 200 ELSE 403

CreatePresignedUpload(site, header) ==
  IF VerifyStaticToken(header) # 200 THEN VerifyStaticToken(header)
  ELSE IF site.jwt THEN 200 ELSE 503

(* The token a presigned upload carries: one scope, for the tenant named.  *)
Minted(owner, scope) == [kind |-> "jwt", sub |-> owner, scopes |-> {scope}, file |-> ""]

(***************************************************************************)
(* Handing out bytes, once the lookup has found the record (404 or 502     *)
(* before that).  A request asks for the main object, for a rendition the  *)
(* record has, for one it lacks, or for a name that is none.               *)
(***************************************************************************)
Asked == {"main", "stored", "lacking", "unknown"}

Reply(status, via) == [status |-> status, via |-> via]

ResolveRenditionTarget(asked) ==
  CASE asked \in {"main", "stored"} -> 200
    [] asked = "lacking" -> 404
    [] asked = "unknown" -> 400

(* The app serves the bytes (the object is on its disk), nginx does, or    *)
(* the client is sent to a signed URL.                                     *)
ResolvePlayback(site, private) ==
  IF ~site.remote THEN Reply(200, IF site.direct THEN "app" ELSE "nginx")
  ELSE IF ~site.signs THEN Reply(502, "none")
  ELSE IF private /\ site.stream THEN Reply(200, "nginx")
  ELSE Reply(302, "signed_url")

StreamVideo(site, principals, r, asked) ==
  IF ResolveRenditionTarget(asked) # 200 THEN Reply(ResolveRenditionTarget(asked), "none")
  ELSE IF r.vis = "public"
    THEN IF site.base THEN Reply(302, "public_url") ELSE ResolvePlayback(site, FALSE)
  ELSE IF MayReadRecord(principals, r) THEN ResolvePlayback(site, TRUE)
  ELSE Reply(404, "none")

(* A live share token finds its record, whoever holds it.                  *)
PlaySharedVideo(site, asked) ==
  IF ResolveRenditionTarget(asked) # 200
    THEN Reply(ResolveRenditionTarget(asked), "none")
    ELSE ResolvePlayback(site, TRUE)

=============================================================================
