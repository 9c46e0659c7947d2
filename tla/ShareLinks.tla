----------------------------- MODULE ShareLinks -----------------------------
(***************************************************************************)
(* The share link of one record: POST and DELETE /files/{id}/share         *)
(* (app/routers/management.py) beside a PATCH and a DELETE of the record   *)
(* itself, and GET /share/{token} (app/routers/playback.py).  Each request *)
(* reads the row with one statement and writes it with another; between    *)
(* them, others run.  The token a POST mints is named by the request.      *)
(***************************************************************************)
EXTENDS Naturals

CONSTANT ShareRequests

ASSUME ShareAssumption == "" \notin ShareRequests

VARIABLES
  present,     (* whether the record is in the table                       *)
  share,       (* its column share_token, "" when NULL                     *)
  lkind,       (* what each request asks for                               *)
  lpc,         (* where it is, or how it was answered                      *)
  lbefore      (* history: the requests answered before it began           *)

shareVars == <<present, share, lkind, lpc, lbefore>>

ShareKinds == {"mint", "revoke", "patch", "delete"}

(* 200 or 204, 404 and 502.                                                *)
LinkAnswers == {"done", "gone", "failed"}

ShareInit ==
  /\ present = TRUE /\ share = ""
  /\ lkind \in [ShareRequests -> ShareKinds]
  /\ lpc = [r \in ShareRequests |-> "idle"]
  /\ lbefore = [r \in ShareRequests |-> {}]

ShareIdle ==
  /\ present = FALSE /\ share = ""
  /\ lkind = [r \in ShareRequests |-> "mint"]
  /\ lpc = [r \in ShareRequests |-> "none"]
  /\ lbefore = [r \in ShareRequests |-> {}]

BeginShare(r) ==
  /\ lpc[r] = "idle"
  /\ lpc' = [lpc EXCEPT ![r] = "load"]
  /\ lbefore' = [lbefore EXCEPT ![r] = {s \in ShareRequests : lpc[s] \in LinkAnswers}]
  /\ UNCHANGED <<present, share, lkind>>

(* `record = await store.get(file_id, owner)`; None is a 404.              *)
LoadShared(r) ==
  /\ lpc[r] = "load"
  /\ \E outcome \in {IF present THEN "write" ELSE "gone", "failed"} :
       lpc' = [lpc EXCEPT ![r] = outcome]
  /\ UNCHANGED <<present, share, lkind, lbefore>>

(* Mutant: a link that is there is kept, and the new one told.             *)
SetShareTokenOnce(r) == IF share = "" THEN r ELSE share

SetShareToken(r) == r

(* What the UPDATE or DELETE leaves of the column: set_visibility does not *)
(* name it.                                                                *)
ShareAfter(r) ==
  CASE lkind[r] = "mint"   -> SetShareToken(r)
    [] lkind[r] = "revoke" -> ""
    [] OTHER               -> share

WriteRow(r) ==
  /\ present' = (present /\ lkind[r] # "delete")
  /\ share' = IF present' THEN ShareAfter(r) ELSE ""

(* Without a row the statement does nothing; a POST and a PATCH then       *)
(* answer 404, the two DELETEs do not look.                                *)
WriteShared(r) ==
  /\ lpc[r] = "write"
  /\ WriteRow(r)
  /\ lpc' = [lpc EXCEPT ![r] =
               IF present \/ lkind[r] \in {"revoke", "delete"} THEN "done" ELSE "gone"]
  /\ UNCHANGED <<lkind, lbefore>>

(* A statement that raises did nothing, or only its reply was lost.        *)
WriteSharedRaises(r) ==
  /\ lpc[r] = "write"
  /\ UNCHANGED <<present, share>> \/ WriteRow(r)
  /\ lpc' = [lpc EXCEPT ![r] = "failed"]
  /\ UNCHANGED <<lkind, lbefore>>

ShareNext ==
  \E r \in ShareRequests :
    BeginShare(r) \/ LoadShared(r) \/ WriteShared(r) \/ WriteSharedRaises(r)

(* get_by_share_token: the visitor of a link needs no other credential.    *)
GetByShareToken(r) == present /\ share = r

(***************************************************************************)
(* What owners and the holders of links may rely on.                       *)
(***************************************************************************)
LinkMinted(r) == lkind[r] = "mint" /\ lpc[r] = "done"

Supersedes(s, r) == s # r /\ lkind[s] # "patch" /\ lpc[s] # "idle" /\ s \notin lbefore[r]

(* "Calling again rotates the token, which revokes the previous link"      *)
(* (management.py 120-121), "the old URL now 404s" (161): a link that had  *)
(* been handed out is dead once a later POST, revocation or DELETE is      *)
(* answered, and for good.  Until a later or overlapping request of these  *)
(* kinds, one that fails included, it works, whatever a PATCH does.        *)
LinksFollowOwner ==
  \A r \in ShareRequests :
    LinkMinted(r) =>
      /\ GetByShareToken(r) =>
           \A s \in ShareRequests \ {r} :
             r \in lbefore[s] /\ lpc[s] = "done" => lkind[s] = "patch"
      /\ GetByShareToken(r) \/ \E s \in ShareRequests : Supersedes(s, r)

=============================================================================
