------------------------- MODULE PatchedVideoSystem -------------------------
(***************************************************************************)
(* VideoSystem with PATCH requests: a video may change its visibility, and *)
(* so its storage key, while its job is waiting or running.                *)
(***************************************************************************)
EXTENDS VideoSystem, Visibility

pvars == <<vars, visVars>>

(* Every variable holds a value of its kind, and no row lacks its object's *)
(* key (the column is NOT NULL, 0001_initial_uploads.py 34).               *)
PatchedTypeOK == TypeOK /\ VisTypeOK /\ KeysNotNull

PatchedInit == Init /\ VisInit

PatchedNext ==
  \/ Next /\ UNCHANGED visVars
  \/ VisNext /\ UNCHANGED <<videoVars, deleteVars>>

PatchedSpec == PatchedInit /\ [][PatchedNext]_pvars

(***************************************************************************)
(* ReadyHasObject and SettledIsFinal of VideoSystem are checked of this    *)
(* system too.  Its own properties are about a visibility that changes     *)
(* while the video is processed, which the handlers read once and use      *)
(* later.                                                                  *)
(***************************************************************************)

(* No PATCH is being served either.                                        *)
AllQuiet == Quiet /\ \A p \in Patchers : vpc[p] \in VisAnswered

(* A PATCH decided what to copy from the video before it was ready.        *)
PatchedBeforeReady(u) ==
  \E p \in Patchers : vid[p] = u /\ vsnap[p].status # "ready"

(* The row of a ready video names a compressed output, not the upload it   *)
(* was made from (readme.md 721), unless a PATCH that read the video       *)
(* earlier has re-pointed the row to its copy of the raw object            *)
(* (visibility.py 212-215).                                                *)
RawReadyOnlyByPatch ==
  \A u \in Uploads :
    rows[u].status = "ready" => rows[u].key.dir = "videos" \/ PatchedBeforeReady(u)

(* "Private objects are placed under the private/ root prefix" (storage/   *)
(* base.py 47-48): once its job and all requests are done, the object of a *)
(* private video is under it.                                              *)
ExposedVideo(u) ==
  /\ rows[u].status = "ready" /\ rows[u].vis = "private"
  /\ rows[u].key \in objects /\ rows[u].key.vis = "public"

PrivateVideoBehindPrefix == AllQuiet => \A u \in Uploads : ~ExposedVideo(u)

(* A PATCH has worked on the video, or gone on from it to its poster.      *)
WorkedOn(p, u) == vid[p] = u \/ vid[p] \in {u} \X Runs

(* The row names the copy that one PATCH made to publish the video, and    *)
(* another, which found nothing to rotate, has turned the column private.  *)
TurnedPrivateOnly(u) ==
  \E p, q \in Patchers :
    /\ rows[u].key.tag = q /\ vwant[q] = "public"
    /\ WorkedOn(p, u) /\ vwant[p] = "private"
    /\ vid[p] = u => vcopy[p] = None

(* A private video is exposed, now or in the end, only by a PATCH that     *)
(* came between the worker's reading of the visibility and mark_ready      *)
(* (tasks.py 474 and 507), or by two PATCHes that overlap.                 *)
ExposedOnlyByPatch ==
  \A u \in Uploads : ExposedVideo(u) => PatchedBeforeReady(u) \/ TurnedPrivateOnly(u)

(* The poster is turned private with its video, since "leaving it public   *)
(* would keep a thumbnail of the now-private video served from cache"      *)
(* (visibility.py 234-236), unless the PATCH that did so read the video    *)
(* before its poster was linked or was broken off by an OSError, the       *)
(* poster's copy was not made or not put in its row, or a PATCH published  *)
(* the poster itself.                                                      *)
PosterLags(u, poster) ==
  \E p \in Patchers :
    \/ vid[p] = u /\ vwant[p] = "private" /\ (vsnap[p].poster = None \/ vpc[p] = "broken")
    \/ vid[p] = poster /\ (vwant[p] = "public" \/ vcopy[p] \notin Held(rows[poster]))

PosterFollowsVideo ==
  AllQuiet =>
    \A u \in Uploads :
      LET poster == rows[u].poster IN
      rows[u].vis = "private" /\ poster # None /\ Exists(poster) =>
        rows[poster].vis = "private" \/ PosterLags(u, poster)

=============================================================================
