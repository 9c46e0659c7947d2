---------------------------- MODULE PosterSystem ----------------------------
(***************************************************************************)
(* Poster requests and their jobs beside DELETE and PATCH requests for the *)
(* videos and for the posters.                                             *)
(***************************************************************************)
EXTENDS Posters, FileDeletion, Visibility, TLC

vars == <<storeVars, posterVars, deleteVars, visVars>>

(* Every variable holds a value of its kind, and no row lacks its object's *)
(* key (the column is NOT NULL, 0001_initial_uploads.py 34).               *)
TypeOK == KeysNotNull /\ StoreTypeOK /\ PosterTypeOK /\ DeleteTypeOK /\ VisTypeOK

Init == PosterInit /\ DeleteInit /\ VisInit

Next ==
  \/ PosterNext /\ UNCHANGED <<deleteVars, visVars>>
  \/ DeleteNext /\ UNCHANGED <<posterVars, visVars>>
  \/ VisNext /\ UNCHANGED <<posterVars, deleteVars>>

Spec == Init /\ [][Next]_vars

(* Requests are interchangeable.                                           *)
Symmetry == Permutations(PosterRequests)

(* No request is being served and no job is waiting or running.            *)
Quiet ==
  /\ \A q \in PosterRequests : qpc[q] \notin {"check", "enqueue"} /\ pjob[q] # "pending"
  /\ \A d \in Deleters : dpc[d] \in DeleteAnswered
  /\ \A p \in Patchers : vpc[p] \in VisAnswered

(* The rows a PATCH has worked on: the one named, and its poster after it. *)
WorkedOn(p) == {vid[p]} \cup {target[q] : q \in {r \in PosterRequests : vid[p] = PosterId(r)}}

(***************************************************************************)
(* Safety.                                                                 *)
(***************************************************************************)

(* A live poster that a video is linked to has its object in the store: no *)
(* clean-up of a job that found its video gone, no DELETE and no rotation  *)
(* of video or poster takes it away under the link (tasks.py 381-400).  A  *)
(* DELETE of the poster is removing it, or the link was made but could not *)
(* be read back and the job took the object down before the row, which     *)
(* stays for good if its deletion raises.  A DELETE of the video is no     *)
(* exception: the video is gone before its poster is touched.              *)
Withdrawing(i) == Withdrawn(i) \/ tpc[i[1]] \in {"drop_row", "gave_up"}

LinkedPosterHasObject ==
  \A v \in Videos :
    LET poster == rows[v].poster IN
    Exists(v) /\ poster # None /\ Exists(poster) =>
      rows[poster].key \in objects \/ Withdrawing(poster)

(* "Idempotent on the happy path: if a poster already exists it's returned *)
(* inline (200) rather than regenerated" (posters.py 30-31): a request     *)
(* that read a link to a poster that is still there has made none itself.  *)
LivePosterKept ==
  \A q \in PosterRequests :
    seen[q] # None /\ Exists(seen[q]) => ~Exists(PosterId(q))

(* "the last link wins and the loser is a harmless standalone image row"   *)
(* (posters.py 37-38), and the poster of a video that is gone is discarded *)
(* "instead of orphaning it" (tasks.py 378-380): when a job ends and its   *)
(* poster stays, its video is there and no longer linked to what the       *)
(* request saw, but to this poster or to one another request has linked    *)
(* since.  A job that could not take its row back ends otherwise (tasks.py *)
(* 386, 395).                                                              *)
KeptPosterIsLinked ==
  [][\A q \in PosterRequests :
       tpc[q] # "finished" /\ tpc'[q] = "finished" /\ Exists(PosterId(q))' =>
         /\ Exists(target[q])
         /\ rows[target[q]].poster \notin {None, seen[q]}]_vars

(* An object that no row points at once all is quiet is a copy made by a   *)
(* PATCH that overlapped another PATCH of the row, or that whoever removed *)
(* the row did not know of: a DELETE that read another key, or the job     *)
(* that took its poster back.  A poster job that fails half way leaves     *)
(* none of its own (tasks.py 371-375, 384-400), unless an OSError broke    *)
(* it, or the request, off.                                                *)
RemovedKnowing(i, k) ==
  \E d \in Deleters :
    \/ did[d] = i /\ dsnap[d].key = k /\ dpc[d] = "deleted"
    \/ dsnap[d].poster = i /\ dposter[d].key = k /\ dpc[d] = "deleted"

CopyMissed(p, i, k) ==
  \/ \E q \in Patchers \ {p} : i \in WorkedOn(q)
  \/ ~Exists(i) /\ ~RemovedKnowing(i, k)

BrokenOff(k) ==
  \/ \E q \in PosterRequests : tpc[q] = "gave_up" /\ k.tag = PosterId(q)
  \/ \E p \in Patchers : vpc[p] = "broken" /\ (k.tag = p \/ k \in Held(vsnap[p]))
  \/ \E d \in Deleters : dpc[d] = "broken" /\ k = dposter[d].key

StrandedOnlyByCopy ==
  Quiet =>
    \A k \in objects :
      \/ Referenced(k) \/ BrokenOff(k)
      \/ \E p \in Patchers : \E i \in WorkedOn(p) :
           /\ k.tag = p
           /\ k.dir = "videos" <=> i \in Videos
           /\ CopyMissed(p, i, k)

(* A PATCH changed the video without seeing this link, gave the poster up, *)
(* or changed the poster alone.                                            *)
LinkOutOfSight(v, poster) ==
  \E p \in Patchers :
    \/ v \in WorkedOn(p) /\ vid[p] # poster
    \/ vid[p] = poster /\ (vwant[p] # rows[v].vis \/ vcopy[p] \notin Held(rows[poster]))

(* A PATCH that found nothing to rotate when it read the row wrote         *)
(* `public` over what another PATCH had made private meanwhile.            *)
WrotePublicOnly(i) ==
  \E p \in Patchers : i \in WorkedOn(p) /\ vwant[p] = "public" /\ (vid[p] = i => vcopy[p] = None)

(* "asking for a poster of a *private* video minted a publicly fetchable   *)
(* still of it" (tasks.py 628-631) was a bug, and "private objects do not  *)
(* get a durable imgproxy URL at all" (imgproxy.py 71-73): the poster of a *)
(* private video is behind the prefix, and no answer about a public record *)
(* holds the URL of an object that is; whatever jobs and PATCHes overlap,  *)
(* unless one of them worked out of sight of the link, or wrote `public`   *)
(* only.                                                                   *)
PosterSharesPrivacy ==
  /\ \A v \in Videos :
       LET poster == rows[v].poster IN
       Exists(v) /\ rows[v].vis = "private" /\ poster # None /\ Exists(poster) =>
         rows[poster].key.vis = "private" \/ LinkOutOfSight(v, poster)
  /\ \A i \in Ids : \A k \in DurableKeys(i) \cap objects :
       \/ k.vis = "public"
       \/ k = rows[i].key /\ WrotePublicOnly(i)
       \/ k # rows[i].key /\ LinkOutOfSight(i, rows[i].poster)

=============================================================================
