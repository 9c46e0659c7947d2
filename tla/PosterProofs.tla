---------------------------- MODULE PosterProofs ----------------------------
(***************************************************************************)
(* Proofs about PosterSystem, for any number of videos, poster requests,   *)
(* DELETE and PATCH requests.                                              *)
(***************************************************************************)
EXTENDS PosterSystem, TLAPS

(***************************************************************************)
(* Which rows there are, and what they link to.                            *)
(***************************************************************************)

(* Where a job is that may have inserted its row, and one that may have    *)
(* linked the video to it.                                                 *)
AfterLink == {"linked", "drop_poster", "drop_row", "gave_up", "finished"}

AfterRow ==
  {"link"} \cup AfterLink \cup IF "lost_reply" \in Faults THEN {"drop_frame"} ELSE {}

Made(i) == i \in Videos \/ \E q \in PosterRequests : i = PosterId(q) /\ tpc[q] \in AfterRow

Linked(v, i) ==
  \E q \in PosterRequests : i = PosterId(q) /\ target[q] = v /\ tpc[q] \in AfterLink

(* A row of i, or one that was read from it: it is ready and has no        *)
(* renditions, and a poster is that of a video and has none itself.        *)
RowOf(i, row) ==
  /\ Made(i) /\ row.status = "ready" /\ row.key # None /\ row.rends = {}
  /\ row.poster = None \/ (i \in Videos /\ Linked(i, row.poster))

(* How far a request and its job are.                                      *)
RequestFacts(q) ==
  /\ qpc[q] \in {"idle", "check", "enqueue"} => pjob[q] = "none"
  /\ pjob[q] = "none" => tpc[q] = "idle"
  /\ IF qpc[q] = "idle" THEN seen[q] = None ELSE target[q] \in Videos
  /\ qpc[q] = "check" => seen[q] # None

(* It is not past the check, nor its job queued, while the poster it has   *)
(* seen lives.                                                             *)
SeenFacts(q) ==
  seen[q] # None =>
    /\ Linked(target[q], seen[q])
    /\ qpc[q] = "enqueue" \/ pjob[q] # "none" => ~Exists(seen[q])

(* The links a job has made, or has found replaced by another's.           *)
LinkFacts(q) ==
  tpc[q] = "linked" /\ Exists(target[q]) => rows[target[q]].poster \notin {None, seen[q]}

DeleteFacts(d) ==
  /\ dpc[d] = "idle" => did[d] = None
  /\ dpc[d] # "idle" => did[d] \in Ids /\ RowOf(did[d], dsnap[d])
  /\ dpc[d] # "renditions"
  /\ dpc[d] \in {"load_poster", "poster_object", "poster_row"} =>
       did[d] \in Videos /\ dsnap[d].poster # None /\ ~Exists(did[d])
  /\ dpc[d] \in {"poster_object", "poster_row"} => dposter[d].key # None
  /\ dposter[d].key # None =>
       /\ dpc[d] \in {"poster_object", "poster_row", "deleted", "broken"}
       /\ did[d] \in Videos /\ dsnap[d].poster # None /\ RowOf(dsnap[d].poster, dposter[d])

VisFacts(p) ==
  /\ vpc[p] = "idle" => vid[p] = None
  /\ vpc[p] # "idle" => vid[p] \in Ids /\ RowOf(vid[p], vsnap[p])
  /\ vpc[p] # "copy_renditions" /\ vrends[p] = {}
  /\ vpc[p] = "load_poster" => vsnap[p].poster # None

LinkInv ==
  /\ TypeOK
  /\ \A q \in PosterRequests : RequestFacts(q) /\ SeenFacts(q) /\ LinkFacts(q)
  /\ \A i \in Ids : Exists(i) => RowOf(i, rows[i])
  /\ \A d \in Deleters : DeleteFacts(d)
  /\ \A p \in Patchers : VisFacts(p)

(***************************************************************************)
(* Who owns a key.  The name in a key is that of the job or of the PATCH   *)
(* that minted it; a PATCH may have worked on a video and on its poster,   *)
(* which are told apart by the directory.                                  *)
(***************************************************************************)
NameOf(i) == IF i \in Videos THEN <<i, 1>> ELSE i

DirOf(i) == IF i \in Videos THEN "videos" ELSE "posters"

(* Where a PATCH is that has re-pointed its row, when no reply is lost.    *)
Out == {"remove_old", "load_poster", "answered", "broken"}

Owns(i, k) ==
  /\ k.dir = DirOf(i)
  /\ \/ k.tag = NameOf(i)
     \/ \E p \in Patchers : k.tag = p /\ i \in WorkedOn(p) /\ (vid[p] = i => vpc[p] \in Out)

(* What a PATCH has copied is its own and there until the row points at    *)
(* it; what it then removes the row points at no more.                     *)
CopyFacts(p) ==
  /\ vcopy[p] # None => vcopy[p].tag = p /\ vcopy[p].dir = DirOf(vid[p])
  /\ vpc[p] \in {"idle", "copy"} => vcopy[p] = None
  /\ vpc[p] = "update" /\ vcopy[p] # None => vcopy[p] \in objects
  /\ vpc[p] = "undo" => vcopy[p] # None /\ vleft[p] \subseteq {vcopy[p]}
  /\ vpc[p] = "remove_old" =>
       /\ vleft[p] \subseteq {vsnap[p].key}
       /\ Exists(vid[p]) => rows[vid[p]].key # vsnap[p].key

(* A poster's object is there while nobody takes the poster back.          *)
PosterHeld(q) ==
  /\ tpc[q] = "poster_row" => NewPosterKey(q) \in objects
  /\ Exists(PosterId(q)) =>
       \/ rows[PosterId(q)].key \in objects
       \/ Withdrawing(PosterId(q)) \/ ~Exists(target[q])

KeyInv ==
  /\ \A i \in Ids : Exists(i) => Owns(i, rows[i].key)
  /\ \A d \in Deleters :
       /\ dpc[d] # "idle" => Owns(did[d], dsnap[d].key)
       /\ dposter[d].key # None => Owns(dsnap[d].poster, dposter[d].key)
  /\ \A p \in Patchers : (vpc[p] # "idle" => Owns(vid[p], vsnap[p].key)) /\ CopyFacts(p)
  /\ \A q \in PosterRequests : PosterHeld(q)

(***************************************************************************)
(* What is private.                                                        *)
(***************************************************************************)

(* What a PATCH without a copy has written.                                *)
WrittenBlind(i) ==
  \E p \in Patchers :
    /\ i \in WorkedOn(p) /\ vwant[p] = "public"
    /\ vid[p] = i => vcopy[p] = None /\ vpc[p] \in {"load_poster", "answered", "broken"}

(* The object of a public row is in front of the prefix.                   *)
ShownOpenly(i) ==
  Exists(i) /\ rows[i].vis = "public" => rows[i].key.vis = "public" \/ WrittenBlind(i)

(* A copy is where the PATCH wants it.                                     *)
CopyWanted(p) ==
  /\ vcopy[p] # None => vcopy[p].vis = vwant[p]
  /\ vpc[p] \in {"idle", "copy"} => vcopy[p] = None

(* A poster is as private as its job has read the video to be, and both    *)
(* stay as they were until a PATCH works on them.                          *)
Inherited(q) ==
  /\ tpc[q] \in {"idle", "load"} => tsnap[q].status # "ready"
  /\ tpc[q] \in TaskSteps \ {"idle", "load", "gave_up", "finished"} => tsnap[q].status = "ready"
  /\ Exists(PosterId(q)) =>
       /\ tsnap[q].status = "ready"
       /\ rows[PosterId(q)].key = NewPosterKey(q) \/ \E p \in Patchers : vid[p] = PosterId(q)
  /\ tsnap[q].status = "ready" /\ Exists(target[q]) =>
       \/ rows[target[q]].vis = tsnap[q].vis
       \/ \E p \in Patchers : target[q] \in WorkedOn(p)

PrivacyInv ==
  /\ \A i \in Ids : ShownOpenly(i)
  /\ \A p \in Patchers : CopyWanted(p)
  /\ \A q \in PosterRequests : Inherited(q)

(***************************************************************************)
(* Where every object is accounted for.                                    *)
(***************************************************************************)

(* Who has an object that no row points at: the job that stored it, or     *)
(* that an OSError broke off; the PATCH that copied it, or is removing it; *)
(* a DELETE whose removal of the poster's object broke off; and nobody,    *)
(* when it is the copy of a PATCH whose row is gone or has been patched    *)
(* beside it.                                                              *)
JobHolds(q, k) ==
  \/ tpc[q] \in {"poster_row", "drop_frame"} /\ k = NewPosterKey(q)
  \/ tpc[q] = "gave_up" /\ k.tag = PosterId(q)

PatchHolds(p, k) ==
  \/ vpc[p] = "update" /\ k = vcopy[p]
  \/ vpc[p] \in {"undo", "remove_old"} /\ k \in vleft[p]
  \/ vpc[p] = "broken" /\ (k.tag = p \/ k = vsnap[p].key)

Stray(k) ==
  \E p \in Patchers : \E i \in Ids \cap WorkedOn(p) :
    /\ k.tag = p /\ k.dir = DirOf(i)
    /\ ~Exists(i) \/ \E q \in Patchers \ {p} : i \in WorkedOn(q)

DeleteHolds(d, k) == dpc[d] = "broken" /\ k = dposter[d].key

Accounted(k) ==
  \/ Referenced(k) \/ Stray(k)
  \/ \E q \in PosterRequests : JobHolds(q, k)
  \/ \E p \in Patchers : PatchHolds(p, k)
  \/ \E d \in Deleters : DeleteHolds(d, k)

(* A row that keeps a key of its own keeps the one that every request for  *)
(* it has read.                                                            *)
KeySeen(i) ==
  Exists(i) /\ rows[i].key.tag = NameOf(i) =>
    /\ \A p \in Patchers : vid[p] = i => rows[i].key = vsnap[p].key
    /\ \A d \in Deleters : did[d] = i => rows[i].key = dsnap[d].key
    /\ \A d \in Deleters :
         dposter[d].key # None /\ dsnap[d].poster = i => rows[i].key = dposter[d].key
    /\ \A q \in PosterRequests : i = PosterId(q) => rows[i].key = NewPosterKey(q)

(* What was removed does not come back.                                    *)
StaysRemoved(d) ==
  /\ dpc[d] \notin {"idle", "object", "storage_unavailable"} => dsnap[d].key \notin objects
  /\ dpc[d] \in {"poster_row", "deleted"} => dposter[d].key \notin objects

StaysDropped(q) ==
  /\ tpc[q] = "drop_row" => NewPosterKey(q) \notin objects
  /\ pjob[q] = "acked" => tpc[q] \in {"finished", "gave_up"}

KeysSeen ==
  /\ \A i \in Ids : KeySeen(i)
  /\ \A d \in Deleters : StaysRemoved(d)
  /\ \A q \in PosterRequests : StaysDropped(q)

StrandInv == KeysSeen /\ \A k \in objects : Accounted(k)

(***************************************************************************)
(* Names.                                                                  *)
(***************************************************************************)

(* Videos, posters and PATCHes are told apart, and so are two posters.     *)
LEMMA Names ==
  /\ Videos \subseteq Ids /\ None \notin Ids
  /\ \A p \in Patchers : p \notin Ids
  /\ \A v \in Videos : NameOf(v) \in Jobs /\ NameOf(v) = <<v, 1>>
  /\ \A q \in PosterRequests :
       /\ PosterId(q) \in Jobs /\ PosterId(q) \in Ids /\ PosterId(q) \notin Videos
       /\ PosterId(q)[1] = q /\ PosterId(q) # None
       /\ NameOf(PosterId(q)) = PosterId(q) /\ DirOf(PosterId(q)) = "posters"
       /\ \A r \in PosterRequests : PosterId(q) = PosterId(r) => q = r
       /\ \A v \in Videos : PosterId(q) # NameOf(v)
<1>1. 1 \in Runs
  BY StoreAssumption, PosterAssumption DEF Runs
<1>2. Videos \subseteq Uploads /\ PosterRequests \subseteq Uploads
  BY PosterAssumption
<1>3. None \notin Ids /\ Videos \subseteq Ids /\ \A p \in Patchers : p \notin Ids
  BY <1>2, StoreAssumption DEF Ids
<1>4. \A v \in Videos : NameOf(v) \in Jobs /\ NameOf(v) = <<v, 1>>
  BY <1>1, <1>2 DEF NameOf, Jobs
<1>5. ASSUME NEW q \in PosterRequests
      PROVE  /\ PosterId(q) \in Jobs /\ PosterId(q) \in Ids /\ PosterId(q) \notin Videos
             /\ PosterId(q)[1] = q /\ PosterId(q) # None
  BY <1>1, <1>2, <1>3, <1>5, StoreAssumption DEF PosterId, Jobs, Ids
<1>6. ASSUME NEW q \in PosterRequests
      PROVE  /\ NameOf(PosterId(q)) = PosterId(q) /\ DirOf(PosterId(q)) = "posters"
             /\ \A r \in PosterRequests : PosterId(q) = PosterId(r) => q = r
             /\ \A v \in Videos : PosterId(q) # NameOf(v)
  BY <1>4, <1>5, <1>6, PosterAssumption DEF NameOf, DirOf, PosterId
<1>. QED
  BY <1>3, <1>4, <1>5, <1>6

(* No row, and the row and the key of a new poster.                        *)
LEMMA NoRowFields ==
  NoRow \in Rows /\ NoRow.status = "none" /\ NoRow.poster = None /\ NoRow.rends = {} /\ NoRow.key = None
BY DEF NoRow, Rows, Statuses, Kinds, Visibilities

LEMMA NewPosterFields ==
  ASSUME TypeOK, NEW q \in PosterRequests
  PROVE  /\ NewPosterKey(q) \in Keys /\ NewPosterKey(q) # None
         /\ NewPosterKey(q).tag = PosterId(q) /\ NewPosterKey(q).dir = "posters"
         /\ NewPosterKey(q).vis = tsnap[q].vis
         /\ NewPosterRow(q) \in Rows /\ NewPosterRow(q).status = "ready"
         /\ NewPosterRow(q).key = NewPosterKey(q) /\ NewPosterRow(q).rends = {}
         /\ NewPosterRow(q).poster = None /\ NewPosterRow(q).vis = tsnap[q].vis
<1>1. tsnap[q].vis \in Visibilities
  BY DEF TypeOK, PosterTypeOK, Rows
<1>2. PosterId(q) \in Tags
  BY Names DEF Tags
<1>3. NewPosterKey(q) = [dir |-> "posters", vis |-> tsnap[q].vis, tag |-> PosterId(q), part |-> "main"]
  BY DEF NewPosterKey, Key
<1>4. NewPosterKey(q) \in Keys /\ NewPosterKey(q) # None
  BY <1>1, <1>2, <1>3, StoreAssumption DEF Keys, Dirs
<1>5. PICK row, key : row = NewPosterRow(q) /\ key = NewPosterKey(q)
  OBVIOUS
<1>6. row = [status |-> "ready", kind |-> "image", key |-> key, rends |-> {},
             vis |-> tsnap[q].vis, hash |-> None, poster |-> None, task |-> FALSE]
  BY <1>5 DEF NewPosterRow, NoRow
<1>7. row \in Rows
  BY <1>1, <1>4, <1>5, <1>6 DEF Rows, Statuses, Kinds
<1>. QED
  BY <1>3, <1>4, <1>5, <1>6, <1>7

(* A link changes nothing but the link.                                    *)
LEMMA SetPosterFields ==
  ASSUME TypeOK, NEW v \in Ids, NEW i \in Jobs
  PROVE  /\ SetPoster(v, i) \in [Ids -> Rows]
         /\ \A j \in Ids \ {v} : SetPoster(v, i)[j] = rows[j]
         /\ SetPoster(v, i)[v].status = rows[v].status
         /\ SetPoster(v, i)[v].key = rows[v].key /\ SetPoster(v, i)[v].rends = rows[v].rends
         /\ SetPoster(v, i)[v].vis = rows[v].vis
         /\ SetPoster(v, i)[v].poster = IF Exists(v) THEN i ELSE rows[v].poster
<1>1. PICK row : row = [rows[v] EXCEPT !.poster = i]
  OBVIOUS
<1>2. rows \in [Ids -> Rows] /\ rows[v] \in Rows
  BY DEF TypeOK, StoreTypeOK
<1>3. /\ row \in Rows /\ row.status = rows[v].status /\ row.key = rows[v].key
      /\ row.rends = rows[v].rends /\ row.vis = rows[v].vis /\ row.poster = i
  BY <1>1, <1>2 DEF Rows
<1>4. SetPoster(v, i) = IF Exists(v) THEN [rows EXCEPT ![v] = row] ELSE rows
  BY <1>1 DEF SetPoster, Update
<1>. QED
  BY <1>2, <1>3, <1>4

(***************************************************************************)
(* What a step of each kind of request does.                               *)
(***************************************************************************)
PosterKeeps(q) ==
  /\ \A r \in PosterRequests \ {q} :
       /\ qpc'[r] = qpc[r] /\ target'[r] = target[r] /\ seen'[r] = seen[r]
       /\ pjob'[r] = pjob[r] /\ tpc'[r] = tpc[r] /\ tsnap'[r] = tsnap[r]
  /\ tpc[q] \in AfterRow => tpc'[q] \in AfterRow
  /\ tpc[q] \in AfterLink => tpc'[q] \in AfterLink
  /\ qpc[q] # "idle" => target'[q] = target[q] /\ seen'[q] = seen[q] /\ qpc'[q] # "idle"

PosterReads(q) ==
  \/ tsnap' = tsnap
  \/ /\ tpc[q] = "load" /\ tpc'[q] = "extract" /\ rows' = rows /\ objects' = objects
     /\ rows[target[q]].status = "ready" /\ tsnap'[q] = rows[target[q]]

PosterWrites(q) ==
  \/ rows' = rows
  \/ /\ tpc[q] = "poster_row" /\ tpc'[q] \in {"link", "drop_frame"} \cap AfterRow
     /\ objects' = objects /\ rows' = [rows EXCEPT ![PosterId(q)] = NewPosterRow(q)]
  \/ /\ tpc[q] = "link" /\ tpc'[q] \in {"linked", "drop_poster"}
     /\ objects' = objects /\ rows' = SetPoster(target[q], PosterId(q))
  \/ /\ tpc[q] = "drop_row" /\ tpc'[q] \in {"finished", "gave_up"}
     /\ objects' = objects /\ rows' = [rows EXCEPT ![PosterId(q)] = NoRow]

PosterStores(q) ==
  \/ objects' = objects
  \/ /\ tpc[q] = "put" /\ rows' = rows
     /\ tpc'[q] \in {"poster_row", "gave_up"} \cup IF "lost_reply" \in Faults THEN {"finished"} ELSE {}
     /\ objects' = objects \cup {NewPosterKey(q)}
  \/ /\ tpc[q] \in {"drop_frame", "drop_poster"} /\ tpc'[q] \in {"finished", "drop_row"}
     /\ rows' = rows /\ objects' = objects \ {NewPosterKey(q)}

PosterStep(q) ==
  \/ RequestPoster(q) \/ CheckPoster(q) \/ EnqueuePoster(q)
  \/ DeliverPoster(q) \/ GeneratePoster(q) \/ AcknowledgePoster(q)

(* A request or its job makes one object, one row and one link, and takes  *)
(* back no more than that.                                                 *)
LEMMA PosterEffect ==
  ASSUME LinkInv, NEW q \in PosterRequests, PosterStep(q)
  PROVE  /\ PosterTypeOK' /\ StoreTypeOK'
         /\ PosterKeeps(q) /\ PosterReads(q) /\ PosterWrites(q) /\ PosterStores(q)
         /\ RequestFacts(q)'
<1>1. /\ TypeOK /\ PosterTypeOK /\ StoreTypeOK /\ RequestFacts(q)
      /\ PosterId(q) \in Jobs /\ PosterId(q) \in Ids /\ Videos \subseteq Ids
  BY Names DEF LinkInv, TypeOK
<1>2. /\ NewPosterKey(q) \in Keys /\ NewPosterRow(q) \in Rows /\ NoRow \in Rows
  BY <1>1, NewPosterFields, NoRowFields
<1>3. tpc[q] # "idle" => target[q] \in Videos /\ pjob[q] # "none" /\ qpc[q] \notin {"idle", "check", "enqueue"}
  BY <1>1 DEF RequestFacts
<1>. USE DEF PosterTypeOK, StoreTypeOK, RequestSteps, TaskSteps, AfterLink, AfterRow,
       requestVars, taskVars, storeVars
<1>4. CASE RequestPoster(q)
  <2>1. PICK v \in Videos :
          /\ RequestStep(q, "idle", IF rows[v].poster = None THEN "enqueue" ELSE "check")
          /\ target' = [target EXCEPT ![q] = v]
          /\ seen' = [seen EXCEPT ![q] = rows[v].poster]
    BY <1>4 DEF RequestPoster
  <2>2. UNCHANGED <<rows, objects, pjob, tpc, tsnap>>
    BY <1>4 DEF RequestPoster
  <2>3. rows[v].poster \in Jobs \cup {None}
    BY <1>1 DEF Rows
  <2>4. PosterTypeOK' /\ StoreTypeOK'
    BY <1>1, <2>1, <2>2, <2>3 DEF RequestStep
  <2>5. RequestFacts(q)' /\ PosterKeeps(q)
    BY <1>1, <2>1, <2>2 DEF RequestStep, RequestFacts, PosterKeeps
  <2>. QED
    BY <2>2, <2>4, <2>5 DEF PosterReads, PosterWrites, PosterStores
<1>5. CASE CheckPoster(q)
  <2>1. /\ UNCHANGED <<rows, objects, target, seen, pjob, tpc, tsnap>> /\ qpc[q] = "check"
        /\ \E to \in {"exists", "enqueue", "rejected"} : qpc' = [qpc EXCEPT ![q] = to]
    BY <1>5 DEF CheckPoster, RequestStep
  <2>2. PosterTypeOK' /\ StoreTypeOK'
    BY <1>1, <2>1
  <2>3. RequestFacts(q)' /\ PosterKeeps(q)
    BY <1>1, <2>1 DEF RequestFacts, PosterKeeps
  <2>. QED
    BY <2>1, <2>2, <2>3 DEF PosterReads, PosterWrites, PosterStores
<1>6. CASE EnqueuePoster(q)
  <2>1. /\ UNCHANGED <<rows, objects, target, seen, tpc, tsnap>> /\ qpc[q] = "enqueue"
        /\ \E to \in {"accepted", "rejected"} : qpc' = [qpc EXCEPT ![q] = to]
        /\ pjob' = pjob \/ pjob' = [pjob EXCEPT ![q] = "pending"]
    BY <1>6 DEF EnqueuePoster, RequestStep
  <2>2. PosterTypeOK' /\ StoreTypeOK'
    BY <1>1, <2>1
  <2>3. RequestFacts(q)' /\ PosterKeeps(q)
    BY <1>1, <2>1 DEF RequestFacts, PosterKeeps
  <2>. QED
    BY <2>1, <2>2, <2>3 DEF PosterReads, PosterWrites, PosterStores
<1>7. CASE DeliverPoster(q) \/ AcknowledgePoster(q)
  <2>1. /\ UNCHANGED <<rows, objects, qpc, target, seen, tsnap>>
        /\ \/ tpc[q] = "idle" /\ pjob[q] = "pending" /\ tpc' = [tpc EXCEPT ![q] = "load"] /\ pjob' = pjob
           \/ /\ tpc[q] \in {"finished", "gave_up"} /\ tpc' = tpc
              /\ pjob[q] = "pending" /\ pjob' = [pjob EXCEPT ![q] = "acked"]
    BY <1>7 DEF DeliverPoster, AcknowledgePoster, TaskStep
  <2>2. PosterTypeOK' /\ StoreTypeOK'
    BY <1>1, <2>1
  <2>3. RequestFacts(q)' /\ PosterKeeps(q)
    BY <1>1, <2>1 DEF RequestFacts, PosterKeeps
  <2>. QED
    BY <2>1, <2>2, <2>3 DEF PosterReads, PosterWrites, PosterStores
<1>8. ASSUME NEW from \in TaskSteps \ {"idle"}, NEW to \in TaskSteps \ {"idle"}, TaskStep(q, from, to),
             from \in AfterRow => to \in AfterRow, from \in AfterLink => to \in AfterLink,
             UNCHANGED <<qpc, target, seen, pjob>>,
             tsnap' = tsnap \/ (\E row \in Rows : tsnap' = [tsnap EXCEPT ![q] = row])
      PROVE  PosterTypeOK' /\ RequestFacts(q)' /\ PosterKeeps(q) /\ tpc[q] = from /\ tpc'[q] = to
  <2>1. tpc[q] = from /\ tpc' = [tpc EXCEPT ![q] = to] /\ tpc'[q] = to
    BY <1>1, <1>8 DEF TaskStep
  <2>2. PosterTypeOK'
    BY <1>1, <1>8, <2>1
  <2>3. RequestFacts(q)'
    BY <1>1, <1>8, <2>1 DEF RequestFacts
  <2>4. PosterKeeps(q)
    BY <1>1, <1>3, <1>8, <2>1 DEF PosterKeeps
  <2>. QED
    BY <2>1, <2>2, <2>3, <2>4
<1>9. CASE LoadVideo(q)
  <2>1. UNCHANGED <<rows, objects, qpc, target, seen, pjob>> /\ tpc[q] = "load"
    BY <1>9 DEF LoadVideo, TaskStep
  <2>2. target[q] \in Ids
    BY <1>1, <1>3, <2>1
  <2>3. CASE /\ TaskStep(q, "load", "extract") /\ rows[target[q]].status = "ready"
             /\ tsnap' = [tsnap EXCEPT ![q] = rows[target[q]]]
    <3>1. PosterTypeOK' /\ RequestFacts(q)' /\ PosterKeeps(q) /\ tpc'[q] = "extract"
      BY <1>1, <1>8, <2>1, <2>2, <2>3
    <3>2. tsnap'[q] = rows[target[q]]
      BY <1>1, <2>3
    <3>. QED
      BY <1>1, <2>1, <2>3, <3>1, <3>2 DEF PosterReads, PosterWrites, PosterStores
  <2>4. CASE TaskStep(q, "load", "finished") /\ tsnap' = tsnap
    <3>1. PosterTypeOK' /\ RequestFacts(q)' /\ PosterKeeps(q)
      BY <1>8, <2>1, <2>4
    <3>. QED
      BY <1>1, <2>1, <2>4, <3>1 DEF PosterReads, PosterWrites, PosterStores
  <2>. QED
    BY <1>9, <2>3, <2>4 DEF LoadVideo
<1>10. CASE ExtractPoster(q) \/ ReadNewLink(q)
  <2>1. UNCHANGED <<rows, objects, qpc, target, seen, pjob, tsnap>>
    BY <1>10 DEF ExtractPoster, ReadNewLink
  <2>2. \/ TaskStep(q, "extract", "put") \/ TaskStep(q, "extract", "finished")
        \/ TaskStep(q, "linked", "finished") \/ TaskStep(q, "linked", "drop_poster")
    BY <1>10 DEF ExtractPoster, ReadNewLink
  <2>3. PosterTypeOK' /\ RequestFacts(q)' /\ PosterKeeps(q)
    BY <1>8, <2>1, <2>2
  <2>. QED
    BY <1>1, <2>1, <2>3 DEF PosterReads, PosterWrites, PosterStores
<1>11. CASE PutPoster(q)
  <2>1. UNCHANGED <<rows, qpc, target, seen, pjob, tsnap>>
    BY <1>11 DEF PutPoster
  <2>2. \/ TaskStep(q, "put", "poster_row") /\ objects' = objects \cup {NewPosterKey(q)}
        \/ /\ TaskStep(q, "put", "finished")
           /\ objects' = objects \/ ("lost_reply" \in Faults /\ objects' = objects \cup {NewPosterKey(q)})
        \/ /\ TaskStep(q, "put", "gave_up")
           /\ objects' = objects \/ objects' = objects \cup {NewPosterKey(q)}
    BY <1>11 DEF PutPoster, Put, PutRefused, PutEscapes
  <2>3. PosterTypeOK' /\ RequestFacts(q)' /\ PosterKeeps(q)
    BY <1>8, <2>1, <2>2
  <2>4. StoreTypeOK'
    BY <1>1, <1>2, <2>1, <2>2
  <2>5. PosterStores(q)
    BY <1>1, <2>1, <2>2 DEF PosterStores, TaskStep
  <2>. QED
    BY <2>1, <2>3, <2>4, <2>5 DEF PosterReads, PosterWrites
<1>12. CASE CreatePosterRow(q)
  <2>1. UNCHANGED <<objects, qpc, target, seen, pjob, tsnap>>
    BY <1>12 DEF CreatePosterRow
  <2>2. PICK created : created = [rows EXCEPT ![PosterId(q)] = NewPosterRow(q)]
    OBVIOUS
  <2>3. \/ TaskStep(q, "poster_row", "link") /\ rows' = created
        \/ /\ TaskStep(q, "poster_row", "drop_frame")
           /\ rows' = rows \/ ("lost_reply" \in Faults /\ rows' = created)
    BY <1>12, <2>2 DEF CreatePosterRow, StatementRaises, Insert
  <2>4. PosterTypeOK' /\ RequestFacts(q)' /\ PosterKeeps(q)
    BY <1>8, <2>1, <2>3
  <2>5. StoreTypeOK'
    BY <1>1, <1>2, <2>1, <2>2, <2>3
  <2>6. PosterWrites(q)
    BY <1>1, <2>1, <2>2, <2>3 DEF PosterWrites, TaskStep
  <2>. QED
    BY <2>1, <2>4, <2>5, <2>6 DEF PosterReads, PosterStores
<1>13. CASE LinkNewPoster(q)
  <2>1. UNCHANGED <<objects, qpc, target, seen, pjob, tsnap>> /\ tpc[q] = "link"
    BY <1>13 DEF LinkNewPoster, TaskStep
  <2>2. PICK linked : linked = SetPoster(target[q], PosterId(q))
    OBVIOUS
  <2>3. \E to \in {"linked", "drop_poster"} :
          TaskStep(q, "link", to) /\ (rows' = linked \/ rows' = rows)
    BY <1>13, <2>2 DEF LinkNewPoster, StatementRaises
  <2>4. PosterTypeOK' /\ RequestFacts(q)' /\ PosterKeeps(q)
    BY <1>8, <2>1, <2>3
  <2>5. linked \in [Ids -> Rows]
    BY <1>1, <1>3, <2>1, <2>2, SetPosterFields
  <2>6. StoreTypeOK'
    BY <1>1, <2>1, <2>3, <2>5
  <2>7. PosterWrites(q)
    BY <1>1, <2>1, <2>2, <2>3 DEF PosterWrites, TaskStep
  <2>. QED
    BY <2>1, <2>4, <2>6, <2>7 DEF PosterReads, PosterStores
<1>14. CASE DropNewObject(q)
  <2>1. UNCHANGED <<rows, qpc, target, seen, pjob, tsnap>>
    BY <1>14 DEF DropNewObject
  <2>2. \/ /\ TaskStep(q, "drop_frame", "finished") \/ TaskStep(q, "drop_poster", "drop_row")
           /\ objects' = objects \/ objects' = objects \ {NewPosterKey(q)}
        \/ /\ TaskStep(q, "drop_frame", "gave_up") \/ TaskStep(q, "drop_poster", "gave_up")
           /\ objects' = objects
    BY <1>14 DEF DropNewObject, RemoveSuppressed, Remove, RemoveRefused, RemoveEscapes
  <2>3. PosterTypeOK' /\ RequestFacts(q)' /\ PosterKeeps(q)
    BY <1>8, <2>1, <2>2
  <2>4. StoreTypeOK' /\ PosterStores(q)
    BY <1>1, <2>1, <2>2 DEF PosterStores, TaskStep
  <2>. QED
    BY <2>1, <2>3, <2>4 DEF PosterReads, PosterWrites
<1>15. CASE DropNewRow(q)
  <2>1. UNCHANGED <<objects, qpc, target, seen, pjob, tsnap>>
    BY <1>15 DEF DropNewRow
  <2>2. PICK dropped : dropped = [rows EXCEPT ![PosterId(q)] = NoRow]
    OBVIOUS
  <2>3. \E to \in {"finished", "gave_up"} :
          TaskStep(q, "drop_row", to) /\ (rows' = dropped \/ rows' = rows)
    BY <1>15, <2>2 DEF DropNewRow, StatementRaises, DeleteRow
  <2>4. PosterTypeOK' /\ RequestFacts(q)' /\ PosterKeeps(q)
    BY <1>8, <2>1, <2>3
  <2>5. StoreTypeOK'
    BY <1>1, <1>2, <2>1, <2>2, <2>3
  <2>6. PosterWrites(q)
    BY <1>1, <2>1, <2>2, <2>3 DEF PosterWrites, TaskStep
  <2>. QED
    BY <2>1, <2>4, <2>5, <2>6 DEF PosterReads, PosterStores
<1>. QED
  BY <1>4, <1>5, <1>6, <1>7, <1>9, <1>10, <1>11, <1>12, <1>13, <1>14, <1>15
     DEF PosterStep, GeneratePoster

DeleteKeeps(d) ==
  /\ \A e \in Deleters \ {d} :
       dpc'[e] = dpc[e] /\ did'[e] = did[e] /\ dsnap'[e] = dsnap[e] /\ dposter'[e] = dposter[e]
  /\ dpc'[d] \notin {"idle", "renditions"}

(* A DELETE begins, finds the poster, or goes on with what it has read:    *)
(* it removes the object and the row of the video, then of the poster.     *)
DeleteLoads(d) ==
  /\ dpc[d] = "idle" /\ dpc'[d] = "object" /\ rows' = rows /\ objects' = objects /\ dposter' = dposter
  /\ \E i \in Ids : Exists(i) /\ did'[d] = i /\ dsnap'[d] = rows[i]

DeleteCascades(d) ==
  /\ dpc[d] = "load_poster" /\ dpc'[d] = "poster_object"
  /\ rows' = rows /\ objects' = objects /\ did' = did /\ dsnap' = dsnap
  /\ Exists(dsnap[d].poster) /\ dposter'[d] = rows[dsnap[d].poster]

DeleteRuns(d) ==
  /\ did' = did /\ dsnap' = dsnap /\ dposter' = dposter
  /\ \/ /\ dpc[d] = "object" /\ rows' = rows
        /\ \/ dpc'[d] = "row" /\ objects' = objects \ {dsnap[d].key}
           \/ dpc'[d] = "storage_unavailable" /\ objects' = objects
     \/ /\ dpc[d] = "row" /\ objects' = objects
        /\ \/ dpc'[d] \in {"load_poster", "deleted"} /\ rows' = [rows EXCEPT ![did[d]] = NoRow]
           \/ /\ dpc'[d] = "store_unavailable"
              /\ \/ rows' = rows
                 \/ "lost_reply" \in Faults /\ rows' = [rows EXCEPT ![did[d]] = NoRow]
        /\ dpc'[d] = "load_poster" => did[d] \in Videos /\ dsnap[d].poster # None
     \/ dpc[d] = "load_poster" /\ dpc'[d] = "deleted" /\ rows' = rows /\ objects' = objects
     \/ /\ dpc[d] = "poster_object" /\ rows' = rows
        /\ \/ /\ dpc'[d] = "poster_row"
              /\ \/ objects' = objects \ {dposter[d].key}
                 \/ "remove" \in Faults /\ objects' = objects
           \/ dpc'[d] = "broken" /\ objects' = objects
     \/ /\ dpc[d] = "poster_row" /\ dpc'[d] = "deleted" /\ objects' = objects
        /\ rows' = rows \/ rows' = [rows EXCEPT ![dsnap[d].poster] = NoRow]

LEMMA DeleteEffect ==
  ASSUME LinkInv, NEW d \in Deleters, LoadForDelete(d) \/ Delete(d)
  PROVE  /\ StoreTypeOK' /\ DeleteTypeOK' /\ DeleteKeeps(d)
         /\ DeleteLoads(d) \/ DeleteCascades(d) \/ DeleteRuns(d)
<1>1. /\ StoreTypeOK /\ DeleteTypeOK /\ DeleteFacts(d) /\ NoRow \in Rows
      /\ dsnap[d] \in Rows /\ Jobs \subseteq Ids
  BY NoRowFields DEF LinkInv, TypeOK, DeleteTypeOK, Ids
<1>2. dpc[d] # "idle" =>
        /\ did[d] \in Ids /\ dsnap[d].rends = {}
        /\ dsnap[d].poster # None => did[d] \in Videos /\ dsnap[d].poster \in Ids
  BY <1>1 DEF DeleteFacts, RowOf, Rows
<1>. USE DEF DeleteTypeOK, DeleteSteps, StoreTypeOK
<1>3. CASE LoadForDelete(d)
  BY <1>1, <1>3 DEF LoadForDelete, DeleteStep, storeVars, DeleteKeeps, DeleteLoads
<1>4. CASE DeleteObject(d)
  <2>1. dsnap[d].rends = {}
    BY <1>2, <1>4 DEF DeleteObject, DeleteStep
  <2>2. /\ dpc[d] = "object" /\ rows' = rows /\ UNCHANGED <<did, dsnap, dposter>>
        /\ \/ objects' = objects \ {dsnap[d].key} /\ dpc' = [dpc EXCEPT ![d] = "row"]
           \/ objects' = objects /\ dpc' = [dpc EXCEPT ![d] = "storage_unavailable"]
    BY <1>4, <2>1
       DEF DeleteObject, DeleteStep, Remove, RemoveRaises, RemoveRefused, RemoveEscapes, Remaining
  <2>. QED
    BY <1>1, <2>2 DEF DeleteKeeps, DeleteRuns
<1>5. CASE DeleteRecord(d)
  <2>1. did[d] \in Ids /\ (dsnap[d].poster # None => did[d] \in Videos)
    BY <1>2, <1>5 DEF DeleteRecord, DeleteStep
  <2>2. PICK dropped : dropped = [rows EXCEPT ![did[d]] = NoRow]
    OBVIOUS
  <2>3. dropped \in [Ids -> Rows]
    BY <1>1, <2>1, <2>2
  <2>4. dpc[d] = "row" /\ UNCHANGED <<objects, did, dsnap, dposter>>
    BY <1>5 DEF DeleteRecord, DeleteStep
  <2>5. \/ /\ rows' = dropped
           /\ \E to \in {"load_poster", "deleted"} :
                dpc' = [dpc EXCEPT ![d] = to] /\ (to = "load_poster" => dsnap[d].poster # None)
        \/ /\ dpc' = [dpc EXCEPT ![d] = "store_unavailable"]
           /\ rows' = rows \/ ("lost_reply" \in Faults /\ rows' = dropped)
    BY <1>5, <2>2 DEF DeleteRecord, DeleteStep, DeleteRow, StatementRaises, HasPoster
  <2>6. DeleteKeeps(d) /\ StoreTypeOK' /\ DeleteTypeOK'
    BY <1>1, <2>3, <2>4, <2>5 DEF DeleteKeeps
  <2>7. DeleteRuns(d)
    BY <1>1, <2>1, <2>2, <2>4, <2>5 DEF DeleteRuns
  <2>. QED
    BY <2>6, <2>7
<1>6. CASE LoadPoster(d)
  <2>1. dsnap[d].poster \in Ids /\ rows[dsnap[d].poster] \in Rows
    BY <1>1, <1>2, <1>6 DEF LoadPoster, DeleteStep, DeleteFacts
  <2>. QED
    BY <1>1, <1>6, <2>1 DEF LoadPoster, DeleteStep, storeVars, DeleteKeeps, DeleteCascades, DeleteRuns
<1>7. CASE DeletePosterObject(d)
  BY <1>1, <1>7 DEF DeletePosterObject, DeleteStep, RemoveSuppressed, Remove, RemoveRefused, RemoveEscapes,
     DeleteKeeps, DeleteRuns
<1>8. CASE DeletePosterRecord(d)
  <2>1. dsnap[d].poster \in Ids
    BY <1>1, <1>2, <1>8 DEF DeletePosterRecord, DeleteStep, DeleteFacts
  <2>2. /\ dpc[d] = "poster_row" /\ dpc' = [dpc EXCEPT ![d] = "deleted"]
        /\ UNCHANGED <<objects, did, dsnap, dposter>>
        /\ rows' = rows \/ rows' = [rows EXCEPT ![dsnap[d].poster] = NoRow]
    BY <1>8 DEF DeletePosterRecord, DeleteStep, DeleteRowSuppressed, DeleteRow, StatementRaises
  <2>. QED
    BY <1>1, <2>1, <2>2 DEF DeleteKeeps, DeleteRuns
<1>9. ~DeleteRendition(d)
  BY <1>1 DEF DeleteRendition, DeleteStep, DeleteFacts
<1>. QED
  BY <1>3, <1>4, <1>5, <1>6, <1>7, <1>8, <1>9 DEF Delete

(* The row as a PATCH leaves it: nothing here has renditions.              *)
NewRow(p) ==
  [rows[vid[p]] EXCEPT !.vis = vwant[p], !.key = IF vcopy[p] = None THEN @ ELSE vcopy[p]]

LEMMA NewRowFields ==
  ASSUME TypeOK, NEW p \in Patchers, vid[p] \in Ids, vsnap[p].rends = {}
  PROVE  /\ Repointed(p) = IF Exists(vid[p]) THEN [rows EXCEPT ![vid[p]] = NewRow(p)] ELSE rows
         /\ NewRow(p) \in Rows
         /\ NewRow(p).status = rows[vid[p]].status /\ NewRow(p).poster = rows[vid[p]].poster
         /\ NewRow(p).rends = rows[vid[p]].rends /\ NewRow(p).vis = vwant[p]
         /\ NewRow(p).key = IF vcopy[p] = None THEN rows[vid[p]].key ELSE vcopy[p]
<1>1. rows[vid[p]] \in Rows /\ vcopy[p] \in Keys \cup {None} /\ vwant[p] \in Visibilities
  BY DEF TypeOK, StoreTypeOK, VisTypeOK
<1>2. PICK rends : rends = NullRends
  OBVIOUS
<1>3. Repointed(p) = SetVisibility(vid[p], vwant[p], vcopy[p], rends)
  BY <1>2 DEF Repointed
<1>4. PICK row : row = [rows[vid[p]] EXCEPT !.vis = vwant[p],
                                            !.key = IF vcopy[p] = None THEN @ ELSE vcopy[p],
                                            !.rends = IF rends = NullRends THEN @ ELSE rends]
  OBVIOUS
<1>5. PICK new : new = NewRow(p)
  OBVIOUS
<1>6. new = [rows[vid[p]] EXCEPT !.vis = vwant[p], !.key = IF vcopy[p] = None THEN @ ELSE vcopy[p]]
  BY <1>5 DEF NewRow
<1>7. row = new
  BY <1>1, <1>2, <1>4, <1>6 DEF Rows
<1>8. Repointed(p) = IF Exists(vid[p]) THEN [rows EXCEPT ![vid[p]] = row] ELSE rows
  BY <1>3, <1>4 DEF SetVisibility, Update
<1>9. /\ new \in Rows /\ new.status = rows[vid[p]].status /\ new.poster = rows[vid[p]].poster
      /\ new.rends = rows[vid[p]].rends /\ new.vis = vwant[p]
      /\ new.key = IF vcopy[p] = None THEN rows[vid[p]].key ELSE vcopy[p]
  BY <1>1, <1>6 DEF Rows
<1>. QED
  BY <1>5, <1>7, <1>8, <1>9

(* The key of a copy.                                                      *)
LEMMA RotatedKey ==
  ASSUME TypeOK, NEW p \in Patchers, NEW k \in Keys
  PROVE  /\ Rotated(p, k) \in Keys /\ Rotated(p, k).tag = p
         /\ Rotated(p, k).vis = vwant[p] /\ Rotated(p, k).dir = k.dir
<1>1. p \in Tags /\ vwant[p] \in Visibilities
  BY DEF Tags, TypeOK, VisTypeOK
<1>. QED
  BY <1>1 DEF Rotated, Keys

VisKeeps(p) ==
  /\ \A q \in Patchers \ {p} :
       /\ vpc'[q] = vpc[q] /\ vid'[q] = vid[q] /\ vwant'[q] = vwant[q] /\ vsnap'[q] = vsnap[q]
       /\ vcopy'[q] = vcopy[q] /\ vrends'[q] = vrends[q] /\ vleft'[q] = vleft[q]
  /\ vpc[p] \notin {"answered", "broken"} /\ vpc'[p] \notin {"idle", "copy_renditions"}

(* A PATCH begins, or goes on to the poster.                               *)
VisLoads(p) ==
  /\ vpc[p] = "idle" /\ vpc'[p] \in {"copy", "update"} /\ rows' = rows /\ objects' = objects
  /\ vcopy' = vcopy /\ vrends' = vrends /\ vleft' = vleft
  /\ \E i \in Ids : Exists(i) /\ vid'[p] = i /\ vsnap'[p] = rows[i]

VisCascades(p) ==
  /\ vpc[p] = "load_poster" /\ vpc'[p] = "copy" /\ rows' = rows /\ objects' = objects
  /\ vwant' = vwant /\ vleft' = vleft /\ vcopy'[p] = None /\ vrends'[p] = {}
  /\ Exists(vsnap[p].poster)
  /\ vid'[p] = vsnap[p].poster /\ vsnap'[p] = rows[vsnap[p].poster]

(* It copies the object, or finds it gone.                                 *)
VisCopies(p) ==
  /\ vpc[p] = "copy" /\ rows' = rows
  /\ \/ vpc'[p] = "update" /\ objects' = objects /\ vcopy' = vcopy /\ vleft' = vleft
     \/ /\ vpc'[p] = "update" /\ vleft'[p] = {}
        /\ vcopy'[p] = Rotated(p, vsnap[p].key) /\ objects' = objects \cup {vcopy'[p]}
     \/ /\ vpc'[p] \in {"answered", "broken"} /\ vcopy' = vcopy /\ vleft' = vleft
        /\ \/ objects' = objects
           \/ /\ vpc'[p] = "broken" \/ "lost_reply" \in Faults
              /\ objects' = objects \cup {Rotated(p, vsnap[p].key)}

(* It re-points the row, or does not.                                      *)
VisWrites(p) ==
  /\ vpc[p] = "update" /\ objects' = objects /\ vcopy' = vcopy
  /\ \/ /\ Exists(vid[p]) /\ rows' = [rows EXCEPT ![vid[p]] = NewRow(p)]
        /\ IF vcopy[p] = None THEN vleft'[p] = {} /\ vpc'[p] \in {"answered", "load_poster"}
           ELSE vleft'[p] = {vsnap[p].key} /\ vpc'[p] = "remove_old"
     \/ /\ \/ rows' = rows
           \/ /\ "lost_reply" \in Faults /\ Exists(vid[p])
              /\ rows' = [rows EXCEPT ![vid[p]] = NewRow(p)]
        /\ IF vcopy[p] = None THEN vleft'[p] = {} /\ vpc'[p] = "answered"
           ELSE vleft'[p] = {vcopy[p]} /\ vpc'[p] = "undo"

(* It removes what it no longer needs.                                     *)
VisRemoves(p) ==
  /\ vpc[p] \in {"undo", "remove_old"} /\ rows' = rows /\ vcopy' = vcopy
  /\ \/ \E k \in vleft[p] :
          /\ vleft'[p] = vleft[p] \ {k}
          /\ \/ objects' = objects \ {k}
             \/ "remove" \in Faults /\ objects' = objects
          /\ \/ vpc'[p] = vpc[p]
             \/ vleft'[p] = {} /\ vpc'[p] \in {"answered", "load_poster"}
     \/ vpc'[p] = "broken" /\ objects' = objects /\ vleft' = vleft

VisRuns(p) ==
  /\ vid' = vid /\ vwant' = vwant /\ vsnap' = vsnap /\ vrends' = vrends
  /\ vpc'[p] = "load_poster" => vsnap[p].poster # None
  /\ \/ VisCopies(p) \/ VisWrites(p) \/ VisRemoves(p)
     \/ /\ vpc[p] = "load_poster" /\ vpc'[p] = "answered"
        /\ rows' = rows /\ objects' = objects /\ vcopy' = vcopy /\ vleft' = vleft

LEMMA VisEffect ==
  ASSUME LinkInv, NEW p \in Patchers, LoadForVisibility(p) \/ Patch(p)
  PROVE  /\ StoreTypeOK' /\ VisTypeOK' /\ VisKeeps(p)
         /\ VisLoads(p) \/ VisCascades(p) \/ VisRuns(p)
<1>1. /\ TypeOK /\ StoreTypeOK /\ VisTypeOK /\ VisFacts(p) /\ vsnap[p] \in Rows /\ Jobs \subseteq Ids
  BY DEF LinkInv, TypeOK, VisTypeOK, Ids
<1>2. /\ vcopy[p] \in Keys \cup {None} /\ vrends[p] = {} /\ vleft[p] \subseteq Keys /\ None \notin Keys
      /\ vpc[p] # "idle" =>
           /\ vid[p] \in Ids /\ vsnap[p].key \in Keys /\ vsnap[p].rends = {}
           /\ vsnap[p].poster # None => vsnap[p].poster \in Ids
  BY <1>1, StoreAssumption DEF VisFacts, VisTypeOK, RowOf, Rows
<1>. USE DEF VisTypeOK, VisSteps, StoreTypeOK
<1>3. CASE LoadForVisibility(p)
  <2>1. PICK id \in Ids, want \in Visibilities :
          /\ Exists(id)
          /\ VisStep(p, "idle", IF rows[id].vis = want THEN "update" ELSE "copy")
          /\ vid' = [vid EXCEPT ![p] = id]
          /\ vwant' = [vwant EXCEPT ![p] = want]
          /\ vsnap' = [vsnap EXCEPT ![p] = rows[id]]
    BY <1>3 DEF LoadForVisibility
  <2>2. UNCHANGED <<rows, objects, vcopy, vrends, vleft>>
    BY <1>3 DEF LoadForVisibility, storeVars
  <2>3. StoreTypeOK' /\ VisTypeOK'
    BY <1>1, <2>1, <2>2 DEF VisStep
  <2>4. VisKeeps(p)
    BY <1>1, <2>1, <2>2 DEF VisStep, VisKeeps
  <2>5. VisLoads(p)
    BY <1>1, <2>1, <2>2 DEF VisStep, VisLoads
  <2>. QED
    BY <2>3, <2>4, <2>5
<1>4. CASE CopyMissing(p)
  <2>1. /\ vpc[p] = "copy" /\ vpc' = [vpc EXCEPT ![p] = "update"]
        /\ UNCHANGED <<rows, objects, vid, vwant, vsnap, vcopy, vrends, vleft>>
    BY <1>4 DEF CopyMissing, VisStep, storeVars
  <2>. QED
    BY <1>1, <2>1 DEF VisKeeps, VisRuns, VisCopies
<1>5. CASE CopyObject(p)
  <2>1. PICK copy : copy = Rotated(p, vsnap[p].key)
    OBVIOUS
  <2>2. vpc[p] = "copy" /\ UNCHANGED <<rows, vid, vwant, vsnap, vrends>> /\ vsnap[p].rends = {}
    BY <1>2, <1>5 DEF CopyObject
  <2>3. copy \in Keys
    BY <1>1, <1>2, <2>1, <2>2, RotatedKey
  <2>4. \/ /\ objects' = objects \cup {copy}
           /\ vcopy' = [vcopy EXCEPT ![p] = copy] /\ vleft' = [vleft EXCEPT ![p] = {}]
           /\ vpc' = [vpc EXCEPT ![p] = "update"]
        \/ /\ UNCHANGED <<vcopy, vleft>>
           /\ \E to \in {"answered", "broken"} :
                /\ vpc' = [vpc EXCEPT ![p] = to]
                /\ \/ objects' = objects
                   \/ (to = "broken" \/ "lost_reply" \in Faults) /\ objects' = objects \cup {copy}
    BY <1>5, <2>1, <2>2 DEF CopyObject, VisStep, Put, PutRefused, PutEscapes
  <2>5. StoreTypeOK' /\ VisTypeOK'
    BY <1>1, <2>2, <2>3, <2>4
  <2>6. VisKeeps(p)
    BY <1>1, <2>2, <2>4 DEF VisKeeps
  <2>7. VisCopies(p)
    BY <1>1, <2>1, <2>2, <2>4 DEF VisCopies
  <2>8. vpc'[p] # "load_poster"
    BY <1>1, <2>4
  <2>. QED
    BY <2>2, <2>5, <2>6, <2>7, <2>8 DEF VisRuns
<1>6. CASE UpdateVisibility(p)
  <2>1. vpc[p] = "update" /\ UNCHANGED <<objects, vid, vwant, vsnap, vcopy, vrends>> /\ vid[p] \in Ids
    BY <1>2, <1>6 DEF UpdateVisibility
  <2>2. PICK new : new = [rows EXCEPT ![vid[p]] = NewRow(p)]
    OBVIOUS
  <2>3. /\ Repointed(p) = IF Exists(vid[p]) THEN new ELSE rows
        /\ new \in [Ids -> Rows]
    BY <1>1, <1>2, <2>1, <2>2, NewRowFields
  <2>4. Held(vsnap[p]) = {vsnap[p].key} /\ {vcopy[p]} \cup vrends[p] = {vcopy[p]}
    BY <1>2, <2>1 DEF Held
  <2>5. PICK to \in {"answered", "load_poster"} : to = Cascade(p) /\ (to = "load_poster" => vsnap[p].poster # None)
    BY DEF Cascade
  <2>6. \/ /\ Exists(vid[p]) /\ rows' = new
           /\ vleft' = [vleft EXCEPT ![p] = IF vcopy[p] = None THEN {} ELSE {vsnap[p].key}]
           /\ vpc' = [vpc EXCEPT ![p] = IF vcopy[p] = None THEN to ELSE "remove_old"]
        \/ /\ rows' = rows \/ ("lost_reply" \in Faults /\ Exists(vid[p]) /\ rows' = new)
           /\ vleft' = [vleft EXCEPT ![p] = IF vcopy[p] = None THEN {} ELSE {vcopy[p]}]
           /\ vpc' = [vpc EXCEPT ![p] = IF vcopy[p] = None THEN "answered" ELSE "undo"]
    BY <1>6, <2>3, <2>4, <2>5 DEF UpdateVisibility, VisStep, StatementRaises
  <2>7. StoreTypeOK' /\ VisTypeOK'
    <3>1. rows' \in [Ids -> Rows]
      BY <1>1, <2>3, <2>6
    <3>2. vleft' \in [Patchers -> SUBSET Keys]
      BY <1>1, <1>2, <2>1, <2>6
    <3>3. vpc' \in [Patchers -> VisSteps]
      BY <1>1, <2>5, <2>6
    <3>. QED
      BY <1>1, <2>1, <3>1, <3>2, <3>3
  <2>8. VisKeeps(p)
    BY <1>1, <2>1, <2>5, <2>6 DEF VisKeeps
  <2>9. VisWrites(p)
    BY <1>1, <2>1, <2>2, <2>5, <2>6 DEF VisWrites
  <2>10. vpc'[p] = "load_poster" => vsnap[p].poster # None
    BY <1>1, <2>5, <2>6
  <2>. QED
    BY <2>1, <2>7, <2>8, <2>9, <2>10 DEF VisRuns
<1>7. CASE RemoveCopies(p) \/ RemoveOld(p)
  <2>1. UNCHANGED <<rows, vid, vwant, vsnap, vcopy, vrends>>
    BY <1>7 DEF RemoveCopies, RemoveOld
  <2>2. PICK last \in {"answered", "load_poster"} :
          last = Cascade(p) /\ (last = "load_poster" => vsnap[p].poster # None)
    BY DEF Cascade
  <2>3. PICK from \in {"undo", "remove_old"}, to \in VisSteps :
          /\ vpc[p] = from /\ vpc' = [vpc EXCEPT ![p] = to]
          /\ \/ \E k \in vleft[p] :
                  /\ objects' = objects \ {k} \/ ("remove" \in Faults /\ objects' = objects)
                  /\ vleft' = [vleft EXCEPT ![p] = @ \ {k}]
                  /\ IF vleft[p] = {k} THEN to \in {"answered", last} ELSE to = from
             \/ to = "broken" /\ objects' = objects /\ vleft' = vleft
    <3>1. CASE RemoveCopies(p)
      BY <1>7, <2>2, <3>1 DEF RemoveCopies, VisStep, RemoveSuppressed, Remove, RemoveRefused, RemoveEscapes
    <3>2. CASE RemoveOld(p)
      BY <1>7, <2>2, <3>2 DEF RemoveOld, VisStep, RemoveSuppressed, Remove, RemoveRefused, RemoveEscapes
    <3>. QED
      BY <1>7, <3>1, <3>2
  <2>4. /\ objects' \subseteq objects /\ vleft' \in [Patchers -> SUBSET Keys]
        /\ \A q \in Patchers \ {p} : vleft'[q] = vleft[q]
    BY <1>1, <2>3
  <2>5. StoreTypeOK' /\ VisTypeOK'
    BY <1>1, <2>1, <2>3, <2>4
  <2>6. to \in {from, "answered", "broken", last}
    BY <2>3
  <2>7. VisKeeps(p)
    BY <1>1, <2>1, <2>2, <2>3, <2>4, <2>6 DEF VisKeeps
  <2>8. VisRemoves(p)
    <3>1. CASE to = "broken" /\ objects' = objects /\ vleft' = vleft
      BY <1>1, <2>1, <2>3, <3>1 DEF VisRemoves
    <3>2. ASSUME NEW k \in vleft[p],
                 objects' = objects \ {k} \/ ("remove" \in Faults /\ objects' = objects),
                 vleft' = [vleft EXCEPT ![p] = @ \ {k}],
                 IF vleft[p] = {k} THEN to \in {"answered", last} ELSE to = from
          PROVE  VisRemoves(p)
      <4>1. vleft'[p] = vleft[p] \ {k} /\ vpc'[p] = to
        BY <1>1, <2>3, <3>2
      <4>2. vpc'[p] = vpc[p] \/ (vleft'[p] = {} /\ vpc'[p] \in {"answered", "load_poster"})
        BY <2>2, <2>3, <3>2, <4>1
      <4>. QED
        BY <2>1, <2>3, <3>2, <4>1, <4>2 DEF VisRemoves
    <3>. QED
      BY <2>3, <3>1, <3>2
  <2>9. vpc'[p] = "load_poster" => vsnap[p].poster # None
    BY <1>1, <2>2, <2>3, <2>6
  <2>. QED
    BY <2>1, <2>5, <2>7, <2>8, <2>9 DEF VisRuns
<1>8. CASE LoadPosterForVisibility(p)
  <2>1. PICK poster \in Ids : poster = vsnap[p].poster
    BY <1>1, <1>2, <1>8 DEF LoadPosterForVisibility, VisFacts
  <2>2. /\ vpc[p] = "load_poster" /\ UNCHANGED <<rows, objects, vwant, vleft>>
        /\ \/ /\ Exists(poster) /\ vpc' = [vpc EXCEPT ![p] = "copy"]
              /\ vid' = [vid EXCEPT ![p] = poster] /\ vsnap' = [vsnap EXCEPT ![p] = rows[poster]]
              /\ vcopy' = [vcopy EXCEPT ![p] = None] /\ vrends' = [vrends EXCEPT ![p] = {}]
           \/ vpc' = [vpc EXCEPT ![p] = "answered"] /\ UNCHANGED <<vid, vsnap, vcopy, vrends>>
    BY <1>8, <2>1 DEF LoadPosterForVisibility, VisStep, storeVars
  <2>3. StoreTypeOK' /\ VisTypeOK'
    BY <1>1, <2>1, <2>2
  <2>4. VisKeeps(p)
    BY <1>1, <2>2 DEF VisKeeps
  <2>5. VisCascades(p) \/ VisRuns(p)
    BY <1>1, <2>1, <2>2 DEF VisCascades, VisRuns
  <2>. QED
    BY <2>3, <2>4, <2>5
<1>9. ~CopyRendition(p)
  BY <1>1 DEF CopyRendition, VisFacts
<1>. QED
  BY <1>3, <1>4, <1>5, <1>6, <1>7, <1>8, <1>9 DEF Patch

(***************************************************************************)
(* Every step keeps LinkInv.                                               *)
(***************************************************************************)

(* What jobs have made stays made.                                         *)
JobsGoOn ==
  \A q \in PosterRequests :
    /\ tpc[q] \in AfterRow => tpc'[q] \in AfterRow
    /\ tpc[q] \in AfterLink => tpc'[q] \in AfterLink /\ target'[q] = target[q]

LEMMA PosterGoesOn ==
  ASSUME LinkInv, NEW q \in PosterRequests, PosterKeeps(q)
  PROVE  JobsGoOn
<1>1. tpc[q] \in AfterLink => qpc[q] # "idle"
  BY DEF LinkInv, RequestFacts, AfterLink
<1>. QED
  BY <1>1 DEF PosterKeeps, JobsGoOn

LEMMA RowsOfKept ==
  ASSUME JobsGoOn
  PROVE  /\ \A i : Made(i) => Made(i)'
         /\ \A v, i : Linked(v, i) => Linked(v, i)'
         /\ \A i, row : RowOf(i, row) => RowOf(i, row)'
BY DEF JobsGoOn, Made, Linked, RowOf

(* No video comes back.                                                    *)
LEMMA RequestsKept ==
  ASSUME LinkInv, JobsGoOn, \A v \in Videos : Exists(v)' => Exists(v)
  PROVE  /\ \A d \in Deleters :
              dpc'[d] = dpc[d] /\ did'[d] = did[d] /\ dsnap'[d] = dsnap[d] /\ dposter'[d] = dposter[d]
                => DeleteFacts(d)'
         /\ \A p \in Patchers :
              vpc'[p] = vpc[p] /\ vid'[p] = vid[p] /\ vsnap'[p] = vsnap[p] /\ vrends'[p] = vrends[p]
                => VisFacts(p)'
<1>1. /\ \A v, i : Linked(v, i) => Linked(v, i)'
      /\ \A i, row : RowOf(i, row) => RowOf(i, row)'
  BY RowsOfKept
<1>2. ASSUME NEW d \in Deleters, dpc'[d] = dpc[d], did'[d] = did[d], dsnap'[d] = dsnap[d],
             dposter'[d] = dposter[d]
      PROVE  DeleteFacts(d)'
  <2>1. PICK i, snap, poster : i = did[d] /\ snap = dsnap[d] /\ poster = dposter[d]
    OBVIOUS
  <2>2. DeleteFacts(d)
    BY DEF LinkInv
  <2>. QED
    BY <1>1, <1>2, <2>1, <2>2 DEF DeleteFacts, RowOf, Made, Linked
<1>3. ASSUME NEW p \in Patchers, vpc'[p] = vpc[p], vid'[p] = vid[p], vsnap'[p] = vsnap[p],
             vrends'[p] = vrends[p]
      PROVE  VisFacts(p)'
  <2>1. VisFacts(p)
    BY DEF LinkInv
  <2>. QED
    BY <1>1, <1>3, <2>1 DEF VisFacts, RowOf, Made, Linked
<1>. QED
  BY <1>2, <1>3

(* DELETE and PATCH requests change no link.                               *)
LinksStay ==
  \A i \in Ids : Exists(i)' =>
    /\ Exists(i) /\ rows'[i].status = rows[i].status /\ rows'[i].key # None
    /\ rows'[i].rends = rows[i].rends /\ rows'[i].poster = rows[i].poster

LEMMA RowsKept ==
  ASSUME LinkInv, UNCHANGED posterVars, LinksStay
  PROVE  /\ KeysNotNull' /\ JobsGoOn
         /\ \A q \in PosterRequests : RequestFacts(q)' /\ SeenFacts(q)' /\ LinkFacts(q)'
         /\ \A i \in Ids : Exists(i)' => RowOf(i, rows[i])'
<1>1. UNCHANGED <<qpc, target, seen, pjob, tpc, tsnap>>
  BY DEF posterVars, requestVars, taskVars
<1>2. JobsGoOn
  BY <1>1 DEF JobsGoOn
<1>3. KeysNotNull'
  BY DEF LinksStay, KeysNotNull
<1>4. ASSUME NEW q \in PosterRequests
      PROVE  RequestFacts(q)' /\ SeenFacts(q)' /\ LinkFacts(q)'
  <2>1. RequestFacts(q) /\ SeenFacts(q) /\ LinkFacts(q) /\ PosterTypeOK
    BY DEF LinkInv, TypeOK
  <2>2. RequestFacts(q)'
    BY <1>1, <2>1 DEF RequestFacts
  <2>3. seen[q] # None => seen[q] \in Ids
    BY <2>1 DEF PosterTypeOK, Ids
  <2>4. SeenFacts(q)'
    BY <1>1, <2>1, <2>3 DEF SeenFacts, Linked, LinksStay
  <2>5. tpc[q] = "linked" => target[q] \in Ids
    BY <2>1, Names DEF RequestFacts
  <2>6. LinkFacts(q)'
    BY <1>1, <2>1, <2>5 DEF LinkFacts, LinksStay
  <2>. QED
    BY <2>2, <2>4, <2>6
<1>5. ASSUME NEW i \in Ids, Exists(i)'
      PROVE  RowOf(i, rows[i])'
  <2>1. RowOf(i, rows[i])
    BY <1>5 DEF LinksStay, LinkInv
  <2>. QED
    BY <1>1, <1>5, <2>1 DEF RowOf, Made, Linked, LinksStay
<1>. QED
  BY <1>2, <1>3, <1>4, <1>5

LEMMA DeleteLinks ==
  ASSUME LinkInv, DeleteNext, UNCHANGED <<posterVars, visVars>>
  PROVE  LinkInv' /\ LinksStay
<1>1. PICK d \in Deleters : LoadForDelete(d) \/ Delete(d)
  BY DEF DeleteNext
<1>2. /\ StoreTypeOK' /\ DeleteTypeOK' /\ DeleteKeeps(d)
      /\ DeleteLoads(d) \/ DeleteCascades(d) \/ DeleteRuns(d)
  BY <1>1, DeleteEffect
<1>3. /\ TypeOK /\ StoreTypeOK /\ DeleteFacts(d) /\ KeysNotNull
      /\ NoRow.status = "none" /\ Videos \subseteq Ids /\ Jobs \subseteq Ids
  BY NoRowFields, Names DEF LinkInv, TypeOK, Ids
<1>4. \A i \in Ids : rows'[i] = rows[i] \/ rows'[i] = NoRow
  BY <1>2, <1>3 DEF DeleteLoads, DeleteCascades, DeleteRuns, StoreTypeOK
<1>5. LinksStay
  BY <1>3, <1>4 DEF LinksStay, Exists, KeysNotNull
<1>6. /\ KeysNotNull' /\ JobsGoOn
      /\ \A q \in PosterRequests : RequestFacts(q)' /\ SeenFacts(q)' /\ LinkFacts(q)'
      /\ \A i \in Ids : Exists(i)' => RowOf(i, rows[i])'
  BY <1>5, RowsKept
<1>7. /\ \A e \in Deleters \ {d} : DeleteFacts(e)'
      /\ \A p \in Patchers : VisFacts(p)'
  <2>1. \A v \in Videos : Exists(v)' => Exists(v)
    BY <1>3, <1>5 DEF LinksStay
  <2>. QED
    BY <1>2, <1>6, <2>1, RequestsKept DEF DeleteKeeps, visVars
<1>8. UNCHANGED <<tpc, target>>
  BY DEF posterVars, requestVars, taskVars
<1>9. DeleteFacts(d)'
  <2>1. CASE DeleteLoads(d)
    <3>1. PICK i \in Ids : Exists(i) /\ did'[d] = i /\ dsnap'[d] = rows[i]
      BY <2>1 DEF DeleteLoads
    <3>2. RowOf(i, rows[i])
      BY <3>1 DEF LinkInv
    <3>3. dposter'[d].key = None
      BY <1>3, <2>1 DEF DeleteLoads, DeleteFacts
    <3>. QED
      BY <1>8, <2>1, <3>1, <3>2, <3>3 DEF DeleteLoads, DeleteFacts, RowOf, Made, Linked
  <2>2. CASE DeleteCascades(d)
    <3>1. PICK i, poster, snap : /\ i = did[d] /\ snap = dsnap[d] /\ poster = snap.poster
                                 /\ i \in Videos /\ poster # None
      BY <1>3, <2>2 DEF DeleteCascades, DeleteFacts
    <3>2. RowOf(i, snap) /\ ~Exists(i)
      BY <1>3, <2>2, <3>1 DEF DeleteCascades, DeleteFacts
    <3>3. poster \in Ids
      BY <3>1, <3>2, Names DEF RowOf, Linked
    <3>4. RowOf(poster, rows[poster])
      BY <2>2, <3>1, <3>3 DEF LinkInv, DeleteCascades
    <3>5. /\ did' = did /\ dsnap' = dsnap /\ dposter'[d] = rows[poster] /\ rows' = rows
          /\ dpc'[d] = "poster_object"
      BY <2>2, <3>1 DEF DeleteCascades
    <3>. QED
      BY <1>3, <1>8, <3>1, <3>2, <3>4, <3>5 DEF DeleteFacts, RowOf, Made, Linked, Exists
  <2>3. CASE DeleteRuns(d)
    <3>1. PICK i, snap, poster : i = did[d] /\ snap = dsnap[d] /\ poster = dposter[d]
      OBVIOUS
    <3>2. did'[d] = i /\ dsnap'[d] = snap /\ dposter'[d] = poster /\ dpc[d] # "idle" /\ dpc'[d] \notin {"idle", "renditions"}
      BY <1>2, <2>3, <3>1 DEF DeleteRuns, DeleteKeeps
    <3>3. i \in Ids /\ RowOf(i, snap) /\ RowOf(i, snap)'
      BY <1>3, <1>8, <3>1, <3>2 DEF DeleteFacts, RowOf, Made, Linked
    <3>4. dpc'[d] \in {"load_poster", "poster_object", "poster_row"} =>
            i \in Videos /\ snap.poster # None /\ ~Exists(i)'
      <4>1. ASSUME dpc'[d] = "load_poster"
            PROVE  i \in Videos /\ snap.poster # None /\ rows' = [rows EXCEPT ![i] = NoRow]
        BY <2>3, <3>1, <4>1 DEF DeleteRuns
      <4>2. ASSUME dpc'[d] \in {"poster_object", "poster_row"}
            PROVE  dpc[d] \in {"load_poster", "poster_object", "poster_row"}
        BY <2>3, <4>2 DEF DeleteRuns
      <4>3. ~Exists(i) => ~Exists(i)'
        BY <1>5, <3>3 DEF LinksStay
      <4>. QED
        BY <1>3, <3>1, <3>3, <4>1, <4>2, <4>3 DEF DeleteFacts, Exists, StoreTypeOK
    <3>5. dpc'[d] \in {"poster_object", "poster_row"} => poster.key # None
      <4>1. dpc'[d] \in {"poster_object", "poster_row"} => dpc[d] = "poster_object"
        BY <2>3 DEF DeleteRuns
      <4>. QED
        BY <1>3, <3>1, <4>1 DEF DeleteFacts
    <3>6. poster.key # None =>
            /\ dpc'[d] \in {"poster_object", "poster_row", "deleted", "broken"}
            /\ i \in Videos /\ snap.poster # None /\ RowOf(snap.poster, poster)'
      <4>1. poster.key # None =>
              /\ dpc[d] \in {"poster_object", "poster_row", "deleted", "broken"}
              /\ i \in Videos /\ snap.poster # None /\ RowOf(snap.poster, poster)
        BY <1>3, <3>1 DEF DeleteFacts
      <4>2. dpc[d] \in {"poster_object", "poster_row", "deleted", "broken"} =>
              dpc'[d] \in {"poster_object", "poster_row", "deleted", "broken"}
        BY <2>3 DEF DeleteRuns
      <4>. QED
        BY <1>8, <4>1, <4>2 DEF RowOf, Made, Linked
    <3>. QED
      BY <3>2, <3>3, <3>4, <3>5, <3>6 DEF DeleteFacts, RowOf, Made, Linked, Exists
  <2>. QED
    BY <1>2, <2>1, <2>2, <2>3
<1>10. TypeOK'
  <2>1. PosterTypeOK' /\ VisTypeOK'
    BY <1>3 DEF TypeOK, PosterTypeOK, VisTypeOK, posterVars, requestVars, taskVars, visVars
  <2>. QED
    BY <1>2, <1>6, <2>1 DEF TypeOK
<1>. QED
  BY <1>5, <1>6, <1>7, <1>9, <1>10 DEF LinkInv

LEMMA VisLinks ==
  ASSUME LinkInv, VisNext, UNCHANGED <<posterVars, deleteVars>>
  PROVE  LinkInv' /\ LinksStay
<1>1. PICK p \in Patchers : LoadForVisibility(p) \/ Patch(p)
  BY DEF VisNext
<1>2. /\ StoreTypeOK' /\ VisTypeOK' /\ VisKeeps(p)
      /\ VisLoads(p) \/ VisCascades(p) \/ VisRuns(p)
  BY <1>1, VisEffect
<1>3. /\ TypeOK /\ StoreTypeOK /\ VisFacts(p) /\ KeysNotNull
      /\ Videos \subseteq Ids /\ Jobs \subseteq Ids
  BY Names DEF LinkInv, TypeOK, Ids
<1>4. \/ rows' = rows
      \/ vpc[p] = "update" /\ Exists(vid[p]) /\ rows' = [rows EXCEPT ![vid[p]] = NewRow(p)]
  BY <1>2 DEF VisLoads, VisCascades, VisRuns, VisCopies, VisWrites, VisRemoves
<1>5. LinksStay
  <2>1. CASE rows' = rows
    BY <1>3, <2>1 DEF LinksStay, Exists, KeysNotNull
  <2>2. CASE vpc[p] = "update" /\ Exists(vid[p]) /\ rows' = [rows EXCEPT ![vid[p]] = NewRow(p)]
    <3>1. vid[p] \in Ids /\ vsnap[p].rends = {} /\ rows[vid[p]].key # None
      BY <1>3, <2>2 DEF VisFacts, RowOf, KeysNotNull
    <3>2. /\ NewRow(p).status = rows[vid[p]].status /\ NewRow(p).poster = rows[vid[p]].poster
          /\ NewRow(p).rends = rows[vid[p]].rends /\ NewRow(p).key # None
      BY <1>3, <3>1, NewRowFields
    <3>. QED
      BY <1>3, <2>2, <3>1, <3>2 DEF LinksStay, Exists, KeysNotNull, StoreTypeOK
  <2>. QED
    BY <1>4, <2>1, <2>2
<1>6. /\ KeysNotNull' /\ JobsGoOn
      /\ \A q \in PosterRequests : RequestFacts(q)' /\ SeenFacts(q)' /\ LinkFacts(q)'
      /\ \A i \in Ids : Exists(i)' => RowOf(i, rows[i])'
  BY <1>5, RowsKept
<1>7. /\ \A q \in Patchers \ {p} : VisFacts(q)'
      /\ \A d \in Deleters : DeleteFacts(d)'
  <2>1. \A v \in Videos : Exists(v)' => Exists(v)
    BY <1>3, <1>5 DEF LinksStay
  <2>. QED
    BY <1>2, <1>6, <2>1, RequestsKept DEF VisKeeps, deleteVars
<1>8. UNCHANGED <<tpc, target>>
  BY DEF posterVars, requestVars, taskVars
<1>9. VisFacts(p)'
  <2>1. CASE VisLoads(p)
    <3>1. PICK i \in Ids : Exists(i) /\ vid'[p] = i /\ vsnap'[p] = rows[i]
      BY <2>1 DEF VisLoads
    <3>2. RowOf(i, rows[i])
      BY <3>1 DEF LinkInv
    <3>. QED
      BY <1>3, <1>8, <2>1, <3>1, <3>2 DEF VisLoads, VisFacts, RowOf, Made, Linked
  <2>2. CASE VisCascades(p)
    <3>1. PICK poster : poster = vsnap[p].poster
      OBVIOUS
    <3>2. poster \in Ids
      <4>1. vpc[p] = "load_poster" /\ RowOf(vid[p], vsnap[p]) /\ vsnap[p].poster # None
        BY <1>3, <2>2 DEF VisCascades, VisFacts
      <4>. QED
        BY <3>1, <4>1, Names DEF RowOf, Linked
    <3>3. RowOf(poster, rows[poster])
      BY <2>2, <3>1, <3>2 DEF LinkInv, VisCascades
    <3>4. vpc'[p] = "copy" /\ vid'[p] = poster /\ vsnap'[p] = rows[poster] /\ vrends'[p] = {}
      BY <2>2, <3>1 DEF VisCascades
    <3>. QED
      BY <1>8, <3>2, <3>3, <3>4 DEF VisFacts, RowOf, Made, Linked
  <2>3. CASE VisRuns(p)
    <3>1. /\ vid'[p] = vid[p] /\ vsnap'[p] = vsnap[p] /\ vrends'[p] = vrends[p]
          /\ vpc[p] # "idle" /\ vpc'[p] \notin {"idle", "copy_renditions"}
          /\ vpc'[p] = "load_poster" => vsnap[p].poster # None
      BY <1>2, <2>3 DEF VisRuns, VisKeeps, VisCopies, VisWrites, VisRemoves
    <3>. QED
      BY <1>3, <1>8, <3>1 DEF VisFacts, RowOf, Made, Linked
  <2>. QED
    BY <1>2, <2>1, <2>2, <2>3
<1>10. TypeOK'
  <2>1. PosterTypeOK' /\ DeleteTypeOK'
    BY <1>3 DEF TypeOK, PosterTypeOK, DeleteTypeOK, posterVars, requestVars, taskVars, deleteVars
  <2>. QED
    BY <1>2, <1>6, <2>1 DEF TypeOK
<1>. QED
  BY <1>5, <1>6, <1>7, <1>9, <1>10 DEF LinkInv

(* A job that has linked its poster found the video.                       *)
LEMMA LinkMade ==
  ASSUME LinkInv, NEW q \in PosterRequests, PosterStep(q), tpc[q] # "linked", tpc'[q] = "linked"
  PROVE  /\ tpc[q] = "link" /\ Exists(target[q]) /\ target' = target /\ seen' = seen
         /\ rows' = SetPoster(target[q], PosterId(q))
<1>1. PosterTypeOK
  BY DEF LinkInv, TypeOK
<1>2. tpc' # tpc
  OBVIOUS
<1>3. ~RequestPoster(q) /\ ~CheckPoster(q) /\ ~EnqueuePoster(q) /\ ~AcknowledgePoster(q)
  BY <1>2 DEF RequestPoster, CheckPoster, EnqueuePoster, AcknowledgePoster, taskVars
<1>4. \A from, to : TaskStep(q, from, to) => tpc[q] = from /\ to = "linked"
  BY <1>1 DEF TaskStep, PosterTypeOK
<1>5. LinkNewPoster(q)
  BY <1>3, <1>4 DEF PosterStep, GeneratePoster, DeliverPoster, LoadVideo, ExtractPoster, PutPoster,
     CreatePosterRow, ReadNewLink, DropNewObject, DropNewRow
<1>. QED
  BY <1>4, <1>5 DEF LinkNewPoster, requestVars

(* A request has checked the poster it has seen when it queues a job.      *)
LEMMA SeenChecked ==
  ASSUME LinkInv, NEW q \in PosterRequests, PosterStep(q), PosterKeeps(q),
         qpc[q] # "idle", qpc'[q] = "enqueue" \/ pjob'[q] # "none"
  PROVE  qpc[q] = "enqueue" \/ pjob[q] # "none" \/ ~Exists(seen[q])
<1>1. PosterTypeOK
  BY DEF LinkInv, TypeOK
<1>2. CASE qpc' = qpc /\ pjob' = pjob
  BY <1>2
<1>3. CASE CheckPoster(q)
  BY <1>1, <1>3 DEF CheckPoster, RequestStep, PosterTypeOK
<1>4. CASE EnqueuePoster(q) \/ RequestPoster(q) \/ AcknowledgePoster(q)
  BY <1>4 DEF EnqueuePoster, RequestPoster, RequestStep, AcknowledgePoster
<1>5. CASE DeliverPoster(q) \/ GeneratePoster(q)
  BY <1>2, <1>5 DEF DeliverPoster, GeneratePoster, LoadVideo, ExtractPoster, PutPoster,
     CreatePosterRow, LinkNewPoster, ReadNewLink, DropNewObject, DropNewRow, requestVars
<1>. QED
  BY <1>3, <1>4, <1>5 DEF PosterStep

(* A request reads the link of a ready video.                              *)
LEMMA SeenRead ==
  ASSUME LinkInv, NEW q \in PosterRequests, PosterStep(q), qpc[q] = "idle",
         seen'[q] # None
  PROVE  /\ rows' = rows /\ tpc' = tpc /\ target'[q] \in Videos
         /\ Linked(target'[q], seen'[q]) /\ qpc'[q] = "check" /\ pjob'[q] = "none"
         /\ \A r \in PosterRequests : tpc[r] \in AfterLink => target'[r] = target[r]
<1>1. /\ PosterTypeOK /\ RequestFacts(q) /\ tpc[q] = "idle" /\ seen[q] = None
      /\ Videos \subseteq Ids
  BY Names DEF LinkInv, TypeOK, RequestFacts
<1>2. seen' # seen
  BY <1>1
<1>3. RequestPoster(q)
  BY <1>2 DEF PosterStep, CheckPoster, EnqueuePoster, DeliverPoster, AcknowledgePoster, requestVars,
     GeneratePoster, LoadVideo, ExtractPoster, PutPoster, CreatePosterRow, LinkNewPoster,
     ReadNewLink, DropNewObject, DropNewRow
<1>4. PICK v \in Videos :
        /\ rows[v].status = "ready"
        /\ RequestStep(q, "idle", IF rows[v].poster = None THEN "enqueue" ELSE "check")
        /\ target' = [target EXCEPT ![q] = v]
        /\ seen' = [seen EXCEPT ![q] = rows[v].poster]
  BY <1>3 DEF RequestPoster
<1>5. RowOf(v, rows[v])
  BY <1>1, <1>4 DEF LinkInv, Exists
<1>6. target'[q] = v /\ seen'[q] = rows[v].poster /\ qpc'[q] = "check"
  BY <1>1, <1>4 DEF PosterTypeOK, RequestStep
<1>7. Linked(v, rows[v].poster)
  BY <1>5, <1>6 DEF RowOf
<1>8. UNCHANGED <<rows, tpc, pjob>>
  BY <1>3 DEF RequestPoster, storeVars, taskVars
<1>9. \A r \in PosterRequests : tpc[r] \in AfterLink => target'[r] = target[r]
  BY <1>1, <1>4 DEF AfterLink, PosterTypeOK
<1>. QED
  BY <1>1, <1>6, <1>7, <1>8, <1>9 DEF RequestFacts

LEMMA PosterLinks ==
  ASSUME LinkInv, PosterNext, UNCHANGED <<deleteVars, visVars>>
  PROVE  LinkInv'
<1>1. PICK q \in PosterRequests : PosterStep(q)
  BY DEF PosterNext, PosterStep
<1>2. /\ PosterTypeOK' /\ StoreTypeOK' /\ RequestFacts(q)'
      /\ PosterKeeps(q) /\ PosterReads(q) /\ PosterWrites(q) /\ PosterStores(q)
  BY <1>1, PosterEffect
<1>3. /\ TypeOK /\ StoreTypeOK /\ PosterTypeOK /\ KeysNotNull /\ RequestFacts(q)
      /\ NoRow.status = "none" /\ PosterId(q) \in Ids /\ PosterId(q) \in Jobs /\ PosterId(q) # None
      /\ PosterId(q) \notin Videos /\ Videos \subseteq Ids /\ Jobs \subseteq Ids
  BY NoRowFields, Names DEF LinkInv, TypeOK, Ids
<1>4. JobsGoOn
  BY <1>2, PosterGoesOn
<1>5. /\ \A v, i : Linked(v, i) => Linked(v, i)'
      /\ \A i, row : RowOf(i, row) => RowOf(i, row)'
  BY <1>4, RowsOfKept
<1>6. tpc[q] # "idle" => target[q] \in Videos /\ target'[q] = target[q]
  BY <1>2, <1>3 DEF RequestFacts, PosterKeeps
<1>7. ASSUME NEW i \in Ids, Exists(i)'
      PROVE  RowOf(i, rows[i])' /\ (Exists(i) \/ (i = PosterId(q) /\ tpc[q] = "poster_row"))
  <2>1. CASE rows'[i] = rows[i]
    <3>1. RowOf(i, rows[i]) /\ Exists(i)
      BY <1>7, <2>1 DEF LinkInv, Exists
    <3>. QED
      BY <1>5, <2>1, <3>1 DEF RowOf, Made, Linked
  <2>2. CASE /\ tpc[q] = "poster_row" /\ tpc'[q] \in {"link", "drop_frame"} \cap AfterRow
             /\ rows' = [rows EXCEPT ![PosterId(q)] = NewPosterRow(q)] /\ i = PosterId(q)
    <3>1. rows'[i] = NewPosterRow(q)
      BY <1>3, <2>2 DEF StoreTypeOK
    <3>2. /\ NewPosterRow(q).status = "ready" /\ NewPosterRow(q).key # None
          /\ NewPosterRow(q).rends = {} /\ NewPosterRow(q).poster = None
      BY <1>3, NewPosterFields
    <3>. QED
      BY <2>2, <3>1, <3>2 DEF RowOf, Made
  <2>3. CASE /\ tpc[q] = "link" /\ tpc'[q] \in {"linked", "drop_poster"}
             /\ rows' = SetPoster(target[q], PosterId(q)) /\ i = target[q]
    <3>1. /\ rows'[i].status = rows[i].status /\ rows'[i].key = rows[i].key
          /\ rows'[i].rends = rows[i].rends
          /\ rows'[i].poster = IF Exists(i) THEN PosterId(q) ELSE rows[i].poster
      BY <1>3, <2>3, SetPosterFields
    <3>2. Exists(i) /\ RowOf(i, rows[i])
      BY <1>7, <3>1 DEF Exists, LinkInv
    <3>3. i \in Videos /\ Linked(i, PosterId(q))'
      BY <1>6, <2>3 DEF Linked, AfterLink
    <3>. QED
      BY <1>5, <3>1, <3>2, <3>3 DEF RowOf, Made, Linked
  <2>4. CASE rows' = [rows EXCEPT ![PosterId(q)] = NoRow] /\ i = PosterId(q)
    BY <1>3, <1>7, <2>4 DEF StoreTypeOK, Exists
  <2>5. tpc[q] = "link" => target[q] \in Ids
    BY <1>3, <1>6
  <2>. QED
    BY <1>2, <1>3, <2>1, <2>2, <2>3, <2>4, <2>5, SetPosterFields DEF PosterWrites, StoreTypeOK
<1>8. KeysNotNull'
  BY <1>7 DEF KeysNotNull, RowOf
<1>9. /\ \A d \in Deleters : DeleteFacts(d)'
      /\ \A p \in Patchers : VisFacts(p)'
  <2>1. \A v \in Videos : Exists(v)' => Exists(v)
    BY <1>3, <1>7
  <2>. QED
    BY <1>4, <2>1, RequestsKept DEF deleteVars, visVars
<1>10. ASSUME NEW v \in Videos, NEW i, Linked(v, i), Exists(i)'
       PROVE  Exists(i)
  <2>1. PICK r \in PosterRequests : i = PosterId(r) /\ tpc[r] \in AfterLink
    BY <1>10 DEF Linked
  <2>2. i \in Ids
    BY <2>1, Names
  <2>3. i = PosterId(q) => tpc[q] # "poster_row"
    BY <2>1, Names DEF AfterLink
  <2>. QED
    BY <1>7, <1>10, <2>2, <2>3
<1>11. ASSUME NEW r \in PosterRequests
       PROVE  SeenFacts(r)'
  <2>1. SUFFICES ASSUME seen'[r] # None
                 PROVE  /\ Linked(target[r], seen[r])'
                        /\ qpc'[r] = "enqueue" \/ pjob'[r] # "none" => ~Exists(seen[r])'
    BY DEF SeenFacts
  <2>2. SeenFacts(r) /\ RequestFacts(r)
    BY DEF LinkInv
  <2>3. CASE r # q \/ qpc[r] # "idle"
    <3>1. seen'[r] = seen[r] /\ target'[r] = target[r] /\ Linked(target[r], seen[r])
      BY <1>2, <2>1, <2>2, <2>3 DEF PosterKeeps, SeenFacts
    <3>2. ASSUME qpc'[r] = "enqueue" \/ pjob'[r] # "none"
          PROVE  ~Exists(seen[r])
      <4>1. CASE r # q
        BY <1>2, <2>1, <2>2, <3>1, <3>2, <4>1 DEF PosterKeeps, SeenFacts
      <4>2. CASE r = q
        BY <1>1, <1>2, <2>1, <2>2, <2>3, <3>1, <3>2, <4>2, SeenChecked DEF SeenFacts
      <4>. QED
        BY <4>1, <4>2
    <3>3. PICK v, i : v = target[r] /\ i = seen[r]
      OBVIOUS
    <3>4. Linked(v, i)'
      BY <1>5, <3>1, <3>3 DEF Linked
    <3>5. v \in Videos
      BY <2>1, <2>2, <3>1, <3>3 DEF RequestFacts
    <3>6. Exists(i)' => Exists(i)
      BY <1>10, <3>1, <3>3, <3>5 DEF Linked
    <3>. QED
      BY <3>1, <3>2, <3>3, <3>4, <3>6 DEF Linked, Exists
  <2>4. CASE r = q /\ qpc[r] = "idle"
    <3>1. PICK v, i : v = target'[q] /\ i = seen'[q]
      OBVIOUS
    <3>2. /\ Linked(v, i) /\ qpc'[q] = "check" /\ pjob'[q] = "none"
      BY <1>1, <2>1, <2>4, <3>1, SeenRead
    <3>3. Linked(v, i)'
      BY <1>5, <3>2
    <3>. QED
      BY <2>4, <3>1, <3>2, <3>3 DEF Linked
  <2>. QED
    BY <2>3, <2>4
<1>12. ASSUME NEW r \in PosterRequests
       PROVE  LinkFacts(r)'
  <2>1. SUFFICES ASSUME tpc'[r] = "linked", Exists(target[r])'
                 PROVE  rows'[target'[r]].poster \notin {None, seen'[r]}
    BY DEF LinkFacts
  <2>2. /\ LinkFacts(r) /\ SeenFacts(r) /\ RequestFacts(r)
    BY DEF LinkInv
  <2>3. CASE tpc[r] # "linked"
    <3>1. r = q
      BY <1>2, <2>1, <2>3 DEF PosterKeeps
    <3>2. /\ tpc[q] = "link" /\ Exists(target[q]) /\ target' = target /\ seen' = seen
          /\ rows' = SetPoster(target[q], PosterId(q))
      BY <1>1, <2>1, <2>3, <3>1, LinkMade
    <3>3. rows'[target[q]].poster = PosterId(q)
      BY <1>3, <1>6, <3>2, SetPosterFields
    <3>4. seen[q] # PosterId(q)
      BY <1>3, <2>2, <3>1, <3>2, Names DEF SeenFacts, Linked, AfterLink
    <3>. QED
      BY <1>3, <3>1, <3>2, <3>3, <3>4
  <2>4. CASE tpc[r] = "linked"
    <3>1. target'[r] = target[r] /\ seen'[r] = seen[r] /\ target[r] \in Videos
      BY <1>2, <2>2, <2>4 DEF PosterKeeps, RequestFacts
    <3>2. PICK v \in Videos : v = target[r]
      BY <3>1
    <3>3. Exists(v)' /\ Exists(v)
      BY <1>3, <1>7, <2>1, <3>1, <3>2 DEF Exists
    <3>4. rows[v].poster \notin {None, seen[r]}
      BY <2>2, <2>4, <3>2, <3>3 DEF LinkFacts
    <3>5. rows'[v].poster = rows[v].poster \/ (rows'[v].poster = PosterId(q) /\ tpc[q] = "link")
      <4>1. tpc[q] = "link" => target[q] \in Ids
        BY <1>3, <1>6
      <4>2. v # PosterId(q) /\ v \in Ids
        BY <1>3
      <4>3. tpc[q] = "link" /\ rows' = SetPoster(target[q], PosterId(q)) =>
              rows'[v].poster \in {rows[v].poster, PosterId(q)}
        BY <1>3, <4>1, <4>2, SetPosterFields
      <4>. QED
        BY <1>2, <1>3, <4>2, <4>3 DEF PosterWrites, StoreTypeOK
    <3>6. tpc[q] = "link" => seen[r] # PosterId(q)
      BY <1>3, <2>2, Names DEF SeenFacts, Linked, AfterLink
    <3>. QED
      BY <1>3, <3>1, <3>2, <3>4, <3>5, <3>6
  <2>. QED
    BY <2>3, <2>4
<1>13. \A r \in PosterRequests : RequestFacts(r)'
  BY <1>2 DEF LinkInv, RequestFacts, PosterKeeps
<1>14. TypeOK'
  <2>1. DeleteTypeOK' /\ VisTypeOK'
    BY <1>3 DEF TypeOK, DeleteTypeOK, VisTypeOK, deleteVars, visVars
  <2>. QED
    BY <1>2, <1>8, <2>1 DEF TypeOK
<1>. QED
  BY <1>7, <1>9, <1>11, <1>12, <1>13, <1>14 DEF LinkInv

(* Videos are ready, and nothing else is there.                            *)
LEMMA LinkInit == Init => LinkInv
<1>. SUFFICES ASSUME Init PROVE LinkInv
  OBVIOUS
<1>1. PICK vis \in [Videos -> Visibilities] :
        /\ rows = [i \in Ids |-> IF i \in Videos THEN ReadyVideo(i, vis[i]) ELSE NoRow]
        /\ objects = {ReadyVideo(v, vis[v]).key : v \in Videos}
  BY DEF Init, PosterInit
<1>2. Videos \subseteq Ids /\ NoRow \in Rows /\ NoRow.status = "none"
  BY Names, NoRowFields
<1>3. ASSUME NEW v \in Videos
      PROVE  /\ ReadyVideo(v, vis[v]) \in Rows
             /\ ReadyVideo(v, vis[v]).status = "ready" /\ ReadyVideo(v, vis[v]).rends = {}
             /\ ReadyVideo(v, vis[v]).poster = None
             /\ ReadyVideo(v, vis[v]).key \in Keys /\ ReadyVideo(v, vis[v]).key # None
  <2>1. PICK row, key : row = ReadyVideo(v, vis[v]) /\ key = Key("videos", vis[v], <<v, 1>>)
    OBVIOUS
  <2>2. key = [dir |-> "videos", vis |-> vis[v], tag |-> <<v, 1>>, part |-> "main"]
    BY <2>1 DEF Key
  <2>3. <<v, 1>> \in Tags
    BY Names DEF Tags, Ids
  <2>4. key \in Keys /\ key # None
    BY <2>2, <2>3, StoreAssumption DEF Keys, Dirs
  <2>5. row = [status |-> "ready", kind |-> "video", key |-> key, rends |-> {}, vis |-> vis[v],
               hash |-> None, poster |-> None, task |-> TRUE]
    BY <2>1 DEF ReadyVideo, NoRow
  <2>6. row \in Rows
    BY <2>4, <2>5 DEF Rows, Statuses, Kinds
  <2>. QED
    BY <2>1, <2>4, <2>5, <2>6
<1>4. \A i \in Ids : Exists(i) => i \in Videos /\ rows[i] = ReadyVideo(i, vis[i])
  BY <1>1, <1>2 DEF Exists
<1>5. TypeOK
  <2>1. KeysNotNull
    BY <1>3, <1>4 DEF KeysNotNull
  <2>2. rows \in [Ids -> Rows] /\ objects \subseteq Keys
    BY <1>1, <1>2, <1>3
  <2>3. PosterTypeOK
    BY <1>2 DEF Init, PosterInit, PosterTypeOK, RequestSteps, TaskSteps
  <2>4. DeleteTypeOK /\ VisTypeOK
    BY <1>2 DEF Init, DeleteInit, VisInit, DeleteTypeOK, VisTypeOK, DeleteSteps, VisSteps, Visibilities
  <2>. QED
    BY <2>1, <2>2, <2>3, <2>4 DEF TypeOK, StoreTypeOK
<1>6. \A i \in Ids : Exists(i) => RowOf(i, rows[i])
  BY <1>3, <1>4 DEF RowOf, Made
<1>7. \A q \in PosterRequests : RequestFacts(q) /\ SeenFacts(q) /\ LinkFacts(q)
  BY DEF Init, PosterInit, RequestFacts, SeenFacts, LinkFacts
<1>8. \A d \in Deleters : DeleteFacts(d)
  BY NoRowFields DEF Init, DeleteInit, DeleteFacts
<1>9. \A p \in Patchers : VisFacts(p)
  BY DEF Init, VisInit, VisFacts
<1>. QED
  BY <1>5, <1>6, <1>7, <1>8, <1>9 DEF LinkInv

(* Nothing happens.                                                        *)
LEMMA LinkIdle ==
  ASSUME LinkInv, UNCHANGED vars
  PROVE  LinkInv'
<1>1. UNCHANGED <<rows, objects, qpc, target, seen, pjob, tpc, tsnap, dpc, did, dsnap, dposter,
                  vpc, vid, vwant, vsnap, vcopy, vrends, vleft>>
  BY DEF vars, storeVars, posterVars, requestVars, taskVars, deleteVars, visVars
<1>. QED
  BY <1>1 DEF LinkInv, TypeOK, KeysNotNull, StoreTypeOK, PosterTypeOK, DeleteTypeOK, VisTypeOK,
     RequestFacts, SeenFacts, LinkFacts, DeleteFacts, VisFacts, RowOf, Made, Linked, Exists

LEMMA LinksHold == Spec => []LinkInv
<1>1. LinkInv /\ [Next]_vars => LinkInv'
  BY PosterLinks, DeleteLinks, VisLinks, LinkIdle DEF Next
<1>. QED
  BY <1>1, LinkInit, PTL DEF Spec

(***************************************************************************)
(* Theorems about links.                                                   *)
(***************************************************************************)

(* Every variable keeps to its kind, and no row lacks its object's key,    *)
(* whatever requests and jobs overlap (0001_initial_uploads.py 34).        *)
THEOREM PostersWellTyped == Spec => []TypeOK
<1>1. LinkInv => TypeOK
  BY DEF LinkInv
<1>. QED
  BY <1>1, LinksHold, PTL

(* A row whose job has not come to making it is not there.                 *)
LEMMA NotMade ==
  ASSUME LinkInv, NEW q \in PosterRequests, tpc[q] \notin AfterRow
  PROVE  ~Exists(PosterId(q))
BY Names DEF LinkInv, RowOf, Made

(* A request that finds a live poster makes none (posters.py 30-31, 59-70) *)
(* for any number of requests, PATCHes and DELETEs, whatever fails: while  *)
(* the poster it has seen is there, its own is not.                        *)
THEOREM LivePostersAreKept == Spec => []LivePosterKept
<1>1. LinkInv => LivePosterKept
  <2>. SUFFICES ASSUME LinkInv, NEW q \in PosterRequests, seen[q] # None, Exists(seen[q])
                PROVE  ~Exists(PosterId(q))
    BY DEF LivePosterKept
  <2>1. pjob[q] = "none"
    BY DEF LinkInv, SeenFacts
  <2>2. tpc[q] \notin AfterRow
    BY <2>1 DEF LinkInv, RequestFacts, AfterRow, AfterLink
  <2>. QED
    BY <2>2, NotMade
<1>. QED
  BY <1>1, LinksHold, PTL

(* A job that ends with its poster in place has linked it to a video that  *)
(* is there, and nothing has put the old link, or none, back               *)
(* (tasks.py 376-400), when no reply is lost.                              *)
THEOREM KeptPostersAreLinked ==
  ASSUME "lost_reply" \notin Faults
  PROVE  Spec => KeptPosterIsLinked
<1>1. ASSUME LinkInv, [Next]_vars, NEW q \in PosterRequests
      PROVE  tpc[q] # "finished" /\ tpc'[q] = "finished" /\ Exists(PosterId(q))' =>
               Exists(target[q]) /\ rows[target[q]].poster \notin {None, seen[q]}
  <2>. SUFFICES ASSUME tpc[q] # "finished", tpc'[q] = "finished", Exists(PosterId(q))'
                PROVE  Exists(target[q]) /\ rows[target[q]].poster \notin {None, seen[q]}
    OBVIOUS
  <2>1. /\ PosterTypeOK /\ StoreTypeOK /\ LinkFacts(q) /\ PosterId(q) \in Ids /\ NoRow.status = "none"
    BY <1>1, Names, NoRowFields DEF LinkInv, TypeOK
  <2>2. PosterNext
    BY <1>1 DEF Next, vars, posterVars, taskVars
  <2>3. PICK r \in PosterRequests : PosterStep(r)
    BY <2>2 DEF PosterNext, PosterStep
  <2>4. r = q
    BY <1>1, <2>3, PosterEffect DEF PosterKeeps
  <2>5. \A from, to : TaskStep(q, from, to) => tpc[q] = from /\ to = "finished"
    BY <2>1 DEF TaskStep, PosterTypeOK
  <2>6. Exists(PosterId(q)) => tpc[q] \in {"link"} \cup AfterLink
    BY <1>1, NotMade DEF AfterRow
  <2>7. \/ LoadVideo(q) \/ ExtractPoster(q) \/ PutPoster(q) \/ ReadNewLink(q)
        \/ DropNewObject(q) \/ DropNewRow(q)
    <3>1. tpc' # tpc
      OBVIOUS
    <3>. QED
      BY <2>3, <2>4, <2>5, <3>1 DEF PosterStep, RequestPoster, CheckPoster, EnqueuePoster,
         DeliverPoster, AcknowledgePoster, GeneratePoster, CreatePosterRow, LinkNewPoster, taskVars
  <2>8. CASE LoadVideo(q) \/ ExtractPoster(q) \/ PutPoster(q) \/ DropNewObject(q)
    <3>1. rows' = rows /\ tpc[q] \in {"load", "extract", "put", "drop_frame"}
      BY <2>5, <2>8 DEF LoadVideo, ExtractPoster, PutPoster, DropNewObject, storeVars
    <3>. QED
      BY <2>6, <3>1 DEF Exists, AfterLink
  <2>9. CASE ReadNewLink(q)
    <3>1. tpc[q] = "linked" /\ Exists(target[q])
      BY <2>5, <2>9 DEF ReadNewLink
    <3>. QED
      BY <2>1, <3>1 DEF LinkFacts
  <2>10. CASE DropNewRow(q)
    <3>1. rows' = [rows EXCEPT ![PosterId(q)] = NoRow]
      BY <2>5, <2>10 DEF DropNewRow, DeleteRow
    <3>. QED
      BY <2>1, <3>1 DEF Exists, StoreTypeOK
  <2>. QED
    BY <2>7, <2>8, <2>9, <2>10
<1>2. LinkInv /\ [Next]_vars =>
        [\A q \in PosterRequests :
           tpc[q] # "finished" /\ tpc'[q] = "finished" /\ Exists(PosterId(q))' =>
             /\ Exists(target[q])
             /\ rows[target[q]].poster \notin {None, seen[q]}]_vars
  BY <1>1
<1>. QED
  BY <1>2, LinksHold, PTL DEF Spec, KeptPosterIsLinked

(***************************************************************************)
(* Who owns a key.                                                         *)
(***************************************************************************)

(* The video of a poster that was made stays known.                        *)
LEMMA TargetsStay ==
  ASSUME LinkInv, [Next]_vars
  PROVE  /\ JobsGoOn
         /\ \A q \in PosterRequests : tpc[q] # "idle" => target[q] \in Videos /\ target'[q] = target[q]
<1>1. \A q \in PosterRequests : tpc[q] # "idle" => qpc[q] # "idle" /\ target[q] \in Videos
  BY DEF LinkInv, RequestFacts
<1>2. CASE PosterNext
  <2>1. PICK r \in PosterRequests : PosterStep(r)
    BY <1>2 DEF PosterNext, PosterStep
  <2>2. PosterKeeps(r)
    BY <2>1, PosterEffect
  <2>. QED
    BY <1>1, <2>2, PosterGoesOn DEF PosterKeeps
<1>3. CASE UNCHANGED posterVars
  BY <1>1, <1>3 DEF posterVars, requestVars, taskVars, JobsGoOn
<1>. QED
  BY <1>2, <1>3 DEF Next, vars

(* What a PATCH has worked on, it has; and it works on one row of a kind.  *)
LEMMA WorkIs ==
  ASSUME LinkInv, NEW p \in Patchers
  PROVE  /\ vpc[p] = "idle" => \A i \in Ids : i \notin WorkedOn(p)
         /\ vid[p] \in Videos => WorkedOn(p) = {vid[p]}
         /\ \A q \in PosterRequests : vid[p] = PosterId(q) =>
              tpc[q] # "idle" /\ target[q] \in Videos /\ WorkedOn(p) = {vid[p], target[q]}
         /\ vpc[p] # "idle" => vid[p] \in Videos \/ \E q \in PosterRequests : vid[p] = PosterId(q)
<1>1. VisFacts(p) /\ \A q \in PosterRequests : RequestFacts(q)
  BY DEF LinkInv
<1>2. \A q \in PosterRequests : /\ PosterId(q) \notin Videos /\ PosterId(q) # None /\ None \notin Ids
                                /\ \A r \in PosterRequests : PosterId(q) = PosterId(r) => q = r
  BY Names
<1>3. vpc[p] = "idle" => \A i \in Ids : i \notin WorkedOn(p)
  BY <1>1, <1>2, Names DEF VisFacts, WorkedOn
<1>4. vid[p] \in Videos => WorkedOn(p) = {vid[p]}
  BY <1>2 DEF WorkedOn
<1>5. ASSUME NEW q \in PosterRequests, vid[p] = PosterId(q)
      PROVE  tpc[q] # "idle" /\ target[q] \in Videos /\ WorkedOn(p) = {vid[p], target[q]}
  <2>1. vpc[p] # "idle"
    BY <1>1, <1>2, <1>5 DEF VisFacts
  <2>2. tpc[q] \in AfterRow
    BY <1>1, <1>2, <1>5, <2>1 DEF VisFacts, RowOf, Made
  <2>3. tpc[q] # "idle" /\ target[q] \in Videos
    BY <1>1, <2>2 DEF AfterRow, AfterLink, RequestFacts
  <2>. QED
    BY <1>2, <1>5, <2>3 DEF WorkedOn
<1>6. vpc[p] # "idle" => vid[p] \in Videos \/ \E q \in PosterRequests : vid[p] = PosterId(q)
  BY <1>1 DEF VisFacts, RowOf, Made
<1>. QED
  BY <1>3, <1>4, <1>5, <1>6

LEMMA OneOfAKind ==
  ASSUME LinkInv, NEW p \in Patchers, NEW i \in Ids, NEW j \in Ids,
         i \in WorkedOn(p), j \in WorkedOn(p), DirOf(i) = DirOf(j)
  PROVE  i = j
<1>1. vpc[p] # "idle"
  BY WorkIs
<1>2. CASE vid[p] \in Videos
  BY <1>2, WorkIs
<1>3. ASSUME NEW q \in PosterRequests, vid[p] = PosterId(q)
      PROVE  i = j
  <2>1. WorkedOn(p) = {vid[p], target[q]} /\ target[q] \in Videos /\ vid[p] \notin Videos
    BY <1>3, WorkIs, Names
  <2>. QED
    BY <2>1 DEF DirOf
<1>. QED
  BY <1>1, <1>2, <1>3, WorkIs

LEMMA WorkGoesOn ==
  ASSUME LinkInv, [Next]_vars, NEW p \in Patchers, NEW i \in Ids, i \in WorkedOn(p)
  PROVE  /\ i \in WorkedOn(p)'
         /\ (vid[p] = i => vpc[p] \in Out) => (vid'[p] = i => vpc'[p] \in Out)
         /\ vwant'[p] = vwant[p]
         /\ vid[p] # i => vid'[p] = vid[p]
<1>1. VisFacts(p) /\ vpc[p] # "idle" /\ vid[p] # None
  BY WorkIs, Names DEF LinkInv, VisFacts
<1>2. \A q \in PosterRequests : vid[p] = PosterId(q) => target'[q] = target[q]
  BY WorkIs, TargetsStay
<1>3. CASE vid'[p] = vid[p]
  <2>1. i \in WorkedOn(p)'
    BY <1>2, <1>3 DEF WorkedOn
  <2>2. vwant'[p] = vwant[p] /\ (vpc[p] \in Out => vpc'[p] \in Out)
    <3>1. CASE UNCHANGED visVars
      BY <3>1 DEF visVars
    <3>2. ASSUME NEW q \in Patchers, LoadForVisibility(q) \/ Patch(q)
          PROVE  vwant'[p] = vwant[p] /\ (vpc[p] \in Out => vpc'[p] \in Out)
      <4>1. VisKeeps(q) /\ (VisLoads(q) \/ VisCascades(q) \/ VisRuns(q))
        BY <3>2, VisEffect
      <4>2. CASE q # p
        BY <4>1, <4>2 DEF VisKeeps
      <4>3. CASE q = p
        <5>1. ~VisLoads(p)
          BY <1>1 DEF VisLoads
        <5>2. ~VisCascades(p)
          <6>1. ASSUME VisCascades(p) PROVE FALSE
            <7>1. vid[p] = vsnap[p].poster /\ vid[p] # None
              BY <1>1, <1>3, <6>1 DEF VisCascades
            <7>2. vid[p] \in Videos /\ Linked(vid[p], vsnap[p].poster)
              BY <1>1, <7>1 DEF VisFacts, RowOf
            <7>. QED
              BY <7>1, <7>2, Names DEF Linked
          <6>. QED
            BY <6>1
        <5>3. VisRuns(p)
          BY <4>1, <4>3, <5>1, <5>2
        <5>. QED
          BY <5>3 DEF VisRuns, VisCopies, VisWrites, VisRemoves, Out
      <4>. QED
        BY <4>2, <4>3
    <3>. QED
      BY <3>1, <3>2 DEF Next, VisNext, vars
  <2>. QED
    BY <1>3, <2>1, <2>2
<1>4. CASE vid'[p] # vid[p]
  <2>1. PICK q \in Patchers : LoadForVisibility(q) \/ Patch(q)
    BY <1>4 DEF Next, VisNext, vars, visVars
  <2>2. VisKeeps(q) /\ (VisLoads(q) \/ VisCascades(q) \/ VisRuns(q))
    BY <2>1, VisEffect
  <2>3. q = p
    BY <1>4, <2>2 DEF VisKeeps
  <2>4. VisCascades(p)
    BY <1>1, <1>4, <2>2, <2>3 DEF VisLoads, VisRuns
  <2>5. /\ vid[p] \in Videos /\ Linked(vid[p], vsnap[p].poster) /\ vid'[p] = vsnap[p].poster
        /\ vwant'[p] = vwant[p]
    BY <1>1, <2>4 DEF VisFacts, RowOf, VisCascades
  <2>6. PICK r \in PosterRequests :
          vid'[p] = PosterId(r) /\ target[r] = vid[p] /\ tpc[r] \in AfterLink
    BY <2>5 DEF Linked
  <2>7. i = vid[p]
    BY <2>5, WorkIs
  <2>8. target'[r] = target[r]
    BY <2>6, TargetsStay DEF AfterLink
  <2>9. i \in WorkedOn(p)'
    BY <2>6, <2>7, <2>8 DEF WorkedOn
  <2>. QED
    BY <1>4, <2>5, <2>7, <2>9
<1>. QED
  BY <1>3, <1>4

(* So what is owned stays owned, by one row.                               *)
LEMMA OwnsKept ==
  ASSUME LinkInv, [Next]_vars
  PROVE  \A i \in Ids : \A k : Owns(i, k) => Owns(i, k)'
BY WorkGoesOn DEF Owns

LEMMA OwnersName ==
  ASSUME NEW i \in Ids, NEW j \in Ids, DirOf(i) = DirOf(j), NameOf(i) = NameOf(j)
  PROVE  i = j
<1>1. \A v \in Videos : NameOf(v) = <<v, 1>>
  BY Names
<1>2. i \in Videos <=> j \in Videos
  BY DEF DirOf
<1>. QED
  BY <1>1, <1>2 DEF NameOf

LEMMA NamesAreIds ==
  ASSUME NEW i \in Ids
  PROVE  NameOf(i) \in Ids /\ NameOf(i) \notin Patchers
<1>1. Jobs \subseteq Ids
  BY DEF Ids
<1>. QED
  BY <1>1, Names DEF NameOf

LEMMA OneOwner ==
  ASSUME LinkInv, NEW i \in Ids, NEW j \in Ids, NEW k, Owns(i, k), Owns(j, k)
  PROVE  i = j
<1>1. DirOf(i) = DirOf(j)
  BY DEF Owns
<1>2. CASE k.tag = NameOf(i)
  BY <1>1, <1>2, OwnersName, NamesAreIds DEF Owns
<1>3. ASSUME NEW p \in Patchers, k.tag = p, i \in WorkedOn(p)
      PROVE  i = j
  BY <1>1, <1>3, OneOfAKind, NamesAreIds DEF Owns
<1>. QED
  BY <1>2, <1>3 DEF Owns

(* The key of a poster is the poster's, and a copy nobody's before its     *)
(* PATCH has written it into the row.                                      *)
LEMMA PosterOwner ==
  ASSUME LinkInv, NEW q \in PosterRequests, NEW j \in Ids, Owns(j, NewPosterKey(q))
  PROVE  j = PosterId(q)
<1>1. /\ NewPosterKey(q).tag = PosterId(q) /\ NewPosterKey(q).dir = "posters"
      /\ PosterId(q) \in Ids /\ NameOf(PosterId(q)) = PosterId(q) /\ DirOf(PosterId(q)) = "posters"
  BY NewPosterFields, Names DEF LinkInv
<1>2. Owns(PosterId(q), NewPosterKey(q))
  BY <1>1 DEF Owns
<1>. QED
  BY <1>1, <1>2, OneOwner

LEMMA CopyUnowned ==
  ASSUME LinkInv, NEW p \in Patchers, CopyFacts(p), vcopy[p] # None, vpc[p] \notin Out,
         NEW j \in Ids
  PROVE  ~Owns(j, vcopy[p])
<1>. SUFFICES ASSUME Owns(j, vcopy[p]) PROVE FALSE
  OBVIOUS
<1>1. vcopy[p].tag = p /\ vcopy[p].dir = DirOf(vid[p])
  BY DEF CopyFacts
<1>2. j \in WorkedOn(p) /\ DirOf(j) = DirOf(vid[p]) /\ (vid[p] = j => vpc[p] \in Out)
  BY <1>1, NamesAreIds DEF Owns
<1>3. vid[p] \in Ids /\ vid[p] \in WorkedOn(p)
  <2>1. vpc[p] # "idle"
    BY <1>2, WorkIs
  <2>. QED
    BY <2>1 DEF LinkInv, VisFacts, WorkedOn
<1>. QED
  BY <1>2, <1>3, OneOfAKind

(***************************************************************************)
(* Every step keeps KeyInv, when no reply is lost.                         *)
(***************************************************************************)

(* What a step that leaves a request alone leaves of what is known of it.  *)
LEMMA KeysOfRequests ==
  ASSUME LinkInv, KeyInv, [Next]_vars
  PROVE  /\ \A d \in Deleters :
              /\ dpc'[d] = dpc[d] /\ did'[d] = did[d] /\ dsnap'[d] = dsnap[d] /\ dposter'[d] = dposter[d]
              => /\ dpc'[d] # "idle" => Owns(did[d], dsnap[d].key)'
                 /\ dposter'[d].key # None => Owns(dsnap[d].poster, dposter[d].key)'
         /\ \A p \in Patchers :
              vpc'[p] = vpc[p] /\ vid'[p] = vid[p] /\ vsnap'[p] = vsnap[p] /\ vpc'[p] # "idle" =>
                Owns(vid[p], vsnap[p].key)'
<1>1. \A i \in Ids : \A k : Owns(i, k) => Owns(i, k)'
  BY OwnsKept
<1>2. ASSUME NEW d \in Deleters,
             dpc'[d] = dpc[d], did'[d] = did[d], dsnap'[d] = dsnap[d], dposter'[d] = dposter[d]
      PROVE  /\ dpc'[d] # "idle" => Owns(did[d], dsnap[d].key)'
             /\ dposter'[d].key # None => Owns(dsnap[d].poster, dposter[d].key)'
  <2>1. PICK i, j, k, l : i = did[d] /\ j = dsnap[d].poster /\ k = dsnap[d].key /\ l = dposter[d].key
    OBVIOUS
  <2>2. /\ dpc[d] # "idle" => i \in Ids /\ Owns(i, k)
        /\ l # None => j \in Ids /\ Owns(j, l)
    <3>1. l # None => j \in Ids
      BY <2>1, Names DEF LinkInv, DeleteFacts, RowOf, Made
    <3>. QED
      BY <2>1, <3>1 DEF LinkInv, DeleteFacts, KeyInv
  <2>3. /\ dpc[d] # "idle" => Owns(i, k)'
        /\ l # None => Owns(j, l)'
    BY <1>1, <2>2
  <2>. QED
    BY <1>2, <2>1, <2>3 DEF Owns, WorkedOn
<1>3. ASSUME NEW p \in Patchers,
             vpc'[p] = vpc[p], vid'[p] = vid[p], vsnap'[p] = vsnap[p], vpc'[p] # "idle"
      PROVE  Owns(vid[p], vsnap[p].key)'
  <2>1. PICK i, k : i = vid[p] /\ k = vsnap[p].key
    OBVIOUS
  <2>2. i \in Ids /\ Owns(i, k)
    BY <1>3, <2>1 DEF LinkInv, VisFacts, KeyInv
  <2>3. Owns(i, k)'
    BY <1>1, <2>2
  <2>. QED
    BY <1>3, <2>1, <2>3 DEF Owns, WorkedOn
<1>. QED
  BY <1>2, <1>3

(* A copy stays, and the row keeps off what is being removed.              *)
LEMMA CopiesKept ==
  ASSUME LinkInv, KeyInv, NEW p \in Patchers,
         vpc'[p] = vpc[p], vid'[p] = vid[p], vsnap'[p] = vsnap[p], vcopy'[p] = vcopy[p],
         vleft'[p] = vleft[p],
         \A k \in objects \ objects' : k.tag # p \/ \E j \in Ids : Owns(j, k),
         \A i \in Ids : Exists(i)' /\ rows'[i].key # rows[i].key => ~Owns(vid[p], rows'[i].key),
         \A i \in Ids : Exists(i)' => Exists(i) \/ ~Made(i)
  PROVE  CopyFacts(p)'
<1>1. CopyFacts(p) /\ VisFacts(p) /\ KeysNotNull
  BY DEF KeyInv, LinkInv, TypeOK
<1>2. vpc[p] = "update" /\ vcopy[p] # None => vcopy[p] \in objects'
  <2>1. SUFFICES ASSUME vpc[p] = "update", vcopy[p] # None, vcopy[p] \notin objects' PROVE FALSE
    OBVIOUS
  <2>2. vcopy[p] \in objects \ objects' /\ vcopy[p].tag = p
    BY <1>1, <2>1 DEF CopyFacts
  <2>3. PICK j \in Ids : Owns(j, vcopy[p])
    BY <2>2
  <2>. QED
    BY <1>1, <2>1, <2>3, CopyUnowned DEF Out
<1>3. vpc[p] = "remove_old" /\ Exists(vid[p])' => rows'[vid[p]].key # vsnap[p].key
  <2>1. SUFFICES ASSUME vpc[p] = "remove_old", Exists(vid[p])' PROVE rows'[vid[p]].key # vsnap[p].key
    OBVIOUS
  <2>2. vid[p] \in Ids /\ Owns(vid[p], vsnap[p].key) /\ Made(vid[p])
    BY <1>1, <2>1 DEF VisFacts, KeyInv, RowOf
  <2>3. Exists(vid[p])
    BY <2>1, <2>2
  <2>4. rows[vid[p]].key # vsnap[p].key
    BY <1>1, <2>1, <2>3 DEF CopyFacts
  <2>. QED
    BY <2>1, <2>2, <2>4
<1>4. Exists(vid[p])' <=> rows'[vid[p]].status # "none"
  BY DEF Exists
<1>. QED
  BY <1>1, <1>2, <1>3, <1>4 DEF CopyFacts, DirOf, Exists

(* A poster's object stays while none of the requests that may remove it   *)
(* has come to it.                                                         *)
LEMMA PosterKept ==
  ASSUME LinkInv, KeyInv, [Next]_vars, "lost_reply" \notin Faults, NEW q \in PosterRequests,
         tpc'[q] = tpc[q], tsnap'[q] = tsnap[q],
         tpc[q] = "poster_row" => NewPosterKey(q) \notin objects \ objects',
         Exists(PosterId(q))' =>
           /\ Exists(PosterId(q))
           /\ \/ rows'[PosterId(q)].key \in objects'
              \/ rows[PosterId(q)].key \notin objects /\ rows'[PosterId(q)].key = rows[PosterId(q)].key
              \/ Withdrawing(PosterId(q))' \/ ~Exists(target[q])',
         Exists(PosterId(q))' /\ Withdrawn(PosterId(q)) => Withdrawn(PosterId(q))',
         \A v \in Videos : Exists(v)' => Exists(v)
  PROVE  PosterHeld(q)'
<1>1. PosterHeld(q) /\ PosterId(q)[1] = q
  BY Names DEF KeyInv
<1>2. NewPosterKey(q)' = NewPosterKey(q)
  BY DEF NewPosterKey
<1>3. PosterId(q)' = PosterId(q)
  BY DEF PosterId
<1>4. Exists(PosterId(q)) => target[q] \in Videos /\ target'[q] = target[q]
  <2>1. Exists(PosterId(q)) => tpc[q] # "idle"
    BY NotMade DEF AfterRow, AfterLink
  <2>. QED
    BY <2>1, TargetsStay
<1>5. ASSUME Exists(PosterId(q))'
      PROVE  rows'[PosterId(q)].key \in objects' \/ Withdrawing(PosterId(q))' \/ ~Exists(target[q])'
  <2>1. Withdrawing(PosterId(q)) => Withdrawing(PosterId(q))'
    BY <1>1, <1>3, <1>5 DEF Withdrawing
  <2>2. ~Exists(target[q]) => ~Exists(target[q])'
    BY <1>4, <1>5 DEF Exists
  <2>. QED
    BY <1>1, <1>5, <2>1, <2>2 DEF PosterHeld
<1>. QED
  BY <1>1, <1>2, <1>3, <1>5 DEF PosterHeld, Exists

LEMMA DeleteKeys ==
  ASSUME LinkInv, KeyInv, "lost_reply" \notin Faults, DeleteNext, UNCHANGED <<posterVars, visVars>>
  PROVE  KeyInv'
<1>1. PICK d \in Deleters : LoadForDelete(d) \/ Delete(d)
  BY DEF DeleteNext
<1>2. /\ StoreTypeOK' /\ DeleteTypeOK' /\ DeleteKeeps(d)
      /\ DeleteLoads(d) \/ DeleteCascades(d) \/ DeleteRuns(d)
  BY <1>1, DeleteEffect
<1>3. /\ LinkInv' /\ LinksStay /\ [Next]_vars
  BY DeleteLinks DEF Next
<1>4. /\ StoreTypeOK /\ DeleteFacts(d) /\ NoRow.status = "none" /\ Videos \subseteq Ids
      /\ UNCHANGED <<tpc, target, tsnap, vpc, vid, vsnap, vcopy, vleft>>
  BY NoRowFields, Names DEF LinkInv, TypeOK, posterVars, requestVars, taskVars, visVars
<1>5. \A i \in Ids : \A k : Owns(i, k) => Owns(i, k)'
  BY <1>3, OwnsKept
<1>6. \A i \in Ids : Exists(i)' => Exists(i) /\ rows'[i] = rows[i]
  BY <1>2, <1>4 DEF DeleteLoads, DeleteCascades, DeleteRuns, StoreTypeOK, Exists
<1>7. ASSUME NEW k \in objects \ objects'
      PROVE  \/ /\ dpc[d] = "object" /\ dpc'[d] = "row" /\ did'[d] = did[d]
                /\ did[d] \in Ids /\ Owns(did[d], k)
             \/ /\ dpc[d] = "poster_object" /\ dsnap[d].poster \in Ids /\ Owns(dsnap[d].poster, k)
  <2>1. DeleteRuns(d)
    BY <1>2, <1>7 DEF DeleteLoads, DeleteCascades
  <2>2. \/ dpc[d] = "object" /\ dpc'[d] = "row" /\ k = dsnap[d].key
        \/ dpc[d] = "poster_object" /\ k = dposter[d].key
    BY <1>7, <2>1 DEF DeleteRuns
  <2>3. dpc[d] = "poster_object" => dposter[d].key # None /\ dsnap[d].poster \in Ids
    BY <1>4, Names DEF DeleteFacts, RowOf, Made
  <2>. QED
    BY <1>4, <2>1, <2>2, <2>3 DEF KeyInv, DeleteFacts, DeleteRuns
<1>8. \A i \in Ids : Exists(i)' => Owns(i, rows[i].key)'
  BY <1>5, <1>6 DEF KeyInv, Owns, WorkedOn
<1>9. ASSUME NEW e \in Deleters
      PROVE  /\ dpc'[e] # "idle" => Owns(did[e], dsnap[e].key)'
             /\ dposter'[e].key # None => Owns(dsnap[e].poster, dposter[e].key)'
  <2>1. CASE e # d
    BY <1>2, <1>3, <2>1, KeysOfRequests DEF DeleteKeeps
  <2>2. CASE e = d /\ DeleteLoads(d)
    <3>1. PICK i \in Ids : Exists(i) /\ did'[d] = i /\ dsnap'[d] = rows[i]
      BY <2>2 DEF DeleteLoads
    <3>2. PICK k : k = rows[i].key
      OBVIOUS
    <3>3. Owns(i, k)'
      BY <1>5, <3>1, <3>2 DEF KeyInv
    <3>4. dposter'[d].key = None
      BY <1>4, <2>2 DEF DeleteLoads, DeleteFacts
    <3>. QED
      BY <2>2, <3>1, <3>2, <3>3, <3>4 DEF Owns, WorkedOn
  <2>3. CASE e = d /\ DeleteCascades(d)
    <3>1. PICK i, poster, k, l : /\ i = did[d] /\ poster = dsnap[d].poster
                                 /\ k = dsnap[d].key /\ l = rows[poster].key
      OBVIOUS
    <3>2. /\ did'[d] = i /\ dsnap'[d] = dsnap[d] /\ dposter'[d] = rows[poster] /\ Exists(poster)
          /\ dpc[d] = "load_poster"
      BY <2>3, <3>1 DEF DeleteCascades
    <3>3. i \in Ids /\ poster \in Ids
      BY <1>4, <3>1, <3>2, Names DEF DeleteFacts, RowOf, Linked
    <3>4. Owns(i, k)' /\ Owns(poster, l)'
      BY <1>5, <3>1, <3>2, <3>3 DEF KeyInv
    <3>. QED
      BY <2>3, <3>1, <3>2, <3>4 DEF Owns, WorkedOn
  <2>4. CASE e = d /\ DeleteRuns(d)
    <3>1. PICK i, poster, k, l : /\ i = did[d] /\ poster = dsnap[d].poster
                                 /\ k = dsnap[d].key /\ l = dposter[d].key
      OBVIOUS
    <3>2. did'[d] = i /\ dsnap'[d] = dsnap[d] /\ dposter'[d] = dposter[d] /\ dpc[d] # "idle"
      BY <2>4, <3>1 DEF DeleteRuns
    <3>3. i \in Ids /\ (l # None => poster \in Ids)
      BY <1>4, <3>1, <3>2, Names DEF DeleteFacts, RowOf, Made
    <3>4. Owns(i, k)' /\ (l # None => Owns(poster, l)')
      BY <1>5, <3>1, <3>2, <3>3 DEF KeyInv
    <3>. QED
      BY <2>4, <3>1, <3>2, <3>4 DEF Owns, WorkedOn
  <2>. QED
    BY <1>2, <2>1, <2>2, <2>3, <2>4
<1>10. ASSUME NEW p \in Patchers
       PROVE  (vpc'[p] # "idle" => Owns(vid[p], vsnap[p].key)') /\ CopyFacts(p)'
  <2>1. vpc'[p] # "idle" => Owns(vid[p], vsnap[p].key)'
    BY <1>3, <1>4, KeysOfRequests
  <2>2. CopyFacts(p)'
    BY <1>4, <1>6, <1>7, CopiesKept
  <2>. QED
    BY <2>1, <2>2
<1>11. ASSUME NEW q \in PosterRequests
       PROVE  PosterHeld(q)'
  <2>1. PosterId(q) \in Ids
    BY Names
  <2>2. tpc[q] = "poster_row" => NewPosterKey(q) \notin objects \ objects'
    <3>1. SUFFICES ASSUME tpc[q] = "poster_row", NewPosterKey(q) \in objects \ objects' PROVE FALSE
      OBVIOUS
    <3>2. /\ dpc[d] = "object" => did[d] = PosterId(q)
          /\ dpc[d] = "poster_object" => dsnap[d].poster = PosterId(q)
      BY <1>7, <3>1, PosterOwner
    <3>3. Made(PosterId(q))
      BY <1>4, <1>7, <3>1, <3>2 DEF DeleteFacts, RowOf
    <3>. QED
      BY <3>1, <3>3, Names DEF Made, AfterRow, AfterLink
  <2>3. ASSUME Exists(PosterId(q))', rows[PosterId(q)].key \in objects \ objects'
        PROVE  Withdrawing(PosterId(q))' \/ ~Exists(target[q])'
    <3>1. Owns(PosterId(q), rows[PosterId(q)].key)
      BY <1>6, <2>1, <2>3 DEF KeyInv
    <3>2. CASE /\ dpc[d] = "object" /\ dpc'[d] = "row" /\ did'[d] = did[d]
               /\ did[d] \in Ids /\ Owns(did[d], rows[PosterId(q)].key)
      BY <2>1, <3>1, <3>2, OneOwner DEF Withdrawing, Withdrawn
    <3>3. CASE /\ dpc[d] = "poster_object" /\ dsnap[d].poster \in Ids
               /\ Owns(dsnap[d].poster, rows[PosterId(q)].key)
      <4>1. dsnap[d].poster = PosterId(q)
        BY <2>1, <3>1, <3>3, OneOwner
      <4>2. did[d] \in Videos /\ ~Exists(did[d]) /\ Linked(did[d], PosterId(q))
        BY <1>4, <3>3, <4>1 DEF DeleteFacts, RowOf
      <4>3. target[q] = did[d]
        BY <4>2, Names DEF Linked
      <4>. QED
        BY <1>4, <1>6, <4>2, <4>3 DEF Exists
    <3>. QED
      BY <1>7, <2>3, <3>2, <3>3
  <2>4. Exists(PosterId(q))' =>
          /\ Exists(PosterId(q))
          /\ \/ rows'[PosterId(q)].key \in objects'
             \/ rows[PosterId(q)].key \notin objects /\ rows'[PosterId(q)].key = rows[PosterId(q)].key
             \/ Withdrawing(PosterId(q))' \/ ~Exists(target[q])'
    BY <1>6, <2>1, <2>3
  <2>5. Exists(PosterId(q))' /\ Withdrawn(PosterId(q)) => Withdrawn(PosterId(q))'
    <3>1. SUFFICES ASSUME Exists(PosterId(q))', NEW e \in Deleters, did[e] = PosterId(q),
                          dpc[e] \in {"renditions", "row", "store_unavailable", "broken"}
                   PROVE  Withdrawn(PosterId(q))'
      BY DEF Withdrawn
    <3>2. CASE e # d
      BY <1>2, <3>1, <3>2 DEF DeleteKeeps, Withdrawn, PosterId
    <3>3. CASE e = d
      <4>1. DeleteRuns(d)
        BY <1>2, <3>1, <3>3 DEF DeleteLoads, DeleteCascades
      <4>2. dpc[d] = "row"
        BY <3>1, <3>3, <4>1 DEF DeleteRuns
      <4>3. dpc'[d] = "store_unavailable"
        BY <1>4, <2>1, <3>1, <3>3, <4>1, <4>2 DEF DeleteRuns, Exists, StoreTypeOK
      <4>. QED
        BY <3>1, <3>3, <4>1, <4>3 DEF DeleteRuns, Withdrawn, PosterId
    <3>. QED
      BY <3>2, <3>3
  <2>6. \A v \in Videos : Exists(v)' => Exists(v)
    BY <1>4, <1>6
  <2>. QED
    BY <1>3, <1>4, <2>2, <2>4, <2>5, <2>6, PosterKept
<1>. QED
  BY <1>8, <1>9, <1>10, <1>11 DEF KeyInv

(* What a PATCH does to the rows and to the objects.                       *)
LEMMA VisChanges ==
  ASSUME LinkInv, KeyInv, "lost_reply" \notin Faults, NEW p \in Patchers,
         LoadForVisibility(p) \/ Patch(p)
  PROVE  /\ \A k \in objects \ objects' :
              \/ vpc[p] = "undo" /\ k = vcopy[p] /\ k.tag = p
              \/ /\ vpc[p] = "remove_old" /\ k = vsnap[p].key
                 /\ vid[p] \in Ids /\ Made(vid[p]) /\ Owns(vid[p], k)
         /\ \A i \in Ids : Exists(i)' /\ rows'[i].key # rows[i].key =>
              /\ i = vid[p] /\ vpc[p] = "update" /\ vpc'[p] = "remove_old" /\ vid'[p] = vid[p]
              /\ vcopy[p] # None /\ rows'[i].key = vcopy[p] /\ vcopy[p] \in objects'
<1>1. /\ StoreTypeOK' /\ VisTypeOK' /\ VisKeeps(p)
      /\ VisLoads(p) \/ VisCascades(p) \/ VisRuns(p)
  BY VisEffect
<1>2. TypeOK /\ StoreTypeOK /\ VisFacts(p) /\ CopyFacts(p) /\ (vpc[p] # "idle" => Owns(vid[p], vsnap[p].key))
  BY DEF LinkInv, TypeOK, KeyInv
<1>3. ASSUME NEW k \in objects \ objects'
      PROVE  \/ vpc[p] = "undo" /\ k = vcopy[p] /\ k.tag = p
             \/ /\ vpc[p] = "remove_old" /\ k = vsnap[p].key
                /\ vid[p] \in Ids /\ Made(vid[p]) /\ Owns(vid[p], k)
  <2>1. VisRemoves(p)
    BY <1>1, <1>3 DEF VisLoads, VisCascades, VisRuns, VisCopies, VisWrites
  <2>2. k \in vleft[p] /\ vpc[p] \in {"undo", "remove_old"}
    BY <1>3, <2>1 DEF VisRemoves
  <2>3. CASE vpc[p] = "undo"
    BY <1>2, <2>2, <2>3 DEF CopyFacts
  <2>4. CASE vpc[p] = "remove_old"
    BY <1>2, <2>2, <2>4 DEF CopyFacts, VisFacts, RowOf
  <2>. QED
    BY <2>2, <2>3, <2>4
<1>4. ASSUME NEW i \in Ids, Exists(i)', rows'[i].key # rows[i].key
      PROVE  /\ i = vid[p] /\ vpc[p] = "update" /\ vpc'[p] = "remove_old" /\ vid'[p] = vid[p]
             /\ vcopy[p] # None /\ rows'[i].key = vcopy[p] /\ vcopy[p] \in objects'
  <2>1. rows' # rows
    BY <1>4
  <2>2. VisWrites(p) /\ vid' = vid
    BY <1>1, <2>1 DEF VisLoads, VisCascades, VisRuns, VisCopies, VisRemoves
  <2>3. /\ vpc[p] = "update" /\ objects' = objects /\ vid[p] \in Ids
        /\ rows' = [rows EXCEPT ![vid[p]] = NewRow(p)]
        /\ vcopy[p] # None => vpc'[p] = "remove_old"
    BY <1>2, <2>1, <2>2 DEF VisWrites, VisFacts
  <2>4. NewRow(p).key = IF vcopy[p] = None THEN rows[vid[p]].key ELSE vcopy[p]
    BY <1>2, <2>3, NewRowFields DEF VisFacts, RowOf
  <2>5. i = vid[p] /\ rows'[i] = NewRow(p)
    BY <1>2, <1>4, <2>3 DEF StoreTypeOK
  <2>6. vcopy[p] # None /\ rows'[i].key = vcopy[p]
    BY <1>4, <2>4, <2>5
  <2>. QED
    BY <1>2, <2>2, <2>3, <2>5, <2>6 DEF CopyFacts
<1>. QED
  BY <1>3, <1>4

(* The copy of the PATCH that goes on.                                     *)
LEMMA CopyGoesOn ==
  ASSUME LinkInv, KeyInv, "lost_reply" \notin Faults, NEW p \in Patchers,
         LoadForVisibility(p) \/ Patch(p)
  PROVE  CopyFacts(p)'
<1>1. /\ VisKeeps(p)
      /\ VisLoads(p) \/ VisCascades(p) \/ VisRuns(p)
  BY VisEffect
<1>2. /\ TypeOK /\ StoreTypeOK /\ VisFacts(p) /\ CopyFacts(p)
      /\ vpc[p] # "idle" => Owns(vid[p], vsnap[p].key)
  BY DEF LinkInv, TypeOK, KeyInv
<1>3. CASE VisLoads(p)
  BY <1>2, <1>3 DEF VisLoads, CopyFacts
<1>4. CASE VisCascades(p)
  BY <1>4 DEF VisCascades, CopyFacts
<1>5. CASE VisRuns(p) /\ VisCopies(p)
  <2>1. vpc[p] = "copy" /\ vcopy[p] = None /\ vid' = vid /\ vsnap' = vsnap
    BY <1>2, <1>5 DEF VisRuns, VisCopies, CopyFacts
  <2>2. CASE vcopy' = vcopy /\ vpc'[p] \in {"update", "answered", "broken"}
    BY <2>1, <2>2 DEF CopyFacts
  <2>3. CASE /\ vpc'[p] = "update" /\ vcopy'[p] = Rotated(p, vsnap[p].key)
             /\ objects' = objects \cup {vcopy'[p]}
    <3>1. vsnap[p].key \in Keys /\ vsnap[p].key.dir = DirOf(vid[p])
      BY <1>2, <2>1 DEF VisFacts, RowOf, TypeOK, VisTypeOK, Rows, Owns
    <3>2. vcopy'[p].tag = p /\ vcopy'[p].dir = DirOf(vid[p])
      BY <1>2, <2>3, <3>1, RotatedKey
    <3>. QED
      BY <2>1, <2>3, <3>2 DEF CopyFacts, DirOf
  <2>. QED
    BY <1>5, <2>2, <2>3 DEF VisCopies
<1>6. CASE VisRuns(p) /\ VisWrites(p)
  <2>1. vpc[p] = "update" /\ vcopy' = vcopy /\ vid' = vid /\ vsnap' = vsnap /\ objects' = objects
    BY <1>6 DEF VisRuns, VisWrites
  <2>2. vcopy'[p] # None => vcopy'[p].tag = p /\ vcopy'[p].dir = DirOf(vid'[p])
    BY <1>2, <2>1 DEF CopyFacts
  <2>3. CASE Exists(vid[p]) /\ rows' = [rows EXCEPT ![vid[p]] = NewRow(p)]
    <3>1. vid[p] \in Ids /\ vsnap[p].rends = {} /\ Owns(vid[p], vsnap[p].key)
      BY <1>2, <2>1 DEF VisFacts, RowOf
    <3>2. vcopy[p] # None => rows'[vid[p]].key = vcopy[p]
      BY <1>2, <2>3, <3>1, NewRowFields DEF StoreTypeOK
    <3>3. vcopy[p] # None => vcopy[p] # vsnap[p].key
      BY <1>2, <2>1, <3>1, CopyUnowned DEF Out
    <3>4. IF vcopy[p] = None THEN vpc'[p] \in {"answered", "load_poster"}
          ELSE \/ vleft'[p] = {vsnap[p].key} /\ vpc'[p] = "remove_old"
               \/ vleft'[p] = {vcopy[p]} /\ vpc'[p] = "undo"
      BY <1>6 DEF VisWrites
    <3>. QED
      BY <2>1, <2>2, <3>2, <3>3, <3>4 DEF CopyFacts, DirOf, Exists
  <2>4. CASE /\ rows' = rows
             /\ IF vcopy[p] = None THEN vpc'[p] = "answered"
                ELSE vleft'[p] = {vcopy[p]} /\ vpc'[p] = "undo"
    BY <2>1, <2>2, <2>4 DEF CopyFacts, DirOf
  <2>. QED
    BY <1>6, <2>3, <2>4 DEF VisWrites
<1>7. CASE VisRuns(p) /\ VisRemoves(p)
  <2>1. /\ vpc[p] \in {"undo", "remove_old"} /\ rows' = rows /\ vcopy' = vcopy /\ vid' = vid
        /\ vsnap' = vsnap /\ vpc'[p] \in {vpc[p], "answered", "load_poster", "broken"}
        /\ vleft'[p] \subseteq vleft[p]
    BY <1>7 DEF VisRuns, VisRemoves
  <2>. QED
    BY <1>2, <2>1 DEF CopyFacts, DirOf, Exists
<1>8. CASE VisRuns(p) /\ vpc[p] = "load_poster" /\ vpc'[p] = "answered" /\ vcopy' = vcopy
  BY <1>2, <1>8 DEF VisRuns, CopyFacts, DirOf
<1>. QED
  BY <1>1, <1>3, <1>4, <1>5, <1>6, <1>7, <1>8 DEF VisRuns

LEMMA VisKeys ==
  ASSUME LinkInv, KeyInv, "lost_reply" \notin Faults, VisNext, UNCHANGED <<posterVars, deleteVars>>
  PROVE  KeyInv'
<1>1. PICK p \in Patchers : LoadForVisibility(p) \/ Patch(p)
  BY DEF VisNext
<1>2. /\ StoreTypeOK' /\ VisTypeOK' /\ VisKeeps(p)
      /\ VisLoads(p) \/ VisCascades(p) \/ VisRuns(p)
  BY <1>1, VisEffect
<1>3. /\ LinkInv' /\ LinksStay /\ [Next]_vars
  BY VisLinks DEF Next
<1>4. /\ TypeOK /\ StoreTypeOK /\ VisFacts(p) /\ CopyFacts(p) /\ Videos \subseteq Ids
      /\ UNCHANGED <<tpc, target, tsnap, dpc, did, dsnap, dposter>>
  BY Names DEF LinkInv, TypeOK, KeyInv, posterVars, requestVars, taskVars, deleteVars
<1>5. \A i \in Ids : \A k : Owns(i, k) => Owns(i, k)'
  BY <1>3, OwnsKept
<1>6. \A k \in objects \ objects' :
        \/ vpc[p] = "undo" /\ k = vcopy[p] /\ k.tag = p
        \/ /\ vpc[p] = "remove_old" /\ k = vsnap[p].key
           /\ vid[p] \in Ids /\ Made(vid[p]) /\ Owns(vid[p], k)
  BY <1>1, VisChanges
<1>7. \A i \in Ids : Exists(i)' /\ rows'[i].key # rows[i].key =>
        /\ i = vid[p] /\ vpc[p] = "update" /\ vpc'[p] = "remove_old" /\ vid'[p] = vid[p]
        /\ vcopy[p] # None /\ rows'[i].key = vcopy[p] /\ vcopy[p] \in objects'
  BY <1>1, VisChanges
<1>8. ASSUME NEW i \in Ids, Exists(i)'
      PROVE  Owns(i, rows[i].key)'
  <2>1. PICK k : k = rows'[i].key
    OBVIOUS
  <2>2. CASE rows'[i].key = rows[i].key
    <3>1. Exists(i) /\ Owns(i, rows[i].key)
      BY <1>3, <1>8 DEF LinksStay, KeyInv
    <3>2. Owns(i, k)'
      BY <1>5, <2>1, <2>2, <3>1
    <3>. QED
      BY <2>1, <3>2 DEF Owns, WorkedOn
  <2>3. CASE rows'[i].key # rows[i].key
    <3>1. i = vid'[p] /\ vpc'[p] \in Out /\ k = vcopy[p] /\ k.tag = p /\ k.dir = DirOf(i)
      BY <1>4, <1>7, <1>8, <2>1, <2>3 DEF CopyFacts, Out
    <3>2. i \in WorkedOn(p)'
      BY <3>1 DEF WorkedOn
    <3>. QED
      BY <2>1, <3>1, <3>2 DEF Owns, DirOf, Out, WorkedOn
  <2>. QED
    BY <2>2, <2>3
<1>9. ASSUME NEW r \in Patchers
      PROVE  (vpc'[r] # "idle" => Owns(vid[r], vsnap[r].key)') /\ CopyFacts(r)'
  <2>1. CASE r # p
    <3>1. vpc'[r] # "idle" => Owns(vid[r], vsnap[r].key)'
      BY <1>2, <1>3, <2>1, KeysOfRequests DEF VisKeeps
    <3>2. CASE vpc[r] = "idle"
      BY <1>2, <2>1, <3>2 DEF KeyInv, CopyFacts, VisKeeps
    <3>3. CASE vpc[r] # "idle"
      <4>1. vid[r] \in Ids
        BY <3>3 DEF LinkInv, VisFacts
      <4>2. \A k \in objects \ objects' : k.tag # r \/ \E j \in Ids : Owns(j, k)
        BY <1>6, <2>1
      <4>3. ASSUME NEW i \in Ids, Exists(i)', rows'[i].key # rows[i].key
            PROVE  ~Owns(vid[r], rows'[i].key)
        BY <1>4, <1>7, <4>1, <4>3, CopyUnowned DEF Out
      <4>4. \A i \in Ids : Exists(i)' => Exists(i) \/ ~Made(i)
        BY <1>3 DEF LinksStay
      <4>. QED
        BY <1>2, <2>1, <3>1, <4>2, <4>3, <4>4, CopiesKept DEF VisKeeps
    <3>. QED
      BY <3>1, <3>2, <3>3
  <2>2. CASE r = p
    <3>1. CopyFacts(p)'
      BY <1>1, CopyGoesOn
    <3>2. Owns(vid[p], vsnap[p].key)'
      <4>1. PICK i \in Ids : i = vid'[p]
        BY <1>2, <1>3 DEF VisKeeps, LinkInv, VisFacts
      <4>2. PICK k : k = vsnap'[p].key
        OBVIOUS
      <4>3. CASE vid'[p] = vid[p] /\ vsnap'[p] = vsnap[p] /\ vpc[p] # "idle"
        <5>1. Owns(i, k)
          BY <4>1, <4>2, <4>3 DEF KeyInv
        <5>2. Owns(i, k)'
          BY <1>5, <5>1
        <5>. QED
          BY <4>1, <4>2, <5>2 DEF Owns, WorkedOn
      <4>4. CASE Exists(i) /\ vsnap'[p] = rows[i]
        <5>1. Owns(i, k)
          BY <4>1, <4>2, <4>4 DEF KeyInv
        <5>2. Owns(i, k)'
          BY <1>5, <5>1
        <5>. QED
          BY <4>1, <4>2, <5>2 DEF Owns, WorkedOn
      <4>. QED
        BY <1>2, <4>1, <4>3, <4>4
           DEF VisLoads, VisCascades, VisRuns, VisCopies, VisWrites, VisRemoves, Exists
    <3>. QED
      BY <2>2, <3>1, <3>2
  <2>. QED
    BY <2>1, <2>2
<1>10. ASSUME NEW d \in Deleters
       PROVE  /\ dpc'[d] # "idle" => Owns(did[d], dsnap[d].key)'
              /\ dposter'[d].key # None => Owns(dsnap[d].poster, dposter[d].key)'
  BY <1>3, <1>4, KeysOfRequests
<1>11. ASSUME NEW q \in PosterRequests
       PROVE  PosterHeld(q)'
  <2>1. PosterId(q) \in Ids /\ NewPosterKey(q).tag = PosterId(q) /\ PosterId(q) \notin Patchers
    BY <1>4, Names, NewPosterFields
  <2>2. tpc[q] = "poster_row" => NewPosterKey(q) \notin objects \ objects'
    <3>1. SUFFICES ASSUME tpc[q] = "poster_row", NewPosterKey(q) \in objects \ objects' PROVE FALSE
      OBVIOUS
    <3>2. vid[p] \in Ids /\ Made(vid[p]) /\ Owns(vid[p], NewPosterKey(q))
      BY <1>6, <2>1, <3>1
    <3>3. vid[p] = PosterId(q)
      BY <3>2, PosterOwner
    <3>. QED
      BY <3>1, <3>2, <3>3, Names DEF Made, AfterRow, AfterLink
  <2>3. ASSUME Exists(PosterId(q))', rows'[PosterId(q)].key = rows[PosterId(q)].key
        PROVE  rows[PosterId(q)].key \notin objects \ objects'
    <3>1. Exists(PosterId(q)) /\ Owns(PosterId(q), rows[PosterId(q)].key)
      BY <1>3, <2>1, <2>3 DEF LinksStay, KeyInv
    <3>2. SUFFICES ASSUME rows[PosterId(q)].key \in objects \ objects' PROVE FALSE
      OBVIOUS
    <3>3. CASE vpc[p] = "undo" /\ rows[PosterId(q)].key = vcopy[p]
      BY <1>4, <2>1, <3>1, <3>3, CopyUnowned DEF Out, CopyFacts
    <3>4. CASE /\ vpc[p] = "remove_old" /\ rows[PosterId(q)].key = vsnap[p].key
               /\ vid[p] \in Ids /\ Owns(vid[p], rows[PosterId(q)].key)
      <4>1. vid[p] = PosterId(q)
        BY <2>1, <3>1, <3>4, OneOwner
      <4>. QED
        BY <1>4, <3>1, <3>4, <4>1 DEF CopyFacts
    <3>. QED
      BY <1>6, <3>2, <3>3, <3>4
  <2>4. Exists(PosterId(q))' =>
          /\ Exists(PosterId(q))
          /\ \/ rows'[PosterId(q)].key \in objects'
             \/ rows[PosterId(q)].key \notin objects /\ rows'[PosterId(q)].key = rows[PosterId(q)].key
    BY <1>3, <1>7, <2>1, <2>3 DEF LinksStay
  <2>5. Withdrawn(PosterId(q)) => Withdrawn(PosterId(q))'
    BY <1>4 DEF Withdrawn, PosterId
  <2>6. \A v \in Videos : Exists(v)' => Exists(v)
    BY <1>3, <1>4 DEF LinksStay
  <2>. QED
    BY <1>3, <1>4, <2>2, <2>4, <2>5, <2>6, PosterKept
<1>. QED
  BY <1>8, <1>9, <1>10, <1>11 DEF KeyInv

(* The course of a job, when no reply is lost.                             *)
JobStays(q) == tpc'[q] = tpc[q] /\ tsnap'[q] = tsnap[q] /\ rows' = rows /\ objects' = objects

JobBegins(q) ==
  /\ tpc[q] \in {"idle", "load", "extract"} /\ tpc'[q] \in {"load", "extract", "put", "finished"}
  /\ rows' = rows /\ objects' = objects

JobPuts(q) ==
  /\ tpc[q] = "put" /\ rows' = rows
  /\ \/ tpc'[q] = "poster_row" /\ objects' = objects \cup {NewPosterKey(q)}
     \/ tpc'[q] = "finished" /\ objects' = objects
     \/ tpc'[q] = "gave_up" /\ (objects' = objects \/ objects' = objects \cup {NewPosterKey(q)})

JobInserts(q) ==
  /\ tpc[q] = "poster_row" /\ objects' = objects
  /\ \/ tpc'[q] = "link" /\ rows' = [rows EXCEPT ![PosterId(q)] = NewPosterRow(q)]
     \/ tpc'[q] = "drop_frame" /\ rows' = rows

JobLinks(q) ==
  /\ tpc[q] \in {"link", "linked"} /\ tpc'[q] \in {"linked", "finished", "drop_poster"} /\ objects' = objects
  /\ \/ rows' = rows
     \/ tpc[q] = "link" /\ target[q] \in Videos /\ rows' = SetPoster(target[q], PosterId(q))

JobDrops(q) ==
  \/ /\ tpc[q] = "drop_frame" /\ tpc'[q] \in {"finished", "gave_up"} /\ rows' = rows
     /\ \/ objects' = objects \ {NewPosterKey(q)}
        \/ objects' = objects /\ ("remove" \in Faults \/ tpc'[q] = "gave_up")
  \/ /\ tpc[q] = "drop_poster" /\ tpc'[q] \in {"drop_row", "gave_up"} /\ rows' = rows
     /\ \/ objects' = objects \ {NewPosterKey(q)}
        \/ objects' = objects /\ ("remove" \in Faults \/ tpc'[q] = "gave_up")
  \/ /\ tpc[q] = "drop_row" /\ objects' = objects
     /\ \/ tpc'[q] \in {"finished", "gave_up"} /\ rows' = [rows EXCEPT ![PosterId(q)] = NoRow]
        \/ tpc'[q] = "gave_up" /\ rows' = rows

LEMMA JobEffect ==
  ASSUME LinkInv, "lost_reply" \notin Faults, NEW q \in PosterRequests, PosterStep(q)
  PROVE  \/ JobStays(q)
         \/ JobBegins(q)
         \/ /\ tsnap'[q] = tsnap[q]
            /\ JobPuts(q) \/ JobInserts(q) \/ JobLinks(q) \/ JobDrops(q)
<1>1. PosterTypeOK /\ RequestFacts(q)
  BY DEF LinkInv, TypeOK
<1>2. \A from, to : TaskStep(q, from, to) => tpc[q] = from /\ tpc'[q] = to
  BY <1>1 DEF TaskStep, PosterTypeOK
<1>3. CASE RequestPoster(q) \/ CheckPoster(q) \/ EnqueuePoster(q) \/ AcknowledgePoster(q)
  BY <1>3 DEF RequestPoster, CheckPoster, EnqueuePoster, AcknowledgePoster, JobStays, storeVars, taskVars
<1>4. CASE DeliverPoster(q) \/ LoadVideo(q) \/ ExtractPoster(q)
  BY <1>2, <1>4 DEF DeliverPoster, LoadVideo, ExtractPoster, JobBegins, storeVars
<1>5. CASE PutPoster(q)
  BY <1>2, <1>5 DEF PutPoster, Put, PutRefused, PutEscapes, JobPuts
<1>6. CASE CreatePosterRow(q)
  BY <1>2, <1>6 DEF CreatePosterRow, Insert, StatementRaises, JobInserts
<1>7. CASE LinkNewPoster(q) \/ ReadNewLink(q)
  <2>1. tpc[q] = "link" => target[q] \in Videos
    BY <1>1 DEF RequestFacts
  <2>. QED
    BY <1>2, <1>7, <2>1 DEF LinkNewPoster, ReadNewLink, StatementRaises, JobLinks, storeVars
<1>8. CASE DropNewObject(q)
  BY <1>2, <1>8 DEF DropNewObject, RemoveSuppressed, Remove, RemoveRefused, RemoveEscapes, JobDrops
<1>9. CASE DropNewRow(q)
  BY <1>2, <1>9 DEF DropNewRow, DeleteRow, StatementRaises, JobDrops
<1>. QED
  BY <1>3, <1>4, <1>5, <1>6, <1>7, <1>8, <1>9 DEF PosterStep, GeneratePoster

LEMMA PosterKeys ==
  ASSUME LinkInv, KeyInv, "lost_reply" \notin Faults, PosterNext, UNCHANGED <<deleteVars, visVars>>
  PROVE  KeyInv'
<1>1. PICK q \in PosterRequests : PosterStep(q)
  BY DEF PosterNext, PosterStep
<1>2. /\ PosterTypeOK' /\ StoreTypeOK' /\ PosterKeeps(q)
      /\ \/ JobStays(q)
         \/ JobBegins(q)
         \/ /\ tsnap'[q] = tsnap[q]
            /\ JobPuts(q) \/ JobInserts(q) \/ JobLinks(q) \/ JobDrops(q)
  BY <1>1, PosterEffect, JobEffect
<1>3. LinkInv' /\ [Next]_vars
  BY PosterLinks DEF Next
<1>4. /\ TypeOK /\ StoreTypeOK /\ RequestFacts(q) /\ PosterHeld(q)
      /\ NoRow.status = "none" /\ Videos \subseteq Ids
      /\ PosterId(q) \in Ids /\ PosterId(q) \in Jobs /\ PosterId(q) \notin Videos /\ PosterId(q)[1] = q
      /\ UNCHANGED <<vpc, vid, vsnap, vcopy, vleft, dpc, did, dsnap, dposter>>
  BY Names, NoRowFields DEF LinkInv, TypeOK, KeyInv, visVars, deleteVars
<1>5. \A i \in Ids : \A k : Owns(i, k) => Owns(i, k)'
  BY <1>3, OwnsKept
<1>6. /\ NewPosterKey(q).tag = PosterId(q) /\ NewPosterKey(q).dir = "posters"
      /\ NewPosterRow(q).key = NewPosterKey(q)
      /\ NameOf(PosterId(q)) = PosterId(q) /\ DirOf(PosterId(q)) = "posters"
  BY <1>4, NewPosterFields, Names
<1>7. \A k \in objects \ objects' : k = NewPosterKey(q) /\ tpc[q] \in {"drop_frame", "drop_poster"}
  BY <1>2 DEF JobStays, JobBegins, JobPuts, JobInserts, JobLinks, JobDrops
<1>8. ASSUME NEW i \in Ids, Exists(i)'
      PROVE  \/ Exists(i) /\ rows'[i].key = rows[i].key
             \/ /\ i = PosterId(q) /\ rows'[i] = NewPosterRow(q)
                /\ tpc[q] = "poster_row" /\ tpc'[q] = "link" /\ objects' = objects
  <2>1. CASE rows' = rows
    BY <1>8, <2>1 DEF Exists
  <2>2. CASE /\ tpc[q] = "poster_row" /\ objects' = objects /\ tpc'[q] = "link"
             /\ rows' = [rows EXCEPT ![PosterId(q)] = NewPosterRow(q)]
    BY <1>4, <1>8, <2>2 DEF Exists, StoreTypeOK
  <2>3. CASE target[q] \in Videos /\ rows' = SetPoster(target[q], PosterId(q))
    BY <1>4, <1>8, <2>3, SetPosterFields DEF Exists
  <2>4. CASE rows' = [rows EXCEPT ![PosterId(q)] = NoRow]
    BY <1>4, <1>8, <2>4 DEF Exists, StoreTypeOK
  <2>. QED
    BY <1>2, <2>1, <2>2, <2>3, <2>4 DEF JobStays, JobBegins, JobPuts, JobInserts, JobLinks, JobDrops
<1>9. \A v \in Videos : (Exists(v)' => Exists(v))
  BY <1>4, <1>8
<1>10. ASSUME NEW i \in Ids, Exists(i)'
       PROVE  Owns(i, rows[i].key)'
  <2>1. PICK k : k = rows'[i].key
    OBVIOUS
  <2>2. CASE Exists(i) /\ rows'[i].key = rows[i].key
    <3>1. Owns(i, k)'
      BY <1>5, <2>1, <2>2 DEF KeyInv
    <3>. QED
      BY <2>1, <3>1 DEF Owns, WorkedOn
  <2>3. CASE i = PosterId(q) /\ rows'[i] = NewPosterRow(q)
    BY <1>6, <2>3 DEF Owns, NameOf, DirOf
  <2>. QED
    BY <1>8, <1>10, <2>2, <2>3
<1>11. ASSUME NEW p \in Patchers
       PROVE  (vpc'[p] # "idle" => Owns(vid[p], vsnap[p].key)') /\ CopyFacts(p)'
  <2>1. vpc'[p] # "idle" => Owns(vid[p], vsnap[p].key)'
    BY <1>3, <1>4, KeysOfRequests
  <2>2. CASE vpc[p] = "idle"
    BY <1>4, <2>2 DEF KeyInv, CopyFacts
  <2>3. CASE vpc[p] # "idle"
    <3>1. vid[p] \in Ids /\ Made(vid[p])
      BY <2>3 DEF LinkInv, VisFacts, RowOf
    <3>2. \A k \in objects \ objects' : k.tag # p
      BY <1>4, <1>6, <1>7, Names
    <3>3. tpc[q] = "poster_row" => ~Owns(vid[p], NewPosterKey(q))
      BY <3>1, PosterOwner, Names DEF Made, AfterRow, AfterLink
    <3>4. tpc[q] = "poster_row" => ~Made(PosterId(q))
      BY <1>4, Names DEF Made, AfterRow, AfterLink
    <3>5. \A i \in Ids : Exists(i)' /\ rows'[i].key # rows[i].key => ~Owns(vid[p], rows'[i].key)
      BY <1>6, <1>8, <3>3
    <3>6. \A i \in Ids : Exists(i)' => Exists(i) \/ ~Made(i)
      BY <1>8, <3>4
    <3>. QED
      BY <1>4, <2>1, <3>2, <3>5, <3>6, CopiesKept
  <2>. QED
    BY <2>2, <2>3
<1>12. ASSUME NEW d \in Deleters
       PROVE  /\ dpc'[d] # "idle" => Owns(did[d], dsnap[d].key)'
              /\ dposter'[d].key # None => Owns(dsnap[d].poster, dposter[d].key)'
  BY <1>3, <1>4, KeysOfRequests
<1>13. ASSUME NEW r \in PosterRequests
       PROVE  PosterHeld(r)'
  <2>1. Withdrawn(PosterId(r)) => Withdrawn(PosterId(r))'
    BY <1>4 DEF Withdrawn, PosterId
  <2>2. PosterId(r) \in Ids
    BY Names
  <2>3. CASE r # q
    <3>1. NewPosterKey(r) # NewPosterKey(q) /\ PosterId(r) # PosterId(q)
      BY <1>4, <1>6, <2>3, NewPosterFields, Names
    <3>2. Exists(PosterId(r))' =>
            /\ Exists(PosterId(r)) /\ rows'[PosterId(r)].key = rows[PosterId(r)].key
            /\ rows[PosterId(r)].key # NewPosterKey(q)
      BY <1>8, <2>2, <3>1, PosterOwner DEF KeyInv
    <3>. QED
      BY <1>2, <1>3, <1>7, <1>9, <2>1, <2>3, <3>1, <3>2, PosterKept DEF PosterKeeps
  <2>4. CASE r = q /\ JobStays(q)
    <3>1. Exists(PosterId(q))' =>
            /\ Exists(PosterId(q))
            /\ \/ rows'[PosterId(q)].key \in objects'
               \/ rows[PosterId(q)].key \notin objects /\ rows'[PosterId(q)].key = rows[PosterId(q)].key
      BY <2>4 DEF JobStays, Exists
    <3>. QED
      BY <1>3, <1>9, <2>1, <2>4, <3>1, PosterKept DEF JobStays
  <2>5. ASSUME r = q, tpc[q] \notin AfterRow, rows' = rows, tpc'[q] # "poster_row"
        PROVE  PosterHeld(q)'
    <3>1. ~Exists(PosterId(q))'
      BY <2>5, NotMade DEF Exists, PosterId
    <3>. QED
      BY <2>5, <3>1 DEF PosterHeld, Exists
  <2>6. CASE r = q /\ JobBegins(q)
    BY <2>5, <2>6 DEF JobBegins, AfterRow, AfterLink
  <2>7. CASE r = q /\ JobPuts(q) /\ tsnap'[q] = tsnap[q]
    <3>1. CASE tpc'[q] = "poster_row" /\ objects' = objects \cup {NewPosterKey(q)}
      <4>1. NewPosterKey(q)' = NewPosterKey(q)
        BY <2>7 DEF NewPosterKey
      <4>2. ~Exists(PosterId(q))'
        BY <2>7, NotMade DEF Exists, PosterId, JobPuts, AfterRow, AfterLink
      <4>. QED
        BY <2>7, <3>1, <4>1, <4>2 DEF PosterHeld, Exists
    <3>2. CASE tpc'[q] # "poster_row"
      BY <2>5, <2>7, <3>2 DEF JobPuts, AfterRow, AfterLink
    <3>. QED
      BY <2>7, <3>1, <3>2 DEF JobPuts
  <2>8. CASE r = q /\ JobInserts(q)
    <3>1. CASE tpc'[q] = "link" /\ rows' = [rows EXCEPT ![PosterId(q)] = NewPosterRow(q)]
      <4>1. rows'[PosterId(q)].key = NewPosterKey(q)
        BY <1>4, <1>6, <3>1 DEF StoreTypeOK
      <4>2. rows'[PosterId(q)].key \in objects'
        BY <1>4, <2>8, <4>1 DEF PosterHeld, JobInserts
      <4>. QED
        BY <2>8, <3>1, <4>2 DEF PosterHeld, PosterId
    <3>2. CASE tpc'[q] = "drop_frame" /\ rows' = rows
      BY <2>5, <2>8, <3>2 DEF JobInserts, AfterRow, AfterLink
    <3>. QED
      BY <2>8, <3>1, <3>2 DEF JobInserts
  <2>9. CASE r = q /\ JobLinks(q)
    <3>1. target'[q] = target[q] /\ target[q] \in Videos
      BY <1>2, <1>4, <2>9 DEF JobLinks, RequestFacts, PosterKeeps
    <3>2. Exists(PosterId(q))' =>
            /\ Exists(PosterId(q)) /\ rows'[PosterId(q)].key = rows[PosterId(q)].key
      BY <1>4, <1>8, <2>9 DEF JobLinks
    <3>3. Exists(target[q])' => Exists(target[q])
      BY <1>9, <3>1 DEF Exists
    <3>4. Withdrawing(PosterId(q)) => Withdrawn(PosterId(q))
      BY <1>4, <2>9 DEF Withdrawing, JobLinks
    <3>5. Exists(PosterId(q))' => rows'[PosterId(q)].key \in objects' \/ Withdrawn(PosterId(q))' \/ ~Exists(target[q])'
      BY <1>4, <2>1, <2>9, <3>1, <3>2, <3>3, <3>4 DEF PosterHeld, JobLinks, Exists
    <3>. QED
      BY <2>9, <3>5 DEF PosterHeld, Withdrawing, JobLinks, PosterId
  <2>10. CASE r = q /\ JobDrops(q)
    <3>1. CASE tpc[q] = "drop_frame"
      BY <2>5, <2>10, <3>1 DEF JobDrops, AfterRow, AfterLink
    <3>2. CASE tpc'[q] \in {"drop_row", "gave_up"}
      <4>1. Withdrawing(PosterId(q))'
        BY <1>4, <3>2 DEF Withdrawing, PosterId
      <4>. QED
        BY <2>10, <3>2, <4>1 DEF PosterHeld
    <3>3. CASE tpc'[q] = "finished" /\ rows' = [rows EXCEPT ![PosterId(q)] = NoRow]
      <4>1. ~Exists(PosterId(q))'
        BY <1>4, <3>3 DEF Exists, PosterId, StoreTypeOK
      <4>. QED
        BY <2>10, <3>3, <4>1 DEF PosterHeld
    <3>. QED
      BY <2>10, <3>1, <3>2, <3>3 DEF JobDrops
  <2>. QED
    BY <1>2, <2>3, <2>4, <2>5, <2>6, <2>7, <2>8, <2>9, <2>10
<1>. QED
  BY <1>10, <1>11, <1>12, <1>13 DEF KeyInv

LEMMA KeyInit == Init => KeyInv
<1>. SUFFICES ASSUME Init PROVE KeyInv
  OBVIOUS
<1>1. PICK vis \in [Videos -> Visibilities] :
        rows = [i \in Ids |-> IF i \in Videos THEN ReadyVideo(i, vis[i]) ELSE NoRow]
  BY DEF Init, PosterInit
<1>2. \A i \in Ids : Exists(i) => i \in Videos /\ rows[i].key = Key("videos", vis[i], <<i, 1>>)
  BY <1>1, NoRowFields DEF Exists, ReadyVideo, NoRow
<1>3. ASSUME NEW i \in Ids, Exists(i)
      PROVE  Owns(i, rows[i].key)
  <2>1. PICK k : k = rows[i].key
    OBVIOUS
  <2>2. i \in Videos /\ k = Key("videos", vis[i], <<i, 1>>)
    BY <1>2, <1>3, <2>1
  <2>3. k.dir = "videos" /\ k.tag = <<i, 1>>
    BY <2>2 DEF Key
  <2>4. NameOf(i) = k.tag /\ DirOf(i) = k.dir
    BY <2>2, <2>3 DEF NameOf, DirOf
  <2>. QED
    BY <2>1, <2>4 DEF Owns
<1>4. \A d \in Deleters : dpc[d] = "idle" /\ dposter[d].key = None
  BY NoRowFields DEF Init, DeleteInit
<1>5. \A p \in Patchers : vpc[p] = "idle" /\ CopyFacts(p)
  BY DEF Init, VisInit, CopyFacts
<1>6. \A q \in PosterRequests : PosterHeld(q)
  BY <1>2, Names DEF Init, PosterInit, PosterHeld
<1>. QED
  BY <1>3, <1>4, <1>5, <1>6 DEF KeyInv

LEMMA KeyIdle ==
  ASSUME KeyInv, UNCHANGED vars
  PROVE  KeyInv'
<1>1. UNCHANGED <<rows, objects, target, tpc, tsnap, dpc, did, dsnap, dposter,
                  vpc, vid, vsnap, vcopy, vleft>>
  BY DEF vars, storeVars, posterVars, requestVars, taskVars, deleteVars, visVars
<1>2. \A i \in Ids : Exists(i)' => Owns(i, rows[i].key)'
  BY <1>1 DEF KeyInv, Owns, WorkedOn, Exists
<1>3. \A d \in Deleters :
        /\ dpc'[d] # "idle" => Owns(did[d], dsnap[d].key)'
        /\ dposter'[d].key # None => Owns(dsnap[d].poster, dposter[d].key)'
  BY <1>1 DEF KeyInv, Owns, WorkedOn
<1>4. \A p \in Patchers : vpc'[p] # "idle" => Owns(vid[p], vsnap[p].key)'
  BY <1>1 DEF KeyInv, Owns, WorkedOn
<1>5. \A p \in Patchers : CopyFacts(p)'
  BY <1>1 DEF KeyInv, CopyFacts, Exists
<1>6. \A q \in PosterRequests : PosterHeld(q)'
  BY <1>1 DEF KeyInv, PosterHeld, Withdrawing, Withdrawn, NewPosterKey, PosterId, Exists
<1>. QED
  BY <1>2, <1>3, <1>4, <1>5, <1>6 DEF KeyInv

LEMMA KeysHold ==
  ASSUME "lost_reply" \notin Faults
  PROVE  Spec => [](LinkInv /\ KeyInv)
<1>1. Init => LinkInv /\ KeyInv
  BY LinkInit, KeyInit
<1>2. LinkInv /\ KeyInv /\ [Next]_vars => LinkInv' /\ KeyInv'
  BY PosterLinks, DeleteLinks, VisLinks, LinkIdle, PosterKeys, DeleteKeys, VisKeys, KeyIdle DEF Next
<1>. QED
  BY <1>1, <1>2, PTL DEF Spec

(* The poster a video is linked to has its object (tasks.py 381-400) for   *)
(* any number of poster requests, DELETEs and PATCHes of the video and of  *)
(* the posters, when no reply is lost: only a DELETE of the poster itself, *)
(* or the job that takes its own poster back, has removed it.              *)
THEOREM LinkedPostersHaveObjects ==
  ASSUME "lost_reply" \notin Faults
  PROVE  Spec => []LinkedPosterHasObject
<1>1. LinkInv /\ KeyInv => LinkedPosterHasObject
  <2>. SUFFICES ASSUME LinkInv, KeyInv, NEW v \in Videos, Exists(v), rows[v].poster # None,
                       Exists(rows[v].poster)
                PROVE  rows[rows[v].poster].key \in objects \/ Withdrawing(rows[v].poster)
    BY DEF LinkedPosterHasObject
  <2>1. Linked(v, rows[v].poster)
    BY Names DEF LinkInv, RowOf
  <2>2. PICK q \in PosterRequests : rows[v].poster = PosterId(q) /\ target[q] = v
    BY <2>1 DEF Linked
  <2>. QED
    BY <2>2 DEF KeyInv, PosterHeld
<1>. QED
  BY <1>1, KeysHold, PTL

(***************************************************************************)
(* What is private.                                                        *)
(***************************************************************************)

(* What PATCHes have done they have done.                                  *)
LEMMA WorkStays ==
  ASSUME LinkInv, [Next]_vars
  PROVE  /\ \A i \in Ids : WrittenBlind(i) => WrittenBlind(i)'
         /\ \A q \in PosterRequests : \A p \in Patchers :
              vid[p] = PosterId(q) => vid'[p] = PosterId(q)
         /\ \A q \in PosterRequests :
              tpc[q] # "idle" /\ (\E p \in Patchers : target[q] \in WorkedOn(p)) =>
                \E p \in Patchers : target'[q] \in WorkedOn(p)'
<1>1. ASSUME NEW i \in Ids, NEW p \in Patchers, i \in WorkedOn(p), vwant[p] = "public",
             vid[p] = i => vcopy[p] = None /\ vpc[p] \in {"load_poster", "answered", "broken"}
      PROVE  WrittenBlind(i)'
  <2>1. i \in WorkedOn(p)' /\ vwant'[p] = "public" /\ (vid[p] # i => vid'[p] # i)
    BY <1>1, WorkGoesOn
  <2>2. ASSUME vid[p] = i, vid'[p] = i
        PROVE  vcopy'[p] = None /\ vpc'[p] \in {"load_poster", "answered", "broken"}
    <3>1. CASE UNCHANGED visVars
      BY <1>1, <2>2, <3>1 DEF visVars
    <3>2. ASSUME NEW r \in Patchers, LoadForVisibility(r) \/ Patch(r)
          PROVE  vcopy'[p] = None /\ vpc'[p] \in {"load_poster", "answered", "broken"}
      <4>1. VisKeeps(r) /\ (VisLoads(r) \/ VisCascades(r) \/ VisRuns(r))
        BY <3>2, VisEffect
      <4>2. CASE r # p
        BY <1>1, <2>2, <4>1, <4>2 DEF VisKeeps
      <4>3. CASE r = p
        <5>1. vpc[p] = "load_poster"
          BY <1>1, <2>2, <4>1, <4>3 DEF VisKeeps
        <5>2. CASE VisCascades(p)
          <6>1. vsnap[p].poster = i /\ RowOf(i, vsnap[p]) /\ i # None
            BY <2>2, <5>1, <5>2, Names DEF VisCascades, LinkInv, VisFacts
          <6>2. i \in Videos /\ Linked(i, i)
            BY <6>1 DEF RowOf
          <6>. QED
            BY <6>2, Names DEF Linked
        <5>3. (vpc'[p] = "answered" /\ vcopy' = vcopy) \/ VisCascades(p)
          BY <4>1, <4>3, <5>1 DEF VisLoads, VisRuns, VisCopies, VisWrites, VisRemoves
        <5>. QED
          BY <1>1, <2>2, <5>2, <5>3
      <4>. QED
        BY <4>2, <4>3
    <3>. QED
      BY <3>1, <3>2 DEF Next, VisNext, vars
  <2>. QED
    BY <2>1, <2>2 DEF WrittenBlind, WorkedOn
<1>2. ASSUME NEW q \in PosterRequests, NEW p \in Patchers, vid[p] = PosterId(q)
      PROVE  vid'[p] = PosterId(q)
  <2>1. target[q] \in Videos /\ target[q] \in WorkedOn(p) /\ target[q] # vid[p] /\ target[q] \in Ids
    BY <1>2, WorkIs, Names
  <2>. QED
    BY <1>2, <2>1, WorkGoesOn
<1>3. ASSUME NEW q \in PosterRequests, tpc[q] # "idle", NEW p \in Patchers, target[q] \in WorkedOn(p)
      PROVE  target'[q] \in WorkedOn(p)'
  <2>1. PICK i \in Ids : i = target[q] /\ target'[q] = i
    BY <1>3, TargetsStay, Names
  <2>2. i \in WorkedOn(p)'
    BY <1>3, <2>1, WorkGoesOn
  <2>. QED
    BY <2>1, <2>2 DEF WorkedOn
<1>. QED
  BY <1>1, <1>2, <1>3 DEF WrittenBlind

(* The visibility a job inherits it reads once.                            *)
LEMMA JobReads ==
  ASSUME LinkInv, NEW q \in PosterRequests, PosterStep(q)
  PROVE  \/ /\ tsnap'[q] = tsnap[q]
            /\ \/ tpc'[q] = tpc[q] \/ tpc'[q] \in {"finished", "gave_up"}
               \/ tpc[q] = "idle" /\ tpc'[q] = "load"
               \/ tpc[q] \notin {"idle", "load", "finished", "gave_up"} /\ tpc'[q] \notin {"idle", "load"}
         \/ /\ tpc[q] = "load" /\ tpc'[q] = "extract" /\ rows' = rows
            /\ tsnap'[q] = rows[target[q]] /\ rows[target[q]].status = "ready"
<1>1. PosterTypeOK /\ RequestFacts(q)
  BY DEF LinkInv, TypeOK
<1>2. \A from, to : TaskStep(q, from, to) => tpc[q] = from /\ tpc'[q] = to
  BY <1>1 DEF TaskStep, PosterTypeOK
<1>3. CASE RequestPoster(q) \/ CheckPoster(q) \/ EnqueuePoster(q) \/ AcknowledgePoster(q)
  BY <1>3 DEF RequestPoster, CheckPoster, EnqueuePoster, AcknowledgePoster, taskVars
<1>4. CASE DeliverPoster(q) \/ ExtractPoster(q) \/ PutPoster(q) \/ CreatePosterRow(q)
  BY <1>2, <1>4 DEF DeliverPoster, ExtractPoster, PutPoster, CreatePosterRow
<1>5. CASE LoadVideo(q)
  BY <1>1, <1>2, <1>5 DEF LoadVideo, storeVars, PosterTypeOK
<1>6. CASE LinkNewPoster(q) \/ ReadNewLink(q) \/ DropNewObject(q) \/ DropNewRow(q)
  BY <1>2, <1>6 DEF LinkNewPoster, ReadNewLink, DropNewObject, DropNewRow
<1>. QED
  BY <1>3, <1>4, <1>5, <1>6 DEF PosterStep, GeneratePoster

(* The row a PATCH writes.                                                 *)
LEMMA VisRows ==
  ASSUME LinkInv, NEW p \in Patchers, LoadForVisibility(p) \/ Patch(p), NEW i \in Ids, Exists(i)'
  PROVE  \/ Exists(i) /\ rows'[i] = rows[i]
         \/ /\ Exists(i) /\ i = vid[p] /\ vid' = vid /\ vwant' = vwant /\ vcopy' = vcopy
            /\ rows'[i].vis = vwant[p]
            /\ rows'[i].key = IF vcopy[p] = None THEN rows[i].key ELSE vcopy[p]
            /\ vcopy[p] = None => vpc'[p] \in {"answered", "load_poster"}
<1>1. VisLoads(p) \/ VisCascades(p) \/ VisRuns(p)
  BY VisEffect
<1>2. TypeOK /\ StoreTypeOK /\ VisFacts(p)
  BY DEF LinkInv, TypeOK
<1>3. CASE rows' = rows
  BY <1>3 DEF Exists
<1>4. CASE rows' # rows
  <2>1. VisWrites(p) /\ vid' = vid /\ vwant' = vwant
    BY <1>1, <1>4 DEF VisLoads, VisCascades, VisRuns, VisCopies, VisRemoves
  <2>2. /\ Exists(vid[p]) /\ rows' = [rows EXCEPT ![vid[p]] = NewRow(p)] /\ vcopy' = vcopy
        /\ vcopy[p] = None => vpc'[p] \in {"answered", "load_poster"}
    BY <1>4, <2>1 DEF VisWrites
  <2>3. vid[p] \in Ids /\ vsnap[p].rends = {}
    BY <1>2, <2>1 DEF VisWrites, VisFacts, RowOf
  <2>4. NewRow(p).vis = vwant[p] /\ NewRow(p).key = IF vcopy[p] = None THEN rows[vid[p]].key ELSE vcopy[p]
    BY <1>2, <2>3, NewRowFields
  <2>5. i # vid[p] => rows'[i] = rows[i]
    BY <1>2, <2>2 DEF StoreTypeOK
  <2>6. i = vid[p] => rows'[i] = NewRow(p)
    BY <1>2, <2>2, <2>3 DEF StoreTypeOK
  <2>7. CASE i # vid[p]
    BY <2>5, <2>7 DEF Exists
  <2>8. CASE i = vid[p]
    BY <2>1, <2>2, <2>4, <2>6, <2>8
  <2>. QED
    BY <2>7, <2>8
<1>. QED
  BY <1>3, <1>4

(* A poster stays as private as its job has found the video, while no      *)
(* PATCH works on it, and so does the video.                               *)
LEMMA InheritedKept ==
  ASSUME LinkInv, PrivacyInv, [Next]_vars, NEW q \in PosterRequests,
         tpc'[q] = tpc[q], tsnap'[q] = tsnap[q],
         \A i \in Ids : Exists(i)' =>
           \/ Exists(i) /\ rows'[i].vis = rows[i].vis /\ rows'[i].key = rows[i].key
           \/ Exists(i) /\ (\E p \in Patchers : vid[p] = i)
           \/ i \notin Videos /\ i # PosterId(q)
  PROVE  Inherited(q)'
<1>1. Inherited(q) /\ PosterId(q) \in Ids /\ Videos \subseteq Ids
  BY Names DEF PrivacyInv
<1>2. NewPosterKey(q)' = NewPosterKey(q) /\ PosterId(q)' = PosterId(q)
  BY DEF NewPosterKey, PosterId
<1>3. ASSUME Exists(PosterId(q))'
      PROVE  /\ tsnap'[q].status = "ready"
             /\ \/ rows'[PosterId(q)].key = NewPosterKey(q)
                \/ \E p \in Patchers : vid'[p] = PosterId(q)
  <2>1. /\ Exists(PosterId(q)) 
        /\ rows'[PosterId(q)].key = rows[PosterId(q)].key \/ \E p \in Patchers : vid[p] = PosterId(q)
    BY <1>1, <1>3, Names
  <2>2. \A p \in Patchers : vid[p] = PosterId(q) => vid'[p] = PosterId(q)
    BY WorkStays
  <2>. QED
    BY <1>1, <2>1, <2>2 DEF Inherited
<1>4. ASSUME tsnap'[q].status = "ready", Exists(target[q])'
      PROVE  rows'[target'[q]].vis = tsnap'[q].vis \/ \E p \in Patchers : target'[q] \in WorkedOn(p)'
  <2>1. tpc[q] # "idle"
    BY <1>1, <1>4 DEF Inherited
  <2>2. PICK v \in Videos : v = target[q] /\ target'[q] = v
    BY <2>1, TargetsStay
  <2>3. /\ Exists(v)
        /\ \/ rows'[v].vis = rows[v].vis
           \/ \E p \in Patchers : vid[p] = v
    BY <1>1, <1>4, <2>2 DEF Exists
  <2>4. rows[v].vis = tsnap[q].vis \/ \E p \in Patchers : v \in WorkedOn(p)
    BY <1>1, <1>4, <2>2, <2>3 DEF Inherited
  <2>5. \A p \in Patchers : vid[p] = v => v \in WorkedOn(p)
    BY DEF WorkedOn
  <2>6. (\E p \in Patchers : v \in WorkedOn(p)) => \E p \in Patchers : target'[q] \in WorkedOn(p)'
    BY <2>1, <2>2, WorkStays
  <2>. QED
    BY <2>2, <2>3, <2>4, <2>5, <2>6
<1>. QED
  BY <1>1, <1>2, <1>3, <1>4 DEF Inherited, Exists

LEMMA VisPrivacy ==
  ASSUME LinkInv, PrivacyInv, VisNext, UNCHANGED <<posterVars, deleteVars>>
  PROVE  PrivacyInv'
<1>1. PICK p \in Patchers : LoadForVisibility(p) \/ Patch(p)
  BY DEF VisNext
<1>2. VisKeeps(p) /\ (VisLoads(p) \/ VisCascades(p) \/ VisRuns(p))
  BY <1>1, VisEffect
<1>3. [Next]_vars
  BY DEF Next
<1>4. /\ TypeOK /\ VisFacts(p) /\ CopyWanted(p) /\ UNCHANGED <<tpc, tsnap>>
  BY DEF LinkInv, PrivacyInv, posterVars, taskVars
<1>5. ASSUME NEW i \in Ids, Exists(i)'
      PROVE  \/ Exists(i) /\ rows'[i] = rows[i]
             \/ /\ Exists(i) /\ i = vid[p] /\ vid' = vid /\ vwant' = vwant /\ vcopy' = vcopy
                /\ rows'[i].vis = vwant[p]
                /\ rows'[i].key = IF vcopy[p] = None THEN rows[i].key ELSE vcopy[p]
                /\ vcopy[p] = None => vpc'[p] \in {"answered", "load_poster"}
  BY <1>1, <1>5, VisRows
<1>6. ASSUME NEW i \in Ids
      PROVE  ShownOpenly(i)'
  <2>1. SUFFICES ASSUME Exists(i)', rows'[i].vis = "public"
                 PROVE  rows'[i].key.vis = "public" \/ WrittenBlind(i)'
    BY DEF ShownOpenly
  <2>2. CASE Exists(i) /\ rows'[i] = rows[i]
    BY <1>3, <2>1, <2>2, WorkStays DEF PrivacyInv, ShownOpenly
  <2>3. CASE /\ i = vid[p] /\ vid' = vid /\ vwant' = vwant /\ vcopy' = vcopy
             /\ rows'[i].vis = vwant[p]
             /\ rows'[i].key = IF vcopy[p] = None THEN rows[i].key ELSE vcopy[p]
             /\ vcopy[p] = None => vpc'[p] \in {"answered", "load_poster"}
    <3>1. CASE vcopy[p] = None
      <4>1. i \in WorkedOn(p)' /\ vwant'[p] = "public" /\ vcopy'[p] = None
            /\ vpc'[p] \in {"answered", "load_poster"}
        BY <2>1, <2>3, <3>1 DEF WorkedOn
      <4>. QED
        BY <4>1 DEF WrittenBlind, WorkedOn
    <3>2. CASE vcopy[p] # None
      BY <1>4, <2>1, <2>3, <3>2 DEF CopyWanted
    <3>. QED
      BY <3>1, <3>2
  <2>. QED
    BY <1>5, <2>1, <2>2, <2>3
<1>7. CopyWanted(p)'
  <2>1. vpc[p] = "copy" => vsnap[p].key \in Keys
    BY <1>4 DEF VisFacts, RowOf, TypeOK, VisTypeOK, Rows
  <2>2. vpc[p] = "copy" => Rotated(p, vsnap[p].key).vis = vwant[p]
    BY <1>4, <2>1, RotatedKey
  <2>3. CASE VisLoads(p)
    BY <1>4, <2>3 DEF VisLoads, CopyWanted
  <2>4. CASE VisCascades(p)
    BY <2>4 DEF VisCascades, CopyWanted
  <2>5. CASE VisRuns(p)
    BY <1>4, <2>2, <2>5 DEF VisRuns, VisCopies, VisWrites, VisRemoves, CopyWanted
  <2>. QED
    BY <1>2, <2>3, <2>4, <2>5
<1>8. ASSUME NEW r \in Patchers
      PROVE  CopyWanted(r)'
  BY <1>2, <1>7 DEF VisKeeps, PrivacyInv, CopyWanted
<1>9. ASSUME NEW q \in PosterRequests
      PROVE  Inherited(q)'
  BY <1>3, <1>4, <1>5, InheritedKept
<1>. QED
  BY <1>6, <1>8, <1>9 DEF PrivacyInv

LEMMA DeletePrivacy ==
  ASSUME LinkInv, PrivacyInv, DeleteNext, UNCHANGED <<posterVars, visVars>>
  PROVE  PrivacyInv'
<1>1. PICK d \in Deleters : LoadForDelete(d) \/ Delete(d)
  BY DEF DeleteNext
<1>2. DeleteLoads(d) \/ DeleteCascades(d) \/ DeleteRuns(d)
  BY <1>1, DeleteEffect
<1>3. [Next]_vars /\ StoreTypeOK /\ NoRow.status = "none"
      /\ UNCHANGED <<tpc, tsnap, vpc, vid, vwant, vcopy>>
  BY NoRowFields DEF Next, LinkInv, TypeOK, posterVars, taskVars, visVars
<1>4. \A i \in Ids : Exists(i)' => Exists(i) /\ rows'[i] = rows[i]
  BY <1>2, <1>3 DEF DeleteLoads, DeleteCascades, DeleteRuns, StoreTypeOK, Exists
<1>5. \A i \in Ids : ShownOpenly(i)'
  BY <1>3, <1>4, WorkStays DEF PrivacyInv, ShownOpenly
<1>6. \A p \in Patchers : CopyWanted(p)'
  BY <1>3 DEF PrivacyInv, CopyWanted
<1>7. \A q \in PosterRequests : Inherited(q)'
  BY <1>3, <1>4, InheritedKept
<1>. QED
  BY <1>5, <1>6, <1>7 DEF PrivacyInv

LEMMA PosterPrivacy ==
  ASSUME LinkInv, PrivacyInv, PosterNext, UNCHANGED <<deleteVars, visVars>>
  PROVE  PrivacyInv'
<1>1. PICK q \in PosterRequests : PosterStep(q)
  BY DEF PosterNext, PosterStep
<1>2. PosterKeeps(q) /\ PosterWrites(q)
  BY <1>1, PosterEffect
<1>3. [Next]_vars
  BY DEF Next
<1>4. /\ TypeOK /\ StoreTypeOK /\ RequestFacts(q) /\ Inherited(q) /\ NoRow.status = "none"
      /\ PosterId(q) \in Ids /\ PosterId(q) \in Jobs /\ PosterId(q) \notin Videos /\ Videos \subseteq Ids
      /\ UNCHANGED <<vpc, vid, vwant, vcopy>>
      /\ tpc[q] \in TaskSteps /\ (tpc[q] # "idle" => target[q] \in Videos)
  BY NoRowFields, Names DEF LinkInv, TypeOK, PosterTypeOK, PrivacyInv, visVars, RequestFacts
<1>5. /\ NewPosterRow(q).key = NewPosterKey(q) /\ NewPosterKey(q).vis = tsnap[q].vis
      /\ NewPosterRow(q).vis = tsnap[q].vis
  BY <1>4, NewPosterFields
<1>6. ASSUME NEW i \in Ids, Exists(i)'
      PROVE  \/ Exists(i) /\ rows'[i].vis = rows[i].vis /\ rows'[i].key = rows[i].key
             \/ i = PosterId(q) /\ rows'[i] = NewPosterRow(q) /\ tpc[q] = "poster_row"
  <2>1. CASE rows' = rows
    BY <1>6, <2>1 DEF Exists
  <2>2. CASE tpc[q] = "poster_row" /\ rows' = [rows EXCEPT ![PosterId(q)] = NewPosterRow(q)]
    BY <1>4, <1>6, <2>2 DEF Exists, StoreTypeOK
  <2>3. CASE tpc[q] = "link" /\ rows' = SetPoster(target[q], PosterId(q))
    BY <1>4, <1>6, <2>3, SetPosterFields DEF Exists
  <2>4. CASE rows' = [rows EXCEPT ![PosterId(q)] = NoRow]
    BY <1>4, <1>6, <2>4 DEF Exists, StoreTypeOK
  <2>. QED
    BY <1>2, <2>1, <2>2, <2>3, <2>4 DEF PosterWrites
<1>7. ASSUME NEW i \in Ids
      PROVE  ShownOpenly(i)'
  <2>1. CASE Exists(i) /\ rows'[i].vis = rows[i].vis /\ rows'[i].key = rows[i].key
    BY <1>3, <2>1, WorkStays DEF PrivacyInv, ShownOpenly
  <2>2. CASE rows'[i] = NewPosterRow(q)
    BY <1>5, <2>2 DEF ShownOpenly
  <2>. QED
    BY <1>6, <2>1, <2>2 DEF ShownOpenly
<1>8. \A p \in Patchers : CopyWanted(p)'
  BY <1>4 DEF PrivacyInv, CopyWanted
<1>9. ASSUME NEW r \in PosterRequests \ {q}
      PROVE  Inherited(r)'
  <2>1. PosterId(r) # PosterId(q)
    BY <1>9, Names
  <2>. QED
    BY <1>2, <1>3, <1>4, <1>6, <2>1, InheritedKept DEF PosterKeeps
<1>10. Inherited(q)'
  <2>1. PosterId(q)' = PosterId(q) /\ Inherited(q) /\ tpc'[q] \in TaskSteps
    BY <1>1, <1>4, PosterEffect DEF PosterId, PosterTypeOK
  <2>2. CASE /\ tpc[q] = "load" /\ tpc'[q] = "extract" /\ rows' = rows
             /\ tsnap'[q] = rows[target[q]] /\ rows[target[q]].status = "ready"
    <3>1. ~Exists(PosterId(q))'
      BY <2>1, <2>2, NotMade DEF Exists, AfterRow, AfterLink
    <3>2. target'[q] = target[q]
      BY <1>3, <2>2, TargetsStay
    <3>. QED
      BY <2>1, <2>2, <3>1, <3>2 DEF Inherited, Exists
  <2>3. CASE /\ tsnap'[q] = tsnap[q]
             /\ \/ tpc'[q] = tpc[q]
                \/ tpc'[q] \in {"finished", "gave_up"}
                \/ tpc[q] = "idle" /\ tpc'[q] = "load"
                \/ tpc[q] \notin {"idle", "load", "finished", "gave_up"} /\ tpc'[q] \notin {"idle", "load"}
    <3>1. /\ tpc'[q] \in {"idle", "load"} => tsnap'[q].status # "ready"
          /\ tpc'[q] \in TaskSteps \ {"idle", "load", "gave_up", "finished"} => tsnap'[q].status = "ready"
      BY <1>4, <2>1, <2>3 DEF Inherited
    <3>2. NewPosterKey(q)' = NewPosterKey(q)
      BY <2>3 DEF NewPosterKey, PosterId
    <3>3. ASSUME Exists(PosterId(q))'
          PROVE  /\ tsnap'[q].status = "ready"
                 /\ rows'[PosterId(q)].key = NewPosterKey(q) \/ \E p \in Patchers : vid'[p] = PosterId(q)
      BY <1>4, <1>5, <1>6, <2>1, <2>3, <3>3 DEF Inherited
    <3>4. ASSUME tsnap'[q].status = "ready", Exists(target[q])'
          PROVE  rows'[target'[q]].vis = tsnap'[q].vis \/ \E p \in Patchers : target'[q] \in WorkedOn(p)'
      <4>1. tpc[q] # "idle" /\ target[q] \in Videos /\ target'[q] = target[q]
        <5>1. tpc[q] # "idle"
          BY <2>1, <2>3, <3>4 DEF Inherited
        <5>. QED
          BY <1>3, <5>1, TargetsStay
      <4>2. Exists(target[q]) /\ rows'[target[q]].vis = rows[target[q]].vis
        BY <1>4, <1>6, <3>4, <4>1 DEF Exists
      <4>3. rows[target[q]].vis = tsnap[q].vis \/ \E p \in Patchers : target[q] \in WorkedOn(p)
        BY <2>1, <2>3, <3>4, <4>2 DEF Inherited
      <4>4. (\E p \in Patchers : target[q] \in WorkedOn(p)) => \E p \in Patchers : target'[q] \in WorkedOn(p)'
        BY <1>3, <4>1, WorkStays
      <4>. QED
        BY <2>3, <4>1, <4>2, <4>3, <4>4
    <3>. QED
      BY <2>1, <3>1, <3>2, <3>3, <3>4 DEF Inherited, Exists
  <2>. QED
    BY <1>1, <2>2, <2>3, JobReads
<1>. QED
  BY <1>7, <1>8, <1>9, <1>10 DEF PrivacyInv

LEMMA PrivacyHolds == Spec => [](LinkInv /\ PrivacyInv)
<1>1. Init => PrivacyInv
  <2>. SUFFICES ASSUME Init PROVE PrivacyInv
    OBVIOUS
  <2>1. PICK vis \in [Videos -> Visibilities] :
          rows = [i \in Ids |-> IF i \in Videos THEN ReadyVideo(i, vis[i]) ELSE NoRow]
    BY DEF Init, PosterInit
  <2>2. \A i \in Ids : Exists(i) => i \in Videos /\ rows[i].key.vis = rows[i].vis
    BY <2>1, NoRowFields DEF Exists, ReadyVideo, NoRow, Key
  <2>3. \A i \in Ids : ShownOpenly(i)
    BY <2>2 DEF ShownOpenly
  <2>4. \A p \in Patchers : CopyWanted(p)
    BY DEF Init, VisInit, CopyWanted
  <2>5. \A q \in PosterRequests : Inherited(q)
    BY <2>2, Names, NoRowFields DEF Init, PosterInit, Inherited
  <2>. QED
    BY <2>3, <2>4, <2>5 DEF PrivacyInv
<1>2. PrivacyInv /\ UNCHANGED vars => PrivacyInv'
  <2>. SUFFICES ASSUME PrivacyInv, UNCHANGED vars PROVE PrivacyInv'
    OBVIOUS
  <2>1. UNCHANGED <<rows, target, tpc, tsnap, vpc, vid, vwant, vcopy>>
    BY DEF vars, storeVars, posterVars, requestVars, taskVars, visVars
  <2>2. \A i \in Ids : ShownOpenly(i)'
    BY <2>1 DEF PrivacyInv, ShownOpenly, WrittenBlind, WorkedOn, Exists
  <2>3. \A p \in Patchers : CopyWanted(p)'
    BY <2>1 DEF PrivacyInv, CopyWanted
  <2>4. \A q \in PosterRequests : Inherited(q)'
    BY <2>1 DEF PrivacyInv, Inherited, NewPosterKey, PosterId, WorkedOn, Exists
  <2>. QED
    BY <2>2, <2>3, <2>4 DEF PrivacyInv
<1>3. LinkInv /\ PrivacyInv /\ [Next]_vars => LinkInv' /\ PrivacyInv'
  BY <1>2, PosterLinks, DeleteLinks, VisLinks, LinkIdle, PosterPrivacy, DeletePrivacy, VisPrivacy
     DEF Next
<1>. QED
  BY <1>1, <1>3, LinkInit, PTL DEF Spec

(* The poster of a private video is behind the prefix, and a public record *)
(* answers with no URL of an object that is (tasks.py 628-631, imgproxy.py *)
(* 71-73), however many jobs, DELETEs and PATCHes overlap and whatever     *)
(* fails, unless a PATCH worked out of sight of the link, or wrote         *)
(* `public` only.                                                          *)
THEOREM PostersSharePrivacy == Spec => []PosterSharesPrivacy
<1>1. ASSUME LinkInv, PrivacyInv, NEW v \in Ids, Exists(v), rows[v].poster # None,
             Exists(rows[v].poster)
      PROVE  rows[rows[v].poster].key.vis = rows[v].vis \/ LinkOutOfSight(v, rows[v].poster)
  <2>1. v \in Videos /\ Linked(v, rows[v].poster)
    BY <1>1 DEF LinkInv, RowOf
  <2>2. PICK q \in PosterRequests : rows[v].poster = PosterId(q) /\ target[q] = v
    BY <2>1 DEF Linked
  <2>3. /\ Inherited(q) /\ PosterId(q) \in Ids /\ PosterId(q) # v
        /\ rows[PosterId(q)].key # None /\ rows[PosterId(q)].rends = {}
    BY <1>1, <2>1, <2>2, Names DEF PrivacyInv, LinkInv, RowOf
  <2>4. NewPosterKey(q).vis = tsnap[q].vis
    BY <1>1, NewPosterFields DEF LinkInv
  <2>5. ASSUME NEW p \in Patchers, vid[p] = PosterId(q)
        PROVE  \/ rows[PosterId(q)].key.vis = rows[v].vis
               \/ vwant[p] # rows[v].vis \/ vcopy[p] \notin Held(rows[PosterId(q)])
    BY <1>1, <2>3, <2>5 DEF PrivacyInv, CopyWanted, Held
  <2>6. CASE \E p \in Patchers : vid[p] = PosterId(q)
    BY <2>2, <2>5, <2>6 DEF LinkOutOfSight
  <2>7. CASE ~\E p \in Patchers : vid[p] = PosterId(q)
    <3>1. tsnap[q].status = "ready" /\ rows[PosterId(q)].key = NewPosterKey(q)
      BY <1>1, <2>2, <2>3, <2>7 DEF Inherited
    <3>2. rows[v].vis = tsnap[q].vis \/ \E p \in Patchers : v \in WorkedOn(p)
      BY <1>1, <2>2, <2>3, <3>1 DEF Inherited
    <3>. QED
      BY <2>2, <2>4, <2>7, <3>1, <3>2 DEF LinkOutOfSight
  <2>. QED
    BY <2>6, <2>7
<1>2. LinkInv /\ PrivacyInv => PosterSharesPrivacy
  <2>. SUFFICES ASSUME LinkInv, PrivacyInv PROVE PosterSharesPrivacy
    OBVIOUS
  <2>1. ASSUME NEW v \in Videos, Exists(v), rows[v].vis = "private", rows[v].poster # None,
               Exists(rows[v].poster)
        PROVE  rows[rows[v].poster].key.vis = "private" \/ LinkOutOfSight(v, rows[v].poster)
    BY <1>1, <2>1, Names
  <2>2. ASSUME NEW i \in Ids, NEW k \in DurableKeys(i)
        PROVE  \/ k.vis = "public"
               \/ k = rows[i].key /\ WrotePublicOnly(i)
               \/ k # rows[i].key /\ LinkOutOfSight(i, rows[i].poster)
    <3>1. /\ Exists(i) /\ rows[i].vis = "public"
          /\ \/ k \in Held(rows[i])
             \/ Exists(rows[i].poster) /\ rows[i].poster \in Ids /\ k = rows[rows[i].poster].key
      BY <2>2 DEF DurableKeys, Exists
    <3>2. k \in Held(rows[i]) => k = rows[i].key
      BY <3>1 DEF LinkInv, RowOf, Held
    <3>3. CASE k = rows[i].key
      <4>1. ShownOpenly(i)
        BY DEF PrivacyInv
      <4>2. WrittenBlind(i) => WrotePublicOnly(i)
        BY DEF WrittenBlind, WrotePublicOnly
      <4>. QED
        BY <3>1, <3>3, <4>1, <4>2 DEF ShownOpenly
    <3>4. CASE k # rows[i].key
      BY <1>1, <3>1, <3>2, <3>4, Names
    <3>. QED
      BY <3>3, <3>4
  <2>. QED
    BY <2>1, <2>2 DEF PosterSharesPrivacy
<1>. QED
  BY <1>2, PrivacyHolds, PTL

(***************************************************************************)
(* Where every object is accounted for, when neither a reply nor a removal *)
(* is lost.                                                                *)
(***************************************************************************)

(* What was there and is gone stays gone.                                  *)
LEMMA GoneStays ==
  ASSUME LinkInv, [Next]_vars, NEW i \in Ids, Exists(i)'
  PROVE  Exists(i) \/ ~Made(i)
<1>1. CASE UNCHANGED vars
  BY <1>1 DEF vars, storeVars, Exists
<1>2. CASE DeleteNext /\ UNCHANGED <<posterVars, visVars>>
  BY <1>2, DeleteLinks DEF LinksStay
<1>3. CASE VisNext /\ UNCHANGED <<posterVars, deleteVars>>
  BY <1>3, VisLinks DEF LinksStay
<1>4. CASE PosterNext
  <2>1. PICK q \in PosterRequests : PosterStep(q)
    BY <1>4 DEF PosterNext, PosterStep
  <2>2. PosterWrites(q) /\ RequestFacts(q) /\ TypeOK /\ StoreTypeOK /\ NoRow.status = "none"
        /\ Videos \subseteq Ids /\ PosterId(q) \in Ids /\ PosterId(q) \in Jobs
    BY <2>1, PosterEffect, NoRowFields, Names DEF LinkInv, TypeOK
  <2>3. CASE rows' = rows
    BY <2>3 DEF Exists
  <2>4. CASE tpc[q] = "poster_row" /\ rows' = [rows EXCEPT ![PosterId(q)] = NewPosterRow(q)]
    <3>1. ~Made(PosterId(q))
      BY <2>4, Names DEF Made, AfterRow, AfterLink
    <3>. QED
      BY <2>2, <2>4, <3>1 DEF StoreTypeOK, Exists
  <2>5. CASE tpc[q] = "link" /\ rows' = SetPoster(target[q], PosterId(q))
    <3>1. target[q] \in Ids
      BY <2>2, <2>5 DEF RequestFacts
    <3>. QED
      BY <2>2, <2>5, <3>1, SetPosterFields DEF Exists
  <2>6. CASE rows' = [rows EXCEPT ![PosterId(q)] = NoRow]
    BY <2>2, <2>6 DEF StoreTypeOK, Exists
  <2>. QED
    BY <2>2, <2>3, <2>4, <2>5, <2>6 DEF PosterWrites
<1>. QED
  BY <1>1, <1>2, <1>3, <1>4 DEF Next

(* A PATCH works on rows that were made.                                   *)
LEMMA WorkIsMade ==
  ASSUME LinkInv, NEW p \in Patchers, NEW i \in Ids, i \in WorkedOn(p)
  PROVE  Made(i)
<1>1. vpc[p] # "idle"
  BY WorkIs
<1>2. Made(vid[p])
  BY <1>1 DEF LinkInv, VisFacts, RowOf
<1>3. i = vid[p] \/ i \in Videos
  BY <1>1, WorkIs
<1>. QED
  BY <1>2, <1>3 DEF Made

LEMMA StrayStays ==
  ASSUME LinkInv, [Next]_vars, NEW k, Stray(k)
  PROVE  Stray(k)'
<1>1. PICK p \in Patchers, i \in Ids :
        /\ i \in WorkedOn(p) /\ k.tag = p /\ k.dir = DirOf(i)
        /\ ~Exists(i) \/ \E r \in Patchers \ {p} : i \in WorkedOn(r)
  BY DEF Stray
<1>2. i \in WorkedOn(p)'
  BY <1>1, WorkGoesOn
<1>3. \A r \in Patchers : i \in WorkedOn(r) => i \in WorkedOn(r)'
  BY WorkGoesOn
<1>4. ~Exists(i) => ~Exists(i)'
  BY <1>1, GoneStays, WorkIsMade
<1>. QED
  BY <1>1, <1>2, <1>3, <1>4 DEF Stray, Exists, WorkedOn, DirOf

(* A new object is the frame of a job or the copy of a PATCH, which no row *)
(* that was made owns.                                                     *)
LEMMA NewObjects ==
  ASSUME LinkInv, KeyInv, "lost_reply" \notin Faults, [Next]_vars, NEW k \in objects' \ objects
  PROVE  /\ \/ \E q \in PosterRequests : tpc[q] = "put" /\ k = NewPosterKey(q)
            \/ \E p \in Patchers : k.tag = p
         /\ \A j \in Ids : Made(j) => ~Owns(j, k)
<1>1. CASE UNCHANGED vars
  BY <1>1 DEF vars, storeVars
<1>2. CASE DeleteNext
  <2>1. PICK d \in Deleters : LoadForDelete(d) \/ Delete(d)
    BY <1>2 DEF DeleteNext
  <2>. QED
    BY <2>1, DeleteEffect DEF DeleteLoads, DeleteCascades, DeleteRuns
<1>3. CASE VisNext
  <2>1. PICK p \in Patchers : LoadForVisibility(p) \/ Patch(p)
    BY <1>3 DEF VisNext
  <2>2. VisCopies(p) /\ k = Rotated(p, vsnap[p].key) /\ vpc[p] = "copy"
    BY <2>1, VisEffect DEF VisLoads, VisCascades, VisRuns, VisCopies, VisWrites, VisRemoves
  <2>3. /\ vid[p] \in Ids /\ vid[p] \in WorkedOn(p) /\ vsnap[p].key \in Keys
        /\ vsnap[p].key.dir = DirOf(vid[p])
    BY <2>2 DEF LinkInv, VisFacts, RowOf, TypeOK, VisTypeOK, Rows, KeyInv, Owns, WorkedOn
  <2>4. k.tag = p /\ k.dir = DirOf(vid[p])
    BY <2>2, <2>3, RotatedKey DEF LinkInv
  <2>5. \A j \in Ids : ~Owns(j, k)
    <3>1. SUFFICES ASSUME NEW j \in Ids, Owns(j, k) PROVE FALSE
      OBVIOUS
    <3>2. j \in WorkedOn(p) /\ DirOf(j) = DirOf(vid[p]) /\ (vid[p] = j => vpc[p] \in Out)
      BY <2>4, <3>1, NamesAreIds DEF Owns
    <3>. QED
      BY <2>2, <2>3, <3>2, OneOfAKind DEF Out
  <2>. QED
    BY <2>4, <2>5
<1>4. CASE PosterNext
  <2>1. PICK q \in PosterRequests : PosterStep(q)
    BY <1>4 DEF PosterNext, PosterStep
  <2>2. tpc[q] = "put" /\ k = NewPosterKey(q)
    BY <2>1, PosterEffect DEF PosterStores
  <2>3. ~Made(PosterId(q))
    BY <2>2, Names DEF Made, AfterRow, AfterLink
  <2>. QED
    BY <2>2, <2>3, PosterOwner
<1>. QED
  BY <1>1, <1>2, <1>3, <1>4 DEF Next

(* The key a job has minted is fixed while its row is there.               *)
LEMMA SnapStays ==
  ASSUME LinkInv, [Next]_vars, NEW q \in PosterRequests, tpc[q] \in AfterRow \cup {"poster_row"}
  PROVE  tsnap'[q] = tsnap[q]
<1>1. CASE UNCHANGED posterVars
  BY <1>1 DEF posterVars, taskVars
<1>2. CASE PosterNext
  <2>1. PICK r \in PosterRequests : PosterStep(r)
    BY <1>2 DEF PosterNext, PosterStep
  <2>2. PosterKeeps(r) /\ PosterReads(r)
    BY <2>1, PosterEffect
  <2>. QED
    BY <2>2 DEF PosterKeeps, PosterReads, AfterRow, AfterLink
<1>. QED
  BY <1>1, <1>2 DEF Next, vars

LEMMA KeySeenKept ==
  ASSUME LinkInv, [Next]_vars, NEW i \in Ids, KeySeen(i), Exists(i), rows'[i].key = rows[i].key,
         \A p \in Patchers : vid'[p] = i =>
           \/ vid[p] = i /\ vsnap'[p] = vsnap[p]
           \/ vsnap'[p] = rows[i],
         \A d \in Deleters : did'[d] = i =>
           \/ did[d] = i /\ dsnap'[d] = dsnap[d]
           \/ dsnap'[d] = rows[i],
         \A d \in Deleters : dposter'[d].key # None /\ dsnap'[d].poster = i =>
           \/ dposter[d].key # None /\ dsnap[d].poster = i /\ dposter'[d] = dposter[d]
           \/ dposter'[d] = rows[i]
  PROVE  KeySeen(i)'
<1>1. SUFFICES ASSUME rows[i].key.tag = NameOf(i)
               PROVE  /\ \A p \in Patchers : vid'[p] = i => rows'[i].key = vsnap'[p].key
                      /\ \A d \in Deleters : did'[d] = i => rows'[i].key = dsnap'[d].key
                      /\ \A d \in Deleters : dposter'[d].key # None /\ dsnap'[d].poster = i =>
                           rows'[i].key = dposter'[d].key
                      /\ \A q \in PosterRequests : i = PosterId(q) => rows'[i].key = NewPosterKey(q)'
  BY DEF KeySeen, NameOf, PosterId
<1>2. \A q \in PosterRequests : i = PosterId(q) => NewPosterKey(q)' = NewPosterKey(q)
  <2>1. \A q \in PosterRequests : i = PosterId(q) => tpc[q] \in AfterRow
    BY NotMade
  <2>. QED
    BY <2>1, SnapStays DEF NewPosterKey, PosterId
<1>. QED
  BY <1>1, <1>2 DEF KeySeen

(* What is known of a request that a step leaves alone.                    *)
LEMMA RemovedKept ==
  ASSUME LinkInv, KeyInv, "lost_reply" \notin Faults, [Next]_vars, NEW d \in Deleters,
         StaysRemoved(d), dpc'[d] = dpc[d], dsnap'[d] = dsnap[d], dposter'[d] = dposter[d]
  PROVE  StaysRemoved(d)'
<1>1. /\ dpc[d] # "idle" => did[d] \in Ids /\ Made(did[d]) /\ Owns(did[d], dsnap[d].key)
      /\ dposter[d].key # None =>
           /\ dsnap[d].poster \in Ids /\ Made(dsnap[d].poster)
           /\ Owns(dsnap[d].poster, dposter[d].key)
  BY Names DEF LinkInv, DeleteFacts, RowOf, Made, KeyInv
<1>2. None \notin objects'
  <2>1. TypeOK'
    BY PosterLinks, DeleteLinks, VisLinks, LinkIdle DEF Next, LinkInv
  <2>. QED
    BY <2>1, StoreAssumption DEF TypeOK, StoreTypeOK
<1>. QED
  BY <1>1, <1>2, NewObjects DEF StaysRemoved

LEMMA DroppedKept ==
  ASSUME LinkInv, KeyInv, "lost_reply" \notin Faults, [Next]_vars, NEW q \in PosterRequests,
         StaysDropped(q), tpc'[q] = tpc[q], tsnap'[q] = tsnap[q],
         pjob'[q] = "acked" => pjob[q] = "acked" \/ tpc[q] \in {"finished", "gave_up"}
  PROVE  StaysDropped(q)'
<1>1. \A r \in PosterRequests : NewPosterKey(r) = NewPosterKey(q) => r = q
  BY NewPosterFields, Names DEF LinkInv
<1>2. \A p \in Patchers : NewPosterKey(q).tag # p
  BY NewPosterFields, Names DEF LinkInv
<1>3. tpc[q] = "drop_row" => NewPosterKey(q) \notin objects' \ objects
  BY <1>1, <1>2, NewObjects
<1>4. NewPosterKey(q)' = NewPosterKey(q)
  BY DEF NewPosterKey, PosterId
<1>. QED
  BY <1>3, <1>4 DEF StaysDropped

LEMMA DeleteSeen ==
  ASSUME LinkInv, KeyInv, {"lost_reply", "remove"} \cap Faults = {}, KeysSeen,
         DeleteNext, UNCHANGED <<posterVars, visVars>>
  PROVE  KeysSeen'
<1>1. PICK d \in Deleters : LoadForDelete(d) \/ Delete(d)
  BY DEF DeleteNext
<1>2. DeleteKeeps(d) /\ (DeleteLoads(d) \/ DeleteCascades(d) \/ DeleteRuns(d))
  BY <1>1, DeleteEffect
<1>3. /\ [Next]_vars /\ StoreTypeOK /\ NoRow.status = "none" /\ DeleteFacts(d) /\ StaysRemoved(d)
      /\ UNCHANGED <<tpc, tsnap, pjob, vid, vsnap>> /\ None \notin objects
  BY NoRowFields, StoreAssumption
     DEF Next, LinkInv, TypeOK, StoreTypeOK, KeysSeen, posterVars, taskVars, visVars
<1>4. \A i \in Ids : Exists(i)' => Exists(i) /\ rows'[i] = rows[i]
  BY <1>2, <1>3 DEF DeleteLoads, DeleteCascades, DeleteRuns, StoreTypeOK, Exists
<1>5. ASSUME NEW i \in Ids
      PROVE  KeySeen(i)'
  <2>1. SUFFICES ASSUME Exists(i)' PROVE KeySeen(i)'
    BY DEF KeySeen
  <2>2. Exists(i) /\ rows'[i] = rows[i] /\ KeySeen(i)
    BY <1>4, <2>1 DEF KeysSeen
  <2>3. ASSUME NEW e \in Deleters, did'[e] = i
        PROVE  (did[e] = i /\ dsnap'[e] = dsnap[e]) \/ dsnap'[e] = rows[i]
    BY <1>2, <2>3 DEF DeleteKeeps, DeleteLoads, DeleteCascades, DeleteRuns
  <2>4. ASSUME NEW e \in Deleters, dposter'[e].key # None, dsnap'[e].poster = i
        PROVE  \/ dposter[e].key # None /\ dsnap[e].poster = i /\ dposter'[e] = dposter[e]
               \/ dposter'[e] = rows[i]
    <3>1. CASE e # d
      BY <1>2, <2>4, <3>1 DEF DeleteKeeps
    <3>2. CASE e = d /\ DeleteLoads(d)
      BY <1>3, <2>4, <3>2 DEF DeleteLoads, DeleteFacts
    <3>3. CASE e = d /\ DeleteCascades(d)
      BY <2>4, <3>3 DEF DeleteCascades
    <3>4. CASE e = d /\ DeleteRuns(d)
      BY <2>4, <3>4 DEF DeleteRuns
    <3>. QED
      BY <1>2, <3>1, <3>2, <3>3, <3>4
  <2>. QED
    BY <1>3, <2>2, <2>3, <2>4, KeySeenKept
<1>6. StaysRemoved(d)'
  <2>1. objects' \subseteq objects
    BY <1>2 DEF DeleteLoads, DeleteCascades, DeleteRuns
  <2>2. CASE DeleteLoads(d) \/ DeleteCascades(d)
    BY <1>3, <2>1, <2>2 DEF DeleteLoads, DeleteCascades, DeleteFacts, StaysRemoved
  <2>3. CASE DeleteRuns(d)
    <3>1. dsnap'[d] = dsnap[d] /\ dposter'[d] = dposter[d]
      BY <2>3 DEF DeleteRuns
    <3>2. dpc'[d] \notin {"idle", "object", "storage_unavailable"} => dsnap[d].key \notin objects'
      BY <1>3, <2>1, <2>3 DEF DeleteRuns, StaysRemoved
    <3>3. dpc'[d] \in {"poster_row", "deleted"} => dposter[d].key \notin objects'
      BY <1>3, <2>1, <2>3 DEF DeleteRuns, StaysRemoved, DeleteFacts
    <3>. QED
      BY <3>1, <3>2, <3>3 DEF StaysRemoved
  <2>. QED
    BY <1>2, <2>2, <2>3
<1>7. \A e \in Deleters : StaysRemoved(e)'
  BY <1>2, <1>3, <1>6, RemovedKept DEF KeysSeen, DeleteKeeps
<1>8. \A q \in PosterRequests : StaysDropped(q)'
  BY <1>3, DroppedKept DEF KeysSeen
<1>. QED
  BY <1>5, <1>7, <1>8 DEF KeysSeen

LEMMA VisSeen ==
  ASSUME LinkInv, KeyInv, "lost_reply" \notin Faults, KeysSeen,
         VisNext, UNCHANGED <<posterVars, deleteVars>>
  PROVE  KeysSeen'
<1>1. PICK p \in Patchers : LoadForVisibility(p) \/ Patch(p)
  BY DEF VisNext
<1>2. VisKeeps(p) /\ (VisLoads(p) \/ VisCascades(p) \/ VisRuns(p))
  BY <1>1, VisEffect
<1>3. [Next]_vars /\ CopyFacts(p) /\ UNCHANGED <<tpc, tsnap, pjob, dpc, did, dsnap, dposter>>
  BY DEF Next, KeyInv, posterVars, taskVars, deleteVars
<1>4. ASSUME NEW i \in Ids
      PROVE  KeySeen(i)'
  <2>1. SUFFICES ASSUME Exists(i)', rows'[i].key.tag = NameOf(i) PROVE KeySeen(i)'
    BY DEF KeySeen, NameOf
  <2>2. Exists(i) /\ rows'[i].key = rows[i].key
    BY <1>1, <1>3, <2>1, VisRows, NamesAreIds DEF CopyFacts
  <2>3. ASSUME NEW r \in Patchers, vid'[r] = i
        PROVE  (vid[r] = i /\ vsnap'[r] = vsnap[r]) \/ vsnap'[r] = rows[i]
    BY <1>2, <2>3 DEF VisKeeps, VisLoads, VisCascades, VisRuns
  <2>. QED
    BY <1>3, <2>2, <2>3, KeySeenKept DEF KeysSeen
<1>5. \A d \in Deleters : StaysRemoved(d)'
  BY <1>3, RemovedKept DEF KeysSeen
<1>6. \A q \in PosterRequests : StaysDropped(q)'
  BY <1>3, DroppedKept DEF KeysSeen
<1>. QED
  BY <1>4, <1>5, <1>6 DEF KeysSeen

LEMMA PosterSeen ==
  ASSUME LinkInv, KeyInv, {"lost_reply", "remove"} \cap Faults = {}, KeysSeen,
         PosterNext, UNCHANGED <<deleteVars, visVars>>
  PROVE  KeysSeen'
<1>1. PICK q \in PosterRequests : PosterStep(q)
  BY DEF PosterNext, PosterStep
<1>2. /\ PosterKeeps(q)
      /\ \/ JobStays(q)
         \/ JobBegins(q)
         \/ /\ tsnap'[q] = tsnap[q]
            /\ JobPuts(q) \/ JobInserts(q) \/ JobLinks(q) \/ JobDrops(q)
  BY <1>1, PosterEffect, JobEffect
<1>3. /\ [Next]_vars /\ TypeOK /\ StoreTypeOK /\ RequestFacts(q) /\ StaysDropped(q)
      /\ NoRow.status = "none" /\ Videos \subseteq Ids
      /\ PosterId(q) \in Ids /\ PosterId(q) \in Jobs /\ NewPosterRow(q).key = NewPosterKey(q)
      /\ UNCHANGED <<vpc, vid, vsnap, dpc, did, dsnap, dposter>>
  BY Names, NoRowFields, NewPosterFields DEF Next, LinkInv, TypeOK, KeysSeen, visVars, deleteVars
<1>4. ASSUME NEW i \in Ids, Exists(i)'
      PROVE  \/ Exists(i) /\ rows'[i].key = rows[i].key
             \/ i = PosterId(q) /\ rows'[i] = NewPosterRow(q) /\ tpc[q] = "poster_row"
  <2>1. CASE rows' = rows
    BY <1>4, <2>1 DEF Exists
  <2>2. CASE tpc[q] = "poster_row" /\ rows' = [rows EXCEPT ![PosterId(q)] = NewPosterRow(q)]
    BY <1>3, <1>4, <2>2 DEF Exists, StoreTypeOK
  <2>3. CASE target[q] \in Videos /\ rows' = SetPoster(target[q], PosterId(q))
    BY <1>3, <1>4, <2>3, SetPosterFields DEF Exists
  <2>4. CASE rows' = [rows EXCEPT ![PosterId(q)] = NoRow]
    BY <1>3, <1>4, <2>4 DEF Exists, StoreTypeOK
  <2>. QED
    BY <1>2, <2>1, <2>2, <2>3, <2>4 DEF JobStays, JobBegins, JobPuts, JobInserts, JobLinks, JobDrops
<1>5. ASSUME NEW i \in Ids
      PROVE  KeySeen(i)'
  <2>1. CASE Exists(i) /\ rows'[i].key = rows[i].key
    BY <1>3, <2>1, KeySeenKept DEF KeysSeen
  <2>2. CASE i = PosterId(q) /\ rows'[i] = NewPosterRow(q) /\ tpc[q] = "poster_row"
    <3>1. ~Made(i)
      BY <2>2, Names DEF Made, AfterRow, AfterLink
    <3>2. \A p \in Patchers : vid'[p] # i
      BY <1>3, <3>1, Names DEF LinkInv, VisFacts, RowOf
    <3>3. \A d \in Deleters : did'[d] # i /\ (dposter'[d].key # None => dsnap'[d].poster # i)
      BY <1>3, <3>1, Names DEF LinkInv, DeleteFacts, RowOf
    <3>4. NewPosterKey(q)' = NewPosterKey(q)
      BY <1>3, <2>2, SnapStays DEF NewPosterKey, PosterId
    <3>5. \A r \in PosterRequests : i = PosterId(r) => r = q
      BY <2>2, Names
    <3>. QED
      BY <1>3, <2>2, <3>2, <3>3, <3>4, <3>5 DEF KeySeen, PosterId
  <2>. QED
    BY <1>4, <2>1, <2>2 DEF KeySeen
<1>6. StaysDropped(q)'
  <2>1. pjob'[q] = "acked" => tpc'[q] \in {"finished", "gave_up"}
    <3>1. pjob[q] = "acked" => tpc[q] \in {"finished", "gave_up"}
      BY <1>3 DEF StaysDropped
    <3>2. pjob'[q] = "acked" => tpc[q] \in {"finished", "gave_up"} \/ pjob[q] = "acked"
      BY <1>1, <1>3 DEF PosterStep, RequestPoster, CheckPoster, EnqueuePoster, DeliverPoster,
         AcknowledgePoster, GeneratePoster, LoadVideo, ExtractPoster, PutPoster, CreatePosterRow,
         LinkNewPoster, ReadNewLink, DropNewObject, DropNewRow, TypeOK, PosterTypeOK
    <3>3. tpc[q] \in {"finished", "gave_up"} => tpc'[q] = tpc[q]
      BY <1>2 DEF JobStays, JobBegins, JobPuts, JobInserts, JobLinks, JobDrops
    <3>. QED
      BY <3>1, <3>2, <3>3
  <2>2. tpc'[q] = "drop_row" => NewPosterKey(q)' \notin objects'
    <3>1. SUFFICES ASSUME tpc'[q] = "drop_row" PROVE NewPosterKey(q)' \notin objects'
      OBVIOUS
    <3>2. CASE JobStays(q)
      BY <1>3, <3>1, <3>2 DEF JobStays, StaysDropped, NewPosterKey, PosterId
    <3>3. CASE JobDrops(q) /\ tsnap'[q] = tsnap[q]
      <4>1. objects' = objects \ {NewPosterKey(q)}
        BY <3>1, <3>3 DEF JobDrops
      <4>2. NewPosterKey(q)' = NewPosterKey(q)
        BY <3>3 DEF NewPosterKey, PosterId
      <4>. QED
        BY <4>1, <4>2
    <3>. QED
      BY <1>2, <3>1, <3>2, <3>3 DEF JobBegins, JobPuts, JobInserts, JobLinks
  <2>. QED
    BY <2>1, <2>2 DEF StaysDropped
<1>7. \A r \in PosterRequests : StaysDropped(r)'
  BY <1>2, <1>3, <1>6, DroppedKept DEF KeysSeen, PosterKeeps
<1>8. \A d \in Deleters : StaysRemoved(d)'
  BY <1>3, RemovedKept DEF KeysSeen
<1>. QED
  BY <1>5, <1>7, <1>8 DEF KeysSeen

LEMMA Pointed ==
  ASSUME LinkInv, NEW k, Referenced(k)
  PROVE  \E i \in Ids : Exists(i) /\ rows[i].key = k
BY DEF LinkInv, RowOf, Referenced, Held, Exists

(* A row that goes with a copy in it leaves the copy behind.               *)
LEMMA CopyLeftBehind ==
  ASSUME LinkInv, KeyInv, [Next]_vars, NEW i \in Ids, Exists(i), ~Exists(i)',
         NEW k, k = rows[i].key, k.tag # NameOf(i)
  PROVE  Stray(k)'
<1>1. Owns(i, k)
  BY DEF KeyInv
<1>2. PICK p \in Patchers : k.tag = p /\ i \in WorkedOn(p)
  BY <1>1 DEF Owns
<1>3. i \in WorkedOn(p)'
  BY <1>2, WorkGoesOn
<1>. QED
  BY <1>1, <1>2, <1>3 DEF Stray, Owns, DirOf, WorkedOn, Exists

LEMMA DeleteAccount ==
  ASSUME LinkInv, KeyInv, {"lost_reply", "remove"} \cap Faults = {}, KeysSeen,
         \A k \in objects : Accounted(k), DeleteNext, UNCHANGED <<posterVars, visVars>>
  PROVE  \A k \in objects' : Accounted(k)'
<1>1. PICK d \in Deleters : LoadForDelete(d) \/ Delete(d)
  BY DEF DeleteNext
<1>2. DeleteKeeps(d) /\ (DeleteLoads(d) \/ DeleteCascades(d) \/ DeleteRuns(d))
  BY <1>1, DeleteEffect
<1>3. /\ [Next]_vars /\ StoreTypeOK /\ NoRow.status = "none" /\ DeleteFacts(d) /\ StaysRemoved(d)
      /\ UNCHANGED <<tpc, tsnap, vpc, vid, vsnap, vcopy, vleft>>
  BY NoRowFields DEF Next, LinkInv, TypeOK, KeysSeen, posterVars, taskVars, visVars
<1>4. objects' \subseteq objects
  BY <1>2 DEF DeleteLoads, DeleteCascades, DeleteRuns
<1>. SUFFICES ASSUME NEW k \in objects' PROVE Accounted(k)'
  OBVIOUS
<1>5. k \in objects /\ Accounted(k)
  BY <1>4
<1>6. CASE Referenced(k)
  <2>1. PICK i \in Ids : Exists(i) /\ rows[i].key = k
    BY <1>6, Pointed
  <2>2. CASE rows'[i] = rows[i]
    BY <2>1, <2>2 DEF Accounted, Referenced, Held, Exists
  <2>3. CASE rows'[i] # rows[i]
    <3>1. /\ DeleteRuns(d) /\ ~Exists(i)'
          /\ \/ dpc[d] = "row" /\ i = did[d]
             \/ dpc[d] = "poster_row" /\ i = dsnap[d].poster
      BY <1>2, <1>3, <2>3 DEF DeleteLoads, DeleteCascades, DeleteRuns, StoreTypeOK, Exists
    <3>2. KeySeen(i)
      BY DEF KeysSeen
    <3>3. k.tag # NameOf(i)
      BY <1>3, <1>5, <2>1, <3>1, <3>2 DEF KeySeen, StaysRemoved, DeleteFacts
    <3>4. Stray(k)'
      BY <1>3, <2>1, <3>1, <3>3, CopyLeftBehind
    <3>. QED
      BY <3>4 DEF Accounted
  <2>. QED
    BY <2>2, <2>3
<1>7. CASE Stray(k)
  BY <1>3, <1>7, StrayStays DEF Accounted
<1>8. CASE \E q \in PosterRequests : JobHolds(q, k)
  BY <1>3, <1>8 DEF Accounted, JobHolds, NewPosterKey, PosterId
<1>9. CASE \E p \in Patchers : PatchHolds(p, k)
  BY <1>3, <1>9 DEF Accounted, PatchHolds
<1>10. ASSUME NEW e \in Deleters, DeleteHolds(e, k)
       PROVE  Accounted(k)'
  <2>1. e # d
    BY <1>2, <1>10 DEF DeleteHolds, DeleteLoads, DeleteCascades, DeleteRuns
  <2>2. DeleteHolds(e, k)'
    BY <1>2, <1>10, <2>1 DEF DeleteHolds, DeleteKeeps
  <2>. QED
    BY <2>2 DEF Accounted
<1>. QED
  BY <1>5, <1>6, <1>7, <1>8, <1>9, <1>10 DEF Accounted

(* The object a row leaves is removed by the PATCH that re-points it, or   *)
(* is the copy of another PATCH that overlapped it.                        *)
LEMMA Overwritten ==
  ASSUME LinkInv, KeyInv, KeysSeen, [Next]_vars, NEW p \in Patchers, vpc[p] = "update",
         NEW i \in Ids, i = vid[p], Exists(i), NEW k, k = rows[i].key
  PROVE  k = vsnap[p].key \/ Stray(k)'
<1>1. Owns(i, k) /\ KeySeen(i)
  BY DEF KeyInv, KeysSeen
<1>2. CASE k.tag = NameOf(i)
  BY <1>1, <1>2 DEF KeySeen
<1>3. ASSUME NEW r \in Patchers, k.tag = r, i \in WorkedOn(r), vid[r] = i => vpc[r] \in Out
      PROVE  Stray(k)'
  <2>1. r # p
    BY <1>3 DEF Out
  <2>2. i \in WorkedOn(r)' /\ i \in WorkedOn(p)'
    BY <1>3, WorkGoesOn DEF WorkedOn
  <2>. QED
    BY <1>1, <1>3, <2>1, <2>2 DEF Stray, Owns, DirOf, WorkedOn, Exists
<1>. QED
  BY <1>1, <1>2, <1>3 DEF Owns

LEMMA VisAccount ==
  ASSUME LinkInv, KeyInv, {"lost_reply", "remove"} \cap Faults = {}, KeysSeen,
         \A k \in objects : Accounted(k), VisNext, UNCHANGED <<posterVars, deleteVars>>
  PROVE  \A k \in objects' : Accounted(k)'
<1>1. PICK p \in Patchers : LoadForVisibility(p) \/ Patch(p)
  BY DEF VisNext
<1>2. VisKeeps(p) /\ (VisLoads(p) \/ VisCascades(p) \/ VisRuns(p))
  BY <1>1, VisEffect
<1>3. /\ [Next]_vars /\ TypeOK /\ StoreTypeOK /\ VisFacts(p) /\ CopyFacts(p) /\ None \notin objects
      /\ UNCHANGED <<tpc, tsnap, dpc, dposter>>
  BY StoreAssumption
     DEF Next, LinkInv, TypeOK, StoreTypeOK, KeyInv, posterVars, taskVars, deleteVars
<1>. SUFFICES ASSUME NEW k \in objects' PROVE Accounted(k)'
  OBVIOUS
<1>4. CASE k \notin objects
  <2>1. /\ k = Rotated(p, vsnap[p].key) /\ vpc[p] = "copy"
        /\ (vpc'[p] = "update" /\ vcopy'[p] = k) \/ vpc'[p] = "broken"
    BY <1>2, <1>4 DEF VisLoads, VisCascades, VisRuns, VisCopies, VisWrites, VisRemoves
  <2>2. vsnap[p].key \in Keys
    BY <1>3, <2>1 DEF VisFacts, RowOf, TypeOK, VisTypeOK, Rows
  <2>3. k.tag = p
    BY <1>3, <2>1, <2>2, RotatedKey
  <2>4. PatchHolds(p, k)'
    BY <2>1, <2>3 DEF PatchHolds
  <2>. QED
    BY <2>4 DEF Accounted
<1>5. CASE k \in objects /\ Referenced(k)
  <2>1. PICK i \in Ids : Exists(i) /\ rows[i].key = k
    BY <1>5, Pointed
  <2>2. CASE rows'[i] = rows[i]
    BY <2>1, <2>2 DEF Accounted, Referenced, Held, Exists
  <2>3. CASE rows'[i] # rows[i]
    <3>1. VisRuns(p) /\ VisWrites(p)
      BY <1>2, <2>3 DEF VisLoads, VisCascades, VisRuns, VisCopies, VisRemoves
    <3>2. /\ vpc[p] = "update" /\ vid[p] \in Ids /\ rows' = [rows EXCEPT ![vid[p]] = NewRow(p)]
          /\ vsnap[p].rends = {} /\ vsnap' = vsnap
          /\ vcopy[p] # None => vleft'[p] = {vsnap[p].key} /\ vpc'[p] = "remove_old"
      BY <1>3, <2>3, <3>1 DEF VisRuns, VisWrites, VisFacts, RowOf
    <3>3. i = vid[p] /\ rows'[i] = NewRow(p)
      BY <1>3, <2>3, <3>2 DEF StoreTypeOK
    <3>4. /\ NewRow(p).key = IF vcopy[p] = None THEN rows[vid[p]].key ELSE vcopy[p]
          /\ NewRow(p).status = rows[vid[p]].status
      BY <1>3, <3>2, NewRowFields
    <3>5. CASE vcopy[p] = None
      BY <2>1, <3>3, <3>4, <3>5 DEF Accounted, Referenced, Held, Exists
    <3>6. CASE vcopy[p] # None /\ k = vsnap[p].key
      <4>1. PatchHolds(p, k)'
        BY <3>2, <3>6 DEF PatchHolds
      <4>. QED
        BY <4>1 DEF Accounted
    <3>7. CASE k # vsnap[p].key
      <4>1. Stray(k)'
        BY <1>3, <2>1, <3>2, <3>3, <3>7, Overwritten
      <4>. QED
        BY <4>1 DEF Accounted
    <3>. QED
      BY <3>5, <3>6, <3>7
  <2>. QED
    BY <2>2, <2>3
<1>6. CASE Stray(k)
  BY <1>3, <1>6, StrayStays DEF Accounted
<1>7. CASE \E q \in PosterRequests : JobHolds(q, k)
  BY <1>3, <1>7 DEF Accounted, JobHolds, NewPosterKey, PosterId
<1>8. CASE \E d \in Deleters : DeleteHolds(d, k)
  BY <1>3, <1>8 DEF Accounted, DeleteHolds
<1>9. ASSUME k \in objects, NEW r \in Patchers, PatchHolds(r, k)
      PROVE  Accounted(k)'
  <2>1. CASE r # p
    <3>1. PatchHolds(r, k)'
      BY <1>2, <1>9, <2>1 DEF VisKeeps, PatchHolds
    <3>. QED
      BY <3>1 DEF Accounted
  <2>2. CASE r = p
    <3>1. vpc[p] \in {"update", "undo", "remove_old"} /\ VisRuns(p)
      BY <1>2, <1>9, <2>2 DEF PatchHolds, VisKeeps, VisLoads, VisCascades
    <3>2. CASE vpc[p] = "update"
      <4>1. k = vcopy[p] /\ vcopy[p] # None /\ VisWrites(p)
        BY <1>3, <1>9, <2>2, <3>1, <3>2 DEF PatchHolds, VisRuns, VisCopies, VisRemoves
      <4>2. vid[p] \in Ids /\ vsnap[p].rends = {}
        BY <1>3, <3>2 DEF VisFacts, RowOf
      <4>3. CASE vpc'[p] = "undo" /\ vleft'[p] = {vcopy[p]}
        <5>1. PatchHolds(p, k)'
          BY <4>1, <4>3 DEF PatchHolds
        <5>. QED
          BY <5>1 DEF Accounted
      <4>4. CASE Exists(vid[p]) /\ rows' = [rows EXCEPT ![vid[p]] = NewRow(p)]
        <5>1. NewRow(p).key = vcopy[p] /\ NewRow(p).status = rows[vid[p]].status
          BY <1>3, <4>1, <4>2, NewRowFields
        <5>2. rows'[vid[p]] = NewRow(p)
          BY <1>3, <4>2, <4>4 DEF StoreTypeOK
        <5>. QED
          BY <4>1, <4>2, <4>4, <5>1, <5>2 DEF Accounted, Referenced, Held, Exists
      <4>. QED
        BY <4>1, <4>3, <4>4 DEF VisWrites
    <3>3. CASE vpc[p] \in {"undo", "remove_old"}
      <4>1. k \in vleft[p] /\ VisRemoves(p) /\ vsnap' = vsnap
        BY <1>9, <2>2, <3>1, <3>3 DEF PatchHolds, VisRuns, VisCopies, VisWrites
      <4>2. CASE vpc'[p] = "broken"
        <5>1. k.tag = p \/ k = vsnap[p].key
          BY <1>3, <3>3, <4>1 DEF CopyFacts
        <5>2. PatchHolds(p, k)'
          BY <4>1, <4>2, <5>1 DEF PatchHolds
        <5>. QED
          BY <5>2 DEF Accounted
      <4>3. CASE vpc'[p] # "broken"
        <5>1. k \in vleft'[p] /\ vpc'[p] = vpc[p]
          BY <4>1, <4>3 DEF VisRemoves
        <5>2. PatchHolds(p, k)'
          BY <3>3, <5>1 DEF PatchHolds
        <5>. QED
          BY <5>2 DEF Accounted
      <4>. QED
        BY <4>2, <4>3
    <3>. QED
      BY <3>1, <3>2, <3>3
  <2>. QED
    BY <2>1, <2>2
<1>. QED
  BY <1>4, <1>5, <1>6, <1>7, <1>8, <1>9 DEF Accounted

LEMMA PosterAccount ==
  ASSUME LinkInv, KeyInv, {"lost_reply", "remove"} \cap Faults = {}, KeysSeen,
         \A k \in objects : Accounted(k), PosterNext, UNCHANGED <<deleteVars, visVars>>
  PROVE  \A k \in objects' : Accounted(k)'
<1>1. PICK q \in PosterRequests : PosterStep(q)
  BY DEF PosterNext, PosterStep
<1>2. /\ PosterKeeps(q)
      /\ \/ JobStays(q)
         \/ JobBegins(q)
         \/ /\ tsnap'[q] = tsnap[q]
            /\ JobPuts(q) \/ JobInserts(q) \/ JobLinks(q) \/ JobDrops(q)
  BY <1>1, PosterEffect, JobEffect
<1>3. /\ [Next]_vars /\ TypeOK /\ StoreTypeOK /\ StaysDropped(q) /\ RequestFacts(q)
      /\ Videos \subseteq Ids /\ PosterId(q) \in Ids /\ PosterId(q) \in Jobs
      /\ NoRow.status = "none" /\ NewPosterRow(q).status = "ready"
      /\ NewPosterRow(q).key = NewPosterKey(q) /\ NewPosterKey(q).tag = PosterId(q)
      /\ UNCHANGED <<vpc, vid, vsnap, vcopy, vleft, dpc, dposter>>
  BY Names, NoRowFields, NewPosterFields DEF Next, LinkInv, TypeOK, KeysSeen, visVars, deleteVars
<1>. SUFFICES ASSUME NEW k \in objects' PROVE Accounted(k)'
  OBVIOUS
<1>4. CASE k \notin objects
  <2>1. /\ JobPuts(q) /\ tsnap'[q] = tsnap[q] /\ k = NewPosterKey(q)
        /\ tpc'[q] \in {"poster_row", "gave_up"}
    BY <1>2, <1>4 DEF JobStays, JobBegins, JobPuts, JobInserts, JobLinks, JobDrops
  <2>2. JobHolds(q, k)'
    BY <1>3, <2>1 DEF JobHolds, NewPosterKey, PosterId
  <2>. QED
    BY <2>2 DEF Accounted
<1>5. CASE k \in objects /\ Referenced(k)
  <2>1. PICK i \in Ids : Exists(i) /\ rows[i].key = k
    BY <1>5, Pointed
  <2>2. CASE Exists(i)' /\ rows'[i].key = rows[i].key
    BY <2>1, <2>2 DEF Accounted, Referenced, Held, Exists
  <2>3. CASE /\ tpc[q] = "drop_row" /\ i = PosterId(q) /\ objects' = objects
             /\ rows' = [rows EXCEPT ![PosterId(q)] = NoRow]
    <3>1. KeySeen(i) /\ NewPosterKey(q) \notin objects
      BY <1>3, <2>3 DEF KeysSeen, StaysDropped
    <3>2. k.tag # NameOf(i)
      BY <1>5, <2>1, <2>3, <3>1 DEF KeySeen
    <3>3. ~Exists(i)'
      BY <1>3, <2>3 DEF StoreTypeOK, Exists
    <3>4. Stray(k)'
      BY <1>3, <2>1, <3>2, <3>3, CopyLeftBehind
    <3>. QED
      BY <3>4 DEF Accounted
  <2>4. CASE rows' = rows
    BY <2>1, <2>2, <2>4 DEF Exists
  <2>5. CASE tpc[q] = "poster_row" /\ rows' = [rows EXCEPT ![PosterId(q)] = NewPosterRow(q)]
    <3>1. i # PosterId(q)
      BY <2>1, <2>5, NotMade DEF AfterRow, AfterLink
    <3>. QED
      BY <1>3, <2>1, <2>2, <2>5, <3>1 DEF StoreTypeOK, Exists
  <2>6. CASE target[q] \in Videos /\ rows' = SetPoster(target[q], PosterId(q))
    BY <1>3, <2>1, <2>2, <2>6, SetPosterFields DEF Exists
  <2>7. CASE i # PosterId(q) /\ rows' = [rows EXCEPT ![PosterId(q)] = NoRow]
    BY <1>3, <2>1, <2>2, <2>7 DEF StoreTypeOK, Exists
  <2>. QED
    BY <1>2, <2>3, <2>4, <2>5, <2>6, <2>7
       DEF JobStays, JobBegins, JobPuts, JobInserts, JobLinks, JobDrops
<1>6. CASE Stray(k)
  BY <1>3, <1>6, StrayStays DEF Accounted
<1>7. CASE \E p \in Patchers : PatchHolds(p, k)
  BY <1>3, <1>7 DEF Accounted, PatchHolds
<1>8. CASE \E d \in Deleters : DeleteHolds(d, k)
  BY <1>3, <1>8 DEF Accounted, DeleteHolds
<1>9. ASSUME k \in objects, NEW r \in PosterRequests, JobHolds(r, k)
      PROVE  Accounted(k)'
  <2>1. CASE r # q \/ JobStays(q)
    <3>1. JobHolds(r, k)'
      BY <1>2, <1>9, <2>1 DEF PosterKeeps, JobStays, JobHolds, NewPosterKey, PosterId
    <3>. QED
      BY <3>1 DEF Accounted
  <2>2. CASE r = q /\ ~JobStays(q)
    <3>1. JobInserts(q) \/ (JobDrops(q) /\ tpc[q] = "drop_frame")
      BY <1>2, <1>9, <2>2 DEF JobHolds, JobBegins, JobPuts, JobLinks, JobDrops
    <3>2. k = NewPosterKey(q) /\ tsnap'[q] = tsnap[q]
      BY <1>2, <1>9, <2>2, <3>1 DEF JobHolds, JobInserts, JobBegins
    <3>3. CASE JobInserts(q) /\ tpc'[q] = "link"
      <4>1. rows'[PosterId(q)] = NewPosterRow(q)
        BY <1>3, <3>3 DEF JobInserts, StoreTypeOK
      <4>. QED
        BY <1>3, <3>2, <4>1 DEF Accounted, Referenced, Held
    <3>4. CASE tpc'[q] = "drop_frame"
      <4>1. JobHolds(q, k)'
        BY <3>2, <3>4 DEF JobHolds, NewPosterKey, PosterId
      <4>. QED
        BY <4>1 DEF Accounted
    <3>5. CASE JobDrops(q) /\ tpc[q] = "drop_frame"
      <4>1. tpc'[q] = "gave_up"
        BY <3>2, <3>5 DEF JobDrops
      <4>2. JobHolds(q, k)'
        BY <1>3, <3>2, <4>1 DEF JobHolds, PosterId
      <4>. QED
        BY <4>2 DEF Accounted
    <3>. QED
      BY <3>1, <3>3, <3>4, <3>5 DEF JobInserts
  <2>. QED
    BY <2>1, <2>2
<1>. QED
  BY <1>4, <1>5, <1>6, <1>7, <1>8, <1>9 DEF Accounted

LEMMA StrandHolds ==
  ASSUME {"lost_reply", "remove"} \cap Faults = {}
  PROVE  Spec => [](LinkInv /\ KeyInv /\ StrandInv)
<1>1. Init => StrandInv
  <2>. SUFFICES ASSUME Init PROVE StrandInv
    OBVIOUS
  <2>1. PICK vis \in [Videos -> Visibilities] :
          /\ rows = [i \in Ids |-> IF i \in Videos THEN ReadyVideo(i, vis[i]) ELSE NoRow]
          /\ objects = {ReadyVideo(v, vis[v]).key : v \in Videos}
    BY DEF Init, PosterInit
  <2>2. ASSUME NEW k \in objects
        PROVE  Referenced(k)
    <3>1. PICK v \in Videos : k = ReadyVideo(v, vis[v]).key
      BY <2>1, <2>2
    <3>2. v \in Ids /\ rows[v] = ReadyVideo(v, vis[v])
      BY <2>1, Names
    <3>3. ReadyVideo(v, vis[v]).status = "ready"
      BY DEF ReadyVideo, NoRow
    <3>. QED
      BY <3>1, <3>2, <3>3 DEF Referenced, Held
  <2>3. \A i \in Ids : Exists(i) => i \in Videos
    BY <2>1, NoRowFields DEF Exists
  <2>4. \A i \in Ids : KeySeen(i)
    BY <2>3, Names, NoRowFields DEF Init, VisInit, DeleteInit, KeySeen
  <2>5. \A d \in Deleters : StaysRemoved(d)
    BY DEF Init, DeleteInit, StaysRemoved
  <2>6. \A q \in PosterRequests : StaysDropped(q)
    BY DEF Init, PosterInit, StaysDropped
  <2>. QED
    BY <2>2, <2>4, <2>5, <2>6 DEF StrandInv, KeysSeen, Accounted
<1>2. StrandInv /\ UNCHANGED vars => StrandInv'
  <2>. SUFFICES ASSUME StrandInv, UNCHANGED vars PROVE StrandInv'
    OBVIOUS
  <2>1. UNCHANGED <<rows, objects, target, pjob, tpc, tsnap, dpc, did, dsnap, dposter,
                    vpc, vid, vsnap, vcopy, vleft>>
    BY DEF vars, storeVars, posterVars, requestVars, taskVars, deleteVars, visVars
  <2>2. \A k \in objects' : Accounted(k)'
    <3>. SUFFICES ASSUME NEW k \in objects, Accounted(k) PROVE Accounted(k)'
      BY <2>1 DEF StrandInv, KeysSeen
    <3>1. Referenced(k) => Referenced(k)'
      BY <2>1 DEF Referenced, Held
    <3>2. Stray(k) => Stray(k)'
      BY <2>1 DEF Stray, WorkedOn, Exists
    <3>3. \A q \in PosterRequests : JobHolds(q, k) => JobHolds(q, k)'
      BY <2>1 DEF JobHolds, NewPosterKey, PosterId
    <3>4. \A p \in Patchers : PatchHolds(p, k) => PatchHolds(p, k)'
      BY <2>1 DEF PatchHolds
    <3>5. \A d \in Deleters : DeleteHolds(d, k) => DeleteHolds(d, k)'
      BY <2>1 DEF DeleteHolds
    <3>. QED
      BY <3>1, <3>2, <3>3, <3>4, <3>5 DEF Accounted
  <2>3. \A i \in Ids : KeySeen(i)'
    BY <2>1 DEF StrandInv, KeysSeen, KeySeen, NewPosterKey, PosterId, Exists
  <2>4. \A d \in Deleters : StaysRemoved(d)'
    BY <2>1 DEF StrandInv, KeysSeen, StaysRemoved
  <2>5. \A q \in PosterRequests : StaysDropped(q)'
    BY <2>1 DEF StrandInv, KeysSeen, StaysDropped, NewPosterKey, PosterId
  <2>. QED
    BY <2>2, <2>3, <2>4, <2>5 DEF StrandInv, KeysSeen
<1>3. LinkInv /\ KeyInv /\ StrandInv /\ [Next]_vars => StrandInv'
  <2>. SUFFICES ASSUME LinkInv, KeyInv, StrandInv, [Next]_vars PROVE StrandInv'
    OBVIOUS
  <2>1. KeysSeen /\ \A k \in objects : Accounted(k)
    BY DEF StrandInv
  <2>2. CASE PosterNext /\ UNCHANGED <<deleteVars, visVars>>
    BY <2>1, <2>2, PosterSeen, PosterAccount DEF StrandInv, KeysSeen
  <2>3. CASE DeleteNext /\ UNCHANGED <<posterVars, visVars>>
    BY <2>1, <2>3, DeleteSeen, DeleteAccount DEF StrandInv, KeysSeen
  <2>4. CASE VisNext /\ UNCHANGED <<posterVars, deleteVars>>
    BY <2>1, <2>4, VisSeen, VisAccount DEF StrandInv, KeysSeen
  <2>. QED
    BY <1>2, <2>2, <2>3, <2>4 DEF Next
<1>4. "lost_reply" \notin Faults
  OBVIOUS
<1>5. Spec => [](LinkInv /\ KeyInv)
  BY <1>4, KeysHold
<1>. QED
  BY <1>1, <1>3, <1>5, PTL DEF Spec

(* Once all is quiet, an object that no row points at is the copy of a     *)
(* PATCH that overlapped another, or that whoever removed the row did not  *)
(* know of, or was left where an OSError broke something off (tasks.py     *)
(* 371-400, posters.py 37-38), when neither a reply nor a removal is lost, *)
(* for any number of requests.                                             *)
THEOREM OnlyCopiesAreStranded ==
  ASSUME {"lost_reply", "remove"} \cap Faults = {}
  PROVE  Spec => []StrandedOnlyByCopy
<1>1. LinkInv /\ KeyInv /\ StrandInv => StrandedOnlyByCopy
  <2>. SUFFICES ASSUME LinkInv, KeyInv, StrandInv, Quiet,
                       NEW k \in objects, ~Referenced(k), ~BrokenOff(k)
                PROVE  \E p \in Patchers : \E i \in WorkedOn(p) :
                         /\ k.tag = p
                         /\ k.dir = "videos" <=> i \in Videos
                         /\ CopyMissed(p, i, k)
    BY DEF StrandedOnlyByCopy
  <2>1. Accounted(k) /\ TypeOK
    BY DEF StrandInv, KeysSeen, LinkInv
  <2>2. \A q \in PosterRequests : ~JobHolds(q, k)
    <3>1. \A q \in PosterRequests : tpc[q] \in {"idle", "finished", "gave_up"}
      BY <2>1 DEF Quiet, LinkInv, RequestFacts, StrandInv, KeysSeen, StaysDropped,
                  TypeOK, PosterTypeOK
    <3>. QED
      BY <3>1 DEF JobHolds, BrokenOff
  <2>3. \A p \in Patchers : ~PatchHolds(p, k)
    BY DEF Quiet, VisAnswered, PatchHolds, BrokenOff, Held
  <2>4. \A d \in Deleters : ~DeleteHolds(d, k)
    BY DEF DeleteHolds, BrokenOff
  <2>5. PICK p \in Patchers, i \in Ids :
          /\ i \in WorkedOn(p) /\ k.tag = p /\ k.dir = DirOf(i)
          /\ ~Exists(i) \/ \E r \in Patchers \ {p} : i \in WorkedOn(r)
    BY <2>1, <2>2, <2>3, <2>4 DEF Accounted, Stray
  <2>6. ~RemovedKnowing(i, k)
    BY DEF RemovedKnowing, StrandInv, KeysSeen, StaysRemoved
  <2>. QED
    BY <2>5, <2>6 DEF CopyMissed, DirOf
<1>. QED
  BY <1>1, StrandHolds, PTL
=============================================================================
