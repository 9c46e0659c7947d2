----------------------------- MODULE Visibility -----------------------------
(***************************************************************************)
(* PATCH /files/{id} (app/routers/visibility.py).  When the visibility     *)
(* changes, the record's objects are copied to fresh keys on the other     *)
(* side of the private/ boundary, the row is re-pointed in one statement,  *)
(* and the old objects are removed.  The poster of a video follows.        *)
(* Everything is decided from the record the handler read first.           *)
(***************************************************************************)
EXTENDS MediaStore

VARIABLES
  vpc,       (* where each PATCH handler is                                *)
  vid,       (* the row it works on: the one named, then its poster        *)
  vwant,     (* the visibility asked for                                   *)
  vsnap,     (* that row as the handler read it                            *)
  vcopy,     (* the key of the rotated object, None if there is none       *)
  vrends,    (* the keys of the rotated renditions                         *)
  vleft      (* the objects left to copy or to remove                      *)

visVars == <<vpc, vid, vwant, vsnap, vcopy, vrends, vleft>>

VisSteps == {"idle", "copy", "copy_renditions", "update", "undo", "remove_old",
             "load_poster", "answered", "broken"}

VisTypeOK ==
  /\ vpc \in [Patchers -> VisSteps]
  /\ vid \in [Patchers -> Ids \cup {None}]
  /\ vwant \in [Patchers -> Visibilities]
  /\ vsnap \in [Patchers -> Rows]
  /\ vcopy \in [Patchers -> Keys \cup {None}]
  /\ vrends \in [Patchers -> SUBSET Keys]
  /\ vleft \in [Patchers -> SUBSET Keys]

VisInit ==
  /\ vpc = [p \in Patchers |-> "idle"]
  /\ vid = [p \in Patchers |-> None]
  /\ vwant = [p \in Patchers |-> "public"]
  /\ vsnap = [p \in Patchers |-> NoRow]
  /\ vcopy = [p \in Patchers |-> None]
  /\ vrends = [p \in Patchers |-> {}]
  /\ vleft = [p \in Patchers |-> {}]

VisStep(p, from, to) ==
  /\ vpc[p] = from
  /\ vpc' = [vpc EXCEPT ![p] = to]

(* Mutant: the fresh key keeps the prefix of the old one.                  *)
RotatedSamePrefix(p, key) == [key EXCEPT !.tag = p]

(* _derive_rotated_key: same directory, fresh name, the other prefix.      *)
Rotated(p, key) == [key EXCEPT !.vis = vwant[p], !.tag = p]

LoadForVisibility(p) ==
  /\ \E id \in Ids, want \in Visibilities :
       /\ Exists(id)
       /\ VisStep(p, "idle", IF rows[id].vis = want THEN "update" ELSE "copy")
       /\ vid' = [vid EXCEPT ![p] = id]
       /\ vwant' = [vwant EXCEPT ![p] = want]
       /\ vsnap' = [vsnap EXCEPT ![p] = rows[id]]
  /\ UNCHANGED <<storeVars, vcopy, vrends, vleft>>

(* The object is already gone: the row changes its visibility only.        *)
CopyMissing(p) ==
  /\ vsnap[p].key \notin objects
  /\ VisStep(p, "copy", "update")
  /\ UNCHANGED <<storeVars, vid, vwant, vsnap, vcopy, vrends, vleft>>

(* Mutant: the object is moved, not copied.                                *)
MoveObject(p) ==
  /\ VisStep(p, "copy", "update")
  /\ vsnap[p].key \in objects
  /\ objects' = (objects \ {vsnap[p].key}) \cup {Rotated(p, vsnap[p].key)}
  /\ vcopy' = [vcopy EXCEPT ![p] = Rotated(p, vsnap[p].key)]
  /\ UNCHANGED <<rows, vid, vwant, vsnap, vrends, vleft>>

(* A failed copy ends the request, or the cascade to the poster.  So does, *)
(* here and below, an OSError, which the handler catches nowhere: what is  *)
(* half done stays half done.                                              *)
CopyObject(p) ==
  LET copy == Rotated(p, vsnap[p].key) IN
  /\ vpc[p] = "copy"
  /\ \/ /\ vsnap[p].key \in objects
        /\ Put(copy)
        /\ vcopy' = [vcopy EXCEPT ![p] = copy]
        /\ vleft' = [vleft EXCEPT ![p] = vsnap[p].rends]
        /\ VisStep(p, "copy", IF vsnap[p].rends = {} THEN "update" ELSE "copy_renditions")
     \/ VisStep(p, "copy", "answered") /\ PutRefused(copy) /\ UNCHANGED <<vcopy, vleft>>
     \/ VisStep(p, "copy", "broken") /\ PutEscapes(copy) /\ UNCHANGED <<vcopy, vleft>>
  /\ UNCHANGED <<rows, vid, vwant, vsnap, vrends>>

(* A rendition that is gone is skipped; on an error the copies made so far *)
(* are removed and the request fails.                                      *)
CopyRendition(p) ==
  /\ vpc[p] = "copy_renditions"
  /\ \E k \in vleft[p] :
       LET rest == vleft[p] \ {k}
           copy == Rotated(p, k)
           next == IF rest = {} THEN "update" ELSE "copy_renditions"
       IN
       \/ /\ k \in objects
          /\ Put(copy)
          /\ vrends' = [vrends EXCEPT ![p] = @ \cup {copy}]
          /\ vleft' = [vleft EXCEPT ![p] = rest]
          /\ VisStep(p, "copy_renditions", next)
       \/ /\ k \notin objects
          /\ vleft' = [vleft EXCEPT ![p] = rest]
          /\ VisStep(p, "copy_renditions", next)
          /\ UNCHANGED <<objects, vrends>>
       \/ /\ PutRefused(copy)
          /\ vleft' = [vleft EXCEPT ![p] = {vcopy[p]} \cup vrends[p]]
          /\ VisStep(p, "copy_renditions", "undo")
          /\ UNCHANGED vrends
       \/ /\ PutEscapes(copy)
          /\ VisStep(p, "copy_renditions", "broken")
          /\ UNCHANGED <<vrends, vleft>>
  /\ UNCHANGED <<rows, vid, vwant, vsnap, vcopy>>

(* Mutant: the poster is left behind.                                      *)
NoCascade(p) == "answered"

(* Where the request goes once the row is re-pointed.                      *)
Cascade(p) == IF vsnap[p].poster = None THEN "answered" ELSE "load_poster"

(* Mutant: the handler writes back the record it read.                     *)
RepointedFromSnapshot(p) ==
  Update(vid[p], [vsnap[p] EXCEPT !.vis = vwant[p], !.key = IF vcopy[p] = None THEN @ ELSE vcopy[p]])

(* set_visibility gets NULL for what was not rotated.                      *)
Repointed(p) ==
  SetVisibility(vid[p], vwant[p], vcopy[p],
                IF vcopy[p] = None \/ vsnap[p].rends = {} THEN NullRends ELSE vrends[p])

(* A row that is gone, or a statement that raises: the copies are orphans  *)
(* and are removed.                                                        *)
UpdateVisibility(p) ==
  /\ vpc[p] = "update"
  /\ \/ /\ Exists(vid[p])
        /\ rows' = Repointed(p)
        /\ vleft' = [vleft EXCEPT ![p] = IF vcopy[p] = None THEN {} ELSE Held(vsnap[p])]
        /\ VisStep(p, "update", IF vcopy[p] = None THEN Cascade(p) ELSE "remove_old")
     \/ /\ (~Exists(vid[p]) /\ UNCHANGED rows) \/ StatementRaises(Repointed(p))
        /\ vleft' = [vleft EXCEPT ![p] = IF vcopy[p] = None THEN {} ELSE {vcopy[p]} \cup vrends[p]]
        /\ VisStep(p, "update", IF vcopy[p] = None THEN "answered" ELSE "undo")
  /\ UNCHANGED <<objects, vid, vwant, vsnap, vcopy, vrends>>

RemoveCopies(p) ==
  /\ \/ \E k \in vleft[p] :
          /\ RemoveSuppressed(k)
          /\ vleft' = [vleft EXCEPT ![p] = @ \ {k}]
          /\ VisStep(p, "undo", IF vleft[p] = {k} THEN "answered" ELSE "undo")
     \/ VisStep(p, "undo", "broken") /\ RemoveEscapes /\ UNCHANGED vleft
  /\ UNCHANGED <<rows, vid, vwant, vsnap, vcopy, vrends>>

(* The old object and its old renditions; a failure is only logged.        *)
RemoveOld(p) ==
  /\ \/ \E k \in vleft[p] :
          /\ RemoveSuppressed(k)
          /\ vleft' = [vleft EXCEPT ![p] = @ \ {k}]
          /\ VisStep(p, "remove_old", IF vleft[p] = {k} THEN Cascade(p) ELSE "remove_old")
     \/ VisStep(p, "remove_old", "broken") /\ RemoveEscapes /\ UNCHANGED vleft
  /\ UNCHANGED <<rows, vid, vwant, vsnap, vcopy, vrends>>

(* _cascade_visibility_to_poster: the same rotation for the poster row.    *)
LoadPosterForVisibility(p) ==
  LET poster == vsnap[p].poster
      follows == Exists(poster) /\ rows[poster].vis # vwant[p]
  IN
  /\ vpc[p] = "load_poster"
  /\ \/ /\ follows
        /\ VisStep(p, "load_poster", "copy")
        /\ vid' = [vid EXCEPT ![p] = poster]
        /\ vsnap' = [vsnap EXCEPT ![p] = rows[poster]]
        /\ vcopy' = [vcopy EXCEPT ![p] = None]
        /\ vrends' = [vrends EXCEPT ![p] = {}]
     \/ /\ ~follows \/ LookupRaises
        /\ VisStep(p, "load_poster", "answered")
        /\ UNCHANGED <<vid, vsnap, vcopy, vrends>>
  /\ UNCHANGED <<storeVars, vwant, vleft>>

Patch(p) ==
  \/ CopyMissing(p) \/ CopyObject(p) \/ CopyRendition(p) \/ UpdateVisibility(p)
  \/ RemoveCopies(p) \/ RemoveOld(p) \/ LoadPosterForVisibility(p)

VisAnswered == {"idle", "answered", "broken"}

VisNext == \E p \in Patchers : LoadForVisibility(p) \/ Patch(p)

=============================================================================
