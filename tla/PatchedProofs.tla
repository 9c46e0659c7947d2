--------------------------- MODULE PatchedProofs ---------------------------
(***************************************************************************)
(* Proofs about PatchedVideoSystem, for every number of uploads, PATCH and *)
(* DELETE requests: what a visibility that changes while a video is        *)
(* processed, linked to its poster or deleted may do to it.                *)
(***************************************************************************)
EXTENDS PatchedVideoSystem, VideoOutcomeProofs

(***************************************************************************)
(* Type correctness.  That a PATCH writes keys rests on what it has read:  *)
(* rows that have a key, that of a poster none of its own, and none with   *)
(* renditions, which only images have.                                     *)
(***************************************************************************)
PlainRow(i, row) ==
  /\ row.status # "none" /\ row.key # None /\ row.rends = {}
  /\ i \in Jobs => row.poster = None

VisFacts(p) ==
  /\ vpc[p] = "idle" => vid[p] = None
  /\ vpc[p] # "idle" => vid[p] \in Ids /\ PlainRow(vid[p], vsnap[p])
  /\ vpc[p] # "copy_renditions" /\ vrends[p] = {}
  /\ vpc[p] = "load_poster" => vsnap[p].poster # None

BaseInv ==
  /\ TypeInv /\ RecordInv /\ VisTypeOK
  /\ \A i \in Ids : Exists(i) => PlainRow(i, rows[i])
  /\ \A p \in Patchers : VisFacts(p)

(* The fields that a statement on one row does not name keep their values. *)
LEMMA KeptFields ==
  ASSUME StoreTypeOK, NEW id \in Ids, NEW key
  PROVE  \A new \in {MarkReady(id, key), MarkFailed(id), SetTaskId(id)} :
           /\ new[id].vis = rows[id].vis /\ new[id].rends = rows[id].rends
           /\ new[id].kind = rows[id].kind /\ new[id].poster = rows[id].poster
<1>1. rows \in [Ids -> Rows] /\ rows[id] \in Rows
  BY DEF StoreTypeOK
<1>2. PICK ready, failed, task :
        /\ ready = [rows[id] EXCEPT !.status = "ready", !.key = key]
        /\ failed = [rows[id] EXCEPT !.status = "failed"]
        /\ task = [rows[id] EXCEPT !.task = TRUE]
  OBVIOUS
<1>3. \A row \in {ready, failed, task} :
        /\ row.vis = rows[id].vis /\ row.rends = rows[id].rends
        /\ row.kind = rows[id].kind /\ row.poster = rows[id].poster
  BY <1>1, <1>2 DEF Rows
<1>4. /\ MarkReady(id, key) = Update(id, ready) /\ MarkFailed(id) = Update(id, failed)
      /\ SetTaskId(id) = Update(id, task)
  BY <1>2 DEF MarkReady, MarkFailed, SetTaskId
<1>5. \A row : Update(id, row)[id] = IF Exists(id) THEN row ELSE rows[id]
  BY <1>1 DEF Update
<1>. QED
  BY <1>3, <1>4, <1>5

(* set_poster writes the link, if there is a row to write it to.           *)
LEMMA LinkedFields ==
  ASSUME StoreTypeOK, NEW id \in Ids, NEW poster
  PROVE  /\ SetPoster(id, poster)[id].vis = rows[id].vis
         /\ SetPoster(id, poster)[id].rends = rows[id].rends
         /\ SetPoster(id, poster)[id].kind = rows[id].kind
         /\ SetPoster(id, poster)[id].key = rows[id].key
         /\ SetPoster(id, poster)[id].status = rows[id].status
         /\ Exists(id) => SetPoster(id, poster)[id].poster = poster
         /\ ~Exists(id) => SetPoster(id, poster) = rows
<1>1. rows \in [Ids -> Rows] /\ rows[id] \in Rows
  BY DEF StoreTypeOK
<1>2. PICK linked : linked = [rows[id] EXCEPT !.poster = poster]
  OBVIOUS
<1>3. /\ linked.vis = rows[id].vis /\ linked.rends = rows[id].rends
      /\ linked.kind = rows[id].kind /\ linked.key = rows[id].key
      /\ linked.status = rows[id].status /\ linked.poster = poster
  BY <1>1, <1>2 DEF Rows
<1>4. SetPoster(id, poster) = Update(id, linked)
  BY <1>2 DEF SetPoster
<1>5. /\ Update(id, linked)[id] = IF Exists(id) THEN linked ELSE rows[id]
      /\ ~Exists(id) => Update(id, linked) = rows
  BY <1>1 DEF Update
<1>. QED
  BY <1>3, <1>4, <1>5

(* The row as a PATCH leaves it: nothing here has renditions.              *)
NewRow(p) ==
  [rows[vid[p]] EXCEPT !.vis = vwant[p], !.key = IF vcopy[p] = None THEN @ ELSE vcopy[p]]

(* Of that row the statement leaves all but two fields as they were.       *)
LEMMA NewRowFields ==
  ASSUME StoreTypeOK, VisTypeOK, NEW p \in Patchers, vid[p] \in Ids, vsnap[p].rends = {}
  PROVE  /\ Repointed(p) = IF Exists(vid[p]) THEN [rows EXCEPT ![vid[p]] = NewRow(p)] ELSE rows
         /\ NewRow(p) \in Rows
         /\ NewRow(p).status = rows[vid[p]].status /\ NewRow(p).poster = rows[vid[p]].poster
         /\ NewRow(p).rends = rows[vid[p]].rends /\ NewRow(p).kind = rows[vid[p]].kind
         /\ NewRow(p).vis = vwant[p]
         /\ NewRow(p).key = IF vcopy[p] = None THEN rows[vid[p]].key ELSE vcopy[p]
<1>1. rows[vid[p]] \in Rows /\ vcopy[p] \in Keys \cup {None} /\ vwant[p] \in Visibilities
  BY DEF StoreTypeOK, VisTypeOK
<1>2. PICK rends : rends = NullRends
  OBVIOUS
<1>3. Repointed(p) = SetVisibility(vid[p], vwant[p], vcopy[p], rends)
  BY <1>2 DEF Repointed
<1>4. PICK row : row = [rows[vid[p]] EXCEPT !.vis = vwant[p],
                                            !.key = IF vcopy[p] = None THEN @ ELSE vcopy[p],
                                            !.rends = IF rends = NullRends THEN @ ELSE rends]
  OBVIOUS
<1>5. PICK new : new = NewRow(p)
  OBVIOUS
<1>6. new = [rows[vid[p]] EXCEPT !.vis = vwant[p], !.key = IF vcopy[p] = None THEN @ ELSE vcopy[p]]
  BY <1>5 DEF NewRow
<1>7. row = new
  BY <1>1, <1>2, <1>4, <1>6 DEF Rows
<1>8. Repointed(p) = IF Exists(vid[p]) THEN [rows EXCEPT ![vid[p]] = row] ELSE rows
  BY <1>3, <1>4 DEF SetVisibility, Update
<1>9. /\ new \in Rows /\ new.status = rows[vid[p]].status /\ new.poster = rows[vid[p]].poster
      /\ new.rends = rows[vid[p]].rends /\ new.kind = rows[vid[p]].kind /\ new.vis = vwant[p]
      /\ new.key = IF vcopy[p] = None THEN rows[vid[p]].key ELSE vcopy[p]
  BY <1>1, <1>6 DEF Rows
<1>. QED
  BY <1>5, <1>7, <1>8, <1>9

(* The key of a copy.                                                      *)
LEMMA RotatedKey ==
  ASSUME VisTypeOK, NEW p \in Patchers, NEW k \in Keys
  PROVE  /\ Rotated(p, k) \in Keys /\ Rotated(p, k).tag = p
         /\ Rotated(p, k).vis = vwant[p] /\ Rotated(p, k).dir = k.dir
<1>1. p \in Tags /\ vwant[p] \in Visibilities
  BY DEF Tags, VisTypeOK
<1>. QED
  BY <1>1 DEF Rotated, Keys

VisKeeps(p) ==
  /\ \A q \in Patchers \ {p} :
       /\ vpc'[q] = vpc[q] /\ vid'[q] = vid[q] /\ vwant'[q] = vwant[q] /\ vsnap'[q] = vsnap[q]
       /\ vcopy'[q] = vcopy[q] /\ vrends'[q] = vrends[q] /\ vleft'[q] = vleft[q]
  /\ vpc[p] \notin {"answered", "broken"} /\ vpc'[p] \notin {"idle", "copy_renditions"}

(* Where it goes once the row is re-pointed.                               *)
NextRow(p) == IF vsnap[p].poster = None THEN "answered" ELSE "load_poster"

(* A PATCH begins, or goes on to the poster.                               *)
VisLoads(p) ==
  /\ vpc[p] = "idle" /\ vpc'[p] \in {"copy", "update"} /\ rows' = rows /\ objects' = objects
  /\ vcopy' = vcopy /\ vrends' = vrends /\ vleft' = vleft
  /\ \E i \in Ids :
       /\ Exists(i) /\ vid'[p] = i /\ vsnap'[p] = rows[i]
       /\ vpc'[p] = "update" <=> rows[i].vis = vwant'[p]

VisCascades(p) ==
  /\ vpc[p] = "load_poster" /\ vpc'[p] = "copy" /\ rows' = rows /\ objects' = objects
  /\ vwant' = vwant /\ vleft' = vleft /\ vcopy'[p] = None /\ vrends'[p] = {}
  /\ Exists(vsnap[p].poster)
  /\ vid'[p] = vsnap[p].poster /\ vsnap'[p] = rows[vsnap[p].poster]

(* It copies the object, or finds it gone.                                 *)
VisCopies(p) ==
  /\ vpc[p] = "copy" /\ rows' = rows
  /\ \/ /\ vpc'[p] = "update" /\ objects' = objects /\ vcopy' = vcopy /\ vleft' = vleft
        /\ vsnap[p].key \notin objects
     \/ /\ vpc'[p] = "update" /\ vleft'[p] = {}
        /\ vcopy'[p] = Rotated(p, vsnap[p].key) /\ objects' = objects \cup {vcopy'[p]}
     \/ /\ vpc'[p] \in {"answered", "broken"} /\ vcopy' = vcopy /\ vleft' = vleft
        /\ \/ objects' = objects
           \/ /\ vpc'[p] = "broken" \/ "lost_reply" \in Faults
              /\ objects' = objects \cup {Rotated(p, vsnap[p].key)}

(* It re-points the row, or does not.                                      *)
VisWrites(p) ==
  /\ vpc[p] = "update" /\ objects' = objects /\ vcopy' = vcopy
  /\ \/ /\ Exists(vid[p]) /\ rows' = [rows EXCEPT ![vid[p]] = NewRow(p)]
        /\ IF vcopy[p] = None THEN vleft'[p] = {} /\ vpc'[p] = NextRow(p)
           ELSE vleft'[p] = {vsnap[p].key} /\ vpc'[p] = "remove_old"
     \/ /\ \/ rows' = rows
           \/ /\ "lost_reply" \in Faults /\ Exists(vid[p])
              /\ rows' = [rows EXCEPT ![vid[p]] = NewRow(p)]
        /\ IF vcopy[p] = None THEN vleft'[p] = {} /\ vpc'[p] = "answered"
           ELSE vleft'[p] = {vcopy[p]} /\ vpc'[p] = "undo"

(* It removes what it no longer needs.                                     *)
VisRemoves(p) ==
  /\ vpc[p] \in {"undo", "remove_old"} /\ rows' = rows /\ vcopy' = vcopy
  /\ \/ \E k \in vleft[p] :
          /\ vleft'[p] = vleft[p] \ {k}
          /\ \/ objects' = objects \ {k}
             \/ "remove" \in Faults /\ objects' = objects
          /\ \/ vpc'[p] = vpc[p]
             \/ vleft'[p] = {} /\ vpc'[p] = IF vpc[p] = "undo" THEN "answered" ELSE NextRow(p)
     \/ vpc'[p] = "broken" /\ objects' = objects /\ vleft' = vleft

VisRuns(p) ==
  /\ vid' = vid /\ vwant' = vwant /\ vsnap' = vsnap /\ vrends' = vrends
  /\ vpc'[p] = "load_poster" => vsnap[p].poster # None
  /\ \/ VisCopies(p) \/ VisWrites(p) \/ VisRemoves(p)
     \/ /\ vpc[p] = "load_poster" /\ vpc'[p] = "answered"
        /\ \/ ~Exists(vsnap[p].poster) \/ rows[vsnap[p].poster].vis = vwant[p]
           \/ "lookup" \in Faults
        /\ rows' = rows /\ objects' = objects /\ vcopy' = vcopy /\ vleft' = vleft

(* Every step of a PATCH does one of these and leaves the others alone.    *)
LEMMA VisEffect ==
  ASSUME BaseInv, NEW p \in Patchers, LoadForVisibility(p) \/ Patch(p)
  PROVE  /\ StoreTypeOK' /\ VisTypeOK' /\ VisKeeps(p)
         /\ VisLoads(p) \/ VisCascades(p) \/ VisRuns(p)
<1>1. /\ StoreTypeOK /\ VisTypeOK /\ VisFacts(p) /\ vsnap[p] \in Rows /\ Jobs \subseteq Ids
  BY DEF BaseInv, TypeInv, TypeOK, VisTypeOK, Ids
<1>2. /\ vcopy[p] \in Keys \cup {None} /\ vrends[p] = {} /\ vleft[p] \subseteq Keys /\ None \notin Keys
      /\ vpc[p] # "idle" =>
           /\ vid[p] \in Ids /\ vsnap[p].key \in Keys /\ vsnap[p].rends = {}
           /\ vsnap[p].poster # None => vsnap[p].poster \in Ids
  BY <1>1, StoreAssumption DEF VisFacts, VisTypeOK, PlainRow, Rows
<1>. USE DEF VisTypeOK, VisSteps, StoreTypeOK
<1>3. CASE LoadForVisibility(p)
  <2>1. PICK id \in Ids, want \in Visibilities :
          /\ Exists(id)
          /\ VisStep(p, "idle", IF rows[id].vis = want THEN "update" ELSE "copy")
          /\ vid' = [vid EXCEPT ![p] = id]
          /\ vwant' = [vwant EXCEPT ![p] = want]
          /\ vsnap' = [vsnap EXCEPT ![p] = rows[id]]
    BY <1>3 DEF LoadForVisibility
  <2>2. UNCHANGED <<rows, objects, vcopy, vrends, vleft>>
    BY <1>3 DEF LoadForVisibility, storeVars
  <2>3. StoreTypeOK' /\ VisTypeOK'
    BY <1>1, <2>1, <2>2 DEF VisStep
  <2>4. VisKeeps(p)
    BY <1>1, <2>1, <2>2 DEF VisStep, VisKeeps
  <2>5. VisLoads(p)
    BY <1>1, <2>1, <2>2 DEF VisStep, VisLoads
  <2>. QED
    BY <2>3, <2>4, <2>5
<1>4. CASE CopyMissing(p)
  <2>1. /\ vpc[p] = "copy" /\ vpc' = [vpc EXCEPT ![p] = "update"]
        /\ UNCHANGED <<rows, objects, vid, vwant, vsnap, vcopy, vrends, vleft>>
        /\ vsnap[p].key \notin objects
    BY <1>4 DEF CopyMissing, VisStep, storeVars
  <2>. QED
    BY <1>1, <2>1 DEF VisKeeps, VisRuns, VisCopies
<1>5. CASE CopyObject(p)
  <2>1. PICK copy : copy = Rotated(p, vsnap[p].key)
    OBVIOUS
  <2>2. vpc[p] = "copy" /\ UNCHANGED <<rows, vid, vwant, vsnap, vrends>> /\ vsnap[p].rends = {}
    BY <1>2, <1>5 DEF CopyObject
  <2>3. copy \in Keys
    BY <1>1, <1>2, <2>1, <2>2, RotatedKey
  <2>4. \/ /\ objects' = objects \cup {copy}
           /\ vcopy' = [vcopy EXCEPT ![p] = copy] /\ vleft' = [vleft EXCEPT ![p] = {}]
           /\ vpc' = [vpc EXCEPT ![p] = "update"]
        \/ /\ UNCHANGED <<vcopy, vleft>>
           /\ \E to \in {"answered", "broken"} :
                /\ vpc' = [vpc EXCEPT ![p] = to]
                /\ \/ objects' = objects
                   \/ (to = "broken" \/ "lost_reply" \in Faults) /\ objects' = objects \cup {copy}
    BY <1>5, <2>1, <2>2 DEF CopyObject, VisStep, Put, PutRefused, PutEscapes
  <2>5. StoreTypeOK' /\ VisTypeOK'
    BY <1>1, <2>2, <2>3, <2>4
  <2>6. VisKeeps(p)
    BY <1>1, <2>2, <2>4 DEF VisKeeps
  <2>7. VisCopies(p)
    BY <1>1, <2>1, <2>2, <2>4 DEF VisCopies
  <2>8. vpc'[p] # "load_poster"
    BY <1>1, <2>4
  <2>. QED
    BY <2>2, <2>5, <2>6, <2>7, <2>8 DEF VisRuns
<1>6. CASE UpdateVisibility(p)
  <2>1. vpc[p] = "update" /\ UNCHANGED <<objects, vid, vwant, vsnap, vcopy, vrends>> /\ vid[p] \in Ids
    BY <1>2, <1>6 DEF UpdateVisibility
  <2>2. PICK new : new = [rows EXCEPT ![vid[p]] = NewRow(p)]
    OBVIOUS
  <2>3. /\ Repointed(p) = IF Exists(vid[p]) THEN new ELSE rows
        /\ new \in [Ids -> Rows]
    BY <1>1, <1>2, <2>1, <2>2, NewRowFields
  <2>4. Held(vsnap[p]) = {vsnap[p].key} /\ {vcopy[p]} \cup vrends[p] = {vcopy[p]}
    BY <1>2, <2>1 DEF Held
  <2>5. PICK to \in {"answered", "load_poster"} : to = Cascade(p) /\ to = NextRow(p)
    BY DEF Cascade, NextRow
  <2>6. \/ /\ Exists(vid[p]) /\ rows' = new
           /\ vleft' = [vleft EXCEPT ![p] = IF vcopy[p] = None THEN {} ELSE {vsnap[p].key}]
           /\ vpc' = [vpc EXCEPT ![p] = IF vcopy[p] = None THEN to ELSE "remove_old"]
        \/ /\ rows' = rows \/ ("lost_reply" \in Faults /\ Exists(vid[p]) /\ rows' = new)
           /\ vleft' = [vleft EXCEPT ![p] = IF vcopy[p] = None THEN {} ELSE {vcopy[p]}]
           /\ vpc' = [vpc EXCEPT ![p] = IF vcopy[p] = None THEN "answered" ELSE "undo"]
    BY <1>6, <2>3, <2>4, <2>5 DEF UpdateVisibility, VisStep, StatementRaises
  <2>7. StoreTypeOK' /\ VisTypeOK'
    <3>1. rows' \in [Ids -> Rows]
      BY <1>1, <2>3, <2>6
    <3>2. vleft' \in [Patchers -> SUBSET Keys]
      BY <1>1, <1>2, <2>1, <2>6
    <3>3. vpc' \in [Patchers -> VisSteps]
      BY <1>1, <2>5, <2>6
    <3>. QED
      BY <1>1, <2>1, <3>1, <3>2, <3>3
  <2>8. VisKeeps(p)
    BY <1>1, <2>1, <2>5, <2>6 DEF VisKeeps
  <2>9. VisWrites(p)
    BY <1>1, <2>1, <2>2, <2>5, <2>6 DEF VisWrites
  <2>10. vpc'[p] = "load_poster" => vsnap[p].poster # None
    BY <1>1, <2>5, <2>6 DEF NextRow
  <2>. QED
    BY <2>1, <2>7, <2>8, <2>9, <2>10 DEF VisRuns
<1>7. CASE RemoveCopies(p) \/ RemoveOld(p)
  <2>1. UNCHANGED <<rows, vid, vwant, vsnap, vcopy, vrends>>
    BY <1>7 DEF RemoveCopies, RemoveOld
  <2>2. PICK last \in {"answered", "load_poster"} :
          last = Cascade(p) /\ last = NextRow(p)
    BY DEF Cascade, NextRow
  <2>3. PICK from \in {"undo", "remove_old"}, to \in VisSteps :
          /\ vpc[p] = from /\ vpc' = [vpc EXCEPT ![p] = to]
          /\ \/ \E k \in vleft[p] :
                  /\ objects' = objects \ {k} \/ ("remove" \in Faults /\ objects' = objects)
                  /\ vleft' = [vleft EXCEPT ![p] = @ \ {k}]
                  /\ to = IF vleft[p] = {k} THEN (IF from = "undo" THEN "answered" ELSE last)
                     ELSE from
             \/ to = "broken" /\ objects' = objects /\ vleft' = vleft
    <3>1. CASE RemoveCopies(p)
      BY <1>7, <2>2, <3>1 DEF RemoveCopies, VisStep, RemoveSuppressed, Remove, RemoveRefused, RemoveEscapes
    <3>2. CASE RemoveOld(p)
      BY <1>7, <2>2, <3>2 DEF RemoveOld, VisStep, RemoveSuppressed, Remove, RemoveRefused, RemoveEscapes
    <3>. QED
      BY <1>7, <3>1, <3>2
  <2>4. /\ objects' \subseteq objects /\ vleft' \in [Patchers -> SUBSET Keys]
        /\ \A q \in Patchers \ {p} : vleft'[q] = vleft[q]
    BY <1>1, <2>3
  <2>5. StoreTypeOK' /\ VisTypeOK'
    BY <1>1, <2>1, <2>3, <2>4
  <2>6. to \in {from, "answered", "broken", last}
    BY <2>3
  <2>7. VisKeeps(p)
    BY <1>1, <2>1, <2>2, <2>3, <2>4, <2>6 DEF VisKeeps
  <2>8. VisRemoves(p)
    <3>1. CASE to = "broken" /\ objects' = objects /\ vleft' = vleft
      BY <1>1, <2>1, <2>3, <3>1 DEF VisRemoves
    <3>2. ASSUME NEW k \in vleft[p],
                 objects' = objects \ {k} \/ ("remove" \in Faults /\ objects' = objects),
                 vleft' = [vleft EXCEPT ![p] = @ \ {k}],
                 to = IF vleft[p] = {k} THEN (IF from = "undo" THEN "answered" ELSE last) ELSE from
          PROVE  VisRemoves(p)
      <4>1. vleft'[p] = vleft[p] \ {k} /\ vpc'[p] = to
        BY <1>1, <2>3, <3>2
      <4>2. \/ vpc'[p] = vpc[p]
            \/ vleft'[p] = {} /\ vpc'[p] = IF vpc[p] = "undo" THEN "answered" ELSE NextRow(p)
        BY <2>2, <2>3, <3>2, <4>1
      <4>. QED
        BY <2>1, <2>3, <3>2, <4>1, <4>2 DEF VisRemoves
    <3>. QED
      BY <2>3, <3>1, <3>2
  <2>9. vpc'[p] = "load_poster" => vsnap[p].poster # None
    BY <1>1, <2>2, <2>3, <2>6 DEF NextRow
  <2>. QED
    BY <2>1, <2>5, <2>7, <2>8, <2>9 DEF VisRuns
<1>8. CASE LoadPosterForVisibility(p)
  <2>1. PICK poster \in Ids : poster = vsnap[p].poster
    BY <1>1, <1>2, <1>8 DEF LoadPosterForVisibility, VisFacts
  <2>2. /\ vpc[p] = "load_poster" /\ UNCHANGED <<rows, objects, vwant, vleft>>
        /\ \/ /\ Exists(poster) /\ vpc' = [vpc EXCEPT ![p] = "copy"]
              /\ vid' = [vid EXCEPT ![p] = poster] /\ vsnap' = [vsnap EXCEPT ![p] = rows[poster]]
              /\ vcopy' = [vcopy EXCEPT ![p] = None] /\ vrends' = [vrends EXCEPT ![p] = {}]
           \/ /\ vpc' = [vpc EXCEPT ![p] = "answered"] /\ UNCHANGED <<vid, vsnap, vcopy, vrends>>
              /\ \/ ~Exists(poster) \/ rows[poster].vis = vwant[p]
                 \/ "lookup" \in Faults
    BY <1>8, <2>1 DEF LoadPosterForVisibility, VisStep, LookupRaises, storeVars
  <2>3. StoreTypeOK' /\ VisTypeOK'
    BY <1>1, <2>1, <2>2
  <2>4. VisKeeps(p)
    BY <1>1, <2>2 DEF VisKeeps
  <2>5. VisCascades(p) \/ VisRuns(p)
    BY <1>1, <2>1, <2>2 DEF VisCascades, VisRuns
  <2>. QED
    BY <2>3, <2>4, <2>5
<1>9. ~CopyRendition(p)
  BY <1>1 DEF CopyRendition, VisFacts
<1>. QED
  BY <1>3, <1>4, <1>5, <1>6, <1>7, <1>8, <1>9 DEF Patch

(***************************************************************************)
(* A step belongs to VideoSystem or to one PATCH, and does little to a row.*)
(***************************************************************************)

(* The steps of VideoSystem and those of the PATCH requests.               *)
LEMMA PatchedSteps ==
  ASSUME [PatchedNext]_pvars
  PROVE  \/ [Next]_vars /\ UNCHANGED visVars
         \/ /\ UNCHANGED <<videoVars, deleteVars>>
            /\ \E p \in Patchers : LoadForVisibility(p) \/ Patch(p)
BY DEF PatchedNext, pvars, VisNext, vars

(* What the steps of an upload and of its job do to the rest of its row.   *)
FieldMove(u) ==
  \/ rows'[u] = NoRow
  \/ rows'[u] = VideoRow(u) /\ upc[u] = "create"
  \/ /\ rows'[u].vis = rows[u].vis /\ rows'[u].rends = rows[u].rends
     /\ rows'[u].kind = rows[u].kind
     /\ \/ rows'[u].poster = rows[u].poster
        \/ /\ wpc[u] = "link" /\ wpc'[u] \in {"linked", "drop_poster"} /\ wvis' = wvis
           /\ run' = run /\ Exists(u) /\ rows'[u].poster = Delivery(u)

(* Every step of the upload and of its job does one of these.              *)
LEMMA FieldMoves ==
  ASSUME TypeInv, NEW u \in Uploads, VideoStep(u)
  PROVE  FieldMove(u)
<1>. USE DEF TypeInv, TypeOK, VideoTypeOK
<1>0. u \in Ids /\ u \notin Jobs /\ StoreTypeOK
  BY StoreAssumption DEF Ids
<1>1. ASSUME rows'[u] = rows[u] PROVE FieldMove(u)
  BY <1>1 DEF FieldMove
<1>2. ASSUME NEW key, rows' \in {MarkReady(u, key), MarkFailed(u), SetTaskId(u)}
      PROVE  FieldMove(u)
  BY <1>0, <1>2, KeptFields DEF FieldMove
<1>3. ASSUME NEW committed, StatementRaises(committed) PROVE rows' \in {rows, committed}
  BY <1>3 DEF StatementRaises
<1>4. CASE LookupHit(u) \/ LookupMiss(u) \/ Stage(u) \/ Enqueue(u) \/ Unstage(u)
  BY <1>1, <1>4 DEF LookupHit, LookupMiss, Stage, Enqueue, Unstage, storeVars
<1>5. CASE CreateRecord(u)
  <2>1. upc[u] = "create" /\ rows' \in {rows, Insert(u, VideoRow(u))}
    BY <1>3, <1>5 DEF CreateRecord, UploadStep
  <2>2. Insert(u, VideoRow(u))[u] = VideoRow(u)
    BY <1>0 DEF Insert, StoreTypeOK
  <2>. QED
    BY <1>1, <2>1, <2>2 DEF FieldMove
<1>6. CASE Rollback(u)
  <2>1. rows' \in {rows, DeleteRow(u)}
    BY <1>3, <1>6 DEF Rollback, DeleteRowSuppressed
  <2>2. DeleteRow(u)[u] = NoRow
    BY <1>0 DEF DeleteRow, StoreTypeOK
  <2>. QED
    BY <1>1, <2>1, <2>2 DEF FieldMove
<1>7. CASE LinkTask(u)
  <2>1. rows' \in {rows, SetTaskId(u)}
    BY <1>3, <1>7 DEF LinkTask
  <2>. QED
    BY <1>1, <1>2, <2>1
<1>8. CASE Publish(u)
  <2>1. rows' \in {rows, MarkReady(u, OutputKey(u))}
    BY <1>3, <1>8 DEF Publish
  <2>. QED
    BY <1>1, <1>2, <2>1
<1>9. CASE Fail(u)
  <2>1. rows' \in {rows, MarkFailed(u)}
    BY <1>3, <1>9 DEF Fail
  <2>. QED
    BY <1>1, <1>2, <2>1
<1>10. CASE LinkPoster(u)
  <2>1. /\ wpc[u] = "link" /\ wpc'[u] \in {"linked", "drop_poster"} /\ UNCHANGED <<run, wvis>>
        /\ rows' \in {rows, SetPoster(u, Delivery(u))}
    BY <1>3, <1>10 DEF LinkPoster, WorkerStep
  <2>2. CASE rows' = SetPoster(u, Delivery(u)) /\ Exists(u)
    BY <1>0, <2>1, <2>2, LinkedFields DEF FieldMove
  <2>3. CASE rows' = SetPoster(u, Delivery(u)) /\ ~Exists(u)
    BY <1>0, <1>1, <2>3, LinkedFields
  <2>. QED
    BY <1>1, <2>1, <2>2, <2>3
<1>11. CASE CreatePoster(u) \/ DropPosterRow(u)
  <2>1. Delivery(u) # u
    BY <1>0, <1>11, NamesType DEF CreatePoster, DropPosterRow, WorkerStep
  <2>. QED
    BY <1>0, <1>1, <1>11, <2>1, OneRow DEF CreatePoster, DropPosterRow
<1>12. CASE \/ LoadRecord(u) \/ Encode(u) \/ PutOutput(u) \/ Retract(u) \/ Discard(u) \/ Notify(u)
            \/ Cleanup(u) \/ ExtractFrame(u) \/ ReadLinked(u) \/ DropPosterObject(u)
  BY <1>1, <1>12 DEF LoadRecord, Encode, PutOutput, Retract, Discard, Notify, NotifyEvent, Cleanup,
                     ExtractFrame, ReadLinked, DropPosterObject, storeVars
<1>13. CASE Deliver(u) \/ Acknowledge(u) \/ Crash(u) \/ Trim(u)
  BY <1>1, <1>13 DEF Deliver, Acknowledge, Crash, Trim, storeVars
<1>. QED
  BY <1>4, <1>5, <1>6, <1>7, <1>8, <1>9, <1>10, <1>11, <1>12, <1>13
     DEF VideoStep, Upload, Worker, Compress, StorePoster

(* A PATCH leaves a row alone, or writes its visibility and maybe its key. *)
VisRow(i, p) ==
  \/ rows'[i] = rows[i]
  \/ /\ vpc[p] = "update" /\ vid[p] = i /\ vid' = vid /\ vwant' = vwant /\ vsnap' = vsnap
     /\ vcopy' = vcopy /\ objects' = objects
     /\ vpc'[p] \in {"answered", "load_poster", "remove_old", "undo"}
     /\ vpc'[p] \in {"answered", "load_poster", "remove_old"} \/ "lost_reply" \in Faults
     /\ vpc'[p] \in {"load_poster", "remove_old"} \/ vsnap[p].poster = None \/ "lost_reply" \in Faults
     /\ rows'[i].vis = vwant[p]
     /\ rows'[i].key = IF vcopy[p] = None THEN rows[i].key ELSE vcopy[p]

(* Status, kind, renditions and poster are none of its business.           *)
LEMMA VisRows ==
  ASSUME BaseInv, NEW p \in Patchers, LoadForVisibility(p) \/ Patch(p), NEW i \in Ids
  PROVE  /\ VisRow(i, p)
         /\ rows'[i].status = rows[i].status /\ rows'[i].kind = rows[i].kind
         /\ rows'[i].rends = rows[i].rends /\ rows'[i].poster = rows[i].poster
<1>1. VisLoads(p) \/ VisCascades(p) \/ VisRuns(p)
  BY VisEffect
<1>2. StoreTypeOK /\ VisTypeOK /\ VisFacts(p)
  BY DEF BaseInv, TypeInv, TypeOK
<1>3. CASE rows' = rows
  BY <1>3 DEF VisRow
<1>4. CASE VisWrites(p) /\ VisRuns(p) /\ rows' = [rows EXCEPT ![vid[p]] = NewRow(p)]
  <2>1. vid[p] \in Ids /\ vsnap[p].rends = {}
    BY <1>2, <1>4 DEF VisFacts, PlainRow, VisWrites
  <2>2. /\ NewRow(p).status = rows[vid[p]].status /\ NewRow(p).poster = rows[vid[p]].poster
        /\ NewRow(p).rends = rows[vid[p]].rends /\ NewRow(p).kind = rows[vid[p]].kind
        /\ NewRow(p).vis = vwant[p]
        /\ NewRow(p).key = IF vcopy[p] = None THEN rows[vid[p]].key ELSE vcopy[p]
    BY <1>2, <2>1, NewRowFields
  <2>3. rows'[i] = IF i = vid[p] THEN NewRow(p) ELSE rows[i]
    BY <1>2, <1>4 DEF StoreTypeOK
  <2>. QED
    BY <1>4, <2>2, <2>3 DEF VisRow, VisWrites, VisRuns, NextRow
<1>. QED
  BY <1>1, <1>3, <1>4 DEF VisLoads, VisCascades, VisRuns, VisCopies, VisWrites, VisRemoves

(* The initial state has no rows and no readers.                           *)
LEMMA BaseInit == PatchedInit => BaseInv
<1>. SUFFICES ASSUME PatchedInit PROVE BaseInv
  OBVIOUS
<1>1. NoRow \in Rows
  BY DEF NoRow, Rows, Statuses, Kinds, Visibilities
<1>2. VisTypeOK
  BY <1>1 DEF PatchedInit, VisInit, VisTypeOK, VisSteps, Visibilities
<1>3. \A p \in Patchers : VisFacts(p)
  BY DEF PatchedInit, VisInit, VisFacts
<1>4. \A i \in Ids : ~Exists(i)
  BY DEF PatchedInit, Init, StoreInit, Exists, NoRow
<1>. QED
  BY <1>2, <1>3, <1>4, TypeInvInit, RecordInvInit DEF PatchedInit, BaseInv

(* No step gives a row no key, or renditions; no poster has a poster.      *)
LEMMA PlainRowStep ==
  ASSUME BaseInv, [PatchedNext]_pvars, NEW i \in Ids, Exists(i)'
  PROVE  PlainRow(i, rows[i])'
<1>. USE DEF PlainRow
<1>1. /\ TypeInv /\ VisTypeOK /\ None \notin Keys /\ Ids = Uploads \cup Jobs
      /\ i \in Uploads => i \notin Jobs
      /\ Exists(i) => PlainRow(i, rows[i])
  BY StoreAssumption DEF BaseInv, Ids
<1>2. rows'[i].status # "none"
  BY DEF Exists
<1>3. CASE rows'[i] = rows[i]
  BY <1>1, <1>3 DEF Exists
<1>4. CASE rows'[i] = NoRow
  BY <1>2, <1>4 DEF NoRow
<1>5. ASSUME NEW u \in Uploads
      PROVE  /\ VideoRow(u).key # None /\ VideoRow(u).rends = {}
             /\ PosterRow(u).rends = {} /\ PosterRow(u).poster = None
             /\ wpc[u] # "idle" => OutputKey(u) # None /\ PosterRow(u).key # None
  BY <1>1, NamesType DEF VideoRow, PosterRow, NoRow
<1>6. CASE i \in Uploads /\ VideoStep(i)
  <2>1. RowMove(i) /\ FieldMove(i)
    BY <1>1, <1>6, RowMoves, FieldMoves
  <2>2. VideoRow(i).status # NoRow.status
    BY DEF VideoRow, NoRow
  <2>3. rows'[i].key # None
    BY <1>1, <1>2, <1>4, <1>5, <1>6, <2>1 DEF RowMove, Exists
  <2>4. CASE rows'[i] = VideoRow(i)
    BY <1>1, <1>2, <1>5, <1>6, <2>4
  <2>5. CASE rows'[i].rends = rows[i].rends /\ Exists(i)
    BY <1>1, <1>2, <1>6, <2>3, <2>5
  <2>6. CASE ~Exists(i) /\ rows'[i].status = rows[i].status
    BY <1>2, <2>6 DEF Exists
  <2>. QED
    BY <1>4, <2>1, <2>4, <2>5, <2>6 DEF RowMove, FieldMove
<1>7. ASSUME i \in Jobs, NEW u \in Uploads, PosterInserted(u, i)
      PROVE  PlainRow(i, rows[i])'
  BY <1>2, <1>5, <1>7 DEF PosterInserted
<1>8. CASE [Next]_vars
  <2>1. CASE i \in Uploads
    BY <1>1, <1>3, <1>4, <1>6, <1>8, <2>1, UploadFrame DEF DeletedBy
  <2>2. CASE i \in Jobs
    BY <1>1, <1>3, <1>4, <1>7, <1>8, <2>2, PosterFrame
  <2>. QED
    BY <1>1, <2>1, <2>2
<1>9. ASSUME NEW p \in Patchers, LoadForVisibility(p) \/ Patch(p)
      PROVE  PlainRow(i, rows[i])'
  <2>1. /\ VisRow(i, p) /\ rows'[i].status = rows[i].status
        /\ rows'[i].rends = rows[i].rends /\ rows'[i].poster = rows[i].poster
    BY <1>9, VisRows
  <2>2. Exists(i)
    BY <1>2, <2>1 DEF Exists
  <2>3. vcopy[p] \in Keys \cup {None}
    BY <1>1 DEF VisTypeOK
  <2>. QED
    BY <1>1, <1>2, <2>1, <2>2, <2>3 DEF VisRow
<1>. QED
  BY <1>8, <1>9, PatchedSteps

(* A PATCH only reads such rows.                                           *)
LEMMA VisFactsStep ==
  ASSUME BaseInv, NEW q \in Patchers, NEW p \in Patchers, LoadForVisibility(q) \/ Patch(q)
  PROVE  VisFacts(p)'
<1>. USE DEF VisFacts
<1>1. VisFacts(p) /\ VisFacts(q) /\ VisTypeOK /\ \A i \in Ids : Exists(i) => PlainRow(i, rows[i])
  BY DEF BaseInv
<1>2. VisTypeOK' /\ VisKeeps(q) /\ (VisLoads(q) \/ VisCascades(q) \/ VisRuns(q))
  BY VisEffect
<1>3. CASE p # q
  BY <1>1, <1>2, <1>3 DEF VisKeeps, PlainRow
<1>4. CASE p = q /\ VisLoads(q)
  <2>1. PICK i \in Ids : Exists(i) /\ vid'[p] = i /\ vsnap'[p] = rows[i]
    BY <1>4 DEF VisLoads
  <2>2. PlainRow(i, rows[i])
    BY <1>1, <2>1
  <2>. QED
    BY <1>1, <1>2, <1>4, <2>1, <2>2 DEF VisLoads, VisKeeps, PlainRow
<1>5. CASE p = q /\ VisCascades(q)
  <2>1. /\ vid'[p] = vsnap[p].poster /\ vsnap'[p] = rows[vsnap[p].poster]
        /\ Exists(vsnap[p].poster) /\ vpc'[p] = "copy" /\ vrends'[p] = {}
    BY <1>5 DEF VisCascades
  <2>2. vsnap[p].poster \in Jobs
    BY <1>1, <1>5 DEF VisCascades, VisTypeOK, Rows
  <2>3. vsnap[p].poster \in Ids
    BY <2>2 DEF Ids
  <2>4. PlainRow(vsnap[p].poster, rows[vsnap[p].poster])
    BY <1>1, <2>1, <2>3
  <2>. QED
    BY <2>1, <2>3, <2>4 DEF PlainRow
<1>6. CASE p = q /\ VisRuns(q)
  <2>1. /\ vid' = vid /\ vsnap' = vsnap /\ vrends' = vrends
        /\ vpc'[p] = "load_poster" => vsnap[p].poster # None
        /\ vpc[p] # "idle" /\ vpc'[p] \notin {"idle", "copy_renditions"}
    BY <1>2, <1>6 DEF VisRuns, VisKeeps, VisCopies, VisWrites, VisRemoves
  <2>. QED
    BY <1>1, <2>1 DEF PlainRow
<1>. QED
  BY <1>2, <1>3, <1>4, <1>5, <1>6

(* Every step keeps all this.                                              *)
LEMMA BaseStep ==
  ASSUME BaseInv, [PatchedNext]_pvars
  PROVE  BaseInv'
<1>. USE DEF BaseInv
<1>1. \A i \in Ids : Exists(i)' => PlainRow(i, rows[i])'
  BY PlainRowStep
<1>2. CASE [Next]_vars /\ UNCHANGED visVars
  <2>1. TypeInv' /\ RecordInv'
    BY <1>2, TypeInvStep, RecordInvStep
  <2>2. VisTypeOK' /\ \A p \in Patchers : VisFacts(p)'
    BY <1>2 DEF visVars, VisTypeOK, VisFacts, PlainRow
  <2>. QED
    BY <1>1, <2>1, <2>2
<1>3. ASSUME UNCHANGED <<videoVars, deleteVars>>, NEW q \in Patchers,
             LoadForVisibility(q) \/ Patch(q)
      PROVE  BaseInv'
  <2>1. StoreTypeOK' /\ VisTypeOK'
    BY <1>3, VisEffect
  <2>2. TypeInv'
    BY <1>3, <2>1 DEF TypeInv, TypeOK, VideoTypeOK, DeleteTypeOK, videoVars, deleteVars
  <2>3. \A i \in Ids : Exists(i)' = Exists(i) /\ rows'[i].kind = rows[i].kind
    BY <1>3, VisRows DEF Exists
  <2>4. \A u \in Uploads : UploadRecord(u)'
    BY <1>3, <2>3 DEF RecordInv, UploadRecord, videoVars, deleteVars, DeleteRequested, Ids
  <2>5. PosterKind' /\ \A d \in Deleters : DeleteRecorded(d)'
    BY <1>3, <2>3 DEF RecordInv, DeleteRecorded, PosterKind, videoVars, deleteVars, Ids
  <2>6. \A p \in Patchers : VisFacts(p)'
    BY <1>3, VisFactsStep
  <2>. QED
    BY <1>1, <2>1, <2>2, <2>4, <2>5, <2>6 DEF RecordInv
<1>. QED
  BY <1>2, <1>3, PatchedSteps

(* So all this holds throughout.                                           *)
LEMMA BaseInvariant == PatchedSpec => []BaseInv
<1>1. BaseInv /\ [PatchedNext]_pvars => BaseInv'
  BY BaseStep
<1>. QED
  BY <1>1, BaseInit, PTL DEF PatchedSpec

(* Whatever fails, every variable holds a value of its kind and no row     *)
(* lacks a key, though a PATCH writes what it read when others wrote since *)
(* (visibility.py 208-222, postgres.py 457-471).                           *)
THEOREM PatchedTypeCorrect == PatchedSpec => []PatchedTypeOK
<1>1. BaseInv => PatchedTypeOK
  BY DEF BaseInv, TypeInv, PatchedTypeOK, KeysNotNull, PlainRow
<1>. QED
  BY <1>1, BaseInvariant, PTL

(***************************************************************************)
(* The status of a row.  A PATCH writes none, so a video settles as it     *)
(* does without them.                                                      *)
(***************************************************************************)
OutcomeFacts == BaseInv /\ OutcomeInv /\ SettledInv

(* Every step keeps the outcome of every job.                              *)
LEMMA OutcomeFactsStep ==
  ASSUME OutcomeFacts, [PatchedNext]_pvars, "crash" \notin Faults, "lost_reply" \notin Faults
  PROVE  /\ OutcomeInv' /\ SettledInv'
         /\ \A u \in Uploads :
              rows[u].status \in {"ready", "failed"} =>
                rows'[u].status \in {rows[u].status, "none"}
<1>. USE DEF OutcomeFacts
<1>1. CASE [Next]_vars
  BY <1>1, OutcomeStep, SettledStep, SettledKeeps DEF BaseInv
<1>2. ASSUME UNCHANGED <<videoVars, deleteVars>>, NEW q \in Patchers,
             LoadForVisibility(q) \/ Patch(q)
      PROVE  /\ OutcomeInv' /\ SettledInv'
             /\ \A u \in Uploads : rows'[u].status = rows[u].status
  <2>1. \A u \in Uploads : rows'[u].status = rows[u].status
    BY <1>2, VisRows DEF Ids
  <2>2. OutcomeInv'
    BY <1>2, <2>1 DEF OutcomeInv, Outcome, Done, videoVars
  <2>3. SettledInv'
    BY <1>2, <2>1 DEF SettledInv, SettledBy, Done, videoVars
  <2>. QED
    BY <2>1, <2>2, <2>3
<1>. QED
  BY <1>1, <1>2, PatchedSteps

(* So it holds throughout.                                                 *)
LEMMA OutcomeFactsHold ==
  ASSUME "crash" \notin Faults, "lost_reply" \notin Faults
  PROVE  PatchedSpec => []OutcomeFacts
<1>1. OutcomeFacts /\ [PatchedNext]_pvars => OutcomeFacts'
  BY OutcomeFactsStep, BaseStep DEF OutcomeFacts
<1>2. PatchedInit => OutcomeFacts
  BY BaseInit, OutcomeInit DEF OutcomeFacts, PatchedInit
<1>. QED
  BY <1>1, <1>2, PTL DEF PatchedSpec

(* Under PATCHes too a settled video keeps its status until its row is     *)
(* gone: set_visibility writes columns that mark_ready and mark_failed     *)
(* leave, and not theirs (readme.md 162, postgres.py 462-465).             *)
THEOREM PatchedSettledForGood ==
  ASSUME "crash" \notin Faults, "lost_reply" \notin Faults
  PROVE  PatchedSpec => SettledIsFinal
<1>1. OutcomeFacts /\ [PatchedNext]_pvars =>
        [\A u \in Uploads :
           rows[u].status \in {"ready", "failed"} =>
             rows'[u].status \in {rows[u].status, "none"}]_rows
  BY OutcomeFactsStep
<1>. QED
  BY <1>1, OutcomeFactsHold, PTL DEF PatchedSpec, SettledIsFinal

(* Under PATCHes too a job never runs ahead of its INSERT, and a duplicate *)
(* upload loses its row only to a DELETE or to a roll-back, whatever fails *)
(* (upload.py 773-776, 740-758).                                           *)
THEOREM PatchedRowsFollowRecords == PatchedSpec => [](JobHasRecord /\ AttachedRowKept)
<1>1. BaseInv => JobHasRecord /\ AttachedRowKept
  BY RecordsTell DEF BaseInv
<1>. QED
  BY <1>1, BaseInvariant, PTL

(* If no worker dies, the webhooks queued for a video agree with its       *)
(* record under PATCHes too (tasks.py 535, 542-548).                       *)
THEOREM PatchedWebhooksTellTheRecord ==
  ASSUME "crash" \notin Faults
  PROVE  PatchedSpec => []EventsMatchRecord
<1>1. BaseInv /\ OutcomeInv /\ [PatchedNext]_pvars => OutcomeInv'
  <2>. SUFFICES ASSUME BaseInv, OutcomeInv, [PatchedNext]_pvars PROVE OutcomeInv'
    OBVIOUS
  <2>1. CASE [Next]_vars
    BY <2>1, OutcomeStep DEF BaseInv
  <2>2. ASSUME UNCHANGED videoVars, NEW q \in Patchers, LoadForVisibility(q) \/ Patch(q)
        PROVE  OutcomeInv'
    BY <2>2, VisRows DEF Ids, OutcomeInv, Outcome, Done, videoVars
  <2>. QED
    BY <2>1, <2>2, PatchedSteps
<1>2. OutcomeInv => EventsMatchRecord
  BY DEF OutcomeInv, Outcome, EventsMatchRecord
<1>. QED
  BY <1>1, <1>2, BaseInvariant, BaseStep, OutcomeInit, PTL DEF PatchedSpec, PatchedInit

(* A PATCH leaves nobody's video stuck: if the database answers and the    *)
(* stream keeps its messages, a `processing` row still has a request or a  *)
(* job that will settle it (upload.py 811-823).                            *)
THEOREM PatchedProcessingHasOwner ==
  ASSUME Faults \cap {"metadata", "lookup", "trim"} = {}
  PROVE  PatchedSpec => []ProcessingIsOwned
<1>1. BaseInv /\ OwnedInv /\ [PatchedNext]_pvars => OwnedInv'
  <2>. SUFFICES ASSUME BaseInv, OwnedInv, [PatchedNext]_pvars PROVE OwnedInv'
    OBVIOUS
  <2>1. CASE [Next]_vars
    BY <2>1, OwnedStep DEF BaseInv
  <2>2. ASSUME UNCHANGED videoVars, NEW q \in Patchers, LoadForVisibility(q) \/ Patch(q)
        PROVE  OwnedInv'
    BY <2>2, VisRows DEF Ids, OwnedInv, Owned, videoVars
  <2>. QED
    BY <2>1, <2>2, PatchedSteps
<1>2. BaseInv /\ OwnedInv => ProcessingIsOwned
  BY OwnedTells DEF BaseInv
<1>. QED
  BY <1>1, <1>2, BaseInvariant, BaseStep, OwnedTells, PTL DEF PatchedSpec, PatchedInit

(***************************************************************************)
(* Where the row of a ready video points.  Only mark_ready makes a row     *)
(* ready and it writes the output's key; a row is turned back to a copy of *)
(* the raw object only by a PATCH that read the raw key, so a row that was *)
(* not ready and, without a worker past mark_ready, had no poster.         *)
(***************************************************************************)
Explained(u) ==
  \E p \in Patchers : vid[p] = u /\ vsnap[p].status # "ready" /\ vsnap[p].poster = None

RawRow(u) ==
  Exists(u) /\ rows[u].key.dir # "videos" /\ ~Explained(u) =>
    /\ rows[u].status # "ready" /\ rows[u].poster = None
    /\ wpc[u] \notin {"frame", "poster_row", "link"}

RawRead(p) ==
  /\ vid[p] \in Uploads /\ vsnap[p].key.dir # "videos" => Explained(vid[p])
  /\ vpc[p] = "idle" => vcopy[p] = None
  /\ vcopy[p] # None => vcopy[p].dir = vsnap[p].key.dir

RawInv ==
  /\ \A u \in Uploads : RawRow(u)
  /\ \A p \in Patchers : RawRead(p)

(* A PATCH that read the row without a poster stays with the row.          *)
LEMMA ExplainedStays ==
  ASSUME BaseInv, [PatchedNext]_pvars, NEW u \in Uploads, Explained(u)
  PROVE  Explained(u)'
<1>1. PICK p \in Patchers : vid[p] = u /\ vsnap[p].status # "ready" /\ vsnap[p].poster = None
  BY DEF Explained
<1>2. VisFacts(p) /\ u # None
  BY StoreAssumption DEF BaseInv, Ids
<1>3. CASE UNCHANGED visVars
  BY <1>1, <1>3 DEF visVars, Explained
<1>4. ASSUME NEW q \in Patchers, LoadForVisibility(q) \/ Patch(q)
      PROVE  vid'[p] = vid[p] /\ vsnap'[p] = vsnap[p]
  BY <1>1, <1>2, <1>4, VisEffect DEF VisKeeps, VisLoads, VisCascades, VisRuns, VisFacts
<1>. QED
  BY <1>1, <1>3, <1>4, PatchedSteps DEF Explained

(* A step of the upload, of its job or of a DELETE keeps RawRow.           *)
LEMMA RawRowOwnStep ==
  ASSUME BaseInv, RawInv, [PatchedNext]_pvars, [Next]_vars, UNCHANGED visVars, NEW u \in Uploads
  PROVE  RawRow(u)'
<1>. SUFFICES ASSUME Exists(u)', rows'[u].key.dir # "videos", ~Explained(u)
              PROVE  /\ rows'[u].status # "ready" /\ rows'[u].poster = None
                     /\ wpc'[u] \notin {"frame", "poster_row", "link"}
  BY ExplainedStays DEF RawRow
<1>1. RawRow(u) /\ TypeInv /\ UploadRecord(u)
  BY DEF BaseInv, RawInv, RecordInv
<1>2. CASE SameUpload(u) /\ (rows'[u] = rows[u] \/ \E d \in Deleters : DeletedBy(u, d))
  BY <1>1, <1>2 DEF SameUpload, DeletedBy, RawRow, Exists, NoRow
<1>3. CASE VideoStep(u)
  <2>1. RowMove(u) /\ FieldMove(u)
    BY <1>1, <1>3, RowMoves, FieldMoves
  <2>2. rows'[u] # NoRow /\ OutputKey(u).dir = "videos"
    BY DEF NoRow, Exists, OutputKey, Key
  <2>3. VideoRow(u).status = "processing" /\ VideoRow(u).poster = None
    BY DEF VideoRow, NoRow
  <2>4. wpc'[u] \in {"frame", "poster_row", "link"} =>
          wpc[u] \in {"frame", "poster_row", "link"} \/ (wpc[u] = "publish" /\ rows'[u].key = OutputKey(u))
    <3>1. CASE LookupHit(u) \/ LookupMiss(u) \/ Upload(u) \/ Trim(u) \/ Crash(u) \/ Acknowledge(u)
      BY <1>1, <3>1
         DEF LookupHit, LookupMiss, Upload, Stage, CreateRecord, Enqueue, Rollback, Unstage,
             LinkTask, Trim, Crash, Acknowledge, WorkerStep, workerVars, TypeInv, TypeOK, VideoTypeOK
    <3>2. CASE Publish(u)
      <4>1. Exists(u) /\ rows' = MarkReady(u, OutputKey(u)) => rows'[u].key = OutputKey(u)
        BY <1>1, UpdatedRow DEF TypeInv, TypeOK, Ids
      <4>. QED
        BY <1>1, <3>2, <4>1 DEF Publish, WorkerStep, TypeInv, TypeOK, VideoTypeOK
    <3>3. CASE Deliver(u) \/ (Compress(u) /\ ~Publish(u))
      BY <1>1, <3>3
         DEF Deliver, Compress, LoadRecord, Encode, PutOutput, Retract, Discard, StorePoster,
             ExtractFrame, CreatePoster, LinkPoster, ReadLinked, DropPosterObject, DropPosterRow,
             Fail, Notify, NotifyEvent, Cleanup, WorkerStep, TypeInv, TypeOK, VideoTypeOK
    <3>. QED
      BY <1>3, <3>1, <3>2, <3>3 DEF VideoStep, Worker
  <2>5. CASE rows'[u] = VideoRow(u) /\ upc[u] = "create"
    <3>1. wpc[u] = "idle"
      BY <1>1, <2>5 DEF UploadRecord, Early
    <3>. QED
      BY <2>3, <2>4, <2>5, <3>1
  <2>6. CASE ~(rows'[u] = VideoRow(u) /\ upc[u] = "create")
    <3>1. Exists(u)
      BY <2>1, <2>2, <2>6 DEF RowMove, Exists
    <3>2. rows'[u].key = rows[u].key
      BY <2>1, <2>2, <2>6 DEF RowMove
    <3>3. /\ rows[u].status # "ready" /\ rows[u].poster = None
          /\ wpc[u] \notin {"frame", "poster_row", "link"}
      BY <1>1, <3>1, <3>2 DEF RawRow
    <3>. QED
      BY <2>1, <2>2, <2>4, <2>6, <3>2, <3>3 DEF RowMove, FieldMove
  <2>. QED
    BY <2>5, <2>6
<1>. QED
  BY <1>1, <1>2, <1>3, UploadFrame

(* A PATCH keeps RawRow: a raw key comes from a copy of one.               *)
LEMMA RawRowVisStep ==
  ASSUME BaseInv, RawInv, [PatchedNext]_pvars, UNCHANGED videoVars, NEW u \in Uploads,
         NEW q \in Patchers, LoadForVisibility(q) \/ Patch(q)
  PROVE  RawRow(u)'
<1>1. RawRow(u) /\ RawRead(q) /\ VisFacts(q) /\ (Explained(u) => Explained(u)')
  BY ExplainedStays DEF RawInv, BaseInv
<1>2. VisRow(u, q) /\ rows'[u].status = rows[u].status /\ rows'[u].poster = rows[u].poster
  BY VisRows DEF Ids
<1>3. wpc' = wpc
  BY DEF videoVars
<1>4. CASE rows'[u].key = rows[u].key
  BY <1>1, <1>2, <1>3, <1>4 DEF RawRow, Exists
<1>5. CASE vid[q] = u /\ vcopy[q] # None /\ rows'[u].key = vcopy[q]
  BY <1>1, <1>2, <1>3, <1>5 DEF RawRow, RawRead, Exists
<1>. QED
  BY <1>2, <1>4, <1>5 DEF VisRow

(* Every step keeps what the PATCHes have read.                            *)
LEMMA RawReadStep ==
  ASSUME BaseInv, RawInv, [PatchedNext]_pvars, NEW p \in Patchers
  PROVE  RawRead(p)'
<1>. USE DEF RawRead
<1>1. RawRead(p) /\ VisFacts(p) /\ VisTypeOK /\ \A u \in Uploads : RawRow(u)
  BY DEF RawInv, BaseInv
<1>2. \A u \in Uploads : Explained(u) => Explained(u)'
  BY ExplainedStays
<1>3. CASE UNCHANGED visVars
  BY <1>1, <1>2, <1>3 DEF visVars
<1>4. ASSUME NEW q \in Patchers, LoadForVisibility(q) \/ Patch(q)
      PROVE  RawRead(p)'
  <2>1. VisKeeps(q) /\ (VisLoads(q) \/ VisCascades(q) \/ VisRuns(q))
    BY <1>4, VisEffect
  <2>2. CASE p # q
    BY <1>1, <1>2, <2>1, <2>2 DEF VisKeeps
  <2>3. CASE p = q /\ VisLoads(q)
    <3>1. PICK i \in Ids : Exists(i) /\ vid'[p] = i /\ vsnap'[p] = rows[i]
      BY <2>3 DEF VisLoads
    <3>2. vcopy'[p] = None
      BY <1>1, <2>3 DEF VisLoads
    <3>3. ASSUME i \in Uploads, rows[i].key.dir # "videos" PROVE Explained(i)'
      <4>1. CASE Explained(i)
        BY <1>2, <3>3, <4>1
      <4>2. CASE ~Explained(i)
        <5>1. rows[i].status # "ready" /\ rows[i].poster = None
          BY <1>1, <3>1, <3>3, <4>2 DEF RawRow
        <5>. QED
          BY <3>1, <5>1 DEF Explained
      <4>. QED
        BY <4>1, <4>2
    <3>4. vpc'[p] # "idle"
      BY <2>3 DEF VisLoads
    <3>. QED
      BY <3>1, <3>2, <3>3, <3>4
  <2>4. CASE p = q /\ VisCascades(q)
    <3>1. vid'[p] \in Jobs
      BY <1>1, <2>4 DEF VisCascades, VisFacts, VisTypeOK, Rows
    <3>2. vid'[p] \notin Uploads
      BY <3>1, StoreAssumption
    <3>. QED
      BY <2>4, <3>2 DEF VisCascades
  <2>5. CASE p = q /\ VisRuns(q)
    <3>1. vid' = vid /\ vsnap' = vsnap /\ vpc'[p] # "idle"
      BY <2>1, <2>5 DEF VisRuns, VisKeeps
    <3>2. vcopy'[p] = vcopy[p] \/ (vpc[p] = "copy" /\ vcopy'[p] = Rotated(p, vsnap[p].key))
      BY <2>5 DEF VisRuns, VisCopies, VisWrites, VisRemoves
    <3>3. vpc[p] = "copy" => Rotated(p, vsnap[p].key).dir = vsnap[p].key.dir
      BY <1>1, RotatedKey DEF VisFacts, PlainRow, VisTypeOK, Rows
    <3>. QED
      BY <1>1, <1>2, <3>1, <3>2, <3>3
  <2>. QED
    BY <2>1, <2>2, <2>3, <2>4, <2>5
<1>. QED
  BY <1>3, <1>4, PatchedSteps

(* Every step keeps RawInv, and it holds throughout.                       *)
LEMMA RawInvariant == PatchedSpec => [](BaseInv /\ RawInv)
<1>1. BaseInv /\ RawInv /\ [PatchedNext]_pvars => RawInv'
  BY RawRowOwnStep, RawRowVisStep, RawReadStep, PatchedSteps DEF RawInv
<1>2. PatchedInit => RawInv
  BY StoreAssumption
     DEF PatchedInit, Init, StoreInit, VisInit, RawInv, RawRow, RawRead, Exists, NoRow, Ids
<1>. QED
  BY <1>1, <1>2, BaseInvariant, BaseStep, PTL DEF PatchedSpec

(* Whatever fails, the row of a ready video names a compressed output      *)
(* (readme.md 721), unless a PATCH that read the video earlier has         *)
(* re-pointed it to its copy of the raw object (visibility.py 212-215).    *)
THEOREM ReadyNamesOutput == PatchedSpec => []RawReadyOnlyByPatch
<1>1. BaseInv /\ RawInv => RawReadyOnlyByPatch
  BY DEF BaseInv, RawInv, RawRow, Explained, RawReadyOnlyByPatch, PatchedBeforeReady, Exists
<1>. QED
  BY <1>1, RawInvariant, PTL

(***************************************************************************)
(* What exposes a private video.  Without crashes a job runs once.  Unless *)
(* a PATCH read the video before it was ready, none had worked on it       *)
(* before its job was past mark_ready, so that the output lies where the   *)
(* column said; from then on the row's key is that output's or the copy of *)
(* a PATCH, and every PATCH writes the visibility its own copy has.        *)
(***************************************************************************)
JobPast(u) ==
  \/ wpc[u] \notin {"idle", "load", "encode", "put", "publish", "crashed"}
  \/ wpc[u] = "idle" /\ job[u] = "acked"

(* A PATCH that worked on the video and made no copy of its object.        *)
Blind(p, u) == WorkedOn(p, u) /\ (vid[p] = u => vcopy[p] = None /\ vpc[p] # "copy")

JobPastFacts(u) ==
  /\ rows[u].status = "ready" => JobPast(u)
  /\ rows[u].poster # None => JobPast(u) /\ rows[u].poster \in {u} \X Runs
  /\ \A r \in Runs : Exists(<<u, r>>) => JobPast(u)
  /\ \A p \in Patchers : WorkedOn(p, u) => JobPast(u) \/ Explained(u)

(* The row holds the output, and says where it lies.                       *)
OutputRow(u) ==
  ~Explained(u) =>
    /\ Exists(u) /\ wpc[u] \in {"encode", "put", "publish"} => rows[u].vis = wvis[u]
    /\ Exists(u) /\ rows[u].key.dir = "videos" /\ rows[u].key.tag \notin Patchers =>
         /\ JobPast(u) /\ rows[u].key = OutputKey(u)
         /\ rows[u].vis = wvis[u] \/ rows[u].key \notin objects

(* The row holds the copy of a PATCH.                                      *)
CopyRow(u) ==
  \A q \in Patchers :
    Exists(u) /\ rows[u].key.tag = q =>
      /\ WorkedOn(q, u) /\ rows[u].key.vis = vwant[q]
      /\ \/ rows[u].vis = vwant[q]
         \/ \E p \in Patchers : Blind(p, u) /\ vwant[p] = rows[u].vis

(* What a PATCH of the video has read.                                     *)
OutputRead(p, u) ==
  vid[p] = u =>
    /\ vsnap[p].poster # None => vsnap[p].poster \in {u} \X Runs
    /\ ~Explained(u) /\ vsnap[p].key.tag \notin Patchers =>
         /\ JobPast(u) /\ vsnap[p].key = OutputKey(u)
         /\ vsnap[p].vis = wvis[u] \/ vsnap[p].key \notin objects
         /\ vpc[p] = "update" /\ vcopy[p] = None =>
              vwant[p] = vsnap[p].vis \/ vsnap[p].key \notin objects
    /\ ~Explained(u) /\ vsnap[p].key.tag \in Patchers /\ Exists(u) => rows[u].key.tag \in Patchers

OwnCopy(p) == vcopy[p] # None => vcopy[p].tag = p /\ vcopy[p].vis = vwant[p]

ExposeInv ==
  /\ BaseInv /\ RawInv /\ OutcomeInv
  /\ \A u \in Uploads : JobPastFacts(u) /\ OutputRow(u) /\ CopyRow(u)
  /\ \A p \in Patchers, u \in Uploads : OutputRead(p, u)
  /\ \A p \in Patchers : OwnCopy(p)

(* A job that is past mark_ready stays so, and leaves the row's key and    *)
(* visibility alone.                                                       *)
LEMMA JobPastStays ==
  ASSUME TypeInv, RecordInv, "crash" \notin Faults, [Next]_vars, NEW u \in Uploads, JobPast(u)
  PROVE  /\ JobPast(u)' /\ wvis'[u] = wvis[u] /\ run'[u] = run[u]
         /\ \/ rows'[u] = NoRow
            \/ rows'[u].key = rows[u].key /\ rows'[u].vis = rows[u].vis /\ Exists(u)' = Exists(u)
<1>. USE DEF JobPast
<1>1. UploadRecord(u)
  BY DEF RecordInv
<1>2. CASE SameUpload(u) /\ (rows'[u] = rows[u] \/ \E d \in Deleters : DeletedBy(u, d))
  BY <1>2 DEF SameUpload, DeletedBy, Exists
<1>3. CASE VideoStep(u)
  <2>1. /\ JobPast(u)' /\ wvis'[u] = wvis[u] /\ run'[u] = run[u]
        /\ upc[u] # "create" /\ wpc[u] # "publish"
    <3>. USE DEF TypeInv, TypeOK, VideoTypeOK
    <3>1. CASE LookupHit(u) \/ LookupMiss(u) \/ Upload(u) \/ Trim(u)
      BY <1>1, <3>1
         DEF LookupHit, LookupMiss, Upload, Stage, CreateRecord, Enqueue, Rollback, Unstage,
             LinkTask, Trim, UploadStep, workerVars, UploadRecord, Early
    <3>2. CASE Worker(u) \/ Crash(u)
      BY <1>1, <3>2
         DEF Worker, Crash, Acknowledge, Deliver, Compress, LoadRecord, Encode, PutOutput, Publish,
             Retract, Discard, StorePoster, ExtractFrame, CreatePoster, LinkPoster, ReadLinked,
             DropPosterObject, DropPosterRow, Fail, Notify, NotifyEvent, Cleanup, WorkerStep,
             UploadRecord, Early
    <3>. QED
      BY <1>3, <3>1, <3>2 DEF VideoStep
  <2>2. RowMove(u) /\ FieldMove(u)
    BY <1>3, RowMoves, FieldMoves
  <2>3. NoRow.status = "none"
    BY DEF NoRow
  <2>. QED
    BY <2>1, <2>2, <2>3 DEF RowMove, FieldMove, Exists
<1>. QED
  BY <1>2, <1>3, UploadFrame

(* Its output is not stored again.                                         *)
LEMMA OutputNotRestored ==
  ASSUME BaseInv, [PatchedNext]_pvars, NEW u \in Uploads, JobPast(u),
         OutputKey(u).tag \notin Patchers, OutputKey(u) \notin objects
  PROVE  OutputKey(u) \notin objects'
<1>1. CASE [Next]_vars
  <2>. SUFFICES ASSUME OutputKey(u) \in objects' PROVE FALSE
    OBVIOUS
  <2>1. PICK v \in Uploads : Storable(v, OutputKey(u))
    BY <1>1, Additions DEF BaseInv
  <2>2. wpc[v] = "put" /\ OutputKey(u) = OutputKey(v)
    BY <2>1 DEF Storable, RawKey, OutputKey, PosterKey, Key
  <2>3. u = v
    BY <2>2 DEF OutputKey, Key, Delivery
  <2>. QED
    BY <2>2, <2>3 DEF JobPast
<1>2. ASSUME NEW q \in Patchers, LoadForVisibility(q) \/ Patch(q)
      PROVE  OutputKey(u) \notin objects'
  <2>1. VisLoads(q) \/ VisCascades(q) \/ VisRuns(q)
    BY <1>2, VisEffect
  <2>2. VisFacts(q) /\ VisTypeOK
    BY DEF BaseInv
  <2>3. vpc[q] = "copy" => Rotated(q, vsnap[q].key).tag = q
    BY <2>2, RotatedKey DEF VisFacts, PlainRow, VisTypeOK, Rows
  <2>. QED
    BY <2>1, <2>3 DEF VisLoads, VisCascades, VisRuns, VisCopies, VisWrites, VisRemoves
<1>. QED
  BY <1>1, <1>2, PatchedSteps

(* A step of VideoSystem keeps what a row says of its job.                 *)
LEMMA JobPastFactsOwnStep ==
  ASSUME ExposeInv, [PatchedNext]_pvars, [Next]_vars, UNCHANGED visVars, "crash" \notin Faults,
         NEW u \in Uploads
  PROVE  JobPastFacts(u)'
<1>. USE DEF JobPastFacts
<1>1. TypeInv /\ RecordInv /\ BaseInv /\ JobPastFacts(u)
  BY DEF ExposeInv, BaseInv
<1>2. JobPast(u) => JobPast(u)'
  BY <1>1, JobPastStays
<1>3. \A p \in Patchers : WorkedOn(p, u)' => JobPast(u)' \/ Explained(u)'
  BY <1>1, <1>2, ExplainedStays DEF WorkedOn, visVars
<1>4. \A r \in Runs : Exists(<<u, r>>)' => JobPast(u)'
  <2>. SUFFICES ASSUME NEW r \in Runs, Exists(<<u, r>>)', ~Exists(<<u, r>>) PROVE JobPast(u)'
    BY <1>1, <1>2
  <2>1. <<u, r>> \in Jobs
    BY DEF Jobs
  <2>2. PICK v \in Uploads : PosterInserted(v, <<u, r>>)
    BY <1>1, <2>1, PosterFrame DEF Exists, NoRow
  <2>. QED
    BY <2>2 DEF PosterInserted, Delivery, JobPast
<1>5. /\ rows'[u].status = "ready" => JobPast(u)'
      /\ rows'[u].poster # None => JobPast(u)' /\ rows'[u].poster \in {u} \X Runs
  <2>1. CASE SameUpload(u) /\ (rows'[u] = rows[u] \/ \E d \in Deleters : DeletedBy(u, d))
    BY <1>1, <1>2, <2>1 DEF DeletedBy, NoRow
  <2>2. CASE VideoStep(u)
    <3>1. RowMove(u) /\ FieldMove(u)
      BY <1>1, <2>2, RowMoves, FieldMoves
    <3>2. VideoRow(u).status = "processing" /\ VideoRow(u).poster = None
      BY DEF VideoRow, NoRow
    <3>3. NoRow.status = "none" /\ NoRow.poster = None
      BY DEF NoRow
    <3>4. rows'[u].status = "ready" => JobPast(u)'
      BY <1>1, <1>2, <3>1, <3>2, <3>3 DEF RowMove, JobPast
    <3>5. wpc[u] = "link" => Delivery(u) \in {u} \X Runs
      BY <1>1 DEF Delivery, TypeInv
    <3>6. rows'[u].poster # None => JobPast(u)' /\ rows'[u].poster \in {u} \X Runs
      BY <1>1, <1>2, <3>1, <3>2, <3>3, <3>5 DEF FieldMove, JobPast
    <3>. QED
      BY <3>4, <3>6
  <2>. QED
    BY <1>1, <2>1, <2>2, UploadFrame
<1>. QED
  BY <1>3, <1>4, <1>5

(* It keeps what the row says of the output.                               *)
LEMMA OutputRowOwnStep ==
  ASSUME ExposeInv, [PatchedNext]_pvars, [Next]_vars, UNCHANGED visVars, "crash" \notin Faults,
         NEW u \in Uploads
  PROVE  OutputRow(u)'
<1>1. /\ TypeInv /\ RecordInv /\ BaseInv /\ OutputRow(u) /\ UploadRecord(u)
  BY DEF ExposeInv, BaseInv, RecordInv
<1>2. SUFFICES ASSUME ~Explained(u)', Exists(u)'
      PROVE  /\ wpc'[u] \in {"encode", "put", "publish"} => rows'[u].vis = wvis'[u]
             /\ rows'[u].key.dir = "videos" /\ rows'[u].key.tag \notin Patchers =>
                  /\ JobPast(u)' /\ rows'[u].key = OutputKey(u)'
                  /\ rows'[u].vis = wvis'[u] \/ rows'[u].key \notin objects'
  BY DEF OutputRow
<1>3. ~Explained(u)
  BY <1>2, ExplainedStays, <1>1
<1>4. CASE JobPast(u)
  <2>1. /\ JobPast(u)' /\ wvis'[u] = wvis[u] /\ run'[u] = run[u]
        /\ \/ rows'[u] = NoRow
           \/ rows'[u].key = rows[u].key /\ rows'[u].vis = rows[u].vis /\ Exists(u)' = Exists(u)
    BY <1>1, <1>4, JobPastStays
  <2>2. rows'[u] # NoRow
    BY <1>2 DEF NoRow, Exists
  <2>3. OutputKey(u)' = OutputKey(u)
    BY <2>1 DEF OutputKey, Delivery
  <2>4. wpc'[u] \notin {"encode", "put", "publish"}
    BY <2>1 DEF JobPast
  <2>. QED
    BY <1>1, <1>2, <1>3, <1>4, <2>1, <2>2, <2>3, <2>4, OutputNotRestored DEF OutputRow
<1>5. CASE ~JobPast(u) /\ SameUpload(u) /\ (rows'[u] = rows[u] \/ \E d \in Deleters : DeletedBy(u, d))
  BY <1>1, <1>2, <1>3, <1>5 DEF SameUpload, DeletedBy, NoRow, OutputRow, Exists
<1>6. CASE ~JobPast(u) /\ VideoStep(u)
  <2>1. RowMove(u) /\ FieldMove(u) /\ rows'[u] # NoRow
    BY <1>1, <1>2, <1>6, RowMoves, FieldMoves DEF NoRow, Exists
  <2>2. VideoRow(u).key.dir = "raw/videos"
    BY DEF VideoRow, NoRow, RawKey, Key
  <2>3. CASE rows'[u] = VideoRow(u) /\ upc[u] = "create"
    <3>1. wpc[u] = "idle" /\ job[u] = "none"
      BY <1>1, <2>3 DEF UploadRecord, Early
    <3>2. wpc'[u] \notin {"encode", "put", "publish"}
      BY <1>1, <1>6, <3>1
         DEF VideoStep, LookupHit, LookupMiss, Upload, Stage, CreateRecord, Enqueue, Rollback,
             Unstage, LinkTask, Trim, Worker, Crash, Acknowledge, Deliver, Compress, LoadRecord,
             Encode, PutOutput, Publish, Retract, Discard, StorePoster, ExtractFrame, CreatePoster,
             LinkPoster, ReadLinked, DropPosterObject, DropPosterRow, Fail, Notify, NotifyEvent,
             Cleanup, WorkerStep, workerVars, TypeInv, TypeOK, VideoTypeOK
    <3>. QED
      BY <2>2, <2>3, <3>2
  <2>4. CASE ~(rows'[u] = VideoRow(u) /\ upc[u] = "create")
    <3>1. Exists(u) /\ rows'[u].vis = rows[u].vis
      BY <1>2, <2>1, <2>4 DEF RowMove, FieldMove, Exists
    <3>2. /\ wpc'[u] \in {"encode", "put", "publish"} => rows'[u].vis = wvis'[u]
          /\ wpc[u] = "publish" /\ wpc'[u] # "publish" =>
               run'[u] = run[u] /\ wvis'[u] \in {wvis[u], rows[u].vis}
      <4>. USE DEF TypeInv, TypeOK, VideoTypeOK
      <4>1. rows[u].vis = wvis[u] \/ wpc[u] \notin {"encode", "put", "publish"}
        BY <1>1, <1>3, <3>1 DEF OutputRow
      <4>2. CASE LookupHit(u) \/ LookupMiss(u) \/ Upload(u) \/ Trim(u) \/ Crash(u) \/ Acknowledge(u)
        BY <1>1, <3>1, <4>1, <4>2
           DEF LookupHit, LookupMiss, Upload, Stage, CreateRecord, Enqueue, Rollback, Unstage,
               LinkTask, Trim, Crash, Acknowledge, WorkerStep, workerVars
      <4>3. CASE LoadRecord(u)
        BY <1>1, <3>1, <4>3 DEF LoadRecord, WorkerStep, storeVars
      <4>4. CASE Publish(u) \/ Encode(u) \/ PutOutput(u)
        BY <1>1, <3>1, <4>1, <4>4 DEF Publish, Encode, PutOutput, WorkerStep
      <4>5. CASE \/ Deliver(u)
                 \/ Compress(u) /\ ~(LoadRecord(u) \/ Publish(u) \/ Encode(u) \/ PutOutput(u))
        BY <1>1, <3>1, <4>5
           DEF Deliver, Compress, Retract, Discard, StorePoster, ExtractFrame, CreatePoster,
               LinkPoster, ReadLinked, DropPosterObject, DropPosterRow, Fail, Notify, NotifyEvent,
               Cleanup, WorkerStep
      <4>. QED
        BY <1>6, <4>2, <4>3, <4>4, <4>5 DEF VideoStep, Worker
    <3>3. CASE rows'[u].key = rows[u].key
      BY <1>1, <1>2, <1>3, <1>6, <3>1, <3>2, <3>3 DEF OutputRow
    <3>4. CASE /\ wpc[u] = "publish" /\ wpc'[u] \in {"frame", "notify_completed", "retract"}
               /\ run' = run /\ rows'[u].key = OutputKey(u)
      <4>1. rows[u].vis = wvis[u] /\ wvis'[u] = wvis[u]
        BY <1>1, <1>3, <3>1, <3>2, <3>4 DEF OutputRow
      <4>2. OutputKey(u)' = OutputKey(u)
        BY <3>4, <4>1 DEF OutputKey, Delivery
      <4>. QED
        BY <3>1, <3>2, <3>4, <4>1, <4>2 DEF JobPast
    <3>. QED
      BY <2>1, <2>4, <3>3, <3>4 DEF RowMove
  <2>. QED
    BY <2>3, <2>4
<1>. QED
  BY <1>1, <1>4, <1>5, <1>6, UploadFrame

(* It writes no copy of a PATCH, nor anything over one.                    *)
LEMMA CopyRowOwnStep ==
  ASSUME ExposeInv, [Next]_vars, UNCHANGED visVars, NEW u \in Uploads
  PROVE  CopyRow(u)'
<1>1. TypeInv /\ CopyRow(u) /\ u \notin Patchers
  BY StoreAssumption DEF ExposeInv, BaseInv, Ids
<1>. SUFFICES ASSUME NEW q \in Patchers, Exists(u)', rows'[u].key.tag = q
              PROVE  Exists(u) /\ rows'[u].key = rows[u].key /\ rows'[u].vis = rows[u].vis
  BY <1>1 DEF CopyRow, WorkedOn, Blind, visVars
<1>2. CASE rows'[u] = rows[u] \/ \E d \in Deleters : DeletedBy(u, d)
  BY <1>2 DEF DeletedBy, Exists, NoRow
<1>3. CASE VideoStep(u)
  <2>1. RowMove(u) /\ FieldMove(u) /\ rows'[u] # NoRow
    BY <1>1, <1>3, RowMoves, FieldMoves DEF NoRow, Exists
  <2>2. VideoRow(u).key.tag = u
    BY DEF VideoRow, NoRow, RawKey, Key
  <2>3. wpc[u] = "publish" => OutputKey(u).tag \notin Patchers
    <3>1. wpc[u] = "publish" => Delivery(u) \in Ids
      BY <1>1, NamesType DEF Ids
    <3>. QED
      BY <3>1, StoreAssumption DEF OutputKey, Key
  <2>. QED
    BY <1>1, <2>1, <2>2, <2>3 DEF RowMove, FieldMove, Exists
<1>. QED
  BY <1>1, <1>2, <1>3, UploadFrame

(* It keeps what a PATCH has read.                                         *)
LEMMA OutputReadOwnStep ==
  ASSUME ExposeInv, [PatchedNext]_pvars, [Next]_vars, UNCHANGED visVars, "crash" \notin Faults,
         NEW p \in Patchers, NEW u \in Uploads
  PROVE  OutputRead(p, u)'
<1>1. /\ TypeInv /\ RecordInv /\ BaseInv /\ OutputRead(p, u) /\ JobPastFacts(u)
  BY DEF ExposeInv, BaseInv
<1>. SUFFICES ASSUME vid[p] = u, ~Explained(u) PROVE OutputRead(p, u)'
  BY <1>1, ExplainedStays DEF OutputRead, visVars
<1>2. JobPast(u)
  BY <1>1 DEF JobPastFacts, WorkedOn
<1>3. /\ JobPast(u)' /\ wvis'[u] = wvis[u] /\ run'[u] = run[u]
      /\ \/ rows'[u] = NoRow
         \/ rows'[u].key = rows[u].key /\ rows'[u].vis = rows[u].vis /\ Exists(u)' = Exists(u)
  BY <1>1, <1>2, JobPastStays
<1>4. OutputKey(u)' = OutputKey(u)
  BY <1>3 DEF OutputKey, Delivery
<1>5. rows'[u] = NoRow => ~Exists(u)'
  BY DEF NoRow, Exists
<1>6. /\ vid'[p] = u /\ vsnap'[p] = vsnap[p] /\ vpc'[p] = vpc[p] /\ vcopy'[p] = vcopy[p]
      /\ vwant'[p] = vwant[p]
  BY DEF visVars
<1>7. OutputKey(u).tag \notin Patchers /\ OutputKey(u) \notin objects => OutputKey(u) \notin objects'
  BY <1>1, <1>2, OutputNotRestored
<1>. QED
  BY <1>1, <1>3, <1>4, <1>5, <1>6, <1>7 DEF OutputRead

(* A PATCH goes on from a video only to the poster of its job, and keeps   *)
(* the visibility it wants.                                                *)
LEMMA WorkedOnStays ==
  ASSUME ExposeInv, NEW q \in Patchers, LoadForVisibility(q) \/ Patch(q),
         NEW p \in Patchers, NEW u \in Uploads, WorkedOn(p, u)
  PROVE  WorkedOn(p, u)' /\ vwant'[p] = vwant[p]
<1>1. VisFacts(p) /\ VisTypeOK /\ {u} \X Runs \subseteq Jobs /\ u \notin Jobs /\ u \in Ids
  BY StoreAssumption DEF ExposeInv, BaseInv, Jobs, Ids
<1>2. VisKeeps(q) /\ (VisLoads(q) \/ VisCascades(q) \/ VisRuns(q))
  BY VisEffect DEF ExposeInv
<1>3. vid[p] # None
  BY <1>1, StoreAssumption DEF WorkedOn, Ids
<1>4. CASE p # q \/ VisRuns(q)
  BY <1>2, <1>4 DEF VisKeeps, VisRuns, WorkedOn
<1>5. CASE p = q /\ VisLoads(q)
  BY <1>1, <1>3, <1>5 DEF VisLoads, VisFacts
<1>6. CASE p = q /\ VisCascades(q)
  <2>1. vsnap[p].poster # None /\ vid'[p] = vsnap[p].poster /\ vwant' = vwant
    BY <1>1, <1>6 DEF VisCascades, VisFacts
  <2>2. vid[p] \notin Jobs
    BY <1>1, <1>6, <2>1 DEF VisFacts, PlainRow, VisCascades
  <2>3. vid[p] = u
    BY <1>1, <2>2 DEF WorkedOn
  <2>4. vsnap[p].poster \in {u} \X Runs
    BY <2>1, <2>3 DEF ExposeInv, OutputRead
  <2>. QED
    BY <2>1, <2>4 DEF WorkedOn
<1>. QED
  BY <1>2, <1>4, <1>5, <1>6

(* What a PATCH comes to work on, and from where.                          *)
LEMMA WorkedOnStarts ==
  ASSUME ExposeInv, NEW q \in Patchers, LoadForVisibility(q) \/ Patch(q),
         NEW p \in Patchers, NEW u \in Uploads, WorkedOn(p, u)', ~WorkedOn(p, u)
  PROVE  /\ p = q /\ VisLoads(q)
         /\ \/ vid'[p] = u
            \/ \E r \in Runs : vid'[p] = <<u, r>> /\ Exists(<<u, r>>)
<1>1. VisFacts(q) /\ VisTypeOK /\ {u} \X Runs \subseteq Jobs /\ u \notin Jobs /\ u \in Ids
  BY StoreAssumption DEF ExposeInv, BaseInv, Jobs, Ids
<1>2. VisKeeps(q) /\ (VisLoads(q) \/ VisCascades(q) \/ VisRuns(q))
  BY VisEffect DEF ExposeInv
<1>3. CASE p # q \/ VisRuns(q)
  BY <1>2, <1>3 DEF VisKeeps, VisRuns, WorkedOn
<1>4. CASE p = q /\ VisLoads(q)
  BY <1>4 DEF VisLoads, WorkedOn
<1>5. CASE p = q /\ VisCascades(q)
  <2>1. vid[q] \in Ids /\ vsnap[q].poster # None /\ vid'[q] = vsnap[q].poster
    BY <1>1, <1>5 DEF VisCascades, VisFacts
  <2>2. vid[q] \notin Jobs
    BY <1>1, <1>5, <2>1 DEF VisFacts, PlainRow, VisCascades
  <2>3. PICK v \in Uploads : vid[q] = v
    BY <2>1, <2>2 DEF Ids
  <2>4. vid'[q] \in {v} \X Runs
    BY <2>1, <2>3 DEF ExposeInv, OutputRead
  <2>5. v = u
    BY <1>1, <1>5, <2>4 DEF WorkedOn, Jobs
  <2>. QED
    BY <1>5, <2>3, <2>5 DEF WorkedOn
<1>. QED
  BY <1>2, <1>3, <1>4, <1>5

(* A PATCH that worked without a copy makes none any more.                 *)
LEMMA BlindStays ==
  ASSUME ExposeInv, NEW q \in Patchers, LoadForVisibility(q) \/ Patch(q),
         NEW p \in Patchers, NEW u \in Uploads, Blind(p, u)
  PROVE  Blind(p, u)' /\ vwant'[p] = vwant[p]
<1>1. WorkedOn(p, u)' /\ vwant'[p] = vwant[p] /\ VisFacts(p)
  BY WorkedOnStays DEF Blind, ExposeInv, BaseInv
<1>2. VisKeeps(q) /\ (VisLoads(q) \/ VisCascades(q) \/ VisRuns(q))
  BY VisEffect DEF ExposeInv
<1>3. CASE p # q
  BY <1>1, <1>2, <1>3 DEF VisKeeps, Blind
<1>4. CASE p = q /\ VisLoads(q)
  BY <1>1, <1>4, StoreAssumption DEF VisLoads, VisFacts, Blind, WorkedOn, Ids, Jobs
<1>5. CASE p = q /\ VisCascades(q)
  <2>1. vid'[p] \in Jobs /\ u \notin Jobs
    BY <1>1, <1>5, StoreAssumption DEF VisCascades, VisFacts, ExposeInv, BaseInv, VisTypeOK, Rows
  <2>. QED
    BY <1>1, <2>1 DEF Blind
<1>6. CASE p = q /\ VisRuns(q)
  <2>1. vid' = vid /\ (vid[p] = u => vcopy'[p] = vcopy[p] /\ vpc'[p] # "copy")
    BY <1>2, <1>6 DEF VisRuns, VisCopies, VisWrites, VisRemoves, Blind, NextRow
  <2>. QED
    BY <1>1, <2>1 DEF Blind
<1>. QED
  BY <1>2, <1>3, <1>4, <1>5, <1>6

(* A PATCH keeps what a row says of its job.                               *)
LEMMA JobPastFactsVisStep ==
  ASSUME ExposeInv, [PatchedNext]_pvars, UNCHANGED videoVars, NEW u \in Uploads,
         NEW q \in Patchers, LoadForVisibility(q) \/ Patch(q)
  PROVE  JobPastFacts(u)'
<1>. USE DEF JobPastFacts
<1>1. BaseInv /\ JobPastFacts(u) /\ u \in Ids /\ \A r \in Runs : <<u, r>> \in Ids
  BY DEF ExposeInv, Ids, Jobs
<1>2. \A i \in Ids : rows'[i].status = rows[i].status /\ rows'[i].poster = rows[i].poster
  BY <1>1, VisRows
<1>3. JobPast(u)' = JobPast(u)
  BY DEF JobPast, videoVars
<1>4. ASSUME NEW p \in Patchers, WorkedOn(p, u)' PROVE JobPast(u)' \/ Explained(u)'
  <2>1. CASE WorkedOn(p, u)
    BY <1>1, <1>3, <2>1, ExplainedStays
  <2>2. CASE ~WorkedOn(p, u) /\ vid'[p] = u
    <3>1. VisLoads(p)
      BY <1>4, <2>2, WorkedOnStarts
    <3>2. vsnap'[p] = rows[u]
      BY <2>2, <3>1 DEF VisLoads
    <3>. QED
      BY <1>1, <1>3, <2>2, <3>2 DEF Explained
  <2>3. CASE ~WorkedOn(p, u) /\ \E r \in Runs : Exists(<<u, r>>)
    BY <1>1, <1>3, <2>3
  <2>. QED
    BY <1>4, <2>1, <2>2, <2>3, WorkedOnStarts
<1>. QED
  BY <1>1, <1>2, <1>3, <1>4 DEF Exists

(* A PATCH that read the video when it was ready writes the visibility of  *)
(* the output it saw, or finds it gone.                                    *)
LEMMA OutputRowVisStep ==
  ASSUME ExposeInv, [PatchedNext]_pvars, UNCHANGED videoVars, NEW u \in Uploads,
         NEW q \in Patchers, LoadForVisibility(q) \/ Patch(q)
  PROVE  OutputRow(u)'
<1>1. /\ BaseInv /\ OutputRow(u) /\ u \in Ids /\ JobPastFacts(u) /\ OutputRead(q, u) /\ OwnCopy(q)
  BY DEF ExposeInv, Ids
<1>2. (Explained(u) => Explained(u)') /\ JobPast(u)' = JobPast(u) /\ OutputKey(u)' = OutputKey(u)
  BY <1>1, ExplainedStays DEF JobPast, OutputKey, Delivery, videoVars
<1>3. VisRow(u, q) /\ Exists(u)' = Exists(u) /\ wpc' = wpc /\ wvis' = wvis
  BY <1>1, VisRows DEF Exists, videoVars
<1>4. JobPast(u) /\ OutputKey(u).tag \notin Patchers /\ OutputKey(u) \notin objects =>
        OutputKey(u) \notin objects'
  BY <1>1, OutputNotRestored
<1>5. CASE rows'[u] = rows[u]
  BY <1>1, <1>2, <1>3, <1>4, <1>5 DEF OutputRow
<1>6. CASE /\ vpc[q] = "update" /\ vid[q] = u /\ objects' = objects /\ rows'[u].vis = vwant[q]
           /\ rows'[u].key = IF vcopy[q] = None THEN rows[u].key ELSE vcopy[q]
  <2>. SUFFICES ASSUME ~Explained(u), Exists(u)
       PROVE  /\ wpc[u] \notin {"encode", "put", "publish"}
              /\ rows'[u].key.dir = "videos" /\ rows'[u].key.tag \notin Patchers =>
                   /\ JobPast(u) /\ rows'[u].key = OutputKey(u)
                   /\ rows'[u].vis = wvis[u] \/ rows'[u].key \notin objects'
    BY <1>2, <1>3 DEF OutputRow
  <2>1. JobPast(u)
    BY <1>1, <1>6 DEF JobPastFacts, WorkedOn
  <2>2. ASSUME rows'[u].key.dir = "videos", rows'[u].key.tag \notin Patchers
        PROVE  /\ rows'[u].key = OutputKey(u)
               /\ rows'[u].vis = wvis[u] \/ rows'[u].key \notin objects'
    <3>1. vcopy[q] = None /\ rows'[u].key = rows[u].key
      BY <1>1, <1>6, <2>2 DEF OwnCopy
    <3>2. vsnap[q].key.tag \notin Patchers
      BY <1>1, <1>6, <2>2, <3>1 DEF OutputRead
    <3>3. rows[u].key = OutputKey(u)
      BY <1>1, <2>2, <3>1 DEF OutputRow
    <3>. QED
      BY <1>1, <1>6, <3>1, <3>2, <3>3 DEF OutputRead
  <2>. QED
    BY <2>1, <2>2 DEF JobPast
<1>. QED
  BY <1>3, <1>5, <1>6 DEF VisRow

(* A PATCH puts its own copy in the row, or is blind to it.                *)
LEMMA CopyRowVisStep ==
  ASSUME ExposeInv, UNCHANGED videoVars, NEW u \in Uploads,
         NEW q \in Patchers, LoadForVisibility(q) \/ Patch(q)
  PROVE  CopyRow(u)'
<1>1. BaseInv /\ CopyRow(u) /\ u \in Ids /\ OwnCopy(q)
  BY DEF ExposeInv, Ids
<1>2. VisRow(u, q) /\ Exists(u)' = Exists(u)
  BY <1>1, VisRows DEF Exists
<1>. SUFFICES ASSUME NEW s \in Patchers, Exists(u), rows'[u].key.tag = s
              PROVE  /\ WorkedOn(s, u)' /\ rows'[u].key.vis = vwant'[s]
                     /\ \/ rows'[u].vis = vwant'[s]
                        \/ \E p \in Patchers : Blind(p, u)' /\ vwant'[p] = rows'[u].vis
  BY <1>2 DEF CopyRow
<1>3. CASE rows'[u] = rows[u]
  <2>1. /\ WorkedOn(s, u) /\ rows[u].key.vis = vwant[s]
        /\ rows[u].vis = vwant[s] \/ \E p \in Patchers : Blind(p, u) /\ vwant[p] = rows[u].vis
    BY <1>1, <1>3 DEF CopyRow
  <2>2. WorkedOn(s, u)' /\ vwant'[s] = vwant[s]
    BY <2>1, WorkedOnStays
  <2>3. \A p \in Patchers : Blind(p, u) => Blind(p, u)' /\ vwant'[p] = vwant[p]
    BY BlindStays
  <2>. QED
    BY <1>3, <2>1, <2>2, <2>3
<1>4. CASE /\ vpc[q] = "update" /\ vid[q] = u /\ vid' = vid /\ vwant' = vwant /\ vcopy' = vcopy
           /\ vpc'[q] # "copy" /\ rows'[u].vis = vwant[q] /\ vcopy[q] # None
           /\ rows'[u].key = vcopy[q]
  BY <1>1, <1>4 DEF OwnCopy, WorkedOn
<1>5. CASE /\ vpc[q] = "update" /\ vid[q] = u /\ vid' = vid /\ vwant' = vwant /\ vcopy' = vcopy
           /\ vpc'[q] # "copy" /\ rows'[u].vis = vwant[q] /\ vcopy[q] = None
           /\ rows'[u].key = rows[u].key
  <2>1. WorkedOn(s, u) /\ rows[u].key.vis = vwant[s]
    BY <1>1, <1>5 DEF CopyRow
  <2>2. WorkedOn(s, u)' /\ Blind(q, u)'
    BY <1>5, <2>1 DEF WorkedOn, Blind
  <2>. QED
    BY <1>5, <2>1, <2>2
<1>. QED
  BY <1>2, <1>3, <1>4, <1>5 DEF VisRow

(* A PATCH keeps what it or another has read.                              *)
LEMMA OutputReadVisStep ==
  ASSUME ExposeInv, [PatchedNext]_pvars, UNCHANGED videoVars, NEW u \in Uploads,
         NEW q \in Patchers, LoadForVisibility(q) \/ Patch(q), NEW p \in Patchers
  PROVE  OutputRead(p, u)' /\ OwnCopy(p)'
<1>1. /\ BaseInv /\ OutputRow(u) /\ u \in Ids /\ JobPastFacts(u) /\ OutputRead(p, u)
      /\ OwnCopy(p) /\ OwnCopy(q) /\ VisFacts(p) /\ RawRead(p) /\ VisTypeOK /\ u \notin Jobs
  BY StoreAssumption DEF ExposeInv, Ids, BaseInv, RawInv
<1>2. (Explained(u) => Explained(u)') /\ JobPast(u)' = JobPast(u) /\ OutputKey(u)' = OutputKey(u)
  BY <1>1, ExplainedStays DEF JobPast, OutputKey, Delivery, videoVars
<1>3. VisRow(u, q) /\ Exists(u)' = Exists(u) /\ wvis' = wvis
  BY <1>1, VisRows DEF Exists, videoVars
<1>4. JobPast(u) /\ OutputKey(u).tag \notin Patchers /\ OutputKey(u) \notin objects =>
        OutputKey(u) \notin objects'
  BY <1>1, OutputNotRestored
<1>5. VisKeeps(q) /\ (VisLoads(q) \/ VisCascades(q) \/ VisRuns(q))
  BY <1>1, VisEffect
<1>6. rows[u].key.tag \in Patchers => rows'[u].key.tag \in Patchers
  BY <1>1, <1>3 DEF VisRow, OwnCopy
<1>7. CASE p # q
  BY <1>1, <1>2, <1>3, <1>4, <1>5, <1>6, <1>7 DEF VisKeeps, OutputRead, OwnCopy
<1>8. CASE p = q /\ VisLoads(q)
  <2>1. vcopy'[p] = None
    BY <1>1, <1>8 DEF VisLoads, RawRead
  <2>2. ASSUME vid'[p] = u PROVE OutputRead(p, u)'
    <3>1. /\ Exists(u) /\ vsnap'[p] = rows[u] /\ rows' = rows /\ objects' = objects
          /\ vpc'[p] = "update" => vwant'[p] = rows[u].vis
      BY <1>8, <2>2 DEF VisLoads
    <3>2. RawRead(p)'
      BY RawReadStep DEF ExposeInv
    <3>3. ~Explained(u)' => rows[u].key.dir = "videos"
      BY <2>2, <3>1, <3>2 DEF RawRead
    <3>. QED
      BY <1>1, <1>2, <1>3, <2>1, <3>1, <3>3 DEF OutputRead, OutputRow, JobPastFacts
  <2>. QED
    BY <2>1, <2>2 DEF OutputRead, OwnCopy
<1>9. CASE p = q /\ VisCascades(q)
  <2>1. vid'[p] \in Jobs /\ vcopy'[p] = None
    BY <1>1, <1>9 DEF VisCascades, VisFacts, VisTypeOK, Rows
  <2>. QED
    BY <1>1, <2>1 DEF OutputRead, OwnCopy
<1>10. CASE p = q /\ VisRuns(q)
  <2>1. vid' = vid /\ vwant' = vwant /\ vsnap' = vsnap
    BY <1>10 DEF VisRuns
  <2>2. vpc[p] = "copy" => /\ Rotated(p, vsnap[p].key).tag = p
                           /\ Rotated(p, vsnap[p].key).vis = vwant[p]
                           /\ Rotated(p, vsnap[p].key) # None
    BY <1>1, RotatedKey, StoreAssumption DEF VisFacts, PlainRow, VisTypeOK, Rows
  <2>3. vcopy'[p] = vcopy[p] \/ (vpc[p] = "copy" /\ vcopy'[p] = Rotated(p, vsnap[p].key))
    BY <1>10 DEF VisRuns, VisCopies, VisWrites, VisRemoves
  <2>4. vpc'[p] = "update" /\ vcopy'[p] = None =>
          vsnap[p].key \notin objects /\ objects' = objects
    BY <1>10, <2>2 DEF VisRuns, VisCopies, VisWrites, VisRemoves, NextRow
  <2>5. OwnCopy(p)'
    BY <1>1, <2>1, <2>2, <2>3 DEF OwnCopy
  <2>6. OutputRead(p, u)'
    BY <1>1, <1>2, <1>3, <1>4, <1>6, <2>1, <2>4 DEF OutputRead
  <2>. QED
    BY <2>5, <2>6
<1>. QED
  BY <1>5, <1>7, <1>8, <1>9, <1>10

(* Every step keeps all this.                                              *)
LEMMA ExposeStep ==
  ASSUME ExposeInv, [PatchedNext]_pvars, "crash" \notin Faults
  PROVE  ExposeInv'
<1>1. BaseInv' /\ RawInv'
  BY BaseStep, RawRowOwnStep, RawRowVisStep, RawReadStep, PatchedSteps DEF ExposeInv, RawInv
<1>2. CASE [Next]_vars /\ UNCHANGED visVars
  <2>1. OutcomeInv'
    BY <1>2, OutcomeStep DEF ExposeInv, BaseInv
  <2>2. \A p \in Patchers : OwnCopy(p)'
    BY <1>2 DEF ExposeInv, OwnCopy, visVars
  <2>. QED
    BY <1>1, <1>2, <2>1, <2>2, JobPastFactsOwnStep, OutputRowOwnStep, CopyRowOwnStep,
       OutputReadOwnStep DEF ExposeInv
<1>3. ASSUME UNCHANGED <<videoVars, deleteVars>>, NEW q \in Patchers,
             LoadForVisibility(q) \/ Patch(q)
      PROVE  ExposeInv'
  <2>1. OutcomeInv'
    <3>1. \A u \in Uploads : rows'[u].status = rows[u].status
      BY <1>3, VisRows DEF ExposeInv, Ids
    <3>. QED
      BY <1>3, <3>1 DEF ExposeInv, OutcomeInv, Outcome, Done, videoVars
  <2>2. \A u \in Uploads : JobPastFacts(u)' /\ OutputRow(u)' /\ CopyRow(u)'
    BY <1>3, JobPastFactsVisStep, OutputRowVisStep, CopyRowVisStep
  <2>3. \A p \in Patchers, u \in Uploads : OutputRead(p, u)'
    BY <1>3, OutputReadVisStep
  <2>4. \A p \in Patchers : OwnCopy(p)'
    <3>1. VisKeeps(q) /\ (VisLoads(q) \/ VisCascades(q) \/ VisRuns(q)) /\ VisFacts(q) /\ VisTypeOK
      BY <1>3, VisEffect DEF ExposeInv, BaseInv
    <3>2. vpc[q] = "copy" => /\ Rotated(q, vsnap[q].key).tag = q
                             /\ Rotated(q, vsnap[q].key).vis = vwant[q]
      BY <3>1, RotatedKey DEF VisFacts, PlainRow, VisTypeOK, Rows
    <3>3. vpc[q] = "idle" => vcopy[q] = None
      BY DEF ExposeInv, RawInv, RawRead
    <3>. QED
      BY <3>1, <3>2, <3>3
         DEF ExposeInv, OwnCopy, VisKeeps, VisLoads, VisCascades, VisRuns, VisCopies, VisWrites,
             VisRemoves
  <2>. QED
    BY <1>1, <2>1, <2>2, <2>3, <2>4 DEF ExposeInv
<1>. QED
  BY <1>2, <1>3, PatchedSteps

(* The initial state satisfies it.                                         *)
LEMMA ExposeInit == PatchedInit => ExposeInv
<1>. SUFFICES ASSUME PatchedInit PROVE ExposeInv
  OBVIOUS
<1>1. \A i \in Ids : rows[i] = NoRow /\ ~Exists(i)
  BY DEF PatchedInit, Init, StoreInit, NoRow, Exists
<1>2. BaseInv /\ RawInv /\ OutcomeInv
  BY <1>1, BaseInit, OutcomeInit, StoreAssumption
     DEF PatchedInit, VisInit, RawInv, RawRow, RawRead, Ids
<1>3. \A p \in Patchers : vid[p] = None /\ vcopy[p] = None
  BY DEF PatchedInit, VisInit
<1>4. None \notin Ids /\ \A u \in Uploads : u \in Ids /\ {u} \X Runs \subseteq Ids
  BY StoreAssumption DEF Ids, Jobs
<1>5. NoRow.status = "none" /\ NoRow.poster = None
  BY DEF NoRow
<1>6. \A u \in Uploads : JobPastFacts(u) /\ OutputRow(u) /\ CopyRow(u)
  BY <1>1, <1>3, <1>4, <1>5 DEF JobPastFacts, OutputRow, CopyRow, WorkedOn
<1>. QED
  BY <1>2, <1>3, <1>4, <1>6 DEF ExposeInv, OutputRead, OwnCopy

(* So it holds throughout.                                                 *)
LEMMA ExposeInvariant ==
  ASSUME "crash" \notin Faults
  PROVE  PatchedSpec => []ExposeInv
<1>1. ExposeInv /\ [PatchedNext]_pvars => ExposeInv'
  BY ExposeStep
<1>. QED
  BY <1>1, ExposeInit, PTL DEF PatchedSpec

(* If no worker dies, a private video lies outside the private/ prefix     *)
(* only by a PATCH that read it before mark_ready, or by two that overlap  *)
(* (tasks.py 474 and 507, visibility.py 208-222).                          *)
THEOREM ExposureExplained ==
  ASSUME "crash" \notin Faults
  PROVE  PatchedSpec => []ExposedOnlyByPatch
<1>1. ExposeInv => ExposedOnlyByPatch
  <2>. SUFFICES ASSUME ExposeInv, NEW u \in Uploads, ExposedVideo(u), ~PatchedBeforeReady(u)
                PROVE  TurnedPrivateOnly(u)
    BY DEF ExposedOnlyByPatch
  <2>1. /\ rows[u].status = "ready" /\ rows[u].vis = "private" /\ rows[u].key \in objects
        /\ rows[u].key.vis = "public" /\ Exists(u)
    BY DEF ExposedVideo, Exists
  <2>2. ~Explained(u)
    BY DEF Explained, PatchedBeforeReady
  <2>3. OutputRow(u) /\ CopyRow(u) /\ RawRow(u)
    BY DEF ExposeInv, RawInv
  <2>4. rows[u].key.dir = "videos"
    BY <2>1, <2>2, <2>3 DEF RawRow
  <2>5. rows[u].key.tag \in Patchers
    BY <2>1, <2>2, <2>3, <2>4 DEF OutputRow, OutputKey, Key
  <2>. QED
    BY <2>1, <2>3, <2>5 DEF CopyRow, Blind, TurnedPrivateOnly
<1>. QED
  BY <1>1, ExposeInvariant, PTL

(***************************************************************************)
(* The poster of a video that was turned private.  Without crashes it is   *)
(* linked once; a PATCH that read the video before that does not know it.  *)
(* One that does goes on to it after it has re-pointed the video.          *)
(***************************************************************************)
PosterFaults == Faults \cap {"crash", "lookup", "lost_reply"} = {}

Linking  == {"frame", "poster_row", "link"}
Unlinked(u) == ~JobPast(u) \/ wpc[u] \in Linking

(* A PATCH will turn the poster, or is the reason why it lags.             *)
Follows(p, u, j) ==
  \/ /\ vid[p] = u /\ vwant[p] = "private"
     /\ vsnap[p].poster = None \/ vpc[p] \in {"remove_old", "load_poster", "broken"}
  \/ vid[p] = j /\ (vwant[p] = "public" \/ vcopy[p] \notin Held(rows[j]))

PosterFollows(u) ==
  LET j == rows[u].poster IN
  j # None /\ rows[u].vis = "private" /\ Exists(j) /\ rows[j].vis = "public" =>
    \E p \in Patchers : Follows(p, u, j)

(* What the worker knows of the visibility when it links the poster.       *)
LinkFacts(u) ==
  /\ Unlinked(u) => rows[u].poster = None /\ \A p \in Patchers : vid[p] = u => vsnap[p].poster = None
  /\ wpc[u] \in Linking /\ Exists(u) /\ wvis[u] = "public" /\ rows[u].vis = "private" =>
       \E p \in Patchers : vid[p] = u /\ vwant[p] = "private" /\ vsnap[p].poster = None
  /\ wpc[u] = "link" /\ Exists(Delivery(u)) =>
       \/ rows[Delivery(u)].vis = wvis[u]
       \/ \E q \in Patchers : vid[q] = Delivery(u) /\ vwant[q] = rows[Delivery(u)].vis

(* The poster a PATCH has read is that of the row.                         *)
PosterRead(p, u) ==
  vid[p] = u /\ rows[u].poster # None => vsnap[p].poster \in {None, rows[u].poster}

(* A copy gets into a poster's row by the PATCH that made it.              *)
PosterCopy(p, j) == Exists(j) /\ rows[j].key.tag = p => vid[p] = j /\ vcopy[p] = rows[j].key

FollowInv ==
  /\ \A u \in Uploads : PosterFollows(u) /\ LinkFacts(u)
  /\ \A p \in Patchers : /\ \A u \in Uploads : PosterRead(p, u)
                         /\ \A j \in Jobs : PosterCopy(p, j)
                         /\ vpc[p] \in {"idle", "copy"} => vcopy[p] = None

(* A PATCH that has read a row without a poster stays with that row.       *)
LEMMA StaysWithRow ==
  ASSUME ExposeInv, NEW q \in Patchers, LoadForVisibility(q) \/ Patch(q),
         NEW p \in Patchers, vid[p] # None, vsnap[p].poster = None \/ vid[p] \in Jobs
  PROVE  /\ vid'[p] = vid[p] /\ vwant'[p] = vwant[p] /\ vsnap'[p] = vsnap[p]
         /\ p = q => VisRuns(q)
<1>1. VisKeeps(q) /\ (VisLoads(q) \/ VisCascades(q) \/ VisRuns(q)) /\ VisFacts(p)
  BY VisEffect DEF ExposeInv, BaseInv
<1>2. vsnap[p].poster = None
  BY <1>1 DEF VisFacts, PlainRow
<1>. QED
  BY <1>1, <1>2 DEF VisKeeps, VisLoads, VisCascades, VisRuns, VisFacts

(* A worker comes to a poster only from mark_ready, which returns the      *)
(* visibility of the row, and does not come back to one.                   *)
LEMMA LinkingStep ==
  ASSUME ExposeInv, PosterFaults, [Next]_vars, NEW u \in Uploads
  PROVE  /\ Unlinked(u)' => Unlinked(u)
         /\ wpc'[u] \in Linking =>
              \/ wpc[u] \in Linking /\ run'[u] = run[u] /\ wvis'[u] = wvis[u]
              \/ wpc[u] = "publish" /\ wpc'[u] = "frame" /\ wvis'[u] = rows'[u].vis
         /\ wpc'[u] = "link" =>
              \/ wpc[u] = "link"
              \/ wpc[u] = "poster_row" /\ rows'[Delivery(u)] = PosterRow(u)
<1>. USE DEF Linking
<1>1. /\ TypeInv /\ RecordInv /\ "crash" \notin Faults /\ "lost_reply" \notin Faults
  BY DEF ExposeInv, BaseInv, PosterFaults
<1>2. /\ wpc'[u] \in Linking =>
           \/ wpc[u] \in Linking /\ run'[u] = run[u] /\ wvis'[u] = wvis[u]
           \/ wpc[u] = "publish" /\ wpc'[u] = "frame" /\ wvis'[u] = rows'[u].vis
      /\ wpc'[u] = "link" =>
           \/ wpc[u] = "link"
           \/ wpc[u] = "poster_row" /\ rows'[Delivery(u)] = PosterRow(u)
  <2>. USE DEF TypeInv, TypeOK, VideoTypeOK
  <2>1. CASE SameUpload(u)
    BY <2>1 DEF SameUpload
  <2>2. CASE LookupHit(u) \/ LookupMiss(u) \/ Upload(u) \/ Trim(u) \/ Crash(u) \/ Acknowledge(u)
    BY <1>1, <2>2
       DEF LookupHit, LookupMiss, Upload, Stage, CreateRecord, Enqueue, Rollback, Unstage,
           LinkTask, Trim, Crash, Acknowledge, WorkerStep, workerVars
  <2>3. CASE Publish(u)
    <3>1. Exists(u) => MarkReady(u, OutputKey(u))[u].vis = rows[u].vis
      BY <1>1, KeptFields DEF Ids
    <3>. QED
      BY <1>1, <2>3, <3>1 DEF Publish, WorkerStep
  <2>4. CASE CreatePoster(u)
    <3>1. wpc[u] = "poster_row" /\ UNCHANGED <<run, wvis>>
      BY <2>4 DEF CreatePoster, WorkerStep
    <3>2. wpc'[u] = "link" => rows' = Insert(Delivery(u), PosterRow(u))
      BY <1>1, <2>4 DEF CreatePoster, WorkerStep
    <3>3. Insert(Delivery(u), PosterRow(u))[Delivery(u)] = PosterRow(u)
      BY <1>1, <3>1, NamesType DEF Insert, StoreTypeOK, Ids
    <3>. QED
      BY <3>1, <3>2, <3>3
  <2>5. CASE Deliver(u) \/ (Compress(u) /\ ~Publish(u) /\ ~CreatePoster(u))
    BY <1>1, <2>5
       DEF Deliver, Compress, LoadRecord, Encode, PutOutput, Retract, Discard, StorePoster,
           ExtractFrame, LinkPoster, ReadLinked, DropPosterObject, DropPosterRow,
           Fail, Notify, NotifyEvent, Cleanup, WorkerStep
  <2>. QED
    BY <1>1, <2>1, <2>2, <2>3, <2>4, <2>5, UploadFrame DEF VideoStep, Worker
<1>3. JobPast(u) => JobPast(u)' /\ wpc[u] # "publish"
  BY <1>1, JobPastStays DEF JobPast
<1>. QED
  BY <1>2, <1>3 DEF Unlinked

FollowFacts == ExposeInv /\ FollowInv

(* The row of a poster that its video links to, or may come to link to,    *)
(* changes in a step of VideoSystem only by being inserted or deleted.     *)
LEMMA PosterRowOwnStep ==
  ASSUME FollowFacts, [Next]_vars, NEW u \in Uploads, NEW j \in Jobs,
         (j \in {u} \X Runs /\ ~Unlinked(u)) \/ (wpc[u] = "link" /\ j = Delivery(u)),
         Exists(j)'
  PROVE  rows'[j] = rows[j]
<1>1. TypeInv
  BY DEF FollowFacts, ExposeInv, BaseInv
<1>2. ASSUME NEW v \in Uploads, PosterInserted(v, j) PROVE FALSE
  <2>1. j = <<v, run[v]>> /\ wpc[v] = "poster_row"
    BY <1>2 DEF PosterInserted, Delivery
  <2>2. v = u
    BY <2>1 DEF Delivery
  <2>. QED
    BY <2>1, <2>2 DEF Unlinked, Linking
<1>. QED
  BY <1>1, <1>2, PosterFrame DEF Exists, NoRow

(* A step of VideoSystem keeps what the worker knows, ...                  *)
LEMMA LinkFactsOwnStep ==
  ASSUME FollowFacts, PosterFaults, [Next]_vars, UNCHANGED visVars, NEW u \in Uploads
  PROVE  LinkFacts(u)'
<1>. USE DEF LinkFacts
<1>1. /\ ExposeInv /\ TypeInv /\ RecordInv /\ LinkFacts(u)
      /\ "crash" \notin Faults
  BY DEF FollowFacts, FollowInv, ExposeInv, BaseInv, PosterFaults
<1>2. /\ vid' = vid /\ vwant' = vwant /\ vsnap' = vsnap
  BY DEF visVars
<1>3. Unlinked(u)' => rows'[u].poster = None
  <2>. SUFFICES ASSUME Unlinked(u)' PROVE rows'[u].poster = None
    OBVIOUS
  <2>1. Unlinked(u) /\ rows[u].poster = None
    BY <1>1, LinkingStep
  <2>2. NoRow.poster = None /\ VideoRow(u).poster = None
    BY DEF NoRow, VideoRow
  <2>3. CASE rows'[u] = rows[u] \/ \E d \in Deleters : DeletedBy(u, d)
    BY <2>1, <2>2, <2>3 DEF DeletedBy
  <2>4. CASE VideoStep(u)
    <3>1. FieldMove(u)
      BY <1>1, <2>4, FieldMoves
    <3>2. ~(wpc[u] = "link" /\ wpc'[u] \in {"linked", "drop_poster"})
      BY DEF Unlinked, JobPast, Linking
    <3>. QED
      BY <2>1, <2>2, <3>1, <3>2 DEF FieldMove
  <2>. QED
    BY <1>1, <2>3, <2>4, UploadFrame
<1>4. ASSUME wpc'[u] \in Linking, Exists(u)', wvis'[u] = "public", rows'[u].vis = "private"
      PROVE  \E p \in Patchers : vid[p] = u /\ vwant[p] = "private" /\ vsnap[p].poster = None
  <2>1. wpc[u] \in Linking /\ wvis'[u] = wvis[u]
    BY <1>1, <1>4, LinkingStep
  <2>2. JobPast(u)
    BY <2>1 DEF JobPast, Linking
  <2>3. rows'[u].vis = rows[u].vis /\ Exists(u)
    BY <1>1, <1>4, <2>2, JobPastStays DEF NoRow, Exists
  <2>. QED
    BY <1>1, <1>4, <2>1, <2>3
<1>5. ASSUME wpc'[u] = "link", Exists(Delivery(u))'
      PROVE  \/ rows'[Delivery(u)'].vis = wvis'[u]
             \/ \E q \in Patchers : vid[q] = Delivery(u)' /\ vwant[q] = rows'[Delivery(u)'].vis
  <2>1. wpc[u] \in Linking /\ run'[u] = run[u] /\ wvis'[u] = wvis[u]
    BY <1>1, <1>5, LinkingStep DEF Linking
  <2>2. Delivery(u)' = Delivery(u) /\ Delivery(u) \in Jobs
    BY <1>1, <2>1, NamesType DEF Delivery, Linking
  <2>3. CASE wpc[u] = "poster_row" /\ rows'[Delivery(u)] = PosterRow(u)
    BY <2>1, <2>2, <2>3 DEF PosterRow
  <2>4. CASE wpc[u] = "link"
    <3>1. Exists(Delivery(u))' <=> rows'[Delivery(u)].status # "none"
      BY <2>2 DEF Exists
    <3>2. PICK j \in Jobs : j = Delivery(u)
      BY <2>2
    <3>3. Exists(j)'
      BY <1>5, <3>1, <3>2 DEF Exists
    <3>4. rows'[j] = rows[j]
      BY <2>4, <3>2, <3>3, PosterRowOwnStep
    <3>5. Exists(j)
      BY <3>3, <3>4 DEF Exists
    <3>. QED
      BY <1>1, <2>1, <2>2, <2>4, <3>2, <3>4, <3>5
  <2>. QED
    BY <1>1, <1>5, <2>3, <2>4, LinkingStep
<1>. QED
  BY <1>1, <1>2, <1>3, <1>4, <1>5, LinkingStep

(* ... that the poster has a reason to lag behind its video, ...           *)
LEMMA PosterFollowsOwnStep ==
  ASSUME FollowFacts, PosterFaults, [Next]_vars, UNCHANGED visVars, NEW u \in Uploads
  PROVE  PosterFollows(u)'
<1>1. /\ TypeInv /\ PosterFollows(u) /\ LinkFacts(u) /\ JobPastFacts(u)
  BY DEF FollowFacts, FollowInv, ExposeInv, BaseInv
<1>2. PICK j : j = rows'[u].poster
  OBVIOUS
<1>. SUFFICES ASSUME j # None, rows'[u].vis = "private", Exists(j)', rows'[j].vis = "public"
              PROVE  \E p \in Patchers : Follows(p, u, j)'
  BY <1>2 DEF PosterFollows, Exists
<1>3. ASSUME rows'[j] = rows[j], NEW p \in Patchers, Follows(p, u, j)
      PROVE  Follows(p, u, j)'
  BY <1>3 DEF Follows, visVars, Held
<1>4. CASE rows'[u].poster = rows[u].poster /\ rows'[u].vis = rows[u].vis
  <2>1. j \in {u} \X Runs /\ j \in Jobs /\ ~Unlinked(u)
    BY <1>1, <1>2, <1>4 DEF JobPastFacts, LinkFacts, Jobs
  <2>2. rows'[j] = rows[j] /\ Exists(j)
    BY <2>1, PosterRowOwnStep DEF Exists
  <2>. QED
    BY <1>1, <1>2, <1>3, <1>4, <2>2 DEF PosterFollows
<1>5. CASE /\ wpc[u] = "link" /\ Exists(u) /\ j = Delivery(u) /\ rows'[u].vis = rows[u].vis
  <2>1. j \in Jobs
    BY <1>1, <1>5, NamesType
  <2>2. rows'[j] = rows[j] /\ Exists(j)
    BY <1>5, <2>1, PosterRowOwnStep DEF Exists
  <2>3. CASE wvis[u] = "public"
    <3>1. PICK p \in Patchers : vid[p] = u /\ vwant[p] = "private" /\ vsnap[p].poster = None
      BY <1>1, <1>5, <2>3 DEF LinkFacts, Linking
    <3>. QED
      BY <1>3, <2>2, <3>1 DEF Follows
  <2>4. CASE wvis[u] # "public"
    <3>1. PICK p \in Patchers : vid[p] = j /\ vwant[p] = "public"
      BY <1>1, <1>5, <2>2, <2>4 DEF LinkFacts
    <3>. QED
      BY <1>3, <2>2, <3>1 DEF Follows
  <2>. QED
    BY <2>3, <2>4
<1>6. NoRow.poster = None /\ VideoRow(u).poster = None
  BY DEF NoRow, VideoRow
<1>7. CASE rows'[u] = rows[u] \/ \E d \in Deleters : DeletedBy(u, d)
  BY <1>2, <1>4, <1>6, <1>7 DEF DeletedBy
<1>8. CASE VideoStep(u)
  <2>1. FieldMove(u)
    BY <1>1, <1>8, FieldMoves
  <2>. QED
    BY <1>2, <1>4, <1>5, <1>6, <2>1 DEF FieldMove
<1>. QED
  BY <1>1, <1>7, <1>8, UploadFrame

(* ... and what the PATCHes have read and copied.                          *)
LEMMA PosterReadOwnStep ==
  ASSUME FollowFacts, [Next]_vars, UNCHANGED visVars, NEW p \in Patchers
  PROVE  /\ \A u \in Uploads : PosterRead(p, u)'
         /\ \A j \in Jobs : PosterCopy(p, j)'
<1>1. /\ TypeInv /\ p \notin Jobs
      /\ vid' = vid /\ vsnap' = vsnap /\ vcopy' = vcopy
  BY StoreAssumption DEF FollowFacts, ExposeInv, BaseInv, visVars, Ids
<1>2. ASSUME NEW u \in Uploads PROVE PosterRead(p, u)'
  <2>1. PosterRead(p, u) /\ LinkFacts(u)
    BY DEF FollowFacts, FollowInv
  <2>2. NoRow.poster = None /\ VideoRow(u).poster = None
    BY DEF NoRow, VideoRow
  <2>3. CASE rows'[u] = rows[u] \/ \E d \in Deleters : DeletedBy(u, d)
    BY <1>1, <2>1, <2>2, <2>3 DEF DeletedBy, PosterRead
  <2>4. CASE VideoStep(u)
    <3>1. FieldMove(u)
      BY <1>1, <2>4, FieldMoves
    <3>2. wpc[u] = "link" => Unlinked(u)
      BY DEF Unlinked, Linking
    <3>. QED
      BY <1>1, <2>1, <2>2, <3>1, <3>2 DEF FieldMove, PosterRead, LinkFacts
  <2>. QED
    BY <1>1, <2>3, <2>4, UploadFrame
<1>3. ASSUME NEW j \in Jobs PROVE PosterCopy(p, j)'
  <2>1. PosterCopy(p, j)
    BY DEF FollowFacts, FollowInv
  <2>2. ASSUME NEW v \in Uploads, PosterInserted(v, j) PROVE rows'[j].key.tag # p
    BY <1>1, <2>2 DEF PosterInserted, PosterRow, PosterKey, Key
  <2>. QED
    BY <1>1, <2>1, <2>2, PosterFrame DEF PosterCopy, Exists, NoRow
<1>. QED
  BY <1>2, <1>3

(* A PATCH turns a row from one visibility to another only if it wants the *)
(* other, and if the row is a video goes on to the poster it has read.     *)
LEMMA TurnedBy ==
  ASSUME FollowFacts, PosterFaults, NEW q \in Patchers, LoadForVisibility(q) \/ Patch(q),
         NEW i \in Ids, rows'[i] # rows[i]
  PROVE  /\ vid[q] = i /\ vid'[q] = i /\ vwant'[q] = vwant[q] /\ rows'[i].vis = vwant[q]
         /\ vsnap'[q] = vsnap[q] /\ vcopy' = vcopy /\ vpc[q] = "update"
         /\ rows'[i].key = IF vcopy[q] = None THEN rows[i].key ELSE vcopy[q]
         /\ vsnap[q].poster = None \/ vpc'[q] \in {"remove_old", "load_poster"}
<1>1. VisRow(i, q) /\ "lost_reply" \notin Faults
  BY VisRows DEF FollowFacts, ExposeInv, PosterFaults
<1>. QED
  BY <1>1 DEF VisRow

(* A PATCH that will turn the poster, or is the reason why it lags, stays  *)
(* so while the poster is public, or the PATCH that publishes it is one.   *)
LEMMA FollowsStays ==
  ASSUME FollowFacts, PosterFaults, UNCHANGED videoVars, NEW q \in Patchers,
         LoadForVisibility(q) \/ Patch(q), NEW u \in Uploads, NEW j \in Jobs,
         rows[u].poster = j, Exists(j), rows'[j].vis = "public",
         NEW p \in Patchers, Follows(p, u, j)
  PROVE  \E s \in Patchers : Follows(s, u, j)'
<1>. USE DEF Follows
<1>1. /\ ExposeInv /\ VisFacts(p) /\ PosterRead(p, u) /\ PosterCopy(p, j) /\ VisTypeOK
      /\ u \in Ids /\ j \in Ids /\ j \notin Uploads /\ None \notin Ids /\ "lookup" \notin Faults
  BY StoreAssumption DEF FollowFacts, FollowInv, ExposeInv, BaseInv, PosterFaults, Ids
<1>2. VisKeeps(q) /\ (VisLoads(q) \/ VisCascades(q) \/ VisRuns(q))
  BY <1>1, VisEffect DEF ExposeInv
<1>3. CASE rows'[j] # rows[j]
  BY <1>1, <1>3, TurnedBy
<1>4. CASE rows'[j] = rows[j] /\ p # q
  BY <1>2, <1>4 DEF VisKeeps, Held
<1>5. CASE rows'[j] = rows[j] /\ p = q /\ vid[q] = u
  <2>1. CASE VisCascades(q)
    <3>1. vid'[q] = j /\ vcopy'[q] = None /\ rows' = rows
      BY <1>1, <1>5, <2>1 DEF VisCascades, VisFacts, PosterRead
    <3>2. PlainRow(j, rows[j])
      BY <1>1 DEF ExposeInv, BaseInv
    <3>. QED
      BY <3>1, <3>2 DEF PlainRow, Held
  <2>2. CASE VisRuns(q)
    <3>1. vid'[q] = u /\ vwant'[q] = vwant[q] /\ vsnap'[q] = vsnap[q] /\ vwant[q] = "private"
      BY <1>1, <1>5, <2>2 DEF VisRuns
    <3>2. CASE vsnap[q].poster = None
      BY <3>1, <3>2
    <3>3. CASE vsnap[q].poster = j /\ vpc[q] \in {"remove_old", "load_poster", "broken"}
      <4>1. vpc'[q] # "answered"
        BY <1>1, <1>2, <1>5, <2>2, <3>1, <3>3
           DEF VisKeeps, VisRuns, VisCopies, VisWrites, VisRemoves, NextRow
      <4>2. vpc'[q] \in {"remove_old", "load_poster", "broken"}
        BY <1>1, <1>2, <2>2, <3>3, <4>1
           DEF VisKeeps, VisRuns, VisCopies, VisWrites, VisRemoves, NextRow
      <4>. QED
        BY <3>1, <4>2
    <3>. QED
      BY <1>1, <1>5, <3>2, <3>3 DEF PosterRead
  <2>. QED
    BY <1>1, <1>2, <1>5, <2>1, <2>2 DEF VisLoads, VisFacts
<1>6. CASE rows'[j] = rows[j] /\ p = q /\ vid[q] = j
  <2>1. vid'[q] = j /\ vwant'[q] = vwant[q] /\ VisRuns(q)
    BY <1>1, <1>6, StaysWithRow
  <2>2. CASE vwant[q] = "public"
    BY <2>1, <2>2
  <2>3. CASE vcopy[q] \notin Held(rows[j])
    <3>1. vcopy'[q] = vcopy[q] \/ (vpc[q] = "copy" /\ vcopy'[q] = Rotated(q, vsnap[q].key))
      BY <2>1 DEF VisRuns, VisCopies, VisWrites, VisRemoves
    <3>2. vpc[q] = "copy" => Rotated(q, vsnap[q].key).tag = q
      BY <1>1, <1>6, RotatedKey DEF VisFacts, PlainRow, VisTypeOK, Rows
    <3>3. rows[j].key.tag # q
      BY <1>1, <1>6, <2>3 DEF PosterCopy, Held
    <3>4. Held(rows[j]) = {rows[j].key}
      BY <1>1 DEF ExposeInv, BaseInv, PlainRow, Held
    <3>5. vcopy'[q] \notin Held(rows[j])
      BY <2>3, <3>1, <3>2, <3>3, <3>4
    <3>. QED
      BY <1>6, <2>1, <3>5 DEF Held
  <2>. QED
    BY <1>1, <1>6, <2>2, <2>3
<1>. QED
  BY <1>3, <1>4, <1>5, <1>6

(* So a poster that lags keeps a reason, and a new one has one.            *)
LEMMA PosterFollowsVisStep ==
  ASSUME FollowFacts, PosterFaults, UNCHANGED videoVars, NEW q \in Patchers,
         LoadForVisibility(q) \/ Patch(q), NEW u \in Uploads
  PROVE  PosterFollows(u)'
<1>1. /\ BaseInv /\ PosterFollows(u) /\ JobPastFacts(u) /\ u \in Ids /\ Jobs \subseteq Ids
      /\ {u} \X Runs \subseteq Jobs
  BY DEF FollowFacts, FollowInv, ExposeInv, Ids, Jobs
<1>2. \A i \in Ids : rows'[i].poster = rows[i].poster /\ rows'[i].status = rows[i].status
  BY <1>1, VisRows
<1>3. PICK j : j = rows[u].poster
  OBVIOUS
<1>. SUFFICES ASSUME j # None, rows'[u].vis = "private", Exists(j)', rows'[j].vis = "public"
              PROVE  \E p \in Patchers : Follows(p, u, j)'
  BY <1>1, <1>2, <1>3 DEF PosterFollows, Exists
<1>4. j \in Jobs /\ Exists(j)
  BY <1>1, <1>2, <1>3 DEF JobPastFacts, Exists
<1>5. CASE rows'[u] = rows[u] /\ rows'[j] = rows[j]
  <2>1. PICK p \in Patchers : Follows(p, u, j)
    BY <1>1, <1>3, <1>4, <1>5 DEF PosterFollows
  <2>. QED
    BY <1>3, <1>4, <2>1, FollowsStays
<1>6. CASE rows'[u] # rows[u]
  BY <1>1, <1>6, TurnedBy DEF Follows
<1>7. CASE rows'[j] # rows[j]
  BY <1>1, <1>4, <1>7, TurnedBy DEF Follows
<1>. QED
  BY <1>5, <1>6, <1>7

(* A PATCH that turns a video private before its poster is linked has read *)
(* it without one.                                                         *)
LEMMA LinkFactsVisStep ==
  ASSUME FollowFacts, PosterFaults, UNCHANGED videoVars, NEW q \in Patchers,
         LoadForVisibility(q) \/ Patch(q), NEW u \in Uploads
  PROVE  LinkFacts(u)'
<1>. USE DEF LinkFacts
<1>1. /\ ExposeInv /\ BaseInv /\ TypeInv /\ LinkFacts(u)
      /\ u \in Ids /\ Jobs \subseteq Ids /\ u \notin Jobs /\ None \notin Ids
  BY StoreAssumption DEF FollowFacts, FollowInv, ExposeInv, BaseInv, Ids
<1>2. \A i \in Ids : rows'[i].poster = rows[i].poster /\ rows'[i].status = rows[i].status
  BY <1>1, VisRows
<1>3. /\ wpc' = wpc /\ wvis' = wvis /\ Delivery(u)' = Delivery(u) /\ Unlinked(u)' = Unlinked(u)
  BY DEF videoVars, Delivery, Unlinked, JobPast
<1>4. Unlinked(u) => \A p \in Patchers : vid'[p] = u => vsnap'[p].poster = None
  <2>. SUFFICES ASSUME Unlinked(u), NEW p \in Patchers, vid'[p] = u PROVE vsnap'[p].poster = None
    OBVIOUS
  <2>1. VisKeeps(q) /\ (VisLoads(q) \/ VisCascades(q) \/ VisRuns(q)) /\ VisFacts(q) /\ VisTypeOK
    BY <1>1, VisEffect DEF BaseInv
  <2>2. ~(p = q /\ VisCascades(q))
    BY <1>1, <2>1 DEF VisCascades, VisFacts, VisTypeOK, Rows
  <2>. QED
    BY <1>1, <2>1, <2>2 DEF VisKeeps, VisLoads, VisRuns
<1>5. ASSUME wpc[u] \in Linking, Exists(u), wvis[u] = "public", rows'[u].vis = "private"
      PROVE  \E p \in Patchers : vid'[p] = u /\ vwant'[p] = "private" /\ vsnap'[p].poster = None
  <2>1. CASE rows'[u] = rows[u]
    <3>1. PICK p \in Patchers : vid[p] = u /\ vwant[p] = "private" /\ vsnap[p].poster = None
      BY <1>1, <1>5, <2>1
    <3>. QED
      BY <1>1, <3>1, StaysWithRow
  <2>2. CASE rows'[u] # rows[u]
    BY <1>1, <1>5, <2>2, TurnedBy DEF Unlinked
  <2>. QED
    BY <2>1, <2>2
<1>6. ASSUME wpc[u] = "link", NEW j \in Jobs, j = Delivery(u), Exists(j)
      PROVE  \/ rows'[j].vis = wvis[u]
             \/ \E p \in Patchers : vid'[p] = j /\ vwant'[p] = rows'[j].vis
  <2>1. CASE rows'[j] = rows[j]
    <3>1. ASSUME NEW p \in Patchers, vid[p] = j PROVE vid'[p] = j /\ vwant'[p] = vwant[p]
      BY <1>1, <1>6, <3>1, StaysWithRow
    <3>. QED
      BY <1>1, <1>6, <2>1, <3>1
  <2>2. CASE rows'[j] # rows[j]
    BY <1>1, <1>6, <2>2, TurnedBy
  <2>. QED
    BY <2>1, <2>2
<1>7. wpc[u] = "link" => Delivery(u) \in Jobs
  BY <1>1, NamesType
<1>8. Exists(u)' = Exists(u) /\ \A j \in Jobs : Exists(j)' = Exists(j)
  BY <1>1, <1>2 DEF Exists
<1>9. wpc'[u] = "link" /\ Exists(Delivery(u))' =>
        \/ rows'[Delivery(u)'].vis = wvis'[u]
        \/ \E p \in Patchers : vid'[p] = Delivery(u)' /\ vwant'[p] = rows'[Delivery(u)'].vis
  <2>. SUFFICES ASSUME wpc[u] = "link", rows'[Delivery(u)].status # "none"
                PROVE  \/ rows'[Delivery(u)].vis = wvis[u]
                       \/ \E p \in Patchers : vid'[p] = Delivery(u) /\ vwant'[p] = rows'[Delivery(u)].vis
    BY <1>3 DEF Exists
  <2>1. PICK j \in Jobs : j = Delivery(u)
    BY <1>7
  <2>2. Exists(j)
    BY <1>1, <1>2, <2>1 DEF Exists
  <2>. QED
    BY <1>6, <2>1, <2>2
<1>. QED
  BY <1>1, <1>2, <1>3, <1>4, <1>5, <1>8, <1>9

(* A PATCH reads the poster of the row, and makes one copy of it.          *)
LEMMA PosterReadVisStep ==
  ASSUME FollowFacts, PosterFaults, UNCHANGED videoVars, NEW q \in Patchers,
         LoadForVisibility(q) \/ Patch(q), NEW p \in Patchers
  PROVE  /\ \A u \in Uploads : PosterRead(p, u)'
         /\ \A j \in Jobs : PosterCopy(p, j)'
         /\ vpc'[p] \in {"idle", "copy"} => vcopy'[p] = None
<1>1. /\ ExposeInv /\ BaseInv /\ VisFacts(p) /\ VisTypeOK /\ OwnCopy(q)
      /\ Uploads \cap Jobs = {} /\ Uploads \subseteq Ids /\ Jobs \subseteq Ids /\ None \notin Ids
      /\ vpc[p] \in {"idle", "copy"} => vcopy[p] = None
  BY StoreAssumption DEF FollowFacts, FollowInv, ExposeInv, BaseInv, Ids
<1>2. \A i \in Ids : rows'[i].poster = rows[i].poster /\ rows'[i].status = rows[i].status
  BY <1>1, VisRows
<1>3. VisKeeps(q) /\ (VisLoads(q) \/ VisCascades(q) \/ VisRuns(q))
  BY <1>1, VisEffect
<1>4. vpc'[p] \in {"idle", "copy"} => vcopy'[p] = None
  BY <1>1, <1>3
     DEF VisKeeps, VisLoads, VisCascades, VisRuns, VisCopies, VisWrites, VisRemoves, NextRow
<1>5. ASSUME NEW u \in Uploads PROVE PosterRead(p, u)'
  <2>1. PosterRead(p, u) /\ rows'[u].poster = rows[u].poster
    BY <1>1, <1>2 DEF FollowFacts, FollowInv
  <2>2. ~(p = q /\ VisCascades(q) /\ vid'[p] = u)
    BY <1>1 DEF VisCascades, VisFacts, VisTypeOK, Rows
  <2>. QED
    BY <1>3, <2>1, <2>2 DEF PosterRead, VisKeeps, VisLoads, VisRuns
<1>6. ASSUME NEW j \in Jobs, Exists(j)', rows'[j].key.tag = p
      PROVE  vid'[p] = j /\ vcopy'[p] = rows'[j].key
  <2>1. PosterCopy(p, j) /\ Exists(j) /\ PlainRow(j, rows[j]) /\ j \in Ids
    BY <1>1, <1>2, <1>6 DEF FollowFacts, FollowInv, Exists, BaseInv
  <2>2. ASSUME vid[p] = j, vcopy[p] = rows[j].key
        PROVE  vid'[p] = j /\ vcopy'[p] = rows[j].key
    <3>1. vid'[p] = j /\ (p = q => VisRuns(q))
      BY <1>1, <1>6, <2>2, StaysWithRow
    <3>2. p = q => vcopy'[p] = vcopy[p]
      BY <1>1, <2>1, <2>2, <3>1 DEF PlainRow, VisRuns, VisCopies, VisWrites, VisRemoves
    <3>. QED
      BY <1>3, <2>2, <3>1, <3>2 DEF VisKeeps
  <2>3. CASE rows'[j].key = rows[j].key
    BY <1>6, <2>1, <2>2, <2>3 DEF PosterCopy
  <2>4. CASE rows'[j].key # rows[j].key
    <3>1. /\ vid'[q] = j /\ vcopy' = vcopy /\ vcopy[q] # None /\ rows'[j].key = vcopy[q]
      BY <2>1, <2>4, TurnedBy
    <3>. QED
      BY <1>1, <1>6, <3>1 DEF OwnCopy
  <2>. QED
    BY <2>3, <2>4
<1>. QED
  BY <1>4, <1>5, <1>6 DEF PosterCopy

(* Every step keeps all this, so it holds throughout.                      *)
LEMMA FollowInvariant ==
  ASSUME PosterFaults
  PROVE  PatchedSpec => []FollowFacts
<1>1. FollowFacts /\ [PatchedNext]_pvars => FollowFacts'
  <2>. SUFFICES ASSUME FollowFacts, [PatchedNext]_pvars PROVE FollowFacts'
    OBVIOUS
  <2>1. ExposeInv'
    BY ExposeStep DEF FollowFacts, PosterFaults
  <2>2. CASE [Next]_vars /\ UNCHANGED visVars
    <3>1. \A u \in Uploads : PosterFollows(u)' /\ LinkFacts(u)'
      BY <2>2, PosterFollowsOwnStep, LinkFactsOwnStep
    <3>2. \A p \in Patchers : /\ \A u \in Uploads : PosterRead(p, u)'
                              /\ \A j \in Jobs : PosterCopy(p, j)'
      BY <2>2, PosterReadOwnStep
    <3>3. \A p \in Patchers : vpc'[p] \in {"idle", "copy"} => vcopy'[p] = None
      BY <2>2 DEF FollowFacts, FollowInv, visVars
    <3>. QED
      BY <2>1, <3>1, <3>2, <3>3 DEF FollowFacts, FollowInv
  <2>3. ASSUME UNCHANGED <<videoVars, deleteVars>>, NEW q \in Patchers,
               LoadForVisibility(q) \/ Patch(q)
        PROVE  FollowFacts'
    <3>1. \A u \in Uploads : PosterFollows(u)' /\ LinkFacts(u)'
      BY <2>3, PosterFollowsVisStep, LinkFactsVisStep
    <3>2. \A p \in Patchers : /\ \A u \in Uploads : PosterRead(p, u)'
                              /\ \A j \in Jobs : PosterCopy(p, j)'
                              /\ vpc'[p] \in {"idle", "copy"} => vcopy'[p] = None
      BY <2>3, PosterReadVisStep
    <3>. QED
      BY <2>1, <3>1, <3>2 DEF FollowFacts, FollowInv
  <2>. QED
    BY <2>2, <2>3, PatchedSteps
<1>2. PatchedInit => FollowFacts
  <2>. SUFFICES ASSUME PatchedInit PROVE FollowFacts
    OBVIOUS
  <2>1. ExposeInv
    BY ExposeInit
  <2>2. \A i \in Ids : rows[i] = NoRow /\ ~Exists(i)
    BY DEF PatchedInit, Init, StoreInit, NoRow, Exists
  <2>3. /\ \A p \in Patchers : vid[p] = None /\ vcopy[p] = None
        /\ \A u \in Uploads : wpc[u] = "idle"
    BY DEF PatchedInit, Init, VideoInit, VisInit
  <2>4. None \notin Ids /\ Uploads \subseteq Ids /\ Jobs \subseteq Ids /\ NoRow.poster = None
    BY StoreAssumption DEF Ids, NoRow
  <2>5. \A u \in Uploads : PosterFollows(u) /\ LinkFacts(u)
    BY <2>2, <2>3, <2>4 DEF PosterFollows, LinkFacts, Linking
  <2>. QED
    BY <2>1, <2>2, <2>3, <2>4, <2>5 DEF FollowFacts, FollowInv, PosterRead, PosterCopy
<1>. QED
  BY <1>1, <1>2, PTL DEF PatchedSpec

(* If no worker dies, no SELECT raises and no reply is lost, then the      *)
(* poster of a video that was turned private is private too when all has   *)
(* come to rest (visibility.py 234-236), unless one of the PATCHes that    *)
(* PosterLags names came between.                                          *)
THEOREM PostersFollowVideos ==
  ASSUME PosterFaults
  PROVE  PatchedSpec => []PosterFollowsVideo
<1>1. FollowFacts => PosterFollowsVideo
  <2>. SUFFICES ASSUME FollowFacts, AllQuiet, NEW u \in Uploads, rows[u].vis = "private",
                       rows[u].poster # None, Exists(rows[u].poster),
                       rows[rows[u].poster].vis # "private"
                PROVE  PosterLags(u, rows[u].poster)
    BY DEF PosterFollowsVideo
  <2>1. PICK j \in Jobs : j = rows[u].poster
    BY DEF FollowFacts, ExposeInv, JobPastFacts, Jobs
  <2>2. rows[j].vis = "public"
    BY <2>1 DEF FollowFacts, ExposeInv, BaseInv, TypeInv, TypeOK, StoreTypeOK, Rows, Ids, Visibilities
  <2>3. PICK p \in Patchers : Follows(p, u, j)
    BY <2>1, <2>2 DEF FollowFacts, FollowInv, PosterFollows
  <2>4. vpc[p] \notin {"remove_old", "load_poster"}
    BY DEF AllQuiet, VisAnswered
  <2>. QED
    BY <2>1, <2>3, <2>4 DEF Follows, PosterLags
<1>2. PatchedSpec => []FollowFacts
  BY FollowInvariant
<1>. QED
  BY <1>1, <1>2, PTL

(***************************************************************************)
(* Who may hold a key of a video: its row, a DELETE or a PATCH that read   *)
(* the row, and nobody else.  A video has the raw key of its upload, the   *)
(* outputs of its deliveries, and the copy of a PATCH that is past its     *)
(* statement.  So no object is removed for one video that another one's    *)
(* row names, and for the same video only by a DELETE on its way to the    *)
(* row or by a PATCH whose row has moved on.                               *)
(***************************************************************************)
Passed(p, u) == WorkedOn(p, u) /\ (vid[p] = u => vpc[p] \notin {"copy", "update", "undo"})

OwnRaw(u, k) == k.dir = "raw/videos" /\ k.tag = u

RowName(u, k) ==
  \/ OwnRaw(u, k)
  \/ k.dir = "videos" /\ VideoKey(u, k)
  \/ k.dir # "posters" /\ k.tag \in Patchers /\ Passed(k.tag, u)

RowKeeps(u) ==
  /\ Exists(u) => RowName(u, rows[u].key)
  /\ rows[u].status = "ready" => ~OwnRaw(u, rows[u].key)
  /\ rows[u].poster # None => rows[u].poster \in {u} \X Runs
  /\ wpc[u] = "publish" => OutputKey(u) \in objects

DeleteKeeps(d) ==
  /\ dsnap[d].rends = {}
  /\ dpc[d] = "object" =>
       IF did[d] \in Uploads THEN RowName(did[d], dsnap[d].key)
       ELSE dsnap[d].key.dir = "posters"
  /\ dpc[d] = "poster_object" => dposter[d].key.dir = "posters"

(* What a PATCH keeps of what it does with its copy and with the old key.  *)
CopyKeeps(p) ==
  /\ vpc[p] \in {"idle", "copy"} => vcopy[p] = None
  /\ vcopy[p] # None => vcopy[p].tag = p
  /\ vpc[p] = "remove_old" => vleft[p] \subseteq {vsnap[p].key}
  /\ vpc[p] = "undo" => vleft[p] \subseteq {vcopy[p]}
  /\ vid[p] \in Jobs => vsnap[p].key.dir = "posters"

PatchKeeps(p) ==
  vid[p] \in Uploads =>
    /\ RowName(vid[p], vsnap[p].key) /\ vsnap[p].key.tag # p
    /\ vsnap[p].poster # None => vsnap[p].poster \in {vid[p]} \X Runs
    /\ vpc[p] = "update" /\ vcopy[p] # None => vcopy[p] \in objects
    /\ vpc[p] = "remove_old" /\ rows[vid[p]].status = "ready" => vsnap[p].key # rows[vid[p]].key

KeepInv ==
  /\ BaseInv /\ RawInv /\ ReadyHasObject
  /\ \A u \in Uploads : RowKeeps(u)
  /\ \A j \in Jobs : Exists(j) => rows[j].key.dir = "posters"
  /\ \A d \in Deleters : DeleteKeeps(d)
  /\ \A p \in Patchers : CopyKeeps(p) /\ PatchKeeps(p)

(* A PATCH that is past its statement on a video stays so.                 *)
LEMMA PassedStays ==
  ASSUME KeepInv, [PatchedNext]_pvars, NEW p \in Patchers, NEW u \in Uploads, Passed(p, u)
  PROVE  Passed(p, u)'
<1>. USE DEF Passed, WorkedOn
<1>1. /\ VisFacts(p) /\ VisTypeOK /\ PatchKeeps(p) /\ u \in Ids /\ {u} \X Runs \subseteq Jobs
      /\ Jobs \subseteq Ids /\ None \notin Ids /\ u \notin Jobs
  BY StoreAssumption DEF KeepInv, BaseInv, Ids, Jobs
<1>2. CASE UNCHANGED visVars
  BY <1>2 DEF visVars
<1>3. ASSUME NEW q \in Patchers, LoadForVisibility(q) \/ Patch(q)
      PROVE  Passed(p, u)'
  <2>1. VisKeeps(q) /\ (VisLoads(q) \/ VisCascades(q) \/ VisRuns(q))
    BY <1>3, VisEffect DEF KeepInv
  <2>2. CASE p # q
    BY <2>1, <2>2 DEF VisKeeps
  <2>3. CASE p = q /\ VisLoads(q)
    BY <1>1, <2>3 DEF VisLoads, VisFacts
  <2>4. CASE p = q /\ VisCascades(q)
    <3>1. vpc[p] = "load_poster" /\ vsnap[p].poster # None /\ vid'[p] = vsnap[p].poster
      BY <1>1, <2>4 DEF VisCascades, VisFacts
    <3>2. vid[p] = u
      BY <1>1, <3>1 DEF VisFacts, PlainRow
    <3>3. vid'[p] \in {u} \X Runs
      BY <1>1, <3>1, <3>2 DEF PatchKeeps
    <3>. QED
      BY <1>1, <3>3
  <2>5. CASE p = q /\ VisRuns(q)
    BY <1>1, <2>1, <2>5 DEF VisRuns, VisCopies, VisWrites, VisRemoves, NextRow
  <2>. QED
    BY <2>1, <2>2, <2>3, <2>4, <2>5
<1>. QED
  BY <1>2, <1>3, PatchedSteps

(* So a key that a row of the video may hold stays one.                    *)
LEMMA RowNameStays ==
  ASSUME KeepInv, [PatchedNext]_pvars, NEW u \in Uploads, NEW k, RowName(u, k)
  PROVE  RowName(u, k)'
<1>1. CASE k.dir = "videos" /\ VideoKey(u, k)
  <2>1. CASE [Next]_vars
    BY <1>1, <2>1, VideoKeyStable DEF KeepInv, BaseInv, RowName
  <2>2. CASE UNCHANGED videoVars
    BY <1>1, <2>2 DEF RowName, VideoKey, Delivery, videoVars
  <2>. QED
    BY <2>1, <2>2, PatchedSteps
<1>2. ASSUME k.dir # "posters", k.tag \in Patchers, Passed(k.tag, u)
      PROVE  RowName(u, k)'
  BY <1>2, PassedStays DEF RowName
<1>. QED
  BY <1>1, <1>2 DEF RowName, OwnRaw

(* What can be told from a key of a video.                                 *)
LEMMA RowNameFacts ==
  ASSUME KeepInv, NEW u \in Uploads, NEW k, RowName(u, k)
  PROVE  /\ k.dir # "posters"
         /\ \A v \in Uploads : /\ RowName(v, k) => v = u
                               /\ k = RawKey(v) => OwnRaw(u, k)
                               /\ wpc[v] \in PrePublish => k # OutputKey(v)
         /\ \A p \in Patchers : k.tag = p => Passed(p, u)
<1>1. Uploads \cap Jobs = {} /\ Uploads \cap Patchers = {} /\ Jobs \cap Patchers = {}
  BY StoreAssumption DEF Ids
<1>2. TypeInv /\ \A v \in Uploads : run[v] \in 0..MaxRuns
  BY DEF KeepInv, BaseInv, TypeInv, TypeOK, VideoTypeOK
<1>3. \A v \in Uploads : \A r \in 1..run[v] : <<v, r>> \in Jobs
  BY <1>2, StoreAssumption DEF Jobs, Runs
<1>4. \A v \in Uploads : /\ RawKey(v).dir = "raw/videos" /\ RawKey(v).tag = v
                         /\ OutputKey(v).dir = "videos" /\ OutputKey(v).tag = Delivery(v)
  BY DEF RawKey, OutputKey, Key
<1>5. \A v \in Uploads : wpc[v] \in PrePublish => Delivery(v) \in Jobs
  BY <1>2, NamesType DEF PrePublish
<1>6. CASE OwnRaw(u, k)
  BY <1>1, <1>4, <1>6 DEF RowName, OwnRaw
<1>7. CASE k.dir = "videos" /\ VideoKey(u, k)
  <2>1. k.tag \in Jobs
    BY <1>3, <1>7 DEF VideoKey
  <2>. QED
    BY <1>1, <1>2, <1>4, <1>7, <2>1, VideoKeyUnique DEF RowName, OwnRaw
<1>8. CASE k.dir # "posters" /\ k.tag \in Patchers /\ Passed(k.tag, u)
  <2>1. \A v \in Uploads : Passed(k.tag, v) => v = u
    BY <1>1, <1>8 DEF Passed, WorkedOn, Jobs
  <2>2. \A v \in Uploads : k.dir = "videos" => ~VideoKey(v, k)
    BY <1>1, <1>3, <1>8 DEF VideoKey
  <2>. QED
    BY <1>1, <1>4, <1>5, <1>8, <2>1, <2>2 DEF RowName, OwnRaw
<1>. QED
  BY <1>6, <1>7, <1>8 DEF RowName

(* Only a DELETE of the video itself takes away what its row may name, its *)
(* raw object aside.                                                       *)
LEMMA TakenByDelete ==
  ASSUME KeepInv, [Next]_vars, NEW u \in Uploads, NEW k \in objects, k \notin objects',
         RowName(u, k), ~OwnRaw(u, k)
  PROVE  Withdrawn(u)'
<1>1. /\ TypeInv /\ k.dir # "posters"
      /\ \A v \in Uploads : /\ RowName(v, k) => v = u
                            /\ k # RawKey(v)
                            /\ wpc[v] \in {"retract", "discard"} => k # OutputKey(v)
  BY RowNameFacts DEF KeepInv, BaseInv, PrePublish
<1>2. \A d \in Deleters : DeleteKeeps(d)
  BY DEF KeepInv
<1>3. Taken(k)
  BY <1>1, <1>2, Takings DEF DeleteKeeps
<1>4. PICK d \in Deleters : dpc[d] = "object" /\ dpc'[d] = "row" /\ did' = did /\ k = dsnap[d].key
  BY <1>1, <1>2, <1>3 DEF Taken, DeleteKeeps
<1>5. did[d] \in Uploads /\ RowName(did[d], k)
  BY <1>1, <1>2, <1>4 DEF DeleteKeeps
<1>. QED
  BY <1>1, <1>4, <1>5 DEF Withdrawn

(* A PATCH takes away what it read of the video before, and nothing else   *)
(* that its row may name.                                                  *)
LEMMA TakenByPatch ==
  ASSUME KeepInv, NEW q \in Patchers, LoadForVisibility(q) \/ Patch(q),
         NEW u \in Uploads, NEW k \in objects, k \notin objects', RowName(u, k)
  PROVE  vpc[q] = "remove_old" /\ vid[q] = u /\ k = vsnap[q].key
<1>1. /\ k.dir # "posters" /\ (k.tag = q => Passed(q, u))
      /\ \A v \in Uploads : RowName(v, k) => v = u
  BY RowNameFacts DEF KeepInv
<1>2. VisLoads(q) \/ VisCascades(q) \/ VisRuns(q)
  BY VisEffect DEF KeepInv
<1>3. /\ CopyKeeps(q) /\ PatchKeeps(q) /\ VisFacts(q) /\ vleft[q] \subseteq Keys /\ None \notin Keys
      /\ vcopy[q] # None => vcopy[q].dir = vsnap[q].key.dir
  BY StoreAssumption DEF KeepInv, BaseInv, RawInv, RawRead, VisTypeOK
<1>4. vpc[q] \in {"undo", "remove_old"} /\ k \in vleft[q] /\ vid[q] \in Ids
  BY <1>2, <1>3 DEF VisLoads, VisCascades, VisRuns, VisCopies, VisWrites, VisRemoves, VisFacts
<1>5. CASE vpc[q] = "undo"
  <2>1. k = vcopy[q] /\ k.tag = q /\ k.dir = vsnap[q].key.dir
    BY <1>3, <1>4, <1>5 DEF CopyKeeps
  <2>2. WorkedOn(q, u) /\ vid[q] # u
    BY <1>1, <1>5, <2>1 DEF Passed
  <2>3. vid[q] \in Jobs
    BY <2>2 DEF WorkedOn, Jobs
  <2>. QED
    BY <1>1, <1>3, <2>1, <2>3 DEF CopyKeeps
<1>6. CASE vpc[q] = "remove_old"
  <2>1. k = vsnap[q].key
    BY <1>3, <1>4, <1>6 DEF CopyKeeps
  <2>2. vid[q] \in Uploads
    BY <1>1, <1>3, <1>4, <2>1 DEF CopyKeeps, Ids
  <2>. QED
    BY <1>1, <1>3, <1>6, <2>1, <2>2 DEF PatchKeeps
<1>. QED
  BY <1>4, <1>5, <1>6

(* No step takes away the copy of a PATCH that is about to name it.        *)
LEMMA CopyStays ==
  ASSUME KeepInv, [PatchedNext]_pvars, NEW p \in Patchers, vid[p] \in Uploads,
         vpc[p] = "update", vcopy[p] # None
  PROVE  vcopy[p] \in objects'
<1>1. /\ CopyKeeps(p) /\ PatchKeeps(p) /\ TypeInv /\ VisTypeOK
      /\ vcopy[p].dir = vsnap[p].key.dir /\ Uploads \cap Jobs = {}
  BY StoreAssumption DEF KeepInv, BaseInv, RawInv, RawRead
<1>2. PICK k \in objects : k = vcopy[p]
  BY <1>1 DEF PatchKeeps
<1>3. k.tag = p /\ k.dir # "posters"
  BY <1>1, <1>2, RowNameFacts DEF PatchKeeps, CopyKeeps
<1>4. \A u \in Uploads : ~RowName(u, k)
  <2>1. ASSUME NEW u \in Uploads, RowName(u, k) PROVE FALSE
    <3>1. Passed(p, u)
      BY <1>3, <2>1, RowNameFacts
    <3>. QED
      BY <1>1, <3>1 DEF Passed, WorkedOn, Jobs
  <2>. QED
    BY <2>1
<1>5. SUFFICES ASSUME k \notin objects' PROVE FALSE
  BY <1>2
<1>6. CASE [Next]_vars
  <2>1. Taken(k)
    BY <1>1, <1>5, <1>6, Takings DEF KeepInv, DeleteKeeps
  <2>2. \A u \in Uploads : k # RawKey(u) /\ (wpc[u] \in {"retract", "discard"} => k # OutputKey(u))
    <3>1. \A u \in Uploads : /\ RawKey(u).tag = u /\ OutputKey(u).tag = Delivery(u)
                             /\ wpc[u] # "idle" => Delivery(u) \in Jobs
      BY <1>1, NamesType DEF RawKey, OutputKey, Key
    <3>. QED
      BY <1>3, <3>1, StoreAssumption DEF Ids
  <2>3. \A d \in Deleters :
          /\ dpc[d] = "object" =>
               (did[d] \in Uploads /\ RowName(did[d], dsnap[d].key)) \/ dsnap[d].key.dir = "posters"
          /\ dpc[d] = "poster_object" => dposter[d].key.dir = "posters"
    BY DEF KeepInv, DeleteKeeps
  <2>. QED
    BY <1>3, <1>4, <2>1, <2>2, <2>3 DEF Taken
<1>7. ASSUME NEW q \in Patchers, LoadForVisibility(q) \/ Patch(q)
      PROVE  FALSE
  <2>1. (VisLoads(q) \/ VisCascades(q) \/ VisRuns(q)) /\ VisKeeps(q)
    BY <1>7, VisEffect DEF KeepInv
  <2>2. vpc[q] \in {"undo", "remove_old"} /\ k \in vleft[q]
    BY <1>5, <2>1 DEF VisLoads, VisCascades, VisRuns, VisCopies, VisWrites, VisRemoves
  <2>3. q # p /\ CopyKeeps(q) /\ PatchKeeps(q) /\ VisFacts(q)
    BY <1>2, <2>2 DEF KeepInv, BaseInv
  <2>4. vpc[q] # "undo"
    BY <1>2, <1>3, <2>2, <2>3 DEF CopyKeeps
  <2>5. k = vsnap[q].key /\ vid[q] \in Ids
    BY <2>2, <2>3, <2>4 DEF CopyKeeps, VisFacts
  <2>. QED
    BY <1>3, <1>4, <2>3, <2>5 DEF CopyKeeps, PatchKeeps, Ids
<1>. QED
  BY <1>6, <1>7, PatchedSteps

(* An output that is about to be published is taken away by nobody.        *)
LEMMA OutputStays ==
  ASSUME KeepInv, [PatchedNext]_pvars, NEW u \in Uploads, wpc'[u] = "publish"
  PROVE  OutputKey(u)' \in objects'
<1>1. TypeInv /\ RowKeeps(u) /\ OutputKey(u).dir = "videos" /\ OutputKey(u).tag = Delivery(u)
  BY DEF KeepInv, BaseInv, OutputKey, Key
<1>2. \A v \in Uploads : RowName(v, OutputKey(u)) => wpc[u] # "publish"
  BY RowNameFacts DEF PrePublish
<1>3. CASE [Next]_vars
  <2>1. SUFFICES ASSUME OutputKey(u)' \notin objects' PROVE FALSE
    OBVIOUS
  <2>2. wpc[u] = "publish" /\ run'[u] = run[u] /\ wvis'[u] = wvis[u]
    BY <1>1, <1>3, <2>1, PublishReached
  <2>3. OutputKey(u)' = OutputKey(u)
    BY <2>2 DEF OutputKey, Delivery
  <2>4. PICK k \in objects : k = OutputKey(u) /\ k \notin objects'
    BY <1>1, <2>1, <2>2, <2>3 DEF RowKeeps
  <2>5. Taken(k)
    BY <1>1, <1>3, <2>4, Takings DEF KeepInv, DeleteKeeps
  <2>6. \A v \in Uploads : k # RawKey(v) /\ (wpc[v] \in {"retract", "discard"} => k # OutputKey(v))
    BY <1>1, <2>2, <2>4 DEF RawKey, OutputKey, Delivery, Key
  <2>7. \A d \in Deleters :
          /\ dpc[d] = "object" =>
               (did[d] \in Uploads /\ RowName(did[d], dsnap[d].key)) \/ dsnap[d].key.dir = "posters"
          /\ dpc[d] = "poster_object" => dposter[d].key.dir = "posters"
    BY DEF KeepInv, DeleteKeeps
  <2>. QED
    BY <1>1, <1>2, <2>2, <2>4, <2>5, <2>6, <2>7 DEF Taken
<1>4. ASSUME UNCHANGED videoVars, NEW q \in Patchers, LoadForVisibility(q) \/ Patch(q)
      PROVE  OutputKey(u)' \in objects'
  <2>1. OutputKey(u)' = OutputKey(u) /\ wpc[u] = "publish" /\ OutputKey(u) \in objects
    BY <1>1, <1>4 DEF OutputKey, Delivery, RowKeeps, videoVars
  <2>2. /\ VisLoads(q) \/ VisCascades(q) \/ VisRuns(q)
        /\ CopyKeeps(q) /\ PatchKeeps(q) /\ VisFacts(q) /\ VisTypeOK /\ None \notin Keys
    BY <1>4, VisEffect, StoreAssumption DEF KeepInv, BaseInv
  <2>3. SUFFICES ASSUME OutputKey(u) \notin objects' PROVE FALSE
    BY <2>1
  <2>4. vpc[q] \in {"undo", "remove_old"} /\ OutputKey(u) \in vleft[q] /\ vid[q] \in Ids
    BY <2>1, <2>2, <2>3 DEF VisLoads, VisCascades, VisRuns, VisCopies, VisWrites, VisRemoves, VisFacts
  <2>5. vpc[q] # "undo"
    <3>1. vleft[q] \subseteq Keys
      BY <2>2 DEF VisTypeOK
    <3>2. OutputKey(u).tag # q
      BY <1>1, <2>1, NamesType, StoreAssumption DEF Ids
    <3>. QED
      BY <2>2, <2>4, <3>1, <3>2 DEF CopyKeeps
  <2>6. OutputKey(u) = vsnap[q].key
    BY <2>2, <2>4, <2>5 DEF CopyKeeps
  <2>. QED
    BY <1>1, <1>2, <2>1, <2>2, <2>4, <2>6 DEF CopyKeeps, PatchKeeps, Ids
<1>. QED
  BY <1>3, <1>4, PatchedSteps

(* A step of VideoSystem keeps the names that the row of a video holds.    *)
LEMMA RowKeepsOwnStep ==
  ASSUME KeepInv, [PatchedNext]_pvars, [Next]_vars, "lost_reply" \notin Faults, NEW u \in Uploads
  PROVE  RowKeeps(u)'
<1>1. TypeInv /\ RowKeeps(u) /\ u \in Ids /\ u \notin Jobs
  BY StoreAssumption DEF KeepInv, BaseInv, Ids
<1>2. RowStep(u)
  BY <1>1, RowSteps
<1>3. \A k : RowName(u, k) => RowName(u, k)'
  BY RowNameStays
<1>4. ASSUME Exists(u)'
      PROVE  /\ RowName(u, rows[u].key)'
             /\ rows'[u].status = "ready" => ~OwnRaw(u, rows'[u].key)
  <2>1. rows'[u].status # "none"
    BY <1>4 DEF Exists
  <2>2. CASE rows'[u].status = rows[u].status /\ rows'[u].key = rows[u].key
    BY <1>1, <1>3, <2>1, <2>2 DEF RowKeeps, Exists, RowName, Passed, WorkedOn, VideoKey, OwnRaw
  <2>3. CASE rows'[u] = VideoRow(u)
    BY <2>3 DEF VideoRow, NoRow, RawKey, Key, RowName, OwnRaw
  <2>4. CASE Exists(u) /\ rows'[u].status = "failed" /\ rows'[u].key = rows[u].key
    BY <1>1, <1>3, <2>4 DEF RowKeeps, RowName, Passed, WorkedOn, VideoKey, OwnRaw
  <2>5. CASE /\ wpc[u] = "publish" /\ wpc'[u] \notin PrePublish /\ run' = run
             /\ rows'[u].key = OutputKey(u)
    <3>1. run[u] \in 1..run[u]
      BY <1>1, <2>5, StoreAssumption DEF TypeInv, Runs
    <3>. QED
      BY <2>5, <3>1 DEF OutputKey, Delivery, Key, VideoKey, RowName, OwnRaw
  <2>. QED
    BY <1>1, <1>2, <2>1, <2>2, <2>3, <2>4, <2>5 DEF RowStep, NoRow
<1>5. rows'[u].poster # None => rows'[u].poster \in {u} \X Runs
  <2>1. CASE SameUpload(u) /\ (rows'[u] = rows[u] \/ \E d \in Deleters : DeletedBy(u, d))
    BY <1>1, <2>1 DEF DeletedBy, NoRow, RowKeeps
  <2>2. CASE VideoStep(u)
    <3>1. FieldMove(u)
      BY <1>1, <2>2, FieldMoves
    <3>2. wpc[u] = "link" => Delivery(u) \in {u} \X Runs
      BY <1>1 DEF Delivery, TypeInv
    <3>3. NoRow.poster = None /\ VideoRow(u).poster = None
      BY DEF NoRow, VideoRow
    <3>4. rows[u].poster # None => rows[u].poster \in {u} \X Runs
      BY <1>1 DEF RowKeeps
    <3>. QED
      BY <3>1, <3>2, <3>3, <3>4 DEF FieldMove
  <2>. QED
    BY <1>1, <2>1, <2>2, UploadFrame
<1>6. wpc'[u] = "publish" => OutputKey(u)' \in objects'
  BY OutputStays
<1>7. rows'[u].status = "ready" => Exists(u)'
  BY DEF Exists
<1>. QED
  BY <1>4, <1>5, <1>6, <1>7 DEF RowKeeps, OwnRaw

(* So does a PATCH: its copy is a key of the video from its statement on.  *)
LEMMA RowKeepsVisStep ==
  ASSUME KeepInv, [PatchedNext]_pvars, "lost_reply" \notin Faults, NEW u \in Uploads,
         NEW q \in Patchers, LoadForVisibility(q) \/ Patch(q)
  PROVE  RowKeeps(u)'
<1>1. /\ RowKeeps(u) /\ CopyKeeps(q) /\ PatchKeeps(q) /\ q \notin Uploads
      /\ vcopy[q] # None => vcopy[q].dir = vsnap[q].key.dir
  BY StoreAssumption DEF KeepInv, RawInv, RawRead, Ids
<1>2. /\ VisRow(u, q) /\ rows'[u].status = rows[u].status /\ rows'[u].poster = rows[u].poster
  BY VisRows DEF KeepInv, Ids
<1>3. \A k : RowName(u, k) => RowName(u, k)'
  BY RowNameStays
<1>4. wpc'[u] = "publish" => OutputKey(u)' \in objects'
  BY OutputStays
<1>5. CASE rows'[u].key = rows[u].key
  BY <1>1, <1>2, <1>3, <1>4, <1>5
     DEF RowKeeps, Exists, RowName, Passed, WorkedOn, VideoKey, OwnRaw
<1>6. CASE rows'[u].key # rows[u].key
  <2>1. /\ vid[q] = u /\ vid' = vid /\ vcopy[q] # None /\ rows'[u].key = vcopy[q]
        /\ vpc'[q] \in {"answered", "load_poster", "remove_old"}
    BY <1>2, <1>6 DEF VisRow
  <2>2. vcopy[q].tag = q /\ vcopy[q].dir # "posters"
    BY <1>1, <2>1, RowNameFacts DEF CopyKeeps, PatchKeeps
  <2>3. RowName(u, rows[u].key)'
    BY <2>1, <2>2 DEF RowName, Passed, WorkedOn
  <2>. QED
    BY <1>1, <1>2, <1>4, <2>1, <2>2, <2>3 DEF RowKeeps, OwnRaw
<1>. QED
  BY <1>5, <1>6

(* A poster's row names a poster.                                          *)
LEMMA PosterKeysStep ==
  ASSUME KeepInv, [PatchedNext]_pvars, NEW j \in Jobs, Exists(j)'
  PROVE  rows'[j].key.dir = "posters"
<1>1. TypeInv /\ (Exists(j) => rows[j].key.dir = "posters") /\ j \in Ids /\ j \notin Uploads
  BY StoreAssumption DEF KeepInv, BaseInv, Ids
<1>2. CASE [Next]_vars
  <2>1. \A u \in Uploads : PosterRow(u).key.dir = "posters"
    BY DEF PosterRow, NoRow, PosterKey, Key
  <2>2. NoRow.status = "none"
    BY DEF NoRow
  <2>. QED
    BY <1>1, <1>2, <2>1, <2>2, PosterFrame DEF PosterInserted, Exists
<1>3. ASSUME NEW q \in Patchers, LoadForVisibility(q) \/ Patch(q)
      PROVE  rows'[j].key.dir = "posters"
  <2>1. VisRow(j, q) /\ rows'[j].status = rows[j].status
    BY <1>1, <1>3, VisRows DEF KeepInv
  <2>2. vid[q] = j /\ vcopy[q] # None => vcopy[q].dir = "posters"
    BY DEF KeepInv, RawInv, RawRead, CopyKeeps
  <2>. QED
    BY <1>1, <2>1, <2>2 DEF VisRow, Exists
<1>. QED
  BY <1>2, <1>3, PatchedSteps

(* Every step keeps the keys that DELETE requests have read.               *)
LEMMA DeleteKeepsStep ==
  ASSUME KeepInv, [PatchedNext]_pvars, NEW d \in Deleters
  PROVE  DeleteKeeps(d)'
<1>. USE DEF DeleteKeeps
<1>1. DeleteKeeps(d) /\ TypeInv
  BY DEF KeepInv, BaseInv
<1>2. \A u \in Uploads : \A k : RowName(u, k) => RowName(u, k)'
  BY RowNameStays
<1>3. CASE SameDelete(d)
  BY <1>1, <1>2, <1>3 DEF SameDelete, RowName, Passed, WorkedOn, VideoKey, OwnRaw
<1>4. CASE LoadForDelete(d)
  <2>1. PICK id \in Ids : Exists(id) /\ did'[d] = id /\ dsnap'[d] = rows[id]
    BY <1>1, <1>4 DEF LoadForDelete, TypeInv, TypeOK, DeleteTypeOK
  <2>2. dpc'[d] = "object" /\ rows[id].rends = {}
    BY <1>1, <1>4, <2>1 DEF LoadForDelete, DeleteStep, TypeInv, TypeOK, DeleteTypeOK, KeepInv,
                            BaseInv, PlainRow
  <2>3. CASE id \in Uploads
    <3>1. PICK k : k = rows[id].key
      OBVIOUS
    <3>2. RowName(id, k)'
      BY <1>2, <2>1, <2>3, <3>1 DEF KeepInv, RowKeeps
    <3>. QED
      BY <2>1, <2>2, <2>3, <3>1, <3>2 DEF RowName, Passed, WorkedOn, VideoKey, OwnRaw
  <2>4. CASE id \in Jobs
    BY <2>1, <2>2, <2>4, StoreAssumption DEF KeepInv
  <2>. QED
    BY <2>1, <2>3, <2>4 DEF Ids
<1>5. CASE Delete(d)
  <2>1. CASE DeleteRendition(d)
    BY <1>1, <2>1 DEF DeleteRendition, DeleteStep, TypeInv, TypeOK, DeleteTypeOK
  <2>2. CASE LoadPoster(d)
    <3>1. /\ dsnap[d].poster \in Jobs /\ dsnap' = dsnap
          /\ dpc'[d] # "object"
          /\ dpc'[d] = "poster_object" =>
               Exists(dsnap[d].poster) /\ dposter'[d] = rows[dsnap[d].poster]
      BY <1>1, <2>2 DEF LoadPoster, DeleteStep, TypeInv, TypeOK, DeleteTypeOK
    <3>. QED
      BY <1>1, <3>1 DEF KeepInv
  <2>3. CASE DeleteObject(d) \/ DeleteRecord(d) \/ DeletePosterObject(d) \/ DeletePosterRecord(d)
    BY <1>1, <2>3 DEF DeleteObject, DeleteRecord, DeletePosterObject, DeletePosterRecord,
                      DeleteStep, Remaining, TypeInv, TypeOK, DeleteTypeOK
  <2>. QED
    BY <1>5, <2>1, <2>2, <2>3 DEF Delete
<1>6. CASE UNCHANGED deleteVars
  BY <1>3, <1>6 DEF SameDelete, deleteVars
<1>. QED
  BY <1>1, <1>3, <1>4, <1>5, <1>6, DeleteFrame, PatchedSteps

(* Every step keeps what a PATCH holds of its own.                         *)
LEMMA CopyKeepsStep ==
  ASSUME KeepInv, [PatchedNext]_pvars, NEW p \in Patchers
  PROVE  CopyKeeps(p)'
<1>. USE DEF CopyKeeps
<1>1. /\ CopyKeeps(p) /\ VisFacts(p) /\ VisTypeOK
      /\ \A j \in Jobs : Exists(j) => rows[j].key.dir = "posters"
  BY DEF KeepInv, BaseInv
<1>2. CASE UNCHANGED visVars
  BY <1>1, <1>2 DEF visVars
<1>3. ASSUME NEW q \in Patchers, LoadForVisibility(q) \/ Patch(q)
      PROVE  CopyKeeps(p)'
  <2>1. VisKeeps(q) /\ (VisLoads(q) \/ VisCascades(q) \/ VisRuns(q))
    BY <1>3, VisEffect DEF KeepInv
  <2>2. CASE p # q
    BY <1>1, <2>1, <2>2 DEF VisKeeps
  <2>3. CASE p = q /\ VisLoads(q)
    BY <1>1, <2>3 DEF VisLoads
  <2>4. CASE p = q /\ VisCascades(q)
    <3>1. vsnap[p].poster \in Jobs
      BY <1>1, <2>4 DEF VisCascades, VisFacts, VisTypeOK, Rows
    <3>. QED
      BY <1>1, <2>4, <3>1 DEF VisCascades
  <2>5. CASE p = q /\ VisRuns(q)
    <3>1. vpc[p] = "copy" => Rotated(p, vsnap[p].key).tag = p
      BY <1>1, RotatedKey DEF VisFacts, PlainRow, VisTypeOK, Rows
    <3>2. vid' = vid /\ vsnap' = vsnap /\ vpc'[p] # "idle"
      BY <2>1, <2>5 DEF VisRuns, VisKeeps
    <3>3. CASE VisCopies(p)
      BY <1>1, <3>1, <3>2, <3>3 DEF VisCopies
    <3>4. CASE VisWrites(p)
      BY <1>1, <3>2, <3>4 DEF VisWrites, NextRow
    <3>5. CASE VisRemoves(p)
      BY <1>1, <3>2, <3>5 DEF VisRemoves, NextRow
    <3>. QED
      BY <1>1, <2>5, <3>2, <3>3, <3>4, <3>5 DEF VisRuns
  <2>. QED
    BY <2>1, <2>2, <2>3, <2>4, <2>5
<1>. QED
  BY <1>2, <1>3, PatchedSteps

(* The steps of the others keep what a PATCH has read of a video.          *)
LEMMA PatchKeepsOthersStep ==
  ASSUME KeepInv, [PatchedNext]_pvars, "lost_reply" \notin Faults, NEW p \in Patchers,
         vpc'[p] = vpc[p], vid'[p] = vid[p], vsnap'[p] = vsnap[p], vcopy'[p] = vcopy[p],
         \/ [Next]_vars
         \/ \E q \in Patchers \ {p} : LoadForVisibility(q) \/ Patch(q)
  PROVE  PatchKeeps(p)'
<1>1. SUFFICES ASSUME vid[p] \in Uploads PROVE PatchKeeps(p)'
  BY DEF PatchKeeps
<1>2. PICK u \in Uploads, k \in {vsnap[p].key} : u = vid[p]
  BY <1>1
<1>3. /\ RowName(u, k) /\ k.tag # p /\ (vsnap[p].poster # None => vsnap[p].poster \in {u} \X Runs)
      /\ vpc[p] = "remove_old" /\ rows[u].status = "ready" => k # rows[u].key
      /\ TypeInv /\ u \in Ids /\ u \notin Jobs
  BY <1>1, <1>2, StoreAssumption DEF KeepInv, BaseInv, PatchKeeps, Ids
<1>4. RowName(u, k)'
  BY <1>3, RowNameStays
<1>5. vpc[p] = "update" /\ vcopy[p] # None => vcopy[p] \in objects'
  BY <1>1, CopyStays
<1>6. vpc[p] = "remove_old" /\ rows'[u].status = "ready" => k # rows'[u].key
  <2>1. CASE [Next]_vars
    <3>1. RowStep(u)
      BY <1>3, <2>1, RowSteps
    <3>2. wpc[u] = "publish" => k # OutputKey(u)
      BY <1>3, RowNameFacts DEF PrePublish
    <3>3. NoRow.status # "ready" /\ VideoRow(u).status # "ready"
      BY DEF NoRow, VideoRow
    <3>. QED
      BY <1>3, <3>1, <3>2, <3>3 DEF RowStep
  <2>2. ASSUME NEW q \in Patchers, LoadForVisibility(q) \/ Patch(q)
        PROVE  vpc[p] = "remove_old" /\ rows'[u].status = "ready" => k # rows'[u].key
    <3>1. VisRow(u, q) /\ rows'[u].status = rows[u].status
      BY <1>3, <2>2, VisRows DEF KeepInv
    <3>2. vpc[q] = "update" /\ vid[q] = u => k.tag # q
      BY <1>3, RowNameFacts DEF Passed
    <3>3. vcopy[q] # None => vcopy[q].tag = q
      BY DEF KeepInv, CopyKeeps
    <3>. QED
      BY <1>3, <3>1, <3>2, <3>3 DEF VisRow
  <2>. QED
    BY <2>1, <2>2
<1>. QED
  BY <1>2, <1>3, <1>4, <1>5, <1>6 DEF PatchKeeps, RowName, OwnRaw, Passed, WorkedOn, VideoKey

(* So do its own.                                                          *)
LEMMA PatchKeepsOwnStep ==
  ASSUME KeepInv, [PatchedNext]_pvars, "lost_reply" \notin Faults, NEW p \in Patchers,
         LoadForVisibility(p) \/ Patch(p)
  PROVE  PatchKeeps(p)'
<1>1. VisKeeps(p) /\ (VisLoads(p) \/ VisCascades(p) \/ VisRuns(p))
  BY VisEffect DEF KeepInv
<1>2. /\ CopyKeeps(p) /\ PatchKeeps(p) /\ VisFacts(p) /\ VisTypeOK
      /\ Uploads \cap Jobs = {} /\ None \notin Ids /\ Ids = Uploads \cup Jobs
  BY StoreAssumption DEF KeepInv, BaseInv, Ids
<1>3. CASE VisLoads(p)
  <2>1. PICK i \in Ids : Exists(i) /\ vid'[p] = i /\ vsnap'[p] = rows[i]
    BY <1>3 DEF VisLoads
  <2>2. vcopy'[p] = None /\ vpc'[p] \in {"copy", "update"} /\ vid[p] = None
    BY <1>2, <1>3 DEF VisLoads, CopyKeeps, VisFacts
  <2>3. SUFFICES ASSUME i \in Uploads PROVE PatchKeeps(p)'
    BY <2>1 DEF PatchKeeps
  <2>4. PICK k : k = rows[i].key
    OBVIOUS
  <2>5. RowName(i, k) /\ (rows[i].poster # None => rows[i].poster \in {i} \X Runs)
    BY <2>1, <2>3, <2>4 DEF KeepInv, RowKeeps
  <2>6. RowName(i, k)' /\ k.tag # p
    <3>1. ~Passed(p, i)
      BY <1>2, <2>1, <2>2, <2>3 DEF Passed, WorkedOn, Jobs
    <3>. QED
      BY <2>3, <2>5, <3>1, RowNameStays, RowNameFacts
  <2>. QED
    BY <2>1, <2>2, <2>4, <2>5, <2>6 DEF PatchKeeps, RowName, OwnRaw, Passed, WorkedOn, VideoKey
<1>4. CASE VisCascades(p)
  <2>1. vid'[p] \in Jobs
    BY <1>2, <1>4 DEF VisCascades, VisFacts, VisTypeOK, Rows
  <2>. QED
    BY <1>2, <2>1 DEF PatchKeeps
<1>5. CASE VisRuns(p)
  <2>1. vid' = vid /\ vsnap' = vsnap
    BY <1>5 DEF VisRuns
  <2>2. SUFFICES ASSUME vid[p] \in Uploads PROVE PatchKeeps(p)'
    BY <2>1 DEF PatchKeeps
  <2>3. PICK u \in Uploads, k \in {vsnap[p].key} : u = vid[p]
    BY <2>2
  <2>4. /\ RowName(u, k) /\ k.tag # p /\ (vsnap[p].poster # None => vsnap[p].poster \in {u} \X Runs)
        /\ vpc[p] = "remove_old" /\ rows[u].status = "ready" => k # rows[u].key
    BY <2>2, <2>3, <1>2 DEF PatchKeeps
  <2>5. RowName(u, k)'
    BY <2>4, RowNameStays
  <2>6. vpc'[p] = "update" /\ vcopy'[p] # None => vcopy'[p] \in objects'
    BY <1>2, <1>5 DEF VisRuns, VisCopies, VisWrites, VisRemoves, NextRow, CopyKeeps
  <2>7. vpc'[p] = "remove_old" /\ rows'[u].status = "ready" => k # rows'[u].key
    <3>1. CASE vpc[p] = "remove_old" /\ rows' = rows
      BY <2>4, <3>1
    <3>2. CASE /\ vpc[p] = "update" /\ vcopy[p] # None
               /\ Exists(vid[p]) /\ rows' = [rows EXCEPT ![vid[p]] = NewRow(p)]
      <4>1. rows'[u].key = vcopy[p]
        <5>1. StoreTypeOK /\ vsnap[p].rends = {} /\ u \in Ids
          BY <1>2, <3>2, <2>3 DEF KeepInv, BaseInv, TypeInv, TypeOK, VisFacts, PlainRow
        <5>2. NewRow(p).key = vcopy[p]
          BY <1>2, <2>3, <3>2, <5>1, NewRowFields
        <5>. QED
          BY <2>3, <3>2, <5>1, <5>2 DEF StoreTypeOK
      <4>. QED
        BY <1>2, <2>4, <3>2, <4>1 DEF CopyKeeps
    <3>3. vpc'[p] = "remove_old" =>
            \/ vpc[p] = "remove_old" /\ rows' = rows
            \/ /\ vpc[p] = "update" /\ vcopy[p] # None
               /\ Exists(vid[p]) /\ rows' = [rows EXCEPT ![vid[p]] = NewRow(p)]
      BY <1>5 DEF VisRuns, VisCopies, VisWrites, VisRemoves, NextRow
    <3>. QED
      BY <3>1, <3>2, <3>3
  <2>. QED
    BY <2>1, <2>3, <2>4, <2>5, <2>6, <2>7
       DEF PatchKeeps, RowName, OwnRaw, Passed, WorkedOn, VideoKey
<1>. QED
  BY <1>1, <1>3, <1>4, <1>5

(* No step of VideoSystem takes a published object away from its row.      *)
LEMMA ReadyOwnStep ==
  ASSUME KeepInv, [PatchedNext]_pvars, [Next]_vars, "lost_reply" \notin Faults,
         NEW u \in Uploads, rows'[u].status = "ready"
  PROVE  rows'[u].key \in objects' \/ Withdrawn(u)'
<1>1. /\ TypeInv /\ RowKeeps(u) /\ u \in Ids /\ u \notin Jobs
      /\ rows[u].status = "ready" => rows[u].key \in objects \/ Withdrawn(u)
  BY StoreAssumption DEF KeepInv, BaseInv, Ids, ReadyHasObject
<1>2. NoRow.status = "none" /\ VideoRow(u).status = "processing"
  BY DEF NoRow, VideoRow
<1>3. CASE wpc[u] = "publish" /\ objects' = objects /\ rows'[u].key = OutputKey(u)
  BY <1>1, <1>3 DEF RowKeeps
<1>4. CASE rows'[u].status = rows[u].status /\ rows'[u].key = rows[u].key
  <2>1. PICK k : k = rows[u].key
    OBVIOUS
  <2>2. RowName(u, k) /\ ~OwnRaw(u, k)
    BY <1>1, <1>4, <2>1 DEF RowKeeps, Exists
  <2>3. CASE k \in objects
    BY <1>4, <2>1, <2>2, <2>3, TakenByDelete
  <2>4. CASE Withdrawn(u)
    BY <1>1, <1>2, <2>4, WithdrawnStable
  <2>. QED
    BY <1>1, <1>4, <2>1, <2>3, <2>4
<1>. QED
  BY <1>1, <1>2, <1>3, <1>4, RowSteps DEF RowStep

(* Nor does a PATCH: what it removes its row no longer names.              *)
LEMMA ReadyVisStep ==
  ASSUME KeepInv, [PatchedNext]_pvars, UNCHANGED deleteVars, NEW q \in Patchers,
         LoadForVisibility(q) \/ Patch(q), NEW u \in Uploads, rows'[u].status = "ready"
  PROVE  rows'[u].key \in objects' \/ Withdrawn(u)'
<1>1. /\ VisRow(u, q) /\ rows'[u].status = rows[u].status /\ RowKeeps(u) /\ PatchKeeps(q)
      /\ rows[u].status = "ready" => rows[u].key \in objects \/ Withdrawn(u)
  BY VisRows DEF KeepInv, Ids, ReadyHasObject
<1>2. Withdrawn(u) => Withdrawn(u)'
  BY DEF Withdrawn, deleteVars
<1>3. CASE rows'[u].key = rows[u].key /\ rows[u].key \in objects
  <2>1. PICK k \in objects : k = rows[u].key
    BY <1>3
  <2>2. RowName(u, k)
    BY <1>1, <2>1 DEF RowKeeps, Exists
  <2>3. vpc[q] = "remove_old" /\ vid[q] = u => k # vsnap[q].key
    BY <1>1, <2>1 DEF PatchKeeps
  <2>. QED
    BY <1>3, <2>1, <2>2, <2>3, TakenByPatch
<1>4. CASE rows'[u].key # rows[u].key
  BY <1>1, <1>4 DEF VisRow, PatchKeeps
<1>. QED
  BY <1>1, <1>2, <1>3, <1>4

(* There is nothing to begin with.                                         *)
LEMMA KeepInit == PatchedInit => KeepInv
<1>. SUFFICES ASSUME PatchedInit PROVE KeepInv
  OBVIOUS
<1>1. BaseInv /\ RawInv
  <2>1. RawInv
    BY StoreAssumption
       DEF PatchedInit, Init, StoreInit, VisInit, RawInv, RawRow, RawRead, Exists, NoRow, Ids
  <2>. QED
    BY <2>1, BaseInit
<1>2. \A i \in Ids : rows[i] = NoRow
  BY DEF PatchedInit, Init, StoreInit
<1>3. NoRow.status = "none" /\ NoRow.poster = None /\ NoRow.rends = {}
  BY DEF NoRow
<1>4. \A u \in Uploads : RowKeeps(u)
  BY <1>2, <1>3 DEF PatchedInit, Init, VideoInit, RowKeeps, Exists, Ids
<1>5. \A d \in Deleters : DeleteKeeps(d)
  BY <1>3 DEF PatchedInit, Init, DeleteInit, DeleteKeeps
<1>6. \A p \in Patchers : CopyKeeps(p) /\ PatchKeeps(p)
  BY StoreAssumption DEF PatchedInit, VisInit, CopyKeeps, PatchKeeps, Ids
<1>7. ReadyHasObject /\ \A j \in Jobs : ~Exists(j)
  BY <1>2, <1>3 DEF ReadyHasObject, Exists, Ids
<1>. QED
  BY <1>1, <1>4, <1>5, <1>6, <1>7 DEF KeepInv

(* Every step keeps all this.                                              *)
LEMMA KeepStep ==
  ASSUME KeepInv, [PatchedNext]_pvars, "lost_reply" \notin Faults
  PROVE  KeepInv'
<1>1. BaseInv' /\ RawInv'
  BY BaseStep, RawRowOwnStep, RawRowVisStep, RawReadStep, PatchedSteps DEF KeepInv, RawInv
<1>2. \A u \in Uploads : RowKeeps(u)'
  BY RowKeepsOwnStep, RowKeepsVisStep, PatchedSteps
<1>3. \A j \in Jobs : Exists(j)' => rows'[j].key.dir = "posters"
  BY PosterKeysStep
<1>4. \A d \in Deleters : DeleteKeeps(d)'
  BY DeleteKeepsStep
<1>5. \A p \in Patchers : CopyKeeps(p)'
  BY CopyKeepsStep
<1>6. \A p \in Patchers : PatchKeeps(p)'
  <2>. SUFFICES ASSUME NEW p \in Patchers PROVE PatchKeeps(p)'
    OBVIOUS
  <2>1. CASE [Next]_vars /\ UNCHANGED visVars
    BY <2>1, PatchKeepsOthersStep DEF visVars
  <2>2. ASSUME NEW q \in Patchers \ {p}, LoadForVisibility(q) \/ Patch(q)
        PROVE  PatchKeeps(p)'
    <3>1. VisKeeps(q)
      BY <2>2, VisEffect DEF KeepInv
    <3>. QED
      BY <2>2, <3>1, PatchKeepsOthersStep DEF VisKeeps
  <2>. QED
    BY <2>1, <2>2, PatchKeepsOwnStep, PatchedSteps
<1>7. ReadyHasObject'
  <2>1. \A u \in Uploads :
          rows'[u].status = "ready" => rows'[u].key \in objects' \/ Withdrawn(u)'
    BY ReadyOwnStep, ReadyVisStep, PatchedSteps
  <2>. QED
    BY <2>1 DEF ReadyHasObject
<1>. QED
  BY <1>1, <1>2, <1>3, <1>4, <1>5, <1>6, <1>7 DEF KeepInv

(* Unless a call that reported failure may have taken effect, no PATCH,    *)
(* whatever it overlaps with (another PATCH, the job, a second delivery),  *)
(* takes away the object that a ready video's row points at: the old       *)
(* object goes only after the row has moved on (visibility.py 213-232).    *)
THEOREM PatchedObjectsStay ==
  ASSUME "lost_reply" \notin Faults
  PROVE  PatchedSpec => []ReadyHasObject
<1>1. KeepInv /\ [PatchedNext]_pvars => KeepInv'
  BY KeepStep
<1>2. KeepInv => ReadyHasObject
  BY DEF KeepInv
<1>. QED
  BY <1>1, <1>2, KeepInit, PTL DEF PatchedSpec

(***************************************************************************)
(* What was deleted stays deleted under PATCHes too.  A PATCH mints one    *)
(* name for the copies it makes; the video's and its poster's lie in       *)
(* different directories, and it is past the copying when a row names one. *)
(***************************************************************************)
PosterMade(j) == \E u \in Uploads : Past(u, j, PrePoster)

CopyName(i, k) ==
  /\ k.tag \in Patchers
  /\ IF i \in Uploads
     THEN k.dir # "posters" /\ WorkedOn(k.tag, i) /\ (vid[k.tag] = i => vpc[k.tag] # "copy")
     ELSE k.dir = "posters" /\ vid[k.tag] = i /\ vpc[k.tag] # "copy" /\ PosterMade(i)

UsedName(i, k) == NameOf(i, k) \/ CopyName(i, k)

OwnPoster(i, row) == i \in Uploads /\ row.poster # None => row.poster \in {i} \X Runs

RowUsed(i) == Exists(i) => UsedName(i, rows[i].key) /\ OwnPoster(i, rows[i])

DeleteUsed(d) ==
  /\ dpc[d] # "idle" => UsedName(did[d], dsnap[d].key)
  /\ dpc[d] \in Removed => dsnap[d].key \notin objects
  /\ dpc[d] \in Dropped => ~Exists(did[d])

PatchUsed(p) ==
  /\ vpc[p] # "idle" => UsedName(vid[p], vsnap[p].key) /\ OwnPoster(vid[p], vsnap[p])
  /\ vpc[p] \in {"idle", "copy"} => vcopy[p] = None
  /\ vpc[p] = "update" /\ vcopy[p] # None => UsedName(vid[p], vcopy[p])

UsedInv ==
  /\ \A i \in Ids : RowUsed(i)
  /\ \A d \in Deleters : DeleteUsed(d)
  /\ \A p \in Patchers : PatchUsed(p)

(* A poster that was stored and a name that is used up stay so.            *)
LEMMA MadeStays ==
  ASSUME BaseInv, [PatchedNext]_pvars, NEW i \in Ids
  PROVE  /\ \A k : NameOf(i, k) => NameOf(i, k)'
         /\ i \in Jobs /\ PosterMade(i) => PosterMade(i)'
<1>1. ASSUME NEW k, NameOf(i, k) PROVE NameOf(i, k)'
  <2>1. CASE [Next]_vars
    BY <1>1, <2>1, NameStable DEF BaseInv
  <2>2. CASE UNCHANGED videoVars
    BY <1>1, <2>2 DEF NameOf, VideoName, PosterName, Past, Delivery, videoVars
  <2>. QED
    BY <2>1, <2>2, PatchedSteps
<1>2. ASSUME i \in Jobs, PosterMade(i) PROVE PosterMade(i)'
  <2>1. PICK k : k = [dir |-> "posters", tag |-> i]
    OBVIOUS
  <2>2. i \notin Uploads
    BY <1>2, StoreAssumption
  <2>3. NameOf(i, k)
    BY <1>2, <2>1, <2>2 DEF NameOf, PosterName, PosterMade
  <2>. QED
    BY <1>1, <2>2, <2>3 DEF NameOf, PosterName, PosterMade
<1>. QED
  BY <1>1, <1>2

(* So does a name that a PATCH minted.                                     *)
LEMMA UsedStays ==
  ASSUME BaseInv, UsedInv, [PatchedNext]_pvars, NEW i \in Ids, NEW k, UsedName(i, k)
  PROVE  UsedName(i, k)'
<1>1. ASSUME CopyName(i, k) PROVE CopyName(i, k)'
  <2>. USE DEF CopyName, WorkedOn
  <2>1. PICK p \in Patchers : p = k.tag
    BY <1>1
  <2>2. /\ VisFacts(p) /\ VisTypeOK /\ PatchUsed(p) /\ Jobs \subseteq Ids /\ None \notin Ids
        /\ i \in Uploads => {i} \X Runs \subseteq Jobs /\ i \notin Jobs
        /\ i \notin Uploads => i \in Jobs
    BY StoreAssumption DEF BaseInv, UsedInv, Ids, Jobs
  <2>3. i \notin Uploads => PosterMade(i) /\ PosterMade(i)'
    BY <1>1, <2>2, MadeStays
  <2>4. CASE UNCHANGED visVars
    BY <1>1, <2>1, <2>3, <2>4 DEF visVars
  <2>5. ASSUME NEW q \in Patchers, LoadForVisibility(q) \/ Patch(q)
        PROVE  CopyName(i, k)'
    <3>1. VisKeeps(q) /\ (VisLoads(q) \/ VisCascades(q) \/ VisRuns(q))
      BY <2>5, VisEffect
    <3>2. CASE p # q
      BY <1>1, <2>1, <2>3, <3>1, <3>2 DEF VisKeeps
    <3>3. CASE p = q /\ VisLoads(q)
      BY <1>1, <2>1, <2>2, <3>3 DEF VisLoads, VisFacts
    <3>4. CASE p = q /\ VisCascades(q)
      <4>1. vsnap[p].poster # None /\ vid'[p] = vsnap[p].poster /\ vpc[p] # "idle"
        BY <2>2, <3>4 DEF VisCascades, VisFacts
      <4>2. vid[p] \notin Jobs
        BY <2>2, <4>1 DEF VisFacts, PlainRow
      <4>3. i \in Uploads /\ vid[p] = i
        BY <1>1, <2>1, <2>2, <4>2
      <4>4. vid'[p] \in {i} \X Runs
        BY <2>2, <4>1, <4>3 DEF PatchUsed, OwnPoster
      <4>. QED
        BY <1>1, <2>1, <2>2, <4>3, <4>4
    <3>5. CASE p = q /\ VisRuns(q)
      <4>1. vid' = vid /\ vpc'[p] # "copy"
        BY <3>5 DEF VisRuns, VisCopies, VisWrites, VisRemoves, NextRow
      <4>. QED
        BY <1>1, <2>1, <2>3, <4>1
    <3>. QED
      BY <3>1, <3>2, <3>3, <3>4, <3>5
  <2>. QED
    BY <2>4, <2>5, PatchedSteps
<1>. QED
  BY <1>1, MadeStays DEF UsedName

(* What a name tells of its directory and of the poster it names.          *)
LEMMA UsedFacts ==
  ASSUME TypeInv, NEW i \in Ids, NEW k, UsedName(i, k)
  PROVE  /\ i \in Uploads <=> k.dir # "posters"
         /\ i \in Jobs => PosterMade(i)
         /\ NameOf(i, k) => k.tag \in Ids
<1>1. ASSUME NEW u \in Uploads, Past(u, k.tag, PrePut) PROVE k.tag \in Jobs
  <2>1. run[u] \in 0..MaxRuns /\ MaxRuns \in Nat
    BY StoreAssumption DEF TypeInv, TypeOK, VideoTypeOK
  <2>. QED
    BY <1>1, <2>1 DEF Past, Jobs, Runs
<1>2. NameOf(i, k) => k.tag \in Ids
  BY <1>1 DEF NameOf, VideoName, PosterName, Ids
<1>. QED
  BY <1>2, StoreAssumption DEF UsedName, NameOf, VideoName, PosterName, CopyName, PosterMade, Ids

(* No object is stored again under a name that is used up.                 *)
LEMMA UsedNotStored ==
  ASSUME BaseInv, UsedInv, [PatchedNext]_pvars, NEW i \in Ids, NEW k, UsedName(i, k),
         k \notin objects
  PROVE  k \notin objects'
<1>1. ASSUME [Next]_vars, k \in objects' PROVE FALSE
  <2>1. PICK v \in Uploads : Storable(v, k)
    BY <1>1, Additions DEF BaseInv
  <2>2. Delivery(v) \in Jobs \/ wpc[v] = "idle"
    BY NamesType DEF BaseInv
  <2>3. k.tag \in Ids
    BY <2>1, <2>2 DEF Storable, RawKey, OutputKey, PosterKey, Key, Ids
  <2>4. ~CopyName(i, k)
    BY <2>3, StoreAssumption DEF CopyName
  <2>. QED
    BY <2>1, <2>4, NamesUsedOnce DEF UsedName, BaseInv
<1>2. ASSUME NEW q \in Patchers, LoadForVisibility(q) \/ Patch(q), k \in objects' PROVE FALSE
  <2>1. VisLoads(q) \/ VisCascades(q) \/ VisRuns(q)
    BY <1>2, VisEffect
  <2>2. vpc[q] = "copy" /\ k = Rotated(q, vsnap[q].key)
    BY <1>2, <2>1 DEF VisLoads, VisCascades, VisRuns, VisCopies, VisWrites, VisRemoves
  <2>3. VisFacts(q) /\ VisTypeOK /\ PatchUsed(q) /\ vid[q] \in Ids /\ vsnap[q].key \in Keys
    BY <2>2 DEF BaseInv, UsedInv, VisFacts, VisTypeOK, PlainRow, Rows
  <2>4. k.tag = q /\ k.dir = vsnap[q].key.dir
    BY <2>2, <2>3, RotatedKey
  <2>5. vid[q] \in Uploads <=> k.dir # "posters"
    BY <2>2, <2>3, <2>4, UsedFacts DEF PatchUsed, BaseInv
  <2>6. q \notin Ids
    BY StoreAssumption
  <2>7. CopyName(i, k)
    BY <2>4, <2>6, UsedFacts DEF UsedName, BaseInv
  <2>. QED
    BY <2>2, <2>4, <2>5, <2>7, StoreAssumption DEF CopyName, WorkedOn, Jobs, Ids
<1>. QED
  BY <1>1, <1>2, PatchedSteps

(* A row that is gone while somebody holds a name of it stays gone.        *)
LEMMA UsedStaysGone ==
  ASSUME BaseInv, [PatchedNext]_pvars, NEW d \in Deleters, dpc[d] # "idle",
         UsedName(did[d], dsnap[d].key), ~Exists(did[d])
  PROVE  rows'[did[d]].status = "none"
<1>1. PICK i \in Ids : i = did[d]
  BY DEF BaseInv, TypeInv
<1>2. i \in Jobs => PosterMade(i)
  BY <1>1, UsedFacts DEF BaseInv
<1>3. i \in Uploads => upc[i] \notin Early
  BY <1>1 DEF BaseInv, RecordInv, DeleteRecorded
<1>4. ~Exists(i)
  BY <1>1
<1>5. PICK k : k = [dir |-> IF i \in Uploads THEN "raw/videos" ELSE "posters", tag |-> i]
  OBVIOUS
<1>6. NameOf(i, k)
  BY <1>2, <1>3, <1>5 DEF NameOf, VideoName, PosterName, PosterMade, Ids
<1>7. ~Exists(i)'
  <2>1. CASE [Next]_vars
    BY <1>3, <1>4, <1>6, <2>1, GoneStaysGone DEF BaseInv
  <2>2. ASSUME NEW q \in Patchers, LoadForVisibility(q) \/ Patch(q) PROVE ~Exists(i)'
    BY <1>4, <2>2, VisRows DEF Exists
  <2>. QED
    BY <2>1, <2>2, PatchedSteps
<1>. QED
  BY <1>1, <1>7 DEF Exists

(* Every row names something that is used up.                              *)
LEMMA RowUsedOwnStep ==
  ASSUME BaseInv, UsedInv, [PatchedNext]_pvars, [Next]_vars, NEW i \in Ids
  PROVE  RowUsed(i)'
<1>. SUFFICES ASSUME Exists(i)' PROVE (UsedName(i, rows[i].key) /\ OwnPoster(i, rows[i]))'
  BY DEF RowUsed
<1>1. TypeInv /\ RowUsed(i)
  BY DEF BaseInv, UsedInv
<1>2. UsedName(i, rows[i].key)'
  <2>1. PICK k : k = rows'[i].key
    OBVIOUS
  <2>2. CASE Exists(i) /\ rows'[i].key = rows[i].key
    <3>1. UsedName(i, k)'
      BY <1>1, <2>1, <2>2, UsedStays DEF RowUsed
    <3>. QED
      BY <2>1, <3>1
  <2>. QED
    BY <1>1, <2>2, NewNames DEF UsedName
<1>3. ASSUME i \in Uploads, rows'[i].poster # None PROVE rows'[i].poster \in {i} \X Runs
  <2>1. NoRow.status = "none" /\ NoRow.poster = None /\ VideoRow(i).poster = None
    BY DEF NoRow, VideoRow
  <2>2. rows'[i] # NoRow
    BY <1>3, <2>1
  <2>3. CASE rows'[i].poster = rows[i].poster /\ Exists(i)
    BY <1>1, <1>3, <2>3 DEF RowUsed, OwnPoster
  <2>4. CASE VideoStep(i)
    <3>1. FieldMove(i) /\ RowMove(i)
      BY <1>1, <1>3, <2>4, FieldMoves, RowMoves
    <3>2. Exists(i)
      BY <1>3, <2>1, <2>2, <3>1 DEF RowMove, Exists
    <3>3. wpc[i] = "link" => Delivery(i) \in {i} \X Runs
      BY <1>1, <1>3 DEF TypeInv, Delivery
    <3>. QED
      BY <1>3, <2>1, <2>2, <2>3, <3>1, <3>2, <3>3 DEF FieldMove
  <2>. QED
    BY <1>1, <1>3, <2>2, <2>3, <2>4, UploadFrame DEF DeletedBy, Exists
<1>. QED
  BY <1>2, <1>3 DEF OwnPoster

(* A PATCH re-points a row to its copy, whose name is used up by then.     *)
LEMMA RowUsedVisStep ==
  ASSUME BaseInv, UsedInv, [PatchedNext]_pvars, NEW i \in Ids,
         NEW q \in Patchers, LoadForVisibility(q) \/ Patch(q)
  PROVE  RowUsed(i)'
<1>. SUFFICES ASSUME Exists(i)' PROVE (UsedName(i, rows[i].key) /\ OwnPoster(i, rows[i]))'
  BY DEF RowUsed
<1>1. VisRow(i, q) /\ rows'[i].status = rows[i].status /\ rows'[i].poster = rows[i].poster
  BY VisRows
<1>2. RowUsed(i) /\ PatchUsed(q) /\ Exists(i)
  BY <1>1 DEF UsedInv, Exists
<1>3. PICK k : k = rows'[i].key
  OBVIOUS
<1>4. UsedName(i, k)
  BY <1>1, <1>2, <1>3 DEF VisRow, RowUsed, PatchUsed
<1>5. UsedName(i, k)'
  BY <1>4, UsedStays
<1>6. UsedName(i, rows[i].key)'
  BY <1>3, <1>5
<1>. QED
  BY <1>1, <1>2, <1>6 DEF RowUsed, OwnPoster

(* Nothing a DELETE has removed comes back, whatever the PATCHes do.       *)
LEMMA DeleteUsedStep ==
  ASSUME BaseInv, UsedInv, [PatchedNext]_pvars, NEW d \in Deleters
  PROVE  DeleteUsed(d)'
<1>0. DeleteUsed(d) /\ (dpc[d] # "idle" => did[d] \in Ids)
  BY DEF UsedInv, BaseInv, TypeInv
<1>1. dpc[d] # "idle" /\ dsnap[d].key \notin objects => dsnap[d].key \notin objects'
  BY <1>0, UsedNotStored DEF DeleteUsed
<1>2. dpc[d] # "idle" /\ ~Exists(did[d]) => rows'[did[d]].status = "none"
  BY <1>0, UsedStaysGone DEF DeleteUsed
<1>3. ASSUME dpc[d] # "idle", did'[d] = did[d], dsnap'[d].key = dsnap[d].key
      PROVE  UsedName(did[d], dsnap[d].key)'
  <2>1. PICK i \in Ids, k \in {dsnap[d].key} : i = did[d]
    BY <1>0, <1>3
  <2>2. UsedName(i, k)'
    BY <1>0, <1>3, <2>1, UsedStays DEF DeleteUsed
  <2>. QED
    BY <1>3, <2>1, <2>2
<1>4. CASE SameDelete(d)
  BY <1>0, <1>1, <1>2, <1>3, <1>4 DEF SameDelete, DeleteUsed, Removed, Dropped, Exists
<1>5. ASSUME rows' = rows, dpc'[d] = "object",
             NEW id \in Ids, Exists(id), did'[d] = id, dsnap'[d] = rows[id]
      PROVE  DeleteUsed(d)'
  <2>1. PICK k : k = rows[id].key
    OBVIOUS
  <2>2. UsedName(id, k)'
    BY <1>5, <2>1, UsedStays DEF UsedInv, RowUsed
  <2>3. UsedName(did[d], dsnap[d].key)'
    BY <1>5, <2>1, <2>2
  <2>. QED
    BY <1>5, <2>3 DEF DeleteUsed, Removed, Dropped
<1>6. ASSUME did'[d] = did[d], dsnap'[d].key = dsnap[d].key, dpc[d] # "idle",
             dpc'[d] \in Removed => dpc[d] \in Removed \/ dsnap[d].key \notin objects',
             dpc'[d] \in Dropped => dpc[d] \in Dropped \/ ~Exists(did[d])'
      PROVE  DeleteUsed(d)'
  BY <1>0, <1>1, <1>2, <1>3, <1>6 DEF DeleteUsed, Exists
<1>7. CASE [Next]_vars
  BY <1>4, <1>5, <1>6, <1>7, DeleteMoves DEF BaseInv
<1>8. CASE UNCHANGED deleteVars
  BY <1>4, <1>8 DEF deleteVars, SameDelete
<1>. QED
  BY <1>7, <1>8, PatchedSteps

(* What a PATCH has read, and what it has copied, is used up.              *)
LEMMA PatchUsedStep ==
  ASSUME BaseInv, UsedInv, [PatchedNext]_pvars, NEW p \in Patchers
  PROVE  PatchUsed(p)'
<1>1. PatchUsed(p) /\ VisFacts(p) /\ VisTypeOK
  BY DEF UsedInv, BaseInv
<1>2. ASSUME vpc[p] # "idle", vid'[p] = vid[p], vsnap'[p] = vsnap[p]
      PROVE  (UsedName(vid[p], vsnap[p].key) /\ OwnPoster(vid[p], vsnap[p]))'
  <2>1. PICK i \in Ids, k \in {vsnap[p].key} : i = vid[p]
    BY <1>1, <1>2 DEF VisFacts
  <2>2. UsedName(i, k)'
    BY <1>1, <1>2, <2>1, UsedStays DEF PatchUsed
  <2>3. UsedName(vid[p], vsnap[p].key)'
    BY <1>2, <2>1, <2>2
  <2>. QED
    BY <1>1, <1>2, <2>3 DEF PatchUsed, OwnPoster
<1>3. ASSUME vpc[p] = "update", vcopy[p] # None, vid'[p] = vid[p], vcopy'[p] = vcopy[p]
      PROVE  UsedName(vid[p], vcopy[p])'
  <2>1. PICK i \in Ids, k \in {vcopy[p]} : i = vid[p]
    BY <1>1, <1>3 DEF VisFacts
  <2>2. UsedName(i, k)'
    BY <1>1, <1>3, <2>1, UsedStays DEF PatchUsed
  <2>. QED
    BY <1>3, <2>1, <2>2
<1>4. ASSUME vpc'[p] = vpc[p], vid'[p] = vid[p], vsnap'[p] = vsnap[p], vcopy'[p] = vcopy[p]
      PROVE  PatchUsed(p)'
  BY <1>1, <1>2, <1>3, <1>4 DEF PatchUsed
<1>5. CASE UNCHANGED visVars
  BY <1>4, <1>5 DEF visVars
<1>6. ASSUME NEW q \in Patchers, LoadForVisibility(q) \/ Patch(q)
      PROVE  PatchUsed(p)'
  <2>1. VisKeeps(q) /\ (VisLoads(q) \/ VisCascades(q) \/ VisRuns(q))
    BY <1>6, VisEffect
  <2>2. CASE p # q
    BY <1>4, <2>1, <2>2 DEF VisKeeps
  <2>3. ASSUME p = q, NEW i \in Ids, Exists(i), vid'[p] = i, vsnap'[p] = rows[i]
        PROVE  (UsedName(vid[p], vsnap[p].key) /\ OwnPoster(vid[p], vsnap[p]))'
    <3>1. PICK k : k = rows[i].key
      OBVIOUS
    <3>2. UsedName(i, k)' /\ OwnPoster(i, rows[i])
      BY <2>3, <3>1, UsedStays DEF UsedInv, RowUsed
    <3>3. UsedName(vid[p], vsnap[p].key)'
      BY <2>3, <3>1, <3>2
    <3>. QED
      BY <2>3, <3>2, <3>3 DEF OwnPoster
  <2>4. CASE p = q /\ VisLoads(q)
    BY <1>1, <2>3, <2>4 DEF VisLoads, PatchUsed
  <2>5. CASE p = q /\ VisCascades(q)
    <3>1. vsnap[p].poster \in Ids
      BY <1>1, <2>5, StoreAssumption DEF VisCascades, VisFacts, VisTypeOK, Rows, Ids
    <3>. QED
      BY <2>3, <2>5, <3>1 DEF VisCascades, PatchUsed
  <2>6. CASE p = q /\ VisRuns(q)
    <3>1. vid' = vid /\ vsnap' = vsnap /\ vpc[p] # "idle"
      BY <1>6, <2>6 DEF VisRuns, VisCopies, VisWrites, VisRemoves
    <3>2. vpc'[p] \notin {"idle", "copy"}
      BY <2>1, <2>6 DEF VisKeeps, VisRuns, VisCopies, VisWrites, VisRemoves, NextRow
    <3>3. CASE vpc'[p] = "update" /\ vcopy'[p] # None
      <4>1. vpc[p] = "copy" /\ vcopy'[p] = Rotated(p, vsnap[p].key)
        BY <1>1, <2>6, <3>3 DEF VisRuns, VisCopies, VisWrites, VisRemoves, NextRow, PatchUsed
      <4>2. PICK i \in Ids, k \in {Rotated(p, vsnap[p].key)} : i = vid[p]
        BY <1>1, <3>1 DEF VisFacts
      <4>3. k.tag = p /\ k.dir = vsnap[p].key.dir
        BY <1>1, <3>1, <4>2, RotatedKey DEF VisFacts, PlainRow, VisTypeOK, Rows
      <4>4. (i \in Uploads <=> k.dir # "posters") /\ (i \in Jobs => PosterMade(i))
        BY <1>1, <3>1, <4>2, <4>3, UsedFacts DEF PatchUsed, BaseInv
      <4>5. i \in Jobs => PosterMade(i)'
        BY <4>4, MadeStays
      <4>6. CopyName(i, k)'
        BY <3>1, <3>2, <4>2, <4>3, <4>4, <4>5 DEF CopyName, WorkedOn, Ids
      <4>7. UsedName(vid[p], vcopy[p])'
        BY <3>1, <4>1, <4>2, <4>6 DEF UsedName
      <4>. QED
        BY <1>2, <3>1, <3>2, <4>7 DEF PatchUsed
    <3>. QED
      BY <1>2, <3>1, <3>2, <3>3 DEF PatchUsed
  <2>. QED
    BY <2>1, <2>2, <2>4, <2>5, <2>6
<1>. QED
  BY <1>5, <1>6, PatchedSteps

(* Used-up names stay used up throughout.                                  *)
LEMMA UsedInvariant == PatchedSpec => [](BaseInv /\ UsedInv)
<1>1. BaseInv /\ UsedInv /\ [PatchedNext]_pvars => UsedInv'
  BY RowUsedOwnStep, RowUsedVisStep, DeleteUsedStep, PatchUsedStep, PatchedSteps DEF UsedInv
<1>2. PatchedInit => UsedInv
  BY StoreAssumption
     DEF PatchedInit, Init, StoreInit, DeleteInit, VisInit, UsedInv, RowUsed, DeleteUsed,
         PatchUsed, Removed, Dropped, Exists, NoRow, Ids
<1>. QED
  BY <1>1, <1>2, BaseInvariant, BaseStep, PTL DEF PatchedSpec

(* Whatever fails, and whatever PATCH requests are served meanwhile, what  *)
(* a DELETE reported deleted does not come back: a PATCH that still works  *)
(* on the video copies its object under a name of its own and finds no row *)
(* to put it in (visibility.py 206-232, management.py 239-255).            *)
THEOREM PatchedDeletedStaysDeleted == PatchedSpec => []NoResurrection
<1>1. UsedInv => NoResurrection
  BY DEF UsedInv, DeleteUsed, Removed, Dropped, NoResurrection
<1>. QED
  BY <1>1, UsedInvariant, PTL
=============================================================================
