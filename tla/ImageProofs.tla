----------------------------- MODULE ImageProofs -----------------------------
(***************************************************************************)
(* Proofs about ImageSystem, for any number of uploads, DELETE and PATCH   *)
(* requests.                                                               *)
(***************************************************************************)
EXTENDS ImageSystem, TLAPS

(***************************************************************************)
(* Who owns a key.  The name in a key is the one of the upload or of the   *)
(* PATCH that minted it, and a PATCH gives its name away only by the       *)
(* statement that re-points the row.                                       *)
(***************************************************************************)

(* Where an upload is that may have inserted its row.                      *)
Made == {"created"} \cup IF "lost_reply" \in Faults THEN {"undo", "rejected", "broken"} ELSE {}

(* Where a PATCH is that may have re-pointed its row.                      *)
Out == {"remove_old", "answered", "broken"} \cup IF "lost_reply" \in Faults THEN {"undo"} ELSE {}

Owns(i, k) ==
  k.tag = i \/ \E p \in Patchers : k.tag = p /\ vid[p] = i /\ vpc[p] \in Out

(* A row of i: its objects are its own, and its renditions are told from   *)
(* the main object.                                                        *)
OwnRow(i, row) ==
  /\ row.key # None /\ row.key.part = "main"
  /\ \A k \in row.rends : k.part # "main"
  /\ \A k \in Held(row) : Owns(i, k)

(* Nothing here is a video, so nothing has a poster.                       *)
NoPosters ==
  /\ \A i \in Ids : rows[i].poster = None
  /\ \A d \in Deleters :
       dsnap[d].poster = None /\ dpc[d] \notin {"load_poster", "poster_object", "poster_row"}
  /\ \A p \in Patchers : vsnap[p].poster = None /\ vpc[p] # "load_poster"

(* Rows are of uploads that have been made, and requests are about rows    *)
(* that have been.                                                         *)
Subjects ==
  /\ \A i \in Ids : Exists(i) => i \in Uploads /\ ipc[i] \in Made /\ OwnRow(i, rows[i])
  /\ \A d \in Deleters :
       IF dpc[d] = "idle" THEN did[d] = None
       ELSE did[d] \in Uploads /\ ipc[did[d]] \in Made /\ OwnRow(did[d], dsnap[d])
  /\ \A p \in Patchers :
       IF vpc[p] = "idle" THEN vid[p] = None
       ELSE vid[p] \in Uploads /\ ipc[vid[p]] \in Made /\ OwnRow(vid[p], vsnap[p])

(* What an upload has stored is its own, and there until it is made.       *)
UploadFacts(u) ==
  /\ \A k \in stored[u] \cup todo[u] : k.tag = u /\ k.vis = form[u].vis
  /\ \A k \in todo[u] \cup (stored[u] \ {MainKey(u)}) : k.part # "main"
  /\ ipc[u] = "idle" => todo[u] = {}
  /\ ipc[u] \in {"renditions", "record"} => MainKey(u) \in stored[u] /\ stored[u] \subseteq objects

Copies(p) == (IF vcopy[p] = None THEN {} ELSE {vcopy[p]}) \cup vrends[p]

(* So is what a PATCH has copied.  What it removes once the row is         *)
(* re-pointed is what it read, which the row points at no more.            *)
PatchFacts(p) ==
  /\ \A k \in Copies(p) : k.tag = p /\ k.vis = vwant[p]
  /\ vcopy[p] # None => vcopy[p].part = "main"
  /\ \A k \in vrends[p] : k.part # "main"
  /\ vpc[p] \in {"idle", "copy"} => Copies(p) = {}
  /\ vcopy[p] = None => vrends[p] = {}
  /\ vsnap[p].rends = {} => vrends[p] = {}
  /\ vpc[p] = "copy_renditions" => vcopy[p] # None /\ vleft[p] \subseteq vsnap[p].rends
  /\ vpc[p] \in {"copy_renditions", "update"} => Copies(p) \subseteq objects
  /\ vpc[p] = "undo" => vleft[p] \subseteq Copies(p)
  /\ vpc[p] = "remove_old" =>
       /\ vleft[p] \subseteq Held(vsnap[p])
       /\ Exists(vid[p]) => vleft[p] \cap Held(rows[vid[p]]) = {}

OwnInv ==
  /\ TypeOK /\ NoPosters /\ Subjects
  /\ \A u \in Uploads : UploadFacts(u)
  /\ \A p \in Patchers : PatchFacts(p)

(***************************************************************************)
(* What is where.                                                          *)
(***************************************************************************)

(* What a PATCH without a copy has written.                                *)
Blind(i) ==
  \E p \in Patchers :
    /\ vid[p] = i /\ vwant[p] = "private" /\ vcopy[p] = None
    /\ vpc[p] \in {"answered", "broken"}

PrivateInv ==
  \A i \in Ids :
    Exists(i) /\ rows[i].vis = "private" /\ ~Blind(i) =>
      /\ rows[i].key.vis = "private"
      /\ KeptRenditions(i) \/ \A k \in rows[i].rends : k.vis = "private"

HashInv ==
  \A i \in Ids :
    Exists(i) => rows[i].hash \in Forms /\ (rows[i].vis = rows[i].hash.vis \/ \E p \in Patchers : vid[p] = i)

(***************************************************************************)
(* Where every object is accounted for.                                    *)
(***************************************************************************)
UploadHolds(u, k) ==
  \/ k \in todo[u] \/ (k.tag = u /\ ipc[u] = "broken")
  \/ ipc[u] \in {"renditions", "record", "undo"} /\ k \in stored[u]

PatchHolds(p, k) ==
  \/ k.tag = p /\ (Overlapped(p) \/ vpc[p] = "broken")
  \/ vpc[p] \in {"copy_renditions", "update"} /\ k \in Copies(p)
  \/ vpc[p] \in {"undo", "remove_old"} /\ k \in vleft[p]
  \/ vpc[p] = "broken" /\ k \in Held(vsnap[p])

Account ==
  \A k \in objects :
    \/ Referenced(k)
    \/ \E u \in Uploads : UploadHolds(u, k)
    \/ \E p \in Patchers : PatchHolds(p, k)

(* A row keeps no key of its upload that a request has not seen: a PATCH   *)
(* only ever replaces them.                                                *)
Seen ==
  /\ \A p \in Patchers, i \in Ids : vid[p] = i /\ Exists(i) =>
       \A k \in Held(rows[i]) : k.tag = i => k \in Held(vsnap[p])
  /\ \A d \in Deleters, i \in Ids : did[d] = i /\ Exists(i) =>
       \A k \in Held(rows[i]) \cap objects : k.tag = i =>
         \/ dpc[d] \in {"object", "storage_unavailable"} /\ k = dsnap[d].key
         \/ dpc[d] # "row" /\ k \in dsnap[d].rends

(* A PATCH that has not begun has stored nothing.                          *)
Fresh == \A k \in objects : \A p \in Patchers : k.tag = p => vpc[p] # "idle"

StrandInv == Account /\ Seen /\ Fresh

(***************************************************************************)
(* The names and rows requests make.                                       *)
(***************************************************************************)

(* The key and the row of an upload, and the keys of its renditions.       *)
LEMMA UploadNames ==
  ASSUME TypeOK, NEW u \in Uploads
  PROVE  /\ MainKey(u) \in Keys /\ MainKey(u).tag = u /\ MainKey(u).part = "main"
         /\ MainKey(u).vis = form[u].vis
         /\ \A n \in Renditions : /\ RenditionKey(MainKey(u), n) \in Keys
                                  /\ RenditionKey(MainKey(u), n).tag = u
                                  /\ RenditionKey(MainKey(u), n).vis = form[u].vis
                                  /\ RenditionKey(MainKey(u), n).part # "main"
         /\ ImageRow(u) \in Rows
         /\ ImageRow(u).status = "ready" /\ ImageRow(u).key = MainKey(u)
         /\ ImageRow(u).rends = stored[u] \ {MainKey(u)} /\ ImageRow(u).vis = form[u].vis
         /\ ImageRow(u).hash = form[u] /\ ImageRow(u).poster = None
         /\ form[u] \in Forms /\ form[u] \in Signatures
<1>1. form[u] \in Forms /\ form[u] \in Signatures /\ stored[u] \subseteq Keys
  BY FormsAssumption DEF TypeOK, ImageTypeOK
<1>2. form[u].vis \in Visibilities /\ form[u].kind \in {"image", "file"}
  BY <1>1 DEF Signatures
<1>3. PICK dir \in Dirs : dir = IF form[u].kind = "image" THEN "images" ELSE "files"
  BY DEF Dirs
<1>4. u \in Tags
  BY DEF Tags, Ids
<1>5. MainKey(u) = [dir |-> dir, vis |-> form[u].vis, tag |-> u, part |-> "main"]
  BY <1>3 DEF MainKey, Key
<1>6. MainKey(u) \in Keys /\ MainKey(u).tag = u /\ MainKey(u).part = "main" /\ MainKey(u).vis = form[u].vis
  BY <1>2, <1>4, <1>5 DEF Keys
<1>7. ASSUME NEW n \in Renditions
      PROVE  /\ RenditionKey(MainKey(u), n) \in Keys
             /\ RenditionKey(MainKey(u), n).tag = u
             /\ RenditionKey(MainKey(u), n).vis = form[u].vis
             /\ RenditionKey(MainKey(u), n).part # "main"
  <2>1. RenditionKey(MainKey(u), n) = [dir |-> dir, vis |-> form[u].vis, tag |-> u, part |-> n]
    BY <1>5 DEF RenditionKey
  <2>2. n # "main"
    BY StoreAssumption
  <2>. QED
    BY <1>2, <1>4, <2>1, <2>2 DEF Keys
<1>8. PICK row : row = ImageRow(u)
  OBVIOUS
<1>9. row = [status |-> "ready", kind |-> form[u].kind, key |-> MainKey(u),
             rends |-> stored[u] \ {MainKey(u)}, vis |-> form[u].vis, hash |-> form[u],
             poster |-> None, task |-> FALSE]
  BY <1>8 DEF ImageRow, NoRow
<1>10. row \in Rows
  BY <1>1, <1>2, <1>6, <1>9 DEF Rows, Statuses, Kinds, Hashes
<1>. QED
  BY <1>1, <1>6, <1>7, <1>8, <1>9, <1>10

(* No row.                                                                 *)
LEMMA NoRowFields ==
  NoRow \in Rows /\ NoRow.status = "none" /\ NoRow.poster = None /\ NoRow.rends = {} /\ NoRow.key = None
BY DEF NoRow, Rows, Statuses, Kinds, Visibilities

(* The row as a PATCH leaves it.                                           *)
NewRow(p) ==
  [rows[vid[p]] EXCEPT
     !.vis = vwant[p],
     !.key = IF vcopy[p] = None THEN @ ELSE vcopy[p],
     !.rends = IF vcopy[p] = None \/ vsnap[p].rends = {} THEN @ ELSE vrends[p]]

(* What it keeps of the row and what it writes.                            *)
LEMMA NewRowFields ==
  ASSUME TypeOK, NEW p \in Patchers, vid[p] \in Ids
  PROVE  /\ Repointed(p) = IF Exists(vid[p]) THEN [rows EXCEPT ![vid[p]] = NewRow(p)] ELSE rows
         /\ NewRow(p) \in Rows
         /\ NewRow(p).status = rows[vid[p]].status /\ NewRow(p).poster = rows[vid[p]].poster
         /\ NewRow(p).hash = rows[vid[p]].hash /\ NewRow(p).vis = vwant[p]
         /\ NewRow(p).key = IF vcopy[p] = None THEN rows[vid[p]].key ELSE vcopy[p]
         /\ NewRow(p).rends =
              IF vcopy[p] = None \/ vsnap[p].rends = {} THEN rows[vid[p]].rends ELSE vrends[p]
<1>1. rows[vid[p]] \in Rows /\ vcopy[p] \in Keys \cup {None} /\ vrends[p] \subseteq Keys
      /\ vwant[p] \in Visibilities
  BY DEF TypeOK, StoreTypeOK, VisTypeOK
<1>2. vrends[p] # NullRends
  BY <1>1, StoreAssumption DEF NullRends
<1>3. PICK rends : rends = IF vcopy[p] = None \/ vsnap[p].rends = {} THEN NullRends ELSE vrends[p]
  OBVIOUS
<1>4. rends = NullRends <=> vcopy[p] = None \/ vsnap[p].rends = {}
  BY <1>2, <1>3
<1>5. Repointed(p) = SetVisibility(vid[p], vwant[p], vcopy[p], rends)
  BY <1>3 DEF Repointed
<1>6. Repointed(p) = IF Exists(vid[p]) THEN [rows EXCEPT ![vid[p]] = NewRow(p)] ELSE rows
  <2>1. NewRow(p) = [rows[vid[p]] EXCEPT !.vis = vwant[p],
                                         !.key = IF vcopy[p] = None THEN @ ELSE vcopy[p],
                                         !.rends = IF rends = NullRends THEN @ ELSE rends]
    BY <1>3, <1>4 DEF NewRow
  <2>. QED
    BY <1>5, <2>1 DEF SetVisibility, Update
<1>7. NewRow(p) \in Rows
  BY <1>1 DEF NewRow, Rows
<1>. QED
  BY <1>1, <1>6, <1>7 DEF NewRow, Rows

(***************************************************************************)
(* What a step of each kind of request does.                               *)
(***************************************************************************)
UploadKeeps(u) ==
  /\ form' = form
  /\ \A v \in Uploads \ {u} : ipc'[v] = ipc[v] /\ todo'[v] = todo[v] /\ stored'[v] = stored[v]
  /\ ipc[u] \in Made => ipc'[u] \in Made
  /\ \A k \in objects' : k \in objects \/ k.tag = u
  /\ \A k \in objects : k \in objects' \/ (ipc[u] = "undo" /\ k \in stored[u])

UploadWrites(u) ==
  \/ rows' = rows
  \/ ipc[u] = "record" /\ ipc'[u] \in Made /\ rows' = [rows EXCEPT ![u] = ImageRow(u)]

(* An upload works on its own objects, and makes one row, once.            *)
LEMMA UploadEffect ==
  ASSUME OwnInv, NEW u \in Uploads, ReuseExisting(u) \/ EncodeImage(u) \/ ServeImage(u)
  PROVE  /\ StoreTypeOK' /\ ImageTypeOK'
         /\ UploadKeeps(u) /\ UploadWrites(u) /\ UploadFacts(u)'
<1>1. /\ TypeOK /\ StoreTypeOK /\ ImageTypeOK /\ UploadFacts(u)
      /\ MainKey(u) \in Keys /\ MainKey(u).tag = u /\ MainKey(u).vis = form[u].vis
  BY UploadNames DEF OwnInv, TypeOK
<1>. USE DEF ImageTypeOK, ImageSteps, StoreTypeOK
<1>2. CASE ReuseExisting(u)
  <2>1. FindReadyByHash(form[u]) \subseteq Ids
    BY DEF FindReadyByHash
  <2>. QED
    BY <1>1, <1>2, <2>1 DEF ReuseExisting, ImageStep, storeVars, UploadKeeps, UploadWrites,
       UploadFacts, MainKey, Made
<1>3. CASE EncodeImage(u)
  <2>1. PICK names \in SUBSET Renditions :
          todo' = [todo EXCEPT ![u] = {RenditionKey(MainKey(u), n) : n \in names}]
    BY <1>3 DEF EncodeImage
  <2>2. \A n \in names : /\ RenditionKey(MainKey(u), n) \in Keys
                         /\ RenditionKey(MainKey(u), n).tag = u
                         /\ RenditionKey(MainKey(u), n).vis = form[u].vis
                         /\ RenditionKey(MainKey(u), n).part # "main"
    BY <1>1, UploadNames
  <2>3. MainKey(u)' = MainKey(u)
    BY <1>3 DEF EncodeImage, MainKey
  <2>4. /\ todo'[u] \subseteq Keys /\ (\A k \in todo'[u] : k.tag = u /\ k.vis = form[u].vis /\ k.part # "main")
        /\ todo' \in [Uploads -> SUBSET Keys] /\ \A v \in Uploads \ {u} : todo'[v] = todo[v]
    BY <1>1, <2>1, <2>2
  <2>. QED
    BY <1>1, <1>3, <2>3, <2>4 DEF EncodeImage, ImageStep, storeVars, UploadKeeps, UploadWrites,
       UploadFacts, Made
<1>4. CASE StoreMain(u)
  <2>1. MainKey(u)' = MainKey(u)
    BY <1>4 DEF StoreMain, MainKey
  <2>2. PICK K : K = MainKey(u)
    OBVIOUS
  <2>3. CASE /\ ImageStep(u, "main", AfterStore(todo[u]))
             /\ Put(MainKey(u))
             /\ stored' = [stored EXCEPT ![u] = {MainKey(u)}]
    BY <1>1, <1>4, <2>1, <2>2, <2>3 DEF StoreMain, ImageStep, AfterStore, Put, UploadKeeps,
       UploadWrites, UploadFacts, Made
  <2>4. CASE /\ \/ ImageStep(u, "main", "rejected") /\ PutRefused(MainKey(u))
                \/ ImageStep(u, "main", "broken") /\ PutEscapes(MainKey(u))
             /\ UNCHANGED stored
    BY <1>1, <1>4, <2>1, <2>2, <2>4 DEF StoreMain, ImageStep, Put, PutRefused, PutEscapes,
       UploadKeeps, UploadWrites, UploadFacts, Made
  <2>. QED
    BY <1>4, <2>3, <2>4 DEF StoreMain
<1>5. CASE StoreRendition(u)
  <2>1. MainKey(u)' = MainKey(u)
    BY <1>5 DEF StoreRendition, MainKey
  <2>2. PICK k \in todo[u] :
          \/ /\ ImageStep(u, "renditions", AfterStore(todo[u] \ {k}))
             /\ Put(k)
             /\ todo' = [todo EXCEPT ![u] = @ \ {k}]
             /\ stored' = [stored EXCEPT ![u] = @ \cup {k}]
          \/ ImageStep(u, "renditions", "undo") /\ PutRaises(k) /\ UNCHANGED <<todo, stored>>
    BY <1>5 DEF StoreRendition
  <2>3. k \in Keys /\ k.tag = u /\ k.vis = form[u].vis /\ k.part # "main"
    BY <1>1 DEF UploadFacts
  <2>4. CASE /\ ImageStep(u, "renditions", AfterStore(todo[u] \ {k}))
             /\ Put(k)
             /\ todo' = [todo EXCEPT ![u] = @ \ {k}]
             /\ stored' = [stored EXCEPT ![u] = @ \cup {k}]
    <3>1. /\ todo'[u] = todo[u] \ {k} /\ stored'[u] = stored[u] \cup {k}
          /\ objects' = objects \cup {k} /\ ipc[u] = "renditions" /\ ipc'[u] \in {"renditions", "record"}
          /\ rows' = rows /\ form' = form
      BY <1>1, <1>5, <2>4 DEF StoreRendition, ImageStep, AfterStore, Put
    <3>2. UploadFacts(u)'
      BY <1>1, <2>1, <2>3, <3>1 DEF UploadFacts
    <3>3. StoreTypeOK' /\ ImageTypeOK'
      BY <1>1, <1>5, <2>3, <2>4, <3>1 DEF StoreRendition, ImageStep, AfterStore
    <3>4. UploadKeeps(u)
      BY <1>1, <1>5, <2>3, <2>4, <3>1 DEF StoreRendition, ImageStep, UploadKeeps, Made
    <3>. QED
      BY <3>1, <3>2, <3>3, <3>4 DEF UploadWrites
  <2>5. CASE ImageStep(u, "renditions", "undo") /\ PutRaises(k) /\ UNCHANGED <<todo, stored>>
    BY <1>1, <1>5, <2>1, <2>3, <2>5 DEF StoreRendition, ImageStep, Put, PutRaises, PutRefused,
       PutEscapes, UploadKeeps, UploadWrites, UploadFacts, Made
  <2>. QED
    BY <2>2, <2>4, <2>5
<1>6. CASE CreateReady(u)
  <2>1. MainKey(u)' = MainKey(u)
    BY <1>6 DEF CreateReady, MainKey
  <2>2. PICK row \in Rows : row = ImageRow(u)
    BY <1>1, UploadNames
  <2>3. /\ ipc[u] = "record"
        /\ \/ ipc' = [ipc EXCEPT ![u] = "created"] /\ rows' = [rows EXCEPT ![u] = row]
           \/ ipc' = [ipc EXCEPT ![u] = "undo"] /\ rows' = rows
           \/ /\ "lost_reply" \in Faults /\ ipc' = [ipc EXCEPT ![u] = "undo"]
              /\ rows' = [rows EXCEPT ![u] = row]
    BY <1>6, <2>2 DEF CreateReady, ImageStep, Insert, StatementRaises
  <2>4. rows' \in [Ids -> Rows] /\ u \in Ids
    BY <1>1, <2>3 DEF Ids
  <2>5. answer' \in [Uploads -> Ids \cup {None}]
    BY <1>1, <1>6, <2>4 DEF CreateReady
  <2>6. UploadWrites(u)
    BY <1>1, <2>2, <2>3 DEF UploadWrites, Made
  <2>7. UploadKeeps(u)
    BY <1>1, <1>6, <2>3 DEF CreateReady, UploadKeeps, Made
  <2>8. StoreTypeOK' /\ ImageTypeOK'
    BY <1>1, <1>6, <2>3, <2>4, <2>5 DEF CreateReady
  <2>9. UploadFacts(u)'
    BY <1>1, <1>6, <2>1, <2>3 DEF CreateReady, UploadFacts
  <2>. QED
    BY <2>6, <2>7, <2>8, <2>9
<1>7. CASE TakeBack(u)
  <2>1. MainKey(u)' = MainKey(u)
    BY <1>7 DEF TakeBack, MainKey
  <2>2. CASE \E k \in stored[u] :
               /\ RemoveSuppressed(k)
               /\ stored' = [stored EXCEPT ![u] = @ \ {k}]
               /\ ImageStep(u, "undo", AfterUndo(stored[u] \ {k}))
    <3>1. PICK k \in stored[u] :
            /\ RemoveSuppressed(k)
            /\ stored' = [stored EXCEPT ![u] = @ \ {k}]
            /\ ImageStep(u, "undo", AfterUndo(stored[u] \ {k}))
      BY <2>2
    <3>2. /\ stored'[u] = stored[u] \ {k} /\ objects' \in {objects, objects \ {k}}
          /\ ipc[u] = "undo" /\ ipc'[u] \in {"undo", "rejected"} /\ rows' = rows /\ form' = form
          /\ todo' = todo
      BY <1>1, <1>7, <3>1 DEF TakeBack, ImageStep, AfterUndo, RemoveSuppressed, Remove, RemoveRefused
    <3>3. StoreTypeOK' /\ ImageTypeOK'
      BY <1>1, <1>7, <3>1, <3>2 DEF TakeBack, ImageStep, AfterUndo
    <3>4. UploadKeeps(u)
      BY <1>1, <3>1, <3>2 DEF ImageStep, UploadKeeps, Made
    <3>5. UploadFacts(u)'
      BY <1>1, <2>1, <3>2 DEF UploadFacts
    <3>. QED
      BY <3>2, <3>3, <3>4, <3>5 DEF UploadWrites
  <2>3. CASE ImageStep(u, "undo", "broken") /\ RemoveEscapes /\ UNCHANGED stored
    BY <1>1, <1>7, <2>1, <2>3 DEF TakeBack, ImageStep, RemoveEscapes, UploadKeeps, UploadWrites,
       UploadFacts, Made
  <2>. QED
    BY <1>7, <2>2, <2>3 DEF TakeBack
<1>. QED
  BY <1>2, <1>3, <1>4, <1>5, <1>6, <1>7 DEF ServeImage

DeleteKeeps(d) ==
  /\ \A e \in Deleters \ {d} : dpc'[e] = dpc[e] /\ did'[e] = did[e] /\ dsnap'[e] = dsnap[e]
  /\ objects' \subseteq objects
  /\ \A k \in objects : \/ k \in objects'
                        \/ /\ dpc[d] \in {"object", "renditions"} /\ k \in Held(dsnap[d])
                           /\ dpc'[d] \in {"renditions", "row"}

DeleteLoads(d) ==
  /\ dpc[d] = "idle" /\ dpc'[d] = "object"
  /\ rows' = rows /\ objects' = objects
  /\ \E i \in Ids : Exists(i) /\ did'[d] = i /\ dsnap'[d] = rows[i]

DeleteRuns(d) ==
  /\ dpc[d] # "idle" /\ dpc'[d] \notin {"idle", "load_poster", "poster_object", "poster_row"}
  /\ did'[d] = did[d]
  /\ dsnap'[d].key = dsnap[d].key /\ dsnap'[d].poster = dsnap[d].poster
  /\ dsnap'[d].rends \subseteq dsnap[d].rends
  /\ \/ rows' = rows
     \/ dpc[d] = "row" /\ rows' = [rows EXCEPT ![did[d]] = NoRow]
  /\ dpc[d] \in {"renditions", "row", "store_unavailable", "broken"} =>
       \/ dpc'[d] \in {"renditions", "row", "store_unavailable", "broken"}
       \/ rows' = [rows EXCEPT ![did[d]] = NoRow]

(* A DELETE removes what it read of its row, then the row.                 *)
LEMMA DeleteEffect ==
  ASSUME OwnInv, NEW d \in Deleters, LoadForDelete(d) \/ Delete(d)
  PROVE  /\ StoreTypeOK' /\ DeleteTypeOK' /\ DeleteKeeps(d)
         /\ DeleteLoads(d) \/ DeleteRuns(d)
<1>1. /\ StoreTypeOK /\ DeleteTypeOK /\ dsnap[d] \in Rows /\ dsnap[d].poster = None
      /\ dpc[d] \notin {"load_poster", "poster_object", "poster_row"}
  BY DEF OwnInv, TypeOK, NoPosters, DeleteTypeOK
<1>. USE DEF DeleteTypeOK, DeleteSteps, StoreTypeOK
<1>2. CASE LoadForDelete(d)
  BY <1>1, <1>2 DEF LoadForDelete, DeleteStep, storeVars, DeleteKeeps, DeleteLoads
<1>3. CASE DeleteObject(d)
  <2>1. /\ dpc[d] = "object" /\ rows' = rows /\ UNCHANGED <<did, dsnap, dposter>>
        /\ \/ /\ objects' = objects \ {dsnap[d].key}
              /\ dpc' = [dpc EXCEPT ![d] = Remaining(dsnap[d].rends)]
           \/ objects' = objects /\ dpc' = [dpc EXCEPT ![d] = "storage_unavailable"]
    BY <1>3 DEF DeleteObject, DeleteStep, Remove, RemoveRaises, RemoveRefused, RemoveEscapes
  <2>2. Remaining(dsnap[d].rends) \in {"renditions", "row"}
    BY DEF Remaining
  <2>. QED
    BY <1>1, <2>1, <2>2 DEF DeleteKeeps, DeleteRuns, Held
<1>4. CASE DeleteRendition(d)
  <2>1. CASE \E k \in dsnap[d].rends :
               /\ RemoveSuppressed(k)
               /\ dsnap' = [dsnap EXCEPT ![d].rends = @ \ {k}]
               /\ DeleteStep(d, "renditions", Remaining(dsnap[d].rends \ {k}))
    <3>1. PICK k \in dsnap[d].rends :
            /\ RemoveSuppressed(k)
            /\ dsnap' = [dsnap EXCEPT ![d].rends = @ \ {k}]
            /\ DeleteStep(d, "renditions", Remaining(dsnap[d].rends \ {k}))
      BY <2>1
    <3>2. /\ dpc[d] = "renditions" /\ dpc' = [dpc EXCEPT ![d] = Remaining(dsnap[d].rends \ {k})]
          /\ objects' \in {objects, objects \ {k}} /\ rows' = rows /\ UNCHANGED <<did, dposter>>
      BY <1>4, <3>1 DEF DeleteRendition, DeleteStep, RemoveSuppressed, Remove, RemoveRefused
    <3>3. PICK snap : snap = [dsnap[d] EXCEPT !.rends = @ \ {k}]
      OBVIOUS
    <3>4. /\ snap \in Rows /\ snap.key = dsnap[d].key /\ snap.poster = dsnap[d].poster
          /\ snap.rends = dsnap[d].rends \ {k}
      BY <1>1, <3>3 DEF Rows
    <3>5. dsnap' = [dsnap EXCEPT ![d] = snap]
      BY <3>1, <3>3
    <3>6. Remaining(dsnap[d].rends \ {k}) \in {"renditions", "row"}
      BY DEF Remaining
    <3>. QED
      BY <1>1, <3>2, <3>4, <3>5, <3>6 DEF DeleteKeeps, DeleteRuns, Held
  <2>2. CASE DeleteStep(d, "renditions", "broken") /\ RemoveEscapes /\ UNCHANGED dsnap
    BY <1>1, <1>4, <2>2 DEF DeleteRendition, DeleteStep, RemoveEscapes, DeleteKeeps, DeleteRuns
  <2>. QED
    BY <1>4, <2>1, <2>2 DEF DeleteRendition
<1>5. CASE DeleteRecord(d)
  <2>1. did[d] \in Ids
    <3>1. dpc[d] # "idle"
      BY <1>5 DEF DeleteRecord, DeleteStep
    <3>. QED
      BY <3>1 DEF OwnInv, Subjects, Ids
  <2>2. ~HasPoster(dsnap[d])
    BY <1>1 DEF HasPoster
  <2>3. /\ dpc[d] = "row" /\ objects' = objects /\ UNCHANGED <<did, dsnap, dposter>>
        /\ \/ rows' = [rows EXCEPT ![did[d]] = NoRow] /\ dpc' = [dpc EXCEPT ![d] = "deleted"]
           \/ /\ rows' = rows \/ rows' = [rows EXCEPT ![did[d]] = NoRow]
              /\ dpc' = [dpc EXCEPT ![d] = "store_unavailable"]
    BY <1>5, <2>2 DEF DeleteRecord, DeleteStep, DeleteRow, StatementRaises
  <2>4. rows' \in [Ids -> Rows]
    BY <1>1, <2>1, <2>3, NoRowFields
  <2>. QED
    BY <1>1, <2>3, <2>4 DEF DeleteKeeps, DeleteRuns
<1>. QED
  BY <1>1, <1>2, <1>3, <1>4, <1>5
     DEF Delete, LoadPoster, DeletePosterObject, DeletePosterRecord, DeleteStep

(* The key of a copy.                                                      *)
LEMMA RotatedKey ==
  ASSUME TypeOK, NEW p \in Patchers, NEW k \in Keys
  PROVE  /\ Rotated(p, k) \in Keys /\ Rotated(p, k).tag = p
         /\ Rotated(p, k).vis = vwant[p] /\ Rotated(p, k).part = k.part
<1>1. p \in Tags /\ vwant[p] \in Visibilities
  BY DEF Tags, TypeOK, VisTypeOK
<1>. QED
  BY <1>1 DEF Rotated, Keys

PatchKeeps(p) ==
  /\ \A q \in Patchers \ {p} :
       /\ vpc'[q] = vpc[q] /\ vid'[q] = vid[q] /\ vwant'[q] = vwant[q] /\ vsnap'[q] = vsnap[q]
       /\ vcopy'[q] = vcopy[q] /\ vrends'[q] = vrends[q] /\ vleft'[q] = vleft[q]
  /\ vpc[p] \in Out => vpc'[p] \in Out
  /\ \A k \in objects' : k \in objects \/ k.tag = p
  /\ \A k \in objects : k \in objects' \/ (vpc[p] \in {"undo", "remove_old"} /\ k \in vleft[p])

PatchLoads(p) ==
  /\ vpc[p] = "idle" /\ vpc'[p] \in {"copy", "update"}
  /\ rows' = rows /\ objects' = objects
  /\ vcopy' = vcopy /\ vrends' = vrends /\ vleft' = vleft
  /\ \E i \in Ids : /\ Exists(i) /\ vid'[p] = i /\ vsnap'[p] = rows[i]
                    /\ vpc'[p] = "update" => rows[i].vis = vwant'[p]

PatchRuns(p) ==
  /\ vpc[p] \notin {"idle", "answered", "broken"} /\ vpc'[p] \notin {"idle", "load_poster"}
  /\ vid' = vid /\ vwant' = vwant /\ vsnap' = vsnap
  /\ vcopy[p] # None => vcopy'[p] = vcopy[p]
  /\ \/ rows' = rows
     \/ /\ vpc[p] = "update" /\ vpc'[p] \in Out /\ Exists(vid[p])
        /\ vcopy[p] = None => vpc'[p] = "answered"
        /\ rows' = [rows EXCEPT ![vid[p]] = NewRow(p)]
        /\ vcopy' = vcopy /\ vrends' = vrends

(* What a PATCH that is about to write has copied is not what it read.     *)
LEMMA CopiesAreNew ==
  ASSUME OwnInv, NEW p \in Patchers, vpc[p] = "update", vcopy[p] # None, Exists(vid[p])
  PROVE  Held(vsnap[p]) \cap Held(NewRow(p)) = {}
<1>1. /\ vid[p] \in Ids /\ OwnRow(vid[p], vsnap[p]) /\ OwnRow(vid[p], rows[vid[p]]) /\ PatchFacts(p)
  <2>1. vid[p] \in Uploads /\ OwnRow(vid[p], vsnap[p]) /\ PatchFacts(p)
    BY DEF OwnInv, Subjects
  <2>. QED
    BY <2>1 DEF OwnInv, Subjects, Ids
<1>2. vid[p] # p
  BY <1>1, StoreAssumption
<1>3. "update" \notin Out
  BY DEF Out
<1>4. \A k \in Held(vsnap[p]) : k.tag # p
  BY <1>1, <1>2, <1>3 DEF OwnRow, Owns
<1>5. \A k \in Copies(p) : k.tag = p
  BY <1>1 DEF PatchFacts
<1>6. NewRow(p).key = vcopy[p]
      /\ NewRow(p).rends = IF vsnap[p].rends = {} THEN rows[vid[p]].rends ELSE vrends[p]
  BY <1>1, NewRowFields DEF OwnInv
<1>7. vcopy[p] \in Copies(p) /\ vrends[p] \subseteq Copies(p)
  BY DEF Copies
<1>8. CASE vsnap[p].rends = {}
  <2>1. \A k \in rows[vid[p]].rends : k.part # "main"
    BY <1>1 DEF OwnRow
  <2>2. vsnap[p].key.part = "main"
    BY <1>1 DEF OwnRow
  <2>. QED
    BY <1>4, <1>5, <1>6, <1>7, <1>8, <2>1, <2>2 DEF Held
<1>9. CASE vsnap[p].rends # {}
  BY <1>4, <1>5, <1>6, <1>7, <1>9 DEF Held
<1>. QED
  BY <1>8, <1>9

(* A PATCH works on its copies and on what it read, and re-points its row  *)
(* once.                                                                   *)
LEMMA PatchEffect ==
  ASSUME OwnInv, NEW p \in Patchers, LoadForVisibility(p) \/ Patch(p)
  PROVE  /\ StoreTypeOK' /\ VisTypeOK' /\ PatchKeeps(p)
         /\ PatchLoads(p) \/ PatchRuns(p)
         /\ PatchFacts(p)'
<1>1. /\ TypeOK /\ StoreTypeOK /\ VisTypeOK /\ PatchFacts(p)
      /\ vsnap[p] \in Rows /\ vsnap[p].poster = None /\ vpc[p] # "load_poster"
      /\ vpc[p] # "idle" => vid[p] \in Ids /\ OwnRow(vid[p], vsnap[p])
  BY DEF OwnInv, TypeOK, NoPosters, VisTypeOK, Subjects, Ids
<1>2. /\ vsnap[p].rends \subseteq Keys /\ vcopy[p] \in Keys \cup {None} /\ vrends[p] \subseteq Keys
      /\ vleft[p] \subseteq Keys /\ None \notin Keys
      /\ vpc[p] # "idle" => vsnap[p].key \in Keys /\ vsnap[p].key.part = "main"
                            /\ \A k \in vsnap[p].rends : k.part # "main"
  BY <1>1, StoreAssumption DEF VisTypeOK, Rows, OwnRow
<1>. USE DEF VisTypeOK, VisSteps, StoreTypeOK
<1>3. CASE LoadForVisibility(p)
  <2>1. PICK id \in Ids, want \in Visibilities :
          /\ Exists(id)
          /\ VisStep(p, "idle", IF rows[id].vis = want THEN "update" ELSE "copy")
          /\ vid' = [vid EXCEPT ![p] = id]
          /\ vwant' = [vwant EXCEPT ![p] = want]
          /\ vsnap' = [vsnap EXCEPT ![p] = rows[id]]
    BY <1>3 DEF LoadForVisibility
  <2>2. UNCHANGED <<rows, objects, vcopy, vrends, vleft>>
    BY <1>3 DEF LoadForVisibility, storeVars
  <2>3. /\ vpc[p] = "idle" /\ vpc'[p] \in {"copy", "update"}
        /\ vpc'[p] = "update" => rows[id].vis = want
    BY <1>1, <2>1 DEF VisStep
  <2>4. StoreTypeOK' /\ VisTypeOK'
    BY <1>1, <2>1, <2>2 DEF VisStep
  <2>5. PatchKeeps(p)
    BY <1>1, <2>1, <2>2, <2>3 DEF VisStep, PatchKeeps, Out
  <2>6. PatchLoads(p)
    BY <1>1, <2>1, <2>2, <2>3 DEF PatchLoads
  <2>7. Copies(p) = {} /\ Copies(p)' = {} /\ vcopy[p] = None /\ vrends[p] = {}
    BY <1>1, <2>2, <2>3 DEF PatchFacts, Copies
  <2>8. PatchFacts(p)'
    BY <2>2, <2>3, <2>7 DEF PatchFacts
  <2>. QED
    BY <2>4, <2>5, <2>6, <2>8
<1>4. CASE CopyMissing(p)
  <2>1. /\ vpc[p] = "copy" /\ vpc' = [vpc EXCEPT ![p] = "update"]
        /\ UNCHANGED <<rows, objects, vid, vwant, vsnap, vcopy, vrends, vleft>>
    BY <1>4 DEF CopyMissing, VisStep, storeVars
  <2>2. Copies(p)' = Copies(p) /\ Copies(p) = {}
    BY <1>1, <2>1 DEF Copies, PatchFacts
  <2>. QED
    BY <1>1, <2>1, <2>2 DEF PatchKeeps, PatchRuns, PatchFacts, Out
<1>5. CASE CopyObject(p)
  <2>1. PICK copy : copy = Rotated(p, vsnap[p].key)
    OBVIOUS
  <2>2. vpc[p] = "copy" /\ UNCHANGED <<rows, vid, vwant, vsnap, vrends>>
    BY <1>5 DEF CopyObject
  <2>3. copy \in Keys /\ copy.tag = p /\ copy.vis = vwant[p] /\ copy.part = "main"
    BY <1>1, <1>2, <2>1, <2>2, RotatedKey
  <2>4. vcopy[p] = None /\ vrends[p] = {} /\ Copies(p) = {}
    BY <1>1, <1>2, <2>2 DEF PatchFacts, Copies
  <2>5. CASE /\ Put(copy)
             /\ vcopy' = [vcopy EXCEPT ![p] = copy]
             /\ vleft' = [vleft EXCEPT ![p] = vsnap[p].rends]
             /\ VisStep(p, "copy", IF vsnap[p].rends = {} THEN "update" ELSE "copy_renditions")
    <3>1. /\ vpc'[p] \in {"update", "copy_renditions"} /\ vcopy'[p] = copy /\ objects' = objects \cup {copy}
          /\ vleft'[p] = vsnap[p].rends
      BY <1>1, <2>5 DEF VisStep, Put
    <3>2. Copies(p)' = {copy}
      BY <1>2, <2>2, <2>3, <2>4, <3>1 DEF Copies
    <3>3. StoreTypeOK' /\ VisTypeOK'
      BY <1>1, <1>2, <2>2, <2>3, <2>5, <3>1 DEF VisStep
    <3>4. PatchKeeps(p)
      BY <1>1, <2>2, <2>3, <2>5, <3>1 DEF VisStep, PatchKeeps, Out
    <3>5. PatchFacts(p)'
      BY <1>2, <2>2, <2>3, <2>4, <3>1, <3>2 DEF PatchFacts
    <3>. QED
      BY <2>2, <2>4, <3>1, <3>3, <3>4, <3>5 DEF PatchRuns
  <2>6. CASE /\ VisStep(p, "copy", "answered") \/ VisStep(p, "copy", "broken")
             /\ objects' = objects \/ Put(copy)
             /\ UNCHANGED <<vcopy, vleft>>
    <3>1. vpc'[p] \in {"answered", "broken"} /\ objects' \in {objects, objects \cup {copy}}
      BY <1>1, <2>6 DEF VisStep, Put
    <3>2. Copies(p)' = {}
      BY <2>2, <2>4, <2>6 DEF Copies
    <3>3. StoreTypeOK' /\ VisTypeOK'
      BY <1>1, <2>2, <2>3, <2>6, <3>1 DEF VisStep
    <3>4. PatchKeeps(p)
      BY <1>1, <2>2, <2>3, <2>6, <3>1 DEF VisStep, PatchKeeps, Out
    <3>5. PatchFacts(p)'
      BY <2>2, <2>4, <2>6, <3>1, <3>2 DEF PatchFacts
    <3>. QED
      BY <2>2, <2>4, <3>1, <3>3, <3>4, <3>5 DEF PatchRuns
  <2>. QED
    BY <1>5, <2>1, <2>5, <2>6 DEF CopyObject, PutRefused, PutEscapes
<1>6. CASE CopyRendition(p)
  <2>1. vpc[p] = "copy_renditions" /\ UNCHANGED <<rows, vid, vwant, vsnap, vcopy>>
    BY <1>6 DEF CopyRendition
  <2>2. PICK k \in vleft[p], copy \in {Rotated(p, j) : j \in vleft[p]}, next \in {"update", "copy_renditions"} :
          /\ copy = Rotated(p, k)
          /\ \/ /\ Put(copy)
                /\ vrends' = [vrends EXCEPT ![p] = @ \cup {copy}]
                /\ vleft' = [vleft EXCEPT ![p] = @ \ {k}]
                /\ VisStep(p, "copy_renditions", next)
             \/ /\ vleft' = [vleft EXCEPT ![p] = @ \ {k}]
                /\ VisStep(p, "copy_renditions", next)
                /\ UNCHANGED <<objects, vrends>>
             \/ /\ PutRefused(copy)
                /\ vleft' = [vleft EXCEPT ![p] = {vcopy[p]} \cup vrends[p]]
                /\ VisStep(p, "copy_renditions", "undo")
                /\ UNCHANGED vrends
             \/ /\ PutEscapes(copy)
                /\ VisStep(p, "copy_renditions", "broken")
                /\ UNCHANGED <<vrends, vleft>>
    BY <1>6 DEF CopyRendition
  <2>3. /\ vcopy[p] # None /\ vcopy[p] \in Keys /\ vleft[p] \subseteq vsnap[p].rends
        /\ Copies(p) \subseteq objects /\ Copies(p) = {vcopy[p]} \cup vrends[p]
    BY <1>1, <1>2, <2>1 DEF PatchFacts, Copies
  <2>4. copy \in Keys /\ copy.tag = p /\ copy.vis = vwant[p] /\ copy.part # "main"
    BY <1>1, <1>2, <2>1, <2>2, <2>3, RotatedKey
  <2>5. CASE /\ Put(copy)
             /\ vrends' = [vrends EXCEPT ![p] = @ \cup {copy}]
             /\ vleft' = [vleft EXCEPT ![p] = @ \ {k}]
             /\ VisStep(p, "copy_renditions", next)
    <3>1. /\ vpc'[p] \in {"update", "copy_renditions"} /\ vrends'[p] = vrends[p] \cup {copy}
          /\ objects' = objects \cup {copy} /\ vleft'[p] = vleft[p] \ {k}
      BY <1>1, <2>2, <2>5 DEF VisStep, Put
    <3>2. Copies(p)' = Copies(p) \cup {copy}
      BY <2>1, <2>3, <3>1 DEF Copies
    <3>3. StoreTypeOK' /\ VisTypeOK'
      BY <1>1, <1>2, <2>1, <2>2, <2>4, <2>5, <3>1 DEF VisStep
    <3>4. PatchKeeps(p)
      BY <1>1, <2>1, <2>4, <2>5, <3>1 DEF VisStep, PatchKeeps, Out
    <3>5. PatchFacts(p)'
      BY <1>1, <2>1, <2>3, <2>4, <3>1, <3>2 DEF PatchFacts
    <3>. QED
      BY <2>1, <3>1, <3>3, <3>4, <3>5 DEF PatchRuns
  <2>6. CASE /\ vleft' = [vleft EXCEPT ![p] = @ \ {k}]
             /\ VisStep(p, "copy_renditions", next)
             /\ UNCHANGED <<objects, vrends>>
    <3>1. vpc'[p] \in {"update", "copy_renditions"} /\ vleft'[p] = vleft[p] \ {k}
      BY <1>1, <2>2, <2>6 DEF VisStep
    <3>2. Copies(p)' = Copies(p)
      BY <2>1, <2>6 DEF Copies
    <3>3. StoreTypeOK' /\ VisTypeOK'
      BY <1>1, <1>2, <2>1, <2>2, <2>6, <3>1 DEF VisStep
    <3>4. PatchKeeps(p)
      BY <1>1, <2>1, <2>6, <3>1 DEF VisStep, PatchKeeps, Out
    <3>5. PatchFacts(p)'
      BY <1>1, <2>1, <2>3, <2>6, <3>1, <3>2 DEF PatchFacts
    <3>. QED
      BY <2>1, <2>6, <3>1, <3>3, <3>4, <3>5 DEF PatchRuns
  <2>7. CASE /\ PutRefused(copy)
             /\ vleft' = [vleft EXCEPT ![p] = {vcopy[p]} \cup vrends[p]]
             /\ VisStep(p, "copy_renditions", "undo")
             /\ UNCHANGED vrends
    <3>1. /\ vpc'[p] = "undo" /\ vleft'[p] = Copies(p)
          /\ objects' \in {objects, objects \cup {copy}}
      BY <1>1, <2>3, <2>7 DEF VisStep, PutRefused, Put
    <3>2. Copies(p)' = Copies(p)
      BY <2>1, <2>7 DEF Copies
    <3>3. StoreTypeOK' /\ VisTypeOK'
      BY <1>1, <1>2, <2>1, <2>3, <2>4, <2>7, <3>1 DEF VisStep
    <3>4. PatchKeeps(p)
      BY <1>1, <2>1, <2>4, <2>7, <3>1 DEF VisStep, PatchKeeps, Out
    <3>5. PatchFacts(p)'
      BY <1>1, <2>1, <2>3, <2>7, <3>1, <3>2 DEF PatchFacts
    <3>. QED
      BY <2>1, <3>1, <3>3, <3>4, <3>5 DEF PatchRuns
  <2>8. CASE /\ PutEscapes(copy)
             /\ VisStep(p, "copy_renditions", "broken")
             /\ UNCHANGED <<vrends, vleft>>
    <3>1. vpc'[p] = "broken" /\ objects' \in {objects, objects \cup {copy}}
      BY <1>1, <2>8 DEF VisStep, PutEscapes, Put
    <3>2. Copies(p)' = Copies(p)
      BY <2>1, <2>8 DEF Copies
    <3>3. StoreTypeOK' /\ VisTypeOK'
      BY <1>1, <1>2, <2>1, <2>4, <2>8, <3>1 DEF VisStep
    <3>4. PatchKeeps(p)
      BY <1>1, <2>1, <2>4, <2>8, <3>1 DEF VisStep, PatchKeeps, Out
    <3>5. PatchFacts(p)'
      BY <1>1, <2>1, <2>3, <2>8, <3>1, <3>2 DEF PatchFacts
    <3>. QED
      BY <2>1, <3>1, <3>3, <3>4, <3>5 DEF PatchRuns
  <2>. QED
    BY <2>2, <2>5, <2>6, <2>7, <2>8
<1>7. CASE UpdateVisibility(p)
  <2>1. vpc[p] = "update" /\ UNCHANGED <<objects, vid, vwant, vsnap, vcopy, vrends>> /\ vid[p] \in Ids
    BY <1>1, <1>7 DEF UpdateVisibility
  <2>2. Repointed(p) = IF Exists(vid[p]) THEN [rows EXCEPT ![vid[p]] = NewRow(p)] ELSE rows
    BY <1>1, <2>1, NewRowFields
  <2>3. NewRow(p) \in Rows
    BY <1>1, <2>1, NewRowFields
  <2>4. Cascade(p) = "answered"
    BY <1>1 DEF Cascade
  <2>5. Copies(p)' = Copies(p)
    BY <2>1 DEF Copies
  <2>6. CASE /\ Exists(vid[p])
             /\ rows' = Repointed(p)
             /\ vleft' = [vleft EXCEPT ![p] = IF vcopy[p] = None THEN {} ELSE Held(vsnap[p])]
             /\ VisStep(p, "update", IF vcopy[p] = None THEN Cascade(p) ELSE "remove_old")
    <3>1. /\ rows' = [rows EXCEPT ![vid[p]] = NewRow(p)] /\ rows'[vid[p]] = NewRow(p)
          /\ vleft'[p] = IF vcopy[p] = None THEN {} ELSE Held(vsnap[p])
          /\ vpc'[p] = IF vcopy[p] = None THEN "answered" ELSE "remove_old"
      BY <1>1, <2>1, <2>2, <2>4, <2>6 DEF VisStep
    <3>2. Held(vsnap[p]) \subseteq Keys
      BY <1>2, <2>1 DEF Held
    <3>3. StoreTypeOK' /\ VisTypeOK'
      <4>1. vpc' \in [Patchers -> VisSteps] /\ vleft' \in [Patchers -> SUBSET Keys]
        BY <1>1, <2>4, <2>6, <3>2 DEF VisStep
      <4>2. rows' \in [Ids -> Rows]
        BY <1>1, <2>3, <3>1
      <4>. QED
        BY <1>1, <2>1, <4>1, <4>2
    <3>4. PatchKeeps(p)
      BY <1>1, <2>1, <2>6, <3>1 DEF VisStep, PatchKeeps, Out
    <3>5. vcopy[p] # None => Held(vsnap[p]) \cap Held(NewRow(p)) = {}
      BY <2>1, <2>6, CopiesAreNew
    <3>6. PatchFacts(p)'
      BY <1>1, <2>1, <2>5, <3>1, <3>5 DEF PatchFacts
    <3>. QED
      BY <2>1, <2>6, <3>1, <3>3, <3>4, <3>6 DEF PatchRuns, Out
  <2>7. CASE /\ (~Exists(vid[p]) /\ UNCHANGED rows) \/ StatementRaises(Repointed(p))
             /\ vleft' = [vleft EXCEPT ![p] = IF vcopy[p] = None THEN {} ELSE {vcopy[p]} \cup vrends[p]]
             /\ VisStep(p, "update", IF vcopy[p] = None THEN "answered" ELSE "undo")
    <3>1. /\ vleft'[p] = IF vcopy[p] = None THEN {} ELSE Copies(p)
          /\ vpc'[p] = IF vcopy[p] = None THEN "answered" ELSE "undo"
          /\ \/ rows' = rows
             \/ /\ "lost_reply" \in Faults /\ Exists(vid[p])
                /\ rows' = [rows EXCEPT ![vid[p]] = NewRow(p)]
      <4>1. \/ rows' = rows
            \/ /\ "lost_reply" \in Faults /\ Exists(vid[p])
               /\ rows' = [rows EXCEPT ![vid[p]] = NewRow(p)]
        BY <2>2, <2>7 DEF StatementRaises
      <4>2. vleft'[p] = IF vcopy[p] = None THEN {} ELSE Copies(p)
        BY <1>1, <2>7 DEF Copies
      <4>3. vpc'[p] = IF vcopy[p] = None THEN "answered" ELSE "undo"
        BY <1>1, <2>7 DEF VisStep
      <4>. QED
        BY <4>1, <4>2, <4>3
    <3>2. StoreTypeOK' /\ VisTypeOK'
      <4>1. vpc' \in [Patchers -> VisSteps]
        BY <1>1, <2>7 DEF VisStep
      <4>2. vleft' \in [Patchers -> SUBSET Keys]
        BY <1>1, <1>2, <2>7
      <4>3. rows' \in [Ids -> Rows]
        BY <1>1, <2>3, <3>1
      <4>. QED
        BY <1>1, <2>1, <4>1, <4>2, <4>3
    <3>3. PatchKeeps(p)
      BY <1>1, <2>1, <2>7, <3>1 DEF VisStep, PatchKeeps, Out
    <3>4. PatchFacts(p)'
      BY <1>1, <2>1, <2>5, <3>1 DEF PatchFacts
    <3>. QED
      BY <2>1, <3>1, <3>2, <3>3, <3>4 DEF PatchRuns, Out
  <2>. QED
    BY <1>7, <2>6, <2>7 DEF UpdateVisibility
<1>8. CASE RemoveCopies(p) \/ RemoveOld(p)
  <2>1. UNCHANGED <<rows, vid, vwant, vsnap, vcopy, vrends>>
    BY <1>8 DEF RemoveCopies, RemoveOld
  <2>2. Cascade(p) = "answered"
    BY <1>1 DEF Cascade
  <2>3. PICK from \in {"undo", "remove_old"}, to \in {"undo", "remove_old", "answered", "broken"} :
          /\ to \in {from, "answered", "broken"} /\ vpc[p] = from /\ vpc' = [vpc EXCEPT ![p] = to]
          /\ \/ \E k \in vleft[p] : /\ objects' \in {objects, objects \ {k}}
                                    /\ vleft' = [vleft EXCEPT ![p] = @ \ {k}]
             \/ objects' = objects /\ vleft' = vleft
    BY <1>8, <2>2 DEF RemoveCopies, RemoveOld, VisStep, RemoveSuppressed, Remove, RemoveRefused,
       RemoveEscapes
  <2>4. /\ vpc'[p] = to /\ vleft'[p] \subseteq vleft[p] /\ objects' \subseteq objects
        /\ \A k \in objects : k \in objects' \/ k \in vleft[p]
        /\ vleft' \in [Patchers -> SUBSET Keys] /\ \A q \in Patchers \ {p} : vleft'[q] = vleft[q]
    BY <1>1, <2>3
  <2>5. Copies(p)' = Copies(p)
    BY <2>1 DEF Copies
  <2>6. StoreTypeOK' /\ VisTypeOK'
    BY <1>1, <2>1, <2>3, <2>4
  <2>7. PatchKeeps(p)
    BY <1>1, <2>1, <2>3, <2>4 DEF PatchKeeps, Out
  <2>8. PatchFacts(p)'
    <3>1. (Exists(vid[p]) <=> Exists(vid[p])') /\ Held(rows[vid[p]])' = Held(rows[vid[p]])
          /\ Held(vsnap[p])' = Held(vsnap[p])
      BY <2>1 DEF Exists, Held
    <3>2. CASE vpc'[p] = "undo"
      <4>1. vpc[p] = "undo"
        BY <2>3, <2>4, <3>2
      <4>. QED
        BY <1>1, <2>1, <2>4, <2>5, <3>2, <4>1 DEF PatchFacts
    <3>3. CASE vpc'[p] = "remove_old"
      <4>1. vpc[p] = "remove_old"
        BY <2>3, <2>4, <3>3
      <4>. QED
        BY <1>1, <2>1, <2>4, <2>5, <3>1, <3>3, <4>1 DEF PatchFacts
    <3>4. CASE vpc'[p] \in {"answered", "broken"}
      BY <1>1, <2>1, <2>5, <3>4 DEF PatchFacts
    <3>. QED
      BY <2>3, <2>4, <3>2, <3>3, <3>4
  <2>. QED
    BY <2>1, <2>3, <2>4, <2>6, <2>7, <2>8 DEF PatchRuns
<1>. QED
  BY <1>1, <1>3, <1>4, <1>5, <1>6, <1>7, <1>8 DEF Patch, LoadPosterForVisibility

(***************************************************************************)
(* Every step keeps OwnInv.                                                *)
(***************************************************************************)

(* A name given to a row stays the row's.                                  *)
LEMMA OwnsKept ==
  ASSUME \A p \in Patchers : vpc[p] \in Out => vpc'[p] \in Out /\ vid'[p] = vid[p],
         NEW i, NEW k, Owns(i, k)
  PROVE  Owns(i, k)'
BY DEF Owns, Out

(* So a row that is as it was, or has lost renditions, is as its own.      *)
LEMMA OwnRowKept ==
  ASSUME \A p \in Patchers : vpc[p] \in Out => vpc'[p] \in Out /\ vid'[p] = vid[p],
         NEW i, NEW row, NEW old, OwnRow(i, old), row.key = old.key, row.rends \subseteq old.rends
  PROVE  OwnRow(i, row)'
<1>1. Held(row) \subseteq Held(old)
  BY DEF Held
<1>2. \A k \in Held(row) : Owns(i, k)
  BY <1>1 DEF OwnRow
<1>3. \A k \in Held(row) : Owns(i, k)'
  BY <1>2, OwnsKept
<1>. QED
  BY <1>3 DEF OwnRow, Held

(* What a row owns is of no upload still under way, and of no PATCH that   *)
(* has not written.                                                        *)
LEMMA OwnedKeys ==
  ASSUME OwnInv, NEW i \in Uploads, ipc[i] \in Made, NEW k, Owns(i, k)
  PROVE  /\ \A v \in Uploads : k.tag = v => ipc[v] \in Made
         /\ \A q \in Patchers : k.tag = q => vpc[q] \in Out
<1>1. \A v \in Uploads : v \notin Patchers
  BY StoreAssumption DEF Ids
<1>. QED
  BY <1>1 DEF Owns

(* An upload that does not move loses nothing to the others.               *)
LEMMA UploadFactsKept ==
  ASSUME OwnInv, NEW v \in Uploads, form' = form, todo'[v] = todo[v], stored'[v] = stored[v],
         ipc'[v] = ipc[v],
         \A k \in objects : k \in objects' \/ k.tag # v \/ ipc[v] \in Made
  PROVE  UploadFacts(v)'
<1>1. UploadFacts(v)
  BY DEF OwnInv
<1>2. MainKey(v)' = MainKey(v)
  BY DEF MainKey
<1>3. ipc[v] \in {"renditions", "record"} => ipc[v] \notin Made
  BY DEF Made
<1>. QED
  BY <1>1, <1>2, <1>3 DEF UploadFacts

(* Neither does a PATCH.                                                   *)
LEMMA PatchFactsKept ==
  ASSUME OwnInv, NEW p \in Patchers,
         vpc'[p] = vpc[p], vid'[p] = vid[p], vwant'[p] = vwant[p], vsnap'[p] = vsnap[p],
         vcopy'[p] = vcopy[p], vrends'[p] = vrends[p], vleft'[p] = vleft[p],
         \A k \in objects : k \in objects' \/ k.tag # p \/ vpc[p] \in Out,
         vpc[p] = "remove_old" /\ Exists(vid[p])' => vleft[p] \cap Held(rows'[vid[p]]) = {}
  PROVE  PatchFacts(p)'
<1>1. PatchFacts(p)
  BY DEF OwnInv
<1>2. Copies(p)' = Copies(p) /\ Held(vsnap[p])' = Held(vsnap[p])
      /\ Held(rows[vid[p]])' = Held(rows'[vid[p]])
  BY DEF Copies, Held
<1>3. vpc[p] \in {"copy_renditions", "update"} => vpc[p] \notin Out
  BY DEF Out
<1>4. vpc[p] \in {"copy_renditions", "update"} => Copies(p) \subseteq objects'
  BY <1>1, <1>3 DEF PatchFacts
<1>. QED
  BY <1>1, <1>2, <1>4 DEF PatchFacts

(* A row that is as it was is still its own.                               *)
LEMMA RowsKept ==
  ASSUME OwnInv, \A p \in Patchers : vpc[p] \in Out => vpc'[p] \in Out /\ vid'[p] = vid[p],
         \A v \in Uploads : ipc[v] \in Made => ipc'[v] \in Made,
         NEW i \in Ids, Exists(i)', rows'[i] = rows[i]
  PROVE  i \in Uploads /\ ipc'[i] \in Made /\ OwnRow(i, rows[i])'
<1>1. Exists(i)
  BY DEF Exists
<1>2. i \in Uploads /\ ipc[i] \in Made /\ OwnRow(i, rows[i])
  BY <1>1 DEF OwnInv, Subjects
<1>3. PICK old : old = rows[i]
  OBVIOUS
<1>4. OwnRow(i, old)'
  BY <1>2, <1>3, OwnRowKept
<1>. QED
  BY <1>2, <1>3, <1>4

(* So is what a DELETE or a PATCH that does not move has read.             *)
LEMMA DeleteKept ==
  ASSUME OwnInv, \A p \in Patchers : vpc[p] \in Out => vpc'[p] \in Out /\ vid'[p] = vid[p],
         \A v \in Uploads : ipc[v] \in Made => ipc'[v] \in Made,
         NEW d \in Deleters, dpc'[d] = dpc[d], did'[d] = did[d], dsnap'[d] = dsnap[d]
  PROVE  IF dpc'[d] = "idle" THEN did'[d] = None
         ELSE did'[d] \in Uploads /\ ipc'[did'[d]] \in Made /\ OwnRow(did[d], dsnap[d])'
<1>1. CASE dpc[d] = "idle"
  BY <1>1 DEF OwnInv, Subjects
<1>2. CASE dpc[d] # "idle"
  <2>1. PICK i, old : i = did[d] /\ old = dsnap[d]
    OBVIOUS
  <2>2. i \in Uploads /\ ipc[i] \in Made /\ OwnRow(i, old)
    BY <1>2, <2>1 DEF OwnInv, Subjects
  <2>3. OwnRow(i, old)'
    BY <2>2, OwnRowKept
  <2>. QED
    BY <1>2, <2>1, <2>2, <2>3
<1>. QED
  BY <1>1, <1>2

(* The same of a PATCH.                                                    *)
LEMMA PatchKept ==
  ASSUME OwnInv, \A p \in Patchers : vpc[p] \in Out => vpc'[p] \in Out /\ vid'[p] = vid[p],
         \A v \in Uploads : ipc[v] \in Made => ipc'[v] \in Made,
         NEW q \in Patchers, vpc'[q] = "idle" <=> vpc[q] = "idle", vid'[q] = vid[q], vsnap'[q] = vsnap[q]
  PROVE  IF vpc'[q] = "idle" THEN vid'[q] = None
         ELSE vid'[q] \in Uploads /\ ipc'[vid'[q]] \in Made /\ OwnRow(vid[q], vsnap[q])'
<1>1. CASE vpc[q] = "idle"
  BY <1>1 DEF OwnInv, Subjects
<1>2. CASE vpc[q] # "idle"
  <2>1. PICK i, old : i = vid[q] /\ old = vsnap[q]
    OBVIOUS
  <2>2. i \in Uploads /\ ipc[i] \in Made /\ OwnRow(i, old)
    BY <1>2, <2>1 DEF OwnInv, Subjects
  <2>3. OwnRow(i, old)'
    BY <2>2, OwnRowKept
  <2>. QED
    BY <1>2, <2>1, <2>2, <2>3
<1>. QED
  BY <1>1, <1>2

(* An upload's step.                                                       *)
LEMMA UploadOwn ==
  ASSUME OwnInv, NEW u \in Uploads, ReuseExisting(u) \/ EncodeImage(u) \/ ServeImage(u),
         UNCHANGED <<deleteVars, visVars>>
  PROVE  OwnInv'
<1>1. StoreTypeOK' /\ ImageTypeOK' /\ UploadKeeps(u) /\ UploadWrites(u) /\ UploadFacts(u)'
  BY UploadEffect
<1>2. UNCHANGED <<dpc, did, dsnap, dposter>> /\ UNCHANGED <<vpc, vid, vwant, vsnap, vcopy, vrends, vleft>>
  BY DEF deleteVars, visVars
<1>3. TypeOK /\ NoPosters /\ Subjects /\ UploadFacts(u) /\ u \in Ids /\ StoreTypeOK
  BY DEF OwnInv, TypeOK, Ids
<1>4. \A p \in Patchers : vpc[p] \in Out => vpc'[p] \in Out /\ vid'[p] = vid[p]
  BY <1>2 DEF Out
<1>5. PICK row : row = ImageRow(u)
  OBVIOUS
<1>6. /\ row.key = MainKey(u) /\ row.rends = stored[u] \ {MainKey(u)} /\ row.poster = None
      /\ row.key # None /\ row.key.part = "main" /\ row.key.tag = u
  BY <1>3, <1>5, UploadNames, StoreAssumption
<1>7. ipc[u] = "record" => OwnRow(u, row)'
  BY <1>3, <1>6 DEF UploadFacts, OwnRow, Owns, Held
<1>8. \A i \in Ids : \/ rows'[i] = rows[i]
                     \/ i = u /\ ipc[u] = "record" /\ ipc'[u] \in Made /\ rows'[i] = row
  BY <1>1, <1>3, <1>5 DEF UploadWrites, StoreTypeOK
<1>9. \A v \in Uploads : ipc[v] \in Made => ipc'[v] \in Made
  BY <1>1 DEF UploadKeeps
<1>10. \A i \in Ids : Exists(i)' => i \in Uploads /\ ipc'[i] \in Made /\ OwnRow(i, rows[i])'
  <2>. SUFFICES ASSUME NEW i \in Ids, Exists(i)'
                PROVE  i \in Uploads /\ ipc'[i] \in Made /\ OwnRow(i, rows[i])'
    OBVIOUS
  <2>1. CASE rows'[i] = rows[i]
    BY <1>4, <1>9, <2>1, RowsKept
  <2>2. CASE i = u /\ ipc[u] = "record" /\ ipc'[u] \in Made /\ rows'[i] = row
    BY <1>7, <2>2
  <2>. QED
    BY <1>8, <2>1, <2>2
<1>11. TypeOK'
  <2>1. KeysNotNull'
    BY <1>10 DEF KeysNotNull, OwnRow
  <2>2. DeleteTypeOK' /\ VisTypeOK'
    BY <1>2, <1>3 DEF TypeOK, DeleteTypeOK, VisTypeOK
  <2>. QED
    BY <1>1, <2>1, <2>2 DEF TypeOK
<1>12. NoPosters'
  BY <1>2, <1>3, <1>6, <1>8 DEF NoPosters
<1>13. \A d \in Deleters :
         IF dpc'[d] = "idle" THEN did'[d] = None
         ELSE did'[d] \in Uploads /\ ipc'[did'[d]] \in Made /\ OwnRow(did[d], dsnap[d])'
  BY <1>2, <1>4, <1>9, DeleteKept
<1>14. \A q \in Patchers :
         IF vpc'[q] = "idle" THEN vid'[q] = None
         ELSE vid'[q] \in Uploads /\ ipc'[vid'[q]] \in Made /\ OwnRow(vid[q], vsnap[q])'
  BY <1>2, <1>4, <1>9, PatchKept
<1>15. Subjects'
  BY <1>10, <1>13, <1>14 DEF Subjects
<1>16. \A k \in objects : k \in objects' \/ k.tag = u
  BY <1>1, <1>3 DEF UploadKeeps, UploadFacts
<1>17. ASSUME NEW v \in Uploads
       PROVE  UploadFacts(v)'
  <2>1. CASE v = u
    BY <1>1, <2>1
  <2>2. CASE v # u
    BY <1>1, <1>16, <2>2, UploadFactsKept DEF UploadKeeps
  <2>. QED
    BY <2>1, <2>2
<1>18. ASSUME NEW p \in Patchers
       PROVE  PatchFacts(p)'
  <2>1. u # p
    BY <1>3, StoreAssumption
  <2>2. ASSUME vpc[p] = "remove_old", Exists(vid[p])'
        PROVE  vleft[p] \cap Held(rows'[vid[p]]) = {}
    <3>1. vid[p] \in Ids /\ ipc[vid[p]] \in Made /\ PatchFacts(p)
      BY <1>3, <2>2 DEF Subjects, Ids, OwnInv
    <3>2. rows'[vid[p]] = rows[vid[p]]
      BY <1>8, <3>1 DEF Made
    <3>3. Exists(vid[p])
      BY <1>2, <2>2, <3>2 DEF Exists
    <3>. QED
      BY <2>2, <3>1, <3>2, <3>3 DEF PatchFacts
  <2>. QED
    BY <1>2, <1>16, <2>1, <2>2, PatchFactsKept
<1>. QED
  BY <1>11, <1>12, <1>15, <1>17, <1>18 DEF OwnInv

(* A DELETE's step.                                                        *)
LEMMA DeleteOwn ==
  ASSUME OwnInv, NEW d \in Deleters, LoadForDelete(d) \/ Delete(d), UNCHANGED <<imageVars, visVars>>
  PROVE  OwnInv'
<1>1. StoreTypeOK' /\ DeleteTypeOK' /\ DeleteKeeps(d) /\ (DeleteLoads(d) \/ DeleteRuns(d))
  BY DeleteEffect
<1>2. UNCHANGED <<form, ipc, todo, stored, answer>> /\ UNCHANGED <<vpc, vid, vwant, vsnap, vcopy, vrends, vleft>>
  BY DEF imageVars, visVars
<1>3. TypeOK /\ NoPosters /\ Subjects /\ StoreTypeOK
  BY DEF OwnInv, TypeOK
<1>4. /\ \A p \in Patchers : vpc[p] \in Out => vpc'[p] \in Out /\ vid'[p] = vid[p]
      /\ \A v \in Uploads : ipc[v] \in Made => ipc'[v] \in Made
  BY <1>2 DEF Out, Made
<1>5. \A i \in Ids : rows'[i] = rows[i] \/ rows'[i] = NoRow
  BY <1>1, <1>3 DEF DeleteLoads, DeleteRuns, StoreTypeOK
<1>6. \A i \in Ids : Exists(i)' => rows'[i] = rows[i]
  BY <1>5, NoRowFields DEF Exists
<1>7. \A i \in Ids : Exists(i)' => i \in Uploads /\ ipc'[i] \in Made /\ OwnRow(i, rows[i])'
  BY <1>4, <1>6, RowsKept
<1>8. TypeOK'
  <2>1. KeysNotNull'
    BY <1>7 DEF KeysNotNull, OwnRow
  <2>2. ImageTypeOK' /\ VisTypeOK'
    BY <1>2, <1>3 DEF TypeOK, ImageTypeOK, VisTypeOK
  <2>. QED
    BY <1>1, <2>1, <2>2 DEF TypeOK
<1>9. NoPosters'
  <2>1. \A i \in Ids : rows'[i].poster = None
    BY <1>3, <1>5, NoRowFields DEF NoPosters
  <2>2. \A e \in Deleters :
          dsnap'[e].poster = None /\ dpc'[e] \notin {"load_poster", "poster_object", "poster_row"}
    BY <1>1, <1>3 DEF NoPosters, DeleteKeeps, DeleteLoads, DeleteRuns
  <2>. QED
    BY <1>2, <1>3, <2>1, <2>2 DEF NoPosters
<1>10. ASSUME NEW e \in Deleters
       PROVE  IF dpc'[e] = "idle" THEN did'[e] = None
              ELSE did'[e] \in Uploads /\ ipc'[did'[e]] \in Made /\ OwnRow(did[e], dsnap[e])'
  <2>1. CASE e # d
    BY <1>1, <1>4, <2>1, DeleteKept DEF DeleteKeeps
  <2>2. CASE e = d /\ DeleteLoads(d)
    <3>1. PICK i \in Ids : Exists(i) /\ did'[d] = i /\ dsnap'[d] = rows[i]
      BY <2>2 DEF DeleteLoads
    <3>2. PICK old : old = rows[i]
      OBVIOUS
    <3>3. i \in Uploads /\ ipc[i] \in Made /\ OwnRow(i, old)
      BY <1>3, <3>1, <3>2 DEF Subjects
    <3>4. OwnRow(i, old)'
      BY <1>4, <3>3, OwnRowKept
    <3>. QED
      BY <1>4, <2>2, <3>1, <3>2, <3>3, <3>4 DEF DeleteLoads
  <2>3. CASE e = d /\ DeleteRuns(d)
    <3>1. PICK i, old, new : i = did[d] /\ old = dsnap[d] /\ new = dsnap'[d]
      OBVIOUS
    <3>2. i \in Uploads /\ ipc[i] \in Made /\ OwnRow(i, old)
      BY <1>3, <2>3, <3>1 DEF Subjects, DeleteRuns
    <3>3. OwnRow(i, new)'
      BY <1>4, <2>3, <3>1, <3>2, OwnRowKept DEF DeleteRuns
    <3>. QED
      BY <1>4, <2>3, <3>1, <3>2, <3>3 DEF DeleteRuns
  <2>. QED
    BY <1>1, <2>1, <2>2, <2>3
<1>11. \A q \in Patchers :
         IF vpc'[q] = "idle" THEN vid'[q] = None
         ELSE vid'[q] \in Uploads /\ ipc'[vid'[q]] \in Made /\ OwnRow(vid[q], vsnap[q])'
  BY <1>2, <1>4, PatchKept
<1>12. Subjects'
  BY <1>7, <1>10, <1>11 DEF Subjects
<1>13. ASSUME NEW k \in objects, k \notin objects'
       PROVE  /\ \A v \in Uploads : k.tag = v => ipc[v] \in Made
              /\ \A q \in Patchers : k.tag = q => vpc[q] \in Out
  <2>1. dpc[d] # "idle" /\ k \in Held(dsnap[d])
    BY <1>1, <1>13 DEF DeleteKeeps
  <2>2. did[d] \in Uploads /\ ipc[did[d]] \in Made /\ Owns(did[d], k)
    BY <1>3, <2>1 DEF Subjects, OwnRow
  <2>. QED
    BY <2>2, OwnedKeys
<1>14. \A v \in Uploads : UploadFacts(v)'
  BY <1>2, <1>13, UploadFactsKept
<1>15. ASSUME NEW p \in Patchers
       PROVE  PatchFacts(p)'
  <2>1. ASSUME vpc[p] = "remove_old", Exists(vid[p])'
        PROVE  vleft[p] \cap Held(rows'[vid[p]]) = {}
    <3>1. vid[p] \in Ids /\ PatchFacts(p)
      BY <1>3, <2>1 DEF Subjects, Ids, OwnInv
    <3>2. vid'[p] = vid[p] /\ rows'[vid[p]] = rows[vid[p]]
      BY <1>2, <1>6, <2>1, <3>1 DEF Exists
    <3>3. Exists(vid[p])
      BY <2>1, <3>2 DEF Exists
    <3>. QED
      BY <2>1, <3>1, <3>2, <3>3 DEF PatchFacts
  <2>. QED
    BY <1>2, <1>13, <2>1, PatchFactsKept
<1>. QED
  BY <1>8, <1>9, <1>12, <1>14, <1>15 DEF OwnInv

(* A PATCH's step.                                                         *)
LEMMA PatchOwn ==
  ASSUME OwnInv, NEW p \in Patchers, LoadForVisibility(p) \/ Patch(p), UNCHANGED <<imageVars, deleteVars>>
  PROVE  OwnInv'
<1>1. StoreTypeOK' /\ VisTypeOK' /\ PatchKeeps(p) /\ (PatchLoads(p) \/ PatchRuns(p)) /\ PatchFacts(p)'
  BY PatchEffect
<1>2. UNCHANGED <<form, ipc, todo, stored, answer>> /\ UNCHANGED <<dpc, did, dsnap, dposter>>
  BY DEF imageVars, deleteVars
<1>3. TypeOK /\ NoPosters /\ Subjects /\ StoreTypeOK /\ VisTypeOK /\ PatchFacts(p)
  BY DEF OwnInv, TypeOK
<1>4. /\ \A q \in Patchers : vpc[q] \in Out => vpc'[q] \in Out /\ vid'[q] = vid[q]
      /\ \A v \in Uploads : ipc[v] \in Made => ipc'[v] \in Made
  BY <1>1, <1>2 DEF PatchKeeps, PatchLoads, PatchRuns, Out, Made
<1>5. /\ vpc[p] = "update" => vpc[p] \notin Out
      /\ vpc[p] # "idle" => vid[p] \in Uploads /\ vid[p] \in Ids /\ ipc[vid[p]] \in Made
                            /\ OwnRow(vid[p], vsnap[p])
  BY <1>3 DEF Subjects, Ids, Out
<1>6. PICK new : new = NewRow(p)
  OBVIOUS
<1>7. /\ vpc[p] = "update" => new.status = rows[vid[p]].status /\ new.poster = rows[vid[p]].poster
      /\ vpc[p] = "update" => new.key = IF vcopy[p] = None THEN rows[vid[p]].key ELSE vcopy[p]
      /\ vpc[p] = "update" =>
           new.rends = IF vcopy[p] = None \/ vsnap[p].rends = {} THEN rows[vid[p]].rends ELSE vrends[p]
  BY <1>3, <1>5, <1>6, NewRowFields
<1>8. \A i \in Ids : \/ rows'[i] = rows[i]
                     \/ /\ vpc[p] = "update" /\ vpc'[p] \in Out /\ Exists(vid[p]) /\ vid'[p] = vid[p]
                        /\ i = vid[p] /\ rows'[i] = new
  BY <1>1, <1>3, <1>6 DEF PatchLoads, PatchRuns, StoreTypeOK
<1>9. ASSUME vpc[p] = "update", vpc'[p] \in Out, Exists(vid[p]), vid'[p] = vid[p]
      PROVE  OwnRow(vid[p], new)'
  <2>1. PICK i, old : i = vid[p] /\ old = rows[i]
    OBVIOUS
  <2>2. i \in Ids /\ OwnRow(i, old)
    BY <1>3, <1>5, <1>9, <2>1 DEF Subjects
  <2>3. \A k \in Held(old) : Owns(i, k)'
    BY <1>4, <2>2, OwnsKept DEF OwnRow
  <2>4. \A k \in Copies(p) : Owns(i, k)'
    BY <1>3, <1>9, <2>1 DEF PatchFacts, Owns
  <2>5. Held(new) \subseteq Held(old) \cup Copies(p)
    BY <1>7, <1>9, <2>1 DEF Held, Copies
  <2>6. /\ new.key # None /\ new.key.part = "main"
        /\ \A k \in new.rends : k.part # "main"
    BY <1>3, <1>7, <1>9, <2>1, <2>2 DEF PatchFacts, OwnRow
  <2>7. OwnRow(i, new)'
    BY <2>3, <2>4, <2>5, <2>6 DEF OwnRow, Held
  <2>. QED
    BY <1>9, <2>1, <2>7
<1>10. ASSUME NEW i \in Ids, Exists(i)'
       PROVE  i \in Uploads /\ ipc'[i] \in Made /\ OwnRow(i, rows[i])'
  <2>1. CASE rows'[i] = rows[i]
    BY <1>4, <1>10, <2>1, RowsKept
  <2>2. CASE /\ vpc[p] = "update" /\ vpc'[p] \in Out /\ Exists(vid[p]) /\ vid'[p] = vid[p]
             /\ i = vid[p] /\ rows'[i] = new
    <3>1. OwnRow(i, new)'
      BY <1>9, <2>2
    <3>. QED
      BY <1>4, <1>5, <2>2, <3>1
  <2>. QED
    BY <1>8, <2>1, <2>2
<1>11. TypeOK'
  <2>1. KeysNotNull'
    BY <1>10 DEF KeysNotNull, OwnRow
  <2>2. ImageTypeOK' /\ DeleteTypeOK'
    BY <1>2, <1>3 DEF TypeOK, ImageTypeOK, DeleteTypeOK
  <2>. QED
    BY <1>1, <2>1, <2>2 DEF TypeOK
<1>12. NoPosters'
  <2>1. \A i \in Ids : rows'[i].poster = None
    BY <1>3, <1>7, <1>8 DEF NoPosters
  <2>2. \A q \in Patchers : vsnap'[q].poster = None /\ vpc'[q] # "load_poster"
    BY <1>1, <1>3 DEF NoPosters, PatchKeeps, PatchLoads, PatchRuns
  <2>. QED
    BY <1>2, <1>3, <2>1, <2>2 DEF NoPosters
<1>13. \A d \in Deleters :
         IF dpc'[d] = "idle" THEN did'[d] = None
         ELSE did'[d] \in Uploads /\ ipc'[did'[d]] \in Made /\ OwnRow(did[d], dsnap[d])'
  BY <1>2, <1>4, DeleteKept
<1>14. ASSUME NEW q \in Patchers
       PROVE  IF vpc'[q] = "idle" THEN vid'[q] = None
              ELSE vid'[q] \in Uploads /\ ipc'[vid'[q]] \in Made /\ OwnRow(vid[q], vsnap[q])'
  <2>1. CASE q # p
    BY <1>1, <1>4, <2>1, PatchKept DEF PatchKeeps
  <2>2. CASE q = p /\ PatchLoads(p)
    <3>1. PICK i \in Ids : Exists(i) /\ vid'[p] = i /\ vsnap'[p] = rows[i]
      BY <2>2 DEF PatchLoads
    <3>2. PICK old : old = rows[i]
      OBVIOUS
    <3>3. i \in Uploads /\ ipc[i] \in Made /\ OwnRow(i, old)
      BY <1>3, <3>1, <3>2 DEF Subjects
    <3>4. OwnRow(i, old)'
      BY <1>4, <3>3, OwnRowKept
    <3>. QED
      BY <1>4, <2>2, <3>1, <3>2, <3>3, <3>4 DEF PatchLoads
  <2>3. CASE q = p /\ PatchRuns(p)
    BY <1>4, <2>3, PatchKept DEF PatchRuns
  <2>. QED
    BY <1>1, <2>1, <2>2, <2>3
<1>15. Subjects'
  BY <1>10, <1>13, <1>14 DEF Subjects
<1>16. ASSUME NEW k \in objects, k \notin objects'
       PROVE  \/ k.tag = p
              \/ /\ \A v \in Uploads : k.tag = v => ipc[v] \in Made
                 /\ \A q \in Patchers : k.tag = q => vpc[q] \in Out
  <2>1. vpc[p] \in {"undo", "remove_old"} /\ k \in vleft[p]
    BY <1>1, <1>16 DEF PatchKeeps
  <2>2. CASE vpc[p] = "undo"
    BY <1>3, <2>1, <2>2 DEF PatchFacts
  <2>3. CASE vpc[p] = "remove_old"
    <3>1. vid[p] \in Uploads /\ ipc[vid[p]] \in Made /\ Owns(vid[p], k)
      BY <1>3, <1>5, <2>1, <2>3 DEF PatchFacts, OwnRow
    <3>. QED
      BY <3>1, OwnedKeys
  <2>. QED
    BY <2>1, <2>2, <2>3
<1>17. \A v \in Uploads : v # p
  BY StoreAssumption DEF Ids
<1>18. \A v \in Uploads : UploadFacts(v)'
  BY <1>2, <1>16, <1>17, UploadFactsKept
<1>19. ASSUME NEW q \in Patchers
       PROVE  PatchFacts(q)'
  <2>1. CASE q = p
    BY <1>1, <2>1
  <2>2. CASE q # p
    <3>1. /\ vpc'[q] = vpc[q] /\ vid'[q] = vid[q] /\ vwant'[q] = vwant[q] /\ vsnap'[q] = vsnap[q]
          /\ vcopy'[q] = vcopy[q] /\ vrends'[q] = vrends[q] /\ vleft'[q] = vleft[q]
      BY <1>1, <2>2 DEF PatchKeeps
    <3>2. \A k \in objects : k \in objects' \/ k.tag # q \/ vpc[q] \in Out
      BY <1>16, <2>2
    <3>3. ASSUME vpc[q] = "remove_old", Exists(vid[q])'
          PROVE  vleft[q] \cap Held(rows'[vid[q]]) = {}
      <4>1. /\ vid[q] \in Uploads /\ vid[q] \in Ids /\ ipc[vid[q]] \in Made
            /\ OwnRow(vid[q], vsnap[q]) /\ PatchFacts(q)
        BY <1>3, <3>3 DEF Subjects, Ids, OwnInv
      <4>2. CASE rows'[vid[q]] = rows[vid[q]]
        <5>1. Exists(vid[q])
          BY <3>1, <3>3, <4>2 DEF Exists
        <5>. QED
          BY <3>3, <4>1, <4>2, <5>1 DEF PatchFacts
      <4>3. CASE /\ vpc[p] = "update" /\ vpc'[p] \in Out /\ Exists(vid[p]) /\ vid'[p] = vid[p]
                 /\ vid[q] = vid[p] /\ rows'[vid[q]] = new
        <5>1. Held(new) \subseteq Held(rows[vid[q]]) \cup Copies(p)
          BY <1>7, <4>3 DEF Held, Copies
        <5>2. vleft[q] \cap Held(rows[vid[q]]) = {} /\ vleft[q] \subseteq Held(vsnap[q])
          BY <3>3, <4>1, <4>3 DEF PatchFacts
        <5>3. \A k \in Held(vsnap[q]) : k.tag # p
          BY <1>5, <4>1, <4>3, OwnedKeys DEF OwnRow
        <5>4. \A k \in Copies(p) : k.tag = p
          BY <1>3 DEF PatchFacts
        <5>. QED
          BY <4>3, <5>1, <5>2, <5>3, <5>4
      <4>. QED
        BY <1>8, <4>1, <4>2, <4>3
    <3>. QED
      BY <3>1, <3>2, <3>3, PatchFactsKept
  <2>. QED
    BY <2>1, <2>2
<1>. QED
  BY <1>11, <1>12, <1>15, <1>18, <1>19 DEF OwnInv

(* Names are given to rows once: OwnInv holds throughout, whatever fails.  *)
LEMMA NamesOwned == Spec => []OwnInv
<1>1. Init => OwnInv
  <2>. SUFFICES ASSUME Init
                PROVE  OwnInv
    OBVIOUS
  <2>1. StoreTypeOK /\ DeleteTypeOK /\ VisTypeOK /\ ~(\E i \in Ids : Exists(i)) /\ objects = {}
    BY NoRowFields DEF Init, StoreInit, DeleteInit, VisInit, StoreTypeOK, DeleteTypeOK, DeleteSteps,
       VisTypeOK, VisSteps, Visibilities, Exists
  <2>2. ImageTypeOK
    BY DEF Init, ImageInit, ImageTypeOK, ImageSteps
  <2>3. TypeOK
    BY <2>1, <2>2 DEF TypeOK, KeysNotNull
  <2>4. NoPosters
    BY NoRowFields DEF Init, StoreInit, DeleteInit, VisInit, NoPosters
  <2>5. Subjects
    BY <2>1 DEF Init, DeleteInit, VisInit, Subjects
  <2>6. \A u \in Uploads : UploadFacts(u)
    BY DEF Init, ImageInit, UploadFacts
  <2>7. \A p \in Patchers : PatchFacts(p)
    BY DEF Init, VisInit, PatchFacts, Copies
  <2>. QED
    BY <2>3, <2>4, <2>5, <2>6, <2>7 DEF OwnInv
<1>2. OwnInv /\ [Next]_vars => OwnInv'
  <2>. SUFFICES ASSUME OwnInv, [Next]_vars
                PROVE  OwnInv'
    OBVIOUS
  <2>1. CASE ImageNext /\ UNCHANGED <<deleteVars, visVars>>
    BY <2>1, UploadOwn DEF ImageNext
  <2>2. CASE DeleteNext /\ UNCHANGED <<imageVars, visVars>>
    BY <2>2, DeleteOwn DEF DeleteNext
  <2>3. CASE VisNext /\ UNCHANGED <<imageVars, deleteVars>>
    BY <2>3, PatchOwn DEF VisNext
  <2>4. CASE UNCHANGED vars
    BY <2>4 DEF vars, storeVars, imageVars, deleteVars, visVars, OwnInv, TypeOK, KeysNotNull,
       StoreTypeOK, ImageTypeOK, DeleteTypeOK, VisTypeOK, NoPosters, Subjects, UploadFacts, PatchFacts,
       OwnRow, Owns, Out, Made, Copies, MainKey, Exists, Held
  <2>. QED
    BY <2>1, <2>2, <2>3, <2>4 DEF Next
<1>. QED
  BY <1>1, <1>2, PTL DEF Spec

(* The types hold and no row lacks the key of its object, whatever fails   *)
(* (the NOT NULL column of 0001_initial_uploads.py 34).                    *)
THEOREM ImagesWellTyped == Spec => []TypeOK
<1>1. OwnInv => TypeOK
  BY DEF OwnInv
<1>. QED
  BY <1>1, NamesOwned, PTL

(* Two rows never share an object (visibility.py 49-61, upload.py          *)
(* 238-240), for any number of uploads, DELETEs and PATCHes and whatever   *)
(* fails: a key bears the name of the request that minted it, and a        *)
(* request gives its name to one row.                                      *)
THEOREM RowsShareNothing == Spec => []KeysUnshared
<1>1. OwnInv => KeysUnshared
  <2>. SUFFICES ASSUME OwnInv, NEW i \in Ids, NEW j \in Ids, Exists(i), Exists(j), i # j,
                       NEW k \in Held(rows[i]) \cap Held(rows[j])
                PROVE  FALSE
    BY DEF KeysUnshared
  <2>1. Owns(i, k) /\ Owns(j, k)
    BY DEF OwnInv, Subjects, OwnRow
  <2>2. i \notin Patchers /\ j \notin Patchers
    BY StoreAssumption
  <2>. QED
    BY <2>1, <2>2 DEF Owns
<1>. QED
  BY <1>1, NamesOwned, PTL

(***************************************************************************)
(* The objects of a row.                                                   *)
(***************************************************************************)

(* A key has one owner.                                                    *)
LEMMA OneOwner ==
  ASSUME NEW i \in Ids, NEW j \in Ids, NEW k, Owns(i, k), Owns(j, k)
  PROVE  i = j
BY StoreAssumption DEF Owns

(* What a PATCH writes into a row: its copies, or what was there.          *)
LEMMA WrittenRow ==
  ASSUME OwnInv, NEW p \in Patchers, PatchRuns(p), NEW i \in Ids, rows'[i] # rows[i]
  PROVE  /\ vpc[p] = "update" /\ vpc'[p] \in Out /\ i = vid[p] /\ vid'[p] = i /\ Exists(i)
         /\ vcopy[p] = None => vpc'[p] = "answered"
         /\ UNCHANGED <<vcopy, vrends, vwant, vsnap>>
         /\ rows'[i].hash = rows[i].hash /\ rows'[i].vis = vwant[p]
         /\ rows'[i].key = IF vcopy[p] = None THEN rows[i].key ELSE vcopy[p]
         /\ rows'[i].rends =
              IF vcopy[p] = None \/ vsnap[p].rends = {} THEN rows[i].rends ELSE vrends[p]
<1>1. /\ vpc[p] = "update" /\ vpc'[p] \in Out /\ Exists(vid[p])
      /\ rows' = [rows EXCEPT ![vid[p]] = NewRow(p)]
      /\ UNCHANGED <<vid, vcopy, vrends, vwant, vsnap>>
      /\ vcopy[p] = None => vpc'[p] = "answered"
  BY DEF PatchRuns
<1>2. TypeOK /\ rows \in [Ids -> Rows] /\ vid[p] \in Ids
  BY <1>1 DEF OwnInv, TypeOK, StoreTypeOK, Subjects, Ids
<1>3. i = vid[p] /\ rows'[i] = NewRow(p)
  BY <1>1, <1>2
<1>. QED
  BY <1>1, <1>2, <1>3, NewRowFields

(* Everything a row points at is in the store until a DELETE withdraws the *)
(* row (visibility.py 156-173, upload.py 284-287), for any number of       *)
(* requests, when no statement that raises has taken effect: an upload or  *)
(* a PATCH that takes its objects back owns them still, and what a PATCH   *)
(* removes is no longer the row's.                                         *)
THEOREM ObjectsOfRowsStay ==
  ASSUME "lost_reply" \notin Faults
  PROVE  Spec => []RowHasObjects
<1>1. Init => RowHasObjects
  BY NoRowFields DEF Init, StoreInit, RowHasObjects, Exists
<1>2. Made = {"created"} /\ Out = {"remove_old", "answered", "broken"}
  BY DEF Made, Out
<1>3. OwnInv /\ RowHasObjects /\ [Next]_vars => RowHasObjects'
  <2>. SUFFICES ASSUME OwnInv, RowHasObjects, [Next]_vars, NEW i \in Ids, Exists(i)'
                PROVE  Held(rows[i])' \subseteq objects' \/ Withdrawn(i)'
    BY DEF RowHasObjects
  <2>1. /\ Subjects /\ StoreTypeOK /\ rows \in [Ids -> Rows]
        /\ Exists(i) => /\ i \in Uploads /\ ipc[i] = "created"
                        /\ \A k \in Held(rows[i]) : Owns(i, k)
                        /\ Held(rows[i]) \subseteq objects \/ Withdrawn(i)
    BY <1>2 DEF OwnInv, TypeOK, StoreTypeOK, Subjects, OwnRow, RowHasObjects
  <2>2. rows'[i] = rows[i] => Exists(i) /\ Held(rows[i])' = Held(rows[i])
    BY DEF Exists, Held
  <2>3. CASE ImageNext /\ UNCHANGED <<deleteVars, visVars>>
    <3>1. PICK u \in Uploads : ReuseExisting(u) \/ EncodeImage(u) \/ ServeImage(u)
      BY <2>3 DEF ImageNext
    <3>2. UploadKeeps(u) /\ UploadWrites(u) /\ UploadFacts(u) /\ TypeOK
      BY <3>1, UploadEffect DEF OwnInv
    <3>3. Withdrawn(i) => Withdrawn(i)'
      BY <2>3 DEF deleteVars, Withdrawn
    <3>4. CASE rows'[i] = rows[i]
      <4>1. ASSUME NEW k \in Held(rows[i]), k \in objects
            PROVE  k \in objects'
        <5>1. Owns(i, k)
          BY <2>1, <2>2, <3>4
        <5>2. k.tag = u => u = i
          BY <5>1, StoreAssumption DEF Owns, Ids
        <5>. QED
          BY <2>1, <2>2, <3>2, <3>4, <4>1, <5>2 DEF UploadKeeps, UploadFacts
      <4>. QED
        BY <2>1, <2>2, <3>3, <3>4, <4>1
    <3>5. CASE rows'[i] # rows[i]
      <4>1. i = u /\ ipc[u] = "record" /\ rows'[i] = ImageRow(u)
        BY <2>1, <3>2, <3>5 DEF UploadWrites
      <4>2. rows'[i].key = MainKey(u) /\ rows'[i].rends = stored[u] \ {MainKey(u)}
        BY <3>2, <4>1, UploadNames
      <4>3. MainKey(u) \in stored[u] /\ stored[u] \subseteq objects'
        BY <3>2, <4>1 DEF UploadFacts, UploadKeeps
      <4>. QED
        BY <4>2, <4>3 DEF Held
    <3>. QED
      BY <3>4, <3>5
  <2>4. CASE DeleteNext /\ UNCHANGED <<imageVars, visVars>>
    <3>1. PICK d \in Deleters : LoadForDelete(d) \/ Delete(d)
      BY <2>4 DEF DeleteNext
    <3>2. DeleteKeeps(d) /\ (DeleteLoads(d) \/ DeleteRuns(d))
      BY <3>1, DeleteEffect
    <3>3. rows'[i] = rows[i]
      <4>1. rows'[i] = rows[i] \/ rows'[i] = NoRow
        BY <2>1, <3>2 DEF DeleteLoads, DeleteRuns
      <4>. QED
        BY <4>1, NoRowFields DEF Exists
    <3>4. Withdrawn(i) => Withdrawn(i)'
      <4>. SUFFICES ASSUME NEW e \in Deleters, did[e] = i,
                           dpc[e] \in {"renditions", "row", "store_unavailable", "broken"}
                    PROVE  Withdrawn(i)'
        BY DEF Withdrawn
      <4>1. CASE e # d
        BY <3>2, <4>1 DEF DeleteKeeps, Withdrawn
      <4>2. CASE e = d
        <5>1. DeleteRuns(d)
          BY <3>2, <4>2 DEF DeleteLoads
        <5>2. rows' # [rows EXCEPT ![i] = NoRow]
          BY <2>1, NoRowFields DEF Exists
        <5>. QED
          BY <4>2, <5>1, <5>2 DEF DeleteRuns, Withdrawn
      <4>. QED
        BY <4>1, <4>2
    <3>5. ASSUME NEW k \in Held(rows[i]), k \in objects, k \notin objects'
          PROVE  Withdrawn(i)'
      <4>1. /\ dpc[d] # "idle" /\ k \in Held(dsnap[d]) /\ dpc'[d] \in {"renditions", "row"}
        BY <3>2, <3>5 DEF DeleteKeeps
      <4>2. did[d] \in Ids /\ Owns(did[d], k) /\ did'[d] = did[d]
        BY <2>1, <3>2, <4>1 DEF Subjects, OwnRow, Ids, DeleteLoads, DeleteRuns
      <4>3. did[d] = i
        BY <2>1, <2>2, <3>3, <3>5, <4>2, OneOwner
      <4>. QED
        BY <4>1, <4>2, <4>3 DEF Withdrawn
    <3>. QED
      BY <2>1, <2>2, <3>3, <3>4, <3>5
  <2>5. CASE VisNext /\ UNCHANGED <<imageVars, deleteVars>>
    <3>1. PICK p \in Patchers : LoadForVisibility(p) \/ Patch(p)
      BY <2>5 DEF VisNext
    <3>2. PatchKeeps(p) /\ (PatchLoads(p) \/ PatchRuns(p)) /\ PatchFacts(p)
      BY <3>1, PatchEffect DEF OwnInv
    <3>3. Withdrawn(i) => Withdrawn(i)'
      BY <2>5 DEF deleteVars, Withdrawn
    <3>4. ASSUME Exists(i), NEW k \in Held(rows[i]), k \in objects
          PROVE  k \in objects'
      <4>. SUFFICES ASSUME k \notin objects'
                    PROVE  FALSE
        OBVIOUS
      <4>1. vpc[p] \in {"undo", "remove_old"} /\ k \in vleft[p] /\ Owns(i, k)
        BY <2>1, <3>2, <3>4 DEF PatchKeeps
      <4>2. CASE vpc[p] = "undo"
        BY <1>2, <3>2, <4>1, <4>2, StoreAssumption DEF PatchFacts, Owns
      <4>3. CASE vpc[p] = "remove_old"
        <5>1. vid[p] \in Ids /\ Owns(vid[p], k)
          BY <2>1, <3>2, <4>1, <4>3 DEF Subjects, Ids, PatchFacts, OwnRow
        <5>2. vid[p] = i
          BY <4>1, <5>1, OneOwner
        <5>. QED
          BY <3>2, <3>4, <4>1, <4>3, <5>2 DEF PatchFacts
      <4>. QED
        BY <4>1, <4>2, <4>3
    <3>5. CASE rows'[i] = rows[i]
      BY <2>1, <2>2, <3>3, <3>4, <3>5
    <3>6. CASE rows'[i] # rows[i]
      <4>1. PatchRuns(p)
        BY <3>2, <3>6 DEF PatchLoads
      <4>2. /\ vpc[p] = "update" /\ Exists(i)
            /\ rows'[i].key = IF vcopy[p] = None THEN rows[i].key ELSE vcopy[p]
            /\ rows'[i].rends =
                 IF vcopy[p] = None \/ vsnap[p].rends = {} THEN rows[i].rends ELSE vrends[p]
        BY <3>6, <4>1, WrittenRow
      <4>3. Held(rows[i])' \subseteq Held(rows[i]) \cup Copies(p)
        BY <4>2 DEF Held, Copies
      <4>4. Copies(p) \subseteq objects'
        BY <3>2, <4>2 DEF PatchFacts, PatchKeeps
      <4>. QED
        BY <2>1, <3>3, <3>4, <4>2, <4>3, <4>4
    <3>. QED
      BY <3>5, <3>6
  <2>6. CASE UNCHANGED vars
    BY <2>1, <2>6 DEF vars, storeVars, deleteVars, Withdrawn, Exists, Held
  <2>. QED
    BY <2>3, <2>4, <2>5, <2>6 DEF Next
<1>. QED
  BY <1>1, <1>3, NamesOwned, PTL DEF Spec

(* A step of a PATCH keeps what earlier PATCHes are excused for.           *)
LEMMA ExcusesKept ==
  ASSUME OwnInv, NEW p \in Patchers, PatchKeeps(p), PatchLoads(p) \/ PatchRuns(p), NEW i \in Ids
  PROVE  /\ Blind(i) => Blind(i)'
         /\ KeptRenditions(i) => KeptRenditions(i)'
         /\ (\E q \in Patchers : vid[q] = i) => \E q \in Patchers : vid'[q] = i
<1>1. PatchLoads(p) => vid[p] # i
  BY StoreAssumption DEF OwnInv, Subjects, PatchLoads
<1>2. ASSUME NEW q \in Patchers, vid[q] = i
      PROVE  /\ vid'[q] = i /\ vwant'[q] = vwant[q] /\ vsnap'[q] = vsnap[q]
             /\ vcopy[q] # None => vcopy'[q] = vcopy[q]
             /\ vpc[q] \in {"answered", "broken"} => vpc'[q] = vpc[q] /\ vcopy'[q] = vcopy[q]
  BY <1>1, <1>2 DEF PatchKeeps, PatchRuns
<1>3. Blind(i) => Blind(i)'
  BY <1>2 DEF Blind
<1>4. KeptRenditions(i) => KeptRenditions(i)'
  BY <1>2 DEF KeptRenditions
<1>. QED
  BY <1>2, <1>3, <1>4

(* The visibility of rows and of their keys.                               *)
LEMMA PrefixesHold == Spec => [](OwnInv /\ PrivateInv)
<1>1. Init => PrivateInv
  BY NoRowFields DEF Init, StoreInit, PrivateInv, Exists
<1>2. OwnInv /\ PrivateInv /\ [Next]_vars => PrivateInv'
  <2>. SUFFICES ASSUME OwnInv, PrivateInv, [Next]_vars, NEW i \in Ids, Exists(i)',
                       rows'[i].vis = "private", ~Blind(i)'
                PROVE  /\ rows'[i].key.vis = "private"
                       /\ KeptRenditions(i)' \/ \A k \in rows'[i].rends : k.vis = "private"
    BY DEF PrivateInv
  <2>1. TypeOK /\ rows \in [Ids -> Rows]
    BY DEF OwnInv, TypeOK, StoreTypeOK
  <2>2. /\ rows'[i] = rows[i] /\ (Blind(i) => Blind(i)')
        => /\ rows'[i].key.vis = "private"
           /\ KeptRenditions(i) \/ \A k \in rows'[i].rends : k.vis = "private"
    BY DEF PrivateInv, Exists
  <2>3. CASE ImageNext /\ UNCHANGED <<deleteVars, visVars>>
    <3>1. PICK u \in Uploads : ReuseExisting(u) \/ EncodeImage(u) \/ ServeImage(u)
      BY <2>3 DEF ImageNext
    <3>2. UploadWrites(u) /\ UploadFacts(u)
      BY <3>1, UploadEffect DEF OwnInv
    <3>3. (Blind(i) => Blind(i)') /\ (KeptRenditions(i) => KeptRenditions(i)')
      BY <2>3 DEF visVars, Blind, KeptRenditions
    <3>4. CASE rows'[i] # rows[i]
      <4>1. i = u /\ rows'[i] = ImageRow(u)
        BY <2>1, <3>2, <3>4 DEF UploadWrites
      <4>2. /\ rows'[i].key = MainKey(u) /\ rows'[i].rends \subseteq stored[u]
            /\ rows'[i].vis = form[u].vis /\ MainKey(u).vis = form[u].vis
        BY <2>1, <4>1, UploadNames
      <4>. QED
        BY <3>2, <4>2 DEF UploadFacts
    <3>. QED
      BY <2>2, <3>3, <3>4
  <2>4. CASE DeleteNext /\ UNCHANGED <<imageVars, visVars>>
    <3>1. PICK d \in Deleters : LoadForDelete(d) \/ Delete(d)
      BY <2>4 DEF DeleteNext
    <3>2. DeleteLoads(d) \/ DeleteRuns(d)
      BY <3>1, DeleteEffect
    <3>3. rows'[i] = rows[i] \/ rows'[i] = NoRow
      BY <2>1, <3>2 DEF DeleteLoads, DeleteRuns
    <3>4. (Blind(i) => Blind(i)') /\ (KeptRenditions(i) => KeptRenditions(i)')
      BY <2>4 DEF visVars, Blind, KeptRenditions
    <3>. QED
      BY <2>2, <3>3, <3>4, NoRowFields DEF Exists
  <2>5. CASE VisNext /\ UNCHANGED <<imageVars, deleteVars>>
    <3>1. PICK p \in Patchers : LoadForVisibility(p) \/ Patch(p)
      BY <2>5 DEF VisNext
    <3>2. PatchKeeps(p) /\ (PatchLoads(p) \/ PatchRuns(p)) /\ PatchFacts(p)
      BY <3>1, PatchEffect DEF OwnInv
    <3>3. (Blind(i) => Blind(i)') /\ (KeptRenditions(i) => KeptRenditions(i)')
      BY <3>2, ExcusesKept
    <3>4. CASE rows'[i] # rows[i]
      <4>1. PatchRuns(p)
        BY <3>2, <3>4 DEF PatchLoads
      <4>2. /\ vid'[p] = i /\ vcopy[p] = None => vpc'[p] = "answered"
        BY <3>4, <4>1, WrittenRow
      <4>3. /\ vid'[p] = i /\ vcopy'[p] = vcopy[p] /\ vwant'[p] = vwant[p] /\ vsnap'[p] = vsnap[p]
            /\ rows'[i].vis = vwant[p]
            /\ rows'[i].key = IF vcopy[p] = None THEN rows[i].key ELSE vcopy[p]
            /\ rows'[i].rends =
                 IF vcopy[p] = None \/ vsnap[p].rends = {} THEN rows[i].rends ELSE vrends[p]
        BY <3>4, <4>1, WrittenRow
      <4>4. vcopy[p] # None
        BY <4>2, <4>3 DEF Blind
      <4>5. \A k \in Copies(p) : k.vis = "private"
        BY <3>2, <4>3 DEF PatchFacts
      <4>6. vcopy[p] \in Copies(p) /\ vrends[p] \subseteq Copies(p)
        BY <4>4 DEF Copies
      <4>7. vsnap[p].rends = {} => KeptRenditions(i)'
        BY <4>3, <4>4 DEF KeptRenditions
      <4>. QED
        BY <4>3, <4>4, <4>5, <4>6, <4>7
    <3>. QED
      BY <2>2, <3>3, <3>4
  <2>6. CASE UNCHANGED vars
    BY <2>2, <2>6 DEF vars, storeVars, visVars, Blind, KeptRenditions
  <2>. QED
    BY <2>3, <2>4, <2>5, <2>6 DEF Next
<1>. QED
  BY <1>1, <1>2, NamesOwned, PTL DEF Spec

(* The objects of a private row are under private/ (storage/base.py 47-48, *)
(* postgres.py 457-460), for any number of requests and whatever fails,    *)
(* but for the rows and the renditions that an overlapping PATCH left as   *)
(* it did not find them.                                                   *)
THEOREM PrivateUnderPrefix == Spec => []PrivateBehindPrefix
<1>1. OwnInv /\ PrivateInv => PrivateBehindPrefix
  <2>. SUFFICES ASSUME PrivateInv, NEW i \in Ids, Exists(i), rows[i].vis = "private",
                       ~WrotePrivateOnly(i), NEW k \in Held(rows[i])
                PROVE  k.vis = "private" \/ (k \in rows[i].rends /\ KeptRenditions(i))
    BY DEF PrivateBehindPrefix
  <2>1. ~Blind(i)
    BY DEF Blind, WrotePrivateOnly
  <2>. QED
    BY <2>1 DEF PrivateInv, Held
<1>. QED
  BY <1>1, PrefixesHold, PTL

(* A row's visibility is the one of its signature until it is patched.     *)
LEMMA SignaturesHold == Spec => [](OwnInv /\ HashInv)
<1>1. Init => HashInv
  BY NoRowFields DEF Init, StoreInit, HashInv, Exists
<1>2. OwnInv /\ HashInv /\ [Next]_vars => HashInv'
  <2>. SUFFICES ASSUME OwnInv, HashInv, [Next]_vars, NEW i \in Ids, Exists(i)'
                PROVE  /\ rows'[i].hash \in Forms
                       /\ rows'[i].vis = rows'[i].hash.vis \/ \E p \in Patchers : vid'[p] = i
    BY DEF HashInv
  <2>1. TypeOK /\ rows \in [Ids -> Rows]
    BY DEF OwnInv, TypeOK, StoreTypeOK
  <2>2. rows'[i] = rows[i] => /\ rows'[i].hash \in Forms
                              /\ rows'[i].vis = rows'[i].hash.vis \/ \E p \in Patchers : vid[p] = i
    BY DEF HashInv, Exists
  <2>3. CASE ImageNext /\ UNCHANGED <<deleteVars, visVars>>
    <3>1. PICK u \in Uploads : ReuseExisting(u) \/ EncodeImage(u) \/ ServeImage(u)
      BY <2>3 DEF ImageNext
    <3>2. UploadWrites(u)
      BY <3>1, UploadEffect
    <3>3. CASE rows'[i] # rows[i]
      <4>1. rows'[i] = ImageRow(u)
        BY <2>1, <3>2, <3>3 DEF UploadWrites
      <4>. QED
        BY <2>1, <4>1, UploadNames
    <3>. QED
      BY <2>2, <2>3, <3>3 DEF visVars
  <2>4. CASE DeleteNext /\ UNCHANGED <<imageVars, visVars>>
    <3>1. PICK d \in Deleters : LoadForDelete(d) \/ Delete(d)
      BY <2>4 DEF DeleteNext
    <3>2. DeleteLoads(d) \/ DeleteRuns(d)
      BY <3>1, DeleteEffect
    <3>3. rows'[i] = rows[i] \/ rows'[i] = NoRow
      BY <2>1, <3>2 DEF DeleteLoads, DeleteRuns
    <3>. QED
      BY <2>2, <2>4, <3>3, NoRowFields DEF Exists, visVars
  <2>5. CASE VisNext /\ UNCHANGED <<imageVars, deleteVars>>
    <3>1. PICK p \in Patchers : LoadForVisibility(p) \/ Patch(p)
      BY <2>5 DEF VisNext
    <3>2. PatchKeeps(p) /\ (PatchLoads(p) \/ PatchRuns(p))
      BY <3>1, PatchEffect
    <3>3. (\E q \in Patchers : vid[q] = i) => \E q \in Patchers : vid'[q] = i
      BY <3>2, ExcusesKept
    <3>4. CASE rows'[i] # rows[i]
      <4>1. PatchRuns(p)
        BY <3>2, <3>4 DEF PatchLoads
      <4>2. vid'[p] = i /\ Exists(i) /\ rows'[i].hash = rows[i].hash
        BY <3>4, <4>1, WrittenRow
      <4>. QED
        BY <4>2 DEF HashInv
    <3>. QED
      BY <2>2, <3>3, <3>4
  <2>6. CASE UNCHANGED vars
    BY <2>2, <2>6 DEF vars, storeVars, visVars
  <2>. QED
    BY <2>3, <2>4, <2>5, <2>6 DEF Next
<1>. QED
  BY <1>1, <1>2, NamesOwned, PTL DEF Spec

(* An upload is answered with a record of the visibility it asked for      *)
(* unless that record was patched (upload.py 176-178), for any number of   *)
(* requests and whatever fails.                                            *)
THEOREM AnswersAsAsked == Spec => AnsweredAsAsked
<1>1. ASSUME OwnInv, HashInv, [Next]_vars, NEW u \in Uploads, answer'[u] # answer[u]
      PROVE  \/ rows'[answer'[u]].vis = form[u].vis
             \/ \E p \in Patchers : vid[p] = answer'[u]
  <2>1. TypeOK /\ rows \in [Ids -> Rows] /\ answer \in [Uploads -> Ids \cup {None}] /\ u \in Ids
    BY <1>1 DEF OwnInv, TypeOK, StoreTypeOK, ImageTypeOK, Ids
  <2>2. PICK v \in Uploads : ReuseExisting(v) \/ EncodeImage(v) \/ ServeImage(v)
    BY <1>1 DEF Next, ImageNext, imageVars, vars
  <2>3. CASE ReuseExisting(v)
    <3>1. PICK id \in FindReadyByHash(form[v]) : answer' = [answer EXCEPT ![v] = id]
      BY <2>3 DEF ReuseExisting
    <3>2. u = v /\ answer'[u] = id /\ rows' = rows
      BY <1>1, <2>1, <2>3, <3>1 DEF ReuseExisting, storeVars
    <3>3. id \in Ids /\ Exists(id) /\ rows[id].hash = form[u]
      BY <3>1, <3>2 DEF FindReadyByHash, Exists
    <3>. QED
      BY <1>1, <3>2, <3>3 DEF HashInv
  <2>4. CASE CreateReady(v)
    <3>1. /\ answer' = [answer EXCEPT ![v] = v]
          /\ rows' = [rows EXCEPT ![v] = ImageRow(v)]
      BY <1>1, <2>4 DEF CreateReady, Insert
    <3>2. u = v /\ answer'[u] = u /\ rows'[u] = ImageRow(u)
      BY <1>1, <2>1, <3>1
    <3>. QED
      BY <2>1, <3>2, UploadNames
  <2>. QED
    BY <1>1, <2>2, <2>3, <2>4
       DEF EncodeImage, ServeImage, StoreMain, StoreRendition, TakeBack
<1>2. OwnInv /\ HashInv /\ [Next]_vars =>
        [\A u \in Uploads :
           answer'[u] # answer[u] =>
             \/ rows'[answer'[u]].vis = form[u].vis
             \/ \E p \in Patchers : vid[p] = answer'[u]]_vars
  BY <1>1
<1>. QED
  BY <1>2, SignaturesHold, PTL DEF Spec, AnsweredAsAsked

(***************************************************************************)
(* Every object is accounted for.                                          *)
(***************************************************************************)

(* What an upload has stored it holds, until its row does.                 *)
LEMMA UploadAccounts ==
  ASSUME OwnInv, {"remove", "lost_reply"} \cap Faults = {},
         NEW u \in Uploads, ReuseExisting(u) \/ EncodeImage(u) \/ ServeImage(u), NEW k \in objects'
  PROVE  /\ k \notin objects => UploadHolds(u, k)' /\ ipc[u] \notin Made
         /\ UploadHolds(u, k) => UploadHolds(u, k)' \/ (Exists(u)' /\ k \in Held(rows'[u]))
<1>1. /\ TypeOK /\ UploadFacts(u) /\ MainKey(u).tag = u /\ u \in Ids
      /\ ipc \in [Uploads -> ImageSteps] /\ todo \in [Uploads -> SUBSET Keys]
      /\ stored \in [Uploads -> SUBSET Keys] /\ rows \in [Ids -> Rows]
  BY UploadNames DEF OwnInv, TypeOK, StoreTypeOK, ImageTypeOK, Ids
<1>2. "remove" \notin Faults /\ "lost_reply" \notin Faults
  OBVIOUS
<1>3. Made = {"created"}
  BY <1>2 DEF Made
<1>4. CASE ReuseExisting(u)
  BY <1>1, <1>4 DEF ReuseExisting, ImageStep, storeVars, UploadHolds
<1>5. CASE EncodeImage(u)
  <2>1. ipc[u] = "idle" /\ todo[u] = {} /\ objects' = objects
    BY <1>1, <1>5 DEF EncodeImage, ImageStep, storeVars, UploadFacts
  <2>. QED
    BY <2>1 DEF UploadHolds
<1>6. CASE StoreMain(u)
  <2>1. ipc[u] = "main" /\ todo' = todo
    BY <1>6 DEF StoreMain, ImageStep
  <2>2. CASE /\ ImageStep(u, "main", AfterStore(todo[u]))
             /\ Put(MainKey(u))
             /\ stored' = [stored EXCEPT ![u] = {MainKey(u)}]
    <3>1. ipc'[u] \in {"renditions", "record"} /\ stored'[u] = {MainKey(u)} /\ objects' = objects \cup {MainKey(u)}
      BY <1>1, <2>2 DEF ImageStep, AfterStore, Put
    <3>. QED
      BY <1>3, <2>1, <3>1 DEF UploadHolds
  <2>3. CASE ImageStep(u, "main", "rejected") /\ PutRefused(MainKey(u))
    BY <1>1, <1>2, <2>1, <2>3 DEF PutRefused, UploadHolds
  <2>4. CASE ImageStep(u, "main", "broken") /\ PutEscapes(MainKey(u))
    <3>1. ipc'[u] = "broken" /\ objects' \in {objects, objects \cup {MainKey(u)}}
      BY <1>1, <2>4 DEF ImageStep, PutEscapes, Put
    <3>. QED
      BY <1>1, <1>3, <2>1, <3>1 DEF UploadHolds
  <2>. QED
    BY <1>6, <2>2, <2>3, <2>4 DEF StoreMain
<1>7. CASE StoreRendition(u)
  <2>1. PICK j \in todo[u] :
          \/ /\ ImageStep(u, "renditions", AfterStore(todo[u] \ {j}))
             /\ Put(j)
             /\ todo' = [todo EXCEPT ![u] = @ \ {j}]
             /\ stored' = [stored EXCEPT ![u] = @ \cup {j}]
          \/ ImageStep(u, "renditions", "undo") /\ PutRaises(j) /\ UNCHANGED <<todo, stored>>
    BY <1>7 DEF StoreRendition
  <2>2. CASE /\ ImageStep(u, "renditions", AfterStore(todo[u] \ {j}))
             /\ Put(j)
             /\ todo' = [todo EXCEPT ![u] = @ \ {j}]
             /\ stored' = [stored EXCEPT ![u] = @ \cup {j}]
    <3>1. /\ ipc[u] = "renditions" /\ ipc'[u] \in {"renditions", "record"}
          /\ objects' = objects \cup {j} /\ todo'[u] = todo[u] \ {j} /\ stored'[u] = stored[u] \cup {j}
      BY <1>1, <2>2 DEF ImageStep, AfterStore, Put
    <3>. QED
      BY <1>3, <3>1 DEF UploadHolds
  <2>3. CASE ImageStep(u, "renditions", "undo") /\ PutRaises(j) /\ UNCHANGED <<todo, stored>>
    <3>1. ipc[u] = "renditions" /\ ipc'[u] = "undo" /\ objects' \in {objects, objects \cup {j}}
      BY <1>1, <1>2, <2>3 DEF ImageStep, PutRaises, PutRefused, PutEscapes, Put
    <3>. QED
      BY <1>3, <2>1, <2>3, <3>1 DEF UploadHolds
  <2>. QED
    BY <2>1, <2>2, <2>3
<1>8. CASE CreateReady(u)
  <2>1. objects' = objects /\ todo' = todo /\ stored' = stored
    BY <1>8 DEF CreateReady
  <2>2. CASE ImageStep(u, "record", "created") /\ rows' = [rows EXCEPT ![u] = ImageRow(u)]
    <3>1. ipc[u] = "record" /\ rows'[u] = ImageRow(u)
      BY <1>1, <2>2 DEF ImageStep
    <3>2. rows'[u].status = "ready" /\ Held(rows'[u]) = stored[u]
      <4>1. /\ ImageRow(u).status = "ready" /\ ImageRow(u).key = MainKey(u)
            /\ ImageRow(u).rends = stored[u] \ {MainKey(u)} /\ MainKey(u) \in stored[u]
        BY <1>1, <3>1, UploadNames DEF UploadFacts
      <4>. QED
        BY <3>1, <4>1 DEF Held
    <3>. QED
      BY <2>1, <3>1, <3>2 DEF UploadHolds, Exists
  <2>3. CASE ImageStep(u, "record", "undo") /\ StatementRaises(Insert(u, ImageRow(u)))
    <3>1. ipc[u] = "record" /\ ipc'[u] = "undo"
      BY <1>1, <2>3 DEF ImageStep
    <3>. QED
      BY <2>1, <3>1 DEF UploadHolds
  <2>. QED
    BY <1>8, <2>2, <2>3 DEF CreateReady, Insert
<1>9. CASE TakeBack(u)
  <2>1. todo' = todo
    BY <1>9 DEF TakeBack
  <2>2. CASE \E j \in stored[u] :
               /\ RemoveSuppressed(j)
               /\ stored' = [stored EXCEPT ![u] = @ \ {j}]
               /\ ImageStep(u, "undo", AfterUndo(stored[u] \ {j}))
    <3>1. PICK j \in stored[u] :
            /\ RemoveSuppressed(j)
            /\ stored' = [stored EXCEPT ![u] = @ \ {j}]
            /\ ImageStep(u, "undo", AfterUndo(stored[u] \ {j}))
      BY <2>2
    <3>2. /\ stored'[u] = stored[u] \ {j} /\ objects' = objects \ {j} /\ ipc[u] = "undo"
          /\ stored'[u] # {} => ipc'[u] = "undo"
      BY <1>1, <1>2, <3>1 DEF ImageStep, AfterUndo, RemoveSuppressed, Remove, RemoveRefused
    <3>. QED
      BY <2>1, <3>2 DEF UploadHolds
  <2>3. CASE ImageStep(u, "undo", "broken") /\ RemoveEscapes /\ UNCHANGED stored
    <3>1. ipc[u] = "undo" /\ ipc'[u] = "broken" /\ objects' = objects
      BY <1>1, <2>3 DEF ImageStep, RemoveEscapes
    <3>. QED
      BY <1>1, <2>1, <3>1 DEF UploadHolds, UploadFacts
  <2>. QED
    BY <1>9, <2>2, <2>3 DEF TakeBack
<1>. QED
  BY <1>4, <1>5, <1>6, <1>7, <1>8, <1>9 DEF ServeImage

(* What a PATCH has copied it holds, until its row does; and once it has   *)
(* written, what it read.                                                  *)
LEMMA PatchAccounts ==
  ASSUME OwnInv, Fresh, {"remove", "lost_reply"} \cap Faults = {},
         NEW p \in Patchers, LoadForVisibility(p) \/ Patch(p), UNCHANGED deleteVars, NEW k \in objects'
  PROVE  /\ k \notin objects => PatchHolds(p, k)' /\ vpc'[p] # "idle"
         /\ k \in objects /\ PatchHolds(p, k) =>
              PatchHolds(p, k)' \/ (Exists(vid[p])' /\ k \in Held(rows'[vid[p]]))
         /\ rows' # rows /\ vcopy[p] # None /\ k \in Held(vsnap[p]) => PatchHolds(p, k)'
<1>1. /\ TypeOK /\ PatchFacts(p) /\ vsnap[p].poster = None
      /\ vpc \in [Patchers -> VisSteps] /\ vcopy \in [Patchers -> Keys \cup {None}]
      /\ vrends \in [Patchers -> SUBSET Keys] /\ vleft \in [Patchers -> SUBSET Keys]
      /\ rows \in [Ids -> Rows]
  BY DEF OwnInv, TypeOK, StoreTypeOK, VisTypeOK, NoPosters
<1>2. "remove" \notin Faults /\ "lost_reply" \notin Faults
  OBVIOUS
<1>3. /\ PatchKeeps(p) /\ (PatchLoads(p) \/ PatchRuns(p))
      /\ vpc[p] # "idle" => vid[p] \in Ids /\ OwnRow(vid[p], vsnap[p])
  BY PatchEffect DEF OwnInv, Subjects, Ids
<1>4. PatchRuns(p) /\ Overlapped(p) => Overlapped(p)'
  <2>1. PatchRuns(p) => vid' = vid /\ UNCHANGED did
    BY DEF PatchRuns, deleteVars
  <2>. QED
    BY <2>1 DEF Overlapped, DeleteRequested
<1>5. CASE LoadForVisibility(p)
  <2>1. vpc[p] = "idle" /\ rows' = rows /\ objects' = objects
    BY <1>5 DEF LoadForVisibility, VisStep, storeVars
  <2>2. k.tag # p
    BY <2>1 DEF Fresh
  <2>. QED
    BY <2>1, <2>2 DEF PatchHolds
<1>6. ASSUME Patch(p)
      PROVE  /\ PatchRuns(p) /\ vid' = vid /\ vsnap' = vsnap
             /\ k.tag = p /\ Overlapped(p) => PatchHolds(p, k)'
  <2>1. vpc[p] # "idle"
    BY <1>6 DEF Patch, CopyMissing, CopyObject, CopyRendition, UpdateVisibility, RemoveCopies, RemoveOld,
       LoadPosterForVisibility, VisStep
  <2>2. PatchRuns(p)
    BY <1>3, <2>1 DEF PatchLoads
  <2>. QED
    BY <1>4, <2>2 DEF PatchRuns, PatchHolds
<1>7. CASE CopyMissing(p)
  <2>1. vpc[p] = "copy" /\ rows' = rows /\ objects' = objects
    BY <1>7 DEF CopyMissing, VisStep, storeVars
  <2>. QED
    BY <1>6, <1>7, <2>1 DEF Patch, PatchHolds
<1>8. CASE CopyObject(p)
  <2>1. PICK copy : copy = Rotated(p, vsnap[p].key)
    OBVIOUS
  <2>2. vpc[p] = "copy" /\ rows' = rows /\ vrends' = vrends
    BY <1>8 DEF CopyObject
  <2>3. copy.tag = p /\ copy \in Keys /\ copy # None
    <3>1. vsnap[p].key \in Keys
      BY <1>1, <1>3, <2>2 DEF TypeOK, VisTypeOK, Rows, OwnRow
    <3>. QED
      BY <1>1, <2>1, <3>1, RotatedKey, StoreAssumption
  <2>4. CASE /\ Put(copy)
             /\ vcopy' = [vcopy EXCEPT ![p] = copy]
             /\ VisStep(p, "copy", IF vsnap[p].rends = {} THEN "update" ELSE "copy_renditions")
    <3>1. vpc'[p] \in {"update", "copy_renditions"} /\ vcopy'[p] = copy /\ objects' = objects \cup {copy}
      BY <1>1, <2>4 DEF VisStep, Put
    <3>2. copy \in Copies(p)'
      BY <2>3, <3>1 DEF Copies
    <3>. QED
      BY <1>6, <1>8, <2>2, <3>1, <3>2 DEF Patch, PatchHolds
  <2>5. CASE VisStep(p, "copy", "answered") /\ PutRefused(copy)
    <3>1. vpc'[p] = "answered" /\ objects' = objects
      BY <1>1, <1>2, <2>5 DEF VisStep, PutRefused
    <3>. QED
      BY <1>6, <1>8, <2>2, <3>1 DEF Patch, PatchHolds
  <2>6. CASE VisStep(p, "copy", "broken") /\ PutEscapes(copy)
    <3>1. vpc'[p] = "broken" /\ objects' \in {objects, objects \cup {copy}}
      BY <1>1, <2>6 DEF VisStep, PutEscapes, Put
    <3>. QED
      BY <1>6, <1>8, <2>2, <2>3, <3>1 DEF Patch, PatchHolds
  <2>. QED
    BY <1>8, <2>1, <2>4, <2>5, <2>6 DEF CopyObject
<1>9. CASE CopyRendition(p)
  <2>1. vpc[p] = "copy_renditions" /\ UNCHANGED <<rows, vcopy>>
    BY <1>9 DEF CopyRendition
  <2>2. PICK j \in vleft[p], copy \in {Rotated(p, i) : i \in vleft[p]}, next \in {"update", "copy_renditions"} :
          /\ copy = Rotated(p, j)
          /\ \/ /\ Put(copy)
                /\ vrends' = [vrends EXCEPT ![p] = @ \cup {copy}]
                /\ VisStep(p, "copy_renditions", next)
             \/ /\ VisStep(p, "copy_renditions", next)
                /\ UNCHANGED <<objects, vrends>>
             \/ /\ PutRefused(copy)
                /\ vleft' = [vleft EXCEPT ![p] = {vcopy[p]} \cup vrends[p]]
                /\ VisStep(p, "copy_renditions", "undo")
                /\ UNCHANGED vrends
             \/ /\ PutEscapes(copy)
                /\ VisStep(p, "copy_renditions", "broken")
                /\ UNCHANGED vrends
    BY <1>9 DEF CopyRendition
  <2>3. /\ copy.tag = p /\ vcopy[p] # None /\ Copies(p) = {vcopy[p]} \cup vrends[p]
        /\ \A j2 \in Copies(p) : j2.tag = p
    BY <1>1, <2>1, <2>2, RotatedKey DEF PatchFacts, Copies
  <2>4. CASE /\ Put(copy)
             /\ vrends' = [vrends EXCEPT ![p] = @ \cup {copy}]
             /\ VisStep(p, "copy_renditions", next)
    <3>1. /\ vpc'[p] \in {"update", "copy_renditions"} /\ objects' = objects \cup {copy}
          /\ Copies(p)' = Copies(p) \cup {copy}
      BY <1>1, <2>1, <2>2, <2>3, <2>4 DEF VisStep, Put, Copies
    <3>. QED
      BY <1>6, <1>9, <2>1, <3>1 DEF Patch, PatchHolds
  <2>5. CASE VisStep(p, "copy_renditions", next) /\ UNCHANGED <<objects, vrends>>
    <3>1. vpc'[p] \in {"update", "copy_renditions"} /\ objects' = objects /\ Copies(p)' = Copies(p)
      BY <1>1, <2>1, <2>2, <2>5 DEF VisStep, Copies
    <3>. QED
      BY <1>6, <1>9, <2>1, <3>1 DEF Patch, PatchHolds
  <2>6. CASE /\ PutRefused(copy)
             /\ vleft' = [vleft EXCEPT ![p] = {vcopy[p]} \cup vrends[p]]
             /\ VisStep(p, "copy_renditions", "undo")
    <3>1. vpc'[p] = "undo" /\ objects' = objects /\ vleft'[p] = Copies(p)
      BY <1>1, <1>2, <2>3, <2>6 DEF VisStep, PutRefused
    <3>. QED
      BY <1>6, <1>9, <2>1, <3>1 DEF Patch, PatchHolds
  <2>7. CASE PutEscapes(copy) /\ VisStep(p, "copy_renditions", "broken")
    <3>1. vpc'[p] = "broken" /\ objects' \in {objects, objects \cup {copy}}
      BY <1>1, <2>7 DEF VisStep, PutEscapes, Put
    <3>. QED
      BY <1>6, <1>9, <2>1, <2>3, <3>1 DEF Patch, PatchHolds
  <2>. QED
    BY <2>2, <2>4, <2>5, <2>6, <2>7
<1>10. CASE UpdateVisibility(p)
  <2>1. vpc[p] = "update" /\ UNCHANGED <<objects, vid, vcopy, vrends>> /\ vid[p] \in Ids
    BY <1>3, <1>10 DEF UpdateVisibility
  <2>2. vcopy[p] = None => Copies(p) = {}
    BY <1>1 DEF PatchFacts, Copies
  <2>3. CASE /\ Exists(vid[p])
             /\ rows' = Repointed(p)
             /\ vleft' = [vleft EXCEPT ![p] = IF vcopy[p] = None THEN {} ELSE Held(vsnap[p])]
             /\ VisStep(p, "update", IF vcopy[p] = None THEN Cascade(p) ELSE "remove_old")
    <3>1. /\ vleft'[p] = IF vcopy[p] = None THEN {} ELSE Held(vsnap[p])
          /\ vcopy[p] # None => vpc'[p] = "remove_old"
      BY <1>1, <2>3 DEF VisStep
    <3>2. /\ rows'[vid[p]] = NewRow(p) /\ NewRow(p).status = rows[vid[p]].status
          /\ NewRow(p).key = IF vcopy[p] = None THEN rows[vid[p]].key ELSE vcopy[p]
          /\ NewRow(p).rends =
               IF vcopy[p] = None \/ vsnap[p].rends = {} THEN rows[vid[p]].rends ELSE vrends[p]
      BY <1>1, <2>1, <2>3, NewRowFields
    <3>3. Exists(vid[p])'
      BY <2>1, <2>3, <3>2 DEF Exists
    <3>4. Copies(p) \subseteq Held(rows'[vid[p]])
      BY <1>1, <2>2, <3>2 DEF PatchFacts, Copies, Held
    <3>. QED
      BY <1>6, <1>10, <2>1, <3>1, <3>3, <3>4 DEF Patch, PatchHolds
  <2>4. CASE /\ (~Exists(vid[p]) /\ UNCHANGED rows) \/ StatementRaises(Repointed(p))
             /\ vleft' = [vleft EXCEPT ![p] = IF vcopy[p] = None THEN {} ELSE {vcopy[p]} \cup vrends[p]]
             /\ VisStep(p, "update", IF vcopy[p] = None THEN "answered" ELSE "undo")
    <3>1. rows' = rows
      BY <1>2, <2>4 DEF StatementRaises
    <3>2. vcopy[p] # None => vpc'[p] = "undo" /\ vleft'[p] = Copies(p)
      BY <1>1, <2>4 DEF VisStep, Copies
    <3>. QED
      BY <1>6, <1>10, <2>1, <2>2, <3>1, <3>2 DEF Patch, PatchHolds
  <2>. QED
    BY <1>10, <2>3, <2>4 DEF UpdateVisibility
<1>11. CASE RemoveCopies(p) \/ RemoveOld(p)
  <2>1. rows' = rows
    BY <1>11 DEF RemoveCopies, RemoveOld
  <2>2. PICK from \in {"undo", "remove_old"} :
          /\ vpc[p] = from
          /\ \/ \E j \in vleft[p] : /\ objects' = objects \ {j}
                                    /\ vleft' = [vleft EXCEPT ![p] = @ \ {j}]
                                    /\ vleft[p] # {j} => vpc' = [vpc EXCEPT ![p] = from]
             \/ objects' = objects /\ vpc' = [vpc EXCEPT ![p] = "broken"]
    BY <1>2, <1>11 DEF RemoveCopies, RemoveOld, VisStep, RemoveSuppressed, Remove, RemoveRefused,
       RemoveEscapes
  <2>3. CASE \E j \in vleft[p] : /\ objects' = objects \ {j}
                                 /\ vleft' = [vleft EXCEPT ![p] = @ \ {j}]
                                 /\ vleft[p] # {j} => vpc' = [vpc EXCEPT ![p] = from]
    <3>1. k \in vleft[p] => vpc'[p] \in {"undo", "remove_old"} /\ k \in vleft'[p]
      BY <1>1, <2>2, <2>3
    <3>. QED
      BY <1>6, <1>11, <2>1, <2>2, <2>3, <3>1 DEF Patch, PatchHolds
  <2>4. CASE objects' = objects /\ vpc' = [vpc EXCEPT ![p] = "broken"]
    <3>1. vpc'[p] = "broken"
      BY <1>1, <2>4
    <3>2. k \in vleft[p] => k.tag = p \/ k \in Held(vsnap[p])
      BY <1>1, <2>2 DEF PatchFacts
    <3>3. Held(vsnap[p])' = Held(vsnap[p])
      BY <1>6, <1>11 DEF Patch, Held
    <3>. QED
      BY <1>6, <1>11, <2>1, <2>2, <2>4, <3>1, <3>2, <3>3 DEF Patch, PatchHolds
  <2>. QED
    BY <2>2, <2>3, <2>4
<1>12. ~LoadPosterForVisibility(p)
  BY DEF OwnInv, NoPosters, LoadPosterForVisibility
<1>. QED
  BY <1>5, <1>7, <1>8, <1>9, <1>10, <1>11, <1>12 DEF Patch

(* What of a row a DELETE has seen and not removed it goes on to remove.   *)
LEMMA DeleteSees ==
  ASSUME OwnInv, Seen, {"remove", "lost_reply"} \cap Faults = {},
         NEW d \in Deleters, LoadForDelete(d) \/ Delete(d),
         NEW i \in Ids, did'[d] = i, Exists(i)',
         NEW k \in Held(rows'[i]) \cap objects', k.tag = i
  PROVE  \/ dpc'[d] \in {"object", "storage_unavailable"} /\ k = dsnap'[d].key
         \/ dpc'[d] # "row" /\ k \in dsnap'[d].rends
<1>1. /\ rows \in [Ids -> Rows] /\ dpc \in [Deleters -> DeleteSteps] /\ dsnap \in [Deleters -> Rows]
      /\ DeleteKeeps(d) /\ (DeleteLoads(d) \/ DeleteRuns(d))
  BY DeleteEffect DEF OwnInv, TypeOK, StoreTypeOK, DeleteTypeOK
<1>2. "remove" \notin Faults /\ "lost_reply" \notin Faults
  OBVIOUS
<1>3. rows'[i] = rows[i] /\ Exists(i) /\ k \in Held(rows[i]) \cap objects
  <2>1. rows'[i] = rows[i] \/ rows'[i] = NoRow
    BY <1>1 DEF DeleteLoads, DeleteRuns
  <2>. QED
    BY <1>1, <2>1, NoRowFields DEF Exists, DeleteKeeps
<1>4. CASE LoadForDelete(d)
  <2>1. DeleteLoads(d)
    BY <1>1, <1>4 DEF LoadForDelete, DeleteStep, DeleteRuns
  <2>. QED
    BY <1>3, <2>1 DEF DeleteLoads, Held
<1>5. CASE Delete(d)
  <2>1. DeleteRuns(d)
    BY <1>1, <1>5 DEF Delete, DeleteObject, DeleteRendition, DeleteRecord, LoadPoster, DeletePosterObject,
       DeletePosterRecord, DeleteStep, DeleteLoads
  <2>2. did[d] = i
    BY <2>1 DEF DeleteRuns
  <2>3. \/ dpc[d] \in {"object", "storage_unavailable"} /\ k = dsnap[d].key
        \/ dpc[d] # "row" /\ k \in dsnap[d].rends
    BY <1>3, <2>2 DEF Seen
  <2>4. CASE DeleteObject(d)
    <3>1. CASE DeleteStep(d, "object", Remaining(dsnap[d].rends)) /\ Remove(dsnap[d].key)
      <4>1. k # dsnap[d].key
        BY <3>1 DEF Remove
      <4>. QED
        BY <1>1, <2>3, <2>4, <3>1, <4>1 DEF DeleteObject, DeleteStep, Remaining
    <3>2. CASE DeleteStep(d, "object", "storage_unavailable")
      BY <1>1, <2>3, <2>4, <3>2 DEF DeleteObject, DeleteStep
    <3>. QED
      BY <2>4, <3>1, <3>2 DEF DeleteObject
  <2>5. CASE DeleteRendition(d)
    <3>1. dpc[d] = "renditions"
      BY <2>5 DEF DeleteRendition, DeleteStep
    <3>2. CASE \E j \in dsnap[d].rends :
                 /\ RemoveSuppressed(j)
                 /\ dsnap' = [dsnap EXCEPT ![d].rends = @ \ {j}]
                 /\ DeleteStep(d, "renditions", Remaining(dsnap[d].rends \ {j}))
      <4>1. PICK j \in dsnap[d].rends :
              /\ RemoveSuppressed(j)
              /\ dsnap' = [dsnap EXCEPT ![d].rends = @ \ {j}]
              /\ DeleteStep(d, "renditions", Remaining(dsnap[d].rends \ {j}))
        BY <3>2
      <4>2. k # j
        BY <1>2, <4>1 DEF RemoveSuppressed, Remove, RemoveRefused
      <4>3. k \in dsnap[d].rends \ {j} /\ dsnap'[d].rends = dsnap[d].rends \ {j}
        BY <1>1, <2>3, <3>1, <4>1, <4>2 DEF Rows
      <4>. QED
        BY <1>1, <4>1, <4>3 DEF DeleteStep, Remaining
    <3>3. CASE DeleteStep(d, "renditions", "broken") /\ UNCHANGED dsnap
      BY <1>1, <2>3, <3>1, <3>3 DEF DeleteStep
    <3>. QED
      BY <2>5, <3>2, <3>3 DEF DeleteRendition
  <2>6. CASE DeleteRecord(d)
    BY <2>3, <2>6 DEF DeleteRecord, DeleteStep
  <2>. QED
    BY <1>5, <2>4, <2>5, <2>6
       DEF Delete, LoadPoster, DeletePosterObject, DeletePosterRecord, DeleteStep, OwnInv, NoPosters
<1>. QED
  BY <1>4, <1>5

(* StrandInv is kept by an upload's step.                                  *)
LEMMA UploadStrand ==
  ASSUME OwnInv, StrandInv, {"remove", "lost_reply"} \cap Faults = {},
         NEW u \in Uploads, ReuseExisting(u) \/ EncodeImage(u) \/ ServeImage(u),
         UNCHANGED <<deleteVars, visVars>>
  PROVE  StrandInv'
<1>1. /\ UploadKeeps(u) /\ UploadWrites(u) /\ Subjects /\ rows \in [Ids -> Rows] /\ u \notin Patchers
      /\ u \in Ids
  BY UploadEffect, StoreAssumption DEF OwnInv, TypeOK, StoreTypeOK, Ids
<1>2. UNCHANGED <<dpc, did, dsnap>> /\ UNCHANGED <<vpc, vid, vwant, vsnap, vcopy, vrends, vleft>>
  BY DEF deleteVars, visVars
<1>3. /\ \A i \in Ids \ {u} : rows'[i] = rows[i]
      /\ rows'[u] # rows[u] => ipc[u] \notin Made
  <2>1. ipc[u] = "record" => ipc[u] \notin Made
    BY DEF Made
  <2>. QED
    BY <1>1, <2>1 DEF UploadWrites
<1>4. \A i \in Ids : Exists(i) => Exists(i)' /\ rows'[i] = rows[i]
  BY <1>1, <1>3 DEF Subjects, Exists
<1>5. ASSUME NEW k \in objects'
      PROVE  \/ Referenced(k)'
             \/ \E v \in Uploads : UploadHolds(v, k)'
             \/ \E p \in Patchers : PatchHolds(p, k)'
  <2>1. CASE k \notin objects
    BY <1>5, <2>1, UploadAccounts
  <2>2. CASE k \in objects /\ Referenced(k)
    <3>1. PICK i \in Ids : Exists(i) /\ k \in Held(rows[i])
      BY <2>2 DEF Referenced, Exists
    <3>2. rows'[i] = rows[i]
      BY <1>4, <3>1
    <3>. QED
      BY <3>1, <3>2 DEF Referenced, Exists
  <2>3. ASSUME NEW v \in Uploads, UploadHolds(v, k)
        PROVE  Referenced(k)' \/ UploadHolds(v, k)'
    <3>1. CASE v = u
      <4>1. UploadHolds(u, k)' \/ (Exists(u)' /\ k \in Held(rows'[u]))
        BY <1>5, <2>3, <3>1, UploadAccounts
      <4>. QED
        BY <1>1, <3>1, <4>1 DEF Referenced, Exists
    <3>2. CASE v # u
      BY <1>1, <2>3, <3>2 DEF UploadKeeps, UploadHolds
    <3>. QED
      BY <3>1, <3>2
  <2>4. ASSUME NEW p \in Patchers, PatchHolds(p, k)
        PROVE  PatchHolds(p, k)'
    BY <1>2, <2>4 DEF PatchHolds, Overlapped, DeleteRequested, Copies, Held
  <2>. QED
    BY <2>1, <2>2, <2>3, <2>4 DEF StrandInv, Account
<1>6. ASSUME NEW i \in Ids, Exists(i)', i \in Uploads, ipc[i] \in Made
      PROVE  /\ Exists(i) /\ rows'[i] = rows[i]
             /\ \A k \in objects' : k.tag = i => k \in objects
  <2>1. rows'[i] = rows[i]
    BY <1>3, <1>6
  <2>2. \A k \in objects' : k \notin objects => k.tag = u /\ ipc[u] \notin Made
    BY <1>1, UploadAccounts DEF UploadKeeps
  <2>. QED
    BY <1>6, <2>1, <2>2 DEF Exists
<1>7. Seen'
  <2>1. ASSUME NEW p \in Patchers, NEW i \in Ids, vid'[p] = i, Exists(i)',
               NEW k \in Held(rows'[i]), k.tag = i
        PROVE  k \in Held(vsnap'[p])
    <3>1. i \in Uploads /\ ipc[i] \in Made
      BY <1>1, <1>2, <2>1, StoreAssumption DEF Subjects
    <3>2. Exists(i) /\ rows'[i] = rows[i]
      BY <1>6, <2>1, <3>1
    <3>. QED
      BY <1>2, <2>1, <3>2 DEF StrandInv, Seen
  <2>2. ASSUME NEW d \in Deleters, NEW i \in Ids, did'[d] = i, Exists(i)',
               NEW k \in Held(rows'[i]) \cap objects', k.tag = i
        PROVE  \/ dpc'[d] \in {"object", "storage_unavailable"} /\ k = dsnap'[d].key
               \/ dpc'[d] # "row" /\ k \in dsnap'[d].rends
    <3>1. i \in Uploads /\ ipc[i] \in Made
      BY <1>1, <1>2, <2>2, StoreAssumption DEF Subjects
    <3>2. Exists(i) /\ rows'[i] = rows[i] /\ k \in objects
      BY <1>6, <2>2, <3>1
    <3>. QED
      BY <1>2, <2>2, <3>2 DEF StrandInv, Seen
  <2>. QED
    BY <2>1, <2>2 DEF Seen, Held
<1>8. Fresh'
  BY <1>1, <1>2 DEF StrandInv, Fresh, UploadKeeps
<1>9. Account'
  BY <1>5 DEF Account
<1>. QED
  BY <1>7, <1>8, <1>9 DEF StrandInv

(* By a DELETE's.                                                          *)
LEMMA DeleteStrand ==
  ASSUME OwnInv, StrandInv, {"remove", "lost_reply"} \cap Faults = {},
         NEW d \in Deleters, LoadForDelete(d) \/ Delete(d), UNCHANGED <<imageVars, visVars>>
  PROVE  StrandInv'
<1>1. /\ DeleteKeeps(d) /\ (DeleteLoads(d) \/ DeleteRuns(d)) /\ Subjects /\ rows \in [Ids -> Rows]
      /\ None \notin Ids /\ Uploads \subseteq Ids
  BY DeleteEffect, StoreAssumption DEF OwnInv, TypeOK, StoreTypeOK, Ids
<1>2. /\ UNCHANGED <<ipc, todo, stored>>
      /\ UNCHANGED <<vpc, vid, vwant, vsnap, vcopy, vrends, vleft>>
  BY DEF imageVars, visVars
<1>3. ASSUME NEW i \in Ids
      PROVE  \/ rows'[i] = rows[i]
             \/ rows'[i] = NoRow /\ dpc[d] = "row" /\ i = did[d] /\ did'[d] = i
  BY <1>1 DEF DeleteLoads, DeleteRuns
<1>4. ASSUME NEW p \in Patchers, vpc[p] # "idle", Overlapped(p)
      PROVE  Overlapped(p)'
  <2>1. vid[p] # None
    BY <1>1, <1>4 DEF Subjects
  <2>2. \A e \in Deleters : did[e] = vid[p] => did'[e] = vid[p]
    BY <1>1, <2>1 DEF DeleteKeeps, DeleteLoads, DeleteRuns, Subjects
  <2>. QED
    BY <1>2, <1>4, <2>2 DEF Overlapped, DeleteRequested
<1>5. ASSUME NEW k \in objects'
      PROVE  \/ Referenced(k)'
             \/ \E v \in Uploads : UploadHolds(v, k)'
             \/ \E p \in Patchers : PatchHolds(p, k)'
  <2>1. k \in objects
    BY <1>1 DEF DeleteKeeps
  <2>2. CASE Referenced(k)
    <3>1. PICK i \in Ids : Exists(i) /\ k \in Held(rows[i])
      BY <2>2 DEF Referenced, Exists
    <3>2. CASE rows'[i] = rows[i]
      BY <3>1, <3>2 DEF Referenced, Exists
    <3>3. CASE dpc[d] = "row" /\ i = did[d] /\ did'[d] = i
      <4>1. k.tag # i
        BY <2>1, <3>1, <3>3 DEF StrandInv, Seen
      <4>2. PICK p \in Patchers : k.tag = p /\ vid[p] = i
        BY <1>1, <3>1, <4>1 DEF Subjects, OwnRow, Owns
      <4>3. Overlapped(p)'
        BY <1>2, <3>3, <4>2 DEF Overlapped, DeleteRequested
      <4>. QED
        BY <4>2, <4>3 DEF PatchHolds
    <3>. QED
      BY <1>3, <3>2, <3>3
  <2>3. ASSUME NEW v \in Uploads, UploadHolds(v, k)
        PROVE  UploadHolds(v, k)'
    BY <1>2, <2>3 DEF UploadHolds
  <2>4. ASSUME NEW p \in Patchers, PatchHolds(p, k)
        PROVE  PatchHolds(p, k)'
    <3>1. k.tag = p => vpc[p] # "idle"
      BY <2>1 DEF StrandInv, Fresh
    <3>2. k.tag = p /\ Overlapped(p) => Overlapped(p)'
      BY <1>4, <3>1
    <3>3. Copies(p)' = Copies(p) /\ Held(vsnap[p])' = Held(vsnap[p])
      BY <1>2 DEF Copies, Held
    <3>. QED
      BY <1>2, <2>4, <3>2, <3>3 DEF PatchHolds
  <2>. QED
    BY <2>1, <2>2, <2>3, <2>4 DEF StrandInv, Account
<1>6. ASSUME NEW i \in Ids, Exists(i)'
      PROVE  Exists(i) /\ rows'[i] = rows[i]
  BY <1>3, <1>6, NoRowFields DEF Exists
<1>7. Seen'
  <2>1. ASSUME NEW p \in Patchers, NEW i \in Ids, vid'[p] = i, Exists(i)',
               NEW k \in Held(rows'[i]), k.tag = i
        PROVE  k \in Held(vsnap'[p])
    BY <1>2, <1>6, <2>1 DEF StrandInv, Seen
  <2>2. ASSUME NEW e \in Deleters, NEW i \in Ids, did'[e] = i, Exists(i)',
               NEW k \in Held(rows'[i]) \cap objects', k.tag = i
        PROVE  \/ dpc'[e] \in {"object", "storage_unavailable"} /\ k = dsnap'[e].key
               \/ dpc'[e] # "row" /\ k \in dsnap'[e].rends
    <3>1. CASE e = d
      BY <2>2, <3>1, DeleteSees DEF StrandInv
    <3>2. CASE e # d
      <4>1. Exists(i) /\ rows'[i] = rows[i] /\ k \in objects
        BY <1>1, <1>6, <2>2 DEF DeleteKeeps
      <4>. QED
        BY <1>1, <2>2, <3>2, <4>1 DEF StrandInv, Seen, DeleteKeeps
    <3>. QED
      BY <3>1, <3>2
  <2>. QED
    BY <2>1, <2>2 DEF Seen, Held
<1>8. Fresh'
  BY <1>1, <1>2 DEF StrandInv, Fresh, DeleteKeeps
<1>9. Account'
  BY <1>5 DEF Account
<1>. QED
  BY <1>7, <1>8, <1>9 DEF StrandInv

(* By a PATCH's.                                                           *)
LEMMA PatchStrand ==
  ASSUME OwnInv, StrandInv, {"remove", "lost_reply"} \cap Faults = {},
         NEW p \in Patchers, LoadForVisibility(p) \/ Patch(p), UNCHANGED <<imageVars, deleteVars>>
  PROVE  StrandInv'
<1>1. /\ PatchKeeps(p) /\ (PatchLoads(p) \/ PatchRuns(p)) /\ Subjects /\ PatchFacts(p)
      /\ None \notin Ids /\ Uploads \subseteq Ids /\ p \notin Ids
  BY PatchEffect, StoreAssumption DEF OwnInv, Ids
<1>2. UNCHANGED <<ipc, todo, stored>> /\ UNCHANGED <<dpc, did, dsnap>> /\ UNCHANGED deleteVars
  BY DEF imageVars, deleteVars
<1>3. \A q \in Patchers : vid[q] # None => vid'[q] = vid[q]
  BY <1>1 DEF PatchKeeps, PatchLoads, PatchRuns, Subjects
<1>4. ASSUME NEW q \in Patchers \ {p}, vpc[q] # "idle", Overlapped(q)
      PROVE  Overlapped(q)'
  <2>1. vid[q] # None
    BY <1>1, <1>4 DEF Subjects
  <2>. QED
    BY <1>2, <1>3, <1>4, <2>1 DEF Overlapped, DeleteRequested
<1>5. ASSUME NEW k \in objects'
      PROVE  \/ Referenced(k)'
             \/ \E v \in Uploads : UploadHolds(v, k)'
             \/ \E q \in Patchers : PatchHolds(q, k)'
  <2>1. /\ k \notin objects => PatchHolds(p, k)'
        /\ k \in objects /\ PatchHolds(p, k) =>
             PatchHolds(p, k)' \/ (Exists(vid[p])' /\ k \in Held(rows'[vid[p]]))
        /\ rows' # rows /\ vcopy[p] # None /\ k \in Held(vsnap[p]) => PatchHolds(p, k)'
    BY <1>2, <1>5, PatchAccounts DEF StrandInv
  <2>2. CASE k \in objects /\ Referenced(k)
    <3>1. PICK i \in Ids : Exists(i) /\ k \in Held(rows[i])
      BY <2>2 DEF Referenced, Exists
    <3>2. CASE rows'[i] = rows[i]
      BY <3>1, <3>2 DEF Referenced, Exists
    <3>3. CASE rows'[i] # rows[i]
      <4>1. PatchRuns(p)
        BY <1>1, <3>3 DEF PatchLoads
      <4>2. /\ vpc[p] = "update" /\ i = vid[p] /\ vid'[p] = i
            /\ vcopy[p] = None => rows'[i].key = rows[i].key /\ rows'[i].rends = rows[i].rends
        BY <3>3, <4>1, WrittenRow
      <4>3. vpc[p] \notin Out
        BY <4>2 DEF Out
      <4>4. CASE vcopy[p] = None
        <5>1. rows'[i].status # "none"
          <6>1. /\ rows' = [rows EXCEPT ![vid[p]] = NewRow(p)] /\ TypeOK /\ rows \in [Ids -> Rows]
            BY <3>3, <4>1 DEF PatchRuns, OwnInv, TypeOK, StoreTypeOK
          <6>2. NewRow(p).status = rows[vid[p]].status
            BY <4>2, <6>1, NewRowFields
          <6>. QED
            BY <3>1, <4>2, <6>1, <6>2 DEF Exists
        <5>2. Held(rows'[i]) = Held(rows[i])
          BY <4>2, <4>4 DEF Held
        <5>. QED
          BY <3>1, <5>1, <5>2 DEF Referenced
      <4>5. CASE vcopy[p] # None /\ k.tag = i
        BY <2>1, <3>1, <3>3, <4>2, <4>5 DEF StrandInv, Seen
      <4>6. CASE k.tag # i
        <5>1. PICK q \in Patchers : k.tag = q /\ vid[q] = i /\ vpc[q] \in Out
          BY <1>1, <3>1, <4>6 DEF Subjects, OwnRow, Owns
        <5>2. q # p /\ vid'[q] = vid'[p]
          BY <1>1, <1>3, <4>2, <4>3, <5>1
        <5>3. Overlapped(q)'
          BY <5>2 DEF Overlapped
        <5>. QED
          BY <5>1, <5>3 DEF PatchHolds
      <4>. QED
        BY <4>4, <4>5, <4>6
    <3>. QED
      BY <3>2, <3>3
  <2>3. ASSUME NEW v \in Uploads, UploadHolds(v, k)
        PROVE  UploadHolds(v, k)'
    BY <1>2, <2>3 DEF UploadHolds
  <2>4. ASSUME k \in objects, NEW q \in Patchers, PatchHolds(q, k)
        PROVE  PatchHolds(q, k)' \/ Referenced(k)'
    <3>1. CASE q = p
      <4>1. PatchHolds(p, k)' \/ (Exists(vid[p])' /\ k \in Held(rows'[vid[p]]))
        BY <2>1, <2>4, <3>1
      <4>2. Exists(vid[p])' /\ k \in Held(rows'[vid[p]]) => Referenced(k)' \/ PatchHolds(p, k)'
        <5>1. vpc[p] # "idle"
          BY <1>5, <2>4, <3>1 DEF PatchHolds, StrandInv, Fresh
        <5>2. vid[p] \in Ids /\ vid'[p] = vid[p]
          BY <1>1, <1>3, <5>1 DEF Subjects
        <5>. QED
          BY <5>2 DEF Referenced, Exists
      <4>. QED
        BY <3>1, <4>1, <4>2
    <3>2. CASE q # p
      <4>1. k.tag = q => vpc[q] # "idle"
        BY <2>4 DEF StrandInv, Fresh
      <4>2. k.tag = q /\ Overlapped(q) => Overlapped(q)'
        BY <1>4, <3>2, <4>1
      <4>3. /\ vpc'[q] = vpc[q] /\ vleft'[q] = vleft[q]
            /\ Copies(q)' = Copies(q) /\ Held(vsnap[q])' = Held(vsnap[q])
        BY <1>1, <3>2 DEF PatchKeeps, Copies, Held
      <4>. QED
        BY <2>4, <4>2, <4>3 DEF PatchHolds
    <3>. QED
      BY <3>1, <3>2
  <2>. QED
    BY <2>1, <2>2, <2>3, <2>4 DEF StrandInv, Account
<1>6. ASSUME NEW i \in Ids, Exists(i)'
      PROVE  Exists(i) /\ \A k \in Held(rows'[i]) : k.tag = i => k \in Held(rows[i])
  <2>1. CASE rows'[i] = rows[i]
    BY <1>6, <2>1 DEF Exists
  <2>2. CASE rows'[i] # rows[i]
    <3>1. PatchRuns(p)
      BY <1>1, <2>2 DEF PatchLoads
    <3>2. /\ Exists(i)
          /\ rows'[i].key = IF vcopy[p] = None THEN rows[i].key ELSE vcopy[p]
          /\ rows'[i].rends =
               IF vcopy[p] = None \/ vsnap[p].rends = {} THEN rows[i].rends ELSE vrends[p]
      BY <2>2, <3>1, WrittenRow
    <3>3. Held(rows'[i]) \subseteq Held(rows[i]) \cup Copies(p)
      BY <3>2 DEF Held, Copies
    <3>4. \A k \in Copies(p) : k.tag # i
      BY <1>1 DEF PatchFacts
    <3>. QED
      BY <3>2, <3>3, <3>4
  <2>. QED
    BY <2>1, <2>2
<1>7. Seen'
  <2>1. ASSUME NEW q \in Patchers, NEW i \in Ids, vid'[q] = i, Exists(i)',
               NEW k \in Held(rows'[i]), k.tag = i
        PROVE  k \in Held(vsnap'[q])
    <3>1. Exists(i) /\ k \in Held(rows[i])
      BY <1>6, <2>1
    <3>2. CASE q = p /\ PatchLoads(p)
      BY <2>1, <3>1, <3>2 DEF PatchLoads
    <3>3. CASE q # p \/ PatchRuns(p)
      <4>1. vid[q] = i /\ vsnap'[q] = vsnap[q]
        BY <1>1, <2>1, <3>3 DEF PatchKeeps, PatchRuns
      <4>. QED
        BY <2>1, <3>1, <4>1 DEF StrandInv, Seen
    <3>. QED
      BY <1>1, <3>2, <3>3
  <2>2. ASSUME NEW d \in Deleters, NEW i \in Ids, did'[d] = i, Exists(i)',
               NEW k \in Held(rows'[i]) \cap objects', k.tag = i
        PROVE  \/ dpc'[d] \in {"object", "storage_unavailable"} /\ k = dsnap'[d].key
               \/ dpc'[d] # "row" /\ k \in dsnap'[d].rends
    <3>1. Exists(i) /\ k \in Held(rows[i]) \cap objects
      BY <1>1, <1>6, <2>2 DEF PatchKeeps
    <3>. QED
      BY <1>2, <2>2, <3>1 DEF StrandInv, Seen
  <2>. QED
    BY <2>1, <2>2 DEF Seen, Held
<1>8. Fresh'
  <2>. SUFFICES ASSUME NEW k \in objects', NEW q \in Patchers, k.tag = q
                PROVE  vpc'[q] # "idle"
    BY DEF Fresh
  <2>1. CASE q = p
    BY <1>1, <2>1 DEF PatchLoads, PatchRuns
  <2>2. CASE q # p
    BY <1>1, <2>2 DEF StrandInv, Fresh, PatchKeeps
  <2>. QED
    BY <2>1, <2>2
<1>9. Account'
  BY <1>5 DEF Account
<1>. QED
  BY <1>7, <1>8, <1>9 DEF StrandInv

(* An object that no row points at once all requests are answered is a     *)
(* copy made by a PATCH that overlapped another PATCH or a DELETE of the   *)
(* same row, or was left by a failing disk (upload.py 284-287,             *)
(* visibility.py 156-173), for any number of requests, when no delete of   *)
(* an object fails and no statement that raises has taken effect.          *)
THEOREM OnlyOverlapsStrand ==
  ASSUME {"remove", "lost_reply"} \cap Faults = {}
  PROVE  Spec => []StrandedOnlyByOverlap
<1>1. Init => StrandInv
  <2>. SUFFICES ASSUME Init
                PROVE  StrandInv
    OBVIOUS
  <2>1. objects = {} /\ \A i \in Ids : ~Exists(i)
    BY NoRowFields DEF Init, StoreInit, Exists
  <2>. QED
    BY <2>1 DEF StrandInv, Account, Seen, Fresh
<1>2. OwnInv /\ StrandInv /\ [Next]_vars => StrandInv'
  <2>. SUFFICES ASSUME OwnInv, StrandInv, [Next]_vars
                PROVE  StrandInv'
    OBVIOUS
  <2>1. CASE ImageNext /\ UNCHANGED <<deleteVars, visVars>>
    BY <2>1, UploadStrand DEF ImageNext
  <2>2. CASE DeleteNext /\ UNCHANGED <<imageVars, visVars>>
    BY <2>2, DeleteStrand DEF DeleteNext
  <2>3. CASE VisNext /\ UNCHANGED <<imageVars, deleteVars>>
    BY <2>3, PatchStrand DEF VisNext
  <2>4. CASE UNCHANGED vars
    <3>1. UNCHANGED <<rows, objects, ipc, todo, stored, dpc, did, dsnap>>
          /\ UNCHANGED <<vpc, vid, vwant, vsnap, vcopy, vrends, vleft>>
      BY <2>4 DEF vars, storeVars, imageVars, deleteVars, visVars
    <3>2. Account'
      BY <3>1 DEF StrandInv, Account, Referenced, UploadHolds, PatchHolds, Overlapped, DeleteRequested,
         Copies, Held
    <3>3. Seen'
      BY <3>1 DEF StrandInv, Seen, Exists, Held
    <3>4. Fresh'
      BY <3>1 DEF StrandInv, Fresh
    <3>. QED
      BY <3>2, <3>3, <3>4 DEF StrandInv
  <2>. QED
    BY <2>1, <2>2, <2>3, <2>4 DEF Next
<1>3. StrandInv => StrandedOnlyByOverlap
  <2>. SUFFICES ASSUME StrandInv, Quiet, NEW k \in objects, ~Referenced(k)
                PROVE  (\E p \in Patchers : k.tag = p /\ Overlapped(p)) \/ BrokenOff(k)
    BY DEF StrandedOnlyByOverlap
  <2>1. CASE \E u \in Uploads : UploadHolds(u, k)
    BY <2>1 DEF Quiet, UploadHolds, BrokenOff
  <2>2. CASE \E p \in Patchers : PatchHolds(p, k)
    BY <2>2 DEF Quiet, VisAnswered, PatchHolds, BrokenOff
  <2>. QED
    BY <2>1, <2>2 DEF StrandInv, Account
<1>. QED
  BY <1>1, <1>2, <1>3, NamesOwned, PTL DEF Spec

=============================================================================
