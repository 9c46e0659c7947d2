---------------------------- MODULE ImageSystem ----------------------------
(***************************************************************************)
(* Image and file uploads, DELETE and PATCH requests over the two stores,  *)
(* and what their interleavings must preserve.                             *)
(***************************************************************************)
EXTENDS ImageUpload, FileDeletion, Visibility

vars == <<storeVars, imageVars, deleteVars, visVars>>

(* Every variable holds a value of its kind, and no row lacks its object's *)
(* key (the column is NOT NULL, 0001_initial_uploads.py 34).               *)
TypeOK == KeysNotNull /\ StoreTypeOK /\ ImageTypeOK /\ DeleteTypeOK /\ VisTypeOK

Init == StoreInit /\ ImageInit /\ DeleteInit /\ VisInit

Next ==
  \/ ImageNext /\ UNCHANGED <<deleteVars, visVars>>
  \/ DeleteNext /\ UNCHANGED <<imageVars, visVars>>
  \/ VisNext /\ UNCHANGED <<imageVars, deleteVars>>

Spec == Init /\ [][Next]_vars

(* No request is being served.                                             *)
Quiet ==
  /\ \A u \in Uploads : ipc[u] \in {"idle", "created", "duplicate", "rejected", "broken"}
  /\ \A d \in Deleters : dpc[d] \in DeleteAnswered
  /\ \A p \in Patchers : vpc[p] \in VisAnswered

(***************************************************************************)
(* Safety.                                                                 *)
(***************************************************************************)

(* Everything a row points at, the object and each rendition it lists, is  *)
(* in the store until a DELETE withdraws the row: neither the clean-up of  *)
(* a failed upload nor any interleaving of rotations removes an object     *)
(* that a row still names (visibility.py 156-173, upload.py 284-287).      *)
RowHasObjects ==
  \A i \in Ids : Exists(i) => Held(rows[i]) \subseteq objects \/ Withdrawn(i)

(* Two rows never share an object, so that removing the one never breaks   *)
(* the other: not through reuse of a ready upload, nor through a rotation  *)
(* (visibility.py 49-61, upload.py 238-240).  The unique index on          *)
(* storage_key (0001_initial_uploads.py 50) is not part of the model: it   *)
(* never has to refuse a statement, and renditions are outside it.         *)
KeysUnshared ==
  \A i, j \in Ids :
    Exists(i) /\ Exists(j) /\ i # j => Held(rows[i]) \cap Held(rows[j]) = {}

(* An object that no row points at once all requests are answered is a     *)
(* copy made by a PATCH that overlapped another PATCH or a DELETE of the   *)
(* same row: no failed step of an upload or of a rotation leaves one       *)
(* behind, as long as the deletes that take things back succeed (they are  *)
(* tried once, upload.py 284-287 and visibility.py 156-173).  Where the    *)
(* disk failed, it may also be what was being written then, or what the    *)
(* request that broke off was working on.                                  *)
Overlapped(p) ==
  \/ DeleteRequested(vid[p])
  \/ \E q \in Patchers \ {p} : vid[q] = vid[p]

BrokenOff(k) ==
  \/ \E u \in Uploads : k \in todo[u] \/ (k.tag = u /\ ipc[u] = "broken")
  \/ \E p \in Patchers : vpc[p] = "broken" /\ (k.tag = p \/ k \in Held(vsnap[p]))
  \/ \E d \in Deleters : dpc[d] = "broken" /\ k \in Held(dsnap[d])

StrandedOnlyByOverlap ==
  Quiet =>
    \A k \in objects :
      \/ Referenced(k)
      \/ \E p \in Patchers : k.tag = p /\ Overlapped(p)
      \/ BrokenOff(k)

(* "Private objects are placed under the private/ root prefix [...]        *)
(* establishing a path-based security boundary" (storage/base.py 47-48):   *)
(* an object of a private row is under it, whether the row was uploaded    *)
(* private or turned private, since one statement moves both columns       *)
(* (postgres.py 457-460).  The exceptions are a row a DELETE is taking     *)
(* apart; a PATCH that had nothing to rotate when it read the row and      *)
(* wrote `private` over what another PATCH had published meanwhile; and    *)
(* the renditions of a row that a PATCH read without any (an earlier       *)
(* rotation had found them gone) and therefore left as they had become.    *)
WrotePrivateOnly(i) ==
  \E p \in Patchers : vid[p] = i /\ vwant[p] = "private" /\ vcopy[p] = None

KeptRenditions(i) ==
  \E p \in Patchers :
    vid[p] = i /\ vwant[p] = "private" /\ vcopy[p] # None /\ vsnap[p].rends = {}

PrivateBehindPrefix ==
  \A i \in Ids :
    Exists(i) /\ rows[i].vis = "private" /\ ~Withdrawn(i) /\ ~WrotePrivateOnly(i) =>
      \A k \in Held(rows[i]) \cap objects :
        k.vis = "private" \/ (k \in rows[i].rends /\ KeptRenditions(i))

(* "`visibility` and `thumbnail` are part of that on purpose: without      *)
(* them, re-uploading with different options would dedupe onto the         *)
(* existing record and silently ignore the caller's intent" (upload.py     *)
(* 176-178): the record an upload is answered with has the visibility the  *)
(* upload asked for.  The signature is not rewritten by a PATCH, so only a *)
(* record that was patched may differ.                                     *)
AnsweredAsAsked ==
  [][\A u \in Uploads :
       answer'[u] # answer[u] =>
         \/ rows'[answer'[u]].vis = form[u].vis
         \/ \E p \in Patchers : vid[p] = answer'[u]]_vars

=============================================================================
