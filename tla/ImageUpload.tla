---------------------------- MODULE ImageUpload ----------------------------
(***************************************************************************)
(* Uploads that are complete when the request is answered: images, alone   *)
(* or as items of a bulk request, and generic files                        *)
(* (app/routers/upload.py).  The handler stores the main object and then   *)
(* its renditions, inserts a ready row, and takes back what it stored when *)
(* a later step fails.                                                     *)
(***************************************************************************)
EXTENDS MediaStore

CONSTANT Forms   (* what a request may ask for                             *)

ASSUME FormsAssumption ==
  Forms \subseteq {f \in Signatures : f.kind = "file" => ~f.thumbnail}

VARIABLES
  form,      (* what each request asks for, which is also its signature    *)
  ipc,       (* where each upload handler is                               *)
  todo,      (* the keys of the encoded objects not stored yet             *)
  stored,    (* uploaded_keys: what a failure has to take back             *)
  answer     (* the row the request is answered with                       *)

imageVars == <<form, ipc, todo, stored, answer>>

ImageSteps == {"idle", "main", "renditions", "record", "undo",
               "created", "duplicate", "rejected", "broken"}

ImageTypeOK ==
  /\ form \in [Uploads -> Forms]
  /\ ipc \in [Uploads -> ImageSteps]
  /\ todo \in [Uploads -> SUBSET Keys]
  /\ stored \in [Uploads -> SUBSET Keys]
  /\ answer \in [Uploads -> Ids \cup {None}]

ImageInit ==
  /\ form \in [Uploads -> Forms]
  /\ ipc = [u \in Uploads |-> "idle"]
  /\ todo = [u \in Uploads |-> {}]
  /\ stored = [u \in Uploads |-> {}]
  /\ answer = [u \in Uploads |-> None]

(* Mutant: objects are named by their content.                             *)
ContentKey(u) ==
  Key(IF form[u].kind = "image" THEN "images" ELSE "files", form[u].vis,
      CHOOSE v \in Uploads : form[v] = form[u])

MainKey(u) == Key(IF form[u].kind = "image" THEN "images" ELSE "files", form[u].vis, u)

ImageStep(u, from, to) ==
  /\ ipc[u] = from
  /\ ipc' = [ipc EXCEPT ![u] = to]

(* A lookup that finds a ready row with the same signature ends the        *)
(* request.                                                                *)
ReuseExisting(u) ==
  /\ ImageStep(u, "idle", "duplicate")
  /\ \E id \in FindReadyByHash(form[u]) : answer' = [answer EXCEPT ![u] = id]
  /\ UNCHANGED <<storeVars, form, todo, stored>>

(* Validate and encode.  Which renditions come out depends on the size of  *)
(* the image and on IMAGE_RENDITION_MODE.  An input that is rejected is    *)
(* answered 400 and leaves nothing behind: it is not a step.               *)
EncodeImage(u) ==
  /\ ImageStep(u, "idle", "main")
  /\ FindReadyByHash(form[u]) = {} \/ LookupRaises
  /\ \E names \in SUBSET Renditions :
       /\ form[u].thumbnail \/ names = {}
       /\ todo' = [todo EXCEPT ![u] = {RenditionKey(MainKey(u), n) : n \in names}]
  /\ UNCHANGED <<storeVars, form, stored, answer>>

(* Where a handler goes that has objects left to store, or to take back.   *)
AfterStore(keys) == IF keys = {} THEN "record" ELSE "renditions"
AfterUndo(keys)  == IF keys = {} THEN "rejected" ELSE "undo"

StoreMain(u) ==
  /\ \/ /\ ImageStep(u, "main", AfterStore(todo[u]))
        /\ Put(MainKey(u))
        /\ stored' = [stored EXCEPT ![u] = {MainKey(u)}]
     \/ /\ \/ ImageStep(u, "main", "rejected") /\ PutRefused(MainKey(u))
           \/ ImageStep(u, "main", "broken") /\ PutEscapes(MainKey(u))
        /\ UNCHANGED stored
  /\ UNCHANGED <<rows, form, todo, answer>>

(* Mutant: a rendition that was stored is not noted for the clean-up.      *)
StoreRenditionUntracked(u) ==
  /\ \E k \in todo[u] :
       \/ /\ ImageStep(u, "renditions", AfterStore(todo[u] \ {k}))
          /\ Put(k)
          /\ todo' = [todo EXCEPT ![u] = @ \ {k}]
       \/ ImageStep(u, "renditions", "undo") /\ PutRaises(k) /\ UNCHANGED todo
  /\ UNCHANGED <<rows, form, stored, answer>>

StoreRendition(u) ==
  /\ \E k \in todo[u] :
       \/ /\ ImageStep(u, "renditions", AfterStore(todo[u] \ {k}))
          /\ Put(k)
          /\ todo' = [todo EXCEPT ![u] = @ \ {k}]
          /\ stored' = [stored EXCEPT ![u] = @ \cup {k}]
       \/ ImageStep(u, "renditions", "undo") /\ PutRaises(k) /\ UNCHANGED <<todo, stored>>
  /\ UNCHANGED <<rows, form, answer>>

ImageRow(u) ==
  [NoRow EXCEPT !.status = "ready", !.kind = form[u].kind, !.key = MainKey(u),
                !.rends = stored[u] \ {MainKey(u)}, !.vis = form[u].vis, !.hash = form[u]]

CreateReady(u) ==
  LET created == Insert(u, ImageRow(u)) IN
  /\ \/ /\ ImageStep(u, "record", "created")
        /\ rows' = created
        /\ answer' = [answer EXCEPT ![u] = u]
     \/ ImageStep(u, "record", "undo") /\ StatementRaises(created) /\ UNCHANGED answer
  /\ UNCHANGED <<objects, form, todo, stored>>

(* _cleanup_uploaded_keys: one delete after the other, errors suppressed.  *)
(* (A single upload whose record fails runs it twice; the second pass can  *)
(* only do later what a delete of the first might have done.)  An OSError  *)
(* breaks it off.                                                          *)
TakeBack(u) ==
  /\ \/ \E k \in stored[u] :
          /\ RemoveSuppressed(k)
          /\ stored' = [stored EXCEPT ![u] = @ \ {k}]
          /\ ImageStep(u, "undo", AfterUndo(stored[u] \ {k}))
     \/ ImageStep(u, "undo", "broken") /\ RemoveEscapes /\ UNCHANGED stored
  /\ UNCHANGED <<rows, form, todo, answer>>

ServeImage(u) == StoreMain(u) \/ StoreRendition(u) \/ CreateReady(u) \/ TakeBack(u)

ImageNext == \E u \in Uploads : ReuseExisting(u) \/ EncodeImage(u) \/ ServeImage(u)

=============================================================================
