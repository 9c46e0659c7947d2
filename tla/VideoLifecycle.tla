--------------------------- MODULE VideoLifecycle ---------------------------
(***************************************************************************)
(* What the owner of a video may rely on, without naming a queue, a worker *)
(* or an object key: an upload is `processing` until it settles as `ready` *)
(* or `failed` for good, a ready video can be played until its owner       *)
(* deletes it, and a record once gone does not come back.                  *)
(***************************************************************************)
CONSTANT Uploads

VARIABLES
  state,    (* what GET /files/{id} reports of the upload                  *)
  served    (* whether the bytes of a ready video can be played            *)

lifecycleVars == <<state, served>>

States == {"none", "processing", "ready", "failed", "gone"}

Init ==
  /\ state = [u \in Uploads |-> "none"]
  /\ served = [u \in Uploads |-> FALSE]

Becomes(u, s, playable) ==
  /\ state' = [state EXCEPT ![u] = s]
  /\ served' = [served EXCEPT ![u] = playable]

Register(u) == state[u] = "none" /\ Becomes(u, "processing", FALSE)

Refuse(u) == state[u] = "none" /\ Becomes(u, "gone", FALSE)

Complete(u) == state[u] = "processing" /\ Becomes(u, "ready", TRUE)

Fail(u) == state[u] = "processing" /\ Becomes(u, "failed", FALSE)

(* A DELETE removes the bytes before the record.                           *)
Withdraw(u) == state[u] = "ready" /\ served[u] /\ Becomes(u, "ready", FALSE)

Remove(u) == state[u] \in {"processing", "ready", "failed"} /\ Becomes(u, "gone", FALSE)

Settle(u) == Complete(u) \/ Fail(u) \/ Remove(u)

Next ==
  \E u \in Uploads : Register(u) \/ Refuse(u) \/ Settle(u) \/ Withdraw(u)

(* Nothing obliges an owner to delete, but a video does not stay           *)
(* `processing` for ever.                                                  *)
Fairness ==
  \A u \in Uploads : WF_lifecycleVars(state[u] = "processing" /\ Settle(u))

Spec == Init /\ [][Next]_lifecycleVars

FairSpec == Spec /\ Fairness

=============================================================================
