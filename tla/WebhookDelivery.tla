--------------------------- MODULE WebhookDelivery ---------------------------
(***************************************************************************)
(* The webhooks of one video with a callback_url: queued by the job that   *)
(* settles it or by POST /files/{id}/redeliver (app/routers/webhooks.py),  *)
(* delivered by deliver_webhook_task (app/tasks.py), which posts until the *)
(* receiver answers 2xx or the attempts are used up                        *)
(* (app/services/webhooks.py), and recorded in the webhook columns of the  *)
(* row.  Several deliveries of one video may run at a time.                *)
(***************************************************************************)
EXTENDS Naturals

CONSTANTS
  Messages,      (* queue messages: the job's own and those of redeliver   *)
  MaxAttempts,   (* WEBHOOK_MAX_ATTEMPTS                                   *)
  MaxRuns,       (* bound: deliveries of one message to a worker           *)
  Faults

ASSUME WebhookAssumption ==
  /\ MaxAttempts \in Nat
  /\ MaxRuns \in Nat
  /\ Faults \subseteq {"lookup", "metadata", "notify", "crash"}

VARIABLES
  video,      (* the status of the row; "none" once it is deleted          *)
  outcome,    (* what the job has yet to announce: a status, or "none"     *)
  resettled,  (* a delivery of the job has overwritten the settled status  *)
  hook,       (* the row's webhook_status and webhook_attempts             *)
  mpc,        (* where each message is                                     *)
  event,      (* the event a message is about                              *)
  data,       (* the status in the payload of the delivery                 *)
  attempt,    (* attempts made by the delivery                             *)
  run,        (* how many times the message was delivered to a worker      *)
  received,   (* what the receiver was sent: <<event, status>>             *)
  accepted,   (* the receiver has answered 2xx to some attempt             *)
  unrecorded  (* some delivery could not record how it ended               *)

queueVars    == <<video, outcome, resettled, event>>
deliveryVars == <<hook, data, attempt, run, unrecorded>>
receiverVars == <<received, accepted>>
vars == <<queueVars, deliveryVars, receiverVars, mpc>>

Settled  == {"ready", "failed"}
Statuses == Settled \cup {"processing", "none"}
Events   == {"video.completed", "video.failed"}
Steps    == {"unused", "decided", "queued", "load", "mark_pending", "post",
             "mark_delivered", "mark_failed", "finished", "crashed", "acked"}
Hooks    == [status: {"none", "pending", "delivered", "failed"}, attempts: 0..MaxAttempts]

NoHook == [status |-> "none", attempts |-> 0]

(* Every variable holds a value of its kind; in particular no delivery     *)
(* attempts more than WEBHOOK_MAX_ATTEMPTS posts (services/webhooks.py     *)
(* 148).                                                                   *)
TypeOK ==
  /\ video \in Statuses
  /\ outcome \in Statuses
  /\ resettled \in BOOLEAN
  /\ hook \in Hooks
  /\ mpc \in [Messages -> Steps]
  /\ event \in [Messages -> Events]
  /\ data \in [Messages -> Statuses]
  /\ attempt \in [Messages -> 0..MaxAttempts]
  /\ run \in [Messages -> 0..MaxRuns]
  /\ received \subseteq Events \X Statuses
  /\ accepted \in BOOLEAN
  /\ unrecorded \in BOOLEAN

Init ==
  /\ video = "processing"
  /\ outcome = "none"
  /\ resettled = FALSE
  /\ hook = NoHook
  /\ mpc = [m \in Messages |-> "unused"]
  /\ event = [m \in Messages |-> "video.failed"]
  /\ data = [m \in Messages |-> "none"]
  /\ attempt = [m \in Messages |-> 0]
  /\ run = [m \in Messages |-> 0]
  /\ received = {}
  /\ accepted = FALSE
  /\ unrecorded = FALSE

Step(m, from, to) ==
  /\ mpc[m] = from
  /\ mpc' = [mpc EXCEPT ![m] = to]

(***************************************************************************)
(* The row: the job settles it; when its worker dies after that, the next  *)
(* delivery of the job settles it again (redelivery_flips_ready of         *)
(* VideoSystem), here at most once.  The owner may delete it.              *)
(***************************************************************************)
Settle ==
  /\ video = "processing"
  /\ video' \in Settled
  /\ outcome' = video'
  /\ UNCHANGED <<resettled, event, deliveryVars, receiverVars, mpc>>

SettleAgain ==
  /\ "crash" \in Faults
  /\ video \in Settled /\ ~resettled
  /\ video' \in Settled
  /\ outcome' = video'
  /\ resettled' = TRUE
  /\ UNCHANGED <<event, deliveryVars, receiverVars, mpc>>

Delete ==
  /\ video # "none"
  /\ video' = "none"
  /\ hook' = NoHook
  /\ UNCHANGED <<outcome, resettled, event, data, attempt, run, unrecorded, receiverVars, mpc>>

(* _enqueue_webhook, after mark_ready or mark_failed: a failure is only    *)
(* logged.                                                                 *)
EventOf(status) == IF status = "ready" THEN "video.completed" ELSE "video.failed"

Announce(m) ==
  /\ outcome \in Settled
  /\ outcome' = "none"
  /\ \/ Step(m, "unused", "queued") /\ event' = [event EXCEPT ![m] = EventOf(outcome)]
     \/ "notify" \in Faults /\ UNCHANGED <<mpc, event>>
  /\ UNCHANGED <<video, resettled, deliveryVars, receiverVars>>

(* Mutant: a video that is still processing may be redelivered.            *)
DecideWhileProcessing(m) ==
  /\ video # "none"
  /\ Step(m, "unused", "decided")
  /\ event' = [event EXCEPT ![m] = EventOf(video)]
  /\ UNCHANGED <<video, outcome, resettled, deliveryVars, receiverVars>>

(* redeliver_webhook reads the row and decides; 404, 409 and 502 change    *)
(* nothing.                                                                *)
Decide(m) ==
  /\ video \in Settled
  /\ Step(m, "unused", "decided")
  /\ event' = [event EXCEPT ![m] = EventOf(video)]
  /\ UNCHANGED <<video, outcome, resettled, deliveryVars, receiverVars>>

Redeliver(m) ==
  /\ \/ Step(m, "decided", "queued")
     \/ Step(m, "decided", "acked") /\ "notify" \in Faults
  /\ UNCHANGED <<queueVars, deliveryVars, receiverVars>>

(***************************************************************************)
(* deliver_webhook_task.                                                   *)
(***************************************************************************)
Deliver(m) ==
  /\ run[m] < MaxRuns
  /\ \E from \in {"queued", "crashed"} : Step(m, from, "load")
  /\ run' = [run EXCEPT ![m] = @ + 1]
  /\ attempt' = [attempt EXCEPT ![m] = 0]
  /\ UNCHANGED <<queueVars, hook, data, unrecorded, receiverVars>>

(* A delivery whose row cannot be loaded is skipped.                       *)
Load(m) ==
  /\ \/ /\ video # "none"
        /\ Step(m, "load", "mark_pending")
        /\ data' = [data EXCEPT ![m] = video]
        /\ UNCHANGED unrecorded
     \/ /\ video = "none"
        /\ Step(m, "load", "finished")
        /\ UNCHANGED <<data, unrecorded>>
     \/ /\ "lookup" \in Faults
        /\ Step(m, "load", "finished")
        /\ unrecorded' = TRUE
        /\ UNCHANGED data
  /\ UNCHANGED <<queueVars, hook, attempt, run, receiverVars>>

(* mark_webhook; a MetadataError is suppressed, whether or not the UPDATE  *)
(* took effect.                                                            *)
MarkWebhook(status, attempts) ==
  hook' = IF video = "none" THEN hook ELSE [status |-> status, attempts |-> attempts]

(* The state after a failed attempt, or before the first.                  *)
AfterAttempts(n) == IF n < MaxAttempts THEN "post" ELSE "mark_failed"

MarkPending(m) ==
  /\ Step(m, "mark_pending", AfterAttempts(0))
  /\ \/ MarkWebhook("pending", 0)
     \/ "metadata" \in Faults /\ UNCHANGED hook
  /\ UNCHANGED <<queueVars, data, attempt, run, unrecorded, receiverVars>>

Sent(m) == received' = received \cup {<<event[m], data[m]>>}

(* Mutant: one attempt more than configured.                               *)
PostOnceMore(m) ==
  LET n == attempt[m] + 1 IN
  /\ attempt' = [attempt EXCEPT ![m] = n]
  /\ \/ Step(m, "post", "mark_delivered") /\ Sent(m) /\ accepted' = TRUE
     \/ Step(m, "post", IF n <= MaxAttempts THEN "post" ELSE "mark_failed") /\ UNCHANGED receiverVars
  /\ UNCHANGED <<queueVars, hook, data, run, unrecorded>>

(* Mutant: any answer of the receiver counts as delivered.                 *)
PostAnyAnswer(m) ==
  LET n == attempt[m] + 1 IN
  /\ attempt' = [attempt EXCEPT ![m] = n]
  /\ \/ Step(m, "post", "mark_delivered") /\ Sent(m) /\ accepted' \in {accepted, TRUE}
     \/ Step(m, "post", AfterAttempts(n)) /\ UNCHANGED receiverVars
  /\ UNCHANGED <<queueVars, hook, data, run, unrecorded>>

(* Mutant: a refusal is not retried.                                       *)
PostNoRetry(m) ==
  LET n == attempt[m] + 1 IN
  /\ attempt' = [attempt EXCEPT ![m] = n]
  /\ \/ Step(m, "post", "mark_delivered") /\ Sent(m) /\ accepted' = TRUE
     \/ Step(m, "post", "mark_failed") /\ Sent(m) /\ UNCHANGED accepted
  /\ UNCHANGED <<queueVars, hook, data, run, unrecorded>>

(* One attempt: the receiver accepts; it refuses; or the connection fails  *)
(* or times out, before or after the receiver has handled the request.     *)
Post(m) ==
  LET n == attempt[m] + 1 IN
  /\ attempt' = [attempt EXCEPT ![m] = n]
  /\ \/ Step(m, "post", "mark_delivered") /\ Sent(m) /\ accepted' = TRUE
     \/ Step(m, "post", AfterAttempts(n)) /\ Sent(m) /\ accepted' \in {accepted, TRUE}
     \/ Step(m, "post", AfterAttempts(n)) /\ UNCHANGED receiverVars
  /\ UNCHANGED <<queueVars, hook, data, run, unrecorded>>

(* Mutant: only a success is recorded.                                     *)
MarkDeliveredOnly(m) ==
  /\ \/ Step(m, "mark_delivered", "finished") /\ MarkWebhook("delivered", attempt[m])
     \/ Step(m, "mark_failed", "finished") /\ UNCHANGED hook
  /\ UNCHANGED <<queueVars, data, attempt, run, unrecorded, receiverVars>>

MarkResult(m) ==
  /\ \/ /\ \/ Step(m, "mark_delivered", "finished") /\ MarkWebhook("delivered", attempt[m])
           \/ Step(m, "mark_failed", "finished") /\ MarkWebhook("failed", attempt[m])
        /\ UNCHANGED unrecorded
     \/ /\ "metadata" \in Faults
        /\ \E from \in {"mark_delivered", "mark_failed"} : Step(m, from, "finished")
        /\ unrecorded' = TRUE
        /\ UNCHANGED hook
  /\ UNCHANGED <<queueVars, data, attempt, run, receiverVars>>

Acknowledge(m) ==
  /\ Step(m, "finished", "acked")
  /\ UNCHANGED <<queueVars, deliveryVars, receiverVars>>

(* A worker that dies during a delivery leaves the message to be delivered *)
(* again.                                                                  *)
Crash(m) ==
  /\ "crash" \in Faults
  /\ run[m] < MaxRuns
  /\ \E from \in {"load", "mark_pending", "post", "mark_delivered", "mark_failed", "finished"} :
       Step(m, from, "crashed")
  /\ UNCHANGED <<queueVars, deliveryVars, receiverVars>>

Serve(m) ==
  \/ Redeliver(m) \/ Deliver(m) \/ Load(m) \/ MarkPending(m)
  \/ Post(m) \/ MarkResult(m) \/ Acknowledge(m)

Next ==
  \/ Settle \/ SettleAgain \/ Delete
  \/ \E m \in Messages : Announce(m) \/ Decide(m) \/ Serve(m) \/ Crash(m)

(* Workers keep taking messages and every attempt ends: a post has a       *)
(* timeout.                                                                *)
Fairness == \A m \in Messages : WF_vars(Serve(m))

Spec == Init /\ [][Next]_vars /\ Fairness

(***************************************************************************)
(* Properties.                                                             *)
(***************************************************************************)

(* What a receiver is sent is a terminal event with the record of a        *)
(* settled video: from the job's own announcement, from a replay decided   *)
(* on a row read earlier, and after any crash (tasks.py 555-560,           *)
(* routers/webhooks.py 52-58).  The event, chosen when the message is      *)
(* queued, and the record, read when it is delivered, agree unless a       *)
(* delivery of the job has overwritten a settled status in between.        *)
ReceivedIsTerminal ==
  /\ received \subseteq Events \X Settled
  /\ ~resettled =>
       received \subseteq {<<"video.completed", "ready">>, <<"video.failed", "failed">>}

(* A row says `delivered` only if the receiver has answered 2xx, and       *)
(* `failed`, the dead letter, only after all configured attempts of one    *)
(* delivery (services/webhooks.py 122-192, readme.md 812-813).  Both hold  *)
(* of whichever of several deliveries wrote last.                          *)
DeliveredWasAccepted == hook.status = "delivered" => accepted

DeadLetterIsExhausted == hook.status = "failed" => hook.attempts = MaxAttempts

(* A row does not stay `pending`, although workers die: some delivery      *)
(* records how it ended, unless the store refused to take it down          *)
(* (tasks.py 570-586).                                                     *)
PendingEnds == hook.status = "pending" ~> hook.status # "pending" \/ unrecorded

=============================================================================
