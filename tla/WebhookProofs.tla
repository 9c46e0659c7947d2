--------------------------- MODULE WebhookProofs ---------------------------
(***************************************************************************)
(* Proofs about WebhookDelivery, for every number of messages, attempts    *)
(* and deliveries, and for every set of failures.                          *)
(***************************************************************************)
EXTENDS WebhookDelivery, TLAPS

(***************************************************************************)
(* The inductive invariant.  What a message is about to post or to record  *)
(* is tied to its counter, to the receiver and to the status of the row;   *)
(* the four properties follow from it.                                     *)
(***************************************************************************)

(* A delivery counts from zero, posts while attempts are left, and gives   *)
(* up only when none is.                                                   *)
Counted ==
  \A m \in Messages :
    /\ mpc[m] \in {"load", "mark_pending"} => attempt[m] = 0
    /\ mpc[m] = "post" => attempt[m] < MaxAttempts
    /\ mpc[m] = "mark_failed" => attempt[m] = MaxAttempts
    /\ mpc[m] = "mark_delivered" => accepted

(* Nothing is announced or replayed before the video is settled.           *)
SettledFirst ==
  /\ outcome \in Settled \cup {"none"}
  /\ video = "processing" => outcome = "none" /\ \A m \in Messages : mpc[m] = "unused"

(* Unless the job settled the video twice, everything queued or still to   *)
(* be queued is about the status of the row.                               *)
AboutTheRow ==
  ~resettled /\ video \in Settled =>
    /\ outcome # "none" => outcome = video
    /\ \A m \in Messages : mpc[m] # "unused" => event[m] = EventOf(video)

(* What a delivery is going to post is the record of a settled video.      *)
PayloadSettled ==
  \A m \in Messages :
    mpc[m] \in {"mark_pending", "post"} =>
      /\ data[m] \in Settled
      /\ ~resettled => event[m] = EventOf(data[m])

HookInv ==
  /\ TypeOK
  /\ Counted
  /\ SettledFirst
  /\ AboutTheRow
  /\ PayloadSettled
  /\ ReceivedIsTerminal
  /\ DeliveredWasAccepted
  /\ DeadLetterIsExhausted

LEMMA HookInvInit == Init => HookInv
<1>. SUFFICES ASSUME Init PROVE HookInv
  OBVIOUS
<1>. USE DEF Init
<1>1. NoHook \in Hooks
  BY WebhookAssumption DEF NoHook, Hooks
<1>2. TypeOK
  <2>1. resettled \in BOOLEAN /\ accepted \in BOOLEAN /\ unrecorded \in BOOLEAN
    BY Zenon
  <2>2. /\ video \in Statuses /\ outcome \in Statuses /\ hook \in Hooks
        /\ mpc \in [Messages -> Steps] /\ event \in [Messages -> Events]
    BY <1>1 DEF Statuses, Settled, Steps, Events
  <2>3. /\ data \in [Messages -> Statuses]
        /\ attempt \in [Messages -> 0..MaxAttempts]
        /\ run \in [Messages -> 0..MaxRuns]
    BY WebhookAssumption DEF Statuses
  <2>. QED
    BY <2>1, <2>2, <2>3 DEF TypeOK
<1>3. Counted /\ SettledFirst /\ AboutTheRow /\ PayloadSettled
  BY DEF Counted, SettledFirst, AboutTheRow, PayloadSettled, Settled
<1>4. ReceivedIsTerminal /\ DeliveredWasAccepted /\ DeadLetterIsExhausted
  BY DEF ReceivedIsTerminal, DeliveredWasAccepted, DeadLetterIsExhausted, NoHook
<1>. QED
  BY <1>2, <1>3, <1>4 DEF HookInv

(***************************************************************************)
(* The steps.                                                              *)
(***************************************************************************)

(* A step of one message moves that message only.                          *)
LEMMA StepMoves ==
  ASSUME mpc \in [Messages -> Steps], NEW m \in Messages, NEW from, NEW to \in Steps,
         Step(m, from, to)
  PROVE  /\ mpc[m] = from
         /\ mpc' \in [Messages -> Steps]
         /\ mpc'[m] = to
         /\ \A n \in Messages \ {m} : mpc'[n] = mpc[n]
BY DEF Step

(* The job settles the row, again or for the first time, or the row goes.  *)
LEMMA RowChanges ==
  ASSUME HookInv, Settle \/ SettleAgain \/ Delete
  PROVE  HookInv'
<1>. USE DEF HookInv, TypeOK, Statuses, Settled, deliveryVars, receiverVars
<1>1. TypeOK'
  <2>1. resettled' \in BOOLEAN
    BY Zenon DEF Settle, SettleAgain, Delete
  <2>2. hook' \in Hooks
    BY WebhookAssumption DEF Settle, SettleAgain, Delete, NoHook, Hooks
  <2>. QED
    BY <2>1, <2>2 DEF Settle, SettleAgain, Delete
<1>2. Counted'
  BY DEF Settle, SettleAgain, Delete, Counted
<1>3. SettledFirst' /\ AboutTheRow'
  BY DEF Settle, SettleAgain, Delete, SettledFirst, AboutTheRow
<1>4. PayloadSettled' /\ ReceivedIsTerminal'
  BY DEF Settle, SettleAgain, Delete, PayloadSettled, ReceivedIsTerminal
<1>5. DeliveredWasAccepted' /\ DeadLetterIsExhausted'
  BY DEF Settle, SettleAgain, Delete, DeliveredWasAccepted, DeadLetterIsExhausted, NoHook
<1>. QED
  BY <1>1, <1>2, <1>3, <1>4, <1>5

(* A message is announced by the job, or decided on and queued by a        *)
(* replay: its event is that of the row.                                   *)
LEMMA Queueing ==
  ASSUME HookInv, NEW m \in Messages, Announce(m) \/ Decide(m) \/ Redeliver(m)
  PROVE  HookInv'
<1>. USE DEF HookInv, TypeOK, deliveryVars, receiverVars, queueVars
<1>1. /\ mpc' \in [Messages -> Steps]
      /\ mpc' = mpc \/ mpc'[m] \in {"decided", "queued", "acked"}
      /\ \A n \in Messages \ {m} : mpc'[n] = mpc[n]
  BY StepMoves DEF Announce, Decide, Redeliver, Steps
<1>2. event' \in [Messages -> Events]
  BY DEF Announce, Decide, Redeliver, EventOf, Events
<1>3. TypeOK'
  BY <1>1, <1>2 DEF Announce, Decide, Redeliver, Statuses
<1>4. Counted'
  BY <1>1 DEF Announce, Decide, Redeliver, Counted
<1>5. SettledFirst'
  BY <1>1 DEF Announce, Decide, Redeliver, SettledFirst, Settled, Step
<1>6. AboutTheRow'
  <2>1. CASE Announce(m)
    BY <1>1, <2>1 DEF Announce, AboutTheRow, Settled
  <2>2. CASE Decide(m)
    BY <1>1, <2>2 DEF Decide, AboutTheRow
  <2>3. CASE Redeliver(m)
    BY <1>1, <2>3 DEF Redeliver, AboutTheRow, Step
  <2>. QED
    BY <2>1, <2>2, <2>3
<1>7. PayloadSettled'
  BY <1>1 DEF Announce, Decide, Redeliver, PayloadSettled, Step
<1>8. ReceivedIsTerminal' /\ DeliveredWasAccepted' /\ DeadLetterIsExhausted'
  BY DEF Announce, Decide, Redeliver, ReceivedIsTerminal, DeliveredWasAccepted,
         DeadLetterIsExhausted
<1>. QED
  BY <1>3, <1>4, <1>5, <1>6, <1>7, <1>8

(* What a delivery does before it posts: it counts from zero and takes the *)
(* record it reads as its payload.                                         *)
LEMMA Starting ==
  ASSUME HookInv, NEW m \in Messages, Deliver(m) \/ Load(m) \/ MarkPending(m)
  PROVE  HookInv'
<1>. USE WebhookAssumption DEF HookInv, TypeOK, deliveryVars, receiverVars, queueVars
<1>1. /\ mpc' \in [Messages -> Steps]
      /\ mpc[m] # "unused"
      /\ \A n \in Messages \ {m} : mpc'[n] = mpc[n]
  BY StepMoves DEF Deliver, Load, MarkPending, AfterAttempts, Steps
<1>2. TypeOK'
  <2>1. CASE Deliver(m)
    BY <1>1, <2>1 DEF Deliver
  <2>2. CASE Load(m)
    BY <1>1, <2>2 DEF Load
  <2>3. CASE MarkPending(m)
    BY <1>1, <2>3 DEF MarkPending, MarkWebhook, Hooks
  <2>. QED
    BY <2>1, <2>2, <2>3
<1>3. Counted'
  <2>1. CASE Deliver(m)
    BY <1>1, <2>1 DEF Deliver, Step, Counted
  <2>2. CASE Load(m)
    BY <1>1, <2>2 DEF Load, Step, Counted
  <2>3. CASE MarkPending(m)
    BY <1>1, <2>3 DEF MarkPending, AfterAttempts, Step, Counted
  <2>. QED
    BY <2>1, <2>2, <2>3
<1>4. SettledFirst' /\ AboutTheRow'
  BY <1>1 DEF Deliver, Load, MarkPending, SettledFirst, AboutTheRow, Settled
<1>5. PayloadSettled'
  <2>1. CASE Deliver(m)
    BY <1>1, <2>1 DEF Deliver, Step, PayloadSettled
  <2>2. CASE Load(m)
    BY <1>1, <2>2 DEF Load, Step, PayloadSettled, SettledFirst, AboutTheRow, Statuses
  <2>3. CASE MarkPending(m)
    BY <1>1, <2>3 DEF MarkPending, Step, PayloadSettled
  <2>. QED
    BY <2>1, <2>2, <2>3
<1>6. ReceivedIsTerminal'
  BY DEF Deliver, Load, MarkPending, ReceivedIsTerminal
<1>7. DeliveredWasAccepted' /\ DeadLetterIsExhausted'
  BY DEF Deliver, Load, MarkPending, MarkWebhook, DeliveredWasAccepted, DeadLetterIsExhausted
<1>. QED
  BY <1>2, <1>3, <1>4, <1>5, <1>6, <1>7

(* One post.                                                               *)
LEMMA Posting ==
  ASSUME HookInv, NEW m \in Messages, Post(m)
  PROVE  HookInv'
<1>. USE WebhookAssumption DEF HookInv, TypeOK, queueVars
<1>0. \/ Step(m, "post", "mark_delivered") /\ Sent(m) /\ accepted' = TRUE
      \/ Step(m, "post", AfterAttempts(attempt[m] + 1))
  BY DEF Post
<1>1. /\ mpc' \in [Messages -> Steps]
      /\ mpc[m] = "post"
      /\ (mpc'[m] = "mark_delivered" /\ accepted') \/ mpc'[m] = AfterAttempts(attempt[m] + 1)
      /\ \A n \in Messages \ {m} : mpc'[n] = mpc[n]
  BY <1>0, StepMoves DEF AfterAttempts, Steps
<1>b. accepted' \in BOOLEAN /\ (accepted => accepted')
  <2>1. accepted' = TRUE \/ accepted' = accepted
    BY Zenon DEF Post, receiverVars
  <2>. QED
    BY <2>1, Zenon
<1>2. /\ attempt[m] + 1 \in 0..MaxAttempts
      /\ attempt' = [attempt EXCEPT ![m] = attempt[m] + 1]
  BY <1>1 DEF Post, Counted
<1>3. /\ <<event[m], data[m]>> \in Events \X Settled
      /\ ~resettled => event[m] = EventOf(data[m])
  BY <1>1 DEF PayloadSettled
<1>4. received' = received \/ received' = received \cup {<<event[m], data[m]>>}
  BY Zenon DEF Post, Sent, receiverVars
<1>5. TypeOK'
  <2>1. received' \subseteq Events \X Statuses
    BY <1>3, <1>4 DEF Statuses
  <2>. QED
    BY <1>1, <1>2, <1>b, <2>1 DEF Post
<1>6. Counted'
  BY <1>1, <1>2, <1>b DEF Counted, AfterAttempts
<1>7. SettledFirst' /\ AboutTheRow'
  BY <1>1 DEF Post, SettledFirst, AboutTheRow
<1>8. PayloadSettled'
  BY <1>1 DEF Post, PayloadSettled
<1>9. ReceivedIsTerminal'
  BY <1>3, <1>4 DEF Post, ReceivedIsTerminal, EventOf, Settled
<1>10. DeliveredWasAccepted' /\ DeadLetterIsExhausted'
  BY <1>b DEF Post, DeliveredWasAccepted, DeadLetterIsExhausted
<1>. QED
  BY <1>5, <1>6, <1>7, <1>8, <1>9, <1>10

(* A delivery records how it ended, is acknowledged, or dies.              *)
LEMMA Ending ==
  ASSUME HookInv, NEW m \in Messages, MarkResult(m) \/ Acknowledge(m) \/ Crash(m)
  PROVE  HookInv'
<1>. USE DEF HookInv, TypeOK, deliveryVars, receiverVars, queueVars
<1>1. /\ mpc' \in [Messages -> Steps]
      /\ mpc[m] # "unused"
      /\ mpc'[m] \in {"finished", "acked", "crashed"}
      /\ \A n \in Messages \ {m} : mpc'[n] = mpc[n]
  BY StepMoves DEF MarkResult, Acknowledge, Crash, Steps
<1>2. \/ hook' = hook
      \/ hook' = [status |-> "delivered", attempts |-> attempt[m]] /\ mpc[m] = "mark_delivered"
      \/ hook' = [status |-> "failed", attempts |-> attempt[m]] /\ mpc[m] = "mark_failed"
  BY DEF MarkResult, Acknowledge, Crash, MarkWebhook, Step
<1>3. TypeOK'
  <2>1. hook' \in Hooks
    BY <1>2 DEF Hooks
  <2>2. unrecorded' \in BOOLEAN
    BY Zenon DEF MarkResult, Acknowledge, Crash
  <2>. QED
    BY <1>1, <2>1, <2>2 DEF MarkResult, Acknowledge, Crash
<1>4. Counted'
  BY <1>1 DEF MarkResult, Acknowledge, Crash, Counted
<1>5. SettledFirst' /\ AboutTheRow'
  BY <1>1 DEF MarkResult, Acknowledge, Crash, SettledFirst, AboutTheRow
<1>6. PayloadSettled' /\ ReceivedIsTerminal'
  BY <1>1 DEF MarkResult, Acknowledge, Crash, PayloadSettled, ReceivedIsTerminal
<1>7. DeliveredWasAccepted' /\ DeadLetterIsExhausted'
  BY <1>2 DEF MarkResult, Acknowledge, Crash, Counted, DeliveredWasAccepted,
              DeadLetterIsExhausted
<1>. QED
  BY <1>3, <1>4, <1>5, <1>6, <1>7

LEMMA HookInvStep == HookInv /\ [Next]_vars => HookInv'
<1>. SUFFICES ASSUME HookInv, [Next]_vars PROVE HookInv'
  OBVIOUS
<1>1. CASE UNCHANGED vars
  BY <1>1 DEF HookInv, TypeOK, Counted, SettledFirst, AboutTheRow, PayloadSettled,
              ReceivedIsTerminal, DeliveredWasAccepted, DeadLetterIsExhausted,
              vars, queueVars, deliveryVars, receiverVars
<1>2. CASE Settle \/ SettleAgain \/ Delete
  BY <1>2, RowChanges
<1>3. CASE \E m \in Messages : Announce(m) \/ Decide(m) \/ Redeliver(m)
  BY <1>3, Queueing
<1>4. CASE \E m \in Messages : Deliver(m) \/ Load(m) \/ MarkPending(m)
  BY <1>4, Starting
<1>5. CASE \E m \in Messages : Post(m)
  BY <1>5, Posting
<1>6. CASE \E m \in Messages : MarkResult(m) \/ Acknowledge(m) \/ Crash(m)
  BY <1>6, Ending
<1>. QED
  BY <1>1, <1>2, <1>3, <1>4, <1>5, <1>6 DEF Next, Serve

LEMMA HookInvariant == Spec => []HookInv
BY HookInvInit, HookInvStep, PTL DEF Spec

(***************************************************************************)
(* The theorems.                                                           *)
(***************************************************************************)

(* Variables are well typed; no delivery ever makes more than              *)
(* WEBHOOK_MAX_ATTEMPTS posts (services/webhooks.py 148).                  *)
THEOREM HookTypeCorrect == Spec => []TypeOK
<1>1. HookInv => TypeOK
  BY DEF HookInv
<1>. QED
  BY <1>1, HookInvariant, PTL

(* Receivers are sent terminal events with the record of a settled video,  *)
(* and the two agree unless the job settled the video twice (tasks.py      *)
(* 555-578, routers/webhooks.py 52-58).                                    *)
THEOREM ReceiversGetTerminalEvents == Spec => []ReceivedIsTerminal
<1>1. HookInv => ReceivedIsTerminal
  BY DEF HookInv
<1>. QED
  BY <1>1, HookInvariant, PTL

(* The webhook columns tell the truth, whichever of several deliveries     *)
(* wrote last: `delivered` was answered 2xx (services/webhooks.py          *)
(* 154-164, tasks.py 579-586).                                             *)
THEOREM DeliveredIsTrue == Spec => []DeliveredWasAccepted
<1>1. HookInv => DeliveredWasAccepted
  BY DEF HookInv
<1>. QED
  BY <1>1, HookInvariant, PTL

(* A dead letter was tried as often as configured (readme.md 812-813,      *)
(* services/webhooks.py 182-192).                                          *)
THEOREM DeadLettersAreExhausted == Spec => []DeadLetterIsExhausted
<1>1. HookInv => DeadLetterIsExhausted
  BY DEF HookInv
<1>. QED
  BY <1>1, HookInvariant, PTL

=============================================================================
