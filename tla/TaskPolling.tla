---------------------------- MODULE TaskPolling ----------------------------
(***************************************************************************)
(* GET /tasks/{task_id} (app/routers/tasks.py) beside the system it asks   *)
(* about.  A poll reads the row that carries the task id and, only if that *)
(* says `processing`, the result the worker left in Redis (app/broker.py), *)
(* which expires after TASKIQ_RESULT_TTL_SECONDS.                          *)
(***************************************************************************)
EXTENDS VideoSystem

VARIABLES
  raised,    (* whether the current delivery of a job has raised           *)
  result,    (* the result stored under the task id of each job            *)
  ppc,       (* where the client that polls for an upload is               *)
  told       (* the status it was last answered, errors apart              *)

pollVars == <<raised, result, ppc, told>>

tvars == <<vars, pollVars>>

Results == {"none", "returned", "raised", "expired"}

Tells == {"nothing", "unknown", "pending", "completed", "failed"}

(* Every variable holds a value of its kind.                               *)
PollTypeOK ==
  /\ raised \in [Uploads -> BOOLEAN]
  /\ result \in [Uploads -> Results]
  /\ ppc \in [Uploads -> {"idle", "is_ready", "get_result"}]
  /\ told \in [Uploads -> Tells]

PollInit ==
  /\ Init
  /\ raised = [u \in Uploads |-> FALSE]
  /\ result = [u \in Uploads |-> "none"]
  /\ ppc = [u \in Uploads |-> "idle"]
  /\ told = [u \in Uploads |-> "nothing"]

(***************************************************************************)
(* The worker's side.  A task raises when its first read does, when it     *)
(* goes through its `except` clause, or when its `finally` does.  The      *)
(* receiver stores the result before it acknowledges the message.          *)
(***************************************************************************)
Raises(u) ==
  \/ wpc[u] = "load" /\ wpc'[u] = "finished"
  \/ wpc'[u] = "fail"

CleanupRaises(u) == wpc[u] = "cleanup" /\ wpc'[u] = "finished" /\ RemoveEscapes

RunJob(u) ==
  /\ Deliver(u) \/ Compress(u) \/ Crash(u) \/ Trim(u)
  /\ \/ raised' = [raised EXCEPT ![u] =
                      wpc'[u] \notin {"load", "crashed"} /\ (@ \/ Raises(u))]
     \/ CleanupRaises(u) /\ raised' = [raised EXCEPT ![u] = TRUE]
  /\ UNCHANGED <<result, ppc, told>>

StoreResult(u) ==
  /\ Acknowledge(u)
  /\ result' = [result EXCEPT ![u] = IF raised[u] THEN "raised" ELSE "returned"]
  /\ raised' = [raised EXCEPT ![u] = FALSE]
  /\ UNCHANGED <<ppc, told>>

(* result_ex_time has passed.                                              *)
Expire(u) ==
  /\ result[u] \in {"returned", "raised"}
  /\ result' = [result EXCEPT ![u] = "expired"]
  /\ UNCHANGED <<storeVars, videoVars, raised, ppc, told>>

(***************************************************************************)
(* The poll.                                                               *)
(***************************************************************************)
Tell(u, from, status) ==
  /\ ppc[u] = from
  /\ ppc' = [ppc EXCEPT ![u] = "idle"]
  /\ told' = [told EXCEPT ![u] = status]

Look(u, from, to) ==
  /\ ppc[u] = from
  /\ ppc' = [ppc EXCEPT ![u] = to]
  /\ UNCHANGED told

Resolved(u) == Exists(u) /\ rows[u].task

(* Mutant: only the result is asked, not the row.                          *)
ToldByNoRow(status) == {}

(* "The database is our source of truth for completed states"              *)
ToldByRow(status) ==
  CASE status = "ready"  -> {"completed"}
    [] status = "failed" -> {"failed"}
    [] OTHER             -> {}

(* get_by_task_id, once the client was given a task id.                    *)
PollTask(u) ==
  LET known == ToldByRow(rows[u].status) IN
  /\ upc[u] = "accepted"
  /\ \/ ~Resolved(u) /\ Tell(u, "idle", "unknown")
     \/ Resolved(u) /\ \E status \in known : Tell(u, "idle", status)
     \/ Resolved(u) /\ known = {} /\ Look(u, "idle", "is_ready")
  /\ UNCHANGED <<storeVars, videoVars, raised, result>>

IsResultReady(u) ==
  /\ \/ result[u] \in {"none", "expired"} /\ Tell(u, "is_ready", "pending")
     \/ result[u] \in {"returned", "raised"} /\ Look(u, "is_ready", "get_result")
  /\ UNCHANGED <<storeVars, videoVars, raised, result>>

(* Mutant: is_err is not looked at.                                        *)
ToldByAnyResult(kept) == "completed"

ToldByResult(kept) == IF kept = "raised" THEN "failed" ELSE "completed"

(* A result that has expired since is_result_ready raises: a 500.          *)
GetResult(u) ==
  /\ \/ result[u] # "expired" /\ Tell(u, "get_result", ToldByResult(result[u]))
     \/ result[u] = "expired" /\ Look(u, "get_result", "idle")
  /\ UNCHANGED <<storeVars, videoVars, raised, result>>

(* Redis does not answer: a 500 as well.                                   *)
PollRaises(u) ==
  /\ \E from \in {"is_ready", "get_result"} : Look(u, from, "idle")
  /\ UNCHANGED <<storeVars, videoVars, raised, result>>

Poll(u) == PollTask(u) \/ IsResultReady(u) \/ GetResult(u) \/ PollRaises(u)

PollNext ==
  \/ \E u \in Uploads :
       /\ \/ (LookupHit(u) \/ LookupMiss(u) \/ Upload(u)) /\ UNCHANGED pollVars
          \/ RunJob(u) \/ StoreResult(u) \/ Expire(u) \/ Poll(u)
       /\ UNCHANGED deleteVars
  \/ DeleteNext /\ UNCHANGED <<videoVars, pollVars>>

PollSpec == PollInit /\ [][PollNext]_tvars

(***************************************************************************)
(* What a client may rely on.                                              *)
(***************************************************************************)

(* `completed` is told of a video that is settled or gone, never of a job  *)
(* that broke off before it could mark the row (app/tasks.py 473), however *)
(* many deliveries it took.  An outcome once told is not taken back for    *)
(* `pending` when the result expires, since "the database is our source of *)
(* truth for completed states" (routers/tasks.py 43); except the failure   *)
(* of a job that could not mark its row, which nobody remembers then.      *)
PollsTellOutcome ==
  [][\A u \in Uploads :
       /\ told'[u] = "completed" => rows[u].status # "processing"
       /\ told[u] \in {"completed", "failed"} /\ told'[u] = "pending" =>
            /\ told[u] = "failed"
            /\ result[u] = "expired"
            /\ rows[u].status \in {"processing", "none"}]_told

=============================================================================
