-------------------------- MODULE ClientLifecycle --------------------------
(***************************************************************************)
(* The long-lived clients of one process: the asyncpg pool, the client of  *)
(* the object store, the Redis client of /readyz and the broker; opened by *)
(* the lifespan (app/main.py) or on first use behind a lock that is        *)
(* checked twice (app/services/storage, app/services/metadata), closed by  *)
(* the lifespan and, in a worker, by _close_worker_resources as well       *)
(* (app/broker.py).                                                        *)
(***************************************************************************)
EXTENDS Naturals, Sequences

CONSTANT Callers         (* requests or tasks that use the clients         *)

Clients == {"metadata", "storage", "redis", "broker"}

VARIABLES
  process,     (* what runs: its role, and its storage backend             *)
  phase,       (* how far its life has come                                *)
  open,        (* how many clients of each kind are open                   *)
  refers,      (* whether the module variable holds one                    *)
  uses,        (* which client each caller is after                        *)
  cpc,         (* where it is in getting it                                *)
  todo,        (* the clients shutdown has yet to close                    *)
  unclosed     (* history: those whose last aclose raised                  *)

clientVars == <<process, phase, open, refers, uses, cpc, todo, unclosed>>

Processes == [role : {"api", "worker"}, backend : {"s3", "gcp"}]

ClientInit ==
  /\ process \in Processes
  /\ phase = "broker"
  /\ open = [c \in Clients |-> 0]
  /\ refers = [c \in Clients |-> FALSE]
  /\ uses \in [Callers -> {"storage", "metadata"} \cup
                          (IF process.role = "api" THEN {"redis"} ELSE {})]
  /\ cpc = [r \in Callers |-> "idle"]
  /\ todo = <<>>
  /\ unclosed = {}

ClientIdle ==
  /\ process = [role |-> "worker", backend |-> "gcp"]
  /\ phase = "stopped"
  /\ open = [c \in Clients |-> 0]
  /\ refers = [c \in Clients |-> FALSE]
  /\ uses = [r \in Callers |-> "storage"]
  /\ cpc = [r \in Callers |-> "idle"]
  /\ todo = <<>>
  /\ unclosed = {}

(* The module variable is set to a client just opened.                     *)
Hold(c) ==
  /\ open' = [open EXCEPT ![c] = @ + 1]
  /\ refers' = [refers EXCEPT ![c] = TRUE]

(***************************************************************************)
(* Start: a process that cannot start its broker (which a worker has       *)
(* started before it runs the lifespan) or reach the database ends.        *)
(***************************************************************************)
StartBroker ==
  /\ phase = "broker"
  /\ \/ /\ process.role = "api" /\ Hold("broker") /\ phase' = "connect"
     \/ /\ process.role = "worker" /\ phase' = "connect" /\ UNCHANGED <<open, refers>>
     \/ /\ process.role = "api" /\ phase' = "start_failed" /\ UNCHANGED <<open, refers>>
  /\ UNCHANGED <<process, uses, cpc, todo, unclosed>>

Connect ==
  /\ phase = "connect"
  /\ \/ Hold("metadata") /\ phase' = "serving"
     \/ phase' = "start_failed" /\ UNCHANGED <<open, refers>>
  /\ UNCHANGED <<process, uses, cpc, todo, unclosed>>

(***************************************************************************)
(* First use.  Between two awaits nothing else runs: a caller that finds   *)
(* no client and a free lock is inside it at once.                         *)
(***************************************************************************)
At(c, step) == {r \in Callers : uses[r] = c /\ cpc[r] = step}

(* redis.Redis.from_url and gcloud's Storage are built without an await.   *)
BuiltAtOnce(c) == c = "redis" \/ (c = "storage" /\ process.backend = "gcp")

GetClient(r) ==
  LET c == uses[r] IN
  /\ phase = "serving" /\ cpc[r] = "idle"
  /\ IF BuiltAtOnce(c) /\ ~refers[c] THEN Hold(c) ELSE UNCHANGED <<open, refers>>
  /\ cpc' = [cpc EXCEPT ![r] =
               IF refers[c] \/ BuiltAtOnce(c) THEN "using"
               ELSE IF At(c, "opening") \cup At(c, "waiting") = {} THEN "opening"
               ELSE "waiting"]
  /\ UNCHANGED <<process, phase, uses, todo, unclosed>>

(* `await create_pool` or `enter_async_context`; a failure leaves the lock *)
(* too, and the caller with an error.                                      *)
OpenClient(r) ==
  /\ cpc[r] = "opening"
  /\ \/ Hold(uses[r]) /\ cpc' = [cpc EXCEPT ![r] = "using"]
     \/ cpc' = [cpc EXCEPT ![r] = "failed"] /\ UNCHANGED <<open, refers>>
  /\ UNCHANGED <<process, phase, uses, todo, unclosed>>

(* Mutant: the second check is left out.                                   *)
NextUnchecked(c) == "opening"

(* The second `is None`, inside the lock.                                  *)
NextInLock(c) == IF refers[c] THEN "using" ELSE "opening"

EnterLock(r) ==
  /\ cpc[r] = "waiting"
  /\ At(uses[r], "opening") = {}
  /\ cpc' = [cpc EXCEPT ![r] = NextInLock(uses[r])]
  /\ UNCHANGED <<process, phase, open, refers, uses, todo, unclosed>>

Release(r) ==
  /\ cpc[r] = "using"
  /\ cpc' = [cpc EXCEPT ![r] = "done"]
  /\ UNCHANGED <<process, phase, open, refers, uses, todo, unclosed>>

(***************************************************************************)
(* Shutdown, once the server or the receiver has drained its work.         *)
(***************************************************************************)

(* What the lifespan closes, one step shielded from the next.              *)
LifespanCloses ==
  IF process.role = "api" THEN <<"metadata", "storage", "redis", "broker">>
                          ELSE <<"metadata", "storage", "redis">>

(* A worker's own handler, registered after that of taskiq_fastapi.        *)
WorkerCloses == IF process.role = "worker" THEN <<"storage", "metadata">> ELSE <<>>

BeginShutdown ==
  /\ phase = "serving"
  /\ \A r \in Callers : cpc[r] \in {"idle", "done", "failed"}
  /\ phase' = "closing"
  /\ todo' = LifespanCloses \o WorkerCloses
  /\ UNCHANGED <<process, open, refers, uses, cpc, unclosed>>

(* _safe_shutdown: a failure is logged.  The worker's own calls are not    *)
(* wrapped, so there the first to raise is the last to run.                *)
Shielded == Len(todo) > Len(WorkerCloses)

CloseClient ==
  LET c == Head(todo) IN
  /\ phase = "closing" /\ todo # <<>>
  /\ \/ /\ refers[c]
        /\ open' = [open EXCEPT ![c] = @ - 1]
        /\ refers' = [refers EXCEPT ![c] = FALSE]
        /\ unclosed' = unclosed \ {c}
        /\ todo' = Tail(todo)
     \/ /\ ~refers[c]
        /\ todo' = Tail(todo)
        /\ UNCHANGED <<open, refers, unclosed>>
     \/ /\ refers[c]
        /\ unclosed' = unclosed \cup {c}
        /\ todo' = IF Shielded THEN Tail(todo) ELSE <<>>
        /\ UNCHANGED <<open, refers>>
  /\ UNCHANGED <<process, phase, uses, cpc>>

Stop ==
  /\ phase = "closing" /\ todo = <<>>
  /\ phase' = "stopped"
  /\ UNCHANGED <<process, open, refers, uses, cpc, todo, unclosed>>

ClientNext ==
  \/ StartBroker \/ Connect \/ BeginShutdown \/ CloseClient \/ Stop
  \/ \E r \in Callers : GetClient(r) \/ OpenClient(r) \/ EnterLock(r) \/ Release(r)

(***************************************************************************)
(* What this must achieve.                                                 *)
(***************************************************************************)

(* "a failure in one must not skip the rest and leak whatever comes after  *)
(* it" (main.py 118-119): however callers race for the first use, a client *)
(* that is open is the one the module holds, so that shutdown finds it     *)
(* (storage/__init__.py 80-87, s3.py 112-123); and after a shutdown none   *)
(* is open but those whose own aclose raised.  A client is never used      *)
(* without being held.                                                     *)
NoClientLeaks ==
  /\ \A c \in Clients : open[c] = IF refers[c] THEN 1 ELSE 0
  /\ phase = "stopped" => \A c \in Clients : refers[c] => c \in unclosed
  /\ \A r \in Callers : cpc[r] = "using" => refers[uses[r]]

=============================================================================
