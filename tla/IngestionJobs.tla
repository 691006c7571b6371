---------------------------- MODULE IngestionJobs ----------------------------
(***************************************************************************)
(* Ingestion over Celery: the task, the worker that runs it, the ownership *)
(* record in Redis and the result backend.  What the ingestion itself does *)
(* is FreshnessRouter's; here it ends well or not.                         *)
(***************************************************************************)
EXTENDS ApiBase

CONSTANT JobTtl          \* ticks that ownership records and results live

Owner == [tenant : Users, user : Users \cup {None}]

Job == [pc : {"queued", "connect", "provision", "run", "close", "dispose", "report", "done"},
        open : SUBSET {"engine", "graph"},
        outcome : {"SUCCESS", "FAILURE", None},
        owner : Owner \cup {None}, ownedAt : Nat \cup {None},
        finishedAt : Nat \cup {None},
        reported : {"SUCCESS", "FAILURE", "PENDING", None},
        broke : {"nothing", "connect", "close", "dispose"}]

ASSUME JobsAssumption ==
    /\ JobTtl \in Nat
    /\ None \notin Owner /\ None \notin Job /\ None \notin {"SUCCESS", "FAILURE", "PENDING"}

VARIABLES jobs

JobsInit == jobs = [j \in Ids |-> None]

owner_key(tenant, user) == [tenant |-> tenant, user |-> user]

(* Fault: a job without a user is nobody's. *)
owner_matches_NoTenantJobs(stored, tenant, user) ==
    stored.tenant = tenant /\ stored.user = user

owner_matches(stored, tenant, user) ==
    stored.tenant = tenant /\ (stored.user = None \/ stored.user = user)

(* send_task.  `reported` is what status last told the owner. *)
send(j) ==
    jobs' = [jobs EXCEPT ![j] = [pc |-> "queued", open |-> {}, outcome |-> None,
                                 owner |-> None, ownedAt |-> None, finishedAt |-> None,
                                 reported |-> None, broke |-> "nothing"]]

own(j, tenant, user, now) ==
    jobs' = [jobs EXCEPT ![j].owner = owner_key(tenant, user), ![j].ownedAt = now]

OwnerOf(j, now) ==
    IF jobs[j] # None /\ jobs[j].owner # None /\ jobs[j].ownedAt + JobTtl > now
    THEN jobs[j].owner ELSE None

(* Fault: results are dropped a tick before the ownership records. *)
StateOf_ShortResults(j, now) ==
    IF jobs[j].finishedAt # None /\ jobs[j].finishedAt + JobTtl > now + 1
    THEN jobs[j].outcome ELSE "PENDING"

(* A result that has expired, like a task that never existed, is PENDING. *)
StateOf(j, now) ==
    IF jobs[j].finishedAt # None /\ jobs[j].finishedAt + JobTtl > now
    THEN jobs[j].outcome ELSE "PENDING"

report(j, now) == jobs' = [jobs EXCEPT ![j].reported = StateOf(j, now)]

-----------------------------------------------------------------------------
(* The worker.  The engine and the graph driver are opened for each task.   *)
(* `broke` is the step that raised with nobody left to close what is open.  *)

OpenEngine(j) ==
    /\ jobs[j] # None /\ jobs[j].pc = "queued"
    /\ jobs' = [jobs EXCEPT ![j].pc = "connect", ![j].open = {"engine"}]

(* APP_DATABASE_URL is missing or no URL: nothing is open yet. *)
OpenEngineFails(j) ==
    /\ jobs[j] # None /\ jobs[j].pc = "queued"
    /\ jobs' = [jobs EXCEPT ![j].pc = "report", ![j].outcome = "FAILURE"]

(* The Qdrant clients, which are never closed, and the graph driver. *)
OpenGraph(j) ==
    /\ jobs[j] # None /\ jobs[j].pc = "connect"
    /\ jobs' = [jobs EXCEPT ![j].pc = "provision", ![j].open = {"engine", "graph"}]

(* Their constructors and environment come before the try: the engine stays. *)
OpenGraphFails(j) ==
    /\ jobs[j] # None /\ jobs[j].pc = "connect"
    /\ jobs' = [jobs EXCEPT ![j].pc = "report", ![j].outcome = "FAILURE", ![j].broke = "connect"]

Provision(j) ==
    /\ jobs[j] # None /\ jobs[j].pc = "provision"
    /\ jobs' = [jobs EXCEPT ![j].pc = "run"]

(* Fault: the resources of a failed provisioning stay open. *)
ProvisionFails_Leaks(j) ==
    /\ jobs[j] # None /\ jobs[j].pc = "provision"
    /\ jobs' = [jobs EXCEPT ![j].pc = "report", ![j].outcome = "FAILURE"]

(* Fault: a failed provisioning is not reported. *)
ProvisionFails_Silent(j) ==
    /\ jobs[j] # None /\ jobs[j].pc = "provision"
    /\ jobs' = [jobs EXCEPT ![j].pc = "lost"]

(* The except block closes what the caller will never see. *)
ProvisionFails(j) ==
    /\ jobs[j] # None /\ jobs[j].pc = "provision"
    /\ jobs' = [jobs EXCEPT ![j].pc = "close", ![j].outcome = "FAILURE"]

Ingest(j, outcome) ==
    /\ jobs[j] # None /\ jobs[j].pc = "run"
    /\ jobs' = [jobs EXCEPT ![j].pc = "close", ![j].outcome = outcome]

CloseGraph(j) ==
    /\ jobs[j] # None /\ jobs[j].pc = "close"
    /\ jobs' = [jobs EXCEPT ![j].pc = "dispose", ![j].open = @ \ {"graph"}]

(* graph.close() raises: the engine is not disposed, the task fails. *)
CloseGraphFails(j) ==
    /\ jobs[j] # None /\ jobs[j].pc = "close"
    /\ jobs' = [jobs EXCEPT ![j].pc = "report", ![j].outcome = "FAILURE", ![j].broke = "close"]

Dispose(j) ==
    /\ jobs[j] # None /\ jobs[j].pc = "dispose"
    /\ jobs' = [jobs EXCEPT ![j].pc = "report", ![j].open = @ \ {"engine"}]

(* engine.dispose() raises, in either place. *)
DisposeFails(j) ==
    /\ jobs[j] # None /\ jobs[j].pc = "dispose"
    /\ jobs' = [jobs EXCEPT ![j].pc = "report", ![j].outcome = "FAILURE", ![j].broke = "dispose"]

Finish(j, now) ==
    /\ jobs[j] # None /\ jobs[j].pc = "report"
    /\ jobs' = [jobs EXCEPT ![j].pc = "done", ![j].finishedAt = now]

WorkerStep(j, now) ==
    \/ OpenEngine(j) \/ OpenGraph(j) \/ Provision(j) \/ Ingest(j, "SUCCESS")
    \/ CloseGraph(j) \/ Dispose(j) \/ Finish(j, now)

WorkerFault(j) ==
    \/ OpenEngineFails(j) \/ OpenGraphFails(j) \/ ProvisionFails(j) \/ Ingest(j, "FAILURE")
    \/ CloseGraphFails(j) \/ DisposeFails(j)

-----------------------------------------------------------------------------
(* Of the steps of a task that can fail only three leave something open: a   *)
(* client or driver that cannot be built leaves the engine, a driver that    *)
(* cannot be closed itself and the engine, an engine that cannot be disposed *)
(* of itself.  After any other failure a task has closed all it opened.      *)
WorkerReleases ==
    \A j \in Ids : jobs[j] # None /\ jobs[j].pc = "done" =>
        /\ "graph" \in jobs[j].open => jobs[j].broke = "close"
        /\ "engine" \in jobs[j].open => jobs[j].broke \in {"connect", "close", "dispose"}
=============================================================================
