--------------------------- MODULE VaultMlWorkers ---------------------------
(***************************************************************************)
(* The job table of vault.db and the tasks that run its jobs: one task per *)
(* unlock session that asked for an analysis (vault_analyze_all,           *)
(* ensure_vault_ml_worker and process_one_vault_ml_job in api.rs of the    *)
(* server, enqueue_vault_analyze_all in ml.rs).                            *)
(*                                                                         *)
(* The vault is unlocked, locked, expired and unlocked again while a task  *)
(* is anywhere in a job.  A session is known by its generation; at most    *)
(* one is active, and the task of an earlier one ends when it notices.     *)
(* There is no JobRunner over vault.db: nothing calls Recover, and the     *)
(* API's cancel reaches the main database only.                            *)
(*                                                                         *)
(* The gate that these tasks share with the main workers only delays them  *)
(* and is left out: a wait in acquire is a task that does not step.  Keys, *)
(* tokens and time limits are not modelled here; Lock is every end of a    *)
(* session (lock, expiry; Unlock replaces it).                             *)
(*                                                                         *)
(* Operators Name_Slip beside Name are plausible slips; nothing uses them. *)
(***************************************************************************)
EXTENDS JobTable

CONSTANT MaxGenerations  \* bound of the model: unlocks per process

ASSUME GenerationsAssumption == MaxGenerations \in Nat

VARIABLES
  up,       \* the server process runs
  session,  \* generation of the active session
  issued,   \* generation of the last session (next_generation less one)
  request,  \* POST that enqueues analyses
  task      \* worker task of each generation (registered where not "none")

vaultVars == <<job, created, up, session, issued, request, task>>

Generations == 1 .. MaxGenerations
VaultKinds_AnalysesOnly == {"ml_vault_analyze"}
VaultKinds == {"ml_vault_analyze", "ml_recluster"}
Analyse(a) == [kind |-> "ml_vault_analyze", asset |-> a]

\* looping: at the head of the loop; claiming: past its check of the session;
\* claimed: holds a job it has not looked at; handling; done, failed: about to
\* report; abandoning: about to cancel; abandoned: about to complete;
\* leaving: out of the loop, still in vault_ml_workers.
TaskSteps == {"none", "looping", "claiming", "claimed", "handling", "done", "failed",
              "abandoning", "abandoned", "leaving"}
Task == [step : TaskSteps, job : Ids \cup {NoJob}]
NoTask == [step |-> "none", job |-> NoJob]

\* todo: the assets still to enqueue; any: whether there was one.
RequestSteps == {"none", "enqueuing", "accepting"}
Request == [step : RequestSteps, generation : 0 .. MaxGenerations,
            todo : SUBSET Assets, any : BOOLEAN]
NoRequestNow == [step |-> "none", generation |-> 0, todo |-> {}, any |-> FALSE]

BusyTasks == {g \in Generations : task[g].job # NoJob}
GoTask(g, step) == task' = [task EXCEPT ![g].step = step]
Leave(g) == task' = [task EXCEPT ![g] = [step |-> "leaving", job |-> NoJob]]

VaultInit ==
  /\ TableInit
  /\ up = FALSE
  /\ session = 0
  /\ issued = 0
  /\ request = NoRequestNow
  /\ task = [g \in Generations |-> NoTask]

-----------------------------------------------------------------------------
(* The process and its session.                                            *)

StartServer ==
  /\ ~up
  /\ up' = TRUE
  /\ UNCHANGED <<job, created, session, issued, request, task>>

ServerCrash ==
  /\ up
  /\ up' = FALSE
  /\ session' = 0
  /\ issued' = 0
  /\ request' = NoRequestNow
  /\ task' = [g \in Generations |-> NoTask]
  /\ UNCHANGED table

\* issue: a new generation, and whatever session there was is replaced.
Unlock ==
  /\ up
  /\ issued < MaxGenerations
  /\ issued' = issued + 1
  /\ session' = issued + 1
  /\ UNCHANGED <<job, created, up, request, task>>

Lock ==
  /\ session # 0
  /\ session' = 0
  /\ UNCHANGED <<job, created, up, issued, request, task>>

-----------------------------------------------------------------------------
(* POST /api/vault/ml/analyze.                                             *)

\* The SELECT of enqueue_vault_analyze_all: assets without faces and without
\* an active job.  Which assets have no faces is left open.
Unqueued == {a \in Assets : ~HasActive(job, Analyse(a))}

BeginAnalyse ==
  /\ request.step = "none"
  /\ session # 0
  /\ \E S \in SUBSET Unqueued :
       request' = [step |-> "enqueuing", generation |-> session, todo |-> S, any |-> S # {}]
  /\ UNCHANGED <<job, created, up, session, issued, task>>

\* One enqueue_unique_active; JobQueueFull ends the request with what is
\* enqueued so far, and without a task.
EnqueueOne(r, next) ==
  /\ Enqueue(r)
  /\ request' = IF HasActive(job', r) THEN next ELSE NoRequestNow
  /\ UNCHANGED <<up, session, issued, task>>

EnqueueAnalyse ==
  /\ request.step = "enqueuing"
  /\ \E a \in request.todo : EnqueueOne(Analyse(a), [request EXCEPT !.todo = @ \ {a}])

EnqueueRecluster ==
  /\ request.step = "enqueuing"
  /\ request.todo = {}
  /\ request.any
  /\ EnqueueOne(Recluster, [request EXCEPT !.step = "accepting"])

\* ensure_active and generation_active, then ensure_vault_ml_worker, which
\* starts nothing where a task is registered, be it about to leave.
Accept ==
  /\ \/ request.step = "accepting"
     \/ request.step = "enqueuing" /\ request.todo = {} /\ ~request.any
  /\ LET g == request.generation IN
       task' = IF session = g /\ task[g].step = "none"
               THEN [task EXCEPT ![g].step = "looping"] ELSE task
  /\ request' = NoRequestNow
  /\ UNCHANGED <<job, created, up, session, issued>>

\* An export takes an asset, and its jobs, out of vault.db.
ExportAsset(a) ==
  /\ session # 0
  /\ ForgetAsset(a)
  /\ UNCHANGED <<up, session, issued, request, task>>

-----------------------------------------------------------------------------
(* The task of a generation.                                               *)

Rest == <<up, session, issued, request>>

Loop_OnceStarted(g) ==
  /\ task[g].step = "looping"
  /\ GoTask(g, "claiming")
  /\ UNCHANGED <<table, Rest>>
Loop(g) ==
  /\ task[g].step = "looping"
  /\ IF session = g THEN GoTask(g, "claiming") ELSE Leave(g)
  /\ UNCHANGED <<table, Rest>>

TaskClaims(g) ==
  /\ task[g].step = "claiming"
  /\ \E j \in Ids :
       /\ Claim(VaultKinds, j)
       /\ task' = [task EXCEPT ![g] = [step |-> "claimed", job |-> j]]
  /\ UNCHANGED Rest

TaskFindsNothing(g) ==
  /\ task[g].step = "claiming"
  /\ Claimable(VaultKinds) = {}
  /\ GoTask(g, "looping")
  /\ UNCHANGED <<table, Rest>>

BeginJob(g) ==
  /\ task[g].step = "claimed"
  /\ GoTask(g, IF session = g THEN "handling" ELSE "abandoning")
  /\ UNCHANGED <<table, Rest>>

\* The handler and the look at the session that follows it.
TaskHandled(g) ==
  /\ task[g].step = "handling"
  /\ \/ session = g /\ \E outcome \in {"done", "failed"} : GoTask(g, outcome)
     \/ session # g /\ GoTask(g, "abandoning")
  /\ UNCHANGED <<table, Rest>>

TaskReports(g) ==
  /\ task[g].step \in {"done", "failed"}
  /\ Finish(task[g].job, task[g].step)
  /\ task' = [task EXCEPT ![g] = [step |-> "looping", job |-> NoJob]]
  /\ UNCHANGED Rest

\* queue.cancel and queue.complete: two transactions that end as "cancelled".
CancelOwn_Omitted(g) ==
  /\ task[g].step = "abandoning"
  /\ GoTask(g, "abandoned")
  /\ UNCHANGED <<table, Rest>>
CancelOwn(g) ==
  /\ task[g].step = "abandoning"
  /\ Cancel(task[g].job)
  /\ GoTask(g, "abandoned")
  /\ UNCHANGED Rest

CompleteOwn(g) ==
  /\ task[g].step = "abandoned"
  /\ Finish(task[g].job, "done")
  /\ task' = [task EXCEPT ![g] = [step |-> "looping", job |-> NoJob]]
  /\ UNCHANGED Rest

Deregister(g) ==
  /\ task[g].step = "leaving"
  /\ task' = [task EXCEPT ![g] = NoTask]
  /\ UNCHANGED <<table, Rest>>

\* A panic of the handler, or a transaction that fails (`?`), breaks the loop
\* and leaves the job as it is.
Break(g) ==
  /\ task[g].step \in {"claiming", "handling", "done", "failed", "abandoning", "abandoned"}
  /\ Leave(g)
  /\ UNCHANGED <<table, Rest>>

-----------------------------------------------------------------------------
TaskStep(g) ==
  \/ Loop(g) \/ TaskClaims(g) \/ TaskFindsNothing(g) \/ BeginJob(g) \/ TaskHandled(g)
  \/ TaskReports(g) \/ CancelOwn(g) \/ CompleteOwn(g) \/ Deregister(g)

RequestStep == EnqueueAnalyse \/ EnqueueRecluster \/ Accept

VaultWork ==
  \/ StartServer \/ Unlock \/ Lock \/ BeginAnalyse \/ RequestStep
  \/ \E a \in Assets : ExportAsset(a)
  \/ \E g \in Generations : TaskStep(g)

Fault == ServerCrash \/ \E g \in Generations : Break(g)

VaultNext == VaultWork \/ Fault

VaultSpec == VaultInit /\ [][VaultNext]_vaultVars

\* Tasks run.  (A handler ends: the client of the sidecar has a deadline.)
VaultFairness == \A g \in Generations : WF_vaultVars(TaskStep(g))

-----------------------------------------------------------------------------
(* Properties.                                                             *)

VaultTypeOK ==
  /\ TableTypeOK
  /\ up \in BOOLEAN
  /\ session \in 0 .. MaxGenerations
  /\ issued \in 0 .. MaxGenerations
  /\ request \in Request
  /\ task \in [Generations -> Task]

(* The tasks of two sessions, the older still in a handler when the vault  *)
(* is unlocked again, never have the same job, and never analyse the same  *)
(* asset, unless the asset left the vault under one of them.               *)
OneTaskPerRequest ==
  \A g, h \in BusyTasks :
    g # h =>
      /\ task[g].job # task[h].job
      /\ LET r == job[task[g].job] q == job[task[h].job] IN
           r.request = q.request => r.state = "none" \/ q.state = "none"

(* A run that outlived its session ends as "cancelled", never as "done",   *)
(* although it takes two transactions and the table changes between them.  *)
AbandonedIsCancelled ==
  [][\A g \in Generations :
       task[g].step = "abandoned" /\ task'[g].step = "looping" =>
         job'[task[g].job].state \in {"cancelled", "none"}]_vaultVars

(* The task of a session that has ended ends too, wherever it was: none    *)
(* stays registered for ever without its session.                          *)
OldTasksEnd ==
  \A g \in Generations : []<>(task[g].step = "none" \/ session = g)

Serving == session # 0 /\ task[session].step # "none"
Unheld(j) == job[j].state = "running" /\ \A g \in Generations : task[g].job # j

(* While the vault is unlocked and has a task, no job stays queued for ever. *)
QueuedIsServed == \A j \in Ids : []<>~(job[j].state = "queued" /\ Serving)

(* While the vault is unlocked and has a task, no job that was interrupted *)
(* stays so for ever: it is tried again (docs/07), as recover does for the *)
(* main database.                                                          *)
InterruptedIsRetried == \A j \in Ids : []<>~(Unheld(j) /\ Serving)
=============================================================================
