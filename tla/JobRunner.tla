------------------------------ MODULE JobRunner ------------------------------
(***************************************************************************)
(* The worker pool over the main database's job table (jobs.rs), the       *)
(* concurrency gate of the ML handlers (lib.rs of the server) and the      *)
(* start, shutdown and crash of the server process around them.            *)
(*                                                                         *)
(* A worker takes a job through separate transactions: claim, a read of    *)
(* the cancel flag, the handler, and complete or fail.  Between them the   *)
(* API enqueues and cancels, other workers claim, and the process may      *)
(* stop or die.  What a handler does to its own tables is not modelled     *)
(* here; it returns, or fails, or panics (which catch_unwind makes a       *)
(* failure, as it does a kind without a handler).                          *)
(*                                                                         *)
(* Operators Name_Slip beside Name are plausible slips; nothing uses them. *)
(***************************************************************************)
EXTENDS JobTable

CONSTANTS
  Workers,    \* the threads of the pool (configured_concurrency)
  GateLimit   \* jobs.ml_concurrency

ASSUME RunnerAssumption == IsFiniteSet(Workers) /\ GateLimit \in Nat \ {0}

VARIABLES
  server,  \* "down", "serving", or "stopping": the pool's shutdown flag is set
  worker   \* what each thread holds in memory

vars == <<job, created, server, worker>>

\* The kinds the main server enqueues and has handlers for.
MainRequests == {r \in Requests : r.kind # "ml_vault_analyze"}

\* idle: at the head of the loop; polling: past its check of the flag;
\* claimed: about to read the cancel flag; waiting: in MlConcurrencyGate::acquire;
\* handling: in the handler; skipped, succeeded, failed: about to report.
Steps == {"gone", "idle", "polling", "claimed", "waiting", "handling",
          "skipped", "succeeded", "failed"}
Worker == [step : Steps, job : Ids \cup {NoJob}, request : Requests \cup {NoRequest}]
Idle == [step |-> "idle", job |-> NoJob, request |-> NoRequest]
Gone == [Idle EXCEPT !.step = "gone"]

Busy == {w \in Workers : worker[w].job # NoJob}
Go(w, step) == worker' = [worker EXCEPT ![w].step = step]

Init ==
  /\ TableInit
  /\ server = "down"
  /\ worker = [w \in Workers |-> Gone]

-----------------------------------------------------------------------------
(* Requests of the API, until the process is gone: a blocking task may     *)
(* outlive the listener.                                                   *)

Up == server \in {"serving", "stopping"}

RequestJob(request) == Up /\ Enqueue(request) /\ UNCHANGED <<server, worker>>
RequestCancel(j) == Up /\ Cancel(j) /\ UNCHANGED <<server, worker>>
MoveAssetAway(a) == Up /\ ForgetAsset(a) /\ UNCHANGED <<server, worker>>

-----------------------------------------------------------------------------
(* worker_loop.                                                            *)

Poll_FlagIgnored(w) ==
  /\ worker[w].step = "idle"
  /\ Up
  /\ Go(w, "polling")
  /\ UNCHANGED <<job, created, server>>
Poll(w) ==
  /\ worker[w].step = "idle"
  /\ server = "serving"
  /\ Go(w, "polling")
  /\ UNCHANGED <<job, created, server>>

Exit(w) ==
  /\ worker[w].step = "idle"
  /\ server = "stopping"
  /\ worker' = [worker EXCEPT ![w] = Gone]
  /\ UNCHANGED <<job, created, server>>

ClaimJob(w) ==
  /\ worker[w].step = "polling"
  /\ \E j \in Ids :
       /\ Claim(Kinds, j)
       /\ worker' = [worker EXCEPT ![w] =
                       [step |-> "claimed", job |-> j, request |-> job[j].request]]
  /\ UNCHANGED server

\* Nothing to claim; the wait that follows times out by itself.
FindNothing(w) ==
  /\ worker[w].step = "polling"
  /\ Claimable(Kinds) = {}
  /\ Go(w, "idle")
  /\ UNCHANGED <<job, created, server>>

\* cancellation_requested: FALSE for a job that has lost its row.
CancelSeen(w) ==
  LET row == job[worker[w].job] IN row.state = "running" /\ row.cancelRequested

CheckCancel(w) ==
  /\ worker[w].step = "claimed"
  /\ \/ CancelSeen(w) /\ Go(w, "skipped")
     \/ ~CancelSeen(w) /\ worker[w].request.kind \in MlKinds /\ Go(w, "waiting")
     \/ ~CancelSeen(w) /\ worker[w].request.kind \notin MlKinds /\ Go(w, "handling")
  /\ UNCHANGED <<job, created, server>>

\* unwrap_or(true): a flag that cannot be read counts as a request.
CheckCancelFails(w) ==
  /\ worker[w].step = "claimed"
  /\ Go(w, "skipped")
  /\ UNCHANGED <<job, created, server>>

Analysing == {w \in Workers : /\ worker[w].step = "handling"
                              /\ worker[w].request.kind \in MlKinds}

AcquireGate(w) ==
  /\ worker[w].step = "waiting"
  /\ Cardinality(Analysing) < GateLimit
  /\ Go(w, "handling")
  /\ UNCHANGED <<job, created, server>>

HandlerReturns(w) ==
  /\ worker[w].step = "handling"
  /\ \E outcome \in {"succeeded", "failed"} : Go(w, outcome)
  /\ UNCHANGED <<job, created, server>>

\* complete or fail, by the Result of the handler; a skipped job is Ok(()).
Outcome(w) == IF worker[w].step = "failed" THEN "failed" ELSE "done"

Report(w) ==
  /\ worker[w].step \in {"skipped", "succeeded", "failed"}
  /\ Finish(worker[w].job, Outcome(w))
  /\ worker' = [worker EXCEPT ![w] = Idle]
  /\ UNCHANGED server

\* let _ = queue.complete(..): a transaction that fails is forgotten.
ReportFails(w) ==
  /\ worker[w].step \in {"skipped", "succeeded", "failed"}
  /\ worker' = [worker EXCEPT ![w] = Idle]
  /\ UNCHANGED <<job, created, server>>

-----------------------------------------------------------------------------
(* The process.                                                            *)

\* JobRunner::start: recover, then spawn.
Start_WithoutRecovery ==
  /\ server = "down"
  /\ server' = "serving"
  /\ worker' = [w \in Workers |-> Idle]
  /\ UNCHANGED table
Start ==
  /\ server = "down"
  /\ Recover
  /\ server' = "serving"
  /\ worker' = [w \in Workers |-> Idle]

\* JobRunner::shutdown sets the flag and joins the threads.
Stop ==
  /\ server = "serving"
  /\ server' = "stopping"
  /\ UNCHANGED <<job, created, worker>>

Stopped ==
  /\ server = "stopping"
  /\ \A w \in Workers : worker[w] = Gone
  /\ server' = "down"
  /\ UNCHANGED <<job, created, worker>>

Crash ==
  /\ Up
  /\ server' = "down"
  /\ worker' = [w \in Workers |-> Gone]
  /\ UNCHANGED table

-----------------------------------------------------------------------------
WorkerStep(w) ==
  \/ Poll(w) \/ Exit(w) \/ ClaimJob(w) \/ FindNothing(w) \/ CheckCancel(w)
  \/ AcquireGate(w) \/ HandlerReturns(w) \/ Report(w)

Users ==
  \/ \E r \in MainRequests : RequestJob(r)
  \/ \E j \in Ids : RequestCancel(j)
  \/ \E a \in Assets : MoveAssetAway(a)

Work == Users \/ (\E w \in Workers : WorkerStep(w)) \/ Start \/ Stopped

Interruption == Stop \/ Crash
Error == \E w \in Workers : CheckCancelFails(w) \/ ReportFails(w)

Next == Work \/ Interruption \/ Error

Spec == Init /\ [][Next]_vars

\* Threads run, and someone starts a server that is down.  No user need ask
\* for anything.
Fairness ==
  /\ \A w \in Workers : WF_vars(WorkerStep(w))
  /\ WF_vars(Start) /\ WF_vars(Stopped)

-----------------------------------------------------------------------------
(* Properties.                                                             *)

TypeOK ==
  /\ TableTypeOK
  /\ server \in {"down", "serving", "stopping"}
  /\ worker \in [Workers -> Worker]

(* A job in a worker's hands stays "running" until that worker reports,    *)
(* however it is cancelled meanwhile (docs/02: a cancelled job stays       *)
(* running, admitted and deduplicated until its worker commits); only the  *)
(* removal of its asset takes the row away.                                *)
HeldIsRunning ==
  \A w \in Busy : job[worker[w].job].state \in {"running", "none"}

(* No job is in two hands, and no two workers analyse the same asset or    *)
(* recluster at once, whatever was enqueued, cancelled and enqueued again, *)
(* unless the asset left the database under one of them.                   *)
OneRunnerPerRequest ==
  \A v, w \in Busy :
    v # w =>
      /\ worker[v].job # worker[w].job
      /\ \/ worker[v].request.kind \notin MlKinds
         \/ worker[v].request # worker[w].request
         \/ "none" \in {job[worker[v].job].state, job[worker[w].job].state}

(* A shutdown ends: no worker waits for ever for the gate, for work, or    *)
(* for another worker.                                                     *)
StopEnds == []<>(server # "stopping")
=============================================================================
