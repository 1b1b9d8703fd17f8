------------------------------ MODULE JobTable ------------------------------
(***************************************************************************)
(* The `jobs` table of a database and the transactions of JobQueue         *)
(* (jobs.rs) on it.  The main database and vault.db each have one; they    *)
(* share this module and differ in who runs the jobs: the worker pool      *)
(* (module JobRunner) or the tasks of the unlock sessions (module          *)
(* VaultMlWorkers).                                                        *)
(*                                                                         *)
(* Every transaction of JobQueue is one action, its trailing or leading    *)
(* prune included.  Progress, error texts and start times are left out.    *)
(* created_at and the UUIDv7 of a job grow together: a job is numbered in  *)
(* the order of creation.  finished_at is a rank, and rows finished in one *)
(* statement share it.  The thirty days of retention may pass between any  *)
(* two steps: a prune drops the terminal rows up to an arbitrary earlier   *)
(* rank.  The unique indexes of migrations 0003 and 0005 are not modelled: *)
(* enqueue_unique_active reads the active job in the transaction of its    *)
(* INSERT, and OneActivePerRequest is what the indexes state.              *)
(***************************************************************************)
EXTENDS Naturals, FiniteSetsExt

CONSTANTS
  MaxJobs,      \* bound of the model: how many jobs are ever enqueued
  Assets,       \* ids that a job's payload may name
  NoAsset,
  MaxActive,    \* MAX_ACTIVE_JOBS
  MaxActiveMl,  \* MAX_ACTIVE_ML_JOBS
  MaxTerminal   \* MAX_TERMINAL_JOBS

ASSUME TableAssumption ==
  /\ MaxJobs \in Nat /\ MaxActive \in Nat /\ MaxActiveMl \in Nat /\ MaxTerminal \in Nat
  /\ NoAsset \notin Assets

VARIABLES
  job,      \* the table; state "none" where there is no row (or no row any more)
  created   \* how many ids have been drawn

table == <<job, created>>

Ids == 1 .. MaxJobs
NoJob == 0  \* in the hands of whoever runs none

-----------------------------------------------------------------------------
(* Rows.                                                                   *)

MlKinds == {"ml_analyze", "ml_vault_analyze", "ml_recluster"}
Kinds == {"thumbnail"} \cup MlKinds
Priority == [thumbnail |-> 100, ml_analyze |-> 10, ml_vault_analyze |-> 10, ml_recluster |-> 5]

\* What a kind and a payload say: one request per asset, one to recluster.
Recluster == [kind |-> "ml_recluster", asset |-> NoAsset]
Requests == [kind : Kinds \ {"ml_recluster"}, asset : Assets] \cup {Recluster}
NoRequest == [kind |-> "none", asset |-> NoAsset]

ActiveStates == {"queued", "running"}
TerminalStates == {"done", "failed", "cancelled"}

Row == [state : ActiveStates \cup TerminalStates \cup {"none"},
        request : Requests \cup {NoRequest}, cancelRequested : BOOLEAN, finishedAt : Nat]
NoRow == [state |-> "none", request |-> NoRequest, cancelRequested |-> FALSE, finishedAt |-> 0]
Rows == [Ids -> Row]

Existing(rows) == {j \in Ids : rows[j].state # "none"}
Active(rows) == {j \in Ids : rows[j].state \in ActiveStates}
ActiveMl(rows) == {j \in Active(rows) : rows[j].request.kind \in MlKinds}
Running(rows) == {j \in Ids : rows[j].state = "running"}
Terminal(rows) == {j \in Ids : rows[j].state \in TerminalStates}

\* The clock: later than every finished_at of the table.
Now(rows) == 1 + Max({0} \cup {rows[j].finishedAt : j \in Ids})

-----------------------------------------------------------------------------
(* The statements, as functions from a table to a table.                   *)

\* ORDER BY finished_at DESC, id DESC
FinishedAfter(rows, j) ==
  {k \in Terminal(rows) : \/ rows[k].finishedAt > rows[j].finishedAt
                          \/ rows[k].finishedAt = rows[j].finishedAt /\ k > j}

\* prune_terminal_jobs when the rows up to rank `cutoff` are thirty days old.
Pruned(rows, cutoff) ==
  [j \in Ids |-> IF /\ j \in Terminal(rows)
                    /\ \/ rows[j].finishedAt <= cutoff
                       \/ Cardinality(FinishedAfter(rows, j)) >= MaxTerminal
                 THEN NoRow ELSE rows[j]]

\* What a prune now may leave; the row that finished last is not old.
Prunings(rows, now) == {Pruned(rows, cutoff) : cutoff \in 0 .. now - 1}

\* active_job: ml_* jobs go through enqueue_unique_active, thumbnails do not.
HasActive_QueuedOnly(rows, request) ==
  /\ request.kind \in MlKinds
  /\ \E j \in Ids : rows[j].state = "queued" /\ rows[j].request = request
HasActive(rows, request) ==
  /\ request.kind \in MlKinds
  /\ \E j \in Active(rows) : rows[j].request = request

\* enforce_admission
HasRoom(rows, request) ==
  /\ Cardinality(Active(rows)) < MaxActive
  /\ request.kind \in MlKinds => Cardinality(ActiveMl(rows)) < MaxActiveMl

Admits(rows, request) == ~HasActive(rows, request) /\ HasRoom(rows, request)

Queued(request) == [NoRow EXCEPT !.state = "queued", !.request = request]

\* The UPDATE of finish: a cancel that was requested wins over the outcome.
Answered(row, outcome, now) ==
  [row EXCEPT !.state = IF row.cancelRequested THEN "cancelled" ELSE outcome,
              !.cancelRequested = FALSE, !.finishedAt = now]

Finished(rows, j, outcome) ==
  IF rows[j].state = "running"
  THEN [rows EXCEPT ![j] = Answered(rows[j], outcome, Now(rows))]
  ELSE rows

\* The two UPDATEs of cancel.
Cancelled_AtOnce(rows, j) ==
  IF rows[j].state \in ActiveStates
  THEN [rows EXCEPT ![j] = Answered(rows[j], "cancelled", Now(rows))]
  ELSE rows
Cancelled(rows, j) ==
  CASE rows[j].state = "queued" ->
         [rows EXCEPT ![j] = Answered(rows[j], "cancelled", Now(rows))]
    [] rows[j].state = "running" -> [rows EXCEPT ![j].cancelRequested = TRUE]
    [] OTHER -> rows

\* The two UPDATEs of recover.
Recovered_All(rows) ==
  [j \in Ids |-> IF rows[j].state = "running"
                 THEN [rows[j] EXCEPT !.state = "queued", !.cancelRequested = FALSE]
                 ELSE rows[j]]
Recovered(rows) ==
  [j \in Ids |->
     IF rows[j].state # "running" THEN rows[j]
     ELSE IF rows[j].cancelRequested THEN Answered(rows[j], "cancelled", Now(rows))
     ELSE [rows[j] EXCEPT !.state = "queued"]]

-----------------------------------------------------------------------------
(* The transactions.                                                       *)

\* enqueue and enqueue_unique_active, for the kinds that use each.
Enqueue(request) ==
  \E kept \in Prunings(job, Now(job)) :
     \/ /\ Admits(kept, request)
        /\ created < MaxJobs
        /\ job' = [kept EXCEPT ![created + 1] = Queued(request)]
        /\ created' = created + 1
     \/ /\ ~Admits(kept, request)
        /\ job' = kept
        /\ UNCHANGED created

\* ORDER BY priority DESC, created_at, id
ClaimedBefore(j, k) ==
  LET p(i) == Priority[job[i].request.kind] IN p(j) > p(k) \/ (p(j) = p(k) /\ j < k)

Claimable(kinds) == {j \in Ids : job[j].state = "queued" /\ job[j].request.kind \in kinds}

\* claim_kinds; claim is the case of all kinds.
Claim(kinds, j) ==
  /\ j \in Claimable(kinds)
  /\ \A k \in Claimable(kinds) \ {j} : ClaimedBefore(j, k)
  /\ job' = [job EXCEPT ![j].state = "running"]
  /\ UNCHANGED created

\* complete and fail
Finish(j, outcome) ==
  /\ job' \in Prunings(Finished(job, j, outcome), Now(job))
  /\ UNCHANGED created

Cancel(j) ==
  /\ job' \in Prunings(Cancelled(job, j), Now(job))
  /\ UNCHANGED created

Recover ==
  /\ job' = Recovered(job)
  /\ UNCHANGED created

\* The DELETE FROM jobs of delete_assets_from_database_idempotent (vault.rs):
\* an asset that moved to the other database takes its jobs out of this one.
ForgetAsset(a) ==
  /\ job' = [j \in Ids |-> IF job[j].request.asset = a THEN NoRow ELSE job[j]]
  /\ UNCHANGED created

TableInit ==
  /\ job = [j \in Ids |-> NoRow]
  /\ created = 0

-----------------------------------------------------------------------------
(* Properties of the table.                                                *)

TableTypeOK ==
  /\ job \in Rows
  /\ created \in 0 .. MaxJobs

(* At most one queued or running job stands for an ML request, although    *)
(* cancels, crashes, recoveries and requests come in any order: what       *)
(* enqueue_unique_active promises ("while an equivalent queued/running job *)
(* exists") and what keeps two workers from analysing one asset.           *)
OneActivePerRequest ==
  \A i, j \in ActiveMl(job) : job[i].request = job[j].request => i = j

(* The table stays within the limits of admission and pruning: not only    *)
(* the active jobs, but with the terminal rows that recover adds without   *)
(* pruning, the sum of both limits.                                        *)
TableIsBounded ==
  /\ Cardinality(Active(job)) <= MaxActive
  /\ Cardinality(ActiveMl(job)) <= MaxActiveMl
  /\ Cardinality(Existing(job)) <= MaxActive + MaxTerminal

(* An accepted cancel holds: a job whose cancel was requested can only be  *)
(* answered "cancelled", by its worker or by the recovery after a crash,   *)
(* and no answer is ever revised or run again (docs/07: a cancelled run is *)
(* not admitted again).                                                    *)
CancelIsFinal ==
  [][\A j \in Ids :
       /\ job[j].state = "running" /\ job[j].cancelRequested =>
            \/ job'[j].state = "running" /\ job'[j].cancelRequested
            \/ job'[j].state \in {"cancelled", "none"}
       /\ job[j].state \in TerminalStates => job'[j] \in {job[j], NoRow}]_table
=============================================================================
