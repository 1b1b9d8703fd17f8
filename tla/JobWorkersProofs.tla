-------------------------- MODULE JobWorkersProofs --------------------------
(***************************************************************************)
(* Theorems about those who run the jobs of a table: the worker pool of    *)
(* JobRunner, for any finite pool, and the vault's tasks of VaultMlWorkers,*)
(* for any number of unlock sessions; for any number of jobs and assets    *)
(* and any limits.                                                         *)
(***************************************************************************)
EXTENDS JobRunner, VaultMlWorkers, JobTableProofs

-----------------------------------------------------------------------------
(* The pool's inductive invariant: the table's, and what a worker's memory *)
(* says about the table.                                                   *)

WorkerTypeOK ==
  /\ server \in {"down", "serving", "stopping"}
  /\ worker \in [Workers -> Worker]

\* A worker holds a job from its claim to its report.
FreeHands ==
  \A w \in Workers : worker[w].step \in {"gone", "idle", "polling"} <=> worker[w].job = NoJob

\* What worker w holds was enqueued, is running or gone, and asks for what
\* the worker remembers.
Holds(w) ==
  /\ worker[w].job \in 1 .. created
  /\ \/ job[worker[w].job].state = "none"
     \/ /\ job[worker[w].job].state = "running"
        /\ job[worker[w].job].request = worker[w].request

BusyHold == \A w \in Busy : Holds(w)

NoSharedJob == \A v, w \in Busy : v # w => worker[v].job # worker[w].job

Inv == TableInv /\ WorkerTypeOK /\ FreeHands /\ BusyHold /\ NoSharedJob

LEMMA InitInv == Init => Inv
<1> SUFFICES ASSUME Init PROVE Inv
  OBVIOUS
<1>1. TableInv
  BY InitialTable DEF Init
<1>2. \A w \in Workers : worker[w].job = NoJob
  BY DEF Init, Gone, Idle
<1>5. \A w \in Workers : worker[w].step = "gone"
  BY DEF Init, Gone, Idle
<1>3. WorkerTypeOK
  BY DEF Init, WorkerTypeOK, Worker, Gone, Idle, Steps
<1>4. FreeHands /\ BusyHold /\ NoSharedJob
  BY <1>2, <1>5 DEF FreeHands, BusyHold, NoSharedJob, Busy
<1> QED BY <1>1, <1>3, <1>4 DEF Inv

\* A step of the table that keeps the held jobs running and leaves the
\* workers alone.
LEMMA TableStep ==
  ASSUME Inv, TableInv', UNCHANGED <<server, worker>>,
         created' \in {created, created + 1},
         KeepsRunning(job, job', 1 .. created)
  PROVE  Inv'
<1>1. WorkerTypeOK' /\ FreeHands' /\ NoSharedJob' /\ Busy' = Busy
  BY DEF Inv, WorkerTypeOK, FreeHands, NoSharedJob, Busy
<1>2. created \in Nat
  BY TableAssumption DEF Inv, TableInv, TableTypeOK
<1>3. BusyHold'
  <2> SUFFICES ASSUME NEW w \in Busy PROVE Holds(w)'
    BY <1>1 DEF BusyHold
  <2>1. Holds(w) /\ worker' = worker
    BY DEF Inv, BusyHold
  <2>2. worker[w].job \in 1 .. created'
    BY <1>2, <2>1 DEF Holds
  <2> QED BY <2>1, <2>2 DEF Holds, KeepsRunning
<1> QED BY <1>1, <1>3 DEF Inv

\* A step of worker w within its job, or before it, that leaves the table alone.
LEMMA LocalStep ==
  ASSUME Inv, NEW w \in Workers, NEW step \in Steps, Go(w, step),
         UNCHANGED <<job, created, server>>,
         step \in {"gone", "idle", "polling"} <=> worker[w].job = NoJob
  PROVE  Inv'
<1>1. UNCHANGED table
  BY DEF table
<1>2. TableInv'
  BY <1>1, StillTable DEF Inv
<1>3. WorkerTypeOK'
  BY DEF Inv, WorkerTypeOK, Go, Worker
<1>4. \A v \in Workers : /\ worker'[v].job = worker[v].job
                         /\ worker'[v].request = worker[v].request
                         /\ worker'[v].step = IF v = w THEN step ELSE worker[v].step
  BY DEF Inv, WorkerTypeOK, Go, Worker
<1>5. Busy' = Busy /\ FreeHands'
  BY <1>4 DEF Busy, FreeHands, Inv
<1>6. BusyHold' /\ NoSharedJob'
  BY <1>4, <1>5 DEF BusyHold, NoSharedJob, Holds, Inv, Busy
<1> QED BY <1>2, <1>3, <1>5, <1>6 DEF Inv

\* All hands empty: a start, a crash.
LEMMA NobodyHolds ==
  ASSUME TableInv', WorkerTypeOK',
         \A w \in Workers : worker'[w].job = NoJob /\ worker'[w].step \in {"gone", "idle"}
  PROVE  Inv'
BY DEF Inv, FreeHands, BusyHold, NoSharedJob, Busy

LEMMA ClaimInv ==
  ASSUME Inv, NEW w \in Workers, ClaimJob(w)
  PROVE  Inv'
<1>1. PICK j \in Ids :
        /\ Claim(Kinds, j)
        /\ worker' = [worker EXCEPT ![w] =
                        [step |-> "claimed", job |-> j, request |-> job[j].request]]
  BY DEF ClaimJob
<1>2. /\ TableInv' /\ KeepsRunning(job, job', Ids)
      /\ job[j].state = "queued" /\ job'[j].state = "running"
      /\ job'[j].request = job[j].request
      /\ created' = created
  BY <1>1, ClaimKeeps DEF Inv
<1>3. j \in 1 .. created
  BY <1>2, TableAssumption DEF Inv, TableInv, TableTypeOK, Unborn, Ids
<1>4. WorkerTypeOK'
  BY <1>1 DEF Inv, TableInv, TableTypeOK, Rows, Row, WorkerTypeOK, Worker, Steps, ClaimJob
<1>5. /\ worker'[w].job = j /\ worker'[w].request = job[j].request
      /\ worker'[w].step = "claimed"
      /\ \A v \in Workers \ {w} : worker'[v] = worker[v]
  BY <1>1 DEF Inv, WorkerTypeOK
<1>6. FreeHands'
  BY <1>5, TableAssumption DEF Inv, FreeHands, NoJob, Ids
<1>7. \A v \in Busy' : v # w => v \in Busy /\ worker'[v].job = worker[v].job
  BY <1>5 DEF Busy
<1>8. \A v \in Busy : /\ worker[v].job \in Ids
                      /\ job[worker[v].job].state \in {"running", "none"}
  BY TableAssumption DEF Inv, BusyHold, Holds, TableInv, TableTypeOK, Ids
<1>9. BusyHold'
  <2> SUFFICES ASSUME NEW v \in Busy' PROVE Holds(v)'
    BY DEF BusyHold
  <2>1. CASE v = w
    BY <1>2, <1>3, <1>5, <2>1 DEF Holds
  <2>2. CASE v # w
    <3>1. v \in Busy /\ v \in Workers \ {w} /\ worker'[v] = worker[v] /\ Holds(v)
      BY <1>5, <1>7, <2>2 DEF Inv, BusyHold, Busy
    <3> QED BY <1>2, <1>8, <3>1 DEF Holds, KeepsRunning
  <2> QED BY <2>1, <2>2
<1>10. NoSharedJob'
  <2>1. \A v \in Busy' : v # w => worker'[v].job # j
    BY <1>2, <1>7, <1>8
  <2> QED BY <1>5, <1>7, <2>1 DEF Inv, NoSharedJob
<1> QED BY <1>2, <1>4, <1>6, <1>9, <1>10 DEF Inv

LEMMA WorkerType ==
  ASSUME Inv, NEW w \in Workers
  PROVE  /\ worker[w] \in Worker
         /\ w \in Busy => /\ worker[w].job \in Ids
                          /\ job[worker[w].job].state \in {"running", "none"}
         /\ worker[w].step \notin {"gone", "idle", "polling"} => w \in Busy
BY TableAssumption
DEF Inv, WorkerTypeOK, BusyHold, Holds, FreeHands, Busy, TableInv, TableTypeOK, Ids

\* Worker w has put down its job, if it had one, and the others' jobs run on.
LEMMA PutDown ==
  ASSUME Inv, TableInv', NEW w \in Workers, NEW rest \in {Idle, Gone},
         worker' = [worker EXCEPT ![w] = rest],
         UNCHANGED <<created, server>>,
         KeepsRunning(job, job', Ids \ {worker[w].job})
  PROVE  Inv'
<1>1. /\ worker'[w] = rest
      /\ \A v \in Workers \ {w} : worker'[v] = worker[v]
  BY DEF Inv, WorkerTypeOK, Busy
<1>2. rest \in Worker /\ rest.job = NoJob /\ rest.step \in {"idle", "gone"}
  BY DEF Idle, Gone, Worker, Steps
<1>3. WorkerTypeOK'
  BY <1>2 DEF Inv, WorkerTypeOK
<1>4. FreeHands'
  BY <1>1, <1>2 DEF Inv, FreeHands
<1>5. \A v \in Busy' : v \in Busy /\ v # w /\ worker'[v] = worker[v]
  BY <1>1, <1>2 DEF Busy
<1>6. NoSharedJob'
  BY <1>5 DEF Inv, NoSharedJob
<1>7. BusyHold'
  <2> SUFFICES ASSUME NEW v \in Busy' PROVE Holds(v)'
    BY DEF BusyHold
  <2>1. v \in Busy /\ v # w /\ worker'[v] = worker[v] /\ Holds(v)
    BY <1>5 DEF Inv, BusyHold
  <2>2. worker[v].job \in Ids \ {worker[w].job}
    BY <2>1, WorkerType DEF Inv, NoSharedJob, Busy
  <2> QED BY <2>1, <2>2, WorkerType DEF Holds, KeepsRunning, Busy
<1> QED BY <1>3, <1>4, <1>6, <1>7 DEF Inv

LEMMA OutcomeType ==
  ASSUME NEW w \in Workers
  PROVE  Outcome(w) \in TerminalStates
BY DEF Outcome, TerminalStates

-----------------------------------------------------------------------------
(* Every step keeps the invariant and the answers given.                   *)

LEMMA StepKeeps ==
  ASSUME Inv, [Next]_vars
  PROVE  Inv' /\ KeepsAnswers(job, job')
<1>1. ASSUME NEW r \in MainRequests, RequestJob(r) PROVE Inv' /\ KeepsAnswers(job, job')
  <2>1. r \in Requests
    BY DEF MainRequests
  <2>2. /\ TableInv' /\ KeepsAnswers(job, job') /\ KeepsRunning(job, job', 1 .. created)
        /\ created' \in {created, created + 1}
    BY <1>1, <2>1, EnqueueKeeps DEF RequestJob, Inv
  <2> QED BY <1>1, <2>2, TableStep DEF RequestJob
<1>2. ASSUME NEW j \in Ids, RequestCancel(j) PROVE Inv' /\ KeepsAnswers(job, job')
  <2>1. /\ TableInv' /\ KeepsAnswers(job, job') /\ KeepsRunning(job, job', Ids)
        /\ created' = created
    BY <1>2, CancelKeeps DEF RequestCancel, Inv
  <2>2. KeepsRunning(job, job', 1 .. created)
    BY <2>1, TableAssumption DEF KeepsRunning, Inv, TableInv, TableTypeOK, Ids
  <2> QED BY <1>2, <2>1, <2>2, TableStep DEF RequestCancel
<1>3. ASSUME NEW a \in Assets, MoveAssetAway(a) PROVE Inv' /\ KeepsAnswers(job, job')
  <2>1. /\ TableInv' /\ KeepsAnswers(job, job') /\ KeepsRunning(job, job', Ids)
        /\ created' = created
    BY <1>3, ForgetAssetKeeps DEF MoveAssetAway, Inv
  <2>2. KeepsRunning(job, job', 1 .. created)
    BY <2>1, TableAssumption DEF KeepsRunning, Inv, TableInv, TableTypeOK, Ids
  <2> QED BY <1>3, <2>1, <2>2, TableStep DEF MoveAssetAway
<1>4. ASSUME UNCHANGED table
      PROVE  /\ TableInv' /\ KeepsAnswers(job, job') /\ KeepsRunning(job, job', Ids)
             /\ job' = job /\ created' = created
  BY <1>4, StillTable DEF Inv, table
<1>5. ASSUME NEW w \in Workers, WorkerStep(w) \/ CheckCancelFails(w) \/ ReportFails(w)
      PROVE  Inv' /\ KeepsAnswers(job, job')
  <2>1. CASE Poll(w)
    BY <1>4, <2>1, LocalStep DEF Poll, Inv, FreeHands, Steps, table
  <2>2. CASE Exit(w)
    <3>1. TableInv' /\ KeepsAnswers(job, job') /\ KeepsRunning(job, job', Ids)
      BY <1>4, <2>2 DEF Exit, table
    <3>2. KeepsRunning(job, job', Ids \ {worker[w].job})
      BY <3>1 DEF KeepsRunning
    <3> QED BY <2>2, <3>1, <3>2, PutDown DEF Exit
  <2>3. CASE ClaimJob(w)
    BY <2>3, ClaimInv, ClaimKeeps DEF ClaimJob, Inv
  <2>4. CASE FindNothing(w)
    BY <1>4, <2>4, LocalStep DEF FindNothing, Inv, FreeHands, Steps, table
  <2>5. CASE CheckCancel(w)
    BY <1>4, <2>5, LocalStep DEF CheckCancel, Inv, FreeHands, Steps, table
  <2>6. CASE AcquireGate(w)
    BY <1>4, <2>6, LocalStep DEF AcquireGate, Inv, FreeHands, Steps, table
  <2>7. CASE HandlerReturns(w)
    BY <1>4, <2>7, LocalStep DEF HandlerReturns, Inv, FreeHands, Steps, table
  <2>8. CASE Report(w)
    <3>1. worker[w].job \in Ids
      BY <2>8, WorkerType DEF Report
    <3>2. /\ TableInv' /\ KeepsAnswers(job, job')
          /\ KeepsRunning(job, job', Ids \ {worker[w].job}) /\ created' = created
      BY <2>8, <3>1, OutcomeType, FinishKeeps DEF Report, Inv
    <3> QED BY <2>8, <3>1, <3>2, PutDown DEF Report
  <2>9. CASE CheckCancelFails(w)
    BY <1>4, <2>9, LocalStep DEF CheckCancelFails, Inv, FreeHands, Steps, table
  <2>10. CASE ReportFails(w)
    <3>1. TableInv' /\ KeepsAnswers(job, job') /\ KeepsRunning(job, job', Ids)
      BY <1>4, <2>10 DEF ReportFails, table
    <3>2. KeepsRunning(job, job', Ids \ {worker[w].job})
      BY <3>1 DEF KeepsRunning
    <3> QED BY <2>10, <3>1, <3>2, PutDown DEF ReportFails
  <2> QED BY <1>5, <2>1, <2>2, <2>3, <2>4, <2>5, <2>6, <2>7, <2>8, <2>9, <2>10 DEF WorkerStep
<1>6. CASE Start
  <2>1. TableInv' /\ KeepsAnswers(job, job')
    BY <1>6, RecoverKeeps DEF Start, Inv
  <2>2. WorkerTypeOK' /\ \A w \in Workers : worker'[w].job = NoJob /\ worker'[w].step = "idle"
    BY <1>6 DEF Start, WorkerTypeOK, Worker, Idle, Steps
  <2> QED BY <2>1, <2>2, NobodyHolds
<1>7. CASE Crash
  <2>1. WorkerTypeOK' /\ \A w \in Workers : worker'[w].job = NoJob /\ worker'[w].step = "gone"
    BY <1>7 DEF Crash, WorkerTypeOK, Worker, Gone, Idle, Steps
  <2> QED BY <1>4, <1>7, <2>1, NobodyHolds DEF Crash
<1>8. CASE Stop \/ Stopped \/ UNCHANGED vars
  <2>1. /\ UNCHANGED table /\ worker' = worker
        /\ server' \in {"down", "serving", "stopping"}
    BY <1>8 DEF Stop, Stopped, vars, table, Inv, WorkerTypeOK
  <2>2. TableInv' /\ KeepsAnswers(job, job') /\ job' = job /\ created' = created
    BY <1>4, <2>1
  <2>3. WorkerTypeOK' /\ FreeHands' /\ BusyHold' /\ NoSharedJob'
    BY <2>1, <2>2 DEF Inv, WorkerTypeOK, FreeHands, BusyHold, NoSharedJob, Holds, Busy
  <2> QED BY <2>2, <2>3 DEF Inv
<1> QED
  BY <1>1, <1>2, <1>3, <1>5, <1>6, <1>7, <1>8
  DEF Next, Work, Users, Interruption, Error

-----------------------------------------------------------------------------
(* The theorems about the pool.                                            *)

LEMMA InvImplies == Inv => /\ TypeOK /\ OneActivePerRequest /\ TableIsBounded
                           /\ HeldIsRunning /\ OneRunnerPerRequest
<1> SUFFICES ASSUME Inv PROVE /\ TypeOK /\ OneActivePerRequest /\ TableIsBounded
                              /\ HeldIsRunning /\ OneRunnerPerRequest
  OBVIOUS
<1>1. TypeOK /\ OneActivePerRequest /\ TableIsBounded
  BY DEF Inv, TableInv, TypeOK, WorkerTypeOK
<1>2. HeldIsRunning
  BY WorkerType DEF HeldIsRunning, Busy
<1>3. OneRunnerPerRequest
  <2> SUFFICES ASSUME NEW v \in Busy, NEW w \in Busy, v # w,
                      worker[v].request.kind \in MlKinds,
                      worker[v].request = worker[w].request,
                      job[worker[v].job].state # "none", job[worker[w].job].state # "none"
               PROVE  FALSE
    BY DEF OneRunnerPerRequest, Inv, NoSharedJob
  <2>1. /\ worker[v].job \in ActiveMl(job) /\ worker[w].job \in ActiveMl(job)
        /\ job[worker[v].job].request = job[worker[w].job].request
    BY WorkerType DEF Inv, BusyHold, Holds, ActiveMl, Active, ActiveStates, Busy
  <2> QED BY <2>1, <1>1 DEF OneActivePerRequest, Inv, NoSharedJob
<1> QED BY <1>1, <1>2, <1>3

LEMMA Invariance == Spec => []Inv
<1>1. Init => Inv
  BY InitInv
<1>2. Inv /\ [Next]_vars => Inv'
  BY StepKeeps
<1> QED BY <1>1, <1>2, PTL DEF Spec

(* Every state of the queue and of its workers has its type. *)
THEOREM TypeCorrect == Spec => []TypeOK
BY Invariance, InvImplies, PTL

(* At most one queued or running job stands for an ML request: the unique  *)
(* index of migration 0003 can never refuse a transaction of the queue.    *)
THEOREM ActiveIsUnique == Spec => []OneActivePerRequest
BY Invariance, InvImplies, PTL

(* The table never outgrows the limits of admission and pruning together.  *)
THEOREM Bounded == Spec => []TableIsBounded
BY Invariance, InvImplies, PTL

(* A job in a worker's hands stays running until that worker reports.      *)
THEOREM HeldStaysRunning == Spec => []HeldIsRunning
BY Invariance, InvImplies, PTL

(* No two workers have the same job or analyse the same asset.             *)
THEOREM RunnersAreAlone == Spec => []OneRunnerPerRequest
BY Invariance, InvImplies, PTL

(* Accepted cancels and given answers are never revised.                   *)
THEOREM AnswersAreFinal == Spec => CancelIsFinal
<1>1. Inv /\ [Next]_vars => KeepsAnswers(job, job')
  BY StepKeeps
<1>2. Inv /\ [Next]_vars => [KeepsAnswers(job, job')]_table
  BY <1>1
<1>3. CancelIsFinal <=> [][KeepsAnswers(job, job')]_table
  BY DEF CancelIsFinal, KeepsAnswers
<1> QED BY <1>2, <1>3, Invariance, PTL DEF Spec

-----------------------------------------------------------------------------
(* The inductive invariant of the vault's tasks.                           *)

SessionTypeOK ==
  /\ up \in BOOLEAN
  /\ session \in 0 .. MaxGenerations
  /\ issued \in 0 .. MaxGenerations
  /\ request \in Request
  /\ task \in [Generations -> Task]

\* A task holds a job from its claim to its report.
FreeTasks ==
  \A g \in Generations :
    task[g].step \in {"none", "looping", "claiming", "leaving"} <=> task[g].job = NoJob

\* What the task of g holds was enqueued, and is running or gone; it is a job
\* of the vault, and the cancel of a task that abandons it is recorded.
TaskHolds(g) ==
  /\ task[g].job \in 1 .. created
  /\ job[task[g].job].state \in {"running", "none"}
  /\ job[task[g].job].state = "running" => job[task[g].job].request.kind \in VaultKinds
  /\ task[g].step = "abandoned" /\ job[task[g].job].state = "running" =>
       job[task[g].job].cancelRequested

TasksHold == \A g \in BusyTasks : TaskHolds(g)

NoJobOfTwoTasks == \A g, h \in BusyTasks : g # h => task[g].job # task[h].job

VaultInv == TableInv /\ SessionTypeOK /\ FreeTasks /\ TasksHold /\ NoJobOfTwoTasks

\* Once a task has cancelled its own job, it ends it as cancelled.
KeepsAbandoned ==
  \A g \in Generations :
    task[g].step = "abandoned" /\ task'[g].step = "looping" =>
      job'[task[g].job].state \in {"cancelled", "none"}

LEMMA NothingTypes == NoRequestNow \in Request /\ NoTask \in Task
<1>1. 0 \in 0 .. MaxGenerations
  BY GenerationsAssumption
<1>2. NoRequestNow \in Request
  BY <1>1 DEF Request, NoRequestNow, RequestSteps
<1>3. NoTask \in Task
  BY DEF Task, NoTask, TaskSteps
<1> QED BY <1>2, <1>3

LEMMA VaultInitInv == VaultInit => VaultInv
<1> SUFFICES ASSUME VaultInit PROVE VaultInv
  OBVIOUS
<1>1. TableInv
  BY InitialTable DEF VaultInit
<1>2. SessionTypeOK
  <2>1. session \in 0 .. MaxGenerations /\ issued \in 0 .. MaxGenerations
    BY GenerationsAssumption DEF VaultInit
  <2>2. up \in BOOLEAN /\ request \in Request /\ task \in [Generations -> Task]
    BY NothingTypes DEF VaultInit
  <2> QED BY <2>1, <2>2 DEF SessionTypeOK
<1>3. \A g \in Generations : task[g].job = NoJob /\ task[g].step = "none"
  BY DEF VaultInit, NoTask
<1>4. FreeTasks /\ TasksHold /\ NoJobOfTwoTasks
  BY <1>3 DEF FreeTasks, TasksHold, NoJobOfTwoTasks, BusyTasks
<1> QED BY <1>1, <1>2, <1>4 DEF VaultInv

LEMMA TaskType ==
  ASSUME VaultInv, NEW g \in Generations
  PROVE  /\ task[g] \in Task
         /\ g \in BusyTasks => /\ task[g].job \in Ids
                          /\ job[task[g].job].state \in {"running", "none"}
         /\ task[g].step \notin {"none", "looping", "claiming", "leaving"} => g \in BusyTasks
BY TableAssumption
DEF VaultInv, SessionTypeOK, TasksHold, TaskHolds, FreeTasks, BusyTasks, TableInv, TableTypeOK, Ids

\* A step of the table, or of the session, that leaves the tasks' steps alone,
\* except that a task without a job may move or end.
LEMMA OthersStep ==
  ASSUME VaultInv, TableInv', SessionTypeOK', FreeTasks',
         \A g \in Generations : /\ task'[g].job = task[g].job
                                /\ g \in BusyTasks => task'[g].step = task[g].step,
         created' \in {created, created + 1},
         KeepsRunning(job, job', 1 .. created), KeepsAnswers(job, job')
  PROVE  VaultInv'
<1>1. BusyTasks' = BusyTasks /\ BusyTasks \in SUBSET Generations
  BY DEF BusyTasks
<1>2. NoJobOfTwoTasks'
  BY <1>1 DEF VaultInv, NoJobOfTwoTasks
<1>3. created \in Nat
  BY TableAssumption DEF VaultInv, TableInv, TableTypeOK
<1>4. TasksHold'
  <2> SUFFICES ASSUME NEW g \in BusyTasks PROVE TaskHolds(g)'
    BY <1>1 DEF TasksHold
  <2>1. /\ g \in Generations /\ task'[g].job = task[g].job
        /\ task'[g].step = task[g].step /\ TaskHolds(g) /\ task[g].job \in Ids
    BY <1>1, TaskType DEF VaultInv, TasksHold
  <2>2. task[g].job \in 1 .. created'
    BY <1>3, <2>1 DEF TaskHolds
  <2>3. /\ job'[task[g].job].state \in {"running", "none"}
        /\ job'[task[g].job].state = "running" =>
             job'[task[g].job].request.kind \in VaultKinds
    BY <2>1 DEF TaskHolds, KeepsRunning
  <2>4. task[g].step = "abandoned" /\ job'[task[g].job].state = "running" =>
          job'[task[g].job].cancelRequested
    BY <2>1 DEF TaskHolds, KeepsRunning, KeepsAnswers
  <2> QED BY <2>1, <2>2, <2>3, <2>4 DEF TaskHolds
<1> QED BY <1>2, <1>4 DEF VaultInv

\* The task of g moves on within its job, or before it.
LEMMA GoStep ==
  ASSUME VaultInv, NEW g \in Generations, NEW step \in TaskSteps \ {"abandoned"},
         GoTask(g, step), UNCHANGED <<table, Rest>>,
         step \in {"none", "looping", "claiming", "leaving"} <=> task[g].job = NoJob
  PROVE  VaultInv'
<1>1. TableInv' /\ job' = job /\ created' = created
  BY StillTable DEF VaultInv, table
<1>2. \A h \in Generations : /\ task'[h].job = task[h].job
                             /\ task'[h].step = IF h = g THEN step ELSE task[h].step
  BY DEF GoTask, VaultInv, SessionTypeOK, Task
<1>3. SessionTypeOK'
  BY DEF GoTask, VaultInv, SessionTypeOK, Task, Rest
<1>4. FreeTasks' /\ BusyTasks' = BusyTasks
  BY <1>2 DEF FreeTasks, BusyTasks, VaultInv
<1>5. TasksHold' /\ NoJobOfTwoTasks'
  BY <1>1, <1>2, <1>4 DEF TasksHold, NoJobOfTwoTasks, TaskHolds, VaultInv, BusyTasks
<1> QED BY <1>1, <1>3, <1>4, <1>5 DEF VaultInv

\* The task of g has put down its job, and the others' jobs run on.
LEMMA TaskPutsDown ==
  ASSUME VaultInv, TableInv', NEW g \in Generations, NEW rest \in Task,
         rest.job = NoJob, rest.step \in {"none", "looping", "claiming", "leaving"},
         task' = [task EXCEPT ![g] = rest], UNCHANGED <<created, Rest>>,
         KeepsRunning(job, job', Ids \ {task[g].job}), KeepsAnswers(job, job')
  PROVE  VaultInv'
<1>1. task'[g] = rest /\ \A h \in Generations \ {g} : task'[h] = task[h]
  BY DEF VaultInv, SessionTypeOK
<1>2. SessionTypeOK'
  BY DEF VaultInv, SessionTypeOK, Rest
<1>3. FreeTasks'
  BY <1>1 DEF VaultInv, FreeTasks
<1>4. \A h \in BusyTasks' : h \in BusyTasks /\ h # g /\ task'[h] = task[h]
  BY <1>1 DEF BusyTasks
<1>5. NoJobOfTwoTasks'
  BY <1>4 DEF VaultInv, NoJobOfTwoTasks
<1>6. TasksHold'
  <2> SUFFICES ASSUME NEW h \in BusyTasks' PROVE TaskHolds(h)'
    BY DEF TasksHold
  <2>1. h \in BusyTasks /\ h # g /\ task'[h] = task[h] /\ TaskHolds(h)
    BY <1>4 DEF VaultInv, TasksHold
  <2>2. task[h].job \in Ids \ {task[g].job}
    BY <2>1, TaskType DEF VaultInv, NoJobOfTwoTasks, BusyTasks
  <2> QED BY <2>1, <2>2 DEF TaskHolds, KeepsRunning, KeepsAnswers
<1> QED BY <1>2, <1>3, <1>5, <1>6 DEF VaultInv

LEMMA TaskClaimsInv ==
  ASSUME VaultInv, NEW g \in Generations, TaskClaims(g)
  PROVE  VaultInv'
<1>1. PICK j \in Ids :
        /\ Claim(VaultKinds, j)
        /\ task' = [task EXCEPT ![g] = [step |-> "claimed", job |-> j]]
  BY DEF TaskClaims
<1>2. /\ TableInv' /\ KeepsRunning(job, job', Ids) /\ KeepsAnswers(job, job')
      /\ job[j].state = "queued" /\ job'[j].state = "running"
      /\ job'[j].request.kind \in VaultKinds
      /\ created' = created
  BY <1>1, ClaimKeeps DEF VaultInv, Claim, Claimable
<1>3. j \in 1 .. created
  BY <1>2, TableAssumption DEF VaultInv, TableInv, TableTypeOK, Unborn, Ids
<1>4. SessionTypeOK'
  BY <1>1 DEF VaultInv, SessionTypeOK, Task, TaskSteps, TaskClaims, Rest
<1>5. /\ task'[g].job = j /\ task'[g].step = "claimed"
      /\ \A h \in Generations \ {g} : task'[h] = task[h]
  BY <1>1 DEF VaultInv, SessionTypeOK
<1>6. FreeTasks'
  BY <1>5, TableAssumption DEF VaultInv, FreeTasks, NoJob, Ids
<1>7. \A h \in BusyTasks' : h # g => h \in BusyTasks /\ task'[h] = task[h]
  BY <1>5 DEF BusyTasks
<1>8. TasksHold'
  <2> SUFFICES ASSUME NEW h \in BusyTasks' PROVE TaskHolds(h)'
    BY DEF TasksHold
  <2>1. CASE h = g
    BY <1>2, <1>3, <1>5, <2>1 DEF TaskHolds
  <2>2. CASE h # g
    <3>1. h \in BusyTasks /\ task'[h] = task[h] /\ TaskHolds(h) /\ task[h].job \in Ids
      BY <1>7, <2>2, TaskType DEF VaultInv, TasksHold, BusyTasks
    <3> QED BY <1>2, <3>1 DEF TaskHolds, KeepsRunning, KeepsAnswers
  <2> QED BY <2>1, <2>2
<1>9. NoJobOfTwoTasks'
  <2>1. \A h \in BusyTasks' : h # g => task'[h].job # j
    BY <1>2, <1>7, TaskType DEF BusyTasks
  <2> QED BY <1>5, <1>7, <2>1 DEF VaultInv, NoJobOfTwoTasks
<1> QED BY <1>2, <1>4, <1>6, <1>8, <1>9 DEF VaultInv

-----------------------------------------------------------------------------
(* Every step keeps the invariant, and ends an abandoned run as cancelled. *)

\* The steps of the process, of the session and of the POST.
LEMMA SessionStep ==
  ASSUME VaultInv, UNCHANGED table, SessionTypeOK',
         \A g \in Generations :
           \/ task'[g] = task[g]
           \/ /\ task[g].job = NoJob /\ task'[g].job = NoJob
              /\ task'[g].step \in {"none", "looping", "claiming", "leaving"}
  PROVE  VaultInv' /\ KeepsAbandoned
<1>1. TableInv' /\ KeepsAnswers(job, job') /\ KeepsRunning(job, job', Ids) /\ created' = created
  BY StillTable DEF VaultInv, table
<1>2. KeepsRunning(job, job', 1 .. created)
  BY <1>1, TableAssumption DEF KeepsRunning, VaultInv, TableInv, TableTypeOK, Ids
<1>3. FreeTasks'
  BY DEF VaultInv, FreeTasks
<1>4. \A g \in Generations : /\ task'[g].job = task[g].job
                             /\ g \in BusyTasks => task'[g].step = task[g].step
  BY DEF BusyTasks
<1>5. KeepsAbandoned
  BY DEF KeepsAbandoned, VaultInv, FreeTasks
<1> QED BY <1>1, <1>2, <1>3, <1>4, <1>5, OthersStep

\* A transaction of the POST or of an export.
LEMMA VaultTableStep ==
  ASSUME VaultInv, TableInv', SessionTypeOK', task' = task,
         created' \in {created, created + 1},
         KeepsRunning(job, job', 1 .. created), KeepsAnswers(job, job')
  PROVE  VaultInv' /\ KeepsAbandoned
<1>1. FreeTasks' /\ KeepsAbandoned
  BY DEF VaultInv, FreeTasks, KeepsAbandoned
<1> QED BY <1>1, OthersStep

LEMMA EnqueueOneKeeps ==
  ASSUME VaultInv, NEW r \in Requests, NEW next \in Request, EnqueueOne(r, next)
  PROVE  VaultInv' /\ KeepsAbandoned
<1>1. /\ TableInv' /\ KeepsAnswers(job, job') /\ KeepsRunning(job, job', 1 .. created)
      /\ created' \in {created, created + 1}
  BY EnqueueKeeps DEF EnqueueOne, VaultInv
<1>2. task' = task /\ SessionTypeOK'
  BY NothingTypes DEF EnqueueOne, VaultInv, SessionTypeOK
<1> QED BY <1>1, <1>2, VaultTableStep

LEMMA TaskStepKeeps ==
  ASSUME VaultInv, NEW g \in Generations, TaskStep(g) \/ Break(g)
  PROVE  VaultInv' /\ KeepsAbandoned
<1> USE DEF TaskSteps
<1>1. \A h \in Generations : task[h] \in Task
  BY TaskType
<1>2. ASSUME NEW step \in TaskSteps, GoTask(g, step) PROVE KeepsAbandoned \/ task[g].step = "abandoned"
  BY <1>1, <1>2 DEF GoTask, KeepsAbandoned, VaultInv, SessionTypeOK, Task
<1>3. ASSUME NEW rest \in Task, task' = [task EXCEPT ![g] = rest],
             task[g].step # "abandoned" \/ rest.step # "looping"
      PROVE  KeepsAbandoned
  BY <1>3 DEF KeepsAbandoned, VaultInv, SessionTypeOK
<1>4. ASSUME UNCHANGED table
      PROVE  /\ TableInv' /\ KeepsAnswers(job, job') /\ KeepsRunning(job, job', Ids)
             /\ KeepsRunning(job, job', Ids \ {task[g].job})
  BY <1>4, StillTable DEF VaultInv, KeepsRunning
<1> DEFINE left == [step |-> "leaving", job |-> NoJob]
           back == [step |-> "looping", job |-> NoJob]
<1>5. left \in Task /\ back \in Task
  BY DEF Task
<1>6. ASSUME Leave(g), UNCHANGED <<table, Rest>> PROVE VaultInv' /\ KeepsAbandoned
  <2>1. created' = created
    BY <1>6 DEF table
  <2> QED BY <1>3, <1>4, <1>5, <1>6, <2>1, TaskPutsDown DEF Leave
<1>7. CASE Loop(g)
  BY <1>2, <1>6, <1>7, GoStep DEF Loop, VaultInv, FreeTasks
<1>8. CASE TaskClaims(g)
  <2>1. KeepsAbandoned
    BY <1>8 DEF TaskClaims, KeepsAbandoned, VaultInv, SessionTypeOK
  <2> QED BY <1>8, <2>1, TaskClaimsInv
<1>9. CASE TaskFindsNothing(g)
  BY <1>2, <1>9, GoStep DEF TaskFindsNothing, VaultInv, FreeTasks
<1>10. CASE BeginJob(g)
  BY <1>2, <1>10, GoStep DEF BeginJob, VaultInv, FreeTasks
<1>11. CASE TaskHandled(g)
  BY <1>2, <1>11, GoStep DEF TaskHandled, VaultInv, FreeTasks
<1>12. CASE TaskReports(g)
  <2>1. /\ task[g].step \in TerminalStates /\ task[g].step # "abandoned"
        /\ task[g].job \in Ids
    BY <1>12, TaskType DEF TaskReports, TerminalStates
  <2>2. /\ TableInv' /\ KeepsAnswers(job, job') /\ created' = created
        /\ KeepsRunning(job, job', Ids \ {task[g].job})
    BY <1>12, <2>1, FinishKeeps DEF TaskReports, VaultInv
  <2> QED BY <1>3, <1>5, <1>12, <2>1, <2>2, TaskPutsDown DEF TaskReports
<1>13. CASE CancelOwn(g)
  <2> DEFINE j == task[g].job
  <2>1. /\ task[g].step = "abandoning" /\ g \in BusyTasks /\ j \in Ids
        /\ job[j].state \in {"running", "none"} /\ Cancel(j)
        /\ GoTask(g, "abandoned") /\ UNCHANGED Rest
    BY <1>13, TaskType DEF CancelOwn
  <2>2. /\ TableInv' /\ KeepsAnswers(job, job') /\ created' = created
        /\ KeepsRunning(job, job', Ids)
    BY <2>1, CancelKeeps DEF VaultInv
  <2>3. /\ job'[j].state \in {"running", "none"}
        /\ job'[j].state = "running" => job'[j].cancelRequested
    BY <2>1, <2>2, CancelMarks DEF VaultInv, KeepsRunning
  <2>4. \A h \in Generations : /\ task'[h].job = task[h].job
                               /\ task'[h].step = IF h = g THEN "abandoned" ELSE task[h].step
    BY <2>1 DEF GoTask, VaultInv, SessionTypeOK, Task
  <2>5. SessionTypeOK'
    BY <2>1 DEF GoTask, VaultInv, SessionTypeOK, Task, Rest
  <2>6. FreeTasks' /\ BusyTasks' = BusyTasks /\ KeepsAbandoned
    BY <2>1, <2>4 DEF VaultInv, FreeTasks, BusyTasks, KeepsAbandoned
  <2>7. NoJobOfTwoTasks'
    BY <2>4, <2>6 DEF VaultInv, NoJobOfTwoTasks, BusyTasks
  <2>8. TasksHold'
    <3> SUFFICES ASSUME NEW h \in BusyTasks PROVE TaskHolds(h)'
      BY <2>6 DEF TasksHold
    <3>1. h \in Generations /\ TaskHolds(h) /\ task[h].job \in Ids
      BY TaskType DEF VaultInv, TasksHold, BusyTasks
    <3>2. CASE h = g
      BY <2>2, <2>3, <2>4, <3>1, <3>2 DEF TaskHolds, KeepsRunning
    <3>3. CASE h # g
      BY <2>2, <2>4, <3>1, <3>3 DEF TaskHolds, KeepsRunning, KeepsAnswers
    <3> QED BY <3>2, <3>3
  <2> QED BY <2>2, <2>5, <2>6, <2>7, <2>8 DEF VaultInv
<1>14. CASE CompleteOwn(g)
  <2> DEFINE j == task[g].job
  <2>1. /\ task[g].step = "abandoned" /\ g \in BusyTasks /\ j \in Ids
        /\ Finish(j, "done") /\ "done" \in TerminalStates
        /\ task' = [task EXCEPT ![g] = back] /\ UNCHANGED Rest
    BY <1>14, TaskType DEF CompleteOwn, TerminalStates
  <2>2. /\ TableInv' /\ KeepsAnswers(job, job') /\ created' = created
        /\ KeepsRunning(job, job', Ids \ {j})
    BY <2>1, FinishKeeps DEF VaultInv
  <2>3. job'[j].state \in {"cancelled", "none"}
    <3>1. TaskHolds(g)
      BY <2>1 DEF VaultInv, TasksHold
    <3>2. CASE job[j].state = "running"
      BY <2>1, <2>2, <3>1, <3>2, FinishEnds DEF TaskHolds, KeepsAnswers, VaultInv
    <3>3. CASE job[j].state = "none"
      BY <2>1, <3>3, FinishEnds DEF VaultInv
    <3> QED BY <3>1, <3>2, <3>3 DEF TaskHolds
  <2>4. KeepsAbandoned
    BY <2>1, <2>3 DEF KeepsAbandoned, VaultInv, SessionTypeOK
  <2> QED BY <1>5, <2>1, <2>2, <2>4, TaskPutsDown
<1>15. CASE Deregister(g)
  <2>1. /\ UNCHANGED table /\ created' = created /\ UNCHANGED Rest
        /\ task' = [task EXCEPT ![g] = NoTask] /\ NoTask.step = "none" /\ NoTask.job = NoJob
    BY <1>15 DEF Deregister, table, NoTask
  <2> QED BY <1>3, <1>4, <2>1, NothingTypes, TaskPutsDown
<1>16. CASE Break(g)
  BY <1>6, <1>16 DEF Break
<1> QED
  BY <1>7, <1>8, <1>9, <1>10, <1>11, <1>12, <1>13, <1>14, <1>15, <1>16 DEF TaskStep

LEMMA VaultStepKeeps ==
  ASSUME VaultInv, [VaultNext]_vaultVars
  PROVE  VaultInv' /\ KeepsAbandoned
<1>1. CASE StartServer \/ Unlock \/ Lock \/ UNCHANGED vaultVars
  <2>1. UNCHANGED table /\ task' = task
    BY <1>1 DEF StartServer, Unlock, Lock, vaultVars, table
  <2>2. SessionTypeOK'
    <3>1. session' \in 0 .. MaxGenerations /\ issued' \in 0 .. MaxGenerations
      BY <1>1, GenerationsAssumption DEF StartServer, Unlock, Lock, vaultVars, VaultInv, SessionTypeOK
    <3>2. up' \in BOOLEAN
      BY <1>1 DEF StartServer, Unlock, Lock, vaultVars, VaultInv, SessionTypeOK
    <3>3. request' \in Request /\ task' \in [Generations -> Task]
      BY <1>1 DEF StartServer, Unlock, Lock, vaultVars, VaultInv, SessionTypeOK
    <3> QED BY <3>1, <3>2, <3>3 DEF SessionTypeOK
  <2> QED BY <2>1, <2>2, SessionStep
<1>2. CASE BeginAnalyse
  <2>1. UNCHANGED table /\ task' = task
    BY <1>2 DEF BeginAnalyse, table
  <2>2. request' \in Request
    BY <1>2 DEF BeginAnalyse, Request, RequestSteps, Unqueued, VaultInv, SessionTypeOK
  <2>3. SessionTypeOK'
    BY <1>2, <2>2 DEF BeginAnalyse, VaultInv, SessionTypeOK
  <2> QED BY <2>1, <2>3, SessionStep
<1>3. CASE EnqueueAnalyse
  <2>1. PICK a \in request.todo : EnqueueOne(Analyse(a), [request EXCEPT !.todo = @ \ {a}])
    BY <1>3 DEF EnqueueAnalyse
  <2>2. request \in Request
    BY DEF VaultInv, SessionTypeOK
  <2>3. a \in Assets /\ [request EXCEPT !.todo = @ \ {a}] \in Request
    BY <2>2 DEF Request
  <2>4. Analyse(a) \in Requests
    BY <2>3 DEF Analyse, Requests, Kinds, MlKinds
  <2> QED BY <2>1, <2>3, <2>4, EnqueueOneKeeps
<1>4. CASE EnqueueRecluster
  <2>1. request \in Request
    BY DEF VaultInv, SessionTypeOK
  <2>2. [request EXCEPT !.step = "accepting"] \in Request
    BY <2>1 DEF Request, RequestSteps
  <2>3. Recluster \in Requests
    BY DEF Requests
  <2> QED BY <1>4, <2>2, <2>3, EnqueueOneKeeps DEF EnqueueRecluster
<1>5. CASE Accept
  <2> DEFINE g == request.generation
  <2>1. UNCHANGED table /\ UNCHANGED <<up, session, issued>> /\ request' = NoRequestNow
    BY <1>5 DEF Accept, table
  <2>2. CASE session = g /\ task[g].step = "none"
    <3>1. task' = [task EXCEPT ![g].step = "looping"]
      BY <1>5, <2>2 DEF Accept
    <3>2. \A h \in Generations :
            \/ task'[h] = task[h]
            \/ /\ task[h].job = NoJob /\ task'[h].job = NoJob
               /\ task'[h].step = "looping"
      BY <2>2, <3>1 DEF VaultInv, SessionTypeOK, FreeTasks, Task
    <3>3. task' \in [Generations -> Task]
      BY <3>1 DEF VaultInv, SessionTypeOK, Task, TaskSteps
    <3> QED BY <2>1, <3>2, <3>3, NothingTypes, SessionStep DEF VaultInv, SessionTypeOK
  <2>3. CASE ~(session = g /\ task[g].step = "none")
    <3>1. task' = task
      BY <1>5, <2>3 DEF Accept
    <3> QED BY <2>1, <3>1, NothingTypes, SessionStep DEF VaultInv, SessionTypeOK
  <2> QED BY <2>2, <2>3
<1>6. ASSUME NEW a \in Assets, ExportAsset(a) PROVE VaultInv' /\ KeepsAbandoned
  <2>1. /\ TableInv' /\ KeepsAnswers(job, job') /\ KeepsRunning(job, job', Ids)
        /\ created' = created
    BY <1>6, ForgetAssetKeeps DEF ExportAsset, VaultInv
  <2>2. KeepsRunning(job, job', 1 .. created)
    BY <2>1, TableAssumption DEF KeepsRunning, VaultInv, TableInv, TableTypeOK, Ids
  <2>3. task' = task /\ SessionTypeOK'
    BY <1>6 DEF ExportAsset, VaultInv, SessionTypeOK
  <2> QED BY <2>1, <2>2, <2>3, VaultTableStep
<1>7. ASSUME NEW g \in Generations, TaskStep(g) \/ Break(g) PROVE VaultInv' /\ KeepsAbandoned
  BY <1>7, TaskStepKeeps
<1>8. CASE ServerCrash
  <2>1. TableInv'
    BY <1>8, StillTable DEF ServerCrash, VaultInv
  <2>2. \A g \in Generations : task'[g].job = NoJob /\ task'[g].step = "none"
    BY <1>8 DEF ServerCrash, NoTask
  <2>3. SessionTypeOK'
    <3>1. session' \in 0 .. MaxGenerations /\ issued' \in 0 .. MaxGenerations
      BY <1>8, GenerationsAssumption DEF ServerCrash
    <3>2. up' \in BOOLEAN /\ request' \in Request /\ task' \in [Generations -> Task]
      BY <1>8, NothingTypes DEF ServerCrash
    <3> QED BY <3>1, <3>2 DEF SessionTypeOK
  <2>4. FreeTasks' /\ TasksHold' /\ NoJobOfTwoTasks' /\ KeepsAbandoned
    BY <2>2 DEF FreeTasks, TasksHold, NoJobOfTwoTasks, BusyTasks, KeepsAbandoned
  <2> QED BY <2>1, <2>3, <2>4 DEF VaultInv
<1> QED
  BY <1>1, <1>2, <1>3, <1>4, <1>5, <1>6, <1>7, <1>8 DEF VaultNext, VaultWork, Fault, RequestStep

-----------------------------------------------------------------------------
(* The theorems about the vault's tasks.                                   *)

LEMMA VaultInvImplies == VaultInv => VaultTypeOK /\ OneTaskPerRequest
<1> SUFFICES ASSUME VaultInv PROVE VaultTypeOK /\ OneTaskPerRequest
  OBVIOUS
<1>1. VaultTypeOK
  BY DEF VaultInv, TableInv, SessionTypeOK, VaultTypeOK
<1>2. OneTaskPerRequest
  <2> SUFFICES ASSUME NEW g \in BusyTasks, NEW h \in BusyTasks, g # h,
                      job[task[g].job].request = job[task[h].job].request,
                      job[task[g].job].state # "none", job[task[h].job].state # "none"
               PROVE  FALSE
    BY DEF OneTaskPerRequest, VaultInv, NoJobOfTwoTasks
  <2>1. task[g].job \in ActiveMl(job) /\ task[h].job \in ActiveMl(job)
    BY TaskType
    DEF VaultInv, TasksHold, TaskHolds, BusyTasks, ActiveMl, Active, ActiveStates, VaultKinds, MlKinds
  <2> QED BY <2>1 DEF VaultInv, TableInv, OneActivePerRequest, NoJobOfTwoTasks
<1> QED BY <1>1, <1>2

LEMMA VaultInvariance == VaultSpec => []VaultInv
<1>1. VaultInit => VaultInv
  BY VaultInitInv
<1>2. VaultInv /\ [VaultNext]_vaultVars => VaultInv'
  BY VaultStepKeeps
<1> QED BY <1>1, <1>2, PTL DEF VaultSpec

(* Every state of the vault's queue, sessions and tasks has its type. *)
THEOREM VaultTypeCorrect == VaultSpec => []VaultTypeOK
BY VaultInvariance, VaultInvImplies, PTL

(* The tasks of different sessions never work on the same job or asset. *)
THEOREM TasksAreAlone == VaultSpec => []OneTaskPerRequest
BY VaultInvariance, VaultInvImplies, PTL

(* A run that outlived its session ends as cancelled. *)
THEOREM AbandonedEndsCancelled == VaultSpec => AbandonedIsCancelled
<1>1. VaultInv /\ [VaultNext]_vaultVars => [KeepsAbandoned]_vaultVars
  BY VaultStepKeeps
<1>2. AbandonedIsCancelled <=> [][KeepsAbandoned]_vaultVars
  BY DEF AbandonedIsCancelled, KeepsAbandoned
<1> QED BY <1>1, <1>2, VaultInvariance, PTL DEF VaultSpec
=============================================================================
