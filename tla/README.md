# Illumia: specifications, model checking and proofs

Illumia is a self-hosted image viewer: a Rust server (`crates/illumia-core`,
`crates/illumia-server`) over one SQLite database and a directory of files, an encrypted
vault beside it, a Python inference sidecar, and web, desktop and Android clients. This
directory holds TLA+ modules for the parts of it that keep state and can go wrong in ways a
unit test would hardly reach, TLC configurations that check them on small instances, and
proofs that TLAPS checks for every size.

Paths below are relative to `src/`; `core` is `crates/illumia-core/src`, `server` is
`crates/illumia-server/src`.

## 1. Inventory

What runs concurrently: the HTTP handlers (tokio tasks that call the core on blocking
threads), the workers of the job pool (`core/jobs.rs`), the hourly purge loop
(`server/lib.rs`), the vault's own ML worker threads (`server/api.rs`), and the clients.
Everything in the core goes through `Database::with_connection[_mut]` (`core/db.rs:202-233`):
one process-wide mutex around one connection, and one transaction per operation. So a core
operation is atomic with respect to the others *except* for what it does outside that mutex
(files, decoding, the sidecar) and between its transactions. That is where the actions of the
modules are cut.

| Component | State | Operations | What is hard | What must hold |
|---|---|---|---|---|
| Asset lifecycle (`core/assets.rs`) | rows of `assets` (`lifecycle`, `duplicate_of`, `trashed_at`, `purge_after`, `visible_in_timeline`), files under `library/` | ingest (file, then row), trash, restore with re-parenting | long sequences of upload, trash, re-upload, restore; a crash between file and row | one primary per hash; `duplicate_of` names an original |
| Manga stacks (`core/stacks.rs`) | `manga_stacks`, `stack_chapters`, `stack_pages` | create, add/remove pages, replace structure, page flag, cover, delete | a stored visibility column shared by several stacks; numbering; the cover's foreign key | visibility exact, numbering gapless, cover a page |
| Purge (`core/purge.rs`, `server/lib.rs`) | `purging` tombstones, the list each purging thread works through | resume at startup, hourly `run_due`, `purge_now` | files go before rows; two transactions per row; concurrent purges; crash anywhere; tombstones of old builds | what is needed stays stored (I1-I3, I5); every tombstone is resolved |
| Thumbnails (`core/thumbnails.rs`) | files under `thumbs/`, thumbhash | generate, recheck, store | row purged while the image is decoded | no derived file without a row |
| Job queue and workers (`core/jobs.rs`) | `jobs` rows, worker threads | enqueue, enqueue unique, claim, finish, cancel, recover, prune, shutdown | cancel racing finish, crash of a running job, admission limits, pruning | one runner per job; a cancel that was accepted holds; bounds |
| Vault transfers (`core/vault.rs`, migration 0004) | source journal, destination marker, staging files, rows in two databases | import, export, reconcile | crash between any two steps of a protocol over two databases and a file system | never both or neither copy; converges |
| Vault keys and sessions (`core/vault.rs`, `server/vault.rs`, `server/api.rs`) | keyfile, the one session with its TTL and expiry task, revocation flags, streams with producer and channel | init, change password, unlock, lock, authenticate, read, stream | a request or a stream under way when its session ends; a clock read before the lock is taken; a slow client; two inits | one recovery key, and it opens; one live handle; few late chunks; no short body; idle keys are destroyed |
| ML results (`core/ml.rs`, `core/ml_client.rs`) | `faces`, `clusters`, `cluster_rejections` | analyze, assign, recluster (snapshot, sidecar, apply), covers, review, merge, split, move with an asset | reviews, merges and purges made while the sidecar computes | no automatic step overrides a verdict; a label names an open cluster that was not ruled out |
| ML gate (`server/lib.rs`) | permits | acquire/release | ML jobs occupy every worker while waiting for a permit | permits bounded, no permit lost |
| Authentication (`server/auth.rs`) | password, table `auth_tokens`, cached list of token hashes | setup, login, logout, revoke, verify | the list is changed after the transaction, and read at an arbitrary moment | what was revoked stays refused |
| Sockets and poller (`server/api.rs`, `server/security.rs`, `server/lib.rs`) | permits in all and per token, subscriptions, the poller's flag | connect, verify, receive, send, start and stop the poller | a poller stopping while a socket subscribes; a revocation while an event waits; a refused upgrade | nothing is sent after a revocation; one poller; permits come back |
| Other limits (`server/security.rs`, `server/lib.rs`) | limiter windows, connection permits, health cache | limit, accept | little | - |
| Settings, DB, images, timeline, search (`core/*.rs`) | single values; read-only queries; decode permits | - | little | - |
| Clients (`crates/illumia-desktop`, `apps/android`, `web`) | bucket caches, sessions, upload queue, identity pin | load, evict, upload, reconnect | answers arriving after the view moved on | no stale answer shown |
| ML sidecar (`ml/illumia_ml`) | none (stateless) | analyze, two-threshold clustering | determinism | pinned faces keep their cluster |

## 2. Modules

| Module | Models | Composes |
|---|---|---|
| `AssetLibrary` | assets, stacks, purge and the file effects of thumbnails over one database | refines `ReferenceSafeDeletion` |
| `ReferenceSafeDeletion` | what the library promises about deletion | - |
| `AssetLibraryProofs` | theorems about `AssetLibrary` | extends it |
| `MCAssetLibrary`, `MCPurgeLiveness` | TLC instances of `AssetLibrary` | extend it |
| `JobTable` | the `jobs` table and the transactions of `JobQueue` on it, for both databases | - |
| `JobRunner` | the worker pool over the main database, the ML gate, start, shutdown, crash | extends `JobTable` |
| `VaultMlWorkers` | the jobs of vault.db and the tasks of the unlock sessions that run them | extends `JobTable` |
| `MCJobRunner`, `MCVaultMl` | TLC instances with bounded faults | extend `JobRunner`, `VaultMlWorkers` |
| `VaultTransfer` | import, export and upload between main library and vault, reconciliation at unlock, upload, trash, restore and purge beside them | refines `MoveWithoutLoss` |
| `MoveWithoutLoss` | what moving assets between library and vault promises | - |
| `MCVaultTransfer`, `MCTransferRace` | TLC instances with bounded faults | extend `VaultTransfer` |
| `FaceReview` | faces, clusters and verdicts, and the rows that follow an asset to and from the vault | - |
| `ServerAccess` | device tokens with their cache, WebSockets with their slots, the event poller | - |
| `VaultAccess` | keyfile, unlock session with TTL, guarded requests, streamed bodies | - |
| `MCFaceReview`, `MCServerAccess`, `MCVaultAccess` | TLC instances | extend them |
| `ServerAccessProofs`, `VaultAccessProofs` | theorems about `ServerAccess` and `VaultAccess` | extend them |
| `FaceReviewProofs` | theorems about `FaceReview` | extends it |
| `VaultTransferInvariants` | the inductive invariants behind the theorems about transfers | extends `VaultTransfer` |
| `VaultTransferProofs` | theorems about `VaultTransfer` | extends `MCVaultTransfer`, `VaultTransferInvariants` |
| `VaultMoveProofs` | `VaultTransfer` implements `MoveWithoutLoss`, which loses nothing; crashes in `MCVaultTransfer` | extends `VaultTransferProofs` |
| `JobTableProofs` | what each transaction of `JobTable` preserves | extends `JobTable` |
| `JobWorkersProofs` | theorems about `JobRunner` and `VaultMlWorkers` | extends them and `JobTableProofs` |

### `AssetLibrary`

One action per transaction or per file effect outside a transaction.

- `row[a]` is the row of asset `a` in `assets`, `lifecycle = "none"` where there is none.
  `purge_after` is abstracted to `timer` (`none`, `running`, `expired`) and the clock to the
  action `Expire`; `trashed` is `trashed_at IS NOT NULL`. Names, sizes, dates and thumbhashes
  are left out, no property depends on them.
- `original` and `derived` are the files of the library and of thumbnails; `upload`,
  `rendering` and `purger` are what threads hold in memory and a crash loses.
- `page[s][a]` is the row of `stack_pages` with that primary key (`chapter = 0` for none), so
  the schema's key is built in and its other constraint, `UNIQUE (chapter_id, page_no)`, is a
  property (`StacksAreWellFormed`).
- `WriteUpload`/`CommitUpload`/`FailUpload` are the two halves of `ingest_at`; `Trash`,
  `RestoreDuplicate`, `RestorePrimary` are `trash_at` and the branches of `restore_at`;
  the stack actions are the methods of `StackService`, each with its trailing promotion,
  visibility update and choice of cover.
- A purge is a thread with a list: `RunDue`, `MarkDue` and `PurgeNow` fill the list,
  `CheckTombstone` and `Erase` are the two transactions of `finish_purging`, `EraseFails` an
  I/O error after any prefix of the deletions, `EraseLost` the `AssetNotFound` of a thread that
  lost the race, after which it abandons its list, as `?` does in the loop.
- `Crash` may happen in every state. The next start resumes all tombstones and listens only
  when that is done (`Listening`), as `run` in `server/lib.rs:724-730` orders it.
- `Init` is an empty database, or one inherited from a build that marked tombstones without
  checking references, the state `restore_blocked_legacy_tombstone` exists for.

### `JobTable`

- `job[j]` is the row with the j-th id that was drawn, `state = "none"` where there is none.
  `created_at` and the UUIDv7 ids grow together, so the number of a job is both its id and its
  place in the order of creation. `finished_at` is a rank (`Now` is later than all of them);
  the thirty days of `prune_terminal_jobs` are an arbitrary cutoff at every prune.
- A statement is a function from table to table (`Pruned`, `Finished`, `Cancelled`,
  `Recovered`), a transaction is an action that composes them as the code does: `Enqueue`
  prunes, looks for an active equal job (ML kinds only), checks admission and inserts;
  `Finish` and `Cancel` prune afterwards; `Recover` does not prune.
- The unique indexes of migrations 0003 and 0005 are not part of the model. The transaction
  looks before it inserts, and what the index states is `OneActivePerRequest`: the theorem
  `ActiveIsUnique` shows that the index can never refuse one of these transactions.
- `ForgetAsset` is the `DELETE FROM jobs` by which a transfer takes an asset's jobs along.
  Progress, error texts and start times are left out.

### `JobRunner`

- `worker[w]` is what a thread of the pool holds: its place in `worker_loop`, the job and the
  request it claimed. `Poll`, `ClaimJob`, `CheckCancel`, `AcquireGate`, `HandlerReturns` and
  `Report` are the separate transactions and waits of one turn of the loop; everything else
  may happen between them. The gate has no variable: its permits are the workers that are
  `handling` an ML job.
- `CheckCancelFails` and `ReportFails` are the failing transactions that the code swallows
  (`unwrap_or(true)` and `let _ =`).
- `server` follows `JobRunner::start` (recover, then spawn) and `shutdown` (flag, then join).
  Requests are possible until the process is gone. `Crash` leaves only the table.

### `VaultMlWorkers`

- `session` is the generation of the active unlock session, `request` the POST that enqueues
  analyses (one at a time; its transactions interleave with everything else), `task[g]` the
  task of generation `g`, registered in `vault_ml_workers` while its step is not `none`.
- A task checks its session at the head of its loop, after its claim and after its handler.
  `CancelOwn` and `CompleteOwn` are the two transactions by which it abandons a job, `Break`
  is a panic or a failing transaction (`?`).
- Locking, expiry and replacement of a session are not told apart: `Lock` is any end of it.
  The gate shared with the main workers only delays a task and is left out.

### `VaultTransfer`

- `row["main"]` and `row["vault"]` are the `assets` tables of the two databases, `plain` the
  files under `library/`, `blobs` and `staged` the files under `vault/blobs` and
  `vault/transfer_staging/<id>`, `blobRow` the table `vault_blobs`. An asset's original stands
  for all its files; the preview and the thumbnail are written, moved and removed beside it.
- `transfer[t]` is the t-th transfer id that was drawn. `state` is its journal in the source
  database, `marker` its row in the destination database. The two databases are separate
  connections, so each access is an action of its own; the ids' order is that of `created_at`.
- `request[r]` is a thread that serves an unlock, an import, an export or an upload. Its steps
  are cut at every transaction and every file operation of `import_assets_inner`,
  `stage_vault_import`, `stage_main_export`, `write_vault_blob_to_new_file` and the two
  `complete_*_transfer`: `Prepare`, `Open`, `StageBlob` or `CreatePlain`/`WritePlain`, `Commit`,
  `Validate`, `Ready`, `Lease`, `DeleteFile`, `Drop`, `Unmark`, `Close`, `Clear`.
- Reconciliation (`List`, `TakeNext`, `NextList`) works through a snapshot of journals with the
  states they had, completes those with a marker and takes the others back (`UndoImport`,
  `RollbackLook`/`Unlink`). An unlock runs it under a handle of its own, after the direct uploads
  and the sweep of orphaned staging directories, and issues a session last.
- `live` is whether the request's handle still has its key; `Lock` and `Issue` revoke it.
- `MoveWithoutLoss` knows neither journals nor threads: where each item is, which bytes are
  whole, and the phase of each move. `Located` maps a tombstone to "condemned", `Stored` has the
  files and the blobs that a row names (a staged one while its marker protects it), and `PhaseOf`
  reads a move's phase from journal and marker: "copying" until the commit sets the marker,
  "checked" while a thread that validated the destination is between `Ready` and the end of the
  source rows, "removed" from there to the end of the marker, "over" without a journal. A crash
  turns "checked" into "arrived", and the move has to look again. Staging, lists, leases of
  threads and failing steps show as nothing.
- `Upload`, `Trash`, `Restore`, `MarkPurging`, `PurgeFree`, `RestoreBlocked` are the handlers
  that write rows of assets meanwhile, each as one action: `AssetLibrary` has them in detail.
  The startup and the tick of the purge loop take leased rows for tombstones, so they appear
  here at any moment. `Trash` and `Restore` run over vault.db as well (`VaultTrash`,
  `Restores`): the API calls the same code with the vault's database. `Restore` gives an
  original back its place: the copy uploaded meanwhile, and what referred to that copy, become
  duplicates of it, whether a journal names them or not (`assets.rs:259-283` looks at no
  journal; `ingest_at` does, `assets.rs:132-135`).
- `Drop` re-parents what still refers to a row that goes (`Heirs`, `Reparented`) and fails where
  the heir would be a second primary. In `MoveWithoutLoss.Remove` the library may therefore take
  back an item that it was about to delete.
- Left out are the edits of stacks beside a transfer (`Paged` is a constant) and `purge_now` over
  vault.db. The latter erases one asset of the vault for good, row, blob and the file that its
  row names, because the user asks for it; no loop purges there, so its tombstones after a crash
  wait for the next call. Beside an export it would remove the file that the export has just
  written; none of the properties is claimed for it.
- `Crash` ends every request; `Stumble` is a failing statement or file operation, after which
  the code takes back what it staged, or stops where it is.

### `FaceReview`

- `asset[d]`, `face[d]`, `cluster[d]`, `rejected[d]` are the tables of the library and of the
  vault. A face keeps its asset, model, cluster and `cluster_state`, and the analysis that found
  it. Embeddings and boxes are left out: which medoid is nearest is the sidecar's choice, so
  `Replies` is everything `validate_cluster_response` lets through.
- `thread[t]` is what a job, a request or a transfer holds between its transactions: faces it
  read or inserted, the clusters it offered, the plan it received, the relations it collected.
  `StartAnalyze`, `Persist`, `AskAssign`, `Assign` are an analysis; `StartRecluster`,
  `OpenClusters`, `ApplyGroups` a recluster; `ReadCover` and `WriteCover` are
  `refresh_cluster_cover`, which reads in two connections and writes in a third. `GiveUp` is a
  cancellation or an error of the sidecar.
- `MergeClusters`, `SplitCluster`, `Accept`, `Reject` are the user's requests, `Collect`,
  `CommitMove`, `LeaseMove`, `DeleteMoved` what a transfer does to these tables (its journals
  and files are in `VaultTransfer`), `Purge` the cascade of a purged asset
  (one that is not at the same time the leased source of a transfer).

### `ServerAccess`

- `devices` is the table `auth_tokens`, `known` the cached list (`loaded` once it was read).
  Each request is a transaction and a change of the list after it: `CommitSetup` or `Login` and
  `Remember`, `Revoke` and `Forget`. `held` and `revoked` record what clients were answered.
- `socket[k]` follows one connection from `require_websocket_auth` through
  `try_websocket_slot` (`TakePermit`, `TakeSlot`), the upgrade and `websocket_loop` to the drop
  of its permit. `inbox[k]` is the newest event of its receiver; `late` marks an event sent
  after the revocation of the socket's token was answered.
- `started` is `job_poller_started`; `poller[p]` a task of `ensure_job_event_poller`, cut at
  its look at the receivers, its store, its second look and its compare-exchange.
- Events are not told apart; which jobs a poller reports is left out.

### `VaultAccess`

- `keyfile` is the file's state and the master key it wraps: `CreateKeyfile` (`create_new`) and
  `WriteKeyfile` are two steps, and a crash between them leaves a file cut short.
  `ReplaceKeyfile` is the rename of `change_password`.
- `session` and `left` are `SessionManagerInner`, with time relative: `left` is the rest of the
  TTL. A caller that read the clock before it took the lock carries the age of its reading, up
  to `MaxDelay`. `expiry[s]` is the task of `arm_expiry`, whose two looks at the session are
  `Remaining` and `Expire`. `Tick` lets time pass.
- `caller[c]` is what a client's request is at. `Enter` and `Look` are the guards
  (`ensure_active_vault_session`) before and after a guarded operation. They go by the clock at
  the time they have the lock; `generation_active` reads it just before (`vault.rs:142-143` of
  the server), which at most lets a request pass a moment later than here.
- `stream[c]` is a response body with its producer: `CheckChunk` and `ReadChunk` are
  `VaultBlobReader::next`, `Send`, `SendClosed`, `SendTimesOut` are
  `send_vault_chunk_with_deadline`, `Receive`, `Finish`, `Disconnect` the body as it is polled.
- `Restart` ends everything but the keyfile.

Operators named `Name_Slip` are a plausible slip in `Name`. Nothing uses them; they document
which property notices which mistake.

## 3. Runs

| Run | Instance | Shows |
|---|---|---|
| `library` | 3 copies of one image, 1 stack, the purge loop, crashes and errors everywhere | the library implements `ReferenceSafeDeletion`; nothing needed is lost, originals and duplicates are never confused, visibility is exact, no derived file without row, the last copy goes only from the trash |
| `purge_liveness` | 2 settled assets, 1 stack with 2 pages and 2 chapters, loop and API purge, faults that end | numbering; tombstones drain, expired rows are purged |
| `job_runner` | 2 jobs, 2 workers, both limits 2, 1 terminal row kept, 1 stop or crash, 1 failing transaction | one runner per request, answers are final, every job is answered unless its answer was lost, a shutdown ends |
| `vault_ml` | 3 jobs, 2 sessions, 1 fault (crash, panic, failing transaction) | no job or asset in two tasks, abandoned runs end cancelled, old tasks end, queued jobs are served |
| `vault_ml_restart` | 2 jobs, 2 sessions, 1 crash; expected to be violated | a vault job left running is never tried again |
| `vault_transfer` | 2 copies of one image, one request at a time, 2 transfers begun beside any number of unlocks, restores at any moment, 1 fault (crash, end of session, failing operation, purge, trash in the vault) | always a complete copy; a crash leaves what can be completed; nothing outside refers to a leased row; a session means that nothing is left over; transfers implement `MoveWithoutLoss`, and settle unless a restore opened the journal |
| `transfer_race` | 1 asset in the vault, 2 exports, no fault; expected to be violated | two exports of one asset can delete both copies |
| `unlock_race` | 1 asset, an upload beside an unlock, no fault; expected to be violated | an unlock can sweep away the staging of a live upload |
| `face_review` | 2 threads, 2 assets, 1 model, 2 faces, 2 clusters, 1 move between the libraries | labels fit clusters and rejections, one analysis per model and asset, verdicts stand |
| `server_access` | 2 tokens, 2 request threads, 3 sockets, 2 pollers, limits 2 devices, 2 sockets, 1 per token | the list follows the table, what was revoked stays refused and is sent nothing, permits come back, one poller serves the listeners |
| `vault_access` | 2 clients, 2 sessions, 2 keys, TTL 2, delay 1, 1 stream of 3 chunks, capacity 1 | one recovery key that opens the keyfile, one live handle, few late chunks |
| `vault_streams` | 2 clients, 1 session, 1 key, 2 chunks, fair clocks, tasks and producers | a body without error is whole, producers end, the key of an idle session is destroyed |

Bounds. Three copies of one image are the smallest library in which an original, a
replacement uploaded while it was in the trash, and a duplicate of the replacement exist
together, which is what `restore_at` re-parents; assets with other hashes never interact with
them except on a stack. One stack in `library` makes an asset a page or not, which is all that
deletion and visibility ask of stacks; its structure is exercised in `purge_liveness`, where
pages leave and chapters merge while two purges run. Two stacks that share an asset are beyond
these instances. One loop and one API call are enough for every race over a tombstone: a third
thread can only lose the same race. Symmetry is used in safety runs only: over copies of the
same image, over threads, sockets, pollers, tokens, clients, sessions and keys, which nothing
tells apart.

For the queue, two jobs let a request be enqueued, cancelled and enqueued again while two
workers are in any of their steps, and overflow the terminal rows. The admission limits do not
bind in so small a run; that they hold is the theorem `Bounded`, for every pair of limits. A
third worker or session adds no new kind of overlap, since what a worker holds concerns two at
most, and the theorems cover any number. Locked vaults rest, so `vault_ml` does not check
deadlock; `job_runner` does.

For the transfers, two copies of one image are what `duplicate_of` and the journals' closure
need: an original, and a duplicate that may or may not move with it; and an original in the
trash whose place the other copy took, which a restore turns round again, before or after the
journal. Two transfers let one meet what another left behind, beside any number of unlocks. One
request at a time is a restriction of this run, not of the module: with two, the findings below
end it, and `transfer_race` and `unlock_race` show them on their own. The fault may strike at
every step, also during the reconciliation of an interrupted transfer whose cause was the end of
a session. A deletion to the vault's trash counts as a fault only to bound the states. That a
source row which goes has an heir left needs a third copy: at the lease nothing outside refers to
it, so this happens only to a leased row that `RestoreBlocked` has brought back, and the
theorems cover it. `CrashIsCompletable` is `CommittedIsCompletable` up to the first failing operation or purge,
which can leave markers that nothing completes (`vault.rs:543`, `vault.rs:1015`).
`InterruptedSettles` is waived from there too, and from a restore that makes a row outside a
journal refer to one inside (`opened`, see the divergences below); before this was modelled the
property claimed more than the code does. A
locked vault rests, so deadlock is not checked.

For the faces, two threads are a job and what overtakes it: another job, a review, a merge, a
purge or a transfer. Two faces and two clusters let a face change its cluster, a cluster be
merged away and a plan name a face that has gone. `RowBudget` is 1, a bound of this run: a
request about more than one row is refused, so one plan is about one face, and what two faces
do to each other they do through clusters and rejections. `MinSize` is 1, the smallest group the
setting allows, and larger ones only forbid plans. Jobs and requests run in the main library
alone (`Active`); the vault's tables are reached by moves. Larger requests, jobs in both
libraries and any number of moves are left to the theorems. The ids run out, so the system rests
and deadlock is not checked.

For the sockets, three connections are one more than `MAX_WEBSOCKETS` and let two share a token
whose slots are one; two pollers are the one that gives up and the one that is started
meanwhile. For the vault, a TTL of 2 and a delay of 1 let an older reading of the clock be
overtaken by a newer one. Three chunks with a channel of one are one more than the channel and
the producer's hand hold. One permit refuses the second stream. The theorems cover every size.

Properties of the form "P does not stay true for ever" are written `[]<>~P`, which for these
is the same as `P ~> ~P`.

Fairness. `run_purge_loop` ticks every hour for as long as the process lives and a thread
inside a purge is an ordinary thread, so `RunDue`, `MarkDue` and the steps of a purge are
weakly fair. No user action is. Liveness is checked for runs whose faults end (`FaultsEnd`):
with faults for ever nothing can be promised, and a tombstone whose deletion *always* fails
blocks the loop (`purge.rs:65`).

Worker threads and tasks run, so each `WorkerStep` and `TaskStep` is weakly fair. This
includes the return of a handler: the client of the sidecar has a deadline on its socket and
the other handlers are finite. That a server which is down is started again is an assumption
about its supervisor, which only `JobsAreAnswered` needs (its jobs wait in the table until
then). Weak fairness suffices for the gate because a worker that waits is not overtaken for
ever in a bounded set of jobs. Users are not fair, and neither are errors.

For the transfers, each thread is weakly fair and so is `BeginUnlock`: the user comes back and
unlocks again. Without an unlock the docs promise nothing, and `InterruptedSettles` says what
the unlock achieves. New requests are not fair.

In `VaultAccess` the clock, a thread that waits for the session's lock, the expiry tasks and
the producers are weakly fair: the runtime schedules them, and a send has its own deadline. A
client need not read, hang up or come back, and `ProducersEnd` holds all the same.
`IdleIsRevoked` is about a session that is not used any more from some moment on, and leaves
out the runs in which its task was overtaken (see below).

### Findings

`docs/07_ml_integration.md:144-145` requires that jobs are tried again after timeouts and
restarts. The main database does this in `JobQueue::recover` ("Resets jobs left `running` by a
previous process to the queue", `jobs.rs:269`); for vault.db nothing calls it, and its tasks
claim queued jobs only (`api.rs:1552`). After a crash during a vault job, the job stays
`running` for good, its asset counts as being analysed and is never enqueued again, and for a
recluster job no recluster ever runs again. `vault_ml_restart` shows the steps.

`docs/06_vault.md:96` requires that a source is deleted only after the written destination was
confirmed. Two exports of one asset that begin before either has its journal share the path of
the restored file: `create_new` fails in the second, whose error path removes the file
(`vault.rs:2269`) that the first has validated and for which it deletes the blobs. No copy is
left. `transfer_race` shows the steps, no fault among them.

`docs/06_vault.md:103-106` promises that a transfer with a commit marker is resumed at the next
unlock. `cleanup_orphan_staging` (`vault.rs:578`) removes the staging directory of an upload or
import that is still under way in the session before; the marker is committed afterwards, and no
unlock succeeds any more. `unlock_race` shows the steps.

### Known divergences without a run

The models also contain these behaviours; they are described here, and where a checked property
would be broken by one, the property names it as its exception.

- A duplicate promoted by a stack is said to leave the reach of automatic deletion for good
  (`docs/11_dedup_and_trash.md:22-24`). `restore_at` (`assets.rs:251`) decides by
  `duplicate_of`, which the promotion keeps: after trash and restore the row is a duplicate
  with a purge date again.
- A cluster that moves into the vault with its faces leaves its cover behind: the choice of a
  cover that was read before the move is written after it (`ml.rs:629`, `ml.rs:648`), and the
  plaintext database then names the id of a face that has gone (`docs/06_vault.md:113-115`).
- The expiry task looks at the session twice. A request whose reading of the clock is older
  than the session's end but reaches the lock between the two looks extends the session, and the
  task ends without arming another: nobody revokes the key until somebody asks
  (`server/vault.rs:206-232`, against `docs/06_vault.md:59-64`). `IdleIsRevoked` names this as
  `Overtaken`.
- A device revoked from the list of devices between a login's commit and its answer comes back
  into the cached list when `remember_token_hash` runs last (`auth.rs:356`, against
  `docs/03_api.md:157-159`). It is refused after a restart. `CacheIsCoherent` and
  `RevokedIsRefused` leave it out (`early`).
- A restore between the journal of a transfer and the lease of its rows strands the transfer.
  Upload R, trash it, upload P with the same bytes (P becomes the original), import {R}, which
  may be trashed: nothing refers to R and the journal is written. Restore R now: P becomes a
  duplicate of R (`assets.rs:259-283`), outside the journal. The lease answers
  `IncompleteVaultTransfer` (`vault.rs:1095-1098`), and so does the reconciliation of every
  unlock after it (`vault.rs:945-947`), so that no session is issued until P has gone, by way of
  the trash. `docs/06_vault.md:103-106` promises that a transfer with a marker is resumed. No copy is
  lost and nothing is orphaned: `AlwaysACopy`, `CrashIsCompletable` and `LeasedIsClosed` hold
  through it, and `InterruptedSettles` names it as its exception (`opened`).
- A crash between `create_new` and the write of the keyfile leaves a file that no password
  opens and that keeps `init` from running again (`VaultAccess`, state `cut`).

Hazards that no property covers, because the promise is not met or the file system is not
modelled so finely: a deletion that always fails (`purge.rs:65`), a file written by an upload
that never commits (`assets.rs:121`), an upload during an import of the same bytes
(`assets.rs:126`), an upload's marker left by a failed completion (`vault.rs:543`), a purge of
an exported asset before its source is deleted (`vault.rs:1015`), a plaintext file cut short by
a crash (`vault.rs:2433`), a leased row taken for a legacy tombstone (`purge.rs:190`), a cancel
flag that cannot be read (`jobs.rs:538`), a POST that finds a task which has left its loop
(`api.rs:1513`).

## 4. Proofs

`AssetLibraryProofs` proves, for any finite set of assets and any sets of hashes, stacks and
API calls (`AssetsAssumption`, `PurgersAssumption`, `BoundsAssumption`):

- `TypeCorrect`: `Spec => []TypeOK`. `TypeOK` is inductive by itself. The work is in the
  operators: `Max` of a finite set of page numbers (the element with the fewest above it, since
  the induction theorems of the library are out of reach), renumbering by cardinality, and the
  lexicographic choice of the first page.
- `LibraryImplementsPromise`: `Spec => Promise!Spec`. The strengthening is
  `UploadsOwnTheirFile`: an unfinished upload owns its file and has no row. Without it a
  commit could create a row without a file. Every action maps to one abstract action or to a
  stutter: uploads to `Store`, `Keep` and `Discard`, stack edits and restores to `Refer`,
  marking to `Condemn`, repair to `Reprieve`, a failed erasure to `Unstore`.
- `DeletionIsSafe`: `Promise!Spec => []Promise!Safe`, what the promise is worth, whatever
  implements it: its proof uses nothing of the library.
- `NeededStaysStored`: `Spec => []NeededIsStored`, from these two.
- `TombstonesStayFree`, `DuplicatesStayFlat`, `PrimariesStayUnique` and the action property
  `LastCopiesWereTrashed`: the rows refer to each other as the code relies on. None of the
  invariants is inductive. `RowInv` adds that a referenced tombstone is on the list of the
  resume that runs before the server listens (`CondemnedAreResumed`; that resume restores it),
  that a row's lifecycle agrees with its other columns (`RowsAreMarked`: a purged row is a
  duplicate or was trashed, which is what makes `LastCopyWasTrashed` true), that no upload is
  under way before the server listens (`NothingWrittenYet`), and that the tombstone of a legacy
  database that is neither has its bytes for itself (`StraysAreAlone`: restoring it makes no
  second primary).
- `StacksStayWellFormed`: renumbering gives 1 .. n, and pages go in after the greatest number,
  so that the numbers of a chapter stay an interval; a cover is a page of its stack.
- `VisibilityStaysExact`: every operation recomputes `visible` for every row whose lifecycle
  or pages it changes. `DerivedKeepsRow`: a row only goes with its derived files.

`JobTableProofs` proves a lemma per transaction of the queue, for any number of jobs and
assets and any limits (`TableAssumption`): it keeps the table's invariant, keeps the answers
given, and keeps running what was running. The invariant adds to the checked properties that
ids not yet drawn have no row (`Unborn`), so that an insert disturbs nothing a worker holds.
All transactions but the insert only shrink the set of active jobs (`Shrinks`), which settles
uniqueness and bounds for them at once; the insert needs its own checks, and `PruneBounds`:
a prune leaves at most `MaxTerminal` terminal rows, since all of them but the oldest finished
after the oldest.

`JobWorkersProofs` proves for the pool (any finite one, `RunnerAssumption`) `TypeOK`,
`OneActivePerRequest`, `TableIsBounded`, `HeldIsRunning`, `OneRunnerPerRequest` and the action
property `CancelIsFinal`. The strengthening relates each worker's memory to the table
(`Holds`): what it holds was enqueued and is either gone or running and for the request the
worker remembers. Two workers with the same request would then be two active jobs for it.

For the vault's tasks (any number of sessions, `GenerationsAssumption`) it proves `VaultTypeOK`,
`OneTaskPerRequest` and `AbandonedIsCancelled` in the same way; here `TaskHolds` also says that
the cancel of a task that abandons its job is recorded until the task completes it.

`ServerAccessProofs` (any threads and tokens, finite sets of sockets and pollers, any limits;
`ServerAccessAssumption`) proves `TypeOK` and every property of the run. `SlotInv` counts the
connections by their step, so that each step that moves a connection changes a permit count by
what it changes the set by. `PollInv` adds to `OnePoller` that a served listener leaves the
flag set or a poller about to look (`Awaited`). `TokenInv` says who may have a token in hand
between the transaction and the list (`InHand`), without which the list could be changed for a
token that another thread is revoking; and that a revoked token is in neither. `EventInv`
carries `late` from the event to the socket that holds it.

`VaultAccessProofs` (any clients, sessions and keys, any TTL, delay, number of permits, chunks
and capacity; `VaultAccessAssumption`) proves `TypeOK`, `RecoveryKeyOpens`, `OneLiveHandle`,
`LateIsBounded` and `BodyIsWhole`. `KeyInv` adds that whoever writes the keyfile created it and
is alone, and that whoever changes the password holds the key of the file that is there.
`StreamInv` accounts for every chunk: what was read was given, is in the channel, in the
producer's hand, or the body has been told of a failure (`GoodStream`); and from the end of the
session on, what came late and what is still under way together stay within the capacity and one
chunk (`Due`). The steps of a stream are lemmas about one record, the rest of the system only
lets `revoked` grow.

`FaceReviewProofs` (any threads, assets and models, any budgets and active libraries, as many
faces, clusters and moves as one likes; `FaceReviewAssumption`) proves `TypeOK`, `LabelFits`,
`OneAnalysis` and `VerdictStands`. `Labelled` strengthens `LabelFits`: a rejection has its face
and its cluster, or else a split could open a cluster that a left-over rejection forbids. What a
transfer has collected satisfies the same conditions as a library (`ThreadInv`), as it was when
it was read. For `CommitMove` that is not enough, since the destination may know some of the
faces: `Linked` gives every face one owner, in whatever table or hand its row is, and a library
without the asset then has none of the rows that arrive. Most steps only relabel rows or take
some away (`Kin`), for which one lemma (`Relabels`) does the rest.

`VaultTransferProofs` (any finite sets of requests and assets, any number of transfers;
`TransferAssumption`) proves `TypeOK` for any number of concurrent requests. It is not
inductive: which transfer a thread has in hand, and of which kind, depends on its step
(`ThreadsAreSound`); a transfer keeps its kind and its ids for good (`Begun`), which is why a
thread's old list stays meaningful; and a request that has yet to draw its transfer has room
for it (`RoomToDraw`, by counting). The rows of a commit go in one after another, a fold over
the order of the request: `InsertedSteps` shows that a recursive function for the fold exists
and that what each insertion passes on holds of the whole. That is an induction over one set of
naturals (`UpwardSet`), which the provers can follow; the library's induction theorems, with an
operator as a parameter, they cannot.

`CopyStays`, `LeasedStayClosed`, `UnlockReconciles` and `CrashesCompletable` are about one
request at a time (`OneAtATime`): whatever is started, stumbles, crashes or is locked out, and
whatever uploads, trashings, restores and purges come meanwhile, but no second thread. The
hypothesis is needed. Run `transfer_race` loses an asset with two exports at once. The first
three follow from one invariant (`TransferInv`), whose parts need each other: what a row refers
to decides which rows a transfer drops or takes back, and the order of the transfers decides
which rows a handler meets. For the copies it shows what the code relies on between its
transactions (`CopyInv`):

- `VaultRowsHaveBytes`: a blob that a row of the vault names is in place, or staged while the
  marker of its transfer keeps it from `Sweep`, `UndoImport` and `Abort`. The row, the blob's
  row and the marker come in one transaction, and the marker goes only after `Validate`.
- `MainRowsHaveBytes`: a file of the main library is missing or cut short only while the vault
  has the asset, so an export may write it, give it up or unlink it.
- `Stands`: a transfer that is listed or in hand still has its journal (an upload, its
  directory) and is met once per list, though the list is a snapshot.
- `Holds`: what a step has checked is still so when it is used: an export reads what it
  prepared, deletes blobs once the library has the files whole, and an import deletes files
  once `Validate` found every blob.

For the references it has `LeasedIsClosed` and `OneJournal`. A journal is closed when it is
written, and need not stay so: a restore makes rows outside refer to one that is to move. But
the lease looks again, and from then on the row is a tombstone or gone. No handler makes a row
refer to a tombstone: an upload and a restore look for an active original, and `Placed` skips
what a journal names. One that `RestoreBlocked` brings back has to be leased again before it
counts. `OneJournal` says that a database has one journal at most of the transfers from it, so
the heir of a row that goes is in no other journal; whoever writes a journal has reconciled
before, or found none.

`UnlockReconciles` says that the lists of an unlock leave nothing behind. Its invariant
(`ReconInv`, which stands on `TypeInv` and `CopyInv`) describes the library between two steps
and what the thread at work owes it:

- `Listing`: while a list of open transfers, imports, exports or uploads is worked off, every
  journal or marker of its kind is in the list or in hand (`Unmet`), and a list that is done
  leaves none of its kind to the lists after it. So none is left when the session is issued.
- `Clean`: after the sweep only an import that has yet to be undone has staging, and
  `StagedKinds`, `BlobOnce` and `Places` keep a staged blob apart from one in place.
- `ExportsAreFinal`: an export whose files are gone has no blob left, so no row is dropped
  whose blob stays behind, and every blob is named by its row (`BlobsAreNamed`).
- `BothAreMarked`: an asset is in both databases only from the commit of a marked transfer to
  its last state; `Parted` and `Progress` carry this over `Drop`, `Unmark` and `Close`. Once no
  marker is left no asset is in both.
- `KnownOnce`: an upload brings an asset that no database and no transfer has had, which is
  why it can disturb none of this.

`CrashesCompletable` is about the steps of the run (`MCSpec`), for any bounds of its counters,
since the property is waived from the first failing operation or purge on, which the run
records in `disturbed`. The theorem waives it also from a restore on that opens a journal
(`opened`): its invariant speaks of closed ones, `UniqueRows` (the unique index in both
databases) among its parts. TLC checks the property without that waiver. Every step of the run
is one of the system (`RunSteps`), so `TransferInv` holds of it too. Beside it the theorem needs
`PromiseInv`, which holds as long as nothing is disturbed or opened and fails without that: a commit that fails in its last phase leaves the
marker of a transfer behind, and the next transfer is then not the only one pending.

- `OnePending`: at most one transfer is listed, because a request that ends with a session has
  finished or taken back its own, and an unlock has settled the rest. So no other transfer
  deletes the rows or the blobs that a marker promises.
- `Promised`: a marked import or upload has its rows in the vault, a marked export has its rows
  in the library and each file whole there. Where the blobs are, `CopyInv` says.
- `TombstonesAreLeased`: with no purge of the library's own, its tombstones are the rows that an
  import leased, whose assets the vault has. This keeps the purge's last step from unlinking a
  file that an export has just written.
- `Alone`: a request has only its own transfer pending; an unlock that is cut off by a crash is
  followed by another before a transfer can begin.
- `Provided`: what a request prepared, staged and wrote is what its commit promises, from the
  first step to the marker: no row on its way out, the files of an export whole, the blobs of an
  import in place when `Validate` looks.

`VaultMoveProofs` shows `TransfersImplementMove`, for one request at a time: every behaviour of
`VaultTransfer` is one of `MoveWithoutLoss`. So no step takes a file, a blob or a source row but
as that specification allows, at whatever point of whatever transfer it comes.

- The mapping reads rows, bytes and moves off the state, and one lemma per step says what of
  them it changes: nothing (`Stutters`), the phase of one move (`Enters`), back from "checked"
  (`Doubts`), or the rows and bytes of one side (`Puts`, `Rewrites`).
- `TransferInv` carries most of it: what was seen whole is not taken while
  it is relied on (`CopyInv`), the items of an import or an export that arrives were absent
  and no other move has been there (`ReconInv`).
- `MoveInv` adds what the phases need (`Forward`): what was prepared are rows that the source
  does not hide; the marker stays from the commit to its own step, though the code reads it
  only once; and the journal says that the source rows are gone exactly for the steps that come
  after. Without it a thread could be at `Validate` of a move that the mapping calls over.
- `TransfersLoseNothing` is what the refinement is worth. `PromiseKeeps` proves that every step
  of `MoveWithoutLoss`, whoever takes it, keeps its `Inv`: the vault's items have their bytes,
  an item of the library has its bytes or is in the vault, and what a checked move saw is
  whole or was deleted there since. It uses nothing of `VaultTransfer` but the mapping's types.

`CopyStays` follows a file through each step of the code; this is the same promise seen from
outside, and one that another implementation of the transfers would have to meet as well.

Only model-checked: liveness and `ENABLED`, out of the prover's reach. Every invariant and every
action property of a passing run is stated by a theorem. `TypeOK` of every module with a proof
is a theorem and in no run; so is `HeldIsRunning`, a step towards `OneRunnerPerRequest`.

## 5. Not modelled, and the plan

What is left, most important first:

1. The rest of the transfers: the stacks and jobs that move with a row; the derived files.
2. `CopyStays` for more than one request: an import or export beside another that shares no
   asset with it, and no unlock that sweeps. First a run, to learn whether it holds.
3. The client caches and upload queues (answers that arrive after the view moved on), the
   limiter's windows, the admission of connections, the cache of the sidecar's health.
4. The two-threshold clustering of the sidecar as operators with a reference definition.
5. Compositions: an upload and the thumbnail job it enqueues; a transfer against the purge and
   the jobs of its assets.

Left out for good: cryptography and encodings, SQL text search and ranking, image codecs,
layout and drawing in the clients, configuration parsing, settings (single values), the deadline
and framing of one sidecar request. They keep no state that interleaves. Password hashing,
wrong passwords and recovery keys are refusals without an effect.
