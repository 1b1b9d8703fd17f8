---------------------------- MODULE VaultTransfer ----------------------------
(***************************************************************************)
(* Moving assets between the main library and the vault: import_assets,    *)
(* export_assets, the direct upload into the vault, reconcile_transfers    *)
(* and the unlock that runs it (vault.rs of the core and of the server).   *)
(*                                                                         *)
(* Two databases and the file system take part and no transaction spans    *)
(* them.  A journal in the source database and a marker in the destination *)
(* database say how far a transfer came, so that the next unlock or retry  *)
(* completes it or takes it back.  Each request is a thread of its own;    *)
(* nothing but the databases' transactions orders them.                    *)
(*                                                                         *)
(* An asset's files are its original; the thumbnail and the preview follow *)
(* it through every step and are left out, as are the stacks, chapters and *)
(* faces that move with the rows.  Encryption is left out: a blob is named *)
(* by the transfer that wrote it, and reading or writing one needs the     *)
(* handle's key.  The handlers that write the rows of assets meanwhile     *)
(* appear as far as they meet a transfer (module AssetLibrary has them     *)
(* whole): upload, trash, restore and the purges of the main library, and  *)
(* trash and restore over vault.db, which run the same code.  Left out are *)
(* the edits of stacks (Paged is a constant) and purge_now over vault.db,  *)
(* by which a user erases one asset of the vault; no purge loop runs there.*)
(*                                                                         *)
(* Operators Name_Slip beside Name are plausible slips; nothing uses them. *)
(***************************************************************************)
EXTENDS Naturals, FiniteSets, SequencesExt

CONSTANTS
  Requests,      \* threads of vault requests
  Assets,        \* asset ids
  NoAsset,
  HashOf,        \* the hash of an asset's bytes
  Paged,         \* assets that are on a stack page while in the main library
  MaxTransfers   \* bound of the model: how many transfers are ever begun

ASSUME TransferAssumption ==
  /\ IsFiniteSet(Requests)
  /\ IsFiniteSet(Assets)
  /\ NoAsset \notin Assets
  /\ MaxTransfers \in Nat

VARIABLES
  row,       \* table assets of each database
  known,     \* ids that were ever given to an upload
  plain,     \* files under library/
  blobRow,   \* vault_blobs: the transfer whose blob an asset has
  blobs,     \* files under vault/blobs, as <<transfer, asset>>
  staged,    \* files under vault/transfer_staging/<transfer>
  transfer,  \* vault_transfers of both databases
  created,   \* how many transfer ids were drawn
  session,   \* a session is unlocked
  request    \* what each thread is at

files == <<plain, blobs, staged>>
tables == <<row, blobRow, transfer>>
vars == <<row, known, plain, blobRow, blobs, staged, transfer, created, session, request>>

-----------------------------------------------------------------------------
(* Rows, transfers and requests.                                           *)

Databases == {"main", "vault"}
Lifecycles == {"none", "active", "duplicate", "trashed", "purging"}

\* trashed: trashed_at is set, which outlives the lifecycle "trashed".
Row == [lifecycle : Lifecycles, duplicateOf : Assets \cup {NoAsset}, trashed : BOOLEAN]
NoRow == [lifecycle |-> "none", duplicateOf |-> NoAsset, trashed |-> FALSE]

Exists(d, a) == row[d][a].lifecycle # "none"
\* AssetService.get hides the tombstones.
Gets(d, a) == row[d][a].lifecycle \notin {"none", "purging"}
Dependents(rows, a) == {b \in Assets : rows[b].lifecycle # "none" /\ rows[b].duplicateOf = a}

Transfers == 1 .. MaxTransfers
Kinds == {"import", "export", "ingest"}
From == [import |-> "main", export |-> "vault", ingest |-> "none"]
To == [import |-> "vault", export |-> "main", ingest |-> "vault"]

\* TransferState, in its order; "none" where there is no journal.
Rank == [none |-> 0, preparing |-> 1, destination_ready |-> 2,
         source_files_deleted |-> 3, source_database_deleted |-> 4]
States == DOMAIN Rank

\* kind and ids stay when journal and marker are gone: a thread that read
\* them holds a copy.
Transfer == [kind : Kinds \cup {"none"}, ids : SUBSET Assets, state : States, marker : BOOLEAN]
NoTransfer == [kind |-> "none", ids |-> {}, state |-> "none", marker |-> FALSE]

Journals(k) == {t \in Transfers : transfer[t].kind = k /\ transfer[t].state # "none"}
Markers(k) == {t \in Transfers : transfer[t].kind = k /\ transfer[t].marker}
Pending == {t \in Transfers : transfer[t].state # "none" \/ transfer[t].marker}

\* The assets that a source journal of database d names.
Journaled(d) ==
  UNION {transfer[t].ids : t \in {u \in Transfers : /\ transfer[u].state # "none"
                                                    /\ From[transfer[u].kind] = d}}

Steps == {"idle", "list", "next", "undo", "unlink", "forget", "sweep", "sweeping", "issue",
          "prepare", "open", "stage", "write", "abort", "complete", "finalize", "validate",
          "ready", "lease", "delete", "drop", "dropped", "unmark", "close", "clear"}
Phases == {"none", "open", "import", "export", "ingest"}

\* phase: which list of transfers reconciliation is at.  todo: what is left of
\* the list, with the states it showed.  t, state: the transfer in hand.  own:
\* the transfer that the request began.  rows: the source rows as prepared.
\* left: what is left of a loop over assets; file: the one in hand.
Request == [step : Steps, kind : Kinds \cup {"none", "unlock"}, live : BOOLEAN,
            ids : SUBSET Assets, rows : [Assets -> Row], own : 0 .. MaxTransfers,
            phase : Phases, todo : SUBSET (Transfers \X States),
            t : 0 .. MaxTransfers, state : States,
            left : SUBSET Assets, file : Assets \cup {NoAsset}]
Idle == [step |-> "idle", kind |-> "none", live |-> FALSE,
         ids |-> {}, rows |-> [a \in Assets |-> NoRow], own |-> 0,
         phase |-> "none", todo |-> {}, t |-> 0, state |-> "none",
         left |-> {}, file |-> NoAsset]

At(r, step) == request[r].step = step
Now(r) == request[r].t
Kind(r) == transfer[Now(r)].kind
Moving(r) == transfer[Now(r)].ids
Become(r, q) == request' = [request EXCEPT ![r] = q]
Go(r, step) == Become(r, [request[r] EXCEPT !.step = step])
Each(r, step) == Become(r, [request[r] EXCEPT !.step = step, !.left = Moving(r)])
Tick(r, a) == Become(r, [request[r] EXCEPT !.left = @ \ {a}])
End(r) == Become(r, Idle)
\* What a transfer in hand returns to: its own request, or reconciliation.
Return(r) == IF Now(r) = request[r].own THEN End(r) ELSE Go(r, "next")

BlobHere(a) == blobRow[a] # 0 /\ <<blobRow[a], a>> \in blobs
StagedBy(t) == {x \in staged : x[1] = t}
SetState(t, s) == transfer' = [transfer EXCEPT ![t].state = s]

Init ==
  /\ row = [d \in Databases |-> [a \in Assets |-> NoRow]]
  /\ known = {}
  /\ plain = [a \in Assets |-> "absent"]
  /\ blobRow = [a \in Assets |-> 0]
  /\ blobs = {}
  /\ staged = {}
  /\ transfer = [t \in Transfers |-> NoTransfer]
  /\ created = 0
  /\ session = FALSE
  /\ request = [r \in Requests |-> Idle]

-----------------------------------------------------------------------------
(* Requests begin and reconcile.                                           *)

\* Transfers that the requests under way may yet draw.
Undrawn == {r \in Requests : request[r].kind \in Kinds /\ request[r].own = 0}
MayDraw == created + Cardinality(Undrawn) < MaxTransfers

\* VaultHandle.unlock: the handle is this thread's own until it is issued.
BeginUnlock(r) ==
  /\ At(r, "idle")
  /\ Become(r, [Idle EXCEPT !.step = "list", !.kind = "unlock", !.live = TRUE, !.phase = "open"])
  /\ UNCHANGED <<tables, files, known, created, session>>

BeginMove(r, k, ids, step) ==
  /\ At(r, "idle")
  /\ session
  /\ MayDraw
  /\ Become(r, [Idle EXCEPT !.step = step, !.kind = k, !.live = TRUE, !.ids = ids,
                            !.phase = IF step = "list" THEN "import" ELSE "none"])
  /\ UNCHANGED <<tables, files, known, created, session>>

BeginImport(r, ids) == BeginMove(r, "import", ids, "list")
\* Only an export with export journals about reconciles.
BeginExport(r, ids) ==
  BeginMove(r, "export", ids, IF Journals("export") # {} THEN "list" ELSE "prepare")

\* ingest: a new asset and a staging directory of its own; no source journal.
BeginIngest(r, a) ==
  /\ At(r, "idle")
  /\ session
  /\ MayDraw
  /\ a \notin known
  /\ known' = known \cup {a}
  /\ created' = created + 1
  /\ transfer' = [transfer EXCEPT ![created'] = [NoTransfer EXCEPT !.kind = "ingest", !.ids = {a}]]
  /\ Become(r, [Idle EXCEPT !.step = "stage", !.kind = "ingest", !.live = TRUE, !.ids = {a},
                            !.own = created', !.t = created', !.left = {a}])
  /\ UNCHANGED <<row, blobRow, files, session>>

\* source_transfers and destination_transfers: a snapshot of ids and states.
Listed(phase) ==
  LET ts == IF phase \in {"import", "export"} THEN Journals(phase) ELSE Markers("ingest")
  IN {<<t, transfer[t].state>> : t \in ts}

List(r) ==
  /\ At(r, "list")
  /\ Become(r, [request[r] EXCEPT !.step = "next", !.todo = Listed(request[r].phase)])
  /\ UNCHANGED <<tables, files, known, created, session>>

TakeNext_ByState(r) ==
  /\ At(r, "next")
  /\ \E x \in request[r].todo :
       /\ \A y \in request[r].todo : x[1] <= y[1]
       /\ Become(r, [request[r] EXCEPT !.todo = @ \ {x}, !.t = x[1], !.state = x[2],
                                       !.left = transfer[x[1]].ids,
                                       !.step = IF x[2] # "preparing" THEN "complete" ELSE "undo"])
  /\ UNCHANGED <<tables, files, known, created, session>>

\* ORDER BY created_at, id; what has a marker is completed, the rest undone.
TakeNext(r) ==
  /\ At(r, "next")
  /\ \E x \in request[r].todo :
       /\ \A y \in request[r].todo : x[1] <= y[1]
       /\ Become(r, [request[r] EXCEPT !.todo = @ \ {x}, !.t = x[1], !.state = x[2],
                                       !.left = transfer[x[1]].ids,
                                       !.step = IF transfer[x[1]].marker
                                                   \/ transfer[x[1]].kind = "ingest"
                                                THEN "complete" ELSE "undo"])
  /\ UNCHANGED <<tables, files, known, created, session>>

NextList_ImportsOnly(r) ==
  /\ At(r, "next")
  /\ request[r].todo = {}
  /\ IF request[r].phase = "open"
     THEN Become(r, [request[r] EXCEPT !.step = "sweep", !.phase = "import"])
     ELSE Become(r, [request[r] EXCEPT !.phase = "none",
                       !.step = IF request[r].kind = "unlock" THEN "issue" ELSE "prepare"])
  /\ UNCHANGED <<tables, files, known, created, session>>

\* open: direct ingests, orphaned staging; then reconcile_transfers: imports,
\* exports and direct ingests again.
NextList(r) ==
  /\ At(r, "next")
  /\ request[r].todo = {}
  /\ \E step \in Steps, phase \in Phases :
       /\ \/ request[r].phase = "open" /\ step = "sweep" /\ phase = "import"
          \/ request[r].phase = "import" /\ step = "list" /\ phase = "export"
          \/ request[r].phase = "export" /\ step = "list" /\ phase = "ingest"
          \/ /\ request[r].phase = "ingest"
             /\ step = IF request[r].kind = "unlock" THEN "issue" ELSE "prepare"
             /\ phase = "none"
       /\ Become(r, [request[r] EXCEPT !.step = step, !.phase = phase])
  /\ UNCHANGED <<tables, files, known, created, session>>

\* cleanup_orphan_staging: what vault.db names is read first, then every other
\* directory goes, that of an import or an upload still staging included.
Sweep(r) ==
  /\ At(r, "sweep")
  /\ Become(r, [request[r] EXCEPT !.step = "sweeping",
                  !.todo = {<<t, "none">> : t \in Markers("import") \cup Markers("ingest")
                                                  \cup Journals("export")}])
  /\ UNCHANGED <<tables, files, known, created, session>>
Sweeping(r) ==
  /\ At(r, "sweeping")
  /\ staged' = {x \in staged : <<x[1], "none">> \in request[r].todo}
  /\ Become(r, [request[r] EXCEPT !.step = "list", !.todo = {}])
  /\ UNCHANGED <<tables, known, plain, blobs, created, session>>

\* issue: the session is replaced and the handle of the one before revoked.
Revoked(requests) ==
  [r \in Requests |-> IF requests[r].kind = "unlock" THEN requests[r]
                      ELSE [requests[r] EXCEPT !.live = FALSE]]
Issue(r) ==
  /\ At(r, "issue")
  /\ session' = TRUE
  /\ request' = Revoked([request EXCEPT ![r] = Idle])
  /\ UNCHANGED <<tables, files, known, created>>

\* The end of a session: lock or expiry.
Lock ==
  /\ session
  /\ session' = FALSE
  /\ request' = Revoked(request)
  /\ UNCHANGED <<tables, files, known, created>>

-----------------------------------------------------------------------------
(* A transfer without its marker is taken back.                            *)

\* An import: its staging, then its journal.
UndoImport(r) ==
  /\ At(r, "undo")
  /\ Kind(r) = "import"
  /\ staged' = staged \ StagedBy(Now(r))
  /\ Go(r, "forget")
  /\ UNCHANGED <<tables, known, plain, blobs, created, session>>

\* rollback_export_files, one asset at a time: whose row the main library does
\* not have ...
RollbackLook(r) ==
  /\ At(r, "undo")
  /\ Kind(r) = "export"
  /\ IF request[r].left = {} THEN Go(r, "forget")
     ELSE \E a \in request[r].left :
            IF Gets("main", a) THEN Tick(r, a)
            ELSE IF ~Gets("vault", a) THEN End(r)
            ELSE Become(r, [request[r] EXCEPT !.step = "unlink", !.file = a])
  /\ UNCHANGED <<tables, files, known, created, session>>

\* ... and whose file has the right bytes: a file cut short stays.
Unlink(r) ==
  /\ At(r, "unlink")
  /\ LET a == request[r].file IN
       /\ plain' = [plain EXCEPT ![a] = IF @ = "whole" THEN "absent" ELSE @]
       /\ Become(r, [request[r] EXCEPT !.step = "undo", !.left = @ \ {a}, !.file = NoAsset])
  /\ UNCHANGED <<tables, known, blobs, staged, created, session>>

Forget(r) ==
  /\ At(r, "forget")
  /\ SetState(Now(r), "none")
  /\ Return(r)
  /\ UNCHANGED <<row, blobRow, files, known, created, session>>

-----------------------------------------------------------------------------
(* A transfer up to the commit in the destination.                         *)

\* assets_moved, else prepare_main_assets or prepare_vault_assets.
Moved(r) ==
  \A a \in request[r].ids : /\ ~Exists(From[request[r].kind], a)
                            /\ Exists(To[request[r].kind], a)
Prepared(r) ==
  /\ \A a \in request[r].ids : Gets(From[request[r].kind], a)
  /\ IF request[r].kind = "import"
     THEN \A a \in request[r].ids : plain[a] = "whole"
     ELSE request[r].live /\ \A a \in request[r].ids : BlobHere(a)

Prepare(r) ==
  /\ At(r, "prepare")
  /\ IF Moved(r) \/ ~Prepared(r) THEN End(r)
     ELSE Become(r, [request[r] EXCEPT !.step = "open",
            !.rows = [a \in Assets |-> IF a \in request[r].ids THEN row[From[request[r].kind]][a]
                                       ELSE NoRow]])
  /\ UNCHANGED <<tables, files, known, created, session>>

\* validate_duplicate_closure: no row outside refers to a row that moves.
Closed(d, ids) == \A a \in ids : Dependents(row[d], a) \subseteq ids

\* insert_source_transfer
Open(r) ==
  /\ At(r, "open")
  /\ IF Closed(From[request[r].kind], request[r].ids)
     THEN /\ created' = created + 1
          /\ transfer' = [transfer EXCEPT ![created'] =
               [kind |-> request[r].kind, ids |-> request[r].ids,
                state |-> "preparing", marker |-> FALSE]]
          /\ Become(r, [request[r] EXCEPT !.step = "stage", !.own = created', !.t = created',
                                          !.state = "preparing", !.left = request[r].ids])
     ELSE End(r) /\ UNCHANGED <<created, transfer>>
  /\ UNCHANGED <<row, blobRow, files, known, session>>

\* One blob into the staging directory; its bytes are checked on the way.  An
\* upload that fails here leaves its directory to the next unlock.
StageBlob(r) ==
  /\ At(r, "stage")
  /\ request[r].kind # "export"
  /\ \E a \in request[r].left :
       IF request[r].live /\ (request[r].kind = "import" => plain[a] = "whole")
       THEN staged' = staged \cup {<<Now(r), a>>} /\ Tick(r, a)
       ELSE IF request[r].kind = "import" THEN Go(r, "abort") /\ UNCHANGED staged
       ELSE staged' \in {staged, staged \cup {<<Now(r), a>>}} /\ End(r)
  /\ UNCHANGED <<tables, known, plain, blobs, created, session>>

\* write_vault_blob_to_new_file: create_new refuses a file that is there, and
\* the error path removes it, whoever wrote it.
CreatePlain(r) ==
  /\ At(r, "stage")
  /\ request[r].kind = "export"
  /\ \E a \in request[r].left :
       IF plain[a] = "absent" /\ request[r].live /\ BlobHere(a)
       THEN /\ plain' = [plain EXCEPT ![a] = "partial"]
            /\ Become(r, [request[r] EXCEPT !.step = "write", !.file = a])
       ELSE /\ plain' = [plain EXCEPT ![a] = "absent"]
            /\ Go(r, "abort")
  /\ UNCHANGED <<tables, known, blobs, staged, created, session>>

\* The rest of the file, checked and synced; unlinked meanwhile it stays so.
WritePlain(r) ==
  /\ At(r, "write")
  /\ LET a == request[r].file IN
       IF request[r].live
       THEN /\ plain' = [plain EXCEPT ![a] = IF @ = "absent" THEN @ ELSE "whole"]
            /\ Become(r, [request[r] EXCEPT !.step = "stage", !.left = @ \ {a}, !.file = NoAsset])
       ELSE /\ plain' = [plain EXCEPT ![a] = "absent"]
            /\ Become(r, [request[r] EXCEPT !.step = "abort", !.file = NoAsset])
  /\ UNCHANGED <<tables, known, blobs, staged, created, session>>

\* The active original with these bytes that no source journal names.
Primaries(rows, journaled, a) ==
  {b \in Assets \ journaled : /\ HashOf[b] = HashOf[a]
                              /\ rows[b].lifecycle = "active"
                              /\ rows[b].duplicateOf = NoAsset}

\* insert_asset: a relation never points into the other database.
Placed(rows, journaled, a, given) ==
  LET ps == Primaries(rows, journaled, a) IN
  IF ps # {}
  THEN [given EXCEPT !.duplicateOf = CHOOSE b \in ps : TRUE,
                     !.lifecycle = IF @ = "active" THEN "duplicate" ELSE @]
  ELSE IF given.duplicateOf # NoAsset
  THEN [given EXCEPT !.duplicateOf = NoAsset, !.lifecycle = IF @ = "duplicate" THEN "active" ELSE @]
  ELSE given

Inserted(rows, journaled, given, order) ==
  FoldLeft(LAMBDA rs, a : [rs EXCEPT ![a] = Placed(rs, journaled, a, given[a])], rows, order)

\* ux_assets_hash_primary
UniquePrimaries(rows) ==
  \A a, b \in Assets : /\ a # b
                       /\ HashOf[a] = HashOf[b]
                       /\ rows[a].lifecycle = "active" /\ rows[a].duplicateOf = NoAsset
                       /\ rows[b].lifecycle = "active" /\ rows[b].duplicateOf = NoAsset
                       => FALSE

Fresh == [NoRow EXCEPT !.lifecycle = "active"]
Given(r) == IF request[r].kind = "ingest" THEN [a \in Assets |-> Fresh] ELSE request[r].rows

\* Every file of the transfer is staged.
Staged_Rows(r) == At(r, "stage")
Staged(r) == At(r, "stage") /\ request[r].left = {}

\* The transaction of stage_vault_import, stage_main_export or ingest_at, with
\* the rows as they were when prepared, in the order of the request.
Commit(r) ==
  /\ Staged(r)
  /\ \E order \in SetToSeqs(request[r].ids) :
       LET d == To[request[r].kind]
           rows == Inserted(row[d], Journaled(d), Given(r), order)
       IN IF request[r].kind = "ingest" /\ ~request[r].live THEN End(r) /\ UNCHANGED tables
          ELSE IF (\A a \in request[r].ids : ~Exists(d, a)) /\ UniquePrimaries(rows)
          THEN /\ row' = [row EXCEPT ![d] = rows]
               /\ blobRow' = IF d = "main" THEN blobRow
                             ELSE [a \in Assets |-> IF a \in request[r].ids THEN Now(r)
                                                    ELSE blobRow[a]]
               /\ transfer' = [transfer EXCEPT ![Now(r)].marker = TRUE]
               /\ Become(r, [request[r] EXCEPT !.step = "complete", !.rows = Idle.rows])
          ELSE Go(r, "abort") /\ UNCHANGED tables
  /\ UNCHANGED <<files, known, created, session>>

\* What was staged goes, then the journal; an upload has none.
Abort(r) ==
  /\ At(r, "abort")
  /\ IF request[r].kind = "export"
     THEN /\ plain' = [a \in Assets |-> IF a \in request[r].ids \ request[r].left THEN "absent"
                                        ELSE plain[a]]
          /\ UNCHANGED staged
     ELSE staged' = staged \ StagedBy(Now(r)) /\ UNCHANGED plain
  /\ IF request[r].kind = "ingest" THEN End(r)
     ELSE Become(r, [request[r] EXCEPT !.step = "forget", !.rows = Idle.rows])
  /\ UNCHANGED <<tables, known, blobs, created, session>>

-----------------------------------------------------------------------------
(* Completion: complete_import_transfer, complete_export_transfer and       *)
(* complete_direct_ingest.  `state` is what the journal said when it was    *)
(* listed, and a transfer goes on from there.                              *)

Before(r, s) == Rank[request[r].state] < Rank[s]
\* update_transfer_state fails where the journal is gone.
Record(r, s, step) ==
  IF transfer[Now(r)].state = "none" THEN End(r) /\ UNCHANGED transfer
  ELSE SetState(Now(r), s) /\ Go(r, step)

Complete(r) ==
  /\ At(r, "complete")
  /\ IF ~request[r].live \/ (Kind(r) # "ingest" /\ ~transfer[Now(r)].marker) THEN End(r)
     ELSE Each(r, IF Kind(r) = "export" THEN "validate" ELSE "finalize")
  /\ UNCHANGED <<tables, files, known, created, session>>

\* A blob that an interrupted attempt has already moved.
Finalized_Staged(r, file) == FALSE
Finalized(r, file) == file \in blobs

\* finalize_import_files: out of staging to where vault_blobs says.
Finalize(r) ==
  /\ At(r, "finalize")
  /\ IF request[r].left = {}
     THEN staged' = staged \ StagedBy(Now(r)) /\ Go(r, "validate") /\ UNCHANGED blobs
     ELSE \E a \in request[r].left :
            LET file == <<blobRow[a], a>> IN
            IF blobRow[a] = 0 THEN Tick(r, a) /\ UNCHANGED <<staged, blobs>>
            ELSE IF Finalized(r, file)
            THEN staged' = staged \ ({file} \cap StagedBy(Now(r))) /\ Tick(r, a) /\ UNCHANGED blobs
            ELSE IF file \in StagedBy(Now(r))
            THEN staged' = staged \ {file} /\ blobs' = blobs \cup {file} /\ Tick(r, a)
            ELSE End(r) /\ UNCHANGED <<staged, blobs>>
  /\ UNCHANGED <<tables, known, plain, created, session>>

\* The destination is read back, decrypted and compared with its hashes.
Valid(r) ==
  /\ \A a \in Moving(r) : Gets(To[Kind(r)], a)
  /\ IF Kind(r) = "export" THEN \A a \in Moving(r) : plain[a] = "whole"
     ELSE request[r].live /\ \A a \in Moving(r) : BlobHere(a)

Validate(r) ==
  /\ At(r, "validate")
  /\ IF Valid(r) THEN Go(r, IF Kind(r) = "ingest" THEN "unmark" ELSE "ready") ELSE End(r)
  /\ UNCHANGED <<tables, files, known, created, session>>

\* Where a journal that was listed in this state goes on.
Onward(r) ==
  IF Before(r, "source_files_deleted") THEN "lease"
  ELSE IF Before(r, "source_database_deleted") THEN "drop" ELSE "unmark"

Ready(r) ==
  /\ At(r, "ready")
  /\ IF Before(r, "destination_ready") THEN Record(r, "destination_ready", Onward(r))
     ELSE Go(r, Onward(r)) /\ UNCHANGED transfer
  /\ UNCHANGED <<row, blobRow, files, known, created, session>>

Tombstones(rows, ids) ==
  [a \in Assets |-> IF a \in ids /\ rows[a].lifecycle # "none"
                    THEN [rows[a] EXCEPT !.lifecycle = "purging"] ELSE rows[a]]

\* lease_transfer_source_deletion: the closure again, and tombstones.
Lease_Unchecked(r) ==
  /\ At(r, "lease")
  /\ LET d == From[Kind(r)] IN
       IF request[r].live
       THEN row' = [row EXCEPT ![d] = Tombstones(@, Moving(r))] /\ Each(r, "delete")
       ELSE End(r) /\ UNCHANGED row
  /\ UNCHANGED <<blobRow, transfer, files, known, created, session>>

Lease(r) ==
  /\ At(r, "lease")
  /\ LET d == From[Kind(r)] IN
       IF request[r].live /\ Closed(d, Moving(r))
       THEN row' = [row EXCEPT ![d] = Tombstones(@, Moving(r))] /\ Each(r, "delete")
       ELSE End(r) /\ UNCHANGED row
  /\ UNCHANGED <<blobRow, transfer, files, known, created, session>>

\* delete_plain_source_files asks for the session once, the blobs' loop for
\* each.  A plain file's path is in the source row, else in the destination's.
MayDelete(r, a) ==
  IF Kind(r) = "import"
  THEN /\ request[r].left = Moving(r) => request[r].live
       /\ Exists("main", a) \/ Gets("vault", a)
  ELSE request[r].live

DeleteFile(r) ==
  /\ At(r, "delete")
  /\ \E a \in request[r].left :
       IF ~MayDelete(r, a) THEN End(r) /\ UNCHANGED <<plain, blobs>>
       ELSE /\ Tick(r, a)
            /\ IF Kind(r) = "import"
               THEN plain' = [plain EXCEPT ![a] = "absent"] /\ UNCHANGED blobs
               ELSE blobs' = blobs \ {<<blobRow[a], a>>} /\ UNCHANGED plain
  /\ UNCHANGED <<tables, known, staged, created, session>>

FilesDeleted(r) ==
  /\ At(r, "delete")
  /\ request[r].left = {}
  /\ Record(r, "source_files_deleted", "drop")
  /\ UNCHANGED <<row, blobRow, files, known, created, session>>

\* reparent_legacy_external_duplicates: of the rows outside that refer to one
\* that goes, one takes its place, an active one if there is, else one that is
\* not trashed; the others follow it.
Heirs(rows, ids, a) ==
  LET outside == Dependents(rows, a) \ ids
      active == {b \in outside : rows[b].lifecycle = "active"}
      kept == {b \in outside : ~rows[b].trashed}
  IN IF active # {} THEN active ELSE IF kept # {} THEN kept ELSE outside

Reparented(rows, ids) ==
  LET heirOf == [a \in ids |-> IF Heirs(rows, ids, a) = {} THEN NoAsset
                               ELSE CHOOSE b \in Heirs(rows, ids, a) : TRUE]
  IN [b \in Assets |->
        IF \E a \in ids : heirOf[a] = b THEN [NoRow EXCEPT !.lifecycle = "active"]
        ELSE IF b \notin ids /\ rows[b].duplicateOf \in ids
        THEN [rows[b] EXCEPT !.duplicateOf = heirOf[rows[b].duplicateOf]]
        ELSE rows[b]]

\* delete_assets_from_database_idempotent; vault_blobs cascade.  An heir may be
\* refused by the unique index.
Drop(r) ==
  /\ At(r, "drop")
  /\ LET d == From[Kind(r)]
         ids == Moving(r)
         rows == [a \in Assets |-> IF a \in ids THEN NoRow ELSE Reparented(row[d], ids)[a]]
     IN IF request[r].live /\ UniquePrimaries(rows)
        THEN /\ row' = [row EXCEPT ![d] = rows]
             /\ blobRow' = IF d = "main" THEN blobRow
                           ELSE [a \in Assets |-> IF a \in ids THEN 0 ELSE blobRow[a]]
             /\ Go(r, "dropped")
        ELSE End(r) /\ UNCHANGED <<row, blobRow>>
  /\ UNCHANGED <<transfer, files, known, created, session>>

Dropped(r) ==
  /\ At(r, "dropped")
  /\ Record(r, "source_database_deleted", "unmark")
  /\ UNCHANGED <<row, blobRow, files, known, created, session>>

\* The marker goes before the journal.
Unmark(r) ==
  /\ At(r, "unmark")
  /\ transfer' = [transfer EXCEPT ![Now(r)].marker = FALSE]
  /\ Go(r, IF Kind(r) = "ingest" THEN "clear" ELSE "close")
  /\ UNCHANGED <<row, blobRow, files, known, created, session>>

Close(r) ==
  /\ At(r, "close")
  /\ SetState(Now(r), "none")
  /\ IF Kind(r) = "import" THEN Go(r, "clear") ELSE Return(r)
  /\ UNCHANGED <<row, blobRow, files, known, created, session>>

Clear(r) ==
  /\ At(r, "clear")
  /\ staged' = staged \ StagedBy(Now(r))
  /\ Return(r)
  /\ UNCHANGED <<tables, known, plain, blobs, created, session>>

-----------------------------------------------------------------------------
(* The library, and the vault's trash, meanwhile.                          *)

\* ingest_at of assets.rs; refused by the unique index it leaves nothing.
Upload(a) ==
  /\ a \notin known
  /\ LET rows == [row["main"] EXCEPT ![a] =
                    Placed(row["main"], Journaled("main"), a, Fresh)]
     IN /\ UniquePrimaries(rows)
        /\ row' = [row EXCEPT !["main"] = rows]
  /\ known' = known \cup {a}
  /\ plain' = [plain EXCEPT ![a] = "whole"]
  /\ UNCHANGED <<blobRow, transfer, blobs, staged, created, session, request>>

\* trash_at, which the API has for the vault too.  Its handler looks for the
\* session before the transaction, which may end in between: no guard is left.
Trash(d, a) ==
  /\ Gets(d, a)
  /\ row' = [row EXCEPT ![d][a] = [@ EXCEPT !.lifecycle = "trashed", !.trashed = TRUE]]
  /\ UNCHANGED <<blobRow, transfer, files, known, created, session, request>>

\* restore_at: an original takes the place of the copy that was uploaded since,
\* whether a journal names either of them or not.
Restored(rows, a) ==
  LET replaced == IF rows[a].duplicateOf # NoAsset THEN {} ELSE Primaries(rows, {}, a) \ {a}
      back == [rows[a] EXCEPT !.trashed = FALSE,
                 !.lifecycle = IF rows[a].duplicateOf # NoAsset THEN "duplicate" ELSE "active"]
  IN [b \in Assets |->
        IF b = a THEN back
        ELSE IF b \in replaced \/ rows[b].duplicateOf \in replaced
        THEN [rows[b] EXCEPT !.duplicateOf = a]
        ELSE rows[b]]

Restore(d, a) ==
  /\ row[d][a].lifecycle = "trashed"
  /\ row' = [row EXCEPT ![d] = Restored(@, a)]
  /\ UNCHANGED <<blobRow, transfer, files, known, created, session, request>>

Free(a) == Dependents(row["main"], a) = {} /\ a \notin Paged

\* purge_now, and mark_due_as_purging once the retention is over.
MarkPurging(a) ==
  /\ row["main"][a].lifecycle \in {"duplicate", "trashed"}
  /\ Free(a)
  /\ row' = [row EXCEPT !["main"][a].lifecycle = "purging"]
  /\ UNCHANGED <<blobRow, transfer, files, known, created, session, request>>

\* finish_purging, which resume_purging calls for every tombstone when the
\* server starts and at each tick: a transfer's leased rows are among them.
PurgeFree(a) ==
  /\ row["main"][a].lifecycle = "purging"
  /\ Free(a)
  /\ plain' = [plain EXCEPT ![a] = "absent"]
  /\ row' = [row EXCEPT !["main"][a] = NoRow]
  /\ UNCHANGED <<blobRow, transfer, known, blobs, staged, created, session, request>>

\* restore_blocked_legacy_tombstone
RestoreBlocked(a) ==
  /\ row["main"][a].lifecycle = "purging"
  /\ ~Free(a)
  /\ LET old == row["main"][a]
         lifecycle == IF old.trashed THEN "trashed"
                      ELSE IF a \in Paged THEN "active"
                      ELSE IF old.duplicateOf # NoAsset THEN "duplicate" ELSE "trashed"
         rows == [row["main"] EXCEPT ![a].lifecycle = lifecycle]
     IN UniquePrimaries(rows) /\ row' = [row EXCEPT !["main"] = rows]
  /\ UNCHANGED <<blobRow, transfer, files, known, created, session, request>>

-----------------------------------------------------------------------------
(* Faults.                                                                 *)

\* The process ends at any point.
Crash ==
  /\ session' = FALSE
  /\ request' = [r \in Requests |-> Idle]
  /\ UNCHANGED <<tables, files, known, created>>

\* A statement or a file operation fails.  What was staged is taken back, in
\* every other place the request ends where it is.
Stumble(r) ==
  /\ ~At(r, "idle")
  /\ IF request[r].step \in {"stage", "write"} /\ request[r].kind # "ingest"
     THEN Become(r, [request[r] EXCEPT !.step = "abort", !.file = NoAsset])
     ELSE End(r)
  /\ plain' = IF At(r, "write") THEN [plain EXCEPT ![request[r].file] = "absent"] ELSE plain
  /\ UNCHANGED <<tables, known, blobs, staged, created, session>>

-----------------------------------------------------------------------------
(* The specification.                                                      *)

Reconciles(r) ==
  \/ List(r) \/ TakeNext(r) \/ NextList(r) \/ Sweep(r) \/ Sweeping(r) \/ Issue(r)
  \/ UndoImport(r) \/ RollbackLook(r) \/ Unlink(r) \/ Forget(r)
Stages(r) ==
  \/ Prepare(r) \/ Open(r) \/ StageBlob(r) \/ CreatePlain(r) \/ WritePlain(r)
  \/ Commit(r) \/ Abort(r)
Completes(r) ==
  \/ Complete(r) \/ Finalize(r) \/ Validate(r) \/ Ready(r) \/ Lease(r) \/ DeleteFile(r)
  \/ FilesDeleted(r) \/ Drop(r) \/ Dropped(r) \/ Unmark(r) \/ Close(r) \/ Clear(r)
Proceed(r) == Reconciles(r) \/ Stages(r) \/ Completes(r)

Begins(r) ==
  \/ \E ids \in SUBSET Assets \ {{}} : BeginImport(r, ids) \/ BeginExport(r, ids)
  \/ \E a \in Assets : BeginIngest(r, a)

Library == \E a \in Assets : Upload(a) \/ Trash("main", a) \/ PurgeFree(a) \/ RestoreBlocked(a)
VaultTrash == \E a \in Assets : Trash("vault", a)
Restores == \E d \in Databases, a \in Assets : Restore(d, a)
Purges == \E a \in Assets : MarkPurging(a)
Faults == Crash \/ \E r \in Requests : Stumble(r)

Next ==
  \/ \E r \in Requests : BeginUnlock(r) \/ Begins(r) \/ Proceed(r)
  \/ Lock
  \/ Library \/ VaultTrash \/ Restores
  \/ Purges
  \/ Faults

Spec == Init /\ [][Next]_vars

\* Threads run on, and a user comes back: an unlock is always tried again.
Fairness == \A r \in Requests : WF_vars(Proceed(r)) /\ WF_vars(BeginUnlock(r))

-----------------------------------------------------------------------------
(* Properties.                                                             *)

\* Types: rows, journals and what each thread holds.
TypeOK ==
  /\ row \in [Databases -> [Assets -> Row]]
  /\ known \subseteq Assets
  /\ plain \in [Assets -> {"absent", "partial", "whole"}]
  /\ blobRow \in [Assets -> 0 .. MaxTransfers]
  /\ blobs \subseteq Transfers \X Assets
  /\ staged \subseteq Transfers \X Assets
  /\ transfer \in [Transfers -> Transfer]
  /\ created \in 0 .. MaxTransfers
  /\ session \in BOOLEAN
  /\ request \in [Requests -> Request]

\* A complete copy at every boundary: while any row of an asset is not a
\* tombstone, its bytes are in the library beside a row of the main database,
\* or in a blob that a row of the vault names, still staged perhaps.
AlwaysACopy ==
  \A a \in Assets :
    (\E d \in Databases : Gets(d, a)) =>
      \/ Exists("main", a) /\ plain[a] = "whole"
      \/ Exists("vault", a) /\ (BlobHere(a) \/ <<blobRow[a], a>> \in staged)

\* A marker promises that the transfer can be completed: the rows are there,
\* and each file is where completion looks for it.
CommittedIsCompletable ==
  \A t \in Transfers : transfer[t].marker =>
    \A a \in transfer[t].ids :
      IF transfer[t].kind = "export" THEN Gets("main", a) /\ plain[a] = "whole"
      ELSE Gets("vault", a) /\ (BlobHere(a) \/ (blobRow[a] = t /\ <<t, a>> \in staged))

\* The check-to-file-delete race of lease_transfer_source_deletion: once a row
\* that moves is a tombstone or gone, nothing outside its journal refers to it.
\* (Before, a restore may make a row outside a duplicate of one that is to move.)
LeasedIsClosed ==
  \A k \in {"import", "export"} : \A t \in Journals(k) : \A a \in transfer[t].ids :
    ~Gets(From[k], a) => Dependents(row[From[k]], a) \subseteq transfer[t].ids

\* An unlock answers with a session only when reconciliation left nothing:
\* no journal, no marker, no staging, no asset in both databases, no blob
\* without a row.
IssuedIsReconciled ==
  \A r \in Requests : At(r, "issue") =>
    /\ Pending = {}
    /\ staged = {}
    /\ \A a \in Assets : ~(Exists("main", a) /\ Exists("vault", a))
    /\ \A x \in blobs : blobRow[x[2]] = x[1]

-----------------------------------------------------------------------------
(* The transfers as moves without loss.                                    *)

\* The blob that the vault's row names, or its staged file while the marker
\* keeps it from being swept or taken back.
Copied(a) ==
  LET t == blobRow[a] IN
  /\ t \in Transfers
  /\ a \in transfer[t].ids
  /\ transfer[t].kind \in {"import", "ingest"}
  /\ <<t, a>> \in blobs \/ (<<t, a>> \in staged /\ transfer[t].marker)

Place(d, a) ==
  CASE row[d][a].lifecycle = "none" -> "absent"
    [] row[d][a].lifecycle = "purging" -> "condemned"
    [] OTHER -> "present"
Whole(d, a) == IF d = "main" THEN plain[a] = "whole" ELSE Copied(a)

\* A thread that found the destination whole is at one of these steps.
Validated == {"ready", "lease", "delete", "drop", "dropped", "unmark"}
IsAt(t, steps) == \E r \in Requests : Now(r) = t /\ request[r].step \in steps
PhaseOf(t) ==
  IF transfer[t].marker
  THEN IF transfer[t].state = "source_database_deleted" \/ IsAt(t, {"dropped"}) THEN "removed"
       ELSE IF IsAt(t, Validated) THEN "checked" ELSE "arrived"
  ELSE CASE transfer[t].state = "preparing" -> "copying"
         [] transfer[t].state = "none" -> "over"
         [] OTHER -> "closing"
\* A direct upload moves nothing.
MoveOf(t) ==
  IF transfer[t].kind \in {"import", "export"}
  THEN [to |-> To[transfer[t].kind], items |-> transfer[t].ids, phase |-> PhaseOf(t)]
  ELSE [to |-> "main", items |-> {}, phase |-> "none"]

Located == [d \in Databases |-> [a \in Assets |-> Place(d, a)]]
Stored == {x \in Databases \X Assets : Whole(x[1], x[2])}
Underway == [t \in Transfers |-> MoveOf(t)]
Promise == INSTANCE MoveWithoutLoss WITH
  Items <- Assets, Moves <- Transfers, at <- Located, stored <- Stored, move <- Underway

\* Every behaviour without overlapping requests is one of moves without loss: a
\* crash, an end of session or a failing step anywhere shows as nothing, as a
\* look to be repeated or as a copy given up, and the source goes only after the
\* destination was seen whole.
ImplementsMove == Promise!Spec

=============================================================================
