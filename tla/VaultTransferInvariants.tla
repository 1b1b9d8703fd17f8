------------------------ MODULE VaultTransferInvariants ------------------------
(***************************************************************************)
(* The inductive invariants behind the theorems of VaultTransferProofs.    *)
(***************************************************************************)
EXTENDS VaultTransfer

-----------------------------------------------------------------------------
(* Types.  A transfer keeps its kind and its ids, and a thread that has one *)
(* in hand names one that was begun, of a kind that its step is for.        *)

Staging == {"stage", "write", "abort"}
Undoing == {"undo", "unlink", "forget"}
Deleting == {"ready", "lease", "delete", "drop", "dropped"}
Completing == {"complete", "finalize", "validate", "unmark", "close"} \cup Deleting
Handling == Staging \cup Undoing \cup Completing \cup {"clear"}

\* What a thread's record q may be, given the transfers tr, of which n were begun.
Sound(q, tr, n) ==
  /\ q \in Request
  /\ q.own <= n
  /\ \A x \in q.todo : x[1] <= n
  /\ q.step \in {"list", "next", "sweep", "sweeping"} =>
       q.own = 0 /\ q.kind \in {"unlock", "import", "export"}
  /\ q.step \in {"prepare", "open"} => q.own = 0 /\ q.kind \in {"import", "export"}
  /\ q.step \in Handling =>
       /\ q.t \in 1 .. n
       /\ \/ q.own = q.t /\ q.kind = tr[q.t].kind /\ q.ids = tr[q.t].ids
          \/ q.own = 0 /\ q.kind \in {"unlock", "import", "export"}
  /\ q.step \in Staging => q.own = q.t
  /\ q.step \in Undoing => tr[q.t].kind \in {"import", "export"}
  /\ q.step \in Deleting \cup {"close"} => tr[q.t].kind # "ingest"
  /\ q.step \in {"finalize", "clear"} => tr[q.t].kind # "export"
  /\ q.step = "write" => q.kind = "export" /\ q.file \in Assets
  /\ q.step = "unlink" => q.file \in Assets

Begun(tr, n) ==
  /\ tr \in [Transfers -> Transfer]
  /\ \A t \in Transfers : t <= n <=> tr[t].kind # "none"
  /\ \A t \in Transfers : tr[t].kind = "none" => tr[t] = NoTransfer

ThreadsAreSound == \A r \in Requests : Sound(request[r], transfer, created)
\* MayDraw keeps room for every request that has yet to draw its transfer.
RoomToDraw == created + Cardinality(Undrawn) <= MaxTransfers

TypeInv == TypeOK /\ Begun(transfer, created) /\ ThreadsAreSound /\ RoomToDraw

-----------------------------------------------------------------------------
(* One request at a time.  What a thread has read stays true until it is   *)
(* used, so that the code between two transactions finds what it expects.  *)

OneAtATime == \A r, s \in Requests : r = s

\* A transfer that reconciliation can go on with: its journal is there, or it
\* is a direct upload, which has none.
Alive(tr, t) == tr[t].kind = "ingest" \/ tr[t].state # "none"

\* Every transfer that a thread listed or has in hand is alive, and is met once.
Stands(q, tr) ==
  /\ q.step # "sweeping" =>
       /\ \A x \in q.todo : Alive(tr, x[1])
       /\ \A x, y \in q.todo : x[1] = y[1] => x = y
       /\ q.step \in Handling => \A x \in q.todo : x[1] # q.t
  /\ q.step \in Handling \ {"clear"} => Alive(tr, q.t)

VaultRowsHaveBytes == \A a \in Assets : Gets("vault", a) => Copied(a)
\* A file may be missing or cut short only while the vault has the asset.
MainRowsHaveBytes ==
  \A a \in Assets : Exists("main", a) /\ plain[a] # "whole" => Gets("vault", a)

\* What the step of a thread relies on.
Holds(q) ==
  /\ q.step = "sweeping" =>
       \A t \in Markers("import") \cup Markers("ingest") : <<t, "none">> \in q.todo
  /\ q.step \in {"open"} \cup Staging /\ q.kind = "export" => \A a \in q.ids : Gets("vault", a)
  /\ q.step \in Staging => q.left \subseteq q.ids
  /\ q.step = "write" => q.file \in q.ids
  /\ q.step \in Staging \cup Undoing => ~transfer[q.t].marker
  /\ q.step = "stage" /\ q.kind # "export" => \A a \in q.ids \ q.left : <<q.t, a>> \in staged
  /\ q.step = "unlink" => Gets("vault", q.file)
  /\ q.step = "finalize" => \A a \in transfer[q.t].ids \ q.left : blobRow[a] # 0 => BlobHere(a)
  /\ q.step \in Deleting /\ transfer[q.t].kind = "export" =>
       \A a \in transfer[q.t].ids : Exists("main", a) => plain[a] = "whole"
  /\ q.step = "delete" => q.left \subseteq transfer[q.t].ids
  /\ q.step = "delete" /\ transfer[q.t].kind = "export" =>
       \A a \in transfer[q.t].ids : ~Gets("vault", a)
  /\ q.step \in Deleting \cup {"unmark", "close", "clear"} /\ transfer[q.t].kind # "export" =>
       \A a \in transfer[q.t].ids : Gets("vault", a) /\ BlobHere(a)

Fine(r) == Stands(request[r], transfer) /\ Holds(request[r])
HasBytes == VaultRowsHaveBytes /\ MainRowsHaveBytes
CopyInv == HasBytes /\ \A r \in Requests : Fine(r)

-----------------------------------------------------------------------------
(* What reconciliation leaves, one request at a time.                      *)

\* Whatever is in a database or moves was uploaded once: no upload brings it again.
KnownOnce ==
  /\ \A d \in Databases, a \in Assets : Exists(d, a) => a \in known
  /\ \A t \in Transfers : transfer[t].ids \subseteq known
Knows(q) ==
  /\ q.step \in {"open"} \cup Staging => q.ids \subseteq known
  /\ q.step \in {"open", "stage", "write"} /\ q.kind # "ingest" =>
       \A a \in q.ids : q.rows[a].lifecycle # "none"

\* How far the transfer in hand is.
JournalsFit ==
  \A t \in Transfers :
    /\ transfer[t].kind = "ingest" => transfer[t].state = "none"
    /\ transfer[t].kind # "ingest" /\ transfer[t].marker => transfer[t].state # "none"
FilesGone == {"source_files_deleted", "source_database_deleted"}
Progress(q) ==
  LET tr == transfer[q.t] IN
  /\ q.step # "sweeping" => \A x \in q.todo : x[2] = transfer[x[1]].state
  /\ q.step \in Staging \cup {"complete", "finalize", "validate", "ready"} /\ tr.kind # "ingest" =>
       tr.state = q.state
  /\ q.step \in Staging /\ tr.kind # "ingest" => q.state = "preparing"
  /\ q.step \in {"drop", "dropped"} => tr.state \in FilesGone
  /\ q.step = "unmark" /\ tr.kind # "ingest" => tr.state = "source_database_deleted"
  /\ q.step \in {"close", "clear"} => ~tr.marker
  /\ q.step = "clear" /\ tr.kind = "import" => tr.state = "none"

\* What reconciliation has yet to meet of the list it is at, and what the lists
\* before have left.
Unmet(q) == {x[1] : x \in q.todo} \cup {t \in {q.t} : q.step \in Handling}
Sweeps == {"sweep", "sweeping"}
Starts == {"issue", "prepare", "open"} \cup Staging
Listing(q) ==
  /\ q.step \in Sweeps => q.kind = "unlock" /\ q.phase = "import"
  /\ q.step = "issue" \/ q.phase = "open" => q.kind = "unlock"
  /\ q.step \in Starts => q.phase = "none"
  /\ q.phase \in {"open", "ingest"} /\ q.step # "list" => Markers("ingest") \subseteq Unmet(q)
  /\ q.phase = "import" /\ q.step \notin {"list"} \cup Sweeps => Journals("import") \subseteq Unmet(q)
  /\ q.phase = "export" /\ q.step # "list" => Journals("export") \subseteq Unmet(q)
  /\ q.step \in Sweeps \cup {"issue"} => Markers("ingest") = {}
  /\ q.step = "sweeping" =>
       \A x \in q.todo : x[1] \in Markers("import") \cup Markers("ingest") \cup Journals("export")
  /\ q.phase \in {"export", "ingest"} \/ q.step = "issue" => Journals("import") = {}
  /\ q.kind = "import" /\ q.step \in {"prepare", "open"} => Journals("import") = {}
  /\ q.phase = "ingest" \/ (q.kind \in {"unlock", "import"} /\ q.step \in Starts) => Journals("export") = {}
  /\ q.kind = "export" /\ q.step \in {"prepare", "open"} => Journals("export") = {}

\* Once it has swept, an unlock finds only staging that it will come to.
StagedKinds == \A x \in staged : transfer[x[1]].kind \in {"import", "ingest"}
Swept(q) ==
  /\ q.kind = "unlock"
  /\ q.step \notin Sweeps
  /\ q.step = "issue" \/ q.phase \in {"import", "export", "ingest"}
Clean(q) ==
  /\ Swept(q) => \A x \in staged : x[1] \in Journals("import") \/ (q.step = "clear" /\ x[1] = q.t)
  /\ q.step = "forget" => StagedBy(q.t) = {}

\* A blob is named by its row, and an export's are gone before the rows go.
BlobsAreNamed == \A x \in blobs : blobRow[x[2]] = x[1]
BlobsHaveRows == \A a \in Assets : blobRow[a] <= created /\ (blobRow[a] # 0 => Exists("vault", a))
BlobOnce == staged \cap blobs = {}
ExportsAreFinal ==
  \A t \in Journals("export") : \A a \in transfer[t].ids :
    /\ <<blobRow[a], a>> \notin staged
    /\ transfer[t].state \in FilesGone => <<blobRow[a], a>> \notin blobs
Places(q) ==
  /\ q.step \in Staging => \A a \in Assets : blobRow[a] # q.t
  /\ q.step \in Staging /\ q.kind = "ingest" =>
       \A t \in Transfers \ {q.t} : transfer[t].ids \cap q.ids = {}
  /\ q.step = "open" /\ q.kind = "export" => \A a \in q.ids : BlobHere(a)
  /\ q.step = "delete" /\ transfer[q.t].kind = "export" =>
       \A a \in transfer[q.t].ids \ q.left : <<blobRow[a], a>> \notin blobs

\* Between the commit in the destination and the end of the source rows an
\* asset is in both databases, and a marked transfer knows it.
BothAreMarked ==
  \A a \in Assets : Exists("main", a) /\ Exists("vault", a) =>
    \E t \in Transfers : /\ a \in transfer[t].ids /\ transfer[t].kind # "ingest"
                         /\ transfer[t].marker /\ transfer[t].state # "source_database_deleted"
Parted(q) ==
  /\ q.step = "dropped" => \A a \in transfer[q.t].ids : ~Exists(From[transfer[q.t].kind], a)
  /\ q.step \in Staging /\ q.kind = "ingest" => \A a \in q.ids : ~Exists("main", a)

Orderly(q) == Knows(q) /\ Progress(q) /\ Listing(q) /\ Clean(q) /\ Places(q) /\ Parted(q)
Settled ==
  /\ KnownOnce /\ JournalsFit /\ StagedKinds
  /\ BlobsAreNamed /\ BlobsHaveRows /\ BlobOnce /\ ExportsAreFinal /\ BothAreMarked
\* A database has at most one journal of the transfers from it: whoever writes
\* one has reconciled, or found none.
OneJournal == \A k \in {"import", "export"} : \A t, u \in Journals(k) : t = u
\* ux_assets_hash_primary, in both databases.
UniqueRows == \A d \in Databases : UniquePrimaries(row[d])
ReconInv == Settled /\ \A r \in Requests : Orderly(request[r])

-----------------------------------------------------------------------------
(* What a crash leaves, one request at a time.                             *)

OnePending == \A t, u \in Pending : t = u

\* What a marker promises, without the blobs, which CopyInv has.
Promised ==
  \A t \in Transfers : transfer[t].marker =>
    \A a \in transfer[t].ids :
      IF transfer[t].kind = "export" THEN Gets("main", a) /\ plain[a] = "whole" ELSE Gets("vault", a)

\* The library's tombstones are the rows that an import leased.
TombstonesAreLeased ==
  \A a \in Assets : row["main"][a].lifecycle = "purging" => Gets("vault", a)

Committed == {"complete", "finalize", "validate", "unmark"} \cup Deleting

\* A request has at most its own transfer pending, and while there is a session
\* it comes to its end; an unlock that is abandoned had nothing to do.
Alone(q) ==
  /\ q.step = "idle" => q.kind \notin Kinds
  /\ q.kind \notin Kinds /\ session => Pending = {}
  /\ q.kind \in Kinds =>
       /\ Pending \subseteq {q.own}
       /\ session => q.live
       /\ q.own = 0 => q.todo = {} /\ q.step \notin Handling
       /\ q.step \notin {"undo", "unlink"}
       /\ q.step \in Committed => transfer[q.t].marker

\* What was prepared and staged is what the commit promises.
Provided(q) ==
  /\ q.step \in {"open", "stage", "write"} /\ q.kind # "ingest" =>
       \A a \in q.ids : q.rows[a].lifecycle # "purging"
  /\ q.step \in {"stage", "write"} /\ q.kind = "export" => \A a \in q.ids \ q.left : plain[a] = "whole"
  /\ q.step = "write" => plain[q.file] # "absent"
  /\ q.step = "finalize" /\ q.kind \in Kinds => q.left \subseteq transfer[q.t].ids
  /\ q.step = "validate" /\ q.kind \in Kinds /\ q.kind # "export" =>
       \A a \in transfer[q.t].ids : BlobHere(a)

Kept == OnePending /\ Promised /\ TombstonesAreLeased
PromiseInv == Kept /\ \A r \in Requests : Alone(request[r]) /\ Provided(request[r])

-----------------------------------------------------------------------------
(* What makes the transfers moves without loss, one request at a time.     *)

\* What was prepared has rows to move; the marker stays until its own step, and
\* the journal says whether the source rows are gone.
Forward(q) ==
  /\ q.step \in {"open", "stage", "write"} /\ q.kind # "ingest" =>
       \A a \in q.ids : q.rows[a].lifecycle # "purging"
  /\ q.step \in {"finalize", "validate"} \cup Validated /\ transfer[q.t].kind # "ingest" =>
       transfer[q.t].marker
  /\ q.step \in {"lease", "delete", "drop"} => transfer[q.t].state # "source_database_deleted"
  /\ q.step = "close" => transfer[q.t].state = "source_database_deleted"
MoveInv == \A r \in Requests : Forward(request[r])

=============================================================================
