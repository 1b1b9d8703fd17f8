---------------------------- MODULE AssetLibrary ----------------------------
(***************************************************************************)
(* The asset library of illumia-core: rows of the `assets` table, manga    *)
(* stacks, the files under library/ and thumbs/, and the purge that        *)
(* deletes both.  It models assets.rs, stacks.rs, purge.rs and the file    *)
(* effects of thumbnails.rs over one database.                             *)
(*                                                                         *)
(* Every database operation of the crate runs inside one process-wide      *)
(* mutex and one SQLite transaction (db.rs), so each is one action.  What  *)
(* interleaves is what the code does outside that mutex: the upload's file *)
(* write, the thumbnail job's read and decode, the gaps between the        *)
(* transactions of a purge, and a crash at any of these points.            *)
(*                                                                         *)
(* Data that no property tells apart is left out: names, dimensions,       *)
(* capture times, titles, chapter titles, thumbhash.  purge_after is       *)
(* reduced to whether it is set and whether the clock has passed it.       *)
(*                                                                         *)
(* An operator Name_Slip beside Name is Name with a slip a maintainer      *)
(* could make; nothing here uses it.  With it in Name's place one of the   *)
(* properties fails, which shows that the property says something.         *)
(***************************************************************************)
EXTENDS Naturals, Sequences, FiniteSetsExt

CONSTANTS
  Assets,       \* the UUIDs that uploads may draw; an id is never drawn twice
  NoAsset,      \* SQL NULL in a column that holds an asset id
  Hashes,       \* BLAKE3 digests
  HashOf,       \* the BLAKE3 hash of the bytes uploaded under each id
  Stacks,       \* ids of manga stacks
  MaxPages,     \* MAX_STACK_PAGES
  MaxChapters,  \* MAX_STACK_CHAPTERS
  Ticker,       \* the thread of run_purge_loop, and of the resume at startup
  ApiCalls      \* concurrent DELETE /api/trash/{id} requests

ASSUME AssetsAssumption ==
  /\ IsFiniteSet(Assets)
  /\ NoAsset \notin Assets
  /\ HashOf \in [Assets -> Hashes]
ASSUME PurgersAssumption == Ticker \notin ApiCalls
ASSUME BoundsAssumption == MaxPages \in Nat /\ MaxChapters \in Nat \ {0}

Purgers == {Ticker} \cup ApiCalls

VARIABLES
  row,       \* the assets table; lifecycle "none" where there is no row
  upload,    \* how far the upload that drew an id has come
  original,  \* ids whose library_path file exists
  derived,   \* ids with a file <id>_t.webp or <id>_p.webp
  rendering, \* ids whose thumbnail job has read the source and not yet stored
  stack,     \* manga_stacks and the number of stack_chapters of each
  page,      \* stack_pages, keyed by its primary key (stack_id, asset_id)
  purger     \* the purges in progress, one per thread

vars == <<row, upload, original, derived, rendering, stack, page, purger>>

-----------------------------------------------------------------------------
(* The tables.                                                             *)

Lifecycles == {"active", "duplicate", "trashed", "purging"}
Timers == {"none", "running", "expired"}

Row == [lifecycle : Lifecycles \cup {"none"}, duplicateOf : Assets \cup {NoAsset},
        trashed : BOOLEAN, timer : Timers, visible : BOOLEAN]
NoRow == [lifecycle |-> "none", duplicateOf |-> NoAsset,
          trashed |-> FALSE, timer |-> "none", visible |-> FALSE]

Page == [chapter : Nat, no : Nat, show : BOOLEAN]
NoPage == [chapter |-> 0, no |-> 0, show |-> FALSE]
Pages == [Assets -> Page]

Stack == [chapters : 0 .. MaxChapters, cover : Assets \cup {NoAsset}]
NoStack == [chapters |-> 0, cover |-> NoAsset]

Phases == {"idle", "startup", "resume", "due", "single"}
Purge == [phase : Phases, todo : SUBSET Assets, checked : Assets \cup {NoAsset}]
Idle == [phase |-> "idle", todo |-> {}, checked |-> NoAsset]

-----------------------------------------------------------------------------
(* What the queries of the code select.                                    *)

PagesOf(pg) == {a \in Assets : pg[a].chapter # 0}
OnPage(a) == \E s \in Stacks : page[s][a].chapter # 0
HasDuplicate(a) == \E d \in Assets : row[d].duplicateOf = a

\* The two NOT EXISTS of every purge statement: I2 and I3 of docs/11.
Referenced(a) == OnPage(a) \/ HasDuplicate(a)

Purging == {a \in Assets : row[a].lifecycle = "purging"}
Live(a) == row[a].lifecycle \in {"active", "duplicate", "trashed"}

Primaries(h) == {p \in Assets : /\ HashOf[p] = h
                                /\ row[p].lifecycle = "active"
                                /\ row[p].duplicateOf = NoAsset}

\* DUE_ASSETS_SQL: the rows past their date, less those something refers to.
Expired == {a \in Assets : /\ row[a].lifecycle \in {"duplicate", "trashed"}
                           /\ row[a].timer = "expired"}
Due == {a \in Expired : ~Referenced(a)}

\* The CASE that recomputes visible_in_timeline (in_timeline is 1 in every
\* row an upload inserts, and nothing updates it).
Shown(lifecycle, pg, a) ==
  /\ lifecycle = "active"
  /\ \A s \in Stacks : pg[s][a].chapter # 0 => pg[s][a].show

RecomputeVisibility(rows, pg, A) ==
  [a \in Assets |-> IF a \in A
                    THEN [rows[a] EXCEPT !.visible = Shown(rows[a].lifecycle, pg, a)]
                    ELSE rows[a]]

PromoteDuplicates(rows, A) ==
  [a \in Assets |-> IF a \in A /\ rows[a].lifecycle = "duplicate"
                    THEN [rows[a] EXCEPT !.lifecycle = "active", !.timer = "none"]
                    ELSE rows[a]]

-----------------------------------------------------------------------------
(* The page lists and chapter lists that a request may carry.              *)

PageLists == UNION {{list \in [1 .. n -> Assets] : IsInjective(list)} : n \in 0 .. MaxPages}

ChapterPages(chapters) == UNION {Range(chapters[c]) : c \in DOMAIN chapters}

ChapterListsUpTo(max) ==
  {chapters \in UNION {[1 .. n -> PageLists] : n \in 1 .. max} :
     /\ \A c, d \in DOMAIN chapters :
          c # d => Range(chapters[c]) \cap Range(chapters[d]) = {}
     /\ Cardinality(ChapterPages(chapters)) <= MaxPages}

ChapterLists == ChapterListsUpTo(MaxChapters)

Position(list, a) == CHOOSE i \in DOMAIN list : list[i] = a

\* insert_pages: number the listed assets from `first`, with their old flags.
InsertPages(pg, chapter, first, list, flags) ==
  [a \in Assets |->
     IF a \in Range(list)
     THEN [chapter |-> chapter, no |-> first + Position(list, a) - 1, show |-> flags[a].show]
     ELSE pg[a]]

NoPages == [a \in Assets |-> NoPage]

\* The page after the last of a chapter: coalesce(max(page_no), 0) + 1.
NextPageNo(pg, chapter) ==
  Max({0} \cup {pg[a].no : a \in {b \in Assets : pg[b].chapter = chapter}}) + 1

RenumberPages_Skipped(pg) == pg

\* renumber_pages: 1, 2, ... in each chapter, in the order of the old numbers.
RenumberPages(pg) ==
  [a \in Assets |->
     IF pg[a].chapter = 0 THEN NoPage
     ELSE [pg[a] EXCEPT !.no = Cardinality({b \in Assets : /\ pg[b].chapter = pg[a].chapter
                                                           /\ pg[b].no <= pg[a].no})]]

\* ORDER BY chapter_no, page_no LIMIT 1, NULL when the stack has no page.
FirstPage(pg) ==
  IF PagesOf(pg) = {} THEN NoAsset
  ELSE CHOOSE a \in PagesOf(pg) :
         \A b \in PagesOf(pg) : \/ pg[a].chapter < pg[b].chapter
                                \/ pg[a].chapter = pg[b].chapter /\ pg[a].no <= pg[b].no

-----------------------------------------------------------------------------
(* A database as the server finds it when it opens it: empty, or left with *)
(* a tombstone by a build that did not check references (the state that    *)
(* restore_blocked_legacy_tombstone is written for): a trashed original    *)
(* whose duplicates still name it, or a page of a stack.                   *)

AllPurging(rows) == {a \in Assets : rows[a].lifecycle = "purging"}
Resuming_Forgetful(phase, rows) == [phase |-> phase, todo |-> {}, checked |-> NoAsset]
Resuming(phase, rows) == [phase |-> phase, todo |-> AllPurging(rows), checked |-> NoAsset]

EmptyTables ==
  /\ row = [a \in Assets |-> NoRow]
  /\ stack = [s \in Stacks |-> NoStack]
  /\ page = [s \in Stacks |-> NoPages]

LegacyDuplicates(p, D) ==
  /\ D # {} /\ \A d \in D : HashOf[d] = HashOf[p]
  /\ row = [a \in Assets |->
       CASE a = p   -> [NoRow EXCEPT !.lifecycle = "purging", !.trashed = TRUE, !.timer = "expired"]
         [] a \in D -> [NoRow EXCEPT !.lifecycle = "duplicate", !.duplicateOf = p, !.timer = "running"]
         [] OTHER   -> NoRow]
  /\ stack = [s \in Stacks |-> NoStack]
  /\ page = [s \in Stacks |-> NoPages]

LegacyPage(p, s, wasTrashed) ==
  /\ row = [a \in Assets |->
       IF a = p
       THEN [NoRow EXCEPT !.lifecycle = "purging", !.trashed = wasTrashed, !.timer = "expired"]
       ELSE NoRow]
  /\ stack = [t \in Stacks |-> IF t = s THEN [chapters |-> 1, cover |-> p] ELSE NoStack]
  /\ page = [t \in Stacks |->
       IF t = s THEN InsertPages(NoPages, 1, 1, <<p>>, NoPages) ELSE NoPages]

Init ==
  /\ \/ EmptyTables
     \/ \E p \in Assets : \E D \in SUBSET (Assets \ {p}) : LegacyDuplicates(p, D)
     \/ \E p \in Assets, s \in Stacks, wasTrashed \in BOOLEAN : LegacyPage(p, s, wasTrashed)
  /\ upload = [a \in Assets |-> IF row[a] = NoRow THEN "unborn" ELSE "done"]
  /\ original = {a \in Assets : row[a] # NoRow}
  /\ derived = original
  /\ rendering = {}
  /\ purger = [w \in Purgers |-> IF w = Ticker THEN Resuming("startup", row) ELSE Idle]

-----------------------------------------------------------------------------
(* The server listens once the purge resumed at startup has finished.      *)
Listening == purger[Ticker].phase # "startup"

Tables == <<row, stack, page>>
Files == <<original, derived>>
InMemory == <<upload, rendering, purger>>

(* AssetService::ingest_at: the file is written before the transaction.    *)
WriteUpload(a) ==
  /\ Listening
  /\ upload[a] = "unborn"
  /\ upload' = [upload EXCEPT ![a] = "written"]
  /\ original' = original \cup {a}
  /\ UNCHANGED <<Tables, derived, rendering, purger>>

CommitUpload(a) ==
  /\ upload[a] = "written"
  /\ upload' = [upload EXCEPT ![a] = "done"]
  /\ \/ /\ Primaries(HashOf[a]) = {}
        /\ row' = [row EXCEPT ![a] = [NoRow EXCEPT !.lifecycle = "active", !.visible = TRUE]]
     \/ \E p \in Primaries(HashOf[a]) :
          row' = [row EXCEPT ![a] = [NoRow EXCEPT !.lifecycle = "duplicate",
                                                  !.duplicateOf = p, !.timer = "running"]]
  /\ UNCHANGED <<stack, page, Files, rendering, purger>>

\* Any error of the transaction: the file just written is removed again.
FailUpload(a) ==
  /\ upload[a] = "written"
  /\ upload' = [upload EXCEPT ![a] = "done"]
  /\ original' = original \ {a}
  /\ UNCHANGED <<Tables, derived, rendering, purger>>

(* AssetService::trash_at, also of a row that is in the trash already.     *)
Trash(a) ==
  /\ Listening
  /\ Live(a)
  /\ row' = [row EXCEPT ![a] = [@ EXCEPT !.lifecycle = "trashed", !.trashed = TRUE,
                                         !.timer = "running", !.visible = FALSE]]
  /\ UNCHANGED <<stack, page, Files, InMemory>>

(* AssetService::restore_at.                                               *)
RestoreDuplicate(a) ==
  /\ Listening
  /\ row[a].lifecycle = "trashed"
  /\ row[a].duplicateOf # NoAsset
  /\ row' = [row EXCEPT ![a] = [@ EXCEPT !.lifecycle = "duplicate", !.trashed = FALSE,
                                         !.timer = "running", !.visible = FALSE]]
  /\ UNCHANGED <<stack, page, Files, InMemory>>

\* A primary uploaded while a was in the trash becomes a duplicate of a, and
\* so does every duplicate of it.
Replacement(a) == Primaries(HashOf[a]) \ {a}
Redirect(A, a) == [b \in Assets |-> IF b \in A THEN [row[b] EXCEPT !.duplicateOf = a] ELSE row[b]]
Followers(a) == {b \in Assets : row[b].duplicateOf \in Replacement(a)}

Reparented_FollowersOnly(a) == Redirect(Followers(a), a)
Reparented_PrimaryOnly(a) == Redirect(Replacement(a), a)
Reparented(a) == Redirect(Followers(a) \cup Replacement(a), a)

RestorePrimary(a) ==
  /\ Listening
  /\ row[a].lifecycle = "trashed"
  /\ row[a].duplicateOf = NoAsset
  /\ row' = [Reparented(a) EXCEPT ![a] = [@ EXCEPT !.lifecycle = "active", !.trashed = FALSE,
                                                   !.timer = "none",
                                                   !.visible = Shown("active", page, a)]]
  /\ UNCHANGED <<stack, page, Files, InMemory>>

\* The clock passes the purge_after of a row.
Expire(a) ==
  /\ row[a].timer = "running"
  /\ row' = [row EXCEPT ![a].timer = "expired"]
  /\ UNCHANGED <<stack, page, Files, InMemory>>

-----------------------------------------------------------------------------
(* StackService.                                                           *)

ValidAssets_AnyRow(A) == \A a \in A : row[a].lifecycle # "none"
ValidAssets(A) == \A a \in A : Live(a)
StackExists(s) == stack[s].chapters # 0
SetPages(s, pg) == page' = [page EXCEPT ![s] = pg]

UpdateRows_NewPagesOnly(promoted, affected) ==
  row' = RecomputeVisibility(PromoteDuplicates(row, promoted), page', promoted)

\* promote_duplicates(promoted), then recompute_visibility(affected).
UpdateRows(promoted, affected) ==
  row' = RecomputeVisibility(PromoteDuplicates(row, promoted), page', affected)

CreateStack(s, list) ==
  /\ Listening
  /\ ~StackExists(s)
  /\ ValidAssets(Range(list))
  /\ stack' = [stack EXCEPT ![s] = [chapters |-> 1,
                                    cover |-> IF list = <<>> THEN NoAsset ELSE list[1]]]
  /\ SetPages(s, InsertPages(NoPages, 1, 1, list, NoPages))
  /\ UpdateRows(Range(list), Range(list))
  /\ UNCHANGED <<Files, InMemory>>

AddPages(s, list, chapter) ==
  /\ Listening
  /\ StackExists(s)
  /\ list # <<>>
  /\ chapter \in 1 .. stack[s].chapters
  /\ Cardinality(PagesOf(page[s])) + Len(list) <= MaxPages
  /\ ValidAssets(Range(list))
  /\ Range(list) \cap PagesOf(page[s]) = {}
  /\ SetPages(s, InsertPages(page[s], chapter, NextPageNo(page[s], chapter), list, NoPages))
  /\ UpdateRows(Range(list), Range(list))
  /\ stack' = [stack EXCEPT ![s].cover = IF @ = NoAsset THEN list[1] ELSE @]
  /\ UNCHANGED <<Files, InMemory>>

RemovePage(s, a) ==
  /\ Listening
  /\ StackExists(s)
  /\ a \in PagesOf(page[s])
  /\ SetPages(s, RenumberPages([page[s] EXCEPT ![a] = NoPage]))
  /\ UpdateRows({}, {a})
  /\ stack' = [stack EXCEPT ![s].cover = IF @ = a THEN FirstPage(page'[s]) ELSE @]
  /\ UNCHANGED <<Files, InMemory>>

PlaceChapters(chapters, flags) ==
  [a \in Assets |->
     IF a \in ChapterPages(chapters)
     THEN LET c == CHOOSE c \in DOMAIN chapters : a \in Range(chapters[c])
          IN  InsertPages(NoPages, c, 1, chapters[c], flags)[a]
     ELSE NoPage]

ReplaceStructure(s, chapters) ==
  /\ Listening
  /\ StackExists(s)
  /\ ValidAssets(ChapterPages(chapters))
  /\ SetPages(s, PlaceChapters(chapters, page[s]))
  /\ UpdateRows(ChapterPages(chapters), PagesOf(page[s]) \cup ChapterPages(chapters))
  /\ stack' = [stack EXCEPT ![s] =
       [chapters |-> Len(chapters),
        cover |-> IF @.cover \in ChapterPages(chapters) THEN @.cover ELSE FirstPage(page'[s])]]
  /\ UNCHANGED <<Files, InMemory>>

SetPageFlag(s, a, show) ==
  /\ Listening
  /\ StackExists(s)
  /\ a \in PagesOf(page[s])
  /\ SetPages(s, [page[s] EXCEPT ![a].show = show])
  /\ UpdateRows({}, {a})
  /\ UNCHANGED <<stack, Files, InMemory>>

SetCover(s, a) ==
  /\ Listening
  /\ a \in PagesOf(page[s])
  /\ stack' = [stack EXCEPT ![s].cover = a]
  /\ UNCHANGED <<row, page, Files, InMemory>>

DeleteStack(s) ==
  /\ Listening
  /\ StackExists(s)
  /\ stack' = [stack EXCEPT ![s] = NoStack]
  /\ SetPages(s, NoPages)
  /\ UpdateRows({}, PagesOf(page[s]))
  /\ UNCHANGED <<Files, InMemory>>

-----------------------------------------------------------------------------
(* generate_thumbnails: the row is looked up and the source read without   *)
(* the database mutex being held over both; the row is looked up again     *)
(* under the mutex before anything is written.                             *)

ReadSource(a) ==
  /\ Listening
  /\ Live(a)
  /\ a \in original \ (derived \cup rendering)
  /\ rendering' = rendering \cup {a}
  /\ UNCHANGED <<Tables, Files, upload, purger>>

StoreDerived_Unchecked(a) ==
  /\ a \in rendering
  /\ rendering' = rendering \ {a}
  /\ derived' = derived \cup {a}
  /\ UNCHANGED <<Tables, original, upload, purger>>

StoreDerived(a) ==
  /\ a \in rendering
  /\ rendering' = rendering \ {a}
  /\ derived' = IF Live(a) THEN derived \cup {a} ELSE derived
  /\ UNCHANGED <<Tables, original, upload, purger>>

-----------------------------------------------------------------------------
(* PurgeService.  A purge works through a list of tombstones, and spends   *)
(* two transactions on each.                                               *)

\* run_due_at begins with resume_purging.
RunDue ==
  /\ purger[Ticker] = Idle
  /\ purger' = [purger EXCEPT ![Ticker] = Resuming("resume", row)]
  /\ UNCHANGED <<Tables, Files, upload, rendering>>

\* ... and goes on with mark_due_as_purging.
MarkAndList(A) ==
  /\ purger[Ticker].phase = "resume"
  /\ purger[Ticker].todo = {}
  /\ row' = [a \in Assets |->
       IF a \in A THEN [row[a] EXCEPT !.lifecycle = "purging", !.visible = FALSE] ELSE row[a]]
  /\ purger' = [purger EXCEPT ![Ticker] = [phase |-> "due", todo |-> A, checked |-> NoAsset]]
  /\ UNCHANGED <<stack, page, Files, upload, rendering>>

MarkDue_DuplicatesOnly == MarkAndList({a \in Due : row[a].lifecycle = "duplicate"})
MarkDue == MarkAndList(Due)

PurgeNow(w, a) ==
  /\ Listening
  /\ w \in ApiCalls
  /\ purger[w] = Idle
  /\ row[a].lifecycle \in {"duplicate", "trashed"}
  /\ ~Referenced(a)
  /\ row' = [row EXCEPT ![a] = [@ EXCEPT !.lifecycle = "purging", !.visible = FALSE]]
  /\ purger' = [purger EXCEPT ![w] = [phase |-> "single", todo |-> {a}, checked |-> NoAsset]]
  /\ UNCHANGED <<stack, page, Files, upload, rendering>>

\* The lifecycle a tombstone goes back to when something references it.
FormerLifecycle(a) ==
  CASE row[a].trashed -> "trashed"
    [] ~row[a].trashed /\ OnPage(a) -> "active"
    [] ~row[a].trashed /\ ~OnPage(a) /\ row[a].duplicateOf # NoAsset -> "duplicate"
    [] OTHER -> "trashed"

\* finish_purging, first transaction: restore_blocked_legacy_tombstone.
CheckTombstone(w, a) ==
  /\ a \in purger[w].todo
  /\ purger[w].checked = NoAsset
  /\ \/ /\ row[a].lifecycle = "purging" /\ Referenced(a)
        /\ row' = [row EXCEPT ![a] = [@ EXCEPT !.lifecycle = FormerLifecycle(a),
                     !.visible = /\ ~row[a].trashed /\ OnPage(a)
                                 /\ Shown("active", page, a)]]
        /\ purger' = [purger EXCEPT ![w].todo = @ \ {a}]
     \/ /\ ~(row[a].lifecycle = "purging" /\ Referenced(a))
        /\ purger' = [purger EXCEPT ![w].checked = a]
        /\ UNCHANGED row
  /\ UNCHANGED <<stack, page, Files, upload, rendering>>

Erasable(a) == row[a].lifecycle = "purging" /\ ~Referenced(a)

\* A thread whose purge returned an error; at startup the process exits and
\* its next start resumes again.
Stopped(w) == IF purger[w].phase = "startup" THEN Resuming("startup", row) ELSE Idle

\* finish_purging, second transaction: the files first, then the row.
Erase(w, a) ==
  /\ purger[w].checked = a
  /\ Erasable(a)
  /\ original' = original \ {a}
  /\ derived' = derived \ {a}
  /\ row' = [row EXCEPT ![a] = NoRow]
  /\ purger' = [purger EXCEPT ![w].todo = @ \ {a}, ![w].checked = NoAsset]
  /\ UNCHANGED <<stack, page, upload, rendering>>

\* An I/O error or a failing DELETE rolls the row back, not the files
\* removed so far: the original goes first, then the derived images.
EraseFails(w, a) ==
  /\ purger[w].checked = a
  /\ Erasable(a)
  /\ \/ UNCHANGED Files
     \/ original' = original \ {a} /\ UNCHANGED derived
     \/ original' = original \ {a} /\ derived' = derived \ {a}
  /\ purger' = [purger EXCEPT ![w] = Stopped(w)]
  /\ UNCHANGED <<Tables, upload, rendering>>

\* Another thread has finished the row since it was listed: AssetNotFound,
\* and the rest of this thread's list is abandoned.
EraseLost(w, a) ==
  /\ purger[w].checked = a
  /\ ~Erasable(a)
  /\ purger' = [purger EXCEPT ![w] = Stopped(w)]
  /\ UNCHANGED <<Tables, Files, upload, rendering>>

EndPurge(w) ==
  /\ purger[w].phase \in {"startup", "due", "single"}
  /\ purger[w].todo = {}
  /\ purger' = [purger EXCEPT ![w] = Idle]
  /\ UNCHANGED <<Tables, Files, upload, rendering>>

-----------------------------------------------------------------------------
(* A crash or a shutdown at any point, and the next start: what is not in  *)
(* the database or on the disk is gone.  A kill inside Erase's transaction *)
(* leaves what EraseFails leaves.                                          *)
Crash ==
  /\ upload' = [a \in Assets |-> IF upload[a] = "written" THEN "done" ELSE upload[a]]
  /\ rendering' = {}
  /\ purger' = [w \in Purgers |-> IF w = Ticker THEN Resuming("startup", row) ELSE Idle]
  /\ UNCHANGED <<Tables, Files>>

UploadStep(a) == WriteUpload(a) \/ CommitUpload(a) \/ FailUpload(a)
AssetStep(a) == Trash(a) \/ RestoreDuplicate(a) \/ RestorePrimary(a) \/ Expire(a)
ThumbnailStep(a) == ReadSource(a) \/ StoreDerived(a)

StackStep(s) ==
  \/ \E list \in PageLists : CreateStack(s, list)
  \/ \E list \in PageLists, chapter \in 1 .. MaxChapters : AddPages(s, list, chapter)
  \/ \E chapters \in ChapterLists : ReplaceStructure(s, chapters)
  \/ \E a \in Assets : \/ RemovePage(s, a)
                       \/ SetCover(s, a)
                       \/ \E show \in BOOLEAN : SetPageFlag(s, a, show)
  \/ DeleteStack(s)

PurgeStep(w) ==
  \/ \E a \in Assets : CheckTombstone(w, a) \/ Erase(w, a) \/ EraseLost(w, a)
  \/ EndPurge(w)

Work ==
  \/ \E a \in Assets : UploadStep(a) \/ AssetStep(a) \/ ThumbnailStep(a)
  \/ \E s \in Stacks : StackStep(s)
  \/ \E w \in Purgers : PurgeStep(w) \/ \E a \in Assets : PurgeNow(w, a)
  \/ RunDue \/ MarkDue

Fault == Crash \/ \E w \in Purgers, a \in Assets : EraseFails(w, a)

Next == Work \/ Fault

Spec == Init /\ [][Next]_vars

-----------------------------------------------------------------------------
(* Fairness.  run_purge_loop ticks for as long as the process lives, and a *)
(* thread inside a purge goes on.  Nothing obliges a user to do anything.  *)
Fairness ==
  /\ WF_vars(RunDue)
  /\ WF_vars(MarkDue)
  /\ \A w \in Purgers : WF_vars(PurgeStep(w))

-----------------------------------------------------------------------------
(* Invariants.                                                             *)

\* Every variable has its type.
TypeOK ==
  /\ row \in [Assets -> Row]
  /\ upload \in [Assets -> {"unborn", "written", "done"}]
  /\ original \in SUBSET Assets
  /\ derived \in SUBSET Assets
  /\ rendering \in SUBSET Assets
  /\ stack \in [Stacks -> Stack]
  /\ page \in [Stacks -> Pages]
  /\ purger \in [Purgers -> Purge]

\* I2, I3, I5: an asset the user can still see, a page of a stack and the
\* original that a duplicate names keep both their row and their file,
\* whatever purges, crashes and half-finished deletions there have been
\* (purge.rs deletes files before rows).
NeededIsStored ==
  \A a \in Assets : Live(a) \/ Referenced(a) => row[a].lifecycle # "none" /\ a \in original

\* Once the server listens no tombstone is referenced, so every purge that
\* was begun can be completed: uploads, restores and stack edits that run
\* between the mark and the deletion never come to depend on the row.
TombstonesAreFree ==
  Listening => \A a \in Purging : ~Referenced(a)

\* duplicate_of always names a row with the same hash that is not itself a
\* duplicate: the re-parenting in restore_at leaves no chain, no dangling
\* reference and no cycle, in whatever order rows are trashed and restored.
DuplicatesNameAnOriginal ==
  \A d \in Assets : row[d].duplicateOf # NoAsset =>
    LET p == row[d].duplicateOf
    IN  row[p].lifecycle # "none" /\ row[p].duplicateOf = NoAsset /\ HashOf[p] = HashOf[d]

\* The partial UNIQUE index ux_assets_hash_primary never rejects a write:
\* no sequence of uploads, restores and promotions makes two primaries.
OnePrimaryPerHash ==
  \A a, b \in Assets : a \in Primaries(HashOf[b]) /\ b \in Primaries(HashOf[a]) => a = b

\* visible_in_timeline, which no query derives, is what its definition says
\* in every row: no operation forgets to recompute it (I6, docs/02).
VisibleIsExact ==
  \A a \in Assets : row[a].visible <=> Shown(row[a].lifecycle, page, a)

\* Pages are numbered 1, 2, ... in each chapter of the stack, so UNIQUE
\* (chapter_id, page_no) never rejects an insertion; a stack has a cover iff
\* it has pages, and the cover is one of them, so that the foreign key on
\* cover_asset_id never blocks the deletion of a purged asset.
StacksAreWellFormed ==
  \A s \in Stacks :
    /\ \A c \in 1 .. MaxChapters :
         LET inChapter == {a \in PagesOf(page[s]) : page[s][a].chapter = c}
         IN  {page[s][a].no : a \in inChapter} = 1 .. Cardinality(inChapter)
    /\ \A a \in PagesOf(page[s]) : page[s][a].chapter <= stack[s].chapters
    /\ IF PagesOf(page[s]) = {} THEN stack[s].cover = NoAsset
                                ELSE stack[s].cover \in PagesOf(page[s])

\* A thumbnail job never leaves an image of an asset whose row is gone: it
\* rechecks the row under the mutex that the deletion of files holds.
DerivedHasRow ==
  \A a \in derived : row[a].lifecycle # "none"

-----------------------------------------------------------------------------
(* Action properties.                                                      *)

Copies(h) == {a \in Assets : HashOf[a] = h /\ row[a].lifecycle # "none"}

\* The last stored copy of an image only ever disappears out of the trash:
\* expiring duplicates never takes away bytes that the user has not deleted.
LastCopyWasTrashed ==
  [][\A h \in Hashes : Copies(h) # {} /\ Copies(h)' = {} =>
       \A a \in Copies(h) : row[a].trashed]_vars

-----------------------------------------------------------------------------
(* The promise this library implements.                                    *)

AbstractState(a) ==
  CASE row[a].lifecycle = "none" -> "absent"
    [] row[a].lifecycle = "purging" -> "condemned"
    [] OTHER -> "kept"

Promise == INSTANCE ReferenceSafeDeletion WITH
  Things <- Assets,
  state <- [a \in Assets |-> AbstractState(a)],
  needed <- {a \in Assets : Referenced(a)},
  stored <- original

\* Every behaviour of the library is a reference-safe deletion: whatever
\* uploads, restores, stack edits, purges and crashes interleave, a thing
\* is marked and erased only while nothing refers to it, and nothing comes
\* to refer to a thing that is marked.
ImplementsPromise == Promise!Spec

-----------------------------------------------------------------------------
(* Liveness, under Fairness when faults are finitely many.                 *)

\* A deletion that was begun is finished in the end, across crashes, I/O
\* errors and two threads finishing the same row.
TombstonesDrain ==
  \A a \in Assets : row[a].lifecycle = "purging" ~> row[a].lifecycle # "purging"

\* A row whose date has passed is purged in the end, unless it is taken
\* back or something comes to reference it.
ExpiredIsPurged ==
  \A a \in Assets : a \in Due ~> a \notin Due
=============================================================================
