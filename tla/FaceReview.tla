------------------------------ MODULE FaceReview ------------------------------
(***************************************************************************)
(* The faces an analysis finds, the clusters they are grouped into and the *)
(* user's verdicts about them: MlService (ml.rs), what it accepts from the *)
(* sidecar (ml_client.rs), and the rows that follow an asset between the   *)
(* main library and the vault (collect_relations, insert_relations and     *)
(* delete_assets_from_database_idempotent of vault.rs).                    *)
(*                                                                         *)
(* A job or request is a thread.  It reads the database, waits for the     *)
(* sidecar and writes in a later transaction, so everything it writes is   *)
(* computed from rows that others may have changed meanwhile.  The sidecar *)
(* may answer anything validate_cluster_response lets through, or nothing. *)
(* Embeddings, boxes and similarities are left out: which medoid is        *)
(* nearest is the sidecar's choice.  The two libraries have the same       *)
(* tables and run the same code on them.                                   *)
(*                                                                         *)
(* Operators Name_Slip beside Name are plausible slips; nothing uses them. *)
(***************************************************************************)
EXTENDS Naturals, FiniteSets

CONSTANTS
  Threads,      \* job workers and request threads
  Assets,
  NoAsset,
  Models,       \* versions of the model bundle; the sidecar may change it at any time
  NoModel,
  Active,       \* libraries in which jobs and requests run
  MaxMoves,     \* bound of the model: transfers ever begun
  MaxFaces,     \* bound of the model: faces ever found
  MaxClusters,  \* bound of the model: clusters ever opened
  MinSize,      \* the setting ml.min_cluster_size
  RowBudget     \* MAX_CLUSTER_ROWS

ASSUME FaceReviewAssumption ==
  /\ {MaxFaces, MaxClusters, MinSize, RowBudget} \subseteq Nat \ {0}
  /\ MaxMoves \in Nat /\ Active \subseteq {"main", "vault"}
  /\ NoAsset \notin Assets /\ NoModel \notin Models

VARIABLES
  asset,     \* table assets of each library: none, kept, or leased (purging)
  face,      \* table faces
  cluster,   \* table clusters
  rejected,  \* table cluster_rejections
  faces,     \* how many face ids were drawn
  clusters,  \* how many cluster ids were drawn
  moves,     \* how many transfers were begun
  thread     \* what each thread is at

tables == <<asset, face, cluster, rejected>>
vars == <<asset, face, cluster, rejected, faces, clusters, moves, thread>>

-----------------------------------------------------------------------------
(* Rows and threads.                                                       *)

Libraries == {"main", "vault"}
Other(d) == CHOOSE e \in Libraries : e # d
Faces == 1 .. MaxFaces
Clusters == 1 .. MaxClusters
Null == 0  \* SQL NULL in a column that names a face or a cluster

States == {"unassigned", "auto", "candidate", "confirmed", "rejected"}
Members == {"auto", "confirmed"}          \* the states that count as a member
Grouped == Members \cup {"candidate"}
Verdicts == {"confirmed", "rejected"}     \* the states that only a user sets

\* batch: the first face of the analysis that found this one.
Face == [asset : Assets, model : Models, batch : Faces,
         cluster : Clusters \cup {Null}, state : States]
NoFace == [asset |-> NoAsset, model |-> NoModel, batch |-> 0, cluster |-> Null, state |-> "none"]
Cluster == [open : {TRUE}, cover : Faces \cup {Null}]
NoCluster == [open |-> FALSE, cover |-> Null]

Found(d) == {f \in Faces : face[d][f] # NoFace}
FacesOf(d, a) == {f \in Found(d) : face[d][f].asset = a}
In(d, c) == {f \in Found(d) : face[d][f].cluster = c}
\* AssetService.get hides the tombstones.
Gets(d, a) == asset[d][a] = "kept"
HasModelAnalysis(d, a, m) == \E f \in FacesOf(d, a) : face[d][f].model = m

Steps == {"idle", "analyze", "inserted", "assign", "group", "apply", "cover", "write",
          "carry", "ready", "leased"}
\* ids: faces read from the table, or just inserted.  groups: the clusters the
\* sidecar may choose, the plan's, or those whose cover is to be refreshed.
\* plan: the sidecar's grouping.  cover: what refresh_cluster_cover has read.
\* rows, named, banned: the Relations a transfer collected.
Thread == [step : Steps, lib : Libraries, asset : Assets \cup {NoAsset}, model : Models \cup {NoModel},
           ids : SUBSET Faces, groups : SUBSET Clusters, plan : [Faces -> Clusters \cup {Null}],
           now : Clusters \cup {Null}, cover : Faces \cup {Null},
           rows : [Faces -> Face \cup {NoFace}], named : [Clusters -> Cluster \cup {NoCluster}],
           banned : SUBSET (Faces \X Clusters)]
Idle == [step |-> "idle", lib |-> "main", asset |-> NoAsset, model |-> NoModel,
         ids |-> {}, groups |-> {}, plan |-> [f \in Faces |-> Null],
         now |-> Null, cover |-> Null,
         rows |-> [f \in Faces |-> NoFace], named |-> [c \in Clusters |-> NoCluster],
         banned |-> {}]

At(t, step) == thread[t].step = step
Lib(t) == thread[t].lib
Become(t, q) == thread' = [thread EXCEPT ![t] = q]
End(t) == Become(t, Idle)
\* The refresh of the covers of a set of clusters, one after the other.
Refresh(t, d, cs) == Become(t, IF cs = {} THEN Idle
                               ELSE [Idle EXCEPT !.step = "cover", !.lib = d, !.groups = cs])
WriteFaces(d, rows) == face' = [face EXCEPT ![d] = rows]
WriteClusters(d, rows) == cluster' = [cluster EXCEPT ![d] = rows]

Init ==
  /\ asset = [d \in Libraries |-> [a \in Assets |-> IF d = "main" THEN "kept" ELSE "none"]]
  /\ face = [d \in Libraries |-> [f \in Faces |-> NoFace]]
  /\ cluster = [d \in Libraries |-> [c \in Clusters |-> NoCluster]]
  /\ rejected = [d \in Libraries |-> {}]
  /\ faces = 0 /\ clusters = 0 /\ moves = 0
  /\ thread = [t \in Threads |-> Idle]

-----------------------------------------------------------------------------
(* Analysis of one asset.                                                  *)

\* handle_analyze_job up to the RPC.  That the model has analysed the asset
\* stops it only when the sidecar names its bundle, and the vault's job never.
StartAnalyze(t, d, a) ==
  /\ At(t, "idle") /\ Gets(d, a)
  /\ Become(t, [Idle EXCEPT !.step = "analyze", !.lib = d, !.asset = a])
  /\ UNCHANGED <<tables, faces, clusters, moves>>

\* The recheck inside the transaction that inserts.
MayPersist_Slip(d, a, m) == asset[d][a] # "none"
MayPersist(d, a, m) == asset[d][a] # "none" /\ ~HasModelAnalysis(d, a, m)

\* persist_analysis.  The foreign key refuses faces of an asset that has gone;
\* then, and when another analysis was first, the job is over.
Persist(t, m, n) ==
  /\ At(t, "analyze")
  /\ LET d == Lib(t)
         a == thread[t].asset
         new == faces + 1 .. faces + n
         ok == n > 0 /\ MayPersist(d, a, m)
     IN /\ n > 0 => MayPersist(d, a, m)
        /\ faces + n <= MaxFaces
        /\ faces' = faces + n
        /\ WriteFaces(d, [f \in Faces |->
             IF f \in new THEN [asset |-> a, model |-> m, batch |-> faces + 1,
                                cluster |-> Null, state |-> "unassigned"]
             ELSE face[d][f]])
        /\ IF ok THEN Become(t, [thread[t] EXCEPT !.step = "inserted", !.asset = NoAsset,
                                                   !.model = m, !.ids = new])
           ELSE End(t)
  /\ UNCHANGED <<asset, cluster, rejected, clusters, moves>>

\* The faces cluster_medoids would load; more of them than the budget is an
\* error, and so are more rejections of the faces asked about.
Medoids(d, m) == {f \in Found(d) : /\ face[d][f].model = m
                                   /\ face[d][f].cluster # Null
                                   /\ face[d][f].state \in Members}
Rejections(d, fs) == {r \in rejected[d] : r[1] \in fs}
Fits(rows) == Cardinality(rows) <= RowBudget

\* assign_faces up to the RPC: its faces, the medoids and the rejections.
AskAssign(t) ==
  /\ At(t, "inserted")
  /\ LET d == Lib(t)
         medoids == Medoids(d, thread[t].model)
     IN IF /\ thread[t].ids \subseteq Found(d)
           /\ Fits(medoids) /\ Fits(Rejections(d, thread[t].ids))
        THEN Become(t, [thread[t] EXCEPT !.step = "assign", !.model = NoModel,
                                         !.groups = {face[d][f].cluster : f \in medoids}])
        ELSE End(t)
  /\ UNCHANGED <<tables, faces, clusters, moves>>

-----------------------------------------------------------------------------
(* apply_assignments: what a plan makes of the rows as they are now.       *)

Takes_Slip(d, f) == f \in Found(d)
Takes(d, f) == f \in Found(d) /\ face[d][f].state \notin Verdicts

\* A cluster that was merged away meanwhile, or that the user has ruled out.
Label_Slip(d, f, c, s) == [face[d][f] EXCEPT
  !.cluster = IF c # Null /\ cluster[d][c].open /\ <<f, c>> \notin rejected[d] THEN c ELSE Null,
  !.state = IF c = Null THEN "unassigned" ELSE s]
Label(d, f, c, s) ==
  LET ok == c # Null /\ cluster[d][c].open /\ <<f, c>> \notin rejected[d]
  IN [face[d][f] EXCEPT !.cluster = IF ok THEN c ELSE Null,
                        !.state = IF ok THEN s ELSE "unassigned"]

ApplyAssignments(d, ids, plan, states) ==
  WriteFaces(d, [f \in Faces |-> IF f \in ids /\ Takes(d, f)
                                 THEN Label(d, f, plan[f], states[f]) ELSE face[d][f]])

\* validate_cluster_response: some of the faces asked about, each at most once,
\* with a cluster that was offered or none.
Replies(ids, offered) == UNION {[told -> offered \cup {Null}] : told \in SUBSET ids}

Assign(t) ==
  /\ At(t, "assign")
  /\ \E plan \in Replies(thread[t].ids, thread[t].groups) :
     \E states \in [DOMAIN plan -> {"auto", "candidate"}] :
        ApplyAssignments(Lib(t), DOMAIN plan, plan, states)
  /\ End(t)
  /\ UNCHANGED <<asset, cluster, rejected, faces, clusters, moves>>

-----------------------------------------------------------------------------
(* Reclustering.                                                           *)

\* recluster_cancellable up to the RPC, which is about every row of the model.
StartRecluster(t, d, m) ==
  /\ At(t, "idle")
  /\ LET rows == {f \in Found(d) : face[d][f].model = m}
     IN /\ rows # {} /\ Fits(rows) /\ Fits(rejected[d])
        /\ Become(t, [Idle EXCEPT !.step = "group", !.lib = d, !.ids = rows])
  /\ UNCHANGED <<tables, faces, clusters, moves>>

\* apply_full_clustering, first transaction: the new clusters that are large
\* enough, each with its medoid as cover whatever became of that face.  Their
\* members are disjoint; whom the assignments name, and for which cluster, is
\* up to the sidecar, verdicts included: it is Takes that keeps them.
OpenClusters(t, n) ==
  /\ At(t, "group") /\ clusters + n <= MaxClusters /\ clusters' = clusters + n
  /\ LET d == Lib(t)
         new == clusters + 1 .. clusters + n
     IN /\ n * MinSize <= Cardinality(thread[t].ids)
        /\ \E medoid \in [new -> thread[t].ids] :
             /\ \A b, c \in new : b # c => medoid[b] # medoid[c]
             /\ WriteClusters(d, [c \in Clusters |->
                  IF c \in new THEN [open |-> TRUE, cover |-> medoid[c]] ELSE cluster[d][c]])
        /\ \E plan \in Replies(thread[t].ids, Clusters) :
             Become(t, [thread[t] EXCEPT !.step = "apply", !.ids = DOMAIN plan, !.groups = new,
               !.plan = [f \in Faces |-> IF f \in DOMAIN plan THEN plan[f] ELSE Null]])
  /\ UNCHANGED <<asset, face, rejected, faces, moves>>

\* Its second transaction; the refresh of the new covers follows.
ApplyGroups(t) ==
  /\ At(t, "apply")
  /\ \E states \in [thread[t].ids -> {"auto", "candidate"}] :
       ApplyAssignments(Lib(t), thread[t].ids, thread[t].plan, states)
  /\ Refresh(t, Lib(t), thread[t].groups)
  /\ UNCHANGED <<asset, cluster, rejected, faces, clusters, moves>>

\* refresh_cluster_cover reads in two connections and writes in a third.  A
\* confirmed medoid comes first; a cluster of candidates alone has no cover.
ReadCover(t, c) ==
  /\ At(t, "cover") /\ c \in thread[t].groups
  /\ LET d == Lib(t)
         rest == thread[t].groups \ {c}
         found(f) == Become(t, [thread[t] EXCEPT !.step = "write", !.now = c, !.cover = f,
                                                 !.groups = rest])
     IN IF In(d, c) = {} THEN found(Null)
        ELSE \E g \in In(d, c) :
               LET medoids == Medoids(d, face[d][g].model)
                   mine == medoids \cap In(d, c)
                   sure == {f \in mine : face[d][f].state = "confirmed"}
               IN IF ~Fits(medoids) THEN End(t)
                  ELSE \E f \in IF mine = {} THEN {Null} ELSE IF sure = {} THEN mine ELSE sure :
                         found(f)
  /\ UNCHANGED <<tables, faces, clusters, moves>>

WriteCover(t) ==
  /\ At(t, "write")
  /\ LET d == Lib(t)
         c == thread[t].now
     IN IF cluster[d][c].open
        THEN WriteClusters(d, [cluster[d] EXCEPT ![c].cover = thread[t].cover])
        ELSE UNCHANGED cluster
  /\ Refresh(t, Lib(t), thread[t].groups)
  /\ UNCHANGED <<asset, face, rejected, faces, clusters, moves>>

\* A cancellation seen at a check, or an error: the sidecar is away, misses
\* the deadline or breaks the protocol; a row of the request has gone.
GiveUp(t) ==
  /\ thread[t].step \in {"analyze", "inserted", "assign", "group"}
  /\ End(t)
  /\ UNCHANGED <<tables, faces, clusters, moves>>

-----------------------------------------------------------------------------
(* The user's requests.  Each is one transaction; merge and split then     *)
(* refresh a cover as a job does.                                          *)

MergeClusters(t, d, from, into) ==
  /\ At(t, "idle")
  /\ from # into /\ cluster[d][from].open /\ cluster[d][into].open
  /\ rejected' = [rejected EXCEPT ![d] = {r \in @ : /\ r[2] # from
                                                    /\ ~(r[2] = into /\ r[1] \in In(d, from))}]
  /\ WriteFaces(d, [f \in Faces |-> IF f \in In(d, from) THEN [face[d][f] EXCEPT !.cluster = into]
                                    ELSE face[d][f]])
  /\ WriteClusters(d, [cluster[d] EXCEPT ![from] = NoCluster])
  /\ Refresh(t, d, {into})
  /\ UNCHANGED <<asset, faces, clusters, moves>>

SplitCluster(t, d, c, fs) ==
  /\ At(t, "idle")
  /\ cluster[d][c].open /\ fs # {} /\ fs \subseteq In(d, c)
  /\ clusters < MaxClusters /\ clusters' = clusters + 1
  /\ \E cover \in fs :
       WriteClusters(d, [cluster[d] EXCEPT ![clusters + 1] =
                           [open |-> TRUE, cover |-> cover]])
  /\ WriteFaces(d, [f \in Faces |-> IF f \in fs THEN [face[d][f] EXCEPT !.cluster = clusters + 1,
                                                                       !.state = "confirmed"]
                                    ELSE face[d][f]])
  /\ Refresh(t, d, {c})
  /\ UNCHANGED <<asset, rejected, faces, moves>>

\* review_candidate with action "accept" and with action "reject".
Accept(d, f) ==
  /\ face[d][f].state = "candidate" /\ face[d][f].cluster # Null
  /\ face' = [face EXCEPT ![d][f].state = "confirmed"]
  /\ UNCHANGED <<asset, cluster, rejected, faces, clusters, moves, thread>>

Reject(d, f) ==
  /\ face[d][f].state = "candidate" /\ face[d][f].cluster # Null
  /\ rejected' = [rejected EXCEPT ![d] = @ \cup {<<f, face[d][f].cluster>>}]
  /\ face' = [face EXCEPT ![d][f].state = "rejected", ![d][f].cluster = Null]
  /\ UNCHANGED <<asset, cluster, faces, clusters, moves, thread>>

-----------------------------------------------------------------------------
(* A transfer, as far as it carries these rows; module VaultTransfer has   *)
(* its journals and files.                                                 *)

\* collect_relations, before the source journal is written.
Collect(t, d, a) ==
  /\ At(t, "idle") /\ Gets(d, a)
  /\ moves < MaxMoves /\ moves' = moves + 1
  /\ LET mine == FacesOf(d, a)
         groups == {face[d][f].cluster : f \in mine} \ {Null}
     IN Become(t, [Idle EXCEPT
          !.step = "carry", !.lib = d, !.asset = a,
          !.rows = [f \in Faces |-> IF f \in mine THEN face[d][f] ELSE NoFace],
          !.named = [c \in Clusters |-> IF c \in groups THEN cluster[d][c] ELSE NoCluster],
          !.banned = {r \in rejected[d] : r[1] \in mine /\ r[2] \in groups}])
  /\ UNCHANGED <<tables, faces, clusters>>

\* refresh_cluster_covers of vault.rs, given the faces left: a cover that is
\* not a face of its cluster is chosen anew, a confirmed one first.
Covered(rows, c, old) ==
  LET mine == {f \in Faces : rows[f] # NoFace /\ rows[f].cluster = c}
      sure == {f \in mine : rows[f].state = "confirmed"}
      first(fs) == CHOOSE f \in fs : \A g \in fs : f <= g
  IN IF old \in mine THEN old
     ELSE IF mine = {} THEN Null ELSE IF sure = {} THEN first(mine) ELSE first(sure)

\* The destination's transaction with insert_asset and insert_relations.
CommitMove(t) ==
  /\ At(t, "carry")
  /\ LET d == Other(Lib(t))
         a == thread[t].asset
         rows == [f \in Faces |-> IF thread[t].rows[f] # NoFace THEN thread[t].rows[f]
                                  ELSE face[d][f]]
         carried == {c \in Clusters : thread[t].named[c].open}
         cover(c) == IF cluster[d][c].open THEN cluster[d][c].cover ELSE thread[t].named[c].cover
     IN /\ asset[d][a] = "none"
        /\ asset' = [asset EXCEPT ![d][a] = "kept"]
        /\ WriteFaces(d, rows)
        /\ WriteClusters(d, [c \in Clusters |->
             IF c \in carried THEN [open |-> TRUE, cover |-> Covered(rows, c, cover(c))]
             ELSE cluster[d][c]])
        /\ rejected' = [rejected EXCEPT ![d] = @ \cup thread[t].banned]
  /\ Become(t, [Idle EXCEPT !.step = "ready", !.lib = Lib(t), !.asset = thread[t].asset])
  /\ UNCHANGED <<faces, clusters, moves>>

\* The journal is written after the relations were read: the transfer stops
\* there, or when staging fails.
AbortMove(t) ==
  /\ At(t, "carry")
  /\ End(t)
  /\ UNCHANGED <<tables, faces, clusters, moves>>

LeaseMove(t) ==
  /\ At(t, "ready")
  /\ asset' = [asset EXCEPT ![Lib(t)][thread[t].asset] = IF @ = "none" THEN @ ELSE "leased"]
  /\ Become(t, [thread[t] EXCEPT !.step = "leased"])
  /\ UNCHANGED <<face, cluster, rejected, faces, clusters, moves>>

\* What ON DELETE CASCADE makes of the tables when an asset's row goes.
Without(d, a) == [f \in Faces |-> IF face[d][f].asset = a THEN NoFace ELSE face[d][f]]
Cascade(d, a) ==
  /\ asset' = [asset EXCEPT ![d][a] = "none"]
  /\ WriteFaces(d, Without(d, a))

\* delete_assets_from_database_idempotent: the clusters that lost a face get
\* another cover, or go when it was their last.
Left(d, a, c) ==
  IF \E f \in Faces : Without(d, a)[f] # NoFace /\ Without(d, a)[f].cluster = c
  THEN [cluster[d][c] EXCEPT !.cover = Covered(Without(d, a), c, @)]
  ELSE NoCluster

DeleteMoved(t) ==
  /\ At(t, "leased")
  /\ LET d == Lib(t)
         a == thread[t].asset
         touched == {face[d][f].cluster : f \in FacesOf(d, a)} \ {Null}
         gone == {c \in touched : Left(d, a, c) = NoCluster}
     IN /\ Cascade(d, a)
        /\ WriteClusters(d, [c \in Clusters |-> IF c \in touched THEN Left(d, a, c)
                                                ELSE cluster[d][c]])
        /\ rejected' = [rejected EXCEPT ![d] = {r \in @ : /\ r[1] \notin FacesOf(d, a)
                                                          /\ r[2] \notin gone}]
  /\ End(t)
  /\ UNCHANGED <<faces, clusters, moves>>

-----------------------------------------------------------------------------
(* The rest of the program and of the world.                               *)

\* purge_due takes an asset with its faces; no cover is looked at.
Purge(a) ==
  /\ asset["main"][a] = "kept"
  /\ Cascade("main", a)
  /\ rejected' = [rejected EXCEPT !["main"] = {r \in @ : r[1] \notin FacesOf("main", a)}]
  /\ UNCHANGED <<cluster, faces, clusters, moves, thread>>

\* The threads end with the process.  A transfer whose destination committed
\* has its journal and marker, and reconciliation takes it up where it was.
Restart ==
  /\ \E t \in Threads : thread[t].step \notin {"idle", "ready", "leased"}
  /\ thread' = [t \in Threads |-> IF thread[t].step \in {"ready", "leased"} THEN thread[t] ELSE Idle]
  /\ UNCHANGED <<tables, faces, clusters, moves>>

Automatic(t) ==
  \/ \E d \in Active, a \in Assets : StartAnalyze(t, d, a)
  \/ \E m \in Models, n \in 0 .. MaxFaces : Persist(t, m, n)
  \/ AskAssign(t) \/ Assign(t)
  \/ \E d \in Active, m \in Models : StartRecluster(t, d, m)
  \/ \E n \in 0 .. MaxClusters : OpenClusters(t, n)
  \/ ApplyGroups(t)
  \/ \E c \in Clusters : ReadCover(t, c)
  \/ WriteCover(t) \/ GiveUp(t)

User ==
  \E d \in Active :
    \/ \E t \in Threads, from, into \in Clusters : MergeClusters(t, d, from, into)
    \/ \E t \in Threads, c \in Clusters, fs \in SUBSET Faces : SplitCluster(t, d, c, fs)
    \/ \E f \in Faces : Accept(d, f) \/ Reject(d, f)

Transfer(t) ==
  \/ \E d \in Libraries, a \in Assets : Collect(t, d, a)
  \/ CommitMove(t) \/ AbortMove(t) \/ LeaseMove(t) \/ DeleteMoved(t)

Next ==
  \/ \E t \in Threads : Automatic(t) \/ Transfer(t)
  \/ User
  \/ \E a \in Assets : Purge(a)
  \/ Restart

Spec == Init /\ [][Next]_vars

-----------------------------------------------------------------------------
(* Properties.                                                             *)

TypeOK ==
  /\ asset \in [Libraries -> [Assets -> {"none", "kept", "leased"}]]
  /\ face \in [Libraries -> [Faces -> Face \cup {NoFace}]]
  /\ cluster \in [Libraries -> [Clusters -> Cluster \cup {NoCluster}]]
  /\ rejected \in [Libraries -> SUBSET (Faces \X Clusters)]
  /\ faces \in 0 .. MaxFaces /\ clusters \in 0 .. MaxClusters
  /\ moves \in 0 .. MaxMoves
  /\ thread \in [Threads -> Thread]

\* A face is grouped exactly when it names a cluster, that cluster exists, the
\* user has not ruled it out for this face, and the face's asset is there
\* (apply_assignments, merge_clusters, review_candidate and insert_relations).
\* A reply computed before a merge, a rejection or a transfer must not leave a
\* candidate without a proposal, which no review could answer.
LabelFits ==
  \A d \in Libraries : \A f \in Found(d) :
    LET row == face[d][f]
    IN /\ row.state \in Grouped <=> row.cluster # Null
       /\ row.cluster # Null => cluster[d][row.cluster].open
       /\ <<f, row.cluster>> \notin rejected[d]
       /\ asset[d][row.asset] # "none"

\* What one model found in an asset comes from a single analysis, although two
\* jobs may analyse it at once and the asset may leave and return meanwhile
\* (has_model_analysis and the recheck of persist_analysis).
OneAnalysis ==
  \A d \in Libraries : \A f, g \in Found(d) :
    /\ face[d][f].asset = face[d][g].asset /\ face[d][f].model = face[d][g].model
    => face[d][f].batch = face[d][g].batch

\* docs/07_ml_integration.md:22: no automatic step overrides a verdict.  While
\* the row lives its verdict stays, and a confirmed face changes its cluster
\* only with a merge, which closes the old one, or a split, which opens the new.
VerdictStands ==
  [][\A d \in Libraries : \A f \in Found(d) :
       face[d][f].state \in Verdicts /\ face'[d][f] # NoFace =>
         LET old == face[d][f].cluster
             new == face'[d][f].cluster
         IN /\ face'[d][f].state = face[d][f].state
            /\ \/ new = old
               \/ old # Null /\ ~cluster'[d][old].open
               \/ new # Null /\ ~cluster[d][new].open]_vars

=============================================================================
