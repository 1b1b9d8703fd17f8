--------------------------- MODULE FaceReviewProofs ---------------------------
(***************************************************************************)
(* Theorems about FaceReview, for any threads, assets and models, requests *)
(* of any size, and as many faces, clusters and transfers as one likes.    *)
(***************************************************************************)
EXTENDS FaceReview, FiniteSetTheorems, WellFoundedInduction, TLAPS

\* Every non-empty set of naturals has a least element.
LEMMA LeastNatural ==
  ASSUME NEW T \in SUBSET Nat, T # {}
  PROVE  \E n \in T : \A m \in T : n <= m
<1>1. PICK n \in T : \A m \in T : ~ (<<m, n>> \in OpToRel(<, Nat))
  BY NatLessThanWellFounded, WFMin
<1>2. ASSUME NEW m \in T PROVE n <= m
  <2>1. <<m, n>> \in Nat \X Nat
    OBVIOUS
  <2>2. ~ (m < n)
    BY <1>1, <2>1 DEF OpToRel
  <2> QED BY <2>2
<1> QED BY <1>2

-----------------------------------------------------------------------------
(* One library's tables, or the relations a transfer carries: rows of      *)
(* faces, the clusters they name and the rejections.                       *)

Rows == [Faces -> Face \cup {NoFace}]
Names == [Clusters -> Cluster \cup {NoCluster}]
Bans == SUBSET (Faces \X Clusters)

\* LabelFits of one library, but for the assets; a rejection has its face and
\* its cluster.
Labelled(rows, named, banned) ==
  /\ \A f \in Faces : rows[f] # NoFace =>
       /\ rows[f].state \in Grouped <=> rows[f].cluster # Null
       /\ rows[f].cluster # Null => named[rows[f].cluster].open
       /\ <<f, rows[f].cluster>> \notin banned
  /\ \A r \in banned : rows[r[1]] # NoFace /\ named[r[2]].open

\* OneAnalysis of one library.
Single(rows) ==
  \A f, g \in Faces :
    /\ rows[f] # NoFace /\ rows[g] # NoFace
    /\ rows[f].asset = rows[g].asset /\ rows[f].model = rows[g].model
    => rows[f].batch = rows[g].batch

\* Nothing has an id that was not drawn yet.
DrawnFaces(rows, n) == \A f \in Faces : rows[f] # NoFace => f <= n
DrawnClusters(named, m) == \A c \in Clusters : named[c].open => c <= m

\* A face belongs to one asset, wherever its rows are.
Owners == [Faces -> Assets \cup {NoAsset}]
Owned(rows, owner) == \A f \in Faces : rows[f] # NoFace => rows[f].asset = owner[f]
Present(rows, assets) == \A f \in Faces : rows[f] # NoFace => assets[rows[f].asset] # "none"

\* VerdictStands for one library that a step turns from the first two tables
\* into the last two.
Stands(old, before, new, after) ==
  \A f \in Faces : old[f] # NoFace /\ new[f] # NoFace /\ old[f].state \in Verdicts =>
    /\ new[f].state = old[f].state
    /\ \/ new[f].cluster = old[f].cluster
       \/ old[f].cluster # Null /\ ~after[old[f].cluster].open
       \/ new[f].cluster # Null /\ ~before[new[f].cluster].open

\* Every row of new is one of old, perhaps with another label.
Kin(old, new) ==
  \A f \in Faces : new[f] # NoFace =>
    /\ old[f] # NoFace
    /\ new[f].asset = old[f].asset /\ new[f].model = old[f].model /\ new[f].batch = old[f].batch

-----------------------------------------------------------------------------
(* The invariant.                                                          *)

TablesOK ==
  /\ asset \in [Libraries -> [Assets -> {"none", "kept", "leased"}]]
  /\ face \in [Libraries -> Rows]
  /\ cluster \in [Libraries -> Names]
  /\ rejected \in [Libraries -> Bans]
  /\ faces \in 0 .. MaxFaces /\ clusters \in 0 .. MaxClusters /\ moves \in 0 .. MaxMoves

ThreadsOK == thread \in [Threads -> Thread]

LibraryInv(d, owner) ==
  /\ Labelled(face[d], cluster[d], rejected[d])
  /\ Single(face[d])
  /\ DrawnFaces(face[d], faces) /\ DrawnClusters(cluster[d], clusters)
  /\ Owned(face[d], owner) /\ Present(face[d], asset[d])

\* A thread that works on an asset has one, and a transfer carries relations
\* that fit each other, as they were when it read them.
ThreadInv(q, owner, n, m) ==
  /\ q.step \in {"analyze", "carry", "ready", "leased"} => q.asset \in Assets
  /\ q.step = "carry" =>
       /\ Labelled(q.rows, q.named, q.banned) /\ Single(q.rows)
       /\ DrawnFaces(q.rows, n) /\ DrawnClusters(q.named, m)
       /\ Owned(q.rows, owner)
       /\ \A f \in Faces : q.rows[f] # NoFace => q.rows[f].asset = q.asset

Linked(owner) ==
  /\ \A d \in Libraries : LibraryInv(d, owner)
  /\ \A t \in Threads : ThreadInv(thread[t], owner, faces, clusters)

Inv == TablesOK /\ ThreadsOK /\ \E owner \in Owners : Linked(owner)

LEMMA TypeParts == TypeOK <=> TablesOK /\ ThreadsOK
BY DEF TypeOK, TablesOK, ThreadsOK, Rows, Names, Bans

LEMMA Constants ==
  /\ MaxFaces \in Nat \ {0} /\ MaxClusters \in Nat \ {0} /\ MinSize \in Nat \ {0}
  /\ RowBudget \in Nat \ {0} /\ MaxMoves \in Nat /\ Active \subseteq Libraries
  /\ NoAsset \notin Assets /\ NoModel \notin Models
  /\ Faces \subseteq Nat \ {0} /\ Clusters \subseteq Nat \ {0}
  /\ Null \notin Faces /\ Null \notin Clusters
BY FaceReviewAssumption DEF Libraries, Faces, Clusters, Null

LEMMA NoFaceIsNone == NoFace \notin Face /\ ~NoCluster.open
BY Constants DEF NoFace, Face, NoCluster

LEMMA Opposite == \A d \in Libraries : Other(d) \in Libraries /\ Other(d) # d
BY DEF Other, Libraries

-----------------------------------------------------------------------------
(* Steps of threads, and steps of one library's tables.                    *)

LEMMA ThreadLater ==
  ASSUME NEW q \in Thread, NEW owner \in Owners, NEW own2 \in Owners,
         NEW n \in 0 .. MaxFaces, NEW n2 \in 0 .. MaxFaces, n <= n2,
         NEW m \in 0 .. MaxClusters, NEW m2 \in 0 .. MaxClusters, m <= m2,
         \A f \in Faces : f <= n => own2[f] = owner[f], ThreadInv(q, owner, n, m)
  PROVE  ThreadInv(q, own2, n2, m2)
<1>1. CASE q.step = "carry"
  <2>1. /\ Labelled(q.rows, q.named, q.banned) /\ Single(q.rows) /\ q.asset \in Assets
        /\ DrawnFaces(q.rows, n) /\ DrawnClusters(q.named, m) /\ Owned(q.rows, owner)
        /\ \A f \in Faces : q.rows[f] # NoFace => q.rows[f].asset = q.asset
    BY <1>1 DEF ThreadInv
  <2>2. DrawnFaces(q.rows, n2)
    BY <2>1, Constants DEF DrawnFaces
  <2>3. DrawnClusters(q.named, m2)
    BY <2>1, Constants DEF DrawnClusters
  <2>4. Owned(q.rows, own2)
    BY <2>1 DEF DrawnFaces, Owned
  <2> QED BY <2>1, <2>2, <2>3, <2>4 DEF ThreadInv
<1>2. CASE q.step # "carry"
  BY <1>2 DEF ThreadInv
<1> QED BY <1>1, <1>2

\* Threads while the tables move on: one may take another step, but none
\* begins to carry.
LEMMA ThreadMoves ==
  ASSUME TablesOK, ThreadsOK, NEW owner \in Owners, Linked(owner), NEW own2 \in Owners,
         \A f \in Faces : f <= faces => own2[f] = owner[f],
         faces' \in 0 .. MaxFaces, faces <= faces',
         clusters' \in 0 .. MaxClusters, clusters <= clusters',
         NEW t \in Threads, NEW q \in Thread, Become(t, q), q.step # "carry",
         q.step \in {"analyze", "ready", "leased"} => q.asset \in Assets
  PROVE  ThreadsOK' /\ \A u \in Threads : ThreadInv(thread'[u], own2, faces', clusters')
<1>1. thread' \in [Threads -> Thread]
      /\ \A u \in Threads : thread'[u] = IF u = t THEN q ELSE thread[u]
  BY DEF ThreadsOK, Become
<1>2. \A u \in Threads : ThreadInv(thread[u], own2, faces', clusters')
  BY ThreadLater DEF Linked, TablesOK, ThreadsOK
<1>3. ThreadInv(q, own2, faces', clusters')
  BY DEF ThreadInv
<1> QED BY <1>1, <1>2, <1>3 DEF ThreadsOK

LEMMA ThreadsStay ==
  ASSUME TablesOK, ThreadsOK, NEW owner \in Owners, Linked(owner),
         faces' = faces, clusters' = clusters, thread' = thread
  PROVE  ThreadsOK' /\ \A u \in Threads : ThreadInv(thread'[u], owner, faces', clusters')
BY DEF ThreadsOK, Linked

\* Tables stay, one thread moves.
LEMMA OnlyThread ==
  ASSUME Inv, UNCHANGED <<tables, faces, clusters>>, moves' \in 0 .. MaxMoves,
         NEW t \in Threads, NEW q \in Thread, Become(t, q), q.step # "carry",
         q.step \in {"analyze", "ready", "leased"} => q.asset \in Assets
  PROVE  Inv'
<1>1. PICK owner \in Owners : Linked(owner)
  BY DEF Inv
<1>2. TablesOK' /\ faces \in Nat /\ clusters \in Nat
  BY Constants DEF Inv, TablesOK, tables
<1>3. ThreadsOK' /\ \A u \in Threads : ThreadInv(thread'[u], owner, faces', clusters')
  BY <1>1, <1>2, ThreadMoves DEF Inv, TablesOK
<1>4. \A d \in Libraries : LibraryInv(d, owner)'
  BY <1>1 DEF Linked, LibraryInv, tables
<1>5. Linked(owner)'
  BY <1>3, <1>4 DEF Linked
<1> QED BY <1>2, <1>3, <1>5 DEF Inv

\* The tables of d change and those of the other library stay.
Put(d, assets, rows, named, banned) ==
  /\ asset' = [asset EXCEPT ![d] = assets]
  /\ face' = [face EXCEPT ![d] = rows]
  /\ cluster' = [cluster EXCEPT ![d] = named]
  /\ rejected' = [rejected EXCEPT ![d] = banned]

AllStand ==
  \A d \in Libraries : Stands(face[d], cluster[d], face'[d], cluster'[d])

LEMMA LibraryMoves ==
  ASSUME TablesOK, NEW owner \in Owners, Linked(owner), NEW own2 \in Owners,
         \A f \in Faces : f <= faces => own2[f] = owner[f],
         faces' \in 0 .. MaxFaces, faces <= faces',
         clusters' \in 0 .. MaxClusters, clusters <= clusters', moves' = moves,
         NEW d \in Libraries, NEW assets \in [Assets -> {"none", "kept", "leased"}],
         NEW rows \in Rows, NEW named \in Names, NEW banned \in Bans,
         Put(d, assets, rows, named, banned),
         Labelled(rows, named, banned), Single(rows), DrawnFaces(rows, faces'),
         DrawnClusters(named, clusters'), Owned(rows, own2), Present(rows, assets),
         Stands(face[d], cluster[d], rows, named)
  PROVE  TablesOK' /\ (\A e \in Libraries : LibraryInv(e, own2)') /\ AllStand
<1>1. TablesOK'
  BY DEF TablesOK, Put
<1>2. /\ asset'[d] = assets /\ face'[d] = rows /\ cluster'[d] = named /\ rejected'[d] = banned
      /\ \A e \in Libraries \ {d} : /\ asset'[e] = asset[e] /\ face'[e] = face[e]
                                    /\ cluster'[e] = cluster[e] /\ rejected'[e] = rejected[e]
  BY DEF TablesOK, Put
<1>3. LibraryInv(d, own2)'
  BY <1>2 DEF LibraryInv
<1>4. ASSUME NEW e \in Libraries \ {d} PROVE LibraryInv(e, own2)'
  <2>1. /\ Labelled(face[e], cluster[e], rejected[e]) /\ Single(face[e])
        /\ DrawnFaces(face[e], faces) /\ DrawnClusters(cluster[e], clusters)
        /\ Owned(face[e], owner) /\ Present(face[e], asset[e])
    BY DEF Linked, LibraryInv
  <2>2. DrawnFaces(face[e], faces') /\ DrawnClusters(cluster[e], clusters')
    BY <2>1, Constants DEF DrawnFaces, DrawnClusters, TablesOK
  <2>3. Owned(face[e], own2)
    BY <2>1 DEF DrawnFaces, Owned
  <2> QED BY <1>2, <2>1, <2>2, <2>3 DEF LibraryInv
<1>5. AllStand
  BY <1>2 DEF AllStand, Stands
<1> QED BY <1>1, <1>3, <1>4, <1>5

LEMMA Same ==
  ASSUME NEW S, NEW x \in [Libraries -> S], NEW d \in Libraries
  PROVE  [x EXCEPT ![d] = x[d]] = x
OBVIOUS

\* What is left of a library's rows keeps what does not depend on labels.
LEMMA KinKeeps ==
  ASSUME NEW old \in Rows, NEW new \in Rows, Kin(old, new), NEW n, NEW owner, NEW assets,
         Single(old), DrawnFaces(old, n), Owned(old, owner), Present(old, assets)
  PROVE  Single(new) /\ DrawnFaces(new, n) /\ Owned(new, owner) /\ Present(new, assets)
BY DEF Kin, Single, DrawnFaces, Owned, Present

\* Nobody moves, or one thread does, and none begins to carry.
ThreadGoes ==
  \/ thread' = thread
  \/ \E t \in Threads : \E q \in Thread :
       /\ Become(t, q) /\ q.step # "carry"
       /\ q.step \in {"analyze", "ready", "leased"} => q.asset \in Assets

\* A step that gives the rows of one library other labels, or takes some away.
LEMMA Relabels ==
  ASSUME Inv, ThreadGoes, NEW d \in Libraries,
         NEW assets \in [Assets -> {"none", "kept", "leased"}],
         NEW rows \in Rows, NEW named \in Names, NEW banned \in Bans,
         Put(d, assets, rows, named, banned), faces' = faces, moves' = moves,
         clusters' \in 0 .. MaxClusters, clusters <= clusters',
         Kin(face[d], rows), Present(rows, assets), Labelled(rows, named, banned),
         DrawnClusters(named, clusters'), Stands(face[d], cluster[d], rows, named)
  PROVE  Inv' /\ AllStand
<1>1. PICK owner \in Owners : Linked(owner)
  BY DEF Inv
<1>2. TablesOK /\ ThreadsOK /\ faces \in 0 .. MaxFaces /\ faces <= faces' /\ face[d] \in Rows
  BY Constants DEF Inv, TablesOK
<1>3. /\ Single(face[d]) /\ DrawnFaces(face[d], faces) /\ Owned(face[d], owner)
      /\ Present(face[d], asset[d])
  BY <1>1 DEF Linked, LibraryInv
<1>4. Single(rows) /\ DrawnFaces(rows, faces') /\ Owned(rows, owner)
  BY <1>2, <1>3, KinKeeps
<1>5. TablesOK' /\ (\A e \in Libraries : LibraryInv(e, owner)') /\ AllStand
  BY <1>1, <1>2, <1>4, LibraryMoves
<1>6. ThreadsOK' /\ \A u \in Threads : ThreadInv(thread'[u], owner, faces', clusters')
  <2>1. CASE thread' = thread
    <3>1. ThreadsOK'
      BY <1>2, <2>1 DEF ThreadsOK
    <3>2. ASSUME NEW u \in Threads PROVE ThreadInv(thread'[u], owner, faces', clusters')
      BY <1>1, <1>2, <2>1, ThreadLater DEF Linked, ThreadsOK, TablesOK
    <3> QED BY <3>1, <3>2
  <2>2. CASE thread' # thread
    BY <1>1, <1>2, <2>2, ThreadMoves DEF ThreadGoes
  <2> QED BY <2>1, <2>2
<1> QED BY <1>5, <1>6 DEF Inv, Linked

\* The parts of the invariant that a step of one library needs.
LEMMA LibraryFacts ==
  ASSUME Inv, NEW d \in Libraries
  PROVE  /\ face[d] \in Rows /\ cluster[d] \in Names /\ rejected[d] \in Bans
         /\ asset[d] \in [Assets -> {"none", "kept", "leased"}]
         /\ faces \in 0 .. MaxFaces /\ clusters \in 0 .. MaxClusters
         /\ Labelled(face[d], cluster[d], rejected[d]) /\ Single(face[d])
         /\ DrawnFaces(face[d], faces) /\ DrawnClusters(cluster[d], clusters)
         /\ Present(face[d], asset[d])
         /\ [asset EXCEPT ![d] = asset[d]] = asset
         /\ [face EXCEPT ![d] = face[d]] = face
         /\ [cluster EXCEPT ![d] = cluster[d]] = cluster
         /\ [rejected EXCEPT ![d] = rejected[d]] = rejected
<1>1. TablesOK /\ \E owner \in Owners : Linked(owner)
  BY DEF Inv
<1>2. /\ Labelled(face[d], cluster[d], rejected[d]) /\ Single(face[d])
      /\ DrawnFaces(face[d], faces) /\ DrawnClusters(cluster[d], clusters)
      /\ Present(face[d], asset[d])
  BY <1>1 DEF Linked, LibraryInv
<1> QED BY <1>1, <1>2, Same DEF TablesOK

LEMMA StandStill ==
  ASSUME NEW old \in Rows, NEW before, NEW new \in Rows, NEW after,
         \A f \in Faces : new[f] \in {old[f], NoFace}
  PROVE  Kin(old, new) /\ Stands(old, before, new, after)
BY DEF Kin, Stands

LEMMA IdleThread ==
  /\ Idle \in Thread /\ Idle.step = "idle"
  /\ \A d \in Libraries, cs \in SUBSET Clusters :
       /\ [Idle EXCEPT !.step = "cover", !.lib = d, !.groups = cs] \in Thread
       /\ [Idle EXCEPT !.step = "cover", !.lib = d, !.groups = cs].step = "cover"
<1>1. /\ [f \in Faces |-> Null] \in [Faces -> Clusters \cup {Null}]
      /\ [f \in Faces |-> NoFace] \in [Faces -> Face \cup {NoFace}]
      /\ [c \in Clusters |-> NoCluster] \in [Clusters -> Cluster \cup {NoCluster}]
  OBVIOUS
<1>2. Idle \in Thread /\ Idle.step = "idle"
  BY <1>1 DEF Idle, Thread, Steps, Libraries
<1> QED BY <1>2 DEF Thread, Steps

LEMMA Ends ==
  ASSUME NEW t \in Threads, End(t)
  PROVE  ThreadGoes
BY IdleThread DEF End, ThreadGoes

LEMMA Refreshes ==
  ASSUME NEW t \in Threads, NEW d \in Libraries, NEW cs \in SUBSET Clusters, Refresh(t, d, cs)
  PROVE  ThreadGoes
<1> DEFINE q == IF cs = {} THEN Idle
                ELSE [Idle EXCEPT !.step = "cover", !.lib = d, !.groups = cs]
<1>1. q \in Thread /\ q.step \in {"idle", "cover"}
  BY IdleThread
<1>2. Become(t, q)
  BY DEF Refresh
<1> HIDE DEF q
<1> QED BY <1>1, <1>2 DEF ThreadGoes

-----------------------------------------------------------------------------
(* Steps of jobs.                                                          *)

LEMMA ThreadFields ==
  ASSUME Inv, NEW t \in Threads
  PROVE  thread[t] \in Thread /\ Lib(t) \in Libraries
BY DEF Inv, ThreadsOK, Thread, Lib

\* apply_assignments, whatever the plan says.
LEMMA ApplyStep ==
  ASSUME Inv, ThreadGoes, NEW d \in Libraries, NEW ids \in SUBSET Faces,
         NEW plan, \A f \in ids : plan[f] \in Clusters \cup {Null},
         NEW states, \A f \in ids : states[f] \in {"auto", "candidate"},
         ApplyAssignments(d, ids, plan, states),
         UNCHANGED <<asset, cluster, rejected, faces, clusters, moves>>
  PROVE  Inv' /\ AllStand
<1> DEFINE rows == [f \in Faces |-> IF f \in ids /\ Takes(d, f)
                                    THEN Label(d, f, plan[f], states[f]) ELSE face[d][f]]
<1>0. /\ face[d] \in Rows /\ cluster[d] \in Names /\ rejected[d] \in Bans
      /\ Labelled(face[d], cluster[d], rejected[d]) /\ DrawnClusters(cluster[d], clusters)
      /\ Present(face[d], asset[d])
  BY LibraryFacts
<1>1. ASSUME NEW f \in Faces, f \in ids, Takes(d, f)
      PROVE  LET x == Label(d, f, plan[f], states[f])
             IN  /\ x \in Face
                 /\ x.asset = face[d][f].asset /\ x.model = face[d][f].model
                 /\ x.batch = face[d][f].batch
                 /\ x.state \in Grouped <=> x.cluster # Null
                 /\ x.cluster # Null => cluster[d][x.cluster].open /\ <<f, x.cluster>> \notin rejected[d]
  <2>1. face[d][f] \in Face /\ plan[f] \in Clusters \cup {Null} /\ states[f] \in {"auto", "candidate"}
    BY <1>0, <1>1 DEF Takes, Found, Rows
  <2> QED BY <2>1, Constants DEF Label, Face, States, Grouped, Members
<1>2. \A f \in Faces : ~(f \in ids /\ Takes(d, f)) => rows[f] = face[d][f]
  OBVIOUS
<1>3. \A f \in Faces : f \in ids /\ Takes(d, f) =>
        /\ rows[f] \in Face /\ face[d][f] # NoFace /\ face[d][f].state \notin Verdicts
        /\ rows[f].asset = face[d][f].asset /\ rows[f].model = face[d][f].model
        /\ rows[f].batch = face[d][f].batch
        /\ rows[f].state \in Grouped <=> rows[f].cluster # Null
        /\ rows[f].cluster # Null =>
             cluster[d][rows[f].cluster].open /\ <<f, rows[f].cluster>> \notin rejected[d]
  BY <1>1 DEF Takes, Found
<1>4. rows \in Rows
  BY <1>0, <1>2, <1>3 DEF Rows
<1>5. Put(d, asset[d], rows, cluster[d], rejected[d])
  BY LibraryFacts DEF ApplyAssignments, WriteFaces, Put
<1> HIDE DEF rows
<1>6. Kin(face[d], rows)
  BY <1>2, <1>3 DEF Kin
<1>7. Stands(face[d], cluster[d], rows, cluster[d])
  BY <1>2, <1>3 DEF Stands
<1>8. Labelled(rows, cluster[d], rejected[d])
  <2>1. \A f \in Faces : rows[f] # NoFace =>
          /\ rows[f].state \in Grouped <=> rows[f].cluster # Null
          /\ rows[f].cluster # Null => cluster[d][rows[f].cluster].open
          /\ <<f, rows[f].cluster>> \notin rejected[d]
    <3> SUFFICES ASSUME NEW f \in Faces, rows[f] # NoFace
                 PROVE  /\ rows[f].state \in Grouped <=> rows[f].cluster # Null
                        /\ rows[f].cluster # Null => cluster[d][rows[f].cluster].open
                        /\ <<f, rows[f].cluster>> \notin rejected[d]
      OBVIOUS
    <3>1. CASE f \in ids /\ Takes(d, f)
      BY <1>0, <1>3, <3>1, Constants DEF Bans
    <3>2. CASE ~(f \in ids /\ Takes(d, f))
      BY <1>0, <1>2, <3>2 DEF Labelled
    <3> QED BY <3>1, <3>2
  <2>2. \A f \in Faces : face[d][f] # NoFace => rows[f] # NoFace
    BY <1>2, <1>3, NoFaceIsNone
  <2> QED BY <1>0, <2>1, <2>2 DEF Labelled, Bans
<1>9. Present(rows, asset[d])
  BY <1>0, <1>6 DEF Kin, Present
<1> QED BY <1>0, <1>4, <1>5, <1>6, <1>7, <1>8, <1>9, LibraryFacts, Relabels

LEMMA AssignStep ==
  ASSUME Inv, NEW t \in Threads, Assign(t)
  PROVE  Inv' /\ AllStand
<1>1. thread[t] \in Thread /\ Lib(t) \in Libraries /\ ThreadGoes
  BY ThreadFields, Ends DEF Assign
<1>2. PICK plan \in Replies(thread[t].ids, thread[t].groups) :
        \E states \in [DOMAIN plan -> {"auto", "candidate"}] :
          ApplyAssignments(Lib(t), DOMAIN plan, plan, states)
  BY DEF Assign
<1>3. DOMAIN plan \subseteq Faces /\ \A f \in DOMAIN plan : plan[f] \in Clusters \cup {Null}
  BY <1>1, <1>2 DEF Replies, Thread
<1> QED BY <1>1, <1>2, <1>3, ApplyStep DEF Assign

LEMMA ApplyGroupsStep ==
  ASSUME Inv, NEW t \in Threads, ApplyGroups(t)
  PROVE  Inv' /\ AllStand
<1>1. thread[t] \in Thread /\ Lib(t) \in Libraries
  BY ThreadFields
<1>2. /\ thread[t].ids \subseteq Faces /\ thread[t].groups \subseteq Clusters
      /\ \A f \in Faces : thread[t].plan[f] \in Clusters \cup {Null}
  BY <1>1 DEF Thread
<1>3. ThreadGoes
  BY <1>1, <1>2, Refreshes DEF ApplyGroups
<1> QED BY <1>1, <1>2, <1>3, ApplyStep DEF ApplyGroups

\* Steps that change clusters only: those that were open stay so, and what is
\* opened was just drawn.
LEMMA ClusterStep ==
  ASSUME Inv, ThreadGoes, NEW d \in Libraries, NEW named \in Names,
         WriteClusters(d, named), UNCHANGED <<asset, face, rejected, faces, moves>>,
         clusters' \in 0 .. MaxClusters, clusters <= clusters',
         \A c \in Clusters : cluster[d][c].open => named[c].open,
         DrawnClusters(named, clusters')
  PROVE  Inv' /\ AllStand
<1>1. Put(d, asset[d], face[d], named, rejected[d])
  BY LibraryFacts DEF WriteClusters, Put
<1>2. Kin(face[d], face[d]) /\ Stands(face[d], cluster[d], face[d], named)
  BY LibraryFacts, StandStill
<1>3. Labelled(face[d], named, rejected[d])
  BY LibraryFacts DEF Labelled, Rows, Bans, Face
<1> QED BY <1>1, <1>2, <1>3, LibraryFacts, Relabels

LEMMA OpenClustersStep ==
  ASSUME Inv, NEW t \in Threads, NEW n \in 0 .. MaxClusters, OpenClusters(t, n)
  PROVE  Inv' /\ AllStand
<1> DEFINE d == Lib(t)
           new == clusters + 1 .. clusters + n
<1>1. thread[t] \in Thread /\ d \in Libraries /\ clusters \in Nat /\ n \in Nat
      /\ cluster[d] \in Names /\ DrawnClusters(cluster[d], clusters)
      /\ clusters' = clusters + n /\ clusters + n <= MaxClusters
  BY ThreadFields, LibraryFacts, Constants DEF OpenClusters
<1>2. PICK medoid \in [new -> thread[t].ids] :
        WriteClusters(d, [c \in Clusters |->
          IF c \in new THEN [open |-> TRUE, cover |-> medoid[c]] ELSE cluster[d][c]])
  BY DEF OpenClusters
<1>3. PICK plan \in Replies(thread[t].ids, Clusters) :
        Become(t, [thread[t] EXCEPT !.step = "apply", !.ids = DOMAIN plan, !.groups = new,
                     !.plan = [f \in Faces |-> IF f \in DOMAIN plan THEN plan[f] ELSE Null]])
  BY DEF OpenClusters
<1>4. ThreadGoes
  <2> DEFINE full == [f \in Faces |-> IF f \in DOMAIN plan THEN plan[f] ELSE Null]
             q == [thread[t] EXCEPT !.step = "apply", !.ids = DOMAIN plan, !.groups = new,
                                    !.plan = full]
  <2>1. DOMAIN plan \subseteq Faces /\ \A f \in DOMAIN plan : plan[f] \in Clusters \cup {Null}
    BY <1>1, <1>3 DEF Replies, Thread
  <2>2. full \in [Faces -> Clusters \cup {Null}] /\ new \subseteq Clusters
    BY <1>1, <2>1, Constants DEF Clusters
  <2>3. Become(t, q)
    BY <1>3
  <2> HIDE DEF full, new
  <2>4. q \in Thread /\ q.step = "apply"
    BY <1>1, <2>1, <2>2 DEF Thread, Steps
  <2> QED BY <2>3, <2>4 DEF ThreadGoes
<1> DEFINE named == [c \in Clusters |->
             IF c \in new THEN [open |-> TRUE, cover |-> medoid[c]] ELSE cluster[d][c]]
<1>5. named \in Names
  <2>1. \A c \in new : medoid[c] \in Faces
    BY <1>1, <1>2 DEF Thread
  <2> HIDE DEF new
  <2>2. \A c \in new : [open |-> TRUE, cover |-> medoid[c]] \in Cluster
    BY <2>1 DEF Cluster
  <2> QED BY <1>1, <2>2 DEF Names
<1>6. \A c \in Clusters : cluster[d][c].open => named[c].open
  OBVIOUS
<1>7. DrawnClusters(named, clusters')
  BY <1>1, Constants DEF DrawnClusters
<1>8. clusters' \in 0 .. MaxClusters /\ clusters <= clusters'
  BY <1>1, Constants
<1>9. WriteClusters(d, named)
  BY <1>2
<1> HIDE DEF named, d
<1> QED BY <1>1, <1>4, <1>5, <1>6, <1>7, <1>8, <1>9, ClusterStep DEF OpenClusters

LEMMA WriteCoverStep ==
  ASSUME Inv, NEW t \in Threads, WriteCover(t)
  PROVE  Inv' /\ AllStand
<1>1. thread[t] \in Thread /\ Lib(t) \in Libraries /\ cluster[Lib(t)] \in Names
      /\ DrawnClusters(cluster[Lib(t)], clusters)
      /\ clusters \in 0 .. MaxClusters /\ clusters <= clusters
  BY ThreadFields, LibraryFacts, Constants
<1>2. ThreadGoes
  BY <1>1, Refreshes DEF WriteCover, Thread
<1> DEFINE c == thread[t].now
           named == IF cluster[Lib(t)][c].open
                    THEN [cluster[Lib(t)] EXCEPT ![c].cover = thread[t].cover]
                    ELSE cluster[Lib(t)]
<1>3. WriteClusters(Lib(t), named)
  BY <1>1, LibraryFacts DEF WriteCover, WriteClusters
<1>4. named \in Names /\ \A e \in Clusters : named[e].open = cluster[Lib(t)][e].open
  <2>1. CASE ~cluster[Lib(t)][c].open
    BY <1>1, <2>1
  <2>2. CASE cluster[Lib(t)][c].open /\ c \in Clusters
    <3>1. cluster[Lib(t)][c] \in Cluster /\ thread[t].cover \in Faces \cup {Null}
      BY <1>1, <2>2, NoFaceIsNone DEF Names, Thread
    <3>2. [cluster[Lib(t)][c] EXCEPT !.cover = thread[t].cover] \in Cluster
      BY <3>1 DEF Cluster
    <3> QED BY <1>1, <2>2, <3>1, <3>2 DEF Names, Cluster
  <2>3. CASE c \notin Clusters
    <3>1. [cluster[Lib(t)] EXCEPT ![c].cover = thread[t].cover] = cluster[Lib(t)]
      BY <1>1, <2>3 DEF Names
    <3> QED BY <1>1, <3>1
  <2> QED BY <2>1, <2>2, <2>3
<1>5. DrawnClusters(named, clusters)
  BY <1>1, <1>4 DEF DrawnClusters
<1> HIDE DEF named, c
<1> QED BY <1>1, <1>2, <1>3, <1>4, <1>5, ClusterStep DEF WriteCover

\* persist_analysis: the faces that are new belong to the asset analysed.
LEMMA PersistStep ==
  ASSUME Inv, NEW t \in Threads, NEW m \in Models, NEW n \in 0 .. MaxFaces, Persist(t, m, n)
  PROVE  Inv' /\ AllStand
<1> DEFINE d == Lib(t)
           a == thread[t].asset
           new == faces + 1 .. faces + n
           found == [asset |-> a, model |-> m, batch |-> faces + 1,
                     cluster |-> Null, state |-> "unassigned"]
           rows == [f \in Faces |-> IF f \in new THEN found ELSE face[d][f]]
<1>1. PICK owner \in Owners : Linked(owner)
  BY DEF Inv
<1>2. /\ TablesOK /\ ThreadsOK /\ thread[t] \in Thread /\ d \in Libraries
      /\ faces \in Nat /\ n \in Nat /\ thread[t].step = "analyze"
      /\ faces' = faces + n /\ faces + n <= MaxFaces
      /\ n > 0 => MayPersist(d, a, m)
  BY ThreadFields, LibraryFacts, Constants DEF Persist, Inv, At
<1>3. a \in Assets
  BY <1>1, <1>2 DEF Linked, ThreadInv
<1>4. /\ face[d] \in Rows /\ cluster[d] \in Names /\ rejected[d] \in Bans
      /\ asset[d] \in [Assets -> {"none", "kept", "leased"}]
      /\ Labelled(face[d], cluster[d], rejected[d]) /\ Single(face[d])
      /\ DrawnFaces(face[d], faces) /\ DrawnClusters(cluster[d], clusters)
      /\ Present(face[d], asset[d]) /\ Owned(face[d], owner)
  BY <1>1, <1>2, LibraryFacts DEF Linked, LibraryInv
<1>5. new \subseteq Faces /\ (new # {} => faces + 1 \in Faces /\ n > 0)
  BY <1>2, Constants DEF Faces
<1>6. \A f \in new : found \in Face /\ ~(f <= faces)
  <2>1. \A f \in new : ~(f <= faces)
    BY <1>2
  <2>2. new # {} => found \in Face
    BY <1>3, <1>5 DEF Face, States
  <2> QED BY <2>1, <2>2
<1>7. new # {} => asset[d][a] # "none" /\ \A f \in Faces :
        face[d][f] # NoFace => ~(face[d][f].asset = a /\ face[d][f].model = m)
  BY <1>2, <1>5 DEF MayPersist, HasModelAnalysis, FacesOf, Found
<1>8. \A f \in new : face[d][f] = NoFace
  BY <1>4, <1>5, <1>6 DEF DrawnFaces
<1>9. WriteFaces(d, rows) /\ UNCHANGED <<asset, cluster, rejected, clusters, moves>>
  BY DEF Persist
<1>10. Put(d, asset[d], rows, cluster[d], rejected[d])
  BY <1>2, <1>9, LibraryFacts DEF WriteFaces, Put
<1>11. PICK own2 \in Owners :
         /\ \A f \in Faces : f <= faces => own2[f] = owner[f]
         /\ \A f \in Faces : own2[f] = IF f \in new THEN a ELSE owner[f]
  <2> DEFINE o == [f \in Faces |-> IF f \in new THEN a ELSE owner[f]]
  <2>1. o \in Owners
    BY <1>3 DEF Owners
  <2>2. \A f \in Faces : o[f] = IF f \in new THEN a ELSE owner[f]
    OBVIOUS
  <2> HIDE DEF o, new, a
  <2>3. \A f \in Faces : f <= faces => o[f] = owner[f]
    BY <1>6, <2>2
  <2> QED BY <2>1, <2>2, <2>3
<1>12. /\ \A f \in Faces : f \in new =>
            /\ rows[f] \in Face /\ rows[f].asset = a /\ rows[f].model = m
            /\ rows[f].batch = faces + 1 /\ rows[f].cluster = Null
            /\ rows[f].state = "unassigned" /\ own2[f] = a /\ f <= faces + n
       /\ \A f \in Faces : f \notin new => rows[f] = face[d][f] /\ own2[f] = owner[f]
  BY <1>2, <1>6, <1>11
<1> DEFINE q == [thread[t] EXCEPT !.step = "inserted", !.asset = NoAsset, !.model = m, !.ids = new]
<1>13. q \in Thread /\ q.step = "inserted"
  <2> HIDE DEF new
  <2> QED BY <1>2, <1>5 DEF Thread, Steps
<1>14. Become(t, q) \/ End(t)
  BY DEF Persist
<1>15. rows \in Rows
  <2> HIDE DEF new, found
  <2> QED BY <1>4, <1>6 DEF Rows
<1> HIDE DEF rows, new, found, q, d, a
<1>16. Labelled(rows, cluster[d], rejected[d])
  <2>1. ASSUME NEW f \in Faces, rows[f] # NoFace
        PROVE  /\ rows[f].state \in Grouped <=> rows[f].cluster # Null
               /\ rows[f].cluster # Null => cluster[d][rows[f].cluster].open
               /\ <<f, rows[f].cluster>> \notin rejected[d]
    <3>1. CASE f \in new
      BY <1>4, <1>12, <3>1, Constants DEF Grouped, Members, Bans
    <3>2. CASE f \notin new
      BY <1>4, <1>12, <2>1, <3>2 DEF Labelled
    <3> QED BY <3>1, <3>2
  <2>2. \A f \in Faces : face[d][f] # NoFace => rows[f] # NoFace
    BY <1>8, <1>12
  <2>3. \A r \in rejected[d] : rows[r[1]] # NoFace /\ cluster[d][r[2]].open
    BY <1>4, <2>2 DEF Labelled, Bans
  <2> QED BY <2>1, <2>3 DEF Labelled
<1>17. Single(rows)
  BY <1>4, <1>7, <1>12 DEF Single
<1>18. DrawnFaces(rows, faces')
  BY <1>2, <1>4, <1>12, Constants DEF DrawnFaces
<1>19. Owned(rows, own2) /\ Present(rows, asset[d])
  BY <1>4, <1>7, <1>12 DEF Owned, Present
<1>20. Stands(face[d], cluster[d], rows, cluster[d])
  BY <1>8, <1>12 DEF Stands
<1>21. /\ faces' \in 0 .. MaxFaces /\ faces <= faces'
       /\ clusters' \in 0 .. MaxClusters /\ clusters <= clusters'
       /\ DrawnClusters(cluster[d], clusters')
  BY <1>2, <1>4, <1>9, Constants DEF TablesOK
<1>22. TablesOK' /\ (\A e \in Libraries : LibraryInv(e, own2)') /\ AllStand
  BY <1>1, <1>2, <1>4, <1>9, <1>10, <1>11, <1>15, <1>16, <1>17, <1>18, <1>19, <1>20, <1>21,
     LibraryMoves
<1>23. ThreadsOK' /\ \A u \in Threads : ThreadInv(thread'[u], own2, faces', clusters')
  <2>1. CASE Become(t, q)
    BY <1>1, <1>2, <1>11, <1>13, <1>21, <2>1, ThreadMoves
  <2>2. CASE End(t)
    BY <1>1, <1>2, <1>11, <1>21, <2>2, IdleThread, ThreadMoves DEF End
  <2> QED BY <1>14, <2>1, <2>2
<1> QED BY <1>11, <1>22, <1>23 DEF Inv, Linked

-----------------------------------------------------------------------------
(* Steps of the user.                                                      *)

LEMMA MergeStep ==
  ASSUME Inv, NEW t \in Threads, NEW d \in Libraries, NEW from \in Clusters, NEW into \in Clusters,
         MergeClusters(t, d, from, into)
  PROVE  Inv' /\ AllStand
<1> DEFINE rows == [f \in Faces |-> IF f \in In(d, from) THEN [face[d][f] EXCEPT !.cluster = into]
                                    ELSE face[d][f]]
           named == [cluster[d] EXCEPT ![from] = NoCluster]
           banned == {r \in rejected[d] : /\ r[2] # from
                                          /\ ~(r[2] = into /\ r[1] \in In(d, from))}
<1>1. /\ face[d] \in Rows /\ cluster[d] \in Names /\ rejected[d] \in Bans
      /\ asset[d] \in [Assets -> {"none", "kept", "leased"}]
      /\ Labelled(face[d], cluster[d], rejected[d]) /\ DrawnClusters(cluster[d], clusters)
      /\ Present(face[d], asset[d])
      /\ clusters \in 0 .. MaxClusters /\ clusters <= clusters
  BY LibraryFacts, Constants
<1>2. /\ from # into /\ cluster[d][into].open
      /\ UNCHANGED <<asset, faces, clusters, moves>>
  BY DEF MergeClusters
<1>3. ThreadGoes
  <2>1. {into} \in SUBSET Clusters /\ Refresh(t, d, {into})
    BY DEF MergeClusters
  <2> QED BY <2>1, Refreshes
<1>4. Put(d, asset[d], rows, named, banned)
  BY <1>2, LibraryFacts DEF MergeClusters, WriteFaces, WriteClusters, Put
<1>5. \A f \in Faces :
        IF f \in In(d, from)
        THEN /\ face[d][f] \in Face /\ face[d][f].cluster = from
             /\ rows[f] \in Face /\ rows[f].cluster = into /\ rows[f].state = face[d][f].state
             /\ rows[f].asset = face[d][f].asset /\ rows[f].model = face[d][f].model
             /\ rows[f].batch = face[d][f].batch
        ELSE rows[f] = face[d][f] /\ (rows[f] # NoFace => rows[f].cluster # from)
  <2> SUFFICES ASSUME NEW f \in Faces, f \in In(d, from)
               PROVE  LET x == [face[d][f] EXCEPT !.cluster = into]
                      IN /\ face[d][f] \in Face /\ face[d][f].cluster = from
                         /\ x \in Face /\ x.cluster = into /\ x.state = face[d][f].state
                         /\ x.asset = face[d][f].asset /\ x.model = face[d][f].model
                         /\ x.batch = face[d][f].batch
    BY DEF In, Found
  <2>1. face[d][f] \in Face /\ face[d][f].cluster = from
    BY <1>1 DEF In, Found, Rows
  <2> QED BY <2>1 DEF Face
<1>6. named \in Names /\ \A c \in Clusters : named[c] = IF c = from THEN NoCluster ELSE cluster[d][c]
  BY <1>1 DEF Names
<1>7. /\ banned \in Bans /\ banned \subseteq rejected[d]
      /\ \A f \in In(d, from) : <<f, into>> \notin banned
      /\ \A r \in banned : r[2] # from
  BY <1>1 DEF Bans
<1>8. rows \in Rows
  BY <1>1, <1>5 DEF Rows
<1> HIDE DEF rows, named, banned
<1>9. Kin(face[d], rows)
  BY <1>5, NoFaceIsNone DEF Kin
<1>10. Labelled(rows, named, banned)
  <2>1. ASSUME NEW f \in Faces, rows[f] # NoFace
        PROVE  /\ rows[f].state \in Grouped <=> rows[f].cluster # Null
               /\ rows[f].cluster # Null => named[rows[f].cluster].open
               /\ <<f, rows[f].cluster>> \notin banned
    <3>1. CASE f \in In(d, from)
      <4>1. face[d][f] # NoFace /\ face[d][f].cluster # Null /\ into # Null
        BY <1>5, <3>1, Constants DEF In, Found
      <4>2. face[d][f].state \in Grouped
        BY <1>1, <4>1 DEF Labelled
      <4> QED BY <1>2, <1>5, <1>6, <1>7, <3>1, <4>1, <4>2
    <3>2. CASE f \notin In(d, from)
      <4>1. rows[f] = face[d][f] /\ rows[f].cluster # from /\ rows[f].cluster \in Clusters \cup {Null}
        BY <1>1, <1>5, <2>1, <3>2 DEF Rows, Face
      <4>2. /\ rows[f].state \in Grouped <=> rows[f].cluster # Null
            /\ rows[f].cluster # Null => cluster[d][rows[f].cluster].open
            /\ <<f, rows[f].cluster>> \notin rejected[d]
        BY <1>1, <2>1, <4>1 DEF Labelled
      <4> QED BY <1>6, <1>7, <4>1, <4>2
    <3> QED BY <3>1, <3>2
  <2>2. ASSUME NEW r \in banned PROVE rows[r[1]] # NoFace /\ named[r[2]].open
    <3>1. r \in rejected[d] /\ r[2] # from
      BY <1>7
    <3>2. r \in Faces \X Clusters
      BY <1>1, <3>1 DEF Bans
    <3>3. r[1] \in Faces /\ r[2] \in Clusters /\ r[2] # from
          /\ face[d][r[1]] # NoFace /\ cluster[d][r[2]].open
      BY <1>1, <3>1, <3>2 DEF Labelled
    <3> QED BY <1>5, <1>6, <3>3, NoFaceIsNone
  <2> QED BY <2>1, <2>2 DEF Labelled
<1>11. Present(rows, asset[d])
  BY <1>1, <1>9 DEF Kin, Present
<1>12. DrawnClusters(named, clusters')
  BY <1>1, <1>2, <1>6, NoFaceIsNone DEF DrawnClusters
<1>13. Stands(face[d], cluster[d], rows, named)
  <2> SUFFICES ASSUME NEW f \in Faces, face[d][f] # NoFace
               PROVE  /\ rows[f].state = face[d][f].state
                      /\ \/ rows[f].cluster = face[d][f].cluster
                         \/ face[d][f].cluster # Null /\ ~named[face[d][f].cluster].open
    BY DEF Stands
  <2>1. CASE f \in In(d, from)
    BY <1>5, <1>6, <2>1, NoFaceIsNone, Constants
  <2>2. CASE f \notin In(d, from)
    BY <1>5, <2>2
  <2> QED BY <2>1, <2>2
<1> QED BY <1>1, <1>2, <1>3, <1>4, <1>6, <1>7, <1>8, <1>9, <1>10, <1>11, <1>12, <1>13, Relabels

\* A split opens a cluster that no rejection can name yet.
LEMMA SplitStep ==
  ASSUME Inv, NEW t \in Threads, NEW d \in Libraries, NEW c \in Clusters, NEW fs \in SUBSET Faces,
         SplitCluster(t, d, c, fs)
  PROVE  Inv' /\ AllStand
<1> DEFINE next == clusters + 1
           rows == [f \in Faces |-> IF f \in fs THEN [face[d][f] EXCEPT !.cluster = next,
                                                                        !.state = "confirmed"]
                                    ELSE face[d][f]]
<1>1. /\ face[d] \in Rows /\ cluster[d] \in Names /\ rejected[d] \in Bans
      /\ asset[d] \in [Assets -> {"none", "kept", "leased"}]
      /\ Labelled(face[d], cluster[d], rejected[d]) /\ DrawnClusters(cluster[d], clusters)
      /\ Present(face[d], asset[d]) /\ clusters \in Nat
  BY LibraryFacts, Constants
<1>2. /\ fs \subseteq In(d, c) /\ clusters' = next /\ clusters < MaxClusters
      /\ UNCHANGED <<asset, rejected, faces, moves>>
  BY DEF SplitCluster
<1>3. next \in Clusters /\ next # Null /\ ~(next <= clusters)
      /\ clusters' \in 0 .. MaxClusters /\ clusters <= clusters'
  BY <1>1, <1>2, Constants DEF Clusters, Null
<1>4. PICK cover \in fs :
        WriteClusters(d, [cluster[d] EXCEPT ![next] = [open |-> TRUE, cover |-> cover]])
  BY DEF SplitCluster
<1> DEFINE named == [cluster[d] EXCEPT ![next] = [open |-> TRUE, cover |-> cover]]
<1>5. ThreadGoes
  <2>1. {c} \in SUBSET Clusters /\ Refresh(t, d, {c})
    BY DEF SplitCluster
  <2> QED BY <2>1, Refreshes
<1>6. Put(d, asset[d], rows, named, rejected[d])
  BY <1>2, <1>4, LibraryFacts DEF SplitCluster, WriteFaces, WriteClusters, Put
<1> HIDE DEF next
<1>7. \A f \in Faces :
        IF f \in fs
        THEN /\ face[d][f] # NoFace /\ face[d][f].cluster = c
             /\ rows[f] \in Face /\ rows[f].cluster = next /\ rows[f].state = "confirmed"
             /\ rows[f].asset = face[d][f].asset /\ rows[f].model = face[d][f].model
             /\ rows[f].batch = face[d][f].batch
        ELSE rows[f] = face[d][f]
  <2> SUFFICES ASSUME NEW f \in fs
               PROVE  LET x == [face[d][f] EXCEPT !.cluster = next, !.state = "confirmed"]
                      IN /\ face[d][f] # NoFace /\ face[d][f].cluster = c
                         /\ x \in Face /\ x.cluster = next /\ x.state = "confirmed"
                         /\ x.asset = face[d][f].asset /\ x.model = face[d][f].model
                         /\ x.batch = face[d][f].batch
    OBVIOUS
  <2>1. face[d][f] # NoFace /\ face[d][f] \in Face /\ face[d][f].cluster = c
    BY <1>1, <1>2 DEF In, Found, Rows
  <2> QED BY <1>3, <2>1 DEF Face, States
<1>8. /\ named \in Names /\ named[next].open
      /\ \A e \in Clusters : e # next => named[e] = cluster[d][e]
  <2>1. [open |-> TRUE, cover |-> cover] \in Cluster
    BY <1>4 DEF Cluster
  <2> QED BY <1>1, <1>3, <2>1 DEF Names
<1>9. rows \in Rows
  BY <1>1, <1>7 DEF Rows
<1> HIDE DEF rows, named
<1>10. Kin(face[d], rows)
  BY <1>7 DEF Kin
<1>11. \A e \in Clusters : cluster[d][e].open => e # next
  BY <1>1, <1>3 DEF DrawnClusters
<1>12. Labelled(rows, named, rejected[d])
  <2>1. \A r \in rejected[d] : /\ face[d][r[1]] # NoFace /\ cluster[d][r[2]].open
                               /\ r[1] \in Faces /\ r[2] \in Clusters
    BY <1>1 DEF Labelled, Bans
  <2>2. ASSUME NEW f \in Faces, rows[f] # NoFace
        PROVE  /\ rows[f].state \in Grouped <=> rows[f].cluster # Null
               /\ rows[f].cluster # Null => named[rows[f].cluster].open
               /\ <<f, rows[f].cluster>> \notin rejected[d]
    <3>1. CASE f \in fs
      <4>1. <<f, next>> \notin rejected[d]
        BY <1>11, <2>1
      <4> QED BY <1>3, <1>7, <1>8, <3>1, <4>1 DEF Grouped, Members
    <3>2. CASE f \notin fs
      <4>1. rows[f] = face[d][f] /\ rows[f].cluster \in Clusters \cup {Null}
        BY <1>1, <1>7, <2>2, <3>2 DEF Rows, Face
      <4>2. /\ rows[f].state \in Grouped <=> rows[f].cluster # Null
            /\ rows[f].cluster # Null => cluster[d][rows[f].cluster].open
            /\ <<f, rows[f].cluster>> \notin rejected[d]
        BY <1>1, <2>2, <4>1 DEF Labelled
      <4> QED BY <1>8, <1>11, <4>1, <4>2
    <3> QED BY <3>1, <3>2
  <2>3. ASSUME NEW r \in rejected[d] PROVE rows[r[1]] # NoFace /\ named[r[2]].open
    BY <1>7, <1>8, <1>11, <2>1, NoFaceIsNone
  <2> QED BY <2>2, <2>3 DEF Labelled
<1>13. Present(rows, asset[d])
  BY <1>1, <1>10 DEF Kin, Present
<1>14. DrawnClusters(named, clusters')
  <2> SUFFICES ASSUME NEW e \in Clusters, named[e].open PROVE e <= clusters'
    BY DEF DrawnClusters
  <2>1. CASE e = next
    BY <1>2, <1>3, <2>1, Constants
  <2>2. CASE e # next
    BY <1>1, <1>3, <1>8, <2>2, Constants DEF DrawnClusters
  <2> QED BY <2>1, <2>2
<1>15. Stands(face[d], cluster[d], rows, named)
  <2> SUFFICES ASSUME NEW f \in Faces, face[d][f] # NoFace, face[d][f].state \in Verdicts
               PROVE  /\ rows[f].state = face[d][f].state
                      /\ \/ rows[f].cluster = face[d][f].cluster
                         \/ rows[f].cluster # Null /\ ~cluster[d][rows[f].cluster].open
    BY DEF Stands
  <2>1. CASE f \in fs
    <3>1. face[d][f].cluster # Null
      BY <1>7, <2>1, Constants
    <3>2. face[d][f].state = "confirmed"
      BY <1>1, <3>1 DEF Labelled, Verdicts, Grouped, Members
    <3> QED BY <1>3, <1>7, <1>11, <2>1, <3>2
  <2>2. CASE f \notin fs
    BY <1>7, <2>2
  <2> QED BY <2>1, <2>2
<1> QED BY <1>1, <1>2, <1>3, <1>5, <1>6, <1>8, <1>9, <1>10, <1>12, <1>13, <1>14, <1>15, Relabels

LEMMA AcceptStep ==
  ASSUME Inv, NEW d \in Libraries, NEW f \in Faces, Accept(d, f)
  PROVE  Inv' /\ AllStand
<1> DEFINE x == [face[d][f] EXCEPT !.state = "confirmed"]
           rows == [face[d] EXCEPT ![f] = x]
<1>1. /\ face[d] \in Rows /\ cluster[d] \in Names /\ rejected[d] \in Bans
      /\ asset[d] \in [Assets -> {"none", "kept", "leased"}]
      /\ Labelled(face[d], cluster[d], rejected[d]) /\ DrawnClusters(cluster[d], clusters)
      /\ Present(face[d], asset[d]) /\ clusters \in 0 .. MaxClusters /\ clusters <= clusters
  BY LibraryFacts, Constants
<1>2. /\ face[d][f].state = "candidate" /\ face[d][f].cluster # Null
      /\ UNCHANGED <<asset, cluster, rejected, faces, clusters, moves, thread>>
      /\ face' = [face EXCEPT ![d] = rows]
  BY DEF Accept
<1>3. face[d][f] \in Face /\ face[d][f] # NoFace
  BY <1>1, <1>2 DEF Rows, NoFace
<1>4. /\ x \in Face /\ x.cluster = face[d][f].cluster /\ x.state = "confirmed"
      /\ x.asset = face[d][f].asset /\ x.model = face[d][f].model /\ x.batch = face[d][f].batch
  BY <1>3 DEF Face, States
<1> HIDE DEF x
<1>5. rows \in Rows /\ rows[f] = x /\ \A g \in Faces : g # f => rows[g] = face[d][g]
  BY <1>1, <1>4 DEF Rows
<1>6. Put(d, asset[d], rows, cluster[d], rejected[d])
  BY <1>2, LibraryFacts DEF Put
<1> HIDE DEF rows
<1>7. Kin(face[d], rows)
  BY <1>3, <1>4, <1>5 DEF Kin
<1>8. Labelled(rows, cluster[d], rejected[d])
  <2>1. x # NoFace
    BY <1>4, NoFaceIsNone
  <2>2. ASSUME NEW g \in Faces, rows[g] # NoFace
        PROVE  /\ rows[g].state \in Grouped <=> rows[g].cluster # Null
               /\ rows[g].cluster # Null => cluster[d][rows[g].cluster].open
               /\ <<g, rows[g].cluster>> \notin rejected[d]
    <3>1. CASE g = f
      BY <1>1, <1>2, <1>3, <1>4, <1>5, <3>1 DEF Labelled, Grouped, Members
    <3>2. CASE g # f
      BY <1>1, <1>5, <2>2, <3>2 DEF Labelled
    <3> QED BY <3>1, <3>2
  <2>3. \A g \in Faces : face[d][g] # NoFace => rows[g] # NoFace
    BY <1>5, <2>1
  <2> QED BY <1>1, <2>2, <2>3 DEF Labelled, Bans
<1>9. Present(rows, asset[d])
  BY <1>1, <1>7 DEF Kin, Present
<1>10. Stands(face[d], cluster[d], rows, cluster[d])
  BY <1>2, <1>5 DEF Stands, Verdicts
<1>11. ThreadGoes
  BY <1>2 DEF ThreadGoes
<1> QED BY <1>1, <1>2, <1>5, <1>6, <1>7, <1>8, <1>9, <1>10, <1>11, Relabels

LEMMA RejectStep ==
  ASSUME Inv, NEW d \in Libraries, NEW f \in Faces, Reject(d, f)
  PROVE  Inv' /\ AllStand
<1> DEFINE c == face[d][f].cluster
           x == [face[d][f] EXCEPT !.state = "rejected", !.cluster = Null]
           rows == [face[d] EXCEPT ![f] = x]
           banned == rejected[d] \cup {<<f, c>>}
<1>1. /\ face[d] \in Rows /\ cluster[d] \in Names /\ rejected[d] \in Bans
      /\ asset[d] \in [Assets -> {"none", "kept", "leased"}]
      /\ Labelled(face[d], cluster[d], rejected[d]) /\ DrawnClusters(cluster[d], clusters)
      /\ Present(face[d], asset[d]) /\ clusters \in 0 .. MaxClusters /\ clusters <= clusters
  BY LibraryFacts, Constants
<1>2. /\ face[d][f].state = "candidate" /\ c # Null
      /\ UNCHANGED <<asset, cluster, faces, clusters, moves, thread>>
      /\ face' = [face EXCEPT ![d] = rows] /\ rejected' = [rejected EXCEPT ![d] = banned]
  BY DEF Reject
<1>3. face[d][f] \in Face /\ face[d][f] # NoFace /\ c \in Clusters
  BY <1>1, <1>2 DEF Rows, NoFace, Face
<1>4. /\ x \in Face /\ x.cluster = Null /\ x.state = "rejected"
      /\ x.asset = face[d][f].asset /\ x.model = face[d][f].model /\ x.batch = face[d][f].batch
  BY <1>3 DEF Face, States
<1>5. cluster[d][c].open
  BY <1>1, <1>2, <1>3 DEF Labelled
<1> HIDE DEF x, c
<1>6. rows \in Rows /\ rows[f] = x /\ \A g \in Faces : g # f => rows[g] = face[d][g]
  BY <1>1, <1>4 DEF Rows
<1>7. banned \in Bans
  BY <1>1, <1>3 DEF Bans
<1>8. Put(d, asset[d], rows, cluster[d], banned)
  BY <1>2, LibraryFacts DEF Put
<1> HIDE DEF rows
<1>9. Kin(face[d], rows)
  BY <1>3, <1>4, <1>6 DEF Kin
<1>10. Labelled(rows, cluster[d], banned)
  <2>1. x # NoFace
    BY <1>4, NoFaceIsNone
  <2>2. ASSUME NEW g \in Faces, rows[g] # NoFace
        PROVE  /\ rows[g].state \in Grouped <=> rows[g].cluster # Null
               /\ rows[g].cluster # Null => cluster[d][rows[g].cluster].open
               /\ <<g, rows[g].cluster>> \notin banned
    <3>1. CASE g = f
      <4>1. <<f, Null>> \notin banned
        BY <1>7, Constants DEF Bans
      <4> QED BY <1>4, <1>6, <3>1, <4>1 DEF Grouped, Members
    <3>2. CASE g # f
      BY <1>1, <1>6, <2>2, <3>2 DEF Labelled
    <3> QED BY <3>1, <3>2
  <2>3. \A g \in Faces : face[d][g] # NoFace => rows[g] # NoFace
    BY <1>6, <2>1
  <2>4. ASSUME NEW r \in banned PROVE rows[r[1]] # NoFace /\ cluster[d][r[2]].open
    <3>1. CASE r \in rejected[d]
      BY <1>1, <2>3, <3>1 DEF Labelled, Bans
    <3>2. CASE r = <<f, c>>
      BY <1>5, <1>6, <2>1, <3>2
    <3> QED BY <3>1, <3>2
  <2> QED BY <2>2, <2>4 DEF Labelled
<1>11. Present(rows, asset[d])
  BY <1>1, <1>9 DEF Kin, Present
<1>12. Stands(face[d], cluster[d], rows, cluster[d])
  BY <1>2, <1>6 DEF Stands, Verdicts
<1>13. ThreadGoes
  BY <1>2 DEF ThreadGoes
<1> HIDE DEF banned
<1> QED BY <1>1, <1>2, <1>6, <1>7, <1>8, <1>9, <1>10, <1>11, <1>12, <1>13, Relabels
-----------------------------------------------------------------------------
(* Steps that only move a thread, and the restart.                         *)

LEMMA TablesStay ==
  ASSUME Inv, UNCHANGED tables
  PROVE  AllStand
BY DEF tables, AllStand, Stands

LEMMA StartAnalyzeStep ==
  ASSUME Inv, NEW t \in Threads, NEW d \in Libraries, NEW a \in Assets, StartAnalyze(t, d, a)
  PROVE  Inv' /\ AllStand
<1> DEFINE q == [Idle EXCEPT !.step = "analyze", !.lib = d, !.asset = a]
<1>1. q \in Thread /\ q.step = "analyze" /\ q.asset = a
  BY IdleThread DEF Thread, Steps
<1>2. Become(t, q) /\ UNCHANGED <<tables, faces, clusters>> /\ moves' \in 0 .. MaxMoves
  BY DEF StartAnalyze, Inv, TablesOK
<1> HIDE DEF q
<1> QED BY <1>1, <1>2, OnlyThread, TablesStay

LEMMA EndStep ==
  ASSUME Inv, NEW t \in Threads, End(t), UNCHANGED <<tables, faces, clusters, moves>>
  PROVE  Inv' /\ AllStand
<1>1. Become(t, Idle) /\ Idle \in Thread /\ Idle.step = "idle" /\ moves' \in 0 .. MaxMoves
  BY IdleThread DEF End, Inv, TablesOK
<1> QED BY <1>1, OnlyThread, TablesStay

LEMMA AskAssignStep ==
  ASSUME Inv, NEW t \in Threads, AskAssign(t)
  PROVE  Inv' /\ AllStand
<1> DEFINE d == Lib(t)
           medoids == Medoids(d, thread[t].model)
           asked == {face[d][f].cluster : f \in medoids}
           q == [thread[t] EXCEPT !.step = "assign", !.model = NoModel, !.groups = asked]
<1>1. thread[t] \in Thread /\ d \in Libraries /\ face[d] \in Rows /\ moves' \in 0 .. MaxMoves
  BY ThreadFields, LibraryFacts DEF AskAssign, Inv, TablesOK
<1>2. asked \subseteq Clusters
  BY <1>1 DEF Medoids, Found, Rows, Face
<1>3. Become(t, q) \/ End(t)
  BY DEF AskAssign
<1> HIDE DEF asked
<1>4. q \in Thread /\ q.step = "assign"
  BY <1>1, <1>2 DEF Thread, Steps
<1>5. CASE End(t)
  BY <1>5, EndStep DEF AskAssign
<1>6. CASE Become(t, q)
  <2> HIDE DEF q
  <2> QED BY <1>1, <1>4, <1>6, OnlyThread, TablesStay DEF AskAssign
<1> QED BY <1>3, <1>5, <1>6

LEMMA StartReclusterStep ==
  ASSUME Inv, NEW t \in Threads, NEW d \in Libraries, NEW m \in Models, StartRecluster(t, d, m)
  PROVE  Inv' /\ AllStand
<1> DEFINE rows == {f \in Found(d) : face[d][f].model = m}
           q == [Idle EXCEPT !.step = "group", !.lib = d, !.ids = rows]
<1>1. rows \subseteq Faces
  BY DEF Found
<1>2. Become(t, q) /\ UNCHANGED <<tables, faces, clusters>> /\ moves' \in 0 .. MaxMoves
  BY DEF StartRecluster, Inv, TablesOK
<1> HIDE DEF rows
<1>3. q \in Thread /\ q.step = "group"
  BY <1>1, IdleThread DEF Thread, Steps
<1> HIDE DEF q
<1> QED BY <1>2, <1>3, OnlyThread, TablesStay

LEMMA ReadCoverStep ==
  ASSUME Inv, NEW t \in Threads, NEW c \in Clusters, ReadCover(t, c)
  PROVE  Inv' /\ AllStand
<1> DEFINE rest == thread[t].groups \ {c}
           q(f) == [thread[t] EXCEPT !.step = "write", !.now = c, !.cover = f, !.groups = rest]
<1>1. thread[t] \in Thread /\ moves' \in 0 .. MaxMoves /\ UNCHANGED <<tables, faces, clusters, moves>>
  BY ThreadFields DEF ReadCover, Inv, TablesOK
<1>2. End(t) \/ \E f \in Faces \cup {Null} : Become(t, q(f))
  <2>1. In(Lib(t), c) \subseteq Faces
    BY DEF In, Found
  <2>2. CASE In(Lib(t), c) = {}
    BY <2>2 DEF ReadCover
  <2>3. CASE In(Lib(t), c) # {}
    <3>1. PICK g \in In(Lib(t), c) :
            LET medoids == Medoids(Lib(t), face[Lib(t)][g].model)
                mine == medoids \cap In(Lib(t), c)
                sure == {f \in mine : face[Lib(t)][f].state = "confirmed"}
            IN IF ~Fits(medoids) THEN End(t)
               ELSE \E f \in IF mine = {} THEN {Null} ELSE IF sure = {} THEN mine ELSE sure :
                      Become(t, q(f))
      BY <2>3 DEF ReadCover
    <3> DEFINE medoids == Medoids(Lib(t), face[Lib(t)][g].model)
               mine == medoids \cap In(Lib(t), c)
               sure == {f \in mine : face[Lib(t)][f].state = "confirmed"}
    <3>2. \A f \in IF mine = {} THEN {Null} ELSE IF sure = {} THEN mine ELSE sure :
            f \in Faces \cup {Null}
      BY <2>1
    <3> HIDE DEF q
    <3> QED BY <3>1, <3>2
  <2> QED BY <2>2, <2>3
<1>3. CASE End(t)
  BY <1>1, <1>3, EndStep
<1>4. ASSUME NEW f \in Faces \cup {Null}, Become(t, q(f)) PROVE Inv' /\ AllStand
  <2>1. q(f) \in Thread /\ q(f).step = "write"
    BY <1>1 DEF Thread, Steps
  <2> HIDE DEF q
  <2> QED BY <1>1, <1>4, <2>1, OnlyThread, TablesStay
<1> QED BY <1>2, <1>3, <1>4

\* The restart keeps the transfers that are past their commit.
LEMMA RestartStep ==
  ASSUME Inv, Restart
  PROVE  Inv' /\ AllStand
<1>1. PICK owner \in Owners : Linked(owner)
  BY DEF Inv
<1>2. /\ thread \in [Threads -> Thread] /\ UNCHANGED <<tables, faces, clusters, moves>>
      /\ thread' = [t \in Threads |-> IF thread[t].step \in {"ready", "leased"}
                                      THEN thread[t] ELSE Idle]
  BY DEF Inv, ThreadsOK, Restart
<1>3. ThreadsOK'
  BY <1>2, IdleThread DEF ThreadsOK
<1>4. \A t \in Threads : ThreadInv(thread'[t], owner, faces', clusters')
  BY <1>1, <1>2, IdleThread DEF Linked, ThreadInv
<1>5. TablesOK' /\ \A d \in Libraries : LibraryInv(d, owner)'
  BY <1>1, <1>2 DEF Inv, TablesOK, Linked, LibraryInv, tables
<1> QED BY <1>2, <1>3, <1>4, <1>5, <1>1, TablesStay DEF Inv, Linked

-----------------------------------------------------------------------------
(* Steps of a transfer.                                                    *)

\* What is collected fits, as the library it is read from does.
LEMMA CollectStep ==
  ASSUME Inv, NEW t \in Threads, NEW d \in Libraries, NEW a \in Assets, Collect(t, d, a)
  PROVE  Inv' /\ AllStand
<1> DEFINE mine == FacesOf(d, a)
           groups == {face[d][f].cluster : f \in mine} \ {Null}
           rows == [f \in Faces |-> IF f \in mine THEN face[d][f] ELSE NoFace]
           named == [c \in Clusters |-> IF c \in groups THEN cluster[d][c] ELSE NoCluster]
           banned == {r \in rejected[d] : r[1] \in mine /\ r[2] \in groups}
           q == [Idle EXCEPT !.step = "carry", !.lib = d, !.asset = a,
                             !.rows = rows, !.named = named, !.banned = banned]
<1>1. PICK owner \in Owners : Linked(owner)
  BY DEF Inv
<1>2. /\ face[d] \in Rows /\ cluster[d] \in Names /\ rejected[d] \in Bans
      /\ Labelled(face[d], cluster[d], rejected[d]) /\ Single(face[d])
      /\ DrawnFaces(face[d], faces) /\ DrawnClusters(cluster[d], clusters)
      /\ Owned(face[d], owner)
  BY <1>1, LibraryFacts DEF Linked, LibraryInv
<1>3. Become(t, q) /\ UNCHANGED <<tables, faces, clusters>> /\ moves' = moves + 1 /\ moves < MaxMoves
  BY DEF Collect
<1>4. /\ \A f \in mine : f \in Faces /\ face[d][f] # NoFace /\ face[d][f].asset = a
      /\ \A f \in Faces : /\ f \in mine => rows[f] = face[d][f]
                          /\ f \notin mine => rows[f] = NoFace
      /\ \A f \in mine : face[d][f].cluster # Null => face[d][f].cluster \in groups
      /\ \A c \in Clusters : /\ c \in groups => named[c] = cluster[d][c]
                             /\ c \notin groups => named[c] = NoCluster
      /\ banned \subseteq rejected[d] /\ \A r \in banned : r[1] \in mine /\ r[2] \in groups
  BY DEF FacesOf, Found
<1> HIDE DEF mine, groups, rows, named, banned
<1>5. rows \in Rows /\ named \in Names /\ banned \in Bans
  <2>1. rows \in Rows
    <3>1. rows = [f \in Faces |-> IF f \in mine THEN face[d][f] ELSE NoFace]
      BY DEF rows
    <3> QED BY <1>2, <3>1 DEF Rows
  <2>2. named \in Names
    <3>1. named = [c \in Clusters |-> IF c \in groups THEN cluster[d][c] ELSE NoCluster]
      BY DEF named
    <3> QED BY <1>2, <3>1 DEF Names
  <2> QED BY <1>2, <1>4, <2>1, <2>2 DEF Bans
<1>6. Labelled(rows, named, banned)
  <2>1. ASSUME NEW f \in Faces, rows[f] # NoFace
        PROVE  /\ rows[f].state \in Grouped <=> rows[f].cluster # Null
               /\ rows[f].cluster # Null => named[rows[f].cluster].open
               /\ <<f, rows[f].cluster>> \notin banned
    <3>1. f \in mine /\ rows[f] = face[d][f] /\ face[d][f] \in Face
      BY <1>2, <1>4, <2>1 DEF Rows
    <3>2. face[d][f].cluster \in Clusters \cup {Null}
      BY <3>1 DEF Face
    <3> QED BY <1>2, <1>4, <2>1, <3>1, <3>2 DEF Labelled
  <2>2. ASSUME NEW r \in banned PROVE rows[r[1]] # NoFace /\ named[r[2]].open
    <3>1. r \in rejected[d] /\ r \in Faces \X Clusters /\ r[1] \in mine /\ r[2] \in groups
      BY <1>2, <1>4 DEF Bans
    <3>2. r[1] \in Faces /\ r[2] \in Clusters /\ cluster[d][r[2]].open
      BY <1>2, <3>1 DEF Labelled
    <3> QED BY <1>4, <3>1, <3>2
  <2> QED BY <2>1, <2>2 DEF Labelled
<1>7. Single(rows) /\ DrawnFaces(rows, faces) /\ DrawnClusters(named, clusters)
      /\ Owned(rows, owner) /\ \A f \in Faces : rows[f] # NoFace => rows[f].asset = a
  <2>1. Single(rows)
    BY <1>2, <1>4 DEF Single
  <2>2. DrawnFaces(rows, faces) /\ Owned(rows, owner)
    BY <1>2, <1>4 DEF DrawnFaces, Owned
  <2>3. DrawnClusters(named, clusters)
    BY <1>2, <1>4, NoFaceIsNone DEF DrawnClusters
  <2> QED BY <1>4, <2>1, <2>2, <2>3
<1>8. /\ q \in Thread /\ q.step = "carry" /\ q.asset = a
      /\ q.rows = rows /\ q.named = named /\ q.banned = banned
  BY <1>5, IdleThread DEF Thread, Steps, Rows, Names, Bans
<1> HIDE DEF q
<1>9. ThreadInv(q, owner, faces, clusters)
  BY <1>6, <1>7, <1>8 DEF ThreadInv
<1>10. TablesOK' /\ \A e \in Libraries : LibraryInv(e, owner)'
  <2>1. moves' \in 0 .. MaxMoves
    BY <1>3, Constants DEF Inv, TablesOK
  <2> QED BY <1>1, <1>3, <2>1 DEF Inv, TablesOK, Linked, LibraryInv, tables
<1>11. ThreadsOK' /\ \A u \in Threads : ThreadInv(thread'[u], owner, faces', clusters')
  <2>1. \A u \in Threads : thread'[u] = IF u = t THEN q ELSE thread[u]
    BY <1>3 DEF Become, Inv, ThreadsOK
  <2>2. ThreadsOK'
    BY <1>3, <1>8 DEF Become, Inv, ThreadsOK
  <2> QED BY <1>1, <1>3, <1>9, <2>1, <2>2 DEF Linked
<1> QED BY <1>3, <1>10, <1>11, TablesStay DEF Inv, Linked

\* The transfers past their commit keep their asset.
LEMMA LeaseMoveStep ==
  ASSUME Inv, NEW t \in Threads, LeaseMove(t)
  PROVE  Inv' /\ AllStand
<1> DEFINE d == Lib(t)
           a == thread[t].asset
           assets == [asset[d] EXCEPT ![a] = IF @ = "none" THEN @ ELSE "leased"]
           q == [thread[t] EXCEPT !.step = "leased"]
<1>1. PICK owner \in Owners : Linked(owner)
  BY DEF Inv
<1>2. /\ thread[t] \in Thread /\ d \in Libraries /\ thread[t].step = "ready"
      /\ Become(t, q) /\ UNCHANGED <<face, cluster, rejected, faces, clusters, moves>>
  BY ThreadFields DEF LeaseMove, At
<1>3. a \in Assets
  BY <1>1, <1>2 DEF Linked, ThreadInv
<1>4. /\ face[d] \in Rows /\ cluster[d] \in Names /\ rejected[d] \in Bans
      /\ asset[d] \in [Assets -> {"none", "kept", "leased"}]
      /\ Labelled(face[d], cluster[d], rejected[d]) /\ DrawnClusters(cluster[d], clusters)
      /\ Present(face[d], asset[d]) /\ clusters \in 0 .. MaxClusters /\ clusters <= clusters
  BY <1>2, LibraryFacts, Constants
<1>5. /\ assets \in [Assets -> {"none", "kept", "leased"}]
      /\ \A b \in Assets : asset[d][b] # "none" => assets[b] # "none"
  BY <1>3, <1>4
<1>6. asset' = [asset EXCEPT ![d] = assets]
  BY DEF LeaseMove
<1>7. q \in Thread /\ q.step = "leased" /\ q.asset = a
  BY <1>2 DEF Thread, Steps
<1> HIDE DEF assets, q
<1>8. ThreadGoes
  BY <1>2, <1>3, <1>7 DEF ThreadGoes
<1>9. Put(d, assets, face[d], cluster[d], rejected[d])
  BY <1>2, <1>6, LibraryFacts DEF Put
<1>10. Kin(face[d], face[d]) /\ Stands(face[d], cluster[d], face[d], cluster[d])
  BY <1>4, StandStill
<1>11. Present(face[d], assets)
  <2> SUFFICES ASSUME NEW f \in Faces, face[d][f] # NoFace PROVE assets[face[d][f].asset] # "none"
    BY DEF Present
  <2>1. face[d][f].asset \in Assets
    BY <1>4 DEF Rows, Face
  <2> QED BY <1>4, <1>5, <2>1 DEF Present
<1> QED BY <1>2, <1>4, <1>5, <1>8, <1>9, <1>10, <1>11, Relabels

LEMMA CoveredType ==
  ASSUME NEW rows \in Rows, NEW c, NEW old
  PROVE  Covered(rows, c, old) \in Faces \cup {Null}
<1> DEFINE mine == {f \in Faces : rows[f] # NoFace /\ rows[f].cluster = c}
           sure == {f \in mine : rows[f].state = "confirmed"}
           first(fs) == CHOOSE f \in fs : \A g \in fs : f <= g
<1>1. \A fs \in SUBSET Faces : fs # {} => first(fs) \in Faces
  <2> SUFFICES ASSUME NEW fs \in SUBSET Faces, fs # {} PROVE first(fs) \in Faces
    OBVIOUS
  <2>1. \E f \in fs : \A g \in fs : f <= g
    BY Constants, LeastNatural
  <2> QED BY <2>1
<1>2. mine \in SUBSET Faces /\ sure \in SUBSET Faces
  OBVIOUS
<1> HIDE DEF first
<1>3. Covered(rows, c, old) = IF old \in mine THEN old
        ELSE IF mine = {} THEN Null ELSE IF sure = {} THEN first(mine) ELSE first(sure)
  BY DEF Covered, first
<1> HIDE DEF mine, sure
<1> QED BY <1>1, <1>2, <1>3

\* What is carried comes back to a library that has nothing of the asset, so
\* neither rows nor rejections meet.
LEMMA CommitMoveStep ==
  ASSUME Inv, NEW t \in Threads, CommitMove(t)
  PROVE  Inv' /\ AllStand
<1> DEFINE d == Other(Lib(t))
           a == thread[t].asset
           took == thread[t].rows
           known == thread[t].named
           barred == thread[t].banned
           rows == [f \in Faces |-> IF took[f] # NoFace THEN took[f] ELSE face[d][f]]
           carried == {c \in Clusters : known[c].open}
           cover(c) == IF cluster[d][c].open THEN cluster[d][c].cover ELSE known[c].cover
           named == [c \in Clusters |->
                       IF c \in carried THEN [open |-> TRUE, cover |-> Covered(rows, c, cover(c))]
                       ELSE cluster[d][c]]
           banned == rejected[d] \cup barred
           assets == [asset[d] EXCEPT ![a] = "kept"]
           q == [Idle EXCEPT !.step = "ready", !.lib = Lib(t), !.asset = a]
<1>1. PICK owner \in Owners : Linked(owner)
  BY DEF Inv
<1>2. /\ TablesOK /\ ThreadsOK /\ thread[t] \in Thread /\ d \in Libraries
      /\ thread[t].step = "carry" /\ Lib(t) \in Libraries
      /\ asset[d][a] = "none" /\ UNCHANGED <<faces, clusters, moves>> /\ Become(t, q)
  BY ThreadFields, Opposite DEF CommitMove, Inv, At
<1>3. /\ took \in Rows /\ known \in Names /\ barred \in Bans /\ a \in Assets
      /\ Labelled(took, known, barred) /\ Single(took)
      /\ DrawnFaces(took, faces) /\ DrawnClusters(known, clusters)
      /\ Owned(took, owner) /\ \A f \in Faces : took[f] # NoFace => took[f].asset = a
  BY <1>1, <1>2 DEF Linked, ThreadInv, Thread, Rows, Names, Bans
<1>4. /\ face[d] \in Rows /\ cluster[d] \in Names /\ rejected[d] \in Bans
      /\ asset[d] \in [Assets -> {"none", "kept", "leased"}]
      /\ Labelled(face[d], cluster[d], rejected[d]) /\ Single(face[d])
      /\ DrawnFaces(face[d], faces) /\ DrawnClusters(cluster[d], clusters)
      /\ Present(face[d], asset[d]) /\ Owned(face[d], owner)
      /\ faces \in 0 .. MaxFaces /\ faces <= faces /\ clusters \in 0 .. MaxClusters
      /\ clusters <= clusters
  BY <1>1, <1>2, LibraryFacts, Constants DEF Linked, LibraryInv
<1>5. \A f \in Faces : face[d][f] # NoFace => face[d][f].asset # a /\ took[f] = NoFace
  <2>1. \A f \in Faces : face[d][f] # NoFace => face[d][f].asset # a
    BY <1>2, <1>4 DEF Present
  <2> QED BY <1>3, <1>4, <2>1 DEF Owned
<1>6. Put(d, assets, rows, named, banned)
  <2>1. asset' = [asset EXCEPT ![d] = assets]
    BY DEF CommitMove
  <2>2. face' = [face EXCEPT ![d] = rows] /\ cluster' = [cluster EXCEPT ![d] = named]
    BY DEF CommitMove, WriteFaces, WriteClusters
  <2>3. rejected' = [rejected EXCEPT ![d] = banned]
    BY DEF CommitMove
  <2> QED BY <2>1, <2>2, <2>3 DEF Put
<1>7. q \in Thread /\ q.step = "ready" /\ q.asset = a
  BY <1>2, <1>3, IdleThread DEF Thread, Steps
<1> HIDE DEF q, d, a, took, known, barred
<1>8. assets \in [Assets -> {"none", "kept", "leased"}]
      /\ assets[a] = "kept" /\ \A b \in Assets : b # a => assets[b] = asset[d][b]
  BY <1>3, <1>4
<1>9. /\ \A f \in Faces : /\ took[f] # NoFace => rows[f] = took[f]
                          /\ took[f] = NoFace => rows[f] = face[d][f]
      /\ rows \in Rows
  BY <1>3, <1>4 DEF Rows
<1> HIDE DEF rows, assets
<1>10. /\ \A c \in Clusters : named[c].open <=> known[c].open \/ cluster[d][c].open
       /\ named \in Names
  <2>1. \A c \in Clusters : [open |-> TRUE, cover |-> Covered(rows, c, cover(c))] \in Cluster
    <3> HIDE DEF cover
    <3> QED BY <1>9, CoveredType DEF Cluster
  <2>2. (\A e \in Cluster : e.open = TRUE) /\ NoCluster.open = FALSE
    BY DEF Cluster, NoCluster
  <2>3. \A c \in Clusters : cluster[d][c].open \in BOOLEAN /\ known[c].open \in BOOLEAN
    BY <1>3, <1>4, <2>2 DEF Names
  <2> HIDE DEF cover
  <2> QED BY <1>4, <2>1, <2>3 DEF Names
<1>11. banned \in Bans
  BY <1>3, <1>4 DEF Bans
<1> HIDE DEF named
<1>12. Labelled(rows, named, banned)
  <2>1. \A r \in rejected[d] : /\ r \in Faces \X Clusters /\ face[d][r[1]] # NoFace
                               /\ cluster[d][r[2]].open
    BY <1>4 DEF Labelled, Bans
  <2>2. \A r \in barred : r \in Faces \X Clusters /\ took[r[1]] # NoFace /\ known[r[2]].open
    BY <1>3 DEF Labelled, Bans
  <2>3. ASSUME NEW f \in Faces, rows[f] # NoFace
        PROVE  /\ rows[f].state \in Grouped <=> rows[f].cluster # Null
               /\ rows[f].cluster # Null => named[rows[f].cluster].open
               /\ <<f, rows[f].cluster>> \notin banned
    <3>1. rows[f].cluster \in Clusters \cup {Null}
      BY <1>9, <2>3 DEF Rows, Face
    <3>2. CASE took[f] # NoFace
      <4>1. rows[f] = took[f] /\ face[d][f] = NoFace
        BY <1>5, <1>9, <3>2
      <4>2. <<f, rows[f].cluster>> \notin rejected[d]
        BY <2>1, <4>1
      <4>3. /\ rows[f].state \in Grouped <=> rows[f].cluster # Null
            /\ rows[f].cluster # Null => known[rows[f].cluster].open
            /\ <<f, rows[f].cluster>> \notin barred
        BY <1>3, <3>2, <4>1 DEF Labelled
      <4> QED BY <1>10, <3>1, <4>2, <4>3
    <3>3. CASE took[f] = NoFace
      <4>1. rows[f] = face[d][f]
        BY <1>9, <3>3
      <4>2. <<f, rows[f].cluster>> \notin barred
        BY <2>2, <3>3
      <4>3. /\ rows[f].state \in Grouped <=> rows[f].cluster # Null
            /\ rows[f].cluster # Null => cluster[d][rows[f].cluster].open
            /\ <<f, rows[f].cluster>> \notin rejected[d]
        BY <1>4, <2>3, <4>1 DEF Labelled
      <4> QED BY <1>10, <3>1, <4>2, <4>3
    <3> QED BY <3>2, <3>3
  <2>4. ASSUME NEW r \in banned PROVE rows[r[1]] # NoFace /\ named[r[2]].open
    <3>1. CASE r \in rejected[d]
      <4>1. r[1] \in Faces /\ r[2] \in Clusters
        BY <2>1, <3>1
      <4> QED BY <1>5, <1>9, <1>10, <2>1, <3>1, <4>1
    <3>2. CASE r \in barred
      <4>1. r[1] \in Faces /\ r[2] \in Clusters
        BY <2>2, <3>2
      <4> QED BY <1>9, <1>10, <2>2, <3>2, <4>1
    <3> QED BY <3>1, <3>2
  <2> HIDE DEF banned
  <2> QED BY <2>3, <2>4 DEF Labelled
<1>13. Single(rows)
  BY <1>3, <1>4, <1>5, <1>9 DEF Single
<1>14. DrawnFaces(rows, faces) /\ Owned(rows, owner)
  BY <1>3, <1>4, <1>9 DEF DrawnFaces, Owned
<1>15. DrawnClusters(named, clusters)
  BY <1>3, <1>4, <1>10 DEF DrawnClusters
<1>16. Present(rows, assets)
  <2> SUFFICES ASSUME NEW f \in Faces, rows[f] # NoFace PROVE assets[rows[f].asset] # "none"
    BY DEF Present
  <2>1. rows[f].asset \in Assets
    BY <1>9 DEF Rows, Face
  <2>2. CASE took[f] # NoFace
    BY <1>3, <1>8, <1>9, <2>2
  <2>3. CASE took[f] = NoFace
    BY <1>4, <1>5, <1>8, <1>9, <2>1, <2>3 DEF Present
  <2> QED BY <2>2, <2>3
<1>17. Stands(face[d], cluster[d], rows, named)
  BY <1>5, <1>9 DEF Stands
<1> HIDE DEF banned
<1>18. TablesOK' /\ (\A e \in Libraries : LibraryInv(e, owner)') /\ AllStand
  BY <1>1, <1>2, <1>4, <1>6, <1>8, <1>9, <1>10, <1>11, <1>12, <1>13, <1>14, <1>15, <1>16, <1>17,
     LibraryMoves
<1>19. ThreadsOK' /\ \A u \in Threads : ThreadInv(thread'[u], owner, faces', clusters')
  BY <1>1, <1>2, <1>3, <1>4, <1>7, ThreadMoves
<1> QED BY <1>18, <1>19 DEF Inv, Linked

\* ON DELETE CASCADE: the rejections of the faces go with them, and those of
\* the clusters that are closed.
LEMMA CascadeStep ==
  ASSUME Inv, ThreadGoes, NEW d \in Libraries, NEW a \in Assets, NEW named \in Names,
         NEW banned \in Bans, Cascade(d, a), WriteClusters(d, named),
         rejected' = [rejected EXCEPT ![d] = banned], UNCHANGED <<faces, clusters, moves>>,
         \A r \in banned : r \in rejected[d] /\ r[1] \notin FacesOf(d, a) /\ named[r[2]].open,
         \A c \in Clusters : named[c].open => cluster[d][c].open,
         \A f \in Faces : /\ face[d][f] # NoFace /\ face[d][f].asset # a
                          /\ face[d][f].cluster # Null
                          => named[face[d][f].cluster].open
  PROVE  Inv' /\ AllStand
<1> DEFINE rows == Without(d, a)
           assets == [asset[d] EXCEPT ![a] = "none"]
<1>1. /\ face[d] \in Rows /\ cluster[d] \in Names /\ rejected[d] \in Bans
      /\ asset[d] \in [Assets -> {"none", "kept", "leased"}]
      /\ Labelled(face[d], cluster[d], rejected[d]) /\ DrawnClusters(cluster[d], clusters)
      /\ Present(face[d], asset[d]) /\ clusters \in 0 .. MaxClusters /\ clusters <= clusters
  BY LibraryFacts, Constants
<1>2. /\ \A f \in Faces : /\ face[d][f].asset = a => rows[f] = NoFace
                          /\ face[d][f].asset # a => rows[f] = face[d][f]
      /\ rows \in Rows
  BY <1>1 DEF Without, Rows
<1>3. /\ assets \in [Assets -> {"none", "kept", "leased"}]
      /\ \A b \in Assets : b # a => assets[b] = asset[d][b]
  BY <1>1
<1>4. Put(d, assets, rows, named, banned)
  BY DEF Cascade, WriteFaces, WriteClusters, Put
<1> HIDE DEF rows, assets
<1>5. Kin(face[d], rows) /\ Stands(face[d], cluster[d], rows, named)
  BY <1>1, <1>2, StandStill
<1>6. Labelled(rows, named, banned)
  <2>1. ASSUME NEW f \in Faces, rows[f] # NoFace
        PROVE  /\ rows[f].state \in Grouped <=> rows[f].cluster # Null
               /\ rows[f].cluster # Null => named[rows[f].cluster].open
               /\ <<f, rows[f].cluster>> \notin banned
    <3>1. rows[f] = face[d][f] /\ face[d][f].asset # a
      BY <1>2, <2>1
    <3>2. /\ rows[f].state \in Grouped <=> rows[f].cluster # Null
          /\ <<f, rows[f].cluster>> \notin rejected[d]
      BY <1>1, <2>1, <3>1 DEF Labelled
    <3> QED BY <2>1, <3>1, <3>2
  <2>2. ASSUME NEW r \in banned PROVE rows[r[1]] # NoFace /\ named[r[2]].open
    <3>1. r \in rejected[d] /\ r[1] \notin FacesOf(d, a)
      OBVIOUS
    <3>2. r \in Faces \X Clusters
      BY <1>1, <3>1 DEF Bans
    <3>3. r[1] \in Faces /\ face[d][r[1]] # NoFace
      BY <1>1, <3>1, <3>2 DEF Labelled
    <3> QED BY <1>2, <3>1, <3>3 DEF FacesOf, Found
  <2> QED BY <2>1, <2>2 DEF Labelled
<1>7. Present(rows, assets)
  <2> SUFFICES ASSUME NEW f \in Faces, rows[f] # NoFace PROVE assets[rows[f].asset] # "none"
    BY DEF Present
  <2>1. rows[f] = face[d][f] /\ face[d][f].asset # a /\ rows[f].asset \in Assets
    BY <1>2 DEF Rows, Face
  <2> QED BY <1>1, <1>3, <2>1 DEF Present
<1>8. DrawnClusters(named, clusters)
  BY <1>1 DEF DrawnClusters
<1> QED BY <1>1, <1>2, <1>3, <1>4, <1>5, <1>6, <1>7, <1>8, Relabels

LEMMA DeleteMovedStep ==
  ASSUME Inv, NEW t \in Threads, DeleteMoved(t)
  PROVE  Inv' /\ AllStand
<1> DEFINE d == Lib(t)
           a == thread[t].asset
           touched == {face[d][f].cluster : f \in FacesOf(d, a)} \ {Null}
           gone == {c \in touched : Left(d, a, c) = NoCluster}
           named == [c \in Clusters |-> IF c \in touched THEN Left(d, a, c) ELSE cluster[d][c]]
           banned == {r \in rejected[d] : /\ r[1] \notin FacesOf(d, a)
                                          /\ r[2] \notin gone}
<1>1. /\ thread[t] \in Thread /\ d \in Libraries /\ thread[t].step = "leased" /\ ThreadGoes
      /\ UNCHANGED <<faces, clusters, moves>>
  BY ThreadFields, Ends DEF DeleteMoved, At
<1>2. a \in Assets
  BY <1>1 DEF Inv, Linked, ThreadInv
<1>3. /\ face[d] \in Rows /\ cluster[d] \in Names /\ rejected[d] \in Bans
      /\ Labelled(face[d], cluster[d], rejected[d])
  BY <1>1, LibraryFacts
<1>4. Cascade(d, a) /\ WriteClusters(d, named) /\ rejected' = [rejected EXCEPT ![d] = banned]
  BY DEF DeleteMoved
<1>5. \A c \in touched : c \in Clusters /\ cluster[d][c].open
  <2> SUFFICES ASSUME NEW f \in FacesOf(d, a), face[d][f].cluster # Null
               PROVE  face[d][f].cluster \in Clusters /\ cluster[d][face[d][f].cluster].open
    OBVIOUS
  <2>1. f \in Faces /\ face[d][f] # NoFace
    BY DEF FacesOf, Found
  <2> QED BY <1>3, <2>1 DEF Labelled, Rows, Face
\* What is left of a cluster is open unless none of its faces is left.
<1>6. \A c \in touched :
        /\ Left(d, a, c) \in Cluster \cup {NoCluster}
        /\ Left(d, a, c).open <=> Left(d, a, c) # NoCluster
        /\ (\E f \in Faces : Without(d, a)[f] # NoFace /\ Without(d, a)[f].cluster = c)
             => Left(d, a, c).open
  <2> SUFFICES ASSUME NEW c \in touched
               PROVE  LET x == [cluster[d][c] EXCEPT !.cover = Covered(Without(d, a), c, @)]
                      IN x \in Cluster /\ x.open
    BY NoFaceIsNone DEF Left, Cluster, NoCluster
  <2>1. cluster[d][c] \in Cluster
    BY <1>3, <1>5, NoFaceIsNone DEF Names
  <2>2. Without(d, a) \in Rows
    BY <1>3 DEF Without, Rows
  <2>3. Covered(Without(d, a), c, cluster[d][c].cover) \in Faces \cup {Null}
    BY <2>2, CoveredType
  <2> QED BY <2>1, <2>3 DEF Cluster
<1>7. /\ \A c \in Clusters : /\ c \in touched => named[c] = Left(d, a, c)
                             /\ c \notin touched => named[c] = cluster[d][c]
      /\ named \in Names
  <2> HIDE DEF touched
  <2> QED BY <1>3, <1>6 DEF Names
<1>8. banned \in Bans /\ \A r \in banned :
        r \in rejected[d] /\ r[1] \notin FacesOf(d, a) /\ r[2] \notin gone
  BY <1>3 DEF Bans
<1>9. \A f \in Faces : /\ face[d][f] # NoFace /\ face[d][f].asset # a
                       /\ face[d][f].cluster # Null
                       => named[face[d][f].cluster].open
  <2> SUFFICES ASSUME NEW f \in Faces, face[d][f] # NoFace, face[d][f].asset # a,
                      face[d][f].cluster # Null
               PROVE  named[face[d][f].cluster].open
    OBVIOUS
  <2>1. Without(d, a)[f] = face[d][f]
    BY DEF Without
  <2>2. face[d][f].cluster \in Clusters /\ cluster[d][face[d][f].cluster].open
    BY <1>3 DEF Labelled, Rows, Face
  <2> HIDE DEF touched, named
  <2> QED BY <1>6, <1>7, <2>1, <2>2
<1> HIDE DEF touched, named, banned
<1>10. \A r \in banned : named[r[2]].open
  <2> SUFFICES ASSUME NEW r \in banned PROVE named[r[2]].open
    OBVIOUS
  <2>1. r \in rejected[d] /\ r \in Faces \X Clusters /\ r[2] \notin gone
    BY <1>3, <1>8 DEF Bans
  <2>2. r[2] \in Clusters /\ cluster[d][r[2]].open
    BY <1>3, <2>1 DEF Labelled
  <2> QED BY <1>6, <1>7, <2>1, <2>2
<1>11. \A c \in Clusters : named[c].open => cluster[d][c].open
  BY <1>5, <1>7
<1>12. \A r \in banned : r \in rejected[d] /\ r[1] \notin FacesOf(d, a) /\ named[r[2]].open
  BY <1>8, <1>10
<1>13. named \in Names /\ banned \in Bans /\ d \in Libraries /\ ThreadGoes
      /\ UNCHANGED <<faces, clusters, moves>>
  BY <1>1, <1>7, <1>8
<1> HIDE DEF d, a, gone
<1> QED BY <1>2, <1>4, <1>9, <1>11, <1>12, <1>13, CascadeStep

LEMMA PurgeStep ==
  ASSUME Inv, NEW a \in Assets, Purge(a)
  PROVE  Inv' /\ AllStand
<1> DEFINE banned == {r \in rejected["main"] : r[1] \notin FacesOf("main", a)}
<1>1. "main" \in Libraries /\ ThreadGoes
  BY DEF Libraries, ThreadGoes, Purge
<1>2. /\ cluster["main"] \in Names /\ rejected["main"] \in Bans /\ face["main"] \in Rows
      /\ Labelled(face["main"], cluster["main"], rejected["main"])
      /\ [cluster EXCEPT !["main"] = cluster["main"]] = cluster
  BY <1>1, LibraryFacts
<1>3. /\ Cascade("main", a) /\ WriteClusters("main", cluster["main"])
      /\ rejected' = [rejected EXCEPT !["main"] = banned] /\ UNCHANGED <<faces, clusters, moves>>
  BY <1>2 DEF Purge, WriteClusters
<1>4. banned \in Bans /\ \A r \in banned :
        r \in rejected["main"] /\ r[1] \notin FacesOf("main", a) /\ cluster["main"][r[2]].open
  BY <1>2 DEF Bans, Labelled
<1>5. \A f \in Faces : face["main"][f] # NoFace /\ face["main"][f].cluster # Null
                       => cluster["main"][face["main"][f].cluster].open
  BY <1>2 DEF Labelled
<1> HIDE DEF banned
<1> QED BY <1>1, <1>2, <1>3, <1>4, <1>5, CascadeStep

-----------------------------------------------------------------------------
(* The theorems.                                                           *)

LEMMA InitInv == Init => Inv
<1> SUFFICES ASSUME Init PROVE Inv
  OBVIOUS
<1> DEFINE owner == [f \in Faces |-> NoAsset]
<1>1. TablesOK
  <2>1. [f \in Faces |-> NoFace] \in Rows /\ [c \in Clusters |-> NoCluster] \in Names
    BY DEF Rows, Names
  <2> QED BY <2>1, Constants DEF Init, TablesOK, Bans
<1>2. ThreadsOK
  BY IdleThread DEF Init, ThreadsOK
<1>3. owner \in Owners
  BY DEF Owners
<1>4. ASSUME NEW d \in Libraries PROVE LibraryInv(d, owner)
  <2>1. /\ \A f \in Faces : face[d][f] = NoFace
        /\ \A c \in Clusters : cluster[d][c] = NoCluster
        /\ rejected[d] = {}
    BY DEF Init
  <2> QED BY <2>1, NoFaceIsNone
          DEF LibraryInv, Labelled, Single, DrawnFaces, DrawnClusters, Owned, Present
<1>5. \A t \in Threads : ThreadInv(thread[t], owner, faces, clusters)
  BY IdleThread DEF Init, ThreadInv
<1> QED BY <1>1, <1>2, <1>3, <1>4, <1>5 DEF Inv, Linked

LEMMA AutomaticStep ==
  ASSUME Inv, NEW t \in Threads, Automatic(t)
  PROVE  Inv' /\ AllStand
<1>1. ASSUME NEW d \in Active, NEW a \in Assets, StartAnalyze(t, d, a) PROVE Inv' /\ AllStand
  BY <1>1, Constants, StartAnalyzeStep
<1>2. ASSUME NEW m \in Models, NEW n \in 0 .. MaxFaces, Persist(t, m, n) PROVE Inv' /\ AllStand
  BY <1>2, PersistStep
<1>3. ASSUME NEW d \in Active, NEW m \in Models, StartRecluster(t, d, m) PROVE Inv' /\ AllStand
  BY <1>3, Constants, StartReclusterStep
<1>4. ASSUME NEW n \in 0 .. MaxClusters, OpenClusters(t, n) PROVE Inv' /\ AllStand
  BY <1>4, OpenClustersStep
<1>5. ASSUME NEW c \in Clusters, ReadCover(t, c) PROVE Inv' /\ AllStand
  BY <1>5, ReadCoverStep
<1>6. CASE GiveUp(t)
  BY <1>6, EndStep DEF GiveUp
<1> QED BY <1>1, <1>2, <1>3, <1>4, <1>5, <1>6, AskAssignStep, AssignStep, ApplyGroupsStep,
           WriteCoverStep DEF Automatic

LEMMA TransferStep ==
  ASSUME Inv, NEW t \in Threads, Transfer(t)
  PROVE  Inv' /\ AllStand
<1>1. ASSUME NEW d \in Libraries, NEW a \in Assets, Collect(t, d, a) PROVE Inv' /\ AllStand
  BY <1>1, CollectStep
<1>2. CASE AbortMove(t)
  BY <1>2, EndStep DEF AbortMove
<1> QED BY <1>1, <1>2, CommitMoveStep, LeaseMoveStep, DeleteMovedStep DEF Transfer

LEMMA UserStep ==
  ASSUME Inv, User
  PROVE  Inv' /\ AllStand
<1>1. PICK d \in Active :
        \/ \E t \in Threads, from, into \in Clusters : MergeClusters(t, d, from, into)
        \/ \E t \in Threads, c \in Clusters, fs \in SUBSET Faces : SplitCluster(t, d, c, fs)
        \/ \E f \in Faces : Accept(d, f) \/ Reject(d, f)
  BY DEF User
<1>2. d \in Libraries
  BY Constants
<1> QED BY <1>1, <1>2, MergeStep, SplitStep, AcceptStep, RejectStep

LEMMA NextInv ==
  ASSUME Inv, [Next]_vars
  PROVE  Inv' /\ AllStand
<1>1. CASE UNCHANGED vars
  <2>1. UNCHANGED tables /\ Inv'
    BY <1>1 DEF vars, tables, Inv, TablesOK, ThreadsOK, Linked, LibraryInv
  <2> QED BY <2>1, TablesStay
<1>2. CASE Next
  BY <1>2, AutomaticStep, TransferStep, UserStep, PurgeStep, RestartStep DEF Next
<1> QED BY <1>1, <1>2

\* The inductive invariant under the theorems below.
LEMMA Invariance == Spec => []Inv
BY InitInv, NextInv, PTL DEF Spec

\* Every job, request and transfer, restarts included, keeps the tables and
\* threads of ml.rs and vault.rs in their types.
THEOREM TypeCorrect == Spec => []TypeOK
<1>1. Inv => TypeOK
  BY TypeParts DEF Inv
<1> QED BY <1>1, Invariance, PTL

\* Whatever replies arrive late, a face that is grouped names a cluster that
\* is there and that the user did not rule out for it, and its asset is there
\* (apply_assignments, merge_clusters, review_candidate, insert_relations).
THEOREM LabelsFit == Spec => []LabelFits
<1>1. Inv => LabelFits
  BY DEF Inv, Linked, LibraryInv, LabelFits, Labelled, Present, Found
<1> QED BY <1>1, Invariance, PTL

\* Two jobs that analyse an asset at once, and transfers that take it away and
\* bring it back, leave it the faces of a single analysis per model
\* (persist_analysis).
THEOREM AnalysesAreSingle == Spec => []OneAnalysis
<1>1. Inv => OneAnalysis
  BY DEF Inv, Linked, LibraryInv, OneAnalysis, Single, Found
<1> QED BY <1>1, Invariance, PTL

\* docs/07_ml_integration.md:22 for every size of library and request: no
\* assignment, clustering or transfer overrides what the user decided.
THEOREM VerdictsStand == Spec => VerdictStands
<1>1. Inv /\ [Next]_vars =>
        [\A d \in Libraries : \A f \in Found(d) :
           face[d][f].state \in Verdicts /\ face'[d][f] # NoFace =>
             LET old == face[d][f].cluster
                 new == face'[d][f].cluster
             IN /\ face'[d][f].state = face[d][f].state
                /\ \/ new = old
                   \/ old # Null /\ ~cluster'[d][old].open
                   \/ new # Null /\ ~cluster[d][new].open]_vars
  BY NextInv DEF AllStand, Stands, Found
<1> QED BY <1>1, Invariance, PTL DEF Spec, VerdictStands

=============================================================================
