------------------------- MODULE VaultTransferProofs -------------------------
(***************************************************************************)
(* Theorems about VaultTransfer, for any number of requests, assets and    *)
(* transfers: the types, and for one request at a time that an asset keeps *)
(* a complete copy, that a leased row is referred to only from its journal *)
(* and that an unlock leaves nothing to reconcile.  A lemma named          *)
(* <action>Typed says that the action keeps TypeInv, <action>Keeps that it *)
(* keeps CopyInv, <action>Orders ReconInv, <action>Closes LeasedIsClosed;  *)
(* <action>Refers says what the rows refer to after it.                    *)
(***************************************************************************)
EXTENDS MCVaultTransfer, VaultTransferInvariants, FiniteSetTheorems, WellFoundedInduction, TLAPS

-----------------------------------------------------------------------------
(* Naturals, and the loop that inserts the rows of a transfer.             *)

\* Every non-empty set of naturals has a least element.
LEMMA LeastNatural ==
  ASSUME NEW T \in SUBSET Nat, T # {}
  PROVE  \E n \in T : \A m \in T : n <= m
<1>1. \E n \in T : \A m \in T : ~ (<<m, n>> \in OpToRel(<, Nat))
  BY NatLessThanWellFounded, WFMin
<1>2. PICK n \in T : \A m \in T : ~ (<<m, n>> \in OpToRel(<, Nat))
  BY <1>1
<1>3. \A m \in T : n <= m
  <2> TAKE m \in T
  <2>1. <<m, n>> \in Nat \X Nat
    OBVIOUS
  <2>2. ~ (m < n)
    BY <1>2, <2>1 DEF OpToRel
  <2> QED BY <2>2
<1> QED BY <1>3

\* What holds for 0 and is passed on by every step holds for every natural.
LEMMA UpwardSet ==
  ASSUME NEW P, 0 \in P, \A n \in Nat : n \in P => n + 1 \in P
  PROVE  Nat \subseteq P
<1> SUFFICES ASSUME Nat \ P # {} PROVE FALSE
  OBVIOUS
<1>1. PICK n \in Nat \ P : \A m \in Nat \ P : n <= m
  BY LeastNatural
<1>2. n - 1 \in Nat /\ n - 1 \in P
  BY <1>1
<1> QED BY <1>1, <1>2

\* Max of a set that reaches up to n and no further.
LEMMA MaxOfInterval ==
  ASSUME NEW n \in Nat, NEW s \in SUBSET (1 .. n + 1), n + 1 \in s
  PROVE  Max(s) = n + 1
<1>1. \A y \in s : n + 1 >= y
  OBVIOUS
<1>2. \A x \in s : (\A y \in s : x >= y) => x = n + 1
  OBVIOUS
<1> QED BY <1>1, <1>2 DEF Max

\* The rows of a transfer go in one by one, in order: what holds of the rows
\* before, and of each prefix if of the one before it, holds of the whole.
LEMMA InsertedSteps ==
  ASSUME NEW rows, NEW journaled, NEW given, NEW n \in Nat, NEW order \in [1 .. n -> Assets],
         NEW G, rows \in G[0],
         \A k \in 1 .. n : \A rs \in G[k - 1] :
           [rs EXCEPT ![order[k]] = Placed(rs, journaled, order[k], given[order[k]])] \in G[k]
  PROVE  Inserted(rows, journaled, given, order) \in G[n]
<1> DEFINE Put(rs, i) == [rs EXCEPT ![order[i]] = Placed(rs, journaled, order[i], given[order[i]])]
           Rows(f, s) == IF s = {} THEN rows ELSE Put(f[s \ {Max(s)}], Max(s))
           iter[s \in SUBSET (1 .. n)] == IF s = {} THEN rows ELSE Put(iter[s \ {Max(s)}], Max(s))
<1>1. Inserted(rows, journaled, given, order) = iter[1 .. n]
  <2>1. DOMAIN order = 1 .. n
    OBVIOUS
  <2> QED BY <2>1 DEF Inserted, FoldLeft, MapThenFoldSet
<1>2. \A k \in 1 .. n : \A rs \in G[k - 1] : Put(rs, k) \in G[k]
  OBVIOUS
<1> DEFINE Solves(g, k) == g = [s \in SUBSET (1 .. k) |-> Rows(g, s)]
           Solved == {k \in Nat : \E g : Solves(g, k)}
<1> HIDE DEF Put
<1>3. 0 \in Solved
  <2> DEFINE g == [s \in SUBSET (1 .. 0) |-> rows]
  <2>1. \A s \in SUBSET (1 .. 0) : s = {}
    OBVIOUS
  <2>2. Solves(g, 0)
    BY <2>1
  <2> QED BY <2>2
<1>4. ASSUME NEW k \in Nat, k \in Solved PROVE k + 1 \in Solved
  <2> SUFFICES \E g : Solves(g, k + 1)
    <3> HIDE DEF Solves
    <3> QED OBVIOUS
  <2>1. PICK g : Solves(g, k)
    <3> HIDE DEF Solves
    <3> QED BY <1>4
  <2> DEFINE h == [s \in SUBSET (1 .. k + 1) |-> IF k + 1 \in s THEN Put(g[s \ {k + 1}], k + 1) ELSE g[s]]
  <2>2. \A s \in SUBSET (1 .. k + 1) : s \ {k + 1} \in SUBSET (1 .. k)
    OBVIOUS
  <2>3. \A s \in SUBSET (1 .. k + 1) : k + 1 \notin s => s \in SUBSET (1 .. k)
    OBVIOUS
  <2>4. \A s \in SUBSET (1 .. k) : k + 1 \notin s /\ s \in SUBSET (1 .. k + 1)
    OBVIOUS
  <2>5. \A s \in SUBSET (1 .. k) : h[s] = g[s]
    BY <2>4
  <2>6. ASSUME NEW s \in SUBSET (1 .. k + 1) PROVE h[s] = Rows(h, s)
    <3>1. CASE k + 1 \in s
      <4>1. Max(s) = k + 1 /\ s # {}
        BY <3>1, MaxOfInterval
      <4>2. h[s] = Put(g[s \ {k + 1}], k + 1)
        BY <3>1
      <4>3. h[s \ {k + 1}] = g[s \ {k + 1}]
        BY <2>2, <2>5
      <4> HIDE DEF h
      <4> QED BY <4>1, <4>2, <4>3
    <3>2. CASE k + 1 \notin s
      <4>1. h[s] = g[s] /\ s \in SUBSET (1 .. k)
        BY <3>2, <2>3
      <4>2. g[s] = Rows(g, s)
        BY <4>1, <2>1
      <4>3. s \ {Max(s)} \in SUBSET (1 .. k)
        BY <4>1
      <4>4. h[s \ {Max(s)}] = g[s \ {Max(s)}]
        BY <4>3, <2>5
      <4> HIDE DEF h
      <4> QED BY <4>1, <4>2, <4>4
    <3> QED BY <3>1, <3>2
  <2>7. h = [s \in SUBSET (1 .. k + 1) |-> h[s]]
    OBVIOUS
  <2> HIDE DEF h, Rows
  <2>8. h = [s \in SUBSET (1 .. k + 1) |-> Rows(h, s)]
    BY <2>6, <2>7
  <2> QED BY <2>8
<1>5. n \in Solved
  <2> HIDE DEF Solved
  <2>1. Nat \subseteq Solved
    BY <1>3, <1>4, UpwardSet
  <2> QED BY <2>1
<1>6. PICK g : Solves(g, n)
  <2> HIDE DEF Solves
  <2> QED BY <1>5
<1>7. iter = [s \in SUBSET (1 .. n) |-> Rows(iter, s)]
  <2>1. iter = CHOOSE f : f = [s \in SUBSET (1 .. n) |-> Rows(f, s)]
    OBVIOUS
  <2> HIDE DEF iter, Rows
  <2> QED BY <1>6, <2>1
<1> HIDE DEF iter
<1> DEFINE Reached == {k \in Nat : k <= n => iter[1 .. k] \in G[k]}
<1>8. 0 \in Reached
  <2>1. 1 .. 0 = {}
    OBVIOUS
  <2>2. iter[{}] = rows
    BY <1>7
  <2> QED BY <2>1, <2>2
<1>9. ASSUME NEW k \in Nat, k \in Reached PROVE k + 1 \in Reached
  <2> SUFFICES ASSUME k + 1 <= n PROVE iter[1 .. k + 1] \in G[k + 1]
    OBVIOUS
  <2> DEFINE s == 1 .. k + 1
  <2>1. s \in SUBSET (1 .. n) /\ s \in SUBSET (1 .. k + 1) /\ k + 1 \in s /\ k + 1 \in 1 .. n
    OBVIOUS
  <2>2. s \ {k + 1} = 1 .. k
    OBVIOUS
  <2> HIDE DEF s
  <2>3. Max(s) = k + 1 /\ s # {}
    BY <2>1, MaxOfInterval
  <2>4. iter[s] = Rows(iter, s)
    BY <1>7, <2>1
  <2>5. iter[s] = Put(iter[1 .. k], k + 1)
    BY <2>2, <2>3, <2>4
  <2>6. iter[1 .. k] \in G[k] /\ k <= n
    BY <1>9
  <2>7. G[k + 1 - 1] = G[k]
    OBVIOUS
  <2>8. Put(iter[1 .. k], k + 1) \in G[k + 1]
    BY <1>2, <2>1, <2>6, <2>7
  <2> QED BY <2>5, <2>8 DEF s
<1>10. n \in Reached
  <2> HIDE DEF Reached
  <2>1. Nat \subseteq Reached
    BY <1>8, <1>9, UpwardSet
  <2> QED BY <2>1
<1> QED BY <1>1, <1>10

-----------------------------------------------------------------------------
(* Types.  A transfer keeps its kind and its ids, and a thread that has one *)
(* in hand names one that was begun, of a kind that its step is for.        *)

\* Every transfer begun keeps its kind and its ids.
SameTransfers ==
  /\ created <= created'
  /\ \A t \in Transfers : t <= created =>
       transfer'[t].kind = transfer[t].kind /\ transfer'[t].ids = transfer[t].ids

\* What a thread holds stays sound while the transfers keep kind and ids; the
\* end of a session changes its liveness only.
LEMMA SoundStays ==
  ASSUME TypeInv, created' \in 0 .. MaxTransfers, SameTransfers, NEW q, NEW p \in Request,
         Sound(q, transfer, created),
         p = q \/ p = [q EXCEPT !.live = FALSE]
  PROVE  Sound(p, transfer', created')
<1>1. q \in Request
  BY DEF Sound
<1>2. /\ p.step = q.step /\ p.own = q.own /\ p.todo = q.todo /\ p.kind = q.kind
      /\ p.t = q.t /\ p.ids = q.ids /\ p.file = q.file
  BY <1>1 DEF Request
<1>3. created \in 0 .. MaxTransfers /\ created <= created'
  BY DEF TypeInv, TypeOK, SameTransfers
<1>4. p.own \in Nat /\ p.own <= created' /\ \A x \in p.todo : x[1] <= created'
  BY <1>1, <1>2, <1>3 DEF Sound, Request, Transfers
<1>5. p.step \in Handling =>
        /\ q.t \in 1 .. created /\ q.t \in Transfers /\ p.t \in 1 .. created'
        /\ transfer'[p.t].kind = transfer[q.t].kind /\ transfer'[p.t].ids = transfer[q.t].ids
  <2> SUFFICES ASSUME p.step \in Handling PROVE
        /\ q.t \in 1 .. created /\ q.t \in Transfers /\ p.t \in 1 .. created'
        /\ transfer'[p.t].kind = transfer[q.t].kind /\ transfer'[p.t].ids = transfer[q.t].ids
    OBVIOUS
  <2>1. q.t \in 1 .. created /\ p.t = q.t
    BY <1>2 DEF Sound
  <2>2. q.t \in Transfers /\ q.t <= created /\ p.t \in 1 .. created'
    BY <1>3, <2>1, TransferAssumption DEF Transfers
  <2> QED BY <2>1, <2>2 DEF SameTransfers
<1>6. CASE p.step \in Handling
  <2>1. Staging \cup Undoing \cup Deleting \cup {"close", "finalize", "clear"} \subseteq Handling
    BY DEF Handling, Completing
  <2>2. p.step \notin {"list", "next", "sweep", "sweeping", "prepare", "open"}
    BY <1>6 DEF Handling, Staging, Undoing, Completing, Deleting
  <2> HIDE DEF Staging, Undoing, Deleting, Handling
  <2> QED BY <1>6, <1>2, <1>4, <1>5, <2>2 DEF Sound
<1>7. CASE p.step \notin Handling
  <2>1. p.step \notin Staging \cup Undoing \cup Deleting \cup {"close", "finalize", "clear", "write", "unlink"}
    BY <1>7 DEF Handling, Staging, Undoing, Completing
  <2> QED BY <1>7, <1>2, <1>4, <2>1 DEF Sound
<1> QED BY <1>6, <1>7

\* Requests are finitely many, so MayDraw counts them with naturals.
LEMMA Finite == IsFiniteSet(Undrawn) /\ Cardinality(Undrawn) \in Nat
<1>1. Undrawn \in SUBSET Requests
  BY DEF Undrawn
<1>2. IsFiniteSet(Undrawn)
  BY <1>1, FS_Subset, TransferAssumption
<1> QED BY <1>2, FS_CardinalityType

\* A step of one thread that draws no transfer keeps the threads' types.
LEMMA ThreadStep ==
  ASSUME TypeInv, NEW r \in Requests, NEW q, Become(r, q),
         created' = created, SameTransfers, Sound(q, transfer', created'),
         q.kind \in Kinds /\ q.own = 0 => r \in Undrawn
  PROVE  /\ request' \in [Requests -> Request]
         /\ ThreadsAreSound'
         /\ RoomToDraw'
<1>1. created \in 0 .. MaxTransfers /\ request \in [Requests -> Request]
  BY DEF TypeInv, TypeOK
<1>2. q \in Request
  BY DEF Sound
<1>3. request' = [request EXCEPT ![r] = q]
  BY DEF Become
<1>4. request'[r] = q /\ \A s \in Requests \ {r} : request'[s] = request[s]
  BY <1>1, <1>3
<1>5. request' \in [Requests -> Request]
  BY <1>1, <1>2, <1>3
<1>6. ThreadsAreSound'
  <2> SUFFICES ASSUME NEW s \in Requests PROVE Sound(request'[s], transfer', created')
    BY DEF ThreadsAreSound
  <2>1. CASE s = r
    BY <2>1, <1>4
  <2>2. CASE s # r
    <3>1. Sound(request[s], transfer, created) /\ request[s] \in Request
      BY <1>1 DEF TypeInv, ThreadsAreSound
    <3> QED BY <2>2, <3>1, <1>1, <1>4, SoundStays
  <2> QED BY <2>1, <2>2
<1>7. Undrawn' \in SUBSET Undrawn
  BY <1>4 DEF Undrawn
<1>8. Cardinality(Undrawn') <= Cardinality(Undrawn) /\ Cardinality(Undrawn') \in Nat
  BY <1>7, Finite, FS_Subset, FS_CardinalityType
<1>9. RoomToDraw'
  <2>1. created + Cardinality(Undrawn) <= MaxTransfers /\ MaxTransfers \in Nat
    BY TransferAssumption DEF TypeInv, RoomToDraw
  <2>2. created \in Nat /\ Cardinality(Undrawn) \in Nat
    BY <1>1, Finite
  <2> QED BY <2>1, <2>2, <1>8 DEF RoomToDraw
<1> QED BY <1>5, <1>6, <1>9

Tables ==
  /\ row \in [Databases -> [Assets -> Row]]
  /\ blobRow \in [Assets -> 0 .. MaxTransfers]
Files ==
  /\ plain \in [Assets -> {"absent", "partial", "whole"}]
  /\ blobs \subseteq Transfers \X Assets
  /\ staged \subseteq Transfers \X Assets

\* The parts of TypeInv, for citing.
LEMMA TypesOf ==
  ASSUME TypeInv
  PROVE  /\ Tables /\ Files
         /\ known \subseteq Assets
         /\ session \in BOOLEAN
         /\ transfer \in [Transfers -> Transfer]
         /\ created \in 0 .. MaxTransfers
         /\ request \in [Requests -> Request]
         /\ MaxTransfers \in Nat
BY TransferAssumption DEF TypeInv, TypeOK, Tables, Files

\* The thread r becomes q, a sound record that needs no more room than r's did.
Takes(r, q) ==
  /\ Become(r, q)
  /\ Sound(q, transfer, created)
  /\ q.kind \in Kinds /\ q.own = 0 => r \in Undrawn

\* A step of one thread, with the tables, files and transfers it leaves.
LEMMA ThreadTyped ==
  ASSUME TypeInv, NEW r \in Requests, NEW q, Takes(r, q),
         created' = created, known' \subseteq Assets, session' \in BOOLEAN,
         SameTransfers, Begun(transfer', created'), Tables', Files'
  PROVE  TypeInv'
<1>1. created' \in 0 .. MaxTransfers /\ q \in Request
  BY TypesOf DEF Sound, Takes
<1>2. Sound(q, transfer', created')
  BY <1>1, SoundStays DEF Takes
<1>3. /\ request' \in [Requests -> Request]
      /\ ThreadsAreSound'
      /\ RoomToDraw'
  BY <1>2, ThreadStep DEF Takes
<1> QED BY <1>1, <1>3 DEF TypeInv, TypeOK, Tables, Files, Begun

\* A step that writes no transfer.
LEMMA SameTransfersHold ==
  ASSUME TypeInv, UNCHANGED <<transfer, created>>
  PROVE  SameTransfers /\ Begun(transfer', created')
<1>1. created \in Nat
  BY TypesOf
<1> QED BY <1>1 DEF TypeInv, SameTransfers

\* The thread in hand.
LEMMA InHand ==
  ASSUME TypeInv, NEW r \in Requests, request[r].step \in Handling
  PROVE  /\ Now(r) \in 1 .. created /\ Now(r) \in Transfers
         /\ Kind(r) \in Kinds /\ Moving(r) \in SUBSET Assets
<1>1. Sound(request[r], transfer, created)
  BY DEF TypeInv, ThreadsAreSound
<1>2. Now(r) \in 1 .. created
  BY <1>1 DEF Sound, Now
<1>3. Now(r) \in Transfers /\ Now(r) <= created
  BY <1>2, TypesOf DEF Transfers
<1>4. transfer[Now(r)] \in Transfer /\ transfer[Now(r)].kind # "none"
  BY <1>3, TypesOf DEF TypeInv, Begun
<1> QED BY <1>2, <1>3, <1>4 DEF Transfer, Kind, Moving

\* A transfer changes its state or its marker.
LEMMA OneTransfer ==
  ASSUME TypeInv, NEW t \in 1 .. created, NEW u \in Transfer,
         u.kind = transfer[t].kind, u.ids = transfer[t].ids,
         transfer' = [transfer EXCEPT ![t] = u], created' = created
  PROVE  SameTransfers /\ Begun(transfer', created')
<1>1. t \in Transfers /\ t <= created /\ created \in Nat
  BY TypesOf DEF Transfers
<1>2. transfer' \in [Transfers -> Transfer]
  BY <1>1, TypesOf
<1>3. \A x \in Transfers : transfer'[x] = IF x = t THEN u ELSE transfer[x]
  BY <1>1, TypesOf
<1>4. \A x \in Transfers : transfer'[x].kind = transfer[x].kind /\ transfer'[x].ids = transfer[x].ids
  BY <1>3
<1>5. transfer[t].kind # "none"
  BY <1>1 DEF TypeInv, Begun
<1> QED BY <1>1, <1>2, <1>3, <1>4, <1>5 DEF SameTransfers, TypeInv, Begun

\* A thread that ended holds nothing.
LEMMA EndsSound == TypeInv => Sound(Idle, transfer, created)
<1> SUFFICES ASSUME TypeInv PROVE Sound(Idle, transfer, created)
  OBVIOUS
<1>1. created \in Nat
  BY TypesOf
<1>2. NoRow \in Row
  BY DEF NoRow, Row, Lifecycles
<1>3. Idle \in Request
  BY <1>2, TypesOf DEF Idle, Request, Steps, Phases, States, Rank
<1>4. Idle.own = 0 /\ Idle.todo = {} /\ Idle.step = "idle"
  BY DEF Idle
<1>5. "idle" \notin Handling \cup Staging \cup Undoing \cup Deleting
  BY DEF Handling, Staging, Undoing, Completing, Deleting
<1> QED BY <1>1, <1>3, <1>4, <1>5 DEF Sound

\* A thread goes on with the transfer it has in hand.
LEMMA GoesOn ==
  ASSUME TypeInv, NEW r \in Requests, request[r].step \in Handling,
         NEW q \in Request, Become(r, q), q.own = request[r].own, q.kind = request[r].kind,
         q.ids = request[r].ids, q.t = request[r].t, q.todo = request[r].todo,
         q.step \in Handling,
         q.step \in Staging => request[r].step \in Staging,
         q.step \in Undoing => Kind(r) \in {"import", "export"},
         q.step \in Deleting \cup {"close"} => Kind(r) # "ingest",
         q.step \in {"finalize", "clear"} => Kind(r) # "export",
         q.step = "write" => q.kind = "export" /\ q.file \in Assets,
         q.step = "unlink" => q.file \in Assets
  PROVE  Takes(r, q)
<1>1. Sound(request[r], transfer, created)
  BY DEF TypeInv, ThreadsAreSound
<1>2. q.step \notin {"list", "next", "sweep", "sweeping", "prepare", "open"}
  BY DEF Handling, Staging, Undoing, Completing, Deleting
<1>3. q.kind \in Kinds /\ q.own = 0 => r \in Undrawn
  BY DEF Undrawn
<1> HIDE DEF Staging, Undoing, Deleting, Handling
<1> QED BY <1>1, <1>2, <1>3 DEF Sound, Kind, Now, Takes

\* ... or leaves it for the next one on its list.
LEMMA Returns ==
  ASSUME TypeInv, NEW r \in Requests, request[r].step \in Handling, Return(r)
  PROVE  \E q : Takes(r, q)
<1>1. Sound(request[r], transfer, created)
  BY DEF TypeInv, ThreadsAreSound
<1>2. request[r] \in Request
  BY <1>1 DEF Sound
<1>3. CASE Now(r) = request[r].own
  <2>1. Become(r, Idle) /\ Idle.kind = "none"
    BY <1>3 DEF Return, End, Idle
  <2> QED BY <2>1, EndsSound DEF Kinds, Takes
<1>4. CASE Now(r) # request[r].own
  <2> DEFINE q == [request[r] EXCEPT !.step = "next"]
  <2>1. Become(r, q)
    BY <1>4 DEF Return, Go
  <2>2. /\ q \in Request /\ q.step = "next" /\ q.own = request[r].own
        /\ q.kind = request[r].kind /\ q.todo = request[r].todo
    BY <1>2 DEF Request, Steps
  <2>3. q.own = 0 /\ q.kind \in {"unlock", "import", "export"}
    BY <1>1, <1>4, <2>2 DEF Sound, Now
  <2>4. "next" \notin Handling \cup Staging \cup Undoing \cup Deleting
    BY DEF Handling, Staging, Undoing, Completing, Deleting
  <2>5. q.kind \in Kinds /\ q.own = 0 => r \in Undrawn
    BY <2>2 DEF Undrawn
  <2> HIDE DEF q
  <2>6. Sound(q, transfer, created)
    BY <1>1, <2>2, <2>3, <2>4 DEF Sound
  <2> QED BY <2>1, <2>5, <2>6 DEF Takes
<1> QED BY <1>3, <1>4

\* A thread that is at no transfer: what Sound says there.
LEMMA Lists ==
  ASSUME TypeInv, NEW r \in Requests, NEW q \in Request, Become(r, q),
         request[r].step \in {"list", "next", "sweep", "sweeping"},
         q.own = request[r].own, q.kind = request[r].kind,
         q.step \in {"list", "next", "sweep", "sweeping", "issue", "prepare"},
         q.step = "prepare" => q.kind # "unlock",
         \A x \in q.todo : x[1] <= created
  PROVE  Takes(r, q)
<1>1. Sound(request[r], transfer, created) /\ created \in Nat
  BY TypesOf DEF TypeInv, ThreadsAreSound
<1>2. q.own = 0 /\ q.kind \in {"unlock", "import", "export"}
  BY <1>1 DEF Sound
<1>3. q.kind \in Kinds /\ q.own = 0 => r \in Undrawn
  BY DEF Undrawn
<1>4. q.step \notin Handling \cup Staging \cup Undoing \cup Deleting
  BY DEF Handling, Staging, Undoing, Completing, Deleting
<1> QED BY <1>1, <1>2, <1>3, <1>4 DEF Sound, Takes

\* A step of one thread that leaves the transfers alone.
LEMMA QuietStep ==
  ASSUME TypeInv, NEW r \in Requests, NEW q, Takes(r, q),
         UNCHANGED <<transfer, created, known, session>>, Tables', Files'
  PROVE  TypeInv'
<1>1. SameTransfers /\ Begun(transfer', created')
  BY SameTransfersHold
<1>2. created' = created /\ known' \subseteq Assets /\ session' \in BOOLEAN
  BY TypesOf
<1> QED BY <1>1, <1>2, ThreadTyped

\* ... and everything else.
LEMMA OwnStep ==
  ASSUME TypeInv, NEW r \in Requests, NEW q, Takes(r, q),
         UNCHANGED <<tables, files, known, created, session>>
  PROVE  TypeInv'
<1>1. UNCHANGED <<row, blobRow, transfer, plain, blobs, staged, known, created, session>>
  BY DEF tables, files
<1>2. Tables' /\ Files'
  BY <1>1, TypesOf DEF Tables, Files
<1> QED BY <1>1, <1>2, QuietStep

\* The end of a request is a sound step of its thread.
LEMMA EndStep ==
  ASSUME TypeInv, NEW r \in Requests, End(r)
  PROVE  \E q : Takes(r, q)
BY EndsSound DEF End, Idle, Kinds, Takes

-----------------------------------------------------------------------------
(* Requests begin and reconcile.                                           *)

\* List keeps the types: a list names transfers that were begun.
LEMMA ListTyped ==
  ASSUME TypeInv, NEW r \in Requests, List(r)
  PROVE  TypeInv'
<1> DEFINE q == [request[r] EXCEPT !.step = "next", !.todo = Listed(request[r].phase)]
<1>1. request[r] \in Request /\ transfer \in [Transfers -> Transfer]
  BY TypesOf
<1>2. Listed(request[r].phase) \subseteq Transfers \X States
  BY <1>1 DEF Listed, Journals, Markers, Transfer
<1>3. \A x \in Listed(request[r].phase) : x[1] <= created
  <2> SUFFICES ASSUME NEW x \in Listed(request[r].phase) PROVE x[1] <= created
    OBVIOUS
  <2>1. PICK t \in Transfers : x[1] = t /\ transfer[t].kind \in Kinds
    BY DEF Listed, Journals, Markers, Kinds
  <2> QED BY <2>1 DEF TypeInv, Begun, Kinds
<1>4. /\ q \in Request /\ q.own = request[r].own /\ q.kind = request[r].kind
      /\ q.step = "next" /\ q.todo = Listed(request[r].phase)
  BY <1>1, <1>2 DEF Request, Steps
<1>5. /\ request[r].step = "list" /\ Become(r, q)
      /\ UNCHANGED <<tables, files, known, created, session>>
  BY DEF List, At
<1> HIDE DEF q
<1>6. Takes(r, q)
  BY <1>3, <1>4, <1>5, Lists
<1> QED BY <1>5, <1>6, OwnStep

\* TakeNext keeps the types: what was listed is handled as its kind allows.
LEMMA TakeNextTyped ==
  ASSUME TypeInv, NEW r \in Requests, TakeNext(r)
  PROVE  TypeInv'
<1> DEFINE next(x) == IF transfer[x[1]].marker \/ transfer[x[1]].kind = "ingest"
                      THEN "complete" ELSE "undo"
           q(x, step) == [request[r] EXCEPT !.todo = @ \ {x}, !.t = x[1], !.state = x[2],
                                            !.left = transfer[x[1]].ids, !.step = step]
<1>1. PICK x \in request[r].todo : Become(r, q(x, next(x)))
  BY DEF TakeNext
<1>2. /\ request[r] \in Request /\ Sound(request[r], transfer, created)
      /\ request[r].step = "next" /\ created \in Nat
  BY TypesOf DEF TypeInv, ThreadsAreSound, TakeNext, At
<1>3. x \in Transfers \X States /\ x[1] \in 1 .. created /\ x[1] \in 0 .. MaxTransfers
  BY <1>2, TypesOf DEF Request, Sound, Transfers
<1>4. transfer[x[1]] \in Transfer /\ transfer[x[1]].kind # "none" /\ x[1] \in Transfers
  BY <1>3, TypesOf DEF TypeInv, Begun
<1>5. \/ next(x) = "complete"
      \/ next(x) = "undo" /\ transfer[x[1]].kind \in {"import", "export"}
  BY <1>4 DEF Transfer, Kinds
<1>6. PICK step \in {"complete", "undo"} : step = next(x)
  BY <1>5
<1> HIDE DEF next
<1> DEFINE p == q(x, step)
<1>7. transfer[x[1]].ids \in SUBSET Assets /\ x[2] \in States /\ step \in Steps
  BY <1>3, <1>4 DEF Transfer, Steps
<1>8. /\ p \in Request /\ p.own = request[r].own /\ p.kind = request[r].kind
      /\ p.todo = request[r].todo \ {x} /\ p.t = x[1] /\ p.step = step
  BY <1>2, <1>3, <1>7 DEF Request
<1>9. Become(r, p)
  BY <1>1, <1>6
<1>10. request[r].own = 0 /\ request[r].kind \in {"unlock", "import", "export"}
  BY <1>2 DEF Sound
<1> HIDE DEF p
<1>11. p.kind \in Kinds /\ p.own = 0 => r \in Undrawn
  BY <1>8 DEF Undrawn
<1>12. \A y \in p.todo : y[1] <= created
  BY <1>2, <1>8 DEF Sound
<1>13. Sound(p, transfer, created)
  BY <1>2, <1>3, <1>5, <1>6, <1>8, <1>10, <1>12
     DEF Sound, Handling, Staging, Undoing, Completing, Deleting
<1>14. UNCHANGED <<tables, files, known, created, session>>
  BY DEF TakeNext
<1>15. Takes(r, p)
  BY <1>9, <1>11, <1>13 DEF Takes
<1> QED BY <1>14, <1>15, OwnStep

\* NextList keeps the types; only an import or export goes on to prepare.
LEMMA NextListTyped ==
  ASSUME TypeInv, NEW r \in Requests, NextList(r)
  PROVE  TypeInv'
<1> DEFINE q(step, phase) == [request[r] EXCEPT !.step = step, !.phase = phase]
<1>1. PICK step \in Steps, phase \in Phases :
        /\ \/ request[r].phase = "open" /\ step = "sweep" /\ phase = "import"
           \/ request[r].phase = "import" /\ step = "list" /\ phase = "export"
           \/ request[r].phase = "export" /\ step = "list" /\ phase = "ingest"
           \/ /\ request[r].phase = "ingest"
              /\ step = IF request[r].kind = "unlock" THEN "issue" ELSE "prepare"
              /\ phase = "none"
        /\ Become(r, q(step, phase))
  BY DEF NextList
<1>2. request[r] \in Request /\ Sound(request[r], transfer, created) /\ request[r].step = "next"
  BY TypesOf DEF TypeInv, ThreadsAreSound, NextList, At
<1> DEFINE p == q(step, phase)
<1>3. /\ p \in Request /\ p.own = request[r].own /\ p.kind = request[r].kind
      /\ p.todo = request[r].todo /\ p.step = step
  BY <1>2 DEF Request
<1>4. step \in {"list", "sweep", "issue", "prepare"} /\ (step = "prepare" => p.kind # "unlock")
  BY <1>1, <1>3
<1>5. Become(r, p)
  BY <1>1
<1> HIDE DEF p
<1>6. \A x \in p.todo : x[1] <= created
  BY <1>2, <1>3 DEF Sound
<1>7. Takes(r, p)
  BY <1>2, <1>3, <1>4, <1>5, <1>6, Lists
<1>8. UNCHANGED <<tables, files, known, created, session>>
  BY DEF NextList
<1> QED BY <1>5, <1>7, <1>8, OwnStep

\* Sweep keeps the types: vault.db names transfers that were begun.
LEMMA SweepTyped ==
  ASSUME TypeInv, NEW r \in Requests, Sweep(r)
  PROVE  TypeInv'
<1> DEFINE named == {<<t, "none">> : t \in Markers("import") \cup Markers("ingest") \cup Journals("export")}
           q == [request[r] EXCEPT !.step = "sweeping", !.todo = named]
<1>1. request[r] \in Request /\ request[r].step = "sweep" /\ Become(r, q)
  BY TypesOf DEF Sweep, At
<1>2. named \subseteq Transfers \X States
  BY DEF Journals, Markers, States, Rank
<1>3. \A x \in named : x[1] <= created
  <2> SUFFICES ASSUME NEW x \in named PROVE x[1] <= created
    OBVIOUS
  <2>1. PICK t \in Transfers : x[1] = t /\ transfer[t].kind \in Kinds
    BY DEF Journals, Markers, Kinds
  <2> QED BY <2>1 DEF TypeInv, Begun, Kinds
<1> HIDE DEF named
<1>4. /\ q \in Request /\ q.own = request[r].own /\ q.kind = request[r].kind
      /\ q.todo = named /\ q.step = "sweeping"
  BY <1>1, <1>2 DEF Request, Steps
<1> HIDE DEF q
<1>5. Takes(r, q)
  BY <1>1, <1>3, <1>4, Lists
<1>6. UNCHANGED <<tables, files, known, created, session>>
  BY DEF Sweep
<1> QED BY <1>1, <1>5, <1>6, OwnStep

\* Sweeping keeps the types.
LEMMA SweepingTyped ==
  ASSUME TypeInv, NEW r \in Requests, Sweeping(r)
  PROVE  TypeInv'
<1> DEFINE q == [request[r] EXCEPT !.step = "list", !.todo = {}]
<1>1. request[r] \in Request /\ request[r].step = "sweeping" /\ Become(r, q)
  BY TypesOf DEF Sweeping, At
<1>2. /\ q \in Request /\ q.own = request[r].own /\ q.kind = request[r].kind
      /\ q.todo = {} /\ q.step = "list"
  BY <1>1 DEF Request, Steps
<1> HIDE DEF q
<1>3. Takes(r, q)
  BY <1>1, <1>2, Lists
<1>4. /\ UNCHANGED <<row, blobRow, transfer, plain, blobs, known, created, session>>
      /\ staged' \subseteq staged
  BY DEF Sweeping, tables
<1>5. Tables' /\ Files'
  BY <1>4, TypesOf DEF Tables, Files
<1> QED BY <1>1, <1>3, <1>4, <1>5, QuietStep

\* A step that may touch every thread: each one ends, loses its session or
\* goes on as it was.
LEMMA RevokedTyped ==
  ASSUME TypeInv, request' \in [Requests -> Request],
         \A s \in Requests : \/ request'[s] \in {request[s], Idle}
                             \/ request'[s] = [request[s] EXCEPT !.live = FALSE],
         UNCHANGED <<tables, files, known, created>>, session' \in BOOLEAN
  PROVE  TypeInv'
<1>1. UNCHANGED <<row, blobRow, transfer, plain, blobs, staged, known, created>>
  BY DEF tables, files
<1>2. Tables' /\ Files' /\ known' \subseteq Assets /\ created' \in 0 .. MaxTransfers
  BY <1>1, TypesOf DEF Tables, Files
<1>3. SameTransfers /\ Begun(transfer', created')
  BY <1>1, SameTransfersHold
<1>4. ThreadsAreSound'
  <2> SUFFICES ASSUME NEW s \in Requests PROVE Sound(request'[s], transfer', created')
    BY DEF ThreadsAreSound
  <2>1. Sound(request[s], transfer, created) /\ request'[s] \in Request
    BY DEF TypeInv, ThreadsAreSound
  <2>2. CASE request'[s] = Idle
    <3>1. Sound(Idle, transfer, created)
      BY EndsSound
    <3> QED BY <2>1, <2>2, <3>1, <1>2, <1>3, SoundStays
  <2>3. CASE request'[s] = request[s] \/ request'[s] = [request[s] EXCEPT !.live = FALSE]
    BY <2>1, <2>3, <1>2, <1>3, SoundStays
  <2> QED BY <2>2, <2>3
<1>5. RoomToDraw'
  <2>1. \A s \in Requests : /\ request[s] \in Request
                            /\ request'[s].kind \in Kinds => request'[s].kind = request[s].kind
                            /\ request'[s].kind \in Kinds => request'[s].own = request[s].own
    <3> SUFFICES ASSUME NEW s \in Requests
                 PROVE  /\ request[s] \in Request
                        /\ request'[s].kind \in Kinds => request'[s].kind = request[s].kind
                        /\ request'[s].kind \in Kinds => request'[s].own = request[s].own
      OBVIOUS
    <3>1. request[s] \in Request
      BY TypesOf
    <3>2. CASE request'[s] = Idle
      BY <3>1, <3>2 DEF Idle, Kinds
    <3>3. CASE request'[s] = request[s]
      BY <3>1, <3>3
    <3>4. CASE request'[s] = [request[s] EXCEPT !.live = FALSE]
      BY <3>1, <3>4 DEF Request
    <3> QED BY <3>2, <3>3, <3>4
  <2>2. Undrawn' \in SUBSET Undrawn
    BY <2>1 DEF Undrawn
  <2>3. Cardinality(Undrawn') <= Cardinality(Undrawn) /\ Cardinality(Undrawn') \in Nat
    BY <2>2, Finite, FS_Subset, FS_CardinalityType
  <2>4. created + Cardinality(Undrawn) <= MaxTransfers /\ created' = created
    BY <1>1 DEF TypeInv, RoomToDraw
  <2>5. created \in Nat /\ Cardinality(Undrawn) \in Nat /\ MaxTransfers \in Nat
    BY TypesOf, Finite
  <2> QED BY <2>3, <2>4, <2>5 DEF RoomToDraw
<1> QED BY <1>2, <1>3, <1>4, <1>5 DEF TypeInv, TypeOK, Tables, Files, Begun

\* The idle record is a request.
LEMMA IdleIsRequest == TypeInv => Idle \in Request
BY EndsSound DEF Sound

\* Issue keeps the types of every thread, the revoked ones included.
LEMMA IssueTyped ==
  ASSUME TypeInv, NEW r \in Requests, Issue(r)
  PROVE  TypeInv'
<1> DEFINE old == [request EXCEPT ![r] = Idle]
<1>1. request \in [Requests -> Request] /\ Idle \in Request
  BY TypesOf, IdleIsRequest
<1>2. old \in [Requests -> Request] /\ \A s \in Requests : old[s] = IF s = r THEN Idle ELSE request[s]
  BY <1>1
<1>3. request' = Revoked(old)
  BY DEF Issue
<1> HIDE DEF old
<1>4. \A s \in Requests : request'[s] = IF old[s].kind = "unlock" THEN old[s]
                                        ELSE [old[s] EXCEPT !.live = FALSE]
  BY <1>3 DEF Revoked
<1>5. \A q \in Request : [q EXCEPT !.live = FALSE] \in Request
  BY DEF Request
<1>6. [Idle EXCEPT !.live = FALSE] = Idle
  <2>1. \A q \in Request : q.live = FALSE => [q EXCEPT !.live = FALSE] = q
    BY DEF Request
  <2>2. Idle.live = FALSE
    BY DEF Idle
  <2> QED BY <1>1, <2>1, <2>2
<1>7. request' = [s \in Requests |-> request'[s]]
  BY <1>3 DEF Revoked
<1>8. request' \in [Requests -> Request]
  BY <1>2, <1>4, <1>5, <1>7
<1>9. \A s \in Requests : \/ request'[s] \in {request[s], Idle}
                          \/ request'[s] = [request[s] EXCEPT !.live = FALSE]
  BY <1>2, <1>4, <1>6
<1>10. UNCHANGED <<tables, files, known, created>> /\ session' \in BOOLEAN
  BY DEF Issue
<1> QED BY <1>8, <1>9, <1>10, RevokedTyped

\* Lock keeps the types of every thread.
LEMMA LockTyped ==
  ASSUME TypeInv, Lock
  PROVE  TypeInv'
<1>1. request \in [Requests -> Request] /\ request' = Revoked(request)
  BY TypesOf DEF Lock
<1>2. \A s \in Requests : request'[s] = IF request[s].kind = "unlock" THEN request[s]
                                        ELSE [request[s] EXCEPT !.live = FALSE]
  BY <1>1 DEF Revoked
<1>3. \A q \in Request : [q EXCEPT !.live = FALSE] \in Request
  BY DEF Request
<1>4. request' = [s \in Requests |-> request'[s]]
  BY <1>1 DEF Revoked
<1>5. request' \in [Requests -> Request]
  BY <1>1, <1>2, <1>3, <1>4
<1>6. UNCHANGED <<tables, files, known, created>> /\ session' \in BOOLEAN
  BY DEF Lock
<1> QED BY <1>2, <1>5, <1>6, RevokedTyped

\* Crash leaves every thread idle.
LEMMA CrashTyped ==
  ASSUME TypeInv, Crash
  PROVE  TypeInv'
<1>1. Idle \in Request
  BY IdleIsRequest
<1>2. request' \in [Requests -> Request] /\ \A s \in Requests : request'[s] = Idle
  BY <1>1 DEF Crash
<1>3. UNCHANGED <<tables, files, known, created>> /\ session' \in BOOLEAN
  BY DEF Crash
<1> QED BY <1>2, <1>3, RevokedTyped

\* What the provers need to know of the steps that a thread goes to.
LEMMA GoesTo ==
  ASSUME TypeInv, NEW r \in Requests, request[r].step \in Handling, NEW s \in Handling, Go(r, s),
         s \in Staging => request[r].step \in Staging,
         s \in Undoing => Kind(r) \in {"import", "export"},
         s \in Deleting \cup {"close"} => Kind(r) # "ingest",
         s \in {"finalize", "clear"} => Kind(r) # "export",
         s # "write" /\ s # "unlink"
  PROVE  \E q : Takes(r, q)
<1> DEFINE q == [request[r] EXCEPT !.step = s]
<1>1. request[r] \in Request /\ Become(r, q)
  BY TypesOf DEF Go
<1>2. s \in Steps
  BY DEF Steps, Handling, Staging, Undoing, Completing, Deleting
<1>3. /\ q \in Request /\ q.step = s /\ q.own = request[r].own /\ q.kind = request[r].kind
      /\ q.ids = request[r].ids /\ q.t = request[r].t /\ q.todo = request[r].todo
  BY <1>1, <1>2 DEF Request
<1> HIDE DEF q, Handling, Staging, Undoing, Deleting
<1>4. Takes(r, q)
  BY <1>1, <1>3, GoesOn
<1> QED BY <1>4

\* ... with the loop over the transfer's assets before it.
LEMMA EachGoes ==
  ASSUME TypeInv, NEW r \in Requests, request[r].step \in Handling, NEW s \in Handling, Each(r, s),
         s \notin Staging, s \notin Undoing,
         s \in Deleting \cup {"close"} => Kind(r) # "ingest",
         s \in {"finalize", "clear"} => Kind(r) # "export",
         s # "write" /\ s # "unlink"
  PROVE  \E q : Takes(r, q)
<1> DEFINE q == [request[r] EXCEPT !.step = s, !.left = Moving(r)]
<1>1. request[r] \in Request /\ Become(r, q) /\ Moving(r) \in SUBSET Assets
  BY TypesOf, InHand DEF Each
<1>2. s \in Steps
  BY DEF Steps, Handling, Staging, Undoing, Completing, Deleting
<1>3. /\ q \in Request /\ q.step = s /\ q.own = request[r].own /\ q.kind = request[r].kind
      /\ q.ids = request[r].ids /\ q.t = request[r].t /\ q.todo = request[r].todo
  BY <1>1, <1>2 DEF Request
<1> HIDE DEF q, Handling, Staging, Undoing, Deleting
<1>4. Takes(r, q)
  BY <1>1, <1>3, GoesOn
<1> QED BY <1>4

\* One asset of a loop is done.
LEMMA Ticks ==
  ASSUME TypeInv, NEW r \in Requests, request[r].step \in Handling, NEW a, Tick(r, a)
  PROVE  \E q : Takes(r, q)
<1> DEFINE q == [request[r] EXCEPT !.left = @ \ {a}]
<1>1. request[r] \in Request /\ Become(r, q) /\ Sound(request[r], transfer, created)
  BY TypesOf DEF Tick, TypeInv, ThreadsAreSound
<1>2. /\ q \in Request /\ q.step = request[r].step /\ q.own = request[r].own /\ q.kind = request[r].kind
      /\ q.ids = request[r].ids /\ q.t = request[r].t /\ q.todo = request[r].todo /\ q.file = request[r].file
  BY <1>1 DEF Request
<1>3. q.kind \in Kinds /\ q.own = 0 => r \in Undrawn
  BY <1>2 DEF Undrawn
<1> HIDE DEF q
<1>4. Takes(r, q)
  BY <1>1, <1>2, <1>3 DEF Takes, Sound
<1> QED BY <1>4

\* UndoImport keeps the types.
LEMMA UndoImportTyped ==
  ASSUME TypeInv, NEW r \in Requests, UndoImport(r)
  PROVE  TypeInv'
<1>1. request[r].step = "undo" /\ Go(r, "forget") /\ Kind(r) = "import"
  BY DEF UndoImport, At
<1>2. \E q : Takes(r, q)
  BY <1>1, GoesTo DEF Handling, Staging, Undoing, Completing, Deleting
<1>3. /\ UNCHANGED <<row, blobRow, transfer, plain, blobs, known, created, session>>
      /\ staged' \subseteq staged
  BY DEF UndoImport, tables
<1>4. Tables' /\ Files'
  BY <1>3, TypesOf DEF Tables, Files
<1> QED BY <1>2, <1>3, <1>4, QuietStep

\* RollbackLook keeps the types; a file to unlink is one of the transfer's.
LEMMA RollbackLookTyped ==
  ASSUME TypeInv, NEW r \in Requests, RollbackLook(r)
  PROVE  TypeInv'
<1>1. request[r] \in Request /\ request[r].step = "undo" /\ Kind(r) = "export"
  BY TypesOf DEF RollbackLook, At
<1>2. UNCHANGED <<tables, files, known, created, session>>
  BY DEF RollbackLook
<1>3. \/ Go(r, "forget") \/ End(r)
      \/ \E a \in request[r].left : \/ Tick(r, a)
                                    \/ Become(r, [request[r] EXCEPT !.step = "unlink", !.file = a])
  BY DEF RollbackLook
<1>4. \E q : Takes(r, q)
  <2>1. CASE Go(r, "forget")
    BY <1>1, <2>1, GoesTo DEF Handling, Staging, Undoing, Completing, Deleting
  <2>2. CASE End(r)
    BY <2>2, EndStep
  <2>3. ASSUME NEW a \in request[r].left, Tick(r, a) PROVE \E q : Takes(r, q)
    BY <1>1, <2>3, Ticks DEF Handling, Undoing
  <2>4. ASSUME NEW a \in request[r].left, Become(r, [request[r] EXCEPT !.step = "unlink", !.file = a])
        PROVE \E q : Takes(r, q)
    <3> DEFINE q == [request[r] EXCEPT !.step = "unlink", !.file = a]
    <3>1. a \in Assets
      BY <1>1 DEF Request
    <3>2. /\ q \in Request /\ q.step = "unlink" /\ q.own = request[r].own /\ q.kind = request[r].kind
          /\ q.ids = request[r].ids /\ q.t = request[r].t /\ q.todo = request[r].todo /\ q.file = a
      BY <1>1, <3>1 DEF Request, Steps
    <3>3. Become(r, q)
      BY <2>4
    <3> HIDE DEF q
    <3>4. Takes(r, q)
      BY <1>1, <3>1, <3>2, <3>3, GoesOn DEF Handling, Staging, Undoing, Completing, Deleting
    <3> QED BY <3>4
  <2> QED BY <1>3, <2>1, <2>2, <2>3, <2>4
<1> QED BY <1>2, <1>4, OwnStep

\* Unlink keeps the types.
LEMMA UnlinkTyped ==
  ASSUME TypeInv, NEW r \in Requests, Unlink(r)
  PROVE  TypeInv'
<1> DEFINE a == request[r].file
           q == [request[r] EXCEPT !.step = "undo", !.left = @ \ {a}, !.file = NoAsset]
<1>1. /\ request[r] \in Request /\ request[r].step = "unlink" /\ Become(r, q)
      /\ Sound(request[r], transfer, created)
  BY TypesOf DEF Unlink, At, TypeInv, ThreadsAreSound
<1>2. /\ q \in Request /\ q.step = "undo" /\ q.own = request[r].own /\ q.kind = request[r].kind
      /\ q.ids = request[r].ids /\ q.t = request[r].t /\ q.todo = request[r].todo
  BY <1>1 DEF Request, Steps
<1> HIDE DEF q
<1>3. Kind(r) \in {"import", "export"}
  BY <1>1 DEF Sound, Undoing, Kind, Now
<1>4. Takes(r, q)
  BY <1>1, <1>2, <1>3, GoesOn DEF Handling, Staging, Undoing, Completing, Deleting
<1>5. /\ UNCHANGED <<row, blobRow, transfer, blobs, staged, known, created, session>>
      /\ plain' = [plain EXCEPT ![a] = IF @ = "whole" THEN "absent" ELSE @]
  BY DEF Unlink, tables
<1>6. plain' \in [Assets -> {"absent", "partial", "whole"}]
  BY <1>5, TypesOf DEF Files
<1>7. Tables' /\ Files'
  BY <1>5, <1>6, TypesOf DEF Tables, Files
<1> QED BY <1>1, <1>4, <1>5, <1>7, QuietStep

\* Forget keeps the types and the transfer's kind and ids.
LEMMA ForgetTyped ==
  ASSUME TypeInv, NEW r \in Requests, Forget(r)
  PROVE  TypeInv'
<1> DEFINE t == Now(r)
           u == [transfer[t] EXCEPT !.state = "none"]
<1>1. request[r].step = "forget" /\ Return(r) /\ transfer' = [transfer EXCEPT ![t].state = "none"]
  BY DEF Forget, At, SetState
<1>2. request[r].step \in Handling
  BY <1>1 DEF Handling, Undoing
<1>3. t \in 1 .. created /\ t \in Transfers /\ transfer[t] \in Transfer
  BY <1>2, InHand, TypesOf
<1>4. u \in Transfer /\ u.kind = transfer[t].kind /\ u.ids = transfer[t].ids
  BY <1>3 DEF Transfer, States, Rank
<1>5. transfer' = [transfer EXCEPT ![t] = u]
  BY <1>1
<1>6. /\ UNCHANGED <<row, blobRow, plain, blobs, staged, known, created, session>>
  BY DEF Forget, files
<1> HIDE DEF u, t
<1>7. SameTransfers /\ Begun(transfer', created')
  BY <1>3, <1>4, <1>5, <1>6, OneTransfer
<1>8. PICK q : Takes(r, q)
  BY <1>1, <1>2, Returns
<1>9. Tables' /\ Files' /\ known' \subseteq Assets /\ session' \in BOOLEAN /\ created' = created
  BY <1>6, TypesOf DEF Tables, Files
<1> QED BY <1>7, <1>8, <1>9, ThreadTyped

\* Every step of reconciliation keeps the types.
LEMMA ReconcilesTyped ==
  ASSUME TypeInv, NEW r \in Requests, Reconciles(r)
  PROVE  TypeInv'
BY ListTyped, TakeNextTyped, NextListTyped, SweepTyped, SweepingTyped, IssueTyped,
   UndoImportTyped, RollbackLookTyped, UnlinkTyped, ForgetTyped DEF Reconciles

-----------------------------------------------------------------------------
(* A transfer up to the commit in the destination.                         *)

\* Prepare keeps the types: the rows it reads are rows.
LEMMA PrepareTyped ==
  ASSUME TypeInv, NEW r \in Requests, Prepare(r)
  PROVE  TypeInv'
<1> DEFINE rows == [a \in Assets |-> IF a \in request[r].ids THEN row[From[request[r].kind]][a]
                                     ELSE NoRow]
           q == [request[r] EXCEPT !.step = "open", !.rows = rows]
<1>1. /\ request[r] \in Request /\ Sound(request[r], transfer, created)
      /\ request[r].step = "prepare"
  BY TypesOf DEF TypeInv, ThreadsAreSound, Prepare, At
<1>2. UNCHANGED <<tables, files, known, created, session>>
  BY DEF Prepare
<1>3. End(r) \/ Become(r, q)
  BY DEF Prepare
<1>4. CASE End(r)
  BY <1>2, <1>4, EndStep, OwnStep
<1>5. CASE Become(r, q)
  <2>1. request[r].own = 0 /\ request[r].kind \in {"import", "export"}
    BY <1>1 DEF Sound
  <2>2. From[request[r].kind] \in Databases
    BY <2>1 DEF From, Databases
  <2>3. NoRow \in Row
    BY DEF NoRow, Row, Lifecycles
  <2>4. rows \in [Assets -> Row]
    BY <2>2, <2>3, TypesOf DEF Tables
  <2> HIDE DEF rows
  <2>5. /\ q \in Request /\ q.step = "open" /\ q.own = request[r].own /\ q.kind = request[r].kind
        /\ q.todo = request[r].todo
    BY <1>1, <2>4 DEF Request, Steps
  <2> HIDE DEF q
  <2>6. q.kind \in Kinds /\ q.own = 0 => r \in Undrawn
    BY <2>5 DEF Undrawn
  <2>7. "open" \notin Handling \cup Staging \cup Undoing \cup Deleting
    BY DEF Handling, Staging, Undoing, Completing, Deleting
  <2>8. Sound(q, transfer, created)
    BY <1>1, <2>1, <2>5, <2>7 DEF Sound
  <2>9. Takes(r, q)
    BY <1>5, <2>6, <2>8 DEF Takes
  <2> QED BY <1>2, <2>9, OwnStep
<1> QED BY <1>3, <1>4, <1>5

\* A transfer is drawn: the next number, for a request that has none.
LEMMA DrawTyped ==
  ASSUME TypeInv, NEW r \in Requests, NEW q, NEW u \in Transfer, Become(r, q),
         created + Cardinality(Undrawn \ {r}) < MaxTransfers,
         created' = created + 1, transfer' = [transfer EXCEPT ![created'] = u],
         u.kind # "none", q \in Request, q.own = created', q.t = created',
         q.kind = u.kind, q.ids = u.ids, q.step = "stage",
         \A x \in q.todo : x[1] <= created,
         known' \subseteq Assets, session' \in BOOLEAN, Tables', Files'
  PROVE  TypeInv'
<1>1. /\ created \in 0 .. MaxTransfers /\ MaxTransfers \in Nat
      /\ request \in [Requests -> Request] /\ transfer \in [Transfers -> Transfer]
  BY TypesOf
<1>2. IsFiniteSet(Undrawn \ {r}) /\ Cardinality(Undrawn \ {r}) \in Nat
  BY Finite, FS_RemoveElement, FS_CardinalityType
<1>3. created' \in 1 .. MaxTransfers /\ created' \in Transfers
  BY <1>1, <1>2 DEF Transfers
<1>4. transfer' \in [Transfers -> Transfer]
  BY <1>1, <1>3
<1>5. \A t \in Transfers : transfer'[t] = IF t = created + 1 THEN u ELSE transfer[t]
  BY <1>1, <1>3
<1>6. Begun(transfer', created')
  <2>1. \A t \in Transfers : /\ t <= created <=> transfer[t].kind # "none"
                             /\ transfer[t].kind = "none" => transfer[t] = NoTransfer
    BY DEF TypeInv, Begun
  <2>2. \A t \in Transfers : t <= created + 1 <=> t <= created \/ t = created + 1
    BY <1>1 DEF Transfers
  <2> QED BY <1>4, <1>5, <2>1, <2>2 DEF Begun
<1>7. SameTransfers
  <2>1. \A t \in Transfers : t <= created => t # created + 1
    BY <1>1 DEF Transfers
  <2> QED BY <1>1, <1>5, <2>1 DEF SameTransfers
<1>8. request' = [request EXCEPT ![r] = q]
  BY DEF Become
<1>9. request' \in [Requests -> Request] /\ \A s \in Requests : request'[s] = IF s = r THEN q ELSE request[s]
  BY <1>1, <1>8
<1>10. ThreadsAreSound'
  <2> SUFFICES ASSUME NEW s \in Requests PROVE Sound(request'[s], transfer', created')
    BY DEF ThreadsAreSound
  <2>1. CASE s = r
    <3>1. transfer'[q.t].kind = q.kind /\ transfer'[q.t].ids = q.ids
      BY <1>3, <1>5
    <3>2. q.own <= created' /\ q.t \in 1 .. created' /\ \A x \in q.todo : x[1] <= created'
      BY <1>1, <1>3 DEF Request, Transfers
    <3>3. Sound(q, transfer', created')
      BY <3>1, <3>2 DEF Sound, Handling, Staging, Undoing, Completing, Deleting
    <3> QED BY <2>1, <3>3, <1>9
  <2>2. CASE s # r
    <3>1. Sound(request[s], transfer, created) /\ request[s] \in Request
      BY <1>1 DEF TypeInv, ThreadsAreSound
    <3>2. created' \in 0 .. MaxTransfers
      BY <1>3
    <3> QED BY <2>2, <3>1, <3>2, <1>7, <1>9, SoundStays
  <2> QED BY <2>1, <2>2
<1>11. RoomToDraw'
  <2>1. q.own # 0
    BY <1>3
  <2>2. Undrawn' \in SUBSET (Undrawn \ {r})
    BY <2>1, <1>9 DEF Undrawn
  <2>3. Cardinality(Undrawn') <= Cardinality(Undrawn \ {r}) /\ Cardinality(Undrawn') \in Nat
    BY <2>2, <1>2, FS_Subset, FS_CardinalityType
  <2> QED BY <2>3, <1>1, <1>2 DEF RoomToDraw
<1> QED BY <1>3, <1>4, <1>6, <1>9, <1>10, <1>11 DEF TypeInv, TypeOK, Tables, Files

\* Open keeps the types: a request that may draw a transfer finds room for it.
LEMMA OpenTyped ==
  ASSUME TypeInv, NEW r \in Requests, Open(r)
  PROVE  TypeInv'
<1> DEFINE u == [kind |-> request[r].kind, ids |-> request[r].ids,
                 state |-> "preparing", marker |-> FALSE]
           q(n) == [request[r] EXCEPT !.step = "stage", !.own = n, !.t = n,
                                      !.state = "preparing", !.left = request[r].ids]
<1>1. /\ request[r] \in Request /\ Sound(request[r], transfer, created)
      /\ request[r].step = "open" /\ created \in 0 .. MaxTransfers /\ MaxTransfers \in Nat
  BY TypesOf DEF TypeInv, ThreadsAreSound, Open, At
<1>2. UNCHANGED <<row, blobRow, plain, blobs, staged, known, session>>
  BY DEF Open, files
<1>3. Tables' /\ Files' /\ known' \subseteq Assets /\ session' \in BOOLEAN
  BY <1>2, TypesOf DEF Tables, Files
<1>4. CASE End(r) /\ UNCHANGED <<created, transfer>>
  <2>1. UNCHANGED <<transfer, created, known, session>>
    BY <1>2, <1>4
  <2> QED BY <1>3, <1>4, <2>1, EndStep, QuietStep
<1>5. CASE /\ created' = created + 1 /\ transfer' = [transfer EXCEPT ![created'] = u]
           /\ Become(r, q(created'))
  <2>1. request[r].own = 0 /\ request[r].kind \in {"import", "export"}
    BY <1>1 DEF Sound
  <2>2. u \in Transfer /\ u.kind # "none" /\ u.kind = request[r].kind /\ u.ids = request[r].ids
    BY <1>1, <2>1 DEF Request, Transfer, Kinds, States, Rank
  <2>3. r \in Undrawn
    BY <2>1 DEF Undrawn, Kinds
  <2>4. /\ Cardinality(Undrawn \ {r}) = Cardinality(Undrawn) - 1
        /\ created + Cardinality(Undrawn) <= MaxTransfers
    BY <2>3, Finite, FS_RemoveElement DEF TypeInv, RoomToDraw
  <2>5. created + Cardinality(Undrawn \ {r}) < MaxTransfers /\ created' \in 0 .. MaxTransfers
    <3>1. Cardinality(Undrawn) \in Nat /\ Cardinality(Undrawn \ {r}) \in Nat
      BY Finite, FS_RemoveElement, FS_CardinalityType
    <3> QED BY <3>1, <2>4, <1>1, <1>5
  <2> DEFINE p == q(created')
  <2>6. /\ p \in Request /\ p.own = created' /\ p.t = created' /\ p.kind = request[r].kind
        /\ p.ids = request[r].ids /\ p.step = "stage" /\ p.todo = request[r].todo
    BY <1>1, <2>5 DEF Request, Steps, States, Rank
  <2>7. \A x \in p.todo : x[1] <= created
    BY <1>1, <2>6 DEF Sound
  <2>8. Become(r, p)
    BY <1>5
  <2> HIDE DEF p, u
  <2> QED BY <1>3, <1>5, <2>2, <2>5, <2>6, <2>7, <2>8, DrawTyped
<1> QED BY <1>4, <1>5 DEF Open

\* StageBlob keeps the types.
LEMMA StageBlobTyped ==
  ASSUME TypeInv, NEW r \in Requests, StageBlob(r)
  PROVE  TypeInv'
<1>1. request[r] \in Request /\ request[r].step = "stage" /\ request[r].step \in Handling
  BY TypesOf DEF StageBlob, At, Handling, Staging
<1>2. UNCHANGED <<row, blobRow, transfer, plain, blobs, known, created, session>>
  BY DEF StageBlob, tables
<1>3. PICK a \in request[r].left :
        /\ Tick(r, a) \/ Go(r, "abort") \/ End(r)
        /\ staged' \in {staged, staged \cup {<<Now(r), a>>}}
  BY DEF StageBlob
<1>4. a \in Assets /\ Now(r) \in Transfers
  BY <1>1, InHand DEF Request
<1>5. Tables' /\ Files'
  BY <1>2, <1>3, <1>4, TypesOf DEF Tables, Files
<1>6. \E q : Takes(r, q)
  BY <1>1, <1>3, Ticks, EndStep, GoesTo DEF Handling, Staging, Undoing, Completing, Deleting
<1> QED BY <1>2, <1>5, <1>6, QuietStep

\* CreatePlain keeps the types.
LEMMA CreatePlainTyped ==
  ASSUME TypeInv, NEW r \in Requests, CreatePlain(r)
  PROVE  TypeInv'
<1>1. /\ request[r] \in Request /\ request[r].step = "stage" /\ request[r].step \in Handling
      /\ request[r].kind = "export"
  BY TypesOf DEF CreatePlain, At, Handling, Staging
<1>2. UNCHANGED <<row, blobRow, transfer, blobs, staged, known, created, session>>
  BY DEF CreatePlain, tables
<1>3. PICK a \in request[r].left :
        /\ \/ Become(r, [request[r] EXCEPT !.step = "write", !.file = a])
           \/ Go(r, "abort")
        /\ plain' = [plain EXCEPT ![a] = "partial"] \/ plain' = [plain EXCEPT ![a] = "absent"]
  BY DEF CreatePlain
<1>4. a \in Assets
  BY <1>1 DEF Request
<1>5. Tables' /\ Files'
  BY <1>2, <1>3, <1>4, TypesOf DEF Tables, Files
<1>6. CASE Go(r, "abort")
  <2>1. \E q : Takes(r, q)
    BY <1>1, <1>6, GoesTo DEF Handling, Staging, Undoing, Completing, Deleting
  <2> QED BY <1>2, <1>5, <2>1, QuietStep
<1>7. CASE Become(r, [request[r] EXCEPT !.step = "write", !.file = a])
  <2> DEFINE q == [request[r] EXCEPT !.step = "write", !.file = a]
  <2>1. /\ q \in Request /\ q.step = "write" /\ q.own = request[r].own /\ q.kind = request[r].kind
        /\ q.ids = request[r].ids /\ q.t = request[r].t /\ q.todo = request[r].todo /\ q.file = a
    BY <1>1, <1>4 DEF Request, Steps
  <2>2. Become(r, q)
    BY <1>7
  <2> HIDE DEF q
  <2>3. Takes(r, q)
    BY <1>1, <1>4, <2>1, <2>2, GoesOn DEF Handling, Staging, Undoing, Completing, Deleting
  <2> QED BY <1>2, <1>5, <2>3, QuietStep
<1> QED BY <1>3, <1>6, <1>7

\* WritePlain keeps the types.
LEMMA WritePlainTyped ==
  ASSUME TypeInv, NEW r \in Requests, WritePlain(r)
  PROVE  TypeInv'
<1> DEFINE a == request[r].file
           done == [request[r] EXCEPT !.step = "stage", !.left = @ \ {a}, !.file = NoAsset]
           lost == [request[r] EXCEPT !.step = "abort", !.file = NoAsset]
<1>1. /\ request[r] \in Request /\ request[r].step = "write" /\ request[r].step \in Handling
  BY TypesOf DEF WritePlain, At, Handling, Staging
<1>2. UNCHANGED <<row, blobRow, transfer, blobs, staged, known, created, session>>
  BY DEF WritePlain, tables
<1>3. plain' \in [Assets -> {"absent", "partial", "whole"}]
  BY TypesOf DEF WritePlain, Files
<1>4. Tables' /\ Files'
  BY <1>2, <1>3, TypesOf DEF Tables, Files
<1>5. PICK q \in {done, lost} : Become(r, q)
  BY DEF WritePlain
<1>6. /\ done \in Request /\ lost \in Request
      /\ done.step = "stage" /\ done.own = request[r].own /\ done.kind = request[r].kind
      /\ done.ids = request[r].ids /\ done.t = request[r].t /\ done.todo = request[r].todo
      /\ lost.step = "abort" /\ lost.own = request[r].own /\ lost.kind = request[r].kind
      /\ lost.ids = request[r].ids /\ lost.t = request[r].t /\ lost.todo = request[r].todo
  BY <1>1 DEF Request, Steps
<1> HIDE DEF done, lost
<1>7. /\ q \in Request /\ q.step \in {"stage", "abort"} /\ q.own = request[r].own /\ q.kind = request[r].kind
      /\ q.ids = request[r].ids /\ q.t = request[r].t /\ q.todo = request[r].todo
  BY <1>5, <1>6
<1>8. Takes(r, q)
  BY <1>1, <1>5, <1>7, GoesOn DEF Handling, Staging, Undoing, Completing, Deleting
<1> QED BY <1>2, <1>4, <1>8, QuietStep

\* insert_asset keeps a row a row.
LEMMA PlacedIsRow ==
  ASSUME NEW rows, NEW journaled, NEW a \in Assets, NEW given \in Row
  PROVE  /\ Placed(rows, journaled, a, given) \in Row
         /\ Placed(rows, journaled, a, given).lifecycle = "none" <=> given.lifecycle = "none"
         /\ Placed(rows, journaled, a, given).lifecycle = "purging" <=> given.lifecycle = "purging"
         /\ Placed(rows, journaled, a, given).duplicateOf
              \in (Assets \ journaled) \cup {NoAsset}
<1> DEFINE ps == Primaries(rows, journaled, a)
           b == CHOOSE x \in ps : TRUE
           one == [given EXCEPT !.duplicateOf = b, !.lifecycle = IF @ = "active" THEN "duplicate" ELSE @]
           two == [given EXCEPT !.duplicateOf = NoAsset, !.lifecycle = IF @ = "duplicate" THEN "active" ELSE @]
<1>1. ps \subseteq Assets \ journaled
  BY DEF Primaries
<1>2. CASE ps # {}
  <2>1. b \in Assets \ journaled
    BY <1>1, <1>2
  <2>2. Placed(rows, journaled, a, given) = one
    BY <1>2 DEF Placed
  <2> HIDE DEF b, ps
  <2>3. /\ one \in Row /\ one.duplicateOf = b
        /\ one.lifecycle = "none" <=> given.lifecycle = "none"
        /\ one.lifecycle = "purging" <=> given.lifecycle = "purging"
    BY <2>1 DEF Row, Lifecycles
  <2> QED BY <2>1, <2>2, <2>3
<1>3. CASE ps = {} /\ given.duplicateOf # NoAsset
  <2>1. Placed(rows, journaled, a, given) = two
    BY <1>3 DEF Placed
  <2> HIDE DEF b, ps
  <2>2. /\ two \in Row /\ two.duplicateOf = NoAsset
        /\ two.lifecycle = "none" <=> given.lifecycle = "none"
        /\ two.lifecycle = "purging" <=> given.lifecycle = "purging"
    BY DEF Row, Lifecycles
  <2> QED BY <2>1, <2>2
<1>4. CASE ps = {} /\ given.duplicateOf = NoAsset
  <2>1. Placed(rows, journaled, a, given) = given
    BY <1>4 DEF Placed
  <2> QED BY <2>1, <1>4
<1> QED BY <1>2, <1>3, <1>4

\* An order of a set's elements leaves none out.
LEMMA OrderIsComplete ==
  ASSUME NEW ids \in SUBSET Assets, NEW order \in SetToSeqs(ids)
  PROVE  /\ Cardinality(ids) \in Nat
         /\ order \in [1 .. Cardinality(ids) -> ids]
         /\ \A a \in ids : \E i \in 1 .. Cardinality(ids) : order[i] = a
<1> DEFINE n == Cardinality(ids)
<1>1. IsFiniteSet(ids) /\ n \in Nat
  BY FS_Subset, FS_CardinalityType, TransferAssumption
<1>2. order \in [1 .. n -> ids] /\ \A i, j \in 1 .. n : i # j => order[i] # order[j]
  BY DEF SetToSeqs
<1>3. ASSUME NEW a \in ids, \A i \in 1 .. n : order[i] # a PROVE FALSE
  <2>1. IsFiniteSet(ids \ {a}) /\ Cardinality(ids \ {a}) = n - 1
    BY <1>1, FS_RemoveElement
  <2>2. IsFiniteSet(1 .. n) /\ Cardinality(1 .. n) = n
    <3> HIDE DEF n
    <3>1. 1 \in Int /\ n \in Int
      BY <1>1
    <3>2. IsFiniteSet(1 .. n) /\ Cardinality(1 .. n) = IF 1 > n THEN 0 ELSE n - 1 + 1
      BY <3>1, FS_Interval
    <3> QED BY <3>2, <1>1
  <2>3. order \in [1 .. n -> ids \ {a}]
    BY <1>2, <1>3
  <2> HIDE DEF n
  <2>4. Cardinality(ids \ {a}) < Cardinality(1 .. n)
    BY <1>1, <2>1, <2>2
  <2> DEFINE S == 1 .. n
             T == ids \ {a}
  <2>5. IsFiniteSet(S) /\ IsFiniteSet(T) /\ Cardinality(T) < Cardinality(S) /\ order \in [S -> T]
    BY <2>1, <2>2, <2>3, <2>4
  <2>6. \E x, y \in S : x # y /\ order[x] = order[y]
    <3> HIDE DEF S, T
    <3> QED BY ONLY <2>5, FS_PigeonHole, Zenon
  <2> QED BY <2>6, <1>2
<1> QED BY <1>1, <1>2, <1>3

\* What insert_asset may make of the row given for a.
Fits(journaled, given, x) ==
  /\ x \in Row
  /\ x.lifecycle = "none" <=> given.lifecycle = "none"
  /\ x.lifecycle = "purging" <=> given.lifecycle = "purging"
  /\ x.duplicateOf \in (Assets \ journaled) \cup {NoAsset}

\* Commit puts in every row of the transfer, and touches no other.
LEMMA InsertedRows ==
  ASSUME NEW rows \in [Assets -> Row], NEW journaled, NEW ids \in SUBSET Assets,
         NEW given \in [Assets -> Row], NEW order \in SetToSeqs(ids)
  PROVE  LET new == Inserted(rows, journaled, given, order) IN
         /\ new \in [Assets -> Row]
         /\ \A a \in Assets \ ids : new[a] = rows[a]
         /\ \A a \in ids : Fits(journaled, given[a], new[a])
<1> DEFINE n == Cardinality(ids)
           done(k) == {order[i] : i \in 1 .. k}
           In(k) == {f \in [Assets -> Row] : \A a \in Assets :
                       IF a \in done(k) THEN Fits(journaled, given[a], f[a]) ELSE f[a] = rows[a]}
           G == [k \in 0 .. n |-> In(k)]
<1>1. /\ n \in Nat
      /\ order \in [1 .. n -> ids]
      /\ \A a \in ids : \E i \in 1 .. n : order[i] = a
  BY OrderIsComplete
<1> HIDE DEF n
<1>2. rows \in G[0]
  <2>1. done(0) = {}
    OBVIOUS
  <2>2. rows \in In(0)
    BY <2>1
  <2>3. G[0] = In(0)
    BY <1>1
  <2> QED BY <2>2, <2>3
<1>3. ASSUME NEW k \in 1 .. n, NEW rs \in G[k - 1]
      PROVE  [rs EXCEPT ![order[k]] = Placed(rs, journaled, order[k], given[order[k]])] \in G[k]
  <2> DEFINE a == order[k]
             x == Placed(rs, journaled, a, given[a])
             f == [rs EXCEPT ![a] = x]
  <2>1. a \in Assets /\ given[a] \in Row
    BY <1>1
  <2>2. Fits(journaled, given[a], x)
    BY <2>1, PlacedIsRow DEF Fits
  <2>3. rs \in In(k - 1) /\ G[k] = In(k)
    BY <1>1
  <2>4. done(k) = done(k - 1) \cup {a}
    <3>1. 1 .. k = (1 .. k - 1) \cup {k}
      BY <1>1
    <3> QED BY <3>1
  <2>5. rs \in [Assets -> Row] /\ \A b \in Assets :
          IF b \in done(k - 1) THEN Fits(journaled, given[b], rs[b]) ELSE rs[b] = rows[b]
    BY <2>3
  <2>6. x \in Row
    BY <2>2 DEF Fits
  <2> HIDE DEF x, done
  <2>7. f \in [Assets -> Row] /\ \A b \in Assets : f[b] = IF b = a THEN x ELSE rs[b]
    BY <2>1, <2>5, <2>6
  <2> HIDE DEF f, a
  <2>8. f \in In(k)
    BY <2>2, <2>4, <2>5, <2>7
  <2> QED BY <2>3, <2>8 DEF f, x, a
<1>4. order \in [1 .. n -> Assets]
  BY <1>1
<1>5. Inserted(rows, journaled, given, order) \in G[n]
  <2> HIDE DEF G
  <2> QED BY <1>1, <1>2, <1>3, <1>4, InsertedSteps
<1>6. G[n] = In(n)
  BY <1>1
<1>7. done(n) = ids
  BY <1>1
<1> HIDE DEF G, done
<1> QED BY <1>5, <1>6, <1>7

\* A thread that stages has its own transfer in hand.
LEMMA OwnInHand ==
  ASSUME TypeInv, NEW r \in Requests, request[r].step \in Staging
  PROVE  /\ request[r].own = Now(r) /\ request[r].kind = Kind(r) /\ request[r].ids = Moving(r)
         /\ request[r].kind \in Kinds
<1>1. Sound(request[r], transfer, created)
  BY DEF TypeInv, ThreadsAreSound
<1>2. request[r].step \in Handling
  BY DEF Handling
<1>3. request[r].own = request[r].t /\ request[r].t \in 1 .. created
  BY <1>1, <1>2 DEF Sound
<1>4. request[r].own # 0
  BY <1>3, TypesOf
<1>5. request[r].kind = transfer[request[r].t].kind /\ request[r].ids = transfer[request[r].t].ids
  BY <1>1, <1>2, <1>4 DEF Sound
<1>6. Kind(r) \in Kinds
  BY <1>2, InHand
<1> QED BY <1>3, <1>5, <1>6 DEF Kind, Moving, Now

\* An upload's row is a row.
LEMMA FreshIsRow == Fresh \in Row /\ Fresh.lifecycle = "active" /\ Fresh.duplicateOf = NoAsset
BY DEF Fresh, NoRow, Row, Lifecycles

\* What a commit that succeeds does.
CommitsInto(r, order) ==
  LET d == To[request[r].kind]
      rows == Inserted(row[d], Journaled(d), Given(r), order)
  IN /\ (\A a \in request[r].ids : ~Exists(d, a)) /\ UniquePrimaries(rows)
     /\ row' = [row EXCEPT ![d] = rows]
     /\ blobRow' = IF d = "main" THEN blobRow
                   ELSE [a \in Assets |-> IF a \in request[r].ids THEN Now(r) ELSE blobRow[a]]
     /\ transfer' = [transfer EXCEPT ![Now(r)].marker = TRUE]
     /\ Become(r, [request[r] EXCEPT !.step = "complete", !.rows = Idle.rows])

\* The three ends of a commit.
LEMMA CommitCases ==
  ASSUME NEW r \in Requests, Commit(r)
  PROVE  /\ UNCHANGED <<plain, blobs, staged, known, created, session>>
         /\ request[r].step = "stage" /\ request[r].left = {}
         /\ \/ (End(r) \/ Go(r, "abort")) /\ UNCHANGED <<row, blobRow, transfer>>
            \/ \E order \in SetToSeqs(request[r].ids) : CommitsInto(r, order)
<1>1. UNCHANGED <<plain, blobs, staged, known, created, session>>
  BY DEF Commit, files
<1>2. request[r].step = "stage" /\ request[r].left = {}
  BY DEF Commit, Staged, At
<1>3. \/ (End(r) \/ Go(r, "abort")) /\ UNCHANGED <<row, blobRow, transfer>>
      \/ \E order \in SetToSeqs(request[r].ids) : CommitsInto(r, order)
  <2> HIDE DEF UniquePrimaries
  <2> QED BY DEF Commit, tables, CommitsInto
<1> QED BY <1>1, <1>2, <1>3

\* The rows that a commit leaves in its database.
LEMMA CommittedRows ==
  ASSUME TypeInv, NEW r \in Requests, request[r].step = "stage",
         NEW order \in SetToSeqs(request[r].ids), CommitsInto(r, order)
  PROVE  LET d == To[request[r].kind] IN
         /\ d \in Databases
         /\ row' \in [Databases -> [Assets -> Row]]
         /\ \A e \in Databases \ {d} : row'[e] = row[e]
         /\ \A a \in Assets \ request[r].ids : row'[d][a] = row[d][a]
         /\ \A a \in request[r].ids : Fits(Journaled(d), Given(r)[a], row'[d][a])
         /\ Given(r) \in [Assets -> Row]
         /\ request[r].ids \in SUBSET Assets
<1> DEFINE d == To[request[r].kind]
           new == Inserted(row[d], Journaled(d), Given(r), order)
<1>1. request[r] \in Request /\ row \in [Databases -> [Assets -> Row]]
  BY TypesOf DEF Tables
<1>2. request[r].kind \in Kinds
  BY OwnInHand DEF Staging
<1>3. d \in Databases
  BY <1>2 DEF To, Kinds, Databases
<1>4. Given(r) \in [Assets -> Row] /\ request[r].ids \in SUBSET Assets
  BY <1>1, FreshIsRow DEF Given, Request
<1>5. row[d] \in [Assets -> Row]
  BY <1>1, <1>3
<1>6. row' = [row EXCEPT ![d] = new]
  BY DEF CommitsInto
<1> HIDE DEF d
<1>7. /\ new \in [Assets -> Row]
      /\ \A a \in Assets \ request[r].ids : new[a] = row[d][a]
      /\ \A a \in request[r].ids : Fits(Journaled(d), Given(r)[a], new[a])
  BY <1>4, <1>5, InsertedRows
<1> HIDE DEF new
<1>8. row'[d] = new /\ \A e \in Databases \ {d} : row'[e] = row[e]
  BY <1>1, <1>3, <1>6
<1>9. row' \in [Databases -> [Assets -> Row]]
  BY <1>1, <1>3, <1>6, <1>7
<1> QED BY <1>3, <1>4, <1>7, <1>8, <1>9 DEF d

\* Commit keeps the types.
LEMMA CommitTyped ==
  ASSUME TypeInv, NEW r \in Requests, Commit(r)
  PROVE  TypeInv'
<1>1. /\ UNCHANGED <<plain, blobs, staged, known, created, session>>
      /\ request[r].step = "stage" /\ request[r].step \in Handling
      /\ request[r] \in Request
  BY CommitCases, TypesOf DEF Handling, Staging
<1>2. CASE (End(r) \/ Go(r, "abort")) /\ UNCHANGED <<row, blobRow, transfer>>
  <2>1. Tables' /\ Files'
    BY <1>1, <1>2, TypesOf DEF Tables, Files
  <2>2. \E q : Takes(r, q)
    BY <1>1, <1>2, EndStep, GoesTo DEF Handling, Staging, Undoing, Completing, Deleting
  <2> QED BY <1>1, <1>2, <2>1, <2>2, QuietStep
<1>3. ASSUME NEW order \in SetToSeqs(request[r].ids), CommitsInto(r, order) PROVE TypeInv'
  <2> DEFINE t == Now(r)
             u == [transfer[t] EXCEPT !.marker = TRUE]
             q == [request[r] EXCEPT !.step = "complete", !.rows = Idle.rows]
  <2>1. t \in 1 .. created /\ t \in Transfers /\ transfer[t] \in Transfer
    BY <1>1, InHand, TypesOf
  <2>2. u \in Transfer /\ u.kind = transfer[t].kind /\ u.ids = transfer[t].ids
    BY <2>1 DEF Transfer
  <2>3. transfer' = [transfer EXCEPT ![t] = u] /\ created' = created
    BY <1>1, <1>3 DEF CommitsInto
  <2>4. blobRow' \in [Assets -> 0 .. MaxTransfers]
    <3>1. t \in 0 .. MaxTransfers
      BY <2>1, TypesOf DEF Transfers
    <3>2. blobRow \in [Assets -> 0 .. MaxTransfers]
      BY TypesOf DEF Tables
    <3> QED BY <1>3, <3>1, <3>2 DEF CommitsInto
  <2>5. row' \in [Databases -> [Assets -> Row]]
    BY <1>1, <1>3, CommittedRows
  <2>6. Tables' /\ Files' /\ known' \subseteq Assets /\ session' \in BOOLEAN
    BY <1>1, <2>4, <2>5, TypesOf DEF Tables, Files
  <2>7. Idle.rows \in [Assets -> Row]
    BY IdleIsRequest DEF Request
  <2>8. Become(r, q)
    BY <1>3 DEF CommitsInto
  <2> HIDE DEF t, u
  <2>9. SameTransfers /\ Begun(transfer', created')
    BY <2>1, <2>2, <2>3, OneTransfer
  <2>10. /\ q \in Request /\ q.step = "complete" /\ q.own = request[r].own /\ q.kind = request[r].kind
         /\ q.ids = request[r].ids /\ q.t = request[r].t /\ q.todo = request[r].todo
    BY <1>1, <2>7 DEF Request, Steps
  <2> HIDE DEF q
  <2>11. Takes(r, q)
    BY <1>1, <2>8, <2>10, GoesOn DEF Handling, Staging, Undoing, Completing, Deleting
  <2> QED BY <2>3, <2>6, <2>9, <2>11, ThreadTyped
<1> QED BY <1>2, <1>3, CommitCases

\* Abort keeps the types.
LEMMA AbortTyped ==
  ASSUME TypeInv, NEW r \in Requests, Abort(r)
  PROVE  TypeInv'
<1>1. /\ request[r].step = "abort" /\ request[r].step \in Handling /\ request[r].step \in Staging
      /\ request[r] \in Request
  BY TypesOf DEF Abort, At, Handling, Staging
<1>2. UNCHANGED <<row, blobRow, transfer, blobs, known, created, session>>
  BY DEF Abort, tables
<1>3. /\ staged' \subseteq staged
      /\ plain' \in [Assets -> {"absent", "partial", "whole"}]
  BY TypesOf DEF Abort, Files
<1>4. Tables' /\ Files'
  BY <1>2, <1>3, TypesOf DEF Tables, Files
<1>5. CASE request[r].kind = "ingest"
  <2>1. End(r)
    BY <1>5 DEF Abort
  <2> QED BY <1>2, <1>4, <2>1, EndStep, QuietStep
<1>6. CASE request[r].kind # "ingest"
  <2> DEFINE q == [request[r] EXCEPT !.step = "forget", !.rows = Idle.rows]
  <2>1. Become(r, q)
    BY <1>6 DEF Abort
  <2>2. Idle.rows \in [Assets -> Row]
    BY IdleIsRequest DEF Request
  <2>3. /\ q \in Request /\ q.step = "forget" /\ q.own = request[r].own /\ q.kind = request[r].kind
        /\ q.ids = request[r].ids /\ q.t = request[r].t /\ q.todo = request[r].todo
    BY <1>1, <2>2 DEF Request, Steps
  <2>4. Kind(r) \in {"import", "export"}
    BY <1>1, <1>6, OwnInHand DEF Kinds
  <2> HIDE DEF q
  <2>5. Takes(r, q)
    BY <1>1, <2>1, <2>3, <2>4, GoesOn DEF Handling, Staging, Undoing, Completing, Deleting
  <2> QED BY <1>2, <1>4, <2>5, QuietStep
<1> QED BY <1>5, <1>6

\* Every step up to the commit keeps the types.
LEMMA StagesTyped ==
  ASSUME TypeInv, NEW r \in Requests, Stages(r)
  PROVE  TypeInv'
BY PrepareTyped, OpenTyped, StageBlobTyped, CreatePlainTyped, WritePlainTyped, CommitTyped,
   AbortTyped DEF Stages

-----------------------------------------------------------------------------
(* Completion.                                                             *)

\* What a completing thread knows of its transfer's kind.
LEMMA KindInHand ==
  ASSUME TypeInv, NEW r \in Requests, request[r].step \in Handling
  PROVE  /\ request[r].step \in Deleting \cup {"close"} => Kind(r) \in {"import", "export"}
         /\ request[r].step \in Undoing => Kind(r) \in {"import", "export"}
         /\ request[r].step \in {"finalize", "clear"} => Kind(r) \in {"import", "ingest"}
<1>1. Sound(request[r], transfer, created)
  BY DEF TypeInv, ThreadsAreSound
<1>2. Kind(r) \in Kinds
  BY InHand
<1>3. Kind(r) = transfer[request[r].t].kind
  BY DEF Kind, Now
<1> QED BY <1>1, <1>2, <1>3 DEF Sound, Kinds

\* A change of the journal's state.
LEMMA StateTyped ==
  ASSUME TypeInv, NEW r \in Requests, request[r].step \in Handling,
         NEW s \in States, SetState(Now(r), s), created' = created
  PROVE  SameTransfers /\ Begun(transfer', created')
<1> DEFINE t == Now(r)
           u == [transfer[t] EXCEPT !.state = s]
<1>1. t \in 1 .. created /\ t \in Transfers /\ transfer[t] \in Transfer
  BY InHand, TypesOf
<1>2. u \in Transfer /\ u.kind = transfer[t].kind /\ u.ids = transfer[t].ids
  BY <1>1 DEF Transfer
<1>3. transfer' = [transfer EXCEPT ![t] = u]
  BY DEF SetState
<1> HIDE DEF t, u
<1> QED BY <1>1, <1>2, <1>3, OneTransfer

\* Complete keeps the types.
LEMMA CompleteTyped ==
  ASSUME TypeInv, NEW r \in Requests, Complete(r)
  PROVE  TypeInv'
<1>1. request[r].step \in Handling
  BY DEF Complete, At, Handling, Completing
<1>2. \/ End(r)
      \/ Kind(r) = "export" /\ Each(r, "validate")
      \/ Kind(r) # "export" /\ Each(r, "finalize")
  BY DEF Complete
<1>3. \E q : Takes(r, q)
  BY <1>1, <1>2, EndStep, EachGoes DEF Handling, Staging, Undoing, Completing, Deleting
<1>4. UNCHANGED <<tables, files, known, created, session>>
  BY DEF Complete
<1> QED BY <1>3, <1>4, OwnStep

\* The ends of one step of finalize_import_files.
LEMMA FinalizeCases ==
  ASSUME NEW r \in Requests, Finalize(r)
  PROVE  /\ UNCHANGED <<row, blobRow, transfer, known, plain, created, session>>
         /\ request[r].step = "finalize"
         /\ \/ /\ request[r].left = {} /\ Go(r, "validate")
               /\ staged' = staged \ StagedBy(Now(r)) /\ UNCHANGED blobs
            \/ End(r) /\ UNCHANGED <<staged, blobs>>
            \/ \E a \in request[r].left : LET file == <<blobRow[a], a>> IN
                 /\ Tick(r, a)
                 /\ \/ blobRow[a] = 0 /\ UNCHANGED <<staged, blobs>>
                    \/ file \in blobs /\ UNCHANGED blobs
                       /\ staged' = staged \ ({file} \cap StagedBy(Now(r)))
                    \/ file \in StagedBy(Now(r)) /\ staged' = staged \ {file}
                       /\ blobs' = blobs \cup {file}
<1>1. UNCHANGED <<row, blobRow, transfer, known, plain, created, session>>
  BY DEF Finalize, tables
<1> QED BY <1>1 DEF Finalize, At, Finalized

\* Finalize keeps the types: a blob moves to where a begun transfer put it.
LEMMA FinalizeTyped ==
  ASSUME TypeInv, NEW r \in Requests, Finalize(r)
  PROVE  TypeInv'
<1>1. /\ UNCHANGED <<row, blobRow, transfer, known, plain, created, session>>
      /\ request[r].step = "finalize" /\ request[r].step \in Handling
  BY FinalizeCases DEF Handling, Completing
<1>2. staged' \subseteq staged /\ blobs' \subseteq blobs \cup staged
  BY FinalizeCases DEF StagedBy
<1>3. Tables' /\ Files'
  BY <1>1, <1>2, TypesOf DEF Tables, Files
<1>4. End(r) \/ Go(r, "validate") \/ \E a : Tick(r, a)
  BY FinalizeCases
<1>5. \E q : Takes(r, q)
  BY <1>1, <1>4, EndStep, Ticks, GoesTo DEF Handling, Staging, Undoing, Completing, Deleting
<1> QED BY <1>1, <1>3, <1>5, QuietStep

\* Validate keeps the types; only a transfer with a source goes on to ready.
LEMMA ValidateTyped ==
  ASSUME TypeInv, NEW r \in Requests, Validate(r)
  PROVE  TypeInv'
<1>1. request[r].step \in Handling
  BY DEF Validate, At, Handling, Completing
<1>2. \/ End(r)
      \/ Kind(r) = "ingest" /\ Go(r, "unmark")
      \/ Kind(r) # "ingest" /\ Go(r, "ready")
  BY DEF Validate
<1>3. \E q : Takes(r, q)
  BY <1>1, <1>2, EndStep, GoesTo DEF Handling, Staging, Undoing, Completing, Deleting
<1>4. UNCHANGED <<tables, files, known, created, session>>
  BY DEF Validate
<1> QED BY <1>3, <1>4, OwnStep

\* Record fails, or notes the state and goes on.
LEMMA RecordTyped ==
  ASSUME TypeInv, NEW r \in Requests, request[r].step \in Deleting,
         NEW s \in States, NEW step \in {"lease", "drop", "unmark"}, Record(r, s, step),
         UNCHANGED <<row, blobRow, files, known, created, session>>
  PROVE  TypeInv'
<1>1. request[r].step \in Handling /\ Kind(r) # "ingest"
  BY KindInHand DEF Handling, Completing
<1>2. Tables' /\ Files' /\ known' \subseteq Assets /\ session' \in BOOLEAN /\ created' = created
  BY TypesOf DEF Tables, Files, files
<1>3. CASE End(r) /\ UNCHANGED transfer
  <2>1. UNCHANGED <<transfer, created, known, session>>
    BY <1>3
  <2> QED BY <1>2, <1>3, <2>1, EndStep, QuietStep
<1>4. CASE SetState(Now(r), s) /\ Go(r, step)
  <2>1. SameTransfers /\ Begun(transfer', created')
    BY <1>1, <1>2, <1>4, StateTyped
  <2>2. \E q : Takes(r, q)
    BY <1>1, <1>4, GoesTo DEF Handling, Staging, Undoing, Completing, Deleting
  <2> QED BY <1>2, <2>1, <2>2, ThreadTyped
<1> QED BY <1>3, <1>4 DEF Record

\* Ready keeps the types.
LEMMA ReadyTyped ==
  ASSUME TypeInv, NEW r \in Requests, Ready(r)
  PROVE  TypeInv'
<1>1. request[r].step \in Deleting /\ request[r].step \in Handling
  BY DEF Ready, At, Deleting, Handling, Completing
<1>2. UNCHANGED <<row, blobRow, files, known, created, session>>
  BY DEF Ready
<1>3. Onward(r) \in {"lease", "drop", "unmark"} /\ Kind(r) # "ingest"
  BY <1>1, KindInHand DEF Onward
<1>4. CASE Record(r, "destination_ready", Onward(r))
  <2>1. "destination_ready" \in States
    BY DEF States, Rank
  <2> QED BY <1>1, <1>2, <1>3, <1>4, <2>1, RecordTyped
<1>5. CASE Go(r, Onward(r)) /\ UNCHANGED transfer
  <2>1. \E q : Takes(r, q)
    BY <1>1, <1>3, <1>5, GoesTo DEF Handling, Staging, Undoing, Completing, Deleting
  <2>2. UNCHANGED <<tables, files, known, created, session>>
    BY <1>2, <1>5 DEF tables
  <2> QED BY <2>1, <2>2, OwnStep
<1> QED BY <1>4, <1>5 DEF Ready

\* FilesDeleted keeps the types.
LEMMA FilesDeletedTyped ==
  ASSUME TypeInv, NEW r \in Requests, FilesDeleted(r) \/ Dropped(r)
  PROVE  TypeInv'
<1>1. request[r].step \in Deleting
  BY DEF FilesDeleted, Dropped, At, Deleting
<1>2. UNCHANGED <<row, blobRow, files, known, created, session>>
  BY DEF FilesDeleted, Dropped
<1>3. \E s \in States, step \in {"drop", "unmark"} : Record(r, s, step)
  BY DEF FilesDeleted, Dropped, States, Rank
<1> QED BY <1>1, <1>2, <1>3, RecordTyped

\* A leased row is a row.
LEMMA TombstonesAreRows ==
  ASSUME NEW rows \in [Assets -> Row], NEW ids
  PROVE  /\ Tombstones(rows, ids) \in [Assets -> Row]
         /\ \A a \in Assets : /\ Tombstones(rows, ids)[a].duplicateOf = rows[a].duplicateOf
                              /\ Tombstones(rows, ids)[a].lifecycle = "none" <=> rows[a].lifecycle = "none"
                              /\ a \notin ids => Tombstones(rows, ids)[a] = rows[a]
                              /\ a \in ids => Tombstones(rows, ids)[a].lifecycle \in {"none", "purging"}
<1> DEFINE dead(a) == [rows[a] EXCEPT !.lifecycle = "purging"]
<1>1. \A a \in Assets : /\ dead(a) \in Row /\ dead(a).lifecycle = "purging"
                        /\ dead(a).duplicateOf = rows[a].duplicateOf
  BY DEF Row, Lifecycles
<1>2. \A a \in Assets : Tombstones(rows, ids)[a] = IF a \in ids /\ rows[a].lifecycle # "none"
                                                   THEN dead(a) ELSE rows[a]
  BY DEF Tombstones
<1>3. Tombstones(rows, ids) = [a \in Assets |-> Tombstones(rows, ids)[a]]
  BY DEF Tombstones
<1> HIDE DEF dead
<1> QED BY <1>1, <1>2, <1>3

\* Lease keeps the types.
LEMMA LeaseTyped ==
  ASSUME TypeInv, NEW r \in Requests, Lease(r)
  PROVE  TypeInv'
<1> DEFINE d == From[Kind(r)]
<1>1. request[r].step \in Deleting /\ request[r].step \in Handling
  BY DEF Lease, At, Deleting, Handling, Completing
<1>2. UNCHANGED <<blobRow, transfer, plain, blobs, staged, known, created, session>>
  BY DEF Lease, files
<1>3. Kind(r) \in {"import", "export"}
  BY <1>1, KindInHand
<1>4. d \in Databases
  BY <1>3 DEF From, Databases
<1>5. row' \in [Databases -> [Assets -> Row]]
  BY <1>4, TombstonesAreRows, TypesOf DEF Lease, Tables
<1>6. Tables' /\ Files'
  BY <1>2, <1>5, TypesOf DEF Tables, Files
<1>7. \E q : Takes(r, q)
  BY <1>1, <1>3, EndStep, EachGoes DEF Lease, Handling, Staging, Undoing, Completing, Deleting
<1> QED BY <1>2, <1>6, <1>7, QuietStep

\* DeleteFile keeps the types.
LEMMA DeleteFileTyped ==
  ASSUME TypeInv, NEW r \in Requests, DeleteFile(r)
  PROVE  TypeInv'
<1>1. request[r].step \in Handling
  BY DEF DeleteFile, At, Deleting, Handling, Completing
<1>2. UNCHANGED <<row, blobRow, transfer, staged, known, created, session>>
  BY DEF DeleteFile, tables
<1>3. plain' \in [Assets -> {"absent", "partial", "whole"}] /\ blobs' \subseteq blobs
  BY TypesOf DEF DeleteFile, Files
<1>4. Tables' /\ Files'
  BY <1>2, <1>3, TypesOf DEF Tables, Files
<1>5. End(r) \/ \E a : Tick(r, a)
  BY DEF DeleteFile
<1>6. \E q : Takes(r, q)
  BY <1>1, <1>5, EndStep, Ticks
<1> QED BY <1>2, <1>4, <1>6, QuietStep

\* The heirs of a row are outside and refer to it.
LEMMA HeirsAreOutside ==
  ASSUME NEW rows, NEW ids, NEW a
  PROVE  /\ Heirs(rows, ids, a) \subseteq Dependents(rows, a) \ ids
         /\ Dependents(rows, a) \subseteq ids => Heirs(rows, ids, a) = {}
BY DEF Heirs

\* Reparenting gives rows.  None comes or goes or becomes a tombstone, and
\* nothing outside refers to a row that goes.
LEMMA ReparentedRows ==
  ASSUME NEW rows \in [Assets -> Row], NEW ids \in SUBSET Assets
  PROVE  /\ Reparented(rows, ids) \in [Assets -> Row]
         /\ \A b \in Assets :
              LET x == Reparented(rows, ids)[b] IN
              /\ x.lifecycle = "none" <=> rows[b].lifecycle = "none"
              /\ x.lifecycle = "purging" => rows[b].lifecycle = "purging"
              /\ b \notin ids => x.duplicateOf \notin ids
<1> DEFINE heirOf == [a \in ids |-> IF Heirs(rows, ids, a) = {} THEN NoAsset
                                    ELSE CHOOSE b \in Heirs(rows, ids, a) : TRUE]
           heir == [NoRow EXCEPT !.lifecycle = "active"]
           moved(b) == [rows[b] EXCEPT !.duplicateOf = heirOf[rows[b].duplicateOf]]
<1>1. ASSUME NEW a \in ids
      PROVE  /\ heirOf[a] = NoAsset \/ heirOf[a] \in Heirs(rows, ids, a)
             /\ heirOf[a] = NoAsset \/ (heirOf[a] \in Assets \ ids /\ rows[heirOf[a]].lifecycle # "none")
  <2>1. Heirs(rows, ids, a) \subseteq {b \in Assets \ ids : rows[b].lifecycle # "none"}
    BY HeirsAreOutside DEF Dependents
  <2>2. heirOf[a] = NoAsset \/ heirOf[a] \in Heirs(rows, ids, a)
    OBVIOUS
  <2> HIDE DEF heirOf
  <2> QED BY <2>1, <2>2
<1>2. heir \in Row /\ heir.lifecycle = "active" /\ heir.duplicateOf = NoAsset
  BY DEF NoRow, Row, Lifecycles
<1> HIDE DEF heirOf
<1>3. NoAsset \notin Assets /\ NoAsset \notin ids
  BY TransferAssumption
<1>4. ASSUME NEW b \in Assets, rows[b].duplicateOf \in ids
      PROVE  /\ moved(b) \in Row /\ moved(b).lifecycle = rows[b].lifecycle
             /\ moved(b).duplicateOf \notin ids
  BY <1>1, <1>3, <1>4 DEF Row
<1>5. Reparented(rows, ids) = [b \in Assets |->
        IF \E a \in ids : heirOf[a] = b THEN heir
        ELSE IF b \notin ids /\ rows[b].duplicateOf \in ids THEN moved(b) ELSE rows[b]]
  BY DEF Reparented, heirOf
<1> HIDE DEF moved, heir
<1> SUFFICES ASSUME NEW b \in Assets
             PROVE  LET x == Reparented(rows, ids)[b] IN
                    /\ x \in Row
                    /\ x.lifecycle = "none" <=> rows[b].lifecycle = "none"
                    /\ x.lifecycle = "purging" => rows[b].lifecycle = "purging"
                    /\ b \notin ids => x.duplicateOf \notin ids
  BY <1>5
<1>6. CASE \E a \in ids : heirOf[a] = b
  BY <1>1, <1>2, <1>3, <1>5, <1>6
<1>7. CASE ~(\E a \in ids : heirOf[a] = b) /\ b \notin ids /\ rows[b].duplicateOf \in ids
  BY <1>4, <1>5, <1>7
<1>8. CASE ~(\E a \in ids : heirOf[a] = b) /\ ~(b \notin ids /\ rows[b].duplicateOf \in ids)
  BY <1>5, <1>8
<1> QED BY <1>6, <1>7, <1>8

\* Of a source that loses ids, the other rows are there still, and what they
\* refer to too.
LEMMA DroppedRows ==
  ASSUME NEW rows \in [Assets -> Row], NEW ids \in SUBSET Assets, NEW new,
         new = [a \in Assets |-> IF a \in ids THEN NoRow ELSE Reparented(rows, ids)[a]]
  PROVE  /\ new \in [Assets -> Row]
         /\ \A a \in ids : new[a] = NoRow
         /\ \A b \in Assets : b \notin ids =>
              /\ new[b].lifecycle = "none" <=> rows[b].lifecycle = "none"
              /\ new[b].lifecycle = "purging" => rows[b].lifecycle = "purging"
         /\ \A b \in Assets : new[b].duplicateOf \notin ids
<1>1. NoRow \in Row /\ NoRow.duplicateOf \notin ids
  BY TransferAssumption DEF NoRow, Row, Lifecycles
<1> HIDE DEF NoRow
<1> QED BY <1>1, ReparentedRows

\* Drop and Dropped keep the types.
LEMMA DropTyped ==
  ASSUME TypeInv, NEW r \in Requests, Drop(r)
  PROVE  TypeInv'
<1> DEFINE d == From[Kind(r)]
           rows == [a \in Assets |-> IF a \in Moving(r) THEN NoRow ELSE Reparented(row[d], Moving(r))[a]]
<1>1. request[r].step \in Deleting /\ request[r].step \in Handling
  BY DEF Drop, At, Deleting, Handling, Completing
<1>2. UNCHANGED <<transfer, plain, blobs, staged, known, created, session>>
  BY DEF Drop, files
<1>3. Kind(r) \in {"import", "export"} /\ Moving(r) \in SUBSET Assets
  BY <1>1, KindInHand, InHand
<1>4. d \in Databases
  BY <1>3 DEF From, Databases
<1>5. rows \in [Assets -> Row]
  <2>1. row[d] \in [Assets -> Row]
    BY <1>4, TypesOf DEF Tables
  <2>2. rows = [a \in Assets |-> IF a \in Moving(r) THEN NoRow ELSE Reparented(row[d], Moving(r))[a]]
    OBVIOUS
  <2> HIDE DEF rows, d
  <2> QED BY <1>3, <2>1, <2>2, DroppedRows
<1>6. UNCHANGED row \/ row' = [row EXCEPT ![d] = rows]
  BY DEF Drop
<1>7. blobRow' \in [Assets -> 0 .. MaxTransfers]
  <2>1. \/ blobRow' = blobRow
        \/ blobRow' = [a \in Assets |-> IF a \in Moving(r) THEN 0 ELSE blobRow[a]]
    BY DEF Drop
  <2>2. blobRow \in [Assets -> 0 .. MaxTransfers] /\ 0 \in 0 .. MaxTransfers
    BY TypesOf DEF Tables
  <2> QED BY <2>1, <2>2
<1> HIDE DEF rows, d
<1>8. row' \in [Databases -> [Assets -> Row]]
  BY <1>4, <1>5, <1>6, TypesOf DEF Tables
<1>9. Tables' /\ Files'
  BY <1>2, <1>7, <1>8, TypesOf DEF Tables, Files
<1>10. \E q : Takes(r, q)
  BY <1>1, <1>3, EndStep, GoesTo DEF Drop, Handling, Staging, Undoing, Completing, Deleting
<1> QED BY <1>2, <1>9, <1>10, QuietStep

\* Unmark keeps the types.
LEMMA UnmarkTyped ==
  ASSUME TypeInv, NEW r \in Requests, Unmark(r)
  PROVE  TypeInv'
<1> DEFINE t == Now(r)
           u == [transfer[t] EXCEPT !.marker = FALSE]
<1>1. request[r].step \in Handling
  BY DEF Unmark, At, Handling, Completing
<1>2. UNCHANGED <<row, blobRow, plain, blobs, staged, known, created, session>>
  BY DEF Unmark, files
<1>3. t \in 1 .. created /\ t \in Transfers /\ transfer[t] \in Transfer
  BY <1>1, InHand, TypesOf
<1>4. u \in Transfer /\ u.kind = transfer[t].kind /\ u.ids = transfer[t].ids
  BY <1>3 DEF Transfer
<1>5. transfer' = [transfer EXCEPT ![t] = u]
  BY DEF Unmark
<1>6. \E q : Takes(r, q)
  BY <1>1, GoesTo DEF Unmark, Handling, Staging, Undoing, Completing, Deleting
<1>7. Tables' /\ Files' /\ known' \subseteq Assets /\ session' \in BOOLEAN /\ created' = created
  BY <1>2, TypesOf DEF Tables, Files
<1> HIDE DEF t, u
<1>8. SameTransfers /\ Begun(transfer', created')
  BY <1>3, <1>4, <1>5, <1>7, OneTransfer
<1> QED BY <1>6, <1>7, <1>8, ThreadTyped

\* Close keeps the types.
LEMMA CloseTyped ==
  ASSUME TypeInv, NEW r \in Requests, Close(r)
  PROVE  TypeInv'
<1>1. request[r].step = "close" /\ request[r].step \in Handling
  BY DEF Close, At, Handling, Completing
<1>2. UNCHANGED <<row, blobRow, plain, blobs, staged, known, created, session>>
  BY DEF Close, files
<1>3. \E q : Takes(r, q)
  BY <1>1, GoesTo, Returns DEF Close, Handling, Staging, Undoing, Completing, Deleting
<1>4. SetState(Now(r), "none") /\ "none" \in States
  BY DEF Close, States, Rank
<1>5. Tables' /\ Files' /\ known' \subseteq Assets /\ session' \in BOOLEAN /\ created' = created
  BY <1>2, TypesOf DEF Tables, Files
<1>6. SameTransfers /\ Begun(transfer', created')
  BY <1>1, <1>4, <1>5, StateTyped
<1> QED BY <1>3, <1>5, <1>6, ThreadTyped

\* Clear keeps the types.
LEMMA ClearTyped ==
  ASSUME TypeInv, NEW r \in Requests, Clear(r)
  PROVE  TypeInv'
<1>1. request[r].step \in Handling
  BY DEF Clear, At, Handling
<1>2. UNCHANGED <<row, blobRow, transfer, plain, blobs, known, created, session>> /\ staged' \subseteq staged
  BY DEF Clear, tables
<1>3. Tables' /\ Files'
  BY <1>2, TypesOf DEF Tables, Files
<1>4. \E q : Takes(r, q)
  BY <1>1, Returns DEF Clear
<1> QED BY <1>2, <1>3, <1>4, QuietStep

\* Every step of a completion keeps the types.
LEMMA CompletesTyped ==
  ASSUME TypeInv, NEW r \in Requests, Completes(r)
  PROVE  TypeInv'
BY CompleteTyped, FinalizeTyped, ValidateTyped, ReadyTyped, LeaseTyped, DeleteFileTyped,
   FilesDeletedTyped, DropTyped, UnmarkTyped, CloseTyped, ClearTyped DEF Completes

-----------------------------------------------------------------------------
(* Requests that begin, the main library, and faults.                      *)

\* A request that is to draw a transfer begins: there is room for it.
LEMMA BeginTyped ==
  ASSUME TypeInv, NEW r \in Requests, NEW q \in Request, Become(r, q),
         MayDraw \/ q.kind = "unlock", q.own = 0, q.todo = {},
         q.kind \in {"unlock", "import", "export"},
         q.step = "list" \/ (q.step = "prepare" /\ q.kind # "unlock"),
         UNCHANGED <<tables, files, known, created, session>>
  PROVE  TypeInv'
<1>1. UNCHANGED <<row, blobRow, transfer, plain, blobs, staged, known, created, session>>
  BY DEF tables, files
<1>2. /\ created \in 0 .. MaxTransfers /\ MaxTransfers \in Nat
      /\ request \in [Requests -> Request]
  BY TypesOf
<1>3. SameTransfers /\ Begun(transfer', created')
  BY <1>1, SameTransfersHold
<1>4. /\ request' \in [Requests -> Request]
      /\ \A s \in Requests : request'[s] = IF s = r THEN q ELSE request[s]
  BY <1>2 DEF Become
<1>5. Sound(q, transfer', created')
  BY <1>1, <1>2 DEF Sound, Handling, Staging, Undoing, Completing, Deleting
<1>6. ThreadsAreSound'
  <2> SUFFICES ASSUME NEW s \in Requests, s # r PROVE Sound(request'[s], transfer', created')
    BY <1>4, <1>5 DEF ThreadsAreSound
  <2>1. Sound(request[s], transfer, created) /\ request[s] \in Request
    BY <1>2 DEF TypeInv, ThreadsAreSound
  <2>2. created' \in 0 .. MaxTransfers
    BY <1>1, <1>2
  <2> QED BY <2>1, <2>2, <1>3, <1>4, SoundStays
<1>7. RoomToDraw'
  <2>1. IsFiniteSet(Undrawn) /\ Cardinality(Undrawn) \in Nat /\ created + Cardinality(Undrawn) <= MaxTransfers
    BY Finite DEF TypeInv, RoomToDraw
  <2>2. CASE q.kind = "unlock"
    <3>1. Undrawn' \in SUBSET Undrawn
      BY <1>4, <2>2 DEF Undrawn, Kinds
    <3>2. Cardinality(Undrawn') <= Cardinality(Undrawn) /\ Cardinality(Undrawn') \in Nat
      BY <2>1, <3>1, FS_Subset, FS_CardinalityType
    <3> QED BY <1>1, <1>2, <2>1, <3>2 DEF RoomToDraw
  <2>3. CASE MayDraw
    <3>1. Undrawn' \in SUBSET (Undrawn \cup {r})
      BY <1>4 DEF Undrawn
    <3>2. /\ IsFiniteSet(Undrawn \cup {r})
          /\ Cardinality(Undrawn \cup {r}) = IF r \in Undrawn THEN Cardinality(Undrawn)
                                             ELSE Cardinality(Undrawn) + 1
      BY <2>1, FS_AddElement
    <3>3. Cardinality(Undrawn') <= Cardinality(Undrawn \cup {r}) /\ Cardinality(Undrawn') \in Nat
      BY <3>1, <3>2, FS_Subset, FS_CardinalityType
    <3>4. created + Cardinality(Undrawn) < MaxTransfers
      BY <2>3 DEF MayDraw
    <3> QED BY <1>1, <1>2, <2>1, <3>2, <3>3, <3>4 DEF RoomToDraw
  <2> QED BY <2>2, <2>3
<1>8. Tables' /\ Files' /\ known' \subseteq Assets /\ session' \in BOOLEAN /\ created' \in 0 .. MaxTransfers
  BY <1>1, TypesOf DEF Tables, Files
<1> QED BY <1>3, <1>4, <1>6, <1>7, <1>8 DEF TypeInv, TypeOK, Tables, Files, Begun

\* The fields of Idle that the provers ask for.
LEMMA IdleFields ==
  /\ Idle.own = 0 /\ Idle.todo = {} /\ Idle.kind = "none" /\ Idle.step = "idle"
BY DEF Idle

\* An unlock that begins keeps the types.
LEMMA BeginUnlockTyped ==
  ASSUME TypeInv, NEW r \in Requests, BeginUnlock(r)
  PROVE  TypeInv'
<1> DEFINE q == [Idle EXCEPT !.step = "list", !.kind = "unlock", !.live = TRUE, !.phase = "open"]
<1>1. Become(r, q) /\ UNCHANGED <<tables, files, known, created, session>>
  BY DEF BeginUnlock
<1>2. Idle \in Request
  BY IdleIsRequest
<1>3. ASSUME NEW p \in Request
      PROVE  LET x == [p EXCEPT !.step = "list", !.kind = "unlock", !.live = TRUE, !.phase = "open"]
             IN x \in Request /\ x.own = p.own /\ x.todo = p.todo /\ x.kind = "unlock" /\ x.step = "list"
  <2>1. "list" \in Steps /\ "open" \in Phases
    BY DEF Steps, Phases
  <2> QED BY <2>1 DEF Request
<1>4. q \in Request /\ q.own = 0 /\ q.todo = {} /\ q.kind = "unlock" /\ q.step = "list"
  BY <1>2, <1>3, IdleFields
<1> HIDE DEF q
<1> QED BY <1>1, <1>4, BeginTyped

\* An import or export that begins keeps the types and the room it will need.
LEMMA BeginMoveTyped ==
  ASSUME TypeInv, NEW r \in Requests, NEW k \in {"import", "export"}, NEW ids \in SUBSET Assets,
         NEW step \in {"list", "prepare"}, BeginMove(r, k, ids, step)
  PROVE  TypeInv'
<1> DEFINE phase == IF step = "list" THEN "import" ELSE "none"
           q == [Idle EXCEPT !.step = step, !.kind = k, !.live = TRUE, !.ids = ids, !.phase = phase]
<1>1. Become(r, q) /\ UNCHANGED <<tables, files, known, created, session>> /\ MayDraw
  BY DEF BeginMove
<1>2. Idle \in Request /\ phase \in Phases
  BY IdleIsRequest DEF Phases
<1> HIDE DEF phase
<1>3. ASSUME NEW p \in Request
      PROVE  LET x == [p EXCEPT !.step = step, !.kind = k, !.live = TRUE, !.ids = ids, !.phase = phase]
             IN x \in Request /\ x.own = p.own /\ x.todo = p.todo /\ x.kind = k /\ x.step = step
  <2>1. step \in Steps /\ k \in Kinds
    BY DEF Steps, Kinds
  <2> QED BY <1>2, <2>1 DEF Request
<1>4. q \in Request /\ q.own = 0 /\ q.todo = {} /\ q.kind = k /\ q.step = step
  BY <1>2, <1>3, IdleFields
<1> HIDE DEF q
<1>5. q.step = "list" \/ (q.step = "prepare" /\ q.kind # "unlock")
  BY <1>4
<1> QED BY <1>1, <1>4, <1>5, BeginTyped

\* A direct upload that begins draws its transfer at once.
LEMMA BeginIngestTyped ==
  ASSUME TypeInv, NEW r \in Requests, NEW a \in Assets, BeginIngest(r, a)
  PROVE  TypeInv'
<1> DEFINE u == [NoTransfer EXCEPT !.kind = "ingest", !.ids = {a}]
           q(n) == [Idle EXCEPT !.step = "stage", !.kind = "ingest", !.live = TRUE, !.ids = {a},
                                !.own = n, !.t = n, !.left = {a}]
<1>1. /\ Become(r, q(created')) /\ MayDraw /\ created' = created + 1
      /\ transfer' = [transfer EXCEPT ![created'] = u]
      /\ known' = known \cup {a}
      /\ UNCHANGED <<row, blobRow, plain, blobs, staged, session>>
  BY DEF BeginIngest, files
<1>2. created \in 0 .. MaxTransfers /\ MaxTransfers \in Nat
  BY TypesOf
<1>3. created + Cardinality(Undrawn \ {r}) < MaxTransfers
  <2>1. /\ Cardinality(Undrawn) \in Nat /\ Cardinality(Undrawn \ {r}) \in Nat
        /\ Cardinality(Undrawn \ {r}) <= Cardinality(Undrawn)
    BY Finite, FS_RemoveElement, FS_CardinalityType, FS_Subset
  <2> QED BY <1>1, <1>2, <2>1 DEF MayDraw
<1>4. created' \in 0 .. MaxTransfers
  <2>1. Cardinality(Undrawn \ {r}) \in Nat
    BY Finite, FS_RemoveElement, FS_CardinalityType
  <2> QED BY <1>1, <1>2, <1>3, <2>1
<1>5. u \in Transfer /\ u.kind = "ingest" /\ u.ids = {a}
  BY DEF NoTransfer, Transfer, Kinds, States, Rank
<1>6. ASSUME NEW p \in Request
      PROVE  LET x == [p EXCEPT !.step = "stage", !.kind = "ingest", !.live = TRUE, !.ids = {a},
                                !.own = created', !.t = created', !.left = {a}]
             IN /\ x \in Request /\ x.own = created' /\ x.t = created' /\ x.todo = p.todo
                /\ x.kind = "ingest" /\ x.step = "stage" /\ x.ids = {a}
  <2>1. "stage" \in Steps /\ "ingest" \in Kinds /\ {a} \in SUBSET Assets
    BY DEF Steps, Kinds
  <2> QED BY <1>4, <2>1 DEF Request
<1> DEFINE p == q(created')
<1>7. /\ p \in Request /\ p.own = created' /\ p.t = created' /\ p.todo = {}
      /\ p.kind = "ingest" /\ p.step = "stage" /\ p.ids = {a}
  BY <1>6, IdleFields, IdleIsRequest
<1>8. Become(r, p)
  BY <1>1
<1>9. Tables' /\ Files' /\ known' \subseteq Assets /\ session' \in BOOLEAN
  BY <1>1, TypesOf DEF Tables, Files
<1> HIDE DEF p, u
<1>10. /\ u.kind # "none" /\ p.kind = u.kind /\ p.ids = u.ids /\ \A x \in p.todo : x[1] <= created
  BY <1>5, <1>7
<1> QED BY <1>1, <1>3, <1>5, <1>7, <1>8, <1>9, <1>10, DrawTyped

\* Every request that begins keeps the types.
LEMMA BeginsTyped ==
  ASSUME TypeInv, NEW r \in Requests, Begins(r)
  PROVE  TypeInv'
<1>1. CASE \E ids \in SUBSET Assets \ {{}} : BeginImport(r, ids)
  BY <1>1, BeginMoveTyped DEF BeginImport
<1>2. CASE \E ids \in SUBSET Assets \ {{}} : BeginExport(r, ids)
  BY <1>2, BeginMoveTyped DEF BeginExport
<1>3. CASE \E a \in Assets : BeginIngest(r, a)
  BY <1>3, BeginIngestTyped
<1> QED BY <1>1, <1>2, <1>3 DEF Begins

\* A step of the main library touches no thread and no transfer.
LEMMA LibraryStep ==
  ASSUME TypeInv, row' \in [Databases -> [Assets -> Row]],
         plain' \in [Assets -> {"absent", "partial", "whole"}], known' \subseteq Assets,
         UNCHANGED <<blobRow, transfer, blobs, staged, created, session, request>>
  PROVE  TypeInv'
<1>1. TypeOK'
  BY DEF TypeInv, TypeOK
<1>2. Undrawn' = Undrawn
  BY DEF Undrawn
<1>3. Begun(transfer', created')
  BY SameTransfersHold
<1>4. ThreadsAreSound' /\ RoomToDraw'
  BY <1>2 DEF TypeInv, ThreadsAreSound, RoomToDraw
<1> QED BY <1>1, <1>3, <1>4 DEF TypeInv

\* The rows and files a step of the main library leaves.
LEMMA LibraryRows ==
  ASSUME TypeInv, Library \/ Purges
  PROVE  /\ UNCHANGED <<blobRow, transfer, blobs, staged, created, session, request>>
         /\ \E a \in Assets, x \in Row, f \in {"absent", "whole"}, ks \in SUBSET Assets :
              /\ row' = [row EXCEPT !["main"] = [row["main"] EXCEPT ![a] = x]]
              /\ plain' = plain \/ plain' = [plain EXCEPT ![a] = f]
              /\ known' = known \cup ks
<1>1. row["main"] \in [Assets -> Row] /\ row \in [Databases -> [Assets -> Row]]
  BY TypesOf DEF Tables, Databases
<1>2. \A a \in Assets : row["main"][a] \in Row
  BY <1>1
<1>3. \A x \in Row : /\ \A s \in Lifecycles : [x EXCEPT !.lifecycle = s] \in Row
                     /\ [x EXCEPT !.lifecycle = "trashed", !.trashed = TRUE] \in Row
  BY DEF Row, Lifecycles
<1>4. CASE \E a \in Assets : Upload(a)
  <2>1. PICK a \in Assets : Upload(a)
    BY <1>4
  <2> DEFINE x == Placed(row["main"], Journaled("main"), a, Fresh)
  <2>2. x \in Row
    BY FreshIsRow, PlacedIsRow
  <2>3. /\ row' = [row EXCEPT !["main"] = [row["main"] EXCEPT ![a] = x]]
        /\ plain' = [plain EXCEPT ![a] = "whole"] /\ known' = known \cup {a}
        /\ UNCHANGED <<blobRow, transfer, blobs, staged, created, session, request>>
    BY <2>1 DEF Upload
  <2> HIDE DEF x
  <2> QED BY <2>2, <2>3
<1>5. CASE \E a \in Assets : Trash("main", a)
  <2>1. PICK a \in Assets : Trash("main", a)
    BY <1>5
  <2> DEFINE x == [row["main"][a] EXCEPT !.lifecycle = "trashed", !.trashed = TRUE]
  <2>2. x \in Row
    BY <1>2, <1>3
  <2>3. /\ row' = [row EXCEPT !["main"] = [row["main"] EXCEPT ![a] = x]]
        /\ plain' = plain /\ known' = known \cup {}
        /\ UNCHANGED <<blobRow, transfer, blobs, staged, created, session, request>>
    BY <2>1 DEF Trash, files
  <2> HIDE DEF x
  <2> QED BY <2>2, <2>3
<1>6. CASE \E a \in Assets : MarkPurging(a)
  <2>1. PICK a \in Assets : MarkPurging(a)
    BY <1>6
  <2> DEFINE x == [row["main"][a] EXCEPT !.lifecycle = "purging"]
  <2>2. x \in Row
    BY <1>2, <1>3 DEF Lifecycles
  <2>3. /\ row' = [row EXCEPT !["main"] = [row["main"] EXCEPT ![a] = x]]
        /\ plain' = plain /\ known' = known \cup {}
        /\ UNCHANGED <<blobRow, transfer, blobs, staged, created, session, request>>
    BY <2>1 DEF MarkPurging, files
  <2> HIDE DEF x
  <2> QED BY <2>2, <2>3
<1>7. CASE \E a \in Assets : PurgeFree(a)
  <2>1. PICK a \in Assets : PurgeFree(a)
    BY <1>7
  <2>2. NoRow \in Row
    BY DEF NoRow, Row, Lifecycles
  <2>3. /\ row' = [row EXCEPT !["main"] = [row["main"] EXCEPT ![a] = NoRow]]
        /\ plain' = [plain EXCEPT ![a] = "absent"] /\ known' = known \cup {}
        /\ UNCHANGED <<blobRow, transfer, blobs, staged, created, session, request>>
    BY <2>1 DEF PurgeFree
  <2> QED BY <2>2, <2>3
<1>8. CASE \E a \in Assets : RestoreBlocked(a)
  <2>1. PICK a \in Assets : RestoreBlocked(a)
    BY <1>8
  <2>2. PICK s \in Lifecycles : row' = [row EXCEPT !["main"] = [row["main"] EXCEPT ![a].lifecycle = s]]
    BY <2>1 DEF RestoreBlocked, Lifecycles
  <2> DEFINE x == [row["main"][a] EXCEPT !.lifecycle = s]
  <2>3. x \in Row
    BY <1>2, <1>3
  <2>4. /\ row' = [row EXCEPT !["main"] = [row["main"] EXCEPT ![a] = x]]
        /\ plain' = plain /\ known' = known \cup {}
        /\ UNCHANGED <<blobRow, transfer, blobs, staged, created, session, request>>
    BY <2>1, <2>2 DEF RestoreBlocked, files
  <2> HIDE DEF x
  <2> QED BY <2>3, <2>4
<1> QED BY <1>4, <1>5, <1>6, <1>7, <1>8 DEF Library, Purges

\* The main library's own handlers keep the types.
LEMMA LibraryTyped ==
  ASSUME TypeInv, Library \/ Purges
  PROVE  TypeInv'
<1>1. UNCHANGED <<blobRow, transfer, blobs, staged, created, session, request>>
  BY LibraryRows
<1>2. PICK a \in Assets, x \in Row, f \in {"absent", "whole"}, ks \in SUBSET Assets :
        /\ row' = [row EXCEPT !["main"] = [row["main"] EXCEPT ![a] = x]]
        /\ plain' = plain \/ plain' = [plain EXCEPT ![a] = f]
        /\ known' = known \cup ks
  BY LibraryRows
<1>3. /\ row \in [Databases -> [Assets -> Row]] /\ row["main"] \in [Assets -> Row]
      /\ plain \in [Assets -> {"absent", "partial", "whole"}] /\ known \subseteq Assets
  BY TypesOf DEF Tables, Files, Databases
<1>4. /\ row' \in [Databases -> [Assets -> Row]] /\ known' \subseteq Assets
  BY <1>2, <1>3
<1>5. plain' \in [Assets -> {"absent", "partial", "whole"}]
  BY <1>2, <1>3
<1> QED BY <1>1, <1>4, <1>5, LibraryStep

\* What trash and restore do: every row is there, or a tombstone, as before.
Relabels ==
  /\ UNCHANGED <<blobRow, transfer, plain, blobs, staged, known, created, session, request>>
  /\ row' \in [Databases -> [Assets -> Row]]
  /\ \A d \in Databases, a \in Assets :
       /\ row'[d][a].lifecycle = "none" <=> row[d][a].lifecycle = "none"
       /\ row'[d][a].lifecycle = "purging" <=> row[d][a].lifecycle = "purging"

\* The rows after an asset was restored: what refers to another row than before
\* refers to the one that is back, and no original is beside it.
LEMMA RestoredRows ==
  ASSUME NEW rows \in [Assets -> Row], NEW a \in Assets, rows[a].lifecycle = "trashed",
         NEW new, new = Restored(rows, a)
  PROVE  /\ new \in [Assets -> Row]
         /\ new[a].lifecycle \in {"active", "duplicate"}
         /\ \A b \in Assets :
              /\ b # a => new[b].lifecycle = rows[b].lifecycle
              /\ new[b].duplicateOf \in {rows[b].duplicateOf, a}
         /\ UniquePrimaries(rows) => UniquePrimaries(new)
<1> DEFINE replaced == IF rows[a].duplicateOf # NoAsset THEN {} ELSE Primaries(rows, {}, a) \ {a}
           back == [rows[a] EXCEPT !.trashed = FALSE,
                      !.lifecycle = IF rows[a].duplicateOf # NoAsset THEN "duplicate" ELSE "active"]
           under(b) == [rows[b] EXCEPT !.duplicateOf = a]
<1>1. /\ back \in Row /\ back.duplicateOf = rows[a].duplicateOf
      /\ back.lifecycle = IF rows[a].duplicateOf # NoAsset THEN "duplicate" ELSE "active"
  BY DEF Row, Lifecycles
<1>2. \A b \in Assets : /\ under(b) \in Row /\ under(b).lifecycle = rows[b].lifecycle
                        /\ under(b).duplicateOf = a
  BY DEF Row
<1>3. new = [b \in Assets |-> IF b = a THEN back
                              ELSE IF b \in replaced \/ rows[b].duplicateOf \in replaced THEN under(b)
                              ELSE rows[b]]
  BY DEF Restored
<1>4. \A b \in Assets : /\ HashOf[b] = HashOf[a] /\ b # a /\ rows[a].duplicateOf = NoAsset
                        /\ rows[b].lifecycle = "active" /\ rows[b].duplicateOf = NoAsset
                        => b \in replaced
  BY DEF Primaries
<1> HIDE DEF back, under, replaced
<1>5. \A b \in Assets : new[b] = IF b = a THEN back
                                  ELSE IF b \in replaced \/ rows[b].duplicateOf \in replaced THEN under(b)
                                  ELSE rows[b]
  BY <1>3
<1>6. new \in [Assets -> Row]
  BY <1>1, <1>2, <1>3
<1>7. /\ new[a].lifecycle \in {"active", "duplicate"}
      /\ \A b \in Assets : /\ b # a => new[b].lifecycle = rows[b].lifecycle
                           /\ new[b].duplicateOf \in {rows[b].duplicateOf, a}
  BY <1>1, <1>2, <1>5
<1>8. ASSUME UniquePrimaries(rows) PROVE UniquePrimaries(new)
  <2> DEFINE P(f, b) == f[b].lifecycle = "active" /\ f[b].duplicateOf = NoAsset
  <2>1. a # NoAsset
    BY TransferAssumption
  <2>2. ASSUME NEW b \in Assets, b # a, P(new, b)
        PROVE  P(rows, b) /\ ~(HashOf[b] = HashOf[a] /\ P(new, a))
    BY <1>1, <1>2, <1>4, <1>5, <2>1, <2>2
  <2> QED BY <1>8, <2>2 DEF UniquePrimaries
<1>9. UniquePrimaries(rows) => UniquePrimaries(new)
  BY <1>8
<1> HIDE DEF UniquePrimaries
<1> QED BY <1>6, <1>7, <1>9

\* The rows of the other database stay.
LEMMA RowsOf ==
  ASSUME TypeInv, NEW d \in Databases, NEW rows, row' = [row EXCEPT ![d] = rows]
  PROVE  row'[d] = rows /\ \A e \in Databases \ {d} : row'[e] = row[e]
BY TypesOf DEF Tables

\* Trash marks one row.
LEMMA TrashedRows ==
  ASSUME TypeInv, NEW d \in Databases, NEW a \in Assets, Trash(d, a)
  PROVE  /\ row' \in [Databases -> [Assets -> Row]]
         /\ \A e \in Databases, b \in Assets :
              /\ e # d \/ b # a => row'[e][b] = row[e][b]
              /\ row'[e][b].duplicateOf = row[e][b].duplicateOf
         /\ row'[d][a].lifecycle = "trashed"
<1> DEFINE p == row[d][a]
           x == [p EXCEPT !.lifecycle = "trashed", !.trashed = TRUE]
<1>1. row \in [Databases -> [Assets -> Row]]
  BY TypesOf DEF Tables
<1>2. x \in Row /\ x.duplicateOf = p.duplicateOf /\ x.lifecycle = "trashed"
  <2>1. p \in Row
    BY <1>1
  <2> HIDE DEF p
  <2> QED BY <2>1 DEF Row, Lifecycles
<1>3. row' = [row EXCEPT ![d] = [row[d] EXCEPT ![a] = x]]
  BY <1>1 DEF Trash
<1> HIDE DEF x
<1> QED BY <1>1, <1>2, <1>3

\* Trash and restore, in either database.
LEMMA RelabelsRows ==
  ASSUME TypeInv, VaultTrash \/ Restores
  PROVE  Relabels
<1>1. row \in [Databases -> [Assets -> Row]]
  BY TypesOf DEF Tables
<1>2. UNCHANGED <<blobRow, transfer, plain, blobs, staged, known, created, session, request>>
  <2>1. ASSUME NEW d \in Databases, NEW a \in Assets, Trash(d, a) \/ Restore(d, a)
        PROVE  UNCHANGED <<blobRow, transfer, plain, blobs, staged, known, created, session, request>>
    BY <2>1 DEF Trash, Restore, files
  <2> QED BY <2>1 DEF VaultTrash, Restores, Databases
<1>3. CASE VaultTrash
  <2>1. PICK a \in Assets : Trash("vault", a)
    BY <1>3 DEF VaultTrash
  <2>2. "vault" \in Databases /\ row["vault"][a].lifecycle \notin {"none", "purging"}
    BY <2>1 DEF Databases, Trash, Gets
  <2> QED BY <1>2, <2>1, <2>2, TrashedRows DEF Relabels
<1>4. CASE Restores
  <2>1. PICK d \in Databases, a \in Assets : Restore(d, a)
    BY <1>4 DEF Restores
  <2>2. row[d] \in [Assets -> Row] /\ row[d][a].lifecycle = "trashed"
        /\ row' = [row EXCEPT ![d] = Restored(row[d], a)]
    BY <1>1, <2>1 DEF Restore
  <2> DEFINE new == Restored(row[d], a)
  <2>3. /\ new \in [Assets -> Row] /\ new[a].lifecycle \in {"active", "duplicate"}
        /\ \A b \in Assets : b # a => new[b].lifecycle = row[d][b].lifecycle
    BY <2>2, RestoredRows
  <2> HIDE DEF new
  <2>4. row'[d] = new /\ \A e \in Databases \ {d} : row'[e] = row[e]
    BY <2>2, RowsOf DEF new
  <2>5. row' \in [Databases -> [Assets -> Row]]
    BY <1>1, <2>2, <2>3 DEF new
  <2> QED BY <1>2, <2>2, <2>3, <2>4, <2>5 DEF Relabels
<1> QED BY <1>3, <1>4

\* ... keep the types.
LEMMA RelabelsTyped == TypeInv /\ Relabels => TypeInv'
BY LibraryStep, TypesOf DEF Relabels, Files

\* A failing statement or file operation keeps the types.
LEMMA StumbleTyped ==
  ASSUME TypeInv, NEW r \in Requests, Stumble(r)
  PROVE  TypeInv'
<1>1. request[r] \in Request
  BY TypesOf
<1>2. UNCHANGED <<row, blobRow, transfer, blobs, staged, known, created, session>>
  BY DEF Stumble, tables
<1>3. plain' \in [Assets -> {"absent", "partial", "whole"}]
  BY TypesOf DEF Stumble, Files
<1>4. Tables' /\ Files'
  BY <1>2, <1>3, TypesOf DEF Tables, Files
<1>5. CASE End(r)
  BY <1>2, <1>4, <1>5, EndStep, QuietStep
<1>6. CASE /\ request[r].step \in {"stage", "write"}
           /\ Become(r, [request[r] EXCEPT !.step = "abort", !.file = NoAsset])
  <2> DEFINE q == [request[r] EXCEPT !.step = "abort", !.file = NoAsset]
  <2>1. /\ q \in Request /\ q.step = "abort" /\ q.own = request[r].own /\ q.kind = request[r].kind
        /\ q.ids = request[r].ids /\ q.t = request[r].t /\ q.todo = request[r].todo
    BY <1>1 DEF Request, Steps
  <2>2. Become(r, q)
    BY <1>6
  <2> HIDE DEF q
  <2>3. Takes(r, q)
    BY <1>6, <2>1, <2>2, GoesOn DEF Handling, Staging, Undoing, Completing, Deleting
  <2> QED BY <1>2, <1>4, <2>3, QuietStep
<1> QED BY <1>5, <1>6 DEF Stumble

\* The invariant holds at first ...
LEMMA InitTyped == Init => TypeInv
<1> SUFFICES ASSUME Init PROVE TypeInv
  OBVIOUS
<1>1. NoRow \in Row /\ NoTransfer \in Transfer /\ NoTransfer.kind = "none"
  BY DEF NoRow, Row, Lifecycles, NoTransfer, Transfer, States, Rank
<1>2. Idle \in Request /\ MaxTransfers \in Nat
  BY <1>1, TransferAssumption DEF Idle, Request, Steps, Phases, States, Rank
<1>3. TypeOK
  <2>1. row \in [Databases -> [Assets -> Row]]
    BY <1>1 DEF Init
  <2>2. /\ plain \in [Assets -> {"absent", "partial", "whole"}]
        /\ blobRow \in [Assets -> 0 .. MaxTransfers]
        /\ transfer \in [Transfers -> Transfer]
        /\ request \in [Requests -> Request]
    BY <1>1, <1>2 DEF Init
  <2>3. created \in 0 .. MaxTransfers
    BY <1>2 DEF Init
  <2>4. session \in BOOLEAN
    BY DEF Init
  <2> QED BY <2>1, <2>2, <2>3, <2>4 DEF Init, TypeOK
<1>4. Begun(transfer, created)
  BY <1>1, <1>2 DEF Init, Begun, Transfers
<1>5. ThreadsAreSound
  <2>1. Sound(Idle, transfer, 0)
    BY <1>2, IdleFields DEF Sound, Handling, Staging, Undoing, Completing, Deleting
  <2> QED BY <2>1 DEF Init, ThreadsAreSound
<1>6. RoomToDraw
  <2>1. Undrawn = {}
    BY IdleFields DEF Init, Undrawn, Kinds
  <2>2. Cardinality({}) = 0
    BY FS_EmptySet
  <2> QED BY <2>1, <2>2, <1>2 DEF Init, RoomToDraw
<1> QED BY <1>3, <1>4, <1>5, <1>6 DEF TypeInv

\* ... and every step keeps it.
LEMMA NextTyped == TypeInv /\ [Next]_vars => TypeInv'
<1> SUFFICES ASSUME TypeInv, [Next]_vars PROVE TypeInv'
  OBVIOUS
<1>1. ASSUME NEW r \in Requests, BeginUnlock(r) \/ Begins(r) \/ Proceed(r) PROVE TypeInv'
  BY <1>1, BeginUnlockTyped, BeginsTyped, ReconcilesTyped, StagesTyped, CompletesTyped DEF Proceed
<1>2. CASE Lock
  BY <1>2, LockTyped
<1>3. CASE Library \/ Purges
  BY <1>3, LibraryTyped
<1>4. CASE Faults
  BY <1>4, CrashTyped, StumbleTyped DEF Faults
<1>6. CASE VaultTrash \/ Restores
  BY <1>6, RelabelsRows, RelabelsTyped
<1>5. CASE UNCHANGED vars
  <2>1. /\ UNCHANGED <<row, known, plain, blobRow, blobs, staged, transfer, created, session, request>>
    BY <1>5 DEF vars
  <2>2. row' \in [Databases -> [Assets -> Row]] /\ known' \subseteq Assets
        /\ plain' \in [Assets -> {"absent", "partial", "whole"}]
    BY <2>1, TypesOf DEF Tables, Files
  <2> QED BY <2>1, <2>2, LibraryStep
<1> QED BY <1>1, <1>2, <1>3, <1>4, <1>5, <1>6 DEF Next

\* Types: rows, journals and what each thread holds.
THEOREM TypeCorrect == Spec => []TypeOK
<1>1. TypeInv => TypeOK
  BY DEF TypeInv
<1> QED BY <1>1, InitTyped, NextTyped, PTL DEF Spec

-----------------------------------------------------------------------------
(* One request at a time.  What a thread has read stays true until it is   *)
(* used, so that the code between two transactions finds what it expects.  *)

\* The invariant gives the properties of the run.
LEMMA BytesAreCopies == HasBytes => AlwaysACopy
BY DEF HasBytes, AlwaysACopy, VaultRowsHaveBytes, MainRowsHaveBytes, Copied, Gets, Exists,
       BlobHere, Databases, Transfers

\* With one thread, its step decides the threads' part.
LEMMA OneThread ==
  ASSUME OneAtATime, NEW r \in Requests, Fine(r)', HasBytes'
  PROVE  CopyInv'
<1>1. \A s \in Requests : s = r
  BY DEF OneAtATime
<1>2. \A s \in Requests : Fine(s)'
  BY <1>1
<1> QED BY <1>2 DEF CopyInv

\* What a thread keeps while it goes from one step to another.
Alike(p, q) == /\ p.t = q.t /\ p.todo = q.todo /\ p.ids = q.ids /\ p.kind = q.kind
               /\ p.own = q.own /\ p.phase = q.phase /\ p.state = q.state

\* The record of a thread after its step.
LEMMA Became ==
  ASSUME TypeInv, NEW r \in Requests, NEW q, Become(r, q)
  PROVE  request'[r] = q
<1>1. request \in [Requests -> Request]
  BY TypesOf
<1> QED BY <1>1 DEF Become

\* Go changes the step,
LEMMA GoFields ==
  ASSUME TypeInv, NEW r \in Requests, NEW s, Go(r, s)
  PROVE  /\ request'[r].step = s /\ Alike(request'[r], request[r])
         /\ request'[r].left = request[r].left /\ request'[r].file = request[r].file
         /\ request'[r].rows = request[r].rows
<1>1. request[r] \in Request
  BY TypesOf
<1>2. request'[r] = [request[r] EXCEPT !.step = s]
  BY Became DEF Go
<1> QED BY <1>1, <1>2 DEF Request, Alike

\* Each begins a loop over the assets,
LEMMA EachFields ==
  ASSUME TypeInv, NEW r \in Requests, NEW s, Each(r, s)
  PROVE  /\ request'[r].step = s /\ Alike(request'[r], request[r])
         /\ request'[r].left = Moving(r) /\ request'[r].file = request[r].file
         /\ request'[r].rows = request[r].rows
<1>1. request[r] \in Request
  BY TypesOf
<1>2. request'[r] = [request[r] EXCEPT !.step = s, !.left = Moving(r)]
  BY Became DEF Each
<1> QED BY <1>1, <1>2 DEF Request, Alike

\* Tick takes one off it,
LEMMA TickFields ==
  ASSUME TypeInv, NEW r \in Requests, NEW a, Tick(r, a)
  PROVE  /\ request'[r].step = request[r].step /\ Alike(request'[r], request[r])
         /\ request'[r].left = request[r].left \ {a} /\ request'[r].file = request[r].file
         /\ request'[r].rows = request[r].rows
<1>1. request[r] \in Request
  BY TypesOf
<1>2. request'[r] = [request[r] EXCEPT !.left = @ \ {a}]
  BY Became DEF Tick
<1> QED BY <1>1, <1>2 DEF Request, Alike

\* and End leaves nothing.
LEMMA EndFields ==
  ASSUME TypeInv, NEW r \in Requests, End(r)
  PROVE  request'[r].step = "idle" /\ request'[r].todo = {}
BY Became, IdleFields DEF End

\* A thread at one of these steps relies on nothing.
Resting == {"idle", "list", "next", "sweep", "issue", "prepare", "complete", "validate"}

\* ... so that its part holds whatever else the step changes.
LEMMA RestingHolds ==
  ASSUME NEW r \in Requests, request'[r].step \in Resting
  PROVE  Holds(request[r])'
BY DEF Holds, Resting, Staging, Undoing, Deleting

\* A thread's list and transfer stand where no journal but its own is touched.
LEMMA StandsOn ==
  ASSUME NEW r \in Requests, Stands(request[r], transfer), request[r].step # "sweeping",
         request'[r].todo \subseteq request[r].todo,
         request'[r].step \in Handling =>
           request[r].step \in Handling /\ request'[r].t = request[r].t,
         request'[r].step \in Handling \ {"clear"} =>
           request[r].step \in Handling \ {"clear"} /\ Alive(transfer', request[r].t),
         \A x \in request[r].todo : Alive(transfer, x[1]) => Alive(transfer', x[1])
  PROVE  Stands(request[r], transfer)'
<1> HIDE DEF Handling, Alive
<1> QED BY DEF Stands

\* ... and where none is.
LEMMA StandsSame ==
  ASSUME NEW r \in Requests, Stands(request[r], transfer), request[r].step # "sweeping",
         transfer' = transfer, request'[r].todo \subseteq request[r].todo,
         request'[r].step \in Handling =>
           request[r].step \in Handling /\ request'[r].t = request[r].t,
         request'[r].step \in Handling \ {"clear"} => request[r].step # "clear"
  PROVE  Stands(request[r], transfer)'
<1> HIDE DEF Handling
<1>1. request'[r].step \in Handling \ {"clear"} => Alive(transfer', request[r].t)
  BY DEF Stands
<1> HIDE DEF Alive
<1> QED BY <1>1, StandsOn

\* A thread that ended.
LEMMA Ended ==
  ASSUME TypeInv, NEW r \in Requests, End(r)
  PROVE  Fine(r)'
<1>1. request'[r].step = "idle" /\ request'[r].todo = {}
  BY EndFields
<1>2. "idle" \notin Handling
  BY DEF Handling, Staging, Undoing, Completing, Deleting
<1>3. Stands(request[r], transfer)'
  BY <1>1, <1>2 DEF Stands
<1> QED BY <1>1, <1>3, RestingHolds DEF Fine, Resting

\* A step that touches neither tables nor files.
LEMMA NothingMoved ==
  ASSUME HasBytes, UNCHANGED <<tables, files>>
  PROVE  HasBytes'
<1>1. UNCHANGED <<row, blobRow, transfer, plain, blobs, staged>>
  BY DEF tables, files
<1> QED BY <1>1 DEF HasBytes, VaultRowsHaveBytes, MainRowsHaveBytes, Copied, Gets, Exists

\* A step that changes no table and no file is the thread's own.
LEMMA QuietKeeps ==
  ASSUME OneAtATime, CopyInv, NEW r \in Requests, Fine(r)', UNCHANGED <<tables, files>>
  PROVE  CopyInv'
BY NothingMoved, OneThread DEF CopyInv

\* List: what a journal or a marker names is alive.
LEMMA ListKeeps ==
  ASSUME OneAtATime, TypeInv, CopyInv, NEW r \in Requests, List(r)
  PROVE  CopyInv'
<1> DEFINE q == [request[r] EXCEPT !.step = "next", !.todo = Listed(request[r].phase)]
<1>1. request[r] \in Request /\ Become(r, q) /\ UNCHANGED <<tables, files>>
  BY TypesOf DEF List
<1>2. request'[r].step = "next" /\ request'[r].todo = Listed(request[r].phase)
  <2>1. q.step = "next" /\ q.todo = Listed(request[r].phase)
    BY <1>1 DEF Request
  <2>2. request'[r] = q
    BY <1>1, Became
  <2> QED BY <2>1, <2>2
<1>3. "next" \notin Handling
  BY DEF Handling, Staging, Undoing, Completing, Deleting
<1>4. \A x \in Listed(request[r].phase) :
        x[1] \in Transfers /\ x[2] = transfer[x[1]].state /\ x = <<x[1], x[2]>> /\ Alive(transfer, x[1])
  BY DEF Listed, Journals, Markers, Alive
<1>5. \A x, y \in Listed(request[r].phase) : x[1] = y[1] => x = y
  BY <1>4
<1>6. transfer' = transfer
  BY <1>1 DEF tables
<1>7. Stands(request[r], transfer)'
  <2> HIDE DEF Alive
  <2> QED BY <1>2, <1>3, <1>4, <1>5, <1>6 DEF Stands
<1> QED BY <1>1, <1>2, <1>7, RestingHolds, QuietKeeps DEF Resting, Fine

\* TakeNext: what is taken is met no more, and without a marker it is undone.
LEMMA TakeNextKeeps ==
  ASSUME OneAtATime, TypeInv, CopyInv, NEW r \in Requests, TakeNext(r)
  PROVE  CopyInv'
<1> DEFINE next(x) == IF transfer[x[1]].marker \/ transfer[x[1]].kind = "ingest"
                      THEN "complete" ELSE "undo"
           q(x) == [request[r] EXCEPT !.todo = @ \ {x}, !.t = x[1], !.state = x[2],
                                      !.left = transfer[x[1]].ids, !.step = next(x)]
<1>1. PICK x \in request[r].todo : Become(r, q(x))
  BY DEF TakeNext
<1>2. /\ request[r] \in Request /\ request[r].step = "next"
      /\ UNCHANGED <<tables, files>> /\ Stands(request[r], transfer)
  BY TypesOf DEF TakeNext, At, CopyInv, Fine
<1>3. /\ request'[r].step = next(x) /\ request'[r].todo = request[r].todo \ {x}
      /\ request'[r].t = x[1]
  <2>1. q(x).step = next(x) /\ q(x).todo = request[r].todo \ {x} /\ q(x).t = x[1]
    <3> HIDE DEF next
    <3> QED BY <1>2 DEF Request
  <2>2. request'[r] = q(x)
    BY <1>1, Became
  <2> QED BY <2>1, <2>2
<1>4. /\ Alive(transfer, x[1])
      /\ \A y \in request[r].todo \ {x} : y[1] # x[1] /\ Alive(transfer, y[1])
      /\ \A y, z \in request[r].todo : y[1] = z[1] => y = z
  <2> HIDE DEF Alive
  <2> QED BY <1>2 DEF Stands
<1>5. transfer' = transfer
  BY <1>2 DEF tables
<1>6. next(x) \in {"complete", "undo"} /\ (next(x) = "undo" => ~transfer[x[1]].marker)
  OBVIOUS
<1> HIDE DEF next, q
<1>7. Stands(request[r], transfer)'
  <2> HIDE DEF Alive
  <2> QED BY <1>3, <1>4, <1>5 DEF Stands
<1>8. Holds(request[r])'
  <2>1. CASE next(x) = "complete"
    BY <2>1, <1>3, RestingHolds DEF Resting
  <2>2. CASE next(x) = "undo"
    BY <2>2, <1>3, <1>5, <1>6 DEF Holds, Staging, Undoing, Deleting
  <2> QED BY <1>6, <2>1, <2>2
<1> QED BY <1>2, <1>7, <1>8, QuietKeeps DEF Fine

\* NextList goes on with an empty list.
LEMMA NextListKeeps ==
  ASSUME OneAtATime, TypeInv, CopyInv, NEW r \in Requests, NextList(r)
  PROVE  CopyInv'
<1> DEFINE q(step, phase) == [request[r] EXCEPT !.step = step, !.phase = phase]
<1>1. PICK step \in {"sweep", "list", "issue", "prepare"}, phase \in Phases : Become(r, q(step, phase))
  BY DEF NextList
<1>2. /\ request[r] \in Request /\ request[r].todo = {} /\ UNCHANGED <<tables, files>>
  BY TypesOf DEF NextList
<1>3. request'[r].step = step /\ request'[r].todo = {}
  <2>1. q(step, phase).step = step /\ q(step, phase).todo = {}
    BY <1>2 DEF Request
  <2>2. request'[r] = q(step, phase)
    BY <1>1, Became
  <2> QED BY <2>1, <2>2
<1>4. request'[r].step \in Resting /\ step \notin Handling
  BY <1>3 DEF Resting, Handling, Staging, Undoing, Completing, Deleting
<1>5. Stands(request[r], transfer)'
  BY <1>3, <1>4 DEF Stands
<1> QED BY <1>2, <1>4, <1>5, RestingHolds, QuietKeeps DEF Fine

\* Sweep lists every transfer whose marker keeps its staging directory.
LEMMA SweepKeeps ==
  ASSUME OneAtATime, TypeInv, CopyInv, NEW r \in Requests, Sweep(r)
  PROVE  CopyInv'
<1> DEFINE named == {<<t, "none">> : t \in Markers("import") \cup Markers("ingest")
                                            \cup Journals("export")}
           q == [request[r] EXCEPT !.step = "sweeping", !.todo = named]
<1>1. request[r] \in Request /\ Become(r, q) /\ UNCHANGED <<tables, files>>
  BY TypesOf DEF Sweep
<1>2. request'[r].step = "sweeping" /\ request'[r].todo = named
  <2>1. q.step = "sweeping" /\ q.todo = named
    BY <1>1 DEF Request
  <2>2. request'[r] = q
    BY <1>1, Became
  <2> QED BY <2>1, <2>2
<1>3. transfer' = transfer
  BY <1>1 DEF tables
<1>4. "sweeping" \notin Handling
  BY DEF Handling, Staging, Undoing, Completing, Deleting
<1>5. Stands(request[r], transfer)'
  BY <1>2, <1>4 DEF Stands
<1>6. \A t \in Markers("import") \cup Markers("ingest") : <<t, "none">> \in named
  OBVIOUS
<1>7. Markers("import")' = Markers("import") /\ Markers("ingest")' = Markers("ingest")
  BY <1>3 DEF Markers
<1> HIDE DEF named
<1>8. Holds(request[r])'
  BY <1>2, <1>6, <1>7 DEF Holds, Staging, Undoing, Deleting
<1> QED BY <1>1, <1>5, <1>8, QuietKeeps DEF Fine

\* Staged files of a transfer go: no row of the vault relied on them.
LEMMA StagedGoes ==
  ASSUME CopyInv, UNCHANGED <<tables, plain, blobs>>, staged' \subseteq staged,
         \A a \in Assets, t \in Transfers :
           /\ Gets("vault", a) /\ blobRow[a] = t /\ a \in transfer[t].ids
           /\ transfer[t].kind \in {"import", "ingest"} /\ transfer[t].marker
           /\ <<t, a>> \in staged \ staged'
           => <<t, a>> \in blobs
  PROVE  HasBytes'
<1>1. UNCHANGED <<row, blobRow, transfer, plain, blobs>>
  BY DEF tables
<1>2. MainRowsHaveBytes'
  BY <1>1 DEF CopyInv, HasBytes, MainRowsHaveBytes, Gets, Exists
<1>3. VaultRowsHaveBytes'
  BY <1>1 DEF CopyInv, HasBytes, VaultRowsHaveBytes, Copied, Gets
<1> QED BY <1>2, <1>3 DEF HasBytes

\* Sweeping: a marked transfer is on the list.
LEMMA SweepingKeeps ==
  ASSUME OneAtATime, TypeInv, CopyInv, NEW r \in Requests, Sweeping(r)
  PROVE  CopyInv'
<1> DEFINE q == [request[r] EXCEPT !.step = "list", !.todo = {}]
<1>1. /\ request[r] \in Request /\ request[r].step = "sweeping" /\ Become(r, q)
      /\ UNCHANGED <<tables, plain, blobs>> /\ Holds(request[r])
      /\ staged' = {x \in staged : <<x[1], "none">> \in request[r].todo}
  BY TypesOf DEF Sweeping, At, CopyInv, Fine
<1>2. request'[r].step = "list" /\ request'[r].todo = {}
  <2>1. q.step = "list" /\ q.todo = {}
    BY <1>1 DEF Request
  <2>2. request'[r] = q
    BY <1>1, Became
  <2> QED BY <2>1, <2>2
<1>3. "list" \notin Handling /\ "list" \in Resting
  BY DEF Handling, Staging, Undoing, Completing, Deleting, Resting
<1>4. Stands(request[r], transfer)'
  BY <1>2, <1>3 DEF Stands
<1>5. \A t \in Markers("import") \cup Markers("ingest") : <<t, "none">> \in request[r].todo
  BY <1>1 DEF Holds
<1>6. \A a \in Assets, t \in Transfers :
        transfer[t].kind \in {"import", "ingest"} /\ transfer[t].marker /\ <<t, a>> \in staged
        => <<t, a>> \in staged'
  BY <1>1, <1>5 DEF Markers
<1>7. staged' \subseteq staged
  BY <1>1
<1> QED BY <1>1, <1>2, <1>3, <1>4, <1>6, <1>7, RestingHolds, StagedGoes, OneThread DEF Fine

\* The end of a session leaves every thread what it holds, or ends it.
LEMMA RevokedKeeps ==
  ASSUME TypeInv, CopyInv, UNCHANGED <<tables, files>>,
         \A s \in Requests : \/ request'[s] \in {request[s], Idle}
                             \/ request'[s] = [request[s] EXCEPT !.live = FALSE]
  PROVE  CopyInv'
<1>1. UNCHANGED <<row, blobRow, transfer, plain, blobs, staged>>
  BY DEF tables, files
<1>2. ASSUME NEW s \in Requests PROVE Fine(s)'
  <2>1. request[s] \in Request /\ Stands(request[s], transfer) /\ Holds(request[s])
    BY TypesOf DEF CopyInv, Fine
  <2>2. CASE request'[s] = Idle
    <3>1. request'[s].step = "idle" /\ request'[s].todo = {} /\ "idle" \notin Handling
      BY <2>2, IdleFields DEF Handling, Staging, Undoing, Completing, Deleting
    <3>2. Stands(request[s], transfer)'
      BY <3>1 DEF Stands
    <3> QED BY <3>1, <3>2, RestingHolds DEF Fine, Resting
  <2>3. CASE request'[s] = request[s] \/ request'[s] = [request[s] EXCEPT !.live = FALSE]
    <3>1. LET p == request'[s] q == request[s] IN
            p.step = q.step /\ p.t = q.t /\ p.todo = q.todo /\ p.ids = q.ids /\ p.kind = q.kind
            /\ p.left = q.left /\ p.file = q.file
      BY <2>1, <2>3 DEF Request
    <3>2. Stands(request[s], transfer)'
      <4> HIDE DEF Alive, Handling
      <4> QED BY <2>1, <3>1, <1>1 DEF Stands
    <3>3. /\ \A a \in Assets : BlobHere(a)' = BlobHere(a)
          /\ \A d, a : Gets(d, a)' = Gets(d, a) /\ Exists(d, a)' = Exists(d, a)
          /\ \A k : Markers(k)' = Markers(k)
      BY <1>1 DEF BlobHere, Gets, Exists, Markers
    <3>4. Holds(request[s])'
      <4> HIDE DEF Staging, Undoing, Deleting
      <4> QED BY <2>1, <3>1, <1>1 DEF Holds, BlobHere, Gets, Exists, Markers
    <3> QED BY <3>2, <3>4 DEF Fine
  <2> QED BY <2>2, <2>3
<1> QED BY <1>2, NothingMoved DEF CopyInv

\* Issue, Lock and Crash move nothing.
LEMMA IssueKeeps ==
  ASSUME OneAtATime, TypeInv, CopyInv, NEW r \in Requests, Issue(r)
  PROVE  CopyInv'
<1>1. Idle \in Request
  BY IdleIsRequest
<1>2. request \in [Requests -> Request] /\ request' = Revoked([request EXCEPT ![r] = Idle])
  BY TypesOf DEF Issue
<1> DEFINE old == [request EXCEPT ![r] = Idle]
<1>3. \A s \in Requests : s = r /\ old[s] = Idle
  BY <1>2 DEF OneAtATime
<1>4. [Idle EXCEPT !.live = FALSE] = Idle
  <2>1. \A q \in Request : q.live = FALSE => [q EXCEPT !.live = FALSE] = q
    BY DEF Request
  <2>2. Idle.live = FALSE
    BY DEF Idle
  <2> QED BY <1>1, <2>1, <2>2
<1>5. \A s \in Requests : request'[s] = IF old[s].kind = "unlock" THEN old[s]
                                        ELSE [old[s] EXCEPT !.live = FALSE]
  <2> HIDE DEF old
  <2> QED BY <1>2 DEF Revoked, old
<1> HIDE DEF old
<1>6. \A s \in Requests : request'[s] = Idle
  BY <1>3, <1>4, <1>5
<1>7. UNCHANGED <<tables, files>>
  BY DEF Issue
<1> QED BY <1>6, <1>7, RevokedKeeps

\* Lock: only the session goes.
LEMMA LockKeeps == TypeInv /\ CopyInv /\ Lock => CopyInv'
<1> SUFFICES ASSUME TypeInv, CopyInv, Lock PROVE CopyInv'
  OBVIOUS
<1>1. UNCHANGED <<tables, files>> /\ request' = Revoked(request)
  BY DEF Lock
<1>2. \A s \in Requests : \/ request'[s] \in {request[s], Idle}
                          \/ request'[s] = [request[s] EXCEPT !.live = FALSE]
  BY <1>1 DEF Revoked
<1> QED BY <1>1, <1>2, RevokedKeeps

\* Crash: the threads are idle, the tables and files stay.
LEMMA CrashKeeps == TypeInv /\ CopyInv /\ Crash => CopyInv'
<1> SUFFICES ASSUME TypeInv, CopyInv, Crash PROVE CopyInv'
  OBVIOUS
<1>1. UNCHANGED <<tables, files>> /\ \A s \in Requests : request'[s] = Idle
  BY DEF Crash
<1> QED BY <1>1, RevokedKeeps

-----------------------------------------------------------------------------
(* A transfer without its marker is taken back.                            *)

\* A transfer's state changes: everything else of it stays.
LEMMA StateSetKeeps ==
  ASSUME TypeInv, CopyInv, NEW r \in Requests, request[r].step \in Handling,
         NEW s \in States, SetState(Now(r), s), s = "none" \/ transfer[Now(r)].state # "none",
         UNCHANGED <<row, blobRow, plain, blobs, staged>>
  PROVE  /\ HasBytes'
         /\ transfer'[Now(r)].state = s
         /\ \A t \in Transfers : /\ transfer'[t].kind = transfer[t].kind
                                 /\ transfer'[t].ids = transfer[t].ids
                                 /\ transfer'[t].marker = transfer[t].marker
         /\ \A x \in request[r].todo : Alive(transfer, x[1]) => Alive(transfer', x[1])
<1>1. transfer \in [Transfers -> Transfer] /\ Now(r) \in Transfers /\ Now(r) \in 1 .. created
  BY InHand, TypesOf
<1>2. transfer' = [transfer EXCEPT ![Now(r)] = [transfer[Now(r)] EXCEPT !.state = s]]
  BY <1>1 DEF SetState, Transfer
<1>3. \A t \in Transfers : /\ transfer'[t].kind = transfer[t].kind
                           /\ transfer'[t].ids = transfer[t].ids
                           /\ transfer'[t].marker = transfer[t].marker
                           /\ transfer'[t].state = IF t = Now(r) THEN s ELSE transfer[t].state
  BY <1>1, <1>2 DEF Transfer
<1>4. HasBytes'
  BY <1>3 DEF CopyInv, HasBytes, VaultRowsHaveBytes, MainRowsHaveBytes, Copied, Gets, Exists
<1>5. \A x \in request[r].todo : Alive(transfer, x[1]) => Alive(transfer', x[1])
  <2>1. "sweeping" \notin Handling
    BY DEF Handling, Staging, Undoing, Completing, Deleting
  <2>2. \A x \in request[r].todo : x[1] \in Transfers /\ x[1] # Now(r)
    BY <2>1, TypesOf DEF CopyInv, Fine, Stands, Request, Now
  <2> QED BY <1>3, <2>2 DEF Alive
<1> QED BY <1>1, <1>3, <1>4, <1>5

\* A thread that is done with a transfer goes on with its list.
LEMMA ReturnFine ==
  ASSUME TypeInv, CopyInv, NEW r \in Requests, request[r].step \in Handling, Return(r),
         \A x \in request[r].todo : Alive(transfer, x[1]) => Alive(transfer', x[1])
  PROVE  Fine(r)'
<1>1. CASE End(r)
  BY <1>1, Ended
<1>2. CASE Go(r, "next")
  <2>1. request'[r].step = "next" /\ request'[r].todo = request[r].todo
    BY <1>2, GoFields DEF Alike
  <2>2. "next" \notin Handling /\ "sweeping" \notin Handling
    BY DEF Handling, Staging, Undoing, Completing, Deleting
  <2>3. Stands(request[r], transfer)
    BY DEF CopyInv, Fine
  <2>4. Stands(request[r], transfer)'
    <3> HIDE DEF Handling, Alive
    <3> QED BY <2>1, <2>2, <2>3, StandsOn
  <2> QED BY <2>1, <2>4, RestingHolds DEF Fine, Resting
<1> QED BY <1>1, <1>2 DEF Return

\* UndoImport: an import without its marker has no row.
LEMMA UndoImportKeeps ==
  ASSUME OneAtATime, TypeInv, CopyInv, NEW r \in Requests, UndoImport(r)
  PROVE  CopyInv'
<1>1. /\ request[r].step = "undo" /\ Go(r, "forget") /\ UNCHANGED <<tables, plain, blobs>>
      /\ staged' = staged \ StagedBy(Now(r))
      /\ Stands(request[r], transfer) /\ Holds(request[r])
  BY DEF UndoImport, At, CopyInv, Fine
<1>2. ~transfer[Now(r)].marker
  BY <1>1 DEF Holds, Undoing, Now
<1>3. request'[r].step = "forget" /\ Alike(request'[r], request[r]) /\ transfer' = transfer
  BY <1>1, GoFields DEF tables
<1>4. "undo" \in Handling \ {"clear"} /\ "forget" \in Handling
  BY DEF Handling, Undoing
<1>5. Stands(request[r], transfer)'
  BY <1>1, <1>3, <1>4, StandsSame DEF Alike
<1>6. Holds(request[r])'
  BY <1>2, <1>3 DEF Holds, Staging, Undoing, Deleting, Alike, Now
<1>7. HasBytes'
  <2>1. staged' \subseteq staged /\ \A t, a : <<t, a>> \in staged \ staged' => t = Now(r)
    BY <1>1 DEF StagedBy
  <2> QED BY <1>1, <1>2, <2>1, StagedGoes
<1> QED BY <1>5, <1>6, <1>7, OneThread DEF Fine

\* RollbackLook: only what the vault still has loses its file.
LEMMA RollbackLookKeeps ==
  ASSUME OneAtATime, TypeInv, CopyInv, NEW r \in Requests, RollbackLook(r)
  PROVE  CopyInv'
<1>1. /\ request[r].step = "undo" /\ request[r] \in Request /\ UNCHANGED <<tables, files>>
      /\ Stands(request[r], transfer) /\ Holds(request[r])
  BY TypesOf DEF RollbackLook, At, CopyInv, Fine
<1>2. UNCHANGED <<row, transfer>>
  BY <1>1 DEF tables
<1>3. ~transfer[Now(r)].marker
  BY <1>1 DEF Holds, Undoing, Now
<1>4. {"undo", "forget", "unlink"} \subseteq Handling \ {"clear"}
  BY DEF Handling, Undoing
<1>5. CASE End(r)
  BY <1>1, <1>5, Ended, QuietKeeps
<1>6. ASSUME Alike(request'[r], request[r]), request'[r].step \in {"undo", "forget", "unlink"},
             request'[r].step = "unlink" => Gets("vault", request'[r].file)
      PROVE  CopyInv'
  <2>1. Stands(request[r], transfer)'
    BY <1>1, <1>2, <1>4, <1>6, StandsSame DEF Alike
  <2>2. Holds(request[r])'
    BY <1>2, <1>3, <1>6 DEF Holds, Staging, Undoing, Deleting, Alike, Now, Gets
  <2> QED BY <1>1, <2>1, <2>2, QuietKeeps DEF Fine
<1>7. CASE Go(r, "forget")
  BY <1>6, <1>7, GoFields
<1>8. CASE \E a \in request[r].left : Tick(r, a)
  BY <1>1, <1>6, <1>8, TickFields
<1>9. CASE \E a \in request[r].left :
              /\ Gets("vault", a)
              /\ Become(r, [request[r] EXCEPT !.step = "unlink", !.file = a])
  <2>1. PICK a \in request[r].left :
              /\ Gets("vault", a)
              /\ Become(r, [request[r] EXCEPT !.step = "unlink", !.file = a])
    BY <1>9
  <2>2. request'[r] = [request[r] EXCEPT !.step = "unlink", !.file = a]
    BY <2>1, Became
  <2>3. request'[r].step = "unlink" /\ request'[r].file = a /\ Alike(request'[r], request[r])
    BY <1>1, <2>2 DEF Request, Alike
  <2> QED BY <1>6, <2>1, <2>3
<1> QED BY <1>5, <1>7, <1>8, <1>9 DEF RollbackLook

\* A file of the main library changes: what loses its bytes is in the vault.
LEMMA PlainChanges ==
  ASSUME CopyInv, UNCHANGED <<tables, blobs, staged>>,
         \A a \in Assets : plain'[a] # "whole" => plain[a] # "whole" \/ ~Exists("main", a) \/ Gets("vault", a)
  PROVE  HasBytes'
<1>1. UNCHANGED <<row, blobRow, transfer, blobs, staged>>
  BY DEF tables
<1> QED BY <1>1 DEF CopyInv, HasBytes, VaultRowsHaveBytes, MainRowsHaveBytes, Copied, Gets, Exists

\* Unlink: the vault has the asset.
LEMMA UnlinkKeeps ==
  ASSUME OneAtATime, TypeInv, CopyInv, NEW r \in Requests, Unlink(r)
  PROVE  CopyInv'
<1> DEFINE a == request[r].file
           q == [request[r] EXCEPT !.step = "undo", !.left = @ \ {a}, !.file = NoAsset]
<1>1. /\ request[r].step = "unlink" /\ request[r] \in Request /\ UNCHANGED <<tables, blobs, staged>>
      /\ plain' = [plain EXCEPT ![a] = IF @ = "whole" THEN "absent" ELSE @]
      /\ Become(r, q) /\ Stands(request[r], transfer) /\ Holds(request[r])
  BY TypesOf DEF Unlink, At, CopyInv, Fine
<1>2. Gets("vault", a) /\ ~transfer[Now(r)].marker
  BY <1>1 DEF Holds, Undoing, Now
<1>3. request'[r].step = "undo" /\ Alike(request'[r], request[r]) /\ transfer' = transfer
  <2>1. q.step = "undo" /\ Alike(q, request[r])
    BY <1>1 DEF Request, Alike
  <2>2. request'[r] = q
    BY <1>1, Became
  <2>3. transfer' = transfer
    BY <1>1 DEF tables
  <2> QED BY <2>1, <2>2, <2>3
<1>4. {"undo", "unlink"} \subseteq Handling \ {"clear"}
  BY DEF Handling, Undoing
<1>5. Stands(request[r], transfer)'
  BY <1>1, <1>3, <1>4, StandsSame DEF Alike
<1>6. Holds(request[r])'
  BY <1>2, <1>3 DEF Holds, Staging, Undoing, Deleting, Alike, Now
<1>7. \A b \in Assets : plain'[b] = plain[b] \/ b = a
  BY <1>1, TypesOf DEF Files
<1>8. HasBytes'
  <2> HIDE DEF a
  <2> QED BY <1>1, <1>2, <1>7, PlainChanges
<1> QED BY <1>5, <1>6, <1>8, OneThread DEF Fine

\* Forget: the journal goes last, when nothing needs it.
LEMMA ForgetKeeps ==
  ASSUME OneAtATime, TypeInv, CopyInv, NEW r \in Requests, Forget(r)
  PROVE  CopyInv'
<1>1. /\ request[r].step \in Handling /\ SetState(Now(r), "none") /\ Return(r) /\ "none" \in States
      /\ UNCHANGED <<row, blobRow, plain, blobs, staged>>
  BY DEF Forget, At, files, Handling, Undoing, States, Rank
<1> QED BY <1>1, StateSetKeeps, ReturnFine, OneThread

\* Every step of reconciliation.
LEMMA ReconcilesKeeps ==
  ASSUME OneAtATime, TypeInv, CopyInv, NEW r \in Requests, Reconciles(r)
  PROVE  CopyInv'
BY ListKeeps, TakeNextKeeps, NextListKeeps, SweepKeeps, SweepingKeeps, IssueKeeps, UndoImportKeeps,
   RollbackLookKeeps, UnlinkKeeps, ForgetKeeps DEF Reconciles

-----------------------------------------------------------------------------
(* A transfer up to the commit in the destination.                         *)

\* Prepare: an export reads rows that the vault has.
LEMMA PrepareKeeps ==
  ASSUME OneAtATime, TypeInv, CopyInv, NEW r \in Requests, Prepare(r)
  PROVE  CopyInv'
<1> DEFINE rows == [a \in Assets |-> IF a \in request[r].ids THEN row[From[request[r].kind]][a]
                                     ELSE NoRow]
<1>1. /\ request[r].step = "prepare" /\ request[r] \in Request /\ UNCHANGED <<tables, files>>
      /\ Stands(request[r], transfer)
  BY TypesOf DEF Prepare, At, CopyInv, Fine
<1>2. CASE End(r)
  BY <1>1, <1>2, Ended, QuietKeeps
<1>3. CASE Prepared(r) /\ Become(r, [request[r] EXCEPT !.step = "open", !.rows = rows])
  <2>1. request'[r] = [request[r] EXCEPT !.step = "open", !.rows = rows]
    BY <1>3, Became
  <2>2. request'[r].step = "open" /\ Alike(request'[r], request[r])
    <3> HIDE DEF rows
    <3> QED BY <1>1, <2>1 DEF Request, Alike
  <2>3. UNCHANGED <<row, transfer>>
    BY <1>1 DEF tables
  <2>4. "open" \notin Handling /\ "prepare" # "sweeping"
    BY DEF Handling, Staging, Undoing, Completing, Deleting
  <2>5. Stands(request[r], transfer)'
    BY <1>1, <2>2, <2>3, <2>4, StandsSame DEF Alike
  <2>6. request[r].kind = "export" => \A a \in request[r].ids : Gets("vault", a)
    BY <1>3 DEF Prepared, From
  <2>7. Holds(request[r])'
    BY <2>2, <2>3, <2>6 DEF Holds, Staging, Undoing, Deleting, Alike, Gets
  <2> QED BY <1>1, <2>5, <2>7, QuietKeeps DEF Fine
<1> QED BY <1>2, <1>3 DEF Prepare

\* A transfer is begun: no row of the vault names it yet.
LEMMA NewTransfer ==
  ASSUME TypeInv, TypeInv', CopyInv, NEW u \in Transfer, created' = created + 1,
         transfer' = [transfer EXCEPT ![created'] = u], u.kind # "none", ~u.marker,
         UNCHANGED <<row, blobRow, plain, blobs, staged>>
  PROVE  /\ HasBytes'
         /\ created' \in Transfers /\ transfer'[created'] = u
         /\ \A t \in Transfers \ {created'} : transfer'[t] = transfer[t]
<1>1. /\ transfer \in [Transfers -> Transfer] /\ created \in 0 .. MaxTransfers
      /\ created' \in 0 .. MaxTransfers /\ MaxTransfers \in Nat
  BY TypesOf DEF TypeInv, TypeOK
<1>2. created' \in Transfers
  BY <1>1 DEF Transfers
<1>3. transfer'[created'] = u /\ \A t \in Transfers \ {created'} : transfer'[t] = transfer[t]
  BY <1>1, <1>2
<1>4. transfer[created'] = NoTransfer
  <2>1. ~ (created' <= created)
    BY <1>1
  <2> QED BY <1>2, <2>1 DEF TypeInv, Begun
<1>5. \A a \in Assets : Copied(a) => Copied(a)'
  <2> SUFFICES ASSUME NEW a \in Assets, Copied(a) PROVE Copied(a)'
    OBVIOUS
  <2>1. blobRow[a] \in Transfers /\ blobRow[a] # created'
    BY <1>4 DEF Copied, NoTransfer
  <2>2. transfer'[blobRow[a]] = transfer[blobRow[a]]
    BY <1>3, <2>1
  <2> QED BY <2>2 DEF Copied
<1>6. HasBytes'
  <2> HIDE DEF Copied
  <2> QED BY <1>5 DEF CopyInv, HasBytes, VaultRowsHaveBytes, MainRowsHaveBytes, Gets, Exists
<1> QED BY <1>2, <1>3, <1>6

\* What is listed stays alive when a transfer is begun, and is not that one.
LEMMA ListedStays ==
  ASSUME TypeInv, NEW r \in Requests, created' = created + 1,
         \A t \in Transfers \ {created'} : transfer'[t] = transfer[t]
  PROVE  \A x \in request[r].todo : /\ x[1] # created'
                                    /\ Alive(transfer, x[1]) => Alive(transfer', x[1])
<1>1. created \in Nat /\ \A x \in request[r].todo : x[1] \in Transfers /\ x[1] <= created
  BY TypesOf DEF TypeInv, ThreadsAreSound, Sound, Request
<1>2. \A x \in request[r].todo : x[1] # created'
  BY <1>1 DEF Transfers
<1> QED BY <1>1, <1>2 DEF Alive

\* Open: the closure that the journal promises.
LEMMA OpenKeeps ==
  ASSUME OneAtATime, TypeInv, TypeInv', CopyInv, NEW r \in Requests, Open(r)
  PROVE  CopyInv'
<1> DEFINE u == [kind |-> request[r].kind, ids |-> request[r].ids,
                 state |-> "preparing", marker |-> FALSE]
           q(n) == [request[r] EXCEPT !.step = "stage", !.own = n, !.t = n,
                                      !.state = "preparing", !.left = request[r].ids]
<1>1. /\ request[r].step = "open" /\ request[r] \in Request
      /\ UNCHANGED <<row, blobRow, plain, blobs, staged>>
      /\ Stands(request[r], transfer) /\ Holds(request[r])
      /\ request[r].kind \in {"import", "export"}
  BY TypesOf DEF Open, At, CopyInv, Fine, files, TypeInv, ThreadsAreSound, Sound
<1>2. CASE End(r) /\ UNCHANGED <<created, transfer>>
  <2>1. UNCHANGED <<tables, files>>
    BY <1>1, <1>2 DEF tables, files
  <2> QED BY <1>2, <2>1, Ended, QuietKeeps
<1>3. CASE /\ Closed(From[request[r].kind], request[r].ids)
           /\ created' = created + 1 /\ transfer' = [transfer EXCEPT ![created'] = u]
           /\ Become(r, q(created'))
  <2>1. /\ u \in Transfer /\ u.kind = request[r].kind /\ u.ids = request[r].ids /\ ~u.marker
        /\ u.state = "preparing"
    BY <1>1 DEF Request, Transfer, States, Rank
  <2>2. /\ request'[r].step = "stage" /\ request'[r].t = created' /\ request'[r].left = request[r].ids
        /\ request'[r].ids = request[r].ids /\ request'[r].kind = request[r].kind
        /\ request'[r].todo = request[r].todo
    <3> DEFINE p == q(created')
    <3>1. /\ p.step = "stage" /\ p.t = created' /\ p.left = request[r].ids
          /\ p.ids = request[r].ids /\ p.kind = request[r].kind /\ p.todo = request[r].todo
      BY <1>1 DEF Request
    <3>2. request'[r] = p
      BY <1>3, Became
    <3> QED BY <3>1, <3>2
  <2> HIDE DEF u, q
  <2>3. /\ HasBytes'
        /\ created' \in Transfers /\ transfer'[created'] = u
        /\ \A t \in Transfers \ {created'} : transfer'[t] = transfer[t]
    BY <1>1, <1>3, <2>1, NewTransfer
  <2>4. \A x \in request[r].todo : x[1] # created' /\ Alive(transfer', x[1])
    <3>1. \A x \in request[r].todo : Alive(transfer, x[1])
      BY <1>1 DEF Stands
    <3> QED BY <1>3, <2>3, <3>1, ListedStays
  <2>5. Alive(transfer', created')
    BY <2>1, <2>3 DEF Alive
  <2>6. Stands(request[r], transfer)'
    <3>1. \A x, y \in request[r].todo : x[1] = y[1] => x = y
      BY <1>1 DEF Stands
    <3> HIDE DEF Alive
    <3> QED BY <2>2, <2>4, <2>5, <3>1 DEF Stands
  <2>7. Holds(request[r])'
    BY <1>1, <2>1, <2>2, <2>3 DEF Holds, Staging, Undoing, Deleting, Gets
  <2> QED BY <2>3, <2>6, <2>7, OneThread DEF Fine
<1> QED BY <1>2, <1>3 DEF Open

\* What a thread that stages knows: its transfer is its own and has no marker.
LEMMA AtStage ==
  ASSUME TypeInv, CopyInv, NEW r \in Requests, request[r].step \in Staging
  PROVE  /\ request[r] \in Request /\ request[r].kind = Kind(r) /\ request[r].ids = Moving(r)
         /\ request[r].ids \in SUBSET Assets /\ Now(r) \in Transfers
         /\ Stands(request[r], transfer) /\ Holds(request[r])
         /\ ~transfer[Now(r)].marker /\ Alive(transfer, Now(r))
         /\ request[r].left \subseteq request[r].ids
         /\ request[r].kind = "export" => \A a \in request[r].ids : Gets("vault", a)
<1>1. request[r].step \in Handling \ {"clear"} /\ request[r].step # "sweeping"
  BY DEF Staging, Handling
<1>2. /\ request[r] \in Request /\ request[r].kind = Kind(r) /\ request[r].ids = Moving(r)
      /\ request[r].ids \in SUBSET Assets /\ Now(r) \in Transfers
  BY <1>1, OwnInHand, InHand, TypesOf DEF Request
<1>3. Stands(request[r], transfer) /\ Holds(request[r])
  BY DEF CopyInv, Fine
<1>4. Alive(transfer, Now(r))
  <2> HIDE DEF Handling, Alive
  <2> QED BY <1>1, <1>3 DEF Stands, Now
<1> QED BY <1>2, <1>3, <1>4 DEF Holds, Now

\* A thread goes on staging.
LEMMA StagingFine ==
  ASSUME TypeInv, CopyInv, NEW r \in Requests, request[r].step \in Staging,
         UNCHANGED <<row, transfer>>, staged \subseteq staged',
         Alike(request'[r], request[r]), request'[r].step \in Staging,
         request'[r].left \subseteq request[r].left,
         request'[r].step = "write" => request'[r].file \in request[r].ids,
         request'[r].step = "stage" /\ request[r].kind # "export" =>
           /\ request[r].step = "stage"
           /\ \A a \in request[r].left \ request'[r].left : <<Now(r), a>> \in staged'
  PROVE  Fine(r)'
<1>1. /\ Stands(request[r], transfer) /\ Holds(request[r]) /\ ~transfer[Now(r)].marker
      /\ request[r].left \subseteq request[r].ids
      /\ request[r].kind = "export" => \A a \in request[r].ids : Gets("vault", a)
  BY AtStage
<1>2. Staging \subseteq Handling \ {"clear"} /\ "sweeping" \notin Staging
  BY DEF Staging, Handling
<1>3. Stands(request[r], transfer)'
  BY <1>1, <1>2, StandsSame DEF Alike
<1>4. request'[r].step = "stage" /\ request[r].kind # "export" =>
        \A a \in request[r].ids \ request'[r].left : <<Now(r), a>> \in staged'
  BY <1>1 DEF Holds, Now
<1>5. request'[r].step \in {"stage", "write", "abort"}
  BY DEF Staging
<1>6. Holds(request[r])'
  BY <1>1, <1>4, <1>5 DEF Holds, Staging, Undoing, Deleting, Alike, Now, Gets
<1> QED BY <1>3, <1>6 DEF Fine

\* StageBlob: one more file in the staging directory.
LEMMA StageBlobKeeps ==
  ASSUME OneAtATime, TypeInv, CopyInv, NEW r \in Requests, StageBlob(r)
  PROVE  CopyInv'
<1>1. /\ request[r].step = "stage" /\ request[r].step \in Staging
      /\ UNCHANGED <<row, blobRow, transfer, plain, blobs>>
  BY DEF StageBlob, At, Staging, tables
<1>2. staged \subseteq staged'
  BY DEF StageBlob
<1>3. HasBytes'
  BY <1>1, <1>2 DEF CopyInv, HasBytes, VaultRowsHaveBytes, MainRowsHaveBytes, Copied, Gets, Exists
<1>4. CASE End(r)
  BY <1>3, <1>4, Ended, OneThread
<1>5. CASE Go(r, "abort")
  <2>1. Fine(r)'
    BY <1>1, <1>2, <1>5, GoFields, StagingFine DEF Staging
  <2> QED BY <1>3, <2>1, OneThread
<1>6. CASE \E a \in request[r].left : staged' = staged \cup {<<Now(r), a>>} /\ Tick(r, a)
  <2>1. PICK a \in request[r].left : staged' = staged \cup {<<Now(r), a>>} /\ Tick(r, a)
    BY <1>6
  <2>2. /\ request'[r].step = "stage" /\ Alike(request'[r], request[r])
        /\ request'[r].left = request[r].left \ {a}
    BY <1>1, <2>1, TickFields
  <2>3. Fine(r)'
    BY <1>1, <1>2, <2>1, <2>2, StagingFine
  <2> QED BY <1>3, <2>3, OneThread
<1> QED BY <1>4, <1>5, <1>6 DEF StageBlob

\* CreatePlain: an export writes, and removes, what the vault has.
LEMMA CreatePlainKeeps ==
  ASSUME OneAtATime, TypeInv, CopyInv, NEW r \in Requests, CreatePlain(r)
  PROVE  CopyInv'
<1>1. /\ request[r].step = "stage" /\ request[r].step \in Staging /\ request[r].kind = "export"
      /\ UNCHANGED <<tables, blobs, staged>> /\ UNCHANGED <<row, transfer>>
  BY DEF CreatePlain, At, Staging, tables
<1>2. /\ request[r] \in Request /\ request[r].left \subseteq request[r].ids
      /\ \A a \in request[r].ids : Gets("vault", a)
  BY <1>1, AtStage
<1>3. PICK a \in request[r].left, f \in {"partial", "absent"} :
        /\ plain' = [plain EXCEPT ![a] = f]
        /\ \/ Become(r, [request[r] EXCEPT !.step = "write", !.file = a])
           \/ Go(r, "abort")
  BY DEF CreatePlain
<1>4. HasBytes'
  <2>1. \A b \in Assets : plain'[b] = plain[b] \/ b = a
    BY <1>3, TypesOf DEF Files
  <2> QED BY <1>1, <1>2, <1>3, <2>1, PlainChanges
<1>5. Fine(r)'
  <2>1. CASE Go(r, "abort")
    BY <1>1, <2>1, GoFields, StagingFine DEF Staging
  <2>2. CASE Become(r, [request[r] EXCEPT !.step = "write", !.file = a])
    <3>1. request'[r] = [request[r] EXCEPT !.step = "write", !.file = a]
      BY <2>2, Became
    <3>2. /\ request'[r].step = "write" /\ request'[r].file = a /\ Alike(request'[r], request[r])
          /\ request'[r].left = request[r].left
      BY <1>2, <3>1 DEF Request, Alike
    <3>3. a \in request[r].ids /\ "write" \in Staging
      BY <1>2, <1>3 DEF Staging
    <3> QED BY <1>1, <3>2, <3>3, StagingFine
  <2> QED BY <1>3, <2>1, <2>2
<1> QED BY <1>4, <1>5, OneThread

\* WritePlain: the same of the rest of the file.
LEMMA WritePlainKeeps ==
  ASSUME OneAtATime, TypeInv, CopyInv, NEW r \in Requests, WritePlain(r)
  PROVE  CopyInv'
<1> DEFINE a == request[r].file
<1>1. /\ request[r].step = "write" /\ request[r].step \in Staging
      /\ UNCHANGED <<tables, blobs, staged>> /\ UNCHANGED <<row, transfer>>
  BY DEF WritePlain, At, Staging, tables
<1>2. /\ request[r] \in Request /\ request[r].left \subseteq request[r].ids
      /\ request[r].kind = "export" => \A b \in request[r].ids : Gets("vault", b)
      /\ Holds(request[r])
  BY <1>1, AtStage
<1>3. a \in request[r].ids /\ request[r].kind = "export"
  BY <1>1, <1>2 DEF Holds, TypeInv, ThreadsAreSound, Sound
<1>4. \/ /\ plain' = [plain EXCEPT ![a] = IF @ = "absent" THEN @ ELSE "whole"]
         /\ Become(r, [request[r] EXCEPT !.step = "stage", !.left = @ \ {a}, !.file = NoAsset])
      \/ /\ plain' = [plain EXCEPT ![a] = "absent"]
         /\ Become(r, [request[r] EXCEPT !.step = "abort", !.file = NoAsset])
  BY DEF WritePlain
<1>5. HasBytes'
  <2>1. \A b \in Assets : plain'[b] = plain[b] \/ b = a
    BY <1>4, TypesOf DEF Files
  <2> HIDE DEF a
  <2> QED BY <1>1, <1>2, <1>3, <2>1, PlainChanges
<1>6. /\ request'[r].step \in {"stage", "abort"} /\ Alike(request'[r], request[r])
      /\ request'[r].left \subseteq request[r].left
  <2>1. CASE Become(r, [request[r] EXCEPT !.step = "stage", !.left = @ \ {a}, !.file = NoAsset])
    <3>1. request'[r] = [request[r] EXCEPT !.step = "stage", !.left = @ \ {a}, !.file = NoAsset]
      BY <2>1, Became
    <3> HIDE DEF a
    <3> QED BY <1>2, <3>1 DEF Request, Alike
  <2>2. CASE Become(r, [request[r] EXCEPT !.step = "abort", !.file = NoAsset])
    <3>1. request'[r] = [request[r] EXCEPT !.step = "abort", !.file = NoAsset]
      BY <2>2, Became
    <3> QED BY <1>2, <3>1 DEF Request, Alike
  <2> QED BY <1>4, <2>1, <2>2
<1>7. "stage" \in Staging /\ "abort" \in Staging
  BY DEF Staging
<1>8. Fine(r)'
  BY <1>1, <1>3, <1>6, <1>7, StagingFine
<1> QED BY <1>5, <1>8, OneThread

\* Commit: the rows come with the blobs that are staged, and the marker.
LEMMA CommitKeeps ==
  ASSUME OneAtATime, TypeInv, CopyInv, NEW r \in Requests, Commit(r)
  PROVE  CopyInv'
<1>1. /\ request[r].step = "stage" /\ request[r].step \in Staging /\ request[r].left = {}
      /\ UNCHANGED <<plain, blobs, staged>>
  BY CommitCases DEF Staging
<1>2. /\ request[r] \in Request /\ request[r].kind = Kind(r) /\ request[r].ids = Moving(r)
      /\ request[r].ids \in SUBSET Assets /\ Now(r) \in Transfers
      /\ Stands(request[r], transfer) /\ Holds(request[r])
      /\ Alive(transfer, Now(r))
      /\ request[r].kind = "export" => \A a \in request[r].ids : Gets("vault", a)
      /\ request[r].kind \in Kinds
  BY <1>1, AtStage, OwnInHand
<1>3. CASE (End(r) \/ Go(r, "abort")) /\ UNCHANGED <<row, blobRow, transfer>>
  <2>1. UNCHANGED <<tables, files>>
    BY <1>1, <1>3 DEF tables, files
  <2>2. ASSUME Go(r, "abort") PROVE Fine(r)'
    BY <1>1, <1>3, <2>2, GoFields, StagingFine DEF Staging
  <2> QED BY <1>3, <2>1, <2>2, Ended, QuietKeeps
<1>4. ASSUME NEW order \in SetToSeqs(request[r].ids), CommitsInto(r, order)
      PROVE  CopyInv'
  <2> DEFINE d == To[request[r].kind]
             ids == request[r].ids
  <2>1. /\ d \in Databases
        /\ \A e \in Databases \ {d} : row'[e] = row[e]
        /\ \A a \in Assets \ ids : row'[d][a] = row[d][a]
    <3> HIDE DEF Fits
    <3> QED BY <1>1, <1>4, CommittedRows
  <2>2. /\ \A a \in ids : ~Exists(d, a)
        /\ blobRow' = IF d = "main" THEN blobRow
                      ELSE [a \in Assets |-> IF a \in ids THEN Now(r) ELSE blobRow[a]]
        /\ transfer' = [transfer EXCEPT ![Now(r)].marker = TRUE]
        /\ Become(r, [request[r] EXCEPT !.step = "complete", !.rows = Idle.rows])
    BY <1>4 DEF CommitsInto
  <2>3. \A t \in Transfers : /\ transfer'[t].kind = transfer[t].kind
                             /\ transfer'[t].ids = transfer[t].ids
                             /\ transfer'[t].state = transfer[t].state
                             /\ transfer'[t].marker <=> (transfer[t].marker \/ t = Now(r))
    <3> SUFFICES ASSUME NEW t \in Transfers
                 PROVE  /\ transfer'[t].kind = transfer[t].kind
                        /\ transfer'[t].ids = transfer[t].ids
                        /\ transfer'[t].state = transfer[t].state
                        /\ transfer'[t].marker <=> (transfer[t].marker \/ t = Now(r))
      OBVIOUS
    <3>1. transfer'[t] = IF t = Now(r) THEN [transfer[t] EXCEPT !.marker = TRUE] ELSE transfer[t]
      BY <2>2, TypesOf
    <3>2. transfer[t] \in Transfer
      BY TypesOf
    <3> QED BY <3>1, <3>2 DEF Transfer
  <2>4. request'[r].step = "complete" /\ Alike(request'[r], request[r])
    <3> DEFINE p == [request[r] EXCEPT !.step = "complete", !.rows = Idle.rows]
    <3>1. p.step = "complete" /\ Alike(p, request[r])
      BY <1>2 DEF Request, Alike
    <3>2. request'[r] = p
      BY <2>2, Became
    <3> QED BY <3>1, <3>2
  <2>5. (Kind(r) = "export" /\ d = "main") \/ (Kind(r) \in {"import", "ingest"} /\ d = "vault")
    BY <1>2 DEF Kinds, To
  <2> HIDE DEF d
  <2>7. VaultRowsHaveBytes'
    <3> SUFFICES ASSUME NEW a \in Assets, Gets("vault", a)' PROVE Copied(a)'
      BY DEF VaultRowsHaveBytes
    <3>1. CASE d = "vault" /\ a \in ids
      <4>1. blobRow'[a] = Now(r) /\ transfer'[Now(r)].marker /\ a \in transfer'[Now(r)].ids
        BY <1>2, <2>2, <2>3, <3>1 DEF Moving
      <4>2. transfer'[Now(r)].kind \in {"import", "ingest"}
        BY <1>2, <2>3, <2>5, <3>1 DEF Kind
      <4>3. <<Now(r), a>> \in staged'
        BY <1>1, <1>2, <2>5, <3>1 DEF Holds, Now
      <4> QED BY <1>2, <4>1, <4>2, <4>3 DEF Copied
    <3>2. CASE ~(d = "vault" /\ a \in ids)
      <4>1. Gets("vault", a) /\ blobRow'[a] = blobRow[a]
        BY <2>1, <2>2, <2>5, <3>2, TypesOf DEF Gets, Databases, Tables
      <4>2. Copied(a)
        BY <4>1 DEF CopyInv, HasBytes, VaultRowsHaveBytes
      <4> QED BY <1>1, <2>3, <4>1, <4>2 DEF Copied
    <3> QED BY <3>1, <3>2
  <2>8. MainRowsHaveBytes'
    <3> SUFFICES ASSUME NEW a \in Assets, Exists("main", a)', plain[a] # "whole"
                 PROVE  Gets("vault", a)'
      BY <1>1 DEF MainRowsHaveBytes
    <3>1. CASE d = "main"
      <4>1. Gets("vault", a)' = Gets("vault", a)
        BY <2>1, <3>1 DEF Gets, Databases
      <4>2. a \in ids \/ Exists("main", a)
        BY <2>1, <3>1 DEF Exists
      <4> QED BY <1>2, <2>5, <3>1, <4>1, <4>2 DEF CopyInv, HasBytes, MainRowsHaveBytes
    <3>2. CASE d = "vault"
      <4>1. Exists("main", a) /\ Gets("vault", a)
        BY <2>1, <3>2 DEF Exists, Databases, CopyInv, HasBytes, MainRowsHaveBytes
      <4>2. a \notin ids
        BY <2>2, <3>2, <4>1 DEF Gets, Exists
      <4> QED BY <2>1, <3>2, <4>1, <4>2 DEF Gets
    <3> QED BY <2>5, <3>1, <3>2
  <2>9. Stands(request[r], transfer)'
    <3>1. {"stage", "complete"} \subseteq Handling \ {"clear"}
      BY DEF Handling, Staging, Completing
    <3>2. \A x \in request[r].todo : x[1] \in Transfers
      BY <1>2 DEF Request
    <3>3. Alive(transfer', Now(r)) /\ \A x \in request[r].todo : Alive(transfer, x[1]) => Alive(transfer', x[1])
      BY <1>2, <2>3, <3>2 DEF Alive
    <3> HIDE DEF Alive
    <3> QED BY <1>1, <1>2, <2>4, <3>1, <3>3, StandsOn DEF Alike, Now
  <2> QED BY <2>4, <2>7, <2>8, <2>9, RestingHolds, OneThread DEF Fine, Resting, HasBytes
<1> QED BY <1>3, <1>4, CommitCases

\* Abort: what is taken back is in the source still.
LEMMA AbortKeeps ==
  ASSUME OneAtATime, TypeInv, CopyInv, NEW r \in Requests, Abort(r)
  PROVE  CopyInv'
<1>1. /\ request[r].step = "abort" /\ request[r].step \in Staging
      /\ UNCHANGED <<tables, blobs>> /\ UNCHANGED <<row, transfer>>
  BY DEF Abort, At, Staging, tables
<1>2. /\ request[r] \in Request /\ Stands(request[r], transfer)
      /\ ~transfer[Now(r)].marker
      /\ request[r].kind = "export" => \A a \in request[r].ids : Gets("vault", a)
  BY <1>1, AtStage
<1>3. HasBytes'
  <2>1. CASE request[r].kind = "export"
    <3>1. /\ plain' = [a \in Assets |-> IF a \in request[r].ids \ request[r].left THEN "absent"
                                        ELSE plain[a]]
          /\ UNCHANGED staged
      BY <2>1 DEF Abort
    <3> QED BY <1>1, <1>2, <2>1, <3>1, PlainChanges
  <2>2. CASE request[r].kind # "export"
    <3>1. staged' = staged \ StagedBy(Now(r)) /\ UNCHANGED plain
      BY <2>2 DEF Abort
    <3>2. staged' \subseteq staged /\ \A t, a : <<t, a>> \in staged \ staged' => t = Now(r)
      BY <3>1 DEF StagedBy
    <3> QED BY <1>1, <1>2, <3>1, <3>2, StagedGoes
  <2> QED BY <2>1, <2>2
<1>4. CASE End(r)
  BY <1>3, <1>4, Ended, OneThread
<1>5. CASE Become(r, [request[r] EXCEPT !.step = "forget", !.rows = Idle.rows])
  <2> DEFINE p == [request[r] EXCEPT !.step = "forget", !.rows = Idle.rows]
  <2>1. p.step = "forget" /\ Alike(p, request[r])
    BY <1>2 DEF Request, Alike
  <2>2. request'[r] = p
    BY <1>5, Became
  <2>3. request'[r].step = "forget" /\ Alike(request'[r], request[r])
    BY <2>1, <2>2
  <2>4. {"abort", "forget"} \subseteq Handling \ {"clear"}
    BY DEF Handling, Staging, Undoing
  <2>5. Stands(request[r], transfer)'
    BY <1>1, <1>2, <2>3, <2>4, StandsSame DEF Alike
  <2>6. Holds(request[r])'
    BY <1>1, <1>2, <2>3 DEF Holds, Staging, Undoing, Deleting, Alike, Now
  <2> QED BY <1>3, <2>5, <2>6, OneThread DEF Fine
<1> QED BY <1>4, <1>5 DEF Abort

\* Every step up to the commit.
LEMMA StagesKeeps ==
  ASSUME OneAtATime, TypeInv, TypeInv', CopyInv, NEW r \in Requests, Stages(r)
  PROVE  CopyInv'
BY PrepareKeeps, OpenKeeps, StageBlobKeeps, CreatePlainKeeps, WritePlainKeeps, CommitKeeps, AbortKeeps
   DEF Stages

-----------------------------------------------------------------------------
(* Completion.                                                             *)

\* What a thread that completes knows.
LEMMA AtCompletion ==
  ASSUME TypeInv, CopyInv, NEW r \in Requests, request[r].step \in Completing \cup {"clear"}
  PROVE  /\ request[r] \in Request /\ request[r].step \in Handling /\ request[r].step # "sweeping"
         /\ Now(r) \in Transfers /\ Kind(r) \in Kinds /\ Moving(r) \in SUBSET Assets
         /\ Stands(request[r], transfer) /\ Holds(request[r])
         /\ request[r].step # "clear" => Alive(transfer, Now(r))
<1>1. request[r].step \in Handling /\ request[r].step # "sweeping"
  BY DEF Completing, Handling, Deleting
<1>2. Stands(request[r], transfer) /\ Holds(request[r]) /\ request[r] \in Request
  BY TypesOf DEF CopyInv, Fine
<1>3. request[r].step # "clear" => Alive(transfer, Now(r))
  <2> HIDE DEF Handling, Alive
  <2> QED BY <1>1, <1>2 DEF Stands, Now
<1> QED BY <1>1, <1>2, <1>3, InHand

\* A step within the completion that changes no journal.
LEMMA CompletionStands ==
  ASSUME TypeInv, CopyInv, NEW r \in Requests, request[r].step \in Completing \cup {"clear"},
         Alike(request'[r], request[r]), request'[r].step \in Completing \cup {"clear"},
         request[r].step = "clear" => request'[r].step = "clear",
         request'[r].step # "clear" => Alive(transfer', Now(r)),
         \A x \in request[r].todo : Alive(transfer, x[1]) => Alive(transfer', x[1])
  PROVE  Stands(request[r], transfer)'
<1>1. Completing \cup {"clear"} \subseteq Handling
  BY DEF Handling
<1>2. Stands(request[r], transfer) /\ request[r].step # "sweeping"
  BY AtCompletion
<1> HIDE DEF Handling, Completing, Alive
<1> QED BY <1>1, <1>2, StandsOn DEF Alike, Now

\* Complete begins.
LEMMA CompleteKeeps ==
  ASSUME OneAtATime, TypeInv, CopyInv, NEW r \in Requests, Complete(r)
  PROVE  CopyInv'
<1>1. /\ request[r].step = "complete" /\ request[r].step \in Completing \cup {"clear"}
      /\ UNCHANGED <<tables, files>> /\ transfer' = transfer
  BY DEF Complete, At, Completing, tables
<1>2. CASE End(r)
  BY <1>1, <1>2, Ended, QuietKeeps
<1>3. ASSUME NEW s \in {"validate", "finalize"}, Each(r, s)
      PROVE  CopyInv'
  <2>1. request'[r].step = s /\ Alike(request'[r], request[r]) /\ request'[r].left = Moving(r)
    BY <1>3, EachFields
  <2>2. Stands(request[r], transfer)'
    <3>1. Alive(transfer', Now(r))
      BY <1>1, AtCompletion
    <3> HIDE DEF Alive
    <3> QED BY <1>1, <2>1, <3>1, CompletionStands DEF Completing
  <2>3. Holds(request[r])'
    BY <1>1, <2>1 DEF Holds, Staging, Undoing, Deleting, Alike, Moving, Now
  <2> QED BY <1>1, <2>2, <2>3, QuietKeeps DEF Fine
<1> QED BY <1>2, <1>3 DEF Complete

\* Blobs move out of staging: a row that has its blob keeps it.
LEMMA BlobsMove ==
  ASSUME CopyInv, UNCHANGED <<tables, plain>>, blobs \subseteq blobs', staged' \subseteq staged,
         \A a \in Assets :
           /\ Gets("vault", a) /\ transfer[blobRow[a]].marker /\ blobRow[a] \in Transfers
           /\ a \in transfer[blobRow[a]].ids
           /\ <<blobRow[a], a>> \in staged \ staged'
           => <<blobRow[a], a>> \in blobs'
  PROVE  HasBytes'
<1>1. UNCHANGED <<row, blobRow, transfer>>
  BY DEF tables
<1>2. MainRowsHaveBytes'
  BY <1>1 DEF CopyInv, HasBytes, MainRowsHaveBytes, Gets, Exists
<1>3. VaultRowsHaveBytes'
  BY <1>1 DEF CopyInv, HasBytes, VaultRowsHaveBytes, Copied, Gets
<1> QED BY <1>2, <1>3 DEF HasBytes

\* Finalize: what leaves the staging directory is where vault_blobs says.
LEMMA FinalizeKeeps ==
  ASSUME OneAtATime, TypeInv, CopyInv, NEW r \in Requests, Finalize(r)
  PROVE  CopyInv'
<1>1. /\ request[r].step = "finalize" /\ request[r].step \in Completing \cup {"clear"}
      /\ UNCHANGED <<row, blobRow, transfer, plain>> /\ UNCHANGED <<tables, plain>>
  BY FinalizeCases DEF Completing, tables
<1>2. /\ Stands(request[r], transfer) /\ Holds(request[r]) /\ Alive(transfer, Now(r))
      /\ Now(r) \in Transfers /\ Moving(r) \in SUBSET Assets
  BY <1>1, AtCompletion
<1>3. \A a \in Moving(r) \ request[r].left : blobRow[a] # 0 => <<blobRow[a], a>> \in blobs
  BY <1>1, <1>2 DEF Holds, Moving, Now, BlobHere
<1>4. ASSUME Alike(request'[r], request[r]), request'[r].step \in {"finalize", "validate"}
      PROVE  Stands(request[r], transfer)'
  <2>1. Alive(transfer', Now(r))
    BY <1>1, <1>2
  <2> HIDE DEF Alive
  <2> QED BY <1>1, <1>4, <2>1, CompletionStands DEF Completing
<1>5. CASE /\ request[r].left = {} /\ Go(r, "validate")
           /\ staged' = staged \ StagedBy(Now(r)) /\ UNCHANGED blobs
  <2>1. request'[r].step = "validate" /\ Alike(request'[r], request[r])
    BY <1>5, GoFields
  <2>2. Fine(r)'
    BY <2>1, <1>4, RestingHolds DEF Fine, Resting
  <2>3. staged' \subseteq staged /\ \A t, a : <<t, a>> \in staged \ staged' => t = Now(r)
    BY <1>5 DEF StagedBy
  <2>4. 0 \notin Transfers
    BY DEF Transfers
  <2>5. HasBytes'
    <3>1. ASSUME NEW a \in Assets, blobRow[a] \in Transfers, a \in transfer[blobRow[a]].ids,
                 <<blobRow[a], a>> \in staged \ staged'
          PROVE  <<blobRow[a], a>> \in blobs
      <4>1. blobRow[a] = Now(r)
        BY <2>3, <3>1
      <4>2. a \in Moving(r) /\ blobRow[a] # 0
        BY <2>4, <3>1, <4>1 DEF Moving
      <4> QED BY <1>3, <1>5, <4>2
    <3> QED BY <1>1, <1>5, <2>3, <3>1, BlobsMove
  <2> QED BY <2>2, <2>5, OneThread
<1>6. CASE End(r) /\ UNCHANGED <<staged, blobs>>
  <2>1. UNCHANGED <<tables, files>>
    BY <1>1, <1>6 DEF files
  <2> QED BY <1>6, <2>1, Ended, QuietKeeps
<1>7. ASSUME NEW a \in request[r].left, Tick(r, a),
             \/ blobRow[a] = 0 /\ UNCHANGED <<staged, blobs>>
             \/ /\ <<blobRow[a], a>> \in blobs /\ UNCHANGED blobs
                /\ staged' = staged \ ({<<blobRow[a], a>>} \cap StagedBy(Now(r)))
             \/ /\ staged' = staged \ {<<blobRow[a], a>>}
                /\ blobs' = blobs \cup {<<blobRow[a], a>>}
      PROVE  CopyInv'
  <2>1. /\ request'[r].step = "finalize" /\ Alike(request'[r], request[r])
        /\ request'[r].left = request[r].left \ {a}
    BY <1>1, <1>7, TickFields
  <2>2. /\ blobs \subseteq blobs' /\ staged' \subseteq staged
        /\ blobRow[a] # 0 => <<blobRow[a], a>> \in blobs'
        /\ \A x \in staged \ staged' : x \in blobs'
    BY <1>7
  <2>3. HasBytes'
    BY <1>1, <2>2, BlobsMove
  <2>4. \A b \in Moving(r) \ request'[r].left : blobRow[b] # 0 => <<blobRow[b], b>> \in blobs'
    BY <1>3, <2>1, <2>2
  <2>5. Holds(request[r])'
    BY <1>1, <2>1, <2>4 DEF Holds, Staging, Undoing, Deleting, Alike, Now, Moving, BlobHere
  <2>6. Fine(r)'
    BY <1>4, <2>1, <2>5 DEF Fine
  <2> QED BY <2>3, <2>6, OneThread
<1> QED BY <1>5, <1>6, <1>7, FinalizeCases

\* Validate: the destination has been read back.
LEMMA ValidateKeeps ==
  ASSUME OneAtATime, TypeInv, CopyInv, NEW r \in Requests, Validate(r)
  PROVE  CopyInv'
<1>1. /\ request[r].step = "validate" /\ request[r].step \in Completing \cup {"clear"}
      /\ UNCHANGED <<tables, files>> /\ UNCHANGED <<row, transfer, plain, blobs, blobRow>>
  BY DEF Validate, At, Completing, tables, files
<1>2. Alive(transfer, Now(r)) /\ Kind(r) \in Kinds
  BY <1>1, AtCompletion
<1>3. CASE End(r)
  BY <1>1, <1>3, Ended, QuietKeeps
<1>4. ASSUME NEW s \in {"unmark", "ready"}, Go(r, s), Valid(r), Kind(r) = "ingest" <=> s = "unmark"
      PROVE  CopyInv'
  <2>1. request'[r].step = s /\ Alike(request'[r], request[r])
    BY <1>4, GoFields
  <2>2. Stands(request[r], transfer)'
    <3> HIDE DEF Alive
    <3> QED BY <1>1, <1>2, <2>1, CompletionStands DEF Completing, Deleting
  <2>3. /\ Kind(r) = "export" => \A a \in Moving(r) : plain[a] = "whole"
        /\ Kind(r) # "export" => \A a \in Moving(r) : Gets("vault", a) /\ BlobHere(a)
    BY <1>2, <1>4 DEF Valid, To, Kinds
  <2>4. Holds(request[r])'
    BY <1>1, <1>4, <2>1, <2>3 DEF Holds, Staging, Undoing, Deleting, Alike, Moving, Kind, Now, Gets, BlobHere
  <2> QED BY <1>1, <2>2, <2>4, QuietKeeps DEF Fine
<1> QED BY <1>3, <1>4 DEF Validate

\* What was validated holds from one step of the deletion to the next.
LEMMA ValidatedHolds ==
  ASSUME TypeInv, CopyInv, NEW r \in Requests, request[r].step \in Deleting,
         UNCHANGED <<row, blobRow, plain, blobs>>,
         \A t \in Transfers : transfer'[t].kind = transfer[t].kind /\ transfer'[t].ids = transfer[t].ids,
         Alike(request'[r], request[r]),
         request'[r].step \in (Deleting \ {"delete"}) \cup {"unmark"}
  PROVE  Holds(request[r])'
<1>1. Deleting \subseteq Completing
  BY DEF Completing
<1>2. Holds(request[r]) /\ Now(r) \in Transfers
  BY <1>1, AtCompletion
<1>3. /\ Kind(r) = "export" => \A a \in Moving(r) : Exists("main", a) => plain[a] = "whole"
      /\ Kind(r) # "export" => \A a \in Moving(r) : Gets("vault", a) /\ BlobHere(a)
  BY <1>2 DEF Holds, Kind, Moving, Now
<1>4. request'[r].t = Now(r) /\ transfer'[Now(r)].kind = Kind(r) /\ transfer'[Now(r)].ids = Moving(r)
  BY <1>2 DEF Alike, Now, Kind, Moving
<1> QED BY <1>3, <1>4 DEF Holds, Staging, Undoing, Deleting, Gets, Exists, BlobHere

\* The state of the journal goes on.
LEMMA RecordKeeps ==
  ASSUME OneAtATime, TypeInv, CopyInv, NEW r \in Requests, request[r].step \in Deleting,
         NEW s \in States \ {"none"}, NEW step \in {"lease", "drop", "unmark"}, Record(r, s, step),
         UNCHANGED <<row, blobRow, files>>
  PROVE  CopyInv'
<1>1. /\ request[r].step \in Completing \cup {"clear"} /\ request[r].step # "clear"
      /\ request[r].step \in Handling
  BY DEF Completing, Deleting, Handling
<1>2. UNCHANGED <<row, blobRow, plain, blobs, staged>>
  BY DEF files
<1>3. CASE End(r) /\ UNCHANGED transfer
  <2>1. UNCHANGED <<tables, files>>
    BY <1>3 DEF tables
  <2> QED BY <1>3, <2>1, Ended, QuietKeeps
<1>4. CASE transfer[Now(r)].state # "none" /\ SetState(Now(r), s) /\ Go(r, step)
  <2>1. /\ HasBytes' /\ transfer'[Now(r)].state = s
        /\ \A t \in Transfers : transfer'[t].kind = transfer[t].kind /\ transfer'[t].ids = transfer[t].ids
        /\ \A x \in request[r].todo : Alive(transfer, x[1]) => Alive(transfer', x[1])
    <3> HIDE DEF Alive
    <3> QED BY <1>1, <1>2, <1>4, StateSetKeeps
  <2>2. request'[r].step = step /\ Alike(request'[r], request[r])
    BY <1>4, GoFields
  <2>3. Alive(transfer', Now(r))
    BY <2>1 DEF Alive
  <2>4. Stands(request[r], transfer)'
    <3> HIDE DEF Alive
    <3> QED BY <1>1, <2>1, <2>2, <2>3, CompletionStands DEF Completing, Deleting
  <2>5. Holds(request[r])'
    BY <1>2, <2>1, <2>2, ValidatedHolds DEF Deleting
  <2> QED BY <2>1, <2>4, <2>5, OneThread DEF Fine
<1> QED BY <1>3, <1>4 DEF Record

\* Ready and FilesDeleted record how far the transfer came.
LEMMA ReadyKeeps ==
  ASSUME OneAtATime, TypeInv, CopyInv, NEW r \in Requests, Ready(r)
  PROVE  CopyInv'
<1>1. /\ request[r].step = "ready" /\ request[r].step \in Deleting /\ UNCHANGED <<row, blobRow, files>>
      /\ Onward(r) \in {"lease", "drop", "unmark"} /\ "destination_ready" \in States \ {"none"}
  BY DEF Ready, At, Deleting, Onward, States, Rank
<1>2. CASE Record(r, "destination_ready", Onward(r))
  BY <1>1, <1>2, RecordKeeps
<1>3. CASE Go(r, Onward(r)) /\ UNCHANGED transfer
  <2>1. UNCHANGED <<tables, files>> /\ UNCHANGED <<row, blobRow, plain, blobs>>
    BY <1>1, <1>3 DEF tables, files
  <2>2. request'[r].step \in {"lease", "drop", "unmark"} /\ Alike(request'[r], request[r])
    BY <1>1, <1>3, GoFields
  <2>3. Holds(request[r])'
    BY <1>1, <1>3, <2>1, <2>2, ValidatedHolds DEF Deleting
  <2>4. request[r].step \in Completing \cup {"clear"} /\ request[r].step # "clear"
    BY <1>1 DEF Completing
  <2>5. Alive(transfer', Now(r))
    BY <1>3, <2>4, AtCompletion
  <2>6. Stands(request[r], transfer)'
    <3> HIDE DEF Alive
    <3> QED BY <1>3, <2>2, <2>4, <2>5, CompletionStands DEF Completing, Deleting
  <2> QED BY <2>1, <2>3, <2>6, QuietKeeps DEF Fine
<1> QED BY <1>2, <1>3 DEF Ready

\* FilesDeleted: only the journal moves on.
LEMMA FilesDeletedKeeps ==
  ASSUME OneAtATime, TypeInv, CopyInv, NEW r \in Requests, FilesDeleted(r)
  PROVE  CopyInv'
<1>1. /\ request[r].step \in Deleting /\ UNCHANGED <<row, blobRow, files>>
      /\ Record(r, "source_files_deleted", "drop") /\ "source_files_deleted" \in States \ {"none"}
  BY DEF FilesDeleted, At, Deleting, States, Rank
<1> QED BY <1>1, RecordKeeps

\* Dropped: the journal says so once the rows are gone.
LEMMA DroppedKeeps ==
  ASSUME OneAtATime, TypeInv, CopyInv, NEW r \in Requests, Dropped(r)
  PROVE  CopyInv'
<1>1. /\ request[r].step \in Deleting /\ UNCHANGED <<row, blobRow, files>>
      /\ Record(r, "source_database_deleted", "unmark") /\ "source_database_deleted" \in States \ {"none"}
  BY DEF Dropped, At, Deleting, States, Rank
<1> QED BY <1>1, RecordKeeps

\* Lease: an export's rows are tombstones once the library has them whole.
LEMMA LeaseKeeps ==
  ASSUME OneAtATime, TypeInv, CopyInv, NEW r \in Requests, Lease(r)
  PROVE  CopyInv'
<1> DEFINE d == From[Kind(r)]
           ids == Moving(r)
<1>1. /\ request[r].step = "lease" /\ request[r].step \in Deleting
      /\ request[r].step \in Completing \cup {"clear"}
      /\ request[r].step \in Handling
      /\ UNCHANGED <<blobRow, transfer, plain, blobs, staged>>
  BY DEF Lease, At, Deleting, Completing, Handling, files
<1>2. /\ Stands(request[r], transfer) /\ Holds(request[r]) /\ Alive(transfer, Now(r))
      /\ ids \in SUBSET Assets /\ Now(r) \in Transfers
  BY <1>1, AtCompletion
<1>3. (Kind(r) = "import" /\ d = "main") \/ (Kind(r) = "export" /\ d = "vault")
  BY <1>1, KindInHand DEF From
<1>4. /\ Kind(r) = "export" => \A a \in ids : Exists("main", a) => plain[a] = "whole"
      /\ Kind(r) # "export" => \A a \in ids : Gets("vault", a) /\ BlobHere(a)
  BY <1>1, <1>2 DEF Holds, Kind, Moving, Now
<1>5. CASE End(r) /\ UNCHANGED row
  <2>1. UNCHANGED <<tables, files>>
    BY <1>1, <1>5 DEF tables, files
  <2> QED BY <1>5, <2>1, Ended, QuietKeeps
<1>6. CASE row' = [row EXCEPT ![d] = Tombstones(row[d], ids)] /\ Each(r, "delete")
  <2>1. request'[r].step = "delete" /\ Alike(request'[r], request[r]) /\ request'[r].left = ids
    BY <1>6, EachFields
  <2>2. /\ d \in Databases /\ row \in [Databases -> [Assets -> Row]]
    BY <1>3, TypesOf DEF Databases, Tables
  <2>3. /\ \A e \in Databases \ {d} : row'[e] = row[e]
        /\ row'[d] = Tombstones(row[d], ids)
    BY <1>6, <2>2
  <2> HIDE DEF d, ids
  <2>4. ASSUME NEW a \in Assets
        PROVE  /\ row'[d][a].duplicateOf = row[d][a].duplicateOf
               /\ row'[d][a].lifecycle = "none" <=> row[d][a].lifecycle = "none"
               /\ a \in ids => row'[d][a].lifecycle \in {"none", "purging"}
               /\ a \notin ids => row'[d][a] = row[d][a]
    <3>1. row[d][a] \in Row
      BY <2>2
    <3>2. row'[d][a] = IF a \in ids /\ row[d][a].lifecycle # "none"
                       THEN [row[d][a] EXCEPT !.lifecycle = "purging"] ELSE row[d][a]
      BY <2>3 DEF Tombstones
    <3> QED BY <3>1, <3>2 DEF Row
  <2>6. /\ \A e \in Databases, a \in Assets : Exists(e, a)' = Exists(e, a)
        /\ \A a \in Assets : Gets("vault", a)' => Gets("vault", a)
        /\ \A a \in Assets : Kind(r) = "import" \/ a \notin ids => Gets("vault", a)' = Gets("vault", a)
        /\ \A a \in ids : Kind(r) = "export" => ~Gets("vault", a)'
    BY <1>2, <1>3, <2>3, <2>4 DEF Exists, Gets, Databases
  <2>7. VaultRowsHaveBytes'
    BY <1>1, <2>6 DEF CopyInv, HasBytes, VaultRowsHaveBytes, Copied
  <2>8. MainRowsHaveBytes'
    BY <1>1, <1>3, <1>4, <2>6 DEF CopyInv, HasBytes, MainRowsHaveBytes, Databases
  <2>9. Stands(request[r], transfer)'
    <3> HIDE DEF Alive
    <3> QED BY <1>1, <1>2, <2>1, CompletionStands DEF Completing, Deleting
  <2>10. Holds(request[r])'
    <3>1. /\ request'[r].t = Now(r) /\ transfer'[Now(r)].kind = Kind(r) /\ transfer'[Now(r)].ids = ids
          /\ \A a \in Assets : BlobHere(a)' = BlobHere(a)
      BY <1>1, <2>1 DEF Alike, Now, Kind, Moving, ids, BlobHere
    <3>2. /\ Kind(r) = "export" => \A a \in ids : Exists("main", a)' => plain'[a] = "whole"
          /\ Kind(r) # "export" => \A a \in ids : Gets("vault", a)' /\ BlobHere(a)'
          /\ Kind(r) = "export" => \A a \in ids : ~Gets("vault", a)'
      BY <1>1, <1>2, <1>3, <1>4, <2>6, <3>1 DEF Databases
    <3> QED BY <2>1, <3>1, <3>2 DEF Holds, Staging, Undoing, Deleting
  <2> QED BY <2>7, <2>8, <2>9, <2>10, OneThread DEF Fine, HasBytes
<1> QED BY <1>5, <1>6 DEF Lease

\* DeleteFile: only what the destination has.
LEMMA DeleteFileKeeps ==
  ASSUME OneAtATime, TypeInv, CopyInv, NEW r \in Requests, DeleteFile(r)
  PROVE  CopyInv'
<1>1. /\ request[r].step = "delete" /\ request[r].step \in Deleting
      /\ request[r].step \in Completing \cup {"clear"}
      /\ request[r].step \in Handling
      /\ UNCHANGED <<row, blobRow, transfer, staged>> /\ UNCHANGED tables
  BY DEF DeleteFile, At, Deleting, Completing, Handling, tables
<1>2. /\ Stands(request[r], transfer) /\ Holds(request[r]) /\ Alive(transfer, Now(r))
      /\ Now(r) \in Transfers /\ Moving(r) \in SUBSET Assets
  BY <1>1, AtCompletion
<1>3. /\ Kind(r) = "export" => \A a \in Moving(r) : Exists("main", a) => plain[a] = "whole"
      /\ Kind(r) # "export" => \A a \in Moving(r) : Gets("vault", a) /\ BlobHere(a)
      /\ request[r].left \subseteq Moving(r)
      /\ Kind(r) = "export" => \A a \in Moving(r) : ~Gets("vault", a)
  BY <1>1, <1>2 DEF Holds, Kind, Moving, Now
<1>4. Kind(r) \in {"import", "export"}
  BY <1>1, KindInHand
<1>5. CASE End(r) /\ UNCHANGED <<plain, blobs>>
  <2>1. UNCHANGED <<tables, files>>
    BY <1>1, <1>5 DEF files
  <2> QED BY <1>5, <2>1, Ended, QuietKeeps
<1>6. ASSUME NEW a \in request[r].left, Tick(r, a),
             \/ /\ Kind(r) = "import"
                /\ plain' = [plain EXCEPT ![a] = "absent"] /\ UNCHANGED blobs
             \/ Kind(r) = "export" /\ blobs' = blobs \ {<<blobRow[a], a>>} /\ UNCHANGED plain
      PROVE  CopyInv'
  <2>1. /\ request'[r].step = "delete" /\ Alike(request'[r], request[r])
        /\ request'[r].left = request[r].left \ {a}
    BY <1>1, <1>6, TickFields
  <2>2. Stands(request[r], transfer)'
    <3> HIDE DEF Alive
    <3> QED BY <1>1, <1>2, <2>1, CompletionStands DEF Completing, Deleting
  <2>3. /\ request'[r].t = Now(r) /\ transfer'[Now(r)].kind = Kind(r)
        /\ transfer'[Now(r)].ids = Moving(r)
        /\ \A d, b : Exists(d, b)' = Exists(d, b) /\ Gets(d, b)' = Gets(d, b)
    BY <1>1, <2>1 DEF Alike, Now, Kind, Moving, Exists, Gets
  <2>4. CASE Kind(r) = "import" /\ plain' = [plain EXCEPT ![a] = "absent"] /\ UNCHANGED blobs
    <3>1. \A b \in Assets : plain'[b] = plain[b] \/ b = a
      BY <2>4, TypesOf DEF Files
    <3>2. HasBytes'
      BY <1>1, <1>3, <2>4, <3>1, PlainChanges
    <3>3. \A b \in Assets : BlobHere(b)' = BlobHere(b)
      BY <1>1, <2>4 DEF BlobHere
    <3>4. Holds(request[r])'
      BY <1>2, <1>3, <2>1, <2>3, <2>4, <3>3 DEF Holds, Staging, Undoing, Deleting
    <3> QED BY <2>2, <3>2, <3>4, OneThread DEF Fine
  <2>5. CASE Kind(r) = "export" /\ blobs' = blobs \ {<<blobRow[a], a>>} /\ UNCHANGED plain
    <3>2. MainRowsHaveBytes'
      BY <2>3, <2>5 DEF CopyInv, HasBytes, MainRowsHaveBytes
    <3>3. VaultRowsHaveBytes'
      <4> SUFFICES ASSUME NEW b \in Assets, Gets("vault", b) PROVE Copied(b)'
        BY <2>3 DEF VaultRowsHaveBytes
      <4>1. Copied(b) /\ b # a
        BY <1>3, <2>5 DEF CopyInv, HasBytes, VaultRowsHaveBytes
      <4> QED BY <1>1, <2>5, <4>1 DEF Copied
    <3>4. Holds(request[r])'
      BY <1>2, <1>3, <2>1, <2>3, <2>5 DEF Holds, Staging, Undoing, Deleting
    <3> QED BY <2>2, <3>2, <3>3, <3>4, OneThread DEF Fine, HasBytes
  <2> QED BY <1>6, <2>4, <2>5
<1> QED BY <1>4, <1>5, <1>6 DEF DeleteFile

\* Nothing outside a closed set of rows is reparented.
LEMMA NothingReparented ==
  ASSUME NEW rows, NEW ids \in SUBSET Assets, \A a \in ids : Dependents(rows, a) \subseteq ids
  PROVE  \A b \in Assets : rows[b].lifecycle # "none" => Reparented(rows, ids)[b] = rows[b]
<1> DEFINE heirOf == [a \in ids |-> IF Heirs(rows, ids, a) = {} THEN NoAsset
                                    ELSE CHOOSE b \in Heirs(rows, ids, a) : TRUE]
<1>1. \A a \in ids : heirOf[a] = NoAsset
  BY HeirsAreOutside
<1> SUFFICES ASSUME NEW b \in Assets, rows[b].lifecycle # "none" PROVE Reparented(rows, ids)[b] = rows[b]
  OBVIOUS
<1>2. ~ (\E a \in ids : heirOf[a] = b)
  <2> HIDE DEF heirOf
  <2> QED BY <1>1, TransferAssumption
<1>3. ~ (b \notin ids /\ rows[b].duplicateOf \in ids)
  BY DEF Dependents
<1>4. Reparented(rows, ids)[b] =
        IF \E a \in ids : heirOf[a] = b THEN [NoRow EXCEPT !.lifecycle = "active"]
        ELSE IF b \notin ids /\ rows[b].duplicateOf \in ids
        THEN [rows[b] EXCEPT !.duplicateOf = heirOf[rows[b].duplicateOf]]
        ELSE rows[b]
  BY DEF Reparented
<1> HIDE DEF heirOf
<1> QED BY <1>2, <1>3, <1>4

\* An export whose rows are dropped has leased them: its blobs are gone.
LEMMA ExportIsLeased ==
  ASSUME TypeInv, CopyInv, ReconInv, NEW r \in Requests, request[r].step = "drop", Kind(r) = "export"
  PROVE  \A a \in Moving(r) : ~Gets("vault", a)
<1>1. /\ Progress(request[r]) /\ ExportsAreFinal /\ VaultRowsHaveBytes
  BY DEF ReconInv, Orderly, Settled, CopyInv, HasBytes
<1>2. Now(r) \in Transfers /\ Moving(r) \in SUBSET Assets
  BY InHand DEF Handling, Completing, Deleting
<1>3. transfer[Now(r)].state \in FilesGone /\ Now(r) \in Journals("export")
  BY <1>1, <1>2 DEF Progress, Now, Kind, Journals, FilesGone
<1> QED BY <1>1, <1>2, <1>3 DEF ExportsAreFinal, VaultRowsHaveBytes, Copied, Moving

\* ... so nothing of the vault takes the place of one.
LEMMA ExportIsClosed ==
  ASSUME TypeInv, CopyInv, ReconInv, LeasedIsClosed, NEW r \in Requests, request[r].step = "drop",
         Kind(r) = "export"
  PROVE  \A a \in Moving(r) : Dependents(row["vault"], a) \subseteq Moving(r)
<1>1. Now(r) \in Transfers /\ Alive(transfer, Now(r))
  BY AtCompletion DEF Completing, Deleting
<1>2. Now(r) \in Journals("export") /\ From["export"] = "vault"
  BY <1>1 DEF Alive, Journals, Kind, From
<1> QED BY <1>2, ExportIsLeased DEF LeasedIsClosed, Moving

\* What Drop does unless it fails.
Rest(r) == LET rows == row[From[Kind(r)]]
           IN [a \in Assets |-> IF a \in Moving(r) THEN NoRow ELSE Reparented(rows, Moving(r))[a]]
Drops(r) ==
  LET d == From[Kind(r)] IN
  /\ UniquePrimaries(Rest(r))
  /\ row' = [row EXCEPT ![d] = Rest(r)]
  /\ blobRow' = IF d = "main" THEN blobRow
                ELSE [a \in Assets |-> IF a \in Moving(r) THEN 0 ELSE blobRow[a]]
  /\ Go(r, "dropped")

LEMMA DropCases ==
  ASSUME NEW r \in Requests, Drop(r)
  PROVE  /\ request[r].step = "drop" /\ request[r].step \in Deleting
         /\ UNCHANGED <<transfer, plain, blobs, staged, known, created, session>>
         /\ \/ /\ End(r) /\ UNCHANGED <<row, blobRow>>
               /\ ~request[r].live \/ ~UniquePrimaries(Rest(r))
            \/ Drops(r)
<1> HIDE DEF UniquePrimaries, End, Go
<1> QED BY DEF Drop, At, files, Drops, Rest, Deleting

\* ... and what it leaves of both databases.
LEMMA SourceDropped ==
  ASSUME TypeInv, NEW r \in Requests, request[r].step = "drop", Drops(r)
  PROVE  LET d == From[Kind(r)] IN
         /\ d \in Databases
         /\ \A e \in Databases \ {d} : row'[e] = row[e]
         /\ row'[d] = Rest(r)
         /\ \A a \in Moving(r) : row'[d][a] = NoRow
         /\ \A b \in Assets : b \notin Moving(r) =>
              /\ row'[d][b].lifecycle = "none" <=> row[d][b].lifecycle = "none"
              /\ row'[d][b].lifecycle = "purging" => row[d][b].lifecycle = "purging"
         /\ \A b \in Assets : row'[d][b].duplicateOf \notin Moving(r)
         /\ UniquePrimaries(row'[d])
         /\ blobRow' = IF d = "main" THEN blobRow
                       ELSE [a \in Assets |-> IF a \in Moving(r) THEN 0 ELSE blobRow[a]]
         /\ Go(r, "dropped")
<1> DEFINE d == From[Kind(r)]
           new == Rest(r)
<1>1. Moving(r) \in SUBSET Assets /\ Kind(r) \in {"import", "export"}
  BY InHand, KindInHand DEF Handling, Completing, Deleting
<1>2. d \in Databases /\ row[d] \in [Assets -> Row]
  BY <1>1, TypesOf DEF From, Databases, Tables
<1>3. /\ row' = [row EXCEPT ![d] = new] /\ UniquePrimaries(new)
      /\ blobRow' = IF d = "main" THEN blobRow
                    ELSE [a \in Assets |-> IF a \in Moving(r) THEN 0 ELSE blobRow[a]]
      /\ Go(r, "dropped")
  BY DEF Drops
<1> HIDE DEF d
<1>4. row'[d] = new /\ \A e \in Databases \ {d} : row'[e] = row[e]
  BY <1>2, <1>3, RowsOf
<1>5. /\ \A a \in Moving(r) : new[a] = NoRow
      /\ \A b \in Assets : b \notin Moving(r) =>
           /\ new[b].lifecycle = "none" <=> row[d][b].lifecycle = "none"
           /\ new[b].lifecycle = "purging" => row[d][b].lifecycle = "purging"
      /\ \A b \in Assets : new[b].duplicateOf \notin Moving(r)
  BY <1>1, <1>2, DroppedRows DEF Rest, d
<1> QED BY <1>2, <1>3, <1>4, <1>5 DEF d

\* Drop: the source rows go, and no other.
LEMMA DropKeeps ==
  ASSUME OneAtATime, TypeInv, CopyInv, ReconInv, LeasedIsClosed, NEW r \in Requests, Drop(r)
  PROVE  CopyInv'
<1> DEFINE d == From[Kind(r)]
           ids == Moving(r)
<1>1. /\ request[r].step = "drop" /\ request[r].step \in Deleting
      /\ request[r].step \in Completing \cup {"clear"}
      /\ request[r].step \in Handling
      /\ UNCHANGED <<transfer, plain, blobs, staged>>
  BY DropCases DEF Completing, Handling
<1>2. /\ Stands(request[r], transfer) /\ Holds(request[r]) /\ Alive(transfer, Now(r))
      /\ ids \in SUBSET Assets /\ Now(r) \in Transfers
  BY <1>1, AtCompletion
<1>3. (Kind(r) = "import" /\ d = "main") \/ (Kind(r) = "export" /\ d = "vault")
  BY <1>1, KindInHand DEF From
<1>4. /\ Kind(r) = "export" => \A a \in ids : Exists("main", a) => plain[a] = "whole"
      /\ Kind(r) # "export" => \A a \in ids : Gets("vault", a) /\ BlobHere(a)
  BY <1>1, <1>2 DEF Holds, Kind, Moving, Now
<1>5. CASE End(r) /\ UNCHANGED <<row, blobRow>>
  <2>1. UNCHANGED <<tables, files>>
    BY <1>1, <1>5 DEF tables, files
  <2> QED BY <1>5, <2>1, Ended, QuietKeeps
<1>6. CASE Drops(r)
  <2>1. request'[r].step = "dropped" /\ Alike(request'[r], request[r])
    BY <1>6, GoFields DEF Drops
  <2>2. /\ d \in Databases
        /\ \A e \in Databases \ {d} : row'[e] = row[e]
        /\ \A a \in ids : row'[d][a] = NoRow
        /\ \A b \in Assets : b \notin ids => (row'[d][b].lifecycle = "none" <=> row[d][b].lifecycle = "none")
        /\ blobRow' = IF d = "main" THEN blobRow
                      ELSE [a \in Assets |-> IF a \in ids THEN 0 ELSE blobRow[a]]
    BY <1>1, <1>6, SourceDropped
  <2>3. ASSUME Kind(r) = "export", NEW b \in Assets, b \notin ids, Exists("vault", b)
        PROVE  row'["vault"][b] = row["vault"][b]
    <3>1. \A a \in ids : Dependents(row["vault"], a) \subseteq ids
      BY <1>1, <2>3, ExportIsClosed
    <3>2. Reparented(row["vault"], ids)[b] = row["vault"][b]
      BY <1>2, <2>3, <3>1, NothingReparented DEF Exists
    <3>3. row'["vault"] = Rest(r) /\ Rest(r)[b] = Reparented(row["vault"], ids)[b]
      BY <1>1, <1>6, <2>3, SourceDropped DEF Rest, From
    <3> QED BY <3>2, <3>3
  <2>7. NoRow.lifecycle = "none"
    BY DEF NoRow
  <2> HIDE DEF d, ids
  <2>8. /\ \A e \in Databases, a \in Assets : Exists(e, a)' => Exists(e, a)
        /\ \A a \in Assets : Gets("vault", a)' => Gets("vault", a) /\ ~(d = "vault" /\ a \in ids)
        /\ \A a \in Assets : d = "main" \/ a \notin ids => Gets("vault", a)' = Gets("vault", a)
    <3>1. \A e \in Databases, a \in Assets : Exists(e, a)' => Exists(e, a)
      BY <2>2, <2>7 DEF Exists
    <3>2. ASSUME NEW a \in Assets, d = "main" \/ a \notin ids PROVE Gets("vault", a)' = Gets("vault", a)
      <4>1. CASE d = "main"
        BY <2>2, <4>1 DEF Gets, Databases
      <4>2. CASE d = "vault" /\ a \notin ids
        <5>1. CASE Exists("vault", a)
          BY <1>3, <2>3, <4>2, <5>1 DEF Gets
        <5>2. CASE ~Exists("vault", a)
          BY <2>2, <4>2, <5>2 DEF Exists, Gets
        <5> QED BY <5>1, <5>2
      <4> QED BY <1>3, <3>2, <4>1, <4>2
    <3>3. ASSUME NEW a \in Assets, d = "vault", a \in ids PROVE ~Gets("vault", a)'
      BY <2>2, <2>7, <3>3 DEF Gets
    <3> QED BY <1>3, <3>1, <3>2, <3>3
  <2>9. \A a \in Assets : d = "main" \/ a \notin ids => blobRow'[a] = blobRow[a]
    BY <2>2
  <2>10. VaultRowsHaveBytes'
    BY <1>1, <1>3, <2>8, <2>9 DEF CopyInv, HasBytes, VaultRowsHaveBytes, Copied
  <2>11. MainRowsHaveBytes'
    BY <1>1, <1>3, <1>4, <2>8 DEF CopyInv, HasBytes, MainRowsHaveBytes, Databases
  <2>12. Stands(request[r], transfer)'
    <3> HIDE DEF Alive
    <3> QED BY <1>1, <1>2, <2>1, CompletionStands DEF Completing, Deleting
  <2>13. Holds(request[r])'
    <3>1. /\ request'[r].t = Now(r) /\ transfer'[Now(r)].kind = Kind(r) /\ transfer'[Now(r)].ids = ids
      BY <1>1, <2>1 DEF Alike, Now, Kind, Moving, ids
    <3>2. /\ Kind(r) = "export" => \A a \in ids : Exists("main", a)' => plain'[a] = "whole"
          /\ Kind(r) # "export" => \A a \in ids : Gets("vault", a)' /\ BlobHere(a)'
      BY <1>1, <1>2, <1>3, <1>4, <2>8, <2>9 DEF Databases, BlobHere
    <3> QED BY <2>1, <3>1, <3>2 DEF Holds, Staging, Undoing, Deleting
  <2> QED BY <2>10, <2>11, <2>12, <2>13, OneThread DEF Fine, HasBytes
<1> QED BY <1>5, <1>6, DropCases

\* Unmark: the blobs are where they belong, so the marker guards nothing more.
LEMMA UnmarkKeeps ==
  ASSUME OneAtATime, TypeInv, CopyInv, NEW r \in Requests, Unmark(r)
  PROVE  CopyInv'
<1> DEFINE s == IF Kind(r) = "ingest" THEN "clear" ELSE "close"
<1>1. /\ request[r].step = "unmark" /\ request[r].step \in Completing \cup {"clear"}
      /\ UNCHANGED <<row, blobRow, plain, blobs, staged>>
      /\ transfer' = [transfer EXCEPT ![Now(r)].marker = FALSE] /\ Go(r, s)
  BY DEF Unmark, At, Completing, files
<1>2. /\ Stands(request[r], transfer) /\ Holds(request[r]) /\ Alive(transfer, Now(r))
      /\ Now(r) \in Transfers /\ request[r] \in Request
  BY <1>1, AtCompletion
<1>3. Kind(r) # "export" => \A a \in Moving(r) : Gets("vault", a) /\ BlobHere(a)
  BY <1>1, <1>2 DEF Holds, Kind, Moving, Now
<1>4. ASSUME NEW t \in Transfers
      PROVE  /\ transfer'[t].kind = transfer[t].kind /\ transfer'[t].ids = transfer[t].ids
             /\ transfer'[t].state = transfer[t].state
             /\ t # Now(r) => transfer'[t].marker = transfer[t].marker
  <2>1. transfer'[t] = IF t = Now(r) THEN [transfer[t] EXCEPT !.marker = FALSE] ELSE transfer[t]
    BY <1>1, TypesOf
  <2>2. transfer[t] \in Transfer
    BY TypesOf
  <2> QED BY <2>1, <2>2 DEF Transfer
<1>5. request'[r].step = s /\ Alike(request'[r], request[r]) /\ s \in {"clear", "close"}
  BY <1>1, GoFields
<1> HIDE DEF s
<1>7. MainRowsHaveBytes'
  BY <1>1 DEF CopyInv, HasBytes, MainRowsHaveBytes, Gets, Exists
<1>8. VaultRowsHaveBytes'
  <2> SUFFICES ASSUME NEW a \in Assets, Gets("vault", a) PROVE Copied(a)'
    BY <1>1 DEF VaultRowsHaveBytes, Gets
  <2>1. Copied(a)
    BY DEF CopyInv, HasBytes, VaultRowsHaveBytes
  <2>2. CASE blobRow[a] = Now(r)
    <3>1. BlobHere(a)
      BY <1>3, <2>1, <2>2 DEF Copied, Kind, Moving
    <3> QED BY <1>1, <1>4, <2>1, <3>1 DEF Copied, BlobHere
  <2>3. CASE blobRow[a] # Now(r)
    BY <1>1, <1>4, <2>1, <2>3 DEF Copied
  <2> QED BY <2>2, <2>3
<1>9. Stands(request[r], transfer)'
  <2>1. \A x \in request[r].todo : x[1] \in Transfers
    BY <1>2 DEF Request
  <2>2. Alive(transfer', Now(r)) /\ \A x \in request[r].todo : Alive(transfer, x[1]) => Alive(transfer', x[1])
    BY <1>2, <1>4, <2>1 DEF Alive
  <2> HIDE DEF Alive
  <2> QED BY <1>1, <1>5, <2>2, CompletionStands DEF Completing
<1>10. Holds(request[r])'
  <2>1. /\ request'[r].t = Now(r) /\ transfer'[Now(r)].kind = Kind(r) /\ transfer'[Now(r)].ids = Moving(r)
        /\ \A a \in Assets : Gets("vault", a)' = Gets("vault", a) /\ BlobHere(a)' = BlobHere(a)
    BY <1>1, <1>2, <1>4, <1>5 DEF Alike, Now, Kind, Moving, Gets, BlobHere
  <2>2. Moving(r) \in SUBSET Assets
    BY <1>1, AtCompletion
  <2> QED BY <1>3, <1>5, <2>1, <2>2 DEF Holds, Staging, Undoing, Deleting
<1> QED BY <1>7, <1>8, <1>9, <1>10, OneThread DEF Fine, HasBytes

\* Close: the journal goes; an import's directory may follow it.
LEMMA CloseKeeps ==
  ASSUME OneAtATime, TypeInv, CopyInv, NEW r \in Requests, Close(r)
  PROVE  CopyInv'
<1>1. /\ request[r].step = "close" /\ request[r].step \in Completing \cup {"clear"}
      /\ request[r].step \in Handling /\ SetState(Now(r), "none") /\ "none" \in States
      /\ UNCHANGED <<row, blobRow, plain, blobs, staged>>
  BY DEF Close, At, Completing, Handling, files, States, Rank
<1>2. /\ HasBytes'
      /\ \A t \in Transfers : transfer'[t].kind = transfer[t].kind /\ transfer'[t].ids = transfer[t].ids
      /\ \A x \in request[r].todo : Alive(transfer, x[1]) => Alive(transfer', x[1])
  <2> HIDE DEF Alive
  <2> QED BY <1>1, StateSetKeeps
<1>3. CASE Return(r)
  <2> HIDE DEF Alive
  <2> QED BY <1>1, <1>2, <1>3, ReturnFine, OneThread
<1>4. CASE Kind(r) = "import" /\ Go(r, "clear")
  <2>1. request'[r].step = "clear" /\ Alike(request'[r], request[r])
    BY <1>4, GoFields
  <2>2. Stands(request[r], transfer)'
    <3> HIDE DEF Alive
    <3> QED BY <1>1, <1>2, <2>1, CompletionStands
  <2>3. Holds(request[r]) /\ Now(r) \in Transfers /\ Moving(r) \in SUBSET Assets
    BY <1>1, AtCompletion
  <2>4. \A a \in Moving(r) : Gets("vault", a) /\ BlobHere(a)
    BY <1>1, <1>4, <2>3 DEF Holds, Kind, Moving, Now
  <2>5. /\ request'[r].t = Now(r) /\ transfer'[Now(r)].ids = Moving(r)
        /\ \A a \in Assets : Gets("vault", a)' = Gets("vault", a) /\ BlobHere(a)' = BlobHere(a)
    BY <1>1, <1>2, <2>1, <2>3 DEF Alike, Now, Moving, Gets, BlobHere
  <2>6. Holds(request[r])'
    BY <2>1, <2>3, <2>4, <2>5 DEF Holds, Staging, Undoing, Deleting
  <2> QED BY <1>2, <2>2, <2>6, OneThread DEF Fine
<1> QED BY <1>3, <1>4 DEF Close

\* Clear: what is left in the directory is nobody's.
LEMMA ClearKeeps ==
  ASSUME OneAtATime, TypeInv, CopyInv, NEW r \in Requests, Clear(r)
  PROVE  CopyInv'
<1>1. /\ request[r].step = "clear" /\ request[r].step \in Completing \cup {"clear"}
      /\ request[r].step \in Handling
      /\ staged' = staged \ StagedBy(Now(r)) /\ Return(r) /\ UNCHANGED <<tables, plain, blobs>>
      /\ transfer' = transfer
  BY DEF Clear, At, Handling, tables
<1>2. Holds(request[r]) /\ Kind(r) \in {"import", "ingest"}
  BY <1>1, AtCompletion, KindInHand
<1>3. \A a \in Moving(r) : BlobHere(a)
  BY <1>1, <1>2 DEF Holds, Kind, Moving, Now
<1>4. staged' \subseteq staged /\ \A t, a : <<t, a>> \in staged \ staged' => t = Now(r)
  BY <1>1 DEF StagedBy
<1>5. HasBytes'
  BY <1>1, <1>3, <1>4, StagedGoes DEF Moving, BlobHere
<1>6. Fine(r)'
  <2>1. \A x \in request[r].todo : Alive(transfer, x[1]) => Alive(transfer', x[1])
    BY <1>1
  <2> HIDE DEF Alive
  <2> QED BY <1>1, <2>1, ReturnFine
<1> QED BY <1>5, <1>6, OneThread

\* Every step of a completion.
LEMMA CompletesKeeps ==
  ASSUME OneAtATime, TypeInv, CopyInv, ReconInv, LeasedIsClosed, NEW r \in Requests, Completes(r)
  PROVE  CopyInv'
BY CompleteKeeps, FinalizeKeeps, ValidateKeeps, ReadyKeeps, LeaseKeeps, DeleteFileKeeps,
   FilesDeletedKeeps, DropKeeps, DroppedKeeps, UnmarkKeeps, CloseKeeps, ClearKeeps DEF Completes

-----------------------------------------------------------------------------
(* Requests that begin, the main library, faults.                          *)

\* A request that begins has no list and no transfer yet.
LEMMA BeginKeeps ==
  ASSUME OneAtATime, TypeInv, CopyInv, NEW r \in Requests, UNCHANGED <<tables, files>>,
         NEW k \in {"import", "export", "unlock"}, NEW ids \in SUBSET Assets,
         NEW step \in {"list", "prepare"}, NEW phase \in Phases,
         Become(r, [Idle EXCEPT !.step = step, !.kind = k, !.live = TRUE, !.ids = ids, !.phase = phase])
  PROVE  CopyInv'
<1> DEFINE q == [Idle EXCEPT !.step = step, !.kind = k, !.live = TRUE, !.ids = ids, !.phase = phase]
<1>1. ASSUME NEW p \in Request
      PROVE  LET x == [p EXCEPT !.step = step, !.kind = k, !.live = TRUE, !.ids = ids, !.phase = phase]
             IN x.step = step /\ x.todo = p.todo
  BY DEF Request
<1>2. q.step = step /\ q.todo = {}
  BY <1>1, IdleFields, IdleIsRequest
<1>3. request'[r] = q
  BY Became
<1> HIDE DEF q
<1>4. step \notin Handling /\ step \in Resting
  BY DEF Handling, Staging, Undoing, Completing, Deleting, Resting
<1>5. Stands(request[r], transfer)'
  BY <1>2, <1>3, <1>4 DEF Stands
<1> QED BY <1>2, <1>3, <1>4, <1>5, RestingHolds, QuietKeeps DEF Fine

\* BeginUnlock: reconciliation will list every journal and every marker.
LEMMA BeginUnlockKeeps ==
  ASSUME OneAtATime, TypeInv, CopyInv, NEW r \in Requests, BeginUnlock(r)
  PROVE  CopyInv'
<1> DEFINE q == [Idle EXCEPT !.step = "list", !.kind = "unlock", !.live = TRUE, !.phase = "open"]
<1>1. UNCHANGED <<tables, files>> /\ Become(r, q)
  BY DEF BeginUnlock
<1>2. q.step = "list" /\ q.todo = {}
  <2>1. ASSUME NEW p \in Request
        PROVE  LET x == [p EXCEPT !.step = "list", !.kind = "unlock", !.live = TRUE, !.phase = "open"]
               IN x.step = "list" /\ x.todo = p.todo
    BY DEF Request
  <2> QED BY <2>1, IdleFields, IdleIsRequest
<1>3. request'[r] = q
  BY <1>1, Became
<1> HIDE DEF q
<1>4. "list" \notin Handling
  BY DEF Handling, Staging, Undoing, Completing, Deleting
<1>5. Stands(request[r], transfer)'
  BY <1>2, <1>3, <1>4 DEF Stands
<1> QED BY <1>1, <1>2, <1>3, <1>5, RestingHolds, QuietKeeps DEF Fine, Resting

\* A direct upload has its transfer, without journal and marker.
LEMMA BeginIngestKeeps ==
  ASSUME OneAtATime, TypeInv, TypeInv', CopyInv, NEW r \in Requests, NEW a \in Assets, BeginIngest(r, a)
  PROVE  CopyInv'
<1> DEFINE u == [NoTransfer EXCEPT !.kind = "ingest", !.ids = {a}]
           q(n) == [Idle EXCEPT !.step = "stage", !.kind = "ingest", !.live = TRUE, !.ids = {a},
                                !.own = n, !.t = n, !.left = {a}]
<1>1. /\ Become(r, q(created')) /\ created' = created + 1
      /\ transfer' = [transfer EXCEPT ![created'] = u]
      /\ UNCHANGED <<row, blobRow, plain, blobs, staged>>
  BY DEF BeginIngest, files
<1>2. u \in Transfer /\ u.kind = "ingest" /\ ~u.marker
  BY DEF NoTransfer, Transfer, Kinds, States, Rank
<1>3. ASSUME NEW p \in Request
      PROVE  LET x == [p EXCEPT !.step = "stage", !.kind = "ingest", !.live = TRUE, !.ids = {a},
                                !.own = created', !.t = created', !.left = {a}]
             IN /\ x.t = created' /\ x.todo = p.todo /\ x.kind = "ingest" /\ x.step = "stage"
                /\ x.ids = {a} /\ x.left = {a}
  BY DEF Request
<1> DEFINE p == q(created')
<1>4. /\ p.t = created' /\ p.todo = {} /\ p.kind = "ingest" /\ p.step = "stage"
      /\ p.ids = {a} /\ p.left = {a}
  BY <1>3, IdleFields, IdleIsRequest
<1>5. request'[r] = p
  BY <1>1, Became
<1> HIDE DEF p, u
<1>6. /\ HasBytes'
      /\ created' \in Transfers /\ transfer'[created'] = u
  BY <1>1, <1>2, NewTransfer
<1>7. Stands(request[r], transfer)'
  BY <1>2, <1>4, <1>5, <1>6 DEF Stands, Alive
<1>8. Holds(request[r])'
  BY <1>2, <1>4, <1>5, <1>6 DEF Holds, Staging, Undoing, Deleting
<1> QED BY <1>6, <1>7, <1>8, OneThread DEF Fine

\* Every request that begins.
LEMMA BeginsKeeps ==
  ASSUME OneAtATime, TypeInv, TypeInv', CopyInv, NEW r \in Requests, Begins(r)
  PROVE  CopyInv'
<1>1. ASSUME NEW ids \in SUBSET Assets, NEW k \in {"import", "export"}, NEW step \in {"list", "prepare"},
             BeginMove(r, k, ids, step)
      PROVE  CopyInv'
  <2> DEFINE phase == IF step = "list" THEN "import" ELSE "none"
  <2>1. phase \in Phases
    BY DEF Phases
  <2>2. /\ Become(r, [Idle EXCEPT !.step = step, !.kind = k, !.live = TRUE, !.ids = ids, !.phase = phase])
        /\ UNCHANGED <<tables, files>>
    BY <1>1 DEF BeginMove
  <2> HIDE DEF phase
  <2> QED BY <2>1, <2>2, BeginKeeps
<1>2. ASSUME NEW ids \in SUBSET Assets, BeginImport(r, ids) \/ BeginExport(r, ids) PROVE CopyInv'
  BY <1>1, <1>2 DEF BeginImport, BeginExport
<1> QED BY <1>2, BeginIngestKeeps DEF Begins

\* What the main library's handlers write: a row that is there has its file as
\* it was or whole, and refers to nothing that a journal names.
LEMMA LibraryWrites ==
  ASSUME TypeInv, Library \/ Purges
  PROVE  /\ UNCHANGED <<blobRow, transfer, blobs, staged, request>>
         /\ row'["vault"] = row["vault"]
         /\ \A a \in Assets :
              Exists("main", a)' => plain'[a] = "whole" \/ (Exists("main", a) /\ plain'[a] = plain[a])
<1> DEFINE Wrote(a, x) == x.lifecycle # "none" => plain'[a] = "whole"
                                                \/ (Exists("main", a) /\ plain'[a] = plain[a])
<1>1. /\ row \in [Databases -> [Assets -> Row]] /\ plain \in [Assets -> {"absent", "partial", "whole"}]
      /\ row["main"] \in [Assets -> Row] /\ "main" \in Databases /\ "vault" \in Databases
  BY TypesOf DEF Tables, Files, Databases
<1>2. UNCHANGED <<blobRow, transfer, blobs, staged, request>>
  BY LibraryRows
<1>3. ASSUME NEW a \in Assets, NEW x,
             row' = [row EXCEPT !["main"] = [row["main"] EXCEPT ![a] = x]],
             \A b \in Assets \ {a} : plain'[b] = plain[b],
             Wrote(a, x)
      PROVE  /\ row'["vault"] = row["vault"]
             /\ \A b \in Assets : Wrote(b, row'["main"][b])
  <2>1. /\ row'["vault"] = row["vault"]
        /\ \A b \in Assets : row'["main"][b] = IF b = a THEN x ELSE row["main"][b]
    BY <1>1, <1>3
  <2> QED BY <1>3, <2>1 DEF Exists
<1>4. SUFFICES row'["vault"] = row["vault"] /\ \A b \in Assets : Wrote(b, row'["main"][b])
  BY <1>2 DEF Exists
<1>5. CASE \E a \in Assets : Upload(a)
  <2>1. PICK a \in Assets : Upload(a)
    BY <1>5
  <2> DEFINE x == Placed(row["main"], Journaled("main"), a, Fresh)
  <2>2. /\ row' = [row EXCEPT !["main"] = [row["main"] EXCEPT ![a] = x]]
        /\ plain' = [plain EXCEPT ![a] = "whole"]
    BY <2>1 DEF Upload
  <2> HIDE DEF x
  <2>3. plain'[a] = "whole" /\ \A b \in Assets \ {a} : plain'[b] = plain[b]
    BY <1>1, <2>2
  <2> QED BY <1>3, <2>2, <2>3
<1>6. CASE \E a \in Assets : PurgeFree(a)
  <2>1. PICK a \in Assets : PurgeFree(a)
    BY <1>6
  <2>2. NoRow.lifecycle = "none"
    BY DEF NoRow
  <2>3. /\ row' = [row EXCEPT !["main"] = [row["main"] EXCEPT ![a] = NoRow]]
        /\ plain' = [plain EXCEPT ![a] = "absent"]
    BY <2>1 DEF PurgeFree
  <2>4. \A b \in Assets \ {a} : plain'[b] = plain[b]
    BY <1>1, <2>3
  <2> QED BY <1>3, <2>2, <2>3, <2>4
<1>7. CASE \E a \in Assets : Trash("main", a) \/ MarkPurging(a) \/ RestoreBlocked(a)
  <2>1. PICK a \in Assets : Trash("main", a) \/ MarkPurging(a) \/ RestoreBlocked(a)
    BY <1>7
  <2>2. Exists("main", a) /\ plain' = plain
    BY <2>1 DEF Trash, MarkPurging, RestoreBlocked, Gets, Exists, files
  <2>3. PICK s : \/ row' = [row EXCEPT !["main"] = [row["main"] EXCEPT ![a].lifecycle = s]]
                 \/ row' = [row EXCEPT !["main"] = [row["main"] EXCEPT ![a] =
                              [row["main"][a] EXCEPT !.lifecycle = s, !.trashed = TRUE]]]
    BY <2>1 DEF Trash, MarkPurging, RestoreBlocked
  <2> DEFINE y == [row["main"][a] EXCEPT !.lifecycle = s]
             z == [row["main"][a] EXCEPT !.lifecycle = s, !.trashed = TRUE]
  <2>4. \/ row' = [row EXCEPT !["main"] = [row["main"] EXCEPT ![a] = y]]
        \/ row' = [row EXCEPT !["main"] = [row["main"] EXCEPT ![a] = z]]
    BY <2>3
  <2> HIDE DEF y, z
  <2> QED BY <1>3, <2>2, <2>4
<1> QED BY <1>5, <1>6, <1>7 DEF Library, Purges

\* The main library's handlers meet a transfer anywhere.
LEMMA LibraryKeeps ==
  ASSUME TypeInv, CopyInv, Library \/ Purges
  PROVE  CopyInv'
<1>1. /\ UNCHANGED <<blobRow, transfer, blobs, staged, request>>
      /\ row'["vault"] = row["vault"]
      /\ \A a \in Assets : Exists("main", a)' => plain'[a] = "whole" \/ (Exists("main", a) /\ plain'[a] = plain[a])
  <2> HIDE DEF Exists
  <2> QED BY LibraryWrites
<1>2. \A a : Gets("vault", a)' = Gets("vault", a) /\ BlobHere(a)' = BlobHere(a)
  BY <1>1 DEF Gets, BlobHere
<1>4. VaultRowsHaveBytes'
  BY <1>1, <1>2 DEF CopyInv, HasBytes, VaultRowsHaveBytes, Copied
<1>5. MainRowsHaveBytes'
  BY <1>1, <1>2 DEF CopyInv, HasBytes, MainRowsHaveBytes
<1>6. ASSUME NEW s \in Requests PROVE Fine(s)'
  <2>1. Stands(request[s], transfer) /\ Holds(request[s])
    BY DEF CopyInv, Fine
  <2>2. Stands(request[s], transfer)'
    BY <1>1, <2>1 DEF Stands, Alive
  <2>3. Holds(request[s])'
    <3>1. \A k : Markers(k)' = Markers(k)
      BY <1>1 DEF Markers
    <3>2. request[s].step \in Deleting => \A a \in transfer[request[s].t].ids : a \in Assets
      <4>1. Deleting \subseteq Handling
        BY DEF Handling, Completing
      <4> QED BY <4>1, InHand DEF Now, Moving
    <3> HIDE DEF Staging, Undoing, Deleting
    <3> QED BY <1>1, <1>2, <2>1, <3>1, <3>2 DEF Holds
  <2> QED BY <2>2, <2>3 DEF Fine
<1> QED BY <1>4, <1>5, <1>6 DEF CopyInv, HasBytes

\* Trash and restore: no row comes, goes, or is a tombstone that was none.
LEMMA RelabelsKeeps ==
  ASSUME TypeInv, CopyInv, Relabels
  PROVE  CopyInv'
<1>1. UNCHANGED <<blobRow, transfer, plain, blobs, staged, request>> /\ "main" \in Databases /\ "vault" \in Databases
  BY DEF Relabels, Databases
<1>2. /\ \A d \in Databases, a \in Assets : Exists(d, a)' = Exists(d, a) /\ Gets(d, a)' = Gets(d, a)
      /\ \A a : BlobHere(a)' = BlobHere(a)
  BY DEF Relabels, Exists, Gets, BlobHere
<1>3. HasBytes'
  <2> HIDE DEF Exists, Gets
  <2> QED BY <1>1, <1>2 DEF CopyInv, HasBytes, VaultRowsHaveBytes, MainRowsHaveBytes, Copied
<1>4. ASSUME NEW s \in Requests PROVE Fine(s)'
  <2>1. Stands(request[s], transfer) /\ Holds(request[s])
    BY DEF CopyInv, Fine
  <2>2. Stands(request[s], transfer)'
    BY <1>1, <2>1 DEF Stands, Alive
  <2>3. /\ request[s] \in Request
        /\ request[s].step = "unlink" => request[s].file \in Assets
        /\ request[s].step \in Handling => transfer[request[s].t].ids \in SUBSET Assets
    BY TypesOf, InHand DEF TypeInv, ThreadsAreSound, Sound, Now, Moving
  <2>4. Holds(request[s])'
    <3>1. \A k : Markers(k)' = Markers(k)
      BY <1>1 DEF Markers
    <3>2. request[s].ids \in SUBSET Assets /\ Deleting \cup {"unmark", "close", "clear"} \subseteq Handling
      BY <2>3 DEF Request, Handling, Completing
    <3>3. request[s].step \in Deleting \cup {"unmark", "close", "clear"} => request[s].step \in Handling
      BY DEF Handling, Completing
    <3>4. request[s].step = "delete" => request[s].step \in Deleting
      BY DEF Deleting
    <3> DEFINE q == request[s]
    <3>5. /\ q' = q /\ q.ids \in SUBSET Assets
          /\ q.step \in Deleting \cup {"unmark", "close", "clear"} => transfer[q.t].ids \in SUBSET Assets
          /\ q.step \in Deleting \/ q.step = "finalize" => q.step \in Handling
      BY <1>1, <2>3, <3>2, <3>3 DEF Handling, Completing
    <3> HIDE DEF Staging, Undoing, Deleting, Handling, q
    <3>6. /\ q.step \in {"open"} \cup Staging /\ q.kind = "export" => \A a \in q.ids : Gets("vault", a)'
          /\ q.step = "unlink" => Gets("vault", q.file)'
          /\ q.step \in Deleting /\ transfer[q.t].kind = "export" =>
               \A a \in transfer[q.t].ids : Exists("main", a)' => plain[a] = "whole"
      <4> HIDE DEF Exists, Gets
      <4> QED BY <1>1, <1>2, <2>1, <2>3, <3>4, <3>5 DEF Holds, q
    <3>7. /\ q.step = "delete" /\ transfer[q.t].kind = "export" =>
               \A a \in transfer[q.t].ids : ~Gets("vault", a)'
          /\ q.step \in Deleting \cup {"unmark", "close", "clear"} /\ transfer[q.t].kind # "export" =>
               \A a \in transfer[q.t].ids : Gets("vault", a)' /\ BlobHere(a)
      <4> HIDE DEF Exists, Gets
      <4> QED BY <1>1, <1>2, <2>1, <2>3, <3>4, <3>5 DEF Holds, q
    <3> HIDE DEF Exists, Gets, BlobHere
    <3>8. q = request[s]
      BY DEF q
    <3> QED BY <1>1, <1>2, <2>1, <3>1, <3>5, <3>6, <3>7, <3>8 DEF Holds
  <2> QED BY <2>2, <2>4 DEF Fine
<1> QED BY <1>3, <1>4 DEF CopyInv

\* An operation fails: what a failing write removes is in the vault.
LEMMA StumbleKeeps ==
  ASSUME OneAtATime, TypeInv, CopyInv, NEW r \in Requests, Stumble(r)
  PROVE  CopyInv'
<1>1. UNCHANGED <<tables, blobs, staged>> /\ UNCHANGED <<row, transfer>>
  BY DEF Stumble, tables
<1>2. HasBytes'
  <2>1. CASE request[r].step = "write"
    <3>1. plain' = [plain EXCEPT ![request[r].file] = "absent"]
      BY <2>1 DEF Stumble, At
    <3>2. \A b \in Assets : plain'[b] = plain[b] \/ b = request[r].file
      BY <3>1, TypesOf DEF Files
    <3>3. /\ Holds(request[r])
          /\ request[r].kind = "export" => \A b \in request[r].ids : Gets("vault", b)
      BY <2>1, AtStage DEF Staging
    <3>4. request[r].file \in request[r].ids /\ request[r].kind = "export"
      BY <2>1, <3>3 DEF Holds, TypeInv, ThreadsAreSound, Sound
    <3> QED BY <1>1, <3>2, <3>3, <3>4, PlainChanges
  <2>2. CASE request[r].step # "write"
    <3>1. UNCHANGED <<tables, files>>
      BY <1>1, <2>2 DEF Stumble, At, files
    <3> QED BY <3>1, NothingMoved DEF CopyInv
  <2> QED BY <2>1, <2>2
<1>3. CASE End(r)
  BY <1>2, <1>3, Ended, OneThread
<1>4. CASE /\ request[r].step \in {"stage", "write"}
           /\ Become(r, [request[r] EXCEPT !.step = "abort", !.file = NoAsset])
  <2>1. request'[r] = [request[r] EXCEPT !.step = "abort", !.file = NoAsset]
    BY <1>4, Became
  <2>2. request[r] \in Request
    BY TypesOf
  <2>3. /\ request'[r].step = "abort" /\ Alike(request'[r], request[r])
        /\ request'[r].left = request[r].left
    BY <2>1, <2>2 DEF Request, Alike
  <2>4. Fine(r)'
    BY <1>1, <1>4, <2>3, StagingFine DEF Staging
  <2> QED BY <1>2, <2>4, OneThread
<1> QED BY <1>3, <1>4 DEF Stumble

\* The invariant holds at first ...
LEMMA InitKeeps == Init => CopyInv
<1> SUFFICES ASSUME Init PROVE CopyInv
  OBVIOUS
<1>1. NoTransfer.state = "none" /\ NoRow.lifecycle = "none"
  BY DEF NoTransfer, NoRow
<1>2. HasBytes
  BY <1>1 DEF Init, HasBytes, VaultRowsHaveBytes, MainRowsHaveBytes, Gets, Exists, Databases
<1>3. ASSUME NEW r \in Requests PROVE Fine(r)
  <2>1. request[r].step = "idle" /\ request[r].todo = {}
    BY IdleFields DEF Init
  <2>2. "idle" \notin Handling
    BY DEF Handling, Staging, Undoing, Completing, Deleting
  <2>3. Stands(request[r], transfer)
    BY <2>1, <2>2 DEF Stands
  <2>4. Holds(request[r])
    BY <2>1 DEF Holds, Staging, Undoing, Deleting
  <2> QED BY <2>3, <2>4 DEF Fine
<1> QED BY <1>2, <1>3 DEF CopyInv

\* ... and every step keeps it.
LEMMA NextKeeps ==
  OneAtATime => (TypeInv /\ TypeInv' /\ CopyInv /\ ReconInv /\ LeasedIsClosed /\ [Next]_vars => CopyInv')
<1> SUFFICES ASSUME OneAtATime, TypeInv, TypeInv', CopyInv, ReconInv, LeasedIsClosed, [Next]_vars PROVE CopyInv'
  OBVIOUS
<1>1. ASSUME NEW r \in Requests, BeginUnlock(r) \/ Begins(r) \/ Proceed(r) PROVE CopyInv'
  BY <1>1, BeginUnlockKeeps, BeginsKeeps, ReconcilesKeeps, StagesKeeps, CompletesKeeps DEF Proceed
<1>2. CASE Lock
  BY <1>2, LockKeeps
<1>3. CASE Library \/ Purges
  BY <1>3, LibraryKeeps
<1>4. CASE Faults
  BY <1>4, CrashKeeps, StumbleKeeps DEF Faults
<1>6. CASE VaultTrash \/ Restores
  BY <1>6, RelabelsRows, RelabelsKeeps
<1>5. CASE UNCHANGED vars
  <2>1. UNCHANGED <<tables, files>> /\ request' = request
    BY <1>5 DEF vars, tables, files
  <2> QED BY <2>1, RevokedKeeps
<1> QED BY <1>1, <1>2, <1>3, <1>4, <1>5, <1>6 DEF Next

-----------------------------------------------------------------------------
(* What reconciliation leaves, one request at a time.                      *)

\* An unlock that answers has met every journal, marker and directory.
LEMMA ReconciledAtIssue == TypeInv /\ ReconInv => IssuedIsReconciled
<1> SUFFICES ASSUME TypeInv, ReconInv, NEW r \in Requests, request[r].step = "issue"
             PROVE  /\ Pending = {} /\ staged = {}
                    /\ \A a \in Assets : ~(Exists("main", a) /\ Exists("vault", a))
                    /\ \A x \in blobs : blobRow[x[2]] = x[1]
  BY DEF IssuedIsReconciled, At
<1>1. /\ Settled /\ Listing(request[r]) /\ Clean(request[r])
  BY DEF ReconInv, Orderly
<1>2. Journals("import") = {} /\ Journals("export") = {} /\ Markers("ingest") = {} /\ Swept(request[r])
  BY <1>1 DEF Listing, Starts, Sweeps, Swept
<1>3. \A t \in Transfers : transfer[t].state = "none" /\ ~transfer[t].marker
  <2> SUFFICES ASSUME NEW t \in Transfers PROVE transfer[t].state = "none" /\ ~transfer[t].marker
    OBVIOUS
  <2>1. transfer[t].kind \in {"import", "export", "ingest", "none"}
    BY TypesOf DEF Transfer, Kinds
  <2>2. CASE transfer[t].kind = "none"
    BY <2>2 DEF TypeInv, Begun, NoTransfer
  <2>3. CASE transfer[t].kind \in {"import", "export"}
    BY <1>1, <1>2, <2>3 DEF Journals, Settled, JournalsFit
  <2>4. CASE transfer[t].kind = "ingest"
    BY <1>1, <1>2, <2>4 DEF Markers, Settled, JournalsFit
  <2> QED BY <2>1, <2>2, <2>3, <2>4
<1>4. Pending = {}
  BY <1>3 DEF Pending
<1>5. staged = {}
  BY <1>1, <1>2 DEF Clean
<1>6. \A a \in Assets : ~(Exists("main", a) /\ Exists("vault", a))
  BY <1>1, <1>3 DEF Settled, BothAreMarked
<1> QED BY <1>1, <1>4, <1>5, <1>6 DEF Settled, BlobsAreNamed

\* A thread without a list and a transfer is in order.
LEMMA IdleOrderly ==
  ASSUME NEW r \in Requests, request'[r].step = "idle", request'[r].phase = "none",
         request'[r].todo = {}
  PROVE  Orderly(request[r])'
BY DEF Orderly, Knows, Progress, Listing, Clean, Swept, Places, Parted, Staging, Sweeps, Starts

\* ... as every request is when it ends.
LEMMA EndOrderly ==
  ASSUME TypeInv, NEW r \in Requests, End(r)
  PROVE  Orderly(request[r])'
<1>1. request'[r] = Idle
  BY Became DEF End
<1>2. request'[r].phase = "none" /\ request'[r].step = "idle" /\ request'[r].todo = {}
  BY <1>1 DEF Idle
<1> QED BY <1>2, IdleOrderly

\* With one thread, its record decides.
LEMMA OneInOrder ==
  ASSUME OneAtATime, NEW r \in Requests, Orderly(request[r])', Settled'
  PROVE  ReconInv'
<1>1. \A s \in Requests : s = r
  BY DEF OneAtATime
<1>2. \A s \in Requests : Orderly(request[s])'
  BY <1>1
<1> QED BY <1>2 DEF ReconInv

\* A step that only reads, or writes files of the main library.
Reads == UNCHANGED <<row, blobRow, transfer, blobs, staged, known, created>>

\* ... keeps what is settled.
LEMMA ReadsSettled == Settled /\ Reads => Settled'
<1> SUFFICES ASSUME Settled, Reads PROVE Settled'
  OBVIOUS
<1>1. KnownOnce'
  BY DEF Settled, Reads, KnownOnce, Exists
<1>2. JournalsFit' /\ StagedKinds' /\ BlobsAreNamed' /\ BlobOnce'
  BY DEF Settled, Reads, JournalsFit, StagedKinds, BlobsAreNamed, BlobOnce
<1>3. BlobsHaveRows'
  BY DEF Settled, Reads, BlobsHaveRows, Exists
<1>4. ExportsAreFinal'
  BY DEF Settled, Reads, ExportsAreFinal, Journals
<1>5. BothAreMarked'
  BY DEF Settled, Reads, BothAreMarked, Exists
<1> QED BY <1>1, <1>2, <1>3, <1>4, <1>5 DEF Settled

\* A thread that goes on with the transfer in hand, while no journal and no
\* upload's marker comes up.
LEMMA ListingOn ==
  ASSUME NEW r \in Requests, Listing(request[r]), Alike(request'[r], request[r]),
         request[r].step \in Handling, request'[r].step \in Handling,
         request'[r].step \in Staging => request[r].step \in Staging,
         \A k \in {"import", "export"} : Journals(k)' \subseteq Journals(k),
         Markers("ingest")' \subseteq Markers("ingest")
  PROVE  Listing(request[r])'
<1>1. Handling \cap (Sweeps \cup {"list", "issue", "prepare", "open"}) = {}
  BY DEF Handling, Staging, Undoing, Completing, Deleting, Sweeps
<1>2. Unmet(request[r])' = Unmet(request[r])
  BY DEF Unmet, Alike
<1> HIDE DEF Handling, Staging, Unmet
<1> QED BY <1>1, <1>2 DEF Listing, Alike, Starts, Sweeps

\* ... and one that is done with it.
LEMMA ListingNext ==
  ASSUME NEW r \in Requests, Listing(request[r]), Alike(request'[r], request[r]),
         request[r].step \in Handling, request'[r].step = "next",
         \A k \in {"import", "export"} : Journals(k)' \subseteq Journals(k) \ {request[r].t},
         Markers("ingest")' \subseteq Markers("ingest") \ {request[r].t}
  PROVE  Listing(request[r])'
<1>1. Handling \cap (Sweeps \cup {"list", "issue", "prepare", "open", "next"}) = {}
  BY DEF Handling, Staging, Undoing, Completing, Deleting, Sweeps
<1>2. Unmet(request[r]) \ {request[r].t} \subseteq Unmet(request[r])'
  BY DEF Unmet, Alike
<1>3. "next" \notin Sweeps \cup Starts \cup {"list"}
  BY DEF Sweeps, Starts, Staging
<1> HIDE DEF Handling, Staging, Unmet
<1> QED BY <1>1, <1>2, <1>3 DEF Listing, Alike, Starts, Sweeps

\* A step of one thread that only reads leaves everything settled.
LEMMA ReadsOrder ==
  ASSUME OneAtATime, ReconInv, NEW r \in Requests, Reads, Orderly(request[r])'
  PROVE  ReconInv'
BY ReadsSettled, OneInOrder DEF ReconInv

\* What is read stays.
LEMMA ReadsSame ==
  ASSUME Reads
  PROVE  /\ \A k : Journals(k)' = Journals(k) /\ Markers(k)' = Markers(k)
         /\ \A t : StagedBy(t)' = StagedBy(t)
         /\ \A d, a : Exists(d, a)' = Exists(d, a)
         /\ UNCHANGED <<row, blobRow, transfer, blobs, staged, known, created>>
BY DEF Reads, Journals, Markers, StagedBy, Exists

\* Between two transfers a thread depends on its lists only.
LEMMA BetweenOrderly ==
  ASSUME NEW r \in Requests,
         request'[r].step \in {"list", "next", "sweep", "sweeping", "issue", "prepare"},
         request'[r].step # "sweeping" =>
           \A x \in request'[r].todo : x[2] = transfer'[x[1]].state,
         Listing(request[r])', Clean(request[r])'
  PROVE  Orderly(request[r])'
BY DEF Orderly, Knows, Progress, Places, Parted, Staging

\* List: what is to come is on the list.
LEMMA ListOrders ==
  ASSUME OneAtATime, TypeInv, ReconInv, NEW r \in Requests, List(r)
  PROVE  ReconInv'
<1>1. /\ request[r] \in Request /\ request[r].step = "list" /\ Reads
      /\ Listing(request[r]) /\ Clean(request[r])
      /\ Become(r, [request[r] EXCEPT !.step = "next", !.todo = Listed(request[r].phase)])
  BY TypesOf DEF List, At, Reads, tables, files, ReconInv, Orderly
<1>2. /\ request'[r].step = "next" /\ request'[r].todo = Listed(request[r].phase)
      /\ request'[r].phase = request[r].phase /\ request'[r].kind = request[r].kind
  <2> DEFINE q == [request[r] EXCEPT !.step = "next", !.todo = Listed(request[r].phase)]
  <2>1. q.step = "next" /\ q.todo = Listed(request[r].phase) /\ q.phase = request[r].phase /\ q.kind = request[r].kind
    BY <1>1 DEF Request
  <2>2. request'[r] = q
    BY <1>1, Became
  <2> QED BY <2>1, <2>2
<1>3. /\ \A x \in Listed(request[r].phase) : x[2] = transfer[x[1]].state
      /\ request[r].phase = "import" => Journals("import") \subseteq {x[1] : x \in Listed(request[r].phase)}
      /\ request[r].phase = "export" => Journals("export") \subseteq {x[1] : x \in Listed(request[r].phase)}
      /\ request[r].phase \notin {"import", "export"} =>
           Markers("ingest") \subseteq {x[1] : x \in Listed(request[r].phase)}
  <2> DEFINE ts == IF request[r].phase \in {"import", "export"} THEN Journals(request[r].phase)
                   ELSE Markers("ingest")
  <2>1. Listed(request[r].phase) = {<<t, transfer[t].state>> : t \in ts}
    BY DEF Listed
  <2> HIDE DEF ts
  <2>2. \A t \in ts : /\ <<t, transfer[t].state>> \in Listed(request[r].phase)
                     /\ <<t, transfer[t].state>>[1] = t
    BY <2>1
  <2>3. ts \subseteq {x[1] : x \in Listed(request[r].phase)}
    BY <2>2
  <2>4. \A x \in Listed(request[r].phase) : x[2] = transfer[x[1]].state
    BY <2>1
  <2> QED BY <2>3, <2>4 DEF ts
<1>4. UNCHANGED transfer
  BY <1>1 DEF Reads
<1>5. Listing(request[r])'
  BY <1>1, <1>2, <1>3, ReadsSame DEF Listing, Unmet, Sweeps, Starts, Staging
<1>6. Clean(request[r])'
  BY <1>1, <1>2, ReadsSame DEF Clean, Swept, Sweeps
<1>7. Orderly(request[r])'
  BY <1>2, <1>3, <1>4, <1>5, <1>6, BetweenOrderly
<1> QED BY <1>1, <1>7, ReadsOrder

\* TakeNext: what is taken is in hand, in the state that was listed.
LEMMA TakeNextOrders ==
  ASSUME OneAtATime, TypeInv, ReconInv, NEW r \in Requests, TakeNext(r)
  PROVE  ReconInv'
<1> DEFINE next(x) == IF transfer[x[1]].marker \/ transfer[x[1]].kind = "ingest"
                      THEN "complete" ELSE "undo"
           q(x) == [request[r] EXCEPT !.todo = @ \ {x}, !.t = x[1], !.state = x[2],
                                      !.left = transfer[x[1]].ids, !.step = next(x)]
<1>1. PICK x \in request[r].todo : Become(r, q(x))
  BY DEF TakeNext
<1>2. /\ request[r] \in Request /\ request[r].step = "next" /\ Reads
      /\ Listing(request[r]) /\ Clean(request[r]) /\ Progress(request[r])
  BY TypesOf DEF TakeNext, At, Reads, tables, files, ReconInv, Orderly
<1>3. next(x) \in {"complete", "undo"}
  OBVIOUS
<1>4. /\ request'[r].step = next(x) /\ request'[r].todo = request[r].todo \ {x}
      /\ request'[r].t = x[1] /\ request'[r].state = x[2]
      /\ request'[r].phase = request[r].phase /\ request'[r].kind = request[r].kind
  <2> DEFINE p == q(x)
  <2>1. /\ p.step = next(x) /\ p.todo = request[r].todo \ {x} /\ p.t = x[1] /\ p.state = x[2]
        /\ p.phase = request[r].phase /\ p.kind = request[r].kind
    <3> HIDE DEF next
    <3> QED BY <1>2 DEF Request
  <2>2. request'[r] = p
    BY <1>1, Became
  <2> QED BY <2>1, <2>2
<1> HIDE DEF next
<1>5. Unmet(request[r]) \subseteq Unmet(request[r])'
  <2>1. "next" \notin Handling /\ {"complete", "undo"} \subseteq Handling
    BY DEF Handling, Staging, Undoing, Completing, Deleting
  <2> HIDE DEF Handling
  <2> QED BY <1>2, <1>3, <1>4, <2>1 DEF Unmet
<1>6. Listing(request[r])'
  <2> HIDE DEF Unmet
  <2> QED BY <1>2, <1>3, <1>4, <1>5, ReadsSame DEF Listing, Sweeps, Starts, Staging
<1>7. Clean(request[r])'
  BY <1>2, <1>3, <1>4, ReadsSame DEF Clean, Swept, Sweeps
<1>8. Progress(request[r])'
  BY <1>2, <1>3, <1>4, ReadsSame DEF Progress, Staging
<1>9. Knows(request[r])' /\ Places(request[r])' /\ Parted(request[r])'
  BY <1>3, <1>4 DEF Knows, Places, Parted, Staging
<1> QED BY <1>2, <1>6, <1>7, <1>8, <1>9, ReadsOrder DEF Orderly

\* NextList: the list that is over has left nothing of its kind.
LEMMA NextListOrders ==
  ASSUME OneAtATime, TypeInv, ReconInv, NEW r \in Requests, NextList(r)
  PROVE  ReconInv'
<1> DEFINE q(step, phase) == [request[r] EXCEPT !.step = step, !.phase = phase]
<1>1. PICK step, phase :
        /\ \/ request[r].phase = "open" /\ step = "sweep" /\ phase = "import"
           \/ request[r].phase = "import" /\ step = "list" /\ phase = "export"
           \/ request[r].phase = "export" /\ step = "list" /\ phase = "ingest"
           \/ /\ request[r].phase = "ingest"
              /\ step = IF request[r].kind = "unlock" THEN "issue" ELSE "prepare"
              /\ phase = "none"
        /\ Become(r, q(step, phase))
  BY DEF NextList
<1>2. /\ request[r] \in Request /\ request[r].step = "next" /\ Reads /\ request[r].todo = {}
      /\ Listing(request[r]) /\ Clean(request[r])
  BY TypesOf DEF NextList, At, Reads, tables, files, ReconInv, Orderly
<1>3. /\ request'[r].step = step /\ request'[r].phase = phase
      /\ request'[r].todo = {} /\ request'[r].kind = request[r].kind
  <2> DEFINE p == q(step, phase)
  <2>1. p.step = step /\ p.phase = phase /\ p.todo = {} /\ p.kind = request[r].kind
    BY <1>2 DEF Request
  <2>2. request'[r] = p
    BY <1>1, Became
  <2> QED BY <2>1, <2>2
<1>4. Unmet(request[r]) = {}
  BY <1>2 DEF Unmet, Handling, Staging, Undoing, Completing, Deleting
<1>5. Listing(request[r])'
  <2> HIDE DEF Unmet
  <2> QED BY <1>1, <1>2, <1>3, <1>4, ReadsSame DEF Listing, Sweeps, Starts, Staging
<1>6. Clean(request[r])'
  <2>1. request[r].phase = "import" => Journals("import") \subseteq Unmet(request[r])
    BY <1>2 DEF Listing, Sweeps
  <2> HIDE DEF Unmet
  <2> QED BY <1>1, <1>2, <1>3, <1>4, <2>1, ReadsSame DEF Clean, Swept, Sweeps
<1>7. Orderly(request[r])'
  BY <1>1, <1>3, <1>5, <1>6, BetweenOrderly
<1> QED BY <1>2, <1>7, ReadsOrder

\* Sweep: no upload is pending once the first list is over.
LEMMA SweepOrders ==
  ASSUME OneAtATime, TypeInv, ReconInv, NEW r \in Requests, Sweep(r)
  PROVE  ReconInv'
<1> DEFINE named == {<<t, "none">> : t \in Markers("import") \cup Markers("ingest")
                                            \cup Journals("export")}
           q == [request[r] EXCEPT !.step = "sweeping", !.todo = named]
<1>1. /\ request[r] \in Request /\ request[r].step = "sweep" /\ Reads
      /\ Listing(request[r]) /\ Clean(request[r]) /\ Become(r, q)
  BY TypesOf DEF Sweep, At, Reads, tables, files, ReconInv, Orderly
<1>2. /\ request'[r].step = "sweeping" /\ request'[r].todo = named
      /\ request'[r].phase = request[r].phase /\ request'[r].kind = request[r].kind
  <2>1. q.step = "sweeping" /\ q.todo = named /\ q.phase = request[r].phase /\ q.kind = request[r].kind
    BY <1>1 DEF Request
  <2>2. request'[r] = q
    BY <1>1, Became
  <2> QED BY <2>1, <2>2
<1>3. \A x \in named : x[1] \in Markers("import") \cup Markers("ingest") \cup Journals("export")
  OBVIOUS
<1> HIDE DEF named, q
<1>4. Listing(request[r])'
  BY <1>1, <1>2, <1>3, ReadsSame DEF Listing, Sweeps, Starts, Staging
<1>5. Clean(request[r])'
  BY <1>2 DEF Clean, Swept, Sweeps
<1>6. Orderly(request[r])'
  BY <1>2, <1>4, <1>5, BetweenOrderly
<1> QED BY <1>1, <1>6, ReadsOrder

\* Staged files go and nothing else: everything stays settled.
LEMMA StagedGoesSettled ==
  ASSUME Settled, UNCHANGED <<row, blobRow, transfer, blobs, known, created>>, staged' \subseteq staged
  PROVE  Settled'
<1>1. KnownOnce'
  BY DEF Settled, KnownOnce, Exists
<1>2. JournalsFit' /\ StagedKinds' /\ BlobsAreNamed' /\ BlobOnce'
  BY DEF Settled, JournalsFit, StagedKinds, BlobsAreNamed, BlobOnce
<1>3. BlobsHaveRows'
  BY DEF Settled, BlobsHaveRows, Exists
<1>4. ExportsAreFinal'
  BY DEF Settled, ExportsAreFinal, Journals
<1>5. BothAreMarked'
  BY DEF Settled, BothAreMarked, Exists
<1> QED BY <1>1, <1>2, <1>3, <1>4, <1>5 DEF Settled

\* Sweeping: what stays belongs to an import that the next list has.
LEMMA SweepingOrders ==
  ASSUME OneAtATime, TypeInv, ReconInv, NEW r \in Requests, Sweeping(r)
  PROVE  ReconInv'
<1>1. /\ request[r] \in Request /\ request[r].step = "sweeping"
      /\ UNCHANGED <<row, blobRow, transfer, blobs, known, created>>
      /\ Settled /\ Listing(request[r])
      /\ staged' = {x \in staged : <<x[1], "none">> \in request[r].todo}
      /\ Become(r, [request[r] EXCEPT !.step = "list", !.todo = {}])
  BY TypesOf DEF Sweeping, At, tables, ReconInv, Orderly
<1>2. /\ request'[r].step = "list" /\ request'[r].todo = {}
      /\ request'[r].phase = request[r].phase /\ request'[r].kind = request[r].kind
  <2> DEFINE q == [request[r] EXCEPT !.step = "list", !.todo = {}]
  <2>1. q.step = "list" /\ q.todo = {} /\ q.phase = request[r].phase /\ q.kind = request[r].kind
    BY <1>1 DEF Request
  <2>2. request'[r] = q
    BY <1>1, Became
  <2> QED BY <2>1, <2>2
<1>3. \A k : Journals(k)' = Journals(k) /\ Markers(k)' = Markers(k)
  BY <1>1 DEF Journals, Markers
<1>4. Listing(request[r])'
  BY <1>1, <1>2, <1>3 DEF Listing, Sweeps, Starts, Staging
<1>5. \A x \in staged' : x[1] \in Journals("import")
  <2> SUFFICES ASSUME NEW x \in staged, <<x[1], "none">> \in request[r].todo
               PROVE  x[1] \in Journals("import")
    BY <1>1
  <2>1. x[1] \in Markers("import") \cup Journals("export")
    <3>1. \A y \in request[r].todo : y[1] \in Markers("import") \cup Markers("ingest") \cup Journals("export")
      BY <1>1 DEF Listing
    <3>2. Markers("ingest") = {}
      BY <1>1 DEF Listing, Sweeps
    <3> QED BY <3>1, <3>2
  <2>2. transfer[x[1]].kind \in {"import", "ingest"}
    BY <1>1 DEF Settled, StagedKinds
  <2> QED BY <1>1, <2>1, <2>2 DEF Settled, JournalsFit, Markers, Journals
<1>6. Clean(request[r])'
  BY <1>2, <1>3, <1>5 DEF Clean
<1>7. Orderly(request[r])'
  BY <1>2, <1>4, <1>6, BetweenOrderly
<1> QED BY <1>1, <1>7, StagedGoesSettled, OneInOrder

\* The end of a session leaves every thread in order, or ends it.
LEMMA RevokedOrders ==
  ASSUME TypeInv, ReconInv, Reads,
         \A s \in Requests : \/ request'[s] \in {request[s], Idle}
                             \/ request'[s] = [request[s] EXCEPT !.live = FALSE]
  PROVE  ReconInv'
<1>1. ASSUME NEW s \in Requests PROVE Orderly(request[s])'
  <2>1. request[s] \in Request /\ Orderly(request[s])
    BY TypesOf DEF ReconInv
  <2>2. CASE request'[s] = Idle
    <3>1. request'[s].step = "idle" /\ request'[s].phase = "none" /\ request'[s].todo = {}
      BY <2>2 DEF Idle
    <3> QED BY <3>1, IdleOrderly
  <2>3. CASE request'[s] = request[s] \/ request'[s] = [request[s] EXCEPT !.live = FALSE]
    <3>1. /\ Alike(request'[s], request[s]) /\ request'[s].step = request[s].step
          /\ request'[s].left = request[s].left /\ request'[s].rows = request[s].rows
      BY <2>1, <2>3 DEF Request, Alike
    <3>2. Knows(request[s])' /\ Progress(request[s])'
      BY <2>1, <3>1, ReadsSame DEF Orderly, Knows, Progress, Alike
    <3>3. Listing(request[s])'
      <4>1. Unmet(request[s])' = Unmet(request[s])
        BY <3>1 DEF Unmet, Alike
      <4> HIDE DEF Unmet
      <4> QED BY <2>1, <3>1, <4>1, ReadsSame DEF Orderly, Listing, Alike
    <3>4. Clean(request[s])'
      BY <2>1, <3>1, ReadsSame DEF Orderly, Clean, Swept, Alike
    <3>5. Places(request[s])' /\ Parted(request[s])'
      BY <2>1, <3>1, ReadsSame DEF Orderly, Places, Parted, Alike, BlobHere, Exists
    <3> QED BY <3>2, <3>3, <3>4, <3>5 DEF Orderly
  <2> QED BY <2>2, <2>3
<1> QED BY <1>1, ReadsSettled DEF ReconInv

\* A thread that goes on with the transfer in hand stays in order.
LEMMA HandOrderly ==
  ASSUME OneAtATime, TypeInv, ReconInv, NEW r \in Requests, Settled', Alike(request'[r], request[r]),
         UNCHANGED <<transfer, known>>, Swept(request[r]) => staged' \subseteq staged,
         \A d \in Databases, a \in Assets : Exists(d, a)' => Exists(d, a),
         request[r].step \in Handling \ {"clear"},
         request'[r].step \in Handling \ {"drop", "close", "clear"},
         request'[r].step \in Staging => request[r].step \in Staging /\ UNCHANGED blobRow,
         request'[r].step \in {"stage", "write"} =>
           request[r].step \in {"stage", "write"} /\ request'[r].rows = request[r].rows,
         request'[r].step \in {"complete", "finalize", "validate", "ready"} =>
           request[r].step \in {"complete", "finalize", "validate", "ready"},
         request'[r].step = "unmark" => transfer[request[r].t].kind = "ingest",
         request'[r].step = "forget" => StagedBy(request[r].t)' = {},
         request'[r].step = "delete" /\ transfer[request[r].t].kind = "export" =>
           \A a \in transfer[request[r].t].ids \ request'[r].left : <<blobRow'[a], a>> \notin blobs',
         request'[r].step = "dropped" =>
           /\ transfer[request[r].t].state \in FilesGone
           /\ \A a \in transfer[request[r].t].ids : ~Exists(From[transfer[request[r].t].kind], a)'
  PROVE  ReconInv'
<1>1. /\ Knows(request[r]) /\ Progress(request[r]) /\ Listing(request[r])
      /\ Clean(request[r]) /\ Places(request[r]) /\ Parted(request[r])
      /\ request[r].ids \in SUBSET Assets
  BY TypesOf DEF ReconInv, Orderly, Request
<1>2. \A k : Journals(k)' = Journals(k) /\ Markers(k)' = Markers(k)
  BY DEF Journals, Markers
<1>3. Handling \cap (Sweeps \cup {"list", "issue", "prepare", "open", "next"}) = {}
  BY DEF Handling, Staging, Undoing, Completing, Deleting, Sweeps
<1>4. Knows(request[r])'
  <2> HIDE DEF Staging, Handling
  <2> QED BY <1>1, <1>3 DEF Knows, Alike
<1>5. Progress(request[r])'
  <2>1. "sweeping" \notin Handling
    BY <1>3 DEF Sweeps
  <2>2. (Staging \cup {"complete", "finalize", "validate", "ready"})
          \cap {"drop", "dropped", "unmark", "close", "clear", "delete"} = {}
    BY DEF Staging
  <2> HIDE DEF Staging, Handling
  <2> QED BY <1>1, <2>1, <2>2 DEF Progress, Alike
<1>6. Listing(request[r])'
  <2>1. /\ \A k \in {"import", "export"} : Journals(k)' \subseteq Journals(k)
        /\ Markers("ingest")' \subseteq Markers("ingest")
    BY <1>2
  <2> HIDE DEF Staging, Handling, Alike
  <2> QED BY <1>1, <2>1, ListingOn
<1>7. Clean(request[r])'
  <2>1. Swept(request[r])' => Swept(request[r])
    <3> HIDE DEF Handling
    <3> QED BY <1>3 DEF Swept, Alike
  <2> HIDE DEF Swept, Handling, StagedBy
  <2> QED BY <1>1, <1>2, <2>1 DEF Clean
<1>8. Places(request[r])' /\ Parted(request[r])'
  <2>1. "main" \in Databases /\ "open" \notin Handling /\ "delete" \notin Staging /\ "dropped" \notin Staging
    BY <1>3 DEF Databases, Staging
  <2> HIDE DEF Staging, Handling
  <2>2. Places(request[r])'
    BY <1>1, <2>1 DEF Places, Alike
  <2>3. Parted(request[r])'
    BY <1>1, <2>1 DEF Parted, Alike
  <2> QED BY <2>2, <2>3
<1> QED BY <1>4, <1>5, <1>6, <1>7, <1>8, OneInOrder DEF Orderly

\* ... where at most some staging goes,
LEMMA HandOrders ==
  ASSUME OneAtATime, TypeInv, ReconInv, NEW r \in Requests, Alike(request'[r], request[r]),
         UNCHANGED <<row, blobRow, transfer, blobs, known, created>>, staged' \subseteq staged,
         request[r].step \in Handling \ {"clear"},
         request'[r].step \in Handling \ {"delete", "drop", "dropped", "close", "clear"},
         request'[r].step \in Staging => request[r].step \in Staging,
         request'[r].step \in {"stage", "write"} =>
           request[r].step \in {"stage", "write"} /\ request'[r].rows = request[r].rows,
         request'[r].step \in {"complete", "finalize", "validate", "ready"} =>
           request[r].step \in {"complete", "finalize", "validate", "ready"},
         request'[r].step = "unmark" => transfer[request[r].t].kind = "ingest",
         request'[r].step = "forget" => StagedBy(request[r].t)' = {}
  PROVE  ReconInv'
<1>1. Settled'
  BY StagedGoesSettled DEF ReconInv
<1>2. \A d \in Databases, a \in Assets : Exists(d, a)' => Exists(d, a)
  BY DEF Exists
<1> HIDE DEF Handling, Staging, Settled, Exists, Alike, Swept
<1> QED BY <1>1, <1>2, HandOrderly

\* A request that ends and only reads.
LEMMA EndOrders ==
  ASSUME OneAtATime, TypeInv, ReconInv, NEW r \in Requests, Reads, End(r)
  PROVE  ReconInv'
BY EndOrderly, ReadsOrder

\* Issue, Lock and Crash read nothing that counts.
LEMMA IssueOrders ==
  ASSUME OneAtATime, TypeInv, ReconInv, NEW r \in Requests, Issue(r)
  PROVE  ReconInv'
<1>1. request \in [Requests -> Request] /\ request' = Revoked([request EXCEPT ![r] = Idle]) /\ Reads
  BY TypesOf DEF Issue, Reads, tables, files
<1> DEFINE old == [request EXCEPT ![r] = Idle]
<1>2. \A s \in Requests : s = r /\ old[s] = Idle
  BY <1>1 DEF OneAtATime
<1>3. request'[r] = IF Idle.kind = "unlock" THEN Idle ELSE [Idle EXCEPT !.live = FALSE]
  <2> HIDE DEF old
  <2> QED BY <1>1, <1>2 DEF Revoked, old
<1>4. request'[r].step = "idle" /\ request'[r].phase = "none" /\ request'[r].todo = {}
  BY <1>3 DEF Idle
<1> QED BY <1>1, <1>4, IdleOrderly, ReadsOrder

\* ... Lock,
LEMMA LockOrders == TypeInv /\ ReconInv /\ Lock => ReconInv'
<1> SUFFICES ASSUME TypeInv, ReconInv, Lock PROVE ReconInv'
  OBVIOUS
<1>1. Reads /\ request' = Revoked(request)
  BY DEF Lock, Reads, tables, files
<1>2. \A s \in Requests : \/ request'[s] \in {request[s], Idle}
                          \/ request'[s] = [request[s] EXCEPT !.live = FALSE]
  BY <1>1 DEF Revoked
<1> QED BY <1>1, <1>2, RevokedOrders

\* ... and Crash.
LEMMA CrashOrders == TypeInv /\ ReconInv /\ Crash => ReconInv'
<1> SUFFICES ASSUME TypeInv, ReconInv, Crash PROVE ReconInv'
  OBVIOUS
<1>1. Reads /\ \A s \in Requests : request'[s] = Idle
  BY DEF Crash, Reads, tables, files
<1> QED BY <1>1, RevokedOrders

\* RollbackLook: an export has no staging.
LEMMA RollbackLookOrders ==
  ASSUME OneAtATime, TypeInv, ReconInv, NEW r \in Requests, RollbackLook(r)
  PROVE  ReconInv'
<1>1. request[r].step = "undo" /\ request[r] \in Request /\ Reads /\ Kind(r) = "export"
  BY TypesOf DEF RollbackLook, At, Reads, tables, files
<1>2. StagedBy(request[r].t) = {}
  BY <1>1 DEF ReconInv, Settled, StagedKinds, StagedBy, Kind, Now
<1>3. /\ {"undo", "unlink", "forget"} \subseteq Handling \ {"delete", "drop", "dropped", "close", "clear"}
      /\ {"undo", "unlink", "forget"} \cap Staging = {}
  BY DEF Handling, Undoing, Staging
<1>4. ASSUME Alike(request'[r], request[r]), request'[r].step \in {"undo", "unlink", "forget"}
      PROVE  ReconInv'
  <2>1. StagedBy(request[r].t)' = {}
    BY <1>1, <1>2, <1>4 DEF StagedBy, Reads, Alike
  <2> HIDE DEF Handling, Staging, Alike
  <2> QED BY <1>1, <1>3, <1>4, <2>1, HandOrders DEF Reads
<1>5. CASE Go(r, "forget")
  BY <1>4, <1>5, GoFields
<1>6. CASE \E a : Tick(r, a)
  BY <1>1, <1>4, <1>6, TickFields
<1>7. CASE \E a : Become(r, [request[r] EXCEPT !.step = "unlink", !.file = a])
  <2>1. PICK a : Become(r, [request[r] EXCEPT !.step = "unlink", !.file = a])
    BY <1>7
  <2>2. request'[r] = [request[r] EXCEPT !.step = "unlink", !.file = a]
    BY <2>1, Became
  <2>3. request'[r].step = "unlink" /\ Alike(request'[r], request[r])
    BY <1>1, <2>2 DEF Request, Alike
  <2> QED BY <1>4, <2>3
<1>8. CASE End(r)
  BY <1>1, <1>8, EndOrders
<1> QED BY <1>5, <1>6, <1>7, <1>8 DEF RollbackLook

\* Unlink: a file of the main library.
LEMMA UnlinkOrders ==
  ASSUME OneAtATime, TypeInv, ReconInv, NEW r \in Requests, Unlink(r)
  PROVE  ReconInv'
<1> DEFINE a == request[r].file
           q == [request[r] EXCEPT !.step = "undo", !.left = @ \ {a}, !.file = NoAsset]
<1>1. request[r].step = "unlink" /\ request[r] \in Request /\ Reads /\ Become(r, q)
  BY TypesOf DEF Unlink, At, Reads, tables
<1>2. request'[r].step = "undo" /\ Alike(request'[r], request[r])
  <2>1. q.step = "undo" /\ Alike(q, request[r])
    BY <1>1 DEF Request, Alike
  <2>2. request'[r] = q
    BY <1>1, Became
  <2> QED BY <2>1, <2>2
<1>3. "undo" \in Handling /\ "unlink" \in Handling /\ "undo" \notin Staging
  BY DEF Handling, Undoing, Staging
<1> HIDE DEF Handling, Staging, Alike
<1> QED BY <1>1, <1>2, <1>3, HandOrders DEF Reads

\* UndoImport: the staging of the transfer is gone before the journal.
LEMMA UndoImportOrders ==
  ASSUME OneAtATime, TypeInv, ReconInv, NEW r \in Requests, UndoImport(r)
  PROVE  ReconInv'
<1>1. /\ request[r].step = "undo" /\ Go(r, "forget")
      /\ UNCHANGED <<row, blobRow, transfer, blobs, known, created>>
      /\ staged' = staged \ StagedBy(request[r].t)
  BY DEF UndoImport, At, tables, Now
<1>2. request'[r].step = "forget" /\ Alike(request'[r], request[r])
  BY <1>1, GoFields
<1>3. "undo" \in Handling /\ "forget" \in Handling /\ "forget" \notin Staging
  BY DEF Handling, Undoing, Staging
<1>4. staged' \subseteq staged /\ StagedBy(request[r].t)' = {}
  BY <1>1, <1>2 DEF StagedBy, Alike
<1> HIDE DEF Handling, Staging, Alike
<1> QED BY <1>1, <1>2, <1>3, <1>4, HandOrders

\* The journal of the transfer in hand goes on: what else was settled stays so.
LEMMA StateSettled ==
  ASSUME TypeInv, ReconInv, NEW r \in Requests, request[r].step \in Handling, NEW s \in States,
         SetState(Now(r), s), UNCHANGED <<row, blobRow, blobs, staged, known, created>>,
         s = "none" => ~transfer[Now(r)].marker,
         s # "none" => Kind(r) # "ingest" /\ transfer[Now(r)].state # "none",
         s \in FilesGone /\ Kind(r) = "export" =>
           \A a \in Moving(r) : <<blobRow[a], a>> \notin blobs,
         s = "source_database_deleted" =>
           \A a \in Moving(r) : ~(Exists("main", a) /\ Exists("vault", a))
  PROVE  /\ Settled'
         /\ \A t \in Transfers : /\ transfer'[t].kind = transfer[t].kind
                                 /\ transfer'[t].ids = transfer[t].ids
                                 /\ transfer'[t].marker = transfer[t].marker
                                 /\ transfer'[t].state = IF t = Now(r) THEN s ELSE transfer[t].state
         /\ \A k : /\ Markers(k)' = Markers(k)
                   /\ Journals(k)' = IF s = "none" THEN Journals(k) \ {Now(r)} ELSE Journals(k)
<1>1. transfer \in [Transfers -> Transfer] /\ Now(r) \in Transfers /\ Settled
  BY InHand, TypesOf DEF ReconInv
<1>2. transfer' = [transfer EXCEPT ![Now(r)] = [transfer[Now(r)] EXCEPT !.state = s]]
  BY <1>1 DEF SetState, Transfer
<1>3. \A t \in Transfers : /\ transfer'[t].kind = transfer[t].kind
                           /\ transfer'[t].ids = transfer[t].ids
                           /\ transfer'[t].marker = transfer[t].marker
                           /\ transfer'[t].state = IF t = Now(r) THEN s ELSE transfer[t].state
  BY <1>1, <1>2 DEF Transfer
<1>4. \A k : /\ Markers(k)' = Markers(k)
             /\ Journals(k)' = IF s = "none" THEN Journals(k) \ {Now(r)} ELSE Journals(k)
  BY <1>1, <1>3 DEF Markers, Journals
<1>5. KnownOnce' /\ BlobsHaveRows'
  BY <1>1, <1>3 DEF Settled, KnownOnce, BlobsHaveRows, Exists
<1>6. JournalsFit'
  BY <1>1, <1>3 DEF Settled, JournalsFit, Kind
<1>7. StagedKinds' /\ BlobsAreNamed' /\ BlobOnce'
  <2>1. \A x \in staged : x[1] \in Transfers
    BY TypesOf DEF Files
  <2> QED BY <1>1, <1>3, <2>1 DEF Settled, StagedKinds, BlobsAreNamed, BlobOnce
<1>8. ExportsAreFinal'
  <2>1. \A t \in Journals("export")' :
          /\ t \in Journals("export") /\ t \in Transfers /\ transfer'[t].ids = transfer[t].ids
          /\ t = Now(r) => transfer'[t].state = s /\ Kind(r) = "export"
          /\ t # Now(r) => transfer'[t].state = transfer[t].state
    BY <1>1, <1>3, <1>4 DEF Journals, Kind
  <2> QED BY <1>1, <2>1 DEF Settled, ExportsAreFinal, Moving
<1>9. BothAreMarked'
  <2> SUFFICES ASSUME NEW a \in Assets, Exists("main", a), Exists("vault", a)
               PROVE  \E t \in Transfers :
                        /\ a \in transfer'[t].ids /\ transfer'[t].kind # "ingest"
                        /\ transfer'[t].marker /\ transfer'[t].state # "source_database_deleted"
    BY DEF BothAreMarked, Exists
  <2>1. PICK t \in Transfers : /\ a \in transfer[t].ids /\ transfer[t].kind # "ingest"
                               /\ transfer[t].marker /\ transfer[t].state # "source_database_deleted"
    BY <1>1 DEF Settled, BothAreMarked
  <2>2. t = Now(r) => s # "source_database_deleted"
    BY <2>1 DEF Moving
  <2> QED BY <1>3, <2>1, <2>2
<1> QED BY <1>3, <1>4, <1>5, <1>6, <1>7, <1>8, <1>9 DEF Settled

\* What is yet to come keeps its state: a transfer is listed once.
LEMMA TodoStays ==
  ASSUME TypeInv, CopyInv, ReconInv, NEW r \in Requests, request[r].step \in Handling,
         \A t \in Transfers \ {request[r].t} : transfer'[t].state = transfer[t].state
  PROVE  \A x \in request[r].todo : x[1] \in Transfers /\ x[1] # request[r].t /\ x[2] = transfer'[x[1]].state
<1>1. "sweeping" \notin Handling
  BY DEF Handling, Staging, Undoing, Completing, Deleting
<1>2. request[r] \in Request /\ Stands(request[r], transfer) /\ Progress(request[r])
  BY TypesOf DEF CopyInv, Fine, ReconInv, Orderly
<1> HIDE DEF Handling, Alive
<1>3. \A x \in request[r].todo : x[1] \in Transfers /\ x[1] # request[r].t
  BY <1>1, <1>2 DEF Stands, Request
<1>4. \A x \in request[r].todo : x[2] = transfer[x[1]].state
  BY <1>1, <1>2 DEF Progress
<1> QED BY <1>3, <1>4

\* A thread that is done with a transfer and has left neither journal nor
\* marker goes on with its list.
LEMMA ReturnOrders ==
  ASSUME OneAtATime, TypeInv, CopyInv, ReconInv, NEW r \in Requests, request[r].step \in Handling,
         Return(r), Settled',
         \A k \in {"import", "export"} : Journals(k)' \subseteq Journals(k) \ {request[r].t},
         Markers("ingest")' \subseteq Markers("ingest") \ {request[r].t},
         \A t \in Transfers \ {request[r].t} : transfer'[t].state = transfer[t].state,
         Swept(request[r]) => \A x \in staged' : x[1] \in Journals("import")'
  PROVE  ReconInv'
<1>1. CASE End(r)
  BY <1>1, EndOrderly, OneInOrder
<1>2. CASE Go(r, "next")
  <2>1. request'[r].step = "next" /\ Alike(request'[r], request[r])
    BY <1>2, GoFields
  <2>2. Listing(request[r])'
    <3>1. Listing(request[r])
      BY DEF ReconInv, Orderly
    <3> HIDE DEF Handling, Alike
    <3> QED BY <2>1, <3>1, ListingNext
  <2>3. Clean(request[r])'
    <3>1. Handling \cap (Sweeps \cup {"issue"}) = {}
      BY DEF Handling, Staging, Undoing, Completing, Deleting, Sweeps
    <3>2. Swept(request[r])' => Swept(request[r])
      <4> HIDE DEF Handling
      <4> QED BY <2>1, <3>1 DEF Swept, Alike
    <3> HIDE DEF Swept
    <3> QED BY <2>1, <3>2 DEF Clean
  <2>4. \A x \in request'[r].todo : x[2] = transfer'[x[1]].state
    <3> HIDE DEF Handling
    <3> QED BY <2>1, TodoStays DEF Alike
  <2>5. Orderly(request[r])'
    BY <2>1, <2>2, <2>3, <2>4, BetweenOrderly
  <2> QED BY <2>5, OneInOrder
<1> QED BY <1>1, <1>2 DEF Return

\* Forget: with its staging gone, the transfer leaves nothing.
LEMMA ForgetOrders ==
  ASSUME OneAtATime, TypeInv, CopyInv, ReconInv, NEW r \in Requests, Forget(r)
  PROVE  ReconInv'
<1>1. /\ request[r].step = "forget" /\ SetState(request[r].t, "none") /\ Return(r)
      /\ UNCHANGED <<row, blobRow, blobs, staged, known, created>>
      /\ Now(r) = request[r].t
  BY DEF Forget, At, files, Now
<1>2. "forget" \in Handling /\ "forget" \in Undoing /\ "none" \in States /\ "none" \notin FilesGone
  BY DEF Handling, Undoing, States, Rank, FilesGone
<1>3. ~transfer[request[r].t].marker /\ Kind(r) \in {"import", "export"} /\ StagedBy(request[r].t) = {}
  <2>1. Holds(request[r]) /\ Clean(request[r])
    BY DEF CopyInv, Fine, ReconInv, Orderly
  <2> HIDE DEF Handling, Undoing, Staging
  <2> QED BY <1>1, <1>2, <2>1, KindInHand DEF Holds, Clean
<1>4. /\ Settled'
      /\ \A t \in Transfers \ {request[r].t} : transfer'[t].state = transfer[t].state
      /\ \A k : Markers(k)' = Markers(k) /\ Journals(k)' = Journals(k) \ {request[r].t}
  <2> HIDE DEF Handling, Settled, Journals, Markers
  <2> QED BY <1>1, <1>2, <1>3, StateSettled
<1>5. request[r].t \notin Markers("ingest")
  BY <1>1, <1>3 DEF Markers, Kind
<1>6. Swept(request[r]) => \A x \in staged' : x[1] \in Journals("import")'
  <2>1. Clean(request[r])
    BY DEF ReconInv, Orderly
  <2>2. \A x \in staged : x[1] # request[r].t
    BY <1>3 DEF StagedBy
  <2> HIDE DEF Swept
  <2> QED BY <1>1, <1>4, <2>1, <2>2 DEF Clean
<1> HIDE DEF Handling, Settled, Swept
<1> QED BY <1>1, <1>2, <1>4, <1>5, <1>6, ReturnOrders

\* Close: the marker is gone, the journal goes.
LEMMA CloseOrders ==
  ASSUME OneAtATime, TypeInv, CopyInv, ReconInv, NEW r \in Requests, Close(r)
  PROVE  ReconInv'
<1>1. /\ request[r].step = "close" /\ SetState(request[r].t, "none")
      /\ IF Kind(r) = "import" THEN Go(r, "clear") ELSE Return(r)
      /\ UNCHANGED <<row, blobRow, blobs, staged, known, created>>
      /\ Now(r) = request[r].t
  BY DEF Close, At, files, Now
<1>2. /\ "close" \in Handling /\ "clear" \in Handling /\ "none" \in States /\ "none" \notin FilesGone
      /\ "clear" \notin Staging
  BY DEF Handling, Completing, Staging, States, Rank, FilesGone
<1>3. /\ Progress(request[r]) /\ Listing(request[r]) /\ Clean(request[r])
      /\ ~transfer[request[r].t].marker /\ Kind(r) \in {"import", "export"}
  <2>1. Progress(request[r]) /\ Listing(request[r]) /\ Clean(request[r])
    BY DEF ReconInv, Orderly
  <2> HIDE DEF Handling
  <2> QED BY <1>1, <1>2, <2>1, KindInHand DEF Progress
<1>4. /\ Settled'
      /\ \A t \in Transfers : /\ transfer'[t].kind = transfer[t].kind
                              /\ transfer'[t].marker = transfer[t].marker
                              /\ transfer'[t].state = IF t = request[r].t THEN "none" ELSE transfer[t].state
      /\ \A k : Markers(k)' = Markers(k) /\ Journals(k)' = Journals(k) \ {request[r].t}
  <2> HIDE DEF Handling, Settled, Journals, Markers
  <2> QED BY <1>1, <1>2, <1>3, StateSettled
<1>5. request[r].t \notin Markers("ingest")
  BY <1>1, <1>3 DEF Markers, Kind
<1>6. CASE Kind(r) = "export"
  <2>1. Return(r) /\ request[r].t \notin Journals("import")
    BY <1>1, <1>6 DEF Journals, Kind
  <2>2. Swept(request[r]) => \A x \in staged' : x[1] \in Journals("import")'
    <3> HIDE DEF Swept
    <3> QED BY <1>1, <1>3, <1>4, <2>1 DEF Clean
  <2> HIDE DEF Handling, Settled, Swept
  <2> QED BY <1>1, <1>2, <1>4, <1>5, <2>1, <2>2, ReturnOrders
<1>7. CASE Kind(r) = "import"
  <2>1. request'[r].step = "clear" /\ Alike(request'[r], request[r])
    BY <1>1, <1>7, GoFields
  <2>2. Listing(request[r])'
    <3> HIDE DEF Handling, Alike, Listing
    <3> QED BY <1>1, <1>2, <1>3, <1>4, <2>1, ListingOn
  <2>3. Clean(request[r])'
    <3>1. Swept(request[r])' => Swept(request[r])
      BY <1>1, <2>1 DEF Swept, Alike, Sweeps
    <3> HIDE DEF Swept
    <3> QED BY <1>1, <1>3, <1>4, <2>1, <3>1 DEF Clean, Alike
  <2>4. Progress(request[r])'
    <3>1. \A x \in request[r].todo : x[2] = transfer'[x[1]].state
      <4> HIDE DEF Handling
      <4> QED BY <1>1, <1>2, <1>4, TodoStays
    <3>2. request[r].t \in Transfers
      <4> HIDE DEF Handling
      <4> QED BY <1>1, <1>2, InHand
    <3> QED BY <1>1, <1>3, <1>4, <2>1, <3>1, <3>2 DEF Progress, Alike, Staging
  <2>5. Knows(request[r])' /\ Places(request[r])' /\ Parted(request[r])'
    BY <2>1 DEF Knows, Places, Parted, Staging
  <2> QED BY <1>4, <2>2, <2>3, <2>4, <2>5, OneInOrder DEF Orderly
<1> QED BY <1>3, <1>6, <1>7

\* Clear: the last of a transfer, its staging directory.
LEMMA ClearOrders ==
  ASSUME OneAtATime, TypeInv, CopyInv, ReconInv, NEW r \in Requests, Clear(r)
  PROVE  ReconInv'
<1>1. /\ request[r].step = "clear" /\ Return(r) /\ staged' = staged \ StagedBy(request[r].t)
      /\ UNCHANGED <<row, blobRow, transfer, blobs, known, created>>
      /\ Now(r) = request[r].t
  BY DEF Clear, At, tables, Now
<1>2. "clear" \in Handling
  BY DEF Handling
<1>3. /\ Settled /\ Progress(request[r]) /\ Clean(request[r])
  BY DEF ReconInv, Orderly
<1>4. /\ ~transfer[request[r].t].marker
      /\ Kind(r) \in {"import", "ingest"}
      /\ Kind(r) = "import" => transfer[request[r].t].state = "none"
      /\ request[r].t \in Transfers
  <2> HIDE DEF Handling
  <2> QED BY <1>1, <1>2, <1>3, KindInHand, InHand DEF Progress, Kind
<1>5. transfer[request[r].t].state = "none"
  BY <1>1, <1>3, <1>4 DEF Settled, JournalsFit, Kind
<1>6. \A k : /\ Markers(k)' \subseteq Markers(k) \ {request[r].t}
             /\ Journals(k)' \subseteq Journals(k) \ {request[r].t}
             /\ Journals(k)' = Journals(k)
  BY <1>1, <1>4, <1>5 DEF Markers, Journals
<1>7. Settled'
  BY <1>1, <1>3, StagedGoesSettled
<1>8. Swept(request[r]) => \A x \in staged' : x[1] \in Journals("import")'
  <2>1. \A x \in staged' : x \in staged /\ x[1] # request[r].t
    BY <1>1 DEF StagedBy
  <2> HIDE DEF Swept
  <2> QED BY <1>3, <1>6, <2>1 DEF Clean
<1> HIDE DEF Handling, Settled, Swept
<1> QED BY <1>1, <1>2, <1>6, <1>7, <1>8, ReturnOrders

\* Complete: reads what the journal and the marker say.
LEMMA CompleteOrders ==
  ASSUME OneAtATime, TypeInv, ReconInv, NEW r \in Requests, Complete(r)
  PROVE  ReconInv'
<1>1. request[r].step = "complete" /\ Reads
  BY DEF Complete, At, Reads, tables, files
<1>2. CASE End(r)
  BY <1>1, <1>2, EndOrders
<1>3. CASE Each(r, "validate") \/ Each(r, "finalize")
  <2>1. request'[r].step \in {"validate", "finalize"} /\ Alike(request'[r], request[r])
    BY <1>3, EachFields
  <2>2. {"complete", "validate", "finalize"} \subseteq Handling \ Staging
    BY DEF Handling, Completing, Staging
  <2> HIDE DEF Handling, Staging, Alike
  <2> QED BY <1>1, <2>1, <2>2, HandOrders DEF Reads
<1> QED BY <1>2, <1>3 DEF Complete

\* Validate: reads back.
LEMMA ValidateOrders ==
  ASSUME OneAtATime, TypeInv, ReconInv, NEW r \in Requests, Validate(r)
  PROVE  ReconInv'
<1>1. request[r].step = "validate" /\ Reads
  BY DEF Validate, At, Reads, tables, files
<1>2. CASE End(r)
  BY <1>1, <1>2, EndOrders
<1>3. CASE Go(r, "ready") \/ (Go(r, "unmark") /\ Kind(r) = "ingest")
  <2>1. /\ request'[r].step \in {"ready", "unmark"} /\ Alike(request'[r], request[r])
        /\ request'[r].step = "unmark" => transfer[request[r].t].kind = "ingest"
    BY <1>3, GoFields DEF Kind, Now
  <2>2. {"validate", "ready", "unmark"} \subseteq Handling \ Staging
    BY DEF Handling, Completing, Deleting, Staging
  <2> HIDE DEF Handling, Staging, Alike
  <2> QED BY <1>1, <2>1, <2>2, HandOrders DEF Reads
<1> QED BY <1>2, <1>3 DEF Validate

\* The thread in hand after its journal went on, or where it already was.
LEMMA JournalOrders ==
  ASSUME OneAtATime, TypeInv, CopyInv, ReconInv, NEW r \in Requests,
         request[r].step \in Deleting, request'[r].step \in {"lease", "drop", "unmark"},
         Alike(request'[r], request[r]), Settled',
         \A k : Markers(k)' = Markers(k) /\ Journals(k)' = Journals(k),
         \A t \in Transfers : /\ transfer'[t].kind = transfer[t].kind
                              /\ t # request[r].t => transfer'[t].state = transfer[t].state,
         request'[r].step = "drop" => transfer'[request[r].t].state \in FilesGone,
         request'[r].step = "unmark" => transfer'[request[r].t].state = "source_database_deleted",
         UNCHANGED staged
  PROVE  ReconInv'
<1>1. /\ Deleting \subseteq Handling /\ {"lease", "drop", "unmark"} \subseteq Handling
      /\ {"lease", "drop", "unmark"} \cap Staging = {}
      /\ Deleting \cap (Sweeps \cup {"clear", "issue"}) = {}
  BY DEF Handling, Completing, Deleting, Staging, Sweeps
<1>2. Listing(request[r]) /\ Clean(request[r])
  BY DEF ReconInv, Orderly
<1>3. Listing(request[r])'
  <2> HIDE DEF Handling, Deleting, Staging, Alike, Listing
  <2> QED BY <1>1, <1>2, ListingOn
<1>4. Clean(request[r])'
  <2> HIDE DEF Handling, Deleting
  <2>1. Swept(request[r])' => Swept(request[r])
    BY <1>1 DEF Swept, Alike
  <2> HIDE DEF Swept
  <2> QED BY <1>1, <1>2, <2>1 DEF Clean
<1>5. Progress(request[r])'
  <2>1. \A x \in request[r].todo : x[2] = transfer'[x[1]].state
    <3> HIDE DEF Handling, Deleting
    <3> QED BY <1>1, TodoStays
  <2> QED BY <2>1 DEF Progress, Alike, Staging
<1>6. Knows(request[r])' /\ Places(request[r])' /\ Parted(request[r])'
  BY DEF Knows, Places, Parted, Staging
<1> QED BY <1>3, <1>4, <1>5, <1>6, OneInOrder DEF Orderly

\* A journal that is there is written, and the thread goes on.
LEMMA RecordOrders ==
  ASSUME OneAtATime, TypeInv, CopyInv, ReconInv, NEW r \in Requests, request[r].step \in Deleting,
         NEW s \in States \ {"none"}, NEW step \in {"lease", "drop", "unmark"}, Record(r, s, step),
         UNCHANGED <<row, blobRow, blobs, staged, known, created>>,
         step = "drop" => s \in FilesGone,
         step = "unmark" => s = "source_database_deleted",
         s \in FilesGone /\ Kind(r) = "export" =>
           \A a \in Moving(r) : <<blobRow[a], a>> \notin blobs,
         s = "source_database_deleted" =>
           \A a \in Moving(r) : ~(Exists("main", a) /\ Exists("vault", a))
  PROVE  ReconInv'
<1>1. request[r].step \in Handling /\ Now(r) = request[r].t
  BY DEF Handling, Completing, Now
<1>2. CASE End(r) /\ UNCHANGED transfer
  BY <1>2, EndOrders DEF Reads
<1>3. CASE SetState(Now(r), s) /\ Go(r, step) /\ transfer[Now(r)].state # "none"
  <2>1. request'[r].step = step /\ Alike(request'[r], request[r])
    BY <1>3, GoFields
  <2>2. Kind(r) # "ingest" /\ Now(r) \in Transfers
    <3> HIDE DEF Handling, Deleting
    <3> QED BY <1>1, KindInHand, InHand
  <2>3. /\ Settled'
        /\ \A t \in Transfers : /\ transfer'[t].kind = transfer[t].kind
                                /\ transfer'[t].state = IF t = Now(r) THEN s ELSE transfer[t].state
        /\ \A k : Markers(k)' = Markers(k) /\ Journals(k)' = Journals(k)
    <3> HIDE DEF Handling, Deleting, Settled, Journals, Markers, FilesGone, Moving, Kind, Exists
    <3> QED BY <1>1, <1>3, <2>2, StateSettled
  <2> HIDE DEF Handling, Deleting, Settled, Journals, Markers, Alike, FilesGone
  <2> QED BY <1>1, <2>1, <2>2, <2>3, JournalOrders
<1> QED BY <1>2, <1>3 DEF Record

\* Ready: the journal that was listed says where to go on.
LEMMA ReadyOrders ==
  ASSUME OneAtATime, TypeInv, CopyInv, ReconInv, NEW r \in Requests, Ready(r)
  PROVE  ReconInv'
<1>1. /\ request[r].step = "ready" /\ Now(r) = request[r].t /\ request[r] \in Request
      /\ UNCHANGED <<row, blobRow, blobs, staged, known, created>>
  BY TypesOf DEF Ready, At, files, Now
<1>2. "ready" \in Deleting /\ "ready" \in Handling
  BY DEF Deleting, Handling, Completing
<1>3. Progress(request[r]) /\ Settled
  BY DEF ReconInv, Orderly
<1>4. Kind(r) # "ingest" /\ Now(r) \in Transfers
  <2> HIDE DEF Handling, Deleting
  <2> QED BY <1>1, <1>2, KindInHand, InHand
<1>5. transfer[request[r].t].state = request[r].state /\ request[r].state \in States
  BY <1>1, <1>3, <1>4 DEF Progress, Kind, Request
<1>6. /\ Onward(r) \in {"lease", "drop", "unmark"}
      /\ Onward(r) = "drop" => request[r].state = "source_files_deleted"
      /\ Onward(r) = "unmark" => request[r].state = "source_database_deleted"
      /\ Before(r, "destination_ready") => Onward(r) = "lease"
  BY <1>5 DEF Onward, Before, Rank, States
<1>7. CASE Record(r, "destination_ready", Onward(r)) /\ Before(r, "destination_ready")
  <2>1. "destination_ready" \in States \ {"none"} /\ "destination_ready" \notin FilesGone
    BY DEF States, Rank, FilesGone
  <2> HIDE DEF Deleting, Onward, Before, Record
  <2> QED BY <1>1, <1>2, <1>6, <1>7, <2>1, RecordOrders
<1>8. CASE Go(r, Onward(r)) /\ UNCHANGED transfer
  <2>1. Reads
    BY <1>1, <1>8 DEF Reads
  <2>2. request'[r].step = Onward(r) /\ Alike(request'[r], request[r])
    BY <1>8, GoFields
  <2>3. Settled'
    BY <1>3, <2>1, ReadsSettled
  <2>4. /\ request'[r].step = "drop" => transfer'[request[r].t].state \in FilesGone
        /\ request'[r].step = "unmark" => transfer'[request[r].t].state = "source_database_deleted"
    BY <1>5, <1>6, <1>8, <2>2 DEF FilesGone
  <2> HIDE DEF Deleting, Onward, Alike, Settled
  <2> QED BY <1>1, <1>2, <1>6, <1>8, <2>1, <2>2, <2>3, <2>4, ReadsSame, JournalOrders
<1> QED BY <1>7, <1>8 DEF Ready

\* FilesDeleted: every file of the source is gone.
LEMMA FilesDeletedOrders ==
  ASSUME OneAtATime, TypeInv, CopyInv, ReconInv, NEW r \in Requests, FilesDeleted(r)
  PROVE  ReconInv'
<1>1. /\ request[r].step = "delete" /\ request[r].left = {} /\ Now(r) = request[r].t
      /\ Record(r, "source_files_deleted", "drop")
      /\ UNCHANGED <<row, blobRow, blobs, staged, known, created>>
  BY DEF FilesDeleted, At, files, Now
<1>2. Kind(r) = "export" => \A a \in Moving(r) : <<blobRow[a], a>> \notin blobs
  BY <1>1 DEF ReconInv, Orderly, Places, Kind, Moving
<1>3. "delete" \in Deleting /\ "source_files_deleted" \in States \ {"none"} /\ "source_files_deleted" \in FilesGone
  BY DEF Deleting, States, Rank, FilesGone
<1> HIDE DEF Deleting, Kind, Moving, Record
<1> QED BY <1>1, <1>2, <1>3, RecordOrders

\* Dropped: the rows of the source are gone.
LEMMA DroppedOrders ==
  ASSUME OneAtATime, TypeInv, CopyInv, ReconInv, NEW r \in Requests, Dropped(r)
  PROVE  ReconInv'
<1>1. /\ request[r].step = "dropped" /\ Now(r) = request[r].t
      /\ Record(r, "source_database_deleted", "unmark")
      /\ UNCHANGED <<row, blobRow, blobs, staged, known, created>>
  BY DEF Dropped, At, files, Now
<1>2. "dropped" \in Deleting /\ "dropped" \in Handling /\ "source_database_deleted" \in States \ {"none"}
  BY DEF Deleting, Handling, Completing, States, Rank
<1>3. Progress(request[r]) /\ Parted(request[r]) /\ Settled
  BY DEF ReconInv, Orderly
<1>4. Kind(r) \in {"import", "export"} /\ Now(r) \in Transfers /\ Moving(r) \in SUBSET Assets
  <2> HIDE DEF Handling, Deleting
  <2> QED BY <1>1, <1>2, KindInHand, InHand
<1>5. transfer[request[r].t].state \in FilesGone
  BY <1>1, <1>3 DEF Progress
<1>6. Kind(r) = "export" => \A a \in Moving(r) : <<blobRow[a], a>> \notin blobs
  <2>1. Kind(r) = "export" => Now(r) \in Journals("export")
    BY <1>1, <1>4, <1>5 DEF Journals, Kind, FilesGone
  <2> QED BY <1>1, <1>3, <1>5, <2>1 DEF Settled, ExportsAreFinal, Moving
<1>7. \A a \in Moving(r) : ~(Exists("main", a) /\ Exists("vault", a))
  BY <1>1, <1>3, <1>4 DEF Parted, Moving, Kind, From
<1> HIDE DEF Deleting, Kind, Moving, Record, Exists
<1> QED BY <1>1, <1>2, <1>6, <1>7, RecordOrders

\* Rows change and none comes or goes: everything stays settled.
LEMMA RowsSettled ==
  ASSUME Settled, UNCHANGED <<blobRow, transfer, blobs, staged, known, created>>,
         \A d \in Databases, a \in Assets : Exists(d, a)' = Exists(d, a)
  PROVE  Settled'
<1>1. "main" \in Databases /\ "vault" \in Databases
  BY DEF Databases
<1> HIDE DEF Exists
<1>2. KnownOnce'
  BY DEF Settled, KnownOnce
<1>3. JournalsFit' /\ StagedKinds' /\ BlobsAreNamed' /\ BlobOnce'
  BY DEF Settled, JournalsFit, StagedKinds, BlobsAreNamed, BlobOnce
<1>4. BlobsHaveRows'
  BY <1>1 DEF Settled, BlobsHaveRows
<1>5. ExportsAreFinal'
  BY DEF Settled, ExportsAreFinal, Journals
<1>6. BothAreMarked'
  BY <1>1 DEF Settled, BothAreMarked
<1> QED BY <1>2, <1>3, <1>4, <1>5, <1>6 DEF Settled

\* Lease: tombstones are rows.
LEMMA LeaseOrders ==
  ASSUME OneAtATime, TypeInv, ReconInv, NEW r \in Requests, Lease(r)
  PROVE  ReconInv'
<1> DEFINE d == From[Kind(r)]
           ids == Moving(r)
<1>1. /\ request[r].step = "lease" /\ request[r].step \in Handling \ {"clear"}
      /\ request[r].step \in Deleting /\ "delete" \in Handling \ Staging
      /\ UNCHANGED <<blobRow, transfer, blobs, staged, known, created>>
  BY DEF Lease, At, Deleting, Completing, Handling, Staging, files
<1>2. CASE End(r) /\ UNCHANGED row
  BY <1>1, <1>2, EndOrders DEF Reads
<1>3. CASE row' = [row EXCEPT ![d] = Tombstones(row[d], ids)] /\ Each(r, "delete")
  <2>1. /\ request'[r].step = "delete" /\ Alike(request'[r], request[r])
        /\ request'[r].left = transfer[request[r].t].ids
    BY <1>3, EachFields DEF Moving, Now
  <2>2. d \in Databases /\ row \in [Databases -> [Assets -> Row]]
    <3>1. Kind(r) \in {"import", "export"}
      <4> HIDE DEF Handling, Deleting
      <4> QED BY <1>1, KindInHand
    <3> QED BY <3>1, TypesOf DEF Databases, Tables, From
  <2> HIDE DEF d, ids
  <2>3. /\ \A e \in Databases \ {d} : row'[e] = row[e]
        /\ row'[d] = Tombstones(row[d], ids)
    BY <1>3, <2>2
  <2>4. ASSUME NEW a \in Assets PROVE row'[d][a].lifecycle = "none" <=> row[d][a].lifecycle = "none"
    <3>1. row[d][a] \in Row
      BY <2>2
    <3>2. row'[d][a] = IF a \in ids /\ row[d][a].lifecycle # "none"
                       THEN [row[d][a] EXCEPT !.lifecycle = "purging"] ELSE row[d][a]
      BY <2>3 DEF Tombstones
    <3> QED BY <3>1, <3>2 DEF Row
  <2>5. \A e \in Databases, a \in Assets : Exists(e, a)' = Exists(e, a)
    BY <2>3, <2>4 DEF Exists
  <2>6. Settled'
    <3> HIDE DEF Exists, Settled
    <3> QED BY <1>1, <2>5, RowsSettled DEF ReconInv
  <2> HIDE DEF Handling, Staging, Deleting, Settled, Exists, Alike, Swept
  <2> QED BY <1>1, <2>1, <2>5, <2>6, HandOrderly
<1> QED BY <1>2, <1>3 DEF Lease

\* DeleteFile: a blob whose asset is in the main library, or a file that is
\* none of reconciliation's.
LEMMA DeleteFileOrders ==
  ASSUME OneAtATime, TypeInv, ReconInv, NEW r \in Requests, DeleteFile(r)
  PROVE  ReconInv'
<1>1. /\ request[r].step = "delete" /\ "delete" \in Handling \ Staging
      /\ UNCHANGED <<row, blobRow, transfer, staged, known, created>>
  BY DEF DeleteFile, At, Deleting, Completing, Handling, Staging, tables
<1>2. Places(request[r]) /\ Settled
  BY DEF ReconInv, Orderly
<1>3. CASE End(r) /\ UNCHANGED blobs
  BY <1>1, <1>3, EndOrders DEF Reads
<1>4. ASSUME NEW a \in request[r].left, Tick(r, a),
             \/ Kind(r) = "import" /\ UNCHANGED blobs
             \/ Kind(r) = "export" /\ blobs' = blobs \ {<<blobRow[a], a>>}
      PROVE  ReconInv'
  <2>1. /\ request'[r].step = "delete" /\ Alike(request'[r], request[r])
        /\ request'[r].left = request[r].left \ {a}
    BY <1>1, <1>4, TickFields
  <2>2. blobs' \subseteq blobs
    BY <1>4
  <2>3. Settled'
    <3>1. KnownOnce' /\ BlobsHaveRows'
      BY <1>1, <1>2 DEF Settled, KnownOnce, BlobsHaveRows, Exists
    <3>2. JournalsFit' /\ StagedKinds' /\ BlobsAreNamed' /\ BlobOnce'
      BY <1>1, <1>2, <2>2 DEF Settled, JournalsFit, StagedKinds, BlobsAreNamed, BlobOnce
    <3>3. ExportsAreFinal'
      BY <1>1, <1>2, <2>2 DEF Settled, ExportsAreFinal, Journals
    <3>4. BothAreMarked'
      BY <1>1, <1>2 DEF Settled, BothAreMarked, Exists
    <3> QED BY <3>1, <3>2, <3>3, <3>4 DEF Settled
  <2>4. transfer[request[r].t].kind = "export" =>
          \A b \in transfer[request[r].t].ids \ request'[r].left : <<blobRow'[b], b>> \notin blobs'
    BY <1>1, <1>2, <1>4, <2>1, <2>2 DEF Places, Kind, Now
  <2>5. \A e \in Databases, b \in Assets : Exists(e, b)' => Exists(e, b)
    BY <1>1 DEF Exists
  <2> HIDE DEF Handling, Staging, Settled, Exists, Alike, Swept
  <2> QED BY <1>1, <2>1, <2>3, <2>4, <2>5, HandOrderly
<1>5. Kind(r) \in {"import", "export"}
  <2>1. "delete" \in Handling /\ "delete" \in Deleting
    BY DEF Handling, Completing, Deleting
  <2> HIDE DEF Handling, Deleting
  <2> QED BY <1>1, <2>1, KindInHand
<1> QED BY <1>3, <1>4, <1>5 DEF DeleteFile

\* Drop: what an export leaves in the vault has no blob.
LEMMA DropOrders ==
  ASSUME OneAtATime, TypeInv, CopyInv, ReconInv, NEW r \in Requests, Drop(r)
  PROVE  ReconInv'
<1> DEFINE d == From[Kind(r)]
           ids == Moving(r)
<1>1. /\ request[r].step = "drop" /\ "drop" \in Deleting /\ "drop" \in Handling \ {"clear"}
      /\ "dropped" \in Handling \ Staging
      /\ UNCHANGED <<transfer, blobs, staged, known, created>>
  BY DropCases DEF Deleting, Completing, Handling, Staging
<1>2. /\ Settled /\ Progress(request[r])
      /\ ids \in SUBSET Assets /\ Now(r) \in Transfers /\ Now(r) = request[r].t
  <2> HIDE DEF Handling
  <2> QED BY <1>1, InHand DEF ReconInv, Orderly, Now
<1>3. (Kind(r) = "import" /\ d = "main") \/ (Kind(r) = "export" /\ d = "vault")
  <2> HIDE DEF Handling, Deleting
  <2> QED BY <1>1, KindInHand DEF From
<1>4. transfer[request[r].t].state \in FilesGone /\ Now(r) \in Journals(Kind(r))
  BY <1>1, <1>2 DEF Progress, FilesGone, Journals, Kind
<1>5. CASE End(r) /\ UNCHANGED <<row, blobRow>>
  BY <1>1, <1>5, EndOrders DEF Reads
<1>6. CASE Drops(r)
  <2>1. request'[r].step = "dropped" /\ Alike(request'[r], request[r])
    BY <1>6, GoFields DEF Drops
  <2>2. "main" \in Databases /\ "vault" \in Databases
    BY DEF Databases
  <2>4. /\ d \in Databases
        /\ \A e \in Databases \ {d} : row'[e] = row[e]
        /\ \A a \in ids : row'[d][a] = NoRow
        /\ \A b \in Assets : b \notin ids => (row'[d][b].lifecycle = "none" <=> row[d][b].lifecycle = "none")
        /\ blobRow' = IF d = "main" THEN blobRow
                      ELSE [a \in Assets |-> IF a \in ids THEN 0 ELSE blobRow[a]]
    BY <1>1, <1>6, SourceDropped
  <2> HIDE DEF d, ids
  <2>5. /\ \A e \in Databases, a \in Assets : Exists(e, a)' => Exists(e, a)
        /\ \A a \in ids : row'[d][a].lifecycle = "none"
        /\ \A a \in Assets : d = "main" \/ a \notin ids => (Exists("vault", a)' <=> Exists("vault", a))
    <3>1. NoRow.lifecycle = "none"
      BY DEF NoRow
    <3>2. \A a \in ids : row'[d][a].lifecycle = "none"
      BY <1>2, <2>4, <3>1
    <3>3. \A e \in Databases, a \in Assets : row'[e][a].lifecycle = "none" \/ row[e][a].lifecycle # "none"
      BY <2>4, <3>1
    <3>4. \A a \in Assets : d = "main" \/ a \notin ids =>
            (row'["vault"][a].lifecycle = "none" <=> row["vault"][a].lifecycle = "none")
      BY <1>3, <2>2, <2>4
    <3> QED BY <3>2, <3>3, <3>4 DEF Exists
  <2>6. /\ \A a \in Assets : d = "main" \/ a \notin ids => blobRow'[a] = blobRow[a]
        /\ \A a \in Assets : d # "main" /\ a \in ids => blobRow'[a] = 0
    BY <2>4
  <2>7. created \in Nat /\ 0 \notin Transfers /\ \A x \in staged \cup blobs : x \in Transfers \X Assets
    BY TypesOf DEF Files, Transfers
  <2> HIDE DEF Exists
  <2>8. Settled'
    <3>1. KnownOnce'
      BY <1>1, <1>2, <2>5 DEF Settled, KnownOnce
    <3>2. JournalsFit' /\ StagedKinds' /\ BlobOnce'
      BY <1>1, <1>2 DEF Settled, JournalsFit, StagedKinds, BlobOnce
    <3>3. BlobsAreNamed'
      <4> SUFFICES ASSUME NEW x \in blobs PROVE blobRow'[x[2]] = x[1]
        BY <1>1 DEF BlobsAreNamed
      <4>1. x[2] \in Assets /\ blobRow[x[2]] = x[1] /\ x = <<x[1], x[2]>>
        BY <1>2, <2>7 DEF Settled, BlobsAreNamed
      <4>2. d = "main" \/ x[2] \notin ids
        BY <1>2, <1>3, <1>4, <4>1 DEF Settled, ExportsAreFinal, Moving, ids
      <4> QED BY <2>6, <4>1, <4>2
    <3>4. BlobsHaveRows'
      BY <1>1, <1>2, <2>5, <2>6, <2>7 DEF Settled, BlobsHaveRows
    <3>5. ExportsAreFinal'
      <4> SUFFICES ASSUME NEW t \in Journals("export"), NEW a \in transfer[t].ids
                   PROVE  /\ <<blobRow'[a], a>> \notin staged
                          /\ transfer[t].state \in FilesGone => <<blobRow'[a], a>> \notin blobs
        BY <1>1 DEF ExportsAreFinal, Journals
      <4>1. a \in Assets
        BY TypesOf DEF Journals, Transfer
      <4>2. CASE blobRow'[a] = 0
        BY <2>7, <4>2
      <4>3. CASE blobRow'[a] = blobRow[a]
        BY <1>2, <4>3 DEF Settled, ExportsAreFinal
      <4> QED BY <2>6, <4>1, <4>2, <4>3
    <3>6. BothAreMarked'
      BY <1>1, <1>2, <2>2, <2>5 DEF Settled, BothAreMarked
    <3> QED BY <3>1, <3>2, <3>3, <3>4, <3>5, <3>6 DEF Settled
  <2>9. /\ transfer[request[r].t].state \in FilesGone
        /\ \A a \in transfer[request[r].t].ids : ~Exists(From[transfer[request[r].t].kind], a)'
    <3>1. \A a \in transfer[request[r].t].ids :
            row'[From[transfer[request[r].t].kind]][a].lifecycle = "none"
      BY <1>2, <2>5 DEF Moving, Kind, d, ids
    <3> QED BY <1>1, <1>4, <2>1, <3>1 DEF Exists, Alike
  <2> HIDE DEF Handling, Staging, Settled, Alike, Swept, FilesGone
  <2> QED BY <1>1, <2>1, <2>5, <2>8, <2>9, HandOrderly
<1> QED BY <1>5, <1>6, DropCases

\* Unmark: every asset of the transfer is in one database by now.
LEMMA UnmarkOrders ==
  ASSUME OneAtATime, TypeInv, CopyInv, ReconInv, NEW r \in Requests, Unmark(r)
  PROVE  ReconInv'
<1> DEFINE s == IF Kind(r) = "ingest" THEN "clear" ELSE "close"
<1>1. /\ request[r].step = "unmark" /\ "unmark" \in Handling /\ Now(r) = request[r].t
      /\ UNCHANGED <<row, blobRow, blobs, staged, known, created>>
      /\ transfer' = [transfer EXCEPT ![Now(r)].marker = FALSE] /\ Go(r, s)
  BY DEF Unmark, At, Completing, Handling, files, Now
<1>2. /\ Settled /\ Progress(request[r]) /\ Listing(request[r]) /\ Clean(request[r])
      /\ Now(r) \in Transfers
  <2> HIDE DEF Handling
  <2> QED BY <1>1, InHand DEF ReconInv, Orderly
<1>3. ASSUME NEW t \in Transfers
      PROVE  /\ transfer'[t].kind = transfer[t].kind /\ transfer'[t].ids = transfer[t].ids
             /\ transfer'[t].state = transfer[t].state
             /\ t = Now(r) => ~transfer'[t].marker
             /\ t # Now(r) => transfer'[t].marker = transfer[t].marker
  <2>1. transfer'[t] = IF t = Now(r) THEN [transfer[t] EXCEPT !.marker = FALSE] ELSE transfer[t]
    BY <1>1, TypesOf
  <2>2. transfer[t] \in Transfer
    BY TypesOf
  <2>3. CASE t = Now(r)
    BY <2>1, <2>2, <2>3 DEF Transfer
  <2>4. CASE t # Now(r)
    BY <2>1, <2>2, <2>4 DEF Transfer
  <2> QED BY <2>3, <2>4
<1>4. request'[r].step = s /\ Alike(request'[r], request[r])
  BY <1>1, GoFields
<1>5. s \in {"clear", "close"} /\ s \in Handling \ Staging /\ (s = "clear" => Kind(r) = "ingest")
  BY DEF Handling, Completing, Staging
<1> HIDE DEF s
<1>6. \A k : Journals(k)' = Journals(k) /\ Markers(k)' \subseteq Markers(k)
  BY <1>3 DEF Journals, Markers
<1>7. Settled'
  <2>1. \A x \in staged : x[1] \in Transfers
    BY TypesOf DEF Files
  <2>2. KnownOnce' /\ BlobsHaveRows'
    BY <1>1, <1>2, <1>3 DEF Settled, KnownOnce, BlobsHaveRows, Exists
  <2>3. JournalsFit'
    BY <1>2, <1>3 DEF Settled, JournalsFit
  <2>4. StagedKinds' /\ BlobsAreNamed' /\ BlobOnce'
    BY <1>1, <1>2, <1>3, <2>1 DEF Settled, StagedKinds, BlobsAreNamed, BlobOnce
  <2>5. ExportsAreFinal'
    BY <1>1, <1>2, <1>3 DEF Settled, ExportsAreFinal, Journals
  <2>6. BothAreMarked'
    <3> SUFFICES ASSUME NEW a \in Assets, Exists("main", a), Exists("vault", a)
                 PROVE  \E t \in Transfers :
                          /\ a \in transfer'[t].ids /\ transfer'[t].kind # "ingest"
                          /\ transfer'[t].marker /\ transfer'[t].state # "source_database_deleted"
      BY <1>1 DEF BothAreMarked, Exists
    <3>1. PICK t \in Transfers : /\ a \in transfer[t].ids /\ transfer[t].kind # "ingest"
                                 /\ transfer[t].marker /\ transfer[t].state # "source_database_deleted"
      BY <1>2 DEF Settled, BothAreMarked
    <3>2. t # Now(r)
      BY <1>1, <1>2, <3>1 DEF Progress
    <3> QED BY <1>3, <3>1, <3>2
  <2> QED BY <2>2, <2>3, <2>4, <2>5, <2>6 DEF Settled
<1>8. Listing(request[r])'
  <2> HIDE DEF Handling, Staging, Alike, Listing
  <2> QED BY <1>1, <1>2, <1>4, <1>5, <1>6, ListingOn
<1>9. Clean(request[r])'
  <2>1. Swept(request[r])' => Swept(request[r])
    BY <1>1, <1>4, <1>5 DEF Swept, Alike, Sweeps
  <2> HIDE DEF Swept
  <2> QED BY <1>1, <1>2, <1>4, <1>5, <1>6, <2>1 DEF Clean
<1>10. Progress(request[r])'
  <2>1. \A x \in request[r].todo : x[2] = transfer'[x[1]].state
    <3> HIDE DEF Handling
    <3> QED BY <1>1, <1>3, TodoStays
  <2>2. /\ ~transfer'[request'[r].t].marker
        /\ s = "clear" => transfer'[request'[r].t].kind = "ingest"
    BY <1>1, <1>2, <1>3, <1>4, <1>5 DEF Alike, Kind
  <2>3. {"clear", "close"} \cap (Staging \cup {"complete", "finalize", "validate", "ready", "drop", "dropped", "unmark"}) = {}
    BY DEF Staging
  <2> HIDE DEF Staging
  <2> QED BY <1>4, <1>5, <2>1, <2>2, <2>3 DEF Progress, Alike
<1>11. Knows(request[r])' /\ Places(request[r])' /\ Parted(request[r])'
  BY <1>4, <1>5 DEF Knows, Places, Parted, Staging
<1> QED BY <1>7, <1>8, <1>9, <1>10, <1>11, OneInOrder DEF Orderly

\* Finalize: a blob leaves the staging directory for where its row says.
LEMMA FinalizeOrders ==
  ASSUME OneAtATime, TypeInv, ReconInv, NEW r \in Requests, Finalize(r)
  PROVE  ReconInv'
<1>1. /\ request[r].step = "finalize" /\ UNCHANGED <<row, blobRow, transfer, known, created>>
  BY FinalizeCases
<1>2. {"finalize", "validate"} \subseteq Handling \ Staging
  BY DEF Handling, Completing, Staging
<1>3. CASE /\ request[r].left = {} /\ Go(r, "validate")
           /\ staged' = staged \ StagedBy(Now(r)) /\ UNCHANGED blobs
  <2>1. request'[r].step = "validate" /\ Alike(request'[r], request[r]) /\ staged' \subseteq staged
    BY <1>3, GoFields
  <2> HIDE DEF Handling, Staging, Alike
  <2> QED BY <1>1, <1>2, <1>3, <2>1, HandOrders
<1>4. CASE End(r) /\ UNCHANGED <<staged, blobs>>
  BY <1>1, <1>4, EndOrders DEF Reads
<1>5. ASSUME NEW a \in request[r].left, Tick(r, a), UNCHANGED blobs, staged' \subseteq staged
      PROVE  ReconInv'
  <2>1. request'[r].step = "finalize" /\ Alike(request'[r], request[r])
    BY <1>1, <1>5, TickFields
  <2> HIDE DEF Handling, Staging, Alike
  <2> QED BY <1>1, <1>2, <1>5, <2>1, HandOrders
<1>6. ASSUME NEW a \in request[r].left, Tick(r, a), <<blobRow[a], a>> \in staged,
             staged' = staged \ {<<blobRow[a], a>>}, blobs' = blobs \cup {<<blobRow[a], a>>}
      PROVE  ReconInv'
  <2>1. request'[r].step = "finalize" /\ Alike(request'[r], request[r])
    BY <1>1, <1>6, TickFields
  <2>2. Settled /\ a \in Assets
    BY TypesOf DEF ReconInv, Request
  <2>3. Settled'
    <3>1. KnownOnce' /\ BlobsHaveRows'
      BY <1>1, <2>2 DEF Settled, KnownOnce, BlobsHaveRows, Exists
    <3>2. JournalsFit' /\ StagedKinds' /\ BlobsAreNamed' /\ BlobOnce'
      BY <1>1, <1>6, <2>2 DEF Settled, JournalsFit, StagedKinds, BlobsAreNamed, BlobOnce
    <3>3. ExportsAreFinal'
      <4> SUFFICES ASSUME NEW t \in Journals("export"), NEW b \in transfer[t].ids
                   PROVE  /\ <<blobRow[b], b>> \notin staged'
                          /\ transfer[t].state \in FilesGone => <<blobRow[b], b>> \notin blobs'
        BY <1>1 DEF ExportsAreFinal, Journals
      <4> QED BY <1>6, <2>2 DEF Settled, ExportsAreFinal
    <3>4. BothAreMarked'
      BY <1>1, <2>2 DEF Settled, BothAreMarked, Exists
    <3> QED BY <3>1, <3>2, <3>3, <3>4 DEF Settled
  <2>4. staged' \subseteq staged /\ \A e \in Databases, b \in Assets : Exists(e, b)' => Exists(e, b)
    BY <1>1, <1>6 DEF Exists
  <2> HIDE DEF Handling, Staging, Settled, Exists, Alike, Swept
  <2> QED BY <1>1, <1>2, <2>1, <2>3, <2>4, HandOrderly
<1> QED BY <1>3, <1>4, <1>5, <1>6, FinalizeCases DEF StagedBy

\* Prepare: what moves is in the source, an export's with its blobs.
LEMMA PrepareOrders ==
  ASSUME OneAtATime, TypeInv, ReconInv, NEW r \in Requests, Prepare(r)
  PROVE  ReconInv'
<1> DEFINE rows == [a \in Assets |-> IF a \in request[r].ids THEN row[From[request[r].kind]][a]
                                     ELSE NoRow]
<1>1. /\ request[r].step = "prepare" /\ request[r] \in Request /\ Reads
      /\ Settled /\ Progress(request[r]) /\ Listing(request[r])
      /\ request[r].kind \in {"import", "export"} /\ request[r].ids \in SUBSET Assets
  BY TypesOf DEF Prepare, At, Reads, tables, files, ReconInv, Orderly, TypeInv, ThreadsAreSound,
                 Sound, Request
<1>2. CASE End(r)
  BY <1>1, <1>2, EndOrders
<1>3. CASE Prepared(r) /\ Become(r, [request[r] EXCEPT !.step = "open", !.rows = rows])
  <2>1. request'[r] = [request[r] EXCEPT !.step = "open", !.rows = rows]
    BY <1>3, Became
  <2>2. /\ \A a \in request[r].ids : Gets(From[request[r].kind], a)
        /\ request[r].kind = "export" => \A a \in request[r].ids : BlobHere(a)
    BY <1>1, <1>3 DEF Prepared
  <2>3. \A a \in request[r].ids : rows[a].lifecycle # "none" /\ Exists(From[request[r].kind], a)
    BY <1>1, <2>2 DEF Gets, Exists
  <2> HIDE DEF rows
  <2>4. request'[r].step = "open" /\ Alike(request'[r], request[r]) /\ request'[r].rows = rows
    BY <1>1, <2>1 DEF Request, Alike
  <2>5. From[request[r].kind] \in Databases
    BY <1>1 DEF From, Databases
  <2>6. Knows(request[r])'
    <3>1. request[r].ids \subseteq known
      BY <1>1, <2>3, <2>5 DEF Settled, KnownOnce
    <3> QED BY <1>1, <2>3, <2>4, <3>1 DEF Knows, Reads, Alike
  <2>7. Progress(request[r])'
    BY <1>1, <2>4 DEF Progress, Reads, Alike, Staging
  <2>8. Listing(request[r])'
    BY <1>1, <2>4, ReadsSame DEF Listing, Alike, Sweeps, Starts, Staging
  <2>9. Clean(request[r])'
    BY <1>1, <2>4 DEF Clean, Swept, Alike
  <2>10. Places(request[r])' /\ Parted(request[r])'
    BY <1>1, <2>2, <2>4 DEF Places, Parted, Staging, BlobHere, Reads, Alike
  <2> QED BY <1>1, <2>6, <2>7, <2>8, <2>9, <2>10, ReadsOrder DEF Orderly
<1> QED BY <1>2, <1>3 DEF Prepare

\* A transfer is begun: no blob and no row names it yet.
LEMMA NewSettled ==
  ASSUME TypeInv, TypeInv', ReconInv, NEW u \in Transfer, created' = created + 1,
         transfer' = [transfer EXCEPT ![created'] = u], u.kind # "none", ~u.marker,
         u.kind = "ingest" => u.state = "none",
         u.state \notin FilesGone, u.ids \subseteq known', known \subseteq known',
         u.kind = "export" => \A a \in u.ids : BlobHere(a),
         UNCHANGED <<row, blobRow, blobs, staged>>
  PROVE  /\ Settled'
         /\ created' \in Transfers /\ transfer'[created'] = u
         /\ \A t \in Transfers \ {created'} : transfer'[t] = transfer[t]
         /\ \A a \in Assets : blobRow'[a] # created'
         /\ \A k : Markers(k)' = Markers(k)
         /\ \A k \in {"import", "export"} : k # u.kind => Journals(k)' = Journals(k)
<1>1. /\ transfer \in [Transfers -> Transfer] /\ created \in 0 .. MaxTransfers
      /\ created' \in 0 .. MaxTransfers /\ MaxTransfers \in Nat /\ Settled
  BY TypesOf DEF TypeInv, TypeOK, ReconInv
<1>2. created' \in Transfers
  BY <1>1 DEF Transfers
<1>3. transfer'[created'] = u /\ \A t \in Transfers \ {created'} : transfer'[t] = transfer[t]
  BY <1>1, <1>2
<1>4. /\ transfer[created'].kind = "none" /\ ~transfer[created'].marker
      /\ transfer[created'].state = "none"
  <2>1. ~ (created' <= created)
    BY <1>1
  <2> QED BY <1>2, <2>1 DEF TypeInv, Begun, NoTransfer
<1>5. \A a \in Assets : blobRow[a] \in Nat /\ blobRow[a] <= created
  BY <1>1, TypesOf DEF Settled, BlobsHaveRows, Tables
<1>6. \A a \in Assets : blobRow'[a] # created'
  BY <1>1, <1>5
<1>7. /\ \A k : Markers(k)' = Markers(k)
      /\ \A k \in {"import", "export"} : k # u.kind => Journals(k)' = Journals(k)
  BY <1>3, <1>4 DEF Markers, Journals
<1>8. KnownOnce' /\ BlobsHaveRows'
  <2>1. KnownOnce'
    BY <1>1, <1>3 DEF Settled, KnownOnce, Exists
  <2>2. BlobsHaveRows'
    BY <1>1, <1>5 DEF Settled, BlobsHaveRows, Exists
  <2> QED BY <2>1, <2>2
<1>9. JournalsFit'
  BY <1>1, <1>3 DEF Settled, JournalsFit
<1>10. StagedKinds' /\ BlobsAreNamed' /\ BlobOnce'
  <2>1. \A x \in staged : x[1] \in Transfers /\ transfer[x[1]].kind \in {"import", "ingest"}
    BY <1>1, TypesOf DEF Files, Settled, StagedKinds
  <2>2. \A x \in staged : transfer'[x[1]] = transfer[x[1]]
    BY <1>3, <1>4, <2>1
  <2> QED BY <1>1, <2>1, <2>2 DEF Settled, StagedKinds, BlobsAreNamed, BlobOnce
<1>11. ExportsAreFinal'
  <2> SUFFICES ASSUME NEW t \in Transfers, transfer'[t].kind = "export", transfer'[t].state # "none",
                      NEW a \in transfer'[t].ids
               PROVE  /\ <<blobRow[a], a>> \notin staged
                      /\ transfer'[t].state \in FilesGone => <<blobRow[a], a>> \notin blobs
    BY DEF ExportsAreFinal, Journals
  <2>1. CASE t = created'
    BY <1>1, <1>3, <2>1 DEF Settled, BlobOnce, BlobHere
  <2>2. CASE t # created'
    BY <1>1, <1>3, <2>2 DEF Settled, ExportsAreFinal, Journals
  <2> QED BY <2>1, <2>2
<1>12. BothAreMarked'
  <2> SUFFICES ASSUME NEW a \in Assets, Exists("main", a), Exists("vault", a)
               PROVE  \E t \in Transfers :
                        /\ a \in transfer'[t].ids /\ transfer'[t].kind # "ingest"
                        /\ transfer'[t].marker /\ transfer'[t].state # "source_database_deleted"
    BY DEF BothAreMarked, Exists
  <2>1. PICK t \in Transfers : /\ a \in transfer[t].ids /\ transfer[t].kind # "ingest"
                               /\ transfer[t].marker /\ transfer[t].state # "source_database_deleted"
    BY <1>1 DEF Settled, BothAreMarked
  <2>2. transfer'[t] = transfer[t]
    BY <1>3, <1>4, <2>1
  <2> QED BY <2>1, <2>2
<1> QED BY <1>2, <1>3, <1>6, <1>7, <1>8, <1>9, <1>10, <1>11, <1>12 DEF Settled

\* Open: the journal of a transfer that has nothing yet.
LEMMA OpenOrders ==
  ASSUME OneAtATime, TypeInv, TypeInv', ReconInv, NEW r \in Requests, Open(r)
  PROVE  ReconInv'
<1> DEFINE u == [kind |-> request[r].kind, ids |-> request[r].ids,
                 state |-> "preparing", marker |-> FALSE]
           q(n) == [request[r] EXCEPT !.step = "stage", !.own = n, !.t = n,
                                      !.state = "preparing", !.left = request[r].ids]
<1>1. /\ request[r].step = "open" /\ request[r] \in Request
      /\ UNCHANGED <<row, blobRow, blobs, staged, known>>
      /\ Knows(request[r]) /\ Progress(request[r]) /\ Listing(request[r]) /\ Places(request[r])
      /\ request[r].kind \in {"import", "export"}
  BY TypesOf DEF Open, At, ReconInv, Orderly, files, TypeInv, ThreadsAreSound, Sound
<1>2. CASE End(r) /\ UNCHANGED <<created, transfer>>
  BY <1>1, <1>2, EndOrders DEF Reads
<1>3. CASE /\ created' = created + 1 /\ transfer' = [transfer EXCEPT ![created'] = u]
           /\ Become(r, q(created'))
  <2>1. /\ u \in Transfer /\ u.kind = request[r].kind /\ u.ids = request[r].ids /\ ~u.marker
        /\ u.state = "preparing" /\ "preparing" \notin FilesGone
    BY <1>1 DEF Request, Transfer, States, Rank, FilesGone
  <2>2. /\ request'[r].step = "stage" /\ request'[r].t = created' /\ request'[r].state = "preparing"
        /\ request'[r].ids = request[r].ids /\ request'[r].kind = request[r].kind
        /\ request'[r].todo = request[r].todo /\ request'[r].phase = request[r].phase
        /\ request'[r].rows = request[r].rows
    <3> DEFINE p == q(created')
    <3>1. /\ p.step = "stage" /\ p.t = created' /\ p.state = "preparing"
          /\ p.ids = request[r].ids /\ p.kind = request[r].kind
          /\ p.todo = request[r].todo /\ p.phase = request[r].phase /\ p.rows = request[r].rows
      BY <1>1 DEF Request
    <3>2. request'[r] = p
      BY <1>3, Became
    <3> QED BY <3>1, <3>2
  <2> HIDE DEF u, q
  <2>3. u.ids \subseteq known /\ (u.kind = "export" => \A a \in u.ids : BlobHere(a))
    BY <1>1, <2>1 DEF Knows, Places
  <2>4. /\ Settled'
        /\ created' \in Transfers /\ transfer'[created'] = u
        /\ \A t \in Transfers \ {created'} : transfer'[t] = transfer[t]
        /\ \A a \in Assets : blobRow'[a] # created'
        /\ \A k : Markers(k)' = Markers(k)
        /\ \A k \in {"import", "export"} : k # u.kind => Journals(k)' = Journals(k)
    <3> HIDE DEF Settled, Markers, Journals, BlobHere, FilesGone
    <3> QED BY <1>1, <1>3, <2>1, <2>3, NewSettled
  <2>5. Knows(request[r])'
    BY <1>1, <2>2 DEF Knows, Staging
  <2>6. Progress(request[r])'
    <3>1. \A x \in request[r].todo : x[1] \in Transfers /\ x[1] # created'
      <4>1. created \in Nat /\ \A x \in request[r].todo : x[1] \in Transfers /\ x[1] <= created
        BY TypesOf DEF TypeInv, ThreadsAreSound, Sound, Request
      <4> QED BY <1>3, <4>1 DEF Transfers
    <3>2. \A x \in request[r].todo : x[2] = transfer'[x[1]].state
      BY <1>1, <2>4, <3>1 DEF Progress
    <3> QED BY <2>1, <2>2, <2>4, <3>2 DEF Progress, Staging
  <2>7. Listing(request[r])'
    BY <1>1, <2>1, <2>2, <2>4 DEF Listing, Sweeps, Starts, Staging
  <2>8. Clean(request[r])'
    BY <1>1, <2>2 DEF Clean, Swept
  <2>9. Places(request[r])' /\ Parted(request[r])'
    BY <1>1, <2>2, <2>4 DEF Places, Parted, Staging
  <2> QED BY <2>4, <2>5, <2>6, <2>7, <2>8, <2>9, OneInOrder DEF Orderly
<1> QED BY <1>2, <1>3 DEF Open

\* A direct upload brings a new asset.
LEMMA BeginIngestOrders ==
  ASSUME OneAtATime, TypeInv, TypeInv', ReconInv, NEW r \in Requests, NEW a \in Assets, BeginIngest(r, a)
  PROVE  ReconInv'
<1> DEFINE u == [NoTransfer EXCEPT !.kind = "ingest", !.ids = {a}]
           q(n) == [Idle EXCEPT !.step = "stage", !.kind = "ingest", !.live = TRUE, !.ids = {a},
                                !.own = n, !.t = n, !.left = {a}]
<1>1. /\ Become(r, q(created')) /\ created' = created + 1
      /\ transfer' = [transfer EXCEPT ![created'] = u]
      /\ UNCHANGED <<row, blobRow, blobs, staged>>
      /\ a \notin known /\ known' = known \cup {a} /\ Settled
  BY DEF BeginIngest, files, ReconInv
<1>2. u \in Transfer /\ u.kind = "ingest" /\ u.ids = {a} /\ u.state = "none" /\ ~u.marker /\ "none" \notin FilesGone
  BY DEF NoTransfer, Transfer, Kinds, States, Rank, FilesGone
<1>3. ASSUME NEW p \in Request
      PROVE  LET x == [p EXCEPT !.step = "stage", !.kind = "ingest", !.live = TRUE, !.ids = {a},
                                !.own = created', !.t = created', !.left = {a}]
             IN /\ x.t = created' /\ x.todo = p.todo /\ x.kind = "ingest" /\ x.step = "stage"
                /\ x.ids = {a} /\ x.phase = p.phase
  BY DEF Request
<1> DEFINE p == q(created')
<1>4. /\ p.t = created' /\ p.todo = {} /\ p.kind = "ingest" /\ p.step = "stage"
      /\ p.ids = {a} /\ p.phase = "none"
  <2>1. Idle.phase = "none"
    BY DEF Idle
  <2> QED BY <1>3, <2>1, IdleFields, IdleIsRequest
<1>5. request'[r] = p
  BY <1>1, Became
<1> HIDE DEF p, u, q
<1>6. /\ Settled'
      /\ created' \in Transfers /\ transfer'[created'] = u
      /\ \A t \in Transfers \ {created'} : transfer'[t] = transfer[t]
      /\ \A b \in Assets : blobRow'[b] # created'
  <2> HIDE DEF Settled, FilesGone
  <2> QED BY <1>1, <1>2, NewSettled
<1>7. Knows(request[r])' /\ Progress(request[r])' /\ Listing(request[r])' /\ Clean(request[r])'
  BY <1>1, <1>2, <1>4, <1>5, <1>6 DEF Knows, Progress, Listing, Clean, Swept, Staging, Sweeps, Starts
<1>8. Places(request[r])' /\ Parted(request[r])'
  <2>1. ~Exists("main", a) /\ \A t \in Transfers : a \notin transfer[t].ids
    BY <1>1 DEF Settled, KnownOnce, Databases
  <2>2. \A t \in Transfers \ {created'} : transfer'[t].ids \cap {a} = {}
    BY <1>6, <2>1
  <2> QED BY <1>1, <1>2, <1>4, <1>5, <1>6, <2>1, <2>2 DEF Places, Parted, Staging, Exists
<1> QED BY <1>6, <1>7, <1>8, OneInOrder DEF Orderly

\* A thread that stages is not an unlock.
LEMMA StagingIsOwn ==
  ASSUME TypeInv, NEW r \in Requests, request[r].step \in Staging
  PROVE  /\ ~Swept(request[r]) /\ Staging \subseteq Handling \ {"drop", "close", "clear"}
         /\ Staging \cap (Undoing \cup Completing) = {}
         /\ request[r] \in Request /\ request[r].kind = transfer[request[r].t].kind
         /\ request[r].t \in Transfers
<1>1. request[r].kind = Kind(r) /\ request[r].kind \in Kinds
  BY OwnInHand
<1>2. ~Swept(request[r])
  BY <1>1 DEF Swept, Kinds
<1>3. Staging \subseteq Handling \ {"drop", "close", "clear"} /\ Staging \cap (Undoing \cup Completing) = {}
  BY DEF Handling, Staging, Undoing, Completing, Deleting
<1>4. Now(r) \in Transfers
  <2> HIDE DEF Handling, Staging
  <2> QED BY <1>3, InHand
<1> QED BY <1>1, <1>2, <1>3, <1>4, TypesOf DEF Kind, Now

\* StageBlob: no blob and no row has what is staged.
LEMMA StageBlobOrders ==
  ASSUME OneAtATime, TypeInv, ReconInv, NEW r \in Requests, StageBlob(r)
  PROVE  ReconInv'
<1>1. /\ request[r].step = "stage" /\ request[r].kind # "export" /\ "stage" \in Staging /\ "abort" \in Staging
      /\ UNCHANGED <<row, blobRow, transfer, known, blobs, created>>
  BY DEF StageBlob, At, tables, Staging
<1>2. /\ Settled /\ Places(request[r])
      /\ ~Swept(request[r]) /\ Staging \subseteq Handling \ {"drop", "close", "clear"}
      /\ request[r].kind = transfer[request[r].t].kind /\ request[r].t \in Transfers
      /\ request[r] \in Request
  <2> HIDE DEF Staging, Handling, Swept
  <2> QED BY <1>1, StagingIsOwn DEF ReconInv, Orderly
<1>3. ASSUME NEW a \in Assets, staged' \subseteq staged \cup {<<Now(r), a>>}
      PROVE  Settled'
  <2>1. KnownOnce' /\ BlobsHaveRows'
    BY <1>1, <1>2 DEF Settled, KnownOnce, BlobsHaveRows, Exists
  <2>2. transfer[Now(r)].kind \in {"import", "ingest"}
    <3>1. transfer[Now(r)].kind \in Kinds
      <4>1. request[r].step \in Handling
        BY <1>1, <1>2
      <4> HIDE DEF Handling
      <4> QED BY <4>1, InHand DEF Kind
    <3> QED BY <1>1, <1>2, <3>1 DEF Now, Kinds
  <2>3. \A b \in Assets : blobRow[b] # Now(r)
    BY <1>1, <1>2 DEF Places, Now
  <2>4. JournalsFit' /\ StagedKinds' /\ BlobsAreNamed'
    BY <1>1, <1>2, <1>3, <2>2 DEF Settled, JournalsFit, StagedKinds, BlobsAreNamed
  <2>5. BlobOnce'
    <3>1. <<Now(r), a>> \notin blobs
      BY <1>2, <2>3 DEF Settled, BlobsAreNamed
    <3> QED BY <1>1, <1>2, <1>3, <3>1 DEF Settled, BlobOnce
  <2>6. ExportsAreFinal'
    <3> SUFFICES ASSUME NEW t \in Journals("export"), NEW b \in transfer[t].ids
                 PROVE  /\ <<blobRow[b], b>> \notin staged'
                        /\ transfer[t].state \in FilesGone => <<blobRow[b], b>> \notin blobs
      BY <1>1 DEF ExportsAreFinal, Journals
    <3>1. b \in Assets
      BY TypesOf DEF Journals, Transfer
    <3> QED BY <1>2, <1>3, <2>3, <3>1 DEF Settled, ExportsAreFinal
  <2>7. BothAreMarked'
    BY <1>1, <1>2 DEF Settled, BothAreMarked, Exists
  <2> QED BY <2>1, <2>4, <2>5, <2>6, <2>7 DEF Settled
<1>4. \A e \in Databases, b \in Assets : Exists(e, b)' => Exists(e, b)
  BY <1>1 DEF Exists
<1>5. PICK a \in request[r].left :
        \/ staged' = staged \cup {<<Now(r), a>>} /\ Tick(r, a)
        \/ Go(r, "abort") /\ UNCHANGED staged
        \/ staged' \in {staged, staged \cup {<<Now(r), a>>}} /\ End(r)
  BY DEF StageBlob
<1>6. a \in Assets /\ staged' \subseteq staged \cup {<<Now(r), a>>}
  BY <1>2, <1>5 DEF Request
<1>7. Settled'
  BY <1>3, <1>6
<1>8. CASE End(r)
  BY <1>7, <1>8, EndOrderly, OneInOrder
<1>9. CASE Tick(r, a) \/ Go(r, "abort")
  <2>1. request'[r].step \in {"stage", "abort"} /\ Alike(request'[r], request[r]) /\ request'[r].rows = request[r].rows
    BY <1>1, <1>9, TickFields, GoFields
  <2>2. /\ request'[r].step \in Staging /\ request[r].step \in Staging
        /\ request'[r].step \notin {"complete", "finalize", "validate", "ready", "unmark", "forget", "delete", "dropped"}
    BY <1>1, <2>1
  <2> HIDE DEF Handling, Staging, Settled, Exists, Alike, Swept
  <2> QED BY <1>1, <1>2, <1>4, <1>7, <2>1, <2>2, HandOrderly
<1> QED BY <1>5, <1>8, <1>9

\* A thread that goes on staging and changes files of the main library only.
LEMMA StagingOrders ==
  ASSUME OneAtATime, TypeInv, ReconInv, NEW r \in Requests, Reads, Alike(request'[r], request[r]),
         request[r].step \in {"stage", "write"}, request'[r].step \in Staging,
         request'[r].rows = request[r].rows
  PROVE  ReconInv'
<1>1. request[r].step \in Staging
  BY DEF Staging
<1>2. Staging \subseteq Handling \ {"drop", "close", "clear"}
  <2> HIDE DEF Staging, Handling
  <2> QED BY <1>1, StagingIsOwn
<1>3. Staging \cap {"complete", "finalize", "validate", "ready", "unmark", "forget", "delete", "dropped"} = {}
  BY DEF Staging
<1>4. request'[r].step \notin {"complete", "finalize", "validate", "ready", "unmark", "forget", "delete", "dropped"}
  BY <1>3
<1> HIDE DEF Handling, Staging, Alike
<1> QED BY <1>1, <1>2, <1>4, HandOrders DEF Reads

\* CreatePlain and WritePlain write files of the main library.
LEMMA CreatePlainOrders ==
  ASSUME OneAtATime, TypeInv, ReconInv, NEW r \in Requests, CreatePlain(r)
  PROVE  ReconInv'
<1>1. request[r].step = "stage" /\ request[r] \in Request /\ Reads
  BY TypesOf DEF CreatePlain, At, Reads, tables
<1>2. "write" \in Staging /\ "abort" \in Staging
  BY DEF Staging
<1>3. CASE Go(r, "abort")
  BY <1>1, <1>2, <1>3, GoFields, StagingOrders
<1>4. CASE \E a : Become(r, [request[r] EXCEPT !.step = "write", !.file = a])
  <2>1. PICK a : Become(r, [request[r] EXCEPT !.step = "write", !.file = a])
    BY <1>4
  <2>2. request'[r] = [request[r] EXCEPT !.step = "write", !.file = a]
    BY <2>1, Became
  <2>3. request'[r].step = "write" /\ Alike(request'[r], request[r]) /\ request'[r].rows = request[r].rows
    BY <1>1, <2>2 DEF Request, Alike
  <2> QED BY <1>1, <1>2, <2>3, StagingOrders
<1> QED BY <1>3, <1>4 DEF CreatePlain

\* ... of which reconciliation knows nothing.
LEMMA WritePlainOrders ==
  ASSUME OneAtATime, TypeInv, ReconInv, NEW r \in Requests, WritePlain(r)
  PROVE  ReconInv'
<1> DEFINE p == [request[r] EXCEPT !.step = "stage", !.left = @ \ {request[r].file}, !.file = NoAsset]
           q == [request[r] EXCEPT !.step = "abort", !.file = NoAsset]
<1>1. request[r].step = "write" /\ request[r] \in Request /\ Reads /\ (Become(r, p) \/ Become(r, q))
  BY TypesOf DEF WritePlain, At, Reads, tables
<1>2. /\ p.step = "stage" /\ Alike(p, request[r]) /\ p.rows = request[r].rows
      /\ q.step = "abort" /\ Alike(q, request[r]) /\ q.rows = request[r].rows
  BY <1>1 DEF Request, Alike
<1>3. "stage" \in Staging /\ "abort" \in Staging
  BY DEF Staging
<1> HIDE DEF p, q
<1>4. request'[r] \in {p, q}
  BY <1>1, Became
<1> QED BY <1>1, <1>2, <1>3, <1>4, StagingOrders

\* Abort: an import's staging is gone before its journal.
LEMMA AbortOrders ==
  ASSUME OneAtATime, TypeInv, ReconInv, NEW r \in Requests, Abort(r)
  PROVE  ReconInv'
<1>1. /\ request[r].step = "abort" /\ "abort" \in Staging
      /\ UNCHANGED <<row, blobRow, transfer, known, blobs, created>>
  BY DEF Abort, At, tables, Staging
<1>2. /\ Settled /\ request[r] \in Request /\ request[r].kind = transfer[request[r].t].kind
      /\ "abort" \in Handling
  <2> HIDE DEF Staging, Handling
  <2> QED BY <1>1, StagingIsOwn DEF ReconInv
<1>3. staged' = staged \/ staged' = staged \ StagedBy(Now(r))
  BY DEF Abort
<1>4. staged' \subseteq staged
  BY <1>3
<1>5. CASE End(r)
  BY <1>1, <1>2, <1>4, <1>5, StagedGoesSettled, EndOrderly, OneInOrder
<1>6. CASE Become(r, [request[r] EXCEPT !.step = "forget", !.rows = Idle.rows])
  <2> DEFINE p == [request[r] EXCEPT !.step = "forget", !.rows = Idle.rows]
  <2>1. p.step = "forget" /\ Alike(p, request[r])
    BY <1>2 DEF Request, Alike
  <2>2. request'[r] = p
    BY <1>6, Became
  <2>3. request'[r].step = "forget" /\ Alike(request'[r], request[r])
    BY <2>1, <2>2
  <2>4. \A x \in staged' : x[1] # request[r].t
    <3>1. CASE request[r].kind = "export"
      BY <1>2, <1>4, <3>1 DEF Settled, StagedKinds
    <3>2. CASE request[r].kind # "export"
      <4>1. staged' = staged \ StagedBy(Now(r))
        BY <3>2 DEF Abort
      <4> QED BY <4>1 DEF StagedBy, Now
    <3> QED BY <3>1, <3>2
  <2>5. StagedBy(request[r].t)' = {}
    BY <2>3, <2>4 DEF StagedBy, Alike
  <2>6. "forget" \in Handling \ Staging
    BY DEF Handling, Staging, Undoing
  <2> HIDE DEF Handling, Staging, Alike
  <2> QED BY <1>1, <1>2, <1>4, <2>3, <2>5, <2>6, HandOrders
<1> QED BY <1>5, <1>6 DEF Abort

\* An operation fails.
LEMMA StumbleOrders ==
  ASSUME OneAtATime, TypeInv, ReconInv, NEW r \in Requests, Stumble(r)
  PROVE  ReconInv'
<1>1. request[r] \in Request /\ Reads
  BY TypesOf DEF Stumble, Reads, tables
<1>2. CASE End(r)
  BY <1>1, <1>2, EndOrders
<1>3. CASE /\ request[r].step \in {"stage", "write"}
           /\ Become(r, [request[r] EXCEPT !.step = "abort", !.file = NoAsset])
  <2>1. request'[r] = [request[r] EXCEPT !.step = "abort", !.file = NoAsset]
    BY <1>3, Became
  <2>2. request'[r].step = "abort" /\ Alike(request'[r], request[r]) /\ request'[r].rows = request[r].rows
    BY <1>1, <2>1 DEF Request, Alike
  <2>3. "abort" \in Staging
    BY DEF Staging
  <2> QED BY <1>1, <1>3, <2>2, <2>3, StagingOrders
<1> QED BY <1>2, <1>3 DEF Stumble

\* A request that begins has no list and no transfer in hand.
LEMMA BeginOrders ==
  ASSUME OneAtATime, TypeInv, ReconInv, NEW r \in Requests, Reads,
         request'[r].todo = {},
         \/ request'[r].step = "list" /\ request'[r].kind = "unlock" /\ request'[r].phase = "open"
         \/ request'[r].step = "list" /\ request'[r].kind # "unlock" /\ request'[r].phase = "import"
         \/ /\ request'[r].step = "prepare" /\ request'[r].kind = "export" /\ request'[r].phase = "none"
            /\ Journals("export") = {}
  PROVE  ReconInv'
<1>1. Listing(request[r])'
  BY DEF Listing, Sweeps, Starts, Staging, Reads, Journals
<1>2. Clean(request[r])'
  BY DEF Clean, Swept
<1>3. Orderly(request[r])'
  BY <1>1, <1>2, BetweenOrderly
<1> QED BY <1>3, ReadsOrder

\* BeginUnlock starts with the uploads that did not finish,
LEMMA BeginUnlockOrders ==
  ASSUME OneAtATime, TypeInv, ReconInv, NEW r \in Requests, BeginUnlock(r)
  PROVE  ReconInv'
<1> DEFINE q == [Idle EXCEPT !.step = "list", !.kind = "unlock", !.live = TRUE, !.phase = "open"]
<1>1. Reads /\ Become(r, q)
  BY DEF BeginUnlock, Reads, tables, files
<1>2. q.step = "list" /\ q.todo = {} /\ q.kind = "unlock" /\ q.phase = "open"
  <2>1. ASSUME NEW p \in Request
        PROVE  LET x == [p EXCEPT !.step = "list", !.kind = "unlock", !.live = TRUE, !.phase = "open"]
               IN x.step = "list" /\ x.todo = p.todo /\ x.kind = "unlock" /\ x.phase = "open"
    BY DEF Request
  <2> QED BY <2>1, IdleFields, IdleIsRequest
<1>3. request'[r] = q
  BY <1>1, Became
<1> HIDE DEF q
<1> QED BY <1>1, <1>2, <1>3, BeginOrders

\* ... a transfer with the imports.
LEMMA BeginsOrders ==
  ASSUME OneAtATime, TypeInv, TypeInv', ReconInv, NEW r \in Requests, Begins(r)
  PROVE  ReconInv'
<1>1. ASSUME NEW ids \in SUBSET Assets, NEW k \in {"import", "export"}, NEW step \in {"list", "prepare"},
             BeginMove(r, k, ids, step), step = "prepare" => k = "export" /\ Journals("export") = {}
      PROVE  ReconInv'
  <2> DEFINE phase == IF step = "list" THEN "import" ELSE "none"
             q == [Idle EXCEPT !.step = step, !.kind = k, !.live = TRUE, !.ids = ids, !.phase = phase]
  <2>1. Reads /\ Become(r, q)
    BY <1>1 DEF BeginMove, Reads, tables, files
  <2>2. phase = IF step = "list" THEN "import" ELSE "none"
    OBVIOUS
  <2> HIDE DEF phase
  <2>3. ASSUME NEW p \in Request
        PROVE  LET x == [p EXCEPT !.step = step, !.kind = k, !.live = TRUE, !.ids = ids, !.phase = phase]
               IN x.step = step /\ x.todo = p.todo /\ x.kind = k /\ x.phase = phase
    BY DEF Request
  <2>4. q.step = step /\ q.todo = {} /\ q.kind = k /\ q.phase = phase
    BY <2>3, IdleFields, IdleIsRequest
  <2>5. request'[r] = q
    BY <2>1, Became
  <2> HIDE DEF q
  <2> QED BY <1>1, <2>1, <2>2, <2>4, <2>5, BeginOrders
<1>2. ASSUME NEW ids \in SUBSET Assets, BeginImport(r, ids) \/ BeginExport(r, ids) PROVE ReconInv'
  BY <1>1, <1>2 DEF BeginImport, BeginExport
<1> QED BY <1>2, BeginIngestOrders DEF Begins

\* The main library's handlers: what comes to it was never there before.
LEMMA LibraryComes ==
  ASSUME TypeInv, Library \/ Purges
  PROVE  /\ UNCHANGED <<blobRow, transfer, blobs, staged, created, request>>
         /\ row'["vault"] = row["vault"] /\ known \subseteq known'
         /\ \A a \in Assets : Exists("main", a)' => Exists("main", a) \/ (a \in known' /\ a \notin known)
<1>1. row'["vault"] = row["vault"] /\ UNCHANGED <<blobRow, transfer, blobs, staged, request>>
  <2> HIDE DEF Exists
  <2> QED BY LibraryWrites
<1>2. UNCHANGED created /\ known \subseteq known'
  BY DEF Library, Purges, Upload, Trash, PurgeFree, RestoreBlocked, MarkPurging
<1>3. /\ row \in [Databases -> [Assets -> Row]] /\ "main" \in Databases
  BY TypesOf DEF Tables, Databases
<1>4. ASSUME NEW a \in Assets, NEW x, row' = [row EXCEPT !["main"] = [row["main"] EXCEPT ![a] = x]],
             x.lifecycle # "none" => Exists("main", a) \/ (a \in known' /\ a \notin known)
      PROVE  \A b \in Assets : Exists("main", b)' => Exists("main", b) \/ (b \in known' /\ b \notin known)
  <2>1. \A b \in Assets : row'["main"][b] = IF b = a THEN x ELSE row["main"][b]
    BY <1>3, <1>4
  <2> QED BY <1>4, <2>1 DEF Exists
<1>5. CASE \E a \in Assets : Upload(a)
  <2>1. PICK a \in Assets : Upload(a)
    BY <1>5
  <2> DEFINE x == Placed(row["main"], Journaled("main"), a, Fresh)
  <2>2. row' = [row EXCEPT !["main"] = [row["main"] EXCEPT ![a] = x]] /\ a \in known' /\ a \notin known
    BY <2>1 DEF Upload
  <2> HIDE DEF x
  <2>3. \A b \in Assets : Exists("main", b)' => Exists("main", b) \/ (b \in known' /\ b \notin known)
    BY <1>4, <2>2
  <2> QED BY <1>1, <1>2, <2>3
<1>6. CASE \E a \in Assets : Trash("main", a) \/ MarkPurging(a) \/ RestoreBlocked(a) \/ PurgeFree(a)
  <2>1. PICK a \in Assets : Trash("main", a) \/ MarkPurging(a) \/ RestoreBlocked(a) \/ PurgeFree(a)
    BY <1>6
  <2>2. Exists("main", a)
    BY <2>1 DEF Trash, MarkPurging, RestoreBlocked, PurgeFree, Gets, Exists
  <2>3. \E x : row' = [row EXCEPT !["main"] = [row["main"] EXCEPT ![a] = x]]
    <3>1. CASE Trash("main", a)
      BY <3>1 DEF Trash
    <3>2. CASE PurgeFree(a)
      BY <3>2 DEF PurgeFree
    <3>3. ASSUME NEW s, row' = [row EXCEPT !["main"] = [row["main"] EXCEPT ![a].lifecycle = s]]
          PROVE  \E x : row' = [row EXCEPT !["main"] = [row["main"] EXCEPT ![a] = x]]
      BY <3>3
    <3>4. CASE MarkPurging(a)
      BY <3>3, <3>4 DEF MarkPurging
    <3>5. CASE RestoreBlocked(a)
      BY <3>3, <3>5 DEF RestoreBlocked
    <3> QED BY <2>1, <3>1, <3>2, <3>4, <3>5
  <2>4. \A b \in Assets : Exists("main", b)' => Exists("main", b) \/ (b \in known' /\ b \notin known)
    BY <1>4, <2>2, <2>3
  <2> QED BY <1>1, <1>2, <2>4
<1> QED BY <1>5, <1>6 DEF Library, Purges

\* ... and so is neither in the vault nor on its way.
LEMMA OrderlyStays ==
  ASSUME TypeInv, ReconInv, UNCHANGED <<blobRow, transfer, blobs, staged, created, request>>,
         known \subseteq known',
         \A d \in Databases, a \in Assets : Exists(d, a)' => Exists(d, a) \/ (a \in known' /\ a \notin known),
         NEW s \in Requests
  PROVE  Orderly(request[s])'
<1>1. /\ Orderly(request[s]) /\ request'[s] = request[s] /\ request[s].ids \in SUBSET Assets
      /\ \A t \in Transfers : transfer[t].ids \subseteq known
  BY TypesOf DEF ReconInv, Request, Settled, KnownOnce
<1> HIDE DEF Exists
<1>2. Knows(request[s])' /\ Progress(request[s])'
  BY <1>1 DEF Orderly, Knows, Progress
<1>3. Listing(request[s])' /\ Clean(request[s])'
  <2>1. \A k : Journals(k)' = Journals(k) /\ Markers(k)' = Markers(k)
    BY DEF Journals, Markers
  <2>2. Unmet(request[s])' = Unmet(request[s])
    BY <1>1 DEF Unmet
  <2>3. Listing(request[s])'
    <3> HIDE DEF Unmet
    <3> QED BY <1>1, <2>1, <2>2 DEF Orderly, Listing
  <2>4. StagedBy(request[s].t)' = StagedBy(request[s].t)
    BY <1>1 DEF StagedBy
  <2>5. Clean(request[s])'
    BY <1>1, <2>1, <2>4 DEF Orderly, Clean, Swept
  <2> QED BY <2>3, <2>5
<1>4. Places(request[s])'
  BY <1>1 DEF Orderly, Places, BlobHere
<1>5. Parted(request[s])'
  <2>1. request[s].step = "dropped" =>
          /\ From[transfer[request[s].t].kind] \in Databases
          /\ transfer[request[s].t].ids \in SUBSET Assets
          /\ transfer[request[s].t].ids \subseteq known
    <3>1. CASE request[s].step = "dropped"
      <4>1. request[s].step \in Handling /\ request[s].step \in Deleting
        BY <3>1 DEF Handling, Completing, Deleting
      <4>2. /\ Kind(s) \in {"import", "export"} /\ Moving(s) \in SUBSET Assets /\ Now(s) \in Transfers
        <5> HIDE DEF Handling, Deleting
        <5> QED BY <4>1, KindInHand, InHand
      <4> QED BY <1>1, <4>2 DEF Kind, Moving, Now, From, Databases
    <3> QED BY <3>1
  <2>2. request[s].step \in Staging => request[s].ids \subseteq known
    BY <1>1 DEF Orderly, Knows
  <2>3. request[s].step = "dropped" =>
          \A a \in transfer[request[s].t].ids : ~Exists(From[transfer[request[s].t].kind], a)'
    BY <1>1, <2>1 DEF Orderly, Parted
  <2> QED BY <1>1, <2>2, <2>3 DEF Orderly, Parted, Databases
<1> QED BY <1>2, <1>3, <1>4, <1>5 DEF Orderly

LEMMA LibraryOrders ==
  ASSUME TypeInv, ReconInv, Library \/ Purges
  PROVE  ReconInv'
<1>1. /\ UNCHANGED <<blobRow, transfer, blobs, staged, created, request>>
      /\ row'["vault"] = row["vault"] /\ known \subseteq known'
      /\ \A a \in Assets : Exists("main", a)' => Exists("main", a) \/ (a \in known' /\ a \notin known)
      /\ Settled /\ request' = request
  <2> HIDE DEF Exists
  <2> QED BY LibraryComes DEF ReconInv
<1>2. \A a \in Assets : Exists("vault", a)' <=> Exists("vault", a)
  BY <1>1 DEF Exists
<1>3. /\ \A a \in Assets : Exists("vault", a) \/ Exists("main", a) => a \in known
      /\ \A t \in Transfers : transfer[t].ids \subseteq known
  BY <1>1 DEF Settled, KnownOnce, Databases
<1> HIDE DEF Exists
<1>4. Settled'
  <2>1. KnownOnce'
    BY <1>1, <1>2, <1>3 DEF KnownOnce, Databases
  <2>2. JournalsFit' /\ StagedKinds' /\ BlobsAreNamed' /\ BlobOnce'
    BY <1>1 DEF Settled, JournalsFit, StagedKinds, BlobsAreNamed, BlobOnce
  <2>3. BlobsHaveRows'
    BY <1>1, <1>2 DEF Settled, BlobsHaveRows
  <2>4. ExportsAreFinal'
    BY <1>1 DEF Settled, ExportsAreFinal, Journals
  <2>5. BothAreMarked'
    BY <1>1, <1>2, <1>3 DEF Settled, BothAreMarked
  <2> QED BY <2>1, <2>2, <2>3, <2>4, <2>5 DEF Settled
<1>5. ASSUME NEW s \in Requests PROVE Orderly(request[s])'
  BY <1>1, <1>2, OrderlyStays DEF Databases
<1> QED BY <1>4, <1>5 DEF ReconInv

\* Trash and restore move nothing.
LEMMA RelabelsOrders ==
  ASSUME TypeInv, ReconInv, Relabels
  PROVE  ReconInv'
<1>1. /\ UNCHANGED <<blobRow, transfer, blobs, staged, known, created, request>>
      /\ \A d \in Databases, a \in Assets : Exists(d, a)' = Exists(d, a)
  BY DEF Relabels, Exists
<1> HIDE DEF Exists
<1>2. Settled'
  BY <1>1, RowsSettled DEF ReconInv
<1>3. ASSUME NEW s \in Requests PROVE Orderly(request[s])'
  BY <1>1, OrderlyStays
<1> QED BY <1>1, <1>2, <1>3 DEF ReconInv

\* At first there is nothing to reconcile.
LEMMA InitOrders == Init => ReconInv
<1> SUFFICES ASSUME Init PROVE ReconInv
  OBVIOUS
<1>1. NoTransfer.state = "none" /\ NoTransfer.ids = {} /\ ~NoTransfer.marker /\ NoRow.lifecycle = "none"
  BY DEF NoTransfer, NoRow
<1>2. Settled
  <2>1. \A t \in Transfers : transfer[t].state = "none" /\ transfer[t].ids = {} /\ ~transfer[t].marker
    BY <1>1 DEF Init
  <2>2. \A d \in Databases, a \in Assets : ~Exists(d, a)
    BY <1>1 DEF Init, Exists
  <2>3. KnownOnce /\ JournalsFit
    BY <2>1, <2>2 DEF KnownOnce, JournalsFit
  <2>4. StagedKinds /\ BlobsAreNamed /\ BlobOnce /\ BlobsHaveRows
    BY DEF Init, StagedKinds, BlobsAreNamed, BlobOnce, BlobsHaveRows
  <2>5. ExportsAreFinal /\ BothAreMarked
    BY <2>1, <2>2 DEF ExportsAreFinal, Journals, BothAreMarked, Databases
  <2> QED BY <2>3, <2>4, <2>5 DEF Settled
<1>3. ASSUME NEW r \in Requests PROVE Orderly(request[r])
  <2>1. request[r].step = "idle" /\ request[r].phase = "none" /\ request[r].todo = {}
    BY DEF Init, Idle
  <2> QED BY <2>1 DEF Orderly, Knows, Progress, Listing, Clean, Swept, Places, Parted, Staging, Sweeps, Starts
<1> QED BY <1>2, <1>3 DEF ReconInv

\* The commit: the rows come to the destination beside those in the source,
\* and the marker says so.
LEMMA CommitOrders ==
  ASSUME OneAtATime, TypeInv, ReconInv, NEW r \in Requests, Commit(r)
  PROVE  ReconInv'
<1>1. /\ request[r].step = "stage" /\ "stage" \in Staging /\ "abort" \in Staging
      /\ UNCHANGED <<blobs, staged, known, created>>
  BY CommitCases DEF Staging
<1>2. /\ Settled /\ Knows(request[r]) /\ Progress(request[r]) /\ Listing(request[r])
      /\ Places(request[r]) /\ Parted(request[r])
      /\ request[r] \in Request /\ Now(r) \in Transfers /\ Now(r) = request[r].t
      /\ request[r].kind = transfer[Now(r)].kind /\ request[r].ids = transfer[Now(r)].ids
      /\ request[r].kind \in {"import", "export", "ingest"} /\ request[r].ids \in SUBSET Assets
  <2> HIDE DEF Staging
  <2> QED BY <1>1, StagingIsOwn, OwnInHand, TypesOf
           DEF ReconInv, Orderly, Now, Kind, Moving, Kinds, Request
<1>3. CASE (End(r) \/ Go(r, "abort")) /\ UNCHANGED <<row, blobRow, transfer>>
  <2>1. Reads
    BY <1>1, <1>3 DEF Reads
  <2>2. CASE End(r)
    BY <2>1, <2>2, EndOrders
  <2>3. CASE Go(r, "abort")
    BY <1>1, <2>1, <2>3, GoFields, StagingOrders
  <2> QED BY <1>3, <2>2, <2>3
<1>4. ASSUME NEW order \in SetToSeqs(request[r].ids), CommitsInto(r, order)
      PROVE  ReconInv'
  <2> DEFINE d == To[request[r].kind]
             ids == request[r].ids
             p == [request[r] EXCEPT !.step = "complete", !.rows = Idle.rows]
  <2>1. /\ \A e \in Databases \ {d} : row'[e] = row[e]
        /\ \A a \in Assets \ ids : row'[d][a] = row[d][a]
        /\ \A a \in ids : row'[d][a].lifecycle = "none" <=> Given(r)[a].lifecycle = "none"
    BY <1>1, <1>4, CommittedRows DEF Fits
  <2>2. /\ \A a \in ids : ~Exists(d, a)
        /\ blobRow' = IF d = "main" THEN blobRow
                      ELSE [a \in Assets |-> IF a \in ids THEN Now(r) ELSE blobRow[a]]
        /\ transfer' = [transfer EXCEPT ![Now(r)].marker = TRUE]
        /\ Become(r, p)
    BY <1>4 DEF CommitsInto
  <2>3. \A a \in ids : Given(r)[a].lifecycle # "none"
    BY <1>1, <1>2, FreshIsRow DEF Given, Knows
  <2>4. /\ \/ request[r].kind = "export" /\ d = "main"
           \/ request[r].kind \in {"import", "ingest"} /\ d = "vault"
        /\ "main" \in Databases /\ "vault" \in Databases /\ d \in Databases
    BY <1>2 DEF To, Databases
  <2>5. ASSUME NEW t \in Transfers
        PROVE  /\ transfer'[t].kind = transfer[t].kind /\ transfer'[t].ids = transfer[t].ids
               /\ transfer'[t].state = transfer[t].state
               /\ t = Now(r) => transfer'[t].marker
               /\ t # Now(r) => transfer'[t].marker = transfer[t].marker
    <3>1. transfer'[t] = IF t = Now(r) THEN [transfer[t] EXCEPT !.marker = TRUE] ELSE transfer[t]
      BY <2>2, TypesOf
    <3>2. transfer[t] \in Transfer
      BY TypesOf
    <3>3. CASE t = Now(r)
      BY <3>1, <3>2, <3>3 DEF Transfer
    <3>4. CASE t # Now(r)
      BY <3>1, <3>2, <3>4 DEF Transfer
    <3> QED BY <3>3, <3>4
  <2>6. /\ request'[r].step = "complete" /\ Alike(request'[r], request[r])
    <3>1. p.step = "complete" /\ Alike(p, request[r])
      BY <1>2 DEF Request, Alike
    <3>2. request'[r] = p
      BY <2>2, Became
    <3> QED BY <3>1, <3>2
  <2>7. \A a \in Assets : blobRow'[a] = IF d = "vault" /\ a \in ids THEN Now(r) ELSE blobRow[a]
    BY <2>2, <2>4, TypesOf DEF Tables
  <2>8. \A e \in Databases, a \in Assets : Exists(e, a)' <=> Exists(e, a) \/ (e = d /\ a \in ids)
    <3> SUFFICES ASSUME NEW e \in Databases, NEW a \in Assets
                 PROVE  row'[e][a].lifecycle # "none" <=> row[e][a].lifecycle # "none" \/ (e = d /\ a \in ids)
      BY DEF Exists
    <3> QED BY <2>1, <2>3
  <2> HIDE DEF d, ids, p, Exists
  <2>9. /\ ids \subseteq known /\ ids \in SUBSET Assets
        /\ ids = transfer[Now(r)].ids /\ request[r].kind = transfer[Now(r)].kind
        /\ request[r].kind # "ingest" => transfer[Now(r)].state = "preparing"
        /\ request[r].kind = "ingest" => \A a \in ids : ~Exists("main", a)
        /\ request[r].kind = "ingest" => \A t \in Transfers \ {Now(r)} : transfer[t].ids \cap ids = {}
        /\ request[r].kind = "import" => Journals("export") = {}
        /\ request[r].phase = "none"
    <3>1. ids \subseteq known /\ ids \in SUBSET Assets /\ ids = transfer[Now(r)].ids
      BY <1>1, <1>2 DEF Knows, ids
    <3>2. request[r].kind # "ingest" => transfer[Now(r)].state = "preparing"
      BY <1>1, <1>2 DEF Progress
    <3>3. /\ request[r].kind = "ingest" => \A a \in ids : ~Exists("main", a)
          /\ request[r].kind = "ingest" => \A t \in Transfers \ {Now(r)} : transfer[t].ids \cap ids = {}
      BY <1>1, <1>2 DEF Places, Parted, ids
    <3>4. /\ request[r].kind = "import" => Journals("export") = {}
          /\ request[r].phase = "none"
      BY <1>1, <1>2 DEF Listing, Starts
    <3> QED BY <1>2, <3>1, <3>2, <3>3, <3>4
  <2>10. KnownOnce'
    BY <1>1, <1>2, <2>5, <2>8, <2>9 DEF Settled, KnownOnce
  <2>11. JournalsFit'
    BY <1>2, <2>5, <2>9 DEF Settled, JournalsFit
  <2>12. StagedKinds' /\ BlobOnce'
    <3>1. \A x \in staged : x[1] \in Transfers
      BY TypesOf DEF Files
    <3> QED BY <1>1, <1>2, <2>5, <3>1 DEF Settled, StagedKinds, BlobOnce
  <2>13. BlobsAreNamed'
    <3> SUFFICES ASSUME NEW x \in blobs PROVE blobRow'[x[2]] = x[1]
      BY <1>1 DEF BlobsAreNamed
    <3>1. x[1] \in Transfers /\ x[2] \in Assets /\ blobRow[x[2]] = x[1] /\ x[1] # 0
      BY <1>2, TypesOf DEF Files, Settled, BlobsAreNamed, Transfers
    <3>2. Exists("vault", x[2])
      BY <1>2, <3>1 DEF Settled, BlobsHaveRows
    <3> QED BY <2>2, <2>7, <3>1, <3>2
  <2>14. BlobsHaveRows'
    <3>1. Now(r) <= created
      <4>1. "stage" \in Handling
        BY DEF Handling, Staging
      <4>2. Now(r) \in 1 .. created /\ created \in Nat
        <5> HIDE DEF Handling
        <5> QED BY <1>1, <4>1, InHand, TypesOf
      <4> QED BY <4>2
    <3> QED BY <1>1, <1>2, <2>4, <2>7, <2>8, <3>1 DEF Settled, BlobsHaveRows
  <2>15. ExportsAreFinal'
    <3> SUFFICES ASSUME NEW t \in Journals("export"), NEW a \in transfer[t].ids
                 PROVE  /\ <<blobRow'[a], a>> \notin staged
                        /\ transfer[t].state \in FilesGone => <<blobRow'[a], a>> \notin blobs
      BY <1>1, <2>5 DEF ExportsAreFinal, Journals
    <3>1. a \in Assets /\ t \in Transfers /\ transfer[t].kind = "export"
      BY TypesOf DEF Journals, Transfer
    <3>2. ~ (d = "vault" /\ a \in ids)
      BY <2>4, <2>9, <3>1
    <3>3. blobRow'[a] = blobRow[a]
      BY <2>7, <3>1, <3>2
    <3> QED BY <1>2, <3>3 DEF Settled, ExportsAreFinal
  <2>16. BothAreMarked'
    <3> SUFFICES ASSUME NEW a \in Assets, Exists("main", a)', Exists("vault", a)'
                 PROVE  \E t \in Transfers :
                          /\ a \in transfer'[t].ids /\ transfer'[t].kind # "ingest"
                          /\ transfer'[t].marker /\ transfer'[t].state # "source_database_deleted"
      BY DEF BothAreMarked
    <3>1. CASE a \in ids /\ request[r].kind # "ingest"
      BY <1>2, <2>5, <2>9, <3>1
    <3>2. CASE a \in ids /\ request[r].kind = "ingest"
      BY <2>4, <2>8, <2>9, <3>2
    <3>3. CASE a \notin ids
      <4>1. Exists("main", a) /\ Exists("vault", a)
        BY <2>4, <2>8, <3>3
      <4>2. PICK t \in Transfers : /\ a \in transfer[t].ids /\ transfer[t].kind # "ingest"
                                   /\ transfer[t].marker /\ transfer[t].state # "source_database_deleted"
        BY <1>2, <4>1 DEF Settled, BothAreMarked
      <4> QED BY <2>5, <4>2
    <3> QED BY <3>1, <3>2, <3>3
  <2>17. Knows(request[r])' /\ Places(request[r])' /\ Parted(request[r])'
    BY <2>6 DEF Knows, Places, Parted, Staging
  <2>18. Progress(request[r])'
    <3>1. \A x \in request[r].todo : x[1] \in Transfers
      BY <1>2 DEF Request
    <3>2. \A x \in request[r].todo : x[2] = transfer'[x[1]].state
      BY <1>1, <1>2, <2>5, <3>1 DEF Progress
    <3>3. transfer[Now(r)].kind # "ingest" => transfer'[Now(r)].state = request[r].state
      BY <1>1, <1>2, <2>5 DEF Progress
    <3> QED BY <1>2, <2>5, <2>6, <3>2, <3>3 DEF Progress, Alike, Staging
  <2>19. Listing(request[r])' /\ Clean(request[r])'
    BY <1>2, <2>6, <2>9 DEF Listing, Clean, Swept, Alike, Sweeps, Starts, Staging
  <2> QED BY <2>10, <2>11, <2>12, <2>13, <2>14, <2>15, <2>16, <2>17, <2>18, <2>19, OneInOrder
          DEF Settled, Orderly
<1> QED BY <1>3, <1>4, CommitCases

\* Every step of a thread.
LEMMA ProceedOrders ==
  ASSUME OneAtATime, TypeInv, TypeInv', CopyInv, ReconInv, NEW r \in Requests, Proceed(r)
  PROVE  ReconInv'
<1>1. CASE Reconciles(r)
  BY <1>1, ListOrders, TakeNextOrders, NextListOrders, SweepOrders, SweepingOrders, IssueOrders,
     UndoImportOrders, RollbackLookOrders, UnlinkOrders, ForgetOrders DEF Reconciles
<1>2. CASE Stages(r)
  BY <1>2, PrepareOrders, OpenOrders, StageBlobOrders, CreatePlainOrders, WritePlainOrders,
     CommitOrders, AbortOrders DEF Stages
<1>3. CASE Completes(r)
  BY <1>3, CompleteOrders, FinalizeOrders, ValidateOrders, ReadyOrders, LeaseOrders,
     DeleteFileOrders, FilesDeletedOrders, DropOrders, DroppedOrders, UnmarkOrders, CloseOrders,
     ClearOrders DEF Completes
<1> QED BY <1>1, <1>2, <1>3 DEF Proceed

\* Every step keeps what reconciliation relies on.
LEMMA NextOrders == OneAtATime => (TypeInv /\ TypeInv' /\ CopyInv /\ ReconInv /\ [Next]_vars => ReconInv')
<1> SUFFICES ASSUME OneAtATime, TypeInv, TypeInv', CopyInv, ReconInv, [Next]_vars PROVE ReconInv'
  OBVIOUS
<1>1. ASSUME NEW r \in Requests, BeginUnlock(r) \/ Begins(r) \/ Proceed(r) PROVE ReconInv'
  BY <1>1, BeginUnlockOrders, BeginsOrders, ProceedOrders
<1>2. CASE Lock
  BY <1>2, LockOrders
<1>3. CASE Library \/ Purges
  BY <1>3, LibraryOrders
<1>4. CASE Faults
  BY <1>4, CrashOrders, StumbleOrders DEF Faults
<1>5. CASE UNCHANGED vars
  <2>1. Reads /\ request' = request
    BY <1>5 DEF vars, Reads
  <2> QED BY <2>1, RevokedOrders
<1>6. CASE VaultTrash \/ Restores
  BY <1>6, RelabelsRows, RelabelsOrders
<1> QED BY <1>1, <1>2, <1>3, <1>4, <1>5, <1>6 DEF Next

-----------------------------------------------------------------------------
(* Once a row that moves is a tombstone or gone, nothing outside its       *)
(* journal refers to it; and a database has one journal at most.           *)

\* A journal that is there was there, for the same assets.
Shrinks ==
  \A t \in Transfers : transfer'[t].state # "none" =>
    /\ transfer[t].state # "none"
    /\ transfer'[t].kind = transfer[t].kind /\ transfer'[t].ids = transfer[t].ids

LEMMA FieldShrinks ==
  ASSUME TypeInv, NEW t, NEW x,
         \/ transfer' = [transfer EXCEPT ![t].state = x] /\ (x = "none" \/ transfer[t].state # "none")
         \/ transfer' = [transfer EXCEPT ![t].marker = x]
  PROVE  Shrinks
<1>1. transfer \in [Transfers -> Transfer]
  BY TypesOf
<1>2. ASSUME NEW u \in Transfers
      PROVE  LET y == [transfer[u] EXCEPT !.state = x]
                 z == [transfer[u] EXCEPT !.marker = x]
             IN /\ y.state = x /\ y.kind = transfer[u].kind /\ y.ids = transfer[u].ids
                /\ z.state = transfer[u].state /\ z.kind = transfer[u].kind /\ z.ids = transfer[u].ids
  BY <1>1 DEF Transfer
<1>3. ASSUME NEW u \in Transfers, transfer'[u].state # "none"
      PROVE  /\ transfer[u].state # "none"
             /\ transfer'[u].kind = transfer[u].kind /\ transfer'[u].ids = transfer[u].ids
  <2>1. transfer'[u] \in {transfer[u], [transfer[u] EXCEPT !.state = x], [transfer[u] EXCEPT !.marker = x]}
    BY <1>1
  <2>2. u # t => transfer'[u] = transfer[u]
    BY <1>1
  <2>3. CASE transfer' = [transfer EXCEPT ![t].state = x] /\ u = t
    BY <1>1, <1>2, <1>3, <2>3
  <2>4. CASE transfer' = [transfer EXCEPT ![t].marker = x] /\ u = t
    BY <1>1, <1>2, <1>3, <2>4
  <2> QED BY <1>3, <2>2, <2>3, <2>4
<1> QED BY <1>3 DEF Shrinks

LEMMA RecordShrinks ==
  ASSUME TypeInv, NEW r, NEW x, NEW step, Record(r, x, step)
  PROVE  Shrinks
BY FieldShrinks DEF Record, SetState, Shrinks

\* Only Open writes a journal.
LEMMA ProceedShrinks ==
  ASSUME TypeInv, NEW r \in Requests, Proceed(r), ~Open(r)
  PROVE  Shrinks
<1>1. UNCHANGED transfer => Shrinks
  BY DEF Shrinks
<1>2. CASE Reconciles(r)
  <2>1. CASE Forget(r)
    BY <2>1, FieldShrinks DEF Forget, SetState
  <2>2. CASE List(r)
    BY <1>1, <2>2 DEF List, tables, files
  <2>3. CASE TakeNext(r)
    BY <1>1, <2>3 DEF TakeNext, tables, files
  <2>4. CASE NextList(r)
    BY <1>1, <2>4 DEF NextList, tables, files
  <2>5. CASE Sweep(r)
    BY <1>1, <2>5 DEF Sweep, tables, files
  <2>6. CASE Sweeping(r)
    BY <1>1, <2>6 DEF Sweeping, tables, files
  <2>7. CASE Issue(r)
    BY <1>1, <2>7 DEF Issue, tables, files
  <2>8. CASE UndoImport(r)
    BY <1>1, <2>8 DEF UndoImport, tables, files
  <2>9. CASE RollbackLook(r)
    <3>1. UNCHANGED <<tables, files, known, created, session>>
      BY <2>9 DEF RollbackLook
    <3> QED BY <1>1, <3>1 DEF tables, files
  <2>10. CASE Unlink(r)
    BY <1>1, <2>10 DEF Unlink, tables, files
  <2> QED BY <1>2, <2>1, <2>2, <2>3, <2>4, <2>5, <2>6, <2>7, <2>8, <2>9, <2>10 DEF Reconciles
<1>3. CASE Stages(r)
  <2>1. CASE Commit(r)
    <3>1. transfer' = transfer \/ transfer' = [transfer EXCEPT ![Now(r)].marker = TRUE]
      <4>1. ASSUME NEW order, CommitsInto(r, order) PROVE transfer' = [transfer EXCEPT ![Now(r)].marker = TRUE]
        BY <4>1 DEF CommitsInto
      <4> QED BY <2>1, <4>1, CommitCases
    <3> QED BY <1>1, <3>1, FieldShrinks
  <2>2. CASE Prepare(r)
    BY <1>1, <2>2 DEF Prepare, tables, files
  <2>3. CASE StageBlob(r)
    BY <1>1, <2>3 DEF StageBlob, tables, files
  <2>4. CASE CreatePlain(r)
    BY <1>1, <2>4 DEF CreatePlain, tables, files
  <2>5. CASE WritePlain(r)
    BY <1>1, <2>5 DEF WritePlain, tables, files
  <2>6. CASE Abort(r)
    BY <1>1, <2>6 DEF Abort, tables, files
  <2> QED BY <1>3, <2>1, <2>2, <2>3, <2>4, <2>5, <2>6 DEF Stages
<1>4. CASE Completes(r)
  <2>1. CASE Ready(r) \/ FilesDeleted(r) \/ Dropped(r)
    BY <1>1, <2>1, RecordShrinks DEF Ready, FilesDeleted, Dropped
  <2>2. CASE Unmark(r) \/ Close(r)
    BY <2>2, FieldShrinks DEF Unmark, Close, SetState
  <2>3. CASE ~(Ready(r) \/ FilesDeleted(r) \/ Dropped(r) \/ Unmark(r) \/ Close(r))
    BY <1>1, <1>4, <2>3 DEF Completes, Complete, Finalize, Validate, Lease, DeleteFile, Drop, Clear, tables, files
  <2> QED BY <2>1, <2>2, <2>3
<1> QED BY <1>2, <1>3, <1>4 DEF Proceed

LEMMA NextShrinks ==
  ASSUME TypeInv, [Next]_vars, \A r \in Requests : ~Open(r)
  PROVE  Shrinks
<1>1. UNCHANGED transfer => Shrinks
  BY DEF Shrinks
<1>2. ASSUME NEW r \in Requests, Begins(r) PROVE Shrinks
  <2>1. CASE \E ids \in SUBSET Assets : BeginImport(r, ids) \/ BeginExport(r, ids)
    BY <1>1, <2>1 DEF BeginImport, BeginExport, BeginMove, tables, files
  <2>2. CASE \E a \in Assets : BeginIngest(r, a)
    <3>1. PICK a \in Assets : BeginIngest(r, a)
      BY <2>2
    <3> DEFINE x == [NoTransfer EXCEPT !.kind = "ingest", !.ids = {a}]
    <3>2. transfer' = [transfer EXCEPT ![created'] = x] /\ x.state = "none"
      BY <3>1 DEF BeginIngest, NoTransfer
    <3>3. transfer \in [Transfers -> Transfer]
      BY TypesOf
    <3> HIDE DEF x
    <3>4. \A t \in Transfers : transfer'[t] \in {transfer[t], x}
      BY <3>2, <3>3
    <3> QED BY <3>2, <3>3, <3>4 DEF Shrinks
  <2> QED BY <1>2, <2>1, <2>2 DEF Begins
<1>3. CASE Library \/ Purges \/ VaultTrash \/ Restores
  BY <1>1, <1>3, LibraryRows, RelabelsRows DEF Relabels
<1>4. CASE Lock \/ Faults
  <2>1. CASE Lock \/ Crash
    BY <1>1, <2>1 DEF Lock, Crash, tables, files
  <2>2. ASSUME NEW r \in Requests, Stumble(r) PROVE Shrinks
    BY <1>1, <2>2 DEF Stumble, tables, files
  <2> QED BY <1>4, <2>1, <2>2 DEF Faults
<1>5. ASSUME NEW r \in Requests, BeginUnlock(r) PROVE Shrinks
  BY <1>1, <1>5 DEF BeginUnlock, tables, files
<1> QED BY <1>1, <1>2, <1>3, <1>4, <1>5, ProceedShrinks DEF Next, vars

\* What the rows of d refer to: nothing, what they did, or a row that can be got
\* and is not among J.
Refers(d, J) ==
  \A b \in Assets : Exists(d, b)' =>
    LET x == row'[d][b].duplicateOf IN
    \/ x = NoAsset
    \/ Exists(d, b) /\ x = row[d][b].duplicateOf
    \/ x \in Assets \ J /\ row'[d][x].lifecycle \notin {"none", "purging"}
\* What is hidden or goes is free of what refers to it.
Hides(d) == \A a \in Assets : ~Gets(d, a)' => ~Gets(d, a) \/ Dependents(row[d], a) = {}

LEMMA LeasedStays ==
  ASSUME TypeInv, LeasedIsClosed, OneJournal, Shrinks, \A d \in Databases : Refers(d, {}) /\ Hides(d)
  PROVE  LeasedIsClosed' /\ OneJournal'
<1>1. ASSUME NEW k, NEW t \in Journals(k)'
      PROVE  /\ t \in Transfers /\ t \in Journals(k) /\ transfer'[t].ids = transfer[t].ids
             /\ transfer[t].ids \in SUBSET Assets
  <2>1. t \in Transfers /\ t \in Journals(k) /\ transfer'[t].ids = transfer[t].ids
    BY <1>1 DEF Journals, Shrinks
  <2>2. transfer[t] \in Transfer
    BY <2>1, TypesOf
  <2> QED BY <2>1, <2>2 DEF Transfer
<1>2. OneJournal'
  BY <1>1 DEF OneJournal
<1>3. ASSUME NEW k \in {"import", "export"}, NEW t \in Journals(k)', NEW a \in transfer'[t].ids,
             ~Gets(From[k], a)', NEW b \in Dependents(row[From[k]], a)'
      PROVE  b \in transfer'[t].ids
  <2> DEFINE d == From[k]
  <2>1. d \in Databases /\ a \in Assets /\ a # NoAsset
    BY <1>1, TransferAssumption DEF From, Databases
  <2>2. b \in Assets /\ Exists(d, b)' /\ row'[d][b].duplicateOf = a
    BY <1>3 DEF Dependents, Exists
  <2>3. Refers(d, {}) /\ Hides(d) /\ row'[d][a].lifecycle \in {"none", "purging"}
    BY <1>3, <2>1 DEF Gets
  <2> HIDE DEF d, Exists, Gets
  <2>4. Exists(d, b) /\ row[d][b].duplicateOf = a
    BY <2>1, <2>2, <2>3 DEF Refers
  <2>5. b \in Dependents(row[d], a)
    BY <2>2, <2>4 DEF Dependents, Exists
  <2>6. ~Gets(d, a)
    BY <1>3, <2>1, <2>3, <2>5 DEF Hides, d
  <2> QED BY <1>1, <2>5, <2>6 DEF LeasedIsClosed, d
<1>4. LeasedIsClosed'
  BY <1>3 DEF LeasedIsClosed
<1> QED BY <1>2, <1>4

LEMMA QuietRefers ==
  ASSUME NEW d, UNCHANGED row, NEW J
  PROVE  Refers(d, J) /\ Hides(d)
BY DEF Refers, Hides, Exists, Gets

\* One row changes.
LEMMA OneRowRefers ==
  ASSUME TypeInv, NEW d \in Databases, NEW a \in Assets, NEW x, NEW J,
         row' = [row EXCEPT ![d] = [row[d] EXCEPT ![a] = x]],
         \/ x.lifecycle = "none" \/ x.duplicateOf = NoAsset
         \/ Exists(d, a) /\ x.duplicateOf = row[d][a].duplicateOf
         \/ x.duplicateOf \in (Assets \ J) \ {a} /\ Gets(d, x.duplicateOf),
         x.lifecycle \notin {"none", "purging"} \/ ~Gets(d, a) \/ Dependents(row[d], a) = {}
  PROVE  /\ \A e \in Databases : Refers(e, IF e = d THEN J ELSE Assets) /\ Hides(e)
         /\ UniquePrimaries(row[d]) /\ x.lifecycle # "active" => UniquePrimaries(row'[d])
<1>1. row \in [Databases -> [Assets -> Row]]
  BY TypesOf DEF Tables
<1>2. /\ \A e \in Databases \ {d} : row'[e] = row[e]
      /\ \A b \in Assets : row'[d][b] = IF b = a THEN x ELSE row[d][b]
  BY <1>1
<1>3. Refers(d, J)
  <2> SUFFICES ASSUME NEW b \in Assets, Exists(d, b)'
               PROVE  LET y == row'[d][b].duplicateOf IN
                      \/ y = NoAsset
                      \/ Exists(d, b) /\ y = row[d][b].duplicateOf
                      \/ y \in Assets \ J /\ row'[d][y].lifecycle \notin {"none", "purging"}
    BY DEF Refers
  <2> QED BY <1>2 DEF Exists, Gets
<1>4. Hides(d)
  BY <1>2 DEF Hides, Gets
<1>5. \A e \in Databases \ {d} : Refers(e, Assets) /\ Hides(e)
  BY <1>2 DEF Refers, Hides, Exists, Gets
<1>6. UniquePrimaries(row[d]) /\ x.lifecycle # "active" => UniquePrimaries(row'[d])
  BY <1>2 DEF UniquePrimaries
<1> QED BY <1>3, <1>4, <1>5, <1>6

\* insert_asset refers to an active row, if to any.
LEMMA PlacedRefers ==
  ASSUME NEW rows, NEW journaled, NEW a \in Assets, NEW given \in Row
  PROVE  Placed(rows, journaled, a, given).duplicateOf \in Primaries(rows, journaled, a) \cup {NoAsset}
<1> DEFINE ps == Primaries(rows, journaled, a)
           b == CHOOSE x \in ps : TRUE
           one == [given EXCEPT !.duplicateOf = b, !.lifecycle = IF @ = "active" THEN "duplicate" ELSE @]
           two == [given EXCEPT !.duplicateOf = NoAsset, !.lifecycle = IF @ = "duplicate" THEN "active" ELSE @]
<1>1. CASE ps # {}
  <2>1. b \in ps
    BY <1>1
  <2>2. Placed(rows, journaled, a, given) = one
    BY <1>1 DEF Placed
  <2> HIDE DEF b, ps
  <2>3. one.duplicateOf = b
    BY DEF Row
  <2> QED BY <2>1, <2>2, <2>3 DEF ps
<1>2. CASE ps = {} /\ given.duplicateOf # NoAsset
  <2>1. Placed(rows, journaled, a, given) = two
    BY <1>2 DEF Placed
  <2> HIDE DEF b, ps
  <2>2. two.duplicateOf = NoAsset
    BY DEF Row
  <2> QED BY <2>1, <2>2
<1>3. CASE ps = {} /\ given.duplicateOf = NoAsset
  BY <1>3 DEF Placed
<1> QED BY <1>1, <1>2, <1>3

\* The main library's handlers leave the transfers' rows alone, and what they
\* purge is free.
LEMMA LibraryRefers ==
  ASSUME TypeInv, ReconInv, Library \/ Purges, NEW d \in Databases
  PROVE  /\ Refers(d, Journaled(d)) /\ Hides(d)
         /\ UniquePrimaries(row[d]) => UniquePrimaries(row'[d])
<1> DEFINE J == Journaled("main")
           Done == /\ Refers(d, Journaled(d)) /\ Hides(d)
                   /\ UniquePrimaries(row[d]) => UniquePrimaries(row'[d])
<1>1. /\ row \in [Databases -> [Assets -> Row]] /\ "main" \in Databases
      /\ \A a \in Assets : row["main"][a] \in Row
      /\ \A a \in Assets : Exists("main", a) => a \in known
  BY TypesOf DEF Tables, Databases, ReconInv, Settled, KnownOnce
<1>2. ASSUME NEW a \in Assets, NEW x, row' = [row EXCEPT !["main"] = [row["main"] EXCEPT ![a] = x]],
             \/ x.lifecycle = "none" \/ x.duplicateOf = NoAsset
             \/ Exists("main", a) /\ x.duplicateOf = row["main"][a].duplicateOf
             \/ x.duplicateOf \in (Assets \ J) \ {a} /\ Gets("main", x.duplicateOf),
             x.lifecycle \notin {"none", "purging"} \/ ~Gets("main", a) \/ Free(a),
             x.lifecycle # "active" \/ UniquePrimaries(row'["main"])
      PROVE  Done
  <2>1. Free(a) => Dependents(row["main"], a) = {}
    BY DEF Free
  <2> HIDE DEF J, Exists, Gets, Free
  <2>2. /\ \A e \in Databases : Refers(e, IF e = "main" THEN J ELSE Assets) /\ Hides(e)
        /\ UniquePrimaries(row["main"]) /\ x.lifecycle # "active" => UniquePrimaries(row'["main"])
    BY <1>1, <1>2, <2>1, OneRowRefers
  <2>3. d # "main" => row'[d] = row[d]
    BY <1>1, <1>2
  <2>4. Refers(d, Assets) => Refers(d, Journaled(d))
    BY DEF Refers
  <2> QED BY <1>2, <2>2, <2>3, <2>4 DEF J
<1>3. CASE \E a \in Assets : Upload(a)
  <2>1. PICK a \in Assets : Upload(a)
    BY <1>3
  <2> DEFINE x == Placed(row["main"], J, a, Fresh)
             rows == [row["main"] EXCEPT ![a] = x]
  <2>2. row' = [row EXCEPT !["main"] = rows] /\ UniquePrimaries(rows) /\ ~Exists("main", a)
    BY <1>1, <2>1 DEF Upload
  <2>3. x \in Row /\ x.lifecycle \notin {"none", "purging"}
    BY FreshIsRow, PlacedIsRow
  <2>4. x.duplicateOf \in Primaries(row["main"], J, a) \cup {NoAsset}
    BY FreshIsRow, PlacedRefers
  <2> HIDE DEF x, J
  <2>5. x.duplicateOf = NoAsset \/ (x.duplicateOf \in (Assets \ J) \ {a} /\ Gets("main", x.duplicateOf))
    BY <2>2, <2>4 DEF Primaries, Gets, Exists
  <2>6. row'["main"] = rows
    BY <1>1, <2>2
  <2> QED BY <1>2, <2>2, <2>3, <2>5, <2>6
<1>4. CASE \E a \in Assets : PurgeFree(a)
  <2>1. PICK a \in Assets : PurgeFree(a)
    BY <1>4
  <2>2. row' = [row EXCEPT !["main"] = [row["main"] EXCEPT ![a] = NoRow]] /\ Free(a)
    BY <2>1 DEF PurgeFree
  <2>3. NoRow.lifecycle = "none"
    BY DEF NoRow
  <2> QED BY <1>2, <2>2, <2>3
<1>5. CASE \E a \in Assets : MarkPurging(a)
  <2>1. PICK a \in Assets : MarkPurging(a)
    BY <1>5
  <2> DEFINE x == [row["main"][a] EXCEPT !.lifecycle = "purging"]
  <2>2. row' = [row EXCEPT !["main"] = [row["main"] EXCEPT ![a] = x]] /\ Free(a) /\ Exists("main", a)
    BY <2>1 DEF MarkPurging, Exists
  <2>3. x.lifecycle = "purging" /\ x.duplicateOf = row["main"][a].duplicateOf
    BY <1>1 DEF Row
  <2> HIDE DEF x, J, Free, Exists
  <2> QED BY <1>2, <2>2, <2>3
<1>6. CASE \E a \in Assets : Trash("main", a)
  <2>1. PICK a \in Assets : Trash("main", a)
    BY <1>6
  <2> DEFINE x == [row["main"][a] EXCEPT !.lifecycle = "trashed", !.trashed = TRUE]
  <2>2. row' = [row EXCEPT !["main"] = [row["main"] EXCEPT ![a] = x]] /\ Exists("main", a)
    BY <2>1 DEF Trash, Gets, Exists
  <2>3. x.lifecycle = "trashed" /\ x.duplicateOf = row["main"][a].duplicateOf
    BY <1>1 DEF Row
  <2> HIDE DEF x, J, Free, Exists
  <2> QED BY <1>2, <2>2, <2>3
<1>7. CASE \E a \in Assets : RestoreBlocked(a)
  <2>1. PICK a \in Assets : RestoreBlocked(a)
    BY <1>7
  <2>2. PICK s \in {"trashed", "active", "duplicate"} :
          LET rows == [row["main"] EXCEPT ![a].lifecycle = s]
          IN row' = [row EXCEPT !["main"] = rows] /\ UniquePrimaries(rows)
    BY <2>1 DEF RestoreBlocked
  <2> DEFINE x == [row["main"][a] EXCEPT !.lifecycle = s]
             rows == [row["main"] EXCEPT ![a] = x]
  <2>3. row' = [row EXCEPT !["main"] = rows] /\ UniquePrimaries(rows) /\ Exists("main", a)
    BY <2>1, <2>2 DEF RestoreBlocked, Exists
  <2>4. x.lifecycle = s /\ x.duplicateOf = row["main"][a].duplicateOf
    BY <1>1 DEF Row
  <2> HIDE DEF x, J, Free, Exists
  <2>5. row'["main"] = rows
    BY <1>1, <2>3
  <2> QED BY <1>2, <2>3, <2>4, <2>5
<1> QED BY <1>3, <1>4, <1>5, <1>6, <1>7 DEF Library, Purges

\* Trash hides nothing and brings nothing back; a restore may refer to a row that
\* a journal names.
LEMMA RelabelsRefers ==
  ASSUME TypeInv, VaultTrash \/ Restores, NEW d \in Databases
  PROVE  /\ Refers(d, {}) /\ Hides(d)
         /\ VaultTrash => Refers(d, Journaled(d))
         /\ UniquePrimaries(row[d]) => UniquePrimaries(row'[d])
<1>1. row \in [Databases -> [Assets -> Row]]
  BY TypesOf DEF Tables
<1>2. Hides(d) /\ \A b \in Assets : Exists(d, b)' <=> Exists(d, b)
  BY RelabelsRows DEF Relabels, Hides, Gets, Exists
<1>3. CASE VaultTrash
  <2>1. PICK a \in Assets : Trash("vault", a)
    BY <1>3 DEF VaultTrash
  <2>2. "vault" \in Databases
    BY DEF Databases
  <2>3. /\ \A b \in Assets : /\ "vault" # d \/ b # a => row'[d][b] = row[d][b]
                             /\ row'[d][b].duplicateOf = row[d][b].duplicateOf
        /\ row'["vault"][a].lifecycle = "trashed"
    BY <2>1, <2>2, TrashedRows
  <2>4. \A J : Refers(d, J)
    BY <1>2, <2>3 DEF Refers
  <2>5. UniquePrimaries(row[d]) => UniquePrimaries(row'[d])
    BY <2>3 DEF UniquePrimaries
  <2> QED BY <1>2, <2>4, <2>5
<1>4. CASE Restores
  <2>1. PICK e \in Databases, a \in Assets : Restore(e, a)
    BY <1>4 DEF Restores
  <2> DEFINE new == Restored(row[e], a)
  <2>2. row[e] \in [Assets -> Row] /\ row[e][a].lifecycle = "trashed" /\ row' = [row EXCEPT ![e] = new]
    BY <1>1, <2>1 DEF Restore
  <2>3. /\ new[a].lifecycle \in {"active", "duplicate"}
        /\ \A b \in Assets : new[b].duplicateOf \in {row[e][b].duplicateOf, a}
        /\ UniquePrimaries(row[e]) => UniquePrimaries(new)
    <3> HIDE DEF UniquePrimaries
    <3> QED BY <2>2, RestoredRows
  <2> HIDE DEF new
  <2>4. row'[e] = new /\ \A c \in Databases \ {e} : row'[c] = row[c]
    BY <2>2, RowsOf
  <2>5. Refers(d, {})
    BY <1>2, <2>3, <2>4 DEF Refers
  <2>6. UniquePrimaries(row[d]) => UniquePrimaries(row'[d])
    <3> HIDE DEF UniquePrimaries
    <3> QED BY <2>3, <2>4
  <2> QED BY <1>2, <1>3, <2>5, <2>6
<1> QED BY <1>3, <1>4

\* What a commit inserts refers to rows that are active after it.
LEMMA InsertedRefers ==
  ASSUME NEW rows \in [Assets -> Row], NEW journaled, NEW ids \in SUBSET Assets,
         NEW given \in [Assets -> Row], NEW order \in SetToSeqs(ids),
         \A a \in ids : rows[a].lifecycle = "none"
  PROVE  LET new == Inserted(rows, journaled, given, order) IN
         \A a \in ids : LET x == new[a].duplicateOf IN
           x = NoAsset \/ (x \in Assets /\ new[x].lifecycle = "active")
<1> DEFINE new == Inserted(rows, journaled, given, order)
           n == Cardinality(ids)
           done(k) == {order[i] : i \in 1 .. k}
           Fit(f, a) == LET x == f[a].duplicateOf IN
                        x = NoAsset \/ (x \in Assets /\ f[x].lifecycle = "active")
           In(k) == {f \in [Assets -> Row] : \A a \in Assets :
                       IF a \in done(k) THEN Fit(f, a) ELSE f[a] = rows[a]}
           G == [k \in 0 .. n |-> In(k)]
<1>1. /\ n \in Nat /\ order \in [1 .. n -> ids]
      /\ \A a \in ids : \E i \in 1 .. n : order[i] = a
      /\ \A i, j \in 1 .. n : i # j => order[i] # order[j]
  BY OrderIsComplete DEF SetToSeqs
<1> HIDE DEF n
<1>2. rows \in G[0]
  <2>1. done(0) = {}
    OBVIOUS
  <2>2. rows \in In(0)
    BY <2>1
  <2> QED BY <1>1, <2>2
<1>3. ASSUME NEW k \in 1 .. n, NEW rs \in G[k - 1]
      PROVE  [rs EXCEPT ![order[k]] = Placed(rs, journaled, order[k], given[order[k]])] \in G[k]
  <2> DEFINE a == order[k]
             x == Placed(rs, journaled, a, given[a])
             f == [rs EXCEPT ![a] = x]
  <2>1. a \in Assets /\ a \in ids /\ given[a] \in Row
    BY <1>1
  <2>2. x \in Row /\ x.duplicateOf \in Primaries(rs, journaled, a) \cup {NoAsset}
    BY <2>1, PlacedIsRow, PlacedRefers
  <2>3. rs \in In(k - 1) /\ G[k] = In(k)
    BY <1>1
  <2>4. done(k) = done(k - 1) \cup {a} /\ a \notin done(k - 1)
    <3>1. 1 .. k = (1 .. k - 1) \cup {k} /\ k \notin 1 .. k - 1 /\ 1 .. k - 1 \subseteq 1 .. n
      BY <1>1
    <3> QED BY <1>1, <3>1
  <2>5. rs \in [Assets -> Row] /\ \A b \in Assets :
          IF b \in done(k - 1) THEN Fit(rs, b) ELSE rs[b] = rows[b]
    BY <2>3
  <2> HIDE DEF x, done
  <2>6. rs[a].lifecycle = "none"
    BY <2>1, <2>4, <2>5
  <2>7. f \in [Assets -> Row] /\ \A b \in Assets : f[b] = IF b = a THEN x ELSE rs[b]
    BY <2>1, <2>2, <2>5
  <2> HIDE DEF f, a
  <2>8. Fit(f, a)
    BY <2>1, <2>2, <2>6, <2>7 DEF Primaries
  <2>9. ASSUME NEW b \in Assets, b # a, Fit(rs, b) PROVE Fit(f, b)
    BY <2>6, <2>7, <2>9
  <2> HIDE DEF Fit
  <2>10. f \in In(k)
    BY <2>4, <2>5, <2>7, <2>8, <2>9
  <2> QED BY <2>3, <2>10 DEF f, x, a
<1>4. order \in [1 .. n -> Assets]
  BY <1>1
<1>5. new \in G[n]
  <2> HIDE DEF G
  <2> QED BY <1>1, <1>2, <1>3, <1>4, InsertedSteps
<1>6. G[n] = In(n) /\ done(n) = ids
  BY <1>1
<1> HIDE DEF G, done
<1> QED BY <1>5, <1>6

LEMMA CommitRefers ==
  ASSUME TypeInv, NEW r \in Requests, request[r].step = "stage",
         NEW order \in SetToSeqs(request[r].ids), CommitsInto(r, order), NEW d \in Databases
  PROVE  /\ Refers(d, Journaled(d)) /\ Hides(d)
         /\ UniquePrimaries(row[d]) => UniquePrimaries(row'[d])
<1>0. PICK e \in Databases : e = To[request[r].kind]
  BY CommittedRows
<1> DEFINE ids == request[r].ids
           new == Inserted(row[e], Journaled(e), Given(r), order)
<1>1. /\ \A c \in Databases \ {e} : row'[c] = row[c]
      /\ \A a \in Assets \ ids : row'[e][a] = row[e][a]
      /\ \A a \in ids : Fits(Journaled(e), Given(r)[a], row'[e][a])
      /\ Given(r) \in [Assets -> Row] /\ ids \in SUBSET Assets
  BY <1>0, CommittedRows
<1>2. row[e] \in [Assets -> Row] /\ row \in [Databases -> [Assets -> Row]]
  BY TypesOf DEF Tables
<1>3. UniquePrimaries(new) /\ row' = [row EXCEPT ![e] = new]
  BY <1>0 DEF CommitsInto
<1>4. \A a \in ids : row[e][a].lifecycle = "none"
  BY <1>0 DEF CommitsInto, Exists
<1>5. new = Inserted(row[e], Journaled(e), Given(r), order) /\ order \in SetToSeqs(ids)
  OBVIOUS
<1> HIDE DEF ids, new, UniquePrimaries
<1>6. row'[e] = new
  BY <1>1, <1>2, <1>3
<1>7. \A a \in ids : LET x == new[a].duplicateOf IN x = NoAsset \/ (x \in Assets /\ new[x].lifecycle = "active")
  <2> DEFINE rows == row[e]
             journaled == Journaled(e)
             given == Given(r)
  <2>1. /\ rows \in [Assets -> Row] /\ ids \in SUBSET Assets /\ given \in [Assets -> Row]
        /\ order \in SetToSeqs(ids) /\ new = Inserted(rows, journaled, given, order)
        /\ \A a \in ids : rows[a].lifecycle = "none"
    BY <1>1, <1>2, <1>4, <1>5
  <2> HIDE DEF rows, journaled, given
  <2>2. \A a \in ids : LET x == Inserted(rows, journaled, given, order)[a].duplicateOf IN
          x = NoAsset \/ (x \in Assets /\ Inserted(rows, journaled, given, order)[x].lifecycle = "active")
    BY <2>1, InsertedRefers
  <2> QED BY <2>1, <2>2
<1>8. Refers(e, Journaled(e))
  <2> SUFFICES ASSUME NEW b \in Assets, Exists(e, b)'
               PROVE  LET x == row'[e][b].duplicateOf IN
                      \/ x = NoAsset
                      \/ Exists(e, b) /\ x = row[e][b].duplicateOf
                      \/ x \in Assets \ Journaled(e) /\ row'[e][x].lifecycle \notin {"none", "purging"}
    BY DEF Refers
  <2>1. CASE b \in ids
    BY <1>1, <1>6, <1>7, <2>1 DEF Fits
  <2>2. CASE b \notin ids
    <3>1. row'[e][b] = row[e][b]
      BY <1>1, <2>2
    <3> QED BY <3>1 DEF Exists
  <2> QED BY <2>1, <2>2
<1>9. Hides(e)
  <2>1. ASSUME NEW a \in Assets PROVE Gets(e, a) => Gets(e, a)'
    <3>1. CASE a \in ids
      BY <1>4, <3>1 DEF Gets
    <3>2. CASE a \notin ids
      <4>1. row'[e][a] = row[e][a]
        BY <1>1, <3>2
      <4> QED BY <4>1 DEF Gets
    <3> QED BY <3>1, <3>2
  <2> QED BY <2>1 DEF Hides
<1>10. ASSUME NEW c \in Databases \ {e} PROVE Refers(c, Journaled(c)) /\ Hides(c) /\ row'[c] = row[c]
  BY <1>1 DEF Refers, Hides, Exists, Gets
<1> QED BY <1>3, <1>6, <1>8, <1>9, <1>10

\* What a lease leaves refers to what it did.
LEMMA LeaseRefers ==
  ASSUME TypeInv, NEW r \in Requests, Lease(r), NEW d \in Databases
  PROVE  /\ Refers(d, Journaled(d))
         /\ UniquePrimaries(row[d]) => UniquePrimaries(row'[d])
         /\ d # From[Kind(r)] => row'[d] = row[d]
         /\ \A a \in Assets : Dependents(row'[d], a) = Dependents(row[d], a)
<1> DEFINE e == From[Kind(r)]
           new == Tombstones(row[e], Moving(r))
<1>1. request[r].step \in Deleting
  BY DEF Lease, At, Deleting
<1>2. e \in Databases /\ row[e] \in [Assets -> Row]
  <2>1. Kind(r) \in {"import", "export"}
    BY <1>1, KindInHand DEF Handling, Completing, Deleting
  <2> QED BY <2>1, TypesOf DEF From, Databases, Tables
<1>3. UNCHANGED row \/ row' = [row EXCEPT ![e] = new]
  BY DEF Lease
<1>4. \A a \in Assets : /\ new[a].duplicateOf = row[e][a].duplicateOf
                        /\ new[a].lifecycle = "none" <=> row[e][a].lifecycle = "none"
                        /\ new[a].lifecycle = "active" => row[e][a].lifecycle = "active"
  <2>1. new \in [Assets -> Row]
        /\ \A a \in Assets : /\ new[a].duplicateOf = row[e][a].duplicateOf
                             /\ new[a].lifecycle = "none" <=> row[e][a].lifecycle = "none"
                             /\ a \notin Moving(r) => new[a] = row[e][a]
                             /\ a \in Moving(r) => new[a].lifecycle \in {"none", "purging"}
    BY <1>2, TombstonesAreRows
  <2> HIDE DEF e, new
  <2> QED BY <2>1
<1> HIDE DEF e, new
<1>5. CASE row' = [row EXCEPT ![e] = new]
  <2>1. row'[e] = new /\ \A c \in Databases \ {e} : row'[c] = row[c]
    BY <1>2, <1>5, RowsOf
  <2>2. \A a \in Assets : Dependents(row'[d], a) = Dependents(row[d], a)
    BY <1>4, <2>1 DEF Dependents
  <2>3. Refers(d, Journaled(d))
    BY <1>4, <2>1 DEF Refers, Exists
  <2>4. UniquePrimaries(row[d]) => UniquePrimaries(row'[d])
    BY <1>4, <2>1 DEF UniquePrimaries
  <2> QED BY <2>1, <2>2, <2>3, <2>4 DEF e
<1>6. CASE UNCHANGED row
  BY <1>6, QuietRefers
<1> QED BY <1>3, <1>5, <1>6

\* Only a commit, a lease and the end of the source write rows.
LEMMA ProceedRows ==
  ASSUME NEW r \in Requests, Proceed(r), ~Commit(r), ~Lease(r), ~Drop(r)
  PROVE  UNCHANGED row
<1>1. CASE Reconciles(r)
  <2>1. CASE List(r) \/ TakeNext(r) \/ NextList(r) \/ Sweep(r)
    BY <2>1 DEF List, TakeNext, NextList, Sweep, tables
  <2>2. CASE Sweeping(r) \/ Issue(r) \/ UndoImport(r) \/ Unlink(r) \/ Forget(r)
    BY <2>2 DEF Sweeping, Issue, UndoImport, Unlink, Forget, tables
  <2>3. CASE RollbackLook(r)
    <3>1. UNCHANGED <<tables, files, known, created, session>>
      BY <2>3 DEF RollbackLook
    <3> QED BY <3>1 DEF tables
  <2> QED BY <1>1, <2>1, <2>2, <2>3 DEF Reconciles
<1>2. CASE Stages(r)
  BY <1>2 DEF Stages, Prepare, Open, StageBlob, CreatePlain, WritePlain, Abort, tables
<1>3. CASE Completes(r)
  <2>1. CASE Complete(r) \/ Finalize(r) \/ Validate(r) \/ DeleteFile(r) \/ Clear(r)
    BY <2>1 DEF Complete, Finalize, Validate, DeleteFile, Clear, tables
  <2>2. CASE Ready(r) \/ FilesDeleted(r) \/ Dropped(r) \/ Unmark(r) \/ Close(r)
    BY <2>2 DEF Ready, FilesDeleted, Dropped, Unmark, Close
  <2> QED BY <1>3, <2>1, <2>2 DEF Completes
<1> QED BY <1>1, <1>2, <1>3 DEF Proceed

\* Every step but a restore.
Others ==
  \/ \E r \in Requests : BeginUnlock(r) \/ Begins(r) \/ Proceed(r)
  \/ Lock \/ Library \/ VaultTrash \/ Purges \/ Faults \/ UNCHANGED vars

\* What a step other than a lease or the end of the source does to relations.
LEMMA NextRefers ==
  ASSUME TypeInv, ReconInv, [Next]_vars, \A r \in Requests : ~Lease(r) /\ ~Drop(r), NEW d \in Databases
  PROVE  /\ Refers(d, {}) /\ Hides(d)
         /\ UniquePrimaries(row[d]) => UniquePrimaries(row'[d])
         /\ Others => Refers(d, Journaled(d))
<1> DEFINE Told == /\ Refers(d, Journaled(d)) /\ Hides(d)
                   /\ UniquePrimaries(row[d]) => UniquePrimaries(row'[d])
<1>1. UNCHANGED row => Told
  BY QuietRefers
<1>2. ASSUME NEW r \in Requests, Proceed(r) PROVE Told
  <2>1. CASE Commit(r)
    <3>1. CASE UNCHANGED row
      BY <1>1, <3>1
    <3>2. ASSUME NEW order \in SetToSeqs(request[r].ids), CommitsInto(r, order) PROVE Told
      BY <2>1, <3>2, CommitCases, CommitRefers
    <3> QED BY <2>1, <3>1, <3>2, CommitCases
  <2>2. CASE ~Commit(r)
    BY <1>1, <1>2, <2>2, ProceedRows
  <2> QED BY <2>1, <2>2
<1>3. ASSUME NEW r \in Requests, BeginUnlock(r) \/ Begins(r) PROVE Told
  <2>1. UNCHANGED row
    BY <1>3 DEF BeginUnlock, Begins, BeginImport, BeginExport, BeginMove, BeginIngest, tables
  <2> QED BY <1>1, <2>1
<1>4. ASSUME Lock \/ Faults \/ UNCHANGED vars PROVE Told
  <2>1. UNCHANGED row
    BY <1>4 DEF Lock, Faults, Crash, Stumble, tables, vars
  <2> QED BY <1>1, <2>1
<1>5. ASSUME Library \/ Purges PROVE Told
  BY <1>5, LibraryRefers
<1>6. ASSUME VaultTrash PROVE Told
  BY <1>6, RelabelsRefers
<1>7. Others => Told
  BY <1>2, <1>3, <1>4, <1>5, <1>6 DEF Others
<1>8. Refers(d, Journaled(d)) => Refers(d, {})
  BY DEF Refers
<1>9. CASE Others
  BY <1>7, <1>8, <1>9
<1>10. CASE Restores /\ ~Others
  BY <1>10, RelabelsRefers
<1> QED BY <1>9, <1>10 DEF Next, Others

\* Open writes a journal beside none, for what it found closed.
LEMMA OpenCloses ==
  ASSUME TypeInv, ReconInv, LeasedIsClosed, OneJournal, NEW r \in Requests, Open(r)
  PROVE  /\ LeasedIsClosed' /\ OneJournal'
         /\ \A k \in {"import", "export"} : \A t \in Journals(k)' :
              \/ t \in Journals(k) /\ transfer'[t].ids = transfer[t].ids
              \/ \A a \in transfer'[t].ids : Dependents(row[From[k]], a) \subseteq transfer'[t].ids
<1> DEFINE x == [kind |-> request[r].kind, ids |-> request[r].ids, state |-> "preparing", marker |-> FALSE]
<1>1. /\ request[r].step = "open" /\ UNCHANGED row
      /\ \/ UNCHANGED transfer
         \/ /\ Closed(From[request[r].kind], request[r].ids)
            /\ transfer' = [transfer EXCEPT ![created'] = x]
  BY DEF Open, At
<1>2. CASE UNCHANGED transfer
  <2>1. Shrinks
    BY <1>2 DEF Shrinks
  <2>2. LeasedIsClosed' /\ OneJournal'
    BY <1>1, <2>1, LeasedStays, QuietRefers
  <2>3. \A k : Journals(k)' = Journals(k)
    BY <1>2 DEF Journals
  <2> QED BY <1>2, <2>2, <2>3
<1>3. CASE transfer' = [transfer EXCEPT ![created'] = x] /\ Closed(From[request[r].kind], request[r].ids)
  <2>1. /\ request[r].kind \in {"import", "export"} /\ Journals(request[r].kind) = {}
        /\ transfer \in [Transfers -> Transfer]
    <3>1. Sound(request[r], transfer, created) /\ Listing(request[r])
      BY DEF TypeInv, ThreadsAreSound, ReconInv, Orderly
    <3> QED BY <1>1, <3>1, TypesOf DEF Sound, Listing
  <2>2. ASSUME NEW k \in {"import", "export"}, NEW t \in Journals(k)'
        PROVE  \/ t \in Journals(k) /\ transfer'[t] = transfer[t] /\ k # request[r].kind
               \/ t = created' /\ k = request[r].kind /\ transfer'[t].ids = request[r].ids
    <3>1. t \in Transfers /\ transfer'[t].kind = k /\ transfer'[t].state # "none"
      BY <2>2 DEF Journals
    <3>2. CASE t = created'
      BY <1>3, <2>1, <3>1, <3>2
    <3>3. CASE t # created'
      <4>1. transfer'[t] = transfer[t] /\ t \in Journals(k)
        BY <1>3, <2>1, <3>1, <3>3 DEF Journals
      <4> QED BY <2>1, <4>1
    <3> QED BY <3>2, <3>3
  <2>3. OneJournal'
    BY <2>2 DEF OneJournal
  <2>4. ASSUME NEW k \in {"import", "export"}, NEW t \in Journals(k)', t = created', k = request[r].kind
        PROVE  \A a \in transfer'[t].ids : Dependents(row[From[k]], a) \subseteq transfer'[t].ids
    BY <1>3, <2>1, <2>2, <2>4 DEF Closed
  <2>5. LeasedIsClosed'
    <3> SUFFICES ASSUME NEW k \in {"import", "export"}, NEW t \in Journals(k)', NEW a \in transfer'[t].ids,
                        ~Gets(From[k], a)'
                 PROVE  Dependents(row'[From[k]], a) \subseteq transfer'[t].ids
      BY DEF LeasedIsClosed
    <3>1. row'[From[k]] = row[From[k]] /\ ~Gets(From[k], a)
      BY <1>1 DEF Gets
    <3> QED BY <2>2, <2>4, <3>1 DEF LeasedIsClosed
  <2> QED BY <2>2, <2>3, <2>4, <2>5
<1> QED BY <1>1, <1>2, <1>3

\* A thread that deletes has the one journal of its source in hand.
LEMMA DeletesFrom ==
  ASSUME TypeInv, CopyInv, OneJournal, NEW r \in Requests, request[r].step \in Deleting,
         NEW k \in {"import", "export"}, NEW t \in Journals(k), From[k] = From[Kind(r)]
  PROVE  t = Now(r) /\ k = Kind(r)
<1>1. Kind(r) \in {"import", "export"} /\ Now(r) \in Transfers /\ Alive(transfer, Now(r))
  BY AtCompletion, KindInHand DEF Handling, Completing, Deleting
<1>2. k = Kind(r)
  BY <1>1 DEF From
<1>3. Now(r) \in Journals(k)
  BY <1>1, <1>2 DEF Alive, Journals, Kind
<1> QED BY <1>2, <1>3 DEF OneJournal

LEMMA LeaseCloses ==
  ASSUME TypeInv, CopyInv, LeasedIsClosed, OneJournal, Shrinks, NEW r \in Requests, Lease(r)
  PROVE  LeasedIsClosed' /\ OneJournal'
<1>1. request[r].step \in Deleting
  BY DEF Lease, At, Deleting
<1>2. CASE UNCHANGED row
  BY <1>2, LeasedStays, QuietRefers
<1>3. CASE Closed(From[Kind(r)], Moving(r))
  <2>1. ASSUME NEW k \in {"import", "export"}, NEW t \in Journals(k)'
        PROVE  t \in Journals(k) /\ transfer'[t].ids = transfer[t].ids /\ From[k] \in Databases
    BY <2>1 DEF Journals, Shrinks, From, Databases
  <2>2. OneJournal'
    BY <2>1 DEF OneJournal
  <2>3. ASSUME NEW k \in {"import", "export"}, NEW t \in Journals(k)', NEW a \in transfer'[t].ids,
               ~Gets(From[k], a)'
        PROVE  Dependents(row'[From[k]], a) \subseteq transfer'[t].ids
    <3>1. a \in Assets
      <4>1. t \in Transfers /\ transfer[t] \in Transfer
        BY <2>1, TypesOf DEF Journals
      <4> QED BY <2>1, <4>1 DEF Transfer
    <3>2. Dependents(row'[From[k]], a) = Dependents(row[From[k]], a)
      BY <2>1, <3>1, LeaseRefers
    <3>3. CASE From[k] = From[Kind(r)]
      <4>1. t = Now(r)
        BY <1>1, <2>1, <3>3, DeletesFrom
      <4> QED BY <1>3, <2>1, <3>2, <3>3, <4>1 DEF Closed, Moving
    <3>4. CASE From[k] # From[Kind(r)]
      <4>1. row'[From[k]] = row[From[k]]
        BY <2>1, <3>4, LeaseRefers
      <4>2. ~Gets(From[k], a)
        BY <2>3, <4>1 DEF Gets
      <4> QED BY <2>1, <3>2, <4>2 DEF LeasedIsClosed
    <3> QED BY <3>3, <3>4
  <2> QED BY <2>2, <2>3 DEF LeasedIsClosed
<1> QED BY <1>2, <1>3 DEF Lease

LEMMA DropCloses ==
  ASSUME TypeInv, CopyInv, LeasedIsClosed, OneJournal, Shrinks, NEW r \in Requests, Drop(r)
  PROVE  LeasedIsClosed' /\ OneJournal'
<1>1. request[r].step = "drop" /\ request[r].step \in Deleting
  BY DropCases
<1>2. CASE UNCHANGED row
  BY <1>2, LeasedStays, QuietRefers
<1>3. CASE Drops(r)
  <2>1. ASSUME NEW k \in {"import", "export"}, NEW t \in Journals(k)'
        PROVE  t \in Journals(k) /\ transfer'[t].ids = transfer[t].ids /\ From[k] \in Databases
    BY <2>1 DEF Journals, Shrinks, From, Databases
  <2>2. OneJournal'
    BY <2>1 DEF OneJournal
  <2>3. ASSUME NEW k \in {"import", "export"}, NEW t \in Journals(k)', NEW a \in transfer'[t].ids,
               ~Gets(From[k], a)'
        PROVE  Dependents(row'[From[k]], a) \subseteq transfer'[t].ids
    <3>1. CASE From[k] = From[Kind(r)]
      <4>1. t = Now(r)
        BY <1>1, <2>1, <3>1, DeletesFrom
      <4>2. \A b \in Assets : row'[From[k]][b].duplicateOf # a
        BY <1>1, <1>3, <2>1, <3>1, <4>1, SourceDropped DEF Moving
      <4> QED BY <4>2 DEF Dependents
    <3>2. CASE From[k] # From[Kind(r)]
      <4>1. row'[From[k]] = row[From[k]]
        BY <1>1, <1>3, <2>1, <3>2, SourceDropped
      <4>2. ~Gets(From[k], a)
        BY <2>3, <4>1 DEF Gets
      <4> QED BY <2>1, <4>1, <4>2 DEF LeasedIsClosed
    <3> QED BY <3>1, <3>2
  <2> QED BY <2>2, <2>3 DEF LeasedIsClosed
<1> QED BY <1>2, <1>3, DropCases

LEMMA NextCloses ==
  TypeInv /\ CopyInv /\ ReconInv /\ LeasedIsClosed /\ OneJournal /\ [Next]_vars
    => LeasedIsClosed' /\ OneJournal'
<1> SUFFICES ASSUME TypeInv, CopyInv, ReconInv, LeasedIsClosed, OneJournal, [Next]_vars
             PROVE  LeasedIsClosed' /\ OneJournal'
  OBVIOUS
<1>1. CASE \E r \in Requests : Open(r)
  BY <1>1, OpenCloses
<1>2. CASE \A r \in Requests : ~Open(r)
  <2>1. Shrinks
    BY <1>2, NextShrinks
  <2>2. CASE \E r \in Requests : Lease(r) \/ Drop(r)
    BY <2>1, <2>2, LeaseCloses, DropCloses
  <2>3. CASE \A r \in Requests : ~Lease(r) /\ ~Drop(r)
    BY <2>1, <2>3, NextRefers, LeasedStays
  <2> QED BY <2>2, <2>3
<1> QED BY <1>1, <1>2

LEMMA InitCloses == Init => LeasedIsClosed /\ OneJournal
<1> SUFFICES ASSUME Init PROVE \A k : Journals(k) = {}
  BY DEF LeasedIsClosed, OneJournal
<1> QED BY DEF Init, NoTransfer, Journals

\* The invariant that the theorems rest on, in every reachable state.
TransferInv == TypeInv /\ CopyInv /\ ReconInv /\ LeasedIsClosed /\ OneJournal

LEMMA InitTransfers == Init => TransferInv
BY InitTyped, InitKeeps, InitOrders, InitCloses DEF TransferInv

LEMMA NextTransfers == OneAtATime => (TransferInv /\ [Next]_vars => TransferInv')
<1> SUFFICES ASSUME OneAtATime, TransferInv, [Next]_vars PROVE TransferInv'
  OBVIOUS
<1>1. TypeInv /\ CopyInv /\ ReconInv /\ LeasedIsClosed /\ OneJournal
  BY DEF TransferInv
<1>2. TypeInv'
  BY <1>1, NextTyped
<1>3. CopyInv' /\ ReconInv'
  BY <1>1, <1>2, NextKeeps, NextOrders
<1> QED BY <1>1, <1>2, <1>3, NextCloses DEF TransferInv

LEMMA TransferInvariance == OneAtATime => (Spec => []TransferInv)
<1> SUFFICES ASSUME OneAtATime PROVE Spec => []TransferInv
  OBVIOUS
<1>1. TransferInv /\ [Next]_vars => TransferInv'
  BY NextTransfers
<1> QED BY <1>1, InitTransfers, PTL DEF Spec

\* While requests do not overlap an asset always has a complete copy: no order
\* of the steps of an import, an export, a direct upload, an unlock, the
\* handlers of both databases, crashes and failing operations loses its bytes.
THEOREM CopyStays == OneAtATime => (Spec => []AlwaysACopy)
<1> SUFFICES ASSUME OneAtATime PROVE Spec => []AlwaysACopy
  OBVIOUS
<1>1. TransferInv => AlwaysACopy
  BY BytesAreCopies DEF TransferInv, CopyInv
<1> QED BY <1>1, TransferInvariance, PTL

\* While requests do not overlap, nothing outside a transfer refers to a row of
\* its source that is a tombstone or gone: whatever was uploaded, trashed,
\* restored or purged since the journal was written, the lease looks again, and
\* no handler makes a row refer to a tombstone afterwards.
THEOREM LeasedStayClosed == OneAtATime => (Spec => []LeasedIsClosed)
<1> SUFFICES ASSUME OneAtATime PROVE Spec => []LeasedIsClosed
  OBVIOUS
<1>1. TransferInv => LeasedIsClosed
  BY DEF TransferInv
<1> QED BY <1>1, TransferInvariance, PTL

\* While requests do not overlap, an unlock answers with a session only when
\* no journal, no marker and no staging is left, no asset is in both databases
\* and every blob is named by its row: whatever an import, an export, a direct
\* upload, a crash or a failing operation left, the lists meet it.
THEOREM UnlockReconciles == OneAtATime => (Spec => []IssuedIsReconciled)
<1> SUFFICES ASSUME OneAtATime PROVE Spec => []IssuedIsReconciled
  OBVIOUS
<1>1. TransferInv => IssuedIsReconciled
  BY ReconciledAtIssue DEF TransferInv
<1> QED BY <1>1, TransferInvariance, PTL

=============================================================================
