-------------------------- MODULE VaultMoveProofs --------------------------
(***************************************************************************)
(* One request at a time, VaultTransfer implements MoveWithoutLoss; and a  *)
(* crash or the end of a session leaves what the next unlock completes.    *)
(* A lemma named <action>Forward says that the action keeps MoveInv,       *)
(* <action>Moves that it is a step of MoveWithoutLoss or shows as nothing, *)
(* and <action>Promises that it keeps PromiseInv.                          *)
(***************************************************************************)
EXTENDS VaultTransferProofs

-----------------------------------------------------------------------------
(* MoveInv is kept.                                                        *)

\* A thread at another step relies on nothing here,
Watched == {"open", "stage", "write", "finalize", "validate", "close"} \cup Validated
LEMMA UnwatchedForward ==
  ASSUME OneAtATime, NEW r \in Requests, request'[r].step \notin Watched
  PROVE  MoveInv'
<1>1. \A s \in Requests : s = r
  BY DEF OneAtATime
<1>2. Forward(request[r])'
  BY DEF Forward, Watched, Validated
<1> QED BY <1>1, <1>2 DEF MoveInv

\* The step that a thread goes to.
LEMMA NewStep ==
  ASSUME TypeInv, NEW r \in Requests, NEW s, NEW x, NEW y,
         \/ Become(r, [request[r] EXCEPT !.step = s, !.todo = x])
         \/ Become(r, [request[r] EXCEPT !.step = s, !.phase = x])
         \/ Become(r, [request[r] EXCEPT !.step = s, !.file = x])
         \/ Become(r, [request[r] EXCEPT !.step = s, !.rows = x])
         \/ Become(r, [request[r] EXCEPT !.step = s, !.left = x, !.file = y])
  PROVE  request'[r].step = s
<1>1. request[r] \in Request
  BY TypesOf
<1>2. /\ [request[r] EXCEPT !.step = s, !.todo = x].step = s
      /\ [request[r] EXCEPT !.step = s, !.phase = x].step = s
      /\ [request[r] EXCEPT !.step = s, !.file = x].step = s
      /\ [request[r] EXCEPT !.step = s, !.rows = x].step = s
      /\ [request[r] EXCEPT !.step = s, !.left = x, !.file = y].step = s
  BY <1>1 DEF Request
<1> QED BY <1>2, Became

LEMMA ReconcilesUnwatched ==
  ASSUME TypeInv, NEW r \in Requests, Reconciles(r) \/ BeginUnlock(r) \/ Stumble(r)
  PROVE  request'[r].step \notin Watched
<1>1. request[r] \in Request /\ request \in [Requests -> Request]
  BY TypesOf
<1>2. CASE List(r) \/ Sweep(r) \/ Sweeping(r)
  <2>1. request'[r].step \in {"next", "sweeping", "list"}
    BY <1>2, NewStep DEF List, Sweep, Sweeping
  <2> QED BY <2>1 DEF Watched, Validated
<1>3. CASE TakeNext(r)
  <2> DEFINE next(x) == IF transfer[x[1]].marker \/ transfer[x[1]].kind = "ingest"
                        THEN "complete" ELSE "undo"
             q(x) == [request[r] EXCEPT !.todo = @ \ {x}, !.t = x[1], !.state = x[2],
                                        !.left = transfer[x[1]].ids, !.step = next(x)]
  <2>1. PICK x \in request[r].todo : Become(r, q(x))
    BY <1>3 DEF TakeNext
  <2>2. next(x) \in {"complete", "undo"}
    OBVIOUS
  <2> HIDE DEF next
  <2>3. q(x).step = next(x)
    BY <1>1 DEF Request
  <2>4. request'[r] = q(x)
    BY <2>1, Became
  <2> QED BY <2>2, <2>3, <2>4 DEF Watched, Validated
<1>4. CASE BeginUnlock(r)
  <2> DEFINE q == [Idle EXCEPT !.step = "list", !.kind = "unlock", !.live = TRUE, !.phase = "open"]
  <2>1. q.step = "list"
    BY DEF Idle
  <2>2. request'[r] = q
    BY <1>4, Became DEF BeginUnlock
  <2> QED BY <2>1, <2>2 DEF Watched, Validated
<1>5. CASE NextList(r)
  BY <1>5, NewStep DEF NextList, Watched, Validated
<1>6. CASE Issue(r)
  BY <1>1, <1>6 DEF Issue, Revoked, Idle, Watched, Validated
<1>7. CASE UndoImport(r) \/ Forget(r)
  BY <1>7, GoFields, EndFields DEF UndoImport, Forget, Return, Watched, Validated
<1>8. CASE Unlink(r)
  BY <1>8, NewStep DEF Unlink, Watched, Validated
<1>9. CASE RollbackLook(r)
  <2>1. \/ Go(r, "forget") \/ End(r)
        \/ \E a \in Assets : \/ Tick(r, a) /\ request[r].step = "undo"
                            \/ Become(r, [request[r] EXCEPT !.step = "unlink", !.file = a])
    BY <1>1, <1>9 DEF RollbackLook, At, Request
  <2>2. request'[r].step \in {"forget", "idle", "undo", "unlink"}
    BY <2>1, GoFields, EndFields, TickFields, NewStep
  <2> QED BY <2>2 DEF Watched, Validated
<1>10. CASE Stumble(r)
  BY <1>10, EndFields, NewStep DEF Stumble, Watched, Validated
<1> QED BY <1>2, <1>3, <1>4, <1>5, <1>6, <1>7, <1>8, <1>9, <1>10 DEF Reconciles

\* Up to the commit: what was prepared has rows.
LEMMA StagesForward ==
  ASSUME OneAtATime, TypeInv, MoveInv, NEW r \in Requests, Stages(r)
  PROVE  MoveInv'
<1> DEFINE Moves(q) == q.kind # "ingest" => \A a \in q.ids : q.rows[a].lifecycle # "purging"
<1>1. request[r] \in Request /\ Forward(request[r])
  BY TypesOf DEF MoveInv
<1>2. ASSUME request'[r].step \in {"open", "stage", "write"}, Moves(request[r])' PROVE MoveInv'
  <2>1. Forward(request[r])'
    BY <1>2 DEF Forward, Validated
  <2> QED BY <2>1 DEF OneAtATime, MoveInv
<1>3. CASE Prepare(r)
  <2> DEFINE d == From[request[r].kind]
             q == [request[r] EXCEPT !.step = "open",
                     !.rows = [a \in Assets |-> IF a \in request[r].ids THEN row[d][a] ELSE NoRow]]
  <2>1. CASE End(r)
    BY <2>1, EndFields, UnwatchedForward DEF Watched, Validated
  <2>2. CASE Become(r, q) /\ Prepared(r)
    <3>1. q.step = "open" /\ q.ids = request[r].ids
          /\ \A a \in Assets : a \in q.ids => q.rows[a] = row[d][a]
      BY <1>1 DEF Request
    <3>2. request'[r] = q
      BY <2>2, Became
    <3>3. \A a \in request[r].ids : a \in Assets /\ row[d][a].lifecycle # "purging"
      BY <1>1, <2>2 DEF Prepared, Gets, Request
    <3> QED BY <1>2, <3>1, <3>2, <3>3
  <2> QED BY <1>3, <2>1, <2>2 DEF Prepare
<1>4. CASE Open(r)
  <2>1. CASE End(r)
    BY <2>1, EndFields, UnwatchedForward DEF Watched, Validated
  <2>2. CASE ~End(r)
    <3> DEFINE q == [request[r] EXCEPT !.step = "stage", !.own = created', !.t = created',
                                       !.state = "preparing", !.left = request[r].ids]
    <3>1. request'[r] = q /\ request[r].step = "open"
      BY <1>4, <2>2, Became DEF Open, At
    <3>2. q.step = "stage" /\ q.ids = request[r].ids /\ q.kind = request[r].kind /\ q.rows = request[r].rows
      BY <1>1 DEF Request
    <3>3. Moves(request[r])
      BY <1>1, <3>1 DEF Forward
    <3> QED BY <1>2, <3>1, <3>2, <3>3
  <2> QED BY <2>1, <2>2
<1>5. CASE StageBlob(r)
  <2>1. /\ request[r].step = "stage"
        /\ Go(r, "abort") \/ End(r) \/ \E a : Tick(r, a)
    BY <1>5 DEF StageBlob, At
  <2>2. CASE Go(r, "abort") \/ End(r)
    BY <2>2, GoFields, EndFields, UnwatchedForward DEF Watched, Validated
  <2>3. CASE \E a : Tick(r, a)
    BY <1>1, <1>2, <2>1, <2>3, TickFields DEF Alike, Forward
  <2> QED BY <2>1, <2>2, <2>3
<1>6. CASE CreatePlain(r) \/ WritePlain(r)
  <2>1. \/ Go(r, "abort") \/ Become(r, [request[r] EXCEPT !.step = "abort", !.file = NoAsset])
        \/ \E a : \/ Become(r, [request[r] EXCEPT !.step = "write", !.file = a])
                 \/ Become(r, [request[r] EXCEPT !.step = "stage", !.left = @ \ {a}, !.file = NoAsset])
    BY <1>6 DEF CreatePlain, WritePlain
  <2>2. CASE Go(r, "abort") \/ Become(r, [request[r] EXCEPT !.step = "abort", !.file = NoAsset])
    <3>1. request'[r].step = "abort"
      BY <2>2, GoFields, NewStep
    <3> QED BY <3>1, UnwatchedForward DEF Watched, Validated
  <2>3. ASSUME NEW a, NEW q,
               \/ q = [request[r] EXCEPT !.step = "write", !.file = a]
               \/ q = [request[r] EXCEPT !.step = "stage", !.left = @ \ {a}, !.file = NoAsset],
               Become(r, q)
        PROVE  MoveInv'
    <3>1. /\ q.step \in {"stage", "write"} /\ q.ids = request[r].ids /\ q.kind = request[r].kind
          /\ q.rows = request[r].rows
      BY <1>1, <2>3 DEF Request
    <3>2. request[r].step \in {"stage", "write"}
      BY <1>6 DEF CreatePlain, WritePlain, At
    <3> QED BY <1>1, <1>2, <2>3, <3>1, <3>2, Became DEF Forward
  <2> QED BY <2>1, <2>2, <2>3
<1>7. CASE Commit(r) \/ Abort(r)
  <2>1. \/ Go(r, "abort") \/ End(r)
        \/ \E s \in {"complete", "forget"} : Become(r, [request[r] EXCEPT !.step = s, !.rows = Idle.rows])
    BY <1>7 DEF Commit, Abort
  <2>2. request'[r].step \in {"abort", "idle", "complete", "forget"}
    BY <2>1, GoFields, EndFields, NewStep
  <2> QED BY <2>2, UnwatchedForward DEF Watched, Validated
<1> QED BY <1>3, <1>4, <1>5, <1>6, <1>7 DEF Stages

\* A change of one journal's state, or of one marker, and no other.
LEMMA StateSet ==
  ASSUME TypeInv, NEW u \in Transfers, NEW s, SetState(u, s)
  PROVE  \A t \in Transfers :
           /\ transfer'[t].kind = transfer[t].kind /\ transfer'[t].ids = transfer[t].ids
           /\ transfer'[t].marker = transfer[t].marker
           /\ transfer'[t].state = IF t = u THEN s ELSE transfer[t].state
BY TypesOf DEF SetState, Transfer

\* After the commit: the marker stays, and the state says how far it came.
LEMMA CompletesForward ==
  ASSUME OneAtATime, TypeInv, CopyInv, ReconInv, MoveInv, NEW r \in Requests, Completes(r)
  PROVE  MoveInv'
<1> DEFINE Marked == transfer[Now(r)].kind # "ingest" => transfer[Now(r)].marker
<1>1. /\ request[r] \in Request /\ Now(r) \in Transfers /\ Forward(request[r]) /\ Progress(request[r])
      /\ request[r].step \in Completing \cup {"clear"}
  <2>1. request[r].step \in Completing \cup {"clear"}
    BY DEF Completes, Complete, Finalize, Validate, Ready, Lease, DeleteFile, FilesDeleted, Drop,
           Dropped, Unmark, Close, Clear, At, Completing, Deleting
  <2> QED BY <2>1, AtCompletion DEF MoveInv, ReconInv, Orderly
<1>2. ASSUME \/ Alike(request'[r], request[r]) /\ Forward(request[r])'
             \/ request'[r].step \notin Watched
      PROVE  MoveInv'
  BY <1>2, UnwatchedForward DEF OneAtATime, MoveInv, Forward
<1>3. CASE End(r)
  BY <1>2, <1>3, EndFields DEF Watched, Validated
<1>4. CASE Complete(r) \/ Finalize(r) \/ Validate(r)
  <2>1. transfer' = transfer
    BY <1>4 DEF Complete, Finalize, Validate, tables
  <2>2. CASE Complete(r) /\ ~End(r)
    <3>1. Marked /\ (Each(r, "validate") \/ Each(r, "finalize"))
      BY <2>2 DEF Complete, Kind
    <3> QED BY <1>2, <2>1, <3>1, EachFields DEF Forward, Alike, Validated, Now
  <2>3. CASE Finalize(r) \/ Validate(r)
    <3>1. CASE Finalize(r) /\ ~End(r)
      <4>1. request[r].step = "finalize" /\ (Go(r, "validate") \/ \E a : Tick(r, a))
        BY <3>1 DEF Finalize, At
      <4>2. /\ Alike(request'[r], request[r]) /\ request'[r].step \in {"validate", "finalize"}
        BY <4>1, GoFields, TickFields
      <4> QED BY <1>1, <1>2, <2>1, <4>1, <4>2 DEF Forward, Alike, Validated
    <3>2. CASE Validate(r) /\ ~End(r)
      <4>1. request[r].step = "validate" /\ (Go(r, "unmark") \/ Go(r, "ready"))
        BY <3>2 DEF Validate, At
      <4>2. Alike(request'[r], request[r]) /\ request'[r].step \in {"unmark", "ready"}
        BY <4>1, GoFields
      <4> QED BY <1>1, <1>2, <2>1, <4>1, <4>2 DEF Forward, Alike, Validated
    <3> QED BY <1>3, <2>3, <3>1, <3>2
  <2> QED BY <1>3, <1>4, <2>2, <2>3
<1>5. CASE Lease(r) \/ DeleteFile(r) \/ Drop(r)
  <2>1. /\ transfer' = transfer
        /\ \/ End(r)
           \/ request[r].step = "lease" /\ Each(r, "delete")
           \/ request[r].step = "delete" /\ \E a : Tick(r, a)
           \/ request[r].step = "drop" /\ Go(r, "dropped")
    BY <1>5 DEF Lease, DeleteFile, Drop, tables, At
  <2>2. CASE ~End(r)
    <3>1. /\ Alike(request'[r], request[r]) /\ request[r].step \in {"lease", "delete", "drop"}
          /\ request'[r].step \in {"delete", "dropped"}
      BY <2>1, <2>2, EachFields, GoFields, TickFields
    <3> QED BY <1>1, <1>2, <2>1, <3>1 DEF Forward, Alike, Validated
  <2> QED BY <1>3, <2>2
<1>6. ASSUME NEW s, NEW step, Record(r, s, step),
             request[r].step \in Deleting, step \in {"lease", "drop"} => s # "source_database_deleted",
             step \in {"lease", "drop", "unmark"}
      PROVE  MoveInv'
  <2>1. CASE ~End(r)
    <3>1. Go(r, step) /\ SetState(Now(r), s)
      BY <1>6, <2>1 DEF Record
    <3>2. /\ Alike(request'[r], request[r]) /\ request'[r].step = step
          /\ transfer'[Now(r)].kind = transfer[Now(r)].kind
          /\ transfer'[Now(r)].marker = transfer[Now(r)].marker
          /\ transfer'[Now(r)].state = s
      BY <1>1, <3>1, GoFields, StateSet
    <3>3. Marked
      BY <1>1, <1>6 DEF Forward, Deleting, Validated, Now
    <3> QED BY <1>2, <1>6, <3>2, <3>3 DEF Forward, Alike, Validated, Now
  <2> QED BY <1>3, <2>1
<1>7. CASE Ready(r)
  <2>1. request[r].step = "ready" /\ transfer[Now(r)].kind # "ingest" => transfer[Now(r)].state = request[r].state
    BY <1>1 DEF Progress, Now
  <2>2. request[r].step = "ready" /\ Onward(r) \in {"lease", "drop", "unmark"}
    BY <1>7 DEF Ready, At, Onward
  <2>3. Kind(r) # "ingest"
    BY <2>2, KindInHand DEF Handling, Completing, Deleting
  <2>4. CASE Before(r, "destination_ready")
    <3>1. Record(r, "destination_ready", Onward(r))
      BY <1>7, <2>4 DEF Ready
    <3>2. request[r].step \in Deleting
      BY <2>2 DEF Deleting
    <3> HIDE DEF Onward, Record, Deleting
    <3> QED BY <1>6, <2>2, <3>1, <3>2
  <2>5. CASE ~Before(r, "destination_ready")
    <3>1. Go(r, Onward(r)) /\ transfer' = transfer
      BY <1>7, <2>5 DEF Ready
    <3>2. Onward(r) \in {"lease", "drop"} => transfer[Now(r)].state # "source_database_deleted"
      BY <2>1, <2>2, <2>3 DEF Onward, Before, Rank, Kind
    <3>3. Alike(request'[r], request[r]) /\ request'[r].step = Onward(r)
      BY <3>1, GoFields
    <3> HIDE DEF Onward
    <3> QED BY <1>1, <1>2, <2>2, <3>1, <3>2, <3>3 DEF Forward, Alike, Validated, Now
  <2> QED BY <2>4, <2>5
<1>8. CASE FilesDeleted(r) \/ Dropped(r)
  BY <1>6, <1>8 DEF FilesDeleted, Dropped, At, Deleting
<1>9. CASE Unmark(r)
  <2>1. request[r].step = "unmark" /\ Go(r, IF Kind(r) = "ingest" THEN "clear" ELSE "close")
    BY <1>9 DEF Unmark, At
  <2>2. /\ transfer'[Now(r)].kind = transfer[Now(r)].kind
        /\ transfer'[Now(r)].state = transfer[Now(r)].state
    BY <1>1, <1>9, TypesOf DEF Unmark, Transfer
  <2>3. Kind(r) # "ingest" => transfer[Now(r)].state = "source_database_deleted"
    BY <1>1, <2>1 DEF Progress, Now, Kind
  <2>4. /\ Alike(request'[r], request[r])
        /\ request'[r].step = IF Kind(r) = "ingest" THEN "clear" ELSE "close"
    BY <2>1, GoFields
  <2>5. CASE Kind(r) = "ingest"
    BY <1>2, <2>4, <2>5 DEF Watched, Validated
  <2>6. CASE Kind(r) # "ingest"
    BY <1>2, <2>2, <2>3, <2>4, <2>6 DEF Forward, Alike, Validated, Now
  <2> QED BY <2>5, <2>6
<1>10. CASE Close(r) \/ Clear(r)
  <2>1. End(r) \/ Go(r, "next") \/ Go(r, "clear")
    BY <1>10 DEF Close, Clear, Return
  <2> QED BY <1>2, <1>3, <2>1, GoFields DEF Watched, Validated
<1> QED BY <1>4, <1>5, <1>7, <1>8, <1>9, <1>10 DEF Completes

\* A thread begins, and what is left of a step.
LEMMA BeginsForward ==
  ASSUME OneAtATime, TypeInv, MoveInv, NEW r \in Requests, Begins(r)
  PROVE  MoveInv'
<1>1. CASE \E ids \in SUBSET Assets \ {{}} : BeginImport(r, ids) \/ BeginExport(r, ids)
  <2>1. PICK ids, k, step : BeginMove(r, k, ids, step) /\ step \in {"list", "prepare"}
    BY <1>1 DEF BeginImport, BeginExport
  <2> DEFINE q == [Idle EXCEPT !.step = step, !.kind = k, !.live = TRUE, !.ids = ids,
                            !.phase = IF step = "list" THEN "import" ELSE "none"]
  <2>2. q.step = step
    BY DEF Idle
  <2>3. request'[r] = q
    BY <2>1, Became DEF BeginMove
  <2> HIDE DEF q
  <2> QED BY <2>1, <2>2, <2>3, UnwatchedForward DEF Watched, Validated
<1>2. CASE \E a \in Assets : BeginIngest(r, a)
  <2>1. PICK a \in Assets : BeginIngest(r, a)
    BY <1>2
  <2> DEFINE q(n) == [Idle EXCEPT !.step = "stage", !.kind = "ingest", !.live = TRUE, !.ids = {a},
                            !.own = n, !.t = n, !.left = {a}]
  <2>2. \A n : q(n).step = "stage" /\ q(n).kind = "ingest"
    BY DEF Idle
  <2>3. Become(r, q(created'))
    BY <2>1 DEF BeginIngest
  <2>4. request'[r] = q(created')
    BY <2>3, Became
  <2> HIDE DEF q
  <2> QED BY <2>2, <2>4 DEF Forward, OneAtATime, MoveInv, Validated
<1> QED BY <1>1, <1>2 DEF Begins

\* A step that leaves the transfers, the threads' steps and what they prepared.
LEMMA SameForward ==
  ASSUME MoveInv, transfer' = transfer,
         \A r \in Requests : \/ Alike(request'[r], request[r]) /\ request'[r].step = request[r].step
                                /\ request'[r].rows = request[r].rows
                             \/ request'[r].step = "idle"
  PROVE  MoveInv'
<1> SUFFICES ASSUME NEW r \in Requests PROVE Forward(request[r])'
  BY DEF MoveInv
<1>1. Forward(request[r])
  BY DEF MoveInv
<1> QED BY <1>1 DEF Forward, Alike, Validated

LEMMA InitForward == Init => MoveInv
BY IdleFields DEF Init, MoveInv, Forward, Validated

LEMMA NextForward ==
  ASSUME OneAtATime, TypeInv, CopyInv, ReconInv, MoveInv, [Next]_vars
  PROVE  MoveInv'
<1>1. ASSUME NEW r \in Requests, BeginUnlock(r) \/ Reconciles(r) \/ Stumble(r) PROVE MoveInv'
  BY <1>1, ReconcilesUnwatched, UnwatchedForward
<1>2. ASSUME NEW r \in Requests, Begins(r) \/ Stages(r) \/ Completes(r) PROVE MoveInv'
  BY <1>2, BeginsForward, StagesForward, CompletesForward
<1>3. CASE Lock
  <2>1. transfer' = transfer /\ request' = Revoked(request)
    BY <1>3 DEF Lock, tables
  <2>2. \A r \in Requests : /\ Alike(request'[r], request[r]) /\ request'[r].step = request[r].step
                             /\ request'[r].rows = request[r].rows
    BY <2>1, TypesOf DEF Revoked, Alike, Request
  <2> QED BY <2>1, <2>2, SameForward
<1>4. CASE Crash
  <2>1. \A r \in Requests : request'[r].step = "idle"
    BY <1>4, IdleFields DEF Crash
  <2> QED BY <1>4, <2>1, SameForward DEF Crash, tables
<1>5. CASE Library \/ Purges \/ VaultTrash \/ Restores \/ UNCHANGED vars
  <2>1. UNCHANGED <<transfer, request>>
    BY <1>5, LibraryWrites, RelabelsRows DEF vars, Relabels
  <2> QED BY <2>1, SameForward DEF Alike
<1> QED BY <1>1, <1>2, <1>3, <1>4, <1>5 DEF Next, Proceed, Faults

-----------------------------------------------------------------------------
(* What a step shows of the rows, the bytes and the moves.                 *)

MoveStep == [Promise!Next]_(Promise!vars)

LEMMA Mapped ==
  /\ Located = [d \in Databases |-> [a \in Assets |-> Place(d, a)]]
  /\ \A d \in Databases, a \in Assets : /\ Located[d][a] = Place(d, a)
                                        /\ <<d, a>> \in Stored <=> Whole(d, a)
  /\ Stored \subseteq Databases \X Assets
  /\ \A t \in Transfers : Underway[t] = MoveOf(t)
  /\ Underway = [t \in Transfers |-> MoveOf(t)]
BY DEF Located, Stored, Underway

\* ... and after it.
LEMMA MappedThen ==
  /\ Located' = [d \in Databases |-> [a \in Assets |-> Place(d, a)']]
  /\ \A d \in Databases, a \in Assets : /\ Located'[d][a] = Place(d, a)'
                                        /\ <<d, a>> \in Stored' <=> Whole(d, a)'
  /\ Stored' \subseteq Databases \X Assets
  /\ \A t \in Transfers : Underway'[t] = MoveOf(t)'
  /\ Underway' = [t \in Transfers |-> MoveOf(t)']
BY DEF Located, Stored, Underway

LEMMA PlaceOf ==
  ASSUME NEW d, NEW a
  PROVE  /\ Place(d, a) = "absent" <=> ~Exists(d, a)
         /\ Place(d, a) = "present" <=> Gets(d, a)
         /\ Place(d, a) = "condemned" <=> row[d][a].lifecycle = "purging"
         /\ Place(d, a) \in {"absent", "present", "condemned"}
BY DEF Place, Exists, Gets

\* Where rows and files are the same, so are the items.
LEMMA SameRows == ASSUME row' = row PROVE Located' = Located
BY DEF Located, Place

LEMMA SameStored ==
  ASSUME plain' = plain, \A a \in Assets : Copied(a)' = Copied(a)
  PROVE  Stored' = Stored
BY DEF Stored, Whole

\* The one thread decides the phase of the transfer in its hand, and only there.
LEMMA Looks ==
  ASSUME OneAtATime, NEW r \in Requests, NEW t, NEW steps
  PROVE  /\ IsAt(t, steps) <=> Now(r) = t /\ request[r].step \in steps
         /\ IsAt(t, steps)' <=> request'[r].t = t /\ request'[r].step \in steps
BY DEF OneAtATime, IsAt, Now

\* A transfer's phase, where neither it nor who looks at it changes.
LEMMA SamePhase ==
  ASSUME NEW t, transfer'[t] = transfer[t],
         transfer[t].marker => /\ IsAt(t, Validated)' <=> IsAt(t, Validated)
                               /\ IsAt(t, {"dropped"})' <=> IsAt(t, {"dropped"})
  PROVE  MoveOf(t)' = MoveOf(t)
BY DEF MoveOf, PhaseOf

LEMMA Unseen ==
  ASSUME OneAtATime, NEW r \in Requests, request[r].step \notin Validated,
         request'[r].step \notin Validated, NEW t, transfer'[t] = transfer[t]
  PROVE  MoveOf(t)' = MoveOf(t)
<1>1. \A steps \in SUBSET Validated : ~IsAt(t, steps) /\ ~IsAt(t, steps)'
  BY Looks
<1>2. {"dropped"} \subseteq Validated
  BY DEF Validated
<1> HIDE DEF Validated
<1> QED BY <1>1, <1>2, SamePhase

LEMMA OthersStay ==
  ASSUME OneAtATime, NEW r \in Requests, NEW t, t # Now(r), transfer'[t] = transfer[t],
         request'[r].t = Now(r) \/ request'[r].step \notin Validated
  PROVE  MoveOf(t)' = MoveOf(t)
<1>1. \A steps \in SUBSET Validated : ~IsAt(t, steps) /\ ~IsAt(t, steps)'
  BY Looks
<1>2. {"dropped"} \subseteq Validated
  BY DEF Validated
<1> HIDE DEF Validated
<1> QED BY <1>1, <1>2, SamePhase

\* A move that relies on what it saw is in a thread's hand.
LEMMA CheckedIsSeen ==
  ASSUME NEW t \in Transfers, Promise!Phase(t, "checked")
  PROVE  /\ IsAt(t, Validated) /\ transfer[t].marker
         /\ Underway[t].to = To[transfer[t].kind] /\ Underway[t].items = transfer[t].ids
         /\ transfer[t].kind \in {"import", "export"}
<1>1. MoveOf(t).phase = "checked"
  BY Mapped DEF Promise!Phase
<1>2. transfer[t].kind \in {"import", "export"} /\ PhaseOf(t) = "checked"
  BY <1>1 DEF MoveOf
<1>3. transfer[t].marker /\ IsAt(t, Validated)
  BY <1>2 DEF PhaseOf
<1>4. MoveOf(t).to = To[transfer[t].kind] /\ MoveOf(t).items = transfer[t].ids
  BY <1>2 DEF MoveOf
<1> QED BY <1>2, <1>3, <1>4, Mapped

\* Files come and go: HasBytes says of the files what Spared says of the bytes.
LEMMA Rewrites ==
  ASSUME HasBytes', row' = row, Underway' = Underway,
         \A t \in Transfers : IsAt(t, Validated) /\ transfer[t].kind \in {"import", "export"} =>
           \A d \in {To[transfer[t].kind]}, a \in transfer[t].ids : Whole(d, a) => Whole(d, a)'
  PROVE  MoveStep
<1>1. Located' = Located
  BY SameRows
<1>2. ASSUME NEW d \in Databases, NEW a \in Assets, <<d, a>> \in Stored \ Stored'
      PROVE  Promise!Spare(d, a)
  <2>1. Whole(d, a) /\ ~Whole(d, a)'
    BY <1>2, Mapped, MappedThen
  <2>2. ~Promise!ReliedOn(d, a)
    BY <2>1, CheckedIsSeen DEF Promise!ReliedOn
  <2>3. d = "vault" => ~Gets("vault", a)
    BY <2>1 DEF Whole, HasBytes, VaultRowsHaveBytes, Gets
  <2>4. d = "main" => Gets("vault", a) \/ ~Exists("main", a)
    BY <2>1 DEF Whole, HasBytes, MainRowsHaveBytes, Gets, Exists
  <2>5. Promise!Present("vault", a) <=> Gets("vault", a)
    BY Mapped, PlaceOf DEF Promise!Present, Databases
  <2>6. Located["main"][a] # "absent" <=> Exists("main", a)
    BY Mapped, PlaceOf DEF Databases
  <2> QED BY <2>2, <2>3, <2>4, <2>5, <2>6 DEF Promise!Spare, Databases
<1>3. Stored' \in SUBSET (Databases \X Assets)
  BY MappedThen
<1>4. Promise!Sides = Databases
  BY DEF Promise!Sides, Databases
<1>5. Promise!Rewrite
  BY <1>1, <1>2, <1>3, <1>4 DEF Promise!Rewrite, Promise!Spared
<1> QED BY <1>5 DEF MoveStep, Promise!Next

LEMMA SameMoves ==
  ASSUME \A t \in Transfers : MoveOf(t)' = MoveOf(t)
  PROVE  Underway' = Underway
BY Mapped, MappedThen

LEMMA Stutters ==
  ASSUME row' = row, Stored' = Stored, \A t \in Transfers : MoveOf(t)' = MoveOf(t)
  PROVE  MoveStep
BY SameRows, SameMoves DEF MoveStep, Promise!vars

\* Before the thread has looked and after it has moved away only files change.
LEMMA QuietMoves ==
  ASSUME OneAtATime, HasBytes', NEW r \in Requests, UNCHANGED <<row, transfer>>,
         request[r].step \notin Validated, request'[r].step \notin Validated
  PROVE  MoveStep
<1>1. Underway' = Underway
  BY Unseen, SameMoves
<1>2. \A t \in Transfers : ~IsAt(t, Validated)
  BY Looks
<1> QED BY <1>1, <1>2, Rewrites

\* The phase of a move goes on, that of no other.
LEMMA Enters ==
  ASSUME NEW u \in Transfers, NEW p, transfer[u].kind \in {"import", "export"},
         transfer'[u].kind = transfer[u].kind, transfer'[u].ids = transfer[u].ids, PhaseOf(u)' = p,
         \A t \in Transfers \ {u} : MoveOf(t)' = MoveOf(t)
  PROVE  Promise!Enter(u, p)
<1>1. MoveOf(u)' = [MoveOf(u) EXCEPT !.phase = p]
  BY DEF MoveOf
<1>2. Underway' = [Underway EXCEPT ![u] = [Underway[u] EXCEPT !.phase = p]]
  BY <1>1, Mapped, MappedThen
<1> QED BY <1>2 DEF Promise!Enter

LEMMA ValidatedInHand ==
  ASSUME TypeInv, NEW r \in Requests, request[r].step \in Validated
  PROVE  /\ Now(r) \in Transfers /\ Kind(r) \in Kinds /\ request[r].step \in Handling
         /\ request[r].step # "unmark" => Kind(r) \in {"import", "export"}
<1>1. request[r].step \in Handling /\ (request[r].step # "unmark" => request[r].step \in Deleting)
  BY DEF Validated, Handling, Completing, Deleting
<1> QED BY <1>1, InHand, KindInHand

\* Away from where it looked, by whatever way, a thread has to look again.
LEMMA Doubts ==
  ASSUME OneAtATime, TypeInv, NEW r \in Requests,
         UNCHANGED <<row, blobRow, transfer, plain, blobs, staged>>, request'[r].step \notin Validated
  PROVE  MoveStep
<1>1. Stored' = Stored
  BY SameStored DEF Copied
<1>2. CASE request[r].step \notin Validated
  BY <1>1, <1>2, Unseen, Stutters
<1>3. CASE request[r].step \in Validated
  <2> PICK T \in Transfers : T = Now(r)
    BY <1>3, ValidatedInHand
  <2>1. \A t \in Transfers \ {T} : MoveOf(t)' = MoveOf(t)
    BY OthersStay
  <2>2. /\ IsAt(T, Validated) /\ ~IsAt(T, Validated)' /\ ~IsAt(T, {"dropped"})'
        /\ transfer'[T] = transfer[T]
    BY <1>3, Looks DEF Validated
  <2>3. CASE \/ transfer[T].kind \notin {"import", "export"} \/ ~transfer[T].marker
             \/ transfer[T].state = "source_database_deleted"
    <3>1. MoveOf(T)' = MoveOf(T)
      BY <2>2, <2>3 DEF MoveOf, PhaseOf
    <3> QED BY <1>1, <2>1, <3>1, Stutters
  <2>4. CASE /\ transfer[T].kind \in {"import", "export"} /\ transfer[T].marker
             /\ transfer[T].state # "source_database_deleted"
    <3>1. PhaseOf(T) \in {"checked", "removed"} /\ PhaseOf(T)' = "arrived"
      BY <2>2, <2>4 DEF PhaseOf
    <3>2. Promise!Phase(T, "checked") \/ Promise!Phase(T, "removed")
      BY <2>1, <2>4, <3>1, Mapped DEF Promise!Phase, MoveOf
    <3>3. Promise!Enter(T, "arrived")
      BY <2>1, <2>2, <2>4, <3>1, Enters
    <3>4. Promise!Doubt(T)
      BY <1>1, <3>2, <3>3, SameRows DEF Promise!Doubt
    <3> QED BY <2>1, <3>4 DEF MoveStep, Promise!Next
  <2> QED BY <2>3, <2>4
<1> QED BY <1>2, <1>3

\* An action of the promise is a step of it.
LEMMA MoveSteps ==
  ASSUME \/ Promise!Rewrite
         \/ \E m \in Transfers : \/ \E s \in Databases, I \in SUBSET Assets : Promise!Begin(m, s, I)
                                 \/ Promise!Cancel(m) \/ Promise!Arrive(m) \/ Promise!Check(m)
                                 \/ Promise!Release(m) \/ Promise!Remove(m) \/ Promise!Finish(m)
                                 \/ Promise!Close(m)
         \/ \E s \in Databases, I \in SUBSET Assets : Promise!Upload(s, I)
         \/ \E i \in Assets : Promise!Condemn(i) \/ Promise!Reprieve(i) \/ Promise!Erase(i)
  PROVE  MoveStep
<1>1. Promise!Sides = Databases
  BY DEF Promise!Sides, Databases
<1> QED BY <1>1 DEF MoveStep, Promise!Next

\* Forget: a copy is given up, or a move that is over forgets itself.
LEMMA ForgetMoves ==
  ASSUME OneAtATime, TypeInv, CopyInv, NEW r \in Requests, Forget(r)
  PROVE  MoveStep
<1>1. request[r].step = "forget" /\ request[r].step \in Handling \cap Undoing
  BY DEF Forget, At, Handling, Undoing
<1>2. Stands(request[r], transfer) /\ Holds(request[r])
  BY DEF CopyInv, Fine
<1> PICK T \in Transfers : T = Now(r)
  BY <1>1, InHand
<1>3. transfer[T].kind \in {"import", "export"} /\ ~transfer[T].marker /\ transfer[T].state # "none"
  <2>1. Alive(transfer, Now(r))
    <3> HIDE DEF Alive, Handling
    <3> QED BY <1>1, <1>2 DEF Stands, Now
  <2> QED BY <1>1, <1>2, <2>1, KindInHand DEF Holds, Kind, Now, Alive
<1>4. \A t \in Transfers :
        /\ transfer'[t].kind = transfer[t].kind /\ transfer'[t].ids = transfer[t].ids
        /\ transfer'[t].marker = transfer[t].marker
        /\ transfer'[t].state = IF t = T THEN "none" ELSE transfer[t].state
  BY StateSet DEF Forget
<1>5. UNCHANGED <<row, blobRow, plain, blobs, staged>> /\ transfer' = [transfer EXCEPT ![T].state = "none"]
  BY DEF Forget, files, SetState
<1>6. Stored' = Stored
  BY <1>4, <1>5, SameStored DEF Copied
<1>7. \A t \in Transfers \ {T} : MoveOf(t)' = MoveOf(t)
  <2>1. request[r].step \notin Validated /\ request'[r].step \notin Validated
    BY <1>1, GoFields, EndFields DEF Forget, Return, Validated
  <2> QED BY <1>5, <2>1, Unseen, TypesOf
<1>8. Promise!Enter(T, "over")
  <2>1. PhaseOf(T)' = "over"
    BY <1>3, <1>4 DEF PhaseOf
  <2> QED BY <1>3, <1>4, <1>7, <2>1, Enters
<1>9. Promise!Phase(T, "copying") \/ Promise!Phase(T, "closing")
  BY <1>3, Mapped DEF Promise!Phase, MoveOf, PhaseOf
<1>10. Promise!Cancel(T) \/ Promise!Close(T)
  BY <1>5, <1>6, <1>8, <1>9, SameRows DEF Promise!Cancel, Promise!Close
<1> QED BY <1>10, MoveSteps

LEMMA ReconcilesMove ==
  ASSUME OneAtATime, TypeInv, CopyInv, CopyInv', NEW r \in Requests, Reconciles(r) \/ BeginUnlock(r)
  PROVE  MoveStep
<1>1. ASSUME ~Forget(r) PROVE MoveStep
  <2>1. UNCHANGED <<row, transfer>> /\ request[r].step \notin Validated
    BY <1>1 DEF Reconciles, BeginUnlock, List, TakeNext, NextList, Sweep, Sweeping, Issue, UndoImport,
                RollbackLook, Unlink, tables, At, Validated
  <2>2. request'[r].step \notin Validated
    BY ReconcilesUnwatched DEF Watched
  <2> QED BY <2>1, <2>2, QuietMoves DEF CopyInv
<1> QED BY <1>1, ForgetMoves

\* No thread looks before the commit.
LEMMA StagesUnseen ==
  ASSUME TypeInv, NEW r \in Requests, Stages(r)
  PROVE  request[r].step \notin Validated /\ request'[r].step \notin Validated
<1>1. request[r] \in Request
  BY TypesOf
<1>2. request[r].step \in {"prepare", "open", "stage", "write", "abort"}
  BY DEF Stages, Prepare, Open, StageBlob, CreatePlain, WritePlain, Commit, Staged, Abort, At
<1>3. CASE Open(r) /\ ~End(r)
  <2> DEFINE q == [request[r] EXCEPT !.step = "stage", !.own = created', !.t = created',
                                     !.state = "preparing", !.left = request[r].ids]
  <2>1. q.step = "stage"
    BY <1>1 DEF Request
  <2>2. request'[r] = q
    BY <1>3, Became DEF Open
  <2> QED BY <1>2, <2>1, <2>2 DEF Validated
<1>4. CASE ~Open(r)
  <2>1. \/ End(r) \/ Go(r, "abort") \/ \E a : Tick(r, a)
        \/ \E s \in {"open", "complete", "forget"} : \E x : Become(r, [request[r] EXCEPT !.step = s, !.rows = x])
        \/ \E s \in {"abort", "write"} : \E x : Become(r, [request[r] EXCEPT !.step = s, !.file = x])
        \/ \E x, y : Become(r, [request[r] EXCEPT !.step = "stage", !.left = x, !.file = y])
    BY <1>4 DEF Stages, Prepare, StageBlob, CreatePlain, WritePlain, Commit, Abort
  <2>2. request'[r].step \in {"idle", "abort", request[r].step, "open", "complete", "forget", "write", "stage"}
    BY <2>1, EndFields, GoFields, TickFields, NewStep
  <2> QED BY <1>2, <2>2 DEF Validated
<1> QED BY <1>2, <1>3, <1>4, EndFields DEF Validated

\* A transfer is drawn: nothing had it, no blob was named by it.
LEMMA DrawShows ==
  ASSUME TypeInv, TypeInv', ReconInv, NEW u, created' = created + 1,
         transfer' = [transfer EXCEPT ![created'] = u], UNCHANGED <<plain, blobRow, blobs, staged>>
  PROVE  /\ created' \in Transfers /\ transfer[created'] = NoTransfer /\ transfer'[created'] = u
         /\ \A t \in Transfers \ {created'} : transfer'[t] = transfer[t]
         /\ Stored' = Stored
<1>1. /\ transfer \in [Transfers -> Transfer] /\ created \in 0 .. MaxTransfers
      /\ created' \in 0 .. MaxTransfers /\ MaxTransfers \in Nat
  BY TypesOf DEF TypeInv, TypeOK
<1>2. created' \in Transfers /\ ~(created' <= created)
  BY <1>1 DEF Transfers
<1>3. transfer[created'] = NoTransfer
  BY <1>2 DEF TypeInv, Begun
<1>4. transfer'[created'] = u /\ \A t \in Transfers \ {created'} : transfer'[t] = transfer[t]
  BY <1>1, <1>2
<1>5. \A a \in Assets : Copied(a)' = Copied(a)
  <2> SUFFICES ASSUME NEW a \in Assets PROVE Copied(a)' = Copied(a)
    OBVIOUS
  <2>1. blobRow[a] # created'
    BY <1>2 DEF ReconInv, Settled, BlobsHaveRows
  <2> QED BY <1>4, <2>1 DEF Copied
<1> QED BY <1>2, <1>3, <1>4, <1>5, SameStored

\* Open: a move begins.
LEMMA OpenMoves ==
  ASSUME OneAtATime, TypeInv, TypeInv', ReconInv, NEW r \in Requests, Open(r),
         Closed(From[request[r].kind], request[r].ids)
  PROVE  MoveStep
<1> DEFINE k == request[r].kind
           u == [kind |-> k, ids |-> request[r].ids, state |-> "preparing", marker |-> FALSE]
<1>1. /\ request[r] \in Request /\ k \in {"import", "export"} /\ request[r].ids \in SUBSET Assets
  BY TypesOf DEF Open, At, TypeInv, ThreadsAreSound, Sound, Request
<1>2. /\ created' = created + 1 /\ transfer' = [transfer EXCEPT ![created'] = u]
      /\ UNCHANGED <<row, plain, blobRow, blobs, staged>>
  BY DEF Open, files
<1> HIDE DEF u
<1>3. /\ created' \in Transfers /\ transfer[created'] = NoTransfer /\ transfer'[created'] = u
      /\ \A t \in Transfers \ {created'} : transfer'[t] = transfer[t]
      /\ Stored' = Stored
  BY <1>2, DrawShows
<1> PICK T \in Transfers : T = created'
  BY <1>3
<1>4. \A t \in Transfers \ {T} : MoveOf(t)' = MoveOf(t)
  BY <1>3, StagesUnseen, Unseen DEF Stages
<1>5. MoveOf(T) = [to |-> "main", items |-> {}, phase |-> "none"]
  BY <1>3 DEF MoveOf, NoTransfer
<1>6. MoveOf(T)' = [to |-> To[k], items |-> request[r].ids, phase |-> "copying"]
  <2>1. transfer'[T].kind = k /\ transfer'[T].ids = request[r].ids
        /\ transfer'[T].state = "preparing" /\ ~transfer'[T].marker
    BY <1>3 DEF u
  <2> QED BY <1>1, <2>1 DEF MoveOf, PhaseOf
<1>7. Promise!Begin(T, To[k], request[r].ids)
  <2>1. Promise!Phase(T, "none")
    BY <1>5, Mapped DEF Promise!Phase
  <2>2. Underway' = [Underway EXCEPT ![T] = [to |-> To[k], items |-> request[r].ids, phase |-> "copying"]]
    BY <1>4, <1>6, Mapped, MappedThen
  <2> QED BY <1>2, <1>3, <2>1, <2>2, SameRows DEF Promise!Begin
<1>8. To[k] \in Databases
  BY <1>1 DEF To, Databases
<1> QED BY <1>1, <1>7, <1>8, MoveSteps

\* Rows of one database change, all to the same place.
LEMMA Puts ==
  ASSUME NEW d \in Databases, NEW I \in SUBSET Assets, NEW p,
         \A e \in Databases \ {d} : row'[e] = row[e],
         \A a \in Assets \ I : Place(d, a)' = Place(d, a), \A a \in I : Place(d, a)' = p
  PROVE  Promise!Put(d, I, p)
<1>1. \A e \in Databases \ {d}, a \in Assets : Place(e, a)' = Place(e, a)
  BY DEF Place
<1>2. Located' = [Located EXCEPT ![d] = [i \in Assets |-> IF i \in I THEN p ELSE Located[d][i]]]
  BY <1>1, Mapped, MappedThen
<1> QED BY <1>2 DEF Promise!Put

\* What a commit shows: all items at once, with their bytes.
LEMMA CommitShows ==
  ASSUME OneAtATime, TypeInv, CopyInv, ReconInv, MoveInv, NEW r \in Requests, Commit(r),
         NEW order \in SetToSeqs(request[r].ids), CommitsInto(r, order),
         NEW k \in Kinds, k = request[r].kind, NEW I \in SUBSET Assets, I = request[r].ids,
         NEW T \in Transfers, T = Now(r)
  PROVE  /\ Promise!Put(To[k], I, "present") /\ \A a \in I : ~Exists(To[k], a)
         /\ transfer[T].kind = k /\ transfer[T].ids = I /\ ~transfer[T].marker
         /\ transfer'[T].kind = k /\ transfer'[T].ids = I /\ transfer'[T].marker
         /\ transfer'[T].state = transfer[T].state
         /\ \A t \in Transfers \ {T} : transfer'[t] = transfer[t]
         /\ Stored' = IF To[k] = "vault" THEN Stored \cup {To[k]} \X I ELSE Stored
         /\ request'[r].step = "complete"
<1>1. /\ request[r].step = "stage" /\ request[r].left = {} /\ UNCHANGED <<plain, blobs, staged>>
      /\ To[k] \in Databases /\ (To[k] = "vault" <=> k # "export")
  BY CommitCases DEF To, Kinds, Databases
<1>2. /\ transfer[T].kind = k /\ transfer[T].ids = I /\ Holds(request[r]) /\ Orderly(request[r])
      /\ Forward(request[r])
  BY <1>1, AtStage, OwnInHand DEF ReconInv, MoveInv, Kind, Moving, Staging
<1>3. /\ \A a \in I : ~Exists(To[k], a)
      /\ blobRow' = IF To[k] = "main" THEN blobRow
                    ELSE [a \in Assets |-> IF a \in I THEN T ELSE blobRow[a]]
      /\ transfer' = [transfer EXCEPT ![T].marker = TRUE]
      /\ Become(r, [request[r] EXCEPT !.step = "complete", !.rows = Idle.rows])
  BY DEF CommitsInto
<1>4. ~transfer[T].marker
  BY <1>1, <1>2 DEF Holds, Staging, Now
<1>5. /\ transfer'[T].kind = k /\ transfer'[T].ids = I /\ transfer'[T].marker
      /\ transfer'[T].state = transfer[T].state
      /\ \A t \in Transfers \ {T} : transfer'[t] = transfer[t]
  BY <1>2, <1>3, TypesOf DEF Transfer
<1>6. Promise!Put(To[k], I, "present")
  <2>1. /\ \A e \in Databases \ {To[k]} : row'[e] = row[e]
        /\ \A a \in Assets \ I : row'[To[k]][a] = row[To[k]][a]
        /\ \A a \in I : /\ row'[To[k]][a].lifecycle = "none" <=> Given(r)[a].lifecycle = "none"
                        /\ row'[To[k]][a].lifecycle = "purging" <=> Given(r)[a].lifecycle = "purging"
    <3> HIDE DEF Fits
    <3>1. \A a \in I : Fits(Journaled(To[k]), Given(r)[a], row'[To[k]][a])
      BY <1>1, CommittedRows
    <3>2. \A a \in I : /\ row'[To[k]][a].lifecycle = "none" <=> Given(r)[a].lifecycle = "none"
                       /\ row'[To[k]][a].lifecycle = "purging" <=> Given(r)[a].lifecycle = "purging"
      BY <3>1 DEF Fits
    <3> QED BY <1>1, <3>2, CommittedRows
  <2>2. \A a \in I : Given(r)[a].lifecycle \notin {"none", "purging"}
    <3>1. CASE k = "ingest"
      BY <3>1, FreshIsRow DEF Given
    <3>2. CASE k # "ingest"
      BY <1>1, <1>2, <3>2 DEF Given, Orderly, Knows, Forward
    <3> QED BY <3>1, <3>2
  <2>3. /\ \A a \in Assets \ I : Place(To[k], a)' = Place(To[k], a)
        /\ \A a \in I : Place(To[k], a)' = "present"
    BY <2>1, <2>2 DEF Place
  <2> QED BY <1>1, <2>1, <2>3, Puts
<1>7. \A a \in Assets : a \notin I \/ To[k] # "vault" => Copied(a)' = Copied(a)
  <2> SUFFICES ASSUME NEW a \in Assets, a \notin I \/ To[k] # "vault" PROVE Copied(a)' = Copied(a)
    OBVIOUS
  <2>1. blobRow'[a] = blobRow[a] /\ blobRow[a] # T
    BY <1>1, <1>2, <1>3 DEF Orderly, Places, Staging, Now, Databases
  <2> QED BY <1>1, <1>5, <2>1 DEF Copied
<1>8. To[k] = "vault" => \A a \in I : Copied(a)'
  <2> SUFFICES ASSUME To[k] = "vault", NEW a \in I PROVE Copied(a)'
    OBVIOUS
  <2>1. blobRow'[a] = T
    BY <1>3
  <2>2. <<T, a>> \in staged'
    BY <1>1, <1>2 DEF Holds, Now
  <2> QED BY <1>1, <1>5, <2>1, <2>2 DEF Copied, Kinds
<1>9. Stored' = IF To[k] = "vault" THEN Stored \cup {To[k]} \X I ELSE Stored
  <2>1. \A x : x \in Stored' <=> x \in Stored \/ (To[k] = "vault" /\ x \in {To[k]} \X I)
    BY <1>1, <1>7, <1>8 DEF Stored, Whole, Databases
  <2> QED BY <2>1
<1>10. request'[r].step = "complete"
  BY <1>3, NewStep
<1> QED BY <1>2, <1>3, <1>4, <1>5, <1>6, <1>9, <1>10

\* Commit: the items arrive, or are uploaded.
LEMMA CommitMoves ==
  ASSUME OneAtATime, TypeInv, CopyInv, ReconInv, MoveInv, NEW r \in Requests, Commit(r),
         NEW order \in SetToSeqs(request[r].ids), CommitsInto(r, order)
  PROVE  MoveStep
<1>1. /\ request[r].step = "stage" /\ Now(r) \in Transfers /\ request[r].ids \in SUBSET Assets
      /\ request[r].kind \in Kinds /\ Holds(request[r]) /\ Orderly(request[r])
  BY CommitCases, AtStage, OwnInHand DEF ReconInv, Staging
<1> PICK k \in Kinds, I \in SUBSET Assets, T \in Transfers :
           k = request[r].kind /\ I = request[r].ids /\ T = Now(r)
  BY <1>1
<1>2. /\ Promise!Put(To[k], I, "present") /\ \A a \in I : ~Exists(To[k], a)
      /\ transfer[T].kind = k /\ transfer[T].ids = I /\ ~transfer[T].marker
      /\ transfer'[T].kind = k /\ transfer'[T].ids = I /\ transfer'[T].marker
      /\ transfer'[T].state = transfer[T].state
      /\ \A t \in Transfers \ {T} : transfer'[t] = transfer[t]
      /\ Stored' = IF To[k] = "vault" THEN Stored \cup {To[k]} \X I ELSE Stored
      /\ request'[r].step = "complete"
  BY CommitShows
<1>3. \A t \in Transfers \ {T} : MoveOf(t)' = MoveOf(t)
  BY <1>1, <1>2, Unseen DEF Validated
<1>4. To[k] \in Databases /\ (To[k] = "vault" <=> k # "export") /\ (To[k] = "main" <=> k = "export")
  BY DEF To, Kinds, Databases
<1>5. \A a \in I : Located[To[k]][a] = "absent"
  BY <1>2, <1>4, Mapped, PlaceOf
<1>6. CASE k = "ingest"
  <2>1. Underway' = Underway
    <3>1. MoveOf(T)' = MoveOf(T)
      BY <1>2, <1>6 DEF MoveOf
    <3> QED BY <1>3, <3>1, SameMoves
  <2>2. \A d \in Databases, a \in I : Located[d][a] = "absent"
    <3>1. \A a \in I : ~Exists("main", a)
      BY <1>1, <1>6 DEF Orderly, Parted, Staging
    <3>2. \A a \in I : Located["main"][a] = "absent"
      BY <3>1, Mapped, PlaceOf DEF Databases
    <3>3. To[k] = "vault"
      BY <1>4, <1>6
    <3> QED BY <1>5, <3>2, <3>3 DEF Databases
  <2>3. \A m \in Transfers : I \cap Underway[m].items = {}
    <3>1. \A m \in Transfers \ {T} : I \cap transfer[m].ids = {}
      BY <1>1, <1>6 DEF Orderly, Places, Staging, Now
    <3>2. \A m \in Transfers : MoveOf(m).items \in {{}, transfer[m].ids} /\ (m = T => MoveOf(m).items = {})
      BY <1>2, <1>6 DEF MoveOf
    <3> QED BY <3>1, <3>2, Mapped
  <2>4. Promise!Upload("vault", I)
    BY <1>2, <1>4, <1>6, <2>1, <2>2, <2>3 DEF Promise!Upload, Promise!Sides, Databases
  <2> QED BY <1>4, <1>6, <2>4, MoveSteps
<1>7. CASE k # "ingest"
  <2>1. k \in {"import", "export"} /\ transfer[T].state = "preparing"
    BY <1>1, <1>2, <1>7 DEF Kinds, Orderly, Progress, Staging, Now
  <2>2. MoveOf(T) = [to |-> To[k], items |-> I, phase |-> "copying"]
    BY <1>2, <2>1 DEF MoveOf, PhaseOf
  <2>3. Promise!Enter(T, "arrived")
    <3>1. ~IsAt(T, Validated)' /\ ~IsAt(T, {"dropped"})'
      BY <1>2, Looks DEF Validated
    <3>2. PhaseOf(T)' = "arrived"
      BY <1>2, <2>1, <3>1 DEF PhaseOf
    <3> QED BY <1>2, <1>3, <2>1, <3>2, Enters
  <2>4. \A a \in I : ~Promise!Engaged(a)
    <3>1. \A m \in Transfers : ~Promise!Phase(m, "checked")
      BY <1>1, CheckedIsSeen, Looks DEF Validated
    <3> QED BY <3>1 DEF Promise!Engaged
  <2>5. To[k] = "main" => \A a \in I : Promise!Present("vault", a)
    <3> SUFFICES ASSUME k = "export", NEW a \in I PROVE Located["vault"][a] = "present"
      BY <1>4 DEF Promise!Present
    <3>1. Gets("vault", a)
      BY <1>1 DEF Holds, Staging
    <3> QED BY <3>1, Mapped, PlaceOf DEF Databases
  <2>6. Promise!Arrive(T)
    <3>1. Underway[T].to = To[k] /\ Underway[T].items = I /\ Underway[T].phase = "copying"
      BY <2>2, Mapped
    <3> QED BY <1>2, <1>5, <2>3, <2>4, <2>5, <3>1 DEF Promise!Arrive, Promise!Phase, Promise!Put
  <2> QED BY <2>6, MoveSteps
<1> QED BY <1>6, <1>7

LEMMA StagesMove ==
  ASSUME OneAtATime, TypeInv, TypeInv', CopyInv, CopyInv', ReconInv, MoveInv, NEW r \in Requests, Stages(r)
  PROVE  MoveStep
<1>1. CASE UNCHANGED <<row, transfer>>
  BY <1>1, StagesUnseen, QuietMoves DEF CopyInv
<1>2. CASE Commit(r)
  BY <1>1, <1>2, CommitCases, CommitMoves
<1>3. CASE Open(r)
  BY <1>1, <1>3, OpenMoves DEF Open
<1>4. CASE ~Commit(r) /\ ~Open(r)
  BY <1>1, <1>4 DEF Stages, Prepare, StageBlob, CreatePlain, WritePlain, Abort, tables
<1> QED BY <1>2, <1>3, <1>4

\* What a thread with a transfer in hand goes on with, at or after the commit.
LEMMA CompletionFacts ==
  ASSUME TypeInv, CopyInv, ReconInv, MoveInv, NEW r \in Requests, request[r].step \in Completing \cup {"clear"}
  PROVE  /\ Now(r) \in Transfers /\ Kind(r) \in Kinds /\ Moving(r) \in SUBSET Assets
         /\ Holds(request[r]) /\ Progress(request[r]) /\ Forward(request[r])
         /\ request[r].step # "clear" => Alive(transfer, Now(r))
BY AtCompletion DEF ReconInv, Orderly, MoveInv

\* Validate: a move has looked.
LEMMA ValidateMoves ==
  ASSUME OneAtATime, TypeInv, CopyInv, ReconInv, MoveInv, NEW r \in Requests, Validate(r)
  PROVE  MoveStep
<1>1. /\ request[r].step = "validate" /\ UNCHANGED <<row, blobRow, transfer, plain, blobs, staged>>
  BY DEF Validate, At, tables, files
<1>2. CASE End(r)
  <2>1. request'[r].step \notin Validated
    BY <1>2, EndFields DEF Validated
  <2> QED BY <1>1, <2>1, Doubts
<1>3. CASE Valid(r) /\ Go(r, IF Kind(r) = "ingest" THEN "unmark" ELSE "ready")
  <2>1. Now(r) \in Transfers /\ Kind(r) \in Kinds /\ Moving(r) \in SUBSET Assets /\ Forward(request[r])
    BY <1>1, CompletionFacts DEF Completing
  <2> PICK T \in Transfers, k \in Kinds : T = Now(r) /\ k = transfer[T].kind
    BY <2>1 DEF Kind
  <2>2. request'[r].t = T /\ request'[r].step = IF k = "ingest" THEN "unmark" ELSE "ready"
    BY <1>3, GoFields DEF Alike, Now, Kind
  <2>3. \A t \in Transfers \ {T} : MoveOf(t)' = MoveOf(t)
    BY <1>1, <2>2, OthersStay
  <2>4. Stored' = Stored
    BY <1>1, SameStored DEF Copied
  <2>5. ~IsAt(T, Validated) /\ ~IsAt(T, {"dropped"})
    BY <1>1, Looks DEF Validated
  <2>6. CASE k = "ingest" \/ transfer[T].state = "source_database_deleted"
    <3>1. k # "ingest" => transfer[T].marker
      BY <1>1, <2>1 DEF Forward, Now
    <3>2. MoveOf(T)' = MoveOf(T)
      BY <1>1, <2>6, <3>1 DEF MoveOf, PhaseOf
    <3> QED BY <1>1, <2>3, <2>4, <3>2, Stutters
  <2>7. CASE k # "ingest" /\ transfer[T].state # "source_database_deleted"
    <3>1. k \in {"import", "export"} /\ transfer[T].marker
      BY <1>1, <2>1, <2>7 DEF Forward, Now, Kinds
    <3>2. IsAt(T, Validated)' /\ ~IsAt(T, {"dropped"})'
      BY <2>2, <2>7, Looks DEF Validated
    <3>3. PhaseOf(T) = "arrived" /\ PhaseOf(T)' = "checked"
      BY <1>1, <2>5, <2>7, <3>1, <3>2 DEF PhaseOf
    <3>4. Underway[T].to = To[k] /\ Underway[T].items = transfer[T].ids /\ Underway[T].phase = "arrived"
      BY <3>1, <3>3, Mapped DEF MoveOf
    <3>5. Promise!Enter(T, "checked")
      BY <1>1, <2>3, <3>1, <3>3, Enters
    <3>6. ASSUME NEW a \in transfer[T].ids PROVE Promise!Present(To[k], a) /\ <<To[k], a>> \in Stored
      <4>1. a \in Assets /\ To[k] \in Databases /\ Gets(To[k], a) /\ (k = "export" => plain[a] = "whole")
        BY <1>3, <2>1 DEF Valid, Kind, Moving, Now, To, Kinds, Databases
      <4>2. Whole(To[k], a)
        BY <3>1, <4>1 DEF Whole, To, CopyInv, HasBytes, VaultRowsHaveBytes
      <4> QED BY <4>1, <4>2, Mapped, PlaceOf DEF Promise!Present
    <3>7. Promise!Check(T)
      BY <1>1, <2>4, <3>4, <3>5, <3>6, SameRows DEF Promise!Check, Promise!Phase
    <3> QED BY <3>7, MoveSteps
  <2> QED BY <2>6, <2>7
<1> QED BY <1>2, <1>3 DEF Validate

\* What the journal records of a move shows only in its phase, if at all.
LEMMA RecordMoves ==
  ASSUME OneAtATime, TypeInv, CopyInv, ReconInv, MoveInv, NEW r \in Requests,
         Ready(r) \/ FilesDeleted(r) \/ Dropped(r)
  PROVE  MoveStep
<1>1. /\ request[r].step \in {"ready", "delete", "dropped"} /\ UNCHANGED <<row, blobRow, plain, blobs, staged>>
  BY DEF Ready, FilesDeleted, Dropped, At, files
<1>2. /\ Now(r) \in Transfers /\ Kind(r) \in {"import", "export"} /\ Progress(request[r]) /\ Forward(request[r])
  BY <1>1, CompletionFacts, ValidatedInHand DEF Completing, Deleting, Validated
<1> PICK T \in Transfers : T = Now(r)
  BY <1>2
<1>3. transfer[T].marker /\ transfer[T].kind \in {"import", "export"}
  BY <1>1, <1>2 DEF Forward, Validated, Kind, Now
<1>4. CASE End(r) /\ transfer' = transfer
  <2>1. request'[r].step \notin Validated
    BY <1>4, EndFields DEF Validated
  <2> QED BY <1>1, <1>4, <2>1, Doubts
<1>5. ASSUME NEW step \in Validated \ {"dropped"}, Go(r, step), NEW s,
             SetState(T, s) \/ (transfer' = transfer /\ s = transfer[T].state),
             (request[r].step = "dropped" \/ transfer[T].state = "source_database_deleted")
               <=> s = "source_database_deleted"
      PROVE  MoveStep
  <2>1. request'[r].step = step /\ request'[r].t = T
    BY <1>5, GoFields DEF Alike, Now
  <2>2. \A t \in Transfers :
          /\ transfer'[t].kind = transfer[t].kind /\ transfer'[t].ids = transfer[t].ids
          /\ transfer'[t].marker = transfer[t].marker /\ transfer'[T].state = s
          /\ t # T => transfer'[t] = transfer[t]
    BY <1>5, StateSet, TypesOf DEF SetState
  <2>3. Stored' = Stored
    BY <1>1, <2>2, SameStored DEF Copied
  <2>4. \A t \in Transfers \ {T} : MoveOf(t)' = MoveOf(t)
    BY <2>1, <2>2, OthersStay
  <2>5. /\ IsAt(T, Validated) /\ IsAt(T, Validated)' /\ ~IsAt(T, {"dropped"})'
        /\ IsAt(T, {"dropped"}) <=> request[r].step = "dropped"
    BY <1>1, <2>1, Looks DEF Validated
  <2>6. PhaseOf(T)' = PhaseOf(T)
    BY <1>3, <1>5, <2>2, <2>5 DEF PhaseOf
  <2>7. MoveOf(T)' = MoveOf(T)
    BY <2>2, <2>6 DEF MoveOf
  <2> QED BY <1>1, <2>3, <2>4, <2>7, Stutters
<1>6. ASSUME NEW s, NEW step \in Validated \ {"dropped"}, Record(r, s, step),
             (request[r].step = "dropped" \/ transfer[T].state = "source_database_deleted")
               <=> s = "source_database_deleted"
      PROVE  MoveStep
  <2>1. (End(r) /\ transfer' = transfer) \/ (SetState(T, s) /\ Go(r, step))
    BY <1>6 DEF Record
  <2> HIDE DEF Validated, Go, End, SetState
  <2> QED BY <1>4, <1>5, <1>6, <2>1
<1>7. CASE Ready(r)
  <2>1. request[r].step = "ready" /\ Onward(r) \in Validated \ {"dropped"}
    BY <1>7 DEF Ready, At, Onward, Validated
  <2>2. CASE Before(r, "destination_ready")
    <3>1. transfer[T].state # "source_database_deleted"
      BY <1>2, <1>3, <2>1, <2>2 DEF Progress, Before, Rank, Now
    <3>2. Record(r, "destination_ready", Onward(r))
      BY <1>7, <2>2 DEF Ready
    <3> HIDE DEF Onward, Record, Validated
    <3> QED BY <1>6, <2>1, <3>1, <3>2
  <2>3. CASE ~Before(r, "destination_ready")
    <3>1. Go(r, Onward(r)) /\ transfer' = transfer
      BY <1>7, <2>3 DEF Ready
    <3> HIDE DEF Onward, Validated, Go
    <3> QED BY <1>5, <2>1, <3>1
  <2> QED BY <2>2, <2>3
<1>8. CASE FilesDeleted(r)
  <2>1. request[r].step = "delete" /\ Record(r, "source_files_deleted", "drop")
    BY <1>8 DEF FilesDeleted, At
  <2>2. transfer[T].state # "source_database_deleted"
    BY <1>2, <2>1 DEF Forward, Now
  <2> QED BY <1>6, <2>1, <2>2 DEF Validated
<1>9. CASE Dropped(r)
  <2>1. request[r].step = "dropped" /\ Record(r, "source_database_deleted", "unmark")
    BY <1>9 DEF Dropped, At
  <2> QED BY <1>6, <2>1 DEF Validated
<1> QED BY <1>7, <1>8, <1>9

\* Lease: a move that has looked releases its items.
LEMMA LeaseMoves ==
  ASSUME OneAtATime, TypeInv, CopyInv, ReconInv, MoveInv, NEW r \in Requests, Lease(r)
  PROVE  MoveStep
<1>1. request[r].step = "lease" /\ UNCHANGED <<blobRow, transfer, plain, blobs, staged>>
  BY DEF Lease, At, files
<1>2. /\ Now(r) \in Transfers /\ Kind(r) \in {"import", "export"} /\ Forward(request[r])
      /\ Moving(r) \in SUBSET Assets
  BY <1>1, CompletionFacts, ValidatedInHand DEF Completing, Deleting, Validated
<1> PICK T \in Transfers, k \in {"import", "export"}, I \in SUBSET Assets :
           T = Now(r) /\ k = transfer[T].kind /\ I = transfer[T].ids
  BY <1>2 DEF Kind, Moving
<1>3. CASE End(r) /\ row' = row
  <2>1. request'[r].step \notin Validated
    BY <1>3, EndFields DEF Validated
  <2> QED BY <1>1, <1>3, <2>1, Doubts
<1>4. CASE row' = [row EXCEPT ![From[k]] = Tombstones(@, I)] /\ Each(r, "delete")
  <2>1. request'[r].step = "delete" /\ request'[r].t = T
    BY <1>4, EachFields DEF Alike, Now
  <2>2. transfer[T].marker /\ transfer[T].state # "source_database_deleted"
    BY <1>1, <1>2 DEF Forward, Validated, Now
  <2>3. /\ IsAt(T, Validated) /\ IsAt(T, Validated)' /\ ~IsAt(T, {"dropped"}) /\ ~IsAt(T, {"dropped"})'
    BY <1>1, <2>1, Looks DEF Validated
  <2>4. PhaseOf(T) = "checked" /\ PhaseOf(T)' = "checked"
    BY <1>1, <2>2, <2>3 DEF PhaseOf
  <2>5. Underway' = Underway
    <3>1. MoveOf(T)' = MoveOf(T)
      BY <1>1, <2>4 DEF MoveOf
    <3>2. \A t \in Transfers \ {T} : MoveOf(t)' = MoveOf(t)
      BY <1>1, <2>1, OthersStay
    <3> QED BY <3>1, <3>2, SameMoves
  <2>6. Stored' = Stored
    BY <1>1, SameStored DEF Copied
  <2>7. Underway[T].to = To[k] /\ Underway[T].items = I /\ Underway[T].phase = "checked"
    BY <2>4, Mapped DEF MoveOf
  <2>8. From[k] \in Databases /\ Promise!Other[To[k]] = From[k]
    BY DEF From, To, Databases, Promise!Other
  <2> DEFINE J == {i \in I : Located[From[k]][i] # "absent"}
  <2>9. \A e \in Databases \ {From[k]} : row'[e] = row[e]
    BY <1>4, <2>8, TypesOf DEF Tables
  <2>10. \A a \in Assets : row'[From[k]][a] = IF a \in I /\ row[From[k]][a].lifecycle # "none"
                                              THEN [row[From[k]][a] EXCEPT !.lifecycle = "purging"]
                                              ELSE row[From[k]][a]
    BY <1>4, <2>8, TypesOf DEF Tables, Tombstones
  <2>11. Promise!Put(From[k], J, "condemned")
    <3> PICK K \in SUBSET Assets : K = J
      OBVIOUS
    <3>1. \A a \in Assets : a \in K <=> a \in I /\ row[From[k]][a].lifecycle # "none"
      BY <2>8, Mapped, PlaceOf DEF Exists
    <3> HIDE DEF J
    <3>2. \A a \in Assets \ K : Place(From[k], a)' = Place(From[k], a)
      BY <2>10, <3>1 DEF Place
    <3>3. \A a \in K : Place(From[k], a)' = "condemned"
      <4> SUFFICES ASSUME NEW a \in K PROVE Place(From[k], a)' = "condemned"
        OBVIOUS
      <4> DEFINE x == [row[From[k]][a] EXCEPT !.lifecycle = "purging"]
      <4>1. row[From[k]][a] \in Row
        BY <2>8, TypesOf DEF Tables
      <4>2. x.lifecycle = "purging"
        BY <4>1 DEF Row
      <4>3. row'[From[k]][a] = x
        BY <2>10, <3>1
      <4> QED BY <4>2, <4>3 DEF Place
    <3>4. Promise!Put(From[k], K, "condemned")
      BY <2>8, <2>9, <3>2, <3>3, Puts
    <3> QED BY <3>4 DEF Promise!Put
  <2>12. Promise!Release(T)
    BY <2>5, <2>6, <2>7, <2>8, <2>11 DEF Promise!Release, Promise!Phase, Promise!Put
  <2> QED BY <2>12, MoveSteps
<1> QED BY <1>3, <1>4 DEF Lease, Kind, Moving

\* What a thread at the completion of an import or an export has in hand.
LEMMA MoveInHand ==
  ASSUME TypeInv, CopyInv, ReconInv, MoveInv, NEW r \in Requests,
         request[r].step \in Deleting \cup {"close"}
  PROVE  \E T \in Transfers, k \in {"import", "export"}, I \in SUBSET Assets :
           /\ T = Now(r) /\ k = transfer[T].kind /\ I = transfer[T].ids
           /\ Holds(request[r]) /\ Progress(request[r]) /\ Forward(request[r])
           /\ transfer[T].state # "none"
           /\ From[k] \in Databases /\ To[k] \in Databases /\ Promise!Other[To[k]] = From[k]
<1>1. /\ request[r].step \in Completing \cup {"clear"} /\ request[r].step \in Handling
      /\ request[r].step # "clear"
  BY DEF Completing, Deleting, Handling
<1>2. /\ Now(r) \in Transfers /\ Kind(r) \in {"import", "export"} /\ Moving(r) \in SUBSET Assets
      /\ Holds(request[r]) /\ Progress(request[r]) /\ Forward(request[r]) /\ Alive(transfer, Now(r))
  BY <1>1, CompletionFacts, KindInHand
<1>3. \A k \in {"import", "export"} :
        From[k] \in Databases /\ To[k] \in Databases /\ Promise!Other[To[k]] = From[k]
  BY DEF From, To, Databases, Promise!Other
<1> QED BY <1>2, <1>3 DEF Kind, Moving, Alive

\* DeleteFile: the source's bytes go.
LEMMA DeleteFileMoves ==
  ASSUME OneAtATime, TypeInv, CopyInv, CopyInv', ReconInv, MoveInv, NEW r \in Requests, DeleteFile(r)
  PROVE  MoveStep
<1>1. request[r].step = "delete" /\ UNCHANGED <<row, blobRow, transfer, staged>>
  BY DEF DeleteFile, At, tables
<1>2. request[r].step \in Deleting
  BY <1>1 DEF Deleting
<1> PICK T \in Transfers, k \in {"import", "export"}, I \in SUBSET Assets :
           T = Now(r) /\ k = transfer[T].kind /\ I = transfer[T].ids
  BY <1>2, MoveInHand
<1>3. CASE End(r) /\ UNCHANGED <<plain, blobs>>
  <2>1. request'[r].step \notin Validated
    BY <1>3, EndFields DEF Validated
  <2> QED BY <1>1, <1>3, <2>1, Doubts
<1>4. ASSUME NEW a, Tick(r, a), (k = "import" /\ blobs' = blobs) \/ (k = "export" /\ plain' = plain)
      PROVE  MoveStep
  <2>1. request'[r].step = "delete" /\ request'[r].t = T
    BY <1>1, <1>4, TickFields DEF Alike, Now
  <2>2. /\ IsAt(T, Validated) /\ IsAt(T, Validated)' /\ ~IsAt(T, {"dropped"}) /\ ~IsAt(T, {"dropped"})'
    BY <1>1, <2>1, Looks DEF Validated
  <2>3. Underway' = Underway
    <3>1. MoveOf(T)' = MoveOf(T)
      BY <1>1, <2>2, SamePhase
    <3>2. \A t \in Transfers \ {T} : MoveOf(t)' = MoveOf(t)
      BY <1>1, <2>1, OthersStay
    <3> QED BY <3>1, <3>2, SameMoves
  <2>4. \A b \in I : Whole(To[k], b) => Whole(To[k], b)'
    <3>1. CASE k = "import"
      BY <1>1, <1>4, <3>1 DEF Whole, To, Copied
    <3>2. CASE k = "export"
      BY <1>4, <3>2 DEF Whole, To
    <3> QED BY <3>1, <3>2
  <2>5. \A t \in Transfers : IsAt(t, Validated) => t = T
    BY Looks
  <2> QED BY <1>1, <2>3, <2>4, <2>5, Rewrites DEF CopyInv
<1>5. \/ End(r) /\ UNCHANGED <<plain, blobs>>
      \/ \E a : Tick(r, a) /\ ((k = "import" /\ blobs' = blobs) \/ (k = "export" /\ plain' = plain))
  BY DEF DeleteFile, Kind
<1> QED BY <1>3, <1>4, <1>5

\* Drop: the source rows go, and with them the blobs' names.
LEMMA DropMoves ==
  ASSUME OneAtATime, TypeInv, CopyInv, ReconInv, LeasedIsClosed, MoveInv, NEW r \in Requests, Drop(r)
  PROVE  MoveStep
<1>1. request[r].step = "drop" /\ UNCHANGED <<transfer, plain, blobs, staged>>
  BY DropCases
<1>2. request[r].step \in Deleting
  BY DropCases
<1> PICK T \in Transfers, k \in {"import", "export"}, I \in SUBSET Assets :
           /\ T = Now(r) /\ k = transfer[T].kind /\ I = transfer[T].ids
           /\ Forward(request[r])
           /\ From[k] \in Databases /\ To[k] \in Databases /\ Promise!Other[To[k]] = From[k]
  BY <1>2, MoveInHand
<1> PICK d \in Databases : d = From[k]
  OBVIOUS
<1>3. CASE End(r) /\ UNCHANGED <<row, blobRow>>
  <2>1. request'[r].step \notin Validated
    BY <1>3, EndFields DEF Validated
  <2> QED BY <1>1, <1>3, <2>1, Doubts
<1>4. CASE Drops(r)
  <2> DEFINE J == {i \in Assets \ I : row[d][i].lifecycle = "purging"
                                      /\ row'[d][i].lifecycle \notin {"none", "purging"}}
  <2>1. /\ \A e \in Databases \ {d} : row'[e] = row[e]
        /\ \A a \in I : row'[d][a] = NoRow
        /\ \A b \in Assets : b \notin I =>
             /\ row'[d][b].lifecycle = "none" <=> row[d][b].lifecycle = "none"
             /\ row'[d][b].lifecycle = "purging" => row[d][b].lifecycle = "purging"
        /\ blobRow' = IF d = "main" THEN blobRow
                      ELSE [a \in Assets |-> IF a \in I THEN 0 ELSE blobRow[a]]
        /\ Go(r, "dropped")
    BY <1>1, <1>4, SourceDropped DEF Kind, Moving
  <2>2. request'[r].step = "dropped" /\ request'[r].t = T
    BY <2>1, GoFields DEF Alike, Now
  <2>3. transfer[T].marker /\ transfer[T].state # "source_database_deleted"
    BY <1>1 DEF Forward, Validated, Now
  <2>4. IsAt(T, Validated) /\ ~IsAt(T, {"dropped"}) /\ IsAt(T, {"dropped"})'
    BY <1>1, <2>2, Looks DEF Validated
  <2>5. PhaseOf(T) = "checked" /\ PhaseOf(T)' = "removed"
    BY <1>1, <2>3, <2>4 DEF PhaseOf
  <2>6. Promise!Enter(T, "removed")
    <3>1. \A t \in Transfers \ {T} : MoveOf(t)' = MoveOf(t)
      BY <1>1, <2>2, OthersStay
    <3> QED BY <1>1, <2>5, <3>1, Enters
  <2>7. Underway[T].to = To[k] /\ Underway[T].items = I /\ Underway[T].phase = "checked"
    BY <2>5, Mapped DEF MoveOf
  \* Nothing of the vault takes the place of a row that goes.
  <2>8. d # "main" => J = {}
    <3> SUFFICES ASSUME d # "main" PROVE J = {}
      OBVIOUS
    <3>1. d = "vault" /\ Kind(r) = "export"
      BY DEF Databases, From, Kind
    <3>2. \A b \in Assets : row["vault"][b].lifecycle # "none" => Reparented(row["vault"], I)[b] = row["vault"][b]
      BY <1>1, <3>1, ExportIsClosed, NothingReparented DEF Moving
    <3>3. row'["vault"] = Rest(r)
      BY <1>1, <1>4, <3>1, SourceDropped DEF Kind
    <3>4. \A b \in Assets \ I : Rest(r)[b] = Reparented(row["vault"], I)[b]
      BY <3>1 DEF Rest, Moving, Kind, From
    <3> QED BY <3>1, <3>2, <3>3, <3>4
  <2>9. /\ \A a \in I : Place(d, a)' = "absent"
        /\ \A a \in J : Place(d, a) = "condemned" /\ Place(d, a)' = "present"
        /\ \A a \in Assets \ (I \cup J) : Place(d, a)' = Place(d, a)
    <3>1. \A a \in I : Place(d, a)' = "absent"
      BY <2>1 DEF Place, NoRow
    <3>2. \A a \in J : Place(d, a) = "condemned" /\ Place(d, a)' = "present"
      <4>1. \A a \in J : row[d][a].lifecycle = "purging" /\ row'[d][a].lifecycle \notin {"none", "purging"}
        OBVIOUS
      <4> HIDE DEF J
      <4> QED BY <4>1 DEF Place
    <3>3. ASSUME NEW a \in Assets \ (I \cup J) PROVE Place(d, a)' = Place(d, a)
      <4>1. /\ row'[d][a].lifecycle = "none" <=> row[d][a].lifecycle = "none"
            /\ row'[d][a].lifecycle = "purging" <=> row[d][a].lifecycle = "purging"
        BY <2>1
      <4> HIDE DEF J
      <4> QED BY <4>1 DEF Place
    <3> QED BY <3>1, <3>2, <3>3
  <2> HIDE DEF J
  <2>10. \A e \in Databases \ {d} : \A a \in Assets : Place(e, a)' = Place(e, a)
    BY <2>1 DEF Place
  <2>11. J \in SUBSET {i \in Assets \ I : d = "main" /\ Located["main"][i] = "condemned"}
    <3>1. J \subseteq Assets \ I
      BY DEF J
    <3>2. \A i \in J : Located[d][i] = "condemned"
      BY <2>9, <3>1, Mapped
    <3> QED BY <2>8, <3>1, <3>2
  <2>12. Located' = [Located EXCEPT ![d] = [i \in Assets |-> IF i \in I THEN "absent"
                                             ELSE IF i \in J THEN "present" ELSE Located[d][i]]]
    <3> DEFINE place(a) == IF a \in I THEN "absent" ELSE IF a \in J THEN "present" ELSE Located[d][a]
    <3>1. \A a \in Assets : Place(d, a)' = place(a)
      <4>1. J \cap I = {}
        BY DEF J
      <4> QED BY <2>9, <4>1, Mapped
    <3>2. Located'[d] = [a \in Assets |-> place(a)]
      BY <3>1, MappedThen
    <3>3. \A e \in Databases \ {d} : Located'[e] = Located[e]
      BY <2>10, Mapped, MappedThen
    <3> QED BY <3>2, <3>3, Mapped, MappedThen
  <2>13. Stored' = IF d = "vault" THEN Stored \ ({d} \X I) ELSE Stored
    <3>1. \A a \in Assets : a \notin I \/ d # "vault" => Copied(a)' = Copied(a)
      BY <1>1, <2>1 DEF Copied, Databases
    <3>2. \A a \in I : d = "vault" => ~Copied(a)'
      <4>1. 0 \notin Transfers
        BY DEF Transfers
      <4> QED BY <2>1, <4>1 DEF Copied
    <3>3. \A x : x \in Stored' <=> x \in Stored /\ ~(d = "vault" /\ x \in {d} \X I)
      BY <1>1, <3>1, <3>2 DEF Stored, Whole, Databases
    <3> QED BY <3>3
  <2>14. Promise!Remove(T)
    <3>1. Promise!Other[Underway[T].to] = d
      BY <2>7
    <3> QED BY <2>6, <2>7, <2>11, <2>12, <2>13, <3>1 DEF Promise!Remove, Promise!Phase
  <2> QED BY <2>14, MoveSteps
<1> QED BY <1>3, <1>4, DropCases

\* Unmark: a move is finished, and a blob needs the marker no more.
LEMMA UnmarkMoves ==
  ASSUME OneAtATime, TypeInv, CopyInv, ReconInv, MoveInv, NEW r \in Requests, Unmark(r)
  PROVE  MoveStep
<1>1. request[r].step = "unmark" /\ UNCHANGED <<row, blobRow, plain, blobs, staged>>
  BY DEF Unmark, At, files
<1>2. /\ Now(r) \in Transfers /\ Kind(r) \in Kinds /\ Moving(r) \in SUBSET Assets
      /\ Holds(request[r]) /\ Progress(request[r]) /\ Forward(request[r])
  BY <1>1, CompletionFacts DEF Completing
<1> PICK T \in Transfers, k \in Kinds, I \in SUBSET Assets :
           T = Now(r) /\ k = transfer[T].kind /\ I = transfer[T].ids
  BY <1>2 DEF Kind, Moving
<1>3. /\ transfer'[T].kind = k /\ transfer'[T].ids = I /\ ~transfer'[T].marker
      /\ transfer'[T].state = transfer[T].state
      /\ \A t \in Transfers \ {T} : transfer'[t] = transfer[t]
  <2>1. transfer' = [transfer EXCEPT ![T].marker = FALSE]
    BY DEF Unmark
  <2> QED BY <2>1, TypesOf DEF Transfer
<1>4. request'[r].step \in {"clear", "close"}
  BY GoFields DEF Unmark
<1>5. Stored' = Stored
  <2>1. ASSUME NEW a \in Assets PROVE Copied(a)' = Copied(a)
    <3>1. CASE blobRow[a] # T
      BY <1>1, <1>3, <3>1 DEF Copied
    <3>2. CASE blobRow[a] = T /\ k # "export" /\ a \in I
      <4>1. BlobHere(a)
        BY <1>1, <1>2, <3>2 DEF Holds, Now
      <4> QED BY <1>1, <1>3, <3>2, <4>1 DEF Copied, BlobHere
    <3>3. CASE blobRow[a] = T /\ (k = "export" \/ a \notin I)
      BY <1>1, <1>3, <3>3 DEF Copied
    <3> QED BY <3>1, <3>2, <3>3
  <2> QED BY <1>1, <2>1, SameStored
<1>6. \A t \in Transfers \ {T} : MoveOf(t)' = MoveOf(t)
  BY <1>3, <1>4, OthersStay DEF Validated
<1>7. CASE k = "ingest"
  <2>1. MoveOf(T)' = MoveOf(T)
    BY <1>3, <1>7 DEF MoveOf
  <2> QED BY <1>1, <1>5, <1>6, <2>1, Stutters
<1>8. CASE k # "ingest"
  <2>1. /\ k \in {"import", "export"} /\ transfer[T].marker
        /\ transfer[T].state = "source_database_deleted"
    BY <1>1, <1>2, <1>8 DEF Forward, Progress, Validated, Now, Kinds
  <2>2. PhaseOf(T) = "removed" /\ PhaseOf(T)' = "closing"
    BY <1>3, <2>1 DEF PhaseOf
  <2>3. Promise!Phase(T, "removed")
    BY <2>1, <2>2, Mapped DEF Promise!Phase, MoveOf
  <2>4. Promise!Enter(T, "closing")
    BY <1>3, <1>6, <2>1, <2>2, Enters
  <2>5. Promise!Finish(T)
    BY <1>1, <1>5, <2>3, <2>4, SameRows DEF Promise!Finish
  <2> QED BY <2>5, MoveSteps
<1> QED BY <1>7, <1>8

\* Close: a move is over.
LEMMA CloseMoves ==
  ASSUME OneAtATime, TypeInv, CopyInv, ReconInv, MoveInv, NEW r \in Requests, Close(r)
  PROVE  MoveStep
<1>1. request[r].step = "close" /\ UNCHANGED <<row, blobRow, plain, blobs, staged>>
  BY DEF Close, At, files
<1> PICK T \in Transfers, k \in {"import", "export"} :
           /\ T = Now(r) /\ k = transfer[T].kind
           /\ Progress(request[r]) /\ Forward(request[r])
  BY <1>1, MoveInHand
<1>2. ~transfer[T].marker /\ transfer[T].state = "source_database_deleted"
  BY <1>1 DEF Progress, Forward, Now
<1>3. \A t \in Transfers :
        /\ transfer'[t].kind = transfer[t].kind /\ transfer'[t].ids = transfer[t].ids
        /\ transfer'[t].marker = transfer[t].marker
        /\ transfer'[t].state = IF t = T THEN "none" ELSE transfer[t].state
        /\ t # T => transfer'[t] = transfer[t]
  BY StateSet, TypesOf DEF Close, SetState
<1>4. request'[r].step \notin Validated
  BY GoFields, EndFields DEF Close, Return, Validated
<1>5. Stored' = Stored
  BY <1>1, <1>3, SameStored DEF Copied
<1>6. \A t \in Transfers \ {T} : MoveOf(t)' = MoveOf(t)
  BY <1>3, <1>4, OthersStay
<1>7. PhaseOf(T) = "closing" /\ PhaseOf(T)' = "over"
  BY <1>2, <1>3 DEF PhaseOf
<1>8. Promise!Phase(T, "closing")
  BY <1>7, Mapped DEF Promise!Phase, MoveOf
<1>9. Promise!Enter(T, "over")
  BY <1>3, <1>6, <1>7, Enters
<1>10. Promise!Close(T)
  BY <1>1, <1>5, <1>8, <1>9, SameRows DEF Promise!Close
<1> QED BY <1>10, MoveSteps

LEMMA CompletesMove ==
  ASSUME OneAtATime, TypeInv, CopyInv, CopyInv', ReconInv, LeasedIsClosed, MoveInv,
         NEW r \in Requests, Completes(r)
  PROVE  MoveStep
<1>1. CASE Complete(r) \/ Finalize(r) \/ Clear(r)
  <2>1. /\ request[r].step \in {"complete", "finalize", "clear"} /\ UNCHANGED <<row, transfer>>
        /\ \/ End(r) \/ \E s \in {"validate", "finalize"} : Each(r, s)
           \/ \E s \in {"validate", "next"} : Go(r, s)
           \/ request[r].step = "finalize" /\ \E a : Tick(r, a)
    BY <1>1 DEF Complete, Finalize, Clear, Return, At, tables
  <2>2. request[r].step \notin Validated /\ request'[r].step \notin Validated
    BY <2>1, EndFields, EachFields, GoFields, TickFields DEF Validated
  <2> QED BY <2>1, <2>2, QuietMoves DEF CopyInv
<1> QED BY <1>1, ValidateMoves, RecordMoves, LeaseMoves, DeleteFileMoves, DropMoves, UnmarkMoves,
           CloseMoves DEF Completes


\* A request begins: of a move nothing shows yet, of an upload never.
LEMMA BeginsMove ==
  ASSUME OneAtATime, TypeInv, TypeInv', ReconInv, NEW r \in Requests, Begins(r)
  PROVE  MoveStep
<1>1. CASE \E ids \in SUBSET Assets \ {{}} : BeginImport(r, ids) \/ BeginExport(r, ids)
  <2>1. PICK ids, k, step : BeginMove(r, k, ids, step) /\ step \in {"list", "prepare"}
    BY <1>1 DEF BeginImport, BeginExport
  <2> DEFINE q == [Idle EXCEPT !.step = step, !.kind = k, !.live = TRUE, !.ids = ids,
                            !.phase = IF step = "list" THEN "import" ELSE "none"]
  <2>2. q.step = step
    BY DEF Idle
  <2>3. request'[r] = q /\ UNCHANGED <<row, blobRow, transfer, plain, blobs, staged>>
    BY <2>1, Became DEF BeginMove, tables, files
  <2> HIDE DEF q
  <2> QED BY <2>1, <2>2, <2>3, Doubts DEF Validated
<1>2. CASE \E a \in Assets : BeginIngest(r, a)
  <2>1. PICK a \in Assets : BeginIngest(r, a)
    BY <1>2
  <2> DEFINE q(n) == [Idle EXCEPT !.step = "stage", !.kind = "ingest", !.live = TRUE, !.ids = {a},
                            !.own = n, !.t = n, !.left = {a}]
             u == [NoTransfer EXCEPT !.kind = "ingest", !.ids = {a}]
  <2>2. (\A n : q(n).step = "stage") /\ u.kind = "ingest"
    BY DEF Idle, NoTransfer
  <2>3. /\ Become(r, q(created')) /\ request[r].step = "idle" /\ created' = created + 1
        /\ transfer' = [transfer EXCEPT ![created'] = u] /\ UNCHANGED <<row, plain, blobRow, blobs, staged>>
    BY <2>1 DEF BeginIngest, At, files
  <2>4. request'[r] = q(created')
    BY <2>3, Became
  <2> HIDE DEF q, u
  <2>5. /\ created' \in Transfers /\ transfer[created'] = NoTransfer /\ transfer'[created'] = u
        /\ \A t \in Transfers \ {created'} : transfer'[t] = transfer[t]
        /\ Stored' = Stored
    BY <2>3, DrawShows
  <2> PICK T \in Transfers : T = created'
    BY <2>5
  <2>6. \A t \in Transfers \ {T} : MoveOf(t)' = MoveOf(t)
    BY <2>2, <2>3, <2>4, <2>5, Unseen DEF Validated
  <2>7. MoveOf(T)' = MoveOf(T)
    <3>1. transfer[T].kind = "none" /\ transfer'[T].kind = "ingest"
      BY <2>2, <2>5 DEF NoTransfer
    <3> QED BY <3>1 DEF MoveOf
  <2> QED BY <2>3, <2>5, <2>6, <2>7, Stutters
<1> QED BY <1>1, <1>2 DEF Begins

\* A failing operation, the end of a session and a crash show as a look to be
\* repeated, if they show at all.
LEMMA StumbleMoves ==
  ASSUME OneAtATime, TypeInv, CopyInv', NEW r \in Requests, Stumble(r)
  PROVE  MoveStep
<1>1. request'[r].step \notin Validated
  BY ReconcilesUnwatched DEF Watched
<1>2. UNCHANGED <<row, blobRow, transfer, blobs, staged>>
  BY DEF Stumble, tables
<1>3. CASE request[r].step \in Validated
  <2>1. plain' = plain
    BY <1>3 DEF Stumble, At, Validated
  <2> QED BY <1>1, <1>2, <2>1, Doubts
<1>4. CASE request[r].step \notin Validated
  BY <1>1, <1>2, <1>4, QuietMoves DEF CopyInv
<1> QED BY <1>3, <1>4

LEMMA LockMoves ==
  ASSUME TypeInv, Lock
  PROVE  MoveStep
<1>1. UNCHANGED <<row, blobRow, transfer, plain, blobs, staged>> /\ request' = Revoked(request)
  BY DEF Lock, tables, files
<1>2. \A r \in Requests : request'[r].t = request[r].t /\ request'[r].step = request[r].step
  BY <1>1, TypesOf DEF Revoked, Request
<1>3. \A t, steps : IsAt(t, steps)' <=> IsAt(t, steps)
  BY <1>2 DEF IsAt, Now
<1>4. \A t \in Transfers : MoveOf(t)' = MoveOf(t)
  BY <1>1, <1>3, SamePhase
<1>5. Stored' = Stored
  BY <1>1, SameStored DEF Copied
<1> QED BY <1>1, <1>4, <1>5, Stutters

LEMMA CrashMoves ==
  ASSUME OneAtATime, TypeInv, Crash
  PROVE  MoveStep
<1>1. UNCHANGED <<row, blobRow, transfer, plain, blobs, staged>> /\ request' = [r \in Requests |-> Idle]
  BY DEF Crash, tables, files
<1>2. ASSUME NEW r \in Requests PROVE MoveStep
  <2>1. request'[r].step \notin Validated
    BY <1>1, IdleFields DEF Validated
  <2> QED BY <1>1, <2>1, Doubts
<1>3. CASE Requests = {}
  <2>1. \A t, steps : ~IsAt(t, steps) /\ ~IsAt(t, steps)'
    BY <1>3 DEF IsAt
  <2>2. \A t \in Transfers : MoveOf(t)' = MoveOf(t)
    BY <1>1, <2>1, SamePhase
  <2>3. Stored' = Stored
    BY <1>1, SameStored DEF Copied
  <2> QED BY <1>1, <2>2, <2>3, Stutters
<1> QED BY <1>2, <1>3

\* The library changes one row and at most that asset's file.
LEMMA LibraryShows ==
  ASSUME TypeInv, Library \/ Purges, NEW a \in Assets, NEW x, NEW p,
         row' = [row EXCEPT !["main"] = [row["main"] EXCEPT ![a] = x]],
         p = CASE x.lifecycle = "none" -> "absent"
               [] x.lifecycle = "purging" -> "condemned"
               [] OTHER -> "present"
  PROVE  /\ Promise!Put("main", {a}, p) /\ Underway' = Underway
         /\ plain' = plain => Stored' = Stored
         /\ plain' = [plain EXCEPT ![a] = "whole"] => Stored' = Stored \cup {"main"} \X {a}
         /\ plain' = [plain EXCEPT ![a] = "absent"] => Stored' = Stored \ {<<"main", a>>}
<1>1. UNCHANGED <<blobRow, transfer, blobs, staged, request>>
  BY LibraryRows
<1>2. /\ row \in [Databases -> [Assets -> Row]] /\ plain \in [Assets -> {"absent", "partial", "whole"}]
      /\ "main" \in Databases
  BY TypesOf DEF Tables, Files, Databases
<1>3. /\ \A e \in Databases \ {"main"} : row'[e] = row[e]
      /\ \A b \in Assets : row'["main"][b] = IF b = a THEN x ELSE row["main"][b]
  BY <1>2
<1>4. Promise!Put("main", {a}, p)
  <2>1. \A b \in Assets \ {a} : Place("main", b)' = Place("main", b)
    BY <1>3 DEF Place
  <2>2. Place("main", a)' = p
    BY <1>3 DEF Place
  <2> QED BY <1>2, <1>3, <2>1, <2>2, Puts
<1>5. Underway' = Underway
  <2>1. \A t \in Transfers : MoveOf(t)' = MoveOf(t)
    BY <1>1 DEF MoveOf, PhaseOf, IsAt, Now
  <2> QED BY <2>1, SameMoves
<1>6. \A b \in Assets : Copied(b)' = Copied(b)
  BY <1>1 DEF Copied
<1>7. plain' = plain => Stored' = Stored
  BY <1>6, SameStored
<1>8. ASSUME plain' = [plain EXCEPT ![a] = "whole"] PROVE Stored' = Stored \cup {"main"} \X {a}
  <2>1. \A b \in Assets : plain'[b] = IF b = a THEN "whole" ELSE plain[b]
    BY <1>2, <1>8
  <2>2. \A y : y \in Stored' <=> y \in Stored \cup {"main"} \X {a}
    BY <1>6, <2>1 DEF Stored, Whole, Databases
  <2> QED BY <2>2
<1>9. ASSUME plain' = [plain EXCEPT ![a] = "absent"] PROVE Stored' = Stored \ {<<"main", a>>}
  <2>1. \A b \in Assets : plain'[b] = IF b = a THEN "absent" ELSE plain[b]
    BY <1>2, <1>9
  <2>2. \A y : y \in Stored' <=> y \in Stored \ {<<"main", a>>}
    BY <1>6, <2>1 DEF Stored, Whole, Databases
  <2> QED BY <2>2
<1> QED BY <1>4, <1>5, <1>7, <1>8, <1>9

LEMMA LibraryMoves ==
  ASSUME TypeInv, ReconInv, Library \/ Purges
  PROVE  MoveStep
<1>1. /\ row \in [Databases -> [Assets -> Row]] /\ "main" \in Databases /\ "vault" \in Databases
  BY TypesOf DEF Tables, Databases
<1>2. PICK a \in Assets : \/ Upload(a) \/ Trash("main", a) \/ MarkPurging(a) \/ PurgeFree(a) \/ RestoreBlocked(a)
  BY DEF Library, Purges
<1>3. row["main"][a] \in Row
  BY <1>1
<1>4. Located["main"][a] = Place("main", a)
  BY <1>1, Mapped
<1>5. CASE Upload(a)
  <2> DEFINE x == Placed(row["main"], Journaled("main"), a, Fresh)
  <2>1. x.lifecycle \notin {"none", "purging"}
    BY FreshIsRow, PlacedIsRow
  <2>2. /\ row' = [row EXCEPT !["main"] = [row["main"] EXCEPT ![a] = x]]
        /\ plain' = [plain EXCEPT ![a] = "whole"] /\ a \notin known
    BY <1>5 DEF Upload
  <2> HIDE DEF x
  <2>3. /\ Promise!Put("main", {a}, "present") /\ Underway' = Underway
        /\ Stored' = Stored \cup {"main"} \X {a}
    BY <2>1, <2>2, LibraryShows
  <2>4. \A d \in Databases : Located[d][a] = "absent"
    <3>1. \A d \in Databases : ~Exists(d, a)
      BY <2>2 DEF ReconInv, Settled, KnownOnce
    <3> QED BY <3>1, Mapped, PlaceOf
  <2>5. \A m \in Transfers : {a} \cap Underway[m].items = {}
    <3>1. \A m \in Transfers : a \notin transfer[m].ids
      BY <2>2 DEF ReconInv, Settled, KnownOnce
    <3>2. \A m \in Transfers : MoveOf(m).items \in {{}, transfer[m].ids}
      BY DEF MoveOf
    <3> QED BY <3>1, <3>2, Mapped
  <2>6. Promise!Upload("main", {a})
    BY <2>3, <2>4, <2>5 DEF Promise!Upload, Promise!Sides, Databases
  <2> QED BY <1>1, <2>6, MoveSteps
<1>6. CASE Trash("main", a)
  <2> DEFINE x == [row["main"][a] EXCEPT !.lifecycle = "trashed", !.trashed = TRUE]
  <2>1. x.lifecycle = "trashed"
    BY <1>3 DEF Row
  <2>2. /\ row' = [row EXCEPT !["main"] = [row["main"] EXCEPT ![a] = x]]
        /\ plain' = plain /\ Gets("main", a)
    BY <1>6 DEF Trash, files
  <2> HIDE DEF x
  <2>3. Promise!Put("main", {a}, "present") /\ Underway' = Underway /\ Stored' = Stored
    BY <2>1, <2>2, LibraryShows
  <2>4. Located["main"][a] = "present"
    BY <1>4, <2>2, PlaceOf
  <2>5. Located' = Located
    <3>1. [i \in Assets |-> IF i \in {a} THEN "present" ELSE Located["main"][i]] = Located["main"]
      BY <1>1, <2>4 DEF Located
    <3>2. Located' = [Located EXCEPT !["main"] = Located["main"]]
      BY <2>3, <3>1 DEF Promise!Put
    <3> QED BY <3>2 DEF Located
  <2> QED BY <2>3, <2>5 DEF MoveStep, Promise!vars
<1>7. CASE MarkPurging(a)
  <2> DEFINE x == [row["main"][a] EXCEPT !.lifecycle = "purging"]
  <2>1. x.lifecycle = "purging"
    BY <1>3 DEF Row
  <2>2. /\ row' = [row EXCEPT !["main"] = [row["main"] EXCEPT ![a] = x]]
        /\ plain' = plain /\ Gets("main", a)
    BY <1>7 DEF MarkPurging, files, Gets
  <2> HIDE DEF x
  <2>3. Promise!Put("main", {a}, "condemned") /\ Underway' = Underway /\ Stored' = Stored
    BY <2>1, <2>2, LibraryShows
  <2>4. Promise!Present("main", a)
    BY <1>4, <2>2, PlaceOf DEF Promise!Present
  <2>5. Promise!Condemn(a)
    BY <2>3, <2>4 DEF Promise!Condemn
  <2> QED BY <2>5, MoveSteps
<1>8. CASE PurgeFree(a)
  <2>1. /\ row' = [row EXCEPT !["main"] = [row["main"] EXCEPT ![a] = NoRow]]
        /\ plain' = [plain EXCEPT ![a] = "absent"] /\ row["main"][a].lifecycle = "purging"
    BY <1>8 DEF PurgeFree
  <2>2. NoRow.lifecycle = "none"
    BY DEF NoRow
  <2>3. Promise!Put("main", {a}, "absent") /\ Underway' = Underway /\ Stored' = Stored \ {<<"main", a>>}
    BY <2>1, <2>2, LibraryShows
  <2>4. Located["main"][a] = "condemned"
    BY <1>4, <2>1, PlaceOf
  <2>5. Promise!Erase(a)
    BY <2>3, <2>4 DEF Promise!Erase
  <2> QED BY <2>5, MoveSteps
<1>9. CASE RestoreBlocked(a)
  <2>1. PICK s \in {"trashed", "active", "duplicate"} :
          row' = [row EXCEPT !["main"] = [row["main"] EXCEPT ![a] = [row["main"][a] EXCEPT !.lifecycle = s]]]
    BY <1>9 DEF RestoreBlocked
  <2>2. plain' = plain /\ row["main"][a].lifecycle = "purging"
    BY <1>9 DEF RestoreBlocked, files
  <2> DEFINE x == [row["main"][a] EXCEPT !.lifecycle = s]
  <2>3. x.lifecycle = s
    BY <1>3 DEF Row
  <2>4. row' = [row EXCEPT !["main"] = [row["main"] EXCEPT ![a] = x]]
    BY <2>1
  <2> HIDE DEF x
  <2>5. Promise!Put("main", {a}, "present") /\ Underway' = Underway /\ Stored' = Stored
    BY <2>2, <2>3, <2>4, LibraryShows
  <2>6. Located["main"][a] = "condemned"
    BY <1>4, <2>2, PlaceOf
  <2>7. Promise!Reprieve(a)
    BY <2>5, <2>6 DEF Promise!Reprieve
  <2> QED BY <2>7, MoveSteps
<1> QED BY <1>2, <1>5, <1>6, <1>7, <1>8, <1>9

\* Trash and restore show as nothing.
LEMMA RelabelsMoves ==
  ASSUME Relabels
  PROVE  MoveStep
<1>1. UNCHANGED <<blobRow, transfer, plain, blobs, staged, request>>
  BY DEF Relabels
<1>2. \A d \in Databases, a \in Assets : Place(d, a)' = Place(d, a)
  BY DEF Relabels, Place
<1>3. Located' = Located
  BY <1>2, Mapped, MappedThen
<1>4. Stored' = Stored
  BY <1>1, SameStored DEF Copied
<1>5. \A t \in Transfers : MoveOf(t)' = MoveOf(t)
  BY <1>1 DEF MoveOf, PhaseOf, IsAt, Now
<1> QED BY <1>3, <1>4, <1>5, SameMoves DEF MoveStep, Promise!vars

-----------------------------------------------------------------------------
(* The refinement.                                                         *)

LEMMA InitMoves == Init => Promise!Init
<1> SUFFICES ASSUME Init PROVE Promise!Init
  OBVIOUS
<1>1. Located = [s \in Promise!Sides |-> [i \in Assets |-> "absent"]]
  BY DEF Init, Located, Place, NoRow, Promise!Sides, Databases
<1>2. Stored = {}
  <2>1. 0 \notin Transfers
    BY DEF Transfers
  <2> QED BY <2>1 DEF Init, Stored, Whole, Copied, Databases
<1>3. Underway = [m \in Transfers |-> Promise!NoMove]
  <2>1. \A t \in Transfers : transfer[t].kind = "none"
    BY DEF Init, NoTransfer
  <2> QED BY <2>1 DEF Underway, MoveOf, Promise!NoMove
<1> QED BY <1>1, <1>2, <1>3 DEF Promise!Init

LEMMA NextMoves ==
  ASSUME OneAtATime, TypeInv, TypeInv', CopyInv, CopyInv', ReconInv, LeasedIsClosed, MoveInv, [Next]_vars
  PROVE  MoveStep
<1>1. ASSUME NEW r \in Requests, BeginUnlock(r) \/ Begins(r) \/ Proceed(r) PROVE MoveStep
  BY <1>1, BeginsMove, ReconcilesMove, StagesMove, CompletesMove DEF Proceed
<1>2. CASE Lock
  BY <1>2, LockMoves
<1>3. CASE Library \/ Purges
  BY <1>3, LibraryMoves
<1>4. CASE Faults
  BY <1>4, CrashMoves, StumbleMoves DEF Faults
<1>5. CASE UNCHANGED vars
  <2>1. UNCHANGED <<row, blobRow, transfer, plain, blobs, staged, request>>
    BY <1>5 DEF vars
  <2>2. Stored' = Stored
    BY <2>1, SameStored DEF Copied
  <2>3. \A t \in Transfers : MoveOf(t)' = MoveOf(t)
    BY <2>1 DEF MoveOf, PhaseOf, IsAt, Now
  <2> QED BY <2>1, <2>2, <2>3, Stutters
<1>6. CASE VaultTrash \/ Restores
  BY <1>6, RelabelsRows, RelabelsMoves
<1> QED BY <1>1, <1>2, <1>3, <1>4, <1>5, <1>6 DEF Next

\* While requests do not overlap, imports, exports and their reconciliation are
\* moves without loss, as far as rows, bytes and transfers show: whatever
\* crashes, ends of session, failing operations and library handlers come
\* between, the items are taken from their source only after a look found all
\* of them whole at the destination, and bytes go only where nobody needs them.
THEOREM TransfersImplementMove == OneAtATime => (Spec => ImplementsMove)
<1> SUFFICES ASSUME OneAtATime PROVE Spec => ImplementsMove
  OBVIOUS
<1> DEFINE Inv == TransferInv /\ MoveInv
<1>1. Init => Inv
  BY InitTransfers, InitForward
<1>2. Inv /\ [Next]_vars => Inv'
  BY NextTransfers, NextForward DEF TransferInv
<1>3. Inv /\ Inv' /\ [Next]_vars => [Promise!Next]_(Promise!vars)
  BY NextMoves DEF MoveStep, TransferInv
<1> QED BY <1>1, <1>2, <1>3, InitMoves, PTL DEF Spec, ImplementsMove, Promise!Spec

-----------------------------------------------------------------------------
(* What the promise is worth: moves without loss lose nothing.             *)

\* What a change of one side's items says.
LEMMA PutFields ==
  ASSUME Promise!TypeOK, NEW d \in Databases, NEW I, NEW p \in Promise!Places, Promise!Put(d, I, p)
  PROVE  /\ \A e \in Databases, i \in Assets :
              Located'[e][i] = IF e = d /\ i \in I THEN p ELSE Located[e][i]
         /\ Located' \in [Promise!Sides -> [Assets -> Promise!Places]]
<1>1. Located \in [Databases -> [Assets -> Promise!Places]]
  BY DEF Promise!TypeOK, Promise!Sides, Databases
<1> HIDE DEF Located
<1>2. \A i \in Assets : Located[d][i] \in Promise!Places
  BY <1>1
<1>3. /\ \A e \in Databases, i \in Assets :
           Located'[e][i] = IF e = d /\ i \in I THEN p ELSE Located[e][i]
      /\ Located' \in [Databases -> [Assets -> Promise!Places]]
  BY <1>1, <1>2 DEF Promise!Put
<1> QED BY <1>3 DEF Promise!Sides, Databases

\* ... and the next phase of one move.
LEMMA EnterFields ==
  ASSUME Promise!TypeOK, NEW m \in Transfers, NEW p \in Promise!Phases, Promise!Enter(m, p)
  PROVE  /\ \A n \in Transfers :
              /\ Underway'[n].to = Underway[n].to /\ Underway'[n].items = Underway[n].items
              /\ Underway'[n].phase = IF n = m THEN p ELSE Underway[n].phase
         /\ Underway' \in [Transfers -> Promise!Move]
<1> HIDE DEF Underway
<1> QED BY DEF Promise!TypeOK, Promise!Enter, Promise!Move

\* What a move has, and where its items come from.
LEMMA MoveFields ==
  ASSUME Promise!TypeOK, NEW m \in Transfers
  PROVE  /\ Underway[m].to \in Databases /\ Promise!Other[Underway[m].to] \in Databases
         /\ Underway[m].items \in SUBSET Assets /\ Underway[m].phase \in Promise!Phases
         /\ Promise!Other[Underway[m].to] # Underway[m].to
         /\ Underway[m].to = "vault" <=> Promise!Other[Underway[m].to] = "main"
<1> HIDE DEF Underway
<1> QED BY DEF Promise!TypeOK, Promise!Move, Promise!Sides, Promise!Other, Databases

\* The promise's invariant but for its types, of one item and one move.
VaultIsWhole(i) == Promise!Present("vault", i) => <<"vault", i>> \in Stored
MainIsWhole(i) == Located["main"][i] # "absent" => Promise!Present("vault", i) \/ <<"main", i>> \in Stored
SeenIsWhole(m, i) ==
  Promise!Phase(m, "checked") /\ i \in Underway[m].items =>
    Located[Underway[m].to][i] = "absent" \/ <<Underway[m].to, i>> \in Stored
LEMMA PromiseParts ==
  Promise!Inv <=> /\ Promise!TypeOK
                  /\ \A i \in Assets : VaultIsWhole(i) /\ MainIsWhole(i)
                  /\ \A m \in Transfers : \A i \in Underway[m].items : SeenIsWhole(m, i)
BY DEF Promise!Inv, VaultIsWhole, MainIsWhole, SeenIsWhole

\* A step that only moves on, to anything but a look.
LEMMA OnlyEnters ==
  ASSUME Promise!Inv, NEW m \in Transfers, NEW p \in Promise!Phases \ {"checked"}, Promise!Enter(m, p),
         UNCHANGED <<Located, Stored>>
  PROVE  Promise!Inv'
<1>1. Promise!TypeOK
  BY PromiseParts
<1>2. /\ \A n \in Transfers :
           /\ Underway'[n].to = Underway[n].to /\ Underway'[n].items = Underway[n].items
           /\ Underway'[n].phase = IF n = m THEN p ELSE Underway[n].phase
      /\ Underway' \in [Transfers -> Promise!Move]
  BY <1>1, EnterFields
<1> HIDE DEF Located, Stored, Underway
<1> QED BY <1>1, <1>2 DEF Promise!Inv, Promise!TypeOK, Promise!Phase, Promise!Present

\* Every step keeps the promise's invariant: what goes is spared or was seen whole
\* on the other side, and what was seen whole stays so while it is relied on.
LEMMA PromiseKeeps ==
  ASSUME Promise!Inv, [Promise!Next]_(Promise!vars)
  PROVE  Promise!Inv'
<1>1. /\ Promise!TypeOK
      /\ \A i \in Assets : VaultIsWhole(i) /\ MainIsWhole(i)
      /\ \A m \in Transfers : \A i \in Underway[m].items : SeenIsWhole(m, i)
  BY PromiseParts
<1>2. Promise!Sides = Databases
  BY DEF Promise!Sides, Databases
<1>3. \A m \in Transfers :
        /\ Underway[m].to \in Databases /\ Promise!Other[Underway[m].to] \in Databases
        /\ Underway[m].items \in SUBSET Assets
        /\ Promise!Other[Underway[m].to] # Underway[m].to
        /\ Underway[m].to = "vault" <=> Promise!Other[Underway[m].to] = "main"
  BY <1>1, MoveFields
<1>4. /\ Promise!TypeOK'
      /\ \A i \in Assets : VaultIsWhole(i)' /\ MainIsWhole(i)'
      /\ \A m \in Transfers : \A i \in Assets : SeenIsWhole(m, i)'
      => Promise!Inv'
  <2> HIDE DEF Located, Stored, Underway
  <2> QED BY DEF Promise!Inv, Promise!TypeOK, Promise!Move, Promise!Sides, VaultIsWhole, MainIsWhole, SeenIsWhole
<1>5. CASE UNCHANGED Promise!vars
  <2> HIDE DEF Located, Stored, Underway
  <2> QED BY <1>1, <1>5 DEF Promise!vars, Promise!Inv, Promise!TypeOK, VaultIsWhole, MainIsWhole, SeenIsWhole,
                            Promise!Present, Promise!Phase
<1>6. CASE Promise!Rewrite
  <2> HIDE DEF Located, Stored, Underway
  <2>1. Promise!TypeOK'
    BY <1>1, <1>6 DEF Promise!Rewrite, Promise!TypeOK
  <2>2. \A d \in Databases, i \in Assets : <<d, i>> \in Stored \ Stored' => Promise!Spare(d, i)
    BY <1>2, <1>6 DEF Promise!Rewrite, Promise!Spared
  <2>3. \A i \in Assets : VaultIsWhole(i)' /\ MainIsWhole(i)'
    BY <1>1, <1>6, <2>2 DEF Promise!Rewrite, Promise!Spare, VaultIsWhole, MainIsWhole, Promise!Present, Databases
  <2>4. ASSUME NEW m \in Transfers, NEW i \in Assets PROVE SeenIsWhole(m, i)'
    BY <1>1, <1>3, <1>6, <2>2
    DEF Promise!Rewrite, Promise!Spare, Promise!ReliedOn, SeenIsWhole, Promise!Phase
  <2> QED BY <2>1, <2>3, <2>4, <1>4
<1>7. ASSUME NEW m \in Transfers,
             Promise!Cancel(m) \/ Promise!Doubt(m) \/ Promise!Finish(m) \/ Promise!Close(m)
      PROVE  Promise!Inv'
  <2>1. /\ Promise!Cancel(m) => Promise!Enter(m, "over") /\ UNCHANGED <<Located, Stored>>
        /\ Promise!Doubt(m) => Promise!Enter(m, "arrived") /\ UNCHANGED <<Located, Stored>>
        /\ Promise!Finish(m) => Promise!Enter(m, "closing") /\ UNCHANGED <<Located, Stored>>
        /\ Promise!Close(m) => Promise!Enter(m, "over") /\ UNCHANGED <<Located, Stored>>
    <3> HIDE DEF Located, Stored, Underway
    <3> QED BY DEF Promise!Cancel, Promise!Doubt, Promise!Finish, Promise!Close
  <2>2. /\ "over" \in Promise!Phases \ {"checked"} /\ "arrived" \in Promise!Phases \ {"checked"}
        /\ "closing" \in Promise!Phases \ {"checked"}
    BY DEF Promise!Phases
  <2> QED
    <3>1. CASE Promise!Cancel(m)  BY <2>1, <2>2, <3>1, OnlyEnters
    <3>2. CASE Promise!Doubt(m)  BY <2>1, <2>2, <3>2, OnlyEnters
    <3>3. CASE Promise!Finish(m)  BY <2>1, <2>2, <3>3, OnlyEnters
    <3>4. CASE Promise!Close(m)  BY <2>1, <2>2, <3>4, OnlyEnters
    <3> QED BY <1>7, <3>1, <3>2, <3>3, <3>4
<1>8. ASSUME NEW m \in Transfers, NEW d \in Databases, NEW I \in SUBSET Assets, Promise!Begin(m, d, I)
      PROVE  Promise!Inv'
  <2> HIDE DEF Located, Stored, Underway
  <2>1. Promise!TypeOK'
    BY <1>1, <1>2, <1>8 DEF Promise!Begin, Promise!TypeOK, Promise!Move, Promise!Phases
  <2>2. \A n \in Transfers : n # m => Underway'[n] = Underway[n]
    BY <1>1, <1>8 DEF Promise!Begin, Promise!TypeOK
  <2>3. Underway'[m].phase = "copying"
    BY <1>1, <1>8 DEF Promise!Begin, Promise!TypeOK
  <2> QED BY <1>1, <1>8, <2>1, <2>2, <2>3 DEF Promise!Begin, Promise!Inv, Promise!Phase, Promise!Present,
                                             VaultIsWhole, MainIsWhole, SeenIsWhole
<1>9. ASSUME NEW m \in Transfers, Promise!Arrive(m) PROVE Promise!Inv'
  <2> DEFINE d == Underway[m].to
             I == Underway[m].items
  <2>1. /\ \A i \in I : ~Promise!Engaged(i)
        /\ Promise!Put(d, I, "present") /\ Promise!Enter(m, "arrived")
        /\ d = "main" => \A i \in I : Promise!Present("vault", i)
        /\ Stored' = IF d = "vault" THEN Stored \cup {d} \X I ELSE Stored
    <3> HIDE DEF Located, Stored, Underway
    <3> QED BY <1>9 DEF Promise!Arrive
  <2>2. "present" \in Promise!Places /\ "arrived" \in Promise!Phases /\ I \in SUBSET Assets /\ d \in Databases
    BY <1>3 DEF Promise!Places, Promise!Phases
  <2>3. /\ \A e \in Databases, i \in Assets :
             Located'[e][i] = IF e = d /\ i \in I THEN "present" ELSE Located[e][i]
        /\ Located' \in [Promise!Sides -> [Assets -> Promise!Places]]
    BY <1>1, <2>1, <2>2, PutFields
  <2>4. /\ \A n \in Transfers :
             /\ Underway'[n].to = Underway[n].to /\ Underway'[n].items = Underway[n].items
             /\ Underway'[n].phase = IF n = m THEN "arrived" ELSE Underway[n].phase
        /\ Underway' \in [Transfers -> Promise!Move]
    BY <1>1, <2>1, <2>2, EnterFields
  <2> HIDE DEF Located, Stored, Underway, d, I
  <2>5. Promise!TypeOK'
    BY <1>1, <1>2, <2>1, <2>2, <2>3, <2>4 DEF Promise!TypeOK
  <2>6. \A i \in Assets : VaultIsWhole(i)' /\ MainIsWhole(i)'
    BY <1>1, <2>1, <2>2, <2>3 DEF VaultIsWhole, MainIsWhole, Promise!Present, Databases
  <2>7. ASSUME NEW n \in Transfers, NEW i \in Assets PROVE SeenIsWhole(n, i)'
    <3>1. SUFFICES ASSUME Underway[n].phase = "checked", n # m, i \in Underway[n].items
                   PROVE  SeenIsWhole(n, i)'
      BY <2>4 DEF SeenIsWhole, Promise!Phase
    <3>2. i \notin I
      BY <2>1, <3>1 DEF Promise!Engaged, Promise!Phase
    <3> QED BY <1>1, <1>3, <2>1, <2>2, <2>3, <2>4, <3>1, <3>2 DEF SeenIsWhole, Promise!Phase
  <2> QED BY <2>5, <2>6, <2>7, <1>4
<1>10. ASSUME NEW m \in Transfers, Promise!Check(m) PROVE Promise!Inv'
  <2>1. /\ \A i \in Underway[m].items : <<Underway[m].to, i>> \in Stored
        /\ Promise!Enter(m, "checked") /\ UNCHANGED <<Located, Stored>>
    <3> HIDE DEF Located, Stored, Underway
    <3> QED BY <1>10 DEF Promise!Check
  <2>2. "checked" \in Promise!Phases
    BY DEF Promise!Phases
  <2>3. /\ \A n \in Transfers :
             /\ Underway'[n].to = Underway[n].to /\ Underway'[n].items = Underway[n].items
             /\ Underway'[n].phase = IF n = m THEN "checked" ELSE Underway[n].phase
        /\ Underway' \in [Transfers -> Promise!Move]
    BY <1>1, <2>1, <2>2, EnterFields
  <2> HIDE DEF Located, Stored, Underway
  <2> QED BY <1>1, <2>1, <2>3 DEF Promise!Inv, Promise!TypeOK, Promise!Phase, Promise!Present,
                                  VaultIsWhole, MainIsWhole, SeenIsWhole
<1>11. ASSUME NEW m \in Transfers, Promise!Release(m) \/ Promise!Remove(m) PROVE Promise!Inv'
  <2> DEFINE d == Promise!Other[Underway[m].to]
             I == {i \in Underway[m].items : Located[d][i] # "absent"}
  <2>1. /\ Underway[m].phase = "checked"
        /\ \/ Promise!Put(d, I, "condemned") /\ UNCHANGED <<Stored, Underway>>
           \/ Promise!Remove(m)
    <3> HIDE DEF Located, Stored, Underway
    <3> QED BY <1>11 DEF Promise!Release, Promise!Remove, Promise!Phase
  <2>2. /\ d \in Databases /\ Underway[m].to \in Databases /\ d # Underway[m].to
        /\ Underway[m].to = "vault" <=> d = "main"
        /\ \A i \in I : i \in Underway[m].items /\ Located[d][i] # "absent"
        /\ "condemned" \in Promise!Places /\ "absent" \in Promise!Places /\ "removed" \in Promise!Phases
    BY <1>3 DEF Promise!Places, Promise!Phases
  <2> HIDE DEF d, I
  <2>3. CASE Promise!Put(d, I, "condemned") /\ UNCHANGED <<Stored, Underway>>
    <3>1. /\ \A e \in Databases, i \in Assets :
               Located'[e][i] = IF e = d /\ i \in I THEN "condemned" ELSE Located[e][i]
          /\ Located' \in [Promise!Sides -> [Assets -> Promise!Places]]
      BY <1>1, <2>2, <2>3, PutFields
    <3> HIDE DEF Located, Stored, Underway
    <3>2. Promise!TypeOK'
      BY <1>1, <2>3, <3>1 DEF Promise!TypeOK
    <3>3. ASSUME NEW i \in Assets PROVE VaultIsWhole(i)' /\ MainIsWhole(i)'
      BY <1>1, <2>1, <2>2, <2>3, <3>1
      DEF VaultIsWhole, MainIsWhole, SeenIsWhole, Promise!Present, Promise!Phase, Databases
    <3>4. ASSUME NEW n \in Transfers, NEW i \in Assets PROVE SeenIsWhole(n, i)'
      BY <1>1, <1>3, <2>2, <2>3, <3>1 DEF SeenIsWhole, Promise!Phase
    <3> QED BY <3>2, <3>3, <3>4, <1>4
  <2>4. CASE Promise!Remove(m)
    <3>0. /\ Promise!Enter(m, "removed")
          /\ Stored' = IF d = "vault" THEN Stored \ ({d} \X Underway[m].items) ELSE Stored
          /\ \E J \in SUBSET {i \in Assets \ Underway[m].items : d = "main" /\ Located["main"][i] = "condemned"} :
               Located' = [Located EXCEPT ![d] =
                             [i \in Assets |-> IF i \in Underway[m].items THEN "absent"
                                               ELSE IF i \in J THEN "present" ELSE Located[d][i]]]
      <4> HIDE DEF Located, Stored, Underway
      <4> QED BY <2>4 DEF Promise!Remove, d
    <3>1. /\ \A e \in Databases, i \in Assets :
               \/ Located'[e][i] = IF e = d /\ i \in Underway[m].items THEN "absent" ELSE Located[e][i]
               \/ d = "main" /\ e = "main" /\ Located["main"][i] = "condemned" /\ Located'["main"][i] = "present"
          /\ Located' \in [Promise!Sides -> [Assets -> Promise!Places]]
      <4> HIDE DEF Located, Stored, Underway
      <4>1. Located \in [Databases -> [Assets -> Promise!Places]] /\ "present" \in Promise!Places
        BY <1>1, <1>2 DEF Promise!TypeOK, Promise!Places
      <4>2. PICK J \in SUBSET {i \in Assets \ Underway[m].items : d = "main" /\ Located["main"][i] = "condemned"} :
              Located' = [Located EXCEPT ![d] =
                            [i \in Assets |-> IF i \in Underway[m].items THEN "absent"
                                              ELSE IF i \in J THEN "present" ELSE Located[d][i]]]
        BY <3>0
      <4>3. Located' \in [Databases -> [Assets -> Promise!Places]]
        BY <2>2, <4>1, <4>2
      <4>4. /\ \A e \in Databases \ {d} : Located'[e] = Located[e]
            /\ \A i \in Assets : Located'[d][i] = IF i \in Underway[m].items THEN "absent"
                                                  ELSE IF i \in J THEN "present" ELSE Located[d][i]
        BY <2>2, <4>1, <4>2
      <4> QED BY <1>2, <4>3, <4>4
    <3>2. /\ \A n \in Transfers :
               /\ Underway'[n].to = Underway[n].to /\ Underway'[n].items = Underway[n].items
               /\ Underway'[n].phase = IF n = m THEN "removed" ELSE Underway[n].phase
          /\ Underway' \in [Transfers -> Promise!Move]
      BY <1>1, <2>2, <3>0, EnterFields
    <3> HIDE DEF Located, Stored, Underway
    <3>3. Promise!TypeOK'
      BY <1>1, <3>0, <3>1, <3>2 DEF Promise!TypeOK
    <3>4. ASSUME NEW i \in Assets PROVE VaultIsWhole(i)' /\ MainIsWhole(i)'
      BY <1>1, <2>1, <2>2, <3>0, <3>1
      DEF VaultIsWhole, MainIsWhole, SeenIsWhole, Promise!Present, Promise!Phase, Databases
    <3>5. ASSUME NEW n \in Transfers, NEW i \in Assets PROVE SeenIsWhole(n, i)'
      BY <1>1, <1>3, <2>2, <3>0, <3>1, <3>2 DEF SeenIsWhole, Promise!Phase
    <3> QED BY <3>3, <3>4, <3>5, <1>4
  <2> QED BY <2>1, <2>3, <2>4
<1>12. ASSUME NEW d \in Databases, NEW I \in SUBSET Assets, Promise!Upload(d, I) PROVE Promise!Inv'
  <2>1. /\ \A m \in Transfers : I \cap Underway[m].items = {}
        /\ Promise!Put(d, I, "present") /\ Stored' = Stored \cup {d} \X I /\ UNCHANGED Underway
        /\ \A e \in Databases, i \in I : Located[e][i] = "absent"
    <3> HIDE DEF Located, Stored, Underway
    <3> QED BY <1>2, <1>12 DEF Promise!Upload
  <2>2. /\ \A e \in Databases, i \in Assets :
             Located'[e][i] = IF e = d /\ i \in I THEN "present" ELSE Located[e][i]
        /\ Located' \in [Promise!Sides -> [Assets -> Promise!Places]]
    <3>1. "present" \in Promise!Places
      BY DEF Promise!Places
    <3> QED BY <1>1, <2>1, <3>1, PutFields
  <2> HIDE DEF Located, Stored, Underway
  <2>3. Promise!TypeOK'
    BY <1>1, <1>2, <2>1, <2>2 DEF Promise!TypeOK
  <2>4. ASSUME NEW i \in Assets PROVE VaultIsWhole(i)' /\ MainIsWhole(i)'
    BY <1>1, <2>1, <2>2 DEF VaultIsWhole, MainIsWhole, Promise!Present, Databases
  <2>5. ASSUME NEW n \in Transfers, NEW i \in Assets PROVE SeenIsWhole(n, i)'
    BY <1>1, <1>3, <2>1, <2>2 DEF SeenIsWhole, Promise!Phase
  <2> QED BY <2>3, <2>4, <2>5, <1>4
<1>13. ASSUME NEW i \in Assets, Promise!Condemn(i) \/ Promise!Reprieve(i) \/ Promise!Erase(i) PROVE Promise!Inv'
  <2>1. PICK p \in Promise!Places :
          /\ Promise!Put("main", {i}, p) /\ UNCHANGED Underway
          /\ Located["main"][i] # "absent"
          /\ Stored' = IF p = "absent" THEN Stored \ {<<"main", i>>} ELSE Stored
    <3> HIDE DEF Located, Stored, Underway
    <3> QED BY <1>13 DEF Promise!Condemn, Promise!Reprieve, Promise!Erase, Promise!Present, Promise!Places
  <2>2. /\ \A e \in Databases, j \in Assets :
             Located'[e][j] = IF e = "main" /\ j \in {i} THEN p ELSE Located[e][j]
        /\ Located' \in [Promise!Sides -> [Assets -> Promise!Places]]
    BY <1>1, <2>1, PutFields DEF Databases
  <2> HIDE DEF Located, Stored, Underway
  <2>3. Promise!TypeOK'
    BY <1>1, <2>1, <2>2 DEF Promise!TypeOK
  <2>4. ASSUME NEW j \in Assets PROVE VaultIsWhole(j)' /\ MainIsWhole(j)'
    BY <1>1, <2>1, <2>2 DEF VaultIsWhole, MainIsWhole, Promise!Present, Databases
  <2>5. ASSUME NEW n \in Transfers, NEW j \in Assets PROVE SeenIsWhole(n, j)'
    BY <1>1, <1>3, <2>1, <2>2 DEF SeenIsWhole, Promise!Phase
  <2> QED BY <2>3, <2>4, <2>5, <1>4
<1>14. CASE Promise!Next
  <2>1. CASE Promise!Rewrite  BY <1>6, <2>1
  <2>2. CASE \E m \in Transfers :
               \/ \E d \in Databases, I \in SUBSET Assets : Promise!Begin(m, d, I)
               \/ Promise!Cancel(m) \/ Promise!Arrive(m) \/ Promise!Check(m) \/ Promise!Doubt(m)
               \/ Promise!Release(m) \/ Promise!Remove(m) \/ Promise!Finish(m) \/ Promise!Close(m)
    BY <1>7, <1>8, <1>9, <1>10, <1>11, <2>2
  <2>3. CASE \E d \in Databases, I \in SUBSET Assets : Promise!Upload(d, I)  BY <1>12, <2>3
  <2>4. CASE \E i \in Assets : Promise!Condemn(i) \/ Promise!Reprieve(i) \/ Promise!Erase(i)
    BY <1>13, <2>4
  <2> QED BY <1>2, <1>14, <2>1, <2>2, <2>3, <2>4 DEF Promise!Next
<1> QED BY <1>5, <1>14

\* The promise keeps its invariant, and its invariant that nothing is lost.
LEMMA PromiseHolds == Promise!Spec => []Promise!Inv
<1>1. Promise!Init => Promise!Inv
  <2> HIDE DEF Located, Stored, Underway
  <2> QED BY DEF Promise!Init, Promise!Inv, Promise!TypeOK, Promise!NoMove, Promise!Move, Promise!Sides,
                 Promise!Places, Promise!Phases, Promise!Phase, Promise!Present
<1>2. Promise!Inv /\ [Promise!Next]_(Promise!vars) => Promise!Inv'
  BY PromiseKeeps
<1> QED BY <1>1, <1>2, PTL DEF Promise!Spec

LEMMA WholeSomewhere == Promise!Inv => Promise!NothingLost
<1> HIDE DEF Located, Stored, Underway
<1> QED BY DEF Promise!Inv, Promise!NothingLost, Promise!Present, Promise!Sides

\* The promise kept: an asset that either database shows has its bytes whole on
\* a side whose database still has its row, in a blob or its marked staging.
THEOREM TransfersLoseNothing == OneAtATime => (Spec => []Promise!NothingLost)
BY TransfersImplementMove, PromiseHolds, WholeSomewhere, PTL DEF ImplementsMove

-----------------------------------------------------------------------------
(* Until a restore opens it, a journal is closed.  And no database has two *)
(* active originals of the same bytes: the source's rows go unopposed.     *)

\* A step that writes no journal.
LEMMA ClosedStays ==
  ASSUME TypeInv, JournalIsClosed, Shrinks, \A d \in Databases : Refers(d, Journaled(d))
  PROVE  JournalIsClosed'
<1> SUFFICES ASSUME NEW k \in {"import", "export"}, NEW t \in Journals(k)', NEW a \in transfer'[t].ids,
                    NEW b \in Dependents(row[From[k]], a)'
             PROVE  b \in transfer'[t].ids
  BY DEF JournalIsClosed, Closed
<1> DEFINE d == From[k]
<1>1. t \in Journals(k) /\ transfer'[t].ids = transfer[t].ids /\ d \in Databases /\ t \in Transfers
  BY DEF Journals, Shrinks, From, Databases
<1>2. a \in Assets /\ a # NoAsset
  <2>1. transfer[t] \in Transfer
    BY <1>1, TypesOf
  <2> QED BY <1>1, <2>1, TransferAssumption DEF Transfer
<1>3. a \in Journaled(d)
  BY <1>1 DEF Journaled, Journals
<1>4. b \in Assets /\ Exists(d, b)' /\ row'[d][b].duplicateOf = a
  BY DEF Dependents, Exists
<1>5. Refers(d, Journaled(d))
  BY <1>1
<1> HIDE DEF d, Exists, Journaled
<1>6. Exists(d, b) /\ row[d][b].duplicateOf = a
  BY <1>2, <1>3, <1>4, <1>5 DEF Refers
<1>7. b \in Dependents(row[d], a)
  BY <1>4, <1>6 DEF Dependents, Exists
<1> QED BY <1>1, <1>7 DEF JournalIsClosed, Closed, d

\* Every step but a restore.
LEMMA OthersClose ==
  ASSUME TransferInv, [Next]_vars, Others, JournalIsClosed
  PROVE  JournalIsClosed'
<1>1. TypeInv /\ CopyInv /\ ReconInv /\ LeasedIsClosed /\ OneJournal
  BY DEF TransferInv
<1>2. ASSUME NEW r \in Requests, Open(r) PROVE JournalIsClosed'
  <2>1. \A k \in {"import", "export"} : \A t \in Journals(k)' :
          \/ t \in Journals(k) /\ transfer'[t].ids = transfer[t].ids
          \/ \A a \in transfer'[t].ids : Dependents(row[From[k]], a) \subseteq transfer'[t].ids
    BY <1>1, <1>2, OpenCloses
  <2>2. UNCHANGED row
    BY <1>2 DEF Open
  <2> QED BY <2>1, <2>2 DEF JournalIsClosed, Closed
<1>3. CASE \A r \in Requests : ~Open(r)
  <2>1. Shrinks
    BY <1>1, <1>3, NextShrinks
  <2>2. CASE \A r \in Requests : ~Lease(r) /\ ~Drop(r)
    BY <1>1, <2>1, <2>2, NextRefers, ClosedStays
  <2>3. ASSUME NEW r \in Requests, Lease(r) PROVE JournalIsClosed'
    BY <1>1, <2>1, <2>3, LeaseRefers, ClosedStays
  <2>4. ASSUME NEW r \in Requests, Drop(r) PROVE JournalIsClosed'
    <3>1. request[r].step = "drop" /\ request[r].step \in Deleting
      BY <2>4, DropCases
    <3>2. CASE UNCHANGED row
      BY <1>1, <2>1, <3>2, QuietRefers, ClosedStays
    <3>3. CASE Drops(r)
      <4>1. ASSUME NEW k \in {"import", "export"}, NEW t \in Journals(k)', NEW a \in transfer'[t].ids
            PROVE  Dependents(row'[From[k]], a) \subseteq transfer'[t].ids
        <5>1. t \in Journals(k) /\ transfer'[t].ids = transfer[t].ids /\ From[k] \in Databases
          BY <2>1 DEF Journals, Shrinks, From, Databases
        <5>2. CASE From[k] = From[Kind(r)]
          <6>1. t = Now(r)
            BY <1>1, <3>1, <5>1, <5>2, DeletesFrom
          <6>2. \A b \in Assets : row'[From[k]][b].duplicateOf # a
            BY <1>1, <3>1, <3>3, <5>1, <5>2, <6>1, SourceDropped DEF Moving
          <6> QED BY <6>2 DEF Dependents
        <5>3. CASE From[k] # From[Kind(r)]
          <6>1. row'[From[k]] = row[From[k]]
            BY <1>1, <3>1, <3>3, <5>1, <5>3, SourceDropped
          <6> QED BY <5>1, <6>1 DEF JournalIsClosed, Closed
        <5> QED BY <5>2, <5>3
      <4> QED BY <4>1 DEF JournalIsClosed, Closed
    <3> QED BY <2>4, <3>2, <3>3, DropCases
  <2> QED BY <2>2, <2>3, <2>4
<1> QED BY <1>2, <1>3

LEMMA NextUnique ==
  ASSUME TransferInv, [Next]_vars, UniqueRows
  PROVE  UniqueRows'
<1> USE DEF TransferInv
<1> SUFFICES ASSUME NEW d \in Databases PROVE UniquePrimaries(row'[d])
  BY DEF UniqueRows
<1>1. UniquePrimaries(row[d])
  BY DEF UniqueRows
<1> HIDE DEF UniquePrimaries
<1>2. CASE \A r \in Requests : ~Lease(r) /\ ~Drop(r)
  BY <1>1, <1>2, NextRefers
<1>3. ASSUME NEW r \in Requests, Lease(r) PROVE UniquePrimaries(row'[d])
  BY <1>1, <1>3, LeaseRefers
<1>4. ASSUME NEW r \in Requests, Drop(r) PROVE UniquePrimaries(row'[d])
  BY <1>1, <1>4, DropCases, SourceDropped
<1> QED BY <1>2, <1>3, <1>4

LEMMA InitUnique == Init => JournalIsClosed /\ UniqueRows
<1> SUFFICES ASSUME Init PROVE JournalIsClosed /\ UniqueRows
  OBVIOUS
<1>1. \A k : Journals(k) = {}
  BY DEF Init, NoTransfer, Journals
<1>2. \A d \in Databases, a \in Assets : row[d][a].lifecycle # "active"
  BY DEF Init, NoRow
<1> QED BY <1>1, <1>2 DEF JournalIsClosed, UniqueRows, UniquePrimaries

-----------------------------------------------------------------------------
(* Crashes and ends of session alone leave what the next unlock completes. *)
(* Until an operation fails or the library purges an asset, at most one    *)
(* transfer is pending, and its assets are where completion looks for them.*)

\* The invariant gives the property of the run: a blob of a marked transfer is
\* where CopyInv says, and no other transfer's marker keeps it staged.
LEMMA PromiseCompletable == TypeInv /\ CopyInv /\ PromiseInv => CommittedIsCompletable
<1> SUFFICES ASSUME TypeInv, CopyInv, PromiseInv, NEW t \in Transfers, transfer[t].marker,
                    NEW a \in transfer[t].ids
             PROVE  IF transfer[t].kind = "export" THEN Gets("main", a) /\ plain[a] = "whole"
                    ELSE Gets("vault", a) /\ (BlobHere(a) \/ (blobRow[a] = t /\ <<t, a>> \in staged))
  BY DEF CommittedIsCompletable
<1>1. IF transfer[t].kind = "export" THEN Gets("main", a) /\ plain[a] = "whole" ELSE Gets("vault", a)
  BY DEF PromiseInv, Kept, Promised
<1>2. CASE transfer[t].kind # "export"
  <2>1. transfer[t] \in Transfer
    BY TypesOf
  <2>2. a \in Assets
    BY <2>1 DEF Transfer
  <2>3. Copied(a)
    BY <1>1, <1>2, <2>2 DEF CopyInv, HasBytes, VaultRowsHaveBytes
  <2>4. blobRow[a] \in Transfers /\ blobRow[a] # 0
    BY <2>3 DEF Copied, Transfers
  <2>5. CASE <<blobRow[a], a>> \in blobs
    BY <1>1, <1>2, <2>4, <2>5 DEF BlobHere
  <2>6. CASE <<blobRow[a], a>> \in staged /\ transfer[blobRow[a]].marker
    <3>1. t \in Pending /\ blobRow[a] \in Pending
      BY <2>4, <2>6 DEF Pending
    <3>2. blobRow[a] = t
      BY <3>1 DEF PromiseInv, Kept, OnePending
    <3> QED BY <1>1, <1>2, <2>6, <3>2
  <2> QED BY <2>3, <2>5, <2>6 DEF Copied
<1> QED BY <1>1, <1>2

\* With one thread, its record decides.
LEMMA OneKeepsPromise ==
  ASSUME OneAtATime, NEW r \in Requests, Kept', Alone(request[r])', Provided(request[r])'
  PROVE  PromiseInv'
<1>1. \A s \in Requests : s = r
  BY DEF OneAtATime
<1>2. \A s \in Requests : Alone(request[s])' /\ Provided(request[s])'
  BY <1>1
<1> QED BY <1>2 DEF PromiseInv

\* No transfer is begun or committed.
NoneBegun ==
  /\ Pending' \subseteq Pending
  /\ \A t \in Transfers : /\ transfer'[t].kind = transfer[t].kind /\ transfer'[t].ids = transfer[t].ids
                          /\ transfer'[t].marker => transfer[t].marker

\* ... as in a step that leaves the transfers alone.
LEMMA SameTransfersNone == UNCHANGED transfer => NoneBegun
BY DEF NoneBegun, Pending

\* A step that writes neither rows nor files of the library.
LEMMA QuietPromises ==
  ASSUME Kept, NoneBegun, UNCHANGED <<row, plain>>
  PROVE  Kept'
<1>1. OnePending'
  BY DEF Kept, OnePending, NoneBegun
<1>2. Promised'
  BY DEF Kept, Promised, NoneBegun, Gets
<1>3. TombstonesAreLeased'
  BY DEF Kept, TombstonesAreLeased, Gets
<1> QED BY <1>1, <1>2, <1>3 DEF Kept

\* A request's own transfer is the one in hand.
LEMMA OwnIsInHand ==
  ASSUME TypeInv, PromiseInv, NEW r \in Requests, request[r].step \in Handling, request[r].kind \in Kinds
  PROVE  /\ request[r].own = Now(r) /\ request[r].own # 0
         /\ request[r].kind = Kind(r) /\ request[r].ids = Moving(r)
         /\ Pending \subseteq {Now(r)}
         /\ session => request[r].live
         /\ request[r].step \notin {"undo", "unlink"}
         /\ request[r].step \in Committed => transfer[Now(r)].marker
<1>1. Alone(request[r]) /\ Sound(request[r], transfer, created)
  BY DEF PromiseInv, TypeInv, ThreadsAreSound
<1>2. request[r].own # 0
  BY <1>1 DEF Alone
<1>3. request[r].own = request[r].t /\ request[r].kind = transfer[request[r].t].kind
      /\ request[r].ids = transfer[request[r].t].ids
  BY <1>1, <1>2 DEF Sound
<1> HIDE DEF Handling, Pending, Committed
<1> QED BY <1>1, <1>2, <1>3 DEF Alone, Now, Kind, Moving

\* A thread that ends, with nothing pending while there is a session.
LEMMA EndAlone ==
  ASSUME TypeInv, NEW r \in Requests, End(r), session' => Pending' = {}
  PROVE  Alone(request[r])' /\ Provided(request[r])'
<1>1. request'[r] = Idle
  BY Became DEF End
<1>2. request'[r].step = "idle" /\ request'[r].kind = "none"
  BY <1>1, IdleFields
<1>3. "none" \notin Kinds
  BY DEF Kinds
<1> QED BY <1>2, <1>3 DEF Alone, Provided

\* ... and where only its own request could have left something.
LEMMA EndPromises ==
  ASSUME OneAtATime, TypeInv, PromiseInv, NEW r \in Requests, End(r), NoneBegun,
         UNCHANGED <<row, plain, session>>,
         request[r].kind \in Kinds /\ session => Pending' = {}
  PROVE  PromiseInv'
<1>1. Kept' /\ Alone(request[r])
  BY QuietPromises DEF PromiseInv
<1>2. session' => Pending' = {}
  BY <1>1 DEF Alone, NoneBegun
<1> QED BY <1>1, <1>2, EndAlone, OneKeepsPromise

\* A thread that goes on.
LEMMA AloneOn ==
  ASSUME NEW r \in Requests, Alone(request[r]), Alike(request'[r], request[r]),
         request'[r].live = request[r].live, session' = session,
         NoneBegun, request[r].step # "idle", request'[r].step # "idle",
         request'[r].step \in Handling => request[r].step \in Handling,
         request'[r].step \in {"undo", "unlink"} => request[r].step \in {"undo", "unlink"},
         request'[r].step \in Committed =>
           request[r].step \in Committed /\ transfer'[request[r].t].marker = transfer[request[r].t].marker
  PROVE  Alone(request[r])'
<1> HIDE DEF Handling, Pending, Committed, Kinds
<1> QED BY DEF Alone, Alike, NoneBegun

\* ... without having to provide anything new.
LEMMA GoPromises ==
  ASSUME OneAtATime, TypeInv, PromiseInv, NEW r \in Requests, Alike(request'[r], request[r]),
         request'[r].live = request[r].live,
         NoneBegun, UNCHANGED <<row, plain, session>>, request[r].step # "idle",
         request'[r].step \notin {"idle", "open", "stage", "write", "finalize", "validate"},
         request'[r].step \in Handling => request[r].step \in Handling,
         request'[r].step \in {"undo", "unlink"} => request[r].step \in {"undo", "unlink"},
         request'[r].step \in Committed =>
           request[r].step \in Committed /\ transfer'[request[r].t].marker = transfer[request[r].t].marker
  PROVE  PromiseInv'
<1>1. Kept'
  BY QuietPromises DEF PromiseInv
<1>2. Alone(request[r])'
  BY AloneOn DEF PromiseInv
<1>3. Provided(request[r])'
  BY DEF Provided
<1> QED BY <1>1, <1>2, <1>3, OneKeepsPromise

\* The liveness of a handle is not a thread's to change.
LEMMA SameLive ==
  ASSUME TypeInv, NEW r \in Requests, NEW s, NEW a, Go(r, s) \/ Each(r, s) \/ Tick(r, a)
  PROVE  request'[r].live = request[r].live
<1>1. request[r] \in Request
  BY TypesOf
<1>2. \/ request'[r] = [request[r] EXCEPT !.step = s]
      \/ request'[r] = [request[r] EXCEPT !.step = s, !.left = Moving(r)]
      \/ request'[r] = [request[r] EXCEPT !.left = @ \ {a}]
  BY Became DEF Go, Each, Tick
<1> QED BY <1>1, <1>2 DEF Request

\* A thread that is done with a transfer.
LEMMA ReturnPromises ==
  ASSUME OneAtATime, TypeInv, PromiseInv, NEW r \in Requests, request[r].step \in Handling, Return(r),
         NoneBegun, UNCHANGED <<row, plain, session>>,
         Now(r) \notin Pending'
  PROVE  PromiseInv'
<1>1. request[r].kind \in Kinds => request[r].own = Now(r) /\ Pending' = {}
  BY OwnIsInHand DEF NoneBegun
<1>2. CASE End(r)
  BY <1>1, <1>2, EndPromises
<1>3. CASE Go(r, "next")
  <2>1. /\ request'[r].step = "next" /\ Alike(request'[r], request[r])
        /\ request'[r].live = request[r].live
    BY <1>3, GoFields, SameLive
  <2>2. "next" \notin Handling /\ "next" \notin Committed /\ "idle" \notin Handling
    BY DEF Handling, Staging, Undoing, Completing, Deleting, Committed
  <2> HIDE DEF Handling, Committed
  <2> QED BY <2>1, <2>2, GoPromises
<1> QED BY <1>2, <1>3 DEF Return

\* An unlock leaves nothing new.
LEMMA ForeignPromises ==
  ASSUME OneAtATime, PromiseInv, NEW r \in Requests, request[r].kind \notin Kinds,
         request'[r].kind = request[r].kind, request'[r].step \notin {"open", "stage", "write"},
         NoneBegun, session' = session, Kept'
  PROVE  PromiseInv'
<1>1. Alone(request[r])
  BY DEF PromiseInv
<1>2. Alone(request[r])'
  <2> HIDE DEF Pending, Kinds
  <2> QED BY <1>1 DEF Alone, NoneBegun
<1>3. Provided(request[r])'
  BY DEF Provided
<1> QED BY <1>2, <1>3, OneKeepsPromise

\* What a step that touches no table and no file leaves.
LEMMA ReadsPromises ==
  ASSUME PromiseInv, UNCHANGED <<tables, files>>
  PROVE  NoneBegun /\ Kept' /\ Pending' = Pending /\ UNCHANGED <<row, plain, transfer, blobRow, blobs>>
<1>1. UNCHANGED <<row, plain, transfer, blobRow, blobs>>
  BY DEF tables, files
<1> QED BY <1>1, SameTransfersNone, QuietPromises DEF PromiseInv, Pending

\* List: a request's list is empty.
LEMMA ListPromises ==
  ASSUME OneAtATime, TypeInv, PromiseInv, NEW r \in Requests, List(r)
  PROVE  PromiseInv'
<1> DEFINE q == [request[r] EXCEPT !.step = "next", !.todo = Listed(request[r].phase)]
<1>1. /\ request[r] \in Request /\ request[r].step = "list" /\ Become(r, q)
      /\ UNCHANGED <<tables, files, session>>
      /\ Alone(request[r]) /\ Sound(request[r], transfer, created)
  BY TypesOf DEF List, At, PromiseInv, TypeInv, ThreadsAreSound
<1>2. /\ request'[r].step = "next" /\ request'[r].todo = Listed(request[r].phase)
      /\ request'[r].own = request[r].own /\ request'[r].kind = request[r].kind
      /\ request'[r].live = request[r].live
  <2>1. /\ q.step = "next" /\ q.todo = Listed(request[r].phase) /\ q.own = request[r].own
        /\ q.kind = request[r].kind /\ q.live = request[r].live
    BY <1>1 DEF Request
  <2>2. request'[r] = q
    BY <1>1, Became
  <2> QED BY <2>1, <2>2
<1>3. Kept' /\ Pending' = Pending
  BY <1>1, ReadsPromises
<1>4. request[r].kind \in Kinds => Listed(request[r].phase) = {}
  <2>1. SUFFICES ASSUME request[r].kind \in Kinds PROVE Listed(request[r].phase) = {}
    OBVIOUS
  <2>2. request[r].own = 0 /\ Pending \subseteq {0}
    BY <1>1, <2>1 DEF Sound, Alone
  <2>3. Pending = {}
    BY <2>2 DEF Pending, Transfers
  <2> QED BY <2>3 DEF Listed, Journals, Markers, Pending
<1>5. "next" \notin Handling /\ "next" \notin Committed
  BY DEF Handling, Staging, Undoing, Completing, Deleting, Committed
<1>6. Alone(request[r])'
  <2> HIDE DEF Pending, Kinds, Handling, Committed
  <2> QED BY <1>1, <1>2, <1>3, <1>4, <1>5 DEF Alone
<1>7. Provided(request[r])'
  BY <1>2 DEF Provided
<1> QED BY <1>3, <1>6, <1>7, OneKeepsPromise

\* TakeNext: only an unlock has something to take.
LEMMA TakeNextPromises ==
  ASSUME OneAtATime, TypeInv, PromiseInv, NEW r \in Requests, TakeNext(r)
  PROVE  PromiseInv'
<1> DEFINE next(x) == IF transfer[x[1]].marker \/ transfer[x[1]].kind = "ingest"
                      THEN "complete" ELSE "undo"
           q(x) == [request[r] EXCEPT !.todo = @ \ {x}, !.t = x[1], !.state = x[2],
                                      !.left = transfer[x[1]].ids, !.step = next(x)]
<1>1. PICK x \in request[r].todo : Become(r, q(x))
  BY DEF TakeNext
<1>2. /\ request[r] \in Request /\ request[r].step = "next" /\ UNCHANGED <<tables, files, session>>
      /\ Alone(request[r]) /\ Sound(request[r], transfer, created)
  BY TypesOf DEF TakeNext, At, PromiseInv, TypeInv, ThreadsAreSound
<1>3. request[r].kind \notin Kinds
  BY <1>1, <1>2 DEF Sound, Alone
<1>4. next(x) \in {"complete", "undo"}
  OBVIOUS
<1>5. request'[r].step = next(x) /\ request'[r].kind = request[r].kind
  <2> DEFINE p == q(x)
  <2>1. p.step = next(x) /\ p.kind = request[r].kind
    <3> HIDE DEF next
    <3> QED BY <1>2 DEF Request
  <2>2. request'[r] = p
    BY <1>1, Became
  <2> QED BY <2>1, <2>2
<1> HIDE DEF next
<1> QED BY <1>2, <1>3, <1>4, <1>5, ReadsPromises, ForeignPromises

\* NextList: a request begins its own transfer after the lists.
LEMMA NextListPromises ==
  ASSUME OneAtATime, TypeInv, PromiseInv, NEW r \in Requests, NextList(r)
  PROVE  PromiseInv'
<1>1. PICK step \in {"sweep", "list", "issue", "prepare"}, phase \in Phases :
        Become(r, [request[r] EXCEPT !.step = step, !.phase = phase])
  BY DEF NextList, Phases
<1> DEFINE q == [request[r] EXCEPT !.step = step, !.phase = phase]
<1>2. /\ request[r] \in Request /\ request[r].step = "next" /\ UNCHANGED <<tables, files, session>>
      /\ Alone(request[r])
  BY TypesOf DEF NextList, At, PromiseInv
<1>3. /\ request'[r].step = step /\ request'[r].todo = request[r].todo
      /\ request'[r].own = request[r].own /\ request'[r].kind = request[r].kind
      /\ request'[r].live = request[r].live
  <2>1. /\ q.step = step /\ q.todo = request[r].todo /\ q.own = request[r].own
        /\ q.kind = request[r].kind /\ q.live = request[r].live
    BY <1>2 DEF Request
  <2>2. request'[r] = q
    BY <1>1, Became
  <2> QED BY <2>1, <2>2
<1>4. Kept' /\ Pending' = Pending
  BY <1>2, ReadsPromises
<1>5. step \notin Handling /\ step \notin Committed
  BY DEF Handling, Staging, Undoing, Completing, Deleting, Committed
<1>6. Alone(request[r])'
  <2> HIDE DEF Pending, Kinds, Handling, Committed
  <2> QED BY <1>2, <1>3, <1>4, <1>5 DEF Alone
<1>7. Provided(request[r])'
  BY <1>3 DEF Provided
<1> QED BY <1>4, <1>6, <1>7, OneKeepsPromise

\* Sweep and Sweeping: only an unlock sweeps.
LEMMA SweepsPromise ==
  ASSUME OneAtATime, TypeInv, ReconInv, PromiseInv, NEW r \in Requests, Sweep(r) \/ Sweeping(r)
  PROVE  PromiseInv'
<1>1. /\ request[r] \in Request /\ request[r].step \in Sweeps
      /\ UNCHANGED <<tables, plain, session>> /\ Listing(request[r])
  BY TypesOf DEF Sweep, Sweeping, At, Sweeps, files, ReconInv, Orderly
<1>2. request[r].kind \notin Kinds
  BY <1>1 DEF Listing, Kinds
<1>3. request'[r].step \in {"sweeping", "list"} /\ request'[r].kind = request[r].kind
  <2>1. CASE Sweep(r)
    <3> DEFINE named == {<<t, "none">> : t \in Markers("import") \cup Markers("ingest")
                                                 \cup Journals("export")}
               q == [request[r] EXCEPT !.step = "sweeping", !.todo = named]
    <3>1. q.step = "sweeping" /\ q.kind = request[r].kind
      <4> HIDE DEF named
      <4> QED BY <1>1 DEF Request
    <3>2. request'[r] = q
      BY <2>1, Became DEF Sweep
    <3> QED BY <3>1, <3>2
  <2>2. CASE Sweeping(r)
    <3> DEFINE q == [request[r] EXCEPT !.step = "list", !.todo = {}]
    <3>1. q.step = "list" /\ q.kind = request[r].kind
      BY <1>1 DEF Request
    <3>2. request'[r] = q
      BY <2>2, Became DEF Sweeping
    <3> QED BY <3>1, <3>2
  <2> QED BY <2>1, <2>2
<1>5. UNCHANGED <<row, transfer>>
  BY <1>1 DEF tables
<1>6. Kept' /\ NoneBegun
  BY <1>1, <1>5, SameTransfersNone, QuietPromises DEF PromiseInv
<1> QED BY <1>1, <1>2, <1>3, <1>6, ForeignPromises

\* What only the moment of a session changes.
LEMMA RevokedPromises ==
  ASSUME TypeInv, PromiseInv, UNCHANGED <<tables, files>>, session' => Pending = {},
         \A s \in Requests : \/ request'[s] = Idle
                             \/ ~session' /\ request'[s] = request[s]
                             \/ ~session' /\ request'[s] = [request[s] EXCEPT !.live = FALSE]
  PROVE  PromiseInv'
<1>1. Kept' /\ Pending' = Pending /\ UNCHANGED <<plain, transfer, blobRow, blobs>>
  BY ReadsPromises
<1>2. ASSUME NEW s \in Requests PROVE Alone(request[s])' /\ Provided(request[s])'
  <2>1. request[s] \in Request /\ Alone(request[s]) /\ Provided(request[s])
    BY TypesOf DEF PromiseInv
  <2>2. CASE request'[s] = Idle
    <3>1. request'[s].step = "idle" /\ request'[s].kind = "none" /\ "none" \notin Kinds
      BY <2>2, IdleFields DEF Kinds
    <3> QED BY <1>1, <3>1 DEF Alone, Provided
  <2>3. CASE /\ ~session'
             /\ request'[s] = request[s] \/ request'[s] = [request[s] EXCEPT !.live = FALSE]
    <3>1. LET p == request'[s] q == request[s] IN
            /\ p.step = q.step /\ p.t = q.t /\ p.todo = q.todo /\ p.ids = q.ids /\ p.kind = q.kind
            /\ p.own = q.own /\ p.left = q.left /\ p.file = q.file /\ p.rows = q.rows
      BY <2>1, <2>3 DEF Request
    <3>2. Alone(request[s])'
      <4> HIDE DEF Pending, Kinds, Handling, Committed
      <4> QED BY <1>1, <2>1, <2>3, <3>1 DEF Alone
    <3>3. Provided(request[s])'
      BY <1>1, <2>1, <3>1 DEF Provided, BlobHere
    <3> QED BY <3>2, <3>3
  <2> QED BY <1>2, <2>2, <2>3
<1> QED BY <1>1, <1>2 DEF PromiseInv

\* Issue: nothing is pending.
LEMMA IssuePromises ==
  ASSUME OneAtATime, TypeInv, ReconInv, PromiseInv, NEW r \in Requests, Issue(r)
  PROVE  PromiseInv'
<1>1. Idle \in Request
  BY IdleIsRequest
<1>2. request \in [Requests -> Request] /\ request' = Revoked([request EXCEPT ![r] = Idle])
  BY TypesOf DEF Issue
<1> DEFINE old == [request EXCEPT ![r] = Idle]
<1>3. \A s \in Requests : s = r /\ old[s] = Idle
  BY <1>2 DEF OneAtATime
<1>4. [Idle EXCEPT !.live = FALSE] = Idle
  <2>1. \A q \in Request : q.live = FALSE => [q EXCEPT !.live = FALSE] = q
    BY DEF Request
  <2>2. Idle.live = FALSE
    BY DEF Idle
  <2> QED BY <1>1, <2>1, <2>2
<1>5. \A s \in Requests : request'[s] = IF old[s].kind = "unlock" THEN old[s]
                                        ELSE [old[s] EXCEPT !.live = FALSE]
  <2> HIDE DEF old
  <2> QED BY <1>2 DEF Revoked, old
<1> HIDE DEF old
<1>6. \A s \in Requests : request'[s] = Idle
  BY <1>3, <1>4, <1>5
<1>7. UNCHANGED <<tables, files>> /\ Pending = {}
  BY ReconciledAtIssue DEF Issue, IssuedIsReconciled
<1> QED BY <1>6, <1>7, RevokedPromises

\* Lock,
LEMMA LockPromises ==
  ASSUME TypeInv, PromiseInv, Lock
  PROVE  PromiseInv'
<1>1. ~session' /\ UNCHANGED <<tables, files>> /\ request' = Revoked(request)
  BY DEF Lock
<1>2. \A s \in Requests : request'[s] = request[s] \/ request'[s] = [request[s] EXCEPT !.live = FALSE]
  BY <1>1 DEF Revoked
<1> QED BY <1>1, <1>2, RevokedPromises

\* ... and Crash.
LEMMA CrashPromises ==
  ASSUME TypeInv, PromiseInv, Crash
  PROVE  PromiseInv'
<1>1. ~session' /\ UNCHANGED <<tables, files>> /\ \A s \in Requests : request'[s] = Idle
  BY DEF Crash
<1> QED BY <1>1, RevokedPromises

\* Only an unlock takes back what is not its own.
LEMMA UndoingIsForeign ==
  ASSUME TypeInv, CopyInv, PromiseInv, NEW r \in Requests, request[r].step \in {"undo", "unlink"}
  PROVE  /\ request[r].kind \notin Kinds /\ request[r] \in Request
         /\ Now(r) \in Pending /\ \A t \in Transfers : ~transfer[t].marker
<1>1. /\ request[r] \in Request /\ Alone(request[r]) /\ Stands(request[r], transfer)
      /\ Holds(request[r]) /\ Sound(request[r], transfer, created)
  BY TypesOf DEF PromiseInv, CopyInv, Fine, TypeInv, ThreadsAreSound
<1>2. request[r].step \in Undoing /\ request[r].step \in Handling \ {"clear"}
  BY DEF Undoing, Handling
<1>3. /\ ~transfer[Now(r)].marker /\ transfer[Now(r)].kind # "ingest"
      /\ transfer[Now(r)].kind = "ingest" \/ transfer[Now(r)].state # "none"
  <2> HIDE DEF Handling, Undoing
  <2> QED BY <1>1, <1>2 DEF Holds, Sound, Stands, Alive, Now
<1>4. Now(r) \in Transfers
  BY <1>2, InHand
<1>5. Now(r) \in Pending
  BY <1>3, <1>4 DEF Pending
<1>6. ASSUME NEW t \in Transfers, transfer[t].marker PROVE FALSE
  <2>1. t \in Pending
    BY <1>6 DEF Pending
  <2>2. t = Now(r)
    BY <1>5, <2>1 DEF PromiseInv, Kept, OnePending
  <2> QED BY <1>3, <1>6, <2>2
<1> QED BY <1>1, <1>5, <1>6 DEF Alone

\* While nothing is marked, files may go.
LEMMA NothingMarked ==
  ASSUME PromiseInv, NoneBegun, UNCHANGED row, \A t \in Transfers : ~transfer[t].marker
  PROVE  Kept'
<1>1. OnePending'
  BY DEF PromiseInv, Kept, OnePending, NoneBegun
<1>2. Promised'
  BY DEF Promised, NoneBegun
<1>3. TombstonesAreLeased'
  BY DEF PromiseInv, Kept, TombstonesAreLeased, Gets
<1> QED BY <1>1, <1>2, <1>3 DEF Kept

\* UndoImport, RollbackLook and Unlink.
LEMMA UndoesPromise ==
  ASSUME OneAtATime, TypeInv, CopyInv, PromiseInv, NEW r \in Requests,
         UndoImport(r) \/ RollbackLook(r) \/ Unlink(r)
  PROVE  PromiseInv'
<1>1. request[r].step \in {"undo", "unlink"} /\ UNCHANGED <<row, transfer, session>>
  BY DEF UndoImport, RollbackLook, Unlink, At, tables
<1>2. /\ request[r].kind \notin Kinds /\ request[r] \in Request
      /\ \A t \in Transfers : ~transfer[t].marker
  BY <1>1, UndoingIsForeign
<1>3. NoneBegun /\ Kept'
  BY <1>1, <1>2, SameTransfersNone, NothingMarked
<1>4. SUFFICES PromiseInv' \/ (/\ request'[r].kind = request[r].kind
                               /\ request'[r].step \notin {"open", "stage", "write"})
  BY <1>1, <1>2, <1>3, ForeignPromises
<1>5. CASE Go(r, "forget") \/ \E a : Tick(r, a)
  BY <1>1, <1>5, GoFields, TickFields DEF Alike
<1>6. ASSUME NEW step \in {"undo", "unlink"}, NEW left, NEW file,
             Become(r, [request[r] EXCEPT !.step = step, !.left = left, !.file = file])
      PROVE  request'[r].kind = request[r].kind /\ request'[r].step = step
  <2> DEFINE q == [request[r] EXCEPT !.step = step, !.left = left, !.file = file]
  <2>1. q.step = step /\ q.kind = request[r].kind
    BY <1>2 DEF Request
  <2>2. request'[r] = q
    BY <1>6, Became
  <2> QED BY <2>1, <2>2
<1>7. CASE \E a : Become(r, [request[r] EXCEPT !.step = "unlink", !.file = a])
  <2>1. PICK a : Become(r, [request[r] EXCEPT !.step = "unlink", !.file = a])
    BY <1>7
  <2> DEFINE q == [request[r] EXCEPT !.step = "unlink", !.file = a]
  <2>2. q.step = "unlink" /\ q.kind = request[r].kind
    BY <1>2 DEF Request
  <2>3. request'[r] = q
    BY <2>1, Became
  <2> QED BY <2>2, <2>3
<1>8. CASE End(r)
  <2>1. session' => Pending' = {}
    BY <1>1, <1>2, <1>3 DEF PromiseInv, Alone, NoneBegun
  <2> QED BY <1>3, <1>8, <2>1, EndAlone, OneKeepsPromise
<1>9. CASE Unlink(r)
  <2>1. Become(r, [request[r] EXCEPT !.step = "undo", !.left = @ \ {request[r].file}, !.file = NoAsset])
    BY <1>9 DEF Unlink
  <2>2. Become(r, [request[r] EXCEPT !.step = "undo", !.left = request[r].left \ {request[r].file},
                                     !.file = NoAsset])
    BY <1>2, <2>1 DEF Request
  <2> QED BY <1>6, <2>2
<1> QED BY <1>5, <1>7, <1>8, <1>9 DEF UndoImport, RollbackLook

\* The journal of the transfer in hand is closed.
LEMMA ForgottenNone ==
  ASSUME TypeInv, CopyInv, NEW r \in Requests, request[r].step \in Handling, SetState(Now(r), "none"),
         UNCHANGED <<row, blobRow, plain, blobs, staged>>
  PROVE  NoneBegun /\ (~transfer[Now(r)].marker => Now(r) \notin Pending')
<1>1. "none" \in States
  BY DEF States, Rank
<1>2. /\ transfer'[Now(r)].state = "none"
      /\ \A t \in Transfers : /\ transfer'[t].kind = transfer[t].kind
                              /\ transfer'[t].ids = transfer[t].ids
                              /\ transfer'[t].marker = transfer[t].marker
  BY <1>1, StateSetKeeps
<1>3. \A t \in Transfers : transfer'[t].state # "none" => transfer[t].state # "none"
  BY <1>2, TypesOf, InHand DEF SetState
<1> QED BY <1>2, <1>3 DEF NoneBegun, Pending

\* Forget: what was taken back is no longer pending.
LEMMA ForgetPromises ==
  ASSUME OneAtATime, TypeInv, CopyInv, PromiseInv, NEW r \in Requests, Forget(r)
  PROVE  PromiseInv'
<1>1. /\ request[r].step = "forget" /\ request[r].step \in Handling /\ request[r].step \in Undoing
      /\ SetState(Now(r), "none") /\ Return(r)
      /\ UNCHANGED <<row, blobRow, plain, blobs, staged, session>>
  BY DEF Forget, At, Handling, Undoing, files
<1>2. ~transfer[Now(r)].marker
  BY <1>1 DEF CopyInv, Fine, Holds, Now
<1>3. NoneBegun /\ Now(r) \notin Pending'
  BY <1>1, <1>2, ForgottenNone
<1> QED BY <1>1, <1>3, ReturnPromises

\* Close: the journal goes last, so that the transfer is pending until then.
LEMMA ClosePromises ==
  ASSUME OneAtATime, TypeInv, CopyInv, ReconInv, PromiseInv, NEW r \in Requests, Close(r)
  PROVE  PromiseInv'
<1>1. /\ request[r].step = "close" /\ request[r].step \in Handling
      /\ SetState(Now(r), "none") /\ (Return(r) \/ Go(r, "clear"))
      /\ UNCHANGED <<row, blobRow, plain, blobs, staged, session>>
  BY DEF Close, At, Handling, Completing, files
<1>2. ~transfer[Now(r)].marker
  BY <1>1 DEF ReconInv, Orderly, Progress, Now
<1>3. NoneBegun /\ Now(r) \notin Pending'
  BY <1>1, <1>2, ForgottenNone
<1>4. CASE Return(r)
  BY <1>1, <1>3, <1>4, ReturnPromises
<1>5. CASE Go(r, "clear")
  <2>1. request'[r].step = "clear" /\ Alike(request'[r], request[r])
        /\ request'[r].live = request[r].live
    BY <1>5, GoFields, SameLive
  <2>2. "clear" \notin Committed
    BY DEF Committed, Deleting
  <2> HIDE DEF Handling, Committed
  <2> QED BY <1>1, <1>3, <2>1, <2>2, GoPromises
<1> QED BY <1>1, <1>4, <1>5

\* Clear: nothing is left of the transfer.
LEMMA ClearPromises ==
  ASSUME OneAtATime, TypeInv, CopyInv, ReconInv, PromiseInv, NEW r \in Requests, Clear(r)
  PROVE  PromiseInv'
<1>1. /\ request[r].step = "clear" /\ request[r].step \in Handling /\ Return(r)
      /\ UNCHANGED <<row, transfer, plain, session>>
  BY DEF Clear, At, Handling, tables
<1>2. Kind(r) \in {"import", "ingest"} /\ Now(r) \in Transfers
  BY <1>1, KindInHand, InHand
<1>3. Now(r) \notin Pending
  BY <1>1, <1>2 DEF ReconInv, Orderly, Settled, Progress, JournalsFit, Pending, Kind, Now
<1>4. NoneBegun
  BY <1>1, SameTransfersNone
<1>5. Now(r) \notin Pending'
  BY <1>3, <1>4 DEF NoneBegun
<1> QED BY <1>1, <1>4, <1>5, ReturnPromises

\* Unmark: an upload is settled, a transfer has its journal yet.
LEMMA UnmarkPromises ==
  ASSUME OneAtATime, TypeInv, CopyInv, PromiseInv, NEW r \in Requests, Unmark(r)
  PROVE  PromiseInv'
<1>1. /\ request[r].step = "unmark" /\ request[r].step \in Handling
      /\ transfer' = [transfer EXCEPT ![Now(r)].marker = FALSE]
      /\ Go(r, "clear") \/ Go(r, "close")
      /\ UNCHANGED <<row, plain, session>>
  BY DEF Unmark, At, Handling, Completing, files
<1>2. NoneBegun
  <2> SUFFICES ASSUME NEW t \in Transfers
               PROVE  /\ transfer'[t].kind = transfer[t].kind /\ transfer'[t].ids = transfer[t].ids
                      /\ transfer'[t].state = transfer[t].state
                      /\ transfer'[t].marker => transfer[t].marker
    BY DEF NoneBegun, Pending
  <2>1. transfer[t] \in Transfer
    BY TypesOf
  <2>2. transfer'[t] = IF t = Now(r) THEN [transfer[t] EXCEPT !.marker = FALSE] ELSE transfer[t]
    BY <1>1, TypesOf
  <2> QED BY <2>1, <2>2 DEF Transfer
<1>3. ASSUME NEW s \in {"clear", "close"}, Go(r, s) PROVE PromiseInv'
  <2>1. request'[r].step = s /\ Alike(request'[r], request[r]) /\ request'[r].live = request[r].live
    BY <1>3, GoFields, SameLive
  <2>2. s \notin Committed
    BY DEF Committed, Deleting
  <2> HIDE DEF Handling, Committed
  <2> QED BY <1>1, <1>2, <2>1, <2>2, GoPromises
<1> QED BY <1>1, <1>3

\* Ready, FilesDeleted and Dropped: the journal is there, so its state is recorded.
LEMMA RecordPromises ==
  ASSUME OneAtATime, TypeInv, CopyInv, PromiseInv, NEW r \in Requests,
         Ready(r) \/ FilesDeleted(r) \/ Dropped(r)
  PROVE  PromiseInv'
<1>1. /\ request[r].step \in Deleting /\ request[r].step \in Handling
      /\ request[r].step \in Completing \cup {"clear"} /\ request[r].step \notin {"clear", "idle"}
      /\ UNCHANGED <<row, blobRow, plain, blobs, staged, session>>
  BY DEF Ready, FilesDeleted, Dropped, At, Deleting, Handling, Completing, files
<1>2. transfer[Now(r)].state # "none"
  BY <1>1, AtCompletion, KindInHand DEF Alive, Kind
<1>3. PICK s \in States, step \in {"lease", "drop", "unmark"} :
        (SetState(Now(r), s) \/ UNCHANGED transfer) /\ Go(r, step)
  BY <1>2 DEF Ready, FilesDeleted, Dropped, Record, Onward, States, Rank
<1>4. NoneBegun /\ \A t \in Transfers : transfer'[t].marker = transfer[t].marker
  <2>1. CASE UNCHANGED transfer
    BY <2>1, SameTransfersNone
  <2>2. CASE SetState(Now(r), s)
    <3>1. /\ \A t \in Transfers : /\ transfer'[t].kind = transfer[t].kind
                                  /\ transfer'[t].ids = transfer[t].ids
                                  /\ transfer'[t].marker = transfer[t].marker
      BY <1>1, <1>2, <2>2, StateSetKeeps
    <3>2. \A t \in Transfers : t # Now(r) => transfer'[t] = transfer[t]
      BY <2>2, TypesOf DEF SetState
    <3> QED BY <1>2, <3>1, <3>2 DEF NoneBegun, Pending
  <2> QED BY <1>3, <2>1, <2>2
<1>5. request'[r].step = step /\ Alike(request'[r], request[r]) /\ request'[r].live = request[r].live
  BY <1>3, GoFields, SameLive
<1>6. Now(r) \in Transfers /\ Deleting \subseteq Committed /\ {"lease", "drop", "unmark"} \subseteq Committed
  BY <1>1, InHand DEF Committed, Deleting
<1> HIDE DEF Handling, Committed, Deleting
<1> QED BY <1>1, <1>4, <1>5, <1>6, GoPromises DEF Now

\* While a transfer of one's own is committed and there is a session, nothing
\* ends it: Complete,
LEMMA CompletePromises ==
  ASSUME OneAtATime, TypeInv, CopyInv, PromiseInv, NEW r \in Requests, Complete(r)
  PROVE  PromiseInv'
<1>1. /\ request[r].step = "complete" /\ request[r].step \in Handling /\ request[r].step \in Committed
      /\ UNCHANGED <<tables, files, session>> /\ UNCHANGED <<row, plain, transfer, blobRow, blobs>>
  BY DEF Complete, At, Handling, Completing, Committed, tables, files
<1>2. NoneBegun
  BY <1>1, SameTransfersNone
<1>3. request[r].kind \in Kinds => /\ session => request[r].live
                                   /\ transfer[Now(r)].marker /\ request[r].kind = Kind(r)
  BY <1>1, OwnIsInHand
<1>4. CASE End(r)
  <2>1. ~(request[r].live /\ transfer[Now(r)].marker)
    <3>1. ASSUME request[r].live, transfer[Now(r)].marker PROVE FALSE
      <4>1. \E s \in {"validate", "finalize"} : Each(r, s)
        BY <3>1 DEF Complete
      <4>2. request'[r].step # "idle"
        BY <4>1, EachFields
      <4> QED BY <1>4, <4>2, EndFields
    <3> QED BY <3>1
  <2>2. ~(request[r].kind \in Kinds /\ session)
    BY <1>3, <2>1
  <2> QED BY <1>1, <1>2, <1>4, <2>2, EndPromises
<1>5. CASE \/ Kind(r) = "export" /\ Each(r, "validate")
           \/ Kind(r) # "export" /\ Each(r, "finalize")
  <2>1. PICK s \in {"validate", "finalize"} : Each(r, s) /\ (s = "validate" => Kind(r) = "export")
    BY <1>5
  <2>2. request'[r].step = s /\ Alike(request'[r], request[r]) /\ request'[r].live = request[r].live
    BY <2>1, EachFields, SameLive
  <2>3. Kept'
    BY <1>1, <1>2, QuietPromises DEF PromiseInv
  <2>4. Alone(request[r])'
    <3>1. "validate" \in Committed /\ "finalize" \in Committed
      BY DEF Committed
    <3> HIDE DEF Handling, Committed
    <3> QED BY <1>1, <1>2, <2>2, <3>1, AloneOn DEF PromiseInv
  <2>5. request'[r].left = transfer'[request'[r].t].ids
    BY <1>1, <2>1, <2>2, EachFields DEF Alike, Moving, Now
  <2>6. Provided(request[r])'
    BY <1>3, <2>1, <2>2, <2>5 DEF Provided, Alike
  <2> QED BY <2>3, <2>4, <2>6, OneKeepsPromise
<1> QED BY <1>4, <1>5 DEF Complete

\* ... Finalize: each blob is in place or staged,
LEMMA FinalizePromises ==
  ASSUME OneAtATime, TypeInv, CopyInv, PromiseInv, NEW r \in Requests, Finalize(r)
  PROVE  PromiseInv'
<1>1. /\ request[r].step = "finalize" /\ request[r].step \in Handling /\ request[r].step \in Committed
      /\ request[r].step \in Completing \cup {"clear"}
      /\ UNCHANGED <<row, blobRow, transfer, plain, session>>
  BY FinalizeCases DEF Handling, Completing, Committed
<1>2. NoneBegun
  BY <1>1, SameTransfersNone
<1>3. /\ Now(r) \in Transfers /\ Holds(request[r]) /\ Moving(r) \in SUBSET Assets
  BY <1>1, AtCompletion
<1>4. Kind(r) \in {"import", "ingest"}
  BY <1>1, KindInHand
<1>5. request[r].kind \in Kinds => request[r].left \subseteq Moving(r)
  BY <1>1 DEF PromiseInv, Provided, Moving, Now
<1>6. request[r].kind \in Kinds =>
        /\ transfer[Now(r)].marker
        /\ \A a \in Moving(r) : Copied(a) /\ blobRow[a] # 0
  <2>1. SUFFICES ASSUME request[r].kind \in Kinds, NEW a \in Moving(r)
                 PROVE  transfer[Now(r)].marker /\ Copied(a) /\ blobRow[a] # 0
    BY <1>1, OwnIsInHand
  <2>2. transfer[Now(r)].marker
    BY <1>1, <2>1, OwnIsInHand
  <2>3. Gets("vault", a) /\ a \in Assets
    BY <1>3, <1>4, <2>2 DEF PromiseInv, Kept, Promised, Kind, Moving
  <2>4. Copied(a)
    BY <2>3 DEF CopyInv, HasBytes, VaultRowsHaveBytes
  <2> QED BY <2>2, <2>4 DEF Copied, Transfers
<1>7. Kept'
  BY <1>1, <1>2, QuietPromises DEF PromiseInv
<1>8. CASE /\ request[r].left = {} /\ Go(r, "validate") /\ UNCHANGED blobs
  <2>1. request'[r].step = "validate" /\ Alike(request'[r], request[r]) /\ request'[r].live = request[r].live
    BY <1>8, GoFields, SameLive
  <2>2. Alone(request[r])'
    <3>1. "validate" \in Committed
      BY DEF Committed
    <3> HIDE DEF Handling, Committed
    <3> QED BY <1>1, <1>2, <2>1, <3>1, AloneOn DEF PromiseInv
  <2>3. request[r].kind \in Kinds => \A a \in Moving(r) : BlobHere(a)
    BY <1>1, <1>3, <1>6, <1>8 DEF Holds, Moving, Now
  <2>4. Provided(request[r])'
    BY <1>1, <1>8, <2>1, <2>3 DEF Provided, Alike, Moving, Now, BlobHere
  <2> QED BY <1>7, <2>2, <2>4, OneKeepsPromise
<1>9. ASSUME NEW a, Tick(r, a) PROVE PromiseInv'
  <2>1. request'[r].step = "finalize" /\ Alike(request'[r], request[r]) /\ request'[r].live = request[r].live
    BY <1>1, <1>9, TickFields, SameLive
  <2>2. Alone(request[r])'
    <3> HIDE DEF Handling, Committed
    <3> QED BY <1>1, <1>2, <2>1, AloneOn DEF PromiseInv
  <2>3. request'[r].left = request[r].left \ {a}
    BY <1>9, TickFields
  <2>4. Provided(request[r])'
    BY <1>1, <1>5, <2>1, <2>3 DEF Provided, Alike, Moving, Now
  <2> QED BY <1>7, <2>2, <2>4, OneKeepsPromise
<1>10. CASE End(r)
  <2>1. ~(request[r].kind \in Kinds /\ session)
    <3> SUFFICES ASSUME request[r].kind \in Kinds PROVE FALSE
      OBVIOUS
    <3>1. request'[r].step = "idle"
      BY <1>10, EndFields
    <3>2. request[r].left # {}
      BY <3>1, GoFields DEF Finalize
    <3>3. PICK a \in request[r].left : /\ blobRow[a] # 0 /\ <<blobRow[a], a>> \notin blobs
                                       /\ <<blobRow[a], a>> \notin StagedBy(Now(r))
      BY <1>1, <3>1, <3>2, TickFields DEF Finalize, Finalized
    <3>4. a \in Moving(r)
      BY <1>5
    <3>5. <<blobRow[a], a>> \in staged /\ transfer[blobRow[a]].marker /\ blobRow[a] \in Transfers
      BY <1>6, <3>3, <3>4 DEF Copied
    <3>6. blobRow[a] \in Pending /\ Now(r) \in Pending
      BY <1>3, <1>6, <3>5 DEF Pending
    <3>7. blobRow[a] = Now(r)
      BY <3>6 DEF PromiseInv, Kept, OnePending
    <3> QED BY <3>3, <3>5, <3>7 DEF StagedBy
  <2> QED BY <1>1, <1>2, <1>10, <2>1, EndPromises
<1> QED BY <1>8, <1>9, <1>10, FinalizeCases

\* ... Validate: the destination is as the marker promised,
LEMMA ValidatePromises ==
  ASSUME OneAtATime, TypeInv, CopyInv, PromiseInv, NEW r \in Requests, Validate(r)
  PROVE  PromiseInv'
<1>1. /\ request[r].step = "validate" /\ request[r].step \in Handling /\ request[r].step \in Committed
      /\ UNCHANGED <<row, transfer, plain, session>>
  BY DEF Validate, At, Handling, Completing, Committed, tables, files
<1>2. NoneBegun /\ Now(r) \in Transfers /\ Kind(r) \in Kinds
  BY <1>1, SameTransfersNone, InHand
<1>3. CASE End(r)
  <2>1. ASSUME request[r].kind \in Kinds, session PROVE FALSE
    <3>1. request[r].live /\ transfer[Now(r)].marker /\ request[r].kind = Kind(r)
      BY <1>1, <2>1, OwnIsInHand
    <3>2. \A a \in Moving(r) : IF Kind(r) = "export" THEN Gets("main", a) /\ plain[a] = "whole"
                               ELSE Gets("vault", a)
      BY <1>2, <3>1 DEF PromiseInv, Kept, Promised, Kind, Moving
    <3>3. Kind(r) # "export" => \A a \in Moving(r) : BlobHere(a)
      BY <1>1, <2>1, <3>1 DEF PromiseInv, Provided, Moving, Now
    <3>4. Valid(r)
      BY <1>2, <3>1, <3>2, <3>3 DEF Valid, To, Kinds
    <3>5. \E s \in {"unmark", "ready"} : Go(r, s)
      BY <3>4 DEF Validate
    <3> QED BY <1>3, <3>5, EndFields, GoFields
  <2> QED BY <1>1, <1>2, <1>3, <2>1, EndPromises
<1>4. ASSUME NEW s \in {"unmark", "ready"}, Go(r, s) PROVE PromiseInv'
  <2>1. request'[r].step = s /\ Alike(request'[r], request[r]) /\ request'[r].live = request[r].live
    BY <1>4, GoFields, SameLive
  <2> HIDE DEF Handling, Committed
  <2> QED BY <1>1, <1>2, <2>1, GoPromises
<1> QED BY <1>3, <1>4 DEF Validate

\* ... and the deletion of the source: its journal is there, so that no other
\* transfer is pending, and the destination has no tombstone of an asset that
\* leaves the source.
LEMMA SourceGoes ==
  ASSUME TypeInv, CopyInv, ReconInv, PromiseInv, NEW r \in Requests, request[r].step \in Deleting,
         UNCHANGED transfer, \A t \in Transfers : transfer[t].kind # "import" /\ transfer[t].marker =>
                               \A a \in transfer[t].ids : plain'[a] = plain[a],
         \A d \in Databases, a \in Assets :
           d # From[Kind(r)] \/ a \notin Moving(r) => row'[d][a].lifecycle = row[d][a].lifecycle
  PROVE  Kept'
<1>1. /\ request[r].step \in Handling /\ request[r].step \in Completing \cup {"clear"}
      /\ request[r].step # "clear"
  BY DEF Handling, Completing, Deleting
<1>2. /\ Now(r) \in Transfers /\ Alive(transfer, Now(r)) /\ Holds(request[r])
      /\ Moving(r) \in SUBSET Assets /\ Kind(r) \in {"import", "export"}
  BY <1>1, AtCompletion, KindInHand
<1>3. Now(r) \in Pending
  BY <1>2 DEF Alive, Pending, Kind
<1>4. \A t \in Transfers : transfer[t].marker => t = Now(r)
  BY <1>3 DEF Pending, PromiseInv, Kept, OnePending
<1>5. OnePending'
  BY DEF PromiseInv, Kept, OnePending, Pending
<1>6. Promised'
  <2> SUFFICES ASSUME NEW t \in Transfers, transfer[t].marker, NEW a \in transfer[t].ids
               PROVE  IF transfer[t].kind = "export" THEN Gets("main", a)' /\ plain'[a] = "whole"
                      ELSE Gets("vault", a)'
    BY DEF Promised
  <2>1. t = Now(r) /\ transfer[t].kind = Kind(r) /\ a \in Assets
    BY <1>2, <1>4 DEF Kind, Moving
  <2>2. IF transfer[t].kind = "export" THEN Gets("main", a) /\ plain[a] = "whole" ELSE Gets("vault", a)
    BY DEF PromiseInv, Kept, Promised
  <2>3. CASE Kind(r) = "export"
    <3>1. From[Kind(r)] = "vault" /\ "main" \in Databases
      BY <2>3 DEF From, Databases
    <3>2. row'["main"][a].lifecycle = row["main"][a].lifecycle
      BY <2>1, <3>1
    <3> QED BY <2>1, <2>2, <2>3, <3>2 DEF Gets
  <2>4. CASE Kind(r) = "import"
    <3>1. From[Kind(r)] = "main" /\ "vault" \in Databases
      BY <2>4 DEF From, Databases
    <3>2. row'["vault"][a].lifecycle = row["vault"][a].lifecycle
      BY <2>1, <3>1
    <3> QED BY <2>1, <2>2, <2>4, <3>2 DEF Gets
  <2> QED BY <1>2, <2>3, <2>4
<1>7. TombstonesAreLeased'
  <2> SUFFICES ASSUME NEW a \in Assets, row'["main"][a].lifecycle = "purging" PROVE Gets("vault", a)'
    BY DEF TombstonesAreLeased
  <2>1. "main" \in Databases /\ "vault" \in Databases
    BY DEF Databases
  <2>2. CASE Kind(r) = "import"
    <3>1. From[Kind(r)] = "main"
      BY <2>2 DEF From
    <3>2. row'["vault"][a].lifecycle = row["vault"][a].lifecycle
      BY <2>1, <3>1
    <3>3. CASE a \in Moving(r)
      <4>1. Gets("vault", a)
        BY <1>2, <2>2, <3>3 DEF Holds, Moving, Kind, Now
      <4> QED BY <3>2, <4>1 DEF Gets
    <3>4. CASE a \notin Moving(r)
      BY <2>1, <3>2, <3>4 DEF PromiseInv, Kept, TombstonesAreLeased, Gets
    <3> QED BY <3>3, <3>4
  <2>3. CASE Kind(r) = "export"
    <3>1. From[Kind(r)] = "vault"
      BY <2>3 DEF From
    <3>2. row["main"][a].lifecycle = "purging"
      BY <2>1, <3>1
    <3>3. Gets("vault", a)
      BY <3>2 DEF PromiseInv, Kept, TombstonesAreLeased
    <3>4. Exists("main", a) /\ Exists("vault", a) /\ ~Gets("main", a)
      BY <3>2, <3>3 DEF Exists, Gets
    <3>5. a \notin Moving(r)
      <4>1. PICK t \in Transfers : a \in transfer[t].ids /\ transfer[t].marker
        BY <3>4 DEF ReconInv, Settled, BothAreMarked
      <4>2. t = Now(r)
        BY <1>4, <4>1
      <4>3. Gets("main", a)
        BY <1>2, <2>3, <4>1, <4>2 DEF PromiseInv, Kept, Promised, Kind
      <4> QED BY <3>4, <4>3
    <3> QED BY <2>1, <3>3, <3>5 DEF Gets
  <2> QED BY <1>2, <2>2, <2>3
<1> QED BY <1>5, <1>6, <1>7 DEF Kept

\* The thread's part.
LEMMA DeletesAlone ==
  ASSUME OneAtATime, TypeInv, PromiseInv, NEW r \in Requests, request[r].step \in Deleting, Kept',
         UNCHANGED <<transfer, session>>,
         \/ End(r) /\ ~(request[r].kind \in Kinds /\ session)
         \/ \E step \in Deleting : Go(r, step) \/ Each(r, step)
         \/ \E a : Tick(r, a)
  PROVE  PromiseInv'
<1>1. /\ NoneBegun /\ Alone(request[r]) /\ Deleting \subseteq Handling /\ Deleting \subseteq Committed
      /\ {"idle", "undo", "unlink", "open", "stage", "write", "finalize", "validate"} \cap Deleting = {}
  BY SameTransfersNone DEF PromiseInv, Deleting, Handling, Completing, Committed
<1>2. CASE End(r) /\ ~(request[r].kind \in Kinds /\ session)
  <2>1. session' => Pending' = {}
    BY <1>1, <1>2 DEF Alone, NoneBegun
  <2> QED BY <1>2, <2>1, EndAlone, OneKeepsPromise
<1>3. ASSUME request'[r].step \in Deleting, Alike(request'[r], request[r]),
             request'[r].live = request[r].live
      PROVE  PromiseInv'
  <2> HIDE DEF Deleting, Handling, Committed
  <2>1. request'[r].step \in Committed /\ request[r].step \in Committed
        /\ request'[r].step \in Handling /\ request[r].step \in Handling
    BY <1>1, <1>3
  <2>2. Alone(request[r])'
    BY <1>1, <1>3, <2>1, AloneOn
  <2>3. Provided(request[r])'
    BY <1>1, <1>3 DEF Provided
  <2> QED BY <2>2, <2>3, OneKeepsPromise
<1>4. ASSUME NEW step \in Deleting, Go(r, step) \/ Each(r, step) PROVE PromiseInv'
  <2> HIDE DEF Deleting
  <2> QED BY <1>3, <1>4, GoFields, EachFields, SameLive
<1>5. ASSUME NEW a, Tick(r, a) PROVE PromiseInv'
  BY <1>3, <1>5, TickFields, SameLive
<1> QED BY <1>2, <1>4, <1>5

\* Lease: the closure that the journal promises.
LEMMA LeasePromises ==
  ASSUME OneAtATime, TypeInv, CopyInv, ReconInv, JournalIsClosed, PromiseInv, NEW r \in Requests, Lease(r)
  PROVE  PromiseInv'
<1> DEFINE d == From[Kind(r)]
           ids == Moving(r)
<1>1. /\ request[r].step = "lease" /\ request[r].step \in Deleting /\ request[r].step \in Handling
      /\ request[r].step \in Completing \cup {"clear"}
      /\ UNCHANGED <<transfer, plain, session>>
  BY DEF Lease, At, Deleting, Handling, Completing, files
<1>2. /\ Now(r) \in Transfers /\ Alive(transfer, Now(r)) /\ Kind(r) \in {"import", "export"}
      /\ ids \in SUBSET Assets
  BY <1>1, AtCompletion, KindInHand
<1>3. Closed(d, ids)
  <2>1. Now(r) \in Journals(Kind(r))
    BY <1>2 DEF Journals, Kind, Alive
  <2> QED BY <1>2, <2>1 DEF JournalIsClosed, Moving
<1>4. /\ \A e \in Databases, a \in Assets : e # d \/ a \notin ids => row'[e][a].lifecycle = row[e][a].lifecycle
      /\ Each(r, "delete") \/ (End(r) /\ ~request[r].live)
  <2>1. row \in [Databases -> [Assets -> Row]]
    BY TypesOf DEF Tables
  <2>2. CASE End(r) /\ UNCHANGED row /\ ~request[r].live
    BY <2>2
  <2>3. CASE row' = [row EXCEPT ![d] = Tombstones(row[d], ids)] /\ Each(r, "delete")
    <3>1. \A a \in Assets \ ids : Tombstones(row[d], ids)[a] = row[d][a]
      BY DEF Tombstones
    <3> HIDE DEF d, ids
    <3> QED BY <2>1, <2>3, <3>1
  <2> QED BY <1>3, <2>2, <2>3 DEF Lease
<1>5. Kept'
  BY <1>1, <1>4, SourceGoes
<1>6. End(r) /\ ~request[r].live => ~(request[r].kind \in Kinds /\ session)
  BY <1>1, OwnIsInHand
<1>7. "delete" \in Deleting
  BY DEF Deleting
<1> QED BY <1>1, <1>4, <1>5, <1>6, <1>7, DeletesAlone

\* DeleteFile: the files of what the destination has.
LEMMA DeleteFilePromises ==
  ASSUME OneAtATime, TypeInv, CopyInv, ReconInv, PromiseInv, NEW r \in Requests, DeleteFile(r)
  PROVE  PromiseInv'
<1>1. /\ request[r].step = "delete" /\ request[r].step \in Deleting /\ request[r].step \in Handling
      /\ request[r].step \in Completing \cup {"clear"}
      /\ UNCHANGED <<row, transfer, session>>
  BY DEF DeleteFile, At, Deleting, Handling, Completing, tables
<1>2. /\ Now(r) \in Transfers /\ Alive(transfer, Now(r)) /\ Kind(r) \in {"import", "export"}
      /\ Holds(request[r]) /\ Moving(r) \in SUBSET Assets
  BY <1>1, AtCompletion, KindInHand
<1>3. PICK a \in request[r].left :
        IF ~MayDelete(r, a) THEN End(r) /\ UNCHANGED plain
        ELSE Tick(r, a) /\ (UNCHANGED plain \/ (Kind(r) = "import" /\ plain' = [plain EXCEPT ![a] = "absent"]))
  BY DEF DeleteFile
<1>4. Kept'
  <2>1. Now(r) \in Pending
    BY <1>2 DEF Pending, Alive, Kind
  <2>2. \A t \in Transfers : transfer[t].marker => t = Now(r)
    BY <2>1 DEF Pending, PromiseInv, Kept, OnePending
  <2>3. \A t \in Transfers : transfer[t].kind # "import" /\ transfer[t].marker =>
          \A b \in transfer[t].ids : plain'[b] = plain[b]
    BY <1>3, <2>2 DEF Kind
  <2> QED BY <1>1, <2>3, SourceGoes
<1>5. request[r].kind \in Kinds /\ session => MayDelete(r, a)
  <2>1. request[r].kind \in Kinds /\ session => request[r].live
    BY <1>1, OwnIsInHand
  <2>2. a \in Moving(r)
    BY <1>1, <1>2, <1>3 DEF Holds, Moving, Now
  <2>3. Kind(r) = "import" => Gets("vault", a)
    BY <1>1, <1>2, <2>2 DEF Holds, Moving, Kind, Now
  <2> QED BY <2>1, <2>3 DEF MayDelete
<1> QED BY <1>1, <1>3, <1>4, <1>5, DeletesAlone

\* Drop: the rows of the source, with nothing to take their place.
LEMMA DropPromises ==
  ASSUME OneAtATime, TypeInv, CopyInv, ReconInv, JournalIsClosed, UniqueRows, PromiseInv,
         NEW r \in Requests, Drop(r)
  PROVE  PromiseInv'
<1> DEFINE d == From[Kind(r)]
           ids == Moving(r)
<1>1. /\ request[r].step = "drop" /\ request[r].step \in Deleting /\ request[r].step \in Handling
      /\ request[r].step \in Completing \cup {"clear"}
      /\ UNCHANGED <<transfer, plain, session>>
  BY DropCases DEF Handling, Completing
<1>2. /\ Now(r) \in Transfers /\ Alive(transfer, Now(r)) /\ Kind(r) \in {"import", "export"}
      /\ ids \in SUBSET Assets /\ d \in Databases
  BY <1>1, AtCompletion, KindInHand DEF From, Databases
<1>3. \A a \in ids : Dependents(row[d], a) \subseteq ids
  <2>1. Now(r) \in Journals(Kind(r))
    BY <1>2 DEF Journals, Kind, Alive
  <2> QED BY <1>2, <2>1 DEF JournalIsClosed, Closed, Moving
<1> HIDE DEF d, ids
<1>4. \A b \in Assets : row[d][b].lifecycle # "none" => Reparented(row[d], ids)[b] = row[d][b]
  BY <1>2, <1>3, NothingReparented
<1>5. \A b \in Assets : Rest(r)[b] = IF b \in ids THEN NoRow ELSE Reparented(row[d], ids)[b]
  BY DEF Rest, d, ids
<1>6. \A b \in Assets \ ids : Rest(r)[b].lifecycle = row[d][b].lifecycle
  <2>1. \A b \in Assets \ ids : Rest(r)[b].lifecycle = "none" <=> row[d][b].lifecycle = "none"
    <3>1. row[d] \in [Assets -> Row]
      BY <1>2, TypesOf DEF Tables
    <3>2. PICK rows \in [Assets -> Row] : rows = row[d]
      BY <3>1
    <3>3. Rest(r) = [b \in Assets |-> IF b \in ids THEN NoRow ELSE Reparented(rows, ids)[b]]
      BY <3>2 DEF Rest, d, ids
    <3> QED BY <1>2, <3>2, <3>3, DroppedRows
  <2> QED BY <1>4, <1>5, <2>1
<1>7. UniquePrimaries(Rest(r))
  <2>1. \A b \in Assets : Rest(r)[b].lifecycle = "active" => Rest(r)[b] = row[d][b]
    <3> SUFFICES ASSUME NEW b \in Assets, Rest(r)[b].lifecycle = "active" PROVE Rest(r)[b] = row[d][b]
      OBVIOUS
    <3>1. b \notin ids
      BY <1>5 DEF NoRow
    <3> QED BY <1>4, <1>5, <1>6, <3>1
  <2>2. UniquePrimaries(row[d])
    BY <1>2 DEF UniqueRows
  <2> QED BY <2>1, <2>2 DEF UniquePrimaries
<1>8. /\ \A e \in Databases, a \in Assets : e # d \/ a \notin ids => row'[e][a].lifecycle = row[e][a].lifecycle
      /\ Go(r, "dropped") \/ (End(r) /\ ~request[r].live)
  <2>1. CASE End(r) /\ UNCHANGED row /\ ~request[r].live
    BY <2>1
  <2>2. CASE Drops(r)
    <3>1. (\A e \in Databases \ {d} : row'[e] = row[e]) /\ row'[d] = Rest(r) /\ Go(r, "dropped")
      BY <1>1, <2>2, SourceDropped DEF d
    <3> QED BY <1>6, <3>1
  <2> QED BY <1>7, <2>1, <2>2, DropCases
<1>9. Kept'
  BY <1>1, <1>8, SourceGoes DEF d, ids
<1>10. End(r) /\ ~request[r].live => ~(request[r].kind \in Kinds /\ session)
  BY <1>1, OwnIsInHand
<1>11. "dropped" \in Deleting
  BY DEF Deleting
<1> QED BY <1>1, <1>8, <1>9, <1>10, <1>11, DeletesAlone

\* A request that has yet to draw its transfer begins with nothing pending.
LEMMA NotYetBegun ==
  ASSUME TypeInv, PromiseInv, NEW r \in Requests, request[r].kind \in Kinds, request[r].own = 0
  PROVE  Pending = {}
<1>1. Pending \subseteq {0}
  BY DEF PromiseInv, Alone
<1> QED BY <1>1 DEF Pending, Transfers

\* Prepare: what was prepared has a row that is no tombstone.
LEMMA PreparePromises ==
  ASSUME OneAtATime, TypeInv, PromiseInv, NEW r \in Requests, Prepare(r)
  PROVE  PromiseInv'
<1> DEFINE rows == [a \in Assets |-> IF a \in request[r].ids THEN row[From[request[r].kind]][a]
                                     ELSE NoRow]
           q == [request[r] EXCEPT !.step = "open", !.rows = rows]
<1>1. /\ request[r].step = "prepare" /\ request[r] \in Request /\ UNCHANGED <<tables, files, session>>
      /\ Sound(request[r], transfer, created) /\ Alone(request[r])
      /\ row \in [Databases -> [Assets -> Row]]
  BY TypesOf DEF Prepare, At, TypeInv, ThreadsAreSound, PromiseInv, Tables
<1>2. request[r].kind \in {"import", "export"} /\ request[r].kind \in Kinds /\ request[r].own = 0
  BY <1>1 DEF Sound, Kinds
<1>3. Pending = {} /\ NoneBegun /\ Kept' /\ Pending' = {} /\ UNCHANGED <<row, plain>>
  BY <1>1, <1>2, NotYetBegun, ReadsPromises
<1>4. CASE End(r)
  BY <1>1, <1>3, <1>4, EndPromises
<1>5. CASE Prepared(r) /\ Become(r, q)
  <2>1. q.step = "open" /\ Alike(q, request[r]) /\ q.live = request[r].live /\ q.rows = rows
    <3> HIDE DEF rows
    <3> QED BY <1>1 DEF Request, Alike
  <2>2. request'[r] = q
    BY <1>5, Became
  <2> HIDE DEF q
  <2>3. "open" \notin Handling /\ "open" \notin Committed
    BY DEF Handling, Staging, Undoing, Completing, Deleting, Committed
  <2>4. Alone(request[r])'
    <3> HIDE DEF rows, Handling, Committed, Kinds, Pending
    <3> QED BY <1>1, <1>2, <1>3, <2>1, <2>2, <2>3 DEF Alone, Alike
  <2>5. \A a \in request[r].ids : rows[a].lifecycle # "purging"
    <3>1. \A a \in request[r].ids : Gets(From[request[r].kind], a) /\ a \in Assets
      BY <1>1, <1>5 DEF Prepared, Request
    <3> QED BY <3>1 DEF Gets
  <2>6. Provided(request[r])'
    <3> HIDE DEF rows
    <3> QED BY <2>1, <2>2, <2>5 DEF Provided, Alike
  <2> QED BY <1>3, <2>4, <2>6, OneKeepsPromise
<1> QED BY <1>4, <1>5 DEF Prepare

\* A transfer is begun while none is pending.
LEMMA NewPromises ==
  ASSUME TypeInv, TypeInv', PromiseInv, Pending = {}, NEW u, created' = created + 1,
         transfer' = [transfer EXCEPT ![created'] = u], ~u.marker, UNCHANGED <<row, plain>>
  PROVE  Kept' /\ Pending' \subseteq {created'} /\ created' # 0
<1>1. /\ transfer \in [Transfers -> Transfer] /\ created \in 0 .. MaxTransfers
      /\ created' \in 0 .. MaxTransfers /\ MaxTransfers \in Nat
  BY TypesOf DEF TypeInv, TypeOK
<1>2. created' \in Transfers /\ created' # 0
  BY <1>1 DEF Transfers
<1>3. transfer'[created'] = u /\ \A t \in Transfers \ {created'} : transfer'[t] = transfer[t]
  BY <1>1, <1>2
<1>4. Pending' \subseteq {created'} /\ \A t \in Transfers : ~transfer'[t].marker
  BY <1>3 DEF Pending
<1>5. OnePending'
  BY <1>4 DEF OnePending
<1>6. Promised' /\ TombstonesAreLeased'
  BY <1>4 DEF Promised, PromiseInv, Kept, TombstonesAreLeased, Gets
<1> QED BY <1>2, <1>4, <1>5, <1>6 DEF Kept

\* ... so that its thread has all of it before it.
LEMMA BegunPromises ==
  ASSUME OneAtATime, TypeInv, TypeInv', PromiseInv, NEW r \in Requests, Kept',
         Pending' \subseteq {created'}, created' # 0, session' => request'[r].live,
         request'[r].step = "stage", request'[r].own = created', request'[r].kind \in Kinds,
         request'[r].left = request'[r].ids,
         request'[r].kind # "ingest" => \A a \in request'[r].ids : request'[r].rows[a].lifecycle # "purging"
  PROVE  PromiseInv'
<1>1. "stage" \notin Committed
  BY DEF Committed, Deleting
<1>2. Alone(request[r])'
  <2> HIDE DEF Handling, Committed, Kinds, Pending
  <2> QED BY <1>1 DEF Alone
<1>3. Provided(request[r])'
  BY DEF Provided
<1> QED BY <1>2, <1>3, OneKeepsPromise

\* Open,
LEMMA OpenPromises ==
  ASSUME OneAtATime, TypeInv, TypeInv', PromiseInv, NEW r \in Requests, Open(r)
  PROVE  PromiseInv'
<1> DEFINE u == [kind |-> request[r].kind, ids |-> request[r].ids,
                 state |-> "preparing", marker |-> FALSE]
           q(n) == [request[r] EXCEPT !.step = "stage", !.own = n, !.t = n,
                                      !.state = "preparing", !.left = request[r].ids]
<1>1. /\ request[r].step = "open" /\ request[r] \in Request /\ UNCHANGED <<row, plain, session>>
      /\ Sound(request[r], transfer, created) /\ Alone(request[r]) /\ Provided(request[r])
  BY TypesOf DEF Open, At, TypeInv, ThreadsAreSound, PromiseInv, files
<1>2. request[r].kind \in {"import", "export"} /\ request[r].kind \in Kinds /\ request[r].own = 0
  BY <1>1 DEF Sound, Kinds
<1>3. Pending = {}
  BY <1>2, NotYetBegun
<1>4. CASE End(r) /\ UNCHANGED <<created, transfer>>
  <2>1. NoneBegun
    BY <1>4, SameTransfersNone
  <2> QED BY <1>1, <1>3, <1>4, <2>1, EndPromises DEF NoneBegun
<1>5. CASE /\ created' = created + 1 /\ transfer' = [transfer EXCEPT ![created'] = u]
           /\ Become(r, q(created'))
  <2> DEFINE p == q(created')
  <2>1. /\ p.step = "stage" /\ p.own = created' /\ p.kind = request[r].kind /\ p.live = request[r].live
        /\ p.left = request[r].ids /\ p.ids = request[r].ids /\ p.rows = request[r].rows
    BY <1>1 DEF Request
  <2>2. request'[r] = p
    BY <1>5, Became
  <2>3. ~u.marker
    OBVIOUS
  <2> HIDE DEF p, q, u
  <2>4. Kept' /\ Pending' \subseteq {created'} /\ created' # 0
    BY <1>1, <1>3, <1>5, <2>3, NewPromises
  <2>5. session' => request'[r].live
    BY <1>1, <1>2, <2>1, <2>2 DEF Alone
  <2>6. request'[r].kind # "ingest" => \A a \in request'[r].ids : request'[r].rows[a].lifecycle # "purging"
    BY <1>1, <2>1, <2>2 DEF Provided
  <2> QED BY <1>2, <2>1, <2>2, <2>4, <2>5, <2>6, BegunPromises
<1> QED BY <1>4, <1>5 DEF Open

\* ... and a direct upload.
LEMMA BeginIngestPromises ==
  ASSUME OneAtATime, TypeInv, TypeInv', PromiseInv, NEW r \in Requests, NEW a \in Assets, BeginIngest(r, a)
  PROVE  PromiseInv'
<1> DEFINE u == [NoTransfer EXCEPT !.kind = "ingest", !.ids = {a}]
           q(n) == [Idle EXCEPT !.step = "stage", !.kind = "ingest", !.live = TRUE, !.ids = {a},
                                !.own = n, !.t = n, !.left = {a}]
<1>1. /\ request[r].step = "idle" /\ session /\ Become(r, q(created')) /\ created' = created + 1
      /\ transfer' = [transfer EXCEPT ![created'] = u]
      /\ UNCHANGED <<row, plain, session>> /\ Alone(request[r])
  BY DEF BeginIngest, At, files, PromiseInv
<1>2. Pending = {}
  BY <1>1 DEF Alone
<1>3. ~u.marker
  BY DEF NoTransfer
<1>4. ASSUME NEW p \in Request
      PROVE  LET x == [p EXCEPT !.step = "stage", !.kind = "ingest", !.live = TRUE, !.ids = {a},
                                !.own = created', !.t = created', !.left = {a}]
             IN /\ x.step = "stage" /\ x.own = created' /\ x.kind = "ingest" /\ x.live
                /\ x.left = {a} /\ x.ids = {a}
  BY DEF Request
<1> DEFINE p == q(created')
<1>5. p.step = "stage" /\ p.own = created' /\ p.kind = "ingest" /\ p.live /\ p.left = {a} /\ p.ids = {a}
  BY <1>4, IdleIsRequest
<1>6. request'[r] = p
  BY <1>1, Became
<1> HIDE DEF p, q, u
<1>7. Kept' /\ Pending' \subseteq {created'} /\ created' # 0
  BY <1>1, <1>2, <1>3, NewPromises
<1>8. "ingest" \in Kinds
  BY DEF Kinds
<1> QED BY <1>5, <1>6, <1>7, <1>8, BegunPromises

\* Until its commit nothing is marked, and an upload has no journal either.
LEMMA StagingUnmarked ==
  ASSUME TypeInv, CopyInv, ReconInv, PromiseInv, NEW r \in Requests, request[r].step \in Staging
  PROVE  /\ \A t \in Transfers : ~transfer[t].marker
         /\ request[r].kind = "ingest" => Pending = {}
<1>1. request[r].step \in Handling
  BY DEF Handling
<1>2. /\ request[r].kind = Kind(r) /\ Now(r) \in Transfers /\ ~transfer[Now(r)].marker
      /\ Pending \subseteq {Now(r)}
  BY <1>1, AtStage, OwnInHand, OwnIsInHand
<1>3. \A t \in Transfers : ~transfer[t].marker
  BY <1>2 DEF Pending
<1>4. request[r].kind = "ingest" => Now(r) \notin Pending
  BY <1>2 DEF ReconInv, Settled, JournalsFit, Pending, Kind
<1> QED BY <1>2, <1>3, <1>4

\* A request goes on staging, or takes back what it staged.
LEMMA StagingPromises ==
  ASSUME OneAtATime, TypeInv, CopyInv, ReconInv, PromiseInv, NEW r \in Requests,
         request[r].step \in Staging, UNCHANGED <<row, transfer, session>>,
         \/ /\ Alike(request'[r], request[r]) /\ request'[r].live = request[r].live
            /\ request'[r].step \in Staging \cup {"forget"} /\ Provided(request[r])'
         \/ End(r) /\ request[r].kind = "ingest"
  PROVE  PromiseInv'
<1>1. /\ \A t \in Transfers : ~transfer[t].marker
      /\ request[r].kind = "ingest" => Pending = {}
  BY StagingUnmarked
<1>2. NoneBegun /\ Kept'
  BY <1>1, SameTransfersNone, NothingMarked
<1>3. CASE End(r) /\ request[r].kind = "ingest"
  <2>1. session' => Pending' = {}
    BY <1>1, <1>2, <1>3 DEF NoneBegun
  <2> QED BY <1>2, <1>3, <2>1, EndAlone, OneKeepsPromise
<1>4. CASE /\ Alike(request'[r], request[r]) /\ request'[r].live = request[r].live
           /\ request'[r].step \in Staging \cup {"forget"} /\ Provided(request[r])'
  <2>1. /\ request[r].step \in Handling /\ request[r].step # "idle"
        /\ request'[r].step \notin {"idle", "undo", "unlink"} /\ request'[r].step \notin Committed
    BY <1>4 DEF Staging, Handling, Committed, Deleting
  <2>2. Alone(request[r])'
    <3> HIDE DEF Handling, Committed, Staging
    <3> QED BY <1>2, <1>4, <2>1, AloneOn DEF PromiseInv
  <2> QED BY <1>2, <1>4, <2>2, OneKeepsPromise
<1> QED BY <1>3, <1>4

\* StageBlob: only an upload ends where it stands.
LEMMA StageBlobPromises ==
  ASSUME OneAtATime, TypeInv, CopyInv, ReconInv, PromiseInv, NEW r \in Requests, StageBlob(r)
  PROVE  PromiseInv'
<1>1. /\ request[r].step = "stage" /\ request[r].step \in Staging /\ request[r].kind # "export"
      /\ UNCHANGED <<row, transfer, session>> /\ Provided(request[r])
      /\ request[r].kind \in Kinds
  BY OwnInHand DEF StageBlob, At, Staging, tables, PromiseInv
<1>2. PICK a : Tick(r, a) \/ (request[r].kind = "import" /\ Go(r, "abort"))
                          \/ (request[r].kind = "ingest" /\ End(r))
  BY <1>1 DEF StageBlob, Kinds
<1>3. CASE Tick(r, a)
  <2>1. /\ request'[r].step = "stage" /\ Alike(request'[r], request[r])
        /\ request'[r].live = request[r].live /\ request'[r].rows = request[r].rows
    BY <1>1, <1>3, TickFields, SameLive
  <2>2. Provided(request[r])'
    BY <1>1, <2>1 DEF Provided, Alike
  <2> QED BY <1>1, <2>1, <2>2, StagingPromises DEF Staging
<1>4. CASE Go(r, "abort")
  <2>1. /\ request'[r].step = "abort" /\ Alike(request'[r], request[r])
        /\ request'[r].live = request[r].live
    BY <1>4, GoFields, SameLive
  <2>2. Provided(request[r])'
    BY <2>1 DEF Provided
  <2> QED BY <1>1, <2>1, <2>2, StagingPromises DEF Staging
<1> QED BY <1>1, <1>2, <1>3, <1>4, StagingPromises

\* CreatePlain: the file is there from now on.
LEMMA CreatePlainPromises ==
  ASSUME OneAtATime, TypeInv, CopyInv, ReconInv, PromiseInv, NEW r \in Requests, CreatePlain(r)
  PROVE  PromiseInv'
<1>1. /\ request[r].step = "stage" /\ request[r].step \in Staging /\ request[r].kind = "export"
      /\ UNCHANGED <<row, transfer, session>> /\ Provided(request[r]) /\ request[r] \in Request
      /\ plain \in [Assets -> {"absent", "partial", "whole"}]
  BY TypesOf DEF CreatePlain, At, Staging, tables, PromiseInv, Files
<1>2. PICK a \in request[r].left :
        \/ /\ plain' = [plain EXCEPT ![a] = "partial"]
           /\ Become(r, [request[r] EXCEPT !.step = "write", !.file = a])
        \/ Go(r, "abort")
  BY DEF CreatePlain
<1>3. CASE /\ plain' = [plain EXCEPT ![a] = "partial"]
           /\ Become(r, [request[r] EXCEPT !.step = "write", !.file = a])
  <2> DEFINE p == [request[r] EXCEPT !.step = "write", !.file = a]
  <2>1. /\ p.step = "write" /\ p.file = a /\ Alike(p, request[r]) /\ p.live = request[r].live
        /\ p.left = request[r].left /\ p.rows = request[r].rows
    BY <1>1 DEF Request, Alike
  <2>2. request'[r] = p
    BY <1>3, Became
  <2> HIDE DEF p
  <2>3. a \in Assets /\ plain'[a] = "partial" /\ \A b \in Assets \ {a} : plain'[b] = plain[b]
    BY <1>1, <1>3 DEF Request
  <2>4. \A b \in request[r].ids \ request[r].left : plain[b] = "whole" /\ b # a /\ b \in Assets
    BY <1>1 DEF Provided, Request
  <2>5. Provided(request[r])'
    BY <1>1, <2>1, <2>2, <2>3, <2>4 DEF Provided, Alike
  <2> QED BY <1>1, <2>1, <2>2, <2>5, StagingPromises DEF Staging
<1>4. CASE Go(r, "abort")
  <2>1. /\ request'[r].step = "abort" /\ Alike(request'[r], request[r])
        /\ request'[r].live = request[r].live
    BY <1>4, GoFields, SameLive
  <2>2. Provided(request[r])'
    BY <2>1 DEF Provided
  <2> QED BY <1>1, <2>1, <2>2, StagingPromises DEF Staging
<1> QED BY <1>2, <1>3, <1>4

\* WritePlain: the file is whole.
LEMMA WritePlainPromises ==
  ASSUME OneAtATime, TypeInv, CopyInv, ReconInv, PromiseInv, NEW r \in Requests, WritePlain(r)
  PROVE  PromiseInv'
<1> DEFINE a == request[r].file
           goOn == [request[r] EXCEPT !.step = "stage", !.left = @ \ {a}, !.file = NoAsset]
           stop == [request[r] EXCEPT !.step = "abort", !.file = NoAsset]
<1>1. /\ request[r].step = "write" /\ request[r].step \in Staging
      /\ UNCHANGED <<row, transfer, session>> /\ Provided(request[r]) /\ request[r] \in Request
      /\ plain \in [Assets -> {"absent", "partial", "whole"}]
      /\ request[r].kind = "export" /\ a \in Assets
  BY TypesOf DEF WritePlain, At, Staging, tables, PromiseInv, Files, TypeInv, ThreadsAreSound, Sound
<1>2. CASE /\ plain' = [plain EXCEPT ![a] = IF @ = "absent" THEN @ ELSE "whole"] /\ Become(r, goOn)
  <2>1. /\ goOn.step = "stage" /\ Alike(goOn, request[r]) /\ goOn.live = request[r].live
        /\ goOn.left = request[r].left \ {a} /\ goOn.rows = request[r].rows
    <3> HIDE DEF a
    <3> QED BY <1>1 DEF Request, Alike
  <2>2. request'[r] = goOn
    BY <1>2, Became
  <2> HIDE DEF goOn
  <2>3. plain[a] # "absent"
    BY <1>1 DEF Provided
  <2> HIDE DEF a
  <2>4. plain'[a] = "whole" /\ \A b \in Assets \ {a} : plain'[b] = plain[b]
    BY <1>1, <1>2, <2>3
  <2>5. \A b \in request[r].ids \ request[r].left : plain[b] = "whole" /\ b \in Assets
    BY <1>1 DEF Provided, Request
  <2>6. \A b \in request[r].ids \ (request[r].left \ {a}) : plain'[b] = "whole"
    BY <2>4, <2>5
  <2>7. Provided(request[r])'
    BY <1>1, <2>1, <2>2, <2>6 DEF Provided, Alike
  <2> QED BY <1>1, <2>1, <2>2, <2>7, StagingPromises DEF Staging
<1>3. CASE Become(r, stop)
  <2>1. stop.step = "abort" /\ Alike(stop, request[r]) /\ stop.live = request[r].live
    BY <1>1 DEF Request, Alike
  <2>2. request'[r] = stop
    BY <1>3, Became
  <2> HIDE DEF stop
  <2>3. Provided(request[r])'
    BY <2>1, <2>2 DEF Provided
  <2> QED BY <1>1, <2>1, <2>2, <2>3, StagingPromises DEF Staging
<1> QED BY <1>2, <1>3 DEF WritePlain

\* Abort: nothing was promised.
LEMMA AbortPromises ==
  ASSUME OneAtATime, TypeInv, CopyInv, ReconInv, PromiseInv, NEW r \in Requests, Abort(r)
  PROVE  PromiseInv'
<1> DEFINE p == [request[r] EXCEPT !.step = "forget", !.rows = Idle.rows]
<1>1. /\ request[r].step = "abort" /\ request[r].step \in Staging /\ request[r] \in Request
      /\ UNCHANGED <<row, transfer, session>>
      /\ (request[r].kind = "ingest" /\ End(r)) \/ Become(r, p)
  BY TypesOf DEF Abort, At, Staging, tables
<1>2. CASE Become(r, p)
  <2>1. p.step = "forget" /\ Alike(p, request[r]) /\ p.live = request[r].live
    BY <1>1 DEF Request, Alike
  <2>2. request'[r] = p
    BY <1>2, Became
  <2> HIDE DEF p
  <2>3. Provided(request[r])'
    BY <2>1, <2>2 DEF Provided
  <2> QED BY <1>1, <2>1, <2>2, <2>3, StagingPromises DEF Staging
<1> QED BY <1>1, <1>2, StagingPromises

\* Commit: the rows were prepared, the files staged.
LEMMA CommitPromises ==
  ASSUME OneAtATime, TypeInv, CopyInv, ReconInv, PromiseInv, NEW r \in Requests, Commit(r)
  PROVE  PromiseInv'
<1>1. /\ request[r].step = "stage" /\ request[r].step \in Staging /\ request[r].step \in Handling
      /\ request[r].left = {}
      /\ UNCHANGED <<plain, session>>
  BY CommitCases DEF Staging, Handling
<1>2. /\ Now(r) \in Transfers /\ request[r] \in Request /\ request[r].kind = Kind(r)
      /\ request[r].ids = Moving(r) /\ request[r].ids \in SUBSET Assets
      /\ request[r].own = Now(r) /\ request[r].own # 0 /\ request[r].kind \in Kinds
      /\ Pending \subseteq {Now(r)}
      /\ session => request[r].live
  BY <1>1, AtStage, OwnInHand, OwnIsInHand
<1>3. \A t \in Transfers : ~transfer[t].marker
  BY <1>1, StagingUnmarked
<1>4. CASE (request[r].kind = "ingest" /\ End(r)) /\ UNCHANGED <<row, transfer>>
  BY <1>1, <1>4, StagingPromises
<1>5. CASE Go(r, "abort") /\ UNCHANGED <<row, transfer>>
  <2>1. /\ request'[r].step = "abort" /\ Alike(request'[r], request[r])
        /\ request'[r].live = request[r].live
    BY <1>5, GoFields, SameLive
  <2>2. Provided(request[r])'
    BY <2>1 DEF Provided
  <2> QED BY <1>1, <1>5, <2>1, <2>2, StagingPromises DEF Staging
<1>6. ASSUME NEW order \in SetToSeqs(request[r].ids), CommitsInto(r, order)
      PROVE  PromiseInv'
  <2> DEFINE d == To[request[r].kind]
             ids == request[r].ids
             p == [request[r] EXCEPT !.step = "complete", !.rows = Idle.rows]
  <2>1. /\ \A e \in Databases \ {d} : row'[e] = row[e]
        /\ \A a \in Assets \ ids : row'[d][a] = row[d][a]
        /\ \A a \in ids : /\ row'[d][a].lifecycle = "none" <=> Given(r)[a].lifecycle = "none"
                          /\ row'[d][a].lifecycle = "purging" <=> Given(r)[a].lifecycle = "purging"
    BY <1>1, <1>6, CommittedRows DEF Fits
  <2>2. \A a \in ids : Given(r)[a].lifecycle \notin {"none", "purging"}
    <3>1. CASE request[r].kind = "ingest"
      BY <1>2, <3>1, FreshIsRow DEF Given
    <3>2. CASE request[r].kind # "ingest"
      BY <1>1, <3>2 DEF Given, ReconInv, Orderly, Knows, PromiseInv, Provided
    <3> QED BY <3>1, <3>2
  <2>3. /\ \A a \in ids : row'[d][a].lifecycle \notin {"none", "purging"}
        /\ \A a \in ids : ~Exists(d, a)
        /\ transfer' = [transfer EXCEPT ![Now(r)].marker = TRUE]
        /\ Become(r, p)
    BY <1>6, <2>1, <2>2 DEF CommitsInto
  <2>4. /\ \/ request[r].kind = "export" /\ d = "main"
           \/ request[r].kind \in {"import", "ingest"} /\ d = "vault"
        /\ "main" \in Databases /\ "vault" \in Databases
    BY <1>2 DEF To, Databases, Kinds
  <2> HIDE DEF d
  <2>5. ASSUME NEW t \in Transfers
        PROVE  /\ transfer'[t].kind = transfer[t].kind /\ transfer'[t].ids = transfer[t].ids
               /\ transfer'[t].state = transfer[t].state
               /\ transfer'[t].marker <=> t = Now(r)
    <3>1. transfer'[t] = IF t = Now(r) THEN [transfer[t] EXCEPT !.marker = TRUE] ELSE transfer[t]
      BY <2>3, TypesOf
    <3>2. transfer[t] \in Transfer
      BY TypesOf
    <3> QED BY <1>3, <3>1, <3>2 DEF Transfer
  <2>6. Pending' \subseteq {Now(r)}
    BY <1>2, <1>3, <2>5 DEF Pending
  <2>7. OnePending'
    BY <2>6 DEF OnePending
  <2>8. Promised'
    <3> SUFFICES ASSUME NEW a \in ids
                 PROVE  IF request[r].kind = "export" THEN Gets("main", a)' /\ plain'[a] = "whole"
                        ELSE Gets("vault", a)'
      BY <1>2, <2>5 DEF Promised, Kind, Moving
    <3>1. request[r].kind = "export" => plain[a] = "whole"
      BY <1>1 DEF PromiseInv, Provided
    <3> QED BY <1>1, <2>3, <2>4, <3>1 DEF Gets
  <2>9. TombstonesAreLeased'
    <3> SUFFICES ASSUME NEW a \in Assets, row'["main"][a].lifecycle = "purging" PROVE Gets("vault", a)'
      BY DEF TombstonesAreLeased
    <3>1. CASE d = "main"
      <4>1. a \notin ids
        BY <2>3, <3>1
      <4> QED BY <2>1, <2>4, <3>1, <4>1 DEF PromiseInv, Kept, TombstonesAreLeased, Gets
    <3>2. CASE d = "vault"
      <4>1. Gets("vault", a)
        BY <2>1, <2>4, <3>2 DEF PromiseInv, Kept, TombstonesAreLeased
      <4>2. a \notin ids
        BY <2>3, <3>2, <4>1 DEF Exists, Gets
      <4> QED BY <2>1, <3>2, <4>1, <4>2 DEF Gets
    <3> QED BY <2>4, <3>1, <3>2
  <2>10. p.step = "complete" /\ Alike(p, request[r]) /\ p.live = request[r].live
    BY <1>2 DEF Request, Alike
  <2>11. request'[r] = p
    BY <2>3, Became
  <2> HIDE DEF p
  <2>12. Alone(request[r])'
    <3>1. transfer'[request'[r].t].marker
      BY <1>2, <2>5, <2>10, <2>11 DEF Alike, Now
    <3> HIDE DEF Handling, Committed, Kinds, Pending
    <3> QED BY <1>1, <1>2, <2>6, <2>10, <2>11, <3>1 DEF Alone, Alike
  <2>13. Provided(request[r])'
    BY <2>10, <2>11 DEF Provided
  <2> QED BY <2>7, <2>8, <2>9, <2>12, <2>13, OneKeepsPromise DEF Kept
<1>7. \/ (request[r].kind = "ingest" /\ End(r)) /\ UNCHANGED <<row, transfer>>
      \/ Go(r, "abort") /\ UNCHANGED <<row, transfer>>
      \/ \E order \in SetToSeqs(request[r].ids) : CommitsInto(r, order)
  <2> HIDE DEF UniquePrimaries
  <2> QED BY DEF Commit, tables, CommitsInto
<1> QED BY <1>4, <1>5, <1>6, <1>7

\* A thread that begins with nothing of its own.
LEMMA BeginsAlone ==
  ASSUME OneAtATime, TypeInv, PromiseInv, NEW r \in Requests, UNCHANGED <<tables, files, session>>,
         session => Pending = {}, NEW k \in {"unlock", "import", "export"},
         k # "unlock" => session,
         NEW step \in {"list", "prepare"}, NEW ids, NEW phase,
         Become(r, [Idle EXCEPT !.step = step, !.kind = k, !.live = TRUE, !.ids = ids, !.phase = phase])
  PROVE  PromiseInv'
<1> DEFINE q == [Idle EXCEPT !.step = step, !.kind = k, !.live = TRUE, !.ids = ids, !.phase = phase]
<1>1. ASSUME NEW p \in Request
      PROVE  LET x == [p EXCEPT !.step = step, !.kind = k, !.live = TRUE, !.ids = ids, !.phase = phase]
             IN x.step = step /\ x.todo = p.todo /\ x.kind = k /\ x.own = p.own /\ x.live
  BY DEF Request
<1>2. q.step = step /\ q.todo = {} /\ q.kind = k /\ q.own = 0 /\ q.live
  BY <1>1, IdleFields, IdleIsRequest
<1>3. request'[r] = q
  BY Became
<1> HIDE DEF q
<1>4. Kept' /\ Pending' = Pending
  BY ReadsPromises
<1>5. step \notin Handling /\ step \notin Committed /\ "unlock" \notin Kinds
  BY DEF Handling, Staging, Undoing, Completing, Deleting, Committed, Kinds
<1>6. Alone(request[r])'
  <2> HIDE DEF Handling, Committed, Kinds, Pending
  <2> QED BY <1>2, <1>3, <1>4, <1>5 DEF Alone
<1>7. Provided(request[r])'
  BY <1>2, <1>3 DEF Provided
<1> QED BY <1>4, <1>6, <1>7, OneKeepsPromise

\* BeginUnlock and Begins.
LEMMA BeginsPromise ==
  ASSUME OneAtATime, TypeInv, TypeInv', PromiseInv, NEW r \in Requests, BeginUnlock(r) \/ Begins(r)
  PROVE  PromiseInv'
<1>1. request[r].step = "idle" => (session => Pending = {})
  BY DEF PromiseInv, Alone
<1>2. CASE BeginUnlock(r)
  <2> DEFINE q == [Idle EXCEPT !.step = "list", !.kind = "unlock", !.live = TRUE, !.phase = "open"]
  <2>1. request[r].step = "idle" /\ Become(r, q) /\ UNCHANGED <<tables, files, session>>
    BY <1>2 DEF BeginUnlock, At
  <2>2. q = [Idle EXCEPT !.step = "list", !.kind = "unlock", !.live = TRUE, !.ids = Idle.ids, !.phase = "open"]
    <3>1. \A p \in Request :
            [p EXCEPT !.step = "list", !.kind = "unlock", !.live = TRUE, !.phase = "open"]
              = [p EXCEPT !.step = "list", !.kind = "unlock", !.live = TRUE, !.ids = p.ids, !.phase = "open"]
      BY DEF Request
    <3> QED BY <3>1, IdleIsRequest
  <2>3. Become(r, [Idle EXCEPT !.step = "list", !.kind = "unlock", !.live = TRUE, !.ids = Idle.ids,
                               !.phase = "open"])
    BY <2>1, <2>2
  <2> HIDE DEF q
  <2> QED BY <1>1, <2>1, <2>3, BeginsAlone
<1>3. ASSUME NEW ids \in SUBSET Assets, NEW k \in {"import", "export"}, NEW step \in {"list", "prepare"},
             BeginMove(r, k, ids, step)
      PROVE  PromiseInv'
  <2> DEFINE phase == IF step = "list" THEN "import" ELSE "none"
  <2>1. /\ request[r].step = "idle" /\ session /\ UNCHANGED <<tables, files, session>>
        /\ Become(r, [Idle EXCEPT !.step = step, !.kind = k, !.live = TRUE, !.ids = ids, !.phase = phase])
    BY <1>3 DEF BeginMove, At
  <2> HIDE DEF phase
  <2> QED BY <1>1, <2>1, BeginsAlone
<1>4. ASSUME NEW ids \in SUBSET Assets, BeginImport(r, ids) \/ BeginExport(r, ids) PROVE PromiseInv'
  BY <1>3, <1>4 DEF BeginImport, BeginExport
<1> QED BY <1>2, <1>4, BeginIngestPromises DEF Begins

\* Where nothing is purged, the library's handlers keep its rows and files,
\* and add no tombstone; only a tombstone's file goes.
LEMMA LibraryLeaves ==
  ASSUME TypeInv, ReconInv, Library
  PROVE  /\ UNCHANGED <<blobRow, blobs, transfer, session, request>> /\ row'["vault"] = row["vault"]
         /\ \A b \in Assets : /\ Gets("main", b) => Gets("main", b)' /\ plain'[b] = plain[b]
                              /\ row'["main"][b].lifecycle = "purging" => row["main"][b].lifecycle = "purging"
                              /\ \/ plain'[b] \in {plain[b], "whole"}
                                 \/ row["main"][b].lifecycle = "purging"
<1> DEFINE Left(b) == /\ Gets("main", b) => Gets("main", b)' /\ plain'[b] = plain[b]
                      /\ row'["main"][b].lifecycle = "purging" => row["main"][b].lifecycle = "purging"
                      /\ \/ plain'[b] \in {plain[b], "whole"}
                         \/ row["main"][b].lifecycle = "purging"
<1>1. /\ row \in [Databases -> [Assets -> Row]] /\ plain \in [Assets -> {"absent", "partial", "whole"}]
      /\ row["main"] \in [Assets -> Row] /\ "main" \in Databases
  BY TypesOf DEF Tables, Files, Databases
<1>2. UNCHANGED <<blobRow, blobs, transfer, session, request>> /\ row'["vault"] = row["vault"]
  <2> HIDE DEF Exists
  <2> QED BY LibraryRows, LibraryWrites
<1>3. PICK a \in Assets : Upload(a) \/ Trash("main", a) \/ PurgeFree(a) \/ RestoreBlocked(a)
  BY DEF Library
<1>4. ASSUME NEW x, row' = [row EXCEPT !["main"] = [row["main"] EXCEPT ![a] = x]],
             plain' = plain \/ plain' = [plain EXCEPT ![a] = "whole"]
                            \/ (plain' = [plain EXCEPT ![a] = "absent"] /\ row["main"][a].lifecycle = "purging"),
             x.lifecycle # "purging",
             Gets("main", a) => x.lifecycle # "none" /\ plain' = plain
      PROVE  \A b \in Assets : Left(b)
  <2>1. /\ \A b \in Assets : row'["main"][b] = IF b = a THEN x ELSE row["main"][b]
        /\ \A b \in Assets \ {a} : plain'[b] = plain[b]
        /\ \/ plain'[a] \in {plain[a], "whole"}
           \/ row["main"][a].lifecycle = "purging"
    BY <1>1, <1>4
  <2> QED BY <1>4, <2>1 DEF Gets
<1>5. SUFFICES \A b \in Assets : Left(b)
  BY <1>2
<1> HIDE DEF Left
<1>6. CASE Upload(a)
  <2> DEFINE x == Placed(row["main"], Journaled("main"), a, Fresh)
  <2>1. x.lifecycle # "purging"
    BY FreshIsRow, PlacedIsRow
  <2>2. row' = [row EXCEPT !["main"] = [row["main"] EXCEPT ![a] = x]]
        /\ plain' = [plain EXCEPT ![a] = "whole"] /\ a \notin known
    BY <1>6 DEF Upload
  <2>3. ~Gets("main", a)
    BY <1>1, <2>2 DEF ReconInv, Settled, KnownOnce, Exists, Gets
  <2> HIDE DEF x
  <2> QED BY <1>4, <2>1, <2>2, <2>3
<1>7. CASE PurgeFree(a)
  <2>1. /\ row' = [row EXCEPT !["main"] = [row["main"] EXCEPT ![a] = NoRow]]
        /\ plain' = [plain EXCEPT ![a] = "absent"] /\ row["main"][a].lifecycle = "purging"
    BY <1>7 DEF PurgeFree
  <2>2. NoRow.lifecycle = "none" /\ ~Gets("main", a)
    BY <2>1 DEF NoRow, Gets
  <2> QED BY <1>4, <2>1, <2>2
<1>8. CASE Trash("main", a)
  <2> DEFINE x == [row["main"][a] EXCEPT !.lifecycle = "trashed", !.trashed = TRUE]
  <2>1. row' = [row EXCEPT !["main"] = [row["main"] EXCEPT ![a] = x]] /\ plain' = plain
    BY <1>8 DEF Trash, files
  <2>2. x.lifecycle = "trashed"
    BY <1>1 DEF Row
  <2> HIDE DEF x
  <2> QED BY <1>4, <2>1, <2>2
<1>9. CASE RestoreBlocked(a)
  <2>1. PICK s \in {"trashed", "active", "duplicate"} :
          row' = [row EXCEPT !["main"] = [row["main"] EXCEPT ![a].lifecycle = s]]
    BY <1>9 DEF RestoreBlocked
  <2> DEFINE x == [row["main"][a] EXCEPT !.lifecycle = s]
  <2>2. row' = [row EXCEPT !["main"] = [row["main"] EXCEPT ![a] = x]] /\ plain' = plain
    BY <1>9, <2>1 DEF RestoreBlocked, files
  <2>3. x.lifecycle = s
    BY <1>1 DEF Row
  <2> HIDE DEF x
  <2> QED BY <1>4, <2>2, <2>3
<1> QED BY <1>3, <1>6, <1>7, <1>8, <1>9

\* A tombstone is a leased row, of a transfer that is marked.
LEMMA TombstoneIsMarked ==
  ASSUME ReconInv, PromiseInv, NEW a \in Assets, row["main"][a].lifecycle = "purging"
  PROVE  \E t \in Transfers : transfer[t].marker
<1>1. Gets("vault", a)
  BY DEF PromiseInv, Kept, TombstonesAreLeased
<1>2. Exists("main", a) /\ Exists("vault", a)
  BY <1>1 DEF Exists, Gets
<1> QED BY <1>2 DEF ReconInv, Settled, BothAreMarked

\* Library: an export that stages meets no tombstone.
LEMMA LibraryPromises ==
  ASSUME TypeInv, CopyInv, ReconInv, PromiseInv, Library
  PROVE  PromiseInv'
<1>1. /\ UNCHANGED <<blobRow, blobs, transfer, session, request>> /\ row'["vault"] = row["vault"]
      /\ \A b \in Assets : /\ Gets("main", b) => Gets("main", b)' /\ plain'[b] = plain[b]
                           /\ row'["main"][b].lifecycle = "purging" => row["main"][b].lifecycle = "purging"
                           /\ \/ plain'[b] \in {plain[b], "whole"}
                              \/ row["main"][b].lifecycle = "purging"
  BY LibraryLeaves
<1>2. Pending' = Pending /\ \A b : Gets("vault", b)' = Gets("vault", b)
  BY <1>1 DEF Pending, Gets
<1>3. OnePending'
  BY <1>2 DEF PromiseInv, Kept, OnePending
<1>4. Promised'
  <2>1. \A t \in Transfers : transfer[t].ids \subseteq Assets
    BY TypesOf DEF Transfer
  <2> QED BY <1>1, <1>2, <2>1 DEF PromiseInv, Kept, Promised
<1>5. TombstonesAreLeased'
  BY <1>1, <1>2 DEF PromiseInv, Kept, TombstonesAreLeased
<1>6. ASSUME NEW s \in Requests PROVE Alone(request[s])' /\ Provided(request[s])'
  <2>1. /\ request'[s] = request[s] /\ Alone(request[s]) /\ Provided(request[s])
        /\ request[s].ids \subseteq Assets
    BY <1>1, TypesOf DEF PromiseInv, Request
  <2>2. Alone(request[s])'
    <3> HIDE DEF Pending, Handling, Committed, Kinds
    <3> QED BY <1>1, <1>2, <2>1 DEF Alone
  <2>3. request[s].step \in {"stage", "write"} => \A b \in Assets : plain'[b] \in {plain[b], "whole"}
    <3> SUFFICES ASSUME request[s].step \in {"stage", "write"}, NEW b \in Assets
                 PROVE  plain'[b] \in {plain[b], "whole"}
      OBVIOUS
    <3>1. request[s].step \in Staging
      BY DEF Staging
    <3>2. row["main"][b].lifecycle # "purging"
      BY <3>1, StagingUnmarked, TombstoneIsMarked
    <3> QED BY <1>1, <3>2
  <2>4. request[s].step = "write" => request[s].file \in Assets
    BY DEF TypeInv, ThreadsAreSound, Sound
  <2>5. Provided(request[s])'
    BY <1>1, <2>1, <2>3, <2>4 DEF Provided, BlobHere
  <2> QED BY <2>2, <2>5
<1> QED BY <1>1, <1>3, <1>4, <1>5, <1>6 DEF PromiseInv, Kept

\* Trash and restore.
LEMMA RelabelsPromises ==
  ASSUME TypeInv, PromiseInv, VaultTrash \/ Restores
  PROVE  PromiseInv'
<1>1. /\ UNCHANGED <<blobRow, blobs, transfer, plain, session, request>>
      /\ \A d \in Databases, a \in Assets :
           /\ row'[d][a].lifecycle = "none" <=> row[d][a].lifecycle = "none"
           /\ row'[d][a].lifecycle = "purging" <=> row[d][a].lifecycle = "purging"
  BY RelabelsRows DEF Relabels
<1>2. /\ Pending' = Pending
      /\ \A d \in Databases, a \in Assets : /\ Gets(d, a)' = Gets(d, a)
                                            /\ row'[d][a].lifecycle = "purging" <=> row[d][a].lifecycle = "purging"
      /\ "main" \in Databases /\ "vault" \in Databases
  BY <1>1 DEF Pending, Gets, Databases
<1>3. Kept'
  <2>1. \A t \in Transfers : transfer[t].ids \subseteq Assets
    BY TypesOf DEF Transfer
  <2>2. OnePending'
    BY <1>2 DEF PromiseInv, Kept, OnePending
  <2>3. Promised'
    BY <1>1, <1>2, <2>1 DEF PromiseInv, Kept, Promised
  <2>4. TombstonesAreLeased'
    BY <1>2 DEF PromiseInv, Kept, TombstonesAreLeased
  <2> QED BY <2>2, <2>3, <2>4 DEF Kept
<1>4. ASSUME NEW s \in Requests PROVE Alone(request[s])' /\ Provided(request[s])'
  <2>1. request'[s] = request[s] /\ Alone(request[s]) /\ Provided(request[s])
    BY <1>1 DEF PromiseInv
  <2>2. Alone(request[s])'
    <3> HIDE DEF Pending, Handling, Committed, Kinds
    <3> QED BY <1>1, <1>2, <2>1 DEF Alone
  <2>3. Provided(request[s])'
    BY <1>1, <2>1 DEF Provided, BlobHere
  <2> QED BY <2>2, <2>3
<1> QED BY <1>3, <1>4 DEF PromiseInv

\* At first there is no transfer.
LEMMA InitPromises == Init => PromiseInv
<1> SUFFICES ASSUME Init PROVE PromiseInv
  OBVIOUS
<1>1. /\ \A t \in Transfers : transfer[t].state = "none" /\ ~transfer[t].marker
      /\ \A d \in Databases, a \in Assets : row[d][a].lifecycle = "none"
  BY DEF Init, NoTransfer, NoRow
<1>2. Pending = {} /\ Kept
  BY <1>1 DEF Pending, Kept, OnePending, Promised, TombstonesAreLeased, Databases
<1>3. ASSUME NEW s \in Requests PROVE Alone(request[s]) /\ Provided(request[s])
  <2>1. request[s].step = "idle" /\ request[s].kind = "none" /\ "none" \notin Kinds
    BY IdleFields DEF Init, Kinds
  <2> QED BY <1>2, <2>1 DEF Alone, Provided
<1> QED BY <1>2, <1>3 DEF PromiseInv

\* Every step of a thread.
LEMMA ProceedPromises ==
  ASSUME OneAtATime, TypeInv, TypeInv', CopyInv, ReconInv, JournalIsClosed, UniqueRows, PromiseInv,
         NEW r \in Requests, Proceed(r)
  PROVE  PromiseInv'
<1>1. CASE Reconciles(r)
  BY <1>1, ListPromises, TakeNextPromises, NextListPromises, SweepsPromise, IssuePromises,
     UndoesPromise, ForgetPromises DEF Reconciles
<1>2. CASE Stages(r)
  BY <1>2, PreparePromises, OpenPromises, StageBlobPromises, CreatePlainPromises,
     WritePlainPromises, CommitPromises, AbortPromises DEF Stages
<1>3. CASE Completes(r)
  BY <1>3, CompletePromises, FinalizePromises, ValidatePromises, RecordPromises, LeasePromises,
     DeleteFilePromises, DropPromises, UnmarkPromises, ClosePromises, ClearPromises DEF Completes
<1> QED BY <1>1, <1>2, <1>3 DEF Proceed

\* The steps that no disturbance is.
Calm ==
  \/ \E r \in Requests : BeginUnlock(r) \/ Begins(r) \/ Proceed(r)
  \/ Library \/ VaultTrash \/ Restores
  \/ Crash \/ Lock
  \/ UNCHANGED vars

\* Every step of a run in which nothing fails and nothing is purged.
LEMMA NextPromises ==
  ASSUME OneAtATime, TypeInv, TypeInv', CopyInv, ReconInv, JournalIsClosed, UniqueRows, PromiseInv, Calm
  PROVE  PromiseInv'
<1>1. ASSUME NEW r \in Requests, BeginUnlock(r) \/ Begins(r) \/ Proceed(r) PROVE PromiseInv'
  BY <1>1, BeginsPromise, ProceedPromises
<1>2. CASE UNCHANGED vars
  <2>1. UNCHANGED <<tables, files, session, request>>
    BY <1>2 DEF vars, tables, files
  <2>2. NoneBegun /\ Kept' /\ Pending' = Pending /\ UNCHANGED <<row, plain, transfer, blobRow, blobs>>
    BY <2>1, ReadsPromises
  <2>3. ASSUME NEW s \in Requests PROVE Alone(request[s])' /\ Provided(request[s])'
    <3>1. Alone(request[s]) /\ Provided(request[s]) /\ request'[s] = request[s]
      BY <2>1 DEF PromiseInv
    <3>2. Alone(request[s])'
      <4> HIDE DEF Pending, Handling, Committed, Kinds
      <4> QED BY <2>1, <2>2, <3>1 DEF Alone
    <3>3. Provided(request[s])'
      BY <2>2, <3>1 DEF Provided, BlobHere
    <3> QED BY <3>2, <3>3
  <2> QED BY <2>2, <2>3 DEF PromiseInv
<1> QED BY <1>1, <1>2, LibraryPromises, RelabelsPromises, CrashPromises, LockPromises DEF Calm

\* The run's steps are the system's, and tell what failed and what a restore did.
LEMMA RunSteps ==
  ASSUME [MCNext]_mcVars
  PROVE  /\ [Next]_vars
         /\ opened => opened'
         /\ disturbed' \/ (disturbed' = disturbed /\ Calm)
         /\ opened' \/ JournalIsClosed' \/ Others
<1>1. CASE MCNext
  <2>1. CASE (\E r \in Requests : BeginUnlock(r) \/ Proceed(r)) /\ UNCHANGED counters
    BY <2>1 DEF Next, Calm, Others, counters
  <2>2. CASE Library /\ UNCHANGED counters
    BY <2>2 DEF Next, Calm, Others, counters
  <2>3. CASE Restores /\ opened' = (opened \/ ~JournalIsClosed') /\ UNCHANGED <<begun, faults, disturbed>>
    BY <2>3 DEF Next, Calm
  <2>4. CASE (\E r \in Requests : Begins(r)) /\ UNCHANGED <<faults, disturbed, opened>>
    BY <2>4 DEF Next, Calm, Others
  <2>5. CASE /\ \/ (Crash \/ Lock \/ VaultTrash) /\ UNCHANGED disturbed
                \/ (Purges \/ \E r \in Requests : Stumble(r)) /\ disturbed' = TRUE
             /\ UNCHANGED <<begun, opened>>
    BY <2>5 DEF Next, Calm, Others, Faults
  <2> QED BY <1>1, <2>1, <2>2, <2>3, <2>4, <2>5 DEF MCNext
<1>2. CASE UNCHANGED mcVars
  BY <1>2 DEF mcVars, counters, Calm, Others
<1> QED BY <1>1, <1>2

\* A crash or the end of a session, at any moment and however often, leaves
\* every committed transfer completable: its rows are in the destination and
\* each of its files is whole there, or staged under its name, until an
\* operation fails, the library purges an asset or a restore opens a journal.
THEOREM CrashesCompletable == OneAtATime => (MCSpec => [](opened \/ CrashIsCompletable))
<1> SUFFICES ASSUME OneAtATime PROVE MCSpec => [](opened \/ CrashIsCompletable)
  OBVIOUS
<1> DEFINE Inv == TransferInv /\ UniqueRows /\ (opened \/ (JournalIsClosed /\ (disturbed \/ PromiseInv)))
<1>1. MCInit => Inv
  BY InitTransfers, InitUnique, InitPromises DEF MCInit
<1>2. Inv /\ [MCNext]_mcVars => Inv'
  <2> SUFFICES ASSUME Inv, [MCNext]_mcVars PROVE Inv'
    OBVIOUS
  <2>1. TransferInv' /\ UniqueRows'
    BY RunSteps, NextTransfers, NextUnique
  <2>2. CASE opened'
    BY <2>1, <2>2
  <2>3. CASE ~opened'
    <3>1. ~opened /\ JournalIsClosed /\ (disturbed \/ PromiseInv)
      BY <2>3, RunSteps
    <3>2. JournalIsClosed'
      BY <2>3, <3>1, RunSteps, OthersClose
    <3>3. disturbed' \/ PromiseInv'
      <4>1. CASE disturbed'
        BY <4>1
      <4>2. CASE disturbed' = disturbed /\ disturbed
        BY <4>2
      <4>3. CASE Calm /\ PromiseInv
        BY <2>1, <3>1, <4>3, NextPromises DEF TransferInv
      <4> QED BY <3>1, <4>1, <4>2, <4>3, RunSteps
    <3> QED BY <2>1, <3>2, <3>3
  <2> QED BY <2>2, <2>3
<1>3. Inv => opened \/ CrashIsCompletable
  BY PromiseCompletable DEF CrashIsCompletable, TransferInv
<1> HIDE DEF Inv
<1> QED BY <1>1, <1>2, <1>3, PTL DEF MCSpec

=============================================================================
