------------------------------ MODULE VaultAccess ------------------------------
(***************************************************************************)
(* The way into the vault over HTTP: the keyfile (init of the core's       *)
(* vault.rs), the single unlock session of VaultSessionManager (vault.rs   *)
(* of the server) with its TTL and its expiry task, the guard that every   *)
(* request passes before and after it reads (SelectedDatabase of api.rs),  *)
(* and the streams that send blobs chunk by chunk (vault_blob_response).   *)
(*                                                                         *)
(* A session stands for its generation, its token and its handle with the  *)
(* master key.  Time is relative: left is what remains of the session's    *)
(* TTL (negative when it has lapsed), and a caller that has read the clock *)
(* but not yet taken the lock carries the age of its reading.  Each step   *)
(* is what one thread does under the lock of the session, in one file      *)
(* operation or on one end of a channel.  Passwords and recovery keys are  *)
(* right; what unlocking does to the vault is VaultTransfer.               *)
(*                                                                         *)
(* Operators Name_Slip beside Name are plausible slips; nothing uses them. *)
(***************************************************************************)
EXTENDS Integers, FiniteSets

CONSTANTS
  Callers,    \* clients: each has one request or one response body at a time
  Sessions,   \* unlock sessions there may ever be: a bound
  NoSession,
  Keys,       \* master keys with their recovery keys: a bound
  NoKey,
  Ttl,        \* the session's time to live
  MaxDelay,   \* how long a thread may wait for the lock, in the same unit: a bound
  MaxStreams, \* MAX_VAULT_STREAMS
  Chunks,     \* chunks of a blob
  Capacity    \* VAULT_STREAM_CHANNEL_CAPACITY

ASSUME VaultAccessAssumption ==
  /\ {Ttl, MaxStreams, Chunks, Capacity} \subseteq Nat \ {0}
  /\ MaxDelay \in Nat
  /\ NoSession \notin Sessions
  /\ NoKey \notin Keys

VARIABLES
  keyfile,    \* vault.keyfile: its state and the master key it wraps
  recovery,   \* master keys whose recovery key was answered
  session,    \* SessionManagerInner::session
  left,       \* expires_at of the session, less the time it is
  issued,     \* sessions that were ever issued
  revoked,    \* VaultKeyInner::revoked
  expiry,     \* the task of arm_expiry of each session
  caller,     \* what each client's request is at
  stream      \* each client's response body with its producer

sessions == <<session, left, issued, revoked>>
vars == <<keyfile, recovery, sessions, expiry, caller, stream>>

-----------------------------------------------------------------------------
NoFile == [state |-> "none", key |-> NoKey]
NoTask == [step |-> "none", timer |-> 0]
TaskSteps == {"none", "watching", "taking"}

\* deriving, writing: init; changing: change_password; opened, issuing:
\* unlock; arrived: has read the clock; authed: holds a VaultAccess; inside:
\* past the first guard of run_blocking; found: past the last one; opening:
\* holds a permit; streaming: has its response.
Idle == [step |-> "idle", session |-> NoSession, key |-> NoKey, age |-> 0]
CallerSteps == {"idle", "deriving", "writing", "changing", "opened", "issuing", "arrived",
                "authed", "inside", "found", "opening", "streaming"}

\* The producer: checking: at the head of read_chunk; hand: the item to send.
\* queued, errorQueued: what is in the channel; got: chunks the body gave;
\* late: those it gave after its session was revoked.
NoStream == [producer |-> "none", read |-> 0, hand |-> "nothing", queued |-> 0,
             errorQueued |-> FALSE, aborted |-> FALSE, body |-> "none", got |-> 0, late |-> 0]
Producing == {"checking", "decrypting", "sending", "leaving"}

Go(c, step) == caller' = [caller EXCEPT ![c].step = step]
Leave(c) == caller' = [caller EXCEPT ![c] = Idle]

Opened == {caller[c].session : c \in Callers}
UsedKeys == recovery \cup {keyfile.key} \cup {caller[c].key : c \in Callers}

\* Clients that hold one of vault_stream_slots.
Permits == {c \in Callers : caller[c].step = "opening" \/ stream[c].producer \in Producing}

Init ==
  /\ keyfile = NoFile
  /\ recovery = {}
  /\ session = NoSession /\ left = 0
  /\ issued = {} /\ revoked = {}
  /\ expiry = [s \in Sessions |-> NoTask]
  /\ caller = [c \in Callers |-> Idle]
  /\ stream = [c \in Callers |-> NoStream]

-----------------------------------------------------------------------------
(* The keyfile.                                                            *)

\* init looks for the file before it derives keys.
StartInit(c) ==
  /\ caller[c] = Idle
  /\ keyfile.state = "none"
  /\ \E k \in Keys \ UsedKeys :
       caller' = [caller EXCEPT ![c] = [Idle EXCEPT !.step = "deriving", !.key = k]]
  /\ UNCHANGED <<keyfile, recovery, sessions, expiry, stream>>

\* write_keyfile with create_new.
CreateKeyfile_Slip(c) ==
  /\ caller[c].step = "deriving"
  /\ keyfile' = [NoFile EXCEPT !.state = "cut"]
  /\ Go(c, "writing")
  /\ UNCHANGED <<recovery, sessions, expiry, stream>>

CreateKeyfile(c) ==
  /\ caller[c].step = "deriving"
  /\ IF keyfile.state = "none"
     THEN keyfile' = [NoFile EXCEPT !.state = "cut"] /\ Go(c, "writing")
     ELSE Leave(c) /\ UNCHANGED keyfile
  /\ UNCHANGED <<recovery, sessions, expiry, stream>>

WriteKeyfile(c) ==
  /\ caller[c].step = "writing"
  /\ keyfile' = [state |-> "whole", key |-> caller[c].key]
  /\ recovery' = recovery \cup {caller[c].key}
  /\ Leave(c)
  /\ UNCHANGED <<sessions, expiry, stream>>

\* change_password: reads the whole file and checks the old password ...
StartChange(c) ==
  /\ caller[c] = Idle
  /\ keyfile.state = "whole"
  /\ caller' = [caller EXCEPT ![c] = [Idle EXCEPT !.step = "changing", !.key = keyfile.key]]
  /\ UNCHANGED <<keyfile, recovery, sessions, expiry, stream>>

\* ... then renames a new file over it, with the records of the one it read
\* but for the password's.  It may fail, and leave a temporary file.
ReplaceKeyfile(c) ==
  /\ caller[c].step = "changing"
  /\ keyfile' \in {keyfile, [state |-> "whole", key |-> caller[c].key]}
  /\ Leave(c)
  /\ UNCHANGED <<recovery, sessions, expiry, stream>>

-----------------------------------------------------------------------------
(* The session.                                                            *)

\* read_keyfile (a file cut short is InvalidVaultKeyFile) and open.
Unlock(c) ==
  /\ caller[c] = Idle
  /\ keyfile.state = "whole"
  /\ \E s \in Sessions \ (issued \cup revoked \cup Opened) :
       caller' = [caller EXCEPT ![c] = [Idle EXCEPT !.step = "opened", !.session = s]]
  /\ UNCHANGED <<keyfile, recovery, sessions, expiry, stream>>

\* reconcile_transfers may fail; issue reads the clock ...
StartIssue(c) ==
  /\ caller[c].step = "opened"
  /\ Go(c, "issuing") \/ Leave(c)
  /\ UNCHANGED <<keyfile, recovery, sessions, expiry, stream>>

\* ... then replaces the session and arms the expiry of the new one.
Replaced_Slip == {}
Replaced == {session} \ {NoSession}

Issue(c) ==
  LET s == caller[c].session IN
  /\ caller[c].step = "issuing"
  /\ session' = s
  /\ left' = Ttl - caller[c].age
  /\ issued' = issued \cup {s}
  /\ revoked' = revoked \cup Replaced
  /\ expiry' = [expiry EXCEPT ![s].step = "watching"]
  /\ Leave(c)
  /\ UNCHANGED <<keyfile, recovery, stream>>

\* Every way out of a session revokes its handle.
Take_Slip == session' = NoSession /\ left' = 0 /\ UNCHANGED revoked
Take == session' = NoSession /\ left' = 0 /\ revoked' = revoked \cup {session}
Lapsed(age) == session # NoSession /\ left <= -age

\* A request with a session's token: authenticate reads the clock ...
Arrive(c, s) ==
  /\ caller[c] = Idle
  /\ s \in issued
  /\ caller' = [caller EXCEPT ![c] = [Idle EXCEPT !.step = "arrived", !.session = s]]
  /\ UNCHANGED <<keyfile, recovery, sessions, expiry, stream>>

\* ... then takes the lock.  The clock it goes by is as old as it waited.
Authenticate(c) ==
  /\ caller[c].step = "arrived"
  /\ \/ /\ Lapsed(caller[c].age)
        /\ Take /\ Leave(c)
     \/ /\ ~Lapsed(caller[c].age)
        /\ session # caller[c].session
        /\ Leave(c) /\ UNCHANGED <<session, left, revoked>>
     \/ /\ ~Lapsed(caller[c].age)
        /\ session = caller[c].session
        /\ left' = Ttl - caller[c].age
        /\ caller' = [caller EXCEPT ![c].step = "authed", ![c].age = 0]
        /\ UNCHANGED <<session, revoked>>
  /\ UNCHANGED <<keyfile, recovery, issued, expiry, stream>>

Lock(c) ==
  /\ caller[c].step = "authed"
  /\ IF session = caller[c].session THEN Take ELSE UNCHANGED <<session, left, revoked>>
  /\ Leave(c)
  /\ UNCHANGED <<keyfile, recovery, issued, expiry, stream>>

\* vault_status: unlocked ends a session that has lapsed.
Status ==
  /\ Lapsed(0)
  /\ Take
  /\ UNCHANGED <<keyfile, recovery, issued, expiry, caller, stream>>

-----------------------------------------------------------------------------
(* arm_expiry.                                                             *)

\* The sleep, if any, is over.
Remaining(s) ==
  /\ expiry[s] = [step |-> "watching", timer |-> 0]
  /\ expiry' = [expiry EXCEPT ![s] =
       IF session # s THEN NoTask
       ELSE IF left > 0 THEN [step |-> "watching", timer |-> left]
       ELSE [step |-> "taking", timer |-> 0]]
  /\ UNCHANGED <<keyfile, recovery, sessions, caller, stream>>

\* It looks again, since it had let go of the lock; the task ends either way.
Expire(s) ==
  /\ expiry[s].step = "taking"
  /\ IF session = s /\ left <= 0 THEN Take ELSE UNCHANGED <<session, left, revoked>>
  /\ expiry' = [expiry EXCEPT ![s] = NoTask]
  /\ UNCHANGED <<keyfile, recovery, issued, caller, stream>>

\* Time passes.  A thread between its clock and the lock is at most MaxDelay
\* late; a task looks as late as it likes.
Waits(c) == caller[c].step \in {"issuing", "arrived"}

Tick ==
  /\ \A c \in Callers : Waits(c) => caller[c].age < MaxDelay
  /\ left' = IF session = NoSession \/ left < -MaxDelay THEN left ELSE left - 1
  /\ caller' = [c \in Callers |->
       IF Waits(c) THEN [caller[c] EXCEPT !.age = @ + 1] ELSE caller[c]]
  /\ expiry' = [s \in Sessions |->
       IF expiry[s].timer > 0 THEN [expiry[s] EXCEPT !.timer = @ - 1] ELSE expiry[s]]
  /\ UNCHANGED <<keyfile, recovery, session, issued, revoked, stream>>

-----------------------------------------------------------------------------
(* A request that reads: ensure_active_vault_session, the operation, and   *)
(* ensure_active_vault_session again.                                      *)

Guarded(c, next) ==
  LET s == caller[c].session IN
  /\ \/ s \in revoked /\ Leave(c) /\ UNCHANGED <<session, left, revoked>>
     \/ s \notin revoked /\ Lapsed(0) /\ Take /\ Leave(c)
     \/ /\ s \notin revoked /\ ~Lapsed(0)
        /\ IF session = s THEN Go(c, next) ELSE Leave(c)
        /\ UNCHANGED <<session, left, revoked>>
  /\ UNCHANGED <<keyfile, recovery, issued, expiry, stream>>

Enter(c) == caller[c].step = "authed" /\ Guarded(c, "inside")

\* The operation is done.
Look(c) == caller[c].step = "inside" /\ Guarded(c, "found")

\* No thread is free for it, or it is all the client asked for, or what the
\* client asked for does not exist.
Done(c) ==
  /\ caller[c].step \in {"authed", "found"}
  /\ Leave(c)
  /\ UNCHANGED <<keyfile, recovery, sessions, expiry, stream>>

-----------------------------------------------------------------------------
(* vault_blob_response: the producer.                                      *)

TakePermit(c) ==
  /\ caller[c].step = "found"
  /\ IF Cardinality(Permits) < MaxStreams THEN Go(c, "opening") ELSE Leave(c)
  /\ UNCHANGED <<keyfile, recovery, sessions, expiry, stream>>

\* blob_reader, which may fail; the client may hang up meanwhile.
OpenReader(c) ==
  /\ caller[c].step = "opening"
  /\ \/ /\ caller[c].session \notin revoked
        /\ Go(c, "streaming")
        /\ stream' = [stream EXCEPT ![c] = [NoStream EXCEPT !.producer = "checking", !.body = "open"]]
     \/ Leave(c) /\ UNCHANGED stream
  /\ UNCHANGED <<keyfile, recovery, sessions, expiry>>

streaming == <<keyfile, recovery, sessions, expiry, caller>>

MayRead_Slip(c) == TRUE
MayRead(c) == caller[c].session \notin revoked

\* VaultBlobReader::next, to the look at the revocation ...
CheckChunk(c) ==
  /\ stream[c].producer = "checking"
  /\ stream' = [stream EXCEPT ![c] =
       IF @.read = Chunks THEN [@ EXCEPT !.producer = "leaving"]
       ELSE IF MayRead(c) THEN [@ EXCEPT !.producer = "decrypting"]
       ELSE [@ EXCEPT !.producer = "sending", !.hand = "error"]]
  /\ UNCHANGED streaming

\* ... and the rest of read_chunk.
ReadChunk(c) ==
  /\ stream[c].producer = "decrypting"
  /\ \/ stream' = [stream EXCEPT ![c] =
          [@ EXCEPT !.producer = "sending", !.hand = "chunk", !.read = stream[c].read + 1]]
     \/ stream' = [stream EXCEPT ![c] = [@ EXCEPT !.producer = "sending", !.hand = "error"]]
  /\ UNCHANGED streaming

Full(c) == stream[c].queued = Capacity

\* send_vault_chunk_with_deadline.
Send(c) ==
  /\ stream[c].producer = "sending"
  /\ stream[c].body = "open" /\ ~Full(c)
  /\ stream' = [stream EXCEPT ![c] =
       IF @.hand = "error" THEN [@ EXCEPT !.producer = "leaving", !.errorQueued = TRUE]
       ELSE [@ EXCEPT !.producer = "checking", !.hand = "nothing",
                      !.queued = stream[c].queued + 1]]
  /\ UNCHANGED streaming

SendClosed(c) ==
  /\ stream[c].producer = "sending"
  /\ stream[c].body # "open"
  /\ stream' = [stream EXCEPT ![c].producer = "leaving"]
  /\ UNCHANGED streaming

\* VAULT_STREAM_BACKPRESSURE_TIMEOUT: the body is told before the channel
\* closes.
SendTimesOut_Slip(c) ==
  /\ stream[c].producer = "sending"
  /\ stream[c].body = "open" /\ Full(c)
  /\ stream' = [stream EXCEPT ![c].producer = "leaving"]
  /\ UNCHANGED streaming

SendTimesOut_Never(c) == FALSE /\ UNCHANGED vars

SendTimesOut(c) ==
  /\ stream[c].producer = "sending"
  /\ stream[c].body = "open" /\ Full(c)
  /\ stream' = [stream EXCEPT ![c].producer = "leaving", ![c].aborted = TRUE]
  /\ UNCHANGED streaming

\* The sender and the permit are dropped.
Drop(c) ==
  /\ stream[c].producer = "leaving"
  /\ stream' = [stream EXCEPT ![c].producer = "none", ![c].hand = "nothing"]
  /\ UNCHANGED streaming

-----------------------------------------------------------------------------
(* vault_body_stream, as the connection polls it.                          *)

Receive(c) ==
  /\ stream[c].body = "open" /\ stream[c].queued > 0
  /\ LET x == stream[c] IN
     stream' = [stream EXCEPT ![c] =
       [x EXCEPT !.queued = @ - 1, !.got = @ + 1,
                 !.late = IF caller[c].session \in revoked THEN @ + 1 ELSE @]]
  /\ UNCHANGED streaming

\* The error of a chunk, or the end of the channel.
Finish(c) ==
  /\ stream[c].body = "open" /\ stream[c].queued = 0
  /\ stream[c].errorQueued \/ stream[c].producer = "none"
  /\ stream' = [stream EXCEPT ![c].body =
       IF stream[c].errorQueued \/ stream[c].aborted THEN "failed" ELSE "ended"]
  /\ UNCHANGED streaming

\* The client hangs up, or its connection's lifetime is over.
Disconnect(c) ==
  /\ stream[c].body = "open"
  /\ stream' = [stream EXCEPT ![c].body = "gone", ![c].queued = 0, ![c].errorQueued = FALSE]
  /\ UNCHANGED streaming

Close(c) ==
  /\ caller[c].step = "streaming"
  /\ stream[c].body # "open" /\ stream[c].producer = "none"
  /\ stream' = [stream EXCEPT ![c] = NoStream]
  /\ Leave(c)
  /\ UNCHANGED <<keyfile, recovery, sessions, expiry>>

-----------------------------------------------------------------------------
\* The process ends and starts again: the keyfile is left as it is.
Restart ==
  /\ session' = NoSession /\ left' = 0
  /\ revoked' = issued /\ UNCHANGED issued
  /\ expiry' = [s \in Sessions |-> NoTask]
  /\ caller' = [c \in Callers |-> Idle]
  /\ stream' = [c \in Callers |-> NoStream]
  /\ UNCHANGED <<keyfile, recovery>>

KeyfileStep(c) ==
  \/ StartInit(c) \/ CreateKeyfile(c) \/ WriteKeyfile(c)
  \/ StartChange(c) \/ ReplaceKeyfile(c)
UnlockStep(c) == Unlock(c) \/ StartIssue(c) \/ Issue(c)
RequestStep(c) == Lock(c) \/ Enter(c) \/ Look(c) \/ Done(c) \/ TakePermit(c)
ProducerStep(c) ==
  \/ OpenReader(c) \/ CheckChunk(c) \/ ReadChunk(c) \/ Send(c) \/ SendClosed(c)
  \/ SendTimesOut(c) \/ Drop(c)
BodyStep(c) == Receive(c) \/ Finish(c) \/ Disconnect(c) \/ Close(c)
TaskStep(s) == Remaining(s) \/ Expire(s)

Next ==
  \/ \E c \in Callers :
       \/ KeyfileStep(c) \/ UnlockStep(c) \/ Authenticate(c) \/ RequestStep(c)
       \/ ProducerStep(c) \/ BodyStep(c)
       \/ \E s \in Sessions : Arrive(c, s)
  \/ \E s \in Sessions : TaskStep(s)
  \/ Status \/ Tick \/ Restart

Spec == Init /\ [][Next]_vars

\* Clocks and spawned tasks go on, and so do a thread that waits for the lock
\* and a producer.  Nothing is asked of the clients.
Fairness ==
  /\ WF_vars(Tick)
  /\ \A c \in Callers : WF_vars(Issue(c) \/ Authenticate(c)) /\ WF_vars(ProducerStep(c))
  /\ \A s \in Sessions : WF_vars(TaskStep(s))

FairSpec == Spec /\ Fairness

-----------------------------------------------------------------------------
(* Invariants.                                                             *)

\* Every variable has its type, and a channel never holds more than it may.
TypeOK ==
  /\ keyfile \in [state : {"none", "cut", "whole"}, key : Keys \cup {NoKey}]
  /\ recovery \subseteq Keys
  /\ session \in Sessions \cup {NoSession}
  /\ left \in -MaxDelay - 1 .. Ttl
  /\ issued \subseteq Sessions /\ revoked \subseteq Sessions
  /\ expiry \in [Sessions -> [step : TaskSteps, timer : 0 .. Ttl]]
  /\ caller \in [Callers -> [step : CallerSteps, session : Sessions \cup {NoSession},
                             key : Keys \cup {NoKey}, age : 0 .. MaxDelay]]
  /\ stream \in [Callers ->
       [producer : {"none"} \cup Producing, read : 0 .. Chunks,
        hand : {"nothing", "chunk", "error"}, queued : 0 .. Capacity, errorQueued : BOOLEAN,
        aborted : BOOLEAN, body : {"none", "open", "ended", "failed", "gone"},
        got : 0 .. Chunks, late : 0 .. Chunks]]

\* At most one recovery key is ever answered, and it opens the keyfile that
\* is there, however many requests initialise the vault at once and wherever
\* the process ends.
RecoveryKeyOpens ==
  \A k \in recovery : keyfile = [state |-> "whole", key |-> k]

\* docs/06_vault.md:61-64: at most the current session's master key is in
\* memory; a lock, the TTL, a replacement and a restart revoke the handle of
\* the one they end.
OneLiveHandle ==
  issued \ revoked \subseteq {session}

\* docs/06_vault.md:61-64, of streams that are under way: after its session
\* has ended a client is given no more chunks than the channel and the
\* producer's hand held.
LateIsBounded ==
  \A c \in Callers : stream[c].late <= Capacity + 1

\* docs/06_vault.md:44-49: a body that ends without an error is the whole
\* blob; a client too slow for its producer does not take a part for it.
BodyIsWhole ==
  \A c \in Callers : stream[c].body = "ended" => stream[c].got = Chunks

-----------------------------------------------------------------------------
(* Liveness.                                                               *)

\* docs/06_vault.md:46-51: a producer ends and gives its permit back, also
\* when its client neither reads nor hangs up.
ProducersEnd ==
  \A c \in Callers : c \in Permits ~> c \notin Permits

\* docs/06_vault.md:59-64: when the TTL of a session that nobody uses any more
\* has lapsed, its key is destroyed.  The expiry task looks twice; when a
\* request that read its clock earlier extends the session in between
\* (Overtaken), the task ends all the same and nothing watches the session.
Uses == \E c \in Callers : Authenticate(c) \/ Issue(c)
Overtaken == \E s \in Sessions : expiry[s].step = "taking" /\ session = s /\ left > 0
IdleIsRevoked ==
  []~Overtaken /\ <>[][~Uses]_vars => \A s \in Sessions : s \in issued ~> s \in revoked

=============================================================================
