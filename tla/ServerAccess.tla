----------------------------- MODULE ServerAccess -----------------------------
(***************************************************************************)
(* Who may talk to the server, and what a connected client is told: the    *)
(* device tokens (AuthService of auth.rs), the slots of the WebSockets     *)
(* (Security::try_websocket_slot of security.rs), websocket_loop (api.rs)  *)
(* and the task that polls the job table for the sockets                   *)
(* (AppState::ensure_job_event_poller of lib.rs).                          *)
(*                                                                         *)
(* A request writes the table auth_tokens in one transaction and changes   *)
(* the list of known tokens in memory after it; a socket asks that list    *)
(* only, between waits; the poller gives up when nobody listens, and the   *)
(* next listener starts another.  Each step here is what one thread does   *)
(* under one lock, in one transaction or on one atomic.                    *)
(*                                                                         *)
(* A token stands for the id of its device, its secret and its hash.  The  *)
(* password is right or the login does not begin.  The events of a socket  *)
(* are its newest one (the channel drops the oldest ones, and a socket     *)
(* that lags goes on with what is left); which jobs changed between two    *)
(* polls is left out.                                                      *)
(*                                                                         *)
(* Operators Name_Slip beside Name are plausible slips; nothing uses them. *)
(***************************************************************************)
EXTENDS Naturals, FiniteSets

CONSTANTS
  Tokens,       \* device tokens the server may ever issue
  NoToken,
  Requests,     \* threads that serve setup, login, logout and revocation
  Sockets,      \* clients that open a WebSocket now and then
  Pollers,      \* job event pollers
  MaxDevices,   \* MAX_DEVICE_TOKENS
  MaxSockets,   \* MAX_WEBSOCKETS
  MaxPerToken   \* MAX_WEBSOCKETS_PER_TOKEN

ASSUME ServerAccessAssumption ==
  /\ {MaxDevices, MaxSockets, MaxPerToken} \subseteq Nat \ {0}
  /\ NoToken \notin Tokens
  /\ IsFiniteSet(Sockets) /\ IsFiniteSet(Pollers)

VARIABLES
  password,   \* settings has a row auth.password_hash (setup_completed, which
              \* remembers that it has, is never wrong: nothing deletes it)
  devices,    \* table auth_tokens
  loaded,     \* AuthState::token_hashes was read
  known,      \* ... and what it holds
  request,    \* what each thread is at
  held,       \* tokens that a client was answered
  revoked,    \* tokens whose revocation was answered, see Forget
  slots,      \* permits of websocket_slots that are taken
  perToken,   \* websocket_by_token
  socket,     \* each client's connection
  inbox,      \* each socket's newest event
  started,    \* job_poller_started
  poller      \* tasks of ensure_job_event_poller

auth == <<password, devices, loaded, known, request, held, revoked>>
sockets == <<slots, perToken, socket, inbox>>
polling == <<started, poller>>
vars == <<auth, sockets, polling>>

-----------------------------------------------------------------------------
Idle == [step |-> "idle", token |-> NoToken, early |-> FALSE]
RequestSteps == {"idle", "setup", "remember", "forget"}

\* authed: past require_websocket_auth; counted: holds a global permit;
\* upgrading: holds both; opened, subscribed: at the head of websocket_loop;
\* check: about to verify its token; waiting: in select!; received: has an
\* event; sending: verified again; closing: out of the loop; released: its
\* receiver is gone; returning: gave its token's slot back.
Subscribed == {"subscribed", "check", "waiting", "received", "sending", "closing"}
HoldsSlot == {"upgrading", "opened", "released"} \cup Subscribed
HoldsPermit == {"counted", "returning"} \cup HoldsSlot
SocketSteps == {"none", "authed"} \cup HoldsPermit
Closed == [step |-> "none", token |-> NoToken, late |-> FALSE]

\* in charge: in the loop, or quitting since it saw no receiver; stopped:
\* stored false; claiming: saw a receiver after all.
InCharge == {"tick", "quitting", "polling", "publishing"}
PollerSteps == {"none", "stopped", "claiming"} \cup InCharge

Receivers == {k \in Sockets : socket[k].step \in Subscribed}
Used == devices \cup known \cup held \cup revoked \cup {request[r].token : r \in Requests}
Fresh == Tokens \ Used

Go(k, step) == socket' = [socket EXCEPT ![k].step = step]
Run(p, step) == poller' = [poller EXCEPT ![p] = step]

Init ==
  /\ password = FALSE
  /\ devices = {} /\ loaded = FALSE /\ known = {}
  /\ request = [r \in Requests |-> Idle]
  /\ held = {} /\ revoked = {}
  /\ slots = 0 /\ perToken = [t \in Tokens |-> 0]
  /\ socket = [k \in Sockets |-> Closed]
  /\ inbox = [k \in Sockets |-> "empty"]
  /\ started = FALSE
  /\ poller = [p \in Pollers |-> "none"]

-----------------------------------------------------------------------------
(* Device tokens.                                                          *)

\* setup: both looks at setup_completed come before the transaction.
StartSetup(r) ==
  /\ request[r] = Idle
  /\ ~password
  /\ request' = [request EXCEPT ![r].step = "setup"]
  /\ UNCHANGED <<password, devices, loaded, known, held, revoked, sockets, polling>>

Issue(r, t) ==
  /\ t \in Fresh
  /\ devices' = devices \cup {t}
  /\ request' = [request EXCEPT ![r] = [Idle EXCEPT !.step = "remember", !.token = t]]

\* The transaction looks for the password again.
CommitSetup(r) ==
  /\ request[r].step = "setup"
  /\ IF password
     THEN request' = [request EXCEPT ![r] = Idle] /\ UNCHANGED devices
     ELSE \E t \in Tokens : Issue(r, t)
  /\ password' = TRUE
  /\ UNCHANGED <<loaded, known, held, revoked, sockets, polling>>

\* login and issue_token, up to the commit.
Login(r) ==
  /\ request[r] = Idle
  /\ password
  /\ Cardinality(devices) < MaxDevices
  /\ \E t \in Tokens : Issue(r, t)
  /\ UNCHANGED <<password, loaded, known, held, revoked, sockets, polling>>

Learned_Slip(t) == known
Learned(t) == IF loaded THEN known \cup {t} ELSE known

\* remember_token_hash, and the answer.
Remember(r) ==
  LET t == request[r].token IN
  /\ request[r].step = "remember"
  /\ known' = Learned(t)
  /\ held' = held \cup {t}
  /\ request' = [request EXCEPT ![r] = Idle]
  /\ UNCHANGED <<password, devices, loaded, revoked, sockets, polling>>

\* token_is_known: the list is read when it is first asked for, with its lock
\* held.
IsKnown(t) == t \in IF loaded THEN known ELSE devices
Look == loaded' = TRUE /\ known' = IF loaded THEN known ELSE devices

\* Any request with a token, right or wrong (require_auth, verify_token).
Verify ==
  /\ ~loaded
  /\ Look
  /\ UNCHANGED <<password, devices, request, held, revoked, sockets, polling>>

\* revoke of a device another client sees in its list, revoke_token of a
\* client that logs out: the row goes first.  early: the login that made the
\* token has not been answered.
Revoke(r, t) ==
  /\ request[r] = Idle
  /\ t \in devices
  /\ held # {}
  /\ devices' = devices \ {t}
  /\ request' = [request EXCEPT ![r] = [step |-> "forget", token |-> t, early |-> t \notin held]]
  /\ UNCHANGED <<password, loaded, known, held, revoked, sockets, polling>>

Forgotten_Slip(t) == known
Forgotten(t) == known \ {t}

\* forget_token_hash, and the answer.  A token that was revoked before its
\* login was answered is not counted as revoked: Remember may come last.
Forget(r) ==
  LET t == request[r].token IN
  /\ request[r].step = "forget"
  /\ known' = Forgotten(t)
  /\ revoked' = IF request[r].early THEN revoked ELSE revoked \cup {t}
  /\ request' = [request EXCEPT ![r] = Idle]
  /\ UNCHANGED <<password, devices, loaded, held, sockets, polling>>

-----------------------------------------------------------------------------
(* The slots of a socket.                                                  *)

Authenticate(k, t) ==
  /\ socket[k].step = "none"
  /\ t \in held
  /\ Look
  /\ IF IsKnown(t)
     THEN socket' = [socket EXCEPT ![k] = [Closed EXCEPT !.step = "authed", !.token = t]]
     ELSE UNCHANGED socket
  /\ UNCHANGED <<password, devices, request, held, revoked,
                 slots, perToken, inbox, polling>>

\* try_websocket_slot: a global permit first ...
TakePermit(k) ==
  /\ socket[k].step = "authed"
  /\ IF slots < MaxSockets
     THEN slots' = slots + 1 /\ Go(k, "counted")
     ELSE socket' = [socket EXCEPT ![k] = Closed] /\ UNCHANGED slots
  /\ UNCHANGED <<auth, perToken, inbox, polling>>

\* ... then, under the mutex, one of its token.  A refusal drops the permit.
Refused_Slip(k) == socket' = [socket EXCEPT ![k] = Closed]
Refused(k) == Go(k, "returning")

TakeSlot(k) ==
  LET t == socket[k].token IN
  /\ socket[k].step = "counted"
  /\ IF perToken[t] < MaxPerToken
     THEN perToken' = [perToken EXCEPT ![t] = @ + 1] /\ Go(k, "upgrading")
     ELSE Refused(k) /\ UNCHANGED perToken
  /\ UNCHANGED <<auth, slots, inbox, polling>>

\* on_upgrade runs its closure, or drops it with the permit.
Upgrade(k) ==
  /\ socket[k].step = "upgrading"
  /\ Go(k, "opened") \/ Go(k, "released")
  /\ UNCHANGED <<auth, slots, perToken, inbox, polling>>

\* WebSocketPermit: drop, then the global permit it holds.
ReleaseSlot(k) ==
  /\ socket[k].step = "released"
  /\ perToken' = [perToken EXCEPT ![socket[k].token] = @ - 1]
  /\ Go(k, "returning")
  /\ UNCHANGED <<auth, slots, inbox, polling>>

ReturnPermit(k) ==
  /\ socket[k].step = "returning"
  /\ slots' = slots - 1
  /\ socket' = [socket EXCEPT ![k] = Closed]
  /\ UNCHANGED <<auth, perToken, inbox, polling>>

-----------------------------------------------------------------------------
(* websocket_loop.                                                         *)

Subscribe(k) ==
  /\ socket[k].step = "opened"
  /\ Go(k, "subscribed")
  /\ UNCHANGED <<auth, slots, perToken, inbox, polling>>

\* ensure_job_event_poller: one compare_exchange.
EnsurePoller(k) ==
  /\ socket[k].step = "subscribed"
  /\ Go(k, "check")
  /\ started' = TRUE
  /\ IF started
     THEN UNCHANGED poller
     ELSE \E p \in Pollers : poller[p] = "none" /\ Run(p, "tick")
  /\ UNCHANGED <<auth, slots, perToken, inbox>>

\* verify_token_cached at the head of the loop.
CheckToken(k) ==
  /\ socket[k].step = "check"
  /\ Look
  /\ Go(k, IF IsKnown(socket[k].token) THEN "waiting" ELSE "closing")
  /\ UNCHANGED <<password, devices, request, held, revoked, slots, perToken, inbox, polling>>

\* events.recv.
Receive(k) ==
  /\ socket[k].step = "waiting"
  /\ inbox[k] # "empty"
  /\ socket' = [socket EXCEPT ![k].step = "received", ![k].late = inbox[k] = "late"]
  /\ inbox' = [inbox EXCEPT ![k] = "empty"]
  /\ UNCHANGED <<auth, slots, perToken, polling>>

\* A ping went out, a frame came in, or the channel had lagged.
Wake(k) ==
  /\ socket[k].step = "waiting"
  /\ Go(k, "check")
  /\ UNCHANGED <<auth, slots, perToken, inbox, polling>>

\* The client closed or was silent for too long, or a ping was not taken.
HangUp(k) ==
  /\ socket[k].step = "waiting"
  /\ Go(k, "closing")
  /\ UNCHANGED <<auth, slots, perToken, inbox, polling>>

Passes_Slip(k) == TRUE
Passes(k) == IsKnown(socket[k].token)

\* verify_token_cached before the event is sent.
CheckBeforeSend(k) ==
  /\ socket[k].step = "received"
  /\ Look
  /\ Go(k, IF Passes(k) THEN "sending" ELSE "closing")
  /\ UNCHANGED <<password, devices, request, held, revoked, slots, perToken, inbox, polling>>

\* send_json ends, by its deadline at the latest.
Send(k) ==
  /\ socket[k].step = "sending"
  /\ \/ socket' = [socket EXCEPT ![k].step = "check", ![k].late = FALSE]
     \/ socket' = [socket EXCEPT ![k].step = "closing", ![k].late = FALSE]
  /\ UNCHANGED <<auth, slots, perToken, inbox, polling>>

\* The loop's locals go: the receiver before the permit.
Unsubscribe(k) ==
  /\ socket[k].step = "closing"
  /\ socket' = [socket EXCEPT ![k].step = "released", ![k].late = FALSE]
  /\ inbox' = [inbox EXCEPT ![k] = "empty"]
  /\ UNCHANGED <<auth, slots, perToken, polling>>

-----------------------------------------------------------------------------
(* Events.                                                                 *)

\* late: the socket's token had been revoked before the event was sent to it.
Broadcast ==
  inbox' = [k \in Sockets |->
    IF k \notin Receivers THEN inbox[k]
    ELSE IF socket[k].token \in revoked THEN "late" ELSE "timely"]

\* assets_added, by any upload.
NotifyAssets ==
  /\ Receivers # {}
  /\ Broadcast
  /\ UNCHANGED <<auth, slots, perToken, socket, polling>>

\* The interval fires: does anybody listen?
Tick(p) ==
  /\ poller[p] = "tick"
  /\ Run(p, IF Receivers = {} THEN "quitting" ELSE "polling")
  /\ UNCHANGED <<auth, sockets, started>>

StoreFalse(p) ==
  /\ poller[p] = "quitting"
  /\ started' = FALSE
  /\ Run(p, "stopped")
  /\ UNCHANGED <<auth, sockets>>

\* A listener may have come between the look and the store.
LookAgain_Slip(p) ==
  /\ poller[p] = "stopped"
  /\ Run(p, "none")
  /\ UNCHANGED <<auth, sockets, started>>

LookAgain(p) ==
  /\ poller[p] = "stopped"
  /\ IF Receivers = {} THEN Run(p, "none") ELSE Run(p, "claiming")
  /\ UNCHANGED <<auth, sockets, started>>

Reclaim_Slip(p) ==
  /\ poller[p] = "claiming"
  /\ started' = TRUE
  /\ Run(p, "polling")
  /\ UNCHANGED <<auth, sockets>>

\* The compare_exchange: a new poller may have been started.
Reclaim(p) ==
  /\ poller[p] = "claiming"
  /\ started' = TRUE
  /\ IF started THEN Run(p, "none") ELSE Run(p, "polling")
  /\ UNCHANGED <<auth, sockets>>

\* list, which may fail; then the jobs that differ from the last snapshot are
\* sent.
ListJobs(p) ==
  /\ poller[p] = "polling"
  /\ Run(p, "publishing") \/ Run(p, "tick")
  /\ UNCHANGED <<auth, sockets, started>>

Publish(p) ==
  /\ poller[p] = "publishing"
  /\ Broadcast \/ UNCHANGED inbox
  /\ Run(p, "tick")
  /\ UNCHANGED <<auth, slots, perToken, socket, started>>

-----------------------------------------------------------------------------
\* The process ends and starts again: the database is left.
Restart ==
  /\ loaded' = FALSE /\ known' = {}
  /\ request' = [r \in Requests |-> Idle]
  /\ slots' = 0 /\ perToken' = [t \in Tokens |-> 0]
  /\ socket' = [k \in Sockets |-> Closed]
  /\ inbox' = [k \in Sockets |-> "empty"]
  /\ started' = FALSE
  /\ poller' = [p \in Pollers |-> "none"]
  /\ UNCHANGED <<password, devices, held, revoked>>

RequestStep(r) ==
  \/ StartSetup(r) \/ CommitSetup(r) \/ Login(r) \/ Remember(r) \/ Forget(r)
  \/ \E t \in Tokens : Revoke(r, t)

\* What a connection does of itself once it has been let in.
LoopStep(k) ==
  \/ TakePermit(k) \/ TakeSlot(k) \/ Upgrade(k) \/ ReleaseSlot(k) \/ ReturnPermit(k)
  \/ Subscribe(k) \/ EnsurePoller(k) \/ CheckToken(k) \/ Receive(k) \/ Wake(k)
  \/ CheckBeforeSend(k) \/ Send(k) \/ Unsubscribe(k)

PollerStep(p) ==
  \/ Tick(p) \/ StoreFalse(p) \/ LookAgain(p) \/ Reclaim(p) \/ ListJobs(p) \/ Publish(p)

Next ==
  \/ \E r \in Requests : RequestStep(r)
  \/ \E k \in Sockets : LoopStep(k) \/ HangUp(k) \/ \E t \in Tokens : Authenticate(k, t)
  \/ \E p \in Pollers : PollerStep(p)
  \/ Verify \/ NotifyAssets \/ Restart

Spec == Init /\ [][Next]_vars

-----------------------------------------------------------------------------
(* Invariants.                                                             *)

\* Every variable has its type.
TypeOK ==
  /\ {password, loaded, started} \subseteq BOOLEAN
  /\ {devices, known, held, revoked} \subseteq SUBSET Tokens
  /\ request \in [Requests -> [step : RequestSteps, token : Tokens \cup {NoToken},
                               early : BOOLEAN]]
  /\ slots \in 0 .. MaxSockets
  /\ perToken \in [Tokens -> 0 .. MaxPerToken]
  /\ socket \in [Sockets -> [step : SocketSteps, token : Tokens \cup {NoToken}, late : BOOLEAN]]
  /\ inbox \in [Sockets -> {"empty", "timely", "late"}]
  /\ poller \in [Pollers -> PollerSteps]

\* The list of known tokens, which is read once and then kept in step by
\* hand, agrees with the table on every token that nobody is at, in whatever
\* order logins, revocations and the first read of the list interleave.  A
\* token whose device was revoked before its login was answered is the one
\* exception (held, never revoked, no row): Remember puts it back.
CacheIsCoherent ==
  loaded => \A t \in Tokens :
    \/ t \in known <=> t \in devices
    \/ \E r \in Requests : request[r].token = t
    \/ t \in held \ revoked /\ t \notin devices

\* A token whose revocation was answered is refused ever after, by requests
\* and by sockets, also after a restart.
RevokedIsRefused ==
  \A t \in revoked : ~IsKnown(t)

\* docs/03_api.md:157-159: no event that was sent after the revocation of a
\* socket's token was answered goes out on the socket.
NothingAfterRevoke ==
  \A k \in Sockets : socket[k].step = "sending" => ~socket[k].late

\* Every permit belongs to a connection and comes back with it, whatever is
\* refused, dropped or closed on the way: no refusal uses a slot up.
SlotsAreReturned ==
  /\ slots = Cardinality({k \in Sockets : socket[k].step \in HoldsPermit})
  /\ \A t \in Tokens :
       perToken[t] = Cardinality({k \in Sockets : socket[k].token = t
                                                 /\ socket[k].step \in HoldsSlot})

\* The flag says whether a poller is in charge, and never are two: clients
\* are not told everything twice, however listeners come and go while a
\* poller gives up.
OnePoller ==
  Cardinality({p \in Pollers : poller[p] \in InCharge}) = IF started THEN 1 ELSE 0

\* A listener never waits in vain: once it has asked for a poller there is
\* one in charge, or one that is about to see the listener.
ListenersAreServed ==
  (\E k \in Sockets : socket[k].step \in Subscribed \ {"subscribed"})
    => \E p \in Pollers : poller[p] # "none"
=============================================================================
