--------------------------- MODULE VaultAccessProofs ---------------------------
(***************************************************************************)
(* Theorems about VaultAccess, for any clients, sessions and keys, any TTL *)
(* and delays, and streams of any length and capacity.                     *)
(***************************************************************************)
EXTENDS VaultAccess, TLAPS

-----------------------------------------------------------------------------
(* Callers and sessions.                                                   *)

CallerType == [step : CallerSteps, session : Sessions \cup {NoSession},
               key : Keys \cup {NoKey}, age : 0 .. MaxDelay]

KeySteps == {"deriving", "writing", "changing"}

\* A client at the keyfile has a key in its hands, any other that is not idle
\* a session.
GoodCaller ==
  {x \in CallerType : /\ x.step \in KeySteps => x.key \in Keys
                      /\ x.step \notin KeySteps \cup {"idle"} => x.session \in Sessions}

CallersOK == caller \in [Callers -> GoodCaller]

SessionsOK ==
  /\ session \in Sessions \cup {NoSession}
  /\ left \in -MaxDelay - 1 .. Ttl
  /\ issued \subseteq Sessions /\ revoked \subseteq Sessions
  /\ expiry \in [Sessions -> [step : TaskSteps, timer : 0 .. Ttl]]

\* Who writes the file has created it, and none was answered before; who
\* changes the password has read the file that is still there.
KeyInv ==
  /\ keyfile \in [state : {"none", "cut", "whole"}, key : Keys \cup {NoKey}]
  /\ recovery \subseteq Keys
  /\ keyfile.state # "whole" => recovery = {}
  /\ keyfile.state = "whole" => recovery \subseteq {keyfile.key} /\ keyfile.key \in Keys
  /\ \A c \in Callers :
       /\ caller[c].step = "writing" => keyfile.state = "cut"
       /\ caller[c].step = "changing" =>
            keyfile = [state |-> "whole", key |-> caller[c].key]
  /\ \A c, d \in Callers :
       c # d => ~(caller[c].step = "writing" /\ caller[d].step = "writing")

AccessInv == CallersOK /\ SessionsOK /\ KeyInv /\ OneLiveHandle

LEMMA Constants ==
  /\ Ttl \in Nat \ {0} /\ MaxDelay \in Nat /\ Chunks \in Nat \ {0} /\ Capacity \in Nat \ {0}
  /\ NoSession \notin Sessions /\ NoKey \notin Keys
BY VaultAccessAssumption

LEMMA IdleIsGood == Idle \in GoodCaller /\ Idle.step = "idle"
BY Constants DEF Idle, GoodCaller, CallerType, CallerSteps, KeySteps

\* A client begins at the keyfile, or with a session.
LEMMA FromIdle ==
  /\ \A step \in KeySteps : \A k \in Keys :
       /\ [Idle EXCEPT !.step = step, !.key = k] \in GoodCaller
       /\ [Idle EXCEPT !.step = step, !.key = k].step = step
       /\ [Idle EXCEPT !.step = step, !.key = k].key = k
  /\ \A step \in CallerSteps \ (KeySteps \cup {"idle"}) : \A s \in Sessions :
       /\ [Idle EXCEPT !.step = step, !.session = s] \in GoodCaller
       /\ [Idle EXCEPT !.step = step, !.session = s].step = step
       /\ [Idle EXCEPT !.step = step, !.session = s].session = s
BY IdleIsGood DEF GoodCaller, CallerType, KeySteps, CallerSteps

\* A client moves on with what it has.
LEMMA GoodStep ==
  ASSUME NEW x \in GoodCaller, NEW step \in CallerSteps,
         x.step \notin KeySteps \cup {"idle"}, step \notin KeySteps \cup {"idle"}
  PROVE  [x EXCEPT !.step = step] \in GoodCaller
BY DEF GoodCaller, CallerType

LEMMA GoodAuthed ==
  ASSUME NEW x \in GoodCaller, x.step = "arrived"
  PROVE  LET y == [x EXCEPT !.step = "authed", !.age = 0]
         IN  y \in GoodCaller /\ y.step = "authed"
<1>1. 0 \in 0 .. MaxDelay
  BY Constants
<1> QED BY <1>1 DEF GoodCaller, CallerType, CallerSteps, KeySteps

LEMMA CallerMoves ==
  ASSUME CallersOK, NEW c \in Callers, NEW x \in GoodCaller,
         caller' = [caller EXCEPT ![c] = x]
  PROVE  /\ CallersOK'
         /\ \A d \in Callers : caller'[d] = IF d = c THEN x ELSE caller[d]
BY DEF CallersOK

\* Steps that leave the keyfile and those that are at it alone.
LEMMA KeyKept ==
  ASSUME KeyInv, UNCHANGED <<keyfile, recovery>>,
         \A c \in Callers : caller'[c].step \in {"writing", "changing"} =>
           caller'[c].step = caller[c].step /\ caller'[c].key = caller[c].key
  PROVE  KeyInv'
BY DEF KeyInv

\* A client leaves, or goes somewhere else than to the keyfile.
LEMMA MovesOff ==
  ASSUME AccessInv, NEW c \in Callers, NEW x \in GoodCaller, x.step \notin {"writing", "changing"},
         caller' = [caller EXCEPT ![c] = x], UNCHANGED <<keyfile, recovery>>
  PROVE  CallersOK' /\ KeyInv'
<1>1. CallersOK' /\ \A d \in Callers : caller'[d] = IF d = c THEN x ELSE caller[d]
  BY CallerMoves DEF AccessInv
<1> QED BY <1>1, KeyKept DEF AccessInv

LEMMA Takes ==
  ASSUME AccessInv, Take, session # NoSession, UNCHANGED <<issued, expiry>>
  PROVE  SessionsOK' /\ OneLiveHandle'
BY Constants DEF AccessInv, Take, SessionsOK, OneLiveHandle

LEMMA SessionsKept ==
  ASSUME AccessInv, UNCHANGED <<session, left, revoked, issued, expiry>>
  PROVE  SessionsOK' /\ OneLiveHandle'
BY DEF AccessInv, SessionsOK, OneLiveHandle

LEMMA Still ==
  ASSUME AccessInv, UNCHANGED <<keyfile, recovery, sessions, expiry, caller>>
  PROVE  AccessInv'
BY DEF AccessInv, CallersOK, SessionsOK, KeyInv, OneLiveHandle, sessions

-----------------------------------------------------------------------------
(* The steps of the keyfile.                                               *)

LEMMA KeyfileSteps ==
  ASSUME AccessInv, NEW c \in Callers, KeyfileStep(c)
  PROVE  AccessInv'
<1>0. /\ caller[c] \in GoodCaller /\ CallersOK /\ KeyInv
      /\ UNCHANGED <<session, left, revoked, issued, expiry>>
  BY DEF AccessInv, CallersOK, KeyfileStep, StartInit, CreateKeyfile, WriteKeyfile, StartChange,
         ReplaceKeyfile, sessions
<1>a. SessionsOK' /\ OneLiveHandle'
  BY <1>0, SessionsKept
<1>1. CASE StartInit(c)
  <2>1. PICK k \in Keys :
          /\ caller' = [caller EXCEPT ![c] = [Idle EXCEPT !.step = "deriving", !.key = k]]
          /\ UNCHANGED <<keyfile, recovery>>
    BY <1>1 DEF StartInit
  <2> DEFINE x == [Idle EXCEPT !.step = "deriving", !.key = k]
  <2>2. x \in GoodCaller /\ x.step = "deriving"
    BY FromIdle DEF KeySteps
  <2> HIDE DEF x
  <2>3. caller' = [caller EXCEPT ![c] = x]
    BY <2>1 DEF x
  <2> QED BY <1>a, <2>1, <2>2, <2>3, MovesOff DEF AccessInv
<1>2. CASE CreateKeyfile(c)
  <2>1. CASE keyfile.state = "none"
    <3>1. /\ keyfile' = [state |-> "cut", key |-> NoKey]
          /\ caller' = [caller EXCEPT ![c] = [caller[c] EXCEPT !.step = "writing"]]
          /\ recovery' = recovery /\ caller[c].step = "deriving"
      BY <1>2, <2>1, <1>0 DEF CreateKeyfile, NoFile, Go, CallersOK
    <3>2. [caller[c] EXCEPT !.step = "writing"] \in GoodCaller
      BY <1>0, <3>1 DEF GoodCaller, CallerType, CallerSteps, KeySteps
    <3>3. CallersOK' /\ \A d \in Callers : d # c => caller'[d] = caller[d]
      BY <1>0, <3>1, <3>2, CallerMoves
    <3>4. KeyInv'
      BY <1>0, <2>1, <3>1, <3>3 DEF KeyInv
    <3> QED BY <1>a, <3>3, <3>4 DEF AccessInv
  <2>2. CASE keyfile.state # "none"
    <3>1. caller' = [caller EXCEPT ![c] = Idle] /\ UNCHANGED <<keyfile, recovery>>
      BY <1>2, <2>2 DEF CreateKeyfile, Leave
    <3> QED BY <1>a, <3>1, IdleIsGood, MovesOff DEF AccessInv
  <2> QED BY <2>1, <2>2
<1>3. CASE WriteKeyfile(c)
  <2>1. /\ caller' = [caller EXCEPT ![c] = Idle] /\ caller[c].step = "writing"
        /\ keyfile' = [state |-> "whole", key |-> caller[c].key]
        /\ recovery' = recovery \cup {caller[c].key}
    BY <1>3 DEF WriteKeyfile, Leave
  <2>2. caller[c].key \in Keys /\ keyfile.state = "cut" /\ recovery = {}
    BY <1>0, <2>1 DEF GoodCaller, KeySteps, KeyInv
  <2>3. /\ CallersOK' /\ caller'[c].step = "idle"
        /\ \A d \in Callers : d # c => caller'[d] = caller[d]
    <3>1. CallersOK' /\ \A d \in Callers : caller'[d] = IF d = c THEN Idle ELSE caller[d]
      BY <1>0, <2>1, IdleIsGood, CallerMoves
    <3> QED BY <3>1, IdleIsGood
  <2>4. \A d \in Callers : caller'[d].step \notin {"writing", "changing"}
    BY <2>1, <2>2, <2>3, <1>0 DEF KeyInv
  <2>5. KeyInv'
    BY <2>1, <2>2, <2>4 DEF KeyInv
  <2> QED BY <1>a, <2>3, <2>5 DEF AccessInv
<1>4. CASE StartChange(c)
  <2>1. /\ caller' = [caller EXCEPT ![c] = [Idle EXCEPT !.step = "changing", !.key = keyfile.key]]
        /\ UNCHANGED <<keyfile, recovery>> /\ keyfile.state = "whole"
    BY <1>4 DEF StartChange
  <2> DEFINE x == [Idle EXCEPT !.step = "changing", !.key = keyfile.key]
  <2>2. x \in GoodCaller /\ x.step = "changing" /\ x.key = keyfile.key
    BY <1>0, <2>1, FromIdle DEF KeyInv, KeySteps
  <2> HIDE DEF x
  <2>3. caller' = [caller EXCEPT ![c] = x]
    BY <2>1 DEF x
  <2>4. CallersOK' /\ \A d \in Callers : caller'[d] = IF d = c THEN x ELSE caller[d]
    BY <1>0, <2>1, <2>2, <2>3, CallerMoves
  <2>5. keyfile = [state |-> "whole", key |-> keyfile.key]
    BY <1>0, <2>1 DEF KeyInv
  <2>6. KeyInv'
    BY <1>0, <2>1, <2>3, <2>4, <2>5 DEF KeyInv
  <2> QED BY <1>a, <2>4, <2>6 DEF AccessInv
<1>5. CASE ReplaceKeyfile(c)
  <2>1. /\ caller' = [caller EXCEPT ![c] = Idle] /\ recovery' = recovery
        /\ keyfile' = keyfile
    BY <1>0, <1>5 DEF ReplaceKeyfile, Leave, KeyInv
  <2> QED BY <1>a, <2>1, IdleIsGood, MovesOff DEF AccessInv
<1> QED BY <1>1, <1>2, <1>3, <1>4, <1>5 DEF KeyfileStep

-----------------------------------------------------------------------------
(* The steps of sessions and requests.                                     *)

\* The client goes on with its session, or leaves.
LEMMA Goes ==
  ASSUME AccessInv, NEW c \in Callers, NEW step \in CallerSteps \ (KeySteps \cup {"idle"}),
         caller[c].step \notin KeySteps \cup {"idle"}, Go(c, step) \/ Leave(c),
         UNCHANGED <<keyfile, recovery>>
  PROVE  CallersOK' /\ KeyInv'
<1>0. caller \in [Callers -> GoodCaller]
  BY DEF AccessInv, CallersOK
<1>1. CASE Go(c, step)
  <2> DEFINE x == [caller[c] EXCEPT !.step = step]
  <2>1. x \in GoodCaller /\ x.step \notin {"writing", "changing"}
    BY <1>0, GoodStep DEF GoodCaller, CallerType, KeySteps
  <2>2. caller' = [caller EXCEPT ![c] = x]
    BY <1>0, <1>1 DEF Go
  <2> HIDE DEF x
  <2> QED BY <2>1, <2>2, MovesOff
<1>2. CASE Leave(c)
  BY <1>2, IdleIsGood, MovesOff DEF Leave
<1> QED BY <1>1, <1>2

LEMMA Begins ==
  ASSUME AccessInv, NEW c \in Callers, NEW s \in Sessions,
         NEW step \in CallerSteps \ (KeySteps \cup {"idle"}),
         caller' = [caller EXCEPT ![c] = [Idle EXCEPT !.step = step, !.session = s]],
         UNCHANGED <<keyfile, recovery, sessions, expiry>>
  PROVE  AccessInv'
<1> DEFINE x == [Idle EXCEPT !.step = step, !.session = s]
<1>1. x \in GoodCaller /\ x.step \notin {"writing", "changing"}
  <2>1. x \in GoodCaller /\ x.step = step
    BY FromIdle
  <2> HIDE DEF x
  <2> QED BY <2>1 DEF KeySteps
<1>2. caller' = [caller EXCEPT ![c] = x]
  OBVIOUS
<1> HIDE DEF x
<1>3. CallersOK' /\ KeyInv'
  BY <1>1, <1>2, MovesOff
<1> QED BY <1>3, SessionsKept DEF AccessInv, sessions

LEMMA UnlockSteps ==
  ASSUME AccessInv, NEW c \in Callers, UnlockStep(c)
  PROVE  AccessInv'
<1>0. caller[c] \in GoodCaller
  BY DEF AccessInv, CallersOK
<1>1. CASE Unlock(c)
  BY <1>1, Begins DEF Unlock, CallerSteps, KeySteps
<1>2. CASE StartIssue(c)
  BY <1>2, Goes, SessionsKept DEF StartIssue, AccessInv, CallerSteps, KeySteps, sessions
<1>3. CASE Issue(c)
  <2>1. PICK s \in Sessions : s = caller[c].session
    BY <1>0, <1>3 DEF Issue, GoodCaller, KeySteps
  <2>2. CallersOK' /\ KeyInv'
    BY <1>3, IdleIsGood, MovesOff DEF Issue, Leave
  <2>3. /\ session' = s /\ issued' = issued \cup {s} /\ revoked' = revoked \cup Replaced
        /\ left' = Ttl - caller[c].age /\ caller[c].age \in 0 .. MaxDelay
        /\ expiry' = [expiry EXCEPT ![s].step = "watching"]
    BY <1>0, <1>3, <2>1 DEF Issue, GoodCaller, CallerType
  <2>4. Replaced \subseteq Sessions
    BY DEF Replaced, AccessInv, SessionsOK
  <2>5. left' \in -MaxDelay - 1 .. Ttl
    BY <2>3, Constants
  <2>6. SessionsOK'
    BY <2>3, <2>4, <2>5 DEF AccessInv, SessionsOK, TaskSteps
  <2>7. OneLiveHandle'
    BY <2>3, Constants DEF Replaced, AccessInv, SessionsOK, OneLiveHandle
  <2> QED BY <2>2, <2>6, <2>7 DEF AccessInv
<1> QED BY <1>1, <1>2, <1>3 DEF UnlockStep

LEMMA AuthenticateSteps ==
  ASSUME AccessInv, NEW c \in Callers, Authenticate(c)
  PROVE  AccessInv'
<1>0. caller \in [Callers -> GoodCaller] /\ caller[c].step = "arrived"
  BY DEF AccessInv, CallersOK, Authenticate
<1>1. CASE Leave(c)
  <2>1. CallersOK' /\ KeyInv'
    BY <1>1, IdleIsGood, MovesOff DEF Leave, Authenticate
  <2>2. SessionsOK' /\ OneLiveHandle'
    <3>1. CASE Lapsed(caller[c].age)
      BY <3>1, Takes DEF Authenticate, Lapsed
    <3>2. CASE ~Lapsed(caller[c].age) /\ session # caller[c].session
      BY <3>2, SessionsKept DEF Authenticate
    <3>3. CASE ~Lapsed(caller[c].age) /\ session = caller[c].session
      <4>1. caller' = [caller EXCEPT ![c].step = "authed", ![c].age = 0]
        BY <3>3 DEF Authenticate
      <4>2. caller'[c].step = "authed" /\ caller'[c] = Idle
        BY <1>0, <1>1, <4>1 DEF Leave, GoodCaller, CallerType
      <4> QED BY <4>2, IdleIsGood
    <3> QED BY <3>1, <3>2, <3>3
  <2> QED BY <2>1, <2>2 DEF AccessInv
<1>2. CASE ~Leave(c)
  <2> DEFINE x == [caller[c] EXCEPT !.step = "authed", !.age = 0]
  <2>1. /\ left' = Ttl - caller[c].age
        /\ caller' = [caller EXCEPT ![c] = x]
        /\ UNCHANGED <<keyfile, recovery, session, revoked, issued, expiry>>
    BY <1>0, <1>2 DEF Authenticate
  <2>2. x \in GoodCaller /\ x.step \notin {"writing", "changing"}
    BY <1>0, GoodAuthed
  <2> HIDE DEF x
  <2>3. CallersOK' /\ KeyInv'
    BY <2>1, <2>2, MovesOff
  <2>4. caller[c].age \in 0 .. MaxDelay
    BY <1>0 DEF GoodCaller, CallerType
  <2>5. left' \in -MaxDelay - 1 .. Ttl
    BY <2>1, <2>4, Constants
  <2> QED BY <2>1, <2>3, <2>5 DEF AccessInv, SessionsOK, OneLiveHandle
<1> QED BY <1>1, <1>2

LEMMA RequestSteps ==
  ASSUME AccessInv, NEW c \in Callers, RequestStep(c)
  PROVE  AccessInv'
<1> USE DEF CallerSteps, KeySteps
<1>0. caller[c] \in GoodCaller
  BY DEF AccessInv, CallersOK
<1>1. CASE Lock(c)
  <2>1. CallersOK' /\ KeyInv'
    BY <1>1, IdleIsGood, MovesOff DEF Lock, Leave
  <2>2. session = caller[c].session => session # NoSession
    BY <1>0, <1>1, Constants DEF Lock, GoodCaller
  <2>3. SessionsOK' /\ OneLiveHandle'
    BY <1>1, <2>2, Takes, SessionsKept DEF Lock
  <2> QED BY <2>1, <2>3 DEF AccessInv
<1>2. ASSUME NEW next \in {"inside", "found"}, Guarded(c, next),
             caller[c].step \in {"authed", "inside"}
      PROVE AccessInv'
  <2>1. CallersOK' /\ KeyInv'
    BY <1>2, Goes DEF Guarded
  <2>2. SessionsOK' /\ OneLiveHandle'
    BY <1>2, Takes, SessionsKept DEF Guarded, Lapsed
  <2> QED BY <2>1, <2>2 DEF AccessInv
<1>3. CASE Done(c)
  BY <1>3, IdleIsGood, MovesOff, SessionsKept DEF Done, Leave, AccessInv, sessions
<1>4. CASE TakePermit(c)
  BY <1>4, Goes, SessionsKept DEF TakePermit, AccessInv, sessions
<1> QED BY <1>1, <1>2, <1>3, <1>4 DEF RequestStep, Enter, Look

LEMMA TaskSteps0 ==
  ASSUME AccessInv, NEW s \in Sessions, TaskStep(s)
  PROVE  AccessInv'
<1>0. CallersOK' /\ KeyInv'
  BY DEF TaskStep, Remaining, Expire, AccessInv, CallersOK, KeyInv
<1>1. CASE Remaining(s)
  <2>1. left > 0 => left \in 0 .. Ttl
    BY Constants DEF AccessInv, SessionsOK
  <2>2. expiry' \in [Sessions -> [step : TaskSteps, timer : 0 .. Ttl]]
    BY <1>1, <2>1, Constants DEF Remaining, AccessInv, SessionsOK, TaskSteps, NoTask
  <2> QED BY <1>0, <1>1, <2>2 DEF Remaining, AccessInv, SessionsOK, OneLiveHandle, sessions
<1>2. CASE Expire(s)
  <2>1. expiry' \in [Sessions -> [step : TaskSteps, timer : 0 .. Ttl]]
    BY <1>2, Constants DEF Expire, AccessInv, SessionsOK, TaskSteps, NoTask
  <2>2. session = s /\ left <= 0 => session # NoSession
    BY Constants
  <2> QED BY <1>0, <1>2, <2>1, <2>2, Constants
      DEF Expire, Take, AccessInv, SessionsOK, OneLiveHandle
<1> QED BY <1>1, <1>2 DEF TaskStep

LEMMA TickStep ==
  ASSUME AccessInv, Tick
  PROVE  AccessInv'
<1>0. caller \in [Callers -> GoodCaller]
  BY DEF AccessInv, CallersOK
<1>1. \A c \in Callers : Waits(c) => [caller[c] EXCEPT !.age = @ + 1] \in GoodCaller
  <2> SUFFICES ASSUME NEW c \in Callers, Waits(c)
               PROVE  [caller[c] EXCEPT !.age = @ + 1] \in GoodCaller
    OBVIOUS
  <2>1. caller[c].age + 1 \in 0 .. MaxDelay
    BY <1>0, Constants DEF Tick, GoodCaller, CallerType
  <2> QED BY <1>0, <2>1 DEF GoodCaller, CallerType
<1>2. CallersOK'
  BY <1>0, <1>1 DEF Tick, CallersOK
<1>3. \A c \in Callers : caller'[c].step = caller[c].step /\ caller'[c].key = caller[c].key
  BY <1>0 DEF Tick, GoodCaller, CallerType
<1>4. KeyInv'
  BY <1>3, KeyKept DEF AccessInv, Tick
<1>5. left' \in -MaxDelay - 1 .. Ttl
  BY Constants DEF Tick, AccessInv, SessionsOK
<1>6. expiry' \in [Sessions -> [step : TaskSteps, timer : 0 .. Ttl]]
  BY Constants DEF Tick, AccessInv, SessionsOK
<1> QED BY <1>2, <1>4, <1>5, <1>6 DEF Tick, AccessInv, SessionsOK, OneLiveHandle

LEMMA StatusStep == ASSUME AccessInv, Status PROVE AccessInv'
<1>1. SessionsOK' /\ OneLiveHandle'
  BY Takes DEF Status, Lapsed
<1> QED BY <1>1 DEF Status, AccessInv, CallersOK, KeyInv
-----------------------------------------------------------------------------
(* Streams.                                                                *)

StreamType ==
  [producer : {"none"} \cup Producing, read : 0 .. Chunks,
   hand : {"nothing", "chunk", "error"}, queued : 0 .. Capacity, errorQueued : BOOLEAN,
   aborted : BOOLEAN, body : {"none", "open", "ended", "failed", "gone"},
   got : 0 .. Chunks, late : 0 .. Chunks]

InHand(x) == IF x.producer = "sending" /\ x.hand = "chunk" THEN 1 ELSE 0
InFlight(x) == IF x.producer = "decrypting" THEN 1 ELSE InHand(x)

\* What was read was given, waits in the channel, is in the producer's hand or
\* is lost; nothing is lost, and the producer goes on to the last chunk, as
\* long as the body has not been told of a failure.
GoodStream ==
  {x \in StreamType :
    /\ x.producer = "decrypting" => x.read < Chunks
    /\ x.producer = "sending" => x.hand \in {"chunk", "error"}
    /\ x.got + x.queued + InHand(x) <= x.read
    /\ x.body = "open" /\ ~x.aborted /\ ~x.errorQueued =>
         /\ x.got + x.queued + InHand(x) = x.read
         /\ x.producer \in {"leaving", "none"} => x.read = Chunks
    /\ x.body = "ended" => x.got = Chunks
    /\ x.late <= x.got}

\* When its session ends, the channel and one chunk are under way, no more.
Due(x, s, gone) ==
  IF s \in gone THEN x.late + x.queued + InFlight(x) <= Capacity + 1 ELSE x.late = 0

StreamInv ==
  /\ stream \in [Callers -> GoodStream]
  /\ \A c \in Callers : /\ Due(stream[c], caller[c].session, revoked)
                        /\ caller[c].step # "streaming" => stream[c] = NoStream

LEMMA NoStreamIsGood ==
  NoStream \in GoodStream /\ \A s, gone : Due(NoStream, s, gone)
BY Constants DEF NoStream, GoodStream, StreamType, InHand, InFlight, Due

\* A session ends while a stream goes on.
LEMMA DueLater ==
  ASSUME NEW x \in GoodStream, NEW s, NEW gone, NEW more, gone \subseteq more,
         Due(x, s, gone)
  PROVE  Due(x, s, more)
<1>1. /\ x.queued \in 0 .. Capacity /\ x.late \in 0 .. Chunks
      /\ InFlight(x) \in {0, 1}
  BY DEF GoodStream, StreamType, InFlight, InHand
<1> QED BY <1>1, Constants DEF Due

\* Steps of others: streams, and the clients that have one, stay.
LEMMA StreamsKept ==
  ASSUME StreamInv, stream' = stream, revoked \subseteq revoked',
         \A c \in Callers :
           \/ caller'[c].step = caller[c].step /\ caller'[c].session = caller[c].session
           \/ caller[c].step # "streaming"
  PROVE  StreamInv'
<1> SUFFICES ASSUME NEW c \in Callers
             PROVE  /\ Due(stream[c], caller'[c].session, revoked')
                    /\ caller'[c].step # "streaming" => stream[c] = NoStream
  BY DEF StreamInv
<1>1. stream[c] \in GoodStream /\ Due(stream[c], caller[c].session, revoked)
  BY DEF StreamInv
<1>2. CASE caller'[c].step = caller[c].step /\ caller'[c].session = caller[c].session
  BY <1>1, <1>2, DueLater DEF StreamInv
<1>3. CASE caller[c].step # "streaming"
  BY <1>3, NoStreamIsGood DEF StreamInv
<1> QED BY <1>2, <1>3

\* One stream moves.
LEMMA StreamMoves ==
  ASSUME StreamInv, NEW c \in Callers, NEW x \in GoodStream,
         Due(x, caller[c].session, revoked), stream[c] # NoStream,
         stream' = [stream EXCEPT ![c] = x], UNCHANGED <<caller, revoked>>
  PROVE  StreamInv'
<1>1. caller[c].step = "streaming"
  BY DEF StreamInv
<1>2. stream' \in [Callers -> GoodStream]
  BY DEF StreamInv
<1>3. \A d \in Callers : stream'[d] = IF d = c THEN x ELSE stream[d]
  BY DEF StreamInv
<1> QED BY <1>1, <1>2, <1>3 DEF StreamInv

LEMMA Busy == NoStream.producer = "none" /\ NoStream.body = "none"
BY DEF NoStream

\* The steps of a producer and its body, as changes of one record.
LEMMA EndGood ==
  ASSUME NEW x \in GoodStream, x.producer = "checking", x.read = Chunks,
         NEW s, NEW gone, Due(x, s, gone)
  PROVE  LET y == [x EXCEPT !.producer = "leaving"] IN y \in GoodStream /\ Due(y, s, gone)
BY Constants DEF GoodStream, StreamType, Producing, InHand, InFlight, Due

LEMMA DecryptGood ==
  ASSUME NEW x \in GoodStream, x.producer = "checking", x.read # Chunks,
         NEW s, NEW gone, s \notin gone, Due(x, s, gone)
  PROVE  LET y == [x EXCEPT !.producer = "decrypting"] IN y \in GoodStream /\ Due(y, s, gone)
BY Constants DEF GoodStream, StreamType, Producing, InHand, InFlight, Due

LEMMA ErrorGood ==
  ASSUME NEW x \in GoodStream, x.producer \in {"checking", "decrypting"},
         NEW s, NEW gone, Due(x, s, gone)
  PROVE  LET y == [x EXCEPT !.producer = "sending", !.hand = "error"]
         IN  y \in GoodStream /\ Due(y, s, gone)
<1> DEFINE y == [x EXCEPT !.producer = "sending", !.hand = "error"]
<1>1. x \in StreamType /\ y \in StreamType
  BY DEF GoodStream, StreamType, Producing
<1>2. /\ y.producer = "sending" /\ y.hand = "error" /\ y.read = x.read
      /\ y.got = x.got /\ y.queued = x.queued /\ y.late = x.late /\ y.body = x.body
      /\ y.aborted = x.aborted /\ y.errorQueued = x.errorQueued
  BY <1>1 DEF StreamType
<1>3. InHand(y) = 0 /\ InFlight(y) = 0 /\ InHand(x) = 0 /\ InFlight(x) \in {0, 1}
  BY <1>2 DEF InHand, InFlight
<1> HIDE DEF y
<1>4. y \in GoodStream
  BY <1>1, <1>2, <1>3 DEF GoodStream, StreamType
<1>5. Due(y, s, gone)
  BY <1>1, <1>2, <1>3, Constants DEF Due, StreamType
<1> QED BY <1>4, <1>5 DEF y

LEMMA ReadGood ==
  ASSUME NEW x \in GoodStream, x.producer = "decrypting", NEW s, NEW gone, Due(x, s, gone)
  PROVE  LET y == [x EXCEPT !.producer = "sending", !.hand = "chunk", !.read = @ + 1]
         IN  y \in GoodStream /\ Due(y, s, gone)
<1> DEFINE y == [x EXCEPT !.producer = "sending", !.hand = "chunk", !.read = @ + 1]
<1>1. x \in StreamType /\ x.read < Chunks
  BY DEF GoodStream
<1>2. x.read + 1 \in 0 .. Chunks
  BY <1>1, Constants DEF StreamType
<1>3. y \in StreamType
  BY <1>1, <1>2 DEF StreamType, Producing
<1>4. /\ y.producer = "sending" /\ y.hand = "chunk" /\ y.read = x.read + 1
      /\ y.got = x.got /\ y.queued = x.queued /\ y.late = x.late /\ y.body = x.body
      /\ y.aborted = x.aborted /\ y.errorQueued = x.errorQueued
  BY <1>1 DEF StreamType
<1>5. InHand(y) = 1 /\ InFlight(y) = 1 /\ InHand(x) = 0 /\ InFlight(x) = 1
  BY <1>4 DEF InHand, InFlight
<1> HIDE DEF y
<1>6. y \in GoodStream
  BY <1>1, <1>3, <1>4, <1>5, Constants DEF GoodStream, StreamType
<1>7. Due(y, s, gone)
  BY <1>4, <1>5 DEF Due
<1> QED BY <1>6, <1>7 DEF y

LEMMA LeavingGood ==
  ASSUME NEW x \in GoodStream, NEW y \in StreamType, NEW s, NEW gone, Due(x, s, gone),
         y.producer = "leaving", y.read = x.read, y.got = x.got, y.queued = x.queued,
         y.late = x.late, y.body = x.body, y.aborted \/ y.errorQueued \/ y.body # "open"
  PROVE  y \in GoodStream /\ Due(y, s, gone)
<1>1. InHand(y) = 0 /\ InFlight(y) = 0 /\ InHand(x) \in {0, 1} /\ InFlight(x) \in {0, 1}
  BY DEF InHand, InFlight
<1>2. x \in StreamType
  BY DEF GoodStream
<1>3. y \in GoodStream
  BY <1>1, <1>2 DEF GoodStream, StreamType
<1>4. Due(y, s, gone)
  BY <1>1, <1>2, Constants DEF Due, StreamType
<1> QED BY <1>3, <1>4

LEMMA TellGood ==
  ASSUME NEW x \in GoodStream, x.producer = "sending", NEW s, NEW gone, Due(x, s, gone)
  PROVE  LET y == [x EXCEPT !.producer = "leaving", !.errorQueued = TRUE]
         IN  y \in GoodStream /\ Due(y, s, gone)
<1> DEFINE y == [x EXCEPT !.producer = "leaving", !.errorQueued = TRUE]
<1>1. x \in StreamType /\ y \in StreamType
  BY DEF GoodStream, StreamType, Producing
<1>2. /\ y.producer = "leaving" /\ y.read = x.read /\ y.got = x.got
      /\ y.queued = x.queued /\ y.late = x.late /\ y.body = x.body
      /\ y.aborted \/ y.errorQueued \/ y.body # "open"
  BY <1>1 DEF StreamType
<1> HIDE DEF y
<1> QED BY <1>1, <1>2, LeavingGood DEF y

LEMMA AbortGood ==
  ASSUME NEW x \in GoodStream, x.producer = "sending", NEW s, NEW gone, Due(x, s, gone)
  PROVE  LET y == [x EXCEPT !.producer = "leaving", !.aborted = TRUE]
         IN  y \in GoodStream /\ Due(y, s, gone)
<1> DEFINE y == [x EXCEPT !.producer = "leaving", !.aborted = TRUE]
<1>1. x \in StreamType /\ y \in StreamType
  BY DEF GoodStream, StreamType, Producing
<1>2. /\ y.producer = "leaving" /\ y.read = x.read /\ y.got = x.got
      /\ y.queued = x.queued /\ y.late = x.late /\ y.body = x.body
      /\ y.aborted \/ y.errorQueued \/ y.body # "open"
  BY <1>1 DEF StreamType
<1> HIDE DEF y
<1> QED BY <1>1, <1>2, LeavingGood DEF y

LEMMA GiveUpGood ==
  ASSUME NEW x \in GoodStream, x.producer = "sending", x.body # "open",
         NEW s, NEW gone, Due(x, s, gone)
  PROVE  LET y == [x EXCEPT !.producer = "leaving"]
         IN  y \in GoodStream /\ Due(y, s, gone)
<1> DEFINE y == [x EXCEPT !.producer = "leaving"]
<1>1. x \in StreamType /\ y \in StreamType
  BY DEF GoodStream, StreamType, Producing
<1>2. /\ y.producer = "leaving" /\ y.read = x.read /\ y.got = x.got
      /\ y.queued = x.queued /\ y.late = x.late /\ y.body = x.body
      /\ y.aborted \/ y.errorQueued \/ y.body # "open"
  BY <1>1 DEF StreamType
<1> HIDE DEF y
<1> QED BY <1>1, <1>2, LeavingGood DEF y

LEMMA QueueGood ==
  ASSUME NEW x \in GoodStream, x.producer = "sending", x.hand = "chunk",
         x.queued # Capacity, NEW s, NEW gone, Due(x, s, gone)
  PROVE  LET y == [x EXCEPT !.producer = "checking", !.hand = "nothing", !.queued = @ + 1]
         IN  y \in GoodStream /\ Due(y, s, gone)
<1> DEFINE y == [x EXCEPT !.producer = "checking", !.hand = "nothing", !.queued = @ + 1]
<1>1. x \in StreamType /\ x.queued + 1 \in 0 .. Capacity
  BY Constants DEF GoodStream, StreamType
<1>2. y \in StreamType
  BY <1>1 DEF StreamType, Producing
<1>3. /\ y.producer = "checking" /\ y.queued = x.queued + 1 /\ y.read = x.read
      /\ y.got = x.got /\ y.late = x.late /\ y.body = x.body
      /\ y.aborted = x.aborted /\ y.errorQueued = x.errorQueued
  BY <1>1 DEF StreamType
<1>4. InHand(y) = 0 /\ InFlight(y) = 0 /\ InHand(x) = 1 /\ InFlight(x) = 1
  BY <1>3 DEF InHand, InFlight
<1> HIDE DEF y
<1>5. y \in GoodStream
  BY <1>1, <1>2, <1>3, <1>4 DEF GoodStream, StreamType
<1>6. Due(y, s, gone)
  BY <1>1, <1>3, <1>4, Constants DEF Due, StreamType
<1> QED BY <1>5, <1>6 DEF y

LEMMA DropGood ==
  ASSUME NEW x \in GoodStream, x.producer = "leaving", NEW s, NEW gone, Due(x, s, gone)
  PROVE  LET y == [x EXCEPT !.producer = "none", !.hand = "nothing"]
         IN  y \in GoodStream /\ Due(y, s, gone)
BY Constants DEF GoodStream, StreamType, Producing, InHand, InFlight, Due

LEMMA ReceiveGood ==
  ASSUME NEW x \in GoodStream, x.body = "open", x.queued > 0, NEW s, NEW gone, Due(x, s, gone)
  PROVE  LET y == [x EXCEPT !.queued = @ - 1, !.got = @ + 1,
                            !.late = IF s \in gone THEN @ + 1 ELSE @]
         IN  y \in GoodStream /\ Due(y, s, gone)
<1> DEFINE y == [x EXCEPT !.queued = @ - 1, !.got = @ + 1,
                          !.late = IF s \in gone THEN @ + 1 ELSE @]
<1>1. x \in StreamType /\ InHand(x) \in {0, 1}
  BY DEF GoodStream, InHand
<1>2. x.got + 1 <= x.read /\ x.late <= x.got
  BY <1>1 DEF GoodStream, StreamType
<1>3. /\ x.queued - 1 \in 0 .. Capacity /\ x.got + 1 \in 0 .. Chunks
      /\ x.late \in 0 .. Chunks /\ x.late + 1 \in 0 .. Chunks
  BY <1>1, <1>2, Constants DEF StreamType
<1>4. y \in StreamType
  BY <1>1, <1>3 DEF StreamType
<1>5. /\ y.queued = x.queued - 1 /\ y.got = x.got + 1 /\ y.read = x.read
      /\ y.late = IF s \in gone THEN x.late + 1 ELSE x.late
      /\ y.body = x.body /\ y.producer = x.producer /\ y.hand = x.hand
      /\ y.aborted = x.aborted /\ y.errorQueued = x.errorQueued
  BY <1>1 DEF StreamType
<1>6. InHand(y) = InHand(x) /\ InFlight(y) = InFlight(x) /\ InFlight(x) \in {0, 1}
  BY <1>5 DEF InHand, InFlight
<1> HIDE DEF y
<1>7. y \in GoodStream
  BY <1>1, <1>3, <1>4, <1>5, <1>6 DEF GoodStream, StreamType
<1>8. Due(y, s, gone)
  BY <1>1, <1>5, <1>6, Constants DEF Due, StreamType
<1> QED BY <1>7, <1>8 DEF y

LEMMA FinishGood ==
  ASSUME NEW x \in GoodStream, x.body = "open", x.queued = 0,
         x.errorQueued \/ x.producer = "none", NEW s, NEW gone, Due(x, s, gone)
  PROVE  LET y == [x EXCEPT !.body = IF x.errorQueued \/ x.aborted THEN "failed" ELSE "ended"]
         IN  y \in GoodStream /\ Due(y, s, gone)
<1> DEFINE y == [x EXCEPT !.body = IF x.errorQueued \/ x.aborted THEN "failed" ELSE "ended"]
<1>1. x \in StreamType /\ y \in StreamType
  <2> DEFINE b == IF x.errorQueued \/ x.aborted THEN "failed" ELSE "ended"
  <2>1. b \in {"failed", "ended"} /\ y = [x EXCEPT !.body = b]
    OBVIOUS
  <2> HIDE DEF b, y
  <2>2. [x EXCEPT !.body = b] \in StreamType
    BY <2>1 DEF GoodStream, StreamType
  <2> QED BY <2>1, <2>2 DEF GoodStream
<1>2. /\ y.queued = x.queued /\ y.got = x.got /\ y.read = x.read /\ y.late = x.late
      /\ y.producer = x.producer /\ y.hand = x.hand
      /\ y.body = IF x.errorQueued \/ x.aborted THEN "failed" ELSE "ended"
  BY <1>1 DEF StreamType
<1>3. InHand(y) = InHand(x) /\ InFlight(y) = InFlight(x)
  BY <1>2 DEF InHand, InFlight
<1>4. ~x.errorQueued /\ ~x.aborted => x.got = Chunks
  <2> SUFFICES ASSUME ~x.errorQueued, ~x.aborted PROVE x.got = Chunks
    OBVIOUS
  <2>1. InHand(x) = 0
    BY DEF InHand
  <2> QED BY <1>1, <2>1 DEF GoodStream, StreamType
<1> HIDE DEF y
<1>5. y \in GoodStream
  BY <1>1, <1>2, <1>3, <1>4 DEF GoodStream
<1>6. Due(y, s, gone)
  BY <1>2, <1>3 DEF Due
<1> QED BY <1>5, <1>6 DEF y

LEMMA DisconnectGood ==
  ASSUME NEW x \in GoodStream, x.body = "open", NEW s, NEW gone, Due(x, s, gone)
  PROVE  LET y == [x EXCEPT !.body = "gone", !.queued = 0, !.errorQueued = FALSE]
         IN  y \in GoodStream /\ Due(y, s, gone)
<1> DEFINE y == [x EXCEPT !.body = "gone", !.queued = 0, !.errorQueued = FALSE]
<1>0. x \in StreamType /\ 0 \in 0 .. Capacity
  BY Constants DEF GoodStream
<1>1. x \in StreamType /\ y \in StreamType
  BY <1>0 DEF StreamType
<1>2. /\ y.queued = 0 /\ y.got = x.got /\ y.read = x.read /\ y.late = x.late
      /\ y.producer = x.producer /\ y.hand = x.hand /\ y.body = "gone"
  BY <1>1 DEF StreamType
<1>3. InHand(y) = InHand(x) /\ InFlight(y) = InFlight(x) /\ InHand(x) \in {0, 1}
      /\ InFlight(x) \in {0, 1}
  BY <1>2 DEF InHand, InFlight
<1> HIDE DEF y
<1>4. y \in GoodStream
  BY <1>1, <1>2, <1>3 DEF GoodStream, StreamType
<1>5. Due(y, s, gone)
  BY <1>1, <1>2, <1>3, Constants DEF Due, StreamType
<1> QED BY <1>4, <1>5 DEF y

\* A step inside a stream.
StreamStep(c) ==
  \/ CheckChunk(c) \/ ReadChunk(c) \/ Send(c) \/ SendClosed(c) \/ SendTimesOut(c) \/ Drop(c)
  \/ Receive(c) \/ Finish(c) \/ Disconnect(c)

LEMMA InsideStream ==
  ASSUME StreamInv, NEW c \in Callers, StreamStep(c)
  PROVE  StreamInv' /\ UNCHANGED streaming
<1> DEFINE x == stream[c]
           Moved(y) == stream' = [stream EXCEPT ![c] = y]
<1>0. x \in GoodStream /\ Due(x, caller[c].session, revoked)
  BY DEF StreamInv
<1>1. UNCHANGED streaming /\ UNCHANGED <<caller, revoked>>
  BY DEF StreamStep, CheckChunk, ReadChunk, Send, SendClosed, SendTimesOut, Drop, Receive,
         Finish, Disconnect, streaming, sessions
<1>2. x # NoStream
  <2>1. x.producer # "none" \/ x.body = "open"
    BY DEF StreamStep, CheckChunk, ReadChunk, Send, SendClosed, SendTimesOut, Drop, Receive,
           Finish, Disconnect
  <2> QED BY <2>1, Busy
<1> SUFFICES \E y \in GoodStream : Due(y, caller[c].session, revoked) /\ Moved(y)
  BY <1>0, <1>1, <1>2, StreamMoves
<1>3. CASE CheckChunk(c)
  <2>1. /\ x.producer = "checking"
        /\ stream' = [stream EXCEPT ![c] =
             IF x.read = Chunks THEN [x EXCEPT !.producer = "leaving"]
             ELSE IF caller[c].session \notin revoked THEN [x EXCEPT !.producer = "decrypting"]
             ELSE [x EXCEPT !.producer = "sending", !.hand = "error"]]
    BY <1>3 DEF CheckChunk, MayRead
  <2>2. CASE x.read = Chunks
    BY <1>0, <2>1, <2>2, EndGood
  <2>3. CASE x.read # Chunks /\ caller[c].session \notin revoked
    BY <1>0, <2>1, <2>3, DecryptGood
  <2>4. CASE x.read # Chunks /\ caller[c].session \in revoked
    BY <1>0, <2>1, <2>4, ErrorGood
  <2> QED BY <2>2, <2>3, <2>4
<1>4. CASE ReadChunk(c)
  <2>0. /\ x.producer = "decrypting"
        /\ \/ stream' = [stream EXCEPT ![c] =
                [x EXCEPT !.producer = "sending", !.hand = "chunk", !.read = x.read + 1]]
           \/ stream' = [stream EXCEPT ![c] = [x EXCEPT !.producer = "sending", !.hand = "error"]]
    BY <1>4, Zenon DEF ReadChunk
  <2>1. /\ x.producer = "decrypting"
        /\ \/ Moved([x EXCEPT !.producer = "sending", !.hand = "chunk", !.read = @ + 1])
           \/ Moved([x EXCEPT !.producer = "sending", !.hand = "error"])
    BY <2>0, Zenon
  <2>2. CASE Moved([x EXCEPT !.producer = "sending", !.hand = "chunk", !.read = @ + 1])
    BY <1>0, <2>1, <2>2, ReadGood
  <2>3. CASE Moved([x EXCEPT !.producer = "sending", !.hand = "error"])
    BY <1>0, <2>1, <2>3, ErrorGood
  <2> QED BY <2>1, <2>2, <2>3
<1>5. CASE Send(c)
  <2>1. x.producer = "sending" /\ x.body = "open" /\ x.queued # Capacity
    BY <1>5 DEF Send, Full
  <2>2. CASE x.hand = "error"
    <3>1. Moved([x EXCEPT !.producer = "leaving", !.errorQueued = TRUE])
      BY <1>5, <2>2 DEF Send
    <3> QED BY <1>0, <2>1, <3>1, TellGood
  <2>3. CASE x.hand # "error"
    <3>0. stream' = [stream EXCEPT ![c] =
            IF x.hand = "error" THEN [x EXCEPT !.producer = "leaving", !.errorQueued = TRUE]
            ELSE [x EXCEPT !.producer = "checking", !.hand = "nothing", !.queued = x.queued + 1]]
      BY <1>5, Zenon DEF Send
    <3>1. Moved([x EXCEPT !.producer = "checking", !.hand = "nothing", !.queued = @ + 1])
      BY <2>3, <3>0
    <3>2. x.hand = "chunk"
      BY <1>0, <2>1, <2>3 DEF GoodStream
    <3> QED BY <1>0, <2>1, <3>1, <3>2, QueueGood
  <2> QED BY <2>2, <2>3
<1>6. CASE SendClosed(c)
  <2>1. x.producer = "sending" /\ x.body # "open" /\ Moved([x EXCEPT !.producer = "leaving"])
    BY <1>6 DEF SendClosed
  <2> QED BY <1>0, <2>1, GiveUpGood
<1>7. CASE SendTimesOut(c)
  <2>1. x.producer = "sending" /\ Moved([x EXCEPT !.producer = "leaving", !.aborted = TRUE])
    BY <1>7 DEF SendTimesOut
  <2> QED BY <1>0, <2>1, AbortGood
<1>8. CASE Drop(c)
  <2>1. x.producer = "leaving" /\ Moved([x EXCEPT !.producer = "none", !.hand = "nothing"])
    BY <1>8 DEF Drop
  <2> QED BY <1>0, <2>1, DropGood
<1>9. CASE Receive(c)
  <2>1. /\ x.body = "open" /\ x.queued > 0
        /\ Moved([x EXCEPT !.queued = @ - 1, !.got = @ + 1,
                           !.late = IF caller[c].session \in revoked THEN @ + 1 ELSE @])
    BY <1>9 DEF Receive
  <2> QED BY <1>0, <2>1, ReceiveGood
<1>10. CASE Finish(c)
  <2>1. /\ x.body = "open" /\ x.queued = 0
        /\ x.errorQueued \/ x.producer = "none"
        /\ Moved([x EXCEPT !.body = IF x.errorQueued \/ x.aborted THEN "failed" ELSE "ended"])
    BY <1>10 DEF Finish
  <2> QED BY <1>0, <2>1, FinishGood
<1>11. CASE Disconnect(c)
  <2>1. /\ x.body = "open"
        /\ Moved([x EXCEPT !.body = "gone", !.queued = 0, !.errorQueued = FALSE])
    BY <1>11 DEF Disconnect
  <2> QED BY <1>0, <2>1, DisconnectGood
<1> QED BY <1>3, <1>4, <1>5, <1>6, <1>7, <1>8, <1>9, <1>10, <1>11 DEF StreamStep

\* The streams of others stay, whatever becomes of sessions and requests.
LEMMA StreamsAside ==
  ASSUME AccessInv, StreamInv, NEW c \in Callers,
         KeyfileStep(c) \/ UnlockStep(c) \/ Authenticate(c) \/ RequestStep(c)
  PROVE  StreamInv'
<1>1. caller[c].step # "streaming"
  <2>1. caller[c] = Idle => caller[c].step = "idle"
    BY IdleIsGood
  <2> QED
    BY <2>1 DEF KeyfileStep, StartInit, CreateKeyfile, WriteKeyfile, StartChange, ReplaceKeyfile,
           UnlockStep, Unlock, StartIssue, Issue, Authenticate, RequestStep, Lock, Enter, Look,
           Done, TakePermit
<1>2. stream' = stream
  BY DEF KeyfileStep, StartInit, CreateKeyfile, WriteKeyfile, StartChange, ReplaceKeyfile,
         UnlockStep, Unlock, StartIssue, Issue, Authenticate, RequestStep, Lock, Enter, Look,
         Guarded, Done, TakePermit
<1>3. revoked \subseteq revoked'
  BY DEF KeyfileStep, StartInit, CreateKeyfile, WriteKeyfile, StartChange, ReplaceKeyfile,
         UnlockStep, Unlock, StartIssue, Issue, Authenticate, RequestStep, Lock, Enter, Look,
         Guarded, Done, TakePermit, Take, sessions
<1>4. \A d \in Callers : d # c => caller'[d] = caller[d]
  BY DEF AccessInv, CallersOK, Go, Leave,
         KeyfileStep, StartInit, CreateKeyfile, WriteKeyfile, StartChange, ReplaceKeyfile,
         UnlockStep, Unlock, StartIssue, Issue, Authenticate, RequestStep, Lock, Enter, Look,
         Guarded, Done, TakePermit
<1> QED BY <1>1, <1>2, <1>3, <1>4, StreamsKept

LEMMA NoStreamStarts ==
  LET y == [NoStream EXCEPT !.producer = "checking", !.body = "open"]
  IN  /\ y.producer = "checking" /\ y.body = "open" /\ y.read = 0 /\ y.queued = 0
      /\ y.got = 0 /\ y.late = 0 /\ y \in StreamType
<1>1. NoStream \in StreamType
  BY NoStreamIsGood DEF GoodStream
<1>2. NoStream.read = 0 /\ NoStream.queued = 0 /\ NoStream.got = 0 /\ NoStream.late = 0
  BY DEF NoStream
<1> QED BY <1>1, <1>2 DEF StreamType, Producing

LEMMA OpenStep ==
  ASSUME AccessInv, StreamInv, NEW c \in Callers, OpenReader(c)
  PROVE  AccessInv' /\ StreamInv'
<1>0. caller \in [Callers -> GoodCaller] /\ caller[c].step = "opening"
  BY DEF AccessInv, CallersOK, OpenReader
<1>1. CallersOK' /\ KeyInv'
  BY <1>0, Goes DEF OpenReader, CallerSteps, KeySteps
<1>2. AccessInv'
  BY <1>1, SessionsKept DEF OpenReader, AccessInv, sessions
<1>3. CASE Leave(c) /\ UNCHANGED stream
  <2>1. \A d \in Callers : d # c => caller'[d] = caller[d]
    BY <1>0, <1>3 DEF Leave
  <2>2. stream' = stream /\ revoked' = revoked
    BY <1>3 DEF OpenReader, sessions
  <2>3. StreamInv'
    BY <1>0, <2>1, <2>2, StreamsKept
  <2> QED BY <1>2, <2>3
<1>4. CASE /\ caller[c].session \notin revoked
           /\ Go(c, "streaming")
           /\ stream' = [stream EXCEPT ![c] =
                [NoStream EXCEPT !.producer = "checking", !.body = "open"]]
  <2> DEFINE y == [NoStream EXCEPT !.producer = "checking", !.body = "open"]
  <2>1. y \in GoodStream /\ Due(y, caller[c].session, revoked)
    <3>1. /\ y.producer = "checking" /\ y.body = "open" /\ y.read = 0 /\ y.queued = 0
          /\ y.got = 0 /\ y.late = 0 /\ y \in StreamType
      BY NoStreamStarts
    <3> HIDE DEF y
    <3>2. InHand(y) = 0 /\ InFlight(y) = 0
      BY <3>1 DEF InHand, InFlight
    <3> QED BY <1>4, <3>1, <3>2, Constants DEF GoodStream, Due
  <2> HIDE DEF y
  <2>2. stream' = [stream EXCEPT ![c] = y] /\ revoked' = revoked
    BY <1>4 DEF y, OpenReader, sessions
  <2>3. caller'[c].step = "streaming" /\ caller'[c].session = caller[c].session
    BY <1>0, <1>4 DEF Go, GoodCaller, CallerType
  <2>4. \A d \in Callers : d # c => caller'[d] = caller[d]
    BY <1>0, <1>4 DEF Go
  <2>5. stream' \in [Callers -> GoodStream] /\ stream'[c] = y
        /\ \A d \in Callers : d # c => stream'[d] = stream[d]
    BY <2>1, <2>2 DEF StreamInv
  <2>6. StreamInv'
    BY <2>1, <2>2, <2>3, <2>4, <2>5 DEF StreamInv
  <2> QED BY <1>2, <2>6
<1> QED BY <1>2, <1>3, <1>4 DEF OpenReader

LEMMA CloseStep ==
  ASSUME AccessInv, StreamInv, NEW c \in Callers, Close(c)
  PROVE  AccessInv' /\ StreamInv'
<1>1. /\ caller' = [caller EXCEPT ![c] = Idle]
      /\ stream' = [stream EXCEPT ![c] = NoStream]
      /\ UNCHANGED <<keyfile, recovery, session, left, issued, revoked, expiry>>
  BY DEF Close, Leave, sessions
<1>2. AccessInv'
  BY <1>1, IdleIsGood, MovesOff, SessionsKept DEF AccessInv
<1>3. \A d \in Callers : d # c => caller'[d] = caller[d] /\ stream'[d] = stream[d]
  BY <1>1 DEF AccessInv, CallersOK, StreamInv
<1>4. stream' \in [Callers -> GoodStream] /\ stream'[c] = NoStream
  BY <1>1, NoStreamIsGood DEF StreamInv
<1> QED BY <1>1, <1>2, <1>3, <1>4, NoStreamIsGood DEF StreamInv

LEMMA RestartStep ==
  ASSUME AccessInv, StreamInv, Restart
  PROVE  AccessInv' /\ StreamInv'
<1>1. CallersOK' /\ \A c \in Callers : caller'[c].step = "idle"
  BY IdleIsGood DEF Restart, CallersOK
<1>2. KeyInv'
  BY <1>1, KeyKept DEF Restart, AccessInv
<1>3. SessionsOK' /\ OneLiveHandle'
  BY Constants DEF Restart, AccessInv, SessionsOK, OneLiveHandle, NoTask, TaskSteps
<1>4. StreamInv'
  BY NoStreamIsGood DEF Restart, StreamInv
<1> QED BY <1>1, <1>2, <1>3, <1>4 DEF AccessInv

-----------------------------------------------------------------------------
(* The theorems.                                                           *)

Inv == AccessInv /\ StreamInv

LEMMA InitInv == Init => Inv
<1> SUFFICES ASSUME Init PROVE Inv
  OBVIOUS
<1>1. CallersOK /\ \A c \in Callers : caller[c].step = "idle"
  BY IdleIsGood DEF Init, CallersOK
<1>2. KeyInv
  BY <1>1 DEF Init, KeyInv, NoFile
<1>3. SessionsOK /\ OneLiveHandle
  BY Constants DEF Init, SessionsOK, OneLiveHandle, NoTask, TaskSteps
<1>4. StreamInv
  BY NoStreamIsGood DEF Init, StreamInv
<1> QED BY <1>1, <1>2, <1>3, <1>4 DEF Inv, AccessInv

LEMMA NextInv == Inv /\ [Next]_vars => Inv'
<1> SUFFICES ASSUME AccessInv, StreamInv, [Next]_vars PROVE AccessInv' /\ StreamInv'
  BY DEF Inv
<1>1. ASSUME NEW c \in Callers,
             KeyfileStep(c) \/ UnlockStep(c) \/ Authenticate(c) \/ RequestStep(c)
      PROVE  AccessInv' /\ StreamInv'
  BY <1>1, KeyfileSteps, UnlockSteps, AuthenticateSteps, RequestSteps, StreamsAside
<1>2. ASSUME NEW c \in Callers, ProducerStep(c) \/ BodyStep(c)
      PROVE  AccessInv' /\ StreamInv'
  <2>1. StreamStep(c) \/ OpenReader(c) \/ Close(c)
    BY <1>2 DEF ProducerStep, BodyStep, StreamStep
  <2>2. CASE StreamStep(c)
    BY <2>2, InsideStream, Still DEF streaming
  <2> QED BY <2>1, <2>2, OpenStep, CloseStep
<1>3. ASSUME NEW c \in Callers, NEW s \in Sessions, Arrive(c, s)
      PROVE  AccessInv' /\ StreamInv'
  <2>1. caller[c].step # "streaming" /\ stream' = stream /\ revoked' = revoked
    BY <1>3 DEF Arrive, Idle, sessions
  <2>2. \A d \in Callers : d # c => caller'[d] = caller[d]
    BY <1>3 DEF Arrive, AccessInv, CallersOK
  <2>3. AccessInv'
    BY <1>3, Begins DEF Arrive, CallerSteps, KeySteps
  <2> QED BY <2>1, <2>2, <2>3, StreamsKept
<1>4. ASSUME NEW s \in Sessions, TaskStep(s)
      PROVE  AccessInv' /\ StreamInv'
  <2>1. stream' = stream /\ caller' = caller /\ revoked \subseteq revoked'
    BY <1>4 DEF TaskStep, Remaining, Expire, Take, sessions
  <2> QED BY <1>4, <2>1, TaskSteps0, StreamsKept
<1>5. CASE Status
  <2>1. stream' = stream /\ caller' = caller /\ revoked \subseteq revoked'
    BY <1>5 DEF Status, Take
  <2> QED BY <1>5, <2>1, StatusStep, StreamsKept
<1>6. CASE Tick
  <2>1. stream' = stream /\ revoked' = revoked
    BY <1>6 DEF Tick
  <2>2. \A c \in Callers : caller'[c].step = caller[c].step
                           /\ caller'[c].session = caller[c].session
    BY <1>6 DEF Tick, AccessInv, CallersOK, GoodCaller, CallerType
  <2> QED BY <1>6, <2>1, <2>2, TickStep, StreamsKept
<1>7. CASE Restart
  BY <1>7, RestartStep
<1>8. CASE UNCHANGED vars
  <2>1. UNCHANGED <<keyfile, recovery, sessions, expiry, caller, stream>>
    BY <1>8 DEF vars
  <2> QED BY <2>1, Still, StreamsKept DEF sessions
<1> QED BY <1>1, <1>2, <1>3, <1>4, <1>5, <1>6, <1>7, <1>8 DEF Next

\* Every reachable state satisfies the inductive invariant.
THEOREM Inductive == Spec => []Inv
BY InitInv, NextInv, PTL DEF Spec

\* Every variable keeps its type, and a channel never holds more than it may:
\* vault_blob_response bounds what a client can make the server keep.
THEOREM TypeCorrect == Spec => []TypeOK
<1>1. Inv => TypeOK
  <2> SUFFICES ASSUME Inv PROVE TypeOK
    OBVIOUS
  <2>1. caller \in [Callers -> CallerType] /\ stream \in [Callers -> StreamType]
    BY DEF Inv, AccessInv, CallersOK, StreamInv, GoodCaller, GoodStream
  <2> QED BY <2>1 DEF TypeOK, Inv, AccessInv, SessionsOK, KeyInv, CallerType, StreamType
<1> QED BY <1>1, Inductive, PTL

\* init and change_password: a recovery key that was answered opens the
\* keyfile that is there, for any number of clients at the file at once.
THEOREM RecoveryKeyKept == Spec => []RecoveryKeyOpens
<1>1. Inv => RecoveryKeyOpens
  BY DEF Inv, AccessInv, KeyInv, RecoveryKeyOpens
<1> QED BY <1>1, Inductive, PTL

\* VaultSessionManager: every way out of a session revokes its handle, so
\* none but the current one's still opens anything.
THEOREM OneHandleLives == Spec => []OneLiveHandle
<1>1. Inv => OneLiveHandle
  BY DEF Inv, AccessInv
<1> QED BY <1>1, Inductive, PTL

\* read_chunk looks at the revocation before each chunk: what comes late is
\* what the channel held and one chunk in the producer's hand.
THEOREM FewComeLate == Spec => []LateIsBounded
<1>1. Inv => LateIsBounded
  <2> SUFFICES ASSUME Inv, NEW c \in Callers PROVE stream[c].late <= Capacity + 1
    BY DEF LateIsBounded
  <2>1. stream[c] \in GoodStream /\ Due(stream[c], caller[c].session, revoked)
    BY DEF Inv, StreamInv
  <2>2. /\ stream[c].queued \in 0 .. Capacity /\ stream[c].late \in 0 .. Chunks
        /\ InFlight(stream[c]) \in {0, 1}
    BY <2>1 DEF GoodStream, StreamType, InFlight, InHand
  <2> QED BY <2>1, <2>2, Constants DEF Due
<1> QED BY <1>1, Inductive, PTL

\* vault_body_stream: a body ends without an error only when every chunk of
\* the blob was given, whatever the producer met.
THEOREM BodiesAreWhole == Spec => []BodyIsWhole
<1>1. Inv => BodyIsWhole
  BY DEF Inv, StreamInv, GoodStream, BodyIsWhole
<1> QED BY <1>1, Inductive, PTL
=============================================================================
