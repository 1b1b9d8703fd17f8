-------------------------- MODULE ServerAccessProofs --------------------------
(***************************************************************************)
(* Theorems about ServerAccess, for any tokens and threads, any finite set *)
(* of sockets and pollers, and any limits.                                 *)
(***************************************************************************)
EXTENDS ServerAccess, FiniteSetTheorems, TLAPS

-----------------------------------------------------------------------------
(* Types and slots.  The counters stay in their ranges only because each   *)
(* counts connections, so the two are proved together.                     *)

AuthTypeOK ==
  /\ password \in BOOLEAN /\ loaded \in BOOLEAN
  /\ devices \subseteq Tokens /\ known \subseteq Tokens
  /\ held \subseteq Tokens /\ revoked \subseteq Tokens
  /\ request \in [Requests -> [step : RequestSteps, token : Tokens \cup {NoToken},
                               early : BOOLEAN]]

SocketTypeOK ==
  /\ slots \in 0 .. MaxSockets
  /\ perToken \in [Tokens -> 0 .. MaxPerToken]
  /\ socket \in [Sockets -> [step : SocketSteps, token : Tokens \cup {NoToken}, late : BOOLEAN]]
  /\ inbox \in [Sockets -> {"empty", "timely", "late"}]

PollerTypeOK == started \in BOOLEAN /\ poller \in [Pollers -> PollerSteps]

LEMMA TypeParts == TypeOK <=> AuthTypeOK /\ SocketTypeOK /\ PollerTypeOK
BY DEF TypeOK, AuthTypeOK, SocketTypeOK, PollerTypeOK

Counted == {k \in Sockets : socket[k].step \in HoldsPermit}
Slotted(t) == {k \in Sockets : socket[k].token = t /\ socket[k].step \in HoldsSlot}
Charged == {p \in Pollers : poller[p] \in InCharge}

\* A connection past its authentication has a token, and that of Closed none.
Tokened == \A k \in Sockets : socket[k].step # "none" => socket[k].token \in Tokens

\* A thread that issues or revokes has a token in its hands, no other has.
Carried ==
  \A r \in Requests :
    request[r].step \in {"remember", "forget"} <=> request[r].token \in Tokens

SlotInv == TypeOK /\ SlotsAreReturned /\ Tokened /\ Carried

LEMMA SlotsMeaning ==
  SlotsAreReturned <=> /\ slots = Cardinality(Counted)
                       /\ \A t \in Tokens : perToken[t] = Cardinality(Slotted(t))
BY DEF SlotsAreReturned, Counted, Slotted

LEMMA FiniteParts ==
  /\ IsFiniteSet(Counted) /\ IsFiniteSet(Charged)
  /\ \A t : IsFiniteSet(Slotted(t))
<1>1. Counted \in SUBSET Sockets /\ Charged \in SUBSET Pollers
  BY DEF Counted, Charged
<1>2. \A t : Slotted(t) \in SUBSET Sockets
  BY DEF Slotted
<1> QED BY <1>1, <1>2, FS_Subset, ServerAccessAssumption

\* A set that gains or loses one element.
LEMMA OneMore ==
  ASSUME NEW S, IsFiniteSet(S), NEW x, x \notin S
  PROVE  Cardinality(S \cup {x}) = Cardinality(S) + 1
BY FS_AddElement

LEMMA OneLess ==
  ASSUME NEW S, IsFiniteSet(S), NEW x \in S
  PROVE  Cardinality(S \ {x}) = Cardinality(S) - 1 /\ Cardinality(S) \in Nat \ {0}
BY FS_RemoveElement, FS_EmptySet, FS_CardinalityType

\* A step after which every connection holds what it held before.
LEMMA SameSlots ==
  ASSUME SlotInv, slots' = slots, perToken' = perToken,
         \A k \in Sockets :
           /\ socket'[k].step \in HoldsPermit <=> socket[k].step \in HoldsPermit
           /\ socket'[k].step \in HoldsSlot <=> socket[k].step \in HoldsSlot
           /\ socket[k].step \in HoldsSlot => socket'[k].token = socket[k].token
  PROVE  SlotsAreReturned'
<1>1. Counted' = Counted
  BY DEF Counted
<1>2. \A t \in Tokens : Slotted(t)' = Slotted(t)
  BY DEF Slotted
<1> QED BY <1>1, <1>2, SlotsMeaning DEF SlotInv, SlotsAreReturned, Counted, Slotted

\* A step of one connection between two places of websocket_loop.
LEMMA LoopMove ==
  ASSUME SlotInv, NEW k \in Sockets, NEW step \in SocketSteps, NEW late \in BOOLEAN,
         socket[k].step \in HoldsSlot, step \in HoldsSlot,
         socket' = [socket EXCEPT ![k].step = step, ![k].late = late],
         UNCHANGED <<slots, perToken>>, inbox' \in [Sockets -> {"empty", "timely", "late"}]
  PROVE  SocketTypeOK' /\ SlotsAreReturned' /\ Tokened'
<1>1. \A i \in Sockets : /\ socket'[i].token = socket[i].token
                         /\ socket'[i].step = IF i = k THEN step ELSE socket[i].step
  BY DEF SlotInv, TypeOK
<1>2. SocketTypeOK'
  BY DEF SlotInv, TypeOK, SocketTypeOK
<1>3. SlotsAreReturned'
  BY <1>1, SameSlots DEF HoldsPermit
<1>4. Tokened'
  BY <1>1 DEF Tokened, SlotInv, HoldsSlot, Subscribed
<1> QED BY <1>2, <1>3, <1>4

LEMMA GoMove ==
  ASSUME SlotInv, NEW k \in Sockets, NEW step \in SocketSteps,
         socket[k].step \in HoldsSlot, step \in HoldsSlot, Go(k, step),
         UNCHANGED <<slots, perToken>>, inbox' \in [Sockets -> {"empty", "timely", "late"}]
  PROVE  SocketTypeOK' /\ SlotsAreReturned' /\ Tokened'
<1>1. socket' = [socket EXCEPT ![k].step = step, ![k].late = socket[k].late]
      /\ socket[k].late \in BOOLEAN
  BY DEF Go, SlotInv, TypeOK
<1> QED BY <1>1, LoopMove

LEMMA AuthStill ==
  ASSUME SlotInv, UNCHANGED sockets
  PROVE  SocketTypeOK' /\ SlotsAreReturned' /\ Tokened'
BY SameSlots DEF SlotInv, sockets, TypeOK, SocketTypeOK, Tokened

-----------------------------------------------------------------------------
(* Each step keeps types and slots.                                        *)

LEMMA FreshTokens == Fresh \subseteq Tokens /\ NoToken \notin Tokens
BY ServerAccessAssumption DEF Fresh

LEMMA IssueType ==
  ASSUME AuthTypeOK, Carried, NEW r \in Requests, NEW t \in Tokens, Issue(r, t)
  PROVE  /\ devices' \subseteq Tokens /\ Carried'
         /\ request' \in [Requests -> [step : RequestSteps, token : Tokens \cup {NoToken},
                                       early : BOOLEAN]]
BY DEF AuthTypeOK, Issue, Idle, RequestSteps, Carried

LEMMA ResetType ==
  ASSUME AuthTypeOK, Carried, NEW r \in Requests, request' = [request EXCEPT ![r] = Idle]
  PROVE  /\ Carried'
         /\ request' \in [Requests -> [step : RequestSteps, token : Tokens \cup {NoToken},
                                       early : BOOLEAN]]
BY FreshTokens DEF AuthTypeOK, Idle, RequestSteps, Carried

LEMMA RequestTypes ==
  ASSUME TypeOK, Carried, NEW r \in Requests, RequestStep(r)
  PROVE  AuthTypeOK' /\ Carried' /\ UNCHANGED <<sockets, polling>>
<1>0. AuthTypeOK /\ request[r] \in [step : RequestSteps, token : Tokens \cup {NoToken},
                                    early : BOOLEAN]
  BY TypeParts DEF AuthTypeOK
<1>1. CASE StartSetup(r)
  <2>1. /\ request' = [request EXCEPT ![r] = [Idle EXCEPT !.step = "setup"]]
        /\ UNCHANGED <<password, devices, loaded, known, held, revoked, sockets, polling>>
    BY <1>1, <1>0 DEF StartSetup, AuthTypeOK, Idle
  <2>2. Carried'
    BY <1>0, <2>1, FreshTokens DEF Carried, AuthTypeOK, Idle
  <2> QED BY <1>0, <2>1, <2>2 DEF AuthTypeOK, RequestSteps, Idle
<1>2. CASE CommitSetup(r)
  <2>1. \/ request' = [request EXCEPT ![r] = Idle] /\ UNCHANGED devices
        \/ \E t \in Tokens : Issue(r, t)
    BY <1>2 DEF CommitSetup
  <2>2. /\ devices' \subseteq Tokens /\ Carried'
        /\ request' \in [Requests -> [step : RequestSteps, token : Tokens \cup {NoToken},
                                      early : BOOLEAN]]
    BY <1>0, <2>1, IssueType, ResetType DEF AuthTypeOK
  <2>3. password' \in BOOLEAN /\ UNCHANGED <<loaded, known, held, revoked, sockets, polling>>
    BY <1>2 DEF CommitSetup
  <2> QED BY <1>0, <2>2, <2>3 DEF AuthTypeOK
<1>3. CASE Login(r)
  <2>1. /\ devices' \subseteq Tokens /\ Carried'
        /\ request' \in [Requests -> [step : RequestSteps, token : Tokens \cup {NoToken},
                                      early : BOOLEAN]]
    BY <1>0, <1>3, IssueType DEF Login
  <2> QED BY <1>0, <1>3, <2>1 DEF Login, AuthTypeOK
<1>4. CASE Remember(r)
  <2>1. request[r].token \in Tokens
    BY <1>4 DEF Carried, Remember
  <2>2. known' \subseteq Tokens /\ held' \subseteq Tokens
    BY <1>0, <1>4, <2>1 DEF Remember, Learned, AuthTypeOK
  <2>3. request' = [request EXCEPT ![r] = Idle]
        /\ UNCHANGED <<password, devices, loaded, revoked, sockets, polling>>
    BY <1>4 DEF Remember
  <2> QED BY <1>0, <2>2, <2>3, ResetType DEF AuthTypeOK
<1>5. CASE Forget(r)
  <2>1. request[r].token \in Tokens
    BY <1>5 DEF Carried, Forget
  <2>2. known' \subseteq Tokens /\ revoked' \subseteq Tokens
    BY <1>0, <1>5, <2>1 DEF Forget, Forgotten, AuthTypeOK
  <2>3. request' = [request EXCEPT ![r] = Idle]
        /\ UNCHANGED <<password, devices, loaded, held, sockets, polling>>
    BY <1>5 DEF Forget
  <2> QED BY <1>0, <2>2, <2>3, ResetType DEF AuthTypeOK
<1>6. CASE \E t \in Tokens : Revoke(r, t)
  <2>1. PICK t \in Tokens : Revoke(r, t)
    BY <1>6
  <2>2. /\ devices' \subseteq Tokens
        /\ request' \in [Requests -> [step : RequestSteps, token : Tokens \cup {NoToken},
                                      early : BOOLEAN]]
    BY <1>0, <2>1 DEF Revoke, AuthTypeOK, RequestSteps
  <2>3. Carried'
    BY <1>0, <2>1 DEF Revoke, AuthTypeOK, Carried
  <2> QED BY <1>0, <2>1, <2>2, <2>3 DEF Revoke, AuthTypeOK
<1> QED BY <1>1, <1>2, <1>3, <1>4, <1>5, <1>6 DEF RequestStep

\* What a step of a socket leaves alone.
LEMMA AuthKept ==
  ASSUME SlotInv, UNCHANGED <<password, devices, request, held, revoked>>,
         UNCHANGED <<loaded, known>> \/ Look
  PROVE  AuthTypeOK' /\ Carried'
BY TypeParts DEF SlotInv, AuthTypeOK, Carried, Look

LEMMA PollingKept ==
  ASSUME SlotInv, UNCHANGED polling
  PROVE  PollerTypeOK'
BY TypeParts DEF SlotInv, PollerTypeOK, polling

\* The steps inside websocket_loop.
LoopOnly(k) ==
  \/ Upgrade(k) \/ Subscribe(k) \/ EnsurePoller(k) \/ CheckToken(k) \/ Receive(k)
  \/ Wake(k) \/ HangUp(k) \/ CheckBeforeSend(k) \/ Send(k) \/ Unsubscribe(k)

LEMMA LoopOnlyStep ==
  ASSUME SlotInv, NEW k \in Sockets, LoopOnly(k)
  PROVE  SocketTypeOK' /\ SlotsAreReturned' /\ Tokened'
<1>0. /\ inbox \in [Sockets -> {"empty", "timely", "late"}]
      /\ socket[k].late \in BOOLEAN
      /\ [inbox EXCEPT ![k] = "empty"] \in [Sockets -> {"empty", "timely", "late"}]
  BY DEF SlotInv, TypeOK
<1> USE DEF HoldsSlot, Subscribed, SocketSteps, HoldsPermit
<1>1. CASE Upgrade(k)
  BY <1>0, <1>1, GoMove DEF Upgrade
<1>2. CASE Subscribe(k)
  BY <1>0, <1>2, GoMove DEF Subscribe
<1>3. CASE EnsurePoller(k)
  BY <1>0, <1>3, GoMove DEF EnsurePoller
<1>4. CASE CheckToken(k)
  BY <1>0, <1>4, GoMove DEF CheckToken
<1>5. CASE Receive(k)
  <2>1. (inbox[k] = "late") \in BOOLEAN
    OBVIOUS
  <2> QED BY <1>0, <1>5, <2>1, LoopMove DEF Receive
<1>6. CASE Wake(k)
  BY <1>0, <1>6, GoMove DEF Wake
<1>7. CASE HangUp(k)
  BY <1>0, <1>7, GoMove DEF HangUp
<1>8. CASE CheckBeforeSend(k)
  BY <1>0, <1>8, GoMove DEF CheckBeforeSend
<1>9. CASE Send(k)
  BY <1>0, <1>9, LoopMove DEF Send
<1>10. CASE Unsubscribe(k)
  BY <1>0, <1>10, LoopMove DEF Unsubscribe
<1> QED BY <1>1, <1>2, <1>3, <1>4, <1>5, <1>6, <1>7, <1>8, <1>9, <1>10 DEF LoopOnly

LEMMA AuthenticateStep ==
  ASSUME SlotInv, NEW k \in Sockets, NEW t \in Tokens, Authenticate(k, t)
  PROVE  SocketTypeOK' /\ SlotsAreReturned' /\ Tokened'
<1>1. /\ socket' \in [Sockets -> [step : SocketSteps, token : Tokens \cup {NoToken},
                                  late : BOOLEAN]]
      /\ \A i \in Sockets :
           \/ socket'[i] = socket[i]
           \/ i = k /\ socket[i].step = "none" /\ socket'[i].step = "authed"
                    /\ socket'[i].token = t
      /\ UNCHANGED <<slots, perToken, inbox>>
  <2> DEFINE mine == [Closed EXCEPT !.step = "authed", !.token = t]
  <2>1. /\ mine \in [step : SocketSteps, token : Tokens \cup {NoToken}, late : BOOLEAN]
        /\ mine.step = "authed" /\ mine.token = t
    BY DEF Closed, SocketSteps
  <2>2. /\ socket[k].step = "none" /\ UNCHANGED <<slots, perToken, inbox>>
        /\ UNCHANGED socket \/ socket' = [socket EXCEPT ![k] = mine]
    BY DEF Authenticate
  <2>3. socket \in [Sockets -> [step : SocketSteps, token : Tokens \cup {NoToken},
                                late : BOOLEAN]]
    BY DEF SlotInv, TypeOK
  <2> HIDE DEF mine
  <2> QED BY <2>1, <2>2, <2>3
<1>2. SlotsAreReturned'
  BY <1>1, SameSlots DEF HoldsPermit, HoldsSlot, Subscribed
<1>3. Tokened'
  BY <1>1 DEF SlotInv, Tokened
<1> QED BY <1>1, <1>2, <1>3 DEF SlotInv, TypeOK, SocketTypeOK

LEMMA TakePermitStep ==
  ASSUME SlotInv, NEW k \in Sockets, TakePermit(k)
  PROVE  SocketTypeOK' /\ SlotsAreReturned' /\ Tokened'
<1>0. /\ socket \in [Sockets -> [step : SocketSteps, token : Tokens \cup {NoToken},
                                 late : BOOLEAN]]
      /\ slots \in 0 .. MaxSockets /\ UNCHANGED <<perToken, inbox>>
      /\ MaxSockets \in Nat /\ socket[k].step = "authed"
      /\ \A t \in Tokens : k \notin Slotted(t)
      /\ k \notin Counted
  BY ServerAccessAssumption
  DEF SlotInv, TypeOK, TakePermit, Slotted, Counted, HoldsPermit, HoldsSlot, Subscribed
<1>1. CASE slots < MaxSockets
  <2>1. slots' = slots + 1 /\ socket' = [socket EXCEPT ![k].step = "counted"]
    BY <1>1 DEF TakePermit, Go
  <2>2. Counted' = Counted \cup {k}
    BY <1>0, <2>1 DEF Counted, HoldsPermit, HoldsSlot, Subscribed
  <2>3. \A t \in Tokens : Slotted(t)' = Slotted(t)
    BY <1>0, <2>1 DEF Slotted, HoldsSlot, Subscribed
  <2>4. SlotsAreReturned'
    <3>1. slots' = Cardinality(Counted')
      BY <1>0, <2>1, <2>2, FiniteParts, OneMore, SlotsMeaning DEF SlotInv
    <3> QED BY <1>0, <2>3, <3>1, SlotsMeaning
        DEF SlotInv, SlotsAreReturned, Counted, Slotted
  <2>5. SocketTypeOK'
    BY <1>0, <1>1, <2>1 DEF SlotInv, TypeOK, SocketTypeOK, SocketSteps, HoldsPermit
  <2> QED BY <1>0, <2>1, <2>4, <2>5 DEF Tokened, SlotInv
<1>2. CASE ~(slots < MaxSockets)
  <2>1. slots' = slots /\ socket' = [socket EXCEPT ![k] = Closed]
    BY <1>2 DEF TakePermit
  <2>2. SlotsAreReturned'
    BY <1>0, <2>1, SameSlots DEF Closed, HoldsPermit, HoldsSlot, Subscribed
  <2> QED BY <1>0, <2>1, <2>2
      DEF SlotInv, TypeOK, SocketTypeOK, SocketSteps, Closed, Tokened
<1> QED BY <1>1, <1>2

LEMMA TakeSlotStep ==
  ASSUME SlotInv, NEW k \in Sockets, TakeSlot(k)
  PROVE  SocketTypeOK' /\ SlotsAreReturned' /\ Tokened'
<1>a. PICK t \in Tokens : t = socket[k].token
  BY DEF SlotInv, Tokened, TakeSlot
<1>0. /\ socket \in [Sockets -> [step : SocketSteps, token : Tokens \cup {NoToken},
                                 late : BOOLEAN]]
      /\ perToken \in [Tokens -> 0 .. MaxPerToken] /\ UNCHANGED <<slots, inbox>>
      /\ MaxPerToken \in Nat /\ socket[k].step = "counted" /\ t = socket[k].token
      /\ k \notin Slotted(t)
  BY <1>a, ServerAccessAssumption DEF SlotInv, TypeOK, TakeSlot, Slotted, HoldsSlot, Subscribed, Tokened
<1>1. CASE perToken[t] < MaxPerToken
  <2>1. /\ perToken' = [perToken EXCEPT ![t] = @ + 1]
        /\ socket' = [socket EXCEPT ![k].step = "upgrading"]
    BY <1>1, <1>a, <1>0 DEF TakeSlot, Go
  <2>2. Counted' = Counted
    BY <1>0, <2>1 DEF Counted, HoldsPermit, HoldsSlot, Subscribed
  <2>3. Slotted(t)' = Slotted(t) \cup {k} /\ \A u \in Tokens \ {t} : Slotted(u)' = Slotted(u)
    BY <1>0, <2>1 DEF Slotted, HoldsSlot, Subscribed
  <2>4. SlotsAreReturned'
    <3>1. perToken'[t] = Cardinality(Slotted(t)')
      BY <1>0, <2>1, <2>3, FiniteParts, OneMore, SlotsMeaning DEF SlotInv
    <3>2. \A u \in Tokens \ {t} : perToken'[u] = Cardinality(Slotted(u)')
      BY <1>0, <2>1, <2>3, SlotsMeaning DEF SlotInv
    <3>3. \A u \in Tokens : perToken'[u] = Cardinality(Slotted(u)')
      BY <3>1, <3>2
    <3>4. slots' = Cardinality(Counted')
      BY <1>0, <2>2, SlotsMeaning DEF SlotInv
    <3> QED BY <3>3, <3>4 DEF SlotsAreReturned, Counted, Slotted
  <2>5. SocketTypeOK'
    BY <1>0, <1>1, <2>1
    DEF SlotInv, TypeOK, SocketTypeOK, SocketSteps, HoldsPermit, HoldsSlot
  <2> QED BY <1>0, <2>1, <2>4, <2>5 DEF Tokened, SlotInv
<1>2. CASE ~(perToken[t] < MaxPerToken)
  <2>1. perToken' = perToken /\ socket' = [socket EXCEPT ![k].step = "returning"]
    BY <1>2, <1>a, <1>0 DEF TakeSlot, Refused, Go
  <2>2. SlotsAreReturned'
    BY <1>0, <2>1, SameSlots DEF HoldsPermit, HoldsSlot, Subscribed
  <2> QED BY <1>0, <2>1, <2>2
      DEF SlotInv, TypeOK, SocketTypeOK, SocketSteps, HoldsPermit, Tokened
<1> QED BY <1>1, <1>2

LEMMA ReleaseSlotStep ==
  ASSUME SlotInv, NEW k \in Sockets, ReleaseSlot(k)
  PROVE  SocketTypeOK' /\ SlotsAreReturned' /\ Tokened'
<1>a. PICK t \in Tokens : t = socket[k].token
  BY DEF SlotInv, Tokened, ReleaseSlot
<1>0. /\ socket \in [Sockets -> [step : SocketSteps, token : Tokens \cup {NoToken},
                                 late : BOOLEAN]]
      /\ perToken \in [Tokens -> 0 .. MaxPerToken] /\ UNCHANGED <<slots, inbox>>
      /\ MaxPerToken \in Nat /\ socket[k].step = "released" /\ t = socket[k].token
      /\ perToken' = [perToken EXCEPT ![t] = @ - 1]
      /\ socket' = [socket EXCEPT ![k].step = "returning"]
  BY <1>a, ServerAccessAssumption DEF SlotInv, TypeOK, ReleaseSlot, Go, Tokened
<1>1. k \in Slotted(t)
  BY <1>0 DEF Slotted, HoldsSlot
<1>2. Counted' = Counted
  BY <1>0 DEF Counted, HoldsPermit, HoldsSlot, Subscribed
<1>3. Slotted(t)' = Slotted(t) \ {k} /\ \A u \in Tokens \ {t} : Slotted(u)' = Slotted(u)
  BY <1>0 DEF Slotted, HoldsSlot, Subscribed
<1>4. perToken[t] \in 1 .. MaxPerToken /\ perToken'[t] = Cardinality(Slotted(t)')
  <2>1. IsFiniteSet(Slotted(t)) /\ perToken[t] = Cardinality(Slotted(t))
    BY <1>0, FiniteParts, SlotsMeaning DEF SlotInv
  <2>2. Cardinality(Slotted(t) \ {k}) = perToken[t] - 1 /\ perToken[t] # 0
    BY <1>1, <2>1, OneLess
  <2> QED BY <1>0, <1>3, <2>2
<1>5. \A u \in Tokens \ {t} : perToken'[u] = Cardinality(Slotted(u)')
  BY <1>0, <1>3, SlotsMeaning DEF SlotInv
<1>6. SlotsAreReturned'
  <2>1. \A u \in Tokens : perToken'[u] = Cardinality(Slotted(u)')
    BY <1>4, <1>5
  <2>2. slots' = Cardinality(Counted')
    BY <1>0, <1>2, SlotsMeaning DEF SlotInv
  <2> QED BY <2>1, <2>2 DEF SlotsAreReturned, Counted, Slotted
<1>7. SocketTypeOK'
  BY <1>0, <1>4 DEF SlotInv, TypeOK, SocketTypeOK, SocketSteps, HoldsPermit
<1> QED BY <1>0, <1>6, <1>7 DEF Tokened, SlotInv

LEMMA ReturnPermitStep ==
  ASSUME SlotInv, NEW k \in Sockets, ReturnPermit(k)
  PROVE  SocketTypeOK' /\ SlotsAreReturned' /\ Tokened'
<1>0. /\ socket \in [Sockets -> [step : SocketSteps, token : Tokens \cup {NoToken},
                                 late : BOOLEAN]]
      /\ slots \in 0 .. MaxSockets /\ UNCHANGED <<perToken, inbox>>
      /\ MaxSockets \in Nat /\ socket[k].step = "returning"
      /\ slots' = slots - 1 /\ socket' = [socket EXCEPT ![k] = Closed]
  BY ServerAccessAssumption DEF SlotInv, TypeOK, ReturnPermit
<1>1. k \in Counted
  BY <1>0 DEF Counted, HoldsPermit
<1>2. Counted' = Counted \ {k}
  BY <1>0 DEF Counted, HoldsPermit, HoldsSlot, Subscribed, Closed
<1>3. \A t \in Tokens : Slotted(t)' = Slotted(t)
  BY <1>0 DEF Slotted, HoldsSlot, Subscribed, Closed
<1>4. slots \in 1 .. MaxSockets /\ slots' = Cardinality(Counted')
  BY <1>0, <1>1, <1>2, FiniteParts, OneLess, SlotsMeaning DEF SlotInv
<1>5. SlotsAreReturned'
  BY <1>0, <1>3, <1>4, SlotsMeaning DEF SlotInv, SlotsAreReturned, Counted, Slotted
<1>6. SocketTypeOK'
  BY <1>0, <1>4 DEF SlotInv, TypeOK, SocketTypeOK, SocketSteps, Closed
<1> QED BY <1>0, <1>5, <1>6 DEF Tokened, SlotInv, Closed

LEMMA EnsurePollerType ==
  ASSUME SlotInv, NEW k \in Sockets, EnsurePoller(k)
  PROVE  PollerTypeOK'
<1>1. CASE started
  BY <1>1 DEF EnsurePoller, SlotInv, TypeOK, PollerTypeOK
<1>2. CASE ~started
  <2>1. PICK p \in Pollers : Run(p, "tick")
    BY <1>2 DEF EnsurePoller
  <2> QED BY <2>1 DEF EnsurePoller, SlotInv, TypeOK, PollerTypeOK, Run, PollerSteps, InCharge
<1> QED BY <1>1, <1>2

LEMMA PollerStepType ==
  ASSUME SlotInv, NEW p \in Pollers, PollerStep(p)
  PROVE  PollerTypeOK' /\ UNCHANGED <<auth, slots, perToken, socket>>
<1>1. PICK step \in PollerSteps : Run(p, step)
  BY DEF PollerStep, Tick, StoreFalse, LookAgain, Reclaim, ListJobs, Publish,
         PollerSteps, InCharge
<1>2. started' \in BOOLEAN
  BY DEF PollerStep, Tick, StoreFalse, LookAgain, Reclaim, ListJobs, Publish,
         SlotInv, TypeOK
<1>3. UNCHANGED <<auth, slots, perToken, socket>>
  BY DEF PollerStep, Tick, StoreFalse, LookAgain, Reclaim, ListJobs, Publish, sockets
<1> QED BY <1>1, <1>2, <1>3 DEF Run, SlotInv, TypeOK, PollerTypeOK

\* Events change no connection.
LEMMA BroadcastType ==
  ASSUME SlotInv, Broadcast \/ UNCHANGED inbox
  PROVE  inbox' \in [Sockets -> {"empty", "timely", "late"}]
BY DEF Broadcast, SlotInv, TypeOK

LEMMA EventStep ==
  ASSUME SlotInv, UNCHANGED <<slots, perToken, socket>>, Broadcast \/ UNCHANGED inbox
  PROVE  SocketTypeOK' /\ SlotsAreReturned' /\ Tokened'
<1>1. SlotsAreReturned'
  BY SameSlots
<1>2. inbox' \in [Sockets -> {"empty", "timely", "late"}]
  BY BroadcastType
<1> QED BY <1>1, <1>2 DEF SlotInv, TypeOK, SocketTypeOK, Tokened

\* A process that has just started has no connection and no request.
JustStarted ==
  /\ password \in BOOLEAN /\ loaded = FALSE /\ known = {}
  /\ devices \subseteq Tokens /\ held \subseteq Tokens /\ revoked \subseteq Tokens
  /\ request = [r \in Requests |-> Idle]
  /\ slots = 0 /\ perToken = [t \in Tokens |-> 0]
  /\ socket = [k \in Sockets |-> Closed] /\ inbox = [k \in Sockets |-> "empty"]
  /\ started = FALSE /\ poller = [p \in Pollers |-> "none"]

LEMMA StartSlots == JustStarted => SlotInv
<1> SUFFICES ASSUME JustStarted PROVE SlotInv
  OBVIOUS
<1> USE DEF JustStarted
<1>1. AuthTypeOK /\ Carried
  BY FreshTokens DEF AuthTypeOK, Carried, Idle, RequestSteps
<1>2. SocketTypeOK /\ Tokened
  BY ServerAccessAssumption DEF SocketTypeOK, Tokened, SocketSteps, Closed
<1>3. PollerTypeOK
  BY DEF PollerTypeOK, PollerSteps
<1>4. Counted = {} /\ \A t \in Tokens : Slotted(t) = {}
  BY DEF Counted, Slotted, Closed, HoldsPermit, HoldsSlot, Subscribed
<1>5. SlotsAreReturned
  BY <1>4, FS_EmptySet DEF SlotsAreReturned, Counted, Slotted
<1> QED BY <1>1, <1>2, <1>3, <1>5, TypeParts DEF SlotInv

LEMMA InitSlots == Init => SlotInv
BY StartSlots DEF Init, JustStarted

LEMMA SocketStepAuth ==
  ASSUME SlotInv, NEW k \in Sockets,
         LoopStep(k) \/ HangUp(k) \/ \E t \in Tokens : Authenticate(k, t)
  PROVE  /\ UNCHANGED <<password, devices, request, held, revoked>>
         /\ UNCHANGED <<loaded, known>> \/ Look
BY DEF LoopStep, HangUp, Authenticate, TakePermit, TakeSlot, Upgrade, ReleaseSlot,
       ReturnPermit, Subscribe, EnsurePoller, CheckToken, Receive, Wake, CheckBeforeSend,
       Send, Unsubscribe, auth

LEMMA SocketStepPolling ==
  ASSUME SlotInv, NEW k \in Sockets,
         LoopStep(k) \/ HangUp(k) \/ \E t \in Tokens : Authenticate(k, t)
  PROVE  EnsurePoller(k) \/ UNCHANGED polling
BY DEF LoopStep, HangUp, Authenticate, TakePermit, TakeSlot, Upgrade, ReleaseSlot,
       ReturnPermit, Subscribe, CheckToken, Receive, Wake, CheckBeforeSend,
       Send, Unsubscribe

LEMMA SocketStepSlots ==
  ASSUME SlotInv, NEW k \in Sockets,
         LoopStep(k) \/ HangUp(k) \/ \E t \in Tokens : Authenticate(k, t)
  PROVE  SlotInv'
<1>1. SocketTypeOK' /\ SlotsAreReturned' /\ Tokened'
  BY LoopOnlyStep, AuthenticateStep, TakePermitStep, TakeSlotStep, ReleaseSlotStep,
     ReturnPermitStep
  DEF LoopStep, LoopOnly
<1>2. AuthTypeOK' /\ Carried'
  BY SocketStepAuth, AuthKept
<1>3. PollerTypeOK'
  BY SocketStepPolling, PollingKept, EnsurePollerType
<1> QED BY <1>1, <1>2, <1>3
    DEF SlotInv, TypeOK, AuthTypeOK, SocketTypeOK, PollerTypeOK

LEMMA SlotStep == SlotInv /\ [Next]_vars => SlotInv'
<1> SUFFICES ASSUME SlotInv, [Next]_vars PROVE SlotInv'
  OBVIOUS
<1> USE DEF SlotInv, TypeOK, AuthTypeOK, SocketTypeOK, PollerTypeOK
<1>1. ASSUME NEW r \in Requests, RequestStep(r) PROVE SlotInv'
  BY <1>1, RequestTypes, AuthStill, PollingKept
<1>2. ASSUME NEW k \in Sockets,
             LoopStep(k) \/ HangUp(k) \/ \E t \in Tokens : Authenticate(k, t)
      PROVE SlotInv'
  BY <1>2, SocketStepSlots
<1>3. ASSUME NEW p \in Pollers, PollerStep(p) PROVE SlotInv'
  <2>1. Broadcast \/ UNCHANGED inbox
    BY <1>3 DEF PollerStep, Tick, StoreFalse, LookAgain, Reclaim, ListJobs, Publish, sockets
  <2>2. UNCHANGED auth /\ UNCHANGED <<slots, perToken, socket>> /\ PollerTypeOK'
    BY <1>3, PollerStepType
  <2>3. AuthTypeOK' /\ Carried'
    BY <2>2, AuthKept DEF auth
  <2> QED BY <2>1, <2>2, <2>3, EventStep
<1>4. CASE Verify
  BY <1>4, AuthKept, AuthStill, PollingKept DEF Verify
<1>5. CASE NotifyAssets
  BY <1>5, AuthKept, EventStep, PollingKept DEF NotifyAssets, auth
<1>6. CASE Restart
  <2>1. devices \subseteq Tokens /\ held \subseteq Tokens /\ revoked \subseteq Tokens
        /\ password \in BOOLEAN
    OBVIOUS
  <2>2. JustStarted'
    BY <1>6, <2>1 DEF Restart, JustStarted
  <2> QED BY <2>2, StartSlots, PTL
<1>7. CASE UNCHANGED vars
  BY <1>7, AuthKept, AuthStill, PollingKept DEF vars, auth
<1> QED BY <1>1, <1>2, <1>3, <1>4, <1>5, <1>6, <1>7 DEF Next

-----------------------------------------------------------------------------
(* The poller.                                                             *)

\* A listener that has asked for a poller finds the flag set, or one that is
\* about to look for listeners again.
Awaited ==
  (\E k \in Sockets : socket[k].step \in Subscribed \ {"subscribed"})
    => started \/ \E p \in Pollers : poller[p] \in {"stopped", "claiming"}

PollInv == OnePoller /\ Awaited

\* A poller moves, and no listener is new.
LEMMA PollerMove ==
  ASSUME SlotInv, Awaited, NEW p \in Pollers, PollerStep(p)
  PROVE  Awaited'
<1>0. poller \in [Pollers -> PollerSteps] /\ socket' = socket
  BY PollerStepType DEF SlotInv, TypeOK
<1> SUFFICES ASSUME \E k \in Sockets : socket[k].step \in Subscribed \ {"subscribed"}
             PROVE  started' \/ \E q \in Pollers : poller'[q] \in {"stopped", "claiming"}
  BY <1>0 DEF Awaited
<1>1. Receivers # {}
  BY DEF Receivers
<1>2. CASE Tick(p) \/ ListJobs(p) \/ Publish(p)
  BY <1>0, <1>2 DEF Tick, ListJobs, Publish, Run, Awaited
<1>3. CASE StoreFalse(p)
  BY <1>0, <1>3 DEF StoreFalse, Run
<1>4. CASE LookAgain(p)
  BY <1>0, <1>1, <1>4 DEF LookAgain, Run
<1>5. CASE Reclaim(p)
  BY <1>5 DEF Reclaim
<1> QED BY <1>2, <1>3, <1>4, <1>5 DEF PollerStep

LEMMA SamePollers ==
  ASSUME OnePoller, started' = started,
         \A p \in Pollers : poller'[p] \in InCharge <=> poller[p] \in InCharge
  PROVE  OnePoller'
<1>1. {p \in Pollers : poller'[p] \in InCharge} = {p \in Pollers : poller[p] \in InCharge}
  OBVIOUS
<1> QED BY <1>1 DEF OnePoller

\* The flag is raised by the poller that takes charge.
LEMMA TakesCharge ==
  ASSUME SlotInv, OnePoller, ~started, started' = TRUE, NEW p \in Pollers,
         NEW step \in InCharge, Run(p, step)
  PROVE  OnePoller'
<1>1. Charged = {}
  BY FiniteParts, FS_EmptySet DEF OnePoller, Charged
<1>2. Charged' = {p}
  BY <1>1 DEF Charged, Run, SlotInv, TypeOK
<1> QED BY <1>2, FS_Singleton DEF OnePoller, Charged

LEMMA OnePollerStep ==
  ASSUME SlotInv, OnePoller, NEW p \in Pollers, PollerStep(p)
  PROVE  OnePoller'
<1>0. poller \in [Pollers -> PollerSteps]
  BY DEF SlotInv, TypeOK
<1>1. CASE Tick(p) \/ ListJobs(p) \/ Publish(p) \/ LookAgain(p)
  BY <1>0, <1>1, SamePollers DEF Tick, ListJobs, Publish, LookAgain, Run, InCharge
<1>2. CASE StoreFalse(p)
  <2>1. poller[p] = "quitting" /\ started' = FALSE
        /\ poller' = [poller EXCEPT ![p] = "stopped"]
    BY <1>2 DEF StoreFalse, Run
  <2>2. p \in Charged /\ Charged' = Charged \ {p}
    BY <1>0, <2>1 DEF Charged, InCharge
  <2>3. Cardinality(Charged) \in {0, 1}
    BY DEF OnePoller, Charged
  <2>4. Cardinality(Charged') = 0
    BY <2>2, <2>3, FiniteParts, OneLess
  <2> QED BY <2>1, <2>4 DEF OnePoller, Charged
<1>3. CASE Reclaim(p)
  <2>1. CASE started
    BY <1>0, <1>3, <2>1, SamePollers DEF Reclaim, Run, InCharge
  <2>2. CASE ~started
    BY <1>3, <2>2, TakesCharge DEF Reclaim, InCharge
  <2> QED BY <2>1, <2>2
<1> QED BY <1>1, <1>2, <1>3 DEF PollerStep

LEMMA StartPolling == JustStarted => PollInv
<1> SUFFICES ASSUME JustStarted PROVE PollInv
  OBVIOUS
<1>1. {p \in Pollers : poller[p] \in InCharge} = {} /\ ~started
  BY DEF JustStarted, InCharge
<1>2. \A k \in Sockets : socket[k].step = "none"
  BY DEF JustStarted, Closed
<1> QED BY <1>1, <1>2, FS_EmptySet DEF PollInv, OnePoller, Awaited, Subscribed

\* A socket is past "subscribed" only after EnsurePoller.
LEMMA SocketListens ==
  ASSUME SlotInv, NEW k \in Sockets,
         LoopStep(k) \/ HangUp(k) \/ \E t \in Tokens : Authenticate(k, t)
  PROVE  EnsurePoller(k)
         \/ \A i \in Sockets : socket'[i].step \in Subscribed \ {"subscribed"}
                                 => socket[i].step \in Subscribed \ {"subscribed"}
<1>0. socket \in [Sockets -> [step : SocketSteps, token : Tokens \cup {NoToken},
                              late : BOOLEAN]]
  BY DEF SlotInv, TypeOK
<1> SUFFICES ASSUME ~EnsurePoller(k)
             PROVE  socket'[k].step \in Subscribed \ {"subscribed"}
                      => socket[k].step \in Subscribed \ {"subscribed"}
  <2>1. \A i \in Sockets \ {k} : socket'[i] = socket[i]
    BY <1>0 DEF LoopStep, HangUp, Authenticate, TakePermit, TakeSlot, Upgrade, ReleaseSlot,
       ReturnPermit, Subscribe, EnsurePoller, CheckToken, Receive, Wake, CheckBeforeSend,
       Send, Unsubscribe, Go, Refused
  <2> QED BY <2>1
<1>1. CASE CheckToken(k) \/ Receive(k) \/ Wake(k) \/ CheckBeforeSend(k) \/ Send(k) \/ HangUp(k)
  BY <1>1 DEF HangUp, CheckToken, Receive, Wake, CheckBeforeSend, Send, Subscribed
<1>2. CASE TakePermit(k) \/ TakeSlot(k) \/ Upgrade(k) \/ ReleaseSlot(k)
           \/ ReturnPermit(k) \/ Subscribe(k) \/ Unsubscribe(k)
  BY <1>0, <1>2 DEF TakePermit, TakeSlot, Upgrade, ReleaseSlot, ReturnPermit,
     Subscribe, Unsubscribe, Go, Refused, Closed, Subscribed
<1>3. CASE \E t \in Tokens : Authenticate(k, t)
  BY <1>0, <1>3 DEF Authenticate, Closed, Subscribed
<1> QED BY <1>1, <1>2, <1>3 DEF LoopStep

LEMMA SocketStepPolls ==
  ASSUME SlotInv, PollInv, NEW k \in Sockets,
         LoopStep(k) \/ HangUp(k) \/ \E t \in Tokens : Authenticate(k, t)
  PROVE  PollInv'
<1>1. CASE EnsurePoller(k)
  <2>1. started' = TRUE
    BY <1>1 DEF EnsurePoller
  <2>2. OnePoller'
    <3>1. CASE started
      BY <1>1, <3>1, SamePollers DEF PollInv, EnsurePoller
    <3>2. CASE ~started
      <4>1. PICK p \in Pollers : Run(p, "tick")
        BY <1>1, <3>2 DEF EnsurePoller
      <4> QED BY <2>1, <3>2, <4>1, TakesCharge DEF PollInv, InCharge
    <3> QED BY <3>1, <3>2
  <2> QED BY <2>1, <2>2 DEF PollInv, Awaited
<1>2. CASE ~EnsurePoller(k)
  <2>1. UNCHANGED polling
    BY <1>2, SocketStepPolling
  <2> QED BY <1>2, <2>1, SocketListens, SamePollers DEF PollInv, Awaited, polling
<1> QED BY <1>1, <1>2

LEMMA PollStep == SlotInv /\ PollInv /\ [Next]_vars => PollInv'
<1> SUFFICES ASSUME SlotInv, PollInv, [Next]_vars PROVE PollInv'
  OBVIOUS
<1>1. CASE UNCHANGED <<socket, polling>>
  BY <1>1, SamePollers DEF PollInv, Awaited, polling
<1>2. ASSUME NEW r \in Requests, RequestStep(r) PROVE PollInv'
  BY <1>1, <1>2, RequestTypes DEF SlotInv, sockets
<1>3. ASSUME NEW k \in Sockets,
             LoopStep(k) \/ HangUp(k) \/ \E t \in Tokens : Authenticate(k, t)
      PROVE PollInv'
  BY <1>3, SocketStepPolls
<1>4. ASSUME NEW p \in Pollers, PollerStep(p) PROVE PollInv'
  BY <1>4, OnePollerStep, PollerMove DEF PollInv
<1>5. CASE Verify \/ NotifyAssets \/ UNCHANGED vars
  BY <1>1, <1>5 DEF Verify, NotifyAssets, vars, sockets
<1>6. CASE Restart
  <2>1. JustStarted'
    BY <1>6 DEF Restart, JustStarted, SlotInv, TypeOK
  <2> QED BY <2>1, StartPolling, PTL
<1> QED BY <1>2, <1>3, <1>4, <1>5, <1>6 DEF Next

-----------------------------------------------------------------------------
(* The tokens.                                                             *)

\* A token is answered once, after the transaction that made it and by the
\* thread that made it; a thread that revokes has deleted the row, and knows
\* whether the token was answered.
InHand(r) ==
  /\ request[r].step = "remember" =>
       /\ request[r].token \notin held
       /\ \A q \in Requests \ {r} :
            request[q].step = "remember" => request[q].token # request[r].token
  /\ request[r].step = "forget" =>
       /\ request[r].token \notin devices
       /\ request[r].early \/ request[r].token \in held

\* What was revoked had been answered, and is in neither list.
RevokedIsGone == revoked \subseteq held /\ revoked \cap (devices \cup known) = {}

TokenInv == (\A r \in Requests : InHand(r)) /\ RevokedIsGone /\ CacheIsCoherent

LEMMA StartTokens == JustStarted /\ revoked \subseteq held \ devices => TokenInv
BY DEF JustStarted, TokenInv, InHand, RevokedIsGone, CacheIsCoherent, Idle

\* A new row, with a token that nothing has named before.
LEMMA IssueTokens ==
  ASSUME SlotInv, TokenInv, NEW r \in Requests, NEW t \in Tokens, Issue(r, t),
         request[r].token = NoToken, UNCHANGED <<loaded, known, held, revoked>>
  PROVE  TokenInv'
<1>1. /\ t \notin devices \cup known \cup held \cup revoked
      /\ \A q \in Requests : request[q].token # t
      /\ devices' = devices \cup {t}
      /\ request' = [request EXCEPT ![r] = [Idle EXCEPT !.step = "remember", !.token = t]]
  BY DEF Issue, Fresh, Used
<1>2. /\ \A q \in Requests \ {r} : request'[q] = request[q]
      /\ request'[r].step = "remember" /\ request'[r].token = t
  BY <1>1 DEF SlotInv, TypeOK, Idle
<1>3. \A q \in Requests : InHand(q)'
  BY <1>1, <1>2 DEF TokenInv, InHand
<1>4. RevokedIsGone'
  BY <1>1 DEF TokenInv, RevokedIsGone
<1>5. CacheIsCoherent'
  <2> SUFFICES ASSUME loaded, NEW u \in Tokens, u # t
               PROVE  \/ u \in known' <=> u \in devices'
                      \/ \E q \in Requests : request'[q].token = u
                      \/ u \in held' \ revoked' /\ u \notin devices'
    BY <1>2 DEF CacheIsCoherent
  <2>1. NoToken # u
    BY ServerAccessAssumption
  <2> QED BY <1>1, <1>2, <2>1 DEF TokenInv, CacheIsCoherent
<1> QED BY <1>3, <1>4, <1>5 DEF TokenInv

LEMMA RememberTokens ==
  ASSUME SlotInv, TokenInv, NEW r \in Requests, Remember(r)
  PROVE  TokenInv'
<1>1. PICK t \in Tokens : t = request[r].token
  BY DEF Remember, SlotInv, Carried
<1>2. /\ request[r].step = "remember" /\ known' = Learned(t) /\ held' = held \cup {t}
      /\ request' = [request EXCEPT ![r] = Idle] /\ UNCHANGED <<devices, loaded, revoked>>
  BY <1>1 DEF Remember
<1>3. /\ \A q \in Requests \ {r} : request'[q] = request[q]
      /\ request'[r] = Idle
  BY <1>2 DEF SlotInv, TypeOK
<1>4. t \notin held /\ t \notin revoked
  BY <1>1, <1>2 DEF TokenInv, InHand, RevokedIsGone
<1>5. \A q \in Requests : InHand(q)'
  BY <1>1, <1>2, <1>3 DEF TokenInv, InHand, Idle
<1>6. RevokedIsGone'
  BY <1>2, <1>4 DEF TokenInv, RevokedIsGone, Learned
<1>7. CacheIsCoherent'
  <2> SUFFICES ASSUME loaded, NEW u \in Tokens
               PROVE  \/ u \in known' <=> u \in devices'
                      \/ \E q \in Requests : request'[q].token = u
                      \/ u \in held' \ revoked' /\ u \notin devices'
    BY <1>2 DEF CacheIsCoherent
  <2>1. CASE u = t
    BY <1>2, <1>4, <2>1 DEF Learned
  <2>2. CASE u # t
    BY <1>1, <1>2, <1>3, <2>2 DEF TokenInv, CacheIsCoherent, Learned
  <2> QED BY <2>1, <2>2
<1> QED BY <1>5, <1>6, <1>7 DEF TokenInv

LEMMA RevokeTokens ==
  ASSUME SlotInv, TokenInv, NEW r \in Requests, NEW t \in Tokens, Revoke(r, t)
  PROVE  TokenInv'
<1>1. /\ request[r] = Idle /\ devices' = devices \ {t}
      /\ request' = [request EXCEPT ![r] = [step |-> "forget", token |-> t,
                                            early |-> t \notin held]]
      /\ UNCHANGED <<loaded, known, held, revoked>>
  BY DEF Revoke
<1>2. /\ \A q \in Requests \ {r} : request'[q] = request[q]
      /\ request'[r].step = "forget" /\ request'[r].token = t
      /\ request'[r].early <=> t \notin held
  BY <1>1 DEF SlotInv, TypeOK
<1>3. \A q \in Requests : InHand(q)'
  BY <1>1, <1>2 DEF TokenInv, InHand
<1>4. RevokedIsGone'
  BY <1>1 DEF TokenInv, RevokedIsGone
<1>5. CacheIsCoherent'
  <2> SUFFICES ASSUME loaded, NEW u \in Tokens, u # t
               PROVE  \/ u \in known' <=> u \in devices'
                      \/ \E q \in Requests : request'[q].token = u
                      \/ u \in held' \ revoked' /\ u \notin devices'
    BY <1>1, <1>2 DEF CacheIsCoherent
  <2>1. u # Idle.token
    BY ServerAccessAssumption DEF Idle
  <2> QED BY <1>1, <1>2, <2>1 DEF TokenInv, CacheIsCoherent
<1> QED BY <1>3, <1>4, <1>5 DEF TokenInv

LEMMA ForgetTokens ==
  ASSUME SlotInv, TokenInv, NEW r \in Requests, Forget(r)
  PROVE  TokenInv'
<1>1. PICK t \in Tokens : t = request[r].token
  BY DEF Forget, SlotInv, Carried
<1>2. /\ request[r].step = "forget" /\ known' = known \ {t}
      /\ revoked' \in {revoked, revoked \cup {t}}
      /\ request[r].early \/ t \in held
      /\ request[r].early => revoked' = revoked
      /\ t \notin devices
      /\ request' = [request EXCEPT ![r] = Idle] /\ UNCHANGED <<devices, loaded, held>>
  BY <1>1 DEF Forget, Forgotten, TokenInv, InHand
<1>3. /\ \A q \in Requests \ {r} : request'[q] = request[q]
      /\ request'[r] = Idle
  BY <1>2 DEF SlotInv, TypeOK
<1>4. \A q \in Requests : InHand(q)'
  BY <1>2, <1>3 DEF TokenInv, InHand, Idle
<1>5. RevokedIsGone'
  BY <1>2 DEF TokenInv, RevokedIsGone
<1>6. CacheIsCoherent'
  <2> SUFFICES ASSUME loaded, NEW u \in Tokens
               PROVE  \/ u \in known' <=> u \in devices'
                      \/ \E q \in Requests : request'[q].token = u
                      \/ u \in held' \ revoked' /\ u \notin devices'
    BY <1>2 DEF CacheIsCoherent
  <2>1. CASE u = t
    BY <1>2, <2>1
  <2>2. CASE u # t
    BY <1>1, <1>2, <1>3, <2>2 DEF TokenInv, CacheIsCoherent
  <2> QED BY <2>1, <2>2
<1> QED BY <1>4, <1>5, <1>6 DEF TokenInv

\* The list is read, or nothing about tokens happens.
LEMMA LookTokens ==
  ASSUME TokenInv, UNCHANGED <<devices, request, held, revoked>>,
         UNCHANGED <<loaded, known>> \/ Look
  PROVE  TokenInv'
<1>1. \A r \in Requests : InHand(r)'
  BY DEF TokenInv, InHand
<1>2. RevokedIsGone' /\ CacheIsCoherent'
  BY DEF TokenInv, RevokedIsGone, CacheIsCoherent, Look
<1> QED BY <1>1, <1>2 DEF TokenInv

LEMMA RequestTokens ==
  ASSUME SlotInv, TokenInv, NEW r \in Requests, RequestStep(r)
  PROVE  TokenInv'
<1>1. CASE StartSetup(r)
  <2>1. /\ \A q \in Requests : /\ request'[q].token = request[q].token
                               /\ q = r \/ request'[q] = request[q]
        /\ request'[r].step = "setup"
        /\ UNCHANGED <<devices, loaded, known, held, revoked>>
    BY <1>1 DEF StartSetup, SlotInv, TypeOK
  <2>2. \A q \in Requests : InHand(q)'
    BY <2>1 DEF TokenInv, InHand
  <2>3. RevokedIsGone' /\ CacheIsCoherent'
    BY <2>1 DEF TokenInv, RevokedIsGone, CacheIsCoherent
  <2> QED BY <2>2, <2>3 DEF TokenInv
<1>2. CASE CommitSetup(r)
  <2>1. request[r].token = NoToken /\ UNCHANGED <<loaded, known, held, revoked>>
    BY <1>2 DEF CommitSetup, SlotInv, TypeOK, Carried
  <2>2. CASE \E t \in Tokens : Issue(r, t)
    BY <2>1, <2>2, IssueTokens
  <2>3. CASE request' = [request EXCEPT ![r] = Idle] /\ UNCHANGED devices
    <3>1. /\ \A q \in Requests : /\ request'[q].token = request[q].token
                                 /\ q = r \/ request'[q] = request[q]
          /\ request'[r].step = "idle"
      BY <2>1, <2>3 DEF SlotInv, TypeOK, Idle
    <3>2. \A q \in Requests : InHand(q)'
      BY <2>1, <2>3, <3>1 DEF TokenInv, InHand
    <3>3. RevokedIsGone' /\ CacheIsCoherent'
      BY <2>1, <2>3, <3>1 DEF TokenInv, RevokedIsGone, CacheIsCoherent
    <3> QED BY <3>2, <3>3 DEF TokenInv
  <2> QED BY <1>2, <2>2, <2>3 DEF CommitSetup
<1>3. CASE Login(r)
  BY <1>3, IssueTokens DEF Login, Idle
<1>4. CASE Remember(r)
  BY <1>4, RememberTokens
<1>5. CASE Forget(r)
  BY <1>5, ForgetTokens
<1>6. CASE \E t \in Tokens : Revoke(r, t)
  BY <1>6, RevokeTokens
<1> QED BY <1>1, <1>2, <1>3, <1>4, <1>5, <1>6 DEF RequestStep

LEMMA TokenStep == SlotInv /\ TokenInv /\ [Next]_vars => TokenInv'
<1> SUFFICES ASSUME SlotInv, TokenInv, [Next]_vars PROVE TokenInv'
  OBVIOUS
<1>1. ASSUME NEW r \in Requests, RequestStep(r) PROVE TokenInv'
  BY <1>1, RequestTokens
<1>2. ASSUME NEW k \in Sockets,
             LoopStep(k) \/ HangUp(k) \/ \E t \in Tokens : Authenticate(k, t)
      PROVE TokenInv'
  BY <1>2, SocketStepAuth, LookTokens
<1>3. ASSUME NEW p \in Pollers, PollerStep(p) PROVE TokenInv'
  BY <1>3, PollerStepType, LookTokens DEF auth
<1>4. CASE Verify \/ NotifyAssets \/ UNCHANGED vars
  BY <1>4, LookTokens DEF Verify, NotifyAssets, vars, auth
<1>5. CASE Restart
  <2>1. (JustStarted /\ revoked \subseteq held \ devices)'
    BY <1>5 DEF Restart, JustStarted, SlotInv, TypeOK, TokenInv, RevokedIsGone
  <2> QED BY <2>1, StartTokens, PTL
<1> QED BY <1>1, <1>2, <1>3, <1>4, <1>5 DEF Next

\* What was revoked is refused, whichever list is asked.
LEMMA Refusal == RevokedIsGone => RevokedIsRefused
BY DEF RevokedIsGone, RevokedIsRefused, IsKnown

-----------------------------------------------------------------------------
(* The events.                                                             *)

\* An event counts as late only if the socket's token was revoked, and only a
\* listener has an event.
EventInv ==
  \A k \in Sockets :
    /\ socket[k].late => socket[k].token \in revoked
    /\ inbox[k] = "late" => socket[k].token \in revoked
    /\ inbox[k] # "empty" => socket[k].step \in Subscribed
    /\ socket[k].step = "sending" => ~socket[k].late

LEMMA StartEvents == JustStarted => EventInv
BY DEF JustStarted, EventInv, Closed

\* A connection moves, takes its event or lets go of it.
LEMMA EventMove ==
  ASSUME SlotInv, EventInv, NEW k \in Sockets, revoked' = revoked,
         \A i \in Sockets \ {k} : socket'[i] = socket[i] /\ inbox'[i] = inbox[i],
         inbox'[k] \in {inbox[k], "empty"},
         inbox'[k] # "empty" => socket'[k].token = socket[k].token
                                /\ socket'[k].step \in Subscribed,
         socket'[k].late => socket'[k].token \in revoked,
         socket'[k].step = "sending" => ~socket'[k].late
  PROVE  EventInv'
BY DEF EventInv

LEMMA SocketStepEvents ==
  ASSUME SlotInv, RevokedIsRefused, EventInv, NEW k \in Sockets,
         LoopStep(k) \/ HangUp(k) \/ \E t \in Tokens : Authenticate(k, t)
  PROVE  EventInv'
<1>0. /\ socket \in [Sockets -> [step : SocketSteps, token : Tokens \cup {NoToken},
                                 late : BOOLEAN]]
      /\ inbox \in [Sockets -> {"empty", "timely", "late"}]
      /\ revoked' = revoked
      /\ socket[k].late => socket[k].token \in revoked
      /\ inbox[k] = "late" => socket[k].token \in revoked
      /\ inbox[k] # "empty" => socket[k].step \in Subscribed
  BY SocketStepAuth DEF SlotInv, TypeOK, EventInv
<1> USE DEF Subscribed
<1>1. CASE TakePermit(k) \/ TakeSlot(k) \/ Upgrade(k) \/ ReleaseSlot(k) \/ ReturnPermit(k)
           \/ Subscribe(k)
  <2>1. /\ inbox' = inbox /\ inbox[k] = "empty"
        /\ \/ \E step \in {"counted", "upgrading", "returning", "opened", "released",
                           "subscribed"} : socket' = [socket EXCEPT ![k].step = step]
           \/ socket' = [socket EXCEPT ![k] = Closed]
    BY <1>0, <1>1 DEF TakePermit, TakeSlot, Upgrade, ReleaseSlot, ReturnPermit, Subscribe,
                      Go, Refused
  <2> QED BY <1>0, <2>1, EventMove DEF Closed
<1>2. CASE EnsurePoller(k) \/ CheckToken(k) \/ Wake(k) \/ HangUp(k)
  <2>1. /\ inbox' = inbox
        /\ \E step \in {"check", "waiting", "closing"} : socket' = [socket EXCEPT ![k].step = step]
    BY <1>2 DEF EnsurePoller, CheckToken, Wake, HangUp, Go
  <2> QED BY <1>0, <2>1, EventMove
<1>3. CASE Receive(k)
  <2>1. /\ inbox' = [inbox EXCEPT ![k] = "empty"]
        /\ socket' = [socket EXCEPT ![k].step = "received", ![k].late = inbox[k] = "late"]
    BY <1>3 DEF Receive
  <2> QED BY <1>0, <2>1, EventMove
<1>4. CASE CheckBeforeSend(k)
  <2>1. CASE IsKnown(socket[k].token)
    <3>1. ~socket[k].late
      BY <1>0, <2>1 DEF RevokedIsRefused
    <3>2. inbox' = inbox /\ socket' = [socket EXCEPT ![k].step = "sending"]
      BY <1>4, <2>1 DEF CheckBeforeSend, Passes, Go
    <3> QED BY <1>0, <3>1, <3>2, EventMove
  <2>2. CASE ~IsKnown(socket[k].token)
    <3>1. inbox' = inbox /\ socket' = [socket EXCEPT ![k].step = "closing"]
      BY <1>4, <2>2 DEF CheckBeforeSend, Passes, Go
    <3> QED BY <1>0, <3>1, EventMove
  <2> QED BY <2>1, <2>2
<1>5. CASE Send(k) \/ Unsubscribe(k)
  <2>1. /\ inbox' \in {inbox, [inbox EXCEPT ![k] = "empty"]}
        /\ \/ inbox' = inbox /\ \E step \in {"check", "closing"} :
                socket' = [socket EXCEPT ![k].step = step, ![k].late = FALSE]
           \/ /\ inbox' = [inbox EXCEPT ![k] = "empty"]
              /\ socket' = [socket EXCEPT ![k].step = "released", ![k].late = FALSE]
    BY <1>5 DEF Send, Unsubscribe
  <2> QED BY <1>0, <2>1, EventMove
<1>6. ASSUME NEW t \in Tokens, Authenticate(k, t) PROVE EventInv'
  <2> DEFINE mine == [Closed EXCEPT !.step = "authed", !.token = t]
  <2>1. mine.step = "authed" /\ ~mine.late
    BY DEF Closed
  <2>2. /\ inbox' = inbox /\ inbox[k] = "empty"
        /\ UNCHANGED socket \/ socket' = [socket EXCEPT ![k] = mine]
    BY <1>0, <1>6 DEF Authenticate
  <2> HIDE DEF mine
  <2>3. CASE UNCHANGED socket
    BY <1>0, <2>2, <2>3 DEF EventInv
  <2>4. CASE socket' = [socket EXCEPT ![k] = mine]
    BY <1>0, <2>1, <2>2, <2>4, EventMove
  <2> QED BY <2>2, <2>3, <2>4
<1> QED BY <1>1, <1>2, <1>3, <1>4, <1>5, <1>6 DEF LoopStep

\* An event is broadcast, or a revocation is answered.
LEMMA BroadcastEvents ==
  ASSUME SlotInv, EventInv, socket' = socket, revoked \subseteq revoked',
         UNCHANGED inbox \/ Broadcast
  PROVE  EventInv'
<1>1. CASE UNCHANGED inbox
  BY <1>1 DEF EventInv
<1>2. CASE Broadcast
  BY <1>2 DEF EventInv, Broadcast, Receivers
<1> QED BY <1>1, <1>2

LEMMA EventsStep == SlotInv /\ TokenInv /\ EventInv /\ [Next]_vars => EventInv'
<1> SUFFICES ASSUME SlotInv, TokenInv, EventInv, [Next]_vars PROVE EventInv'
  OBVIOUS
<1>1. ASSUME NEW r \in Requests, RequestStep(r) PROVE EventInv'
  <2>1. revoked \subseteq revoked'
    BY <1>1 DEF RequestStep, StartSetup, CommitSetup, Login, Remember, Forget, Revoke
  <2> QED BY <1>1, <2>1, RequestTypes, BroadcastEvents DEF SlotInv, sockets
<1>2. ASSUME NEW k \in Sockets,
             LoopStep(k) \/ HangUp(k) \/ \E t \in Tokens : Authenticate(k, t)
      PROVE EventInv'
  BY <1>2, Refusal, SocketStepEvents DEF TokenInv
<1>3. ASSUME NEW p \in Pollers, PollerStep(p) PROVE EventInv'
  <2>1. Broadcast \/ UNCHANGED inbox
    BY <1>3 DEF PollerStep, Tick, StoreFalse, LookAgain, Reclaim, ListJobs, Publish, sockets
  <2> QED BY <1>3, <2>1, PollerStepType, BroadcastEvents DEF auth
<1>4. CASE Verify \/ NotifyAssets \/ UNCHANGED vars
  BY <1>4, BroadcastEvents DEF Verify, NotifyAssets, vars, auth, sockets
<1>5. CASE Restart
  <2>1. JustStarted'
    BY <1>5 DEF Restart, JustStarted, SlotInv, TypeOK
  <2> QED BY <2>1, StartEvents, PTL
<1> QED BY <1>1, <1>2, <1>3, <1>4, <1>5 DEF Next

-----------------------------------------------------------------------------
(* Theorems.                                                               *)

Inv == SlotInv /\ PollInv /\ TokenInv /\ EventInv

LEMMA Inductive == Spec => []Inv
<1>1. Init => JustStarted /\ revoked \subseteq held \ devices
  BY DEF Init, JustStarted
<1>2. Init => Inv
  BY <1>1, StartSlots, StartPolling, StartTokens, StartEvents DEF Inv
<1>3. Inv /\ [Next]_vars => Inv'
  BY SlotStep, PollStep, TokenStep, EventsStep DEF Inv
<1> QED BY <1>2, <1>3, PTL DEF Spec

\* Every variable of auth.rs, of the sockets' slots and loops and of the
\* poller keeps its type; the counters of permits stay in their ranges.
THEOREM TypeCorrect == Spec => []TypeOK
<1>1. Inv => TypeOK
  BY DEF Inv, SlotInv
<1> QED BY <1>1, Inductive, PTL

\* try_websocket_slot and WebSocketPermit::drop: both counters of permits are
\* the connections that hold one.
THEOREM SlotsComeBack == Spec => []SlotsAreReturned
<1>1. Inv => SlotsAreReturned
  BY DEF Inv, SlotInv
<1> QED BY <1>1, Inductive, PTL

\* ensure_job_event_poller: job_poller_started says whether a poller is in
\* charge, and there is one at most.
THEOREM OneInCharge == Spec => []OnePoller
<1>1. Inv => OnePoller
  BY DEF Inv, PollInv
<1> QED BY <1>1, Inductive, PTL

\* websocket_loop: a listener past ensure_job_event_poller has a poller.
THEOREM ListenersHavePoller == Spec => []ListenersAreServed
<1>1. Inv => ListenersAreServed
  <2> SUFFICES ASSUME Inv, \E k \in Sockets : socket[k].step \in Subscribed \ {"subscribed"}
               PROVE  \E p \in Pollers : poller[p] # "none"
    BY DEF ListenersAreServed
  <2>1. CASE started
    <3>1. Cardinality(Charged) = 1
      BY <2>1 DEF Inv, PollInv, OnePoller, Charged
    <3>2. Charged # {}
      BY <3>1, FS_EmptySet
    <3> QED BY <3>2 DEF Charged, InCharge
  <2>2. CASE ~started
    BY <2>2 DEF Inv, PollInv, Awaited
  <2> QED BY <2>1, <2>2
<1> QED BY <1>1, Inductive, PTL

\* remember_token_hash, forget_token_hash and the first read of the list, in
\* any order: the list agrees with the table.
THEOREM CacheStaysCoherent == Spec => []CacheIsCoherent
<1>1. Inv => CacheIsCoherent
  BY DEF Inv, TokenInv
<1> QED BY <1>1, Inductive, PTL

\* A token whose revocation was answered is refused ever after.
THEOREM RevokedStaysRefused == Spec => []RevokedIsRefused
<1>1. Inv => RevokedIsRefused
  BY Refusal DEF Inv, TokenInv
<1> QED BY <1>1, Inductive, PTL

\* websocket_loop sends no event that is later than the revocation of its
\* socket's token.
THEOREM NothingSentAfterRevoke == Spec => []NothingAfterRevoke
<1>1. Inv => NothingAfterRevoke
  BY DEF Inv, EventInv, NothingAfterRevoke
<1> QED BY <1>1, Inductive, PTL
=============================================================================
