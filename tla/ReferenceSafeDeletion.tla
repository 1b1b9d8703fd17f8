----------------------- MODULE ReferenceSafeDeletion -----------------------
(***************************************************************************)
(* What the asset library promises about deletion, without tables, stacks, *)
(* threads or crashes.  Things are kept until they are condemned; some are *)
(* needed by others; a thing is erased in two steps, and only while        *)
(* nothing needs it.                                                       *)
(***************************************************************************)
CONSTANT Things
VARIABLES
  state,   \* of each thing: "absent", "kept" or "condemned"
  needed,  \* the things some other thing refers to
  stored   \* the things whose bytes are on the disk

vars == <<state, needed, stored>>

Kept(t) == state[t] = "kept"

\* A library may be inherited in which condemned things are still needed.
Init ==
  /\ state \in [Things -> {"absent", "kept", "condemned"}]
  /\ needed \in SUBSET {t \in Things : state[t] # "absent"}
  /\ stored = {t \in Things : state[t] # "absent"}

\* Whoever begins to need a thing finds it kept.
NeedOnlyKept == \A t \in needed' \ needed : Kept(t)

\* The bytes of a thing arrive before its entry, or go if no entry is made.
Store(t) ==
  /\ state[t] = "absent"
  /\ stored' = stored \cup {t}
  /\ UNCHANGED <<state, needed>>

Discard(t) ==
  /\ state[t] = "absent"
  /\ stored' = stored \ {t}
  /\ UNCHANGED <<state, needed>>

Keep(t) ==
  /\ state[t] = "absent"
  /\ t \in stored
  /\ state' = [state EXCEPT ![t] = "kept"]
  /\ NeedOnlyKept
  /\ UNCHANGED stored

\* References come and go.
Refer ==
  /\ NeedOnlyKept
  /\ UNCHANGED <<state, stored>>

Condemn(T) ==
  /\ \A t \in T : Kept(t) /\ t \notin needed
  /\ state' = [t \in Things |-> IF t \in T THEN "condemned" ELSE state[t]]
  /\ UNCHANGED <<needed, stored>>

\* A condemned thing that turns out to be needed is kept again.
Reprieve(t) ==
  /\ state[t] = "condemned"
  /\ t \in needed
  /\ state' = [state EXCEPT ![t] = "kept"]
  /\ UNCHANGED <<needed, stored>>

\* An erasure that is interrupted takes the bytes and leaves the entry.
Unstore(t) ==
  /\ state[t] = "condemned"
  /\ t \notin needed
  /\ stored' = stored \ {t}
  /\ UNCHANGED <<state, needed>>

\* What only the erased thing needed is needed no more.
Erase(t) ==
  /\ state[t] = "condemned"
  /\ t \notin needed
  /\ state' = [state EXCEPT ![t] = "absent"]
  /\ needed' \subseteq needed
  /\ stored' = stored \ {t}

Next ==
  \/ \E t \in Things : \/ Store(t) \/ Discard(t) \/ Keep(t)
                       \/ Reprieve(t) \/ Unstore(t) \/ Erase(t)
  \/ Refer
  \/ \E T \in SUBSET Things : Condemn(T)

Spec == Init /\ [][Next]_vars

\* What is kept or needed has its entry and its bytes (AssetLibraryProofs
\* proves that every behaviour keeps this).
Safe == \A t \in Things : Kept(t) \/ t \in needed => state[t] # "absent" /\ t \in stored

=============================================================================
