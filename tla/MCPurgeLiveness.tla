-------------------------- MODULE MCPurgeLiveness --------------------------
(* A settled library, as it is now or as an older build left it: one image *)
(* and its duplicates, all with their files.  Only edits of stacks, the    *)
(* purge loop, an API purge, trash and restore happen, so that there is    *)
(* room for several pages and chapters.                                    *)
EXTENDS AssetLibrary

CONSTANT h1

SameHash == [a \in Assets |-> h1]

CurrentDuplicates(p) ==
  /\ row = [a \in Assets |->
       IF a = p THEN [NoRow EXCEPT !.lifecycle = "active", !.visible = TRUE]
       ELSE [NoRow EXCEPT !.lifecycle = "duplicate", !.duplicateOf = p,
                          !.timer = "running"]]
  /\ stack = [s \in Stacks |-> NoStack]
  /\ page = [s \in Stacks |-> NoPages]

SettledInit ==
  /\ \E p \in Assets : CurrentDuplicates(p) \/ LegacyDuplicates(p, Assets \ {p})
  /\ upload = [a \in Assets |-> "done"]
  /\ original = Assets
  /\ derived = Assets
  /\ rendering = {}
  /\ purger = [w \in Purgers |-> IF w = Ticker THEN Resuming("startup", row) ELSE Idle]

FairSpec == SettledInit /\ [][Next]_vars /\ Fairness

\* Crashes and I/O errors come to an end: a tombstone whose file can never
\* be removed stops the list it is in at every attempt (purge.rs:65).
FaultsEnd == <>[][~Fault]_vars

(* A crash, an error or a lost race leaves a tombstone; once the faults    *)
(* end, the resume at startup and at every tick resolves it (lib.rs:724).  *)
TombstonesAreResolved == FaultsEnd => TombstonesDrain

(* An expired row that nothing refers to is purged in the end, although    *)
(* each failed purge drops the rest of the loop's list (lib.rs:813).       *)
ExpiryIsHonoured == FaultsEnd => ExpiredIsPurged
=============================================================================
