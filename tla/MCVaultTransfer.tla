--------------------------- MODULE MCVaultTransfer ---------------------------
(* One vault request at a time beside the main library, with at most       *)
(* MaxBegun transfers asked for and MaxFaults faults, at any moments.  A   *)
(* fault is a crash, the end of a session, a failing operation, a purge in *)
(* the main library or a deletion to the vault's trash.                    *)
EXTENDS VaultTransfer

CONSTANTS MaxBegun, MaxFaults
VARIABLES
  begun, faults,
  disturbed, \* an operation failed, or the main library purged an asset
  opened     \* a restore made a row outside a journal refer to one inside

counters == <<begun, faults, disturbed, opened>>
mcVars == <<vars, counters>>

\* Every upload carries the same bytes.
SameHash == [a \in Assets |-> 1]

\* What validate_duplicate_closure found when the journal was written.
JournalIsClosed ==
  \A k \in {"import", "export"} : \A t \in Journals(k) : Closed(From[k], transfer[t].ids)

MCInit == Init /\ begun = 0 /\ faults = 0 /\ disturbed = FALSE /\ opened = FALSE

MCNext ==
  \/ (\E r \in Requests : BeginUnlock(r) \/ Proceed(r)) /\ UNCHANGED counters
  \/ Library /\ UNCHANGED counters
  \/ /\ Restores
     /\ opened' = (opened \/ ~JournalIsClosed')
     /\ UNCHANGED <<begun, faults, disturbed>>
  \/ /\ begun < MaxBegun
     /\ \E r \in Requests : Begins(r)
     /\ begun' = begun + 1
     /\ UNCHANGED <<faults, disturbed, opened>>
  \/ /\ faults < MaxFaults
     /\ \/ (Crash \/ Lock \/ VaultTrash) /\ UNCHANGED disturbed
        \/ (Purges \/ \E r \in Requests : Stumble(r)) /\ disturbed' = TRUE
     /\ faults' = faults + 1
     /\ UNCHANGED <<begun, opened>>

MCSpec == MCInit /\ [][MCNext]_mcVars /\ Fairness

\* docs/06: a crash leaves what the next unlock completes.  (A failing
\* operation or a purge may leave what it cannot.)
CrashIsCompletable == disturbed \/ CommittedIsCompletable

\* Reconciliation converges: after any crash every transfer is completed or
\* taken back, once the user unlocks.  (Not so when a restore has opened its
\* journal: then the lease and every unlock after it fail.)
InterruptedSettles == Pending # {} ~> (Pending = {} \/ disturbed \/ opened)
=============================================================================
