------------------------------ MODULE MCVaultMl ------------------------------
(* The vault's queue with at most MaxFaults crashes, panics and failing    *)
(* transactions, at any moments.                                           *)
EXTENDS VaultMlWorkers

CONSTANT MaxFaults
VARIABLE faults

mcVars == <<vaultVars, faults>>

MCInit == VaultInit /\ faults = 0

MCNext ==
  \/ VaultWork /\ UNCHANGED faults
  \/ faults < MaxFaults /\ Fault /\ faults' = faults + 1

\* Interrupted by crashes only.
RestartNext ==
  \/ VaultWork /\ UNCHANGED faults
  \/ faults < MaxFaults /\ ServerCrash /\ faults' = faults + 1

MCSpec == MCInit /\ [][MCNext]_mcVars /\ VaultFairness
RestartSpec == MCInit /\ [][RestartNext]_mcVars /\ VaultFairness
=============================================================================
