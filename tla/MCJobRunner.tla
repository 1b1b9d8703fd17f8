----------------------------- MODULE MCJobRunner -----------------------------
(* The job queue with at most MaxInterruptions stops and crashes and at    *)
(* most MaxErrors failing transactions, at any moments.                    *)
EXTENDS JobRunner, TLC

CONSTANTS MaxInterruptions, MaxErrors
VARIABLES
  interruptions, errors,
  lost  \* jobs whose answer failed to be written since the last start

mcVars == <<vars, interruptions, errors, lost>>

Symmetry == Permutations(Workers)

MCInit == Init /\ interruptions = 0 /\ errors = 0 /\ lost = {}

MCNext ==
  \/ /\ Work
     /\ lost' = IF server = "down" THEN {} ELSE lost
     /\ UNCHANGED <<interruptions, errors>>
  \/ /\ interruptions < MaxInterruptions
     /\ Interruption
     /\ interruptions' = interruptions + 1
     /\ UNCHANGED <<errors, lost>>
  \/ /\ errors < MaxErrors
     /\ \E w \in Workers : \/ CheckCancelFails(w) /\ UNCHANGED lost
                           \/ ReportFails(w) /\ lost' = lost \cup {worker[w].job}
     /\ errors' = errors + 1
     /\ UNCHANGED interruptions

MCSpec == MCInit /\ [][MCNext]_mcVars
MCFairSpec == MCSpec /\ Fairness

(* Every admitted job is answered, across stops, crashes and restarts      *)
(* (jobs.rs: recover resets the jobs left running by a previous process).  *)
(* Only a job whose answer could not be written waits for the next start.  *)
JobsAreAnswered ==
  \A j \in Ids : []<>(job[j].state \notin ActiveStates \/ j \in lost)
=============================================================================
