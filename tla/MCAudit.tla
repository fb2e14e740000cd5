------------------------------- MODULE MCAudit -------------------------------
(* Instances of the audit chain with its witness. *)
EXTENDS AuditWitness

CONSTANTS
    w1, w2,        \* goroutines
    MaxWitnessed   \* bound on the entries built where the witness runs

\* Two goroutines append; one does, and less, where the witness runs and after a
\* second restart.
OneAppends == witOn' \/ restarts' > 1 => req'[w2] = Idle /\ built' <= MaxWitnessed

\* A second restart only where the witness never committed: a line that a killed
\* process left unsynced is committed by the next one and can still be lost.
OneStop == witOn' \/ commits' # {} => restarts' <= 1

MCNext == WNext /\ OneAppends /\ OneStop

MCSpec == WInit /\ [][MCNext]_wvars /\ WFairness
=============================================================================
