--------------------------- MODULE DurableJobsMC ---------------------------
(***************************************************************************)
(* Small instances of DurableJobs: a document.process run with its         *)
(* follow-up, a manual retry of it, and a document.delete run.             *)
(***************************************************************************)
EXTENDS DurableJobsPromise, TLC

CONSTANTS process, embed, again, delete

\* process -> embed; "again" is the key of a manual retry of process.
ChainChildren ==
    [j \in Jobs |-> IF j \in {process, again} /\ embed \in Jobs
                      THEN embed ELSE NoJob]

WorkerSymmetry == Permutations(Workers)
=============================================================================
