------------------------- MODULE DurableJobsPromise -------------------------
(***************************************************************************)
(* The refinement mapping from the tables and queues of DurableJobs to the *)
(* promise of the Jobs API.                                                *)
(***************************************************************************)
EXTENDS DurableJobs

\* How a submitter reads the state of a row.
StatusOf(state) ==
    CASE state = "absent"                         -> "none"
      [] state \in {"queued", "retry_scheduled"}  -> "open"
      [] state = "running"                        -> "executing"
      [] state = "waiting_acceptance"             -> "parked"
      [] OTHER                                    -> state

Status == [j \in Jobs |-> StatusOf(run[j].state)]
Charged == [j \in Jobs |-> run[j].attempts]

Promise == INSTANCE JobPromise WITH
    status <- Status, charged <- Charged, told <- events

\* The tables implement what the Jobs API promises: whatever crashes, expires,
\* is delivered twice or late, a run is charged within its budget, ends once,
\* and its follow-up and webhook event appear exactly when it ends.
PromiseSpec == Promise!Spec
=============================================================================
