----------------------------- MODULE JobPromise -----------------------------
(***************************************************************************)
(* What the Jobs API promises a submitter, with no outbox, Redis, lease or *)
(* worker in sight: an accepted run is executed at most MaxAttempts times, *)
(* ends at most once, and the webhook event of its outcome, like the       *)
(* follow-up run of a success, becomes visible in the very step that ends  *)
(* it.                                                                     *)
(***************************************************************************)
EXTENDS Naturals

CONSTANTS Jobs, ChildOf, Destructive, Notifying, NoJob, MaxAttempts

VARIABLES status, charged, told

vars == <<status, charged, told>>

Open == {"open", "executing"}

Init ==
    /\ status = [j \in Jobs |-> "none"]
    /\ charged = [j \in Jobs |-> 0]
    /\ told = {}

\* A follow-up run is never submitted on its own.
Accept(j) ==
    /\ status[j] = "none"
    /\ \A k \in Jobs : ChildOf[k] # j
    /\ status' = [status EXCEPT ![j] = "open"]
    /\ UNCHANGED <<charged, told>>

\* An execution starts; an abandoned one may be replaced while it still runs.
Start(j) ==
    /\ status[j] \in Open
    /\ charged[j] < MaxAttempts
    /\ status' = [status EXCEPT ![j] = "executing"]
    /\ charged' = [charged EXCEPT ![j] = @ + 1]
    /\ UNCHANGED told

GiveUpExecution(j) ==
    /\ status[j] = "executing"
    /\ charged[j] < MaxAttempts
    /\ status' = [status EXCEPT ![j] = "open"]
    /\ UNCHANGED <<charged, told>>

\* Waiting for an acceptance decision costs no attempt.
Park(j) ==
    /\ status[j] = "executing"
    /\ j \in Destructive
    /\ status' = [status EXCEPT ![j] = "parked"]
    /\ charged' = [charged EXCEPT ![j] = @ - 1]
    /\ UNCHANGED told

Unpark(j) ==
    /\ status[j] = "parked"
    /\ status' = [status EXCEPT ![j] = "open"]
    /\ UNCHANGED <<charged, told>>

Tell(j, outcome) == IF j \in Notifying THEN {<<j, outcome>>} ELSE {}

Fail(j) ==
    /\ status[j] = "executing"
    /\ status' = [status EXCEPT ![j] = "failed"]
    /\ told' = told \cup Tell(j, "failed")
    /\ UNCHANGED charged

\* Success accepts the follow-up run in the same step, unless it exists.
Succeed(j, follow) ==
    /\ status[j] = "executing"
    /\ follow \subseteq {c \in {ChildOf[j]} \ {NoJob} : status[c] = "none"}
    /\ status' = [k \in Jobs |-> IF k = j THEN "succeeded"
                                 ELSE IF k \in follow THEN "open"
                                 ELSE status[k]]
    /\ told' = told \cup Tell(j, "succeeded")
    /\ UNCHANGED charged

Next ==
    \E j \in Jobs :
        \/ Accept(j)
        \/ Start(j)
        \/ GiveUpExecution(j)
        \/ Park(j)
        \/ Unpark(j)
        \/ Fail(j)
        \/ \E follow \in SUBSET {ChildOf[j]} : Succeed(j, follow)

Spec == Init /\ [][Next]_vars
=============================================================================
