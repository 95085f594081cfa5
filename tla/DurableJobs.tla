---------------------------- MODULE DurableJobs ----------------------------
(***************************************************************************)
(* Durable background jobs of one Project: the job_runs and job_outbox     *)
(* tables, the Redis list that carries deliveries, the worker tasks that   *)
(* lease a run and execute it, and the dispatcher that publishes outbox    *)
(* rows and recovers expired leases.                                       *)
(*                                                                         *)
(* One action is one committed PostgreSQL transaction, one Redis command,  *)
(* or one fault.  A key of Jobs stands for one idempotency key, hence for  *)
(* at most one row of job_runs.  Wall-clock deadlines are abstracted:      *)
(*   lease  ticks left before lease_expires_at (0: expired or no lease)    *)
(*   due    next_attempt_at is null or has passed                          *)
(*   when   why an outbox row is or is not yet available                   *)
(***************************************************************************)
EXTENDS Naturals, Sequences

CONSTANTS
    Jobs,          \* idempotency keys
    Roots,         \* keys the HTTP services submit
    ChildOf,       \* the follow-up key a successful run may stage, or NoJob
    Destructive,   \* document.delete and document.purge runs
    Notifying,     \* document.process and document.index runs
    Workers,       \* concurrent Taskiq task slots
    NoJob, NoWorker,
    MaxAttempts,   \* JobRun.max_attempts
    LeaseTicks,    \* length of a lease
    Lossy,         \* TRUE: a popped delivery can die with its worker
    MaxBroker,     \* BOUND: copies of one delivery in Redis
    MaxIntents     \* BOUND: outbox rows of a run that still suspends

Follow == {ChildOf[j] : j \in Jobs} \ {NoJob}
RetryKeys == Jobs \ (Roots \cup Follow)     \* keys minted by a manual retry

ASSUME ConstantsAssumption ==
    /\ MaxAttempts \in Nat \ {0}
    /\ LeaseTicks \in Nat \ {0}
    /\ MaxBroker \in Nat \ {0}
    /\ MaxIntents \in Nat
    /\ Lossy \in BOOLEAN
    /\ Roots \subseteq Jobs
    /\ Destructive \subseteq Jobs
    /\ Notifying \subseteq Jobs
    /\ ChildOf \in [Jobs -> Jobs \cup {NoJob}]
    /\ Roots \cap Follow = {}
    /\ NoJob \notin Jobs
    /\ NoWorker \notin Workers

VARIABLES
    run,         \* job_runs
    outbox,      \* job_outbox: the rows of each run, oldest first
    redis,       \* deliveries of each run waiting in the Redis list
    worker,      \* what each task slot is doing
    pointer,     \* the run whose candidate is the active build (NoJob: another)
    events,      \* webhook_events: <<run, outcome>>
    superseded,  \* history: slots whose run was taken over since they leased it
    lost         \* history: runs one of whose deliveries was lost

vars == <<run, outbox, redis, worker, pointer, events, superseded, lost>>

-----------------------------------------------------------------------------
States == {"absent", "queued", "running", "retry_scheduled",
           "waiting_acceptance", "succeeded", "failed"}
Terminal == {"succeeded", "failed"}
Outcomes == Terminal

RunRecord == [state : States, attempts : 0 .. MaxAttempts,
              owner : Workers \cup {NoWorker}, lease : 0 .. LeaseTicks,
              due : BOOLEAN]
Row == [state : {"pending", "sent", "dispatched"},
        when : {"now", "retry", "backoff"}]
Slot == [pc : {"idle", "popped", "working"}, job : Jobs \cup {NoJob}]

Unleased(s, n) == [state |-> s, attempts |-> n, owner |-> NoWorker,
                   lease |-> 0, due |-> TRUE]
Intent(w) == [state |-> "pending", when |-> w]
AddIntent(j, w) == [outbox EXCEPT ![j] = Append(@, Intent(w))]
SetRow(j, i, s, w) ==
    [outbox EXCEPT ![j] = [@ EXCEPT ![i] = [state |-> s, when |-> w]]]
IdleSlot == [pc |-> "idle", job |-> NoJob]
WorkersOn(j) == {w \in Workers : worker[w].pc = "working" /\ worker[w].job = j}

Init ==
    /\ run = [j \in Jobs |-> Unleased("absent", 0)]
    /\ outbox = [j \in Jobs |-> <<>>]
    /\ redis = [j \in Jobs |-> 0]
    /\ worker = [w \in Workers |-> IdleSlot]
    /\ pointer = NoJob
    /\ events = {}
    /\ superseded = {}
    /\ lost = {}

-----------------------------------------------------------------------------
(* Submission: JobService.stage in the transaction of a module service.     *)

\* stage() with a key that exists returns the existing run and adds no row.
StageInto(runs, c) ==
    IF c = NoJob \/ runs[c].state # "absent"
      THEN runs
      ELSE [runs EXCEPT ![c] = Unleased("queued", 0)]

IntentFor(c) ==
    IF c = NoJob \/ run[c].state # "absent"
      THEN outbox
      ELSE AddIntent(c, "now")

Submit(j) ==
    /\ j \in Roots
    /\ run[j].state = "absent"
    /\ run' = StageInto(run, j)
    /\ outbox' = IntentFor(j)
    /\ UNCHANGED <<redis, worker, pointer, events, superseded, lost>>

\* JobService.retry: a failed run is re-submitted under a fresh key k that
\* carries the same type, payload and configuration.
ManualRetry(j, k) ==
    /\ run[j].state = "failed"
    /\ k \in RetryKeys
    /\ run[k].state = "absent"
    /\ ChildOf[k] = ChildOf[j]
    /\ (k \in Destructive) = (j \in Destructive)
    /\ (k \in Notifying) = (j \in Notifying)
    /\ run' = StageInto(run, k)
    /\ outbox' = IntentFor(k)
    /\ UNCHANGED <<redis, worker, pointer, events, superseded, lost>>

-----------------------------------------------------------------------------
(* Outbox dispatch: JobService._dispatch_claim.  The row stays locked from  *)
(* the claim to the commit, so a claimed row is seen by no other dispatcher.*)

\* MUTANT: the claim forgets available_at <= clock_timestamp().
AvailableTooEarly(j, i) == outbox[j][i].state = "pending"

Available(j, i) == outbox[j][i] = Intent("now")

\* Claimed and pushed to Redis; the transaction is still open.
Enqueue(j, i) ==
    /\ Available(j, i)
    /\ redis[j] < MaxBroker
    /\ outbox' = SetRow(j, i, "sent", "now")
    /\ redis' = [redis EXCEPT ![j] = @ + 1]
    /\ UNCHANGED <<run, worker, pointer, events, superseded, lost>>

\* MUTANT: a failed push is recorded as a dispatch.
EnqueueRaisesAndForgets(j, i) ==
    /\ Available(j, i)
    /\ outbox' = SetRow(j, i, "dispatched", "now")
    /\ UNCHANGED <<run, redis, worker, pointer, events, superseded, lost>>

\* Enqueue raised: the row keeps its intent and is pushed back.  A connection
\* that broke after the push leaves the message in Redis all the same.
EnqueueRaises(j, i) ==
    /\ Available(j, i)
    /\ outbox' = SetRow(j, i, "pending", "backoff")
    /\ \/ redis' = redis
       \/ redis[j] < MaxBroker /\ redis' = [redis EXCEPT ![j] = @ + 1]
    /\ UNCHANGED <<run, worker, pointer, events, superseded, lost>>

MarkDispatched(j, i) ==
    /\ outbox[j][i].state = "sent"
    /\ outbox' = SetRow(j, i, "dispatched", "now")
    /\ UNCHANGED <<run, redis, worker, pointer, events, superseded, lost>>

\* The dispatching process dies between the push and the commit.
DispatcherCrash(j, i) ==
    /\ outbox[j][i].state = "sent"
    /\ outbox' = SetRow(j, i, "pending", "now")
    /\ UNCHANGED <<run, redis, worker, pointer, events, superseded, lost>>

BackoffElapses(j, i) ==
    /\ outbox[j][i] = Intent("backoff")
    /\ outbox' = SetRow(j, i, "pending", "now")
    /\ UNCHANGED <<run, redis, worker, pointer, events, superseded, lost>>

\* next_attempt_at of the run and available_at of its intent are one instant.
RetryDue(j) ==
    /\ run[j].state = "retry_scheduled"
    /\ ~run[j].due
    /\ run' = [run EXCEPT ![j].due = TRUE]
    /\ outbox' = [outbox EXCEPT ![j] =
                    [i \in DOMAIN @ |-> IF @[i] = Intent("retry")
                                          THEN Intent("now") ELSE @[i]]]
    /\ UNCHANGED <<redis, worker, pointer, events, superseded, lost>>

-----------------------------------------------------------------------------
(* Delivery and execution: run_durable_job.                                 *)

\* The list broker pops without an acknowledgement.
Pop(w, j) ==
    /\ worker[w].pc = "idle"
    /\ redis[j] > 0
    /\ redis' = [redis EXCEPT ![j] = @ - 1]
    /\ worker' = [worker EXCEPT ![w] = [pc |-> "popped", job |-> j]]
    /\ UNCHANGED <<run, outbox, pointer, events, superseded, lost>>

\* MUTANT: the acquiring UPDATE forgets attempt_count < max_attempts.
EligibleUncapped(j) ==
    \/ run[j].state = "queued"
    \/ run[j].state = "retry_scheduled" /\ run[j].due
    \/ run[j].state = "running" /\ run[j].lease = 0

Eligible(j) ==
    /\ \/ run[j].state = "queued"
       \/ run[j].state = "retry_scheduled" /\ run[j].due
       \/ run[j].state = "running" /\ run[j].lease = 0
    /\ run[j].attempts < MaxAttempts

Acquire(w) ==
    LET j == worker[w].job IN
    /\ worker[w].pc = "popped"
    /\ Eligible(j)
    /\ run' = [run EXCEPT ![j] = [state |-> "running", attempts |-> @.attempts + 1,
                                  owner |-> w, lease |-> LeaseTicks, due |-> TRUE]]
    /\ worker' = [worker EXCEPT ![w].pc = "working"]
    /\ superseded' = superseded \cup WorkersOn(j)
    /\ UNCHANGED <<outbox, redis, pointer, events, lost>>

IgnoreDelivery(w) ==
    /\ worker[w].pc = "popped"
    /\ ~Eligible(worker[w].job)
    /\ worker' = [worker EXCEPT ![w] = IdleSlot]
    /\ UNCHANGED <<run, outbox, redis, pointer, events, superseded, lost>>

\* The task dies, or acquire itself raises, after the message left Redis.
LoseDelivery(w) ==
    /\ Lossy
    /\ worker[w].pc = "popped"
    /\ worker' = [worker EXCEPT ![w] = IdleSlot]
    /\ lost' = lost \cup {worker[w].job}
    /\ UNCHANGED <<run, outbox, redis, pointer, events, superseded>>

\* MUTANT: any live lease on the run will do.
OwnedByAnyone(w) ==
    LET r == run[worker[w].job] IN r.state = "running" /\ r.lease > 0

\* The condition of lock_owned_run and of the heartbeat UPDATE.
Owned(w) ==
    LET r == run[worker[w].job] IN
    r.state = "running" /\ r.owner = w /\ r.lease > 0

Busy(w) == worker[w].pc = "working"

Heartbeat(w) ==
    /\ Busy(w)
    /\ Owned(w)
    /\ run' = [run EXCEPT ![worker[w].job].lease = LeaseTicks]
    /\ UNCHANGED <<outbox, redis, worker, pointer, events, superseded, lost>>

LeaseTick(j) ==
    /\ run[j].state = "running"
    /\ run[j].lease > 0
    /\ run' = [run EXCEPT ![j].lease = @ - 1]
    /\ UNCHANGED <<outbox, redis, worker, pointer, events, superseded, lost>>

Release(w) ==
    /\ worker' = [worker EXCEPT ![w] = IdleSlot]
    /\ superseded' = superseded \ {w}

\* MUTANT: only successes are published.
EventForSuccess(j, outcome) ==
    IF j \in Notifying /\ outcome = "succeeded" THEN {<<j, outcome>>} ELSE {}

EventFor(j, outcome) == IF j \in Notifying THEN {<<j, outcome>>} ELSE {}

\* stage_success: child, terminal state and webhook event in one commit.  The
\* child is skipped when the operation returns none or the document moved on.
StageSuccess(w, c) ==
    LET j == worker[w].job IN
    /\ Busy(w)
    /\ Owned(w)
    /\ c \in {NoJob, ChildOf[j]}
    /\ run' = [StageInto(run, c) EXCEPT ![j] = Unleased("succeeded", @.attempts)]
    /\ outbox' = IntentFor(c)
    /\ events' = events \cup EventFor(j, "succeeded")
    /\ Release(w)
    /\ UNCHANGED <<redis, pointer, lost>>

\* MUTANT: one attempt too many.
MayRetryOnceMore(j) == run[j].attempts <= MaxAttempts

MayRetry(j) == run[j].attempts < MaxAttempts

ScheduleRetry(j, isDue) == [Unleased("retry_scheduled", run[j].attempts)
                              EXCEPT !.due = isDue]

StageFailure(w, retryable) ==
    LET j == worker[w].job
        willRetry == retryable /\ MayRetry(j)
    IN
    /\ Busy(w)
    /\ Owned(w)
    /\ \/ /\ willRetry
          /\ run' = [run EXCEPT ![j] = ScheduleRetry(j, FALSE)]
          /\ outbox' = AddIntent(j, "retry")
          /\ UNCHANGED events
       \/ /\ ~willRetry
          /\ run' = [run EXCEPT ![j] = Unleased("failed", @.attempts)]
          /\ events' = events \cup EventFor(j, "failed")
          /\ UNCHANGED outbox
    /\ Release(w)
    /\ UNCHANGED <<redis, pointer, lost>>

\* stage_waiting_acceptance: the suspension gives the attempt back.
Suspend(w) ==
    LET j == worker[w].job IN
    /\ Busy(w)
    /\ Owned(w)
    /\ j \in Destructive
    /\ Len(outbox[j]) < MaxIntents
    /\ run' = [run EXCEPT ![j] =
                 Unleased("waiting_acceptance",
                          IF @.attempts = 0 THEN 0 ELSE @.attempts - 1)]
    /\ Release(w)
    /\ UNCHANGED <<outbox, redis, pointer, events, lost>>

\* JobLeaseLostError: whatever the operation produced is rolled back.
DiscardStale(w) ==
    /\ Busy(w)
    /\ ~Owned(w)
    /\ Release(w)
    /\ UNCHANGED <<run, outbox, redis, pointer, events, lost>>

WorkerCrash(w) ==
    /\ Busy(w)
    /\ Release(w)
    /\ UNCHANGED <<run, outbox, redis, pointer, events, lost>>

-----------------------------------------------------------------------------
(* The dispatcher's recovery pass: JobService.recover_expired.              *)

RecoverExpired(j) ==
    /\ run[j].state = "running"
    /\ run[j].lease = 0
    /\ \/ /\ MayRetry(j)
          /\ run' = [run EXCEPT ![j] = ScheduleRetry(j, TRUE)]
          /\ outbox' = AddIntent(j, "now")
          /\ UNCHANGED events
       \/ /\ ~MayRetry(j)
          /\ run' = [run EXCEPT ![j] = Unleased("failed", @.attempts)]
          /\ events' = events \cup EventFor(j, "failed")
          /\ UNCHANGED outbox
    /\ superseded' = superseded \cup WorkersOn(j)
    /\ UNCHANGED <<redis, worker, pointer, lost>>

\* Only a run whose own candidate is the active build right now is resumed.
ResumeAccepted(j) ==
    /\ run[j].state = "waiting_acceptance"
    /\ pointer = j
    /\ run' = [run EXCEPT ![j].state = "queued"]
    /\ outbox' = AddIntent(j, "now")
    /\ UNCHANGED <<redis, worker, pointer, events, superseded, lost>>

\* ENVIRONMENT: an operator activates a waiting run's candidate or another build.
MovePointer(p) ==
    /\ p # pointer
    /\ \/ p = NoJob
       \/ p \in Destructive /\ run[p].state = "waiting_acceptance"
    /\ pointer' = p
    /\ UNCHANGED <<run, outbox, redis, worker, events, superseded, lost>>

-----------------------------------------------------------------------------
RowStep(j) ==
    \E i \in 1 .. Len(outbox[j]) :
        \/ Enqueue(j, i)
        \/ EnqueueRaises(j, i)
        \/ MarkDispatched(j, i)
        \/ DispatcherCrash(j, i)
        \/ BackoffElapses(j, i)

JobStep(j) ==
    \/ Submit(j)
    \/ RowStep(j)
    \/ RetryDue(j)
    \/ LeaseTick(j)
    \/ RecoverExpired(j)
    \/ ResumeAccepted(j)
    \/ \E k \in Jobs : ManualRetry(j, k)

Finish(w) ==
    \/ \E c \in Jobs \cup {NoJob} : StageSuccess(w, c)
    \/ \E retryable \in BOOLEAN : StageFailure(w, retryable)
    \/ Suspend(w)
    \/ DiscardStale(w)
    \/ WorkerCrash(w)

WorkerStep(w) ==
    \/ \E j \in Jobs : Pop(w, j)
    \/ Acquire(w)
    \/ IgnoreDelivery(w)
    \/ LoseDelivery(w)
    \/ Heartbeat(w)
    \/ Finish(w)

Next ==
    \/ \E j \in Jobs : JobStep(j)
    \/ \E w \in Workers : WorkerStep(w)
    \/ \E p \in Jobs \cup {NoJob} : MovePointer(p)

Spec == Init /\ [][Next]_vars

(* Fairness.  The dispatcher polls for ever, Redis accepts a push again and *)
(* again, the list is FIFO so no delivery waits for ever behind others, and *)
(* every operation ends or its process dies.  Faults, heartbeats, API calls *)
(* and pointer moves are never forced.                                      *)
Fairness ==
    /\ \A j \in Jobs :
        /\ WF_vars(RetryDue(j))
        /\ WF_vars(LeaseTick(j))
        /\ WF_vars(RecoverExpired(j))
        /\ WF_vars(ResumeAccepted(j))
        /\ SF_vars(\E i \in 1 .. Len(outbox[j]) : Enqueue(j, i))
        /\ WF_vars(\E i \in 1 .. Len(outbox[j]) : BackoffElapses(j, i))
        /\ SF_vars(\E w \in Workers : Pop(w, j))
    /\ \A w \in Workers :
        /\ WF_vars(Acquire(w))
        /\ WF_vars(IgnoreDelivery(w))
        /\ WF_vars(Finish(w))

FairSpec == Spec /\ Fairness

-----------------------------------------------------------------------------
(* Properties.                                                              *)

\* Every variable keeps its type.
TypeOK ==
    /\ run \in [Jobs -> RunRecord]
    /\ outbox \in [Jobs -> Seq(Row)]
    /\ redis \in [Jobs -> Nat]
    /\ worker \in [Workers -> Slot]
    /\ \A w \in Workers : worker[w].pc # "idle" => worker[w].job \in Jobs
    /\ pointer \in Jobs \cup {NoJob}
    /\ events \subseteq Jobs \X Outcomes
    /\ superseded \subseteq Workers
    /\ lost \subseteq Jobs

\* Fencing.  A task whose run was leased again or recovered behind its back
\* fails the ownership test of every later transition (lock_owned_run), so
\* its result, failure, suspension or heartbeat is never published.
FencedOut ==
    \A w \in superseded : Busy(w) => ~Owned(w)

\* A run that is waiting for its next delivery still has an attempt left:
\* acquire() would otherwise refuse every delivery and no transition of the
\* code would ever end the run.
WaitingRunHasBudget ==
    \A j \in Jobs :
        run[j].state \in {"queued", "retry_scheduled", "waiting_acceptance"}
            => run[j].attempts < MaxAttempts

\* What still carries run j towards a worker.
Carried(j) ==
    \/ \E i \in DOMAIN outbox[j] : outbox[j][i].state = "pending"
    \/ redis[j] > 0
    \/ \E w \in Workers : worker[w].pc = "popped" /\ worker[w].job = j

NotStranded(j) ==
    /\ (\/ run[j].state = "queued"
        \/ run[j].state = "retry_scheduled" /\ run[j].due)
           => (Carried(j) \/ j \in lost)
    /\ (run[j].state = "retry_scheduled" /\ ~run[j].due)
           => \E i \in DOMAIN outbox[j] : outbox[j][i] = Intent("retry")

\* No committed run is forgotten: a due run has a pending intent, a delivery
\* in Redis or a task about to lease it, unless one of its deliveries died
\* with a worker.  A run that is not due yet keeps an intent of its own,
\* because a duplicate delivery that comes early is consumed and ignored.
NoStrandedRun == \A j \in Jobs : NotStranded(j)

RevivedByAcquisition(j) ==
    (/\ run[j].state = "running" /\ run[j].lease = 0
     /\ run'[j].state = "running" /\ run'[j].lease > 0)
        => run'[j].attempts = run[j].attempts + 1

\* An expired lease comes back to life only through a new acquisition: the
\* heartbeat of the task that let it expire does not revive it.
NoLeaseRevival == [][\A j \in Jobs : RevivedByAcquisition(j)]_vars

EndedProperly(j) ==
    (run[j].state \notin Terminal /\ run'[j].state \in Terminal)
        => \/ /\ run[j].lease > 0
              /\ worker[run[j].owner].job = j
              /\ worker'[run[j].owner].pc = "idle"
           \/ /\ run[j].lease = 0
              /\ run[j].attempts = MaxAttempts
              /\ run'[j].state = "failed"

\* A suspension or a takeover never lets a task end a run it did not lease
\* last: a run ends by its current owner, or by recovery of an expired lease
\* whose attempts are used up.
EndedByOwnerOrRecovery == [][\A j \in Jobs : EndedProperly(j)]_vars

\* Every submitted run ends, or waits for an acceptance decision, however
\* often its executions fail or crash (no delivery is lost).
EverySubmissionSettles ==
    \A j \in Jobs :
        (run[j].state # "absent")
            ~> (run[j].state \in Terminal \cup {"waiting_acceptance"})

\* docs/platform-integration-guide.md:1313: a queued or retry_scheduled run is
\* resumed by the outbox and lease recovery once the infrastructure is back.
OutboxResumesRuns ==
    \A j \in Jobs :
        (run[j].state \in {"queued", "retry_scheduled"})
            ~> (run[j].state \notin {"queued", "retry_scheduled"})
=============================================================================
