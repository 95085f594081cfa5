------------------------- MODULE DurableJobsProofs -------------------------
(***************************************************************************)
(* Proofs about DurableJobs, for every set of runs, every number of        *)
(* workers, every attempt limit and every lease length.                    *)
(***************************************************************************)
EXTENDS DurableJobsPromise, SequenceTheorems, TLAPS

-----------------------------------------------------------------------------
(* The helpers of the transitions keep the types of the tables.             *)

\* Writing one row of the outbox keeps its type and changes only that row.
LEMMA SetRowType ==
    ASSUME outbox \in [Jobs -> Seq(Row)],
           NEW j \in Jobs, NEW i \in 1 .. Len(outbox[j]),
           NEW s \in {"pending", "sent", "dispatched"},
           NEW w \in {"now", "retry", "backoff"}
    PROVE  /\ SetRow(j, i, s, w) \in [Jobs -> Seq(Row)]
           /\ \A k \in Jobs \ {j} : SetRow(j, i, s, w)[k] = outbox[k]
           /\ DOMAIN SetRow(j, i, s, w)[j] = DOMAIN outbox[j]
           /\ \A n \in DOMAIN outbox[j] :
                SetRow(j, i, s, w)[j][n] =
                  IF n = i THEN [state |-> s, when |-> w] ELSE outbox[j][n]
  <1> DEFINE row == [state |-> s, when |-> w]
             new == [outbox[j] EXCEPT ![i] = row]
  <1>1. row \in Row
    BY DEF Row
  <1>2. /\ new \in Seq(Row)
        /\ Len(new) = Len(outbox[j])
        /\ \A n \in 1 .. Len(outbox[j]) :
             new[n] = IF n = i THEN row ELSE outbox[j][n]
    BY <1>1, ExceptSeq
  <1>3. /\ DOMAIN new = 1 .. Len(new)
        /\ DOMAIN outbox[j] = 1 .. Len(outbox[j])
    BY <1>2, LenProperties
  <1> QED
    BY <1>2, <1>3 DEF SetRow

\* Appending an intent keeps the type, every old row, and ends in the intent.
LEMMA AddIntentType ==
    ASSUME outbox \in [Jobs -> Seq(Row)],
           NEW j \in Jobs, NEW w \in {"now", "retry", "backoff"}
    PROVE  /\ AddIntent(j, w) \in [Jobs -> Seq(Row)]
           /\ \A k \in Jobs \ {j} : AddIntent(j, w)[k] = outbox[k]
           /\ DOMAIN outbox[j] \subseteq DOMAIN AddIntent(j, w)[j]
           /\ \A n \in DOMAIN outbox[j] : AddIntent(j, w)[j][n] = outbox[j][n]
           /\ \E n \in DOMAIN AddIntent(j, w)[j] : AddIntent(j, w)[j][n] = Intent(w)
  <1>1. Intent(w) \in Row
    BY DEF Intent, Row
  <1>2. AddIntent(j, w)[j] = Append(outbox[j], Intent(w))
    BY DEF AddIntent
  <1>3. outbox[j] \in Seq(Row) /\ Len(outbox[j]) \in Nat
    BY LenProperties
  <1>4. /\ Append(outbox[j], Intent(w)) \in Seq(Row)
        /\ Len(Append(outbox[j], Intent(w))) = Len(outbox[j]) + 1
        /\ \A n \in 1 .. Len(outbox[j]) :
             Append(outbox[j], Intent(w))[n] = outbox[j][n]
        /\ Append(outbox[j], Intent(w))[Len(outbox[j]) + 1] = Intent(w)
    BY <1>1, <1>3
  <1>5. /\ DOMAIN outbox[j] = 1 .. Len(outbox[j])
        /\ DOMAIN AddIntent(j, w)[j] = 1 .. (Len(outbox[j]) + 1)
    BY <1>2, <1>3, <1>4, LenProperties
  <1>6. Len(outbox[j]) + 1 \in DOMAIN AddIntent(j, w)[j]
    BY <1>3, <1>5
  <1> QED
    BY <1>2, <1>3, <1>4, <1>5, <1>6 DEF AddIntent

\* Unleased rows and the rows of a scheduled retry are well typed.
LEMMA UnleasedType ==
    ASSUME NEW s \in States, NEW n \in 0 .. MaxAttempts
    PROVE  Unleased(s, n) \in RunRecord
  BY ConstantsAssumption DEF Unleased, RunRecord

LEMMA StageIntoType ==
    ASSUME NEW runs \in [Jobs -> RunRecord], NEW c \in Jobs \cup {NoJob}
    PROVE  /\ StageInto(runs, c) \in [Jobs -> RunRecord]
           /\ \A k \in Jobs \ {c} : StageInto(runs, c)[k] = runs[k]
           /\ \A k \in Jobs : runs[k].state # "absent"
                => StageInto(runs, c)[k] = runs[k]
           /\ \A k \in Jobs : StageInto(runs, c)[k] # runs[k]
                => k = c /\ StageInto(runs, c)[k] = Unleased("queued", 0)
  <1>1. Unleased("queued", 0) \in RunRecord
    BY UnleasedType, ConstantsAssumption DEF States
  <1> QED
    BY <1>1, ConstantsAssumption DEF StageInto

LEMMA IntentForType ==
    ASSUME outbox \in [Jobs -> Seq(Row)], NEW c \in Jobs \cup {NoJob}
    PROVE  IntentFor(c) \in [Jobs -> Seq(Row)]
  BY AddIntentType, ConstantsAssumption DEF IntentFor

-----------------------------------------------------------------------------
(* Type correctness.                                                        *)

\* What an idle slot, a leased row and a suspension do to the types.
LEMMA SlotType ==
    /\ IdleSlot \in Slot
    /\ \A j \in Jobs : [pc |-> "popped", job |-> j] \in Slot
  BY DEF IdleSlot, Slot

LEMMA ReleaseType ==
    ASSUME TypeOK, NEW w \in Workers, Release(w)
    PROVE  /\ worker' \in [Workers -> Slot]
           /\ \A v \in Workers : worker'[v].pc # "idle" => worker'[v].job \in Jobs
           /\ superseded' \subseteq Workers
  BY SlotType DEF TypeOK, Release, IdleSlot, Slot

LEMMA BusyJob ==
    ASSUME TypeOK, NEW w \in Workers, Busy(w) \/ worker[w].pc = "popped"
    PROVE  worker[w].job \in Jobs
  BY DEF TypeOK, Busy

LEMMA EventType ==
    ASSUME NEW j \in Jobs, NEW o \in Outcomes
    PROVE  EventFor(j, o) \subseteq Jobs \X Outcomes
  BY DEF EventFor

LEMMA RunFields ==
    ASSUME TypeOK, NEW j \in Jobs
    PROVE  /\ run[j] \in RunRecord
           /\ run[j].state \in States
           /\ run[j].attempts \in 0 .. MaxAttempts
           /\ run[j].owner \in Workers \cup {NoWorker}
           /\ run[j].lease \in 0 .. LeaseTicks
           /\ run[j].due \in BOOLEAN
           /\ outbox[j] \in Seq(Row)
           /\ redis[j] \in Nat
  BY DEF TypeOK, RunRecord

\* Only the lease of a row changes.
LEMMA LeaseType ==
    ASSUME TypeOK, NEW j \in Jobs, NEW n \in 0 .. LeaseTicks
    PROVE  [run EXCEPT ![j].lease = n] \in [Jobs -> RunRecord]
  <1> DEFINE A == 0 .. MaxAttempts
             L == 0 .. LeaseTicks
  <1>1. run \in [Jobs -> [state : States, attempts : A,
                          owner : Workers \cup {NoWorker}, lease : L,
                          due : BOOLEAN]]
    BY DEF TypeOK, RunRecord
  <1>2. n \in L
    OBVIOUS
  <1> HIDE DEF A, L
  <1>3. [run EXCEPT ![j].lease = n] \in
          [Jobs -> [state : States, attempts : A, owner : Workers \cup {NoWorker},
                    lease : L, due : BOOLEAN]]
    BY <1>1, <1>2
  <1> QED
    BY <1>3 DEF A, L, RunRecord

LEMMA ScheduleRetryType ==
    ASSUME TypeOK, NEW j \in Jobs, NEW b \in BOOLEAN
    PROVE  /\ ScheduleRetry(j, b) \in RunRecord
           /\ ScheduleRetry(j, b).state = "retry_scheduled"
           /\ ScheduleRetry(j, b).due = b
           /\ ScheduleRetry(j, b).owner = NoWorker
           /\ ScheduleRetry(j, b).lease = 0
           /\ ScheduleRetry(j, b).attempts = run[j].attempts
  <1>1. Unleased("retry_scheduled", run[j].attempts) \in RunRecord
    BY UnleasedType, RunFields DEF States
  <1> QED
    BY <1>1 DEF ScheduleRetry, Unleased, RunRecord

\* Steps of one run that no worker takes.
LEMMA JobStepType ==
    ASSUME TypeOK, NEW j \in Jobs, JobStep(j)
    PROVE  TypeOK'
  <1>1. CASE Submit(j)
    BY <1>1, StageIntoType, IntentForType DEF Submit, TypeOK
  <1>2. CASE RowStep(j)
    <2> PICK i \in 1 .. Len(outbox[j]) :
               \/ Enqueue(j, i)
               \/ EnqueueRaises(j, i)
               \/ MarkDispatched(j, i)
               \/ DispatcherCrash(j, i)
               \/ BackoffElapses(j, i)
      BY <1>2 DEF RowStep
    <2>1. \E s \in {"pending", "sent", "dispatched"},
             w \in {"now", "retry", "backoff"} : outbox' = SetRow(j, i, s, w)
      BY DEF Enqueue, EnqueueRaises, MarkDispatched, DispatcherCrash, BackoffElapses
    <2>2. outbox' \in [Jobs -> Seq(Row)]
      BY <2>1, SetRowType DEF TypeOK
    <2>3. redis' \in [Jobs -> Nat]
      BY RunFields DEF Enqueue, EnqueueRaises, MarkDispatched, DispatcherCrash,
                       BackoffElapses, TypeOK
    <2> QED
      BY <2>2, <2>3 DEF Enqueue, EnqueueRaises, MarkDispatched, DispatcherCrash,
                        BackoffElapses, TypeOK
  <1>3. CASE RetryDue(j)
    <2> DEFINE new == [i \in DOMAIN outbox[j] |->
                         IF outbox[j][i] = Intent("retry")
                           THEN Intent("now") ELSE outbox[j][i]]
    <2>1. /\ Len(outbox[j]) \in Nat
          /\ outbox[j] \in [1 .. Len(outbox[j]) -> Row]
          /\ DOMAIN outbox[j] = 1 .. Len(outbox[j])
      BY RunFields, LenProperties
    <2>2. new \in [1 .. Len(outbox[j]) -> Row]
      BY <2>1 DEF Intent, Row
    <2>3. new \in Seq(Row)
      BY <2>1, <2>2, SeqDef
    <2>4. outbox' \in [Jobs -> Seq(Row)]
      BY <1>3, <2>3 DEF RetryDue, TypeOK
    <2>5. run' \in [Jobs -> RunRecord]
      BY <1>3, RunFields DEF RetryDue, TypeOK, RunRecord
    <2> QED
      BY <1>3, <2>4, <2>5 DEF RetryDue, TypeOK
  <1>4. CASE LeaseTick(j)
    <2>1. run' \in [Jobs -> RunRecord]
      <3>1. run[j].lease - 1 \in 0 .. LeaseTicks
        BY <1>4, RunFields, ConstantsAssumption DEF LeaseTick
      <3> QED
        BY <1>4, <3>1, LeaseType DEF LeaseTick
    <2> QED
      BY <1>4, <2>1 DEF LeaseTick, TypeOK
  <1>5. CASE RecoverExpired(j)
    <2>1. Unleased("failed", run[j].attempts) \in RunRecord
      BY UnleasedType, RunFields DEF States
    <2>2. run' \in [Jobs -> RunRecord]
      BY <1>5, <2>1, ScheduleRetryType DEF RecoverExpired, TypeOK
    <2>3. outbox' \in [Jobs -> Seq(Row)]
      <3>1. outbox' = outbox \/ outbox' = AddIntent(j, "now")
        BY <1>5 DEF RecoverExpired
      <3>2. outbox \in [Jobs -> Seq(Row)]
        BY DEF TypeOK
      <3> QED
        BY <3>1, <3>2, AddIntentType
    <2>4. events' \subseteq Jobs \X Outcomes
      BY <1>5, EventType DEF RecoverExpired, TypeOK, Outcomes, Terminal
    <2> QED
      BY <1>5, <2>2, <2>3, <2>4 DEF RecoverExpired, TypeOK, WorkersOn
  <1>6. CASE ResumeAccepted(j)
    <2>1. run' \in [Jobs -> RunRecord]
      BY <1>6, RunFields DEF ResumeAccepted, TypeOK, RunRecord, States
    <2>2. outbox' \in [Jobs -> Seq(Row)]
      BY <1>6, AddIntentType DEF ResumeAccepted, TypeOK
    <2> QED
      BY <1>6, <2>1, <2>2 DEF ResumeAccepted, TypeOK
  <1>7. CASE \E k \in Jobs : ManualRetry(j, k)
    <2> PICK k \in Jobs : ManualRetry(j, k)
      BY <1>7
    <2>1. run' = StageInto(run, k) /\ outbox' = IntentFor(k)
      BY DEF ManualRetry
    <2>2. run' \in [Jobs -> RunRecord] /\ outbox' \in [Jobs -> Seq(Row)]
      BY <2>1, StageIntoType, IntentForType DEF TypeOK
    <2> QED
      BY <2>2 DEF ManualRetry, TypeOK
  <1> QED
    BY <1>1, <1>2, <1>3, <1>4, <1>5, <1>6, <1>7 DEF JobStep

\* Steps that end a worker's delivery.
LEMMA FinishType ==
    ASSUME TypeOK, NEW w \in Workers, Finish(w)
    PROVE  TypeOK'
  <1> DEFINE j == worker[w].job
  <1>0. Busy(w) /\ Release(w)
    BY DEF Finish, StageSuccess, StageFailure, Suspend, DiscardStale, WorkerCrash
  <1>j. j \in Jobs
    BY <1>0, BusyJob
  <1>1. CASE \E c \in Jobs \cup {NoJob} : StageSuccess(w, c)
    <2> PICK c \in Jobs \cup {NoJob} : StageSuccess(w, c)
      BY <1>1
    <2>1. StageInto(run, c) \in [Jobs -> RunRecord]
      BY StageIntoType DEF TypeOK
    <2>2. Unleased("succeeded", StageInto(run, c)[j].attempts) \in RunRecord
      BY <1>j, <2>1, UnleasedType DEF States, RunRecord
    <2>3. run' \in [Jobs -> RunRecord]
      BY <1>j, <2>1, <2>2 DEF StageSuccess
    <2>4. outbox' \in [Jobs -> Seq(Row)]
      BY IntentForType DEF StageSuccess, TypeOK
    <2>5. events' \subseteq Jobs \X Outcomes
      BY <1>j, EventType DEF StageSuccess, TypeOK, Outcomes, Terminal
    <2> QED
      BY <1>0, <2>3, <2>4, <2>5, ReleaseType DEF StageSuccess, TypeOK
  <1>2. CASE \E retryable \in BOOLEAN : StageFailure(w, retryable)
    <2>1. Unleased("failed", run[j].attempts) \in RunRecord
      BY <1>j, UnleasedType, RunFields DEF States
    <2>2. run' \in [Jobs -> RunRecord]
      BY <1>2, <1>j, <2>1, ScheduleRetryType DEF StageFailure, TypeOK
    <2>3. outbox' \in [Jobs -> Seq(Row)]
      <3>1. outbox' = outbox \/ outbox' = AddIntent(j, "retry")
        BY <1>2 DEF StageFailure
      <3>2. outbox \in [Jobs -> Seq(Row)]
        BY DEF TypeOK
      <3> QED
        BY <1>j, <3>1, <3>2, AddIntentType
    <2>4. events' \subseteq Jobs \X Outcomes
      BY <1>2, <1>j, EventType DEF StageFailure, TypeOK, Outcomes, Terminal
    <2> QED
      BY <1>0, <1>2, <2>2, <2>3, <2>4, ReleaseType DEF StageFailure, TypeOK
  <1>3. CASE Suspend(w)
    <2>1. (IF run[j].attempts = 0 THEN 0 ELSE run[j].attempts - 1) \in 0 .. MaxAttempts
      BY <1>j, RunFields, ConstantsAssumption
    <2>2. run' \in [Jobs -> RunRecord]
      BY <1>3, <1>j, <2>1, UnleasedType DEF Suspend, TypeOK, States
    <2> QED
      BY <1>0, <1>3, <2>2, ReleaseType DEF Suspend, TypeOK
  <1>4. CASE DiscardStale(w) \/ WorkerCrash(w)
    BY <1>0, <1>4, ReleaseType DEF DiscardStale, WorkerCrash, TypeOK
  <1> QED
    BY <1>1, <1>2, <1>3, <1>4 DEF Finish

\* Steps of a worker.
LEMMA WorkerStepType ==
    ASSUME TypeOK, NEW w \in Workers, WorkerStep(w)
    PROVE  TypeOK'
  <1>1. CASE \E j \in Jobs : Pop(w, j)
    <2> PICK j \in Jobs : Pop(w, j)
      BY <1>1
    <2>1. redis' \in [Jobs -> Nat]
      BY RunFields DEF Pop, TypeOK
    <2>2. /\ worker' \in [Workers -> Slot]
          /\ \A v \in Workers : worker'[v].pc # "idle" => worker'[v].job \in Jobs
      BY SlotType DEF Pop, TypeOK
    <2> QED
      BY <2>1, <2>2 DEF Pop, TypeOK
  <1>2. CASE Acquire(w)
    <2> DEFINE j == worker[w].job
    <2>1. j \in Jobs
      BY <1>2, BusyJob DEF Acquire
    <2>2. run[j].attempts + 1 \in 0 .. MaxAttempts
      BY <1>2, <2>1, RunFields, ConstantsAssumption DEF Acquire, Eligible
    <2>3. run' \in [Jobs -> RunRecord]
      BY <1>2, <2>1, <2>2, ConstantsAssumption
         DEF Acquire, TypeOK, RunRecord, States
    <2>4. /\ worker' \in [Workers -> Slot]
          /\ \A v \in Workers : worker'[v].pc # "idle" => worker'[v].job \in Jobs
      BY <1>2 DEF Acquire, TypeOK, Slot
    <2> QED
      BY <1>2, <2>3, <2>4 DEF Acquire, TypeOK, WorkersOn
  <1>3. CASE IgnoreDelivery(w)
    BY <1>3, SlotType DEF IgnoreDelivery, TypeOK, IdleSlot
  <1>4. CASE LoseDelivery(w)
    BY <1>4, SlotType, BusyJob DEF LoseDelivery, TypeOK, IdleSlot
  <1>5. CASE Heartbeat(w)
    <2>1. worker[w].job \in Jobs
      BY <1>5, BusyJob DEF Heartbeat
    <2>2. run' \in [Jobs -> RunRecord]
      <3>1. LeaseTicks \in 0 .. LeaseTicks
        BY ConstantsAssumption
      <3> QED
        BY <1>5, <2>1, <3>1, LeaseType DEF Heartbeat
    <2> QED
      BY <1>5, <2>2 DEF Heartbeat, TypeOK
  <1>6. CASE Finish(w)
    BY <1>6, FinishType
  <1> QED
    BY <1>1, <1>2, <1>3, <1>4, <1>5, <1>6 DEF WorkerStep

LEMMA InitType == Init => TypeOK
  <1>1. Unleased("absent", 0) \in RunRecord
    BY UnleasedType, ConstantsAssumption DEF States
  <1>2. <<>> \in Seq(Row)
    BY EmptySeq
  <1> QED
    BY <1>1, <1>2, SlotType DEF Init, TypeOK, IdleSlot

LEMMA NextType == TypeOK /\ [Next]_vars => TypeOK'
  <1> SUFFICES ASSUME TypeOK, [Next]_vars PROVE TypeOK'
    OBVIOUS
  <1>1. CASE \E j \in Jobs : JobStep(j)
    BY <1>1, JobStepType
  <1>2. CASE \E w \in Workers : WorkerStep(w)
    BY <1>2, WorkerStepType
  <1>3. CASE \E p \in Jobs \cup {NoJob} : MovePointer(p)
    BY <1>3 DEF MovePointer, TypeOK
  <1>4. CASE UNCHANGED vars
    BY <1>4 DEF vars, TypeOK
  <1> QED
    BY <1>1, <1>2, <1>3, <1>4 DEF Next

\* Type correctness: the tables, the list and the slots keep their types for
\* every number of runs and workers; in particular no run is ever charged more
\* than max_attempts executions.
THEOREM TypeCorrect == Spec => []TypeOK
  BY InitType, NextType, PTL DEF Spec

-----------------------------------------------------------------------------
(* The inductive invariant of the job_runs table and of the fence.          *)

\* What every row of job_runs satisfies on its own.
RowOK(r) ==
    /\ (r.owner # NoWorker) <=> (r.state = "running")
    /\ r.lease > 0 => r.state = "running"
    /\ r.state = "running" => r.attempts > 0
    /\ r.state = "absent" => r.attempts = 0
    /\ r.state \in {"queued", "retry_scheduled", "waiting_acceptance"}
         => r.attempts < MaxAttempts

RowsOK == \A j \in Jobs : RowOK(run[j])

\* A superseded task still runs, but its run no longer names it.
FenceInv ==
    \A w \in superseded : Busy(w) /\ run[worker[w].job].owner # w

\* A lease names an executor exactly while the run is running, and a run that
\* is running has been charged at least one attempt.
LeaseMatchesState ==
    \A j \in Jobs :
        /\ (run[j].owner # NoWorker) <=> (run[j].state = "running")
        /\ run[j].lease > 0 => run[j].state = "running"
        /\ run[j].state = "running" => run[j].attempts > 0

LEMMA RowsOKMeaning == RowsOK => LeaseMatchesState /\ WaitingRunHasBudget
  BY DEF RowsOK, RowOK, LeaseMatchesState, WaitingRunHasBudget

LEMMA FenceMeaning == FenceInv => FencedOut
  BY DEF FenceInv, FencedOut, Owned

LEMMA UnleasedOK ==
    ASSUME NEW s \in States, NEW n \in 0 .. MaxAttempts,
           s # "running", s = "absent" => n = 0,
           s \in {"queued", "retry_scheduled", "waiting_acceptance"} => n < MaxAttempts
    PROVE  RowOK(Unleased(s, n)) /\ Unleased(s, n).owner = NoWorker
  BY DEF RowOK, Unleased

LEMMA StageIntoOK ==
    ASSUME TypeOK, RowsOK, NEW c \in Jobs \cup {NoJob}
    PROVE  \A k \in Jobs :
             /\ RowOK(StageInto(run, c)[k])
             /\ StageInto(run, c)[k] = run[k] \/ StageInto(run, c)[k].owner = NoWorker
  <1>1. RowOK(Unleased("queued", 0)) /\ Unleased("queued", 0).owner = NoWorker
    BY UnleasedOK, ConstantsAssumption DEF States
  <1>2. \A k \in Jobs :
           \/ StageInto(run, c)[k] = run[k]
           \/ StageInto(run, c)[k] = Unleased("queued", 0)
    <2>1. run \in [Jobs -> RunRecord]
      BY DEF TypeOK
    <2> QED
      BY <2>1, StageIntoType
  <1> QED
    BY <1>1, <1>2 DEF RowsOK

LEMMA ScheduleRetryOK ==
    ASSUME TypeOK, NEW j \in Jobs, NEW b \in BOOLEAN, MayRetry(j)
    PROVE  RowOK(ScheduleRetry(j, b))
  BY ScheduleRetryType DEF RowOK, MayRetry

\* Who may change a row, and into what: every step leaves a row alone, ends
\* its lease, or leases it to one task that had just popped its delivery.
LEMMA RowStepShape ==
    ASSUME TypeOK, RowsOK, [Next]_vars, NEW k \in Jobs
    PROVE  /\ RowOK(run'[k])
           /\ \/ run'[k].owner = run[k].owner
              \/ run'[k].owner = NoWorker
              \/ \E w \in Workers : Acquire(w) /\ worker[w].job = k /\ run'[k].owner = w
  <1>0. RowOK(run[k])
    BY DEF RowsOK
  <1>1. CASE \E j \in Jobs : JobStep(j)
    <2> PICK j \in Jobs : JobStep(j)
      BY <1>1
    <2>1. CASE Submit(j)
      <3>1. run' = StageInto(run, j)
        BY <2>1 DEF Submit
      <3> QED
        BY <3>1, StageIntoOK
    <2>2. CASE RowStep(j)
      <3>1. run' = run
        BY <2>2 DEF RowStep, Enqueue, EnqueueRaises, MarkDispatched,
                    DispatcherCrash, BackoffElapses
      <3> QED
        BY <1>0, <3>1
    <2>3. CASE RetryDue(j)
      BY <1>0, <2>3 DEF RetryDue, RowOK, TypeOK, RunRecord
    <2>4. CASE LeaseTick(j)
      <3>1. k # j => run'[k] = run[k]
        BY <2>4 DEF LeaseTick, TypeOK
      <3>2. k = j => run'[k] = [run[k] EXCEPT !.lease = run[k].lease - 1]
        BY <2>4 DEF LeaseTick, TypeOK
      <3>3. k = j => run[k].state = "running"
        BY <2>4 DEF LeaseTick
      <3> QED
        BY <1>0, <3>1, <3>2, <3>3, RunFields DEF RowOK, RunRecord
    <2>5. CASE RecoverExpired(j)
      <3>1. RowOK(Unleased("failed", run[j].attempts))
            /\ Unleased("failed", run[j].attempts).owner = NoWorker
        BY UnleasedOK, RunFields DEF States
      <3>2. /\ MayRetry(j) => RowOK(ScheduleRetry(j, TRUE))
            /\ ScheduleRetry(j, TRUE).owner = NoWorker
        BY ScheduleRetryOK, ScheduleRetryType
      <3> QED
        BY <1>0, <2>5, <3>1, <3>2 DEF RecoverExpired, TypeOK
    <2>6. CASE ResumeAccepted(j)
      BY <1>0, <2>6 DEF ResumeAccepted, RowOK, TypeOK, RunRecord
    <2>7. CASE \E n \in Jobs : ManualRetry(j, n)
      <3> PICK n \in Jobs : ManualRetry(j, n)
        BY <2>7
      <3>1. run' = StageInto(run, n)
        BY DEF ManualRetry
      <3> QED
        BY <3>1, StageIntoOK
    <2> QED
      BY <2>1, <2>2, <2>3, <2>4, <2>5, <2>6, <2>7 DEF JobStep
  <1>2. CASE \E w \in Workers : WorkerStep(w)
    <2> PICK w \in Workers : WorkerStep(w)
      BY <1>2
    <2> DEFINE j == worker[w].job
    <2>1. CASE \E i \in Jobs : Pop(w, i)
      BY <1>0, <2>1 DEF Pop
    <2>2. CASE Acquire(w)
      <3>1. j \in Jobs
        BY <2>2, BusyJob DEF Acquire
      <3>2. k # j => run'[k] = run[k]
        BY <2>2, <3>1 DEF Acquire, TypeOK
      <3>3. k = j => run'[k] = [state |-> "running", attempts |-> run[k].attempts + 1,
                                owner |-> w, lease |-> LeaseTicks, due |-> TRUE]
        BY <2>2, <3>1 DEF Acquire, TypeOK
      <3>4. w # NoWorker
        BY ConstantsAssumption
      <3> QED
        BY <1>0, <2>2, <3>2, <3>3, <3>4, RunFields DEF RowOK
    <2>3. CASE IgnoreDelivery(w) \/ LoseDelivery(w)
      BY <1>0, <2>3 DEF IgnoreDelivery, LoseDelivery
    <2>4. CASE Heartbeat(w)
      <3>1. j \in Jobs
        BY <2>4, BusyJob DEF Heartbeat
      <3>2. k # j => run'[k] = run[k]
        BY <2>4, <3>1 DEF Heartbeat, TypeOK
      <3>3. k = j => run'[k] = [run[k] EXCEPT !.lease = LeaseTicks]
        BY <2>4, <3>1 DEF Heartbeat, TypeOK
      <3>4. run[j].state = "running"
        BY <2>4 DEF Heartbeat, Owned
      <3> QED
        BY <1>0, <3>2, <3>3, <3>4, RunFields DEF RowOK, RunRecord
    <2>5. CASE Finish(w)
      <3>0. j \in Jobs
        BY <2>5, BusyJob DEF Finish, StageSuccess, StageFailure, Suspend,
                             DiscardStale, WorkerCrash
      <3>1. CASE \E c \in Jobs \cup {NoJob} : StageSuccess(w, c)
        <4> PICK c \in Jobs \cup {NoJob} : StageSuccess(w, c)
          BY <3>1
        <4>1. /\ StageInto(run, c) \in [Jobs -> RunRecord]
              /\ RowOK(StageInto(run, c)[k])
              /\ StageInto(run, c)[k] = run[k] \/ StageInto(run, c)[k].owner = NoWorker
          BY StageIntoType, StageIntoOK DEF TypeOK
        <4>2. StageInto(run, c)[j].attempts \in 0 .. MaxAttempts
          BY <3>0, <4>1 DEF RunRecord
        <4>3. /\ RowOK(Unleased("succeeded", StageInto(run, c)[j].attempts))
              /\ Unleased("succeeded", StageInto(run, c)[j].attempts).owner = NoWorker
          BY <4>2, UnleasedOK DEF States
        <4> QED
          BY <3>0, <4>1, <4>3 DEF StageSuccess
      <3>2. CASE \E retryable \in BOOLEAN : StageFailure(w, retryable)
        <4>1. RowOK(Unleased("failed", run[j].attempts))
              /\ Unleased("failed", run[j].attempts).owner = NoWorker
          BY <3>0, UnleasedOK, RunFields DEF States
        <4>2. /\ MayRetry(j) => RowOK(ScheduleRetry(j, FALSE))
              /\ ScheduleRetry(j, FALSE).owner = NoWorker
          BY <3>0, ScheduleRetryOK, ScheduleRetryType
        <4> QED
          BY <1>0, <3>0, <3>2, <4>1, <4>2 DEF StageFailure, TypeOK
      <3>3. CASE Suspend(w)
        <4> DEFINE n == IF run[j].attempts = 0 THEN 0 ELSE run[j].attempts - 1
        <4>1. n \in 0 .. MaxAttempts /\ n < MaxAttempts
          BY <3>0, RunFields, ConstantsAssumption
        <4>2. /\ RowOK(Unleased("waiting_acceptance", n))
              /\ Unleased("waiting_acceptance", n).owner = NoWorker
          BY <4>1, UnleasedOK DEF States
        <4> QED
          BY <1>0, <3>0, <3>3, <4>2 DEF Suspend, TypeOK
      <3>4. CASE DiscardStale(w) \/ WorkerCrash(w)
        BY <1>0, <3>4 DEF DiscardStale, WorkerCrash
      <3> QED
        BY <2>5, <3>1, <3>2, <3>3, <3>4 DEF Finish
    <2> QED
      BY <2>1, <2>2, <2>3, <2>4, <2>5 DEF WorkerStep
  <1>3. CASE \E p \in Jobs \cup {NoJob} : MovePointer(p)
    BY <1>0, <1>3 DEF MovePointer
  <1>4. CASE UNCHANGED vars
    BY <1>0, <1>4 DEF vars
  <1> QED
    BY <1>1, <1>2, <1>3, <1>4 DEF Next

\* What a step does to the slots: a task that goes on stays where it was, a
\* task that ends leaves the history variable, and only a takeover of its run
\* adds one.
LEMMA SlotStepShape ==
    ASSUME TypeOK, FenceInv, [Next]_vars, NEW v \in superseded'
    PROVE  /\ v \in Workers
           /\ Busy(v)
           /\ worker'[v] = worker[v]
           /\ \/ v \in superseded
              \/ \E w \in Workers : Acquire(w) /\ worker[w].job = worker[v].job
              \/ RecoverExpired(worker[v].job)
  <1>0. superseded \subseteq Workers
    BY DEF TypeOK
  <1>1. CASE UNCHANGED <<worker, superseded>>
    BY <1>0, <1>1 DEF FenceInv
  <1>2. CASE \E j \in Jobs : RecoverExpired(j)
    BY <1>0, <1>2 DEF RecoverExpired, WorkersOn, Busy, FenceInv
  <1>3. CASE \E w \in Workers : \E j \in Jobs : Pop(w, j)
    BY <1>0, <1>3 DEF Pop, Busy, FenceInv, TypeOK
  <1>4. CASE \E w \in Workers : Acquire(w)
    BY <1>0, <1>4 DEF Acquire, WorkersOn, Busy, FenceInv, TypeOK
  <1>5. CASE \E w \in Workers : IgnoreDelivery(w) \/ LoseDelivery(w)
    BY <1>0, <1>5 DEF IgnoreDelivery, LoseDelivery, Busy, FenceInv, TypeOK
  <1>6. CASE \E w \in Workers : Finish(w)
    <2> PICK w \in Workers : Finish(w)
      BY <1>6
    <2>1. Release(w)
      BY DEF Finish, StageSuccess, StageFailure, Suspend, DiscardStale, WorkerCrash
    <2> QED
      BY <1>0, <2>1 DEF Release, Busy, FenceInv, TypeOK
  <1>7. CASE \E j \in Jobs : JobStep(j) /\ ~RecoverExpired(j)
    <2>1. UNCHANGED <<worker, superseded>>
      BY <1>7 DEF JobStep, Submit, RowStep, Enqueue, EnqueueRaises, MarkDispatched,
                  DispatcherCrash, BackoffElapses, RetryDue, LeaseTick,
                  ResumeAccepted, ManualRetry
    <2> QED
      BY <1>1, <2>1
  <1>8. CASE \E w \in Workers : Heartbeat(w)
    BY <1>1, <1>8 DEF Heartbeat
  <1>9. CASE \E p \in Jobs \cup {NoJob} : MovePointer(p)
    BY <1>1, <1>9 DEF MovePointer
  <1>10. CASE UNCHANGED vars
    BY <1>1, <1>10 DEF vars
  <1> QED
    BY <1>2, <1>3, <1>4, <1>5, <1>6, <1>7, <1>8, <1>9, <1>10 DEF Next, WorkerStep

LEMMA FenceStep ==
    ASSUME TypeOK, RowsOK, FenceInv, [Next]_vars
    PROVE  FenceInv'
  <1> SUFFICES ASSUME NEW v \in superseded'
               PROVE  Busy(v)' /\ run'[worker'[v].job].owner # v
    BY DEF FenceInv
  <1> DEFINE k == worker[v].job
  <1>1. /\ v \in Workers
        /\ Busy(v)
        /\ worker'[v] = worker[v]
        /\ \/ v \in superseded
           \/ \E w \in Workers : Acquire(w) /\ worker[w].job = k
           \/ RecoverExpired(k)
    BY SlotStepShape
  <1>2. k \in Jobs
    BY <1>1, BusyJob
  <1>3. v # NoWorker
    BY <1>1, ConstantsAssumption
  <1>4. CASE \E w \in Workers : Acquire(w) /\ worker[w].job = k
    <2> PICK w \in Workers : Acquire(w) /\ worker[w].job = k
      BY <1>4
    <2>1. run'[k].owner = w
      BY <1>2 DEF Acquire, TypeOK
    <2>2. w # v
      BY <1>1 DEF Acquire, Busy
    <2> QED
      BY <1>1, <2>1, <2>2 DEF Busy
  <1>5. CASE RecoverExpired(k)
    <2>1. Unleased("failed", run[k].attempts).owner = NoWorker
      BY DEF Unleased
    <2>2. run'[k].owner = NoWorker
      BY <1>2, <1>5, <2>1, ScheduleRetryType DEF RecoverExpired, TypeOK
    <2> QED
      BY <1>1, <1>3, <2>2 DEF Busy
  <1>6. CASE v \in superseded
    <2>1. run[k].owner # v
      BY <1>6 DEF FenceInv
    <2>2. \/ run'[k].owner = run[k].owner
          \/ run'[k].owner = NoWorker
          \/ \E w \in Workers : Acquire(w) /\ worker[w].job = k /\ run'[k].owner = w
      BY <1>2, RowStepShape
    <2>3. \A w \in Workers : Acquire(w) => w # v
      BY <1>1 DEF Acquire, Busy
    <2> QED
      BY <1>1, <1>3, <2>1, <2>2, <2>3 DEF Busy
  <1> QED
    BY <1>1, <1>4, <1>5, <1>6

IInv == TypeOK /\ RowsOK /\ FenceInv

LEMMA InitIInv == Init => IInv
  <1> SUFFICES ASSUME Init PROVE IInv
    OBVIOUS
  <1>1. RowOK(Unleased("absent", 0))
    BY UnleasedOK, ConstantsAssumption DEF States
  <1> QED
    BY <1>1, InitType DEF Init, IInv, RowsOK, FenceInv

LEMMA NextIInv == IInv /\ [Next]_vars => IInv'
  <1> SUFFICES ASSUME IInv, [Next]_vars PROVE IInv'
    OBVIOUS
  <1>1. TypeOK'
    BY NextType DEF IInv
  <1>2. RowsOK'
    BY RowStepShape DEF IInv, RowsOK
  <1>3. FenceInv'
    BY FenceStep DEF IInv
  <1> QED
    BY <1>1, <1>2, <1>3 DEF IInv

\* Fencing: whatever the interleaving of expiry, recovery, duplicate
\* deliveries and late results, a task whose run was taken over never passes
\* the ownership test again.
THEOREM Fencing == Spec => []FencedOut
  <1>1. IInv => FencedOut
    BY FenceMeaning DEF IInv
  <1> QED
    BY <1>1, InitIInv, NextIInv, PTL DEF Spec

\* A lease exists exactly while a run is running, and a run that waits for a
\* delivery always has an attempt left to be leased with.
THEOREM LeasesAndBudgets == Spec => [](LeaseMatchesState /\ WaitingRunHasBudget)
  <1>1. IInv => LeaseMatchesState /\ WaitingRunHasBudget
    BY RowsOKMeaning DEF IInv
  <1> QED
    BY <1>1, InitIInv, NextIInv, PTL DEF Spec

-----------------------------------------------------------------------------
(* The tables implement the promise of the Jobs API.                        *)

\* How each state of a row reads.
LEMMA StatusValues ==
    /\ StatusOf("absent") = "none"
    /\ StatusOf("queued") = "open"
    /\ StatusOf("retry_scheduled") = "open"
    /\ StatusOf("running") = "executing"
    /\ StatusOf("waiting_acceptance") = "parked"
    /\ StatusOf("succeeded") = "succeeded"
    /\ StatusOf("failed") = "failed"
    /\ \A s \in States : StatusOf(s) = "none" => s = "absent"
  BY DEF StatusOf, States

\* Nothing the promise speaks of changes.
LEMMA Unseen ==
    ASSUME TypeOK, events' = events,
           \A k \in Jobs : /\ run'[k].state = run[k].state
                           /\ run'[k].attempts = run[k].attempts
    PROVE  UNCHANGED Promise!vars
  BY DEF Promise!vars, Status, Charged

\* The steps of the promise, one run at a time.
LEMMA PromiseInit == Init => Promise!Init
  BY StatusValues DEF Init, Promise!Init, Status, Charged, Unleased

LEMMA StagedIsAccepted ==
    ASSUME TypeOK, RowsOK, NEW k \in Jobs, run[k].state = "absent",
           k \notin Follow,
           run' = StageInto(run, k), events' = events
    PROVE  Promise!Accept(k)
  <1>1. run' = [run EXCEPT ![k] = Unleased("queued", 0)]
    BY ConstantsAssumption DEF StageInto
  <1>2. /\ Unleased("queued", 0).state = "queued"
        /\ Unleased("queued", 0).attempts = 0
        /\ run[k].attempts = 0
    BY DEF Unleased, RowsOK, RowOK
  <1>3. /\ Status' = [Status EXCEPT ![k] = "open"]
        /\ Status[k] = "none"
    <2>1. StatusOf("queued") = "open" /\ StatusOf(run[k].state) = "none"
      BY StatusValues
    <2>2. run \in [Jobs -> RunRecord]
      BY DEF TypeOK
    <2> QED
      BY <1>1, <1>2, <2>1, <2>2 DEF Status
  <1>4. Charged' = Charged
    BY <1>1, <1>2 DEF TypeOK, Charged
  <1>5. \A i \in Jobs : ChildOf[i] # k
    BY ConstantsAssumption DEF Follow
  <1> QED
    BY <1>3, <1>4, <1>5 DEF Promise!Accept

\* A retry, scheduled by the task or by recovery, gives the execution up.
LEMMA RetryGivesUp ==
    ASSUME TypeOK, NEW j \in Jobs, NEW b \in BOOLEAN, MayRetry(j),
           run[j].state = "running",
           run' = [run EXCEPT ![j] = ScheduleRetry(j, b)], events' = events
    PROVE  Promise!GiveUpExecution(j)
  <1>1. /\ Status' = [Status EXCEPT ![j] = "open"]
        /\ Charged' = [Charged EXCEPT ![j] = run[j].attempts]
        /\ Status[j] = "executing" /\ Charged[j] = run[j].attempts
    BY ScheduleRetryType, StatusValues DEF TypeOK, Status, Charged
  <1> QED
    BY <1>1 DEF Promise!GiveUpExecution, Charged, MayRetry

LEMMA FailureFails ==
    ASSUME TypeOK, NEW j \in Jobs, run[j].state = "running",
           run' = [run EXCEPT ![j] = Unleased("failed", @.attempts)],
           events' = events \cup EventFor(j, "failed")
    PROVE  Promise!Fail(j)
  <1>1. run' = [run EXCEPT ![j] = Unleased("failed", run[j].attempts)]
    BY DEF TypeOK
  <1>2. /\ Unleased("failed", run[j].attempts).state = "failed"
        /\ Unleased("failed", run[j].attempts).attempts = run[j].attempts
    BY DEF Unleased
  <1>3. /\ Status' = [Status EXCEPT ![j] = "failed"]
        /\ Charged' = [Charged EXCEPT ![j] = run[j].attempts]
        /\ Status[j] = "executing" /\ Charged[j] = run[j].attempts
    BY <1>1, <1>2, StatusValues DEF TypeOK, Status, Charged
  <1> QED
    BY <1>3 DEF Promise!Fail, Promise!Tell, EventFor, Charged

LEMMA SuccessSucceeds ==
    ASSUME TypeOK, RowsOK, NEW w \in Workers, NEW c \in Jobs \cup {NoJob},
           StageSuccess(w, c)
    PROVE  \E follow \in SUBSET {ChildOf[worker[w].job]} :
             Promise!Succeed(worker[w].job, follow)
  <1> DEFINE j == worker[w].job
             follow == {k \in {c} \ {NoJob} : run[k].state = "absent"}
             row(k) == IF k = j THEN Unleased("succeeded", run[j].attempts)
                       ELSE IF k \in follow THEN Unleased("queued", 0)
                       ELSE run[k]
  <1>1. j \in Jobs /\ run[j].state = "running"
    BY BusyJob DEF StageSuccess, Owned
  <1>2. c \in {NoJob, ChildOf[j]} /\ ChildOf[j] \in Jobs \cup {NoJob}
    BY <1>1, ConstantsAssumption DEF StageSuccess
  <1>3. \A k \in Jobs : run'[k] = row(k)
    <2>1. \A k \in Jobs :
            StageInto(run, c)[k] = IF k \in follow THEN Unleased("queued", 0)
                                   ELSE run[k]
      BY <1>2, ConstantsAssumption DEF StageInto, TypeOK
    <2>2. StageInto(run, c) \in [Jobs -> RunRecord]
      BY StageIntoType DEF TypeOK
    <2>3. j \notin follow
      BY <1>1
    <2> QED
      BY <1>1, <2>1, <2>2, <2>3 DEF StageSuccess
  <1>4. follow \subseteq {k \in {ChildOf[j]} \ {NoJob} : Status[k] = "none"}
    BY <1>2, StatusValues DEF Status
  <1>5. Status' = [k \in Jobs |-> IF k = j THEN "succeeded"
                                  ELSE IF k \in follow THEN "open"
                                  ELSE Status[k]]
    BY <1>3, StatusValues DEF Status, Unleased
  <1>6. Charged' = Charged
    BY <1>1, <1>2, <1>3 DEF Charged, Unleased, RowsOK, RowOK
  <1>7. Status[j] = "executing"
    BY <1>1, StatusValues DEF Status
  <1>8. events' = events \cup EventFor(j, "succeeded")
    BY DEF StageSuccess
  <1> QED
    <2>1. follow \in SUBSET {ChildOf[j]}
      BY <1>4
    <2>2. Promise!Succeed(j, follow)
      BY <1>4, <1>5, <1>6, <1>7, <1>8 DEF Promise!Succeed, Promise!Tell, EventFor
    <2> QED
      BY <2>1, <2>2

\* The steps of a worker, seen through the mapping.
LEMMA AcquireStarts ==
    ASSUME TypeOK, NEW w \in Workers, Acquire(w)
    PROVE  Promise!Start(worker[w].job)
  <1> DEFINE j == worker[w].job
  <1>1. j \in Jobs
    BY BusyJob DEF Acquire
  <1>2. /\ run' = [run EXCEPT ![j] =
                     [state |-> "running", attempts |-> run[j].attempts + 1,
                      owner |-> w, lease |-> LeaseTicks, due |-> TRUE]]
        /\ run[j].state \in {"queued", "retry_scheduled", "running"}
        /\ run[j].attempts < MaxAttempts
        /\ events' = events
    BY <1>1 DEF Acquire, Eligible, TypeOK
  <1>3. /\ Status' = [Status EXCEPT ![j] = "executing"]
        /\ Charged' = [Charged EXCEPT ![j] = Charged[j] + 1]
        /\ Status[j] \in {"open", "executing"}
        /\ Charged[j] < MaxAttempts
    BY <1>1, <1>2, StatusValues DEF TypeOK, Status, Charged
  <1> QED
    BY <1>2, <1>3 DEF Promise!Start, Promise!Open

LEMMA SuspendParks ==
    ASSUME TypeOK, RowsOK, NEW w \in Workers, Suspend(w)
    PROVE  Promise!Park(worker[w].job)
  <1> DEFINE j == worker[w].job
             n == IF run[j].attempts = 0 THEN 0 ELSE run[j].attempts - 1
  <1>1. j \in Jobs /\ run[j].state = "running"
    BY BusyJob DEF Suspend, Owned
  <1>2. n = run[j].attempts - 1
    BY <1>1, RunFields DEF RowsOK, RowOK
  <1>3. /\ run' = [run EXCEPT ![j] = Unleased("waiting_acceptance", n)]
        /\ events' = events /\ j \in Destructive
    BY <1>1 DEF Suspend, TypeOK
  <1>4. /\ Status' = [Status EXCEPT ![j] = "parked"]
        /\ Charged' = [Charged EXCEPT ![j] = Charged[j] - 1]
        /\ Status[j] = "executing"
    BY <1>1, <1>2, <1>3, StatusValues DEF TypeOK, Status, Charged, Unleased
  <1> QED
    BY <1>3, <1>4 DEF Promise!Park

LEMMA ResumeUnparks ==
    ASSUME TypeOK, NEW j \in Jobs, ResumeAccepted(j)
    PROVE  Promise!Unpark(j)
  <1>1. \A k \in Jobs :
          /\ run'[k].attempts = run[k].attempts
          /\ run'[k].state = IF k = j THEN "queued" ELSE run[k].state
    BY DEF ResumeAccepted, TypeOK, RunRecord
  <1>2. Status' = [Status EXCEPT ![j] = "open"]
    <2>1. \A k \in Jobs : StatusOf(run'[k].state)
                          = IF k = j THEN "open" ELSE StatusOf(run[k].state)
      BY <1>1, StatusValues
    <2> QED
      BY <2>1 DEF Status
  <1>3. Charged' = Charged
    BY <1>1 DEF Charged
  <1>4. Status[j] = "parked"
    BY StatusValues DEF ResumeAccepted, Status
  <1> QED
    BY <1>2, <1>3, <1>4 DEF ResumeAccepted, Promise!Unpark

\* The steps of one run that no worker takes.
LEMMA JobStepImplements ==
    ASSUME IInv, NEW j \in Jobs, JobStep(j)
    PROVE  [Promise!Next]_(Promise!vars)
  <1> USE DEF IInv
  <1>1. CASE Submit(j)
    BY <1>1, StagedIsAccepted, ConstantsAssumption DEF Submit, Promise!Next
  <1>2. CASE RowStep(j)
    <2>1. run' = run /\ events' = events
      BY <1>2 DEF RowStep, Enqueue, EnqueueRaises, MarkDispatched,
                  DispatcherCrash, BackoffElapses
    <2> QED
      BY <2>1, Unseen
  <1>3. CASE RetryDue(j)
    <2>1. /\ events' = events
          /\ \A k \in Jobs : /\ run'[k].state = run[k].state
                             /\ run'[k].attempts = run[k].attempts
      BY <1>3 DEF RetryDue, TypeOK
    <2> QED
      BY <2>1, Unseen
  <1>4. CASE LeaseTick(j)
    <2>1. /\ events' = events
          /\ \A k \in Jobs : /\ run'[k].state = run[k].state
                             /\ run'[k].attempts = run[k].attempts
      BY <1>4 DEF LeaseTick, TypeOK
    <2> QED
      BY <2>1, Unseen
  <1>5. CASE RecoverExpired(j)
    BY <1>5, RetryGivesUp, FailureFails DEF RecoverExpired, Promise!Next
  <1>6. CASE ResumeAccepted(j)
    BY <1>6, ResumeUnparks DEF Promise!Next
  <1>7. CASE \E k \in Jobs : ManualRetry(j, k)
    BY <1>7, StagedIsAccepted DEF ManualRetry, RetryKeys, Promise!Next
  <1> QED
    BY <1>1, <1>2, <1>3, <1>4, <1>5, <1>6, <1>7 DEF JobStep

LEMMA WorkerStepImplements ==
    ASSUME IInv, NEW w \in Workers, WorkerStep(w)
    PROVE  [Promise!Next]_(Promise!vars)
  <1> USE DEF IInv
  <1>1. CASE \/ \E j \in Jobs : Pop(w, j)
             \/ IgnoreDelivery(w)
             \/ LoseDelivery(w)
             \/ DiscardStale(w)
             \/ WorkerCrash(w)
    <2>1. run' = run /\ events' = events
      BY <1>1 DEF Pop, IgnoreDelivery, LoseDelivery, DiscardStale, WorkerCrash
    <2> QED
      BY <2>1, Unseen
  <1>2. CASE Acquire(w)
    BY <1>2, AcquireStarts, BusyJob DEF Acquire, Promise!Next
  <1>3. CASE Heartbeat(w)
    <2>1. /\ events' = events
          /\ \A k \in Jobs : /\ run'[k].state = run[k].state
                             /\ run'[k].attempts = run[k].attempts
      BY <1>3 DEF Heartbeat, TypeOK
    <2> QED
      BY <2>1, Unseen
  <1>4. CASE \E c \in Jobs \cup {NoJob} : StageSuccess(w, c)
    <2>1. worker[w].job \in Jobs
      BY <1>4, BusyJob DEF StageSuccess
    <2> QED
      BY <1>4, <2>1, SuccessSucceeds DEF Promise!Next
  <1>5. CASE \E retryable \in BOOLEAN : StageFailure(w, retryable)
    <2>1. worker[w].job \in Jobs /\ run[worker[w].job].state = "running"
      BY <1>5, BusyJob DEF StageFailure, Owned
    <2> QED
      BY <1>5, <2>1, RetryGivesUp, FailureFails DEF StageFailure, Promise!Next
  <1>6. CASE Suspend(w)
    BY <1>6, SuspendParks, BusyJob DEF Suspend, Promise!Next
  <1> QED
    BY <1>1, <1>2, <1>3, <1>4, <1>5, <1>6 DEF WorkerStep, Finish

\* Every step of the tables is a step of the promise or none at all.
LEMMA StepImplements == IInv /\ [Next]_vars => [Promise!Next]_(Promise!vars)
  <1> SUFFICES ASSUME IInv, [Next]_vars PROVE [Promise!Next]_(Promise!vars)
    OBVIOUS
  <1>1. CASE \E j \in Jobs : JobStep(j)
    BY <1>1, JobStepImplements
  <1>2. CASE \E w \in Workers : WorkerStep(w)
    BY <1>2, WorkerStepImplements
  <1>3. CASE (\E p \in Jobs \cup {NoJob} : MovePointer(p)) \/ UNCHANGED vars
    <2>1. run' = run /\ events' = events
      BY <1>3 DEF MovePointer, vars
    <2> QED
      BY <2>1, Unseen DEF IInv
  <1> QED
    BY <1>1, <1>2, <1>3 DEF Next

\* The job tables, the outbox, the Redis list and the leases together
\* implement the promise: at most max_attempts executions are charged, a run
\* ends at most once, and its webhook event and its follow-up run appear in
\* the very step that ends it.
THEOREM ImplementsPromise == Spec => PromiseSpec
  BY StepImplements, InitIInv, NextIInv, PromiseInit, PTL
     DEF Spec, PromiseSpec, Promise!Spec

\* Read through the mapping: a follow-up that exists has a succeeded parent.
ChildInv ==
    \A c \in Follow :
        Status[c] # "none"
            => \E j \in Jobs : ChildOf[j] = c /\ Status[j] = "succeeded"

\* A follow-up run exists only once a run it follows has succeeded.
ChildAfterParent ==
    \A c \in Follow :
        run[c].state # "absent"
            => \E j \in Jobs : ChildOf[j] = c /\ run[j].state = "succeeded"

LEMMA ChildInvMeaning == TypeOK => (ChildInv <=> ChildAfterParent)
  <1> SUFFICES ASSUME TypeOK PROVE ChildInv <=> ChildAfterParent
    OBVIOUS
  <1>1. Follow \subseteq Jobs
    BY ConstantsAssumption DEF Follow
  <1>2. \A j \in Jobs : /\ (Status[j] = "none") <=> (run[j].state = "absent")
                        /\ (Status[j] = "succeeded") <=> (run[j].state = "succeeded")
    <2>1. \A j \in Jobs : run[j].state \in States
      BY RunFields
    <2> QED
      BY <2>1, StatusValues DEF Status, States
  <1> QED
    BY <1>1, <1>2 DEF ChildInv, ChildAfterParent

\* A step of the promise keeps it: only a success accepts a follow-up, and a
\* success is never taken back.
LEMMA ChildInvStep ==
    ASSUME ChildInv, [Promise!Next]_(Promise!vars)
    PROVE  ChildInv'
  <1>0. Follow \subseteq Jobs /\ DOMAIN Status = Jobs
    BY ConstantsAssumption DEF Follow, Status
  <1>1. CASE UNCHANGED Promise!vars
    BY <1>1 DEF Promise!vars, ChildInv
  <1>2. CASE \E j \in Jobs : Promise!Accept(j)
    <2> PICK j \in Jobs : Promise!Accept(j)
      BY <1>2
    <2>1. j \notin Follow /\ Status[j] = "none" /\ Status' = [Status EXCEPT ![j] = "open"]
      BY DEF Promise!Accept, Follow
    <2> QED
      BY <1>0, <2>1 DEF ChildInv
  <1>3. CASE \E j \in Jobs : \E follow \in SUBSET {ChildOf[j]} : Promise!Succeed(j, follow)
    <2> PICK j \in Jobs : \E follow \in SUBSET {ChildOf[j]} : Promise!Succeed(j, follow)
      BY <1>3
    <2> PICK follow \in SUBSET {ChildOf[j]} : Promise!Succeed(j, follow)
      OBVIOUS
    <2>1. /\ Status[j] = "executing"
          /\ \A k \in Jobs : Status'[k] = IF k = j THEN "succeeded"
                                          ELSE IF k \in follow THEN "open"
                                          ELSE Status[k]
          /\ \A k \in follow : Status[k] = "none"
      BY DEF Promise!Succeed
    <2> QED
      BY <1>0, <2>1 DEF ChildInv
  <1>4. CASE \E j \in Jobs : \/ Promise!Start(j)
                             \/ Promise!GiveUpExecution(j)
                             \/ Promise!Park(j)
                             \/ Promise!Unpark(j)
                             \/ Promise!Fail(j)
    <2> PICK j \in Jobs : \/ Promise!Start(j)
                          \/ Promise!GiveUpExecution(j)
                          \/ Promise!Park(j)
                          \/ Promise!Unpark(j)
                          \/ Promise!Fail(j)
      BY <1>4
    <2>1. /\ Status[j] \notin {"none", "succeeded"}
          /\ \E s : Status' = [Status EXCEPT ![j] = s]
      BY DEF Promise!Start, Promise!Open, Promise!GiveUpExecution, Promise!Park,
             Promise!Unpark, Promise!Fail
    <2>2. \A k \in Jobs \ {j} : Status'[k] = Status[k]
      BY <1>0, <2>1
    <2> QED
      BY <1>0, <2>1, <2>2 DEF ChildInv
  <1> QED
    BY <1>1, <1>2, <1>3, <1>4 DEF Promise!Next

\* A follow-up run never exists without a succeeded run it follows: it shares
\* the commit of its parent's success, and a rolled-back commit leaves none.
THEOREM FollowUpAfterSuccess == Spec => []ChildAfterParent
  <1>1. Init => ChildInv
    BY StatusValues, ConstantsAssumption DEF Init, ChildInv, Status, Unleased, Follow
  <1>2. IInv /\ ChildInv /\ [Next]_vars => ChildInv'
    BY StepImplements, ChildInvStep
  <1>3. IInv /\ ChildInv => ChildAfterParent
    BY ChildInvMeaning DEF IInv
  <1> QED
    BY <1>1, <1>2, <1>3, InitIInv, NextIInv, PTL DEF Spec

-----------------------------------------------------------------------------
(* What a step may never do to a row.                                       *)

\* How each step may end a run or bring a lease back to life.
LEMMA RowStepProper ==
    ASSUME TypeOK, [Next]_vars, NEW k \in Jobs
    PROVE  EndedProperly(k) /\ RevivedByAcquisition(k)
  <1> USE DEF EndedProperly, RevivedByAcquisition, Terminal
  <1>r. run \in [Jobs -> RunRecord] /\ worker \in [Workers -> Slot]
    BY DEF TypeOK
  <1>1. CASE run'[k] = run[k]
    BY <1>1
  <1>2. ASSUME NEW c \in Jobs \cup {NoJob}, run' = StageInto(run, c)
        PROVE  EndedProperly(k) /\ RevivedByAcquisition(k)
    <2>1. run'[k] = run[k] \/ run'[k] = Unleased("queued", 0)
      BY <1>r, <1>2, StageIntoType
    <2> QED
      BY <2>1 DEF Unleased
  <1>3. ASSUME NEW j \in Jobs, RecoverExpired(j)
        PROVE  EndedProperly(k) /\ RevivedByAcquisition(k)
    <2>1. k # j => run'[k] = run[k]
      BY <1>3 DEF RecoverExpired, TypeOK
    <2>2. CASE k = j /\ MayRetry(j)
      <3>1. run'[k].state = "retry_scheduled"
        BY <1>3, <2>2, ScheduleRetryType DEF RecoverExpired, TypeOK
      <3> QED
        BY <3>1
    <2>3. CASE k = j /\ ~MayRetry(j)
      <3>1. run[k].lease = 0 /\ run[k].attempts = MaxAttempts
        BY <1>3, <2>3, RunFields, ConstantsAssumption DEF RecoverExpired, MayRetry
      <3>2. run'[k].state = "failed"
        <4>1. Unleased("failed", run[k].attempts).state = "failed"
          BY DEF Unleased
        <4> QED
          BY <1>r, <1>3, <2>3, <4>1 DEF RecoverExpired
      <3> QED
        BY <3>1, <3>2
    <2> QED
      BY <1>1, <2>1, <2>2, <2>3
  <1>4. CASE \E j \in Jobs : JobStep(j)
    <2> PICK j \in Jobs : JobStep(j)
      BY <1>4
    <2>1. CASE Submit(j) \/ \E n \in Jobs : ManualRetry(j, n)
      BY <1>2, <2>1 DEF Submit, ManualRetry
    <2>2. CASE RowStep(j)
      BY <1>1, <2>2 DEF RowStep, Enqueue, EnqueueRaises, MarkDispatched,
                        DispatcherCrash, BackoffElapses
    <2>3. CASE RetryDue(j) \/ ResumeAccepted(j)
      <3>1. run'[k].state \in {run[k].state, "queued"} /\ run'[k].lease = run[k].lease
        <4>1. CASE RetryDue(j)
          BY <1>r, <4>1 DEF RetryDue, RunRecord
        <4>2. CASE ResumeAccepted(j)
          BY <1>r, <4>2 DEF ResumeAccepted, RunRecord
        <4> QED
          BY <2>3, <4>1, <4>2
      <3> QED
        BY <3>1, RunFields
    <2>4. CASE LeaseTick(j)
      <3>1. run'[k].state = run[k].state /\ (run'[k] = run[k] \/ run[k].lease > 0)
        BY <2>4 DEF LeaseTick, TypeOK, RunRecord
      <3> QED
        BY <1>1, <3>1, RunFields
    <2>5. CASE RecoverExpired(j)
      BY <1>3, <2>5
    <2> QED
      BY <2>1, <2>2, <2>3, <2>4, <2>5 DEF JobStep
  <1>5. CASE \E w \in Workers : WorkerStep(w)
    <2> PICK w \in Workers : WorkerStep(w)
      BY <1>5
    <2> DEFINE j == worker[w].job
    <2>1. CASE run' = run
      BY <1>1, <2>1
    <2>2. CASE Acquire(w)
      <3>1. j \in Jobs
        BY <2>2, BusyJob DEF Acquire
      <3>2. k # j => run'[k] = run[k]
        BY <2>2, <3>1 DEF Acquire, TypeOK
      <3>3. k = j => /\ run'[k].state = "running"
                     /\ run'[k].attempts = run[k].attempts + 1
        BY <2>2, <3>1 DEF Acquire, TypeOK
      <3> QED
        BY <1>1, <3>2, <3>3
    <2>3. CASE Heartbeat(w)
      <3>1. j \in Jobs /\ run[j].lease > 0
        BY <2>3, BusyJob DEF Heartbeat, Owned
      <3>2. run'[k].state = run[k].state /\ (run'[k] = run[k] \/ run[k].lease > 0)
        BY <2>3, <3>1 DEF Heartbeat, TypeOK, RunRecord
      <3> QED
        BY <1>1, <3>2, RunFields
    <2>4. CASE \/ \E c \in Jobs \cup {NoJob} : StageSuccess(w, c)
               \/ \E retryable \in BOOLEAN : StageFailure(w, retryable)
               \/ Suspend(w)
      <3>0. Busy(w) /\ Owned(w) /\ Release(w)
        BY <2>4 DEF StageSuccess, StageFailure, Suspend
      <3>1. /\ j \in Jobs /\ run[j].owner = w /\ run[j].lease > 0
            /\ worker'[w].pc = "idle"
        BY <1>r, <3>0, BusyJob DEF Owned, Release, IdleSlot
      <3>2. CASE k = j
        <4>1. run[k].lease # 0
          BY <3>1, <3>2, RunFields
        <4> QED
          BY <3>1, <3>2, <4>1
      <3>3. CASE k # j
        <4>1. CASE \E c \in Jobs \cup {NoJob} : StageSuccess(w, c)
          <5> PICK c \in Jobs \cup {NoJob} : StageSuccess(w, c)
            BY <4>1
          <5>1. run'[k] = StageInto(run, c)[k]
            BY <1>r, <3>1, <3>3, StageIntoType DEF StageSuccess
          <5>2. run'[k] = run[k] \/ run'[k] = Unleased("queued", 0)
            BY <1>r, <5>1, StageIntoType
          <5> QED
            BY <5>2 DEF Unleased
        <4>2. CASE (\E retryable \in BOOLEAN : StageFailure(w, retryable)) \/ Suspend(w)
          BY <1>1, <3>1, <3>3, <4>2 DEF StageFailure, Suspend, TypeOK
        <4> QED
          BY <2>4, <4>1, <4>2
      <3> QED
        BY <3>2, <3>3
    <2> QED
      BY <2>1, <2>2, <2>3, <2>4 DEF WorkerStep, Pop, IgnoreDelivery, LoseDelivery,
                                     Finish, DiscardStale, WorkerCrash
  <1>6. CASE (\E p \in Jobs \cup {NoJob} : MovePointer(p)) \/ UNCHANGED vars
    BY <1>1, <1>6 DEF MovePointer, vars
  <1> QED
    BY <1>4, <1>5, <1>6 DEF Next

\* A run ends by the task that holds its live lease or by recovery once its
\* attempts are used up, and an expired lease never comes back to life by
\* itself.
THEOREM LeaseSteps == Spec => EndedByOwnerOrRecovery /\ NoLeaseRevival
  <1>1. TypeOK /\ [Next]_vars => \A j \in Jobs : EndedProperly(j)
    BY RowStepProper
  <1>2. TypeOK /\ [Next]_vars => \A j \in Jobs : RevivedByAcquisition(j)
    BY RowStepProper
  <1> QED
    BY <1>1, <1>2, InitType, NextType, PTL
       DEF Spec, EndedByOwnerOrRecovery, NoLeaseRevival

-----------------------------------------------------------------------------
(* No run is stranded.                                                      *)

\* A pending row of a run carries it.
LEMMA PendingCarries ==
    ASSUME NEW k \in Jobs, NEW n \in DOMAIN outbox[k], outbox[k][n].state = "pending"
    PROVE  Carried(k)
  BY DEF Carried

\* A step that leaves a run alone, and takes no row, delivery or popped task
\* of it away, strands it not.
LEMMA StaysCarried ==
    ASSUME NEW k \in Jobs, NotStranded(k), run'[k] = run[k], lost \subseteq lost',
           \A n \in DOMAIN outbox[k] :
             n \in DOMAIN outbox'[k] /\ outbox'[k][n] = outbox[k][n],
           redis[k] > 0 => redis'[k] > 0,
           \A w \in Workers : worker[w].pc = "popped" /\ worker[w].job = k
             => worker'[w].pc = "popped" /\ worker'[w].job = k
    PROVE  NotStranded(k)'
  <1>1. Carried(k) => Carried(k)'
    BY DEF Carried
  <1>2. (\E n \in DOMAIN outbox[k] : outbox[k][n] = Intent("retry"))
          => (\E n \in DOMAIN outbox'[k] : outbox'[k][n] = Intent("retry"))
    OBVIOUS
  <1> QED
    BY <1>1, <1>2 DEF NotStranded

\* A run that waits for no delivery cannot be stranded.
LEMMA NotWaiting ==
    ASSUME NEW k \in Jobs, run'[k].state \notin {"queued", "retry_scheduled"}
    PROVE  NotStranded(k)'
  BY DEF NotStranded

\* An intent added with the change of the row carries it.
LEMMA AddedIntentCarries ==
    ASSUME TypeOK, NEW k \in Jobs, outbox' = AddIntent(k, "now")
    PROVE  Carried(k)'
  <1>1. \E n \in DOMAIN outbox'[k] : outbox'[k][n] = Intent("now")
    BY AddIntentType DEF TypeOK
  <1> QED
    BY <1>1 DEF Carried, Intent

\* Staging a run, in a service's transaction or with its parent's success.
LEMMA StagedNotStranded ==
    ASSUME TypeOK, NoStrandedRun, NEW c \in Jobs \cup {NoJob}, NEW k \in Jobs,
           run'[k] = StageInto(run, c)[k], outbox' = IntentFor(c),
           UNCHANGED <<redis, lost>>,
           \A w \in Workers : worker[w].pc = "popped" => worker'[w] = worker[w]
    PROVE  NotStranded(k)'
  <1>t. run \in [Jobs -> RunRecord] /\ outbox \in [Jobs -> Seq(Row)]
    BY DEF TypeOK
  <1>1. CASE run'[k] = run[k]
    <2>1. \A n \in DOMAIN outbox[k] :
            n \in DOMAIN outbox'[k] /\ outbox'[k][n] = outbox[k][n]
      <3>1. CASE outbox' = outbox
        BY <3>1
      <3>2. CASE c \in Jobs /\ outbox' = AddIntent(c, "now")
        <4>1. CASE k = c
          BY <1>t, <3>2, <4>1, AddIntentType
        <4>2. CASE k # c
          BY <1>t, <3>2, <4>2, AddIntentType
        <4> QED
          BY <4>1, <4>2
      <3> QED
        BY <3>1, <3>2 DEF IntentFor
    <2> QED
      BY <1>1, <2>1, StaysCarried DEF NoStrandedRun
  <1>2. CASE run'[k] # run[k]
    <2>1. c = k /\ run[c].state = "absent"
      BY <1>t, <1>2, StageIntoType DEF StageInto
    <2>2. outbox' = AddIntent(k, "now")
      BY <2>1, ConstantsAssumption DEF IntentFor
    <2>3. run'[k].state = "queued"
      <3>1. StageInto(run, c)[k] = Unleased("queued", 0)
        BY <1>t, <1>2, StageIntoType
      <3> QED
        BY <3>1 DEF Unleased
    <2> QED
      BY <2>2, <2>3, AddedIntentCarries DEF NotStranded
  <1> QED
    BY <1>1, <1>2

\* One row of the outbox changes; the run keeps its retry intents unless that
\* very row was one.
LEMMA RowWritten ==
    ASSUME TypeOK, NoStrandedRun, NEW j \in Jobs, NEW i \in 1 .. Len(outbox[j]),
           NEW s \in {"pending", "sent", "dispatched"}, NEW avail \in {"now", "backoff"},
           outbox' = SetRow(j, i, s, avail),
           outbox[j][i] # Intent("retry"),
           UNCHANGED <<run, worker, lost>>,
           \A k \in Jobs : redis[k] > 0 => redis'[k] > 0,
           s = "pending" \/ redis'[j] > 0 \/ outbox[j][i].state # "pending",
           NEW k \in Jobs
    PROVE  NotStranded(k)'
  <1>1. CASE k # j
    <2>1. outbox'[k] = outbox[k]
      BY <1>1, SetRowType DEF TypeOK
    <2> QED
      BY <2>1, StaysCarried DEF NoStrandedRun
  <1>2. CASE k = j
    <2>1. /\ DOMAIN outbox'[k] = DOMAIN outbox[k]
          /\ \A n \in DOMAIN outbox[k] :
               outbox'[k][n] = IF n = i THEN [state |-> s, when |-> avail]
                               ELSE outbox[k][n]
      <3>1. outbox \in [Jobs -> Seq(Row)]
        BY DEF TypeOK
      <3>2. outbox'[j] = [outbox[j] EXCEPT ![i] = [state |-> s, when |-> avail]]
        BY <3>1 DEF SetRow
      <3> QED
        BY <1>2, <3>2
    <2>2. i \in DOMAIN outbox[k]
      BY <1>2, RunFields, LenProperties
    <2>3. Carried(k) => Carried(k)'
      <3>1. CASE s = "pending"
        BY <2>1, <2>2, <3>1 DEF Carried
      <3>2. CASE redis'[j] > 0
        BY <1>2, <3>2 DEF Carried
      <3>3. CASE outbox[j][i].state # "pending"
        BY <1>2, <2>1, <3>3 DEF Carried
      <3> QED
        BY <3>1, <3>2, <3>3
    <2>4. (\E n \in DOMAIN outbox[k] : outbox[k][n] = Intent("retry"))
            => (\E n \in DOMAIN outbox'[k] : outbox'[k][n] = Intent("retry"))
      BY <1>2, <2>1
    <2>5. NotStranded(k)
      BY DEF NoStrandedRun
    <2> QED
      BY <2>3, <2>4, <2>5 DEF NotStranded
  <1> QED
    BY <1>1, <1>2

LEMMA RowStepKeeps ==
    ASSUME TypeOK, NoStrandedRun, NEW j \in Jobs, RowStep(j)
    PROVE  NoStrandedRun'
  <1> SUFFICES ASSUME NEW k \in Jobs PROVE NotStranded(k)'
    BY DEF NoStrandedRun
  <1> PICK i \in 1 .. Len(outbox[j]) :
             \/ Enqueue(j, i)
             \/ EnqueueRaises(j, i)
             \/ MarkDispatched(j, i)
             \/ DispatcherCrash(j, i)
             \/ BackoffElapses(j, i)
    BY DEF RowStep
  <1>1. /\ redis \in [Jobs -> Nat]
        /\ UNCHANGED <<run, worker, lost>>
    BY DEF TypeOK, Enqueue, EnqueueRaises, MarkDispatched, DispatcherCrash,
           BackoffElapses
  <1>2. \A n \in Jobs : redis[n] > 0 => redis'[n] > 0
    BY <1>1 DEF Enqueue, EnqueueRaises, MarkDispatched, DispatcherCrash, BackoffElapses
  <1>3. outbox[j][i] # Intent("retry")
    BY DEF Enqueue, EnqueueRaises, MarkDispatched, DispatcherCrash, BackoffElapses,
           Available, Intent
  <1>4. CASE Enqueue(j, i)
    <2>1. redis'[j] > 0
      BY <1>1, <1>4 DEF Enqueue
    <2> QED
      BY <1>1, <1>2, <1>3, <1>4, <2>1, RowWritten DEF Enqueue
  <1>5. CASE EnqueueRaises(j, i)
    BY <1>1, <1>2, <1>3, <1>5, RowWritten DEF EnqueueRaises
  <1>6. CASE MarkDispatched(j, i)
    BY <1>1, <1>2, <1>3, <1>6, RowWritten DEF MarkDispatched
  <1>7. CASE DispatcherCrash(j, i) \/ BackoffElapses(j, i)
    BY <1>1, <1>2, <1>3, <1>7, RowWritten DEF DispatcherCrash, BackoffElapses
  <1> QED
    BY <1>4, <1>5, <1>6, <1>7

\* The run and one added intent change together.
LEMMA Reissued ==
    ASSUME TypeOK, NoStrandedRun, NEW j \in Jobs, NEW row, NEW avail \in {"now", "retry"},
           run' = [run EXCEPT ![j] = row],
           outbox' = AddIntent(j, avail),
           avail = "retry" => row.due = FALSE,
           avail = "now" => row.due = TRUE,
           UNCHANGED <<redis, lost>>,
           \A w \in Workers : worker[w].pc = "popped" => worker'[w] = worker[w],
           NEW k \in Jobs
    PROVE  NotStranded(k)'
  <1>t. run \in [Jobs -> RunRecord] /\ outbox \in [Jobs -> Seq(Row)]
    BY DEF TypeOK
  <1>1. CASE k # j
    <2>1. run'[k] = run[k] /\ outbox'[k] = outbox[k]
      BY <1>t, <1>1, AddIntentType
    <2> QED
      BY <2>1, StaysCarried DEF NoStrandedRun
  <1>2. CASE k = j /\ avail = "now"
    <2>1. run'[k].due = TRUE
      BY <1>t, <1>2
    <2>2. Carried(k)'
      BY <1>2, AddedIntentCarries
    <2> QED
      BY <2>1, <2>2 DEF NotStranded
  <1>3. CASE k = j /\ avail = "retry"
    <2>1. \E n \in DOMAIN outbox'[k] : outbox'[k][n] = Intent("retry")
      BY <1>t, <1>3, AddIntentType
    <2>2. Carried(k)'
      BY <2>1 DEF Carried, Intent
    <2> QED
      BY <2>1, <2>2 DEF NotStranded
  <1> QED
    BY <1>1, <1>2, <1>3

\* Recovery, resumption and a scheduled retry all come with their intent.
LEMMA JobStepKeeps ==
    ASSUME TypeOK, NoStrandedRun, NEW j \in Jobs, JobStep(j)
    PROVE  NoStrandedRun'
  <1> SUFFICES ASSUME NEW k \in Jobs PROVE NotStranded(k)'
    BY DEF NoStrandedRun
  <1>t. run \in [Jobs -> RunRecord] /\ outbox \in [Jobs -> Seq(Row)]
    BY DEF TypeOK
  <1>1. CASE Submit(j)
    BY <1>1, StagedNotStranded DEF Submit
  <1>2. CASE RowStep(j)
    BY <1>2, RowStepKeeps DEF NoStrandedRun
  <1>3. CASE RetryDue(j)
    <2>1. CASE k # j
      <3>1. run'[k] = run[k] /\ outbox'[k] = outbox[k]
        BY <1>t, <1>3, <2>1 DEF RetryDue
      <3> QED
        BY <1>3, <3>1, StaysCarried DEF RetryDue, NoStrandedRun
    <2>2. CASE k = j
      <3>1. PICK n \in DOMAIN outbox[j] : outbox[j][n] = Intent("retry")
        BY <1>3 DEF RetryDue, NoStrandedRun, NotStranded
      <3>2. n \in DOMAIN outbox'[j] /\ outbox'[j][n] = Intent("now")
        BY <1>t, <1>3, <3>1 DEF RetryDue
      <3>3. Carried(j)'
        BY <3>2 DEF Carried, Intent
      <3>4. run'[j].due = TRUE
        BY <1>t, <1>3 DEF RetryDue, RunRecord
      <3> QED
        BY <2>2, <3>3, <3>4 DEF NotStranded
    <2> QED
      BY <2>1, <2>2
  <1>4. CASE LeaseTick(j)
    <2>1. CASE k # j
      <3>1. run'[k] = run[k]
        BY <1>t, <1>4, <2>1 DEF LeaseTick
      <3> QED
        BY <1>4, <3>1, StaysCarried DEF LeaseTick, NoStrandedRun
    <2>2. CASE k = j
      <3>1. run'[k].state = "running"
        BY <1>t, <1>4, <2>2 DEF LeaseTick, RunRecord
      <3> QED
        BY <3>1, NotWaiting
    <2> QED
      BY <2>1, <2>2
  <1>5. CASE RecoverExpired(j)
    <2>1. CASE MayRetry(j)
      BY <1>5, <2>1, Reissued, ScheduleRetryType DEF RecoverExpired
    <2>2. CASE ~MayRetry(j)
      <3>1. CASE k = j
        <4>1. Unleased("failed", run[j].attempts).state = "failed"
          BY DEF Unleased
        <4>2. run'[k].state = "failed"
          BY <1>t, <1>5, <2>2, <3>1, <4>1 DEF RecoverExpired
        <4> QED
          BY <4>2, NotWaiting
      <3>2. CASE k # j
        <4>1. run'[k] = run[k] /\ outbox' = outbox
          BY <1>t, <1>5, <2>2, <3>2 DEF RecoverExpired
        <4> QED
          BY <1>5, <4>1, StaysCarried DEF RecoverExpired, NoStrandedRun
      <3> QED
        BY <3>1, <3>2
    <2> QED
      BY <2>1, <2>2
  <1>6. CASE ResumeAccepted(j)
    <2>1. CASE k # j
      <3>1. run'[k] = run[k] /\ outbox'[k] = outbox[k]
        BY <1>t, <1>6, <2>1, AddIntentType DEF ResumeAccepted
      <3> QED
        BY <1>6, <3>1, StaysCarried DEF ResumeAccepted, NoStrandedRun
    <2>2. CASE k = j
      <3>1. run'[k].state = "queued"
        BY <1>t, <1>6, <2>2 DEF ResumeAccepted, RunRecord
      <3>2. Carried(k)'
        BY <1>6, <2>2, AddedIntentCarries DEF ResumeAccepted
      <3> QED
        BY <3>1, <3>2 DEF NotStranded
    <2> QED
      BY <2>1, <2>2
  <1>7. CASE \E n \in Jobs : ManualRetry(j, n)
    BY <1>7, StagedNotStranded DEF ManualRetry
  <1> QED
    BY <1>1, <1>2, <1>3, <1>4, <1>5, <1>6, <1>7 DEF JobStep

\* A task that ends leaves its own run terminal, rescheduled or waiting, or
\* changes nothing; the other runs keep what carries them.
LEMMA FinishKeeps ==
    ASSUME TypeOK, NoStrandedRun, NEW w \in Workers, Finish(w)
    PROVE  NoStrandedRun'
  <1> SUFFICES ASSUME NEW k \in Jobs PROVE NotStranded(k)'
    BY DEF NoStrandedRun
  <1> DEFINE j == worker[w].job
  <1>t. run \in [Jobs -> RunRecord] /\ worker \in [Workers -> Slot]
    BY DEF TypeOK
  <1>0. Busy(w) /\ Release(w) /\ UNCHANGED <<redis, lost>>
    BY DEF Finish, StageSuccess, StageFailure, Suspend, DiscardStale, WorkerCrash
  <1>1. \A v \in Workers : worker[v].pc = "popped" => worker'[v] = worker[v]
    BY <1>t, <1>0 DEF Busy, Release
  <1>2. j \in Jobs
    BY <1>0, BusyJob
  <1>3. ASSUME run'[k] = run[k], outbox' = outbox
        PROVE  NotStranded(k)'
    BY <1>0, <1>1, <1>3, StaysCarried DEF NoStrandedRun
  <1>4. CASE \E c \in Jobs \cup {NoJob} : StageSuccess(w, c)
    <2> PICK c \in Jobs \cup {NoJob} : StageSuccess(w, c)
      BY <1>4
    <2>1. StageInto(run, c) \in [Jobs -> RunRecord]
      BY <1>t, StageIntoType
    <2>2. CASE k = j
      <3>1. Unleased("succeeded", StageInto(run, c)[j].attempts).state = "succeeded"
        BY DEF Unleased
      <3>2. run'[k].state = "succeeded"
        BY <1>2, <2>1, <2>2, <3>1 DEF StageSuccess
      <3> QED
        BY <3>2, NotWaiting
    <2>3. CASE k # j
      <3>1. run'[k] = StageInto(run, c)[k]
        BY <1>2, <2>1, <2>3 DEF StageSuccess
      <3> QED
        BY <1>0, <1>1, <3>1, StagedNotStranded DEF StageSuccess
    <2> QED
      BY <2>2, <2>3
  <1>5. CASE \E retryable \in BOOLEAN : StageFailure(w, retryable)
    <2> PICK retryable \in BOOLEAN : StageFailure(w, retryable)
      BY <1>5
    <2>1. CASE /\ run' = [run EXCEPT ![j] = ScheduleRetry(j, FALSE)]
               /\ outbox' = AddIntent(j, "retry")
      BY <1>0, <1>1, <1>2, <2>1, Reissued, ScheduleRetryType
    <2>2. CASE /\ run' = [run EXCEPT ![j] = Unleased("failed", @.attempts)]
               /\ outbox' = outbox
      <3>1. Unleased("failed", run[j].attempts).state = "failed"
        BY DEF Unleased
      <3>2. run'[k] = run[k] \/ run'[k].state = "failed"
        BY <1>t, <1>2, <2>2, <3>1
      <3> QED
        BY <1>3, <2>2, <3>2, NotWaiting
    <2> QED
      BY <2>1, <2>2 DEF StageFailure
  <1>6. CASE Suspend(w)
    <2>1. \A n : Unleased("waiting_acceptance", n).state = "waiting_acceptance"
      BY DEF Unleased
    <2>2. run'[k] = run[k] \/ run'[k].state = "waiting_acceptance"
      BY <1>t, <1>2, <1>6, <2>1 DEF Suspend
    <2> QED
      BY <1>3, <1>6, <2>2, NotWaiting DEF Suspend
  <1>7. CASE DiscardStale(w) \/ WorkerCrash(w)
    BY <1>3, <1>7 DEF DiscardStale, WorkerCrash
  <1> QED
    BY <1>4, <1>5, <1>6, <1>7 DEF Finish

\* A delivery is consumed by a lease, or ignored when its run is not due yet:
\* a due run is never refused, because it has an attempt left.
LEMMA WorkerStepKeeps ==
    ASSUME TypeOK, RowsOK, NoStrandedRun, NEW w \in Workers, WorkerStep(w)
    PROVE  NoStrandedRun'
  <1> SUFFICES ASSUME NEW k \in Jobs PROVE NotStranded(k)'
    BY DEF NoStrandedRun
  <1> DEFINE j == worker[w].job
  <1>t. /\ run \in [Jobs -> RunRecord]
        /\ worker \in [Workers -> Slot]
        /\ redis \in [Jobs -> Nat]
    BY DEF TypeOK
  <1>0. NotStranded(k)
    BY DEF NoStrandedRun
  <1>1. CASE \E i \in Jobs : Pop(w, i)
    <2> PICK i \in Jobs : Pop(w, i)
      BY <1>1
    <2>1. CASE k = i
      <3>1. Carried(k)'
        BY <1>t, <2>1 DEF Pop, Carried
      <3> QED
        BY <1>0, <3>1 DEF Pop, NotStranded
    <2>2. CASE k # i
      <3>1. Carried(k) => Carried(k)'
        BY <1>t, <2>2 DEF Pop, Carried
      <3> QED
        BY <1>0, <3>1 DEF Pop, NotStranded
    <2> QED
      BY <2>1, <2>2
  <1>2. CASE Acquire(w)
    <2>1. j \in Jobs
      BY <1>2, BusyJob DEF Acquire
    <2>2. CASE k = j
      <3>1. run'[k].state = "running"
        BY <1>t, <1>2, <2>1, <2>2 DEF Acquire
      <3> QED
        BY <3>1, NotWaiting
    <2>3. CASE k # j
      <3>1. run'[k] = run[k] /\ outbox' = outbox /\ lost' = lost
        BY <1>t, <1>2, <2>1, <2>3 DEF Acquire
      <3>2. Carried(k) => Carried(k)'
        BY <1>t, <1>2, <2>3 DEF Acquire, Carried
      <3> QED
        BY <1>0, <3>1, <3>2 DEF NotStranded
    <2> QED
      BY <2>2, <2>3
  <1>3. CASE IgnoreDelivery(w)
    <2>0. run' = run /\ outbox' = outbox /\ redis' = redis /\ lost' = lost
      BY <1>3 DEF IgnoreDelivery
    <2>1. CASE k = j
      <3>1. /\ run[k].state # "queued"
            /\ ~(run[k].state = "retry_scheduled" /\ run[k].due)
        BY <1>3, <2>1 DEF IgnoreDelivery, Eligible, RowsOK, RowOK
      <3> QED
        BY <1>0, <2>0, <3>1 DEF NotStranded
    <2>2. CASE k # j
      <3>1. Carried(k) => Carried(k)'
        BY <1>t, <1>3, <2>2 DEF IgnoreDelivery, Carried
      <3> QED
        BY <1>0, <2>0, <3>1 DEF NotStranded
    <2> QED
      BY <2>1, <2>2
  <1>4. CASE LoseDelivery(w)
    <2>1. run' = run /\ outbox' = outbox
      BY <1>4 DEF LoseDelivery
    <2>2. CASE k = j
      <3>1. k \in lost'
        BY <1>4, <2>2 DEF LoseDelivery
      <3> QED
        BY <1>0, <2>1, <3>1 DEF NotStranded
    <2>3. CASE k # j
      <3>1. Carried(k) => Carried(k)'
        BY <1>t, <1>4, <2>3 DEF LoseDelivery, Carried
      <3>2. lost \subseteq lost'
        BY <1>4 DEF LoseDelivery
      <3> QED
        BY <1>0, <2>1, <3>1, <3>2 DEF NotStranded
    <2> QED
      BY <2>2, <2>3
  <1>5. CASE Heartbeat(w)
    <2>1. j \in Jobs /\ run[j].state = "running"
      BY <1>5, BusyJob DEF Heartbeat, Owned
    <2>2. run'[k] = run[k] \/ run'[k].state = "running"
      BY <1>t, <1>5, <2>1 DEF Heartbeat, RunRecord
    <2>3. CASE run'[k] = run[k]
      <3>1. outbox' = outbox /\ redis' = redis /\ worker' = worker /\ lost' = lost
        BY <1>5 DEF Heartbeat
      <3> QED
        BY <1>0, <2>3, <3>1, StaysCarried
    <2> QED
      BY <2>2, <2>3, NotWaiting
  <1>6. CASE Finish(w)
    BY <1>6, FinishKeeps DEF NoStrandedRun
  <1> QED
    BY <1>1, <1>2, <1>3, <1>4, <1>5, <1>6 DEF WorkerStep

\* No committed run is forgotten by the outbox, Redis and the workers
\* together, unless a delivery died with the worker that had popped it.
THEOREM NothingStranded == Spec => []NoStrandedRun
  <1>1. Init => NoStrandedRun
    <2>1. Unleased("absent", 0).state = "absent"
      BY DEF Unleased
    <2> QED
      BY <2>1 DEF Init, NoStrandedRun, NotStranded
  <1>2. IInv /\ NoStrandedRun /\ [Next]_vars => NoStrandedRun'
    <2> SUFFICES ASSUME IInv, NoStrandedRun, [Next]_vars PROVE NoStrandedRun'
      OBVIOUS
    <2>1. CASE \E j \in Jobs : JobStep(j)
      BY <2>1, JobStepKeeps DEF IInv
    <2>2. CASE \E w \in Workers : WorkerStep(w)
      BY <2>2, WorkerStepKeeps DEF IInv
    <2>3. CASE (\E p \in Jobs \cup {NoJob} : MovePointer(p)) \/ UNCHANGED vars
      <3>1. UNCHANGED <<run, outbox, redis, worker, lost>>
        BY <2>3 DEF MovePointer, vars
      <3> QED
        BY <3>1 DEF NoStrandedRun, NotStranded, Carried
    <2> QED
      BY <2>1, <2>2, <2>3 DEF Next
  <1> QED
    BY <1>1, <1>2, InitIInv, NextIInv, PTL DEF Spec
=============================================================================
