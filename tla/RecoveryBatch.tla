---------------------------- MODULE RecoveryBatch ----------------------------
(***************************************************************************)
(* Parallel evidence recovery: a turn runs a batch of searches as tasks,   *)
(* each of which takes a permit of its batch, a permit of its process and  *)
(* a lease of the deployment (a Redis sorted set of crash-expiring         *)
(* members), in that order; the batch ends at its discovery deadline, at   *)
(* the first integrity error, or when every search has ended.              *)
(*                                                                         *)
(* Time is counted in ticks: a batch has BatchTime left when it starts and *)
(* a lease LeaseTime.  Redis calls have a socket timeout and cancelled     *)
(* tasks unwind at once, so an expired deadline and the two calls of one   *)
(* acquisition do not let more than Delay ticks pass.                      *)
(***************************************************************************)
EXTENDS Naturals, FiniteSets

CONSTANTS
    Searches,        \* search tasks
    Turns,           \* one batch each at a time
    Processes,
    TurnOf,          \* the batch of a search
    ProcessOf,       \* the process a turn runs in
    BatchPermits,    \* asyncio.Semaphore(4)
    ProcessPermits,  \* _RECOVERY_LIMIT
    Leases,          \* limit of the deployment
    BatchTime, LeaseTime, Delay

ASSUME RecoveryAssumption ==
    /\ IsFiniteSet(Searches)    \* retrieve_batch makes one task for each of its queries
    /\ TurnOf \in [Searches -> Turns]
    /\ ProcessOf \in [Turns -> Processes]
    /\ BatchPermits \in Nat \ {0}
    /\ ProcessPermits \in Nat \ {0}
    /\ Leases \in Nat \ {0}
    /\ BatchTime \in Nat \ {0}
    /\ Delay \in Nat
    /\ LeaseTime \in Nat
    /\ LeaseTime > BatchTime + Delay

VARIABLES
    search,      \* what each task is doing
    age,         \* ticks since it read the server's time
    batch,       \* what each batch is doing
    time,        \* ticks left of each batch
    lease        \* sorted set: ticks until a member's score, Delay added

recoveryVars == <<search, age, batch, time, lease>>

-----------------------------------------------------------------------------
Ends == {"found", "late", "fatal", "cancelled"}
Running == {"batchPermit", "processPermit", "leaseTime", "leaseEval", "searching"}
SearchesOf(t) == {s \in Searches : TurnOf[s] = t}
TurnsOf(p) == {t \in Turns : ProcessOf[t] = p}
Process(s) == ProcessOf[TurnOf[s]]
AtWork(ss) == {s \in ss : search[s] \in Running}

\* Permits are given back when the task unwinds, whatever ends it.
HoldsBatchPermit(s) == search[s] \in Running \ {"batchPermit"}
HoldsProcessPermit(s) == search[s] \in {"leaseTime", "leaseEval", "searching"}

RecoveryInit ==
    /\ search = [s \in Searches |-> "idle"]
    /\ age = [s \in Searches |-> 0]
    /\ batch = [t \in Turns |-> "idle"]
    /\ time = [t \in Turns |-> 0]
    /\ lease = [s \in Searches |-> 0]

MoveSearch(s, place) == search' = [search EXCEPT ![s] = place]

\* A task goes on while its batch waits: what ends the waiting cancels the tasks
\* in the same step.
Waiting(s) == batch[TurnOf[s]] = "waiting"

\* retrieve_batch creates all its tasks.
StartBatch(t) ==
    /\ batch[t] \in {"idle", "returned", "raised"}
    /\ \A s \in SearchesOf(t) : lease[s] = 0    \* a new task is a new token
    /\ batch' = [batch EXCEPT ![t] = "waiting"]
    /\ time' = [time EXCEPT ![t] = BatchTime]
    /\ search' = [s \in Searches |->
                    IF TurnOf[s] = t THEN "batchPermit" ELSE search[s]]
    /\ UNCHANGED <<age, lease>>

TakeBatchPermit(s) ==
    /\ Waiting(s) /\ search[s] = "batchPermit"
    /\ Cardinality({x \in SearchesOf(TurnOf[s]) : HoldsBatchPermit(x)}) < BatchPermits
    /\ MoveSearch(s, "processPermit")
    /\ UNCHANGED <<age, batch, time, lease>>

TakeProcessPermit(s) ==
    /\ Waiting(s) /\ search[s] = "processPermit"
    /\ Cardinality({x \in Searches : /\ Process(x) = Process(s)
                                     /\ HoldsProcessPermit(x)}) < ProcessPermits
    /\ MoveSearch(s, "leaseTime")
    /\ UNCHANGED <<age, batch, time, lease>>

ReadServerTime(s) ==
    /\ Waiting(s) /\ search[s] = "leaseTime"
    /\ MoveSearch(s, "leaseEval")
    /\ age' = [age EXCEPT ![s] = 0]
    /\ UNCHANGED <<batch, time, lease>>

\* Members that count at the time that was read: not those it removes.
Counts(s) == {x \in Searches : lease[x] + age[s] > Delay}
Admits(s) == Cardinality(Counts(s)) < Leases
\* MUTANT: a lease as long as the batch it is taken in.
ScoreOfBatch(s) == BatchTime
Score(s) == LeaseTime + Delay - age[s]

\* The script: expired members go, a free lease is taken.
Evaluated(s) ==
    LET kept == [x \in Searches |-> IF x \in Counts(s) THEN lease[x] ELSE 0]
    IN IF Admits(s) THEN [kept EXCEPT ![s] = Score(s)] ELSE kept

\* A full set sends the task back to read the time again after a pause.
EvalAcquire(s) ==
    /\ Waiting(s) /\ search[s] = "leaseEval"
    /\ lease' = Evaluated(s)
    /\ MoveSearch(s, IF Admits(s) THEN "searching" ELSE "leaseTime")
    /\ age' = [age EXCEPT ![s] = 0]
    /\ UNCHANGED <<batch, time>>

\* The search ends: a result, a timeout of its own, or an integrity error (a
\* snapshot that changed).  The lease is removed, unless Redis fails now.
EndSearch(s, how) ==
    /\ Waiting(s) /\ search[s] = "searching"
    /\ MoveSearch(s, how)
    /\ lease' \in {lease, [lease EXCEPT ![s] = 0]}
    /\ UNCHANGED <<age, batch, time>>

\* A call that is interrupted may have taken its lease, which nobody gives back.
Interrupted(s) == {lease} \cup (IF search[s] = "leaseEval" THEN {Evaluated(s)} ELSE {})

\* Redis fails during the acquisition: an integrity error, "capacity_unavailable".
FailAcquire(s) ==
    /\ Waiting(s) /\ search[s] \in {"leaseTime", "leaseEval"}
    /\ MoveSearch(s, "fatal")
    /\ age' = [age EXCEPT ![s] = 0]
    /\ lease' \in Interrupted(s)
    /\ UNCHANGED <<batch, time>>

\* asyncio.wait returns for an integrity error, at the deadline, or when nothing
\* is pending; the finally block does the same for the cancellation of the turn.
Failed(t) == \E s \in SearchesOf(t) : search[s] = "fatal"
StopWaiting(t) ==
    /\ batch[t] = "waiting"
    /\ Failed(t) \/ time[t] = 0
    /\ batch' = [batch EXCEPT ![t] = "cancelling"]
    /\ UNCHANGED <<search, age, time, lease>>

CancelTurn(t) ==
    /\ batch[t] = "waiting"
    /\ batch' = [batch EXCEPT ![t] = "abandoning"]
    /\ UNCHANGED <<search, age, time, lease>>

\* A cancelled task unwinds: permits and lease are given back.
Unwind(s) ==
    /\ batch[TurnOf[s]] \in {"cancelling", "abandoning"}
    /\ search[s] \in Running
    /\ MoveSearch(s, "cancelled")
    /\ age' = [age EXCEPT ![s] = 0]
    /\ lease' \in IF search[s] = "searching"
                    THEN {lease, [lease EXCEPT ![s] = 0]} ELSE Interrupted(s)
    /\ UNCHANGED <<batch, time>>

\* MUTANT: the tasks are not awaited.
GatheredAnyway(t) == TRUE

\* All tasks gathered: the integrity error is raised, or the results returned,
\* with an empty branch for each search that did not end in time.
Gathered(t) == AtWork(SearchesOf(t)) = {}
EndBatch(t) ==
    /\ \/ batch[t] \in {"cancelling", "abandoning"}
       \/ batch[t] = "waiting" /\ ~Failed(t)
    /\ Gathered(t)
    /\ batch' = [batch EXCEPT ![t] =
         IF batch[t] = "abandoning" \/ Failed(t) THEN "raised" ELSE "returned"]
    /\ time' = [time EXCEPT ![t] = 0]
    /\ UNCHANGED <<search, age, lease>>

\* A process dies: its tasks are gone, its leases stay.
CrashProcess(p) ==
    /\ \E t \in TurnsOf(p) : batch[t] \notin {"idle", "returned", "raised"}
    /\ batch' = [t \in Turns |-> IF t \in TurnsOf(p) THEN "idle" ELSE batch[t]]
    /\ time' = [t \in Turns |-> IF t \in TurnsOf(p) THEN 0 ELSE time[t]]
    /\ search' = [s \in Searches |-> IF Process(s) = p THEN "idle" ELSE search[s]]
    /\ age' = [s \in Searches |-> IF Process(s) = p THEN 0 ELSE age[s]]
    /\ UNCHANGED lease

\* A tick: not while a batch that is over its deadline, or was told to stop,
\* still has tasks, nor once an acquisition is Delay old.
RecoveryTick ==
    /\ \A t \in Turns : batch[t] \in {"idle", "returned", "raised"}
                        \/ (batch[t] = "waiting" /\ time[t] > 0)
    /\ \A s \in Searches : search[s] = "leaseEval" => age[s] < Delay
    /\ \/ \E s \in Searches : lease[s] > 0
       \/ \E t \in Turns : time[t] > 0
    /\ time' = [t \in Turns |-> IF time[t] > 0 THEN time[t] - 1 ELSE 0]
    /\ lease' = [s \in Searches |-> IF lease[s] > 0 THEN lease[s] - 1 ELSE 0]
    /\ age' = [s \in Searches |-> IF search[s] = "leaseEval" THEN age[s] + 1
                                                            ELSE age[s]]
    /\ UNCHANGED <<search, batch>>

Acquires(s) ==
    \/ TakeBatchPermit(s) \/ TakeProcessPermit(s)
    \/ ReadServerTime(s) \/ EvalAcquire(s)
Supervises(t) == StopWaiting(t) \/ EndBatch(t)

RecoveryNext ==
    \/ \E s \in Searches :
         \/ Acquires(s) \/ FailAcquire(s) \/ Unwind(s)
         \/ \E how \in {"found", "late", "fatal"} : EndSearch(s, how)
    \/ \E t \in Turns : StartBatch(t) \/ CancelTurn(t) \/ Supervises(t)
    \/ \E p \in Processes : CrashProcess(p)
    \/ RecoveryTick

RecoverySpec == RecoveryInit /\ [][RecoveryNext]_recoveryVars

-----------------------------------------------------------------------------
(* Properties.                                                              *)

\* Types.
RecoveryTypeOK ==
    /\ search \in [Searches -> {"idle"} \cup Running \cup Ends]
    /\ age \in [Searches -> 0 .. Delay]
    /\ batch \in [Turns -> {"idle", "waiting", "cancelling", "abandoning",
                            "returned", "raised"}]
    /\ time \in [Turns -> 0 .. BatchTime]
    /\ lease \in [Searches -> 0 .. LeaseTime + Delay]

\* No more searches run at once than the deployment allows, although a lease
\* expires by time alone and was scored with a time read earlier: every search
\* ends before its lease, so no other is admitted in its place.
RunningWithinLeases ==
    Cardinality({s \in Searches : search[s] = "searching"}) <= Leases

\* A batch that is over has no task left, and it returned results only if none
\* of its searches met an integrity error.
NothingOutlivesBatch ==
    \A t \in Turns :
        batch[t] \in {"returned", "raised"}
            => /\ AtWork(SearchesOf(t)) = {}
               /\ batch[t] = "returned"
                    => \A s \in SearchesOf(t) : search[s] # "fatal"
=============================================================================
