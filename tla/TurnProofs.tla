----------------------------- MODULE TurnProofs -----------------------------
(***************************************************************************)
(* Proofs about what a chat turn is made of.                               *)
(* RecoveryBatch, for any finite set of searches, and any leases, delays   *)
(* and times: the lease of every search that is at work outlasts its batch *)
(* (LeaseInv), and no task outlives its batch (TasksInv).                  *)
(* ChatTurn, for any set of assertions.  The invariant follows the turn:   *)
(* before the first verification nothing is known of any claim; while a    *)
(* correction is under review no claim of it has been cleared; and what    *)
(* was published, captured or proved is cleared by its first verdict.      *)
(* EvidenceRepair, for any duties, passages, readings and authority: what  *)
(* is kept of a review (facet, verdict, checkpoint) covers the authority   *)
(* that the proof map knows, and that is all there is wherever a review    *)
(* starts or ends; while a search is admitted only the checkpoint is       *)
(* covered (FacetInv, VerdictInv, CheckpointInv).                          *)
(* TurnMC: a behaviour of the whole is one of each part.                   *)
(***************************************************************************)
EXTENDS TurnMC, SourceProofs, FiniteSetTheorems, TLAPS

-----------------------------------------------------------------------------
(* RecoveryBatch: searches, their tasks and their leases.                   *)

OpenBatch == {"waiting", "cancelling", "abandoning"}
Searching == {s \in Searches : search[s] = "searching"}

\* A task runs only while its batch is open.
TasksInv == \A s \in Searches : search[s] \in Running => batch[TurnOf[s]] \in OpenBatch

\* The lease of a search outlasts its batch by more than any delay.
LeaseInv == \A s \in Searching : lease[s] > Delay + time[TurnOf[s]]

\* Results were returned only when no search of the batch met an integrity error.
ReturnInv == \A s \in Searches : batch[TurnOf[s]] = "returned" => search[s] # "fatal"

RecoveryInv ==
    /\ RecoveryTypeOK /\ TasksInv /\ LeaseInv /\ ReturnInv /\ RunningWithinLeases

-----------------------------------------------------------------------------
\* A task that is moved out of the running places, or within them while its batch is
\* open, and whose search does not start, keeps the leases' guarantee.
LEMMA TaskMoved ==
    ASSUME RecoveryInv, NEW s \in Searches, NEW place,
           search' = [search EXCEPT ![s] = place],
           place # "searching",
           \A x \in Searching \ {s} : lease'[x] = lease[x],
           UNCHANGED <<batch, time>>,
           place = "fatal" => batch[TurnOf[s]] # "returned",
           place \in Running => batch[TurnOf[s]] \in OpenBatch
    PROVE  TasksInv' /\ LeaseInv' /\ ReturnInv' /\ Searching' \subseteq Searching
<1>1. \A x \in Searches : search'[x] = IF x = s THEN place ELSE search[x]
  BY DEF RecoveryInv, RecoveryTypeOK
<1>2. Searching' \subseteq Searching \ {s}
  BY <1>1 DEF Searching
<1>3. TasksInv'
  BY <1>1 DEF TasksInv, RecoveryInv
<1>4. LeaseInv'
  BY <1>2 DEF LeaseInv, RecoveryInv, Searching
<1>5. ReturnInv'
  BY <1>1 DEF ReturnInv, RecoveryInv
<1> QED BY <1>2, <1>3, <1>4, <1>5

\* Fewer searches at work need no more leases.
LEMMA FewerSearching ==
    ASSUME RunningWithinLeases, Searching' \subseteq Searching
    PROVE  RunningWithinLeases'
<1>1. IsFiniteSet(Searching)
  BY FS_Subset, RecoveryAssumption DEF Searching
<1>2. Cardinality(Searching') <= Cardinality(Searching)
  BY <1>1, FS_Subset
<1>3. /\ Cardinality(Searching) \in Nat /\ Cardinality(Searching') \in Nat
      /\ Leases \in Nat
  BY <1>1, FS_Subset, FS_CardinalityType, RecoveryAssumption
<1> QED BY <1>2, <1>3 DEF RunningWithinLeases, Searching

\* The script keeps every lease that counts, and types.
LEMMA EvaluatedEffect ==
    ASSUME RecoveryInv, NEW s \in Searches
    PROVE  /\ Evaluated(s) \in [Searches -> 0 .. LeaseTime + Delay]
           /\ \A x \in Searches \ {s} :
                  Evaluated(s)[x] = IF x \in Counts(s) THEN lease[x] ELSE 0
           /\ Searching \subseteq Counts(s)
           /\ Admits(s) => Evaluated(s)[s] = Score(s)
           /\ Score(s) > Delay + BatchTime
<1>1. /\ lease \in [Searches -> 0 .. LeaseTime + Delay]
      /\ age[s] \in 0 .. Delay /\ Delay \in Nat /\ LeaseTime \in Nat /\ BatchTime \in Nat
      /\ LeaseTime > BatchTime + Delay
      /\ TurnOf \in [Searches -> Turns]
      /\ time \in [Turns -> 0 .. BatchTime]
  BY RecoveryAssumption DEF RecoveryInv, RecoveryTypeOK
<1>2. Score(s) \in 0 .. LeaseTime + Delay /\ Score(s) > Delay + BatchTime
  BY <1>1 DEF Score
<1>3. Searching \subseteq Counts(s)
  <2> SUFFICES ASSUME NEW x \in Searching PROVE x \in Counts(s)
    OBVIOUS
  <2>1. lease[x] > Delay + time[TurnOf[x]] /\ x \in Searches
    BY DEF RecoveryInv, LeaseInv, Searching
  <2>2. lease[x] \in Nat /\ time[TurnOf[x]] \in Nat /\ age[s] \in Nat
    BY <1>1, <2>1
  <2> QED BY <1>1, <2>1, <2>2 DEF Counts
<1> DEFINE kept == [x \in Searches |-> IF x \in Counts(s) THEN lease[x] ELSE 0]
<1>4. kept \in [Searches -> 0 .. LeaseTime + Delay]
  BY <1>1
<1>5. Evaluated(s) = IF Admits(s) THEN [kept EXCEPT ![s] = Score(s)] ELSE kept
  BY DEF Evaluated
<1> QED BY <1>2, <1>3, <1>4, <1>5

LEMMA InterruptedEffect ==
    ASSUME RecoveryInv, NEW s \in Searches, lease' \in Interrupted(s)
    PROVE  /\ lease' \in [Searches -> 0 .. LeaseTime + Delay]
           /\ \A x \in Searching \ {s} : lease'[x] = lease[x]
<1>1. lease \in [Searches -> 0 .. LeaseTime + Delay]
  BY DEF RecoveryInv, RecoveryTypeOK
<1> QED BY <1>1, EvaluatedEffect DEF Interrupted, Searching

LEMMA RecoveryTypeStep ==
    ASSUME RecoveryInv, RecoveryNext
    PROVE  RecoveryTypeOK'
<1> USE RecoveryAssumption
<1>0. /\ RecoveryTypeOK
      /\ Delay \in Nat /\ LeaseTime \in Nat /\ BatchTime \in Nat
  BY DEF RecoveryInv
<1>1. ASSUME NEW s \in Searches, Acquires(s) PROVE RecoveryTypeOK'
  <2>1. CASE TakeBatchPermit(s) \/ TakeProcessPermit(s)
    BY <1>0, <2>1 DEF TakeBatchPermit, TakeProcessPermit, MoveSearch, RecoveryTypeOK, Running
  <2>2. CASE ReadServerTime(s)
    BY <1>0, <2>2 DEF ReadServerTime, MoveSearch, RecoveryTypeOK, Running
  <2>3. CASE EvalAcquire(s)
    <3>1. lease' \in [Searches -> 0 .. LeaseTime + Delay]
      BY <2>3, EvaluatedEffect DEF EvalAcquire
    <3>2. search' \in [Searches -> {"idle"} \cup Running \cup Ends]
      BY <1>0, <2>3 DEF EvalAcquire, MoveSearch, RecoveryTypeOK, Running
    <3>3. age' \in [Searches -> 0 .. Delay]
      BY <1>0, <2>3 DEF EvalAcquire, RecoveryTypeOK
    <3> QED BY <1>0, <2>3, <3>1, <3>2, <3>3 DEF EvalAcquire, RecoveryTypeOK
  <2> QED BY <1>1, <2>1, <2>2, <2>3 DEF Acquires
<1>2. ASSUME NEW s \in Searches, FailAcquire(s) \/ Unwind(s) PROVE RecoveryTypeOK'
  <2>1. lease' \in [Searches -> 0 .. LeaseTime + Delay]
    BY <1>0, <1>2, InterruptedEffect DEF FailAcquire, Unwind, RecoveryTypeOK
  <2>2. search' \in [Searches -> {"idle"} \cup Running \cup Ends]
    BY <1>0, <1>2 DEF FailAcquire, Unwind, MoveSearch, RecoveryTypeOK, Ends
  <2>3. age' \in [Searches -> 0 .. Delay]
    BY <1>0, <1>2 DEF FailAcquire, Unwind, RecoveryTypeOK
  <2> QED BY <1>0, <1>2, <2>1, <2>2, <2>3 DEF FailAcquire, Unwind, RecoveryTypeOK
<1>3. ASSUME NEW s \in Searches, NEW how \in {"found", "late", "fatal"}, EndSearch(s, how)
      PROVE  RecoveryTypeOK'
  BY <1>0, <1>3 DEF EndSearch, MoveSearch, RecoveryTypeOK, Ends
<1>4. ASSUME NEW t \in Turns, StartBatch(t) \/ CancelTurn(t) \/ Supervises(t)
      PROVE  RecoveryTypeOK'
  <2>1. CASE StartBatch(t)
    BY <1>0, <2>1 DEF StartBatch, RecoveryTypeOK, Running
  <2>2. CASE CancelTurn(t) \/ StopWaiting(t)
    BY <1>0, <2>2 DEF CancelTurn, StopWaiting, RecoveryTypeOK
  <2>3. CASE EndBatch(t)
    BY <1>0, <2>3 DEF EndBatch, RecoveryTypeOK
  <2> QED BY <1>4, <2>1, <2>2, <2>3 DEF Supervises
<1>5. ASSUME NEW p \in Processes, CrashProcess(p) PROVE RecoveryTypeOK'
  BY <1>0, <1>5 DEF CrashProcess, RecoveryTypeOK
<1>6. CASE RecoveryTick
  <2>1. time' \in [Turns -> 0 .. BatchTime] /\ lease' \in [Searches -> 0 .. LeaseTime + Delay]
    BY <1>0, <1>6 DEF RecoveryTick, RecoveryTypeOK
  <2>2. age' \in [Searches -> 0 .. Delay]
    BY <1>0, <1>6 DEF RecoveryTick, RecoveryTypeOK
  <2> QED BY <1>0, <1>6, <2>1, <2>2 DEF RecoveryTick, RecoveryTypeOK
<1> QED BY <1>1, <1>2, <1>3, <1>4, <1>5, <1>6 DEF RecoveryNext

\* One more search starts only where a lease is free of those that count, and every
\* running search has one that counts.
LEMMA AcquireStep ==
    ASSUME RecoveryInv, NEW s \in Searches, EvalAcquire(s)
    PROVE  TasksInv' /\ LeaseInv' /\ ReturnInv' /\ RunningWithinLeases'
<1>1. /\ search[s] = "leaseEval" /\ batch[TurnOf[s]] = "waiting"
      /\ lease' = Evaluated(s)
      /\ search' = [search EXCEPT ![s] = IF Admits(s) THEN "searching" ELSE "leaseTime"]
      /\ UNCHANGED <<batch, time>>
  BY DEF EvalAcquire, MoveSearch, Waiting
<1>2. \A x \in Searching : x # s /\ x \in Counts(s) /\ lease'[x] = lease[x]
  BY <1>1, EvaluatedEffect DEF Searching
<1>3. CASE ~Admits(s)
  BY <1>1, <1>2, <1>3, TaskMoved, FewerSearching DEF RecoveryInv, OpenBatch
<1>4. CASE Admits(s)
  <2>1. \A x \in Searches : search'[x] = IF x = s THEN "searching" ELSE search[x]
    BY <1>1, <1>4 DEF RecoveryInv, RecoveryTypeOK
  <2>2. Searching' = Searching \cup {s}
    BY <2>1 DEF Searching
  <2>3. TasksInv'
    BY <1>1, <2>1 DEF TasksInv, RecoveryInv, OpenBatch
  <2>4. ReturnInv'
    BY <1>1, <2>1 DEF ReturnInv, RecoveryInv
  <2>5. LeaseInv'
    <3>1. lease'[s] > Delay + BatchTime
      BY <1>1, <1>4, EvaluatedEffect
    <3>2. lease' \in [Searches -> 0 .. LeaseTime + Delay]
      BY <1>1, EvaluatedEffect
    <3>3. time[TurnOf[s]] \in 0 .. BatchTime
      BY RecoveryAssumption DEF RecoveryInv, RecoveryTypeOK
    <3>4. lease'[s] > Delay + time'[TurnOf[s]]
      BY <1>1, <3>1, <3>2, <3>3, RecoveryAssumption
    <3>5. \A x \in Searching : lease'[x] > Delay + time'[TurnOf[x]]
      BY <1>1, <1>2 DEF RecoveryInv, LeaseInv
    <3> QED BY <2>2, <3>4, <3>5 DEF LeaseInv
  <2>6. RunningWithinLeases'
    <3>1. IsFiniteSet(Counts(s)) /\ IsFiniteSet(Searching)
      BY FS_Subset, RecoveryAssumption DEF Counts, Searching
    <3>2. Cardinality(Searching) <= Cardinality(Counts(s))
      BY <1>2, <3>1, FS_Subset
    <3>3. Cardinality(Searching') = Cardinality(Searching) + 1
      BY <1>2, <2>2, <3>1, FS_AddElement
    <3>4. Cardinality(Searching) \in Nat /\ Cardinality(Counts(s)) \in Nat /\ Leases \in Nat
      BY <3>1, FS_CardinalityType, RecoveryAssumption
    <3>5. Cardinality(Counts(s)) < Leases
      BY <1>4 DEF Admits
    <3> QED BY <3>2, <3>3, <3>4, <3>5 DEF RunningWithinLeases, Searching
  <2> QED BY <2>3, <2>4, <2>5, <2>6
<1> QED BY <1>3, <1>4

\* Time passes only while every open batch has some left, so a lease and the time of
\* its batch run down together.
LEMMA TickStep ==
    ASSUME RecoveryInv, RecoveryTick
    PROVE  TasksInv' /\ LeaseInv' /\ ReturnInv' /\ RunningWithinLeases'
<1>1. /\ UNCHANGED <<search, batch>>
      /\ \A t \in Turns : batch[t] \in OpenBatch => batch[t] = "waiting" /\ time[t] > 0
      /\ time' = [t \in Turns |-> IF time[t] > 0 THEN time[t] - 1 ELSE 0]
      /\ lease' = [x \in Searches |-> IF lease[x] > 0 THEN lease[x] - 1 ELSE 0]
  BY DEF RecoveryTick, OpenBatch
<1>2. TasksInv' /\ ReturnInv' /\ RunningWithinLeases'
  BY <1>1 DEF RecoveryInv, TasksInv, ReturnInv, RunningWithinLeases
<1>3. LeaseInv'
  <2> SUFFICES ASSUME NEW x \in Searching PROVE lease'[x] > Delay + time'[TurnOf[x]]
    BY <1>1 DEF LeaseInv, Searching
  <2> DEFINE t == TurnOf[x]
  <2>1. x \in Searches /\ t \in Turns /\ batch[t] \in OpenBatch /\ lease[x] > Delay + time[t]
    BY RecoveryAssumption DEF RecoveryInv, TasksInv, LeaseInv, Searching, Running
  <2>2. time[t] > 0 /\ time'[t] = time[t] - 1
    BY <1>1, <2>1
  <2>3. lease[x] \in Nat /\ time[t] \in Nat /\ Delay \in Nat
    BY <2>1, RecoveryAssumption DEF RecoveryInv, RecoveryTypeOK
  <2>4. lease'[x] = lease[x] - 1
    BY <1>1, <2>1, <2>3
  <2> QED BY <2>1, <2>2, <2>3, <2>4
<1> QED BY <1>2, <1>3

\* Every other step.
LEMMA TaskStep ==
    ASSUME RecoveryInv, NEW s \in Searches,
           \/ TakeBatchPermit(s) \/ TakeProcessPermit(s) \/ ReadServerTime(s)
           \/ FailAcquire(s) \/ Unwind(s)
           \/ \E how \in {"found", "late", "fatal"} : EndSearch(s, how)
    PROVE  TasksInv' /\ LeaseInv' /\ ReturnInv' /\ RunningWithinLeases'
<1>1. RunningWithinLeases
  BY DEF RecoveryInv
<1>2. ASSUME NEW place, place # "searching", search' = [search EXCEPT ![s] = place],
             \A x \in Searching \ {s} : lease'[x] = lease[x],
             UNCHANGED <<batch, time>>,
             place = "fatal" => batch[TurnOf[s]] # "returned",
             place \in Running => batch[TurnOf[s]] \in OpenBatch
      PROVE  TasksInv' /\ LeaseInv' /\ ReturnInv' /\ RunningWithinLeases'
  BY <1>1, <1>2, TaskMoved, FewerSearching
<1>3. CASE TakeBatchPermit(s) \/ TakeProcessPermit(s) \/ ReadServerTime(s)
  BY <1>2, <1>3 DEF TakeBatchPermit, TakeProcessPermit, ReadServerTime, MoveSearch, Waiting, OpenBatch
<1>4. CASE FailAcquire(s)
  <2>1. \A x \in Searching \ {s} : lease'[x] = lease[x]
    BY <1>4, InterruptedEffect DEF FailAcquire
  <2> QED BY <1>2, <1>4, <2>1 DEF FailAcquire, MoveSearch, Waiting, Running
<1>5. CASE Unwind(s)
  <2>1. \A x \in Searching \ {s} : lease'[x] = lease[x]
    <3>1. CASE search[s] = "searching"
      BY <1>5, <3>1 DEF Unwind, RecoveryInv, RecoveryTypeOK, Searching
    <3>2. CASE search[s] # "searching"
      BY <1>5, <3>2, InterruptedEffect DEF Unwind
    <3> QED BY <3>1, <3>2
  <2> QED BY <1>2, <1>5, <2>1 DEF Unwind, MoveSearch, Running
<1>6. ASSUME NEW how \in {"found", "late", "fatal"}, EndSearch(s, how)
      PROVE  TasksInv' /\ LeaseInv' /\ ReturnInv' /\ RunningWithinLeases'
  <2>1. \A x \in Searching \ {s} : lease'[x] = lease[x]
    BY <1>6 DEF EndSearch, RecoveryInv, RecoveryTypeOK, Searching
  <2> QED BY <1>2, <1>6, <2>1 DEF EndSearch, MoveSearch, Waiting, Running
<1> QED BY <1>3, <1>4, <1>5, <1>6

LEMMA BatchStep ==
    ASSUME RecoveryInv,
           \/ \E t \in Turns : StartBatch(t) \/ CancelTurn(t) \/ Supervises(t)
           \/ \E p \in Processes : CrashProcess(p)
    PROVE  TasksInv' /\ LeaseInv' /\ ReturnInv' /\ RunningWithinLeases'
<1> USE RecoveryAssumption
<1>0. /\ RecoveryTypeOK /\ TasksInv /\ LeaseInv /\ ReturnInv /\ RunningWithinLeases
  BY DEF RecoveryInv
<1>1. ASSUME NEW t \in Turns, StartBatch(t)
      PROVE  TasksInv' /\ LeaseInv' /\ ReturnInv' /\ RunningWithinLeases'
  <2>1. /\ search' = [s \in Searches |->
                        IF TurnOf[s] = t THEN "batchPermit" ELSE search[s]]
        /\ batch' = [batch EXCEPT ![t] = "waiting"]
        /\ time' = [time EXCEPT ![t] = BatchTime]
        /\ UNCHANGED lease
    BY <1>1 DEF StartBatch
  <2>2. \A s \in Searching' : s \in Searching /\ TurnOf[s] # t
    BY <2>1 DEF Searching
  <2>3. RunningWithinLeases'
    BY <1>0, <2>2, FewerSearching
  <2>4. TasksInv'
    BY <1>0, <2>1 DEF TasksInv, OpenBatch, RecoveryTypeOK
  <2>5. LeaseInv'
    BY <1>0, <2>1, <2>2 DEF LeaseInv, RecoveryTypeOK
  <2>6. ReturnInv'
    BY <1>0, <2>1 DEF ReturnInv, RecoveryTypeOK
  <2> QED BY <2>3, <2>4, <2>5, <2>6
<1>2. ASSUME NEW t \in Turns, CancelTurn(t) \/ StopWaiting(t)
      PROVE  TasksInv' /\ LeaseInv' /\ ReturnInv' /\ RunningWithinLeases'
  <2>1. /\ UNCHANGED <<search, time, lease>> /\ batch[t] = "waiting"
        /\ batch' \in {[batch EXCEPT ![t] = "cancelling"], [batch EXCEPT ![t] = "abandoning"]}
    BY <1>2 DEF CancelTurn, StopWaiting
  <2>2. RunningWithinLeases' /\ LeaseInv'
    BY <1>0, <2>1 DEF RunningWithinLeases, LeaseInv, Searching
  <2>3. \A s \in Searches : batch'[TurnOf[s]] =
             IF TurnOf[s] = t THEN batch'[t] ELSE batch[TurnOf[s]]
    BY <1>0, <2>1 DEF RecoveryTypeOK
  <2>4. batch'[t] \in {"cancelling", "abandoning"}
    BY <1>0, <2>1 DEF RecoveryTypeOK
  <2>5. TasksInv' /\ ReturnInv'
    BY <1>0, <2>1, <2>3, <2>4 DEF TasksInv, ReturnInv, OpenBatch
  <2> QED BY <2>2, <2>5
<1>3. ASSUME NEW t \in Turns, EndBatch(t)
      PROVE  TasksInv' /\ LeaseInv' /\ ReturnInv' /\ RunningWithinLeases'
  <2>1. /\ UNCHANGED <<search, lease>>
        /\ time' = [time EXCEPT ![t] = 0]
        /\ batch' = [batch EXCEPT ![t] =
              IF batch[t] = "abandoning" \/ Failed(t) THEN "raised" ELSE "returned"]
        /\ \A s \in Searches : TurnOf[s] = t => search[s] \notin Running
    BY <1>3 DEF EndBatch, Gathered, AtWork, SearchesOf
  <2>2. \A s \in Searches : batch'[TurnOf[s]] = IF TurnOf[s] # t THEN batch[TurnOf[s]]
            ELSE IF batch[t] = "abandoning" \/ Failed(t) THEN "raised" ELSE "returned"
    BY <1>0, <2>1 DEF RecoveryTypeOK
  <2>3. \A s \in Searching : TurnOf[s] # t /\ time'[TurnOf[s]] = time[TurnOf[s]]
    BY <1>0, <2>1 DEF Searching, RecoveryTypeOK, Running
  <2>4. LeaseInv' /\ RunningWithinLeases'
    BY <1>0, <2>1, <2>3 DEF LeaseInv, Searching, RunningWithinLeases
  <2>5. TasksInv'
    BY <1>0, <2>1, <2>2 DEF TasksInv
  <2>6. ReturnInv'
    BY <1>0, <2>1, <2>2 DEF ReturnInv, Failed, SearchesOf
  <2> QED BY <2>4, <2>5, <2>6
<1>4. ASSUME NEW p \in Processes, CrashProcess(p)
      PROVE  TasksInv' /\ LeaseInv' /\ ReturnInv' /\ RunningWithinLeases'
  <2>1. /\ batch' = [t \in Turns |-> IF ProcessOf[t] = p THEN "idle" ELSE batch[t]]
        /\ time' = [t \in Turns |-> IF ProcessOf[t] = p THEN 0 ELSE time[t]]
        /\ search' = [s \in Searches |-> IF ProcessOf[TurnOf[s]] = p THEN "idle" ELSE search[s]]
        /\ UNCHANGED lease
    BY <1>4 DEF CrashProcess, TurnsOf, Process
  <2>2. \A s \in Searching' : s \in Searching /\ ProcessOf[TurnOf[s]] # p
    BY <2>1 DEF Searching
  <2>3. RunningWithinLeases'
    BY <1>0, <2>2, FewerSearching
  <2>4. \A s \in Searches : TurnOf[s] \in Turns
    OBVIOUS
  <2>5. TasksInv'
    BY <1>0, <2>1, <2>4 DEF TasksInv, Running
  <2>6. LeaseInv'
    BY <1>0, <2>1, <2>2, <2>4 DEF LeaseInv, Searching
  <2>7. ReturnInv'
    BY <1>0, <2>1, <2>4 DEF ReturnInv
  <2> QED BY <2>3, <2>5, <2>6, <2>7
<1> QED BY <1>1, <1>2, <1>3, <1>4 DEF Supervises

LEMMA RecoveryStep ==
    RecoveryInv /\ [RecoveryNext]_recoveryVars => RecoveryInv'
<1> SUFFICES ASSUME RecoveryInv, [RecoveryNext]_recoveryVars PROVE RecoveryInv'
  OBVIOUS
<1>1. CASE RecoveryNext
  <2>1. TasksInv' /\ LeaseInv' /\ ReturnInv' /\ RunningWithinLeases'
    BY <1>1, AcquireStep, TickStep, TaskStep, BatchStep DEF RecoveryNext, Acquires
  <2> QED BY <1>1, <2>1, RecoveryTypeStep DEF RecoveryInv
<1>2. CASE UNCHANGED recoveryVars
  BY <1>2 DEF RecoveryInv, RecoveryTypeOK, TasksInv, LeaseInv, ReturnInv, RunningWithinLeases,
              Searching, recoveryVars
<1> QED BY <1>1, <1>2

LEMMA RecoveryStart ==
    RecoveryInit => RecoveryInv
<1> SUFFICES ASSUME RecoveryInit PROVE RecoveryInv
  OBVIOUS
<1>1. Searching = {}
  BY DEF RecoveryInit, Searching
<1>2. RecoveryTypeOK
  BY RecoveryAssumption DEF RecoveryInit, RecoveryTypeOK
<1>3. TasksInv /\ ReturnInv
  BY RecoveryAssumption DEF RecoveryInit, TasksInv, ReturnInv, Running
<1>4. RunningWithinLeases
  BY <1>1, FS_EmptySet, RecoveryAssumption DEF RunningWithinLeases, Searching
<1> QED BY <1>1, <1>2, <1>3, <1>4 DEF RecoveryInv, LeaseInv

LEMMA RecoveryHolds == RecoverySpec => []RecoveryInv
  BY RecoveryStart, RecoveryStep, PTL DEF RecoverySpec

-----------------------------------------------------------------------------
\* Types.
THEOREM RecoveryTypeCorrect == RecoverySpec => []RecoveryTypeOK
<1>1. RecoveryInv => RecoveryTypeOK
  BY DEF RecoveryInv
<1> QED BY <1>1, RecoveryHolds, PTL

\* However leases expire, whatever a task read before it waited, and whoever crashes,
\* no more searches run at once than the deployment has leases.
THEOREM SearchesWithinLeases == RecoverySpec => []RunningWithinLeases
<1>1. RecoveryInv => RunningWithinLeases
  BY DEF RecoveryInv
<1> QED BY <1>1, RecoveryHolds, PTL

\* A batch that is over left no task behind, and returned results only without an
\* integrity error.
THEOREM BatchesEndWhole == RecoverySpec => []NothingOutlivesBatch
<1>1. RecoveryInv => NothingOutlivesBatch
  BY DEF RecoveryInv, TasksInv, ReturnInv, NothingOutlivesBatch, AtWork, SearchesOf, OpenBatch
<1> QED BY <1>1, RecoveryHolds, PTL

-----------------------------------------------------------------------------
(* ChatTurn: claims, verdicts and what is published.                        *)

Early == {"start", "noteUser", "prepare", "generate", "finalize", "shape", "verify"}
Cleared == {c \in Claims : approval[c] = "complete"}
Answers == {"answer", "insufficient", "timeout"}
Written == Len(assistant)

EarlyInv == phase \in Early =>
    /\ proved = {} /\ captured = {} /\ refused = {}
    /\ approval = [c \in Claims |-> "none"]
    /\ assistant = <<>> /\ result = NoResult

CorrectInv == phase = "correct" =>
    /\ assistant = <<>> /\ result = NoResult
    /\ review.retained = proved
    /\ review.pending \cap Cleared = {}

ClearInv ==
    /\ captured \subseteq Cleared
    /\ result.claims \subseteq Cleared
    /\ \A row \in Rows : row.claims \subseteq Cleared
    /\ \A c \in refused : approval[c] \notin {"none", "complete"}

SupportInv ==
    /\ proved \subseteq captured
    /\ result.kind \in Answers => proved \subseteq result.claims
    /\ \A row \in Rows : row.kind \in Answers => proved \subseteq row.claims

CommitInv ==
    /\ phase \in Early \cup {"correct", "commit"} => "answer" \notin marks
    /\ Written > 0 => "answer" \in marks \cup cut
    /\ Written > 1 => "answer" \in cut
    /\ result.kind # "timeout" => Written < 2
    /\ phase = "commit" => Written < 2
    /\ phase = "commit" /\ result.kind # "timeout" => Written = 0
    /\ phase = "terminal" => result.kind # "timeout"

UserInv ==
    /\ phase \in {"start", "noteUser"} => marks = {}
    /\ phase = "start" => users = 0
    /\ marks = {} /\ phase # "failed" => users < 2

TurnInv == EarlyInv /\ CorrectInv /\ ClearInv /\ SupportInv /\ CommitInv /\ UserInv
Good == TurnTypeOK /\ TurnInv

-----------------------------------------------------------------------------
\* A row joins the committed rows, or does not.
LEMMA Appended ==
    ASSUME TurnTypeOK, assistant' \in {assistant, Append(assistant, result)}
    PROVE  /\ assistant' \in Seq(TurnResults)
           /\ Written \in 0 .. 2 /\ Written' \in {Written, Written + 1}
           /\ assistant' = Append(assistant, result) => Written' = Written + 1
           /\ Rows' \subseteq Rows \cup {result}
           /\ assistant' = assistant => Rows' = Rows
<1>1. assistant \in Seq(TurnResults) /\ result \in TurnResults /\ Len(assistant) \in 0 .. 2
  BY DEF TurnTypeOK
<1>2. CASE assistant' = assistant
  BY <1>1, <1>2 DEF Rows, Written
<1>3. CASE assistant' = Append(assistant, result)
  <2>1. /\ assistant' \in Seq(TurnResults) /\ Len(assistant') = Len(assistant) + 1
        /\ \A i \in 1 .. Len(assistant) : assistant'[i] = assistant[i]
        /\ assistant'[Len(assistant) + 1] = result
    BY <1>1, <1>3
  <2>2. \A i \in 1 .. Len(assistant') : i = Len(assistant) + 1 \/ i \in 1 .. Len(assistant)
    BY <1>1, <2>1
  <2>3. Rows' \subseteq Rows \cup {result}
    BY <2>1, <2>2 DEF Rows, Written
  <2>4. assistant' # assistant
    BY <1>1, <2>1
  <2> QED BY <1>1, <1>3, <2>1, <2>3, <2>4 DEF Written
<1> QED BY <1>2, <1>3

\* What an interrupted commit leaves.
LEMMA TurnCut ==
    ASSUME TurnTypeOK, NEW p \in SUBSET Phases, CutCommit(p), UserInv
    PROVE  /\ assistant' \in {assistant, Append(assistant, result)}
           /\ assistant' # assistant => phase = "commit" /\ "answer" \in cut'
           /\ users' \in 0 .. 2
           /\ users' # users => phase = "start" /\ users' < 2
           /\ cut \subseteq cut' /\ cut' \subseteq {"user", "answer"}
<1>0. users \in 0 .. 2 /\ cut \subseteq {"user", "answer"}
  BY DEF TurnTypeOK
<1>1. CASE phase = "start"
  <2>1. users = 0
    BY <1>1 DEF UserInv
  <2>2. assistant' = assistant /\ users' \in {users, users + 1} /\ cut' \in {cut, cut \cup {"user"}}
    BY <1>1 DEF CutCommit
  <2> QED BY <1>0, <1>1, <2>1, <2>2
<1>2. CASE phase = "commit"
  BY <1>0, <1>2 DEF CutCommit, Row
<1>3. CASE phase \notin {"start", "commit"}
  BY <1>0, <1>3 DEF CutCommit
<1> QED BY <1>1, <1>2, <1>3

\* A step that leaves the draft's review alone and writes no result.
LEMMA Moved ==
    ASSUME Good, UNCHANGED <<approval, captured, proved, refused, result>>,
           assistant' \in {assistant, Append(assistant, result)}
    PROVE  ClearInv' /\ SupportInv'
<1>1. Rows' \subseteq Rows \cup {result}
  BY Appended DEF Good
<1>2. Cleared' = Cleared
  BY DEF Cleared
<1> QED BY <1>1, <1>2 DEF Good, TurnInv, ClearInv, SupportInv

\* A step that writes a result that publishes nothing, before any claim is proved.
LEMMA Limited ==
    ASSUME Good, UNCHANGED <<approval, captured, proved, refused, assistant>>,
           proved = {}, result'.claims = {}
    PROVE  ClearInv' /\ SupportInv'
<1>1. Cleared' = Cleared /\ Rows' = Rows
  BY DEF Cleared, Rows
<1> QED BY <1>1 DEF Good, TurnInv, ClearInv, SupportInv

-----------------------------------------------------------------------------
LEMMA UserKept ==
    ASSUME Good, CommitUser \/ NoteUser
    PROVE  Good'
<1>1. UNCHANGED <<streamed, draftVars, reviewVars, corrections, result, assistant, cut>>
  BY DEF CommitUser, NoteUser
<1>2. ClearInv' /\ SupportInv'
  BY <1>1, Moved DEF reviewVars
<1>3. TurnTypeOK'
  <2>1. phase' \in Phases /\ marks' \subseteq {"user", "answer"}
    BY DEF Good, TurnTypeOK, CommitUser, NoteUser, Enters, Phases
  <2>2. users' \in 0 .. 2
    BY DEF Good, TurnInv, UserInv, TurnTypeOK, CommitUser, NoteUser
  <2> QED BY <1>1, <2>1, <2>2 DEF Good, TurnTypeOK, reviewVars, draftVars
<1>4. EarlyInv' /\ CorrectInv'
  BY <1>1 DEF Good, TurnInv, EarlyInv, CorrectInv, Early, CommitUser, NoteUser, Enters,
              reviewVars
<1>5. CommitInv'
  <2>1. /\ phase' = "terminal" => phase = "terminal"
        /\ phase' \in Early \cup {"correct", "commit"} => phase \in Early
        /\ phase' # "commit"
        /\ "answer" \in marks => phase = "noteUser" \/ "answer" \in marks'
        /\ "answer" \in marks' => "answer" \in marks
    BY DEF CommitUser, NoteUser, Enters, Early
  <2>2. phase = "noteUser" => marks = {}
    BY DEF Good, TurnInv, UserInv
  <2>3. Written' = Written
    BY <1>1 DEF Written
  <2> QED BY <1>1, <2>1, <2>2, <2>3 DEF Good, TurnInv, CommitInv
<1>6. UserInv'
  <2>1. users \in 0 .. 2
    BY DEF Good, TurnTypeOK
  <2> QED BY <2>1 DEF Good, TurnInv, UserInv, CommitUser, NoteUser, Enters
<1> QED BY <1>2, <1>3, <1>4, <1>5, <1>6 DEF Good, TurnInv

LEMMA DraftKept ==
    ASSUME Good, Prepare \/ Generate \/ ParseDraft \/ CorrectShape
    PROVE  Good'
<1>1. UNCHANGED <<streamed, reviewVars, rowVars>> /\ phase \in Early
  BY DEF Prepare, Generate, ParseDraft, CorrectShape, Early
<1>2. \/ UNCHANGED result /\ phase' \in Early
      \/ phase' = "commit" /\ result'.claims = {} /\ result'.kind # "timeout"
         /\ result' \in TurnResults
  BY DEF Prepare, Generate, ParseDraft, CorrectShape, Early, Enters, Writes, Limits,
         Withheld, TurnResults
<1>3. proved = {}
  BY <1>1 DEF Good, TurnInv, EarlyInv
<1>4. ClearInv' /\ SupportInv'
  BY <1>1, <1>2, <1>3, Moved, Limited DEF reviewVars, rowVars
<1>5. TurnTypeOK'
  <2>1. /\ structured' \in BOOLEAN /\ draft' \subseteq Assertions
        /\ corrections' \subseteq {"malformed", "semantic"}
    BY DEF Good, TurnTypeOK, Prepare, Generate, ParseDraft, CorrectShape, draftVars
  <2> QED BY <1>1, <1>2, <2>1 DEF Good, TurnTypeOK, reviewVars, rowVars, Early, Phases
<1>6. EarlyInv' /\ CorrectInv'
  BY <1>1, <1>2 DEF Good, TurnInv, EarlyInv, CorrectInv, Early, reviewVars, rowVars
<1>7. CommitInv' /\ UserInv'
  <2>1. /\ assistant = <<>> /\ Written = 0 /\ Written' = 0
        /\ result.kind # "timeout"
    BY <1>1 DEF Good, TurnInv, EarlyInv, NoResult, Written, rowVars
  <2>2. phase' \notin {"start", "noteUser", "terminal", "failed"}
    BY DEF Prepare, Generate, ParseDraft, CorrectShape, Enters
  <2>3. phase # "failed"
    BY <1>1 DEF Early
  <2> QED BY <1>1, <1>2, <2>1, <2>2, <2>3
       DEF Good, TurnInv, CommitInv, UserInv, Early, rowVars
<1> QED BY <1>4, <1>5, <1>6, <1>7 DEF Good, TurnInv

LEMMA CommitKept ==
    ASSUME Good, CommitAnswer
    PROVE  Good'
<1>1. /\ UNCHANGED <<streamed, draftVars, reviewVars, corrections, result, users, cut>>
      /\ phase = "commit" /\ phase' = "refresh" /\ marks' = marks \cup {"answer"}
      /\ assistant' = Append(assistant, result)
  BY DEF CommitAnswer, Row, Enters
<1>2. ClearInv' /\ SupportInv'
  BY <1>1, Moved DEF reviewVars
<1>3. Written \in 0 .. 2 /\ Written' = Written + 1
      /\ assistant' \in Seq(TurnResults)
  BY <1>1, Appended DEF Good
<1>4. TurnTypeOK'
  <2>1. Written' \in 0 .. 2
    BY <1>1, <1>3 DEF Good, TurnInv, CommitInv
  <2> QED BY <1>1, <1>3, <2>1 DEF Good, TurnTypeOK, Phases, reviewVars, draftVars, Written
<1>5. EarlyInv' /\ CorrectInv'
  BY <1>1 DEF EarlyInv, CorrectInv, Early
<1>6. CommitInv' /\ UserInv'
  BY <1>1, <1>3 DEF Good, TurnInv, CommitInv, UserInv, Early
<1> QED BY <1>2, <1>4, <1>5, <1>6 DEF Good, TurnInv

\* The steps that end the request, and the deadline's that only move it.
LEMMA EndKept ==
    ASSUME Good, \/ RefreshAnswer \/ Measure \/ FailCommit \/ ReturnCommitted
                 \/ StrikeDeadline \/ GiveUp \/ Disconnect
    PROVE  Good'
<1>1. /\ UNCHANGED <<streamed, draftVars, reviewVars, corrections, result, marks>>
      /\ phase' \in {"answered", "failed", "measure", "terminal", "gone"}
      /\ phase' = "terminal" => result.kind # "timeout"
      /\ phase' = "failed" \/ phase # "failed"
  BY DEF RefreshAnswer, Measure, FailCommit, ReturnCommitted, StrikeDeadline, GiveUp,
         Disconnect, CutCommit, Enters, rowVars, Phases
<1>2. /\ assistant' \in {assistant, Append(assistant, result)}
      /\ assistant' # assistant => phase = "commit" /\ "answer" \in cut'
      /\ cut \subseteq cut' /\ cut' \subseteq {"user", "answer"}
      /\ users' \in 0 .. 2
      /\ users' # users => users' < 2 \/ phase' = "failed"
  <2>1. CASE RefreshAnswer \/ Measure \/ FailCommit \/ ReturnCommitted
    BY <2>1 DEF RefreshAnswer, Measure, FailCommit, ReturnCommitted, rowVars, Good, TurnTypeOK
  <2>2. CASE GiveUp /\ phase = "terminal"
    <3>1. result.kind # "timeout"
      BY <2>2 DEF Good, TurnInv, CommitInv
    <3>2. users \in 0 .. 2 /\ cut \subseteq {"user", "answer"}
          /\ (marks = {} => users < 2)
      BY <2>2 DEF Good, TurnInv, UserInv, TurnTypeOK
    <3>3. /\ users' \in (IF marks = {} THEN {users, users + 1} ELSE {users})
          /\ UNCHANGED <<assistant, cut>> /\ phase' = "failed"
      BY <2>2, <3>1 DEF GiveUp, Enters
    <3> QED BY <3>2, <3>3
  <2>3. CASE \E p \in SUBSET Phases : CutCommit(p)
    BY <2>3, TurnCut DEF Good, TurnInv
  <2>4. {"refresh"} \subseteq Phases
        /\ {"noteUser", "prepare", "generate", "shape", "verify", "correct", "refresh"}
             \subseteq Phases
    BY DEF Phases
  <2> QED BY <2>1, <2>2, <2>3, <2>4 DEF StrikeDeadline, GiveUp, Disconnect
<1>3. ClearInv' /\ SupportInv'
  BY <1>1, <1>2, Moved DEF reviewVars
<1>4. /\ assistant' \in Seq(TurnResults) /\ Written \in 0 .. 2
      /\ Written' \in {Written, Written + 1}
  BY <1>2, Appended DEF Good, TurnTypeOK
<1>5. CommitInv' /\ UserInv' /\ Written' < 3
  <2>1. /\ phase' \notin Early \cup {"correct", "commit"}
        /\ phase' \notin {"start", "noteUser"}
    BY <1>1 DEF Early
  <2>2. Written' # Written =>
          Written < 2 /\ "answer" \in cut'
          /\ (result.kind # "timeout" => Written = 0)
    <3>1. Written' # Written => phase = "commit" /\ "answer" \in cut'
      BY <1>2 DEF Written
    <3> QED BY <3>1 DEF Good, TurnInv, CommitInv
  <2>3. CommitInv' /\ Written' < 3
    <3>1. CASE Written' = Written
      BY <1>1, <1>2, <1>4, <2>1, <3>1 DEF Good, TurnInv, CommitInv
    <3>2. CASE Written' # Written
      <4>1. /\ Written' = Written + 1 /\ Written \in {0, 1}
            /\ "answer" \in cut' /\ (result.kind # "timeout" => Written = 0)
        BY <1>4, <2>2, <3>2
      <4> HIDE DEF CommitInv
      <4> QED BY <1>1, <2>1, <4>1 DEF CommitInv
    <3> QED BY <3>1, <3>2
  <2>4. UserInv'
    BY <1>1, <1>2, <2>1 DEF Good, TurnInv, UserInv
  <2> QED BY <2>3, <2>4
<1>6. TurnTypeOK'
  <2>1. phase' \in Phases /\ Written' \in 0 .. 2
    BY <1>1, <1>4, <1>5 DEF Phases
  <2> QED BY <1>1, <1>2, <1>4, <2>1 DEF Good, TurnTypeOK, reviewVars, draftVars, Written
<1>7. EarlyInv' /\ CorrectInv'
  BY <1>1 DEF EarlyInv, CorrectInv, Early
<1> QED BY <1>3, <1>5, <1>6, <1>7 DEF Good, TurnInv

LEMMA DeadlineKept ==
    ASSUME Good, DeadlineResult
    PROVE  Good'
<1>1. /\ UNCHANGED <<streamed, draftVars, reviewVars, corrections, rowVars>>
      /\ phase = "terminal" /\ phase' = "commit" /\ "answer" \notin marks /\ marks # {}
      /\ result' = [kind |-> "timeout", claims |-> captured]
  BY DEF DeadlineResult, Enters, Writes, Noted
<1>2. Cleared' = Cleared /\ Rows' = Rows /\ Written' = Written
  BY <1>1 DEF Cleared, Rows, Written, reviewVars, rowVars
<1>3. ClearInv' /\ SupportInv'
  BY <1>1, <1>2 DEF Good, TurnInv, ClearInv, SupportInv, reviewVars
<1>4. TurnTypeOK'
  BY <1>1 DEF Good, TurnTypeOK, TurnResults, Phases, reviewVars, draftVars, rowVars
<1>5. EarlyInv' /\ CorrectInv'
  BY <1>1 DEF EarlyInv, CorrectInv, Early
<1>6. CommitInv' /\ UserInv'
  <2>1. Written < 2
    BY <1>1, Appended DEF Good, TurnInv, CommitInv
  <2> QED BY <1>1, <1>2, <2>1 DEF Good, TurnInv, CommitInv, UserInv, rowVars
<1> QED BY <1>3, <1>4, <1>5, <1>6 DEF Good, TurnInv

-----------------------------------------------------------------------------
(* Verification.                                                            *)

\* Verdicts on claims not yet cleared only add cleared claims, and no cleared
\* claim is refused.
LEMMA Judged ==
    ASSUME Good, NEW D \in SUBSET Claims, NEW v \in [D -> Verdicts], Judge(v),
           D \cap Cleared = {}
    PROVE  /\ approval' = Approve(v)
           /\ approval' \in [Claims -> Verdicts \cup {"none"}]
           /\ Cleared' = {c \in Claims : Approve(v)[c] = "complete"}
           /\ Cleared \subseteq Cleared'
           /\ refused' \subseteq Claims
           /\ \A c \in refused' : approval'[c] \notin {"none", "complete"}
<1>1. /\ DOMAIN v = D /\ approval' = Approve(v)
      /\ \A c \in D : v[c] \in Verdicts
      /\ refused' = refused \cup {c \in D : v[c] # "complete"}
  BY DEF Judge
<1>2. approval \in [Claims -> Verdicts \cup {"none"}] /\ refused \subseteq Claims
  BY DEF Good, TurnTypeOK
<1>3. \A c \in Claims : Approve(v)[c] = IF c \in D /\ approval[c] = "none" THEN v[c]
                                                                          ELSE approval[c]
  BY <1>1 DEF Approve
<1>4. approval' \in [Claims -> Verdicts \cup {"none"}]
  BY <1>1, <1>2 DEF Approve
<1>5. Cleared' = {c \in Claims : Approve(v)[c] = "complete"}
  BY <1>1 DEF Cleared
<1>6. Cleared \subseteq Cleared'
  BY <1>3, <1>5 DEF Cleared
<1>7. ASSUME NEW c \in refused'
      PROVE  approval'[c] \notin {"none", "complete"}
  <2>1. CASE c \in refused
    <3>1. c \in Claims /\ approval[c] \notin {"none", "complete"}
      BY <1>2, <2>1 DEF Good, TurnInv, ClearInv
    <3> QED BY <1>1, <1>3, <3>1
  <2>2. CASE c \in D /\ v[c] # "complete" /\ c \notin refused
    <3>1. c \in Claims /\ approval[c] # "complete" /\ v[c] \in Verdicts
      BY <1>1, <2>2 DEF Cleared
    <3>2. v[c] # "none"
      BY <3>1 DEF Verdicts
    <3> QED BY <1>1, <1>3, <2>2, <3>1, <3>2
  <2> QED BY <1>1, <1>7, <2>1, <2>2
<1> QED BY <1>1, <1>2, <1>4, <1>5, <1>6, <1>7

\* What may be published is cleared, and a publication withholds or keeps claims
\* that are.
LEMMA Published ==
    ASSUME NEW claims \in SUBSET Claims, NEW ok \in [Claims -> Verdicts \cup {"none"}]
    PROVE  /\ Publication(claims, ok) \in TurnResults
           /\ Publication(claims, ok).claims = {c \in claims : ok[c] = "complete"}
           /\ Publication(claims, ok).kind \in {"insufficient", "answer"}
  BY DEF Publication, Withheld, TurnResults

LEMMA Supporting ==
    ASSUME NEW D \in SUBSET Claims, NEW v \in [D -> Verdicts], NEW ok
    PROVE  Publishable(v, ok) = {c \in {x \in D : Supported(v[x])} : ok[c] = "complete"}
  BY DEF Publishable

\* What the invariant says after a verification that proceeds to the commit.
LEMMA Decided ==
    ASSUME Good, assistant = <<>>, phase \in {"verify", "correct"},
           UNCHANGED <<streamed, draftVars, rowVars>>,
           phase' = "commit", review' = review,
           corrections' \subseteq {"malformed", "semantic"},
           approval' \in [Claims -> Verdicts \cup {"none"}],
           refused' \subseteq Claims,
           \A c \in refused' : approval'[c] \notin {"none", "complete"},
           result' \in TurnResults, result'.kind \in {"insufficient", "answer"},
           result'.claims \subseteq Cleared',
           captured' \subseteq Cleared',
           proved' \subseteq result'.claims, proved' \subseteq captured'
    PROVE  Good'
<1>1. Rows' = {} /\ Written' = 0 /\ Cleared' \subseteq Claims
  BY DEF Rows, Written, Cleared, rowVars
<1>2. ClearInv' /\ SupportInv'
  BY <1>1 DEF ClearInv, SupportInv
<1>3. TurnTypeOK'
  BY <1>1 DEF Good, TurnTypeOK, Phases, draftVars, rowVars
<1>4. EarlyInv' /\ CorrectInv'
  BY DEF EarlyInv, CorrectInv, Early
<1>5. CommitInv' /\ UserInv'
  BY <1>1 DEF Good, TurnInv, CommitInv, UserInv, Early, rowVars
<1> QED BY <1>2, <1>3, <1>4, <1>5 DEF Good, TurnInv

LEMMA VerifyKept ==
    ASSUME Good, VerifyDraft
    PROVE  Good'
<1>1. /\ phase = "verify" /\ UNCHANGED <<streamed, draftVars, rowVars>>
      /\ proved = {} /\ captured = {} /\ refused = {} /\ assistant = <<>>
      /\ result = NoResult /\ approval = [c \in Claims |-> "none"] /\ Cleared = {}
      /\ corrections \subseteq {"malformed", "semantic"} /\ draft \subseteq Assertions
  BY DEF VerifyDraft, Good, TurnInv, EarlyInv, Early, Cleared, TurnTypeOK
<1> DEFINE D == draft \X {"draft"}
<1>2. PICK v \in [D -> Verdicts],
           omitted \in SUBSET {a \in Assertions : structured /\ a \notin draft} :
         LET kept == Publishable(v, Approve(v))
             failed == \E c \in DOMAIN v : ~Supported(v[c])
             rejected == {c \in DOMAIN v : c \notin kept}
             supported == {c \in DOMAIN v : Supported(v[c])}
         IN
         /\ Judge(v)
         /\ proved' = kept
         /\ \/ /\ Publish(supported, Approve(v))
               /\ UNCHANGED corrections
            \/ /\ corrections' = corrections \cup {"semantic"}
               /\ \E proposed \in SUBSET Proposals([c \in rejected |-> v[c]]) :
                    LET pending == proposed \cup omitted \X {"draft"} IN
                    IF pending = {} \/ (~structured /\ kept # {})
                      THEN Publish(IF kept # {} THEN kept ELSE supported, Approve(v))
                      ELSE /\ review' = [pending |-> pending, retained |-> kept,
                                         fallback |-> supported,
                                         omitted |-> omitted # {}]
                           /\ captured' = Captured(kept)
                           /\ Enters("correct")
                           /\ UNCHANGED result
  BY Zenon DEF VerifyDraft
<1> DEFINE ok == Approve(v)
           supported == {c \in D : Supported(v[c])}
           kept == {c \in supported : ok[c] = "complete"}
           rejected == {c \in D : c \notin kept}
<1>3. D \subseteq Claims /\ DOMAIN v = D /\ supported \subseteq Claims /\ kept \subseteq Claims
  BY <1>1 DEF Claims
<1>4. /\ approval' = ok /\ ok \in [Claims -> Verdicts \cup {"none"}]
      /\ Cleared' = {c \in Claims : ok[c] = "complete"}
      /\ refused' \subseteq Claims
      /\ \A c \in refused' : approval'[c] \notin {"none", "complete"}
  BY <1>1, <1>2, <1>3, Judged
<1>5. Publishable(v, ok) = kept
  BY <1>3, Supporting
<1>6. proved' = kept /\ kept \subseteq Cleared'
  BY <1>2, <1>3, <1>4, <1>5
<1>7. ASSUME NEW claims \in SUBSET Claims, Publish(claims, ok),
             {c \in claims : ok[c] = "complete"} = kept,
             corrections' \subseteq {"malformed", "semantic"}
      PROVE  Good'
  <2> DEFINE published == Publication(claims, ok)
  <2>1. /\ published \in TurnResults /\ published.claims = kept
        /\ published.kind \in {"insufficient", "answer"}
    BY <1>4, <1>7, Published
  <2>2. /\ result' = published /\ review' = review /\ phase' = "commit"
        /\ captured' = IF published.claims # {} THEN published.claims ELSE captured
    BY <1>7 DEF Publish, Writes, Enters, Captured
  <2> HIDE DEF published
  <2>3. captured' = kept
    BY <1>1, <2>1, <2>2
  <2> HIDE DEF kept, ok
  <2> QED BY <1>1, <1>4, <1>6, <1>7, <2>1, <2>2, <2>3, Decided
<1>8. CASE Publish(supported, ok) /\ UNCHANGED corrections
  BY <1>1, <1>3, <1>7, <1>8
<1>9. ASSUME NEW proposed \in SUBSET Proposals([c \in rejected |-> v[c]]),
             corrections' = corrections \cup {"semantic"},
             Publish(IF kept # {} THEN kept ELSE supported, ok)
      PROVE  Good'
  <2>1. {c \in (IF kept # {} THEN kept ELSE supported) : ok[c] = "complete"} = kept
    OBVIOUS
  <2> HIDE DEF kept, ok, supported
  <2> QED BY <1>1, <1>3, <1>7, <1>9, <2>1
<1>10. ASSUME NEW proposed \in SUBSET Proposals([c \in rejected |-> v[c]]),
              corrections' = corrections \cup {"semantic"},
              review' = [pending |-> proposed \cup omitted \X {"draft"},
                         retained |-> kept, fallback |-> supported,
                         omitted |-> omitted # {}],
              captured' = Captured(kept), Enters("correct"), UNCHANGED result
       PROVE  Good'
  <2> DEFINE pending == proposed \cup omitted \X {"draft"}
  <2>1. /\ rejected \subseteq D
        /\ proposed \subseteq {<<c[1], "source">> : c \in rejected}
                                \cup {c \in rejected : v[c] = "rejected"}
    BY DEF Proposals
  <2>2. pending \subseteq Claims
    BY <1>1, <2>1 DEF Claims
  <2>3. \A c \in pending : ok[c] # "complete"
    <3>1. \A c \in Claims : ok[c] = IF c \in D THEN v[c] ELSE "none"
      BY <1>1, <1>3 DEF Approve
    <3>2. \A c \in omitted \X {"draft"} : c \in Claims /\ c \notin D
      BY DEF Claims
    <3>3. \A c \in rejected : <<c[1], "source">> \in Claims /\ <<c[1], "source">> \notin D
      BY <1>1, <2>1 DEF Claims
    <3> HIDE DEF ok, D, kept
    <3> QED BY <1>3, <2>1, <3>1, <3>2, <3>3
  <2>4. captured' = kept
    BY <1>1, <1>10 DEF Captured
  <2>5. /\ review' = [pending |-> pending, retained |-> kept, fallback |-> supported,
                      omitted |-> omitted # {}]
        /\ phase' = "correct" /\ UNCHANGED result
    BY <1>10 DEF Enters
  <2>6. Rows' = {} /\ Written' = 0
    BY <1>1 DEF Rows, Written, rowVars
  <2> HIDE DEF kept, ok, supported, pending
  <2>7. ClearInv' /\ SupportInv'
    <3>1. result'.claims = {} /\ result'.kind \notin Answers
      BY <1>1, <2>5 DEF NoResult, Answers
    <3> QED BY <1>4, <1>6, <2>4, <2>6, <3>1 DEF ClearInv, SupportInv
  <2>8. TurnTypeOK'
    BY <1>1, <1>3, <1>4, <1>6, <1>10, <2>2, <2>4, <2>5
       DEF Good, TurnTypeOK, Phases, draftVars, rowVars
  <2>9. EarlyInv' /\ CorrectInv'
    <3>1. pending \cap Cleared' = {}
      BY <1>4, <2>3
    <3> QED BY <1>1, <1>6, <2>5, <3>1 DEF EarlyInv, CorrectInv, Early, rowVars
  <2>10. CommitInv' /\ UserInv'
    BY <1>1, <2>5, <2>6 DEF Good, TurnInv, CommitInv, UserInv, Early, rowVars
  <2> QED BY <2>7, <2>8, <2>9, <2>10 DEF Good, TurnInv
<1> QED BY <1>2, <1>3, <1>5, <1>8, <1>9, <1>10, Zenon

LEMMA CorrectionKept ==
    ASSUME Good, VerifyCorrection
    PROVE  Good'
<1>1. /\ phase = "correct" /\ UNCHANGED <<streamed, draftVars, corrections, rowVars, proved, review>>
      /\ assistant = <<>> /\ result = NoResult /\ review.retained = proved
      /\ review.pending \cap Cleared = {}
      /\ corrections \subseteq {"malformed", "semantic"}
      /\ review.pending \subseteq Claims /\ review.retained \subseteq Claims
      /\ review.fallback \subseteq Claims
      /\ captured \subseteq Cleared /\ proved \subseteq captured
  BY DEF VerifyCorrection, Good, TurnInv, CorrectInv, ClearInv, SupportInv, TurnTypeOK
<1> DEFINE D == review.pending
<1>2. PICK v \in [D -> Verdicts] :
         LET kept == Publishable(v, Approve(v))
             accepted == IF Available(v) THEN kept ELSE {}
             merged == Publication(Merged(accepted), Approve(v))
         IN
         /\ Judge(v)
         /\ IF review.omitted \/ review.retained # {}
              THEN /\ Writes(merged)
                   /\ captured' = IF merged.claims # {} THEN merged.claims
                                                        ELSE Captured(kept)
              ELSE /\ Writes(Publication(
                        IF \A c \in DOMAIN v : Supported(v[c]) THEN review.pending
                                                               ELSE review.fallback,
                        Approve(v)))
                   /\ captured' = Captured(kept)
         /\ Enters("commit")
  BY DEF VerifyCorrection
<1> DEFINE ok == Approve(v)
           kept == Publishable(v, ok)
           accepted == IF Available(v) THEN kept ELSE {}
           merged == Publication(Merged(accepted), ok)
<1>3. /\ approval' = ok /\ ok \in [Claims -> Verdicts \cup {"none"}]
      /\ Cleared' = {c \in Claims : ok[c] = "complete"}
      /\ Cleared \subseteq Cleared'
      /\ refused' \subseteq Claims
      /\ \A c \in refused' : approval'[c] \notin {"none", "complete"}
  BY <1>1, <1>2, Judged
<1>4. kept \subseteq Cleared' /\ accepted \subseteq Claims
  <2>1. kept = {c \in {x \in D : Supported(v[x])} : ok[c] = "complete"}
    BY <1>1, Supporting
  <2> QED BY <1>1, <1>3, <2>1
<1> HIDE DEF ok, kept, accepted, merged
<1>5. ASSUME Writes(merged), Enters("commit"),
             captured' = IF merged.claims # {} THEN merged.claims ELSE Captured(kept)
      PROVE  Good'
  <2> DEFINE claims == review.retained \cup accepted
  <2>1. /\ merged \in TurnResults
        /\ merged.claims = {c \in claims : ok[c] = "complete"}
        /\ merged.kind \in {"insufficient", "answer"}
    BY <1>1, <1>3, <1>4, Published DEF merged, Merged
  <2>2. /\ result' = merged /\ review' = review /\ phase' = "commit"
        /\ captured' = IF merged.claims # {} THEN merged.claims
                       ELSE IF kept # {} THEN kept ELSE captured
    BY <1>1, <1>5 DEF Writes, Enters, Captured
  <2>3. /\ merged.claims \subseteq Cleared' /\ proved \subseteq merged.claims
    BY <1>1, <1>3, <1>4, <2>1
  <2>4. captured' \subseteq Cleared' /\ proved \subseteq captured'
    BY <1>1, <1>3, <1>4, <2>2, <2>3
  <2> QED BY <1>1, <1>3, <2>1, <2>2, <2>3, <2>4, Decided
<1>6. ASSUME NEW claims \in SUBSET Claims, review.retained = {},
             Writes(Publication(claims, ok)), captured' = Captured(kept),
             Enters("commit")
      PROVE  Good'
  <2> DEFINE published == Publication(claims, ok)
  <2>1. /\ published \in TurnResults
        /\ published.claims = {c \in claims : ok[c] = "complete"}
        /\ published.kind \in {"insufficient", "answer"}
    BY <1>3, Published
  <2>2. /\ result' = published /\ phase' = "commit" /\ review' = review
        /\ captured' = IF kept # {} THEN kept ELSE captured
    BY <1>1, <1>6 DEF Writes, Enters, Captured
  <2> HIDE DEF published
  <2>3. published.claims \subseteq Cleared' /\ captured' \subseteq Cleared' /\ proved' = {}
    BY <1>1, <1>3, <1>4, <1>6, <2>1, <2>2
  <2> QED BY <1>1, <1>3, <1>6, <2>1, <2>2, <2>3, Decided
<1>7. CASE review.omitted \/ review.retained # {}
  BY <1>2, <1>5, <1>7 DEF ok, kept, accepted, merged
<1>8. CASE ~(review.omitted \/ review.retained # {})
  BY <1>1, <1>2, <1>6, <1>8 DEF ok, kept, accepted
<1> QED BY <1>7, <1>8

LEMMA TurnKept ==
    ASSUME Good, [TurnNext]_turnVars
    PROVE  Good'
<1>1. CASE UNCHANGED turnVars
  <2>1. /\ UNCHANGED <<streamed, draftVars, reviewVars, corrections, result, rowVars, phase>>
        /\ Cleared' = Cleared /\ Rows' = Rows /\ Written' = Written
    BY <1>1 DEF turnVars, draftVars, reviewVars, rowVars, Cleared, Rows, Written
  <2>2. TurnTypeOK'
    BY <2>1 DEF Good, TurnTypeOK, draftVars, reviewVars, rowVars
  <2>3. EarlyInv' /\ CorrectInv' /\ ClearInv' /\ SupportInv' /\ CommitInv' /\ UserInv'
    BY <2>1 DEF Good, TurnInv, EarlyInv, CorrectInv, ClearInv, SupportInv, CommitInv,
                UserInv, reviewVars, rowVars
  <2> QED BY <2>2, <2>3 DEF Good, TurnInv
<1> QED BY <1>1, UserKept, DraftKept, CommitKept, EndKept, DeadlineKept, VerifyKept,
           CorrectionKept DEF TurnNext

LEMMA TurnStarts ==
    ASSUME TurnInit
    PROVE  Good
<1>1. TurnTypeOK
  <2>1. /\ NoResult \in TurnResults
        /\ NoReview \in [pending : SUBSET Claims, retained : SUBSET Claims,
                         fallback : SUBSET Claims, omitted : BOOLEAN]
    BY DEF NoResult, TurnResults, NoReview
  <2>2. assistant \in Seq(TurnResults) /\ Len(assistant) \in 0 .. 2
    BY DEF TurnInit
  <2>3. approval \in [Claims -> Verdicts \cup {"none"}] /\ phase \in Phases /\ users \in 0 .. 2
    BY DEF TurnInit, Phases
  <2> QED BY <2>1, <2>2, <2>3 DEF TurnInit, TurnTypeOK
<1>2. Rows = {} /\ Written = 0 /\ Cleared = {}
  BY DEF TurnInit, Rows, Written, Cleared
<1>3. TurnInv
  BY <1>2 DEF TurnInit, TurnInv, EarlyInv, CorrectInv, ClearInv, SupportInv, CommitInv,
              UserInv, NoResult
<1> QED BY <1>1, <1>3 DEF Good

LEMMA GoodAlways == TurnSpec => []Good
  BY TurnStarts, TurnKept, PTL DEF TurnSpec

\* Every variable of a turn keeps its type: at most two rows of each kind.
THEOREM TurnTypeCorrect == TurnSpec => []TurnTypeOK
<1>1. Good => TurnTypeOK
  BY DEF Good
<1> QED BY <1>1, GoodAlways, PTL

\* Nothing that some verification of the turn did not clear is published, by the
\* answer or by the deadline: a later review of the same claim, the same
\* assertion in the same wording, cannot replace the first decision on it
\* (publication_approvals).
THEOREM OnlyClearedPublished == TurnSpec => []NothingRefusedPublished
<1>1. Good => NothingRefusedPublished
  BY DEF Good, TurnInv, ClearInv, NothingRefusedPublished, Cleared
<1> QED BY <1>1, GoodAlways, PTL

\* What the first verification proved is in every later answer of the turn:
\* neither a correction nor the deadline's checkpoint revokes it.
THEOREM ProvedClaimsSurvive == TurnSpec => []SupportSurvives
<1>1. Good => SupportSurvives
  BY DEF Good, TurnInv, SupportInv, SupportSurvives, Answers
<1> QED BY <1>1, GoodAlways, PTL

\* A second answer is written only after the commit of the first was interrupted
\* before it was acknowledged: _deadline_terminal returns an answer it knows of.
THEOREM AnswersAreUnique == TurnSpec => []OneAnswer
<1>1. Good => OneAnswer
  BY DEF Good, TurnInv, CommitInv, OneAnswer, Written
<1> QED BY <1>1, GoodAlways, PTL

-----------------------------------------------------------------------------
(* EvidenceRepair: no authority about proof is overlooked.                  *)

\* A review of this check saw all of the authority that is about its proof.
Covers(check, authority) == \A a \in authority : Affects(a, check.proof) => a \in check.seen
AllCover(checks, authority) == \A d \in Duties : Covers(checks[d], authority)
SeenIn(checks, authority) == \A d \in Duties : checks[d].seen \subseteq authority

KnownInv ==
    /\ known \subseteq records
    /\ step \in {"plan", "review", "inputs", "gaps"} => known = records

\* What is kept as valid was reviewed in the light of what the map knows.
FacetInv ==
    \A d \in Duties : /\ facet[d].check.seen \subseteq records
                      /\ facet[d].valid => Covers(facet[d].check, known)

\* So was the last verdict, until new proof is up for review; and when it is handed over
\* although more authority was found, it is for its own partial answer, and none of what
\* was found is about the passages at hand.
VerdictInv ==
    /\ SeenIn(verdict.check, records)
    /\ verdict.sound => verdict.partial # {}
    /\ step \in {"plan", "search", "admit", "inputs", "gaps"} => AllCover(verdict.check, known)
    /\ step = "finish" /\ ~unreviewed =>
         \/ AllCover(verdict.check, records)
         \/ /\ stored = verdict.partial /\ stored # {}
            /\ \A d \in Duties : verdict.check[d].proof \subseteq context
                                    => Covers(verdict.check[d], records)

\* A checkpoint is dropped as soon as new authority is about its proof.
CheckpointInv ==
    /\ SeenIn(checkpoint.check, records)
    /\ \A d \in checkpoint.scope : Covers(checkpoint.check[d], records)

OutcomeInv ==
    /\ step # "done" => outcome = Nothing
    /\ ~unreviewed => \A d \in outcome.scope : Covers(outcome.check[d], records)

RepairInv ==
    /\ RepairTypeOK /\ KnownInv /\ FacetInv /\ VerdictInv /\ CheckpointInv /\ OutcomeInv

-----------------------------------------------------------------------------
LEMMA NothingKnown ==
    /\ NoCheck \in Checks /\ NoChecks \in [Duties -> Checks] /\ Nothing \in Outcomes
    /\ Nothing.scope = {} /\ NoVerdict \in ReviewVerdicts
    /\ NoVerdict.check = NoChecks /\ Nothing.check = NoChecks
    /\ \A authority : /\ Covers(NoCheck, authority)
                      /\ AllCover(NoChecks, authority) /\ SeenIn(NoChecks, authority)
<1>1. NoCheck \in Checks /\ NoCheck.proof = {} /\ NoCheck.seen = {}
  BY DEF NoCheck, Checks
<1>2. NoChecks \in [Duties -> Checks] /\ \A d \in Duties : NoChecks[d] = NoCheck
  BY <1>1 DEF NoChecks
<1>3. Nothing \in Outcomes /\ Nothing.scope = {} /\ Nothing.check = NoChecks
  BY <1>2 DEF Nothing, Outcomes
<1>4. NoVerdict \in ReviewVerdicts /\ NoVerdict.check = NoChecks
  BY <1>2 DEF NoVerdict, ReviewVerdicts
<1>5. \A authority : Covers(NoCheck, authority)
  BY <1>1 DEF Covers, Affects
<1> QED BY <1>1, <1>2, <1>3, <1>4, <1>5 DEF AllCover, SeenIn

\* A reviewer sees all the authority there is.
LEMMA OpinionFacts ==
    ASSUME NEW duties \in SUBSET Duties, NEW raw \in Opinions(duties), RepairTypeOK
    PROVE  \A d \in duties : raw[d] \in Checks /\ (raw[d] = NoCheck \/ raw[d].seen = records)
<1> SUFFICES ASSUME NEW d \in duties
             PROVE  raw[d] \in Checks /\ (raw[d] = NoCheck \/ raw[d].seen = records)
  OBVIOUS
<1>1. raw[d] \in {NoCheck} \cup [grade : {"partial", "full"}, proof : {{s} : s \in context},
                                 seen : {records}]
  BY DEF Opinions
<1>2. context \subseteq Spans /\ records \subseteq Amendments
  BY DEF RepairTypeOK, Contexts
<1>3. CASE raw[d] = NoCheck
  BY <1>3, NothingKnown
<1>4. CASE raw[d] \in [grade : {"partial", "full"}, proof : {{s} : s \in context},
                       seen : {records}]
  BY <1>2, <1>4 DEF Checks
<1> QED BY <1>1, <1>3, <1>4

LEMMA GuardedFacts ==
    ASSUME NEW checks \in [Duties -> Checks]
    PROVE  /\ Guarded(checks) \in [Duties -> Checks]
           /\ \A d \in Duties : \/ Guarded(checks)[d] = NoCheck
                                \/ Guarded(checks)[d].seen = checks[d].seen /\ checks[d] # NoCheck
<1> DEFINE whole == {d \in Duties : \A e \in RestsOn[d] : checks[e].grade = "full"}
           rests(d) == UNION {checks[e].proof :
                                 e \in UNION {RestsOn[x] : x \in DependsOn[d] \cap whole}}
           guarded(d) == IF checks[d].grade = "none" THEN NoCheck
                         ELSE [checks[d] EXCEPT !.grade = IF d \in whole THEN @ ELSE "partial",
                                                !.proof = @ \cup rests(d)]
<1>1. Guarded(checks) = [d \in Duties |-> guarded(d)]
  BY DEF Guarded
<1>2. ASSUME NEW d \in Duties
      PROVE  /\ guarded(d) \in Checks
             /\ guarded(d) = NoCheck
                  \/ (guarded(d).seen = checks[d].seen /\ checks[d] # NoCheck)
  <2>1. rests(d) \subseteq Spans
    <3>1. \A x \in Duties : RestsOn[x] \subseteq Duties
      BY DEF RestsOn
    <3>2. \A e \in Duties : checks[e].proof \subseteq Spans
      BY DEF Checks
    <3> QED BY <3>1, <3>2
  <2>2. checks[d] \in Checks
    OBVIOUS
  <2> HIDE DEF rests, whole
  <2>3. CASE checks[d].grade = "none"
    BY <2>3, NothingKnown
  <2>4. CASE checks[d].grade # "none"
    <3>1. checks[d] # NoCheck
      BY <2>4 DEF NoCheck
    <3>2. guarded(d) = [grade |-> IF d \in whole THEN checks[d].grade ELSE "partial",
                        proof |-> checks[d].proof \cup rests(d), seen |-> checks[d].seen]
      BY <2>2, <2>4 DEF Checks
    <3> QED BY <2>1, <2>2, <3>1, <3>2 DEF Checks
  <2> QED BY <2>3, <2>4
<1> HIDE DEF guarded
<1> QED BY <1>1, <1>2

LEMMA ConcludedFacts ==
    ASSUME NEW checks \in [Duties -> Checks], NEW ranges \in BOOLEAN, NEW spans,
           NEW v \in Concluded(checks, ranges, spans)
    PROVE  /\ v \in ReviewVerdicts /\ v.check = checks
           /\ v.sound => v.partial # {}
<1>1. PICK w \in [reached : {TRUE}, gap : IF Met(checks) THEN BOOLEAN ELSE {FALSE},
                  sound : {FALSE}, check : {checks},
                  partial : SUBSET {d \in Duties : Confirmed(checks[d])}] :
        v = [w EXCEPT !.sound = ranges /\ PartialValidates(w, spans)]
  BY DEF Concluded
<1>2. w \in ReviewVerdicts /\ w.check = checks
  BY <1>1 DEF ReviewVerdicts
<1>3. /\ PartialValidates(w, spans) \in BOOLEAN
      /\ PartialValidates(w, spans) => w.partial # {}
  BY DEF PartialValidates
<1>4. /\ v \in ReviewVerdicts /\ v.check = w.check /\ v.partial = w.partial
      /\ v.sound = (ranges /\ PartialValidates(w, spans))
  BY <1>1, <1>2, <1>3 DEF ReviewVerdicts
<1> QED BY <1>2, <1>3, <1>4

\* Only reviewed checks are handed over, those of a verdict's own partial answer over
\* passages at hand.
LEMMA HandedFacts ==
    ASSUME NEW v \in ReviewVerdicts, NEW duties \in SUBSET Duties, NEW spans
    PROVE  /\ Handed(v, duties, spans) \in Outcomes
           /\ \/ Handed(v, duties, spans) = Nothing
              \/ /\ Handed(v, duties, spans).check = v.check
                 /\ duties \in {{}, v.partial} =>
                      \A d \in Handed(v, duties, spans).scope : v.check[d].proof \subseteq spans
<1> DEFINE cited == UNION {v.check[d].proof : d \in IF duties # {} THEN duties ELSE Duties}
           proof == {s \in spans : \E t \in cited : Same(s, t)}
           p == [kind |-> "partial", scope |-> duties, check |-> v.check]
           r == [kind |-> "recovered", scope |-> Duties, check |-> v.check]
<1>1. v.check \in [Duties -> Checks] /\ proof \subseteq spans
  BY DEF ReviewVerdicts
<1>2. Handed(v, duties, spans) = CASE duties # {} /\ PartialValidates(v, proof) -> p
                                 [] duties = {} /\ Validates(v, proof) -> r
                                 [] OTHER -> Nothing
  BY DEF Handed
<1>3. /\ p \in Outcomes /\ p.check = v.check /\ p.scope = duties
      /\ r \in Outcomes /\ r.check = v.check /\ r.scope = Duties
  BY <1>1 DEF Outcomes
<1> HIDE DEF proof, p, r
<1>4. CASE duties # {} /\ PartialValidates(v, proof)
  <2>1. Handed(v, duties, spans) = p
    BY <1>2, <1>4
  <2>2. duties = v.partial => \A d \in duties : v.check[d].proof \subseteq spans
    BY <1>1, <1>4 DEF PartialValidates, Shown
  <2> QED BY <1>3, <1>4, <2>1, <2>2
<1>5. CASE duties = {} /\ Validates(v, proof)
  <2>1. Handed(v, duties, spans) = r
    BY <1>2, <1>5
  <2>2. \A d \in Duties : v.check[d].proof \subseteq spans
    BY <1>1, <1>5 DEF Validates, Shown
  <2> QED BY <1>3, <2>1, <2>2
<1>6. CASE ~(duties # {} /\ PartialValidates(v, proof)) /\ ~(duties = {} /\ Validates(v, proof))
  <2>1. Handed(v, duties, spans) = Nothing
    BY <1>2, <1>6
  <2> QED BY <2>1, NothingKnown
<1> QED BY <1>4, <1>5, <1>6

\* An outcome of checks that cover the authority covers it.
LEMMA HandedCovers ==
    ASSUME NEW v \in ReviewVerdicts, NEW duties \in SUBSET Duties, NEW spans, NEW authority,
           AllCover(v.check, authority), SeenIn(v.check, authority)
    PROVE  /\ Handed(v, duties, spans) \in Outcomes
           /\ SeenIn(Handed(v, duties, spans).check, authority)
           /\ \A d \in Handed(v, duties, spans).scope :
                Covers(Handed(v, duties, spans).check[d], authority)
<1>1. Handed(v, duties, spans) \in Outcomes
  BY HandedFacts
<1>2. Handed(v, duties, spans).scope \subseteq Duties
  BY <1>1 DEF Outcomes
<1>3. CASE Handed(v, duties, spans) = Nothing
  BY <1>1, <1>3, NothingKnown
<1>4. CASE Handed(v, duties, spans).check = v.check
  BY <1>1, <1>2, <1>4 DEF AllCover
<1> QED BY <1>3, <1>4, HandedFacts

LEMMA CheckpointedFacts ==
    ASSUME RepairTypeOK, CheckpointInv, NEW v \in ReviewVerdicts, NEW spans,
           AllCover(v.check, records), SeenIn(v.check, records)
    PROVE  /\ Checkpointed(v, spans) \in Outcomes
           /\ SeenIn(Checkpointed(v, spans).check, records)
           /\ \A d \in Checkpointed(v, spans).scope :
                Covers(Checkpointed(v, spans).check[d], records)
<1>1. v.partial \in SUBSET Duties
  BY DEF ReviewVerdicts
<1>2. CASE Checkpointed(v, spans) = checkpoint
  BY <1>2 DEF RepairTypeOK, CheckpointInv
<1>3. CASE Checkpointed(v, spans) = Handed(v, v.partial, spans)
  BY <1>1, <1>3, HandedCovers
<1> QED BY <1>2, <1>3 DEF Checkpointed

-----------------------------------------------------------------------------
(* The steps.  What every step does not change is settled once.             *)

Steps == {"plan", "search", "admit", "review", "inputs", "gaps", "finish", "done"}

\* A step that ends the repair with an outcome, and one that goes on.
LEMMA RepairEnds ==
    ASSUME RepairInv, NEW o \in Outcomes, Returns(o),
           UNCHANGED <<records, unreviewed>>,
           ~unreviewed => \A d \in o.scope : Covers(o.check[d], records)
    PROVE  OutcomeInv' /\ outcome' \in Outcomes /\ step' = "done"
  BY DEF Returns, OutcomeInv

LEMMA RepairEndsEmpty ==
    ASSUME RepairInv, Returns(Nothing)
    PROVE  OutcomeInv' /\ outcome' \in Outcomes /\ step' = "done"
  BY NothingKnown DEF Returns, OutcomeInv

LEMMA GoesOn ==
    ASSUME RepairInv, NEW s, Goes(s), step # "done"
    PROVE  OutcomeInv' /\ outcome' \in Outcomes /\ step' = s
<1>1. outcome = Nothing /\ outcome' = Nothing /\ step' = s
  BY DEF Goes, RepairInv, OutcomeInv
<1> QED BY <1>1, NothingKnown DEF OutcomeInv

\* What is left when only the place, the outcome and the history variable change.
LEMMA QuietStep ==
    ASSUME RepairInv, UNCHANGED <<mapVars, findVars, handVars, reviews>>,
           OutcomeInv', outcome' \in Outcomes, unreviewed' \in BOOLEAN,
           \/ step' = "done"
           \/ step' = "search" /\ step = "plan"
           \/ step' = "finish" /\ (unreviewed' \/ AllCover(verdict.check, records))
    PROVE  RepairInv'
<1>1. UNCHANGED <<facet, known, reviewing, records, context, found, rounds, verdict,
                  stored, checkpoint, reviews>>
  BY DEF mapVars, findVars, handVars
<1>2. RepairTypeOK'
  BY <1>1 DEF RepairInv, RepairTypeOK
<1>3. KnownInv' /\ FacetInv' /\ CheckpointInv'
  BY <1>1 DEF RepairInv, KnownInv, FacetInv, CheckpointInv
<1>4. VerdictInv'
  BY <1>1 DEF RepairInv, VerdictInv
<1> QED BY <1>2, <1>3, <1>4 DEF RepairInv

LEMMA PlanUnreviewedStep ==
    ASSUME RepairInv, PlanUnreviewed PROVE RepairInv'
<1>1. /\ UNCHANGED <<mapVars, findVars, handVars, reviews, unreviewed>> /\ step = "plan"
      /\ unreviewed \in BOOLEAN
  BY DEF PlanUnreviewed, RepairInv, RepairTypeOK
<1>2. CASE Goes("search")
  <2>1. OutcomeInv' /\ outcome' \in Outcomes /\ step' = "search"
    BY <1>1, <1>2, GoesOn
  <2> QED BY <1>1, <2>1, QuietStep
<1>3. CASE Returns(Nothing)
  <2>1. OutcomeInv' /\ outcome' \in Outcomes /\ step' = "done"
    BY <1>3, RepairEndsEmpty
  <2> QED BY <1>1, <2>1, QuietStep
<1> QED BY <1>2, <1>3 DEF PlanUnreviewed

\* Reviews of the moment cover the authority.
LEMMA OpinionsCover ==
    ASSUME RepairTypeOK, NEW raw \in Opinions(Duties)
    PROVE  /\ Guarded(raw) \in [Duties -> Checks]
           /\ AllCover(Guarded(raw), records) /\ SeenIn(Guarded(raw), records)
<1>1. raw \in [Duties -> Checks]
  <2>1. DOMAIN raw = Duties /\ raw = [d \in DOMAIN raw |-> raw[d]]
    BY DEF Opinions
  <2> QED BY <2>1, OpinionFacts
<1>2. \A d \in Duties : raw[d] = NoCheck \/ raw[d].seen = records
  BY OpinionFacts
<1>3. /\ Guarded(raw) \in [Duties -> Checks]
      /\ \A d \in Duties : Guarded(raw)[d] = NoCheck \/ Guarded(raw)[d].seen = records
  BY <1>1, <1>2, GuardedFacts
<1>4. \A d \in Duties : Covers(Guarded(raw)[d], records) /\ Guarded(raw)[d].seen \subseteq records
  <2>1. Covers(NoCheck, records) /\ NoCheck.seen \subseteq records
    BY NothingKnown DEF NoCheck
  <2> QED BY <1>3, <2>1 DEF Covers
<1> QED BY <1>3, <1>4 DEF AllCover, SeenIn

LEMMA PlanCompleteStep ==
    ASSUME RepairInv, PlanComplete PROVE RepairInv'
<1>1. /\ UNCHANGED <<mapVars, findVars, handVars, reviews, unreviewed>> /\ step = "plan"
      /\ unreviewed \in BOOLEAN /\ RepairTypeOK /\ records' = records
  BY DEF PlanComplete, RepairInv, RepairTypeOK, findVars
<1>2. PICK raw \in Opinions(Duties) :
        Returns(IF Unresolved(Cited(Guarded(raw), context), records) # {} THEN Nothing
                ELSE [kind |-> "recovered", scope |-> Duties, check |-> Guarded(raw)])
  <2>1. \A raw \in Opinions(Duties) : [NoVerdict EXCEPT !.check = Guarded(raw)].check = Guarded(raw)
    BY DEF NoVerdict
  <2> QED BY <2>1 DEF PlanComplete
<1> DEFINE o == [kind |-> "recovered", scope |-> Duties, check |-> Guarded(raw)]
<1>3. o \in Outcomes /\ \A d \in o.scope : Covers(o.check[d], records)
  BY <1>1, OpinionsCover DEF Outcomes, AllCover
<1> HIDE DEF o
<1>4. CASE Returns(o)
  <2>1. OutcomeInv' /\ outcome' \in Outcomes /\ step' = "done"
    BY <1>1, <1>3, <1>4, RepairEnds
  <2> QED BY <1>1, <2>1, QuietStep
<1>5. CASE Returns(Nothing)
  <2>1. OutcomeInv' /\ outcome' \in Outcomes /\ step' = "done"
    BY <1>5, RepairEndsEmpty
  <2> QED BY <1>1, <2>1, QuietStep
<1> QED BY <1>2, <1>4, <1>5 DEF o

LEMMA SmallerContext ==
    ASSUME NEW c \in Contexts, NEW s \in SUBSET c PROVE s \in Contexts
  BY DEF Contexts, OneReading

LEMMA PlanPartialStep ==
    ASSUME RepairInv, PlanPartial PROVE RepairInv'
<1>1. /\ UNCHANGED <<known, reviewing, records, found, rounds, verdict, reviews, unreviewed>>
      /\ step = "plan" /\ RepairTypeOK /\ known = records /\ unreviewed \in BOOLEAN
  BY DEF PlanPartial, RepairInv, RepairTypeOK, KnownInv
<1>2. PICK raw \in Opinions(Duties) :
        \E v \in Concluded(Guarded(raw), TRUE, Cited(Guarded(raw), context)) :
           /\ facet' = Initial(Guarded(raw), context)
           /\ context' = Cited(Guarded(raw), context)
           /\ stored' = IF v.sound THEN v.partial ELSE {}
           /\ checkpoint' = Checkpointed(v, Cited(Guarded(raw), context))
           /\ \/ Goes("search")
              \/ Returns(Nothing)
              \/ Returns(checkpoint')
              \/ Returns(Handed(v, stored', Cited(Guarded(raw), context)))
  BY DEF PlanPartial
<1> DEFINE checks == Guarded(raw)
           spans == Cited(checks, context)
<1>3. checks \in [Duties -> Checks] /\ AllCover(checks, records) /\ SeenIn(checks, records)
  BY <1>1, OpinionsCover
<1> HIDE DEF checks
<1>4. PICK v \in Concluded(checks, TRUE, spans) :
           /\ facet' = Initial(checks, context)
           /\ context' = spans
           /\ stored' = IF v.sound THEN v.partial ELSE {}
           /\ checkpoint' = Checkpointed(v, spans)
           /\ \/ Goes("search")
              \/ Returns(Nothing)
              \/ Returns(checkpoint')
              \/ Returns(Handed(v, stored', spans))
  BY <1>2 DEF checks
<1>5. spans \in SUBSET context /\ spans \in Contexts
  <2>1. spans \in SUBSET context
    BY DEF Cited
  <2> QED BY <1>1, <2>1, SmallerContext DEF RepairTypeOK
<1> HIDE DEF spans
<1>6. v \in ReviewVerdicts /\ v.check = checks
  BY <1>3, <1>4, ConcludedFacts
<1>7. stored' \in SUBSET Duties
  BY <1>4, <1>6 DEF ReviewVerdicts
<1>8. /\ checkpoint' \in Outcomes /\ SeenIn(checkpoint'.check, records)
      /\ \A d \in checkpoint'.scope : Covers(checkpoint'.check[d], records)
  BY <1>1, <1>3, <1>4, <1>6, CheckpointedFacts DEF RepairInv
<1>9. CheckpointInv'
  BY <1>1, <1>8 DEF CheckpointInv
<1>10. facet' \in [Duties -> Facets] /\ FacetInv'
  <2>1. ASSUME NEW d \in Duties
        PROVE  /\ facet'[d] \in Facets /\ facet'[d].check.seen \subseteq records
               /\ facet'[d].valid => Covers(facet'[d].check, records)
    <3>1. facet'[d] = IF Shown(checks[d], context) THEN [check |-> checks[d], valid |-> TRUE]
                                                   ELSE facet[d]
      BY <1>4 DEF Initial
    <3>2. CASE Shown(checks[d], context)
      BY <1>3, <3>1, <3>2 DEF Facets, AllCover, SeenIn
    <3>3. CASE ~Shown(checks[d], context)
      <4>1. facet'[d] = facet[d]
        BY <3>1, <3>3
      <4> QED BY <1>1, <4>1 DEF RepairInv, RepairTypeOK, FacetInv
    <3> QED BY <3>2, <3>3
  <2>2. facet' = [d \in Duties |-> facet'[d]]
    BY <1>4 DEF Initial
  <2>3. FacetInv'
    BY <1>1, <2>1 DEF FacetInv
  <2> QED BY <2>1, <2>2, <2>3
<1>11. OutcomeInv' /\ outcome' \in Outcomes /\ step' \in {"search", "done"}
  <2>1. CASE Goes("search")
    BY <1>1, <2>1, GoesOn
  <2>2. CASE Returns(Nothing)
    BY <2>2, RepairEndsEmpty
  <2>3. CASE Returns(checkpoint')
    BY <1>1, <1>8, <2>3, RepairEnds
  <2>4. CASE Returns(Handed(v, stored', spans))
    <3>1. /\ Handed(v, stored', spans) \in Outcomes
          /\ \A d \in Handed(v, stored', spans).scope :
               Covers(Handed(v, stored', spans).check[d], records)
      BY <1>3, <1>6, <1>7, HandedCovers
    <3> QED BY <1>1, <2>4, <3>1, RepairEnds
  <2> QED BY <1>4, <2>1, <2>2, <2>3, <2>4
<1>12. RepairTypeOK'
  BY <1>1, <1>4, <1>5, <1>7, <1>8, <1>10, <1>11 DEF RepairTypeOK
<1>13. KnownInv'
  BY <1>1, <1>11 DEF KnownInv
<1>14. VerdictInv'
  BY <1>1, <1>11 DEF VerdictInv, RepairInv
<1> QED BY <1>9, <1>10, <1>11, <1>12, <1>13, <1>14 DEF RepairInv

LEMMA RefuseSearchStep ==
    ASSUME RepairInv, RefuseSearch PROVE RepairInv'
<1>1. /\ UNCHANGED <<mapVars, findVars, handVars, reviews>> /\ step = "search"
      /\ Goes("finish") /\ unreviewed' = (records # known)
  BY DEF RefuseSearch
<1>2. OutcomeInv' /\ outcome' \in Outcomes /\ step' = "finish"
  BY <1>1, GoesOn
<1>3. unreviewed' \/ AllCover(verdict.check, records)
  BY <1>1 DEF RepairInv, VerdictInv
<1> QED BY <1>1, <1>2, <1>3, QuietStep

LEMMA RefuseReviewStep ==
    ASSUME RepairInv, RefuseReview PROVE RepairInv'
<1>1. /\ UNCHANGED <<mapVars, findVars, handVars, reviews>> /\ step = "review"
      /\ Goes("finish") /\ unreviewed'
  BY DEF RefuseReview
<1>2. unreviewed' \in BOOLEAN
  BY DEF RefuseReview
<1>3. OutcomeInv' /\ outcome' \in Outcomes /\ step' = "finish"
  BY <1>1, GoesOn
<1> QED BY <1>1, <1>2, <1>3, QuietStep

LEMMA CutStep ==
    ASSUME RepairInv, Cut PROVE RepairInv'
<1>1. /\ UNCHANGED <<mapVars, findVars, handVars, reviews, unreviewed>>
      /\ Returns(checkpoint) /\ records' = records /\ unreviewed \in BOOLEAN
      /\ checkpoint \in Outcomes
      /\ \A d \in checkpoint.scope : Covers(checkpoint.check[d], records)
  BY DEF Cut, RepairInv, RepairTypeOK, CheckpointInv, findVars
<1>2. OutcomeInv' /\ outcome' \in Outcomes /\ step' = "done"
  BY <1>1, RepairEnds
<1> QED BY <1>1, <1>2, QuietStep

LEMMA HandOverStep ==
    ASSUME RepairInv, HandOver PROVE RepairInv'
<1> DEFINE last == IF verdict.reached THEN Handed(verdict, stored, context) ELSE Nothing
           o == IF last # Nothing THEN last ELSE checkpoint
<1>1. /\ UNCHANGED <<mapVars, findVars, handVars, reviews, unreviewed>> /\ step = "finish"
      /\ Returns(o) /\ records' = records /\ RepairTypeOK
      /\ checkpoint \in Outcomes
      /\ \A d \in checkpoint.scope : Covers(checkpoint.check[d], records)
  BY DEF HandOver, RepairInv, RepairTypeOK, CheckpointInv, findVars
<1>2. /\ verdict \in ReviewVerdicts /\ stored \in SUBSET Duties /\ unreviewed \in BOOLEAN
      /\ SeenIn(verdict.check, records)
  BY DEF RepairInv, RepairTypeOK, VerdictInv
<1> DEFINE h == Handed(verdict, stored, context)
<1>3. h \in Outcomes /\ h.scope \subseteq Duties
  <2>1. h \in Outcomes
    BY <1>2, HandedFacts
  <2> QED BY <2>1 DEF Outcomes
<1>4. ~unreviewed => \A d \in h.scope : Covers(h.check[d], records)
  <2>1. CASE AllCover(verdict.check, records)
    BY <1>2, <2>1, HandedCovers
  <2>2. CASE /\ stored = verdict.partial
             /\ \A d \in Duties : verdict.check[d].proof \subseteq context
                                     => Covers(verdict.check[d], records)
    <3>1. \/ h = Nothing
          \/ /\ h.check = verdict.check
             /\ \A d \in h.scope : verdict.check[d].proof \subseteq context
      BY <1>2, <2>2, HandedFacts
    <3> HIDE DEF h
    <3> QED BY <1>3, <2>2, <3>1, NothingKnown
  <2> QED BY <1>1, <2>1, <2>2 DEF RepairInv, VerdictInv
<1> HIDE DEF h
<1>5. o \in {h, Nothing, checkpoint}
  BY DEF h
<1>6. o \in Outcomes /\ (~unreviewed => \A d \in o.scope : Covers(o.check[d], records))
  BY <1>1, <1>3, <1>4, <1>5, NothingKnown
<1> HIDE DEF o
<1>7. OutcomeInv' /\ outcome' \in Outcomes /\ step' = "done"
  BY <1>1, <1>6, RepairEnds
<1> QED BY <1>1, <1>2, <1>7, QuietStep

\* A checkpoint that outlives a retrieval has nothing new about its proof.
LEMMA RetrieveStep ==
    ASSUME RepairInv, Retrieve PROVE RepairInv'
<1>1. /\ UNCHANGED <<mapVars, context, verdict, stored, reviews, unreviewed>>
      /\ step = "search" /\ RepairTypeOK /\ rounds < Rounds /\ rounds' = rounds + 1
  BY DEF Retrieve, RepairInv
<1>2. UNCHANGED <<facet, known, reviewing>>
  BY <1>1 DEF mapVars
<1>3. rounds' \in 0 .. Rounds
  BY <1>1, RepairAssumption DEF RepairTypeOK
<1>4. CASE Returns(Nothing) /\ UNCHANGED <<records, found, checkpoint>>
  <2>1. OutcomeInv' /\ outcome' \in Outcomes /\ step' = "done"
    BY <1>4, RepairEndsEmpty
  <2>2. RepairTypeOK'
    BY <1>1, <1>2, <1>3, <1>4, <2>1 DEF RepairTypeOK
  <2>3. KnownInv' /\ FacetInv' /\ VerdictInv' /\ CheckpointInv'
    BY <1>1, <1>2, <1>4, <2>1
       DEF RepairInv, KnownInv, FacetInv, VerdictInv, CheckpointInv
  <2> QED BY <2>1, <2>2, <2>3 DEF RepairInv
<1>5. ASSUME NEW branch \in Contexts, NEW authority \in SUBSET Amendments,
             records' = records \cup authority, found' \in SUBSET branch,
             checkpoint' = IF Matches(branch, authority) THEN checkpoint ELSE Nothing,
             Goes("admit")
      PROVE  RepairInv'
  <2>1. OutcomeInv' /\ outcome' \in Outcomes /\ step' = "admit"
    BY <1>1, <1>5, GoesOn
  <2>2. found' \in Contexts
    BY <1>5, SmallerContext
  <2>3. checkpoint' \in Outcomes /\ CheckpointInv'
    <3>1. CASE checkpoint' = Nothing
      BY <3>1, NothingKnown DEF CheckpointInv
    <3>2. CASE checkpoint' = checkpoint /\ Matches(branch, authority)
      <4>1. checkpoint \in Outcomes /\ CheckpointInv /\ checkpoint.scope \subseteq Duties
        BY <1>1 DEF RepairInv, RepairTypeOK, Outcomes
      <4>2. SeenIn(checkpoint.check, records')
        BY <1>5, <4>1 DEF CheckpointInv, SeenIn
      <4>3. ASSUME NEW d \in checkpoint.scope, NEW a \in records',
                   Affects(a, checkpoint.check[d].proof)
            PROVE  a \in checkpoint.check[d].seen
        <5> DEFINE proof == UNION {checkpoint.check[e].proof : e \in checkpoint.scope}
                   keys == UNION {{b \in checkpoint.check[e].seen :
                                       Affects(b, checkpoint.check[e].proof)} :
                                    e \in checkpoint.scope}
        <5>1. \A b \in authority \ keys : ~Affects(b, proof)
          BY <3>2 DEF Matches
        <5>2. Affects(a, proof)
          BY <4>3 DEF Affects
        <5>3. keys \subseteq records
          BY <4>1 DEF CheckpointInv, SeenIn
        <5> HIDE DEF proof, keys
        <5>4. a \in records
          BY <1>5, <4>3, <5>1, <5>2, <5>3
        <5> QED BY <4>1, <4>3, <5>4 DEF CheckpointInv, Covers
      <4> QED BY <3>2, <4>1, <4>2, <4>3 DEF CheckpointInv, Covers
    <3> QED BY <1>5, <3>1, <3>2
  <2>4. RepairTypeOK'
    BY <1>1, <1>2, <1>3, <1>5, <2>1, <2>2, <2>3 DEF RepairTypeOK
  <2>5. KnownInv' /\ FacetInv'
    BY <1>1, <1>2, <1>5, <2>1 DEF RepairInv, KnownInv, FacetInv
  <2>6. VerdictInv'
    BY <1>1, <1>2, <1>5, <2>1 DEF RepairInv, VerdictInv, SeenIn
  <2> QED BY <2>1, <2>3, <2>4, <2>5, <2>6 DEF RepairInv
<1> QED BY <1>4, <1>5 DEF Retrieve

\* Proof that stays valid is among the passages of the moment, and nothing new is
\* about it.
LEMMA StaysValid ==
    ASSUME RepairInv, NEW spans, NEW fresh,
           fresh = {a \in records \ known : Affects(a, spans)},
           NEW d \in Duties, facet[d].valid, d \notin Invalidated(spans, fresh)
    PROVE  Covers(facet[d].check, records)
<1>1. d \in RestsOn[d]
  BY DEF RestsOn
<1>2. d \notin Touched(spans, fresh)
  BY <1>1 DEF Invalidated, Dependents
<1>3. /\ facet[d].check.proof \subseteq spans
      /\ \A a \in fresh : ~Affects(a, facet[d].check.proof)
  BY <1>2 DEF Touched
<1>4. Covers(facet[d].check, known)
  BY DEF RepairInv, FacetInv
<1>5. ASSUME NEW a \in records, Affects(a, facet[d].check.proof)
      PROVE  a \in facet[d].check.seen
  <2>1. Affects(a, spans)
    BY <1>3, <1>5 DEF Affects
  <2>2. a \in known
    BY <1>3, <1>5, <2>1
  <2> QED BY <1>4, <1>5, <2>2 DEF Covers
<1> QED BY <1>5 DEF Covers

\* What is about a passage at hand is about the passages of the moment.
LEMMA AffectsCompared ==
    ASSUME NEW spans, NEW proof \in SUBSET spans, NEW a, Affects(a, proof)
    PROVE  Affects(a, Compared(spans))
<1>1. PICK s \in proof : PassageOf[s] \in {Base[a], Modifier[a]}
  BY DEF Affects
<1>2. CASE \E t \in found : Same(s, t)
  BY <1>1, <1>2 DEF Affects, Compared, Same
<1>3. CASE ~ \E t \in found : Same(s, t)
  BY <1>1, <1>3 DEF Affects, Compared
<1> QED BY <1>2, <1>3

LEMMA AdmitStep ==
    ASSUME RepairInv, Admit PROVE RepairInv'
<1>1. /\ UNCHANGED <<records, rounds, verdict, checkpoint, reviews, unreviewed>>
      /\ step = "admit" /\ found' = {} /\ RepairTypeOK
  BY DEF Admit, RepairInv
<1>2. {} \in Contexts /\ CheckpointInv'
  BY <1>1 DEF Contexts, OneReading, RepairInv, CheckpointInv
<1>3. PICK spans \in Budgets :
        \/ /\ Returns(Nothing)
           /\ UNCHANGED <<mapVars, context, stored>>
        \/ /\ context' = spans \ Unresolved(spans, records)
           /\ Goes("search")
           /\ UNCHANGED <<mapVars, stored>>
        \/ LET fresh == {a \in records \ known : Affects(a, Compared(spans))}
               invalid == Invalidated(Compared(spans), fresh)
           IN /\ context' = spans
              /\ facet' = [d \in Duties |-> [facet[d] EXCEPT !.valid = @ /\ d \notin invalid]]
              /\ known' = known \cup records
              /\ reviewing' = invalid \cup (Duties \ Proven)
              /\ \/ Goes("review") /\ UNCHANGED stored
                 \/ /\ fresh = {}
                    /\ \/ Returns(Nothing) /\ UNCHANGED stored
                       \/ verdict.sound /\ Goes("finish") /\ stored' = verdict.partial
  BY DEF Admit
<1>4. spans \in Contexts
  BY DEF Budgets
<1>5. CASE Returns(Nothing) /\ UNCHANGED <<mapVars, context, stored>>
  <2>1. OutcomeInv' /\ outcome' \in Outcomes /\ step' = "done"
    BY <1>5, RepairEndsEmpty
  <2>2. UNCHANGED <<facet, known, reviewing>>
    BY <1>5 DEF mapVars
  <2>3. RepairTypeOK'
    BY <1>1, <1>2, <1>5, <2>1, <2>2 DEF RepairTypeOK
  <2>4. KnownInv' /\ FacetInv' /\ VerdictInv'
    BY <1>1, <1>5, <2>1, <2>2 DEF RepairInv, KnownInv, FacetInv, VerdictInv
  <2> QED BY <1>2, <2>1, <2>3, <2>4 DEF RepairInv
<1>6. CASE /\ context' = spans \ Unresolved(spans, records)
           /\ Goes("search") /\ UNCHANGED <<mapVars, stored>>
  <2>1. OutcomeInv' /\ outcome' \in Outcomes /\ step' = "search"
    BY <1>1, <1>6, GoesOn
  <2>2. UNCHANGED <<facet, known, reviewing>>
    BY <1>6 DEF mapVars
  <2>3. context' \in Contexts
    BY <1>4, <1>6, SmallerContext
  <2>4. RepairTypeOK'
    BY <1>1, <1>2, <1>6, <2>1, <2>2, <2>3 DEF RepairTypeOK
  <2>5. KnownInv' /\ FacetInv' /\ VerdictInv'
    BY <1>1, <1>6, <2>1, <2>2 DEF RepairInv, KnownInv, FacetInv, VerdictInv
  <2> QED BY <1>2, <2>1, <2>4, <2>5 DEF RepairInv
<1> DEFINE fresh == {a \in records \ known : Affects(a, Compared(spans))}
           invalid == Invalidated(Compared(spans), fresh)
<1>7. ASSUME /\ context' = spans
             /\ facet' = [d \in Duties |-> [facet[d] EXCEPT !.valid = @ /\ d \notin invalid]]
             /\ known' = known \cup records
             /\ reviewing' = invalid \cup (Duties \ Proven)
             /\ \/ Goes("review") /\ UNCHANGED stored
                \/ /\ fresh = {}
                   /\ \/ Returns(Nothing) /\ UNCHANGED stored
                      \/ verdict.sound /\ Goes("finish") /\ stored' = verdict.partial
      PROVE  RepairInv'
  <2>1. known' = records /\ known \subseteq records
    BY <1>7 DEF RepairInv, KnownInv
  <2>2. OutcomeInv' /\ outcome' \in Outcomes /\ step' \in {"review", "done", "finish"}
    <3>1. CASE Goes("review")
      BY <1>1, <3>1, GoesOn
    <3>2. CASE Returns(Nothing)
      BY <3>2, RepairEndsEmpty
    <3>3. CASE Goes("finish")
      BY <1>1, <3>3, GoesOn
    <3> QED BY <1>7, <3>1, <3>2, <3>3
  <2>3. invalid \subseteq Duties
    BY DEF Invalidated, Dependents
  <2>4. stored' \subseteq Duties
    BY <1>1, <1>7 DEF RepairTypeOK, ReviewVerdicts
  <2>5. ASSUME NEW d \in Duties
        PROVE  /\ facet'[d] \in Facets /\ facet'[d].check = facet[d].check
               /\ facet'[d].valid = (facet[d].valid /\ d \notin invalid)
    <3>1. facet[d] \in Facets
      BY <1>1 DEF RepairTypeOK
    <3>2. facet'[d] = [facet[d] EXCEPT !.valid = facet[d].valid /\ d \notin invalid]
      BY <1>7
    <3>3. facet'[d] = [check |-> facet[d].check, valid |-> facet[d].valid /\ d \notin invalid]
      BY <3>1, <3>2 DEF Facets
    <3> HIDE DEF invalid
    <3> QED BY <3>1, <3>3 DEF Facets
  <2>6. facet' \in [Duties -> Facets]
    BY <1>7, <2>5
  <2>7. FacetInv'
    <3>1. ASSUME NEW d \in Duties
          PROVE  /\ facet'[d].check.seen \subseteq records'
                 /\ facet'[d].valid => Covers(facet'[d].check, known')
      <4>1. facet[d].check.seen \subseteq records
        BY DEF RepairInv, FacetInv
      <4>2. facet'[d].valid => Covers(facet[d].check, records)
        BY <2>5, StaysValid
      <4> QED BY <1>1, <2>1, <2>5, <4>1, <4>2
    <3> QED BY <3>1 DEF FacetInv
  <2> HIDE DEF invalid
  <2>8. RepairTypeOK'
    BY <1>1, <1>2, <1>4, <1>7, <2>1, <2>2, <2>3, <2>4, <2>6 DEF RepairTypeOK
  <2>9. KnownInv'
    BY <1>1, <2>1 DEF KnownInv
  <2>10. VerdictInv'
    <3>1. SeenIn(verdict.check, records) /\ (verdict.sound => verdict.partial # {})
          /\ AllCover(verdict.check, known)
      BY <1>1 DEF RepairInv, VerdictInv
    <3>2. ASSUME step' = "finish"
          PROVE  /\ stored' = verdict.partial /\ stored' # {}
                 /\ \A d \in Duties : verdict.check[d].proof \subseteq context'
                                         => Covers(verdict.check[d], records)
      <4>1. fresh = {} /\ verdict.sound /\ stored' = verdict.partial
        BY <1>7, <3>2 DEF Goes, Returns
      <4>2. ASSUME NEW d \in Duties, verdict.check[d].proof \subseteq spans,
                   NEW a \in records, Affects(a, verdict.check[d].proof)
            PROVE  a \in verdict.check[d].seen
        <5>1. Affects(a, Compared(spans))
          BY <4>2, AffectsCompared
        <5>2. a \in known
          BY <4>1, <5>1
        <5> QED BY <3>1, <4>2, <5>2 DEF AllCover, Covers
      <4> QED BY <1>7, <3>1, <4>1, <4>2 DEF Covers
    <3> QED BY <1>1, <2>2, <3>1, <3>2 DEF VerdictInv
  <2> QED BY <1>2, <2>2, <2>7, <2>8, <2>9, <2>10 DEF RepairInv
<1> QED BY <1>3, <1>5, <1>6, <1>7

-----------------------------------------------------------------------------
(* The review: its verdict is that of the map, whose proof it has brought   *)
(* up to date.                                                              *)

LEMMA ConcludesFacts ==
    ASSUME RepairInv, NEW v \in ReviewVerdicts, AllCover(v.check, records),
           SeenIn(v.check, records), v.sound => v.partial # {},
           step # "done", known = records,
           UNCHANGED <<known, records, unreviewed>>, Concludes(v)
    PROVE  /\ verdict' \in ReviewVerdicts /\ stored' \subseteq Duties
           /\ step' \in Steps /\ outcome' \in Outcomes /\ checkpoint' \in Outcomes
           /\ KnownInv' /\ VerdictInv' /\ CheckpointInv' /\ OutcomeInv'
<1>1. verdict' = v /\ RepairTypeOK /\ CheckpointInv
  BY DEF Concludes, RepairInv
<1>2. /\ checkpoint' \in Outcomes /\ SeenIn(checkpoint'.check, records)
      /\ \A d \in checkpoint'.scope : Covers(checkpoint'.check[d], records)
  <2>1. CASE checkpoint' = checkpoint
    BY <1>1, <2>1 DEF RepairTypeOK, CheckpointInv
  <2>2. CASE checkpoint' = Checkpointed(v, context)
    BY <1>1, <2>2, CheckpointedFacts
  <2> QED BY <2>1, <2>2 DEF Concludes
<1>3. CheckpointInv'
  BY <1>2 DEF CheckpointInv
<1>4. stored' \subseteq Duties
  BY <1>1 DEF Concludes, RepairTypeOK, ReviewVerdicts
<1>5. OutcomeInv' /\ outcome' \in Outcomes /\ step' \in {"finish", "gaps", "done"}
  <2>1. CASE Goes("finish")
    BY <2>1, GoesOn
  <2>2. CASE Goes("gaps")
    BY <2>2, GoesOn
  <2>3. CASE Returns(Nothing)
    BY <2>3, RepairEndsEmpty
  <2>4. CASE Returns(checkpoint')
    BY <1>2, <2>4, RepairEnds
  <2> QED BY <2>1, <2>2, <2>3, <2>4 DEF Concludes
<1>6. KnownInv'
  BY <1>5 DEF KnownInv
<1>7. VerdictInv'
  BY <1>1, <1>5 DEF VerdictInv
<1> QED BY <1>1, <1>2, <1>3, <1>4, <1>5, <1>6, <1>7 DEF Steps

LEMMA ReviewedStep ==
    ASSUME RepairInv, Review PROVE RepairInv'
<1>1. /\ UNCHANGED <<known, findVars, unreviewed>> /\ step = "review"
      /\ reviewing' = {} /\ RepairTypeOK /\ known = records
      /\ (rounds > 1 => reviews < Reviews)
      /\ reviews' = IF rounds > 1 THEN reviews + 1 ELSE reviews
  BY DEF Review, RepairInv, KnownInv
<1>2. UNCHANGED <<known, records, context, found, rounds, unreviewed>>
  BY <1>1 DEF findVars
<1>3. reviews' \in 0 .. Reviews
  BY <1>1, RepairAssumption DEF RepairTypeOK
<1>4. CASE Returns(checkpoint) /\ UNCHANGED <<facet, verdict, stored, checkpoint>>
  <2>1. OutcomeInv' /\ outcome' \in Outcomes /\ step' = "done"
    BY <1>1, <1>2, <1>4, RepairEnds DEF RepairInv, RepairTypeOK, CheckpointInv
  <2>2. RepairTypeOK'
    BY <1>1, <1>2, <1>3, <1>4, <2>1 DEF RepairTypeOK
  <2>3. KnownInv' /\ FacetInv' /\ VerdictInv' /\ CheckpointInv'
    BY <1>2, <1>4, <2>1 DEF RepairInv, KnownInv, FacetInv, VerdictInv, CheckpointInv
  <2> QED BY <2>1, <2>2, <2>3 DEF RepairInv
<1> DEFINE Reviewed(subject, ranges, raw, withdrawn) ==
           LET told == [d \in Duties |-> IF d \in subject THEN raw[d]
                          ELSE IF Fulfilled(d) THEN facet[d].check ELSE NoCheck]
               checks == IF ranges THEN Guarded(told) ELSE told
               keep(d) == IF d \in subject /\ Shown(checks[d], context)
                            THEN [check |-> checks[d], valid |-> TRUE]
                          ELSE IF d \in subject \cup withdrawn
                            THEN [facet[d] EXCEPT !.valid = FALSE]
                          ELSE facet[d]
               merged == [d \in Duties |-> IF keep(d).valid THEN keep(d).check ELSE NoCheck]
           IN /\ ranges \/ \E d \in subject : raw[d] = NoCheck
              /\ facet' = [d \in Duties |-> keep(d)]
              /\ \E v \in Concluded(merged, ranges, context) :
                   IF v.gap
                     THEN /\ verdict' = v /\ checkpoint' = Checkpointed(v, context)
                          /\ Goes("inputs") /\ UNCHANGED stored
                     ELSE Concludes(v)
<1>5. ASSUME NEW subject \in SUBSET Duties, NEW ranges \in BOOLEAN,
             NEW raw \in Opinions(subject), NEW withdrawn \in SUBSET (Proven \ subject),
             Reviewed(subject, ranges, raw, withdrawn)
      PROVE  RepairInv'
  <2> DEFINE told == [d \in Duties |-> IF d \in subject THEN raw[d]
                        ELSE IF Fulfilled(d) THEN facet[d].check ELSE NoCheck]
             checks == IF ranges THEN Guarded(told) ELSE told
             keep(d) == IF d \in subject /\ Shown(checks[d], context)
                          THEN [check |-> checks[d], valid |-> TRUE]
                        ELSE IF d \in subject \cup withdrawn
                          THEN [facet[d] EXCEPT !.valid = FALSE]
                        ELSE facet[d]
             merged == [d \in Duties |-> IF keep(d).valid THEN keep(d).check ELSE NoCheck]
  <2>1. /\ told \in [Duties -> Checks]
        /\ \A d \in subject : told[d] = NoCheck \/ told[d].seen = records
    <3>1. \A d \in Duties : facet[d].check \in Checks
      BY <1>1 DEF RepairTypeOK, Facets
    <3>2. \A d \in subject : raw[d] \in Checks /\ (raw[d] = NoCheck \/ raw[d].seen = records)
      BY <1>1, <1>5, OpinionFacts
    <3> QED BY <3>1, <3>2, NothingKnown
  <2> HIDE DEF told
  <2>2. /\ checks \in [Duties -> Checks]
        /\ \A d \in subject : checks[d] = NoCheck \/ checks[d].seen = records
    <3>1. CASE ranges
      BY <2>1, <3>1, GuardedFacts
    <3>2. CASE ~ranges
      BY <2>1, <3>2
    <3> QED BY <3>1, <3>2
  <2> HIDE DEF checks
  <2>3. ASSUME NEW d \in Duties
        PROVE  /\ keep(d) \in Facets /\ keep(d).check.seen \subseteq records
               /\ keep(d).valid => Covers(keep(d).check, records)
    <3>1. /\ facet[d] \in Facets /\ facet[d].check.seen \subseteq records
          /\ facet[d].valid => Covers(facet[d].check, records)
      BY <1>1 DEF RepairInv, RepairTypeOK, FacetInv
    <3>2. CASE keep(d) = facet[d]
      BY <3>1, <3>2
    <3>3. CASE keep(d) = [facet[d] EXCEPT !.valid = FALSE]
      <4>1. keep(d) = [check |-> facet[d].check, valid |-> FALSE]
        BY <3>1, <3>3 DEF Facets
      <4>2. facet[d].check \in Checks
        BY <3>1 DEF Facets
      <4> HIDE DEF keep
      <4> QED BY <3>1, <4>1, <4>2 DEF Facets
    <3>4. CASE d \in subject /\ keep(d) = [check |-> checks[d], valid |-> TRUE]
      <4>1. checks[d] \in Checks
        BY <2>2
      <4>2. checks[d].seen \subseteq records /\ Covers(checks[d], records)
        <5>1. CASE checks[d] = NoCheck
          BY <5>1, NothingKnown DEF NoCheck
        <5>2. CASE checks[d].seen = records
          BY <5>2 DEF Covers
        <5> QED BY <2>2, <3>4, <5>1, <5>2
      <4>3. keep(d) = [check |-> checks[d], valid |-> TRUE]
        BY <3>4
      <4> HIDE DEF keep
      <4> QED BY <4>1, <4>2, <4>3 DEF Facets
    <3> QED BY <3>2, <3>3, <3>4
  <2>4. PICK v \in Concluded(merged, ranges, context) :
           /\ facet' = [d \in Duties |-> keep(d)]
           /\ IF v.gap
                THEN /\ verdict' = v /\ checkpoint' = Checkpointed(v, context)
                     /\ Goes("inputs") /\ UNCHANGED stored
                ELSE Concludes(v)
    BY <1>5 DEF told, checks
  <2> HIDE DEF keep
  <2>5. /\ merged \in [Duties -> Checks]
        /\ AllCover(merged, records) /\ SeenIn(merged, records)
    <3>1. \A d \in Duties : /\ merged[d] \in Checks /\ Covers(merged[d], records)
                            /\ merged[d].seen \subseteq records
      <4>1. Covers(NoCheck, records) /\ NoCheck.seen \subseteq records /\ NoCheck \in Checks
        BY NothingKnown DEF NoCheck
      <4>2. \A d \in Duties : keep(d).check \in Checks
        BY <2>3 DEF Facets
      <4> QED BY <2>3, <4>1, <4>2
    <3> QED BY <3>1 DEF AllCover, SeenIn
  <2> HIDE DEF merged
  <2>6. facet' \in [Duties -> Facets]
    BY <2>3, <2>4
  <2>7. FacetInv'
    <3>1. \A d \in Duties : facet'[d] = keep(d)
      BY <2>4
    <3> QED BY <1>1, <1>2, <2>3, <3>1 DEF FacetInv
  <2>8. /\ v \in ReviewVerdicts /\ AllCover(v.check, records) /\ SeenIn(v.check, records)
        /\ (v.sound => v.partial # {})
    BY <2>5, ConcludedFacts
  <2>9. /\ verdict' \in ReviewVerdicts /\ stored' \subseteq Duties
        /\ step' \in Steps /\ outcome' \in Outcomes /\ checkpoint' \in Outcomes
        /\ KnownInv' /\ VerdictInv' /\ CheckpointInv' /\ OutcomeInv'
    <3>1. CASE Concludes(v)
      BY <1>1, <1>2, <2>8, <3>1, ConcludesFacts
    <3>2. CASE /\ verdict' = v /\ checkpoint' = Checkpointed(v, context)
               /\ Goes("inputs") /\ UNCHANGED stored
      <4>1. OutcomeInv' /\ outcome' \in Outcomes /\ step' = "inputs"
        BY <1>1, <3>2, GoesOn
      <4>2. /\ checkpoint' \in Outcomes /\ SeenIn(checkpoint'.check, records)
            /\ \A d \in checkpoint'.scope : Covers(checkpoint'.check[d], records)
        BY <1>1, <2>8, <3>2, CheckpointedFacts DEF RepairInv
      <4>3. CheckpointInv'
        BY <1>2, <4>2 DEF CheckpointInv
      <4>4. KnownInv'
        BY <1>1, <1>2, <4>1 DEF KnownInv
      <4>5. VerdictInv'
        BY <1>1, <1>2, <2>8, <3>2, <4>1 DEF VerdictInv
      <4>6. stored' \subseteq Duties
        BY <1>1, <3>2 DEF RepairTypeOK
      <4> QED BY <2>8, <3>2, <4>1, <4>2, <4>3, <4>4, <4>5, <4>6 DEF Steps
    <3> QED BY <2>4, <3>1, <3>2
  <2>10. RepairTypeOK'
    BY <1>1, <1>2, <1>3, <2>6, <2>9 DEF RepairTypeOK, Steps
  <2> QED BY <2>7, <2>9, <2>10 DEF RepairInv
<1>6. \/ Returns(checkpoint) /\ UNCHANGED <<facet, verdict, stored, checkpoint>>
      \/ \E subject \in SUBSET Duties, ranges \in BOOLEAN :
           /\ Subset(subject)
           /\ \E raw \in Opinions(subject), withdrawn \in SUBSET (Proven \ subject) :
                Reviewed(subject, ranges, raw, withdrawn)
  BY Zenon DEF Review
<1> HIDE DEF Reviewed
<1> QED BY <1>4, <1>5, <1>6

LEMMA ReviewInputsStep ==
    ASSUME RepairInv, ReviewInputs PROVE RepairInv'
<1>1. /\ UNCHANGED <<mapVars, findVars, reviews, unreviewed>> /\ step = "inputs"
      /\ RepairTypeOK /\ known = records
  BY DEF ReviewInputs, RepairInv, KnownInv
<1>2. UNCHANGED <<facet, known, reviewing, records, context, found, rounds>>
  BY <1>1 DEF mapVars, findVars
<1>3. CASE Returns(checkpoint) /\ UNCHANGED handVars
  <2>1. OutcomeInv' /\ outcome' \in Outcomes /\ step' = "done"
    BY <1>1, <1>2, <1>3, RepairEnds DEF RepairInv, RepairTypeOK, CheckpointInv
  <2> QED BY <1>1, <1>3, <2>1, QuietStep DEF RepairTypeOK
<1>4. ASSUME NEW v \in ReviewVerdicts, AllCover(v.check, records),
             SeenIn(v.check, records), v.sound => v.partial # {}, Concludes(v)
      PROVE  RepairInv'
  <2>1. /\ verdict' \in ReviewVerdicts /\ stored' \subseteq Duties
        /\ step' \in Steps /\ outcome' \in Outcomes /\ checkpoint' \in Outcomes
        /\ KnownInv' /\ VerdictInv' /\ CheckpointInv' /\ OutcomeInv'
    BY <1>1, <1>2, <1>4, ConcludesFacts
  <2>2. RepairTypeOK'
    BY <1>1, <1>2, <2>1 DEF RepairTypeOK, Steps
  <2>3. FacetInv'
    BY <1>2 DEF RepairInv, FacetInv
  <2> QED BY <2>1, <2>2, <2>3 DEF RepairInv
<1>5. /\ verdict \in ReviewVerdicts /\ AllCover(verdict.check, records)
      /\ SeenIn(verdict.check, records) /\ (verdict.sound => verdict.partial # {})
  BY <1>1 DEF RepairInv, RepairTypeOK, VerdictInv
<1>6. CASE Concludes(verdict)
  BY <1>4, <1>5, <1>6
<1> DEFINE settled == [verdict EXCEPT !.gap = FALSE]
<1>7. CASE Concludes(settled)
  <2>1. /\ settled \in ReviewVerdicts /\ settled.check = verdict.check
        /\ settled.sound = verdict.sound /\ settled.partial = verdict.partial
    BY <1>5 DEF ReviewVerdicts
  <2> HIDE DEF settled
  <2> QED BY <1>4, <1>5, <1>7, <2>1
<1> QED BY <1>3, <1>6, <1>7 DEF ReviewInputs

LEMMA PursueStep ==
    ASSUME RepairInv, Pursue PROVE RepairInv'
<1>1. /\ UNCHANGED <<mapVars, records, found, rounds, verdict, checkpoint, reviews,
                     unreviewed>>
      /\ step = "gaps" /\ RepairTypeOK /\ known = records
  BY DEF Pursue, RepairInv, KnownInv
<1>2. UNCHANGED <<facet, known, reviewing>>
  BY <1>1 DEF mapVars
<1>3. context' \in Contexts
  <2>1. context' \in SUBSET context
    BY DEF Pursue, Cited
  <2> QED BY <1>1, <2>1, SmallerContext DEF RepairTypeOK
<1>4. stored' \subseteq Duties
  BY <1>1 DEF Pursue, RepairTypeOK, ReviewVerdicts
<1>5. OutcomeInv' /\ outcome' \in Outcomes /\ step' \in {"search", "finish", "done"}
  <2>1. CASE Goes("search")
    BY <1>1, <2>1, GoesOn
  <2>2. CASE Goes("finish")
    BY <1>1, <2>2, GoesOn
  <2>3. CASE Returns(checkpoint)
    BY <1>1, <2>3, RepairEnds DEF RepairInv, RepairTypeOK, CheckpointInv
  <2> QED BY <2>1, <2>2, <2>3 DEF Pursue
<1>6. RepairTypeOK'
  BY <1>1, <1>2, <1>3, <1>4, <1>5 DEF RepairTypeOK
<1>7. KnownInv' /\ FacetInv' /\ CheckpointInv'
  BY <1>1, <1>2, <1>5 DEF RepairInv, KnownInv, FacetInv, CheckpointInv
<1>8. VerdictInv'
  BY <1>1, <1>2, <1>5 DEF RepairInv, VerdictInv
<1> QED BY <1>5, <1>6, <1>7, <1>8 DEF RepairInv

-----------------------------------------------------------------------------
LEMMA RepairStarts ==
    ASSUME RepairInit PROVE RepairInv
<1>1. /\ step = "plan" /\ facet = [d \in Duties |-> [check |-> NoCheck, valid |-> FALSE]]
      /\ records \in SUBSET Amendments /\ known = records /\ context \in Contexts
      /\ found = {} /\ reviewing = {} /\ verdict = NoVerdict /\ stored = {}
      /\ checkpoint = Nothing /\ rounds = 0 /\ reviews = 0 /\ outcome = Nothing
      /\ unreviewed = FALSE
  BY DEF RepairInit
<1>2. {} \in Contexts /\ 0 \in 0 .. Rounds /\ 0 \in 0 .. Reviews
  BY RepairAssumption DEF Contexts, OneReading
<1>3. facet \in [Duties -> Facets] /\ FacetInv
  <2>1. [check |-> NoCheck, valid |-> FALSE] \in Facets /\ NoCheck.seen \subseteq records
    BY NothingKnown DEF Facets, NoCheck
  <2> QED BY <1>1, <2>1 DEF FacetInv
<1>4. RepairTypeOK
  BY <1>1, <1>2, <1>3, NothingKnown DEF RepairTypeOK
<1>5. VerdictInv
  <2>1. ~NoVerdict.sound
    BY DEF NoVerdict
  <2> QED BY <1>1, <2>1, NothingKnown DEF VerdictInv
<1>6. KnownInv /\ CheckpointInv /\ OutcomeInv
  BY <1>1, NothingKnown DEF KnownInv, CheckpointInv, OutcomeInv
<1> QED BY <1>3, <1>4, <1>5, <1>6 DEF RepairInv

LEMMA RepairSteps ==
    ASSUME RepairInv, [RepairNext]_repairVars PROVE RepairInv'
<1>1. CASE UNCHANGED repairVars
  <2>1. UNCHANGED <<step, facet, known, reviewing, records, context, found, rounds,
                    verdict, stored, checkpoint, reviews, outcome, unreviewed>>
    BY <1>1 DEF repairVars, mapVars, findVars, handVars
  <2>2. RepairTypeOK'
    BY <2>1 DEF RepairInv, RepairTypeOK
  <2>3. KnownInv' /\ FacetInv' /\ VerdictInv' /\ CheckpointInv' /\ OutcomeInv'
    BY <2>1 DEF RepairInv, KnownInv, FacetInv, VerdictInv, CheckpointInv, OutcomeInv
  <2> QED BY <2>2, <2>3 DEF RepairInv
<1>2. CASE RepairNext
  BY <1>2, PlanUnreviewedStep, PlanCompleteStep, PlanPartialStep, RefuseSearchStep,
     RetrieveStep, AdmitStep, RefuseReviewStep, ReviewedStep, ReviewInputsStep, PursueStep,
     HandOverStep, CutStep
     DEF RepairNext
<1> QED BY <1>1, <1>2

LEMMA RepairInvariant == RepairSpec => []RepairInv
  BY RepairStarts, RepairSteps, PTL DEF RepairSpec

\* repair_knowledge_evidence keeps the types of its proof map, verdict and checkpoint,
\* and never searches or reviews more often than its schedule allows.
THEOREM RepairTypeCorrect == RepairSpec => []RepairTypeOK
<1>1. RepairInv => RepairTypeOK
  BY DEF RepairInv
<1> QED BY <1>1, RepairInvariant, PTL

\* No authority about proof is overlooked: what the repair hands over was reviewed in
\* the light of every authority record about it that the turn had found, for every number
\* of duties, passages, readings, records and rounds.
THEOREM NoAuthorityOverlooked == RepairSpec => []AuthorityReviewed
<1>1. RepairInv => AuthorityReviewed
  BY DEF RepairInv, OutcomeInv, AuthorityReviewed, Covers
<1> QED BY <1>1, RepairInvariant, PTL

-----------------------------------------------------------------------------
(* TurnMC: the parts side by side.                                          *)

\* A behaviour of the composed instance is a behaviour of each of its parts, so what is
\* proved of a part holds of the whole: recovery, turn, repair and review share no state.
THEOREM PartsKeepTheirSpecs == Spec => RecoverySpec /\ TurnSpec /\ RepairSpec /\ ReviewSpec
<1>1. Init => RecoveryInit /\ TurnInit /\ RepairInit /\ ReviewInit
  BY DEF Init
<1>2. [Next]_<<part, recoveryVars, turnVars, repairVars, linkVars>>
        => /\ [RecoveryNext]_recoveryVars /\ [TurnNext]_turnVars
           /\ [RepairNext]_repairVars /\ [ReviewNext]_linkVars
  BY DEF Next
<1> QED BY <1>1, <1>2, PTL DEF Spec, RecoverySpec, TurnSpec, RepairSpec, ReviewSpec

\* Every variable of the composed instance keeps its type.
THEOREM TurnPartsTypeCorrect == Spec => []TypeOK
<1>1. RecoveryTypeOK /\ TurnTypeOK /\ RepairTypeOK /\ ReviewTypeOK => TypeOK
  BY DEF TypeOK
<1> QED BY <1>1, PartsKeepTheirSpecs, RecoveryTypeCorrect, TurnTypeCorrect,
           RepairTypeCorrect, ReviewTypeCorrect, PTL
=============================================================================
