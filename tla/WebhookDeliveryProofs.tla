----------------------- MODULE WebhookDeliveryProofs -----------------------
(***************************************************************************)
(* Proofs about WebhookDelivery for any number of endpoints, events,       *)
(* dispatchers and replays.  RowsInv describes the deliveries by           *)
(* themselves, AttemptsInv relates them to the dispatcher processes and to *)
(* the HTTP exchanges that took place.                                     *)
(***************************************************************************)
EXTENDS WebhookDelivery, TLAPS

Busy(d) == dispatcher[d].pc # "idle"

\* Deliveries and replay requests belong to published events, and only a
\* delivery in progress has a running lease.
RowsInv ==
    /\ \A k \in Keys : /\ Exists(k) => k.src \in published
                       /\ delivery[k].lease > 0 => delivery[k].state = "delivering"
    /\ \A o \in Operators : request[o] # NoKey => request[o].src \in published

\* A busy dispatcher works on an attempt the row has been charged for; it holds
\* the row only for the latest one.
ProcessBacked(d) ==
    Busy(d) => LET row == delivery[dispatcher[d].key] IN
               /\ dispatcher[d].attempt \in 1 .. row.attempts
               /\ row.state # "absent"
               /\ Holds(d) => dispatcher[d].attempt = row.attempts

SameAttempt(c, d) ==
    /\ Busy(c) /\ Busy(d)
    /\ dispatcher[c].key = dispatcher[d].key
    /\ dispatcher[c].attempt = dispatcher[d].attempt

PostedBy(d, p) == p[1] = dispatcher[d].key /\ p[2] = dispatcher[d].attempt

PostCharged(p) ==
    delivery[p[1]].state # "absent" /\ delivery[p[1]].attempts >= p[2]

AttemptsInv ==
    /\ \A d \in Dispatchers : ProcessBacked(d)
    /\ \A c, d \in Dispatchers : SameAttempt(c, d) => c = d
    /\ \A p \in posts : PostCharged(p)
    /\ \A d \in Dispatchers :
        /\ dispatcher[d].pc = "claimed" => \A p \in posts : ~PostedBy(d, p)
        /\ dispatcher[d].pc = "answered" =>
             <<dispatcher[d].key, dispatcher[d].attempt, dispatcher[d].answer>> \in posts

-----------------------------------------------------------------------------
LEMMA KeyFields ==
    ASSUME NEW k \in Keys
    PROVE  /\ k.ep \in Endpoints /\ k.src \in Sources /\ k.replay \in 0 .. MaxReplays
           /\ k # NoKey
  BY NoKeyAssumption DEF Keys

LEMMA RowFields ==
    ASSUME TypeOK, NEW k \in Keys
    PROVE  /\ delivery[k] \in DeliveryRecord
           /\ delivery[k].state \in DeliveryStates
           /\ delivery[k].attempts \in 0 .. MaxAttempts
           /\ delivery[k].owner \in Dispatchers \cup {NoDispatcher}
           /\ delivery[k].lease \in 0 .. LeaseTicks
           /\ delivery[k].due \in BOOLEAN
  <1>1. delivery[k] \in DeliveryRecord
    BY DEF TypeOK
  <1> QED BY <1>1 DEF DeliveryRecord

LEMMA ProcessFields ==
    ASSUME TypeOK, NEW d \in Dispatchers
    PROVE  /\ dispatcher[d].pc \in {"idle", "claimed", "answered"}
           /\ dispatcher[d].attempt \in 0 .. MaxAttempts
           /\ dispatcher[d].answer \in Answers
           /\ Busy(d) => dispatcher[d].key \in Keys
  <1>1. dispatcher[d] \in Process
    BY DEF TypeOK
  <1>2. dispatcher[d].pc # "idle" => dispatcher[d].key \in Keys
    BY DEF TypeOK
  <1> QED BY <1>1, <1>2 DEF Process, Busy

LEMMA RowTypes ==
    /\ Fresh \in DeliveryRecord
    /\ [Fresh EXCEPT !.state = "absent"] \in DeliveryRecord
    /\ IdleProcess \in Process
<1>1. Fresh \in DeliveryRecord
  BY WebhookAssumption DEF Fresh, DeliveryRecord, DeliveryStates, Waiting
<1>2. [Fresh EXCEPT !.state = "absent"] \in DeliveryRecord
  BY <1>1 DEF DeliveryRecord, DeliveryStates
<1>3. IdleProcess \in Process
  BY WebhookAssumption DEF IdleProcess, Process, Answers
<1> QED BY <1>1, <1>2, <1>3

LEMMA AfterAttemptType ==
    ASSUME NEW row \in DeliveryRecord, NEW answer \in Answers
    PROVE  /\ AfterAttempt(row, answer) \in DeliveryRecord
           /\ AfterAttempt(row, answer).attempts = row.attempts
           /\ AfterAttempt(row, answer).lease = 0
           /\ AfterAttempt(row, answer).state
                = IF answer = "ok" THEN "succeeded"
                  ELSE IF row.attempts < MaxAttempts THEN "retry_scheduled" ELSE "failed"
<1>0. \A s \in DeliveryStates, b \in BOOLEAN :
        /\ Released(row, s, b) \in DeliveryRecord
        /\ Released(row, s, b).attempts = row.attempts
        /\ Released(row, s, b).lease = 0
        /\ Released(row, s, b).state = s
  BY WebhookAssumption DEF Released, DeliveryRecord
<1>1. {"succeeded", "retry_scheduled", "failed"} \subseteq DeliveryStates
  BY DEF DeliveryStates, Waiting, Settled
<1> QED BY <1>0, <1>1 DEF AfterAttempt, Answers

-----------------------------------------------------------------------------
LEMMA TypePreserved ==
    ASSUME TypeOK, [Next]_vars
    PROVE  TypeOK'
  <1>t. /\ enabled \in [Endpoints -> BOOLEAN]
        /\ published \subseteq Sources
        /\ delivery \in [Keys -> DeliveryRecord]
        /\ recorded \subseteq Attempt
        /\ dispatcher \in [Dispatchers -> Process]
        /\ \A d \in Dispatchers : dispatcher[d].pc # "idle" => dispatcher[d].key \in Keys
        /\ request \in [Operators -> Keys \cup {NoKey}]
        /\ posts \subseteq Attempt
    BY DEF TypeOK
  <1>1. ASSUME NEW s \in Sources, Publish(s) PROVE TypeOK'
    <2>1. delivery' \in [Keys -> DeliveryRecord]
      BY <1>1, <1>t, RowTypes DEF Publish
    <2> QED BY <2>1, <1>1, <1>t DEF Publish, TypeOK
  <1>2. ASSUME NEW e \in Endpoints, SetEndpointStatus(e) PROVE TypeOK'
    BY <1>2, <1>t DEF SetEndpointStatus, TypeOK
  <1>3. ASSUME NEW o \in Operators, InsertReplay(o) PROVE TypeOK'
    <2>1. delivery' \in [Keys -> DeliveryRecord]
      BY <1>3, <1>t, RowTypes DEF InsertReplay
    <2> QED BY <2>1, <1>3, <1>t DEF InsertReplay, TypeOK
  <1>4. ASSUME NEW o \in Operators, NEW k \in Keys, ReadReplayNumber(o, k) PROVE TypeOK'
    <2>1. PICK r \in 0 .. MaxReplays :
            r < MaxReplays /\ request' = [request EXCEPT ![o] = Key(k.ep, k.src, r + 1)]
      BY <1>4 DEF ReadReplayNumber
    <2>2. Key(k.ep, k.src, r + 1) \in Keys
      BY <2>1, KeyFields, WebhookAssumption DEF Key, Keys
    <2> QED BY <2>1, <2>2, <1>4, <1>t DEF ReadReplayNumber, TypeOK
  <1>5. ASSUME NEW d \in Dispatchers, NEW k \in Keys, Claim(d, k) PROVE TypeOK'
    <2>1. Charged(delivery[k]) \in 0 .. MaxAttempts
      BY <1>5, RowFields, WebhookAssumption DEF Claim, Claimable, Charged
    <2>2. [state |-> "delivering", attempts |-> Charged(delivery[k]),
           owner |-> d, lease |-> LeaseTicks, due |-> TRUE] \in DeliveryRecord
      BY <2>1, WebhookAssumption DEF DeliveryRecord, DeliveryStates
    <2>3. [pc |-> "claimed", key |-> k, attempt |-> Charged(delivery[k]),
           answer |-> "error"] \in Process
      BY <2>1 DEF Process, Answers
    <2>4. delivery' \in [Keys -> DeliveryRecord] /\ dispatcher' \in [Dispatchers -> Process]
      BY <2>2, <2>3, <1>5, <1>t DEF Claim
    <2>5. \A c \in Dispatchers : dispatcher'[c].pc # "idle" => dispatcher'[c].key \in Keys
      BY <1>5, <1>t DEF Claim
    <2> QED BY <2>4, <2>5, <1>5, <1>t DEF Claim, TypeOK
  <1>6. ASSUME NEW d \in Dispatchers, NEW answer \in Answers, Post(d, answer) PROVE TypeOK'
    <2>1. [dispatcher[d] EXCEPT !.pc = "answered", !.answer = answer] \in Process
      BY <1>t DEF Process
    <2>2. dispatcher' \in [Dispatchers -> Process]
      BY <2>1, <1>6, <1>t DEF Post, Process
    <2>3. \A c \in Dispatchers : dispatcher'[c].pc # "idle" => dispatcher'[c].key \in Keys
      BY <1>6, <1>t DEF Post, Process
    <2>4. <<dispatcher[d].key, dispatcher[d].attempt, answer>> \in Attempt
      BY <1>6, ProcessFields DEF Post, Attempt, Busy
    <2> QED BY <2>2, <2>3, <2>4, <1>6, <1>t DEF Post, TypeOK
  <1>7. ASSUME NEW d \in Dispatchers, Finish(d) PROVE TypeOK'
    <2>1. dispatcher[d].key \in Keys /\ dispatcher[d].answer \in Answers
      BY <1>7, ProcessFields DEF Finish, Busy
    <2> DEFINE k == dispatcher[d].key
               answer == dispatcher[d].answer
    <2>2. AfterAttempt(delivery[k], answer) \in DeliveryRecord
      BY <2>1, RowFields, AfterAttemptType
    <2>3. delivery' \in [Keys -> DeliveryRecord]
      BY <2>1, <2>2, <1>7, <1>t DEF Finish
    <2>4. <<k, delivery[k].attempts, answer>> \in Attempt
      BY <2>1, RowFields DEF Attempt
    <2>5. dispatcher' \in [Dispatchers -> Process]
      BY <1>7, <1>t, RowTypes DEF Finish
    <2>6. \A c \in Dispatchers : dispatcher'[c].pc # "idle" => dispatcher'[c].key \in Keys
      BY <1>7, <1>t DEF Finish, IdleProcess
    <2> QED BY <2>3, <2>4, <2>5, <2>6, <1>7, <1>t DEF Finish, TypeOK
  <1>8. ASSUME NEW d \in Dispatchers, DiscardAnswer(d) PROVE TypeOK'
    <2>1. dispatcher' \in [Dispatchers -> Process]
      BY <1>8, <1>t, RowTypes DEF DiscardAnswer
    <2>2. \A c \in Dispatchers : dispatcher'[c].pc # "idle" => dispatcher'[c].key \in Keys
      BY <1>8, <1>t DEF DiscardAnswer, IdleProcess
    <2> QED BY <2>1, <2>2, <1>8, <1>t DEF DiscardAnswer, TypeOK
  <1>9. ASSUME NEW d \in Dispatchers, DispatcherCrash(d) PROVE TypeOK'
    <2>1. dispatcher' \in [Dispatchers -> Process]
      BY <1>9, <1>t, RowTypes DEF DispatcherCrash
    <2>2. \A c \in Dispatchers : dispatcher'[c].pc # "idle" => dispatcher'[c].key \in Keys
      BY <1>9, <1>t DEF DispatcherCrash, IdleProcess
    <2> QED BY <2>1, <2>2, <1>9, <1>t DEF DispatcherCrash, TypeOK
  <1>10. ASSUME NEW k \in Keys, LeaseTick(k) PROVE TypeOK'
    <2>1. [delivery[k] EXCEPT !.lease = @ - 1] \in DeliveryRecord
      BY <1>10, RowFields, WebhookAssumption DEF LeaseTick, DeliveryRecord
    <2> QED BY <2>1, <1>10, <1>t DEF LeaseTick, TypeOK
  <1>11. ASSUME NEW k \in Keys, BackoffElapses(k) PROVE TypeOK'
    <2>1. [delivery[k] EXCEPT !.due = TRUE] \in DeliveryRecord
      BY RowFields DEF DeliveryRecord
    <2> QED BY <2>1, <1>11, <1>t DEF BackoffElapses, TypeOK
  <1>12. CASE UNCHANGED vars
    BY <1>12, <1>t DEF vars, TypeOK
  <1> QED
    BY <1>1, <1>2, <1>3, <1>4, <1>5, <1>6, <1>7, <1>8, <1>9, <1>10, <1>11, <1>12
    DEF Next, DispatcherStep

\* Every variable of the webhook tables and of the dispatcher processes keeps
\* its type; in particular no delivery is ever charged more than max_attempts.
THEOREM TypeCorrect == Spec => []TypeOK
<1>1. Init => TypeOK
  <2> SUFFICES ASSUME Init PROVE TypeOK
    OBVIOUS
  <2>1. delivery \in [Keys -> DeliveryRecord] /\ dispatcher \in [Dispatchers -> Process]
    BY RowTypes DEF Init
  <2>2. \A d \in Dispatchers : dispatcher[d].pc = "idle"
    BY DEF Init, IdleProcess
  <2> QED BY <2>1, <2>2 DEF Init, TypeOK
<1>2. TypeOK /\ [Next]_vars => TypeOK'
  BY TypePreserved
<1> QED BY <1>1, <1>2, PTL DEF Spec

-----------------------------------------------------------------------------
(* Deliveries.  Each action is described by what it does to one row.        *)

\* What the row of one key may become, and the request that may follow.
RowStep(k) ==
    \/ delivery'[k] = delivery[k]
    \/ /\ ~Exists(k) /\ delivery'[k] = Fresh
       /\ k.src \in published'
    \/ /\ delivery[k].state \in Waiting \cup {"delivering"}
       /\ delivery'[k].state # "absent"
       /\ delivery'[k].lease > 0 => delivery'[k].state = "delivering"
       /\ delivery'[k].attempts >= delivery[k].attempts

LEMMA FinishRow ==
    ASSUME TypeOK, NEW d \in Dispatchers, Finish(d),
           NEW k \in Keys, k = dispatcher[d].key
    PROVE  /\ delivery[k].state = "delivering"
           /\ delivery' = [delivery EXCEPT ![k] = AfterAttempt(delivery[k], dispatcher[d].answer)]
           /\ delivery'[k] = AfterAttempt(delivery[k], dispatcher[d].answer)
           /\ delivery'[k].attempts = delivery[k].attempts
           /\ delivery'[k].lease = 0
           /\ delivery'[k].state
                = IF dispatcher[d].answer = "ok" THEN "succeeded"
                  ELSE IF delivery[k].attempts < MaxAttempts THEN "retry_scheduled" ELSE "failed"
  <1>1. /\ delivery[k].state = "delivering"
        /\ delivery' = [delivery EXCEPT ![k] = AfterAttempt(@, dispatcher[d].answer)]
    BY DEF Finish, Holds
  <1>2. delivery \in [Keys -> DeliveryRecord] /\ dispatcher[d].answer \in Answers
    BY ProcessFields DEF TypeOK
  <1>3. delivery'[k] = AfterAttempt(delivery[k], dispatcher[d].answer)
    BY <1>1, <1>2
  <1> QED BY <1>1, <1>2, <1>3, AfterAttemptType

LEMMA EveryRowStep ==
    ASSUME TypeOK, RowsInv, [Next]_vars
    PROVE  \A k \in Keys : RowStep(k)
  <1> SUFFICES ASSUME NEW k \in Keys PROVE RowStep(k)
    OBVIOUS
  <1>t. delivery \in [Keys -> DeliveryRecord] /\ request \in [Operators -> Keys \cup {NoKey}]
    BY DEF TypeOK
  <1>1. ASSUME NEW s \in Sources, Publish(s) PROVE RowStep(k)
    BY <1>1, <1>t DEF Publish, RowStep, RowsInv
  <1>2. ASSUME NEW o \in Operators, InsertReplay(o) PROVE RowStep(k)
    BY <1>2, <1>t DEF InsertReplay, RowStep, RowsInv
  <1>3. ASSUME NEW d \in Dispatchers, NEW l \in Keys, Claim(d, l) PROVE RowStep(k)
    <2>1. CASE l = k
      BY <1>3, <1>t, <2>1, RowFields DEF Claim, Claimable, Charged, RowStep
    <2> QED BY <1>3, <1>t, <2>1 DEF Claim, RowStep
  <1>4. ASSUME NEW d \in Dispatchers, Finish(d) PROVE RowStep(k)
    <2>1. dispatcher[d].key \in Keys
      BY <1>4, ProcessFields DEF Finish, Busy
    <2>2. CASE dispatcher[d].key = k
      BY <1>4, <2>2, FinishRow, RowFields DEF RowStep
    <2> QED BY <1>4, <1>t, <2>1, <2>2 DEF Finish, RowStep
  <1>5. ASSUME NEW l \in Keys, LeaseTick(l) PROVE RowStep(k)
    <2>1. CASE l = k
      <3>1. delivery[k].state = "delivering"
        BY <1>5, <2>1 DEF LeaseTick, RowsInv
      <3>2. delivery'[k].state = delivery[k].state /\ delivery'[k].attempts = delivery[k].attempts
        BY <1>5, <1>t, <2>1 DEF LeaseTick, DeliveryRecord
      <3> QED BY <3>1, <3>2, RowFields DEF RowStep
    <2> QED BY <1>5, <1>t, <2>1 DEF LeaseTick, RowStep
  <1>6. ASSUME NEW l \in Keys, BackoffElapses(l) PROVE RowStep(k)
    <2>1. CASE l = k
      <3>1. /\ delivery[k].state = "retry_scheduled"
            /\ delivery'[k].state = delivery[k].state
            /\ delivery'[k].attempts = delivery[k].attempts
            /\ delivery'[k].lease = delivery[k].lease
        BY <1>6, <1>t, <2>1 DEF BackoffElapses, DeliveryRecord
      <3> QED BY <3>1, RowFields DEF RowStep, RowsInv, Waiting
    <2> QED BY <1>6, <1>t, <2>1 DEF BackoffElapses, RowStep
  <1>7. CASE delivery' = delivery
    BY <1>7 DEF RowStep
  <1> QED
    BY <1>1, <1>2, <1>3, <1>4, <1>5, <1>6, <1>7
    DEF Next, DispatcherStep, SetEndpointStatus, ReadReplayNumber, Post, DiscardAnswer,
        DispatcherCrash, vars

LEMMA RowsStep ==
    ASSUME TypeOK, RowsInv, [Next]_vars
    PROVE  RowsInv'
  <1>1. published \subseteq published'
    BY DEF Next, DispatcherStep, Publish, SetEndpointStatus, InsertReplay, ReadReplayNumber,
           Claim, Post, Finish, DiscardAnswer, DispatcherCrash, LeaseTick, BackoffElapses, vars
  <1>2. ASSUME NEW k \in Keys
        PROVE  /\ Exists(k)' => k.src \in published'
               /\ delivery'[k].lease > 0 => delivery'[k].state = "delivering"
    <2>1. RowStep(k)
      BY EveryRowStep
    <2>2. Fresh.lease = 0 /\ Fresh.state = "pending"
      BY DEF Fresh
    <2> QED BY <1>1, <2>1, <2>2, RowFields DEF RowStep, RowsInv, Exists, Waiting
  <1>3. ASSUME NEW o \in Operators, request'[o] # NoKey PROVE request'[o].src \in published'
    <2>t. request \in [Operators -> Keys \cup {NoKey}]
      BY DEF TypeOK
    <2>1. CASE request'[o] = request[o]
      BY <1>1, <1>3, <2>1 DEF RowsInv
    <2>2. ASSUME NEW q \in Operators, NEW k \in Keys, ReadReplayNumber(q, k)
          PROVE  request'[o].src \in published'
      <3>1. PICK r \in 0 .. MaxReplays : request' = [request EXCEPT ![q] = Key(k.ep, k.src, r + 1)]
        BY <2>2 DEF ReadReplayNumber
      <3>2. k.src \in published
        BY <2>2 DEF ReadReplayNumber, RowsInv
      <3>3. CASE q = o
        BY <3>1, <3>2, <3>3, <1>1, <2>t DEF Key
      <3> QED BY <3>1, <3>3, <2>1, <2>t
    <2>3. ASSUME NEW q \in Operators, InsertReplay(q) PROVE request'[o].src \in published'
      BY <2>3, <2>t, <2>1, <1>3 DEF InsertReplay
    <2> QED
      BY <2>1, <2>2, <2>3
      DEF Next, DispatcherStep, Publish, SetEndpointStatus, Claim, Post, Finish, DiscardAnswer,
          DispatcherCrash, LeaseTick, BackoffElapses, vars
  <1> QED BY <1>2, <1>3 DEF RowsInv

LEMMA RowsInit == Init => RowsInv
  BY DEF Init, RowsInv, Exists, Fresh

LEMMA RowsCorrect == Spec => []RowsInv
<1>1. TypeOK /\ RowsInv /\ [Next]_vars => RowsInv'
  BY RowsStep
<1> QED BY <1>1, RowsInit, TypeCorrect, PTL DEF Spec

\* Whatever the order of replays, claims and late answers, a delivery that
\* exists is never removed, reset to fewer attempts or reopened after it settled.
THEOREM DeliveriesKept == Spec => NoDeliveryReset
<1>1. ASSUME TypeOK, RowsInv, [Next]_vars PROVE \A k \in Keys : HistoryKept(k)
  <2> SUFFICES ASSUME NEW k \in Keys PROVE HistoryKept(k)
    OBVIOUS
  <2>1. RowStep(k)
    BY <1>1, EveryRowStep
  <2> QED BY <1>1, <2>1, RowFields DEF RowStep, HistoryKept, Exists, Settled, Waiting
<1>2. TypeOK /\ RowsInv /\ [Next]_vars => [\A k \in Keys : HistoryKept(k)]_vars
  BY <1>1
<1> QED BY <1>2, TypeCorrect, RowsCorrect, PTL DEF Spec, NoDeliveryReset

-----------------------------------------------------------------------------
(* Attempts.  The claim of a delivery takes a number no process and no HTTP *)
(* exchange has; every other step keeps the numbers of the rows.            *)

\* A process that is busy after the step was already busy with the same attempt,
\* and keeps the attempt the row has been charged for.
LEMMA OldProcess ==
    ASSUME TypeOK, RowsInv, AttemptsInv, [Next]_vars, NEW d \in Dispatchers,
           dispatcher'[d].key = dispatcher[d].key,
           dispatcher'[d].attempt = dispatcher[d].attempt,
           Busy(d), dispatcher[d].key \in Keys
    PROVE  /\ dispatcher'[d].attempt \in 1 .. delivery'[dispatcher[d].key].attempts
           /\ delivery'[dispatcher[d].key].state # "absent"
  <1> DEFINE k == dispatcher[d].key
  <1>1. /\ dispatcher[d].attempt \in 1 .. delivery[k].attempts
        /\ delivery[k].state # "absent"
    BY DEF AttemptsInv, ProcessBacked
  <1>2. RowStep(k)
    BY EveryRowStep
  <1>3. /\ delivery'[k].state # "absent"
        /\ delivery'[k].attempts >= delivery[k].attempts
    BY <1>1, <1>2, RowFields DEF RowStep, Exists
  <1>4. delivery'[k].attempts \in Nat /\ delivery[k].attempts \in Nat
    <2>1. delivery' \in [Keys -> DeliveryRecord] /\ delivery \in [Keys -> DeliveryRecord]
      BY TypePreserved DEF TypeOK
    <2> QED BY <2>1, WebhookAssumption DEF DeliveryRecord
  <1> QED BY <1>1, <1>3, <1>4

LEMMA ClaimStep ==
    ASSUME TypeOK, TypeOK', RowsInv, AttemptsInv, [Next]_vars,
           NEW d \in Dispatchers, NEW k \in Keys, Claim(d, k)
    PROVE  AttemptsInv'
  <1>t. /\ delivery \in [Keys -> DeliveryRecord]
        /\ dispatcher \in [Dispatchers -> Process]
        /\ posts \subseteq Attempt
    BY DEF TypeOK
  <1> DEFINE n == delivery[k].attempts
  <1>1. /\ n \in Nat /\ n + 1 <= MaxAttempts
        /\ delivery[k].state # "absent"
        /\ delivery'[k].attempts = n + 1 /\ delivery'[k].state = "delivering"
        /\ delivery'[k].owner = d
        /\ \A l \in Keys : l # k => delivery'[l] = delivery[l]
        /\ dispatcher'[d].pc = "claimed" /\ dispatcher'[d].key = k
        /\ dispatcher'[d].attempt = n + 1
        /\ \A c \in Dispatchers : c # d => dispatcher'[c] = dispatcher[c]
        /\ posts' = posts
    <2>1. n \in Nat /\ n < MaxAttempts /\ delivery[k].state \in Waiting \cup {"delivering"}
      BY RowFields DEF Claim, Claimable
    <2>2. Charged(delivery[k]) = n + 1
      BY DEF Charged
    <2> QED BY <2>1, <2>2, <1>t, WebhookAssumption DEF Claim, Waiting
  <1>2. \A c \in Dispatchers : ProcessBacked(c)'
    <2> SUFFICES ASSUME NEW c \in Dispatchers, Busy(c)'
                 PROVE ProcessBacked(c)'
      BY DEF ProcessBacked
    <2>1. CASE c = d
      BY <1>1, <2>1 DEF ProcessBacked
    <2>2. CASE c # d
      <3>1. Busy(c) /\ dispatcher'[c] = dispatcher[c] /\ dispatcher[c].key \in Keys
        BY <1>1, <2>2, ProcessFields DEF Busy
      <3>2. /\ dispatcher'[c].attempt \in 1 .. delivery'[dispatcher[c].key].attempts
            /\ delivery'[dispatcher[c].key].state # "absent"
        BY <3>1, OldProcess
      <3>3. CASE dispatcher[c].key = k
        BY <1>1, <2>2, <3>1, <3>2, <3>3 DEF ProcessBacked, Holds
      <3>4. CASE dispatcher[c].key # k
        BY <1>1, <3>1, <3>2, <3>4 DEF ProcessBacked, Holds, AttemptsInv
      <3> QED BY <3>3, <3>4
    <2> QED BY <2>1, <2>2
  <1>3. \A b, c \in Dispatchers : SameAttempt(b, c)' => b = c
    <2>1. ASSUME NEW c \in Dispatchers, c # d, Busy(c), dispatcher[c].key = k
          PROVE  dispatcher[c].attempt # n + 1
      <3>1. dispatcher[c].attempt \in 1 .. n
        BY <2>1 DEF AttemptsInv, ProcessBacked
      <3> QED BY <1>1, <3>1
    <2>2. \A b, c \in Dispatchers : SameAttempt(b, c) => b = c
      BY DEF AttemptsInv
    <2> QED BY <1>1, <2>1, <2>2 DEF SameAttempt, Busy
  <1>4. \A p \in posts : p[1] \in Keys /\ p[2] \in Nat
    BY <1>t DEF Attempt
  <1>5. \A p \in posts : PostCharged(p)
    BY DEF AttemptsInv
  <1>6. \A p \in posts' : PostCharged(p)'
    BY <1>1, <1>4, <1>5 DEF PostCharged
  <1>7. \A p \in posts : ~(p[1] = k /\ p[2] = n + 1)
    BY <1>1, <1>4, <1>5 DEF PostCharged
  <1>8. \A c \in Dispatchers :
        /\ dispatcher'[c].pc = "claimed" => \A p \in posts' : ~PostedBy(c, p)'
        /\ dispatcher'[c].pc = "answered" =>
             <<dispatcher'[c].key, dispatcher'[c].attempt, dispatcher'[c].answer>> \in posts'
    BY <1>1, <1>7 DEF PostedBy, AttemptsInv
  <1> QED BY <1>2, <1>3, <1>6, <1>8 DEF AttemptsInv

LEMMA PostStep ==
    ASSUME TypeOK, TypeOK', RowsInv, AttemptsInv, [Next]_vars,
           NEW d \in Dispatchers, NEW answer \in Answers, Post(d, answer)
    PROVE  AttemptsInv'
  <1>t. /\ dispatcher \in [Dispatchers -> Process]
        /\ dispatcher[d].key \in Keys
        /\ posts \subseteq Attempt
    BY ProcessFields DEF TypeOK, Post, Busy
  <1> DEFINE new == <<dispatcher[d].key, dispatcher[d].attempt, answer>>
  <1>1. /\ dispatcher[d].pc = "claimed" /\ dispatcher'[d].pc = "answered"
        /\ dispatcher'[d].answer = answer
        /\ \A c \in Dispatchers : /\ dispatcher'[c].key = dispatcher[c].key
                                  /\ dispatcher'[c].attempt = dispatcher[c].attempt
                                  /\ Busy(c)' <=> Busy(c)
        /\ \A c \in Dispatchers : c # d => dispatcher'[c] = dispatcher[c]
        /\ posts' = posts \cup {new}
        /\ delivery' = delivery
    BY <1>t DEF Post, Process, Busy
  <1>2. \A c \in Dispatchers : ProcessBacked(c)'
    BY <1>1 DEF AttemptsInv, ProcessBacked, Holds
  <1>3. \A b, c \in Dispatchers : SameAttempt(b, c) => b = c
    BY DEF AttemptsInv
  <1>4. \A b, c \in Dispatchers : SameAttempt(b, c)' => b = c
    BY <1>1, <1>3 DEF SameAttempt
  <1>5. \A p \in posts' : PostCharged(p)'
    <2>1. /\ dispatcher[d].attempt \in 1 .. delivery[dispatcher[d].key].attempts
          /\ delivery[dispatcher[d].key].state # "absent"
      BY <1>1 DEF AttemptsInv, ProcessBacked, Busy
    <2>2. delivery[dispatcher[d].key].attempts \in Nat
      BY <1>t, RowFields
    <2> QED BY <1>1, <2>1, <2>2 DEF AttemptsInv, PostCharged
  <1>6. \A c \in Dispatchers :
        /\ dispatcher'[c].pc = "claimed" => \A p \in posts' : ~PostedBy(c, p)'
        /\ dispatcher'[c].pc = "answered" =>
             <<dispatcher'[c].key, dispatcher'[c].attempt, dispatcher'[c].answer>> \in posts'
    <2> SUFFICES ASSUME NEW c \in Dispatchers
                 PROVE /\ dispatcher'[c].pc = "claimed" => \A p \in posts' : ~PostedBy(c, p)'
                       /\ dispatcher'[c].pc = "answered" =>
                            <<dispatcher'[c].key, dispatcher'[c].attempt, dispatcher'[c].answer>>
                               \in posts'
      OBVIOUS
    <2>1. CASE c = d
      BY <1>1, <2>1
    <2>2. CASE c # d
      <3>1. dispatcher[c].pc = "claimed" => ~PostedBy(c, new)
        BY <1>1, <1>3, <2>2 DEF PostedBy, SameAttempt, Busy
      <3> QED BY <1>1, <2>2, <3>1 DEF PostedBy, AttemptsInv
    <2> QED BY <2>1, <2>2
  <1> QED BY <1>2, <1>4, <1>5, <1>6 DEF AttemptsInv

LEMMA ReleasedStep ==
    ASSUME TypeOK, TypeOK', RowsInv, AttemptsInv, [Next]_vars,
           NEW d \in Dispatchers,
           dispatcher' = [dispatcher EXCEPT ![d] = IdleProcess],
           posts' = posts,
           delivery' = delivery \/ Finish(d)
    PROVE  AttemptsInv'
  <1>t. /\ delivery \in [Keys -> DeliveryRecord]
        /\ dispatcher \in [Dispatchers -> Process]
        /\ posts \subseteq Attempt
    BY DEF TypeOK
  <1>1. /\ ~Busy(d)'
        /\ dispatcher'[d].pc = "idle"
        /\ \A c \in Dispatchers : c # d => dispatcher'[c] = dispatcher[c]
    BY <1>t DEF Busy, IdleProcess
  <1>2. \A l \in Keys : /\ delivery'[l].attempts = delivery[l].attempts
                        /\ delivery'[l] = delivery[l] \/ delivery'[l].state # "delivering"
    <2>1. CASE delivery' = delivery
      BY <2>1
    <2>2. CASE Finish(d)
      <3>1. dispatcher[d].key \in Keys /\ dispatcher[d].answer \in Answers
        BY <2>2, ProcessFields DEF Finish, Busy
      <3> DEFINE k == dispatcher[d].key
      <3>2. /\ delivery' = [delivery EXCEPT ![k] = AfterAttempt(delivery[k], dispatcher[d].answer)]
            /\ delivery'[k].attempts = delivery[k].attempts
            /\ delivery'[k].state # "delivering"
        BY <2>2, <3>1, FinishRow
      <3> QED BY <3>1, <3>2, <1>t
    <2> QED BY <2>1, <2>2
  <1>3. \A c \in Dispatchers : ProcessBacked(c)'
    <2> SUFFICES ASSUME NEW c \in Dispatchers, Busy(c)'
                 PROVE ProcessBacked(c)'
      BY DEF ProcessBacked
    <2>1. c # d /\ Busy(c) /\ dispatcher'[c] = dispatcher[c] /\ dispatcher[c].key \in Keys
      BY <1>1, ProcessFields DEF Busy
    <2>2. /\ dispatcher'[c].attempt \in 1 .. delivery'[dispatcher[c].key].attempts
          /\ delivery'[dispatcher[c].key].state # "absent"
      BY <2>1, OldProcess
    <2> QED BY <1>2, <2>1, <2>2 DEF ProcessBacked, Holds, AttemptsInv
  <1>4. \A b, c \in Dispatchers : SameAttempt(b, c)' => b = c
    BY <1>1 DEF SameAttempt, Busy, AttemptsInv
  <1>5. \A p \in posts' : PostCharged(p)'
    <2> SUFFICES ASSUME NEW p \in posts PROVE PostCharged(p)'
      OBVIOUS
    <2>1. p[1] \in Keys /\ PostCharged(p)
      BY <1>t DEF AttemptsInv, Attempt
    <2>2. RowStep(p[1])
      BY <2>1, EveryRowStep
    <2> QED BY <1>2, <2>1, <2>2 DEF PostCharged, RowStep, Exists
  <1>6. \A c \in Dispatchers :
        /\ dispatcher'[c].pc = "claimed" => \A p \in posts' : ~PostedBy(c, p)'
        /\ dispatcher'[c].pc = "answered" =>
             <<dispatcher'[c].key, dispatcher'[c].attempt, dispatcher'[c].answer>> \in posts'
    BY <1>1 DEF AttemptsInv, PostedBy
  <1> QED BY <1>3, <1>4, <1>5, <1>6 DEF AttemptsInv

\* Steps of nobody's dispatcher: they leave the attempt numbers alone.
LEMMA OutsideStep ==
    ASSUME TypeOK, TypeOK', RowsInv, AttemptsInv, [Next]_vars,
           dispatcher' = dispatcher, posts' = posts,
           \A l \in Keys : Exists(l) =>
                /\ delivery'[l].attempts = delivery[l].attempts
                /\ delivery'[l].state = delivery[l].state
                /\ delivery'[l].owner = delivery[l].owner
    PROVE  AttemptsInv'
  <1>t. posts \subseteq Attempt
    BY DEF TypeOK
  <1>1. \A c \in Dispatchers : ProcessBacked(c)'
    <2> SUFFICES ASSUME NEW c \in Dispatchers, Busy(c)'
                 PROVE ProcessBacked(c)'
      BY DEF ProcessBacked
    <2>1. Busy(c) /\ dispatcher[c].key \in Keys
      BY ProcessFields DEF Busy
    <2>2. Exists(dispatcher[c].key)
      BY <2>1 DEF AttemptsInv, ProcessBacked, Exists
    <2> QED BY <2>1, <2>2 DEF ProcessBacked, Holds, AttemptsInv, Exists
  <1>2. \A p \in posts' : PostCharged(p)'
    BY <1>t DEF AttemptsInv, Attempt, PostCharged, Exists
  <1>3. \A b, c \in Dispatchers : SameAttempt(b, c)' => b = c
    BY DEF SameAttempt, Busy, AttemptsInv
  <1> QED BY <1>1, <1>2, <1>3 DEF AttemptsInv, PostedBy

LEMMA AttemptsStep ==
    ASSUME TypeOK, RowsInv, AttemptsInv, [Next]_vars
    PROVE  AttemptsInv'
  <1>0. TypeOK'
    BY TypePreserved
  <1>t. delivery \in [Keys -> DeliveryRecord]
    BY DEF TypeOK
  <1> USE <1>0
  <1>1. ASSUME NEW s \in Sources, Publish(s) PROVE AttemptsInv'
    <2>1. \A l \in Keys : Exists(l) => delivery'[l] = delivery[l]
      BY <1>1, <1>t DEF Publish, RowsInv
    <2> QED BY <1>1, <2>1, OutsideStep DEF Publish
  <1>2. ASSUME NEW o \in Operators, InsertReplay(o) PROVE AttemptsInv'
    <2>1. \A l \in Keys : Exists(l) => delivery'[l] = delivery[l]
      BY <1>2, <1>t DEF InsertReplay
    <2> QED BY <1>2, <2>1, OutsideStep DEF InsertReplay
  <1>3. ASSUME NEW k \in Keys, LeaseTick(k) PROVE AttemptsInv'
    <2>1. \A l \in Keys : /\ delivery'[l].attempts = delivery[l].attempts
                          /\ delivery'[l].state = delivery[l].state
                          /\ delivery'[l].owner = delivery[l].owner
      BY <1>3, <1>t DEF LeaseTick, DeliveryRecord
    <2> QED BY <1>3, <2>1, OutsideStep DEF LeaseTick
  <1>4. ASSUME NEW k \in Keys, BackoffElapses(k) PROVE AttemptsInv'
    <2>1. \A l \in Keys : /\ delivery'[l].attempts = delivery[l].attempts
                          /\ delivery'[l].state = delivery[l].state
                          /\ delivery'[l].owner = delivery[l].owner
      BY <1>4, <1>t DEF BackoffElapses, DeliveryRecord
    <2> QED BY <1>4, <2>1, OutsideStep DEF BackoffElapses
  <1>5. ASSUME UNCHANGED <<delivery, dispatcher, posts>> PROVE AttemptsInv'
    BY <1>5, OutsideStep
  <1>6. ASSUME NEW d \in Dispatchers, NEW k \in Keys, Claim(d, k) PROVE AttemptsInv'
    BY <1>6, ClaimStep
  <1>7. ASSUME NEW d \in Dispatchers, NEW answer \in Answers, Post(d, answer)
        PROVE  AttemptsInv'
    BY <1>7, PostStep
  <1>8. ASSUME NEW d \in Dispatchers,
               Finish(d) \/ DiscardAnswer(d) \/ DispatcherCrash(d)
        PROVE  AttemptsInv'
    BY <1>8, ReleasedStep DEF Finish, DiscardAnswer, DispatcherCrash
  <1> QED
    BY <1>1, <1>2, <1>3, <1>4, <1>5, <1>6, <1>7, <1>8
    DEF Next, DispatcherStep, SetEndpointStatus, ReadReplayNumber, vars

LEMMA AttemptsInit == Init => AttemptsInv
  BY DEF Init, AttemptsInv, ProcessBacked, SameAttempt, Busy, IdleProcess

LEMMA AttemptsCorrect == Spec => []AttemptsInv
<1>1. TypeOK /\ RowsInv /\ AttemptsInv /\ [Next]_vars => AttemptsInv'
  BY AttemptsStep
<1> QED BY <1>1, AttemptsInit, TypeCorrect, RowsCorrect, PTL DEF Spec

-----------------------------------------------------------------------------
(* The history of attempts.                                                 *)

\* No attempt number of a delivery serves two HTTP exchanges, so the unique
\* constraint on attempt numbers never rejects an answer.
THEOREM AttemptNumbersUnique == Spec => []NumbersUsedOnce
<1>1. Init => NumbersUsedOnce
  BY DEF Init, NumbersUsedOnce
<1>2. TypeOK /\ AttemptsInv /\ NumbersUsedOnce /\ [Next]_vars => NumbersUsedOnce'
  <2> SUFFICES ASSUME TypeOK, AttemptsInv, NumbersUsedOnce, [Next]_vars
               PROVE  NumbersUsedOnce'
    OBVIOUS
  <2>1. CASE posts' = posts
    BY <2>1 DEF NumbersUsedOnce
  <2>2. ASSUME NEW d \in Dispatchers, NEW answer \in Answers, Post(d, answer)
        PROVE  NumbersUsedOnce'
    <3>1. \A p \in posts : ~(p[1] = dispatcher[d].key /\ p[2] = dispatcher[d].attempt)
      BY <2>2 DEF Post, AttemptsInv, PostedBy
    <3>2. posts' = posts \cup {<<dispatcher[d].key, dispatcher[d].attempt, answer>>}
      BY <2>2 DEF Post
    <3> QED BY <3>1, <3>2 DEF NumbersUsedOnce
  <2> QED
    BY <2>1, <2>2
    DEF Next, DispatcherStep, Publish, SetEndpointStatus, InsertReplay, ReadReplayNumber,
        Claim, Finish, DiscardAnswer, DispatcherCrash, LeaseTick, BackoffElapses, vars
<1> QED BY <1>1, <1>2, TypeCorrect, AttemptsCorrect, PTL DEF Spec

\* Whoever writes an answer down writes the number and the answer of the HTTP
\* exchange it made itself.
LEMMA FinishRecords ==
    ASSUME TypeOK, AttemptsInv, NEW d \in Dispatchers, Finish(d)
    PROVE  /\ dispatcher[d].key \in Keys /\ dispatcher[d].answer \in Answers
           /\ recorded' = recorded \cup {<<dispatcher[d].key,
                             delivery[dispatcher[d].key].attempts, dispatcher[d].answer>>}
           /\ <<dispatcher[d].key, delivery[dispatcher[d].key].attempts,
                dispatcher[d].answer>> \in posts
  <1>1. dispatcher[d].key \in Keys /\ dispatcher[d].answer \in Answers
    BY ProcessFields DEF Finish, Busy
  <1>2. dispatcher[d].attempt = delivery[dispatcher[d].key].attempts
    BY DEF AttemptsInv, ProcessBacked, Finish, Busy
  <1>3. <<dispatcher[d].key, dispatcher[d].attempt, dispatcher[d].answer>> \in posts
    BY DEF AttemptsInv, Finish
  <1> QED BY <1>1, <1>2, <1>3 DEF Finish

LEMMA HistorySteps ==
    ASSUME [Next]_vars
    PROVE  /\ posts \subseteq posts' /\ recorded \subseteq recorded'
           /\ recorded' = recorded \/ \E d \in Dispatchers : Finish(d)
  BY DEF Next, DispatcherStep, Publish, SetEndpointStatus, InsertReplay, ReadReplayNumber,
         Claim, Post, Finish, DiscardAnswer, DispatcherCrash, LeaseTick, BackoffElapses, vars

\* The attempt history holds only HTTP exchanges that took place, each under
\* its own number and with its own answer.
THEOREM RecordedAttemptsHappened == Spec => []HistoryIsTrue
<1>1. Init => HistoryIsTrue
  BY DEF Init, HistoryIsTrue
<1>2. TypeOK /\ AttemptsInv /\ HistoryIsTrue /\ [Next]_vars => HistoryIsTrue'
  BY FinishRecords, HistorySteps DEF HistoryIsTrue
<1> QED BY <1>1, <1>2, TypeCorrect, AttemptsCorrect, PTL DEF Spec

RowBacked(k) ==
    LET row == delivery[k] IN
    /\ row.state = "succeeded" => <<k, row.attempts, "ok">> \in recorded
    /\ row.state = "failed" => /\ row.attempts = MaxAttempts
                               /\ <<k, MaxAttempts, "error">> \in recorded
    /\ row.state = "retry_scheduled" => /\ row.attempts < MaxAttempts
                                        /\ <<k, row.attempts, "error">> \in recorded

\* What a step may make of a row: another row with the same state and attempts,
\* a row that claims nothing about the history, or the row of a finished attempt.
LEMMA RowOutcome ==
    ASSUME TypeOK, RowsInv, [Next]_vars, NEW k \in Keys
    PROVE  \/ /\ delivery'[k].state = delivery[k].state
              /\ delivery'[k].attempts = delivery[k].attempts
           \/ delivery'[k].state \in {"pending", "delivering"}
           \/ \E d \in Dispatchers : Finish(d) /\ dispatcher[d].key = k
  <1> DEFINE Goal == \/ /\ delivery'[k].state = delivery[k].state
                        /\ delivery'[k].attempts = delivery[k].attempts
                     \/ delivery'[k].state \in {"pending", "delivering"}
                     \/ \E d \in Dispatchers : Finish(d) /\ dispatcher[d].key = k
  <1>t. delivery \in [Keys -> DeliveryRecord]
    BY DEF TypeOK
  <1>1. Fresh.state = "pending"
    BY DEF Fresh
  <1>2. ASSUME NEW s \in Sources, Publish(s) PROVE Goal
    BY <1>1, <1>2, <1>t DEF Publish
  <1>3. ASSUME NEW o \in Operators, InsertReplay(o) PROVE Goal
    BY <1>1, <1>3, <1>t DEF InsertReplay
  <1>4. ASSUME NEW d \in Dispatchers, NEW l \in Keys, Claim(d, l) PROVE Goal
    <2>1. CASE l = k
      BY <1>4, <2>1, <1>t DEF Claim
    <2> QED BY <1>4, <2>1, <1>t DEF Claim
  <1>5. ASSUME NEW d \in Dispatchers, Finish(d) PROVE Goal
    <2>1. CASE dispatcher[d].key = k
      BY <1>5, <2>1
    <2> QED BY <1>5, <2>1, <1>t DEF Finish
  <1>6. ASSUME NEW l \in Keys, LeaseTick(l) PROVE Goal
    BY <1>6, <1>t DEF LeaseTick, DeliveryRecord
  <1>7. ASSUME NEW l \in Keys, BackoffElapses(l) PROVE Goal
    BY <1>7, <1>t DEF BackoffElapses, DeliveryRecord
  <1>8. CASE delivery' = delivery
    BY <1>8
  <1> QED
    BY <1>2, <1>3, <1>4, <1>5, <1>6, <1>7, <1>8
    DEF Next, DispatcherStep, SetEndpointStatus, ReadReplayNumber, Post, DiscardAnswer,
        DispatcherCrash, vars

LEMMA FinishedRowBacked ==
    ASSUME TypeOK, AttemptsInv, NEW d \in Dispatchers, Finish(d),
           NEW k \in Keys, k = dispatcher[d].key
    PROVE  RowBacked(k)'
  <1> DEFINE answer == dispatcher[d].answer
             row == delivery[k]
  <1>1. <<k, row.attempts, answer>> \in recorded' /\ answer \in Answers
    BY FinishRecords
  <1>2. /\ delivery'[k].attempts = row.attempts
        /\ delivery'[k].state
             = IF answer = "ok" THEN "succeeded"
               ELSE IF row.attempts < MaxAttempts THEN "retry_scheduled" ELSE "failed"
    BY FinishRow
  <1>3. row.attempts \in 0 .. MaxAttempts
    BY RowFields
  <1> QED BY <1>1, <1>2, <1>3, WebhookAssumption DEF RowBacked, Answers

\* A delivery succeeded, failed for good or waits for its retry because of its
\* latest attempt in the history, and fails only with its budget used up.
THEOREM OutcomesBacked == Spec => []OutcomeBacked
<1>1. Init => OutcomeBacked
  BY DEF Init, OutcomeBacked, Fresh
<1>2. ASSUME TypeOK, RowsInv, AttemptsInv, OutcomeBacked, [Next]_vars
      PROVE  OutcomeBacked'
  <2> SUFFICES ASSUME NEW k \in Keys PROVE RowBacked(k)'
    BY DEF OutcomeBacked, RowBacked
  <2>0. RowBacked(k) /\ recorded \subseteq recorded'
    BY <1>2, HistorySteps DEF OutcomeBacked, RowBacked
  <2>1. CASE /\ delivery'[k].state = delivery[k].state
             /\ delivery'[k].attempts = delivery[k].attempts
    BY <2>0, <2>1 DEF RowBacked
  <2>2. CASE delivery'[k].state \in {"pending", "delivering"}
    BY <2>2 DEF RowBacked
  <2>3. CASE \E d \in Dispatchers : Finish(d) /\ dispatcher[d].key = k
    BY <1>2, <2>3, FinishedRowBacked
  <2> QED BY <1>2, <2>1, <2>2, <2>3, RowOutcome
<1>3. TypeOK /\ RowsInv /\ AttemptsInv /\ OutcomeBacked /\ [Next]_vars => OutcomeBacked'
  BY <1>2
<1> QED BY <1>1, <1>3, TypeCorrect, RowsCorrect, AttemptsCorrect, PTL DEF Spec
=============================================================================
