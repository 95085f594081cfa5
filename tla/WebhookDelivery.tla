-------------------------- MODULE WebhookDelivery --------------------------
(***************************************************************************)
(* Outbound webhooks of one Project: publication of an event with its      *)
(* initial deliveries in the transaction that ends a job run, leased       *)
(* delivery attempts by concurrent dispatcher processes, endpoint          *)
(* disablement, and operator replays.                                      *)
(*                                                                         *)
(* One action is one committed transaction, one HTTP exchange, or one      *)
(* fault.  lease counts the ticks left before lease_expires_at; due says   *)
(* that available_at has passed.                                           *)
(***************************************************************************)
EXTENDS Naturals

CONSTANTS
    Endpoints,     \* webhook_endpoints
    Sources,       \* source keys: one per terminal outcome of a job run
    Subscribed,    \* the endpoints whose event_types contain a source's type
    Dispatchers,   \* WebhookDispatcher processes
    Operators,     \* concurrent replay requests
    NoDispatcher, NoKey,
    MaxAttempts,   \* WebhooksConfig.max_attempts
    LeaseTicks,    \* length of a delivery lease
    Crashing,      \* TRUE: dispatcher processes may die
    MaxReplays     \* BOUND: replays of one event to one endpoint

ASSUME WebhookAssumption ==
    /\ MaxAttempts \in Nat \ {0}
    /\ LeaseTicks \in Nat \ {0}
    /\ MaxReplays \in Nat
    /\ Crashing \in BOOLEAN
    /\ Subscribed \in [Sources -> SUBSET Endpoints]
    /\ NoDispatcher \notin Dispatchers

\* The unique key (endpoint, event, replay_number) of webhook_deliveries.
Keys == [ep : Endpoints, src : Sources, replay : 0 .. MaxReplays]
Key(e, s, r) == [ep |-> e, src |-> s, replay |-> r]

ASSUME NoKeyAssumption == NoKey \notin Keys

VARIABLES
    enabled,      \* is_enabled of every endpoint (FALSE before it is created)
    published,    \* webhook_events
    delivery,     \* webhook_deliveries
    recorded,     \* webhook_delivery_attempts: <<key, attempt_number, outcome>>
    dispatcher,   \* what each dispatcher process is doing
    request,      \* the key a replay request is about to insert
    posts         \* history: HTTP exchanges that completed

vars == <<enabled, published, delivery, recorded, dispatcher, request, posts>>

Waiting == {"pending", "retry_scheduled"}
Settled == {"succeeded", "failed"}
DeliveryStates == {"absent", "delivering"} \cup Waiting \cup Settled
Answers == {"ok", "error"}

DeliveryRecord == [state : DeliveryStates, attempts : 0 .. MaxAttempts,
                   owner : Dispatchers \cup {NoDispatcher},
                   lease : 0 .. LeaseTicks, due : BOOLEAN]
Process == [pc : {"idle", "claimed", "answered"}, key : Keys \cup {NoKey},
            attempt : 0 .. MaxAttempts, answer : Answers]
Attempt == Keys \X (0 .. MaxAttempts) \X Answers

Fresh == [state |-> "pending", attempts |-> 0, owner |-> NoDispatcher,
          lease |-> 0, due |-> TRUE]
IdleProcess == [pc |-> "idle", key |-> NoKey, attempt |-> 0, answer |-> "error"]

Init ==
    /\ enabled \in [Endpoints -> BOOLEAN]
    /\ published = {}
    /\ delivery = [k \in Keys |-> [Fresh EXCEPT !.state = "absent"]]
    /\ recorded = {}
    /\ dispatcher = [d \in Dispatchers |-> IdleProcess]
    /\ request = [o \in Operators |-> NoKey]
    /\ posts = {}

-----------------------------------------------------------------------------
(* Publication: DatabaseWebhookEventPublisher.stage, inside the transaction *)
(* that ends the run.                                                       *)

Receivers(s) == {e \in Subscribed[s] : enabled[e]}

Publish(s) ==
    /\ s \notin published
    /\ Receivers(s) # {}
    /\ published' = published \cup {s}
    /\ delivery' = [k \in Keys |->
                      IF k.src = s /\ k.replay = 0 /\ k.ep \in Receivers(s)
                        THEN Fresh ELSE delivery[k]]
    /\ UNCHANGED <<enabled, recorded, dispatcher, request, posts>>

\* An endpoint that was not created yet is one that was never enabled.
SetEndpointStatus(e) ==
    /\ enabled' = [enabled EXCEPT ![e] = ~@]
    /\ UNCHANGED <<published, delivery, recorded, dispatcher, request, posts>>

-----------------------------------------------------------------------------
(* Replay: WebhookService.replay reads the highest replay number and inserts *)
(* the next one; two requests may read the same number.                     *)

Exists(k) == delivery[k].state # "absent"

Latest(e, s, r) ==
    /\ Exists(Key(e, s, r))
    /\ \A q \in 0 .. MaxReplays : Exists(Key(e, s, q)) => q <= r

ReadReplayNumber(o, k) ==
    /\ request[o] = NoKey
    /\ Exists(k)
    /\ enabled[k.ep]
    /\ \E r \in 0 .. MaxReplays :
        /\ Latest(k.ep, k.src, r)
        /\ r < MaxReplays
        /\ request' = [request EXCEPT ![o] = Key(k.ep, k.src, r + 1)]
    /\ UNCHANGED <<enabled, published, delivery, recorded, dispatcher, posts>>

\* MUTANT: without the unique constraint the second insert wins.
InsertReplayUnchecked(o) ==
    /\ request[o] # NoKey
    /\ delivery' = [delivery EXCEPT ![request[o]] = Fresh]
    /\ request' = [request EXCEPT ![o] = NoKey]
    /\ UNCHANGED <<enabled, published, recorded, dispatcher, posts>>

\* uq_webhook_delivery_replay rejects the second of two equal numbers.
InsertReplay(o) ==
    /\ request[o] # NoKey
    /\ delivery' = IF Exists(request[o]) THEN delivery
                   ELSE [delivery EXCEPT ![request[o]] = Fresh]
    /\ request' = [request EXCEPT ![o] = NoKey]
    /\ UNCHANGED <<enabled, published, recorded, dispatcher, posts>>

-----------------------------------------------------------------------------
(* Delivery: WebhookDeliveryService.deliver_next.                           *)

\* MUTANT: the attempt budget is not checked.
ClaimableUncapped(k) ==
    /\ enabled[k.ep]
    /\ \/ delivery[k].state \in Waiting /\ delivery[k].due
       \/ delivery[k].state = "delivering" /\ delivery[k].lease = 0

\* MUTANT: the claim forgets the expired leases of dead dispatchers.
ClaimableWaiting(k) ==
    /\ enabled[k.ep]
    /\ delivery[k].state \in Waiting /\ delivery[k].due
    /\ delivery[k].attempts < MaxAttempts

Claimable(k) ==
    /\ enabled[k.ep]
    /\ \/ delivery[k].state \in Waiting /\ delivery[k].due
       \/ delivery[k].state = "delivering" /\ delivery[k].lease = 0
    /\ delivery[k].attempts < MaxAttempts

\* MUTANT: taking over an expired delivery is not charged.
ChargedOnce(row) ==
    IF row.state = "delivering" THEN row.attempts ELSE row.attempts + 1

Charged(row) == row.attempts + 1

Claim(d, k) ==
    /\ dispatcher[d].pc = "idle"
    /\ Claimable(k)
    /\ delivery' = [delivery EXCEPT ![k] =
                      [state |-> "delivering", attempts |-> Charged(delivery[k]),
                       owner |-> d, lease |-> LeaseTicks, due |-> TRUE]]
    /\ dispatcher' = [dispatcher EXCEPT ![d] =
                        [pc |-> "claimed", key |-> k,
                         attempt |-> Charged(delivery[k]), answer |-> "error"]]
    /\ UNCHANGED <<enabled, published, recorded, request, posts>>

\* The HTTP exchange runs outside any transaction; the receiver answers 2xx,
\* or anything else, or nothing in time.
Post(d, answer) ==
    /\ dispatcher[d].pc = "claimed"
    /\ dispatcher' = [dispatcher EXCEPT ![d].pc = "answered", ![d].answer = answer]
    /\ posts' = posts \cup {<<dispatcher[d].key, dispatcher[d].attempt, answer>>}
    /\ UNCHANGED <<enabled, published, delivery, recorded, request>>

\* MUTANT: _finish locks the delivery without asking who owns it.
HoldsAnyone(d) == delivery[dispatcher[d].key].state = "delivering"

\* lock_owned: state and owner, but not the lease.
Holds(d) ==
    /\ delivery[dispatcher[d].key].state = "delivering"
    /\ delivery[dispatcher[d].key].owner = d

\* The row once an attempt is finished.
Released(row, s, isDue) ==
    [state |-> s, attempts |-> row.attempts, owner |-> NoDispatcher,
     lease |-> 0, due |-> isDue]

\* MUTANT: the last attempt is retried as well.
AfterAttemptForever(row, answer) ==
    IF answer = "ok" THEN Released(row, "succeeded", TRUE)
    ELSE Released(row, "retry_scheduled", FALSE)

AfterAttempt(row, answer) ==
    IF answer = "ok" THEN Released(row, "succeeded", TRUE)
    ELSE IF row.attempts < MaxAttempts THEN Released(row, "retry_scheduled", FALSE)
    ELSE Released(row, "failed", TRUE)

Finish(d) ==
    LET k == dispatcher[d].key
        answer == dispatcher[d].answer
    IN
    /\ dispatcher[d].pc = "answered"
    /\ Holds(d)
    /\ recorded' = recorded \cup {<<k, delivery[k].attempts, answer>>}
    /\ delivery' = [delivery EXCEPT ![k] = AfterAttempt(@, answer)]
    /\ dispatcher' = [dispatcher EXCEPT ![d] = IdleProcess]
    /\ UNCHANGED <<enabled, published, request, posts>>

\* The delivery was claimed again meanwhile: _finish returns silently.
DiscardAnswer(d) ==
    /\ dispatcher[d].pc = "answered"
    /\ ~Holds(d)
    /\ dispatcher' = [dispatcher EXCEPT ![d] = IdleProcess]
    /\ UNCHANGED <<enabled, published, delivery, recorded, request, posts>>

\* A process dies; its successor starts with a new worker id and no claim.
DispatcherCrash(d) ==
    /\ Crashing
    /\ dispatcher[d].pc # "idle"
    /\ dispatcher' = [dispatcher EXCEPT ![d] = IdleProcess]
    /\ UNCHANGED <<enabled, published, delivery, recorded, request, posts>>

LeaseTick(k) ==
    /\ delivery[k].lease > 0
    /\ delivery' = [delivery EXCEPT ![k].lease = @ - 1]
    /\ UNCHANGED <<enabled, published, recorded, dispatcher, request, posts>>

BackoffElapses(k) ==
    /\ delivery[k].state = "retry_scheduled"
    /\ ~delivery[k].due
    /\ delivery' = [delivery EXCEPT ![k].due = TRUE]
    /\ UNCHANGED <<enabled, published, recorded, dispatcher, request, posts>>

-----------------------------------------------------------------------------
DispatcherStep(d) ==
    \/ \E k \in Keys : Claim(d, k)
    \/ \E answer \in Answers : Post(d, answer)
    \/ Finish(d)
    \/ DiscardAnswer(d)
    \/ DispatcherCrash(d)

Next ==
    \/ \E s \in Sources : Publish(s)
    \/ \E e \in Endpoints : SetEndpointStatus(e)
    \/ \E o \in Operators : InsertReplay(o) \/ \E k \in Keys : ReadReplayNumber(o, k)
    \/ \E d \in Dispatchers : DispatcherStep(d)
    \/ \E k \in Keys : LeaseTick(k) \/ BackoffElapses(k)

Spec == Init /\ [][Next]_vars

(* Every dispatcher polls for ever and claims the oldest due delivery first, *)
(* and an HTTP exchange ends by an answer or by its timeout.  Operators,     *)
(* publications and crashes are never forced.                                *)
Fairness ==
    /\ \A k \in Keys :
        /\ SF_vars(\E d \in Dispatchers : Claim(d, k))
        /\ WF_vars(LeaseTick(k))
        /\ WF_vars(BackoffElapses(k))
    /\ \A d \in Dispatchers :
        /\ WF_vars(\E answer \in Answers : Post(d, answer))
        /\ WF_vars(Finish(d) \/ DiscardAnswer(d))

FairSpec == Spec /\ Fairness

-----------------------------------------------------------------------------
(* Properties.                                                              *)

\* Every variable keeps its type.
TypeOK ==
    /\ enabled \in [Endpoints -> BOOLEAN]
    /\ published \subseteq Sources
    /\ delivery \in [Keys -> DeliveryRecord]
    /\ recorded \subseteq Attempt
    /\ dispatcher \in [Dispatchers -> Process]
    /\ \A d \in Dispatchers : dispatcher[d].pc # "idle" => dispatcher[d].key \in Keys
    /\ request \in [Operators -> Keys \cup {NoKey}]
    /\ posts \subseteq Attempt

\* The attempt history is true: a recorded attempt is an HTTP exchange that took
\* place with that very number and answer, however often the delivery changed
\* hands before the answer was written down.
HistoryIsTrue == recorded \subseteq posts

\* No attempt number of a delivery is ever used for two HTTP exchanges, so that
\* uq_webhook_attempt_number can never reject an answer and the receiver sees
\* at most MaxAttempts exchanges.
NumbersUsedOnce ==
    \A p, q \in posts : p[1] = q[1] /\ p[2] = q[2] => p = q

\* The state of a delivery is backed by its history: it succeeded or waits for
\* a retry because of its latest attempt, and fails only when the last one of
\* its budget was made and refused.
OutcomeBacked ==
    \A k \in Keys :
        LET row == delivery[k] IN
        /\ row.state = "succeeded" => <<k, row.attempts, "ok">> \in recorded
        /\ row.state = "failed" => /\ row.attempts = MaxAttempts
                                   /\ <<k, MaxAttempts, "error">> \in recorded
        /\ row.state = "retry_scheduled" => /\ row.attempts < MaxAttempts
                                            /\ <<k, row.attempts, "error">> \in recorded

HistoryKept(k) ==
    /\ Exists(k) => /\ delivery'[k].state # "absent"
                    /\ delivery'[k].attempts >= delivery[k].attempts
    /\ delivery[k].state \in Settled => delivery'[k] = delivery[k]

\* A replay, a race of replays or a late answer never resets, reopens or
\* removes a delivery that exists.
NoDeliveryReset == [][\A k \in Keys : HistoryKept(k)]_vars

\* Under a working dispatcher every delivery settles, unless its endpoint is
\* disabled or its dispatcher died in the very last attempt.
DeliveriesSettle ==
    \A k \in Keys :
        Exists(k) ~> \/ delivery[k].state \in Settled
                     \/ ~enabled[k.ep]
                     \/ /\ delivery[k].state = "delivering"
                        /\ delivery[k].attempts = MaxAttempts
=============================================================================
