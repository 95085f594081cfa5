------------------------- MODULE IdempotencyPromise -------------------------
(***************************************************************************)
(* What POST /generations promises for one Idempotency-Key, without        *)
(* transactions, lookups or processes: a key is bound to one request, gets *)
(* at most one outcome, and every answer repeats that outcome.             *)
(***************************************************************************)
CONSTANTS
    IdemKeys,    \* idempotency keys of the Project
    Hashes,      \* request hashes
    Outcomes     \* how a generation can end

VARIABLES
    bound,       \* the request hash a key was used for first, or none
    outcome,     \* the outcome of a key, or none
    replies      \* answers given: <<key, request hash, outcome>>

promiseVars == <<bound, outcome, replies>>

None == {}
Some(x) == {x}

PromiseInit ==
    /\ bound = [k \in IdemKeys |-> None]
    /\ outcome = [k \in IdemKeys |-> None]
    /\ replies = {}

Bind(k) ==
    /\ bound[k] = None
    /\ \E h \in Hashes : bound' = [bound EXCEPT ![k] = Some(h)]
    /\ UNCHANGED <<outcome, replies>>

Decide(k) ==
    /\ bound[k] # None
    /\ outcome[k] = None
    /\ \E x \in Outcomes :
         /\ outcome' = [outcome EXCEPT ![k] = Some(x)]
         /\ \/ UNCHANGED replies
            \/ replies' = replies \cup {<<k, h, x>> : h \in bound[k]}
    /\ UNCHANGED bound

Reply(k) ==
    /\ outcome[k] # None
    /\ replies' = replies \cup {<<k, h, x>> : h \in bound[k], x \in outcome[k]}
    /\ UNCHANGED <<bound, outcome>>

PromiseNext == \E k \in IdemKeys : Bind(k) \/ Decide(k) \/ Reply(k)

PromiseSpec == PromiseInit /\ [][PromiseNext]_promiseVars
=============================================================================
