---------------------------- MODULE SingleFlight ----------------------------
(***************************************************************************)
(* The embedding cache of one turn (CachedEmbeddingProvider of             *)
(* request_work.py): parallel retrieval branches ask for vectors of texts; *)
(* each text in flight has one owner, whose future the others await.       *)
(*                                                                         *)
(* Registration is one step (embedding_lock).  A branch embeds the texts   *)
(* it owns in one provider call and then awaits the others' futures.       *)
(***************************************************************************)
EXTENDS Naturals

CONSTANTS
    Texts,      \* exact texts with their purpose and provider identity
    Branches    \* parallel embed_texts calls of the turn

VARIABLES
    vectors,    \* texts whose vector the turn has
    inFlight,   \* embedding_futures: the branch that owns a text in flight
    future,     \* outcome of a branch's futures: none, pending, done, failed
    branch,     \* what each branch is doing
    embedded,   \* history: successful provider embeddings of each text
    failures    \* history: a provider call of the turn failed or was cancelled

flightVars == <<vectors, inFlight, future, branch, embedded, failures>>

-----------------------------------------------------------------------------
Branch == [pc : {"idle", "embed", "await", "ended", "failed"},
           owns : SUBSET Texts,
           awaits : [Texts -> SUBSET Branches]]    \* the futures it holds

FlightInit ==
    /\ vectors = {}
    /\ inFlight = [x \in Texts |-> {}]
    /\ future = [b \in Branches |-> "none"]
    /\ branch = [b \in Branches |-> [pc |-> "idle", owns |-> {},
                                     awaits |-> [x \in Texts |-> {}]]]
    /\ embedded = [x \in Texts |-> 0]
    /\ failures = FALSE

\* MUTANT: texts in flight are not looked up.
RegisterBlind(b, texts) ==
    LET owns == texts \ vectors IN
    /\ branch[b].pc = "idle"
    /\ inFlight' = [x \in Texts |-> IF x \in owns THEN {b} ELSE inFlight[x]]
    /\ future' = IF owns = {} THEN future ELSE [future EXCEPT ![b] = "pending"]
    /\ branch' = [branch EXCEPT ![b] =
         [pc |-> IF owns = {} THEN "await" ELSE "embed",
          owns |-> owns, awaits |-> [x \in Texts |-> {}]]]
    /\ UNCHANGED <<vectors, embedded, failures>>

\* Under embedding_lock: what is neither known nor in flight becomes the
\* branch's own.
Register(b, texts) ==
    LET owns == {x \in texts \ vectors : inFlight[x] = {}} IN
    /\ branch[b].pc = "idle"
    /\ inFlight' = [x \in Texts |-> IF x \in owns THEN {b} ELSE inFlight[x]]
    /\ future' = IF owns = {} THEN future ELSE [future EXCEPT ![b] = "pending"]
    /\ branch' = [branch EXCEPT ![b] =
         [pc |-> IF owns = {} THEN "await" ELSE "embed",
          owns |-> owns,
          awaits |-> [x \in Texts |->
              IF x \in (texts \ vectors) \ owns THEN inFlight[x] ELSE {}]]]
    /\ UNCHANGED <<vectors, embedded, failures>>

Landed(b) == [x \in Texts |-> IF x \in branch[b].owns THEN {} ELSE inFlight[x]]

EmbedOwned(b) ==
    /\ branch[b].pc = "embed"
    /\ vectors' = vectors \cup branch[b].owns
    /\ embedded' = [x \in Texts |->
         IF x \in branch[b].owns THEN embedded[x] + 1 ELSE embedded[x]]
    /\ future' = [future EXCEPT ![b] = "done"]
    /\ inFlight' = Landed(b)
    /\ branch' = [branch EXCEPT ![b].pc = "await"]
    /\ UNCHANGED failures

\* MUTANT: the futures are not told.
FailOwnedSilently(b) ==
    /\ branch[b].pc = "embed"
    /\ inFlight' = Landed(b)
    /\ branch' = [branch EXCEPT ![b].pc = "failed"]
    /\ failures' = TRUE
    /\ UNCHANGED <<vectors, future, embedded>>

\* A provider error, the phase deadline, a result of another shape or a
\* cancellation: the futures get the exception and leave the table.
FailOwned(b) ==
    /\ branch[b].pc = "embed"
    /\ future' = [future EXCEPT ![b] = "failed"]
    /\ inFlight' = Landed(b)
    /\ branch' = [branch EXCEPT ![b].pc = "failed"]
    /\ failures' = TRUE
    /\ UNCHANGED <<vectors, embedded>>

Awaited(b) == {x \in Texts : branch[b].awaits[x] # {} /\ x \notin vectors}

\* Every text is there: the branch returns.
Return(b) ==
    /\ branch[b].pc = "await"
    /\ Awaited(b) = {}
    /\ branch' = [branch EXCEPT ![b].pc = "ended"]
    /\ UNCHANGED <<vectors, inFlight, future, embedded, failures>>

\* The owner's exception is raised in every branch that awaits it.
Propagate(b) ==
    /\ branch[b].pc = "await"
    /\ \E x \in Awaited(b) : \E o \in branch[b].awaits[x] : future[o] = "failed"
    /\ branch' = [branch EXCEPT ![b].pc = "failed"]
    /\ UNCHANGED <<vectors, inFlight, future, embedded, failures>>

\* A waiter is cancelled: the shield keeps the owner's future alive.
CancelWaiter(b) ==
    /\ branch[b].pc = "await"
    /\ branch' = [branch EXCEPT ![b].pc = "failed"]
    /\ failures' = TRUE
    /\ UNCHANGED <<vectors, inFlight, future, embedded>>

Proceeds(b) == EmbedOwned(b) \/ FailOwned(b) \/ Return(b) \/ Propagate(b)

FlightNext ==
    \E b \in Branches :
        \/ \E texts \in SUBSET Texts : Register(b, texts)
        \/ Proceeds(b)
        \/ CancelWaiter(b)

\* Provider calls end, by their phase deadline if not before.
FlightFairness == \A b \in Branches : WF_flightVars(Proceeds(b))
FlightSpec == FlightInit /\ [][FlightNext]_flightVars /\ FlightFairness

-----------------------------------------------------------------------------
(* Properties.                                                              *)

\* Types.
FlightTypeOK ==
    /\ vectors \subseteq Texts
    /\ inFlight \in [Texts -> SUBSET Branches]
    /\ future \in [Branches -> {"none", "pending", "done", "failed"}]
    /\ branch \in [Branches -> Branch]
    /\ embedded \in [Texts -> Nat]
    /\ failures \in BOOLEAN

\* The turn pays for each text once, and a branch fails only if a call of the
\* turn failed or was cancelled.
EmbeddedOnce ==
    /\ \A x \in Texts : embedded[x] <= 1
    /\ \A b \in Branches : branch[b].pc = "failed" => failures

\* Branches that await each other's texts never wait for ever: each embeds what
\* it owns before it awaits.
BranchesEnd ==
    \A b \in Branches :
        (branch[b].pc \in {"embed", "await"}) ~> (branch[b].pc \in {"ended", "failed"})
=============================================================================
