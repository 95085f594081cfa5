------------------------- MODULE GenerationRequests -------------------------
(***************************************************************************)
(* Contextual generation with an Idempotency-Key: the generations table    *)
(* (one row per key, uq on the key's hash), concurrent requests that       *)
(* reserve a row, call the model outside any transaction and write the     *)
(* outcome, and the Project's active configuration, which is part of the   *)
(* request hash.                                                           *)
(*                                                                         *)
(* One action is one statement or transaction, the provider call, or the   *)
(* end of the process.  Requests without a key have a row of their own     *)
(* that nobody else can find and are left out.                             *)
(***************************************************************************)
EXTENDS Naturals

CONSTANTS
    IdemKeys,      \* values of the Idempotency-Key header
    Bodies,        \* normalized request bodies
    Callers,       \* concurrent requests
    NoCaller,
    MaxRevision    \* BOUND: activated configuration revisions

ASSUME GenerationAssumption ==
    /\ NoCaller \notin Callers
    /\ MaxRevision \in Nat

VARIABLES
    generation,    \* rows of generations by idempotency key
    revision,      \* active Project AI configuration revision
    call,          \* what each request is doing
    calls,         \* history: provider calls made for each key
    answers        \* history: outcomes returned to callers

genVars == <<generation, revision, call, calls, answers>>

-----------------------------------------------------------------------------
Hashes == Bodies \X (0 .. MaxRevision)
Results == {"output", "mismatch", "unavailable"}
GenStatus == {"absent", "processing", "succeeded", "failed"}

\* output stands for the text of the generation that its maker wrote.
Generation == [status : GenStatus, hash : SUBSET Hashes,
               result : Results \cup {"none"}, by : Callers \cup {NoCaller}]
GenCall == [pc : {"idle", "lookup", "insert", "again", "resolve", "finish"},
         idem : SUBSET IdemKeys, hash : SUBSET Hashes,
         result : Results \cup {"none"}]

Absent == [status |-> "absent", hash |-> {}, result |-> "none", by |-> NoCaller]
NoRequest == [pc |-> "idle", idem |-> {}, hash |-> {}, result |-> "none"]

GenInit ==
    /\ generation = [k \in IdemKeys |-> Absent]
    /\ revision = 0
    /\ call = [r \in Callers |-> NoRequest]
    /\ calls = [k \in IdemKeys |-> 0]
    /\ answers = {}

-----------------------------------------------------------------------------
Works(r, place, k) == call[r].pc = place /\ call[r].idem = {k}
Proceed(r, place) == call' = [call EXCEPT ![r].pc = place]
Respond(r, k, x) ==
    /\ call' = [call EXCEPT ![r] = NoRequest]
    /\ answers' = answers \cup {<<k, h, x>> : h \in call[r].hash}
Refuse(r) == call' = [call EXCEPT ![r] = NoRequest] /\ UNCHANGED answers

\* The hash covers the body and the configuration that is active now.
Create(r, k, b) ==
    /\ call[r].pc = "idle"
    /\ call' = [call EXCEPT ![r] = [pc |-> "lookup", idem |-> {k},
                    hash |-> {<<b, revision>>}, result |-> "none"]]
    /\ UNCHANGED <<generation, revision, calls, answers>>

\* MUTANT: the stored outcome is returned whatever the request was.
HandleExistingUnhashed(r, k) ==
    IF generation[k].status = "processing"
      THEN Refuse(r)
      ELSE Respond(r, k, generation[k].result)

\* _handle_existing: 409 for another request or one in progress, the stored
\* outcome otherwise.
Outcome(k) == generation[k].result
HandleExisting(r, k) ==
    IF \/ generation[k].hash # call[r].hash
       \/ generation[k].status = "processing"
      THEN Refuse(r)
      ELSE Respond(r, k, Outcome(k))

LookupRow(r, k) ==
    /\ Works(r, "lookup", k)
    /\ IF generation[k].status = "absent"
         THEN Proceed(r, "insert") /\ UNCHANGED answers
         ELSE HandleExisting(r, k)
    /\ UNCHANGED <<generation, revision, calls>>

\* MUTANT: only a finished row stands in the way.
ConflictsWhenEnded(k) == generation[k].status \in {"succeeded", "failed"}
Conflicts(k) == generation[k].status # "absent"

\* The reservation commits, or the unique index refuses it and the row that
\* was there first is looked up after a rollback.
Insert(r, k) ==
    /\ Works(r, "insert", k)
    /\ IF Conflicts(k)
         THEN Proceed(r, "again") /\ UNCHANGED generation
         ELSE /\ Proceed(r, "resolve")
              /\ generation' = [generation EXCEPT ![k] =
                   [status |-> "processing", hash |-> call[r].hash,
                    result |-> "none", by |-> r]]
    /\ UNCHANGED <<revision, calls, answers>>

LookupAgain(r, k) ==
    /\ Works(r, "again", k)
    /\ HandleExisting(r, k)
    /\ UNCHANGED <<generation, revision, calls>>

Outcomed(r, x) == call' = [call EXCEPT ![r].pc = "finish", ![r].result = x]

\* No provider of that name: nothing is called.
ResolveFails(r, k) ==
    /\ Works(r, "resolve", k)
    /\ Outcomed(r, "unavailable")
    /\ UNCHANGED <<generation, revision, calls, answers>>

CallProvider(r, k) ==
    /\ Works(r, "resolve", k)
    /\ \E x \in Results : Outcomed(r, x)
    /\ calls' = [calls EXCEPT ![k] = @ + 1]
    /\ UNCHANGED <<generation, revision, answers>>

\* The outcome commits and is returned.
Finish(r, k) ==
    /\ Works(r, "finish", k)
    /\ LET x == call[r].result IN
         /\ generation' = [generation EXCEPT
                ![k].status = IF x = "output" THEN "succeeded" ELSE "failed",
                ![k].result = x]
         /\ Respond(r, k, x)
    /\ UNCHANGED <<revision, calls>>

\* The process ends, the client's cancellation or an unexpected exception
\* unwinds the request: nothing is written any more.
Die(r) ==
    /\ call[r].pc # "idle"
    /\ Refuse(r)
    /\ UNCHANGED <<generation, revision, calls>>

\* An administrator activates another configuration revision.
ActivateConfig ==
    /\ revision < MaxRevision
    /\ revision' = revision + 1
    /\ UNCHANGED <<generation, call, calls, answers>>

Advance(r) ==
    \E k \in IdemKeys :
        \/ LookupRow(r, k) \/ Insert(r, k) \/ LookupAgain(r, k)
        \/ ResolveFails(r, k) \/ CallProvider(r, k) \/ Finish(r, k)

GenStep ==
    \/ \E r \in Callers : Advance(r) \/ Die(r)
    \/ ActivateConfig

GenNext ==
    \/ GenStep
    \/ \E r \in Callers, k \in IdemKeys, b \in Bodies : Create(r, k, b)

GenSpec == GenInit /\ [][GenNext]_genVars

-----------------------------------------------------------------------------
(* Properties.                                                              *)

\* Types.
GenTypeOK ==
    /\ generation \in [IdemKeys -> Generation]
    /\ revision \in 0 .. MaxRevision
    /\ call \in [Callers -> GenCall]
    /\ calls \in [IdemKeys -> Nat]
    /\ answers \subseteq IdemKeys \X Hashes \X Results

\* However many requests race under one key, the model is paid for once: a
\* retry never calls it again, neither while the first request runs nor after
\* its process died.
CalledOncePerKey == \A k \in IdemKeys : calls[k] <= 1

Promise == INSTANCE IdempotencyPromise WITH
    Outcomes <- Results,
    bound <- [k \in IdemKeys |-> generation[k].hash],
    outcome <- [k \in IdemKeys |->
        {x \in Results : generation[k].status \in {"succeeded", "failed"}
                         /\ x = generation[k].result}],
    replies <- answers

\* One request and one outcome per key, repeated by every answer.
KeepsPromise == Promise!PromiseSpec
=============================================================================
