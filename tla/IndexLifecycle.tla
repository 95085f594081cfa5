--------------------------- MODULE IndexLifecycle ---------------------------
(***************************************************************************)
(* The corpus of one Project: documents that are processed, reprocessed,   *)
(* deleted and purged; immutable index builds; quality receipts; and the   *)
(* one pointer that names the active build and its rollback target.        *)
(*                                                                         *)
(* A PostgreSQL transaction (READ COMMITTED) is split where another one    *)
(* may commit between what it read and what it writes.  A row lock is the  *)
(* set of transactions whose pc says that they hold it.  Any transaction   *)
(* may be aborted: its process dies, its lease is lost, or PostgreSQL      *)
(* picks it as the victim of a deadlock.                                   *)
(*                                                                         *)
(* A commit that inserts a row with a foreign key to projects waits for a  *)
(* transaction that holds the Project row FOR UPDATE.  Job completions do  *)
(* (their AuditEvent); the model has that wait where a removal commits its *)
(* destructive work, and allows the other commits at any time.             *)
(*                                                                         *)
(* Simplifications: every processed document has chunks; receipts are      *)
(* production receipts; structural builds are left out; a build that       *)
(* failed is absent, since no operation reads it; one removal job and one  *)
(* pending reprocess request per document.                                 *)
(***************************************************************************)
EXTENDS Naturals, FiniteSets

CONSTANTS
    Docs,            \* documents
    Removable,       \* the documents that operators delete or purge
    Builds,          \* index_builds rows
    Requests,        \* concurrent activate and rollback requests
    NoBuild,
    MaxVersion,      \* BOUND: versions of a document
    MaxGeneration,   \* BOUND: source metadata generations
    MaxReceipts      \* BOUND: receipts that operators record

ASSUME IndexAssumption ==
    /\ Removable \subseteq Docs
    /\ NoBuild \notin Builds
    /\ MaxVersion \in Nat \ {0}
    /\ MaxGeneration \in Nat
    /\ MaxReceipts \in Nat

VARIABLES
    doc,         \* documents and the state of their document.process job
    edit,        \* the version a pending reprocess request has read (0: none)
    build,       \* index_builds
    pointer,     \* project_index_pointers
    receipts,    \* index_acceptances: <<build, compared active build, generation>>
    generation,  \* projects.source_metadata_generation
    request,     \* activate and rollback requests in progress
    removal      \* the document.delete or document.purge job of each document

vars == <<doc, edit, build, pointer, receipts, generation, request, removal>>

-----------------------------------------------------------------------------
Statuses == {"queued", "chunked", "ready", "failed", "removing", "gone"}
DocRecord == [version : 1 .. MaxVersion, status : Statuses, deleted : BOOLEAN,
              stored : BOOLEAN, runnable : BOOLEAN]
BuildRecord == [state : {"absent", "building", "validated", "active",
                         "retained", "superseded"},
                manifest : [Docs -> 0 .. MaxVersion], rows : SUBSET Docs]
Receipt == Builds \X (Builds \cup {NoBuild}) \X (0 .. MaxGeneration)
RequestRecord == [pc : {"idle", "chosen", "gated", "rollback", "holding", "prepared"},
                  build : Builds \cup {NoBuild}, marks : SUBSET Docs]
RemovalRecord == [pc : {"none", "requested", "building", "waiting", "resumed",
                        "checked", "purging", "erased", "done", "failed"},
                  purge : BOOLEAN, version : 0 .. MaxVersion,
                  build : Builds \cup {NoBuild}]

Unbuilt == [state |-> "absent", manifest |-> [d \in Docs |-> 0], rows |-> {}]
NoRequest == [pc |-> "idle", build |-> NoBuild, marks |-> {}]

Members(b) == {d \in Docs : build[b].manifest[d] > 0}
Complete(b) == build[b].rows = Members(b)
Activatable(b) == build[b].state \in {"validated", "retained"}
Sealed(b) == build[b].state \in {"validated", "active", "retained", "superseded"}

\* MUTANT: acceptance is checked without any lock.
ProjectFreeAlways == TRUE

\* Transactions that hold the Project row, the pointer row, a build or a document.
ProjectFree == \A r \in Requests : request[r].pc \notin {"gated", "holding", "prepared"}
PointerFree ==
    /\ \A r \in Requests : request[r].pc \notin {"rollback", "holding", "prepared"}
    /\ \A d \in Docs : removal[d].pc \notin {"purging", "erased"}

\* MUTANT: a removal reads its build without FOR UPDATE.
BuildFreeAlways(b) == TRUE

BuildFree(b) ==
    \A d \in Docs : removal[d].pc \in {"checked", "purging", "erased"}
                        => removal[d].build # b
DocFree(d) == removal[d].pc \notin {"building", "checked", "purging", "erased"}

Init ==
    /\ doc = [d \in Docs |-> [version |-> 1, status |-> "queued", deleted |-> FALSE,
                              stored |-> TRUE, runnable |-> TRUE]]
    /\ edit = [d \in Docs |-> 0]
    /\ build = [b \in Builds |-> Unbuilt]
    /\ pointer = [active |-> NoBuild, previous |-> NoBuild]
    /\ receipts = {}
    /\ generation = 0
    /\ request = [r \in Requests |-> NoRequest]
    /\ removal = [d \in Docs |-> [pc |-> "none", purge |-> FALSE, version |-> 0,
                                  build |-> NoBuild]]

-----------------------------------------------------------------------------
(* Documents: DocumentService.reprocess and DocumentProcessingWorkflow.run. *)

\* The request reads the document without a lock and checks its status ...
ReprocessRead(d) ==
    /\ edit[d] = 0
    /\ doc[d].version < MaxVersion
    /\ ~doc[d].deleted
    /\ doc[d].status \notin {"removing", "gone"}
    /\ edit' = [edit EXCEPT ![d] = doc[d].version]
    /\ UNCHANGED <<doc, build, pointer, receipts, generation, request, removal>>

\* ... and overwrites version and status, whatever they have become.
ReprocessWrite(d) ==
    /\ edit[d] > 0
    /\ DocFree(d)
    /\ doc' = IF doc[d].status = "gone" THEN doc
              ELSE [doc EXCEPT ![d].version = edit[d] + 1, ![d].status = "queued",
                               ![d].runnable = TRUE]
    /\ edit' = [edit EXCEPT ![d] = 0]
    /\ UNCHANGED <<build, pointer, receipts, generation, request, removal>>

\* Deleting the chunks of a version deletes its vectors and keyword rows in
\* every build that contains it (ON DELETE CASCADE).
WithoutRows(d, v) ==
    [b \in Builds |-> IF build[b].manifest[d] = v
                        THEN [build[b] EXCEPT !.rows = @ \ {d}] ELSE build[b]]

\* A document.process job of the current version runs.  It may run again: its
\* artifacts commit before the job does, so that a worker that dies in between
\* is followed by another execution, and a failed job may be retried by hand any
\* number of times, even after a retry has succeeded.
Process(d, again) ==
    /\ doc[d].runnable
    /\ ~doc[d].deleted
    /\ doc[d].stored
    /\ DocFree(d)
    /\ doc' = [doc EXCEPT ![d].status = "chunked", ![d].runnable = again]
    /\ build' = WithoutRows(d, doc[d].version)
    /\ UNCHANGED <<edit, pointer, receipts, generation, request, removal>>

ProcessFails(d, again) ==
    /\ doc[d].runnable
    /\ ~doc[d].deleted
    /\ DocFree(d)
    /\ doc' = [doc EXCEPT ![d].status = "failed", ![d].runnable = again]
    /\ UNCHANGED <<edit, build, pointer, receipts, generation, request, removal>>

-----------------------------------------------------------------------------
(* Builds: IndexBuildWorkflow.run.                                          *)

Eligible(d) == doc[d].status \in {"chunked", "ready"} /\ ~doc[d].deleted

Snapshot(S) == [state |-> "building", rows |-> S,
                manifest |-> [d \in Docs |-> IF d \in S THEN doc[d].version ELSE 0]]

\* _validate_versions, and the foreign keys of the rows of the build.
Current(b) ==
    /\ Complete(b)
    /\ \A d \in Members(b) : /\ doc[d].status # "gone"
                             /\ doc[d].version = build[b].manifest[d]

Own(b) == \E d \in Docs : removal[d].build = b

StartBuild(b) ==
    /\ build[b].state = "absent"
    /\ build' = [build EXCEPT ![b] = Snapshot({d \in Docs : Eligible(d)})]
    /\ UNCHANGED <<doc, edit, pointer, receipts, generation, request, removal>>

SealBuild(b) ==
    /\ build[b].state = "building"
    /\ ~Own(b)
    /\ Current(b)
    /\ \A d \in Members(b) : DocFree(d)
    /\ build' = [build EXCEPT ![b].state = "validated"]
    /\ UNCHANGED <<doc, edit, pointer, receipts, generation, request, removal>>

\* The corpus changed, a chunk is gone, or the worker died.
AbortBuild(b) ==
    /\ build[b].state = "building"
    /\ ~Own(b)
    /\ build' = [build EXCEPT ![b] = Unbuilt]
    /\ UNCHANGED <<doc, edit, pointer, receipts, generation, request, removal>>

-----------------------------------------------------------------------------
(* Receipts: BuildAcceptanceService.attest under the Project row lock, and   *)
(* SourceMetadataService.activate, which moves the generation under it.      *)

Attest(b) ==
    /\ Activatable(b)
    /\ BuildFree(b)
    /\ ProjectFree
    /\ Complete(b)
    /\ Cardinality(receipts) < MaxReceipts
    /\ receipts' = receipts \cup {<<b, pointer.active, generation>>}
    /\ UNCHANGED <<doc, edit, build, pointer, generation, request, removal>>

ActivateSource ==
    /\ generation < MaxGeneration
    /\ ProjectFree
    /\ generation' = generation + 1
    /\ UNCHANGED <<doc, edit, build, pointer, receipts, request, removal>>

-----------------------------------------------------------------------------
(* Pointer moves: IndexLifecycleService.activate and rollback.               *)

Goto(r, pc) == request' = [request EXCEPT ![r].pc = pc]

\* activate reads the build without a lock: its state may be stale later.
Choose(r, b) ==
    /\ request[r].pc = "idle"
    /\ Activatable(b)
    /\ request' = [request EXCEPT ![r] = [NoRequest EXCEPT !.pc = "chosen", !.build = b]]
    /\ UNCHANGED <<doc, edit, build, pointer, receipts, generation, removal>>

\* MUTANT: the rows of the build are not counted again.
AcceptedUncounted(b) == <<b, pointer.active, generation>> \in receipts

\* require_build_acceptance under the advisory and the Project row lock.
Accepted(b) == Complete(b) /\ <<b, pointer.active, generation>> \in receipts

Gate(r) ==
    /\ request[r].pc = "chosen"
    /\ ProjectFree
    /\ Accepted(request[r].build)
    /\ Goto(r, "gated")
    /\ UNCHANGED <<doc, edit, build, pointer, receipts, generation, removal>>

LockPointer(r) ==
    /\ request[r].pc = "gated"
    /\ PointerFree
    /\ Goto(r, "holding")
    /\ UNCHANGED <<doc, edit, build, pointer, receipts, generation, removal>>

\* rollback locks the pointer first and takes its target from it.
StartRollback(r) ==
    /\ request[r].pc = "idle"
    /\ PointerFree
    /\ pointer.previous # NoBuild
    /\ build[pointer.previous].state = "retained"
    /\ request' = [request EXCEPT ![r] = [NoRequest EXCEPT !.pc = "rollback",
                                                           !.build = pointer.previous]]
    /\ UNCHANGED <<doc, edit, build, pointer, receipts, generation, removal>>

\* The historical receipt of the target need not name the present baseline.
AcceptedBefore(b) ==
    /\ Complete(b)
    /\ \E base \in Builds \cup {NoBuild} : <<b, base, generation>> \in receipts

GateRollback(r) ==
    /\ request[r].pc = "rollback"
    /\ ProjectFree
    /\ AcceptedBefore(request[r].build)
    /\ Goto(r, "holding")
    /\ UNCHANGED <<doc, edit, build, pointer, receipts, generation, removal>>

\* mark_included_documents_ready reads the documents without a lock.
ToMark(b) == {d \in Members(b) : /\ doc[d].status = "chunked"
                                 /\ ~doc[d].deleted
                                 /\ doc[d].version = build[b].manifest[d]}

\* The old active build is locked, and the documents to mark are read.
Prepare(r) ==
    /\ request[r].pc = "holding"
    /\ pointer.active # NoBuild => BuildFree(pointer.active)
    /\ request' = [request EXCEPT ![r].pc = "prepared",
                                  ![r].marks = ToMark(request[r].build)]
    /\ UNCHANGED <<doc, edit, build, pointer, receipts, generation, removal>>

\* MUTANT: the old active build keeps its state.
SwappedKeepingOld(b) ==
    [c \in Builds |-> IF c = b THEN [build[c] EXCEPT !.state = "active"] ELSE build[c]]

Swapped(b) ==
    [c \in Builds |-> IF c = b THEN [build[c] EXCEPT !.state = "active"]
                      ELSE IF c = pointer.active
                             THEN [build[c] EXCEPT !.state = "retained"]
                      ELSE build[c]]

Move(r) ==
    /\ request[r].pc = "prepared"
    /\ \A d \in request[r].marks : DocFree(d) /\ doc[d].status # "gone"
    /\ pointer' = [active |-> request[r].build, previous |-> pointer.active]
    /\ build' = Swapped(request[r].build)
    /\ doc' = [d \in Docs |-> IF d \in request[r].marks
                                THEN [doc[d] EXCEPT !.status = "ready"] ELSE doc[d]]
    /\ request' = [request EXCEPT ![r] = NoRequest]
    /\ UNCHANGED <<edit, receipts, generation, removal>>

AbortRequest(r) ==
    /\ request[r].pc # "idle"
    /\ request' = [request EXCEPT ![r] = NoRequest]
    /\ UNCHANGED <<doc, edit, build, pointer, receipts, generation, removal>>

-----------------------------------------------------------------------------
(* Removal: DocumentService._stage_destructive and the delete and purge      *)
(* handlers.  The idempotency key of the job is <<mode, document, version>>. *)

RequestRemoval(d, purge) ==
    /\ d \in Removable
    /\ doc[d].status # "gone"
    /\ removal[d].pc \in {"none", "done", "failed"}
    /\ <<removal[d].purge, removal[d].version>> # <<purge, doc[d].version>>
    /\ doc' = [doc EXCEPT ![d].status = "removing"]
    /\ removal' = [removal EXCEPT ![d] = [pc |-> "requested", purge |-> purge,
                                          version |-> doc[d].version, build |-> NoBuild]]
    /\ UNCHANGED <<edit, build, pointer, receipts, generation, request>>

RemovalTo(d, pc) == removal' = [removal EXCEPT ![d].pc = pc]

\* The first execution locks the document and builds the corpus without it.
StartRemovalBuild(d, b) ==
    /\ removal[d].pc = "requested"
    /\ build[b].state = "absent"
    /\ build' = [build EXCEPT ![b] = Snapshot({e \in Docs \ {d} : Eligible(e)})]
    /\ removal' = [removal EXCEPT ![d].pc = "building", ![d].build = b]
    /\ UNCHANGED <<doc, edit, pointer, receipts, generation, request>>

\* Its automatic activation finds no receipt: the job waits for acceptance.
SealRemovalBuild(d) ==
    /\ removal[d].pc = "building"
    /\ ProjectFree
    /\ Current(removal[d].build)
    /\ \A e \in Members(removal[d].build) : DocFree(e)
    /\ build' = [build EXCEPT ![removal[d].build].state = "validated"]
    /\ RemovalTo(d, "waiting")
    /\ UNCHANGED <<doc, edit, pointer, receipts, generation, request>>

ResumeRemoval(d) ==
    /\ removal[d].pc = "waiting"
    /\ pointer.active = removal[d].build
    /\ RemovalTo(d, "resumed")
    /\ UNCHANGED <<doc, edit, build, pointer, receipts, generation, request>>

\* A request that is about to commit has locked the builds it changes.
NotBeingSwapped(b) ==
    \A r \in Requests : request[r].pc = "prepared" => b \notin {request[r].build, pointer.active}

\* The continuation locks the document and its build and looks at its state.
CheckActive(d) ==
    /\ removal[d].pc = "resumed"
    /\ NotBeingSwapped(removal[d].build)
    /\ BuildFree(removal[d].build)
    /\ RemovalTo(d, IF build[removal[d].build].state = "active" THEN "checked" ELSE "waiting")
    /\ UNCHANGED <<doc, edit, build, pointer, receipts, generation, request>>

\* It commits with the AuditEvent of stage_success, whose foreign key waits for
\* a holder of the Project row.
FinishDelete(d) ==
    /\ removal[d].pc = "checked"
    /\ ~removal[d].purge
    /\ ProjectFree
    /\ doc' = [doc EXCEPT ![d].deleted = TRUE]
    /\ RemovalTo(d, "done")
    /\ UNCHANGED <<edit, build, pointer, receipts, generation, request>>

LockPointerForPurge(d) ==
    /\ removal[d].pc = "checked"
    /\ removal[d].purge
    /\ PointerFree
    /\ RemovalTo(d, "purging")
    /\ UNCHANGED <<doc, edit, build, pointer, receipts, generation, request>>

\* Object storage is cleared before the transaction commits.
EraseStorage(d) ==
    /\ removal[d].pc = "purging"
    /\ doc' = [doc EXCEPT ![d].stored = FALSE]
    /\ RemovalTo(d, "erased")
    /\ UNCHANGED <<edit, build, pointer, receipts, generation, request>>

\* MUTANT: only retained builds are superseded.
ToSupersedeRetained(d) == {b \in Builds : d \in Members(b) /\ build[b].state = "retained"}

ToSupersede(d) == {b \in Builds : d \in Members(b) /\ Sealed(b) /\ build[b].state # "active"}

PointerAfterPurge(d) ==
    [pointer EXCEPT !.previous = IF @ \in ToSupersede(d) THEN NoBuild ELSE @]

\* stage_success commits: its AuditEvent waits for the Project row, so that an
\* activation past its gate waits for the pointer in vain and one of the two is
\* aborted.
CommitPurge(d) ==
    /\ removal[d].pc = "erased"
    /\ ProjectFree
    /\ build' = [b \in Builds |->
                   [build[b] EXCEPT !.rows = @ \ {d},
                                    !.state = IF b \in ToSupersede(d) THEN "superseded" ELSE @]]
    /\ pointer' = PointerAfterPurge(d)
    /\ doc' = [doc EXCEPT ![d].status = "gone", ![d].runnable = FALSE]
    /\ RemovalTo(d, "done")
    /\ UNCHANGED <<edit, receipts, generation, request>>

\* The transaction is rolled back; its job is retried.
AbortRemoval(d) ==
    \/ /\ removal[d].pc = "building"
       /\ removal' = [removal EXCEPT ![d].pc = "requested", ![d].build = NoBuild]
       /\ build' = [build EXCEPT ![removal[d].build] = Unbuilt]
       /\ UNCHANGED <<doc, edit, pointer, receipts, generation, request>>
    \/ /\ removal[d].pc \in {"checked", "purging", "erased"}
       /\ RemovalTo(d, "resumed")
       /\ UNCHANGED <<doc, edit, build, pointer, receipts, generation, request>>

\* Its attempts are used up: the document is marked failed.
FailRemoval(d) ==
    /\ removal[d].pc \in {"requested", "resumed"}
    /\ RemovalTo(d, "failed")
    /\ doc' = IF doc[d].version = removal[d].version
                THEN [doc EXCEPT ![d].status = "failed"] ELSE doc
    /\ UNCHANGED <<edit, build, pointer, receipts, generation, request>>

-----------------------------------------------------------------------------
DocStep(d) ==
    \/ ReprocessRead(d)
    \/ ReprocessWrite(d)
    \/ \E again \in BOOLEAN : Process(d, again) \/ ProcessFails(d, again)

BuildStep(b) == StartBuild(b) \/ SealBuild(b) \/ AbortBuild(b) \/ Attest(b)

RequestStep(r) ==
    \/ \E b \in Builds : Choose(r, b)
    \/ Gate(r)
    \/ LockPointer(r)
    \/ StartRollback(r)
    \/ GateRollback(r)
    \/ Prepare(r)
    \/ Move(r)
    \/ AbortRequest(r)

RemovalStep(d) ==
    \/ \E purge \in BOOLEAN : RequestRemoval(d, purge)
    \/ \E b \in Builds : StartRemovalBuild(d, b)
    \/ SealRemovalBuild(d)
    \/ ResumeRemoval(d)
    \/ CheckActive(d)
    \/ FinishDelete(d)
    \/ LockPointerForPurge(d)
    \/ EraseStorage(d)
    \/ CommitPurge(d)
    \/ AbortRemoval(d)
    \/ FailRemoval(d)

Next ==
    \/ \E d \in Docs : DocStep(d) \/ RemovalStep(d)
    \/ \E b \in Builds : BuildStep(b)
    \/ \E r \in Requests : RequestStep(r)
    \/ ActivateSource

Spec == Init /\ [][Next]_vars

-----------------------------------------------------------------------------
(* Properties.                                                              *)

\* Every variable keeps its type.
TypeOK ==
    /\ doc \in [Docs -> DocRecord]
    /\ edit \in [Docs -> 0 .. MaxVersion]
    /\ build \in [Builds -> BuildRecord]
    /\ pointer \in [active : Builds \cup {NoBuild}, previous : Builds \cup {NoBuild}]
    /\ receipts \subseteq Receipt
    /\ generation \in 0 .. MaxGeneration
    /\ request \in [Requests -> RequestRecord]
    /\ removal \in [Docs -> RemovalRecord]
    /\ \A r \in Requests : request[r].pc # "idle" => request[r].build \in Builds
    /\ \A d \in Docs : removal[d].pc \in {"building", "waiting", "resumed", "checked",
                                         "purging", "erased"}
                           => removal[d].build \in Builds

\* The pointer and the states of the builds never disagree, whatever activations,
\* rollbacks and purges overlap: the active build is the only one in state
\* active, and the rollback target is a retained build.
PointerAgrees ==
    /\ \A b \in Builds : build[b].state = "active" <=> pointer.active = b
    /\ pointer.previous # NoBuild => build[pointer.previous].state = "retained"

\* Whenever the pointer moves, the new active build holds a receipt for the
\* source generation of that instant; a build other than the rollback target
\* holds one that was compared with the build it replaces.
AcceptedMoves ==
    [][pointer'.active # pointer.active =>
         LET b == pointer'.active
             bases == {base \in Builds \cup {NoBuild} :
                         <<b, base, generation'>> \in receipts}
         IN  pointer.active \in bases \/ (b = pointer.previous /\ bases # {})]_vars

Excluded(d) == pointer.active # NoBuild /\ d \notin Members(pointer.active)

\* A document loses its content (its object, its row, its visibility) only
\* while the active build excludes it and the job's own candidate is active.
RemovedOnlyWhenExcluded ==
    [][\A d \in Docs :
         (\/ doc'[d].stored # doc[d].stored
          \/ doc'[d].deleted # doc[d].deleted
          \/ doc'[d].status = "gone" /\ doc[d].status # "gone")
           => Excluded(d) /\ pointer.active = removal[d].build]_vars

\* A purge leaves no candidate behind: a build that was started before it is
\* superseded if it was sealed in time, and is never sealed afterwards.
PurgedLeaveNoCandidate ==
    \A d \in Docs, b \in Builds :
        doc[d].status = "gone" /\ d \in Members(b) => build[b].state # "validated"

\* A build that a purge superseded is never active again (docs/api/knowledge_api.md:144),
\* although an activation reads the state of its target without a lock: before
\* the gate the count of its rows refuses it, and after the gate no purge commits.
SupersededStaysOut ==
    [][\A b \in Builds : build[b].state = "superseded" => build'[b].state = "superseded"]_vars
=============================================================================
