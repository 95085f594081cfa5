---------------------------- MODULE CorpusIntake ----------------------------
(***************************************************************************)
(* How documents enter the corpus: uploads that write the object and then  *)
(* the row, reprocess requests that read a row and write it back later,    *)
(* document.process runs that chunk a version, and the corpus.reembed      *)
(* batches in which the indexing of processed versions is coalesced.       *)
(*                                                                         *)
(* The durable job machinery is reduced to what it promises (see           *)
(* DurableJobs): a run has one effective executor at a time, is executed   *)
(* again after a failure or a lost lease while it has attempts, and ends   *)
(* succeeded or failed.  An upload's document has the name of the upload.  *)
(***************************************************************************)
EXTENDS Naturals, FiniteSets

CONSTANTS
    Uploads,       \* upload requests, and the documents they create
    Contents,      \* contents of files, by their SHA-256
    Reprocesses,   \* reprocess requests
    MaxVersion,    \* BOUND: versions of a document
    MaxBatches,    \* BOUND: batch runs
    MaxAttempts    \* attempts of a run

ASSUME IntakeAssumption ==
    /\ MaxVersion \in Nat \ {0}
    /\ MaxBatches \in Nat
    /\ MaxAttempts \in Nat \ {0}

VARIABLES
    content,    \* what each upload carries
    document,   \* committed rows of documents
    object,     \* documents whose raw bytes are in object storage
    upload,     \* what each upload request is doing
    reprocess,  \* what each reprocess request is doing
    process,    \* document.process runs by document and version
    chunks,     \* versions with their chunk rows
    reembed,    \* corpus.reembed batch runs
    spoiled     \* history: uploads whose request failed after its commit

intakeVars == <<content, document, object, upload, reprocess, process, chunks,
                reembed, spoiled>>

-----------------------------------------------------------------------------
Batches == 1 .. MaxBatches
Versions == Uploads \X (1 .. MaxVersion)

Document == [status : {"absent", "queued", "chunked", "ready", "failed"},
             version : 0 .. MaxVersion]
Reprocess == [pc : {"idle"}] \cup
    [pc : {"write"}, doc : Uploads, status : {"queued", "chunked", "ready", "failed"},
     version : 1 .. MaxVersion]
\* joins: the queued batch whose row a finishing run holds, none, or a new one.
Run == [state : {"absent", "queued", "running", "chunked", "joining",
                 "succeeded", "failed"},
        tries : 0 .. MaxAttempts, joins : SUBSET Batches]
Batch == [state : {"absent", "queued", "running", "captured", "retry",
                   "succeeded", "failed"},
          tries : 0 .. MaxAttempts,
          joined : SUBSET Versions, captured : SUBSET Versions]

NoRun == [state |-> "absent", tries |-> 0, joins |-> {}]

IntakeInit ==
    /\ content \in [Uploads -> Contents]
    /\ document = [d \in Uploads |-> [status |-> "absent", version |-> 0]]
    /\ object = {}
    /\ upload = [d \in Uploads |-> "idle"]
    /\ reprocess = [r \in Reprocesses |-> [pc |-> "idle"]]
    /\ process = [k \in Versions |-> NoRun]
    /\ chunks = {}
    /\ reembed = [b \in Batches |-> [state |-> "absent", tries |-> 0,
                                     joined |-> {}, captured |-> {}]]
    /\ spoiled = {}

-----------------------------------------------------------------------------
(* DocumentService.upload.                                                  *)

UploadAt(d, place) == upload' = [upload EXCEPT ![d] = place]
Taken(c) == \E d \in Uploads : document[d].status # "absent" /\ content[d] = c

\* The file is spooled, validated and scanned; a content the Project has is 409.
CheckContent(d) ==
    /\ upload[d] = "idle"
    /\ UploadAt(d, IF Taken(content[d]) THEN "ended" ELSE "put")
    /\ UNCHANGED <<document, object, reprocess, process, chunks, reembed, spoiled>>

\* The storage key is the document's own.
\* MUTANT: equal contents share a key.
ContentKey(d) == CHOOSE x \in Uploads : content[x] = content[d]
Key(d) == d

PutObject(d) ==
    /\ upload[d] = "put"
    /\ \/ object' = object \cup {Key(d)} /\ UploadAt(d, "insert")
       \/ UNCHANGED object /\ UploadAt(d, "ended")     \* ProviderError: 503
    /\ UNCHANGED <<document, reprocess, process, chunks, reembed, spoiled>>

StageRun(k) ==
    process' = [process EXCEPT ![k] =
        IF @.state = "absent" THEN [NoRun EXCEPT !.state = "queued"] ELSE @]

\* The row, its job and the job's intent commit, or the unique index finds the
\* content of another row.
InsertRow(d) ==
    /\ upload[d] = "insert"
    /\ IF Taken(content[d])
         THEN UploadAt(d, "discard") /\ UNCHANGED <<document, process>>
         ELSE /\ document' = [document EXCEPT ![d] =
                                [status |-> "queued", version |-> 1]]
              /\ StageRun(<<d, 1>>)
              /\ UploadAt(d, "committed")
    /\ UNCHANGED <<object, reprocess, chunks, reembed, spoiled>>

\* After the commit the row is refreshed, the job dispatched, the row read.
EndUpload(d) ==
    /\ upload[d] = "committed"
    /\ UploadAt(d, "ended")
    /\ UNCHANGED <<document, object, reprocess, process, chunks, reembed, spoiled>>

\* Any exception between the put and the return deletes the object, one after
\* the commit as well.
FailUpload(d) ==
    /\ upload[d] \in {"insert", "committed"}
    /\ UploadAt(d, "discard")
    /\ spoiled' = IF upload[d] = "committed" THEN spoiled \cup {d} ELSE spoiled
    /\ UNCHANGED <<document, object, reprocess, process, chunks, reembed>>

DiscardObject(d) ==
    /\ upload[d] = "discard"
    /\ \/ object' = object \ {Key(d)}
       \/ UNCHANGED object                             \* storage fails: an orphan
    /\ UploadAt(d, "ended")
    /\ UNCHANGED <<document, reprocess, process, chunks, reembed, spoiled>>

\* The process dies or the client's cancellation unwinds the request.
CrashUpload(d) ==
    /\ upload[d] \in {"put", "insert", "committed", "discard"}
    /\ UploadAt(d, "ended")
    /\ UNCHANGED <<document, object, reprocess, process, chunks, reembed, spoiled>>

-----------------------------------------------------------------------------
(* DocumentService.reprocess.                                               *)

\* The row is read without a lock.
ReadDocument(r, d) ==
    /\ reprocess[r].pc = "idle"
    /\ document[d].status # "absent"
    /\ document[d].version < MaxVersion
    /\ reprocess' = [reprocess EXCEPT ![r] =
         [pc |-> "write", doc |-> d, status |-> document[d].status,
          version |-> document[d].version]]
    /\ UNCHANGED <<document, object, upload, process, chunks, reembed, spoiled>>

\* A finishing run holds the document's row from its version check to its commit.
RowHeld(d) == \E v \in 1 .. MaxVersion : process[<<d, v>>].state = "joining"

\* What the request assigned and found changed: the ORM writes those columns only.
Written(r, d) ==
    [status |-> IF reprocess[r].status = "queued" THEN document[d].status
                                                  ELSE "queued",
     version |-> reprocess[r].version + 1]

WriteReprocess(r) ==
    /\ reprocess[r].pc = "write"
    /\ LET d == reprocess[r].doc IN
         /\ ~RowHeld(d)
         /\ document' = [document EXCEPT ![d] = Written(r, d)]
         /\ StageRun(<<d, reprocess[r].version + 1>>)
    /\ reprocess' = [reprocess EXCEPT ![r] = [pc |-> "idle"]]
    /\ UNCHANGED <<object, upload, chunks, reembed, spoiled>>

-----------------------------------------------------------------------------
(* A document.process run.                                                  *)

RunAt(k, state) == process' = [process EXCEPT ![k].state = state]
Current(k) == document[k[1]].version = k[2]
WithStatus(d, status) == document' = [document EXCEPT ![d].status = status]

StartProcess(k) ==
    /\ process[k].state = "queued"
    /\ process' = [process EXCEPT ![k].state = "running", ![k].tries = @ + 1]
    /\ UNCHANGED <<document, object, upload, reprocess, chunks, reembed, spoiled>>

\* DocumentProcessingWorkflow.run: one transaction under the row lock reads the
\* bytes, replaces the chunks of the version and leaves the document chunked.
ChunkVersion(k) ==
    /\ process[k].state = "running"
    /\ Current(k)
    /\ k[1] \in object
    /\ ~RowHeld(k[1])
    /\ WithStatus(k[1], "chunked")
    /\ chunks' = chunks \cup {k}
    /\ RunAt(k, "chunked")
    /\ UNCHANGED <<object, upload, reprocess, reembed, spoiled>>

\* stage_success, first half: the document's row and the Project's coalescing
\* lock, then a queued batch of the same identity, whose row is held.
\* MUTANT: a batch that was claimed is joined as well.
Unended == {b \in Batches : reembed[b].state \notin {"absent", "succeeded", "failed"}}
Queued == {b \in Batches : reembed[b].state = "queued"}
Unused == {b \in Batches : reembed[b].state = "absent"}
Coalescing == \E k \in Versions : process[k].state = "joining"
Oldest(bs) == {b \in bs : \A x \in bs : b <= x}

BeginJoin(k) ==
    /\ process[k].state = "chunked"
    /\ Current(k)
    /\ ~Coalescing
    /\ Queued # {} \/ Unused # {}
    /\ process' = [process EXCEPT ![k].state = "joining", ![k].joins = Oldest(Queued)]
    /\ UNCHANGED <<document, object, upload, reprocess, chunks, reembed, spoiled>>

\* Second half: the run succeeds, and its version waits in the batch that is
\* held, or in a new one.
CommitJoin(k) ==
    /\ process[k].state = "joining"
    /\ reembed' = IF process[k].joins # {}
         THEN [b \in Batches |-> IF b \in process[k].joins
                 THEN [reembed[b] EXCEPT !.joined = @ \cup {k}] ELSE reembed[b]]
         ELSE [b \in Batches |-> IF b \in Oldest(Unused)
                 THEN [reembed[b] EXCEPT !.state = "queued", !.joined = {k}]
                 ELSE reembed[b]]
    /\ process' = [process EXCEPT ![k].state = "succeeded", ![k].joins = {}]
    /\ UNCHANGED <<document, object, upload, reprocess, chunks, spoiled>>

\* A version that was superseded meanwhile succeeds without a follow-up.
SucceedSuperseded(k) ==
    /\ process[k].state = "chunked"
    /\ ~Current(k)
    /\ RunAt(k, "succeeded")
    /\ UNCHANGED <<document, object, upload, reprocess, chunks, reembed, spoiled>>

\* The attempt fails, or its lease is lost with its worker; a version mismatch
\* is permanent.  A failure that is final, handled by the worker or found by the
\* recovery of the lease, marks the document of that version.
Permanent(k) == process[k].state = "running" /\ ~Current(k)
LastTry(k) == process[k].tries = MaxAttempts
EndAttempt(k, handled) ==
    /\ process[k].state \in {"running", "chunked", "joining"}
    /\ IF LastTry(k) \/ (handled /\ Permanent(k))
         THEN /\ process' = [process EXCEPT ![k].state = "failed", ![k].joins = {}]
              /\ IF Current(k)
                   THEN WithStatus(k[1], "failed") ELSE UNCHANGED document
         ELSE /\ process' = [process EXCEPT ![k].state = "queued", ![k].joins = {}]
              /\ UNCHANGED document
    /\ UNCHANGED <<object, upload, reprocess, chunks, reembed, spoiled>>

-----------------------------------------------------------------------------
(* A corpus.reembed batch.                                                  *)

BatchAt(b, state) == reembed' = [reembed EXCEPT ![b].state = state]

\* The claim updates the row: it waits for a run that joins.
\* MUTANT: the batch's row is read without FOR UPDATE.
ClaimableUnlocked(b) == b \in Batches
Claimable(b) == \A k \in Versions : b \notin process[k].joins
StartBatchRun(b) ==
    /\ \/ reembed[b].state = "queued" /\ Claimable(b)
       \/ reembed[b].state = "retry"
    /\ reembed' = [reembed EXCEPT ![b].state = "running", ![b].tries = @ + 1]
    /\ UNCHANGED <<document, object, upload, reprocess, process, chunks, spoiled>>

Eligible(d) == document[d].status \in {"chunked", "ready"}

\* The build seals the documents that are eligible now, at their version.
CaptureCorpus(b) ==
    /\ reembed[b].state = "running"
    /\ reembed' = [reembed EXCEPT
         ![b].state = "captured",
         ![b].captured = {<<d, document[d].version>> : d \in {x \in Uploads : Eligible(x)}}]
    /\ UNCHANGED <<document, object, upload, reprocess, process, chunks, spoiled>>

\* Activation: documents still at the sealed version become ready.
FinishBatch(b) ==
    /\ reembed[b].state = "captured"
    /\ document' = [d \in Uploads |->
         IF <<d, document[d].version>> \in reembed[b].captured /\ Eligible(d)
           THEN [document[d] EXCEPT !.status = "ready"] ELSE document[d]]
    /\ BatchAt(b, "succeeded")
    /\ UNCHANGED <<object, upload, reprocess, process, chunks, spoiled>>

FailBatch(b) ==
    /\ reembed[b].state \in {"running", "captured"}
    /\ BatchAt(b, IF reembed[b].tries = MaxAttempts THEN "failed" ELSE "retry")
    /\ UNCHANGED <<document, object, upload, reprocess, process, chunks, spoiled>>

-----------------------------------------------------------------------------
UploadStep(d) ==
    \/ CheckContent(d) \/ PutObject(d) \/ InsertRow(d) \/ EndUpload(d)
    \/ FailUpload(d) \/ DiscardObject(d) \/ CrashUpload(d)
WorkOn(k) ==
    \/ StartProcess(k) \/ ChunkVersion(k) \/ BeginJoin(k) \/ CommitJoin(k)
    \/ SucceedSuperseded(k) \/ \E handled \in BOOLEAN : EndAttempt(k, handled)
BatchStep(b) ==
    StartBatchRun(b) \/ CaptureCorpus(b) \/ FinishBatch(b) \/ FailBatch(b)

IntakeStep ==
    \/ \E d \in Uploads : UploadStep(d)
    \/ \E r \in Reprocesses :
         WriteReprocess(r) \/ \E d \in Uploads : ReadDocument(r, d)
    \/ \E k \in Versions : WorkOn(k)
    \/ \E b \in Batches : BatchStep(b)

IntakeNext == IntakeStep /\ UNCHANGED content

\* Runs that are due are executed and end (DurableJobs), by failure at worst.
IntakeFairness ==
    /\ \A k \in Versions : WF_intakeVars(WorkOn(k) /\ UNCHANGED content)
    /\ \A b \in Batches : WF_intakeVars(BatchStep(b) /\ UNCHANGED content)

IntakeSpec == IntakeInit /\ [][IntakeNext]_intakeVars /\ IntakeFairness

-----------------------------------------------------------------------------
(* Properties.                                                              *)

\* Types.
IntakeTypeOK ==
    /\ content \in [Uploads -> Contents]
    /\ document \in [Uploads -> Document]
    /\ object \subseteq Uploads
    /\ upload \in [Uploads -> {"idle", "put", "insert", "committed", "discard", "ended"}]
    /\ reprocess \in [Reprocesses -> Reprocess]
    /\ process \in [Versions -> Run]
    /\ chunks \subseteq Versions
    /\ reembed \in [Batches -> Batch]
    /\ spoiled \subseteq Uploads

\* The bytes of a committed document stay in storage: an upload that loses the
\* race for the same content, or fails, removes only what it wrote itself.  The
\* exception is an upload that fails after its own commit.
BytesKept ==
    \A d \in Uploads : document[d].status # "absent" => d \in object \cup spoiled

\* No version joins a batch that was claimed: the batch may have looked at the
\* corpus before.
NoLateJoin ==
    [][\A b \in Batches :
          reembed[b].state \notin {"absent", "queued"}
              => reembed'[b].joined = reembed[b].joined]_intakeVars

\* A version whose processing succeeded is indexed in the end, unless its batch
\* fails, another version replaces it, or a second reprocess request that had
\* read the same predecessor put it back to queued.
Indexed(k) ==
    \E b \in Batches :
        \/ k \in reembed[b].captured /\ reembed[b].state = "succeeded"
        \/ k \in reembed[b].joined /\ reembed[b].state = "failed"
ProcessedIsIndexed ==
    \A k \in Versions :
        (process[k].state = "succeeded")
            ~> (Indexed(k) \/ ~Current(k) \/ document[k[1]].status = "queued")
=============================================================================
