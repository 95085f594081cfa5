------------------------- MODULE CorpusIntakeProofs -------------------------
(***************************************************************************)
(* Proofs about CorpusIntake for any set of uploads, contents and requests *)
(* and any bound on versions, batches and attempts.  LimitInv keeps the    *)
(* counters within their types; ObjectInv says who may still remove an     *)
(* object; JoinInv, that a batch whose row a finishing run holds is not    *)
(* claimed.                                                                *)
(***************************************************************************)
EXTENDS CorpusIntake, TLAPS

RunStates == {"absent", "queued", "running", "chunked", "joining", "succeeded", "failed"}
BatchStates == {"absent", "queued", "running", "captured", "retry", "succeeded", "failed"}
Absent(d) == document[d].status = "absent"

LimitInv ==
    /\ \A d \in Uploads : Absent(d) <=> document[d].version = 0
    /\ \A r \in Reprocesses : reprocess[r].pc = "write" =>
         /\ reprocess[r].version < MaxVersion
         /\ ~Absent(reprocess[r].doc)
    /\ \A k \in Versions : process[k].state = "queued" => process[k].tries < MaxAttempts
    /\ \A b \in Batches : reembed[b].state \in {"absent", "queued", "retry"}
                            => reembed[b].tries < MaxAttempts

Typed == IntakeTypeOK /\ LimitInv

ObjectInv ==
    \A d \in Uploads :
        /\ upload[d] \in {"idle", "put", "insert"} => Absent(d)
        /\ upload[d] = "insert" => d \in object
        /\ upload[d] = "discard" => Absent(d) \/ d \in spoiled
        /\ ~Absent(d) => d \in object \cup spoiled

JoinInv ==
    \A k \in Versions : \A b \in process[k].joins : reembed[b].state = "queued"

-----------------------------------------------------------------------------
(* The shapes of rows and of their changes.                                 *)

LEMMA Bounds ==
    /\ MaxVersion \in Nat /\ MaxVersion > 0
    /\ MaxAttempts \in Nat /\ MaxAttempts > 0
    /\ Batches \subseteq Nat
  BY IntakeAssumption DEF Batches

LEMMA DocumentFields ==
    ASSUME IntakeTypeOK, NEW d \in Uploads
    PROVE  /\ document[d] \in Document
           /\ document[d].status \in {"absent", "queued", "chunked", "ready", "failed"}
           /\ document[d].version \in 0 .. MaxVersion
  BY DEF IntakeTypeOK, Document

LEMMA ReprocessFields ==
    ASSUME IntakeTypeOK, NEW r \in Reprocesses, reprocess[r].pc = "write"
    PROVE  /\ reprocess[r].doc \in Uploads
           /\ reprocess[r].status \in {"queued", "chunked", "ready", "failed"}
           /\ reprocess[r].version \in 1 .. MaxVersion
  BY DEF IntakeTypeOK, Reprocess

LEMMA RunFields ==
    ASSUME IntakeTypeOK, NEW k \in Versions
    PROVE  /\ process[k] \in Run /\ process[k].state \in RunStates
           /\ process[k].tries \in 0 .. MaxAttempts
           /\ process[k].joins \subseteq Batches
  BY DEF IntakeTypeOK, Run, RunStates

LEMMA BatchFields ==
    ASSUME IntakeTypeOK, NEW b \in Batches
    PROVE  /\ reembed[b] \in Batch /\ reembed[b].state \in BatchStates
           /\ reembed[b].tries \in 0 .. MaxAttempts
           /\ reembed[b].joined \subseteq Versions
           /\ reembed[b].captured \subseteq Versions
  BY DEF IntakeTypeOK, Batch, BatchStates

LEMMA VersionFields ==
    ASSUME NEW k \in Versions
    PROVE  k[1] \in Uploads /\ k[2] \in 1 .. MaxVersion
  BY DEF Versions

LEMMA Uploading ==
    ASSUME IntakeTypeOK, NEW d \in Uploads,
           NEW place \in {"idle", "put", "insert", "committed", "discard", "ended"},
           UploadAt(d, place)
    PROVE  /\ upload' \in [Uploads -> {"idle", "put", "insert", "committed", "discard", "ended"}]
           /\ upload'[d] = place
           /\ \A x \in Uploads : x # d => upload'[x] = upload[x]
  BY DEF IntakeTypeOK, UploadAt

\* A run moves: its state, and what is said of its tries and joins.
LEMMA Running ==
    ASSUME IntakeTypeOK, NEW k \in Versions, NEW run \in Run,
           process' = [process EXCEPT ![k] = run]
    PROVE  /\ process' \in [Versions -> Run]
           /\ process'[k] = run
           /\ \A x \in Versions : x # k => process'[x] = process[x]
  BY DEF IntakeTypeOK

LEMMA Batching ==
    ASSUME IntakeTypeOK, NEW b \in Batches, NEW batch \in Batch,
           reembed' = [reembed EXCEPT ![b] = batch]
    PROVE  /\ reembed' \in [Batches -> Batch]
           /\ reembed'[b] = batch
           /\ \A x \in Batches : x # b => reembed'[x] = reembed[x]
  BY DEF IntakeTypeOK

LEMMA Marking ==
    ASSUME IntakeTypeOK, NEW d \in Uploads,
           NEW status \in {"queued", "chunked", "ready", "failed"}, WithStatus(d, status)
    PROVE  /\ document' \in [Uploads -> Document]
           /\ document'[d].status = status /\ document'[d].version = document[d].version
           /\ \A x \in Uploads : x # d => document'[x] = document[x]
  BY DocumentFields DEF IntakeTypeOK, WithStatus, Document

LEMMA Staged ==
    ASSUME Typed, NEW k \in Versions, StageRun(k)
    PROVE  /\ process' \in [Versions -> Run]
           /\ \A x \in Versions :
                /\ process'[x].state = "queued" => process'[x].tries < MaxAttempts
                /\ process'[x].joins \subseteq process[x].joins
<1> DEFINE run == IF process[k].state = "absent" THEN [NoRun EXCEPT !.state = "queued"]
                                                 ELSE process[k]
<1>1. run \in Run /\ (run = process[k] \/ (run.tries = 0 /\ run.joins = {}))
  BY RunFields, Bounds DEF Typed, Run, NoRun
<1>2. process' = [process EXCEPT ![k] = run]
  BY DEF StageRun
<1> HIDE DEF run
<1>3. /\ process' \in [Versions -> Run] /\ process'[k] = run
      /\ \A x \in Versions : x # k => process'[x] = process[x]
  BY <1>1, <1>2, Running DEF Typed
<1> QED BY <1>1, <1>3, Bounds DEF Typed, LimitInv

\* What the limits need of a step that leaves most of the state alone.
LEMMA SameRows ==
    ASSUME LimitInv, UNCHANGED <<document, reprocess>>,
           \A k \in Versions : process'[k].state = "queued" => process'[k].tries < MaxAttempts,
           \A b \in Batches : reembed'[b].state \in {"absent", "queued", "retry"}
                                => reembed'[b].tries < MaxAttempts
    PROVE  LimitInv'
  BY DEF LimitInv, Absent

-----------------------------------------------------------------------------
LEMMA UploadTyped ==
    ASSUME Typed, NEW d \in Uploads, UploadStep(d), UNCHANGED content
    PROVE  Typed'
<1> USE DEF Typed
<1>1. CASE InsertRow(d) /\ ~Taken(content[d])
  <2>1. <<d, 1>> \in Versions
    BY Bounds DEF Versions
  <2>2. StageRun(<<d, 1>>) /\ UploadAt(d, "committed")
        /\ document' = [document EXCEPT ![d] = [status |-> "queued", version |-> 1]]
        /\ UNCHANGED <<object, reprocess, chunks, reembed, spoiled>>
    BY <1>1 DEF InsertRow
  <2>3. document' \in [Uploads -> Document]
    BY <2>2, Bounds DEF IntakeTypeOK, Document
  <2>4. IntakeTypeOK'
    BY <2>1, <2>2, <2>3, Uploading, Staged DEF IntakeTypeOK
  <2>5. \A x \in Uploads : /\ Absent(x)' <=> document'[x].version = 0
                           /\ ~Absent(x) => ~Absent(x)'
    BY <2>2 DEF IntakeTypeOK, LimitInv, Absent
  <2>6. LimitInv'
    BY <2>1, <2>2, <2>5, Staged, ReprocessFields DEF LimitInv, Absent
  <2> QED BY <2>4, <2>6
<1>2. CASE ~(InsertRow(d) /\ ~Taken(content[d]))
  <2>1. UNCHANGED <<document, reprocess, process, chunks, reembed>>
    BY <1>2 DEF UploadStep, CheckContent, PutObject, InsertRow, EndUpload, FailUpload,
                DiscardObject, CrashUpload
  <2>2. upload' \in [Uploads -> {"idle", "put", "insert", "committed", "discard", "ended"}]
    <3>1. PICK place \in {"idle", "put", "insert", "committed", "discard", "ended"} :
              UploadAt(d, place)
      BY DEF UploadStep, CheckContent, PutObject, InsertRow, EndUpload, FailUpload,
             DiscardObject, CrashUpload
    <3> QED BY <3>1, Uploading
  <2>3. object' \subseteq Uploads /\ spoiled' \subseteq Uploads
    BY DEF UploadStep, CheckContent, PutObject, InsertRow, EndUpload, FailUpload,
           DiscardObject, CrashUpload, Key, IntakeTypeOK
  <2>4. IntakeTypeOK'
    BY <2>1, <2>2, <2>3 DEF IntakeTypeOK
  <2> QED BY <2>1, <2>4, SameRows DEF LimitInv
<1> QED BY <1>1, <1>2

LEMMA ReprocessTyped ==
    ASSUME Typed, NEW r \in Reprocesses, UNCHANGED content,
           WriteReprocess(r) \/ \E d \in Uploads : ReadDocument(r, d)
    PROVE  Typed'
<1> USE DEF Typed
<1>1. ASSUME NEW d \in Uploads, ReadDocument(r, d)
      PROVE  Typed'
  <2> DEFINE entry == [pc |-> "write", doc |-> d, status |-> document[d].status,
                       version |-> document[d].version]
  <2>1. /\ document[d].version \in 1 .. MaxVersion /\ document[d].version < MaxVersion
        /\ document[d].status \in {"queued", "chunked", "ready", "failed"}
        /\ ~Absent(d)
    BY <1>1, DocumentFields, Bounds DEF ReadDocument, LimitInv, Absent
  <2>2. entry \in Reprocess
    BY <2>1 DEF Reprocess
  <2>3. reprocess' = [reprocess EXCEPT ![r] = entry]
        /\ UNCHANGED <<document, object, upload, process, chunks, reembed, spoiled>>
    BY <1>1 DEF ReadDocument
  <2>4. IntakeTypeOK'
    BY <2>2, <2>3 DEF IntakeTypeOK
  <2>5. LimitInv'
    BY <2>1, <2>3 DEF IntakeTypeOK, LimitInv, Absent
  <2> QED BY <2>4, <2>5
<1>2. CASE WriteReprocess(r)
  <2> DEFINE d == reprocess[r].doc
             k == <<d, reprocess[r].version + 1>>
  <2>1. /\ d \in Uploads /\ k \in Versions /\ ~Absent(d)
        /\ reprocess[r].version + 1 \in 1 .. MaxVersion
    BY <1>2, ReprocessFields, Bounds DEF WriteReprocess, LimitInv, Versions
  <2>2. /\ document' = [document EXCEPT ![d] = Written(r, d)]
        /\ StageRun(k)
        /\ reprocess' = [reprocess EXCEPT ![r] = [pc |-> "idle"]]
        /\ UNCHANGED <<object, upload, chunks, reembed, spoiled>>
    BY <1>2 DEF WriteReprocess
  <2>3. /\ Written(r, d) \in Document /\ Written(r, d).status # "absent"
        /\ Written(r, d).version # 0
    BY <2>1, DocumentFields, Bounds DEF Written, Document, Absent
  <2> HIDE DEF d, k
  <2>4. process' \in [Versions -> Run]
        /\ \A x \in Versions : process'[x].state = "queued" => process'[x].tries < MaxAttempts
    BY <2>1, <2>2, Staged
  <2>5. IntakeTypeOK'
    BY <2>2, <2>3, <2>4 DEF IntakeTypeOK, Reprocess
  <2>6. \A x \in Uploads : /\ Absent(x)' <=> document'[x].version = 0
                           /\ ~Absent(x) => ~Absent(x)'
    BY <2>2, <2>3 DEF IntakeTypeOK, LimitInv, Absent
  <2>7. \A s \in Reprocesses : reprocess'[s].pc = "write" => reprocess'[s] = reprocess[s]
    BY <2>2 DEF IntakeTypeOK
  <2>8. LimitInv'
    BY <2>2, <2>4, <2>6, <2>7, ReprocessFields DEF LimitInv, Absent
  <2> QED BY <2>5, <2>8
<1> QED BY <1>1, <1>2

\* A run that moves, perhaps with the status of its document.
LEMMA RunTyped ==
    ASSUME Typed, NEW k \in Versions, NEW run \in Run,
           process' = [process EXCEPT ![k] = run],
           run.state = "queued" => run.tries < MaxAttempts,
           \/ UNCHANGED document
           \/ Current(k) /\ \E s \in {"chunked", "failed"} : WithStatus(k[1], s),
           chunks' \subseteq Versions,
           UNCHANGED <<content, object, upload, reprocess, reembed, spoiled>>
    PROVE  Typed'
<1>1. process' \in [Versions -> Run]
      /\ \A x \in Versions : process'[x].state = "queued" => process'[x].tries < MaxAttempts
  BY Running DEF Typed, LimitInv
<1>2. /\ document' \in [Uploads -> Document]
      /\ \A x \in Uploads : /\ Absent(x)' <=> document'[x].version = 0
                            /\ ~Absent(x) => ~Absent(x)'
  <2>1. CASE UNCHANGED document
    BY <2>1 DEF Typed, IntakeTypeOK, LimitInv, Absent
  <2>2. ASSUME NEW s \in {"chunked", "failed"}, Current(k), WithStatus(k[1], s)
        PROVE  /\ document' \in [Uploads -> Document]
               /\ \A x \in Uploads : /\ Absent(x)' <=> document'[x].version = 0
                                     /\ ~Absent(x) => ~Absent(x)'
    <3>1. document[k[1]].version # 0
      BY <2>2, VersionFields DEF Current
    <3> QED BY <2>2, <3>1, VersionFields, Marking DEF Typed, LimitInv, Absent
  <2> QED BY <2>1, <2>2
<1>3. IntakeTypeOK'
  BY <1>1, <1>2 DEF Typed, IntakeTypeOK
<1>4. LimitInv'
  BY <1>1, <1>2, ReprocessFields DEF Typed, LimitInv, Absent
<1> QED BY <1>3, <1>4 DEF Typed

LEMMA WorkTyped ==
    ASSUME Typed, NEW k \in Versions, WorkOn(k), UNCHANGED content
    PROVE  Typed'
<1> DEFINE old == process[k]
<1>1. /\ old \in Run /\ old.state \in RunStates /\ old.tries \in 0 .. MaxAttempts
      /\ old.joins \subseteq Batches
  BY RunFields DEF Typed
<1>2. process \in [Versions -> Run] /\ chunks \subseteq Versions
  BY DEF Typed, IntakeTypeOK
<1>3. \A state \in RunStates : /\ [old EXCEPT !.state = state] \in Run
                               /\ [old EXCEPT !.state = state, !.joins = {}] \in Run
                               /\ [old EXCEPT !.state = state].state = state
                               /\ [old EXCEPT !.state = state, !.joins = {}].state = state
                               /\ [old EXCEPT !.state = state, !.joins = {}].tries = old.tries
  BY <1>1 DEF Run, RunStates
<1>4. ASSUME NEW state \in RunStates, RunAt(k, state)
      PROVE  process' = [process EXCEPT ![k] = [old EXCEPT !.state = state]]
  BY <1>2, <1>4 DEF RunAt
<1>5. CASE StartProcess(k)
  <2> DEFINE run == [old EXCEPT !.state = "running", !.tries = @ + 1]
  <2>1. old.tries < MaxAttempts
    BY <1>5 DEF StartProcess, Typed, LimitInv
  <2>2. run \in Run /\ run.state # "queued"
    <3>1. old.tries + 1 \in 0 .. MaxAttempts
      BY <1>1, <2>1, Bounds
    <3> HIDE DEF old
    <3> QED BY <1>1, <3>1 DEF Run
  <2>3. /\ process' = [process EXCEPT ![k] = run]
        /\ UNCHANGED <<document, object, upload, reprocess, chunks, reembed, spoiled>>
    BY <1>2, <1>5 DEF StartProcess
  <2> HIDE DEF run
  <2> QED BY <1>2, <2>2, <2>3, RunTyped
<1>6. CASE ChunkVersion(k)
  <2>1. "chunked" \in RunStates /\ chunks' \subseteq Versions
    BY <1>2, <1>6 DEF ChunkVersion, RunStates
  <2> DEFINE run == [old EXCEPT !.state = "chunked"]
  <2>2. run \in Run /\ run.state = "chunked" /\ process' = [process EXCEPT ![k] = run]
    BY <1>3, <1>4, <1>6, <2>1 DEF ChunkVersion
  <2> HIDE DEF run
  <2> QED BY <1>6, <2>1, <2>2, RunTyped DEF ChunkVersion
<1>7. CASE BeginJoin(k)
  <2> DEFINE run == [old EXCEPT !.state = "joining", !.joins = Oldest(Queued)]
  <2>1. Oldest(Queued) \subseteq Batches
    BY DEF Oldest, Queued
  <2>2. run \in Run /\ run.state # "queued"
    BY <1>1, <2>1 DEF Run
  <2>3. /\ process' = [process EXCEPT ![k] = run]
        /\ UNCHANGED <<document, object, upload, reprocess, chunks, reembed, spoiled>>
    BY <1>2, <1>7 DEF BeginJoin
  <2> HIDE DEF run
  <2> QED BY <1>2, <2>2, <2>3, RunTyped
<1>8. CASE CommitJoin(k)
  <2> DEFINE run == [old EXCEPT !.state = "succeeded", !.joins = {}]
  <2>1. run \in Run /\ run.state # "queued" /\ process' = [process EXCEPT ![k] = run]
    BY <1>1, <1>2, <1>8 DEF CommitJoin, Run
  <2> HIDE DEF run
  <2>2. process' \in [Versions -> Run]
        /\ \A x \in Versions : process'[x].state = "queued" => process'[x].tries < MaxAttempts
    BY <2>1, Running DEF Typed, LimitInv
  <2>3. \A b \in Batches :
          /\ [reembed[b] EXCEPT !.joined = @ \cup {k}] \in Batch
          /\ [reembed[b] EXCEPT !.state = "queued", !.joined = {k}] \in Batch
          /\ reembed[b] \in Batch
    BY BatchFields DEF Typed, Batch
  <2>4. CASE process[k].joins # {}
    <3>1. reembed' = [b \in Batches |-> IF b \in process[k].joins
                 THEN [reembed[b] EXCEPT !.joined = @ \cup {k}] ELSE reembed[b]]
      BY <1>8, <2>4 DEF CommitJoin
    <3>2. reembed' \in [Batches -> Batch]
      BY <2>3, <3>1
    <3>3. \A b \in Batches : reembed'[b].state = reembed[b].state
                             /\ reembed'[b].tries = reembed[b].tries
      BY <3>1, BatchFields DEF Typed, Batch
    <3>4. IntakeTypeOK'
      BY <1>8, <2>2, <3>2 DEF CommitJoin, Typed, IntakeTypeOK
    <3> QED BY <1>8, <2>2, <3>3, <3>4, SameRows DEF CommitJoin, Typed, LimitInv
  <2>5. CASE process[k].joins = {}
    <3>1. reembed' = [b \in Batches |-> IF b \in Oldest(Unused)
                 THEN [reembed[b] EXCEPT !.state = "queued", !.joined = {k}]
                 ELSE reembed[b]]
      BY <1>8, <2>5 DEF CommitJoin
    <3>2. reembed' \in [Batches -> Batch]
      BY <2>3, <3>1
    <3>3. \A b \in Batches : reembed'[b].tries = reembed[b].tries
            /\ (b \in Oldest(Unused) \/ reembed'[b].state = reembed[b].state)
      BY <3>1, BatchFields DEF Typed, Batch
    <3>4. \A b \in Batches : b \in Oldest(Unused) => reembed[b].state = "absent"
      BY DEF Oldest, Unused
    <3>5. IntakeTypeOK'
      BY <1>8, <2>2, <3>2 DEF CommitJoin, Typed, IntakeTypeOK
    <3> QED BY <1>8, <2>2, <3>3, <3>4, <3>5, SameRows DEF CommitJoin, Typed, LimitInv
  <2> QED BY <2>4, <2>5
<1>9. CASE SucceedSuperseded(k)
  <2> DEFINE run == [old EXCEPT !.state = "succeeded"]
  <2>1. run \in Run /\ run.state # "queued" /\ process' = [process EXCEPT ![k] = run]
    BY <1>3, <1>4, <1>9 DEF SucceedSuperseded, RunStates
  <2> HIDE DEF run
  <2> QED BY <1>2, <1>9, <2>1, RunTyped DEF SucceedSuperseded
<1>10. ASSUME NEW handled \in BOOLEAN, EndAttempt(k, handled)
       PROVE  Typed'
  <2> DEFINE run(state) == [old EXCEPT !.state = state, !.joins = {}]
  <2>1. PICK state \in {"failed", "queued"} :
          /\ process' = [process EXCEPT ![k] = run(state)]
          /\ state = "queued" => ~LastTry(k)
    BY <1>2, <1>10 DEF EndAttempt
  <2>2. run(state) \in Run /\ run(state).state = state /\ run(state).tries = old.tries
    BY <1>3 DEF RunStates
  <2>3. state = "queued" => old.tries < MaxAttempts
    BY <1>1, <2>1, Bounds DEF LastTry
  <2>4. UNCHANGED document \/ (Current(k) /\ WithStatus(k[1], "failed"))
    BY <1>10 DEF EndAttempt
  <2>5. UNCHANGED <<object, upload, reprocess, chunks, reembed, spoiled>>
    BY <1>10 DEF EndAttempt
  <2> HIDE DEF run
  <2> QED BY <1>2, <2>1, <2>2, <2>3, <2>4, <2>5, RunTyped
<1> QED BY <1>5, <1>6, <1>7, <1>8, <1>9, <1>10 DEF WorkOn

\* A batch moves and leaves the documents alone.
LEMMA BatchTyped ==
    ASSUME Typed, NEW b \in Batches, NEW batch \in Batch,
           reembed' = [reembed EXCEPT ![b] = batch],
           batch.state \in {"absent", "queued", "retry"} => batch.tries < MaxAttempts,
           UNCHANGED <<content, document, object, upload, reprocess, process, chunks, spoiled>>
    PROVE  Typed'
<1>1. /\ reembed' \in [Batches -> Batch]
      /\ \A x \in Batches : reembed'[x].state \in {"absent", "queued", "retry"}
                              => reembed'[x].tries < MaxAttempts
  BY Batching DEF Typed, LimitInv
<1>2. IntakeTypeOK'
  BY <1>1 DEF Typed, IntakeTypeOK
<1> QED BY <1>1, <1>2, SameRows DEF Typed, LimitInv

\* Activation keeps every version, and no document becomes or stops being absent.
LEMMA Readied ==
    ASSUME Typed, NEW b \in Batches, FinishBatch(b)
    PROVE  /\ document' \in [Uploads -> Document]
           /\ \A d \in Uploads : document'[d].version = document[d].version
                                 /\ (Absent(d)' <=> Absent(d))
<1>1. document' = [d \in Uploads |->
         IF <<d, document[d].version>> \in reembed[b].captured /\ Eligible(d)
           THEN [document[d] EXCEPT !.status = "ready"] ELSE document[d]]
  BY DEF FinishBatch
<1>2. \A d \in Uploads : document[d] \in Document
                         /\ [document[d] EXCEPT !.status = "ready"] \in Document
  BY DocumentFields DEF Typed, Document
<1>3. document' \in [Uploads -> Document]
  BY <1>1, <1>2
<1>4. ASSUME NEW d \in Uploads
      PROVE  document'[d].version = document[d].version /\ (Absent(d)' <=> Absent(d))
  BY <1>1, <1>2 DEF Absent, Eligible, Document
<1> QED BY <1>3, <1>4

LEMMA BatchStepTyped ==
    ASSUME Typed, NEW b \in Batches, BatchStep(b), UNCHANGED content
    PROVE  Typed'
<1> DEFINE old == reembed[b]
<1>1. /\ old \in Batch /\ old.state \in BatchStates /\ old.tries \in 0 .. MaxAttempts
      /\ reembed \in [Batches -> Batch]
  BY BatchFields DEF Typed, IntakeTypeOK
<1>2. CASE StartBatchRun(b)
  <2> DEFINE batch == [old EXCEPT !.state = "running", !.tries = @ + 1]
  <2>1. old.tries < MaxAttempts
    BY <1>2 DEF StartBatchRun, Typed, LimitInv
  <2>2. batch \in Batch /\ batch.state = "running"
    <3>1. old.tries + 1 \in 0 .. MaxAttempts
      BY <1>1, <2>1, Bounds
    <3> HIDE DEF old
    <3> QED BY <1>1, <3>1 DEF Batch
  <2>3. reembed' = [reembed EXCEPT ![b] = batch]
    BY <1>1, <1>2 DEF StartBatchRun
  <2> HIDE DEF batch
  <2> QED BY <1>2, <2>2, <2>3, BatchTyped DEF StartBatchRun
<1>3. CASE CaptureCorpus(b)
  <2> DEFINE seen == {<<d, document[d].version>> : d \in {x \in Uploads : Eligible(x)}}
             batch == [old EXCEPT !.state = "captured", !.captured = seen]
  <2>1. seen \subseteq Versions
    <3>1. \A d \in Uploads : Eligible(d) => document[d].version \in 1 .. MaxVersion
      BY DocumentFields, Bounds DEF Typed, LimitInv, Absent, Eligible
    <3> QED BY <3>1 DEF Versions
  <2> HIDE DEF seen
  <2>2. batch \in Batch /\ batch.state = "captured"
    BY <1>1, <2>1 DEF Batch
  <2>3. reembed' = [reembed EXCEPT ![b] = batch]
    BY <1>1, <1>3 DEF CaptureCorpus, seen
  <2> HIDE DEF batch
  <2> QED BY <1>3, <2>2, <2>3, BatchTyped DEF CaptureCorpus
<1>4. CASE FinishBatch(b)
  <2> DEFINE batch == [old EXCEPT !.state = "succeeded"]
  <2>1. batch \in Batch /\ batch.state = "succeeded"
    BY <1>1 DEF Batch
  <2>2. reembed' = [reembed EXCEPT ![b] = batch]
        /\ UNCHANGED <<object, upload, reprocess, process, chunks, spoiled>>
    BY <1>1, <1>4 DEF FinishBatch, BatchAt
  <2> HIDE DEF batch
  <2>3. /\ reembed' \in [Batches -> Batch]
        /\ \A x \in Batches : reembed'[x].state \in {"absent", "queued", "retry"}
                              => reembed'[x].tries < MaxAttempts
    BY <2>1, <2>2, Batching DEF Typed, LimitInv
  <2>4. IntakeTypeOK'
    BY <1>4, <2>2, <2>3, Readied DEF Typed, IntakeTypeOK
  <2>5. \A r \in Reprocesses : reprocess[r].pc = "write" => reprocess[r].doc \in Uploads
    BY ReprocessFields DEF Typed
  <2>6. LimitInv'
    BY <1>4, <2>2, <2>3, <2>5, Readied DEF Typed, LimitInv, Absent
  <2> QED BY <2>4, <2>6 DEF Typed
<1>5. CASE FailBatch(b)
  <2> DEFINE to == IF old.tries = MaxAttempts THEN "failed" ELSE "retry"
             batch == [old EXCEPT !.state = to]
  <2>1. /\ batch \in Batch /\ batch.state \in {"failed", "retry"}
        /\ batch.state = "retry" => batch.tries < MaxAttempts
    BY <1>1, Bounds DEF Batch
  <2>2. reembed' = [reembed EXCEPT ![b] = batch]
    BY <1>1, <1>5 DEF FailBatch, BatchAt
  <2> HIDE DEF batch
  <2> QED BY <1>5, <2>1, <2>2, BatchTyped DEF FailBatch
<1> QED BY <1>2, <1>3, <1>4, <1>5 DEF BatchStep

LEMMA TypePreserved ==
    ASSUME Typed, [IntakeNext]_intakeVars
    PROVE  Typed'
<1>1. CASE UNCHANGED intakeVars
  <2>1. UNCHANGED <<document, reprocess, process, reembed>>
    BY <1>1 DEF intakeVars
  <2>2. IntakeTypeOK'
    BY <1>1 DEF Typed, IntakeTypeOK, intakeVars
  <2> QED BY <2>1, <2>2, SameRows DEF Typed, LimitInv
<1>2. ASSUME NEW r \in Reprocesses, UNCHANGED content,
             WriteReprocess(r) \/ \E d \in Uploads : ReadDocument(r, d)
      PROVE  Typed'
  BY <1>2, ReprocessTyped
<1> QED BY <1>1, <1>2, UploadTyped, WorkTyped, BatchStepTyped DEF IntakeNext, IntakeStep

LEMMA TypedInitially ==
    ASSUME IntakeInit
    PROVE  Typed
<1>1. IntakeTypeOK
  BY Bounds DEF IntakeInit, IntakeTypeOK, Document, Reprocess, Run, Batch, NoRun
<1>2. LimitInv
  BY Bounds DEF IntakeInit, LimitInv, Absent, NoRun
<1> QED BY <1>1, <1>2 DEF Typed

\* The state is well typed: no counter leaves its bound, a request that writes
\* has read a committed row, and a run or batch that waits has an attempt left.
THEOREM TypeCorrect == IntakeSpec => [](IntakeTypeOK /\ LimitInv)
<1>1. IntakeInit => Typed
  BY TypedInitially
<1>2. Typed /\ [IntakeNext]_intakeVars => Typed'
  BY TypePreserved
<1>3. Typed => IntakeTypeOK /\ LimitInv
  BY DEF Typed
<1> QED BY <1>1, <1>2, <1>3, PTL DEF IntakeSpec

-----------------------------------------------------------------------------
(* The bytes of committed documents.                                        *)

\* Only the insert of a row ends a document's absence; nothing restores it.
LEMMA AbsenceKept ==
    ASSUME Typed, IntakeStep, NEW d \in Uploads, ~InsertRow(d)
    PROVE  Absent(d)' <=> Absent(d)
<1> USE DEF Typed
<1>1. ASSUME NEW x \in Uploads, UploadStep(x)
      PROVE  Absent(d)' <=> Absent(d)
  <2>1. CASE InsertRow(x) /\ ~Taken(content[x])
    <3>1. document' = [document EXCEPT ![x] = [status |-> "queued", version |-> 1]] /\ x # d
      BY <2>1 DEF InsertRow
    <3> QED BY <3>1 DEF Absent, IntakeTypeOK
  <2>2. CASE ~(InsertRow(x) /\ ~Taken(content[x]))
    <3>1. UNCHANGED document
      BY <1>1, <2>2 DEF UploadStep, CheckContent, PutObject, InsertRow, EndUpload,
                        FailUpload, DiscardObject, CrashUpload
    <3> QED BY <3>1 DEF Absent
  <2> QED BY <2>1, <2>2
<1>2. ASSUME NEW r \in Reprocesses, WriteReprocess(r)
      PROVE  Absent(d)' <=> Absent(d)
  <2> DEFINE x == reprocess[r].doc
  <2>1. x \in Uploads /\ ~Absent(x)
    BY <1>2, ReprocessFields DEF WriteReprocess, LimitInv
  <2>2. document' = [document EXCEPT ![x] = Written(r, x)]
    BY <1>2 DEF WriteReprocess
  <2>3. Written(r, x).status # "absent"
    BY <2>1 DEF Written, Absent
  <2> HIDE DEF x
  <2> QED BY <2>1, <2>2, <2>3 DEF Absent, IntakeTypeOK
<1>3. ASSUME NEW k \in Versions, WorkOn(k)
      PROVE  Absent(d)' <=> Absent(d)
  <2>1. \/ UNCHANGED document
        \/ Current(k) /\ \E s \in {"chunked", "failed"} : WithStatus(k[1], s)
    BY <1>3 DEF WorkOn, StartProcess, ChunkVersion, BeginJoin, CommitJoin,
                SucceedSuperseded, EndAttempt
  <2>2. ASSUME NEW s \in {"chunked", "failed"}, Current(k), WithStatus(k[1], s)
        PROVE  Absent(d)' <=> Absent(d)
    <3>1. k[1] \in Uploads /\ ~Absent(k[1])
      BY <2>2, VersionFields DEF LimitInv, Current
    <3> QED BY <2>2, <3>1, Marking DEF Absent
  <2> QED BY <2>1, <2>2 DEF Absent
<1>4. ASSUME NEW b \in Batches, BatchStep(b)
      PROVE  Absent(d)' <=> Absent(d)
  <2>1. FinishBatch(b) \/ UNCHANGED document
    BY <1>4 DEF BatchStep, StartBatchRun, CaptureCorpus, FailBatch
  <2> QED BY <2>1, Readied DEF Absent
<1>5. ASSUME NEW r \in Reprocesses, NEW x \in Uploads, ReadDocument(r, x)
      PROVE  Absent(d)' <=> Absent(d)
  BY <1>5 DEF ReadDocument, Absent
<1> QED BY <1>1, <1>2, <1>3, <1>4, <1>5 DEF IntakeStep

LEMMA ObjectKept ==
    ASSUME Typed, ObjectInv, [IntakeNext]_intakeVars
    PROVE  ObjectInv'
<1>1. CASE UNCHANGED intakeVars
  BY <1>1 DEF intakeVars, ObjectInv, Absent
<1>2. ASSUME NEW d \in Uploads, UploadStep(d), IntakeStep
      PROVE  ObjectInv'
  <2>0. upload \in [Uploads -> {"idle", "put", "insert", "committed", "discard", "ended"}]
        /\ object \subseteq Uploads /\ spoiled \subseteq Uploads
    BY DEF Typed, IntakeTypeOK
  <2>1. PICK place \in {"idle", "put", "insert", "committed", "discard", "ended"} :
            UploadAt(d, place)
    BY <1>2 DEF UploadStep, CheckContent, PutObject, InsertRow, EndUpload, FailUpload,
                DiscardObject, CrashUpload
  <2>2. \A x \in Uploads : x # d =>
           /\ upload'[x] = upload[x]
           /\ Absent(x)' <=> Absent(x)
           /\ x \in object' <=> x \in object
           /\ x \in spoiled' <=> x \in spoiled
    <3>1. \A x \in Uploads : x # d => upload'[x] = upload[x]
      BY <2>1, Uploading DEF Typed
    <3>2. ASSUME NEW x \in Uploads, x # d
          PROVE  Absent(x)' <=> Absent(x)
      <4>1. CASE InsertRow(x)
        \* Two uploads never insert in one step: each moves its own place.
        <5>1. upload'[x] \in {"discard", "committed"} /\ upload[x] = "insert"
          BY <2>0, <4>1 DEF InsertRow, UploadAt
        <5> QED BY <3>1, <3>2, <5>1
      <4> QED BY <1>2, <4>1, AbsenceKept
    <3>3. \A x \in Uploads : x # d => /\ x \in object' <=> x \in object
                                      /\ x \in spoiled' <=> x \in spoiled
      BY <1>2 DEF UploadStep, CheckContent, PutObject, InsertRow, EndUpload, FailUpload,
                  DiscardObject, CrashUpload, Key
    <3> QED BY <3>1, <3>2, <3>3
  <2>3. CASE InsertRow(d)
    <3>1. Taken(content[d]) => UNCHANGED document
      BY <2>3 DEF InsertRow
    <3>2. /\ UNCHANGED <<object, spoiled>> /\ upload[d] = "insert"
          /\ upload'[d] = IF Taken(content[d]) THEN "discard" ELSE "committed"
      BY <2>0, <2>3 DEF InsertRow, UploadAt
    <3>3. /\ upload'[d] \in {"idle", "put", "insert"} => Absent(d)'
          /\ upload'[d] = "insert" => d \in object'
          /\ upload'[d] = "discard" => Absent(d)' \/ d \in spoiled'
          /\ ~Absent(d)' => d \in object' \cup spoiled'
      BY <3>1, <3>2 DEF ObjectInv, Absent
    <3> QED BY <2>2, <3>3 DEF ObjectInv
  <2>4. CASE ~InsertRow(d)
    <3>1. Absent(d)' <=> Absent(d)
      BY <1>2, <2>4, AbsenceKept
    <3>2. /\ upload'[d] \in {"idle", "put", "insert"} => Absent(d)
          /\ upload'[d] = "insert" => d \in object'
          /\ upload'[d] = "discard" => Absent(d) \/ d \in spoiled'
          /\ ~Absent(d) => d \in object' \cup spoiled'
      <4>1. CASE CheckContent(d)
        BY <2>0, <4>1 DEF CheckContent, UploadAt, ObjectInv
      <4>2. CASE PutObject(d)
        BY <2>0, <4>2 DEF PutObject, UploadAt, ObjectInv, Key
      <4>3. CASE EndUpload(d)
        BY <2>0, <4>3 DEF EndUpload, UploadAt, ObjectInv
      <4>4. CASE FailUpload(d)
        BY <2>0, <4>4 DEF FailUpload, UploadAt, ObjectInv
      <4>5. CASE DiscardObject(d)
        BY <2>0, <4>5 DEF DiscardObject, UploadAt, ObjectInv
      <4>6. CASE CrashUpload(d)
        BY <2>0, <4>6 DEF CrashUpload, UploadAt, ObjectInv
      <4> QED BY <1>2, <2>4, <4>1, <4>2, <4>3, <4>4, <4>5, <4>6 DEF UploadStep
    <3> QED BY <2>2, <3>1, <3>2 DEF ObjectInv
  <2> QED BY <2>3, <2>4
<1>3. CASE IntakeStep /\ ~\E d \in Uploads : UploadStep(d)
  <2>1. UNCHANGED <<upload, object, spoiled>>
    <3>1. ASSUME NEW r \in Reprocesses,
                 WriteReprocess(r) \/ \E d \in Uploads : ReadDocument(r, d)
          PROVE  UNCHANGED <<upload, object, spoiled>>
      BY <3>1 DEF WriteReprocess, ReadDocument
    <3>2. ASSUME NEW k \in Versions, WorkOn(k)
          PROVE  UNCHANGED <<upload, object, spoiled>>
      BY <3>2 DEF WorkOn, StartProcess, ChunkVersion, BeginJoin, CommitJoin,
                  SucceedSuperseded, EndAttempt
    <3>3. ASSUME NEW b \in Batches, BatchStep(b)
          PROVE  UNCHANGED <<upload, object, spoiled>>
      BY <3>3 DEF BatchStep, StartBatchRun, CaptureCorpus, FinishBatch, FailBatch
    <3> QED BY <1>3, <3>1, <3>2, <3>3 DEF IntakeStep
  <2>2. \A d \in Uploads : Absent(d)' <=> Absent(d)
    BY <1>3, AbsenceKept DEF UploadStep
  <2> QED BY <2>1, <2>2 DEF ObjectInv
<1> QED BY <1>1, <1>2, <1>3 DEF IntakeNext

\* The bytes of a committed document stay in storage, whatever other uploads of
\* the same content do and wherever they fail: DocumentService.upload deletes
\* only the key it wrote, and only while its own row did not commit.
THEOREM CommittedBytesKept == IntakeSpec => []BytesKept
<1>1. IntakeInit => Typed /\ ObjectInv
  BY TypedInitially DEF IntakeInit, ObjectInv, Absent
<1>2. Typed /\ ObjectInv /\ [IntakeNext]_intakeVars => (Typed /\ ObjectInv)'
  BY TypePreserved, ObjectKept
<1>3. ObjectInv => BytesKept
  BY DEF ObjectInv, BytesKept, Absent
<1> QED BY <1>1, <1>2, <1>3, PTL DEF IntakeSpec

-----------------------------------------------------------------------------
(* Coalescing.                                                              *)

\* What a step that is no batch's own does to batches and to held rows.
LEMMA Joining ==
    ASSUME Typed, JoinInv, NEW k \in Versions, WorkOn(k)
    PROVE  /\ JoinInv'
           /\ \A b \in Batches : reembed[b].state \notin {"absent", "queued"}
                => reembed'[b].joined = reembed[b].joined
<1> USE DEF Typed
<1>0. /\ process \in [Versions -> Run] /\ reembed \in [Batches -> Batch]
      /\ process[k] \in Run /\ process[k].joins \subseteq Batches
  BY RunFields DEF IntakeTypeOK
<1>1. CASE CommitJoin(k)
  <2>1. /\ \A x \in Versions : process'[x].joins \subseteq process[x].joins
        /\ \A b \in process[k].joins : reembed[b].state = "queued"
    BY <1>0, <1>1, RunFields DEF CommitJoin, JoinInv, Run
  <2>2. \A b \in Batches : b \in Oldest(Unused) => reembed[b].state = "absent"
    BY DEF Oldest, Unused
  <2>3. \A b \in Batches :
          /\ reembed[b].state = "queued" => reembed'[b].state = "queued"
          /\ reembed[b].state \notin {"absent", "queued"}
               => reembed'[b].joined = reembed[b].joined
    BY <1>0, <1>1, <2>1, <2>2, BatchFields DEF CommitJoin, Batch
  <2>4. \A x \in Versions : process[x].joins \subseteq Batches
    BY RunFields
  <2> QED BY <2>1, <2>3, <2>4 DEF JoinInv
<1>2. CASE BeginJoin(k)
  <2>1. \A b \in Oldest(Queued) : reembed[b].state = "queued"
    BY DEF Oldest, Queued
  <2>2. /\ process'[k].joins = Oldest(Queued)
        /\ \A x \in Versions : x # k => process'[x] = process[x]
        /\ UNCHANGED reembed
    BY <1>0, <1>2 DEF BeginJoin, Run
  <2> QED BY <2>1, <2>2 DEF JoinInv
<1>3. CASE ~CommitJoin(k) /\ ~BeginJoin(k)
  <2>1. UNCHANGED reembed
    BY <1>3 DEF WorkOn, StartProcess, ChunkVersion, SucceedSuperseded, EndAttempt
  <2>2. \A x \in Versions : process'[x].joins \subseteq process[x].joins
    <3>1. CASE StartProcess(k)
      BY <1>0, <3>1 DEF StartProcess, Run
    <3>2. CASE ChunkVersion(k) \/ SucceedSuperseded(k)
      BY <1>0, <3>2 DEF ChunkVersion, SucceedSuperseded, RunAt, Run
    <3>3. ASSUME NEW handled \in BOOLEAN, EndAttempt(k, handled)
          PROVE  \A x \in Versions : process'[x].joins \subseteq process[x].joins
      BY <1>0, <3>3 DEF EndAttempt, Run
    <3> QED BY <1>3, <3>1, <3>2, <3>3 DEF WorkOn
  <2> QED BY <2>1, <2>2 DEF JoinInv
<1> QED BY <1>1, <1>2, <1>3

\* A batch's own step: only a batch whose row nobody holds leaves queued.
LEMMA Claiming ==
    ASSUME Typed, JoinInv, NEW b \in Batches, BatchStep(b)
    PROVE  /\ JoinInv'
           /\ \A x \in Batches : reembed'[x].joined = reembed[x].joined
<1>1. /\ reembed \in [Batches -> Batch] /\ UNCHANGED process
  BY DEF Typed, IntakeTypeOK, BatchStep, StartBatchRun, CaptureCorpus, FinishBatch, FailBatch
<1>2. /\ \A x \in Batches : x # b => reembed'[x] = reembed[x]
      /\ reembed'[b].joined = reembed[b].joined
  BY <1>1, BatchFields DEF BatchStep, StartBatchRun, CaptureCorpus, FinishBatch, FailBatch,
                           BatchAt, Batch
<1>3. reembed[b].state # "queued" \/ Claimable(b)
  BY DEF BatchStep, StartBatchRun, CaptureCorpus, FinishBatch, FailBatch
<1>4. \A x \in Versions : process[x].joins \subseteq Batches /\ b \notin process[x].joins
  BY <1>3, RunFields DEF Typed, JoinInv, Claimable
<1> QED BY <1>1, <1>2, <1>4 DEF JoinInv

LEMMA JoinKept ==
    ASSUME Typed, JoinInv, [IntakeNext]_intakeVars
    PROVE  /\ JoinInv'
           /\ \A b \in Batches : reembed[b].state \notin {"absent", "queued"}
                => reembed'[b].joined = reembed[b].joined
<1>1. CASE UNCHANGED <<process, reembed>>
  BY <1>1 DEF JoinInv
<1>2. ASSUME NEW k \in Versions, StageRun(k), UNCHANGED reembed
      PROVE  JoinInv'
  <2>1. \A x \in Versions : process'[x].joins \subseteq process[x].joins
    BY <1>2, Staged
  <2> QED BY <1>2, <2>1 DEF JoinInv
<1>3. ASSUME NEW d \in Uploads, UploadStep(d)
      PROVE  UNCHANGED reembed /\ JoinInv'
  <2>1. \/ UNCHANGED <<process, reembed>>
        \/ StageRun(<<d, 1>>) /\ UNCHANGED reembed
    BY <1>3 DEF UploadStep, CheckContent, PutObject, InsertRow, EndUpload, FailUpload,
                DiscardObject, CrashUpload
  <2>2. <<d, 1>> \in Versions
    BY Bounds DEF Versions
  <2> QED BY <1>2, <2>1, <2>2 DEF JoinInv
<1>4. ASSUME NEW r \in Reprocesses, WriteReprocess(r)
      PROVE  UNCHANGED reembed /\ JoinInv'
  <2> DEFINE k == <<reprocess[r].doc, reprocess[r].version + 1>>
  <2>1. k \in Versions
    BY <1>4, ReprocessFields, Bounds DEF WriteReprocess, Typed, LimitInv, Versions
  <2>2. StageRun(k) /\ UNCHANGED reembed
    BY <1>4 DEF WriteReprocess
  <2> QED BY <1>2, <2>1, <2>2
<1>5. ASSUME NEW r \in Reprocesses, NEW d \in Uploads, ReadDocument(r, d)
      PROVE  UNCHANGED <<process, reembed>>
  BY <1>5 DEF ReadDocument
<1>6. UNCHANGED intakeVars => UNCHANGED <<process, reembed>>
  BY DEF intakeVars
<1> QED BY <1>1, <1>3, <1>4, <1>5, <1>6, Joining, Claiming DEF IntakeNext, IntakeStep

\* No version joins a batch that was claimed: stage_success locks the queued row
\* it joins, and the claim updates that row, so it waits for the join to commit.
THEOREM ClaimedBatchesAreClosed == IntakeSpec => NoLateJoin
<1>1. IntakeInit => Typed /\ JoinInv
  BY TypedInitially DEF IntakeInit, JoinInv, NoRun
<1>2. Typed /\ JoinInv /\ [IntakeNext]_intakeVars => (Typed /\ JoinInv)'
  BY TypePreserved, JoinKept
<1>3. Typed /\ JoinInv /\ [IntakeNext]_intakeVars =>
        [\A b \in Batches : reembed[b].state \notin {"absent", "queued"}
              => reembed'[b].joined = reembed[b].joined]_intakeVars
  BY JoinKept
<1> QED BY <1>1, <1>2, <1>3, PTL DEF IntakeSpec, NoLateJoin
=============================================================================
