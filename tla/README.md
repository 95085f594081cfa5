# rag-builder in TLA+

TLA+ models of the concurrent core of the RAG backend under `src/backend/app`
(paths below are relative to it), TLC runs that check them on small instances,
and TLAPS proofs of their main properties for every value of the constants.

`PROJECT.json` is the index: components, runs, the source lines behind each
definition, mutations that each property detects, hazards, findings, theorems.

## The system

A FastAPI backend, PostgreSQL (READ COMMITTED), Redis, Taskiq workers and one
dispatcher loop per deployment. A tenant's *Project* holds documents; documents
are parsed and chunked by jobs; chunks are embedded and indexed into immutable
*index builds*; one *pointer* names the build that searches read.

| component | state | operations | what makes it hard | correct when |
|---|---|---|---|---|
| Durable jobs (`modules/jobs`, `worker`, `composition/jobs.py`) | `job_runs`, `job_outbox`, a Redis list, lease per run | stage, dispatch, acquire, heartbeat, succeed, fail, suspend, resume, retry by hand, recover | at-least-once push, pop without acknowledgement, leases, crashes of worker and dispatcher | stale tasks change nothing; runs end once, within their attempts; nothing waits for ever |
| Webhooks (`modules/webhooks`, `composition/webhooks.py`) | events, deliveries, attempts, endpoints | publish, claim, post, finish, replay, disable | exchanges that outlive a lease, crashes, racing replays | the history is true; a state follows from its history; deliveries end |
| Index builds and acceptance (`modules/retrieval`) | builds, vector and keyword rows, receipts, pointer | build, seal, attest, activate, roll back | three row locks and an advisory lock taken in different orders, reads before locks | the pointer agrees with the builds; moves are backed by receipts |
| Documents (`modules/knowledge`, `worker/handlers/document*.py`) | documents, chunks, objects in storage | upload, reprocess, process, coalesce, delete, purge | unlocked read-modify-write, storage outside the transaction, runs that share a batch, suspended destructive jobs | bytes of a document stay; processed versions are indexed; content goes only when the active build excludes it |
| Source metadata (`modules/knowledge/services/source_metadata_service.py`) | revisions, links, activations, generation | upload, correct, review, activate, capture, remove | cycles that arise only over a history; reviews carried from one revision to the next; removals without the writers' lock | the selected graph is acyclic; a captured generation stays; a verified link was reviewed as it stands |
| Provider spending (`platform/infra/providers/provider_work_repository.py`) | usage attempts | reserve, send, complete | concurrent reservations, unknown costs, a month's end | the budgets are never exceeded |
| Embedding cache (`platform/providers/provider_work.py`, `platform/infra/providers`) | `embedding_cache` | look up, seed, embed, store, expire, purge | a provider call inside a transaction under an advisory lock | an input is paid for again only when its vector was lost |
| Embeddings of a turn (`platform/providers/request_work.py`) | vectors and futures in memory | register, embed, await | branches that await each other, failure and cancellation of an owner | each text is embedded once; every branch ends |
| Verified key cache (`platform/infra/auth`, `modules/organizations`) | keys and organizations in PostgreSQL, Redis entries with a TTL | verify, issue, rotate, revoke, disable, archive, invalidate | verification racing with revocation, an invalidation that dies | a revoked key stops working |
| Generation (`modules/generation`) | `generations` by idempotency key | reserve, call, finish, replay | races for a key, a crash between reservation and outcome | one provider call and one outcome per key |
| Recovery searches (`composition/message_retrieval.py`, `platform/infra/recovery_capacity.py`) | tasks, semaphores, a Redis sorted set | start, acquire, search, cancel, gather | time read before the script that uses it, leases without heartbeat, deadlines | no more searches than leases; none outlives its batch |
| Conversations (`modules/conversations/services/chat_service.py`, `message_execution_runner_service.py`) | messages, draft, verdicts, checkpoint | a chat turn | a deadline at every await, two transactions, several verdicts on one claim | one answer; only what was verified is published |
| Evidence repair (`modules/conversations/services/evidence_repair_service.py`) | proof map, checkpoint, verdict, rounds | plan, search, admit, review, hand over | proof kept between rounds while authority and readings change | what is handed over was reviewed as it stands |
| Rate limits, storage reconciliation, search, evaluation, project configuration, operations, CLI, HTTP, frontend | | | data processing, reports or requests on one row | |

Interactions. A service stages a job in its own transaction (row in `job_runs`,
intent in `job_outbox`); the dispatcher pushes intents into Redis; a worker task
pops one, leases the run and calls a handler; the handler's outcome, its
follow-up job and its webhook event are committed in one transaction. Delete and
purge jobs build a corpus without their document and suspend until an operator
accepts and activates that build; the dispatcher then resumes them. A chat turn
searches (through recovery batches when evidence is missing), repairs its
evidence, drafts, verifies, corrects and commits, all under one deadline; its
embeddings share a table in memory and the Project's cache, and every provider
call is metered.

## Modules

| module | what it is |
|---|---|
| `DurableJobs` | jobs, outbox, Redis list, task slots, dispatcher, faults |
| `JobPromise` | what the Jobs API promises, without queues or leases |
| `DurableJobsPromise` | refinement mapping from the first to the second |
| `WebhookDelivery` | webhook events, deliveries, attempts |
| `IndexLifecycle` | documents, builds, receipts, pointer moves, removal |
| `CorpusIntake` | upload, reprocess, processing, coalesced indexing |
| `GenerationRequests` | idempotent generation |
| `IdempotencyPromise` | what an idempotency key promises, without rows or processes; `GenerationRequests` implements it |
| `ProviderSpending` | metered calls against two budgets |
| `EmbeddingCache` | the persistent cache of embeddings |
| `SingleFlight` | embeddings in flight within one turn |
| `VerifiedKeys` | API keys, their cache, revocation |
| `RecoveryBatch` | recovery searches, permits and leases |
| `ChatTurn` | a chat turn with verification and deadline |
| `EvidenceRepair` | the rounds of an evidence repair |
| `SourceHistory` | revisions of source metadata, links, activations, removals |
| `SourceReview` | how reviews of links are carried through corrections |
| `CacheProofs` | theorems about `EmbeddingCache`, `SingleFlight` and `VerifiedKeys` |
| `SourceProofs` | theorems about `SourceHistory` and `SourceReview` |
| `TurnProofs` | theorems about `RecoveryBatch`, `ChatTurn`, `EvidenceRepair` and `TurnMC` |
| `GenerationProofs` | theorems about `GenerationRequests`, `ProviderSpending` and `StoredStateMC` |
| other `*Proofs` | theorems about the module of that name |
| `*MC` | instances for TLC |

`StoredStateMC`, `TurnMC` and `InFlightMC` hold components that share no state: a
behaviour picks one of them and only that one steps, so their state spaces add up
instead of multiplying, and each is explored as if it were alone. That every behaviour
of the first two is one of each part is a theorem (`PartsKeepTheirSpecs`).

### DurableJobs

One action is one committed transaction, one Redis command or one fault.

| variable | code |
|---|---|
| `run[j]` | the `job_runs` row of idempotency key `j`: `state`, `attempt_count`, `lease_owner`, ticks until `lease_expires_at`, `next_attempt_at` passed |
| `outbox[j]` | the `job_outbox` rows of `j`: pending, pushed but not committed (`sent`), dispatched |
| `redis[j]` | copies of the delivery in the Redis list |
| `worker[w]` | a `run_durable_job` task: idle, holding a popped delivery, executing |
| `pointer` | the destructive run whose candidate build is active |
| `events` | terminal webhook events, which are staged with the outcome |
| `superseded`, `lost` | history variables: tasks that were replaced, runs that lost a delivery |

`Enqueue` and `MarkDispatched` are separate because `JobService._dispatch_claim`
pushes while its transaction is open; `DispatcherCrash` in between leaves the
row pending and the delivery in Redis. `Pop` and `Acquire` are separate because
`ListQueueBroker` pops without acknowledgement; `LoseDelivery` is the crash in
between and fires only if `Lossy`. `StageSuccess`, `StageFailure` and `Suspend`
carry the ownership test of `lock_owned_run`; `DiscardStale` is what happens to a
task that fails it. An expired lease (`lease = 0`) may be acquired by another
delivery or recovered by the dispatcher while the old task is still executing.

Bounds: `MaxBroker` copies of a delivery, `MaxIntents` outbox rows for a run that
still suspends.

### WebhookDelivery

| variable | code |
|---|---|
| `enabled`, `published` | endpoint status, events |
| `delivery[k]` | `webhook_deliveries` row of an event, endpoint and replay number |
| `recorded` | `webhook_delivery_attempts` |
| `dispatcher[d]` | a dispatcher process between claim, HTTP exchange and `_finish` |
| `request[o]` | a replay request that has read the next replay number |
| `posts` | history: the HTTP exchanges that took place |

The exchange runs outside any transaction: `Claim`, `Post` and `Finish` are three
actions, and a claim of an expired lease may come between them; `DiscardAnswer` is
the early return of `_finish`. Bound: `MaxReplays`.

### IndexLifecycle

A transaction is split where another may commit between what it reads and what it
writes; the `pc` of a request or a removal says which row locks it holds.

| variable | code |
|---|---|
| `doc[d]` | `documents` row (version, status group, `deleted_at`), its objects in storage, whether a `document.process` job of its version may still run |
| `edit[d]` | a reprocess request that has read the version |
| `build[b]` | `index_builds` row: state, manifest, documents whose rows are present |
| `pointer` | `project_index_pointers` |
| `receipts` | `index_acceptances`: build, compared active build, source generation |
| `generation` | `projects.source_metadata_generation` |
| `request[r]` | an activate (`chosen`, `gated`, `holding`, `prepared`) or rollback (`rollback`, `holding`, `prepared`) request |
| `removal[d]` | the delete or purge job of a document |

`ProjectFree`, `PointerFree`, `BuildFree` and `DocFree` are the row locks. Activate
takes the Project row and then the pointer, rollback the other way round, so the
two can wait for each other: each wait is a disabled action, and `AbortRequest` is
what PostgreSQL's deadlock detector (or a lost session) does to one of them. A job
ends in the transaction of its last writes, and its `AuditEvent` has a foreign key to
the Project row, which an activation holds `FOR UPDATE` from its gate to its commit
(`build_acceptance.py:299`): `FinishDelete` and `CommitPurge` need `ProjectFree` too.
The same wait of other jobs is left out, which allows more behaviours than the code.
The two reads that no lock protects are `Choose` (the ORM object whose state is
written back by `Move`) and `Prepare` (the documents that `Move` marks ready).
`Process` deletes the chunks of the version it processes and, through ON DELETE
CASCADE, the rows of every build that holds them. Document statuses are grouped:
`queued` stands for uploaded, queued, parsing and chunking; `chunked` for chunked,
embedding, embedded and indexing; `removing` for deleting and purging; `gone` for
a deleted row.

Simplifications: every processed document has chunks; receipts are production
receipts; structural builds, scope reviews and private reprocessing are left out; a
failed build is absent; one removal job and one pending reprocess per document.

### CorpusIntake

| variable | code |
|---|---|
| `content`, `upload[d]` | the SHA-256 of an upload; its request between check, put, insert, commit and the `except` that discards the object |
| `document[d]`, `object` | committed rows (status and version); raw bytes in storage |
| `reprocess[r]` | a request that has read a row without a lock and will write it back |
| `process[<<d, v>>]` | the `document.process` run of a version; `joining` holds the document's row, the coalescing lock and perhaps a queued batch |
| `reembed[b]` | `corpus.reembed` runs: what joined, what the build captured |
| `spoiled` | history: uploads whose request failed after its commit |

A run is reduced to what `DurableJobs` shows of it: one effective executor, attempts,
an end. `WriteReprocess` writes the two columns that the request changed, as the
ORM does, so two requests that read one version write one successor. `EndAttempt` is a
failure, or the recovery of an expired lease (`composition/jobs.py:93-108`): when it is
final, both mark the document of that version failed. `BeginJoin`
and `CommitJoin` are the two halves of `stage_success`; `Claimable` is the row lock
that keeps a worker from claiming the batch between them. Bounds: `MaxVersion`,
`MaxBatches`.

### GenerationRequests and IdempotencyPromise

`generation[k]` is the row of an idempotency key, `call[r]` a request between
lookup, insert, second lookup, provider call and outcome; `revision` the active
configuration, which the request hash covers. `Insert` either reserves the row or
meets the unique index; `Die` is a crash, a cancellation or an exception at any
point, after which the row stays `processing`. `Promise` maps the row's hash and its
finished result to `bound` and `outcome` of `IdempotencyPromise`. Bound: `MaxRevision`.

### ProviderSpending

`attempt[c]` is the row of a metered HTTP attempt (`month` is that of `created_at`,
the beginning of its transaction), `admission` the holder of the advisory lock,
`metered[c]` the call, `spent` what the provider charged. The two sums are taken in
the month of the clock, which may be later than the one of `created_at` when the
lock was awaited over midnight: such an attempt counts in neither month's sum, and
`WithinBudgets` excludes it from the monthly total. The provider bills at most the
estimate, which the code overcounts for that reason. Bound: `MaxMonth`.

### EmbeddingCache

`lockedBy` is the advisory lock `embedding-cache` of the Project, held from
`OpenSession` over the provider call to `SaveVectors`, or by a purge. `AbortFill`
rolls the transaction back with the vectors that were paid for. `paid` and
`forgotten` are histories. Bound: `MaxExpiry`.

### SingleFlight

`inFlight[x]` is the branch that owns a text's future, `future[b]` the outcome of
the futures of a branch. `Register` is the section under `embedding_lock`;
`FailOwned` is any exception of the owner; `CancelWaiter` a cancellation of a branch
that awaits others.

### VerifiedKeys

`key`, `org` are the rows, `entry` and `members` the two Redis keys with their TTL in
ticks, `client[c]` a verification between cache, key row, organization row and
store, `operator[v]` an administrative request between its commit and the end of its
invalidation, which may die. `outdated` and `tainted` are histories that say
why an entry may be stale.

### RecoveryBatch

`search[s]` is a task on its way through batch permit, process permit and lease;
`lease` the Redis sorted set (ticks until the score, `Delay` added, so that a member
that a script with an old time still counts is there); `age[s]` how long ago a task
read the server's time; `batch[t]`, `time[t]` the supervising turn. `RecoveryTick`
does not pass a deadline that has to be served first; `RecoveryAssumption` says that
a lease is longer than a batch and a delay, as the settings have it.

### ChatTurn

`phase` is where the turn is; `draft` its assertions, a claim being an assertion in
the model's words or in the source's; `approval[c]` the decision on a claim, which
no later verdict replaces; `review` the correction under way; `captured` the
checkpoint that a deadline would publish; `result` the row to commit; `users`,
`assistant` the committed rows; `marks` the commits that were acknowledged.
`VerifyDraft` and `VerifyCorrection` choose any verdict on every claim.
`StrikeDeadline` and `Disconnect` may fire at every await, and at a commit with or
without its effect. `cut`, `proved` and `refused` are histories.

### EvidenceRepair

`facet[d]` is the proof that is kept for a duty, `known` the authority that was taken
into account; `records`, `context`, `found` are what the searches of the turn
brought; `verdict`, `stored`, `checkpoint` what may be handed over; `outcome` what is.
A passage may be found in several readings, an amendment makes a passage unusable
without the passage that amends it, a duty may rest on others. `Review` chooses
any opinion over the passages shown; `Concluded`, `Guarded` and `Handed` say what
the code makes of it. Bounds: `Rounds`, `Reviews` (the action limits of
`RecoverySchedule`).

### SourceHistory

| variable | code |
|---|---|
| `source[d]` | the document row: absent, live, `deleted_at` set, purged |
| `revisions`, `minted` | `source_metadata_revisions` with their `source_revision_relationships`; identifiers given so far |
| `activation` | `source_activation_events`, append-only until a purge |
| `sourceGen` | `projects.source_metadata_generation` |
| `edit[e]` | a request between its flush and its commit |
| `thinned` | history: groups that lost a document, by removal or by a change of group, and were not checked since |

`StageEdit` is everything a writer does under `lock_project`: an upload with its first
revision, a correction that may activate, an activation of an older revision. The
operators `ReplacedBy`, `Speaking`, `Modifies`, `OnCycle` are the stages of
`_validate_modification_graph`: replaced documents are silent, the highest number speaks
for a group, its links point from group to group, and a walk from the group that is
activated must not return. Removals do not take the Project's row; they may come between
`StageEdit` and `CommitEdit`, unless a foreign key of the staged rows holds them back
(`Refers`). `Pinned(g)` is what a reader who captured generation `g` finds selected.
Bounds: `MaxRevisions`, `MaxGeneration`, `MaxLinks`, `MaxRemoved`.

### SourceReview

The middle of `_stage_revision`, for one document. A request states its relationships, and
leaves out fields of them, or states none and so repeats those of the selected revision. `Carried` fills
what was left out, if identity is unchanged (`UnchangedIdentity`: group, work, edition,
dates); `ProofChanged` withdraws an approval; `Preserved` keeps the review of the server,
otherwise a new one names the new revision. `approved` is a history of what requests
vouched for. `Proofs` stand for the effect, spans and provisions of a link. Bounds:
`MaxCorrections`, one stated relationship per request.

## Runs

| run | bounds | shows |
|---|---|---|
| `jobs_safety` | one delete run, 3 slots, 2 attempts, lease of 2 ticks, 2 copies of a delivery | `FencedOut`, `WaitingRunHasBudget`, `NoStrandedRun`, `EndedByOwnerOrRecovery` |
| `jobs_retry` | a run, its follow-up, a manual retry, 2 slots, 1 attempt | `PromiseSpec`: the tables implement `JobPromise` |
| `jobs_liveness` | one delete run, 2 slots, no lost delivery | `EverySubmissionSettles` |
| `jobs_lost` | one run, 1 slot | `OutboxResumesRuns` violated: a popped delivery can be lost for ever |
| `webhook_delivery` | 2 dispatchers, 2 replay requests, 2 attempts, crashes | `HistoryIsTrue`, `OutcomeBacked`, `NumbersUsedOnce`, `NoDeliveryReset`, `DeliveriesSettle` |
| `index_moves` | 1 document, 3 builds, 2 requests, 2 generations, 4 receipts | `PointerAgrees`, `AcceptedMoves` |
| `index_removal` | 1 document with 2 versions, 3 builds, 1 request, 2 receipts | `PurgedLeaveNoCandidate`, `RemovedOnlyWhenExcluded`, `SupersededStaysOut` |
| `stored_state` | 2 clients, 1 operator, 2 keys of one organization, TTL 2; 2 callers, 1 idempotency key, 2 bodies, 1 change of configuration; 3 calls, two under one reference, budgets of 2, 1 month's end; 3 fills, 1 purge, 2 inputs, one of them sealed, 1 expiry; 3 documents, 2 editors, 4 revisions with a link each, 4 generations, 1 removal | `WithdrawnKeysExplained`, `CalledOncePerKey`, `KeepsPromise`, `SpendingWithinBudget`, `PaidOnce`, `ModificationsAcyclic`, `CaptureStable` |
| `turn` | 3 searches of 2 turns in 2 processes, 1 permit each, 1 lease; a turn with 2 assertions; 2 duties, one resting on the other, a law in two readings, an act that amends it, 2 rounds, 1 further review; 4 revisions with 2 identities, 2 targets, 2 proofs | `RunningWithinLeases`, `NothingOutlivesBatch`, `NothingRefusedPublished`, `SupportSurvives`, `OneAnswer`, `AuthorityReviewed`, `ApprovedAsStated` |
| `in_flight` | 1 client, 1 operator, 2 keys; 3 branches, 2 texts; 2 uploads, 2 contents, 2 reprocess requests, 2 versions, 2 batches, 1 attempt; all with fairness | `RevocationTakesEffect`, `EmbeddedOnce`, `BranchesEnd`, `BytesKept`, `NoLateJoin`, `ProcessedIsIndexed` |
| `repair_scope` | the repair of `turn` | `PartialScopeProved` violated: see Findings |
| `tenant_keys` | 2 clients, 1 operator, 2 keys of one organization, TTL 2, beside small instances of the other parts | `TenantKeysDropped` violated: see Findings |

Why the bounds are enough. Races on a lease need the old executor, the new one and
a dispatcher (two or three slots) and one attempt more than the first; a lease of
two ticks lets a heartbeat come between; duplicated delivery needs two copies. A
rollback needs two builds that were activated and a third that replaces them, and
each move needs one receipt, so `index_moves` has three builds and four receipts;
two requests give every overlap of two operators. In `index_removal` one document
suffices because a removal interacts with others only through builds, and two
versions let a stale manifest occur. A stale cache entry needs one verification and
one operator; a second client lets a fresh entry replace it, and two ticks let an
entry outlive the set that names it or the reverse. A budget of two is refused by
two calls of one and two, and a third under another reference tells the two budgets
apart. A lease of four ticks against a batch of two leaves the margin of one that the
assumption asks for, and three searches make one wait for a permit and one for the
lease. Two assertions let a correction touch one claim while the other is retained.
Two duties with a dependency, one passage in two readings and one amendment are the
least in which proof is shared, changed and newly amended; the second round is the
first that keeps proof. Two texts and three branches let a branch await two owners. A
cycle of links needs three revisions, because the first to be linked to cannot link back
before it is corrected; the fourth lets a third document replace one of them. Four
revisions of one document are an original, a reviewed one, one that departs from it and
one derived after an older one was restored. In
the corpus, two documents of different content share a batch; two of equal content
race for it while one is reprocessed, by two requests that read one version. Those
two cases are separate behaviours of the instance (`TwoContents`). Symmetry permutes
slots, dispatchers, builds, requests, and the documents and editors of `SourceHistory`, in
runs without fairness only.

`CHECK_DEADLOCK FALSE`: the job runs stop when every run has ended and its bounded
intents are used, the removal runs when the only document was purged, the other
runs when every call, branch, upload and turn has ended.

## Fairness

`DurableJobs!Fairness`: the dispatcher polls for ever (`run_forever`), so recovery,
resumption and due retries are weakly fair; its push is strongly fair, because a
push that keeps raising is pushed again and an intent can be taken away and come
back while Redis fails; so is `Pop`, since the list is FIFO and a slot becomes free
again and again. A task that holds a delivery acquires or ignores it, and every
operation ends or its process dies (`Finish` includes the crash). Heartbeats, API
calls, faults and pointer moves have no fairness. `WebhookDelivery!Fairness`: polling
makes the claim of each delivery strongly fair (the oldest is claimed first);
exchanges end by timeout. `IndexLifecycle` has safety properties only: operators
need not act. `VerifiedKeys!AuthFairness`: a verification goes on or is rejected, and
Redis expires entries; administrators and invalidations owe nothing, so a revoked key
is shut out by its TTL alone. `SingleFlight!FlightFairness`: a provider call ends, by its
phase deadline if not before. `CorpusIntake!IntakeFairness`: runs and batches that are
due are executed and end, by failure at worst; this is `EverySubmissionSettles` of
`DurableJobs` and holds under its condition, that no delivery dies with its worker.
Requests have no fairness.

## Findings

Three runs in which TLC violates a sentence of the repository's documentation (the
sentences are quoted in `PROJECT.json`).

* `jobs_lost`: a delivery popped by a worker that dies before `acquire` is gone; the
  outbox row is already dispatched and recovery looks at running runs only.
* `tenant_keys`: the invalidation of an organization reads the set of its hashes, deletes
  the entries it named and then the whole set (`redis_verified_key_cache.py:73-80`). A
  key that is verified and stored in between, while the organization is active, keeps its
  entry and loses its place in the set, so the invalidation of the next switch does not
  find it: the key is admitted for a disabled organization until its TTL, without a stale
  verification. (In TLC's trace the invalidation before that one died, which only leaves
  a first key in the set; that key's entry is deleted by the next.)
* `repair_scope`: the partial answer that the first plan stored stays in the
  diagnostics. The hand-over validates the last verdict with that verdict's own partial
  answer and publishes the stored one: when the loop ends without storing the newer one
  (the follow-up plan times out), a duty is answered of which the last review found no
  proof. By the same entry a later review that proves every duty is handed over as the
  stored partial answer, or not at all. The first of the two was met by a proof:
  that what is handed over is proved by the passages at hand is false for a stored
  answer that is not the verdict's own, so `HandedFacts` states it for that one only.

Divergences that the models show in their actions, without a run of their own:

* A suspended run resumes only if the dispatcher polls while its build is active
  (`job_run_repository.py:196`); when another activation comes first it waits, where
  `docs/features/safe_corpus_index_lifecycle.md:151-152` says that "once the candidate is
  accepted and active, the durable dispatcher stages one continuation".
* A dispatcher that dies in the last attempt leaves a delivery that is leased, expired
  and out of budget, which no claim selects (`webhook_repository.py:123`);
  `docs/features/hosted-integration-commercial-delivery.md:33`: "A delivery lease
  recovers dispatcher crashes."
* An activation that read a document before a reprocess committed marks the version
  ready that was never built (`index_build_workflow.py:556`, `573`), against
  `docs/features/retrieval_module.md:54` ("present in an active complete build").
* A second execution of `document.process` deletes the chunks that sealed builds point
  to (`document_processing.py:145`), whose acceptance then fails because the row count
  differs; `docs/features/safe_corpus_index_lifecycle.md:9` calls a build a
  "write-once retrieval snapshot".
* A verification that read a key or an organization before it was withdrawn caches it
  after the invalidation (`redis_verified_key_cache.py:51`), until its TTL, although
  `docs/learning/organization-api-key-auth-journey.md:213-216` has each mutation drop
  what is cached. `WithdrawnKeysExplained` shows the reasons why a withdrawn key can be
  cached: its invalidation is to come, it was lost, it was overtaken by such a
  verification, or it did not find the entry, as in `tenant_keys`; there is no other.
* An upload that fails after its commit deletes the object of the committed row
  (`document_service.py:170`): `spoiled` in `BytesKept`.
* A search or a review that the schedule refuses, after authority was found, hands over
  the verdict that was reached before it (the comment at `evidence_repair_service.py:3896`
  says that new authority invalidates the old review): `unreviewed` in
  `AuthorityReviewed`.
* Only an activation checks the graph of modifications. A document that is deleted, purged
  or moved to another group lets an older revision of its group speak again, whose links may
  close a cycle (`source_metadata_service.py:619`): `thinned` in `ModificationsAcyclic`.
* The check drops a replaced document whatever the lifecycle status of the revision that
  replaces it (`source_metadata_service.py:638-652`), while a reader asks for an active one.
* A correction that changes the identity of a revision and states no relationship keeps its
  links but not the entry by which a whole-document replacement was declared
  (`source_metadata_service.py:439-447`).
* An attempt whose transaction awaited the admission lock over the end of a month is
  counted in neither month (`provider_work_repository.py:132`).

## Proofs

Each theorem is proved for every set of runs, workers, documents and so on and for
every value of the bounds, from the `ASSUME` of its module alone. TLC also
checked the inductive invariants below on the instances above.

**`DurableJobsProofs`** (from `ConstantsAssumption`: a run has at least one attempt
and a lease at least one tick; follow-ups are not staged by anything else).
`FencedOut` is not inductive: that a replaced task fails the ownership test
follows only if its row no longer names it. The invariant is
`IInv == TypeOK /\ RowsOK /\ FenceInv`. `RowsOK` says how the fields of a row
depend on its state, so that a row without an owner is never running; `FenceInv`
says that a replaced task is still busy with its run and that the row names
another owner or none. `RowStepShape` and `SlotStepShape` reduce the step of
the whole system to what happens to one row and to one slot.

| theorem | statement |
|---|---|
| `TypeCorrect` | types; no run is charged more than its attempts |
| `Fencing` | a replaced task never passes the ownership test |
| `LeasesAndBudgets` | leases match states; waiting runs have an attempt left |
| `LeaseSteps` | `NoLeaseRevival` and `EndedByOwnerOrRecovery` |
| `FollowUpAfterSuccess` | a follow-up exists only after a run it follows has succeeded |
| `NothingStranded` | a waiting run has an intent, a delivery or a task, unless a delivery was lost |
| `ImplementsPromise` | every behaviour is one of `JobPromise` under the mapping of `DurableJobsPromise` |

**`WebhookDeliveryProofs`** (from `WebhookAssumption` and `NoKeyAssumption`). The
history is true because an attempt number belongs to one claim. The strengthening
`AttemptsInv` says: a busy dispatcher works on an attempt its row was charged for,
no two work on the same one, every exchange belongs to a charged attempt, and a
dispatcher that has claimed has not posted yet. `RowsInv` ties deliveries and
replay requests to published events.

| theorem | statement |
|---|---|
| `TypeCorrect` | types; no delivery is charged more than its attempts |
| `DeliveriesKept` | deliveries are never reset, reopened or removed |
| `AttemptNumbersUnique` | a number is used for one exchange |
| `RecordedAttemptsHappened` | a recorded attempt is an exchange that took place |
| `OutcomesBacked` | the state of a delivery follows from its recorded attempts |

**`IndexLifecycleProofs`** (from `IndexAssumption`). `IInv` is a conjunction:

* `LockInv`: the Project row and the pointer row have one holder each. It follows
  from the guards `ProjectFree` and `PointerFree`.
* `OwnInv`: the build of a removal job is nobody else's, is never given up behind
  its back, and lists its document at version 0.
* `TargetInv`: the target of a request has been sealed.
* `ReceiptInv`: no receipt compares a build with itself. Without it, an activation
  of the build that is already active would make the pointer's `previous` active.
* `GateInv`: what the acceptance gate found stays true until `Move`. Who holds
  the Project row keeps others from changing the active build (they need it too)
  and the generation; a rollback holds the pointer as well, and so keeps a purge
  from clearing its target.
* `CheckedInv`: a removal job that has seen its build active keeps it active,
  because `Prepare` must lock the build that it replaces.
* `SupersededInv`: the build of a request that has passed its gate is not superseded. The
  gate counts its rows, which a purge took from the builds it superseded, and a purge
  commits only while no request is past its gate.

`BuildChange` lists all that a step can do to one build, and each part of `IInv`
is one lemma about it (`LockStep`, `OwnStep`, `TargetStep`, `PointerStep`,
`ReceiptStep`, `GateStep`, `CheckedStep`, `GoneStep`).

| theorem | statement |
|---|---|
| `TypeCorrect` | types (proved only: no run checks them) |
| `PointerAgreement` | the pointer agrees with the states of the builds |
| `MovesAreAccepted` | each move of the pointer is backed by a receipt that is still good |
| `PurgeExcludesCandidates` | no validated build lists a purged document |
| `RemovalsAreExcluded` | content goes only while the job's own build is active and excludes it |
| `SupersededStaySuperseded` | a superseded build is never activated again |

**`CacheProofs`** (from `CacheAssumption` and `KeysAssumption`) is about `EmbeddingCache`,
`SingleFlight` and `VerifiedKeys`. `LockInv`: who is between its lookup and its commit
holds the advisory lock. `FillInv`: what a session found missing is still missing, because
only the holder of the lock stores vectors. `PaidOnce` follows with a count of vectors
lost. `FlightInv`: a text in flight has one owner, which is about to embed it; a text with
a vector is not in flight; a failed future means a failure. `WithdrawnKeysExplained` is
inductive with three facts (`KeyInv`, `PlacedInv`): a request that passed a check of a row
withdrawn since is in `outdated` (`ClientInv`), so that what it stores is tainted; an
operator about to delete the members of an organization read none of another
(`MemberInv`), so that it ends as the explanation of no entry it leaves behind; and every
entry is orphaned, or its organization's set names it and outlives it (`PlacedInv`), so
that an entry that an invalidation does not find in the set is an orphan. Every step is an instance of
`ClientStep`, `WithdrawStep` or `ExpiryStep`, or it is `Store`.

| theorem | statement |
|---|---|
| `CacheTypeCorrect` | types of the embedding cache |
| `SessionsExclude` | at most one session of a Project is open |
| `MissesStayMisses` | a miss is still a miss when its vector is stored |
| `PaidOnceEver` | an input is paid for again only when its vector was lost, never while sealed |
| `FlightTypeCorrect` | types of the embeddings in flight |
| `OwnersAreUnique` | a text in flight has exactly one owner, and no vector yet |
| `TextsEmbeddedOnce` | a text is embedded once; a branch fails only after a failure |
| `AuthTypeCorrect` | types of key verification |
| `CacheIsExplained` | a withdrawn key is cached for one of the named reasons only |

**`SourceProofs`** (from `HistoryAssumption` and `ReviewAssumption`).
For `SourceReview` the types and `ApprovedAsStated` are inductive together: a carried link
has the identity and the proof of the row it is carried from (`CarriedReview`), a repeated
one keeps the name of the revision that stated it. For `SourceHistory` the types alone are
not inductive: a commit writes what was staged some steps before. `HistoryInv` adds that an
activation names a revision of its own document (`RowsInv`), that one editor at most is
inside its transaction (`OneWriter`, which the row lock keeps), and that what it
staged still fits (`EditInv`): its generation is the next one, and its documents are not
purged, because a purge waits for the rows that the edit refers to. `CaptureStable`
follows from `HistoryInv` step by step: a commit adds an activation after every captured
generation, a purge takes the rows of one document and no others.

`ModificationsAcyclic` needs `GraphInv`: links lead to rows that exist, and a replacement
stays in its group (`LinksInv`), and what an editor staged is still acyclic when it commits
although documents were deleted and purged meanwhile (`StagedAcyclic`). A group is
on no cycle exactly if some set holds all that it reaches and not the group itself
(`Avoids`), so no path need be followed: one group that gets new edges, and is checked, is on no cycle (`StaysAcyclic`),
a document that leaves silences or uncovers its own group alone, which is marked
(`DocumentLeaves`), and an activation turns what was staged into what is in force
(`CommitChoice`). The attempt to prove it found a fault of the model: an activation of
an older revision of a *deleted* document took the mark off its group, although the
check of the code does not look at deleted documents; four revisions were too few for
TLC to notice.

| theorem | statement |
|---|---|
| `ReviewTypeCorrect` | types of the stored links |
| `ReviewsAreGenuine` | a verified link rests on the word that its review names |
| `HistoryTypeCorrect` | types of revisions, activations and staged edits |
| `CapturesStay` | a captured generation stays what it was, but for purged documents |
| `NoHiddenCycle` | no group is on a cycle of modifications, but for those that lost a document |

**`GenerationProofs`** (from `GenerationAssumption` and `SpendingAssumption`). For
`GenerationRequests`: `RowInv`, a row's status fits its fields; `CallInv`, a provider
call of a key was made only after its row was reserved; `OwnInv`, the request that works
on a row is the one that reserved it, so no two finish it. The refinement is proved step
by step: `Insert` binds, `Finish` decides, `LookupRow` and `LookupAgain` reply,
everything else stutters.

For `ProviderSpending`, `SpendingWithinBudget` speaks of what the provider charged,
while an admission compares what the ledger holds. `LedgerInv` relates them: a recorded
attempt is charged its estimate or a known amount, and at least what was spent.
`PlaceInv`: only the holder of the admission lock is between its sums and its
reservation, so that what the sums left room for still fits when it is reserved
(`RoomInv`; a completion only lowers a charge), and `BudgetInv` follows. The sums are
those of the community modules, a fold over a set of calls. That such a sum exists for
every finite set, and does not depend on the order, is proved from the well-founded
order of the subsets, with the set of sums in the place of the predicate that an
induction theorem would ask for (`SubsetsInduct`, `SumsAgree`, `SumsExist`); `SumWith`,
`SumWithout`, `SumsCompare` and `SumsEqual` are then what the steps need. Any number of
calls may exist, only those that were recorded are finitely many.

| theorem | statement |
|---|---|
| `GenTypeCorrect` | types and the three invariants of a generation |
| `ProviderCalledOnce` | the provider is called at most once for a key |
| `ImplementsPromise` | the endpoint implements `IdempotencyPromise` |
| `SpendingTypeCorrect` | types of metered calls and of the ledger |
| `BudgetsHold` | what was spent stays within both budgets, and the ledger covers it |
| `PartsKeepTheirSpecs` | a behaviour of `StoredStateMC` is one of each of its parts |
| `StoredTypeCorrect` | types of `StoredStateMC`, from those of its parts |

**`CorpusIntakeProofs`** (from `IntakeAssumption`). `LimitInv` bounds attempts and
versions. `ObjectInv` says which upload may still remove an object: one that has not
committed, or one that is `spoiled`. `JoinInv`: a batch whose row a finishing run holds
is queued, which the row lock (`Claimable`) keeps.

| theorem | statement |
|---|---|
| `TypeCorrect` | types, with their limits |
| `CommittedBytesKept` | the object of a committed document stays, unless its upload failed after its commit |
| `ClaimedBatchesAreClosed` | no version joins a batch that a worker has claimed |

**`TurnProofs`** (from `RecoveryAssumption`, which now says that the searches are
finitely many, and `RepairAssumption`).

`RecoveryBatch`: that no more searches are at work than there are leases is no matter of
counting permits, because a lease ends by time alone. `LeaseInv`: the lease of a search
at work ends after its batch by more than any delay of the script, so the script counts
every search at work, and admits another only if there are fewer than `Leases`.
`TasksInv` and `ReturnInv` say the rest: a task is at work only in a batch that is open,
and results were returned only without an integrity error.

`ChatTurn`: the invariants follow the turn. `EarlyInv` (nothing is known before the
first verification), `CorrectInv` (a correction reviews claims that are not cleared),
`ClearInv` (what may be published is cleared, and the set of cleared claims only grows,
because `Approve` keeps decisions), `SupportInv` (what was proved is retained, captured
and published), `CommitInv` and `UserInv` (a second row needs a commit that was cut).

`EvidenceRepair`: a check *covers* authority if its review saw every record about its
proof. `AuthorityReviewed` asks this of what is handed over. It is not inductive, since
a retrieval finds authority that nothing covers yet. `KnownInv` says when the map knows
all that was found (wherever a review starts or ends); `FacetInv`, that what is kept as
valid covers what the map knows, because an admission invalidates every duty whose proof
new authority is about (`StaysValid`); `VerdictInv`, the same of the last verdict, and
that at the end it covers everything that was found, unless an admission handed its own
partial answer over, and then nothing new is about the passages at hand
(`AffectsCompared`); `CheckpointInv`, that a checkpoint covers everything at all times,
because a retrieval drops it as soon as something new is about its proof.

| theorem | statement |
|---|---|
| `RecoveryTypeCorrect` | types of searches, permits and leases |
| `SearchesWithinLeases` | no more searches at work than leases |
| `BatchesEndWhole` | a batch that is over has no task at work |
| `TurnTypeCorrect` | types; at most two rows of each kind |
| `OnlyClearedPublished` | no row publishes a claim that a verification did not clear |
| `ProvedClaimsSurvive` | what the first verification proved is in every later answer |
| `AnswersAreUnique` | a second answer needs a commit that was cut before it was acknowledged |
| `RepairTypeCorrect` | types of a repair; rounds and reviews within the schedule |
| `NoAuthorityOverlooked` | what is handed over was reviewed with all the authority about it |
| `PartsKeepTheirSpecs` | a behaviour of `TurnMC` is one of each of its parts |
| `TurnPartsTypeCorrect` | types of `TurnMC`, from those of its parts |

## Only model-checked

Liveness (`EverySubmissionSettles`, `DeliveriesSettle`, `RevocationTakesEffect`,
`BranchesEnd`, `ProcessedIsIndexed`): temporal reasoning under fairness and ENABLED are
beyond the prover. Every invariant and every action property of the passing runs is a
theorem. The findings are counterexamples and need none.

## Not modelled, and the plan

`PROJECT.json` lists every component with the reason. Most of the source that no module
covers is data processing: prompts and their schemas, parsing of completions,
quotation and span matching, chunking, scoring, metrics, formatting of responses, HTTP
and command line parsing, settings. It has no state that outlives a call and no
interleaving, and a model of it would restate it line by line.

What could still be modelled, in order:

1. The read side of source metadata: which revisions are canonical at a date, by the
   intervals and statuses that `SourceHistory` leaves out, and the searches that pin a
   generation and a build together.
2. `ActivationLocks`: the lock orders of activate, rollback, attest and purge as a
   wait-for graph, with an abstract pointer register that `IndexLifecycle`
   implements.
3. The parts of a turn before its draft (turn resolution, selector repair, routing of
   evidence) and the phase allotments of its deadline.
4. Structural builds, scope reviews and private reprocessing in `IndexLifecycle`.
5. The rate limiter (a counter in a fixed window) and project configuration (one
   optimistic revision under the Project's row lock): little to get wrong.

Proofs to come: for `IndexLifecycle`, that it implements an abstract pointer register; for
`VerifiedKeys`, that `TenantKeysDropped` holds when an invalidation removes only the
hashes that it read; what a repair hands over when the stale entry of the finding is cleared.
