--------------------------- MODULE EmbeddingCache ---------------------------
(***************************************************************************)
(* The persistent cache of embeddings of one Project: builds and turns     *)
(* that embed a batch of exact inputs, each in a transaction of its own    *)
(* under the Project's "embedding-cache" advisory lock, held during the    *)
(* provider call; seeding from sealed index builds; expiry; and the purge  *)
(* of the whole cache by a document purge.                                 *)
(***************************************************************************)
EXTENDS Naturals

CONSTANTS
    Inputs,       \* cache keys: exact input and embedding identity
    Fills,        \* embed_texts calls, one batch each
    Purges,       \* document purge jobs
    Sealed,       \* inputs with a vector of proven origin in a sealed build
    Nobody,
    MaxExpiry     \* BOUND: expiries of one row

ASSUME CacheAssumption ==
    /\ Sealed \subseteq Inputs
    /\ Fills \cap Purges = {}
    /\ Nobody \notin Fills \cup Purges
    /\ MaxExpiry \in Nat

VARIABLES
    cached,     \* inputs with a live row in embedding_cache
    lockedBy,   \* holder of the advisory lock
    fill,       \* what each call is doing
    purge,      \* what each purge job is doing
    paid,       \* history: how often each input was embedded by the provider
    forgotten   \* history: how often a paid vector was lost, expired or purged

cacheVars == <<cached, lockedBy, fill, purge, paid, forgotten>>

-----------------------------------------------------------------------------
Fill == [pc : {"idle", "open", "missing", "save", "ended"},
         batch : SUBSET Inputs, missing : SUBSET Inputs]

CacheInit ==
    /\ cached = {}
    /\ lockedBy = Nobody
    /\ fill = [f \in Fills |-> [pc |-> "idle", batch |-> {}, missing |-> {}]]
    /\ purge = [p \in Purges |-> "idle"]
    /\ paid = [i \in Inputs |-> 0]
    /\ forgotten = [i \in Inputs |-> 0]

\* MUTANT: fills of one Project overlap.
FillTogether == TRUE
Free == lockedBy = Nobody
FillAt(f, pc) == fill' = [fill EXCEPT ![f].pc = pc]
Counted(count, inputs) ==
    [i \in Inputs |-> IF i \in inputs THEN count[i] + 1 ELSE count[i]]

\* embed_texts opens the cache session: the lock, and the cleanup of expired rows.
OpenSession(f, batch) ==
    /\ fill[f].pc = "idle"
    /\ Free
    /\ lockedBy' = f
    /\ fill' = [fill EXCEPT ![f] = [pc |-> "open", batch |-> batch,
                                    missing |-> {}]]
    /\ UNCHANGED <<cached, purge, paid, forgotten>>

\* Hits, then seeds of sealed builds; without a miss the transaction commits.
Lookup(f) ==
    /\ fill[f].pc = "open"
    /\ LET missing == (fill[f].batch \ cached) \ Sealed IN
         IF missing = {}
           THEN /\ cached' = cached \cup fill[f].batch
                /\ FillAt(f, "ended")
                /\ lockedBy' = Nobody
           ELSE /\ fill' = [fill EXCEPT ![f].pc = "missing", ![f].missing = missing]
                /\ UNCHANGED <<cached, lockedBy>>
    /\ UNCHANGED <<purge, paid, forgotten>>

\* The provider embeds what is missing; duplicates of one batch are one input.
EmbedMissing(f) ==
    /\ fill[f].pc = "missing"
    /\ paid' = Counted(paid, fill[f].missing)
    /\ FillAt(f, "save")
    /\ UNCHANGED <<cached, lockedBy, purge, forgotten>>

\* The batch commits, seeds and fresh vectors together.
SaveVectors(f) ==
    /\ fill[f].pc = "save"
    /\ cached' = cached \cup fill[f].batch
    /\ lockedBy' = Nobody
    /\ FillAt(f, "ended")
    /\ UNCHANGED <<purge, paid, forgotten>>

\* The call fails, is cancelled, returns an invalid batch, or the process dies:
\* the transaction rolls back, paid vectors included.
AbortFill(f) ==
    /\ fill[f].pc \in {"open", "missing", "save"}
    /\ forgotten' = IF fill[f].pc = "save"
                      THEN Counted(forgotten, fill[f].missing) ELSE forgotten
    /\ lockedBy' = Nobody
    /\ FillAt(f, "ended")
    /\ UNCHANGED <<cached, purge, paid>>

\* A row passes its TTL; a miss from then on.
Expire(i) ==
    /\ i \in cached
    /\ forgotten[i] < MaxExpiry
    /\ cached' = cached \ {i}
    /\ forgotten' = Counted(forgotten, {i})
    /\ UNCHANGED <<lockedBy, fill, purge, paid>>

\* purge_project_cache, inside the purge job's transaction, which holds the lock
\* until it commits or rolls back.
BeginPurge(p) ==
    /\ purge[p] = "idle"
    /\ Free
    /\ lockedBy' = p
    /\ purge' = [purge EXCEPT ![p] = "purging"]
    /\ UNCHANGED <<cached, fill, paid, forgotten>>

EndPurge(p) ==
    /\ purge[p] = "purging"
    /\ lockedBy' = Nobody
    /\ purge' = [purge EXCEPT ![p] = "ended"]
    /\ \/ /\ cached' = {}
          /\ forgotten' = Counted(forgotten, cached)
       \/ UNCHANGED <<cached, forgotten>>
    /\ UNCHANGED <<fill, paid>>

CacheNext ==
    \/ \E f \in Fills :
         \/ \E batch \in SUBSET Inputs : batch # {} /\ OpenSession(f, batch)
         \/ Lookup(f) \/ EmbedMissing(f) \/ SaveVectors(f) \/ AbortFill(f)
    \/ \E i \in Inputs : Expire(i)
    \/ \E p \in Purges : BeginPurge(p) \/ EndPurge(p)

CacheSpec == CacheInit /\ [][CacheNext]_cacheVars

-----------------------------------------------------------------------------
(* Properties.                                                              *)

\* Types.
CacheTypeOK ==
    /\ cached \subseteq Inputs
    /\ lockedBy \in Fills \cup Purges \cup {Nobody}
    /\ fill \in [Fills -> Fill]
    /\ purge \in [Purges -> {"idle", "purging", "ended"}]
    /\ paid \in [Inputs -> Nat]
    /\ forgotten \in [Inputs -> Nat]

\* One exact input is paid for again only after its vector was lost with a
\* transaction, expired or was purged, however many builds and turns embed it at
\* the same time; and what a sealed build proves is never paid for.
PaidOnce ==
    \A i \in Inputs :
        /\ paid[i] <= 1 + forgotten[i]
        /\ i \in Sealed => paid[i] = 0
=============================================================================
