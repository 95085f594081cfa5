---------------------------- MODULE CacheProofs ----------------------------
(***************************************************************************)
(* Proofs about the three caches: the stored embeddings (EmbeddingCache),  *)
(* the embeddings in flight (SingleFlight) and the verified API keys       *)
(* (VerifiedKeys), for any sets of inputs, texts, keys and processes.      *)
(* LockInv: whoever is inside a cache session holds the advisory lock.     *)
(* FillInv: what a fill has found missing is still missing.                *)
(* AccountInv: a vector that is neither stored nor about to be was lost as *)
(* often as it was paid.                                                   *)
(* FlightInv: a text in flight has one owner, who is embedding it and has  *)
(* told nobody yet; a future that failed belongs to a call that failed.    *)
(* KeyInv: whoever passed a check of a row that was withdrawn since is on  *)
(* record, and every entry of a withdrawn key has its explanation.         *)
(***************************************************************************)
EXTENDS EmbeddingCache, SingleFlight, VerifiedKeys, TLAPS

-----------------------------------------------------------------------------
(* EmbeddingCache.                                                          *)

Inside(f) == fill[f].pc \in {"open", "missing", "save"}

LockInv ==
    /\ \A f \in Fills : Inside(f) => lockedBy = f
    /\ \A p \in Purges : purge[p] = "purging" => lockedBy = p

FillInv ==
    \A f \in Fills :
        /\ fill[f].pc \in {"missing", "save"} =>
             /\ fill[f].missing \subseteq fill[f].batch
             /\ fill[f].missing \cap Sealed = {}
        /\ fill[f].pc = "missing" => fill[f].missing \cap cached = {}

\* A vector that was paid is stored, or its fill is about to save it.
Held(i) == i \in cached \/ \E f \in Fills : fill[f].pc = "save" /\ i \in fill[f].missing

Account(i) ==
    /\ paid[i] <= 1 + forgotten[i]
    /\ ~Held(i) => paid[i] <= forgotten[i]
    /\ i \in Sealed => paid[i] = 0

AccountInv == \A i \in Inputs : Account(i)

-----------------------------------------------------------------------------
LEMMA FillFields ==
    ASSUME CacheTypeOK, NEW f \in Fills
    PROVE  /\ fill[f] \in Fill
           /\ fill[f].pc \in {"idle", "open", "missing", "save", "ended"}
           /\ fill[f].batch \subseteq Inputs
           /\ fill[f].missing \subseteq Inputs
  BY DEF CacheTypeOK, Fill

\* A step that moves one fill leaves the others alone.
LEMMA MovedFill ==
    ASSUME CacheTypeOK, NEW f \in Fills, NEW g \in Fills,
           NEW pc \in {"idle", "open", "missing", "save", "ended"}, FillAt(f, pc)
    PROVE  /\ fill' \in [Fills -> Fill]
           /\ g # f => fill'[g] = fill[g]
           /\ fill'[f].pc = pc
           /\ fill'[f].batch = fill[f].batch
           /\ fill'[f].missing = fill[f].missing
  BY FillFields DEF CacheTypeOK, FillAt, Fill

LEMMA CountedType ==
    ASSUME NEW count \in [Inputs -> Nat], NEW inputs
    PROVE  /\ Counted(count, inputs) \in [Inputs -> Nat]
           /\ \A i \in Inputs : Counted(count, inputs)[i]
                = IF i \in inputs THEN count[i] + 1 ELSE count[i]
  BY DEF Counted

-----------------------------------------------------------------------------
LEMMA CacheTypePreserved ==
    ASSUME CacheTypeOK, [CacheNext]_cacheVars
    PROVE  CacheTypeOK'
<1> USE DEF CacheTypeOK
<1>1. ASSUME NEW f \in Fills, NEW batch \in SUBSET Inputs, OpenSession(f, batch)
      PROVE  CacheTypeOK'
  BY <1>1 DEF OpenSession, Fill
<1>2. ASSUME NEW f \in Fills, Lookup(f)
      PROVE  CacheTypeOK'
  <2> DEFINE missing == (fill[f].batch \ cached) \ Sealed
  <2>1. fill[f].batch \subseteq Inputs /\ missing \subseteq Inputs
    BY FillFields
  <2>2. CASE missing = {}
    BY <1>2, <2>1, <2>2, MovedFill DEF Lookup
  <2>3. CASE missing # {}
    <3>1. fill' = [fill EXCEPT ![f].pc = "missing", ![f].missing = missing]
      BY <1>2, <2>3 DEF Lookup
    <3>2. fill' \in [Fills -> Fill]
      BY <2>1, <3>1 DEF Fill
    <3> QED BY <1>2, <2>3, <3>2 DEF Lookup
  <2> QED BY <2>2, <2>3
<1>3. ASSUME NEW f \in Fills, EmbedMissing(f)
      PROVE  CacheTypeOK'
  BY <1>3, MovedFill, CountedType DEF EmbedMissing
<1>4. ASSUME NEW f \in Fills, SaveVectors(f)
      PROVE  CacheTypeOK'
  BY <1>4, MovedFill, FillFields DEF SaveVectors
<1>5. ASSUME NEW f \in Fills, AbortFill(f)
      PROVE  CacheTypeOK'
  BY <1>5, MovedFill, CountedType DEF AbortFill
<1>6. ASSUME NEW i \in Inputs, Expire(i)
      PROVE  CacheTypeOK'
  BY <1>6, CountedType DEF Expire
<1>7. ASSUME NEW p \in Purges, BeginPurge(p) \/ EndPurge(p)
      PROVE  CacheTypeOK'
  BY <1>7, CountedType DEF BeginPurge, EndPurge
<1>8. CASE UNCHANGED cacheVars
  BY <1>8 DEF cacheVars
<1> QED BY <1>1, <1>2, <1>3, <1>4, <1>5, <1>6, <1>7, <1>8 DEF CacheNext

\* Every variable of the cache keeps its type.
THEOREM CacheTypeCorrect == CacheSpec => []CacheTypeOK
<1>1. CacheInit => CacheTypeOK
  BY DEF CacheInit, CacheTypeOK, Fill
<1>2. CacheTypeOK /\ [CacheNext]_cacheVars => CacheTypeOK'
  BY CacheTypePreserved
<1> QED BY <1>1, <1>2, PTL DEF CacheSpec

-----------------------------------------------------------------------------
\* At most one fill or purge is inside a session.
LEMMA OneInside ==
    ASSUME LockInv, NEW f \in Fills, Inside(f)
    PROVE  /\ \A g \in Fills : g # f => ~Inside(g)
           /\ \A p \in Purges : purge[p] # "purging"
           /\ lockedBy # Nobody
  BY CacheAssumption DEF LockInv

LEMMA NobodyInside ==
    ASSUME LockInv, Free
    PROVE  /\ \A g \in Fills : ~Inside(g)
           /\ \A p \in Purges : purge[p] # "purging"
  BY CacheAssumption DEF LockInv, Free

LEMMA LockPreserved ==
    ASSUME CacheTypeOK, LockInv, [CacheNext]_cacheVars
    PROVE  LockInv'
<1>1. ASSUME NEW f \in Fills, NEW batch \in SUBSET Inputs, OpenSession(f, batch)
      PROVE  LockInv'
  <2>1. \A g \in Fills : g # f => fill'[g] = fill[g]
    BY <1>1 DEF OpenSession, CacheTypeOK
  <2> QED BY <1>1, <2>1, NobodyInside DEF OpenSession, LockInv, Inside
<1>2. ASSUME NEW f \in Fills, Lookup(f) \/ EmbedMissing(f) \/ SaveVectors(f) \/ AbortFill(f)
      PROVE  LockInv'
  <2>1. Inside(f) /\ lockedBy = f /\ UNCHANGED purge
    BY <1>2 DEF Lookup, EmbedMissing, SaveVectors, AbortFill, Inside, LockInv
  <2>2. \A g \in Fills : g # f => fill'[g] = fill[g]
    BY <1>2 DEF Lookup, EmbedMissing, SaveVectors, AbortFill, FillAt, CacheTypeOK
  <2>3. Inside(f)' => lockedBy' = f
    <3>1. CASE lockedBy' = lockedBy
      BY <2>1, <3>1
    <3>2. CASE FillAt(f, "ended")
      BY <3>2, MovedFill DEF Inside
    <3> QED BY <1>2, <3>1, <3>2 DEF Lookup, EmbedMissing, SaveVectors, AbortFill
  <2> QED BY <2>1, <2>2, <2>3, OneInside DEF LockInv, Inside
<1>3. ASSUME NEW i \in Inputs, Expire(i)
      PROVE  LockInv'
  BY <1>3 DEF Expire, LockInv, Inside
<1>4. ASSUME NEW p \in Purges, BeginPurge(p)
      PROVE  LockInv'
  <2>1. \A q \in Purges : q # p => purge'[q] = purge[q]
    BY <1>4 DEF BeginPurge, CacheTypeOK
  <2> QED BY <1>4, <2>1, NobodyInside DEF BeginPurge, LockInv, Inside
<1>5. ASSUME NEW p \in Purges, EndPurge(p)
      PROVE  LockInv'
  <2>1. purge'[p] = "ended" /\ \A q \in Purges : q # p => purge'[q] = purge[q]
    BY <1>5 DEF EndPurge, CacheTypeOK
  <2>2. lockedBy = p /\ UNCHANGED fill
    BY <1>5 DEF EndPurge, LockInv
  <2> QED BY <2>1, <2>2, CacheAssumption DEF LockInv, Inside
<1>6. CASE UNCHANGED cacheVars
  BY <1>6 DEF cacheVars, LockInv, Inside
<1> QED BY <1>1, <1>2, <1>3, <1>4, <1>5, <1>6 DEF CacheNext

\* Cache sessions of a Project exclude each other, builds, turns and purges alike.
THEOREM SessionsExclude == CacheSpec => []LockInv
<1>1. CacheInit => LockInv
  BY DEF CacheInit, LockInv, Inside
<1>2. CacheTypeOK /\ LockInv /\ [CacheNext]_cacheVars => LockInv'
  BY LockPreserved
<1> QED BY <1>1, <1>2, CacheTypeCorrect, PTL DEF CacheSpec

-----------------------------------------------------------------------------
LEMMA FillPreserved ==
    ASSUME CacheTypeOK, LockInv, FillInv, [CacheNext]_cacheVars
    PROVE  FillInv'
<1>1. ASSUME NEW f \in Fills, NEW batch \in SUBSET Inputs, OpenSession(f, batch)
      PROVE  FillInv'
  BY <1>1 DEF OpenSession, CacheTypeOK, FillInv
<1>2. ASSUME NEW f \in Fills, Lookup(f)
      PROVE  FillInv'
  <2> DEFINE missing == (fill[f].batch \ cached) \ Sealed
  <2>1. Inside(f) /\ \A g \in Fills : g # f => ~Inside(g)
    BY <1>2, OneInside DEF Lookup, Inside
  <2>2. \A g \in Fills : g # f => fill'[g] = fill[g]
    BY <1>2 DEF Lookup, FillAt, CacheTypeOK
  <2>3. CASE missing = {}
    <3>1. fill'[f].pc = "ended"
      BY <1>2, <2>3, MovedFill DEF Lookup
    <3> QED BY <2>1, <2>2, <3>1 DEF FillInv, Inside
  <2>4. CASE missing # {}
    <3>1. /\ fill' = [fill EXCEPT ![f].pc = "missing", ![f].missing = missing]
          /\ cached' = cached
      BY <1>2, <2>4 DEF Lookup
    <3>2. fill'[f].batch = fill[f].batch /\ fill'[f].missing = missing
      BY <3>1, FillFields DEF CacheTypeOK, Fill
    <3> QED BY <2>1, <2>2, <3>1, <3>2 DEF FillInv, Inside
  <2> QED BY <2>3, <2>4
<1>3. ASSUME NEW f \in Fills, EmbedMissing(f)
      PROVE  FillInv'
  BY <1>3, MovedFill DEF EmbedMissing, FillInv
<1>4. ASSUME NEW f \in Fills, SaveVectors(f)
      PROVE  FillInv'
  <2>1. Inside(f) /\ \A g \in Fills : g # f => ~Inside(g)
    BY <1>4, OneInside DEF SaveVectors, Inside
  <2> QED BY <1>4, <2>1, MovedFill DEF SaveVectors, FillInv, Inside
<1>5. ASSUME NEW f \in Fills, AbortFill(f)
      PROVE  FillInv'
  BY <1>5, MovedFill DEF AbortFill, FillInv
<1>6. ASSUME NEW i \in Inputs, Expire(i)
      PROVE  FillInv'
  BY <1>6 DEF Expire, FillInv
<1>7. ASSUME NEW p \in Purges, BeginPurge(p) \/ EndPurge(p)
      PROVE  FillInv'
  BY <1>7 DEF BeginPurge, EndPurge, FillInv
<1>8. CASE UNCHANGED cacheVars
  BY <1>8 DEF cacheVars, FillInv
<1> QED BY <1>1, <1>2, <1>3, <1>4, <1>5, <1>6, <1>7, <1>8 DEF CacheNext

\* What a session looked up and missed is still missing when it stores the vectors it
\* bought: nothing else of the Project is stored or purged between the two.
THEOREM MissesStayMisses == CacheSpec => []FillInv
<1>1. CacheInit => FillInv
  BY DEF CacheInit, FillInv
<1>2. CacheTypeOK /\ LockInv /\ FillInv /\ [CacheNext]_cacheVars => FillInv'
  BY FillPreserved
<1> QED BY <1>1, <1>2, CacheTypeCorrect, SessionsExclude, PTL DEF CacheSpec

-----------------------------------------------------------------------------
\* A step that loses no vector and pays for none.
LEMMA NothingPaid ==
    ASSUME CacheTypeOK, AccountInv, UNCHANGED <<paid, forgotten>>,
           \A i \in Inputs : Held(i) => Held(i)'
    PROVE  AccountInv'
  BY DEF AccountInv, Account

\* A step that loses some vectors, which counts for each of them.
LEMMA Lost ==
    ASSUME CacheTypeOK, AccountInv, NEW lost, UNCHANGED paid,
           forgotten' = Counted(forgotten, lost),
           \A i \in Inputs \ lost : Held(i) => Held(i)'
    PROVE  AccountInv'
<1> SUFFICES ASSUME NEW i \in Inputs PROVE Account(i)'
  BY DEF AccountInv
<1>1. Account(i) /\ paid[i] \in Nat /\ forgotten[i] \in Nat
  BY DEF AccountInv, CacheTypeOK
<1>2. forgotten'[i] = IF i \in lost THEN forgotten[i] + 1 ELSE forgotten[i]
  BY CountedType DEF CacheTypeOK
<1> QED BY <1>1, <1>2 DEF Account

LEMMA AccountPreserved ==
    ASSUME CacheTypeOK, LockInv, FillInv, AccountInv, [CacheNext]_cacheVars
    PROVE  AccountInv'
<1>1. ASSUME NEW f \in Fills, NEW batch \in SUBSET Inputs, OpenSession(f, batch)
      PROVE  AccountInv'
  <2>1. \A g \in Fills : fill[g].pc = "save" => fill'[g] = fill[g]
    BY <1>1 DEF OpenSession, CacheTypeOK
  <2> QED BY <1>1, <2>1, NothingPaid DEF OpenSession, Held
<1>2. ASSUME NEW f \in Fills, Lookup(f)
      PROVE  AccountInv'
  <2>1. \A g \in Fills : fill[g].pc = "save" => fill'[g] = fill[g]
    BY <1>2 DEF Lookup, FillAt, CacheTypeOK
  <2>2. cached \subseteq cached'
    BY <1>2 DEF Lookup
  <2> QED BY <1>2, <2>1, <2>2, NothingPaid DEF Lookup, Held
<1>3. ASSUME NEW f \in Fills, EmbedMissing(f)
      PROVE  AccountInv'
  <2> SUFFICES ASSUME NEW i \in Inputs PROVE Account(i)'
    BY DEF AccountInv
  <2>1. Account(i) /\ paid[i] \in Nat /\ forgotten[i] \in Nat
    BY DEF AccountInv, CacheTypeOK
  <2>2. paid'[i] = IF i \in fill[f].missing THEN paid[i] + 1 ELSE paid[i]
    BY <1>3, CountedType DEF EmbedMissing, CacheTypeOK
  <2>3. /\ fill'[f].pc = "save" /\ fill'[f].missing = fill[f].missing
        /\ \A g \in Fills : g # f => fill'[g] = fill[g]
        /\ UNCHANGED <<cached, forgotten>>
    BY <1>3, MovedFill DEF EmbedMissing
  <2>4. Inside(f) /\ \A g \in Fills : g # f => ~Inside(g)
    BY <1>3, OneInside DEF EmbedMissing, Inside
  <2>5. CASE i \in fill[f].missing
    <3>1. i \notin Sealed /\ ~Held(i)
      BY <1>3, <2>4, <2>5 DEF EmbedMissing, FillInv, Held, Inside
    <3>2. Held(i)'
      BY <2>3, <2>5 DEF Held
    <3> QED BY <2>1, <2>2, <2>3, <2>5, <3>1, <3>2 DEF Account
  <2>6. CASE i \notin fill[f].missing
    <3>1. Held(i) => Held(i)'
      BY <1>3, <2>3 DEF EmbedMissing, Held
    <3> QED BY <2>1, <2>2, <2>3, <2>6, <3>1 DEF Account
  <2> QED BY <2>5, <2>6
<1>4. ASSUME NEW f \in Fills, SaveVectors(f)
      PROVE  AccountInv'
  <2>1. \A g \in Fills : g # f => fill'[g] = fill[g]
    BY <1>4, MovedFill DEF SaveVectors
  <2>2. cached' = cached \cup fill[f].batch /\ fill[f].missing \subseteq fill[f].batch
    BY <1>4 DEF SaveVectors, FillInv
  <2> QED BY <1>4, <2>1, <2>2, NothingPaid DEF SaveVectors, Held
<1>5. ASSUME NEW f \in Fills, AbortFill(f)
      PROVE  AccountInv'
  <2>1. /\ \A g \in Fills : g # f => fill'[g] = fill[g]
        /\ UNCHANGED <<cached, paid>>
    BY <1>5, MovedFill DEF AbortFill
  <2>2. CASE fill[f].pc = "save"
    <3>1. \A i \in Inputs \ fill[f].missing : Held(i) => Held(i)'
      BY <2>1 DEF Held
    <3>2. forgotten' = Counted(forgotten, fill[f].missing)
      BY <1>5, <2>2 DEF AbortFill
    <3> QED BY <2>1, <3>1, <3>2, Lost
  <2>3. CASE fill[f].pc # "save"
    <3>1. \A i \in Inputs : Held(i) => Held(i)'
      BY <2>1, <2>3 DEF Held
    <3>2. forgotten' = forgotten
      BY <1>5, <2>3 DEF AbortFill
    <3> QED BY <2>1, <3>1, <3>2, NothingPaid
  <2> QED BY <2>2, <2>3
<1>6. ASSUME NEW j \in Inputs, Expire(j)
      PROVE  AccountInv'
  <2>1. \A i \in Inputs \ {j} : Held(i) => Held(i)'
    BY <1>6 DEF Expire, Held
  <2> QED BY <1>6, <2>1, Lost DEF Expire
<1>7. ASSUME NEW p \in Purges, BeginPurge(p)
      PROVE  AccountInv'
  BY <1>7, NothingPaid DEF BeginPurge, Held
<1>8. ASSUME NEW p \in Purges, EndPurge(p)
      PROVE  AccountInv'
  <2>1. CASE UNCHANGED <<cached, forgotten>>
    BY <1>8, <2>1, NothingPaid DEF EndPurge, Held
  <2>2. CASE cached' = {} /\ forgotten' = Counted(forgotten, cached)
    <3>1. \A i \in Inputs \ cached : Held(i) => Held(i)'
      BY <1>8 DEF EndPurge, Held
    <3> QED BY <1>8, <2>2, <3>1, Lost DEF EndPurge
  <2> QED BY <1>8, <2>1, <2>2 DEF EndPurge
<1>9. CASE UNCHANGED cacheVars
  BY <1>9, NothingPaid DEF cacheVars, Held
<1> QED BY <1>1, <1>2, <1>3, <1>4, <1>5, <1>6, <1>7, <1>8, <1>9 DEF CacheNext

\* However many fills and purges overlap, an input is paid for again only after its
\* vector was lost, and never when a sealed build has it.
THEOREM PaidOnceEver == CacheSpec => []PaidOnce
<1>1. CacheInit => AccountInv
  <2> SUFFICES ASSUME CacheInit, NEW i \in Inputs PROVE Account(i)
    BY DEF AccountInv
  <2>1. paid[i] = 0 /\ forgotten[i] = 0
    BY DEF CacheInit
  <2> QED BY <2>1 DEF Account
<1>2. CacheTypeOK /\ LockInv /\ FillInv /\ AccountInv /\ [CacheNext]_cacheVars => AccountInv'
  BY AccountPreserved
<1>3. AccountInv => PaidOnce
  BY DEF AccountInv, Account, PaidOnce
<1> QED BY <1>1, <1>2, <1>3, CacheTypeCorrect, SessionsExclude, MissesStayMisses, PTL DEF CacheSpec

-----------------------------------------------------------------------------
(* SingleFlight.                                                            *)

Embedding(b) == branch[b].pc = "embed"

FlightInv ==
    /\ \A b \in Branches : Embedding(b) =>
         \A x \in branch[b].owns : inFlight[x] = {b} /\ x \notin vectors
    /\ \A x \in Texts : x \notin vectors => embedded[x] = 0
    /\ \A b \in Branches : future[b] = "failed" => failures

-----------------------------------------------------------------------------
LEMMA BranchFields ==
    ASSUME FlightTypeOK, NEW b \in Branches
    PROVE  /\ branch[b] \in Branch
           /\ branch[b].owns \subseteq Texts
           /\ branch[b].awaits \in [Texts -> SUBSET Branches]
  BY DEF FlightTypeOK, Branch

LEMMA LandedType ==
    ASSUME FlightTypeOK, NEW b \in Branches
    PROVE  /\ Landed(b) \in [Texts -> SUBSET Branches]
           /\ \A x \in Texts : Landed(b)[x] = IF x \in branch[b].owns THEN {} ELSE inFlight[x]
  BY DEF Landed, FlightTypeOK

LEMMA MovedBranch ==
    ASSUME FlightTypeOK, NEW b \in Branches,
           NEW pc \in {"idle", "embed", "await", "ended", "failed"},
           branch' = [branch EXCEPT ![b].pc = pc]
    PROVE  /\ branch' \in [Branches -> Branch]
           /\ branch'[b].pc = pc /\ branch'[b].owns = branch[b].owns
           /\ \A c \in Branches : c # b => branch'[c] = branch[c]
  BY BranchFields DEF FlightTypeOK, Branch

-----------------------------------------------------------------------------
LEMMA FlightTypePreserved ==
    ASSUME FlightTypeOK, [FlightNext]_flightVars
    PROVE  FlightTypeOK'
<1> USE DEF FlightTypeOK
<1>1. ASSUME NEW b \in Branches, NEW texts \in SUBSET Texts, Register(b, texts)
      PROVE  FlightTypeOK'
  <2> DEFINE owns == {x \in texts \ vectors : inFlight[x] = {}}
             branchRow == [pc |-> IF owns = {} THEN "await" ELSE "embed",
                       owns |-> owns,
                       awaits |-> [x \in Texts |->
                           IF x \in (texts \ vectors) \ owns THEN inFlight[x] ELSE {}]]
  <2>1. branchRow \in Branch
    <3>1. branchRow.awaits \in [Texts -> SUBSET Branches]
      OBVIOUS
    <3> QED BY <3>1 DEF Branch
  <2>2. branch' = [branch EXCEPT ![b] = branchRow]
    BY <1>1 DEF Register
  <2>3. branch' \in [Branches -> Branch]
    BY <2>1, <2>2
  <2>4. inFlight' = [x \in Texts |-> IF x \in owns THEN {b} ELSE inFlight[x]]
    BY <1>1 DEF Register
  <2>5. inFlight' \in [Texts -> SUBSET Branches]
    BY <2>4
  <2>6. future' \in [Branches -> {"none", "pending", "done", "failed"}]
    BY <1>1 DEF Register
  <2> QED BY <1>1, <2>3, <2>5, <2>6 DEF Register
<1>2. ASSUME NEW b \in Branches, EmbedOwned(b)
      PROVE  FlightTypeOK'
  <2>1. vectors' \subseteq Texts
    BY <1>2, BranchFields DEF EmbedOwned
  <2>2. embedded' \in [Texts -> Nat]
    BY <1>2 DEF EmbedOwned
  <2>3. branch' \in [Branches -> Branch] /\ inFlight' \in [Texts -> SUBSET Branches]
    BY <1>2, MovedBranch, LandedType DEF EmbedOwned
  <2> QED BY <1>2, <2>1, <2>2, <2>3 DEF EmbedOwned
<1>3. ASSUME NEW b \in Branches, FailOwned(b)
      PROVE  FlightTypeOK'
  BY <1>3, MovedBranch, LandedType DEF FailOwned
<1>4. ASSUME NEW b \in Branches, Return(b) \/ Propagate(b) \/ CancelWaiter(b)
      PROVE  FlightTypeOK'
  BY <1>4, MovedBranch DEF Return, Propagate, CancelWaiter
<1>5. CASE UNCHANGED flightVars
  BY <1>5 DEF flightVars
<1> QED BY <1>1, <1>2, <1>3, <1>4, <1>5 DEF FlightNext, Proceeds

\* Every variable of the embedding table keeps its type.
THEOREM FlightTypeCorrect == FlightSpec => []FlightTypeOK
<1>1. FlightInit => FlightTypeOK
  <2> SUFFICES ASSUME FlightInit PROVE FlightTypeOK
    OBVIOUS
  <2>1. [x \in Texts |-> {}] \in [Texts -> SUBSET Branches]
    OBVIOUS
  <2> QED BY <2>1 DEF FlightInit, FlightTypeOK, Branch
<1>2. FlightTypeOK /\ [FlightNext]_flightVars => FlightTypeOK'
  BY FlightTypePreserved
<1> QED BY <1>1, <1>2, PTL DEF FlightSpec

-----------------------------------------------------------------------------
\* A branch that only awaits changes neither the table nor what others do.
LEMMA AwaitingKeeps ==
    ASSUME FlightTypeOK, FlightInv, NEW b \in Branches, ~Embedding(b),
           UNCHANGED <<vectors, inFlight, future, embedded>>,
           branch' = [branch EXCEPT ![b].pc = "ended"] \/ branch' = [branch EXCEPT ![b].pc = "failed"],
           failures => failures'
    PROVE  FlightInv'
<1>1. ~Embedding(b)'
  BY MovedBranch DEF Embedding
<1>2. \A c \in Branches : c # b => branch'[c] = branch[c]
  BY MovedBranch
<1> QED BY <1>1, <1>2 DEF FlightInv, Embedding

\* What a branch owned when it landed belongs to nobody else.
LEMMA LandingKeepsOthers ==
    ASSUME FlightTypeOK, FlightInv, NEW b \in Branches, Embedding(b),
           NEW c \in Branches, Embedding(c), c # b
    PROVE  \A x \in branch[c].owns : x \notin branch[b].owns /\ Landed(b)[x] = {c}
<1> SUFFICES ASSUME NEW x \in branch[c].owns
             PROVE  x \notin branch[b].owns /\ Landed(b)[x] = {c}
  OBVIOUS
<1>1. inFlight[x] = {c} /\ x \in Texts
  BY BranchFields DEF FlightInv
<1>2. x \in branch[b].owns => inFlight[x] = {b}
  BY DEF FlightInv
<1> QED BY <1>1, <1>2, LandedType

LEMMA FlightPreserved ==
    ASSUME FlightTypeOK, FlightInv, [FlightNext]_flightVars
    PROVE  FlightInv'
<1>1. ASSUME NEW b \in Branches, NEW texts \in SUBSET Texts, Register(b, texts)
      PROVE  FlightInv'
  <2> DEFINE owns == {x \in texts \ vectors : inFlight[x] = {}}
  <2>1. /\ branch'[b].owns = owns
        /\ \A c \in Branches : c # b => branch'[c] = branch[c]
    BY <1>1 DEF Register, FlightTypeOK
  <2>2. \A x \in Texts : inFlight'[x] = IF x \in owns THEN {b} ELSE inFlight[x]
    BY <1>1 DEF Register
  <2>3. \A c \in Branches : future'[c] = "failed" => future[c] = "failed"
    BY <1>1 DEF Register, FlightTypeOK
  <2>4. ASSUME NEW c \in Branches, Embedding(c)', NEW x \in branch'[c].owns
        PROVE  inFlight'[x] = {c} /\ x \notin vectors'
    <3>1. CASE c = b
      BY <1>1, <2>1, <2>2, <2>4, <3>1 DEF Register
    <3>2. CASE c # b
      <4>1. Embedding(c) /\ x \in branch[c].owns /\ x \in Texts
        BY <2>1, <2>4, <3>2, BranchFields DEF Embedding
      <4>2. inFlight[x] = {c} /\ x \notin vectors
        BY <4>1 DEF FlightInv
      <4> QED BY <1>1, <2>2, <4>1, <4>2 DEF Register
    <3> QED BY <3>1, <3>2
  <2> QED BY <1>1, <2>3, <2>4 DEF Register, FlightInv
<1>2. ASSUME NEW b \in Branches, EmbedOwned(b)
      PROVE  FlightInv'
  <2>1. Embedding(b) /\ branch[b].owns \subseteq Texts
    BY <1>2, BranchFields DEF EmbedOwned, Embedding
  <2>2. /\ ~Embedding(b)'
        /\ \A c \in Branches : c # b => branch'[c] = branch[c]
    BY <1>2, MovedBranch DEF EmbedOwned, Embedding
  <2>3. \A c \in Branches : Embedding(c)' =>
            \A x \in branch'[c].owns : inFlight'[x] = {c} /\ x \notin vectors'
    BY <1>2, <2>1, <2>2, LandingKeepsOthers DEF EmbedOwned, Embedding, FlightInv
  <2>4. \A x \in Texts : x \notin vectors' => embedded'[x] = 0
    BY <1>2 DEF EmbedOwned, FlightInv
  <2>5. \A c \in Branches : future'[c] = "failed" => failures'
    BY <1>2 DEF EmbedOwned, FlightInv, FlightTypeOK
  <2> QED BY <2>3, <2>4, <2>5 DEF FlightInv
<1>3. ASSUME NEW b \in Branches, FailOwned(b)
      PROVE  FlightInv'
  <2>1. Embedding(b)
    BY <1>3 DEF FailOwned, Embedding
  <2>2. /\ ~Embedding(b)'
        /\ \A c \in Branches : c # b => branch'[c] = branch[c]
    BY <1>3, MovedBranch DEF FailOwned, Embedding
  <2>3. \A c \in Branches : Embedding(c)' =>
            \A x \in branch'[c].owns : inFlight'[x] = {c} /\ x \notin vectors'
    BY <1>3, <2>1, <2>2, LandingKeepsOthers DEF FailOwned, Embedding, FlightInv
  <2> QED BY <1>3, <2>3 DEF FailOwned, FlightInv
<1>4. ASSUME NEW b \in Branches, Return(b) \/ Propagate(b) \/ CancelWaiter(b)
      PROVE  FlightInv'
  <2>1. ~Embedding(b)
    BY <1>4 DEF Return, Propagate, CancelWaiter, Embedding
  <2> QED BY <1>4, <2>1, AwaitingKeeps DEF Return, Propagate, CancelWaiter
<1>5. CASE UNCHANGED flightVars
  BY <1>5 DEF flightVars, FlightInv, Embedding
<1> QED BY <1>1, <1>2, <1>3, <1>4, <1>5 DEF FlightNext, Proceeds

\* A text in flight has one owner, which has not embedded it yet.
THEOREM OwnersAreUnique == FlightSpec => []FlightInv
<1>1. FlightInit => FlightInv
  BY DEF FlightInit, FlightInv, Embedding
<1>2. FlightTypeOK /\ FlightInv /\ [FlightNext]_flightVars => FlightInv'
  BY FlightPreserved
<1> QED BY <1>1, <1>2, FlightTypeCorrect, PTL DEF FlightSpec

-----------------------------------------------------------------------------
LEMMA OncePreserved ==
    ASSUME FlightTypeOK, FlightInv, EmbeddedOnce, [FlightNext]_flightVars
    PROVE  EmbeddedOnce'
<1>1. ASSUME NEW b \in Branches, NEW texts \in SUBSET Texts, Register(b, texts)
      PROVE  EmbeddedOnce'
  <2>1. branch'[b].pc # "failed" /\ \A c \in Branches : c # b => branch'[c] = branch[c]
    BY <1>1 DEF Register, FlightTypeOK
  <2> QED BY <1>1, <2>1 DEF Register, EmbeddedOnce
<1>2. ASSUME NEW b \in Branches, EmbedOwned(b)
      PROVE  EmbeddedOnce'
  <2>1. branch'[b].pc = "await" /\ \A c \in Branches : c # b => branch'[c] = branch[c]
    BY <1>2, MovedBranch DEF EmbedOwned
  <2>2. ASSUME NEW x \in Texts PROVE embedded'[x] <= 1
    <3>1. x \in branch[b].owns => embedded[x] = 0
      BY <1>2 DEF EmbedOwned, FlightInv, Embedding
    <3>2. embedded'[x] = IF x \in branch[b].owns THEN embedded[x] + 1 ELSE embedded[x]
      BY <1>2 DEF EmbedOwned
    <3> QED BY <3>1, <3>2 DEF EmbeddedOnce
  <2> QED BY <1>2, <2>1, <2>2 DEF EmbedOwned, EmbeddedOnce
<1>3. ASSUME NEW b \in Branches, FailOwned(b)
      PROVE  EmbeddedOnce'
  BY <1>3 DEF FailOwned, EmbeddedOnce
<1>4. ASSUME NEW b \in Branches, Return(b)
      PROVE  EmbeddedOnce'
  BY <1>4, MovedBranch DEF Return, EmbeddedOnce
<1>5. ASSUME NEW b \in Branches, Propagate(b)
      PROVE  EmbeddedOnce'
  <2>1. failures
    <3>1. PICK x \in Awaited(b) : \E o \in branch[b].awaits[x] : future[o] = "failed"
      BY <1>5 DEF Propagate
    <3>2. branch[b].awaits[x] \subseteq Branches
      BY <3>1, BranchFields DEF Awaited
    <3> QED BY <3>1, <3>2 DEF FlightInv
  <2> QED BY <1>5, <2>1 DEF Propagate, EmbeddedOnce
<1>6. ASSUME NEW b \in Branches, CancelWaiter(b)
      PROVE  EmbeddedOnce'
  BY <1>6 DEF CancelWaiter, EmbeddedOnce
<1>7. CASE UNCHANGED flightVars
  BY <1>7 DEF flightVars, EmbeddedOnce
<1> QED BY <1>1, <1>2, <1>3, <1>4, <1>5, <1>6, <1>7 DEF FlightNext, Proceeds

\* A turn embeds each text once, and a branch fails only if a call of the turn failed.
THEOREM TextsEmbeddedOnce == FlightSpec => []EmbeddedOnce
<1>1. FlightInit => EmbeddedOnce
  BY DEF FlightInit, EmbeddedOnce
<1>2. FlightTypeOK /\ FlightInv /\ EmbeddedOnce /\ [FlightNext]_flightVars => EmbeddedOnce'
  BY OncePreserved
<1> QED BY <1>1, <1>2, FlightTypeCorrect, OwnersAreUnique, PTL DEF FlightSpec

-----------------------------------------------------------------------------
(* VerifiedKeys: why a withdrawn key can be in the cache.                    *)

\* A verification that passed a read and was overtaken by the withdrawal of what
\* it read is on record.
ClientInv ==
    \A c \in Clients : c \notin outdated =>
        /\ client[c].pc \in {"readOrg", "store"} => key[client[c].key] = "active"
        /\ client[c].pc = "store" => org[OrgOf[client[c].key]] = "active"

\* The sets of the organizations, and what an invalidation read of them.
MemberInv ==
    /\ \A o \in Orgs : members[o].keys \subseteq KeysOf(o)
    /\ \A v \in Operators : operator[v].pc = "members" =>
         operator[v].keys \subseteq KeysOf(operator[v].org)

\* The explanation of an entry that the set of its Organization names.
NamedEntryExplained ==
    \A k \in Keys :
        (/\ org[OrgOf[k]] # "active"
         /\ entry[k] > 0
         /\ k \in members[OrgOf[k]].keys)
            => k \in tainted \/ ToBeDropped(k)
ExplainedInv == RevokedEntryExplained /\ NamedEntryExplained

\* Every other entry is an orphan: the set that names an entry outlives it.
PlacedInv ==
    \A k \in Keys : entry[k] > 0 =>
        \/ k \in orphaned
        \/ k \in members[OrgOf[k]].keys /\ entry[k] <= members[OrgOf[k]].ttl

KeyInv == AuthTypeOK /\ ClientInv /\ MemberInv /\ ExplainedInv

LEMMA ClientFields ==
    ASSUME AuthTypeOK, NEW c \in Clients
    PROVE  /\ client[c] \in Client /\ client[c].key \in Keys
           /\ OrgOf[client[c].key] \in Orgs
  BY KeysAssumption DEF AuthTypeOK, Client

LEMMA MovedClient ==
    ASSUME AuthTypeOK, NEW c \in Clients,
           NEW place \in {"idle", "lookup", "readKey", "readOrg", "store", "in"},
           Goto(c, place)
    PROVE  /\ client' \in [Clients -> Client]
           /\ client'[c].pc = place /\ client'[c].key = client[c].key
           /\ \A d \in Clients : d # c => client'[d] = client[d]
  BY ClientFields DEF AuthTypeOK, Goto, Client

\* What explains an entry.
RevokedBy(k) ==
    k \in tainted \/ \E v \in Operators : operator[v] = [pc |-> "key", key |-> k]
NamedBy(k) == k \in tainted \/ ToBeDropped(k)

LEMMA Explained ==
    ExplainedInv <=>
        \A k \in Keys :
            /\ key[k] = "revoked" /\ entry[k] > 0 => RevokedBy(k)
            /\ (/\ org[OrgOf[k]] # "active" /\ entry[k] > 0
                /\ k \in members[OrgOf[k]].keys) => NamedBy(k)
  BY DEF ExplainedInv, RevokedEntryExplained, NamedEntryExplained,
         RevokedBy, NamedBy, ToBeDropped

\* An operator that was idle explained nothing.
LEMMA OperatorIdle ==
    ASSUME NEW v \in Operators, operator[v].pc = "idle", tainted \subseteq tainted',
           \A w \in Operators : w # v => operator'[w] = operator[w], NEW k \in Keys
    PROVE  (RevokedBy(k) => RevokedBy(k)') /\ (NamedBy(k) => NamedBy(k)')
<1>1. operator[v] # [pc |-> "key", key |-> k]
  OBVIOUS
<1>2. operator[v] # [pc |-> "org", org |-> OrgOf[k]] /\ operator[v].pc # "members"
  OBVIOUS
<1>3. RevokedBy(k) => RevokedBy(k)'
  BY <1>1 DEF RevokedBy
<1>4. NamedBy(k) => NamedBy(k)'
  BY <1>2 DEF NamedBy, ToBeDropped
<1> QED BY <1>3, <1>4

\* What a step of a client leaves alone, and the same for the invariant.
LEMMA ClientStep ==
    ASSUME KeyInv, NEW c \in Clients,
           NEW place \in {"idle", "lookup", "readKey", "readOrg", "store", "in"},
           NEW k \in Keys,
           \/ Goto(c, place) /\ k = client[c].key
           \/ client' = [client EXCEPT ![c] = [pc |-> place, key |-> k]],
           outdated' \subseteq Clients, outdated \subseteq outdated' \cup {c},
           UNCHANGED <<key, org>>,
           c \notin outdated' =>
               /\ place \in {"readOrg", "store"} => key[k] = "active"
               /\ place = "store" => org[OrgOf[k]] = "active"
    PROVE  client' \in [Clients -> Client] /\ ClientInv'
<1>1. AuthTypeOK /\ ClientInv
  BY DEF KeyInv
<1>2. /\ client'[c] \in Client /\ client' \in [Clients -> Client]
      /\ client'[c].pc = place /\ client'[c].key = k
      /\ \A d \in Clients : d # c => client'[d] = client[d]
  <2>1. CASE Goto(c, place) /\ k = client[c].key
    BY <1>1, <2>1, MovedClient
  <2>2. CASE client' = [client EXCEPT ![c] = [pc |-> place, key |-> k]]
    <3>1. [pc |-> place, key |-> k] \in Client
      BY DEF Client
    <3> QED BY <1>1, <2>2, <3>1 DEF AuthTypeOK
  <2> QED BY <2>1, <2>2
<1>3. ASSUME NEW d \in Clients, d \notin outdated'
      PROVE  /\ client'[d].pc \in {"readOrg", "store"} => key'[client'[d].key] = "active"
             /\ client'[d].pc = "store" => org'[OrgOf[client'[d].key]] = "active"
  <2>1. CASE d = c
    BY <1>2, <1>3, <2>1
  <2>2. CASE d # c
    BY <1>1, <1>2, <1>3, <2>2 DEF ClientInv
  <2> QED BY <2>1, <2>2
<1> QED BY <1>2, <1>3 DEF ClientInv

\* Steps that leave rows, entries and operators alone keep the explanations.
LEMMA SameExplanations ==
    ASSUME KeyInv, UNCHANGED <<key, org, entry, members, operator, tainted, orphaned>>
    PROVE  MemberInv' /\ ExplainedInv'
  BY DEF KeyInv, MemberInv, ExplainedInv, RevokedEntryExplained, NamedEntryExplained,
         ToBeDropped

LEMMA ReadingStep ==
    ASSUME KeyInv, NEW c \in Clients,
           \/ \E k \in Keys : Arrive(c, k)
           \/ LookupCache(c) \/ ReadKey(c) \/ ReadOrg(c) \/ Leave(c)
    PROVE  KeyInv'
<1>1. AuthTypeOK /\ client[c].key \in Keys /\ outdated \subseteq Clients
  BY ClientFields DEF KeyInv, AuthTypeOK
<1>2. UNCHANGED <<key, org, entry, members, operator, tainted, orphaned>>
  BY DEF Arrive, LookupCache, ReadKey, ReadOrg, Leave, Database, Redis
<1>3. client' \in [Clients -> Client] /\ ClientInv' /\ outdated' \subseteq Clients
  <2>1. ASSUME NEW k \in Keys, Arrive(c, k)
        PROVE  client' \in [Clients -> Client] /\ ClientInv' /\ outdated' \subseteq Clients
    <3>1. client' = [client EXCEPT ![c] = [pc |-> "lookup", key |-> k]] /\ outdated' = outdated
      BY <2>1 DEF Arrive
    <3> QED BY <1>1, <1>2, <3>1, ClientStep
  <2>2. CASE LookupCache(c)
    <3>1. /\ outdated' = outdated
          /\ \E place \in {"in", "readKey"} : Goto(c, place)
      BY <2>2 DEF LookupCache
    <3> QED BY <1>1, <1>2, <3>1, ClientStep
  <2>3. CASE ReadKey(c)
    <3>1. CASE key[client[c].key] = "active"
      <4>1. Goto(c, "readOrg") /\ outdated' = outdated
        BY <2>3, <3>1 DEF ReadKey
      <4> QED BY <1>1, <1>2, <3>1, <4>1, ClientStep
    <3>2. CASE key[client[c].key] # "active"
      <4>1. Goto(c, "idle") /\ outdated' = outdated \ {c}
        BY <2>3, <3>2 DEF ReadKey, Reject
      <4> QED BY <1>1, <1>2, <4>1, ClientStep
    <3> QED BY <3>1, <3>2
  <2>4. CASE ReadOrg(c)
    <3>1. CASE org[OrgOf[client[c].key]] = "active"
      <4>1. Goto(c, "store") /\ outdated' = outdated /\ client[c].pc = "readOrg"
        BY <2>4, <3>1 DEF ReadOrg
      <4>2. c \notin outdated => key[client[c].key] = "active"
        BY <4>1 DEF KeyInv, ClientInv
      <4> QED BY <1>1, <1>2, <3>1, <4>1, <4>2, ClientStep
    <3>2. CASE org[OrgOf[client[c].key]] # "active"
      <4>1. Goto(c, "idle") /\ outdated' = outdated \ {c}
        BY <2>4, <3>2 DEF ReadOrg, Reject
      <4> QED BY <1>1, <1>2, <4>1, ClientStep
    <3> QED BY <3>1, <3>2
  <2>5. CASE Leave(c)
    <3>1. Goto(c, "idle") /\ outdated' = outdated
      BY <2>5 DEF Leave
    <3> QED BY <1>1, <1>2, <3>1, ClientStep
  <2> QED BY <2>1, <2>2, <2>3, <2>4, <2>5
<1>4. MemberInv' /\ ExplainedInv'
  BY <1>2, SameExplanations
<1>5. AuthTypeOK'
  BY <1>1, <1>2, <1>3 DEF AuthTypeOK
<1> QED BY <1>3, <1>4, <1>5 DEF KeyInv

LEMMA StoreStep ==
    ASSUME KeyInv, NEW c \in Clients, Store(c)
    PROVE  KeyInv'
<1> DEFINE k == client[c].key
           o == OrgOf[k]
<1>1. /\ AuthTypeOK /\ ClientInv /\ MemberInv /\ ExplainedInv
      /\ k \in Keys /\ o \in Orgs /\ TTL \in Nat \ {0} /\ client[c].pc = "store"
  BY ClientFields, KeysAssumption DEF KeyInv, Store
<1>2. /\ entry' = [entry EXCEPT ![k] = TTL]
      /\ members' = [members EXCEPT ![o] = [keys |-> members[o].keys \cup {k}, ttl |-> TTL]]
      /\ Goto(c, "in") /\ outdated' = outdated \ {c}
      /\ tainted' = IF c \in outdated THEN tainted \cup {k} ELSE tainted \ {k}
      /\ orphaned' = orphaned \ {k}
      /\ UNCHANGED <<key, org, operator>>
  BY DEF Store, Cached, Database
<1>3. c \notin outdated => key[k] = "active" /\ org[o] = "active"
  BY <1>1 DEF ClientInv
<1>4. k \in KeysOf(o)
  BY <1>1 DEF KeysOf
<1> HIDE DEF o
<1>5. client' \in [Clients -> Client] /\ ClientInv'
  <2>1. outdated' \subseteq Clients /\ outdated \subseteq outdated' \cup {c}
    BY <1>1, <1>2 DEF AuthTypeOK
  <2> QED BY <1>1, <1>2, <2>1, ClientStep
<1> HIDE DEF k
<1>6. AuthTypeOK'
  BY <1>1, <1>2, <1>5 DEF AuthTypeOK
<1>7. /\ \A p \in Orgs : members'[p].keys \subseteq KeysOf(p)
      /\ \A j \in Keys : j # k /\ j \in members'[OrgOf[j]].keys => j \in members[OrgOf[j]].keys
  <2>1. \A p \in Orgs : /\ p # o => members'[p] = members[p]
                        /\ p = o => members'[p].keys = members[p].keys \cup {k}
    BY <1>1, <1>2 DEF AuthTypeOK
  <2>2. \A j \in Keys : OrgOf[j] \in Orgs
    BY KeysAssumption
  <2> QED BY <1>1, <1>4, <2>1, <2>2 DEF MemberInv
<1>8. MemberInv'
  BY <1>1, <1>2, <1>7 DEF MemberInv
<1>9. ASSUME NEW j \in Keys
      PROVE  /\ key'[j] = "revoked" /\ entry'[j] > 0 => RevokedBy(j)'
             /\ (/\ org'[OrgOf[j]] # "active" /\ entry'[j] > 0
                 /\ j \in members'[OrgOf[j]].keys) => NamedBy(j)'
  <2>1. CASE j # k
    <3>1. entry'[j] = entry[j] /\ (j \in tainted => j \in tainted')
      BY <1>1, <1>2, <2>1 DEF AuthTypeOK
    <3>2. /\ key[j] = "revoked" /\ entry[j] > 0 => RevokedBy(j)
          /\ (/\ org[OrgOf[j]] # "active" /\ entry[j] > 0
              /\ j \in members[OrgOf[j]].keys) => NamedBy(j)
      BY <1>1, Explained
    <3>3. (RevokedBy(j) => RevokedBy(j)') /\ (NamedBy(j) => NamedBy(j)')
      BY <1>2, <3>1 DEF RevokedBy, NamedBy, ToBeDropped
    <3> QED BY <1>2, <1>7, <2>1, <3>1, <3>2, <3>3
  <2>2. CASE j = k
    <3>1. CASE c \in outdated
      BY <1>2, <2>2, <3>1 DEF RevokedBy, NamedBy, ToBeDropped
    <3>2. CASE c \notin outdated
      BY <1>2, <1>3, <2>2, <3>2 DEF o
    <3> QED BY <3>1, <3>2
  <2> QED BY <2>1, <2>2
<1>10. ExplainedInv'
  BY <1>9 DEF ExplainedInv, RevokedEntryExplained, NamedEntryExplained,
     RevokedBy, NamedBy, ToBeDropped
<1> QED BY <1>5, <1>6, <1>8, <1>10 DEF KeyInv

-----------------------------------------------------------------------------
\* A withdrawal commits: requests that had read what it withdraws are on record,
\* and the operator that has still to invalidate explains the entries.
LEMMA WithdrawStep ==
    ASSUME KeyInv, NEW v \in Operators, operator[v].pc = "idle",
           NEW op \in Operator, op.pc # "members",
           operator' = [operator EXCEPT ![v] = op],
           UNCHANGED <<entry, members, tainted, orphaned, client>>,
           outdated \subseteq outdated', outdated' \subseteq Clients,
           key' \in [Keys -> {"absent", "active", "revoked"}],
           org' \in [Orgs -> {"active", "disabled", "archived"}],
           \A c \in Clients : c \notin outdated' /\ client[c].pc \in {"readOrg", "store"} =>
               /\ key[client[c].key] = "active" => key'[client[c].key] = "active"
               /\ org[OrgOf[client[c].key]] = "active" => org'[OrgOf[client[c].key]] = "active",
           \A k \in Keys : key'[k] = "revoked" =>
               key[k] = "revoked" \/ op = [pc |-> "key", key |-> k],
           \A k \in Keys : org'[OrgOf[k]] # "active" =>
               org[OrgOf[k]] # "active" \/ op = [pc |-> "org", org |-> OrgOf[k]]
    PROVE  KeyInv'
<1>1. AuthTypeOK /\ ClientInv /\ MemberInv /\ ExplainedInv
  BY DEF KeyInv
<1>2. /\ operator'[v] = op /\ operator' \in [Operators -> Operator]
      /\ \A w \in Operators : w # v => operator'[w] = operator[w]
  BY <1>1 DEF AuthTypeOK
<1>3. AuthTypeOK'
  BY <1>1, <1>2 DEF AuthTypeOK
<1>4. ClientInv'
  BY <1>1 DEF ClientInv
<1>5. MemberInv'
  BY <1>1, <1>2 DEF MemberInv
<1>6. ASSUME NEW j \in Keys
      PROVE  /\ key'[j] = "revoked" /\ entry'[j] > 0 => RevokedBy(j)'
             /\ (/\ org'[OrgOf[j]] # "active" /\ entry'[j] > 0
                 /\ j \in members'[OrgOf[j]].keys) => NamedBy(j)'
  <2>1. (RevokedBy(j) => RevokedBy(j)') /\ (NamedBy(j) => NamedBy(j)')
    BY <1>2, OperatorIdle
  <2>2. /\ op = [pc |-> "key", key |-> j] => RevokedBy(j)'
        /\ op = [pc |-> "org", org |-> OrgOf[j]] => NamedBy(j)'
    BY <1>2 DEF RevokedBy, NamedBy, ToBeDropped
  <2>3. /\ key[j] = "revoked" /\ entry[j] > 0 => RevokedBy(j)
        /\ (/\ org[OrgOf[j]] # "active" /\ entry[j] > 0
            /\ j \in members[OrgOf[j]].keys) => NamedBy(j)
    BY <1>1, Explained
  <2> QED BY <2>1, <2>2, <2>3
<1>7. ExplainedInv'
  BY <1>6 DEF ExplainedInv, RevokedEntryExplained, NamedEntryExplained,
     RevokedBy, NamedBy, ToBeDropped
<1> QED BY <1>3, <1>4, <1>5, <1>7 DEF KeyInv

LEMMA RevokeStep ==
    ASSUME KeyInv, NEW v \in Operators, NEW k \in Keys, Revoke(v, k)
    PROVE  KeyInv'
<1>1. /\ AuthTypeOK /\ operator[v].pc = "idle" /\ key' = [key EXCEPT ![k] = "revoked"]
      /\ operator' = [operator EXCEPT ![v] = [pc |-> "key", key |-> k]]
      /\ UNCHANGED <<org, entry, members, tainted, orphaned, client>>
      /\ outdated' = outdated \cup
           {c \in Clients : client[c].key \in {k} /\ client[c].pc \in {"readOrg", "store"}}
  BY DEF KeyInv, Revoke, PublishKey, Withdrawn, Redis
<1>2. [pc |-> "key", key |-> k] \in Operator
  BY DEF Operator
<1>3. /\ key' \in [Keys -> {"absent", "active", "revoked"}]
      /\ org' \in [Orgs -> {"active", "disabled", "archived"}]
      /\ outdated \subseteq outdated' /\ outdated' \subseteq Clients
      /\ \A j \in Keys : j # k => key'[j] = key[j]
  BY <1>1 DEF AuthTypeOK
<1> QED BY <1>1, <1>2, <1>3, ClientFields, WithdrawStep

LEMMA RotateStep ==
    ASSUME KeyInv, NEW v \in Operators, NEW old \in Keys, NEW new \in Keys,
           Rotate(v, old, new)
    PROVE  KeyInv'
<1>1. /\ AuthTypeOK /\ operator[v].pc = "idle"
      /\ key[old] = "active" /\ key[new] = "absent"
      /\ key' = [key EXCEPT ![new] = "active", ![old] = "revoked"]
      /\ operator' = [operator EXCEPT ![v] = [pc |-> "key", key |-> old]]
      /\ UNCHANGED <<org, entry, members, tainted, orphaned, client>>
      /\ outdated' = outdated \cup
           {c \in Clients : client[c].key \in {old} /\ client[c].pc \in {"readOrg", "store"}}
  BY DEF KeyInv, Rotate, PublishKey, Withdrawn, Redis
<1>2. [pc |-> "key", key |-> old] \in Operator
  BY DEF Operator
<1>3. /\ key' \in [Keys -> {"absent", "active", "revoked"}]
      /\ org' \in [Orgs -> {"active", "disabled", "archived"}]
      /\ outdated \subseteq outdated' /\ outdated' \subseteq Clients
      /\ \A j \in Keys : j # old => key'[j] = key[j] \/ key'[j] = "active"
  BY <1>1 DEF AuthTypeOK
<1>4. \A c \in Clients : c \notin outdated' /\ client[c].pc \in {"readOrg", "store"} =>
         /\ key[client[c].key] = "active" => key'[client[c].key] = "active"
         /\ org[OrgOf[client[c].key]] = "active" => org'[OrgOf[client[c].key]] = "active"
  BY <1>1, <1>3, ClientFields
<1>5. \A j \in Keys :
         /\ key'[j] = "revoked" =>
              key[j] = "revoked" \/ [pc |-> "key", key |-> old] = [pc |-> "key", key |-> j]
         /\ org'[OrgOf[j]] # "active" => org[OrgOf[j]] # "active"
  BY <1>1, <1>3
<1>6. /\ operator[v].pc = "idle" /\ UNCHANGED <<entry, members, tainted, orphaned, client>>
      /\ operator' = [operator EXCEPT ![v] = [pc |-> "key", key |-> old]]
  BY <1>1
<1> QED BY <1>2, <1>3, <1>4, <1>5, <1>6, WithdrawStep

LEMMA SetStatusStep ==
    ASSUME KeyInv, NEW v \in Operators, NEW o \in Orgs,
           NEW s \in {"active", "disabled", "archived"}, SetStatus(v, o, s)
    PROVE  KeyInv'
<1>1. /\ AuthTypeOK /\ operator[v].pc = "idle" /\ org' = [org EXCEPT ![o] = s]
      /\ operator' = [operator EXCEPT ![v] = [pc |-> "org", org |-> o]]
      /\ UNCHANGED <<key, entry, members, tainted, orphaned, client>>
      /\ outdated' = IF org[o] = "active"
           THEN outdated \cup {c \in Clients : client[c].key \in KeysOf(o)
                                  /\ client[c].pc \in {"readOrg", "store"}}
           ELSE outdated
  BY DEF KeyInv, SetStatus, PublishOrg, Withdrawn, Redis
<1>2. [pc |-> "org", org |-> o] \in Operator
  BY DEF Operator
<1>3. /\ key' \in [Keys -> {"absent", "active", "revoked"}]
      /\ org' \in [Orgs -> {"active", "disabled", "archived"}]
      /\ outdated \subseteq outdated' /\ outdated' \subseteq Clients
      /\ \A p \in Orgs : p # o => org'[p] = org[p]
  BY <1>1 DEF AuthTypeOK
<1>4. \A c \in Clients : c \notin outdated' /\ client[c].pc \in {"readOrg", "store"} =>
         (org[OrgOf[client[c].key]] = "active" => org'[OrgOf[client[c].key]] = "active")
  BY <1>1, <1>3, ClientFields DEF KeysOf
<1>5. \A k \in Keys : org'[OrgOf[k]] # "active" =>
         \/ org[OrgOf[k]] # "active"
         \/ [pc |-> "org", org |-> o] = [pc |-> "org", org |-> OrgOf[k]]
  BY <1>3, KeysAssumption
<1> QED BY <1>1, <1>2, <1>3, <1>4, <1>5, WithdrawStep

-----------------------------------------------------------------------------
\* Entries and names disappear, and so does what explained them: an operator that
\* ends, or taints, which only go with the entry.
LEMMA ExpiryStep ==
    ASSUME KeyInv, UNCHANGED <<org, client, outdated>>,
           key' \in [Keys -> {"absent", "active", "revoked"}],
           \A k \in Keys : /\ key[k] = "active" => key'[k] = "active"
                           /\ key'[k] = "revoked" => key[k] = "revoked",
           AuthTypeOK',
           \A o \in Orgs : members'[o].keys \subseteq members[o].keys,
           \A k \in Keys : entry'[k] > 0 => entry[k] > 0 /\ (k \in tainted => k \in tainted'),
           \A w \in Operators : operator'[w].pc = "members" =>
               operator'[w].keys \subseteq KeysOf(operator'[w].org),
           \A w \in Operators, k \in Keys : entry'[k] > 0 =>
               \/ operator'[w] = operator[w]
               \/ k \in tainted'
               \/ /\ operator[w] # [pc |-> "key", key |-> k]
                  /\ \/ k \notin members'[OrgOf[k]].keys
                     \/ /\ operator[w] # [pc |-> "org", org |-> OrgOf[k]]
                        /\ ~(operator[w].pc = "members" /\ k \in operator[w].keys)
                     \/ operator'[w].pc = "members" /\ k \in operator'[w].keys
    PROVE  KeyInv'
<1>1. AuthTypeOK /\ ClientInv /\ MemberInv /\ ExplainedInv
  BY DEF KeyInv
<1>2. ClientInv'
  BY <1>1, ClientFields DEF ClientInv
<1>3. MemberInv'
  BY <1>1 DEF MemberInv
<1>4. ASSUME NEW j \in Keys
      PROVE  /\ key'[j] = "revoked" /\ entry'[j] > 0 => RevokedBy(j)'
             /\ (/\ org'[OrgOf[j]] # "active" /\ entry'[j] > 0
                 /\ j \in members'[OrgOf[j]].keys) => NamedBy(j)'
  <2>1. /\ key[j] = "revoked" /\ entry[j] > 0 => RevokedBy(j)
        /\ (/\ org[OrgOf[j]] # "active" /\ entry[j] > 0
            /\ j \in members[OrgOf[j]].keys) => NamedBy(j)
    BY <1>1, Explained
  <2>2. ASSUME key'[j] = "revoked", entry'[j] > 0 PROVE RevokedBy(j)'
    BY <2>1, <2>2 DEF RevokedBy
  <2>3. ASSUME org'[OrgOf[j]] # "active", entry'[j] > 0, j \in members'[OrgOf[j]].keys
        PROVE  NamedBy(j)'
    <3>1. OrgOf[j] \in Orgs
      BY KeysAssumption
    <3>2. NamedBy(j)
      BY <2>1, <2>3, <3>1
    <3> QED BY <2>3, <3>2 DEF NamedBy, ToBeDropped
  <2> QED BY <2>2, <2>3
<1>5. ExplainedInv'
  BY <1>4 DEF ExplainedInv, RevokedEntryExplained, NamedEntryExplained,
     RevokedBy, NamedBy, ToBeDropped
<1> QED BY <1>2, <1>3, <1>5 DEF KeyInv

LEMMA IdleOperator ==
    ASSUME AuthTypeOK, NEW v \in Operators, Done(v)
    PROVE  /\ operator' \in [Operators -> Operator] /\ operator'[v].pc = "idle"
           /\ \A w \in Operators : w # v => operator'[w] = operator[w]
<1>1. Idle \in Operator /\ Idle.pc = "idle"
  BY DEF Idle, Operator
<1> QED BY <1>1 DEF AuthTypeOK, Done

LEMMA WithoutType ==
    ASSUME AuthTypeOK, NEW ks, Without(ks)
    PROVE  /\ entry' \in [Keys -> 0 .. TTL] /\ tainted' \subseteq Keys
           /\ \A k \in Keys : /\ k \in ks => entry'[k] = 0
                              /\ k \notin ks => entry'[k] = entry[k]
                              /\ k \in tainted /\ k \notin ks => k \in tainted'
  BY KeysAssumption DEF AuthTypeOK, Without

LEMMA InvalidateKeyStep ==
    ASSUME KeyInv, NEW v \in Operators, InvalidateKey(v)
    PROVE  KeyInv'
<1> DEFINE k == operator[v].key
<1>1. /\ AuthTypeOK /\ MemberInv /\ operator[v].pc = "key" /\ Without({k}) /\ Done(v)
      /\ members' = IF entry[k] > 0 THEN [members EXCEPT ![OrgOf[k]].keys = @ \ {k}]
                                    ELSE members
      /\ orphaned' = orphaned \ {k}
      /\ UNCHANGED <<key, org, client, outdated>>
  BY DEF KeyInv, InvalidateKey, Database
<1>2. operator[v] = [pc |-> "key", key |-> k] /\ k \in Keys /\ OrgOf[k] \in Orgs
  BY <1>1, KeysAssumption DEF AuthTypeOK, Operator
<1> HIDE DEF k
<1>3. /\ operator' \in [Operators -> Operator] /\ operator'[v].pc = "idle"
      /\ \A w \in Operators : w # v => operator'[w] = operator[w]
  BY <1>1, IdleOperator
<1>4. /\ entry' \in [Keys -> 0 .. TTL] /\ tainted' \subseteq Keys
      /\ entry'[k] = 0
      /\ \A j \in Keys : j # k => entry'[j] = entry[j] /\ (j \in tainted => j \in tainted')
  BY <1>1, <1>2, WithoutType
<1>5. /\ members' \in [Orgs -> [keys : SUBSET Keys, ttl : 0 .. TTL]]
      /\ \A o \in Orgs : members'[o].keys \subseteq members[o].keys
  BY <1>1, <1>2 DEF AuthTypeOK
<1>6. AuthTypeOK'
  BY <1>1, <1>3, <1>4, <1>5 DEF AuthTypeOK
<1>7. \A w \in Operators : operator'[w].pc = "members" =>
         operator'[w].keys \subseteq KeysOf(operator'[w].org)
  BY <1>1, <1>3 DEF MemberInv
<1>8. \A j \in Keys : j # k =>
         /\ operator[v] # [pc |-> "key", key |-> j]
         /\ operator[v] # [pc |-> "org", org |-> OrgOf[j]]
         /\ operator[v].pc # "members"
  BY <1>2
<1>9. key' \in [Keys -> {"absent", "active", "revoked"}]
  BY <1>6 DEF AuthTypeOK
<1> QED BY <1>1, <1>3, <1>4, <1>5, <1>6, <1>7, <1>8, <1>9, ExpiryStep

LEMMA OrgOperator ==
    ASSUME AuthTypeOK, NEW v \in Operators
    PROVE  /\ operator[v].pc = "org" =>
                /\ operator[v] = [pc |-> "org", org |-> operator[v].org]
                /\ operator[v].org \in Orgs
           /\ operator[v].pc = "members" =>
                operator[v].org \in Orgs /\ operator[v].keys \subseteq Keys
  BY DEF AuthTypeOK, Operator

LEMMA ReadMembersStep ==
    ASSUME KeyInv, NEW v \in Operators, ReadMembers(v)
    PROVE  KeyInv'
<1> DEFINE o == operator[v].org
           op == [pc |-> "members", org |-> o, keys |-> members[o].keys]
<1>1. /\ AuthTypeOK /\ MemberInv /\ operator[v].pc = "org"
      /\ UNCHANGED <<key, org, entry, members, tainted, orphaned, client, outdated>>
      /\ IF members[o].keys = {} THEN Done(v) ELSE operator' = [operator EXCEPT ![v] = op]
  BY DEF KeyInv, ReadMembers, Database, Redis
<1>2. operator[v] = [pc |-> "org", org |-> o] /\ o \in Orgs
  BY <1>1, OrgOperator
<1>3. members[o].keys \subseteq KeysOf(o) /\ members[o].keys \subseteq Keys
  BY <1>1, <1>2 DEF MemberInv, AuthTypeOK
<1>4. op \in Operator /\ op.pc = "members" /\ op.org = o /\ op.keys = members[o].keys
  BY <1>2, <1>3 DEF Operator
<1> HIDE DEF op
<1>5. /\ operator' \in [Operators -> Operator]
      /\ \A w \in Operators : w # v => operator'[w] = operator[w]
      /\ members[o].keys = {} => operator'[v].pc = "idle"
      /\ members[o].keys # {} => operator'[v] = op
  BY <1>1, <1>4, IdleOperator DEF AuthTypeOK
<1>6. AuthTypeOK'
  BY <1>1, <1>5 DEF AuthTypeOK
<1>7. \A w \in Operators : operator'[w].pc = "members" =>
         operator'[w].keys \subseteq KeysOf(operator'[w].org)
  BY <1>1, <1>3, <1>4, <1>5 DEF MemberInv
<1>8. ASSUME NEW j \in Keys
      PROVE  /\ operator[v] # [pc |-> "key", key |-> j] /\ operator[v].pc # "members"
             /\ \/ j \notin members[OrgOf[j]].keys
                \/ operator[v] # [pc |-> "org", org |-> OrgOf[j]]
                \/ operator'[v].pc = "members" /\ j \in operator'[v].keys
  <2>1. operator[v] # [pc |-> "key", key |-> j] /\ operator[v].pc # "members"
    BY <1>2
  <2>2. operator[v] = [pc |-> "org", org |-> OrgOf[j]] => OrgOf[j] = o
    BY <1>2
  <2> QED BY <1>4, <1>5, <2>1, <2>2
<1>9. /\ key' \in [Keys -> {"absent", "active", "revoked"}]
      /\ \A p \in Orgs : members'[p].keys \subseteq members[p].keys
  BY <1>1, <1>6 DEF AuthTypeOK
<1> QED BY <1>1, <1>5, <1>6, <1>7, <1>8, <1>9, ExpiryStep

LEMMA DeleteMembersStep ==
    ASSUME KeyInv, NEW v \in Operators, DeleteMembers(v)
    PROVE  KeyInv'
<1> DEFINE o == operator[v].org
           ks == operator[v].keys
<1>1. /\ AuthTypeOK /\ MemberInv /\ operator[v].pc = "members" /\ Without(ks) /\ Done(v)
      /\ members' = [members EXCEPT ![o] = [keys |-> {}, ttl |-> 0]]
      /\ orphaned' = (orphaned \ ks) \cup {k \in members[o].keys \ ks : entry[k] > 0}
      /\ UNCHANGED <<key, org, client, outdated>>
  BY DEF KeyInv, DeleteMembers, Database
<1>2. o \in Orgs
  BY <1>1, OrgOperator
<1>3. /\ operator' \in [Operators -> Operator] /\ operator'[v].pc = "idle"
      /\ \A w \in Operators : w # v => operator'[w] = operator[w]
  BY <1>1, IdleOperator
<1>4. /\ entry' \in [Keys -> 0 .. TTL] /\ tainted' \subseteq Keys
      /\ \A j \in Keys : /\ j \in ks => entry'[j] = 0
                         /\ j \notin ks => entry'[j] = entry[j] /\ (j \in tainted => j \in tainted')
  BY <1>1, WithoutType
<1>5. /\ members' \in [Orgs -> [keys : SUBSET Keys, ttl : 0 .. TTL]]
      /\ \A p \in Orgs : members'[p].keys \subseteq members[p].keys
  BY <1>1, <1>2, KeysAssumption DEF AuthTypeOK
<1>6. AuthTypeOK'
  BY <1>1, <1>3, <1>4, <1>5 DEF AuthTypeOK
<1>7. \A w \in Operators : operator'[w].pc = "members" =>
         operator'[w].keys \subseteq KeysOf(operator'[w].org)
  BY <1>1, <1>3 DEF MemberInv
<1>8. \A j \in Keys : entry'[j] > 0 =>
         /\ operator[v] # [pc |-> "key", key |-> j]
         /\ operator[v] # [pc |-> "org", org |-> OrgOf[j]]
         /\ ~(operator[v].pc = "members" /\ j \in operator[v].keys)
  BY <1>1, <1>4
<1>9. key' \in [Keys -> {"absent", "active", "revoked"}]
  BY <1>6 DEF AuthTypeOK
<1>10. \A j \in Keys : entry'[j] > 0 => entry[j] > 0 /\ (j \in tainted => j \in tainted')
  BY <1>4
<1> QED BY <1>1, <1>3, <1>5, <1>6, <1>7, <1>8, <1>9, <1>10, ExpiryStep

LEMMA LoseStep ==
    ASSUME KeyInv, NEW v \in Operators, LoseInvalidation(v)
    PROVE  KeyInv'
<1>1. /\ AuthTypeOK /\ MemberInv /\ Done(v)
      /\ tainted' = tainted \cup {k \in Uninvalidated(v) : entry[k] > 0}
      /\ UNCHANGED <<key, org, entry, members, orphaned, client, outdated>>
  BY DEF KeyInv, LoseInvalidation, Database
<1>2. /\ operator' \in [Operators -> Operator] /\ operator'[v].pc = "idle"
      /\ \A w \in Operators : w # v => operator'[w] = operator[w]
  BY <1>1, IdleOperator
<1>3. /\ operator[v].pc = "key" => Uninvalidated(v) = {operator[v].key}
      /\ operator[v].pc \in {"org", "members"} => Uninvalidated(v) = KeysOf(operator[v].org)
      /\ operator[v].pc \in {"idle", "key", "org", "members"}
      /\ operator[v].pc = "idle" => Uninvalidated(v) = {}
      /\ operator[v].pc = "key" => operator[v].key \in Keys
  BY <1>1 DEF Uninvalidated, AuthTypeOK, Operator
<1>4. tainted' \subseteq Keys
  BY <1>1, <1>3 DEF AuthTypeOK, KeysOf
<1>5. AuthTypeOK'
  BY <1>1, <1>2, <1>4 DEF AuthTypeOK
<1>6. \A w \in Operators : operator'[w].pc = "members" =>
         operator'[w].keys \subseteq KeysOf(operator'[w].org)
  BY <1>1, <1>2 DEF MemberInv
<1>7. ASSUME NEW j \in Keys, entry'[j] > 0, j \notin tainted'
      PROVE  /\ operator[v] # [pc |-> "key", key |-> j]
             /\ operator[v] # [pc |-> "org", org |-> OrgOf[j]]
             /\ ~(operator[v].pc = "members" /\ j \in operator[v].keys)
  <2>1. j \notin Uninvalidated(v)
    BY <1>1, <1>7
  <2>2. j \in KeysOf(OrgOf[j])
    BY DEF KeysOf
  <2>3. operator[v].pc = "members" => operator[v].keys \subseteq Uninvalidated(v)
    BY <1>1, <1>3 DEF MemberInv
  <2> QED BY <1>3, <2>1, <2>2, <2>3
<1>8. /\ key' \in [Keys -> {"absent", "active", "revoked"}]
      /\ \A p \in Orgs : members'[p].keys \subseteq members[p].keys
  BY <1>1, <1>5 DEF AuthTypeOK
<1> QED BY <1>1, <1>2, <1>5, <1>6, <1>7, <1>8, ExpiryStep

LEMMA TickStep ==
    ASSUME KeyInv, Tick
    PROVE  KeyInv'
<1>1. /\ AuthTypeOK /\ MemberInv
      /\ entry' = [k \in Keys |-> IF entry[k] > 0 THEN entry[k] - 1 ELSE 0]
      /\ tainted' = {k \in tainted : entry[k] > 1}
      /\ orphaned' = {k \in orphaned : entry[k] > 1}
      /\ members' = [o \in Orgs |-> IF members[o].ttl > 1
                                      THEN [members[o] EXCEPT !.ttl = @ - 1]
                                      ELSE [keys |-> {}, ttl |-> 0]]
      /\ UNCHANGED <<key, org, client, operator, outdated>>
  BY DEF KeyInv, Tick, Database
<1>2. entry \in [Keys -> 0 .. TTL] /\ members \in [Orgs -> [keys : SUBSET Keys, ttl : 0 .. TTL]]
  BY <1>1 DEF AuthTypeOK
<1>3. /\ entry' \in [Keys -> 0 .. TTL]
      /\ \A k \in Keys : entry'[k] > 0 => entry[k] > 1
  BY <1>1, <1>2, KeysAssumption
<1>4. /\ members' \in [Orgs -> [keys : SUBSET Keys, ttl : 0 .. TTL]]
      /\ \A o \in Orgs : members'[o].keys \subseteq members[o].keys
  BY <1>1, <1>2, KeysAssumption
<1>5. AuthTypeOK'
  BY <1>1, <1>3, <1>4 DEF AuthTypeOK
<1>6. \A w \in Operators : operator'[w].pc = "members" =>
         operator'[w].keys \subseteq KeysOf(operator'[w].org)
  BY <1>1 DEF MemberInv
<1>7. \A k \in Keys : entry'[k] > 0 => entry[k] > 0 /\ (k \in tainted => k \in tainted')
  BY <1>1, <1>2, <1>3
<1>8. key' \in [Keys -> {"absent", "active", "revoked"}]
  BY <1>5 DEF AuthTypeOK
<1>9. \A w \in Operators : operator'[w] = operator[w]
  BY <1>1
<1> QED BY <1>1, <1>4, <1>5, <1>6, <1>7, <1>8, <1>9, ExpiryStep

LEMMA CreateKeyStep ==
    ASSUME KeyInv, NEW k \in Keys, CreateKey(k)
    PROVE  KeyInv'
<1>1. /\ AuthTypeOK /\ MemberInv /\ key[k] = "absent" /\ key' = [key EXCEPT ![k] = "active"]
      /\ UNCHANGED <<org, entry, members, tainted, orphaned, client, operator, outdated>>
  BY DEF KeyInv, CreateKey, Redis
<1>2. /\ key' \in [Keys -> {"absent", "active", "revoked"}]
      /\ \A j \in Keys : /\ key[j] = "active" => key'[j] = "active"
                         /\ key'[j] = "revoked" => key[j] = "revoked"
  BY <1>1 DEF AuthTypeOK
<1>3. AuthTypeOK'
  BY <1>1, <1>2 DEF AuthTypeOK
<1>4. \A w \in Operators : operator'[w].pc = "members" =>
         operator'[w].keys \subseteq KeysOf(operator'[w].org)
  BY <1>1 DEF MemberInv
<1> QED BY <1>1, <1>2, <1>3, <1>4, ExpiryStep

-----------------------------------------------------------------------------
LEMMA KeyStart == AuthInit => KeyInv
<1> SUFFICES ASSUME AuthInit PROVE KeyInv
  OBVIOUS
<1>1. /\ \A k \in Keys : entry[k] = 0
      /\ \A c \in Clients : client[c].pc = "idle" /\ client[c] \in Client
      /\ \A v \in Operators : operator[v].pc = "idle"
  BY KeysAssumption DEF AuthInit, Client, Idle
<1>2. AuthTypeOK
  <2>1. Idle \in Operator
    BY DEF Idle, Operator
  <2>2. client \in [Clients -> Client]
    BY <1>1 DEF AuthInit
  <2>3. [keys |-> {}, ttl |-> 0] \in [keys : SUBSET Keys, ttl : 0 .. TTL]
    BY KeysAssumption
  <2> QED BY <2>1, <2>2, <2>3, KeysAssumption DEF AuthInit, AuthTypeOK
<1>3. ClientInv
  BY <1>1 DEF ClientInv
<1>4. MemberInv
  BY <1>1 DEF MemberInv, AuthInit
<1>5. ExplainedInv
  BY <1>1 DEF ExplainedInv, RevokedEntryExplained, NamedEntryExplained
<1> QED BY <1>2, <1>3, <1>4, <1>5 DEF KeyInv

LEMMA KeyStep == KeyInv /\ [AuthNext]_authVars => KeyInv'
<1> SUFFICES ASSUME KeyInv, [AuthNext]_authVars PROVE KeyInv'
  OBVIOUS
<1>1. ASSUME NEW c \in Clients,
             (\E k \in Keys : Arrive(c, k)) \/ Verify(c) \/ Leave(c)
      PROVE  KeyInv'
  BY <1>1, ReadingStep, StoreStep DEF Verify
<1>2. ASSUME NEW v \in Operators, Administer(v) PROVE KeyInv'
  BY <1>2, RevokeStep, RotateStep, SetStatusStep DEF Administer
<1>3. ASSUME NEW v \in Operators, Invalidate(v) \/ LoseInvalidation(v) PROVE KeyInv'
  BY <1>3, InvalidateKeyStep, ReadMembersStep, DeleteMembersStep, LoseStep DEF Invalidate
<1>4. CASE UNCHANGED authVars
  BY <1>4, SameExplanations DEF authVars, KeyInv, AuthTypeOK, ClientInv
<1> QED BY <1>1, <1>2, <1>3, <1>4, CreateKeyStep, TickStep DEF AuthNext, AuthStep

\* AuthTypeOK: the types of key verification.
THEOREM AuthTypeCorrect == AuthSpec => []AuthTypeOK
<1>1. KeyInv => AuthTypeOK
  BY DEF KeyInv
<1> QED BY <1>1, KeyStart, KeyStep, PTL DEF AuthSpec

-----------------------------------------------------------------------------
\* An entry stays in the set of its Organization until it is an orphan.
LEMMA PlacedStep ==
    ASSUME KeyInv, PlacedInv, [AuthNext]_authVars
    PROVE  PlacedInv'
<1>1. /\ AuthTypeOK /\ MemberInv
      /\ entry \in [Keys -> 0 .. TTL]
      /\ members \in [Orgs -> [keys : SUBSET Keys, ttl : 0 .. TTL]]
      /\ \A k \in Keys : OrgOf[k] \in Orgs
      /\ TTL \in Nat \ {0}
  BY KeysAssumption DEF KeyInv, AuthTypeOK
<1>2. CASE UNCHANGED <<entry, members, orphaned>>
  BY <1>2 DEF PlacedInv
\* A store refreshes the set together with the entry.
<1>3. ASSUME NEW c \in Clients, Store(c) PROVE PlacedInv'
  <2> DEFINE k == client[c].key
             o == OrgOf[k]
  <2>1. /\ k \in Keys /\ o \in Orgs
        /\ entry' = [entry EXCEPT ![k] = TTL]
        /\ members' = [members EXCEPT ![o] = [keys |-> members[o].keys \cup {k}, ttl |-> TTL]]
        /\ orphaned' = orphaned \ {k}
    BY <1>1, <1>3, ClientFields DEF Store, Cached
  <2>2. o = OrgOf[k]
    OBVIOUS
  <2> HIDE DEF k, o
  <2>3. ASSUME NEW j \in Keys, entry'[j] > 0
        PROVE  \/ j \in orphaned'
               \/ j \in members'[OrgOf[j]].keys /\ entry'[j] <= members'[OrgOf[j]].ttl
    <3>1. CASE j = k
      <4>1. members'[o].keys = members[o].keys \cup {k} /\ members'[o].ttl = TTL
        BY <1>1, <2>1
      <4>2. entry'[k] = TTL
        BY <1>1, <2>1
      <4> QED BY <1>1, <2>2, <3>1, <4>1, <4>2
    <3>2. CASE j # k
      <4>1. entry'[j] = entry[j] /\ entry[j] \in 0 .. TTL
        BY <1>1, <2>1, <3>2
      <4>2. \/ j \in orphaned
            \/ j \in members[OrgOf[j]].keys /\ entry[j] <= members[OrgOf[j]].ttl
        BY <2>3, <4>1 DEF PlacedInv
      <4>3. CASE OrgOf[j] = o
        <5>1. members'[o].keys = members[o].keys \cup {k} /\ members'[o].ttl = TTL
          BY <1>1, <2>1
        <5> QED BY <1>1, <2>1, <3>2, <4>1, <4>2, <4>3, <5>1
      <4>4. CASE OrgOf[j] # o
        <5>1. members'[OrgOf[j]] = members[OrgOf[j]]
          BY <1>1, <2>1, <4>4
        <5> QED BY <2>1, <3>2, <4>1, <4>2, <5>1
      <4> QED BY <4>3, <4>4
    <3> QED BY <3>1, <3>2
  <2> QED BY <2>3 DEF PlacedInv
\* The invalidation of a key takes the hash out of the set with its entry.
<1>4. ASSUME NEW v \in Operators, InvalidateKey(v) PROVE PlacedInv'
  <2> DEFINE k == operator[v].key
  <2>1. /\ operator[v].pc = "key" /\ Without({k}) /\ orphaned' = orphaned \ {k}
        /\ members' = IF entry[k] > 0 THEN [members EXCEPT ![OrgOf[k]].keys = @ \ {k}]
                                      ELSE members
    BY <1>4 DEF InvalidateKey
  <2>2. k \in Keys
    BY <1>1, <2>1 DEF AuthTypeOK, Operator
  <2> HIDE DEF k
  <2>3. entry'[k] = 0 /\ \A j \in Keys : j # k => entry'[j] = entry[j]
    BY <2>1, <2>2 DEF Without
  <2>4. ASSUME NEW j \in Keys, entry'[j] > 0
        PROVE  \/ j \in orphaned'
               \/ j \in members'[OrgOf[j]].keys /\ entry'[j] <= members'[OrgOf[j]].ttl
    <3>1. j # k /\ entry'[j] = entry[j]
      BY <2>3, <2>4
    <3>2. \/ j \in orphaned
          \/ j \in members[OrgOf[j]].keys /\ entry[j] <= members[OrgOf[j]].ttl
      BY <2>4, <3>1 DEF PlacedInv
    <3>3. /\ j \in members[OrgOf[j]].keys => j \in members'[OrgOf[j]].keys
          /\ members'[OrgOf[j]].ttl = members[OrgOf[j]].ttl
      BY <1>1, <2>1, <2>2, <3>1
    <3> QED BY <2>1, <3>1, <3>2, <3>3
  <2> QED BY <2>4 DEF PlacedInv
\* That of an organization makes orphans of what it does not delete.
<1>5. ASSUME NEW v \in Operators, DeleteMembers(v) PROVE PlacedInv'
  <2> DEFINE o == operator[v].org
             ks == operator[v].keys
  <2>1. /\ operator[v].pc = "members" /\ Without(ks)
        /\ orphaned' = (orphaned \ ks) \cup {k \in members[o].keys \ ks : entry[k] > 0}
        /\ members' = [members EXCEPT ![o] = [keys |-> {}, ttl |-> 0]]
    BY <1>5 DEF DeleteMembers
  <2>2. o \in Orgs
    BY <1>1, <2>1, OrgOperator
  <2> HIDE DEF o, ks
  <2>3. ASSUME NEW j \in Keys, entry'[j] > 0
        PROVE  \/ j \in orphaned'
               \/ j \in members'[OrgOf[j]].keys /\ entry'[j] <= members'[OrgOf[j]].ttl
    <3>1. j \notin ks /\ entry'[j] = entry[j] /\ entry[j] > 0
      BY <2>1, <2>3 DEF Without
    <3>2. \/ j \in orphaned
          \/ j \in members[OrgOf[j]].keys /\ entry[j] <= members[OrgOf[j]].ttl
      BY <3>1 DEF PlacedInv
    <3>3. OrgOf[j] # o => members'[OrgOf[j]] = members[OrgOf[j]]
      BY <1>1, <2>1
    <3> QED BY <2>1, <3>1, <3>2, <3>3
  <2> QED BY <2>3 DEF PlacedInv
\* Time passes for both.
<1>6. ASSUME Tick PROVE PlacedInv'
  <2>1. /\ entry' = [k \in Keys |-> IF entry[k] > 0 THEN entry[k] - 1 ELSE 0]
        /\ orphaned' = {k \in orphaned : entry[k] > 1}
        /\ members' = [o \in Orgs |-> IF members[o].ttl > 1
                                        THEN [members[o] EXCEPT !.ttl = @ - 1]
                                        ELSE [keys |-> {}, ttl |-> 0]]
    BY <1>6 DEF Tick
  <2>2. ASSUME NEW j \in Keys, entry'[j] > 0
        PROVE  \/ j \in orphaned'
               \/ j \in members'[OrgOf[j]].keys /\ entry'[j] <= members'[OrgOf[j]].ttl
    <3> DEFINE m == members[OrgOf[j]]
    <3>1. entry[j] \in 0 .. TTL /\ m \in [keys : SUBSET Keys, ttl : 0 .. TTL]
      BY <1>1
    <3>2. entry[j] > 1 /\ entry'[j] = entry[j] - 1
      BY <1>1, <2>1, <2>2, <3>1
    <3>3. j \in orphaned \/ (j \in m.keys /\ entry[j] <= m.ttl)
      BY <3>1, <3>2 DEF PlacedInv
    <3>4. members'[OrgOf[j]] = IF m.ttl > 1 THEN [m EXCEPT !.ttl = @ - 1]
                               ELSE [keys |-> {}, ttl |-> 0]
      BY <1>1, <2>1
    <3> HIDE DEF m
    <3>5. ASSUME j \in m.keys, entry[j] <= m.ttl
          PROVE  j \in members'[OrgOf[j]].keys /\ entry'[j] <= members'[OrgOf[j]].ttl
      <4>1. m.ttl > 1 /\ m.ttl \in 0 .. TTL
        BY <1>1, <3>1, <3>2, <3>5
      <4>2. members'[OrgOf[j]].keys = m.keys /\ members'[OrgOf[j]].ttl = m.ttl - 1
        BY <3>1, <3>4, <4>1
      <4> QED BY <1>1, <3>1, <3>2, <3>5, <4>1, <4>2
    <3> QED BY <2>1, <3>2, <3>3, <3>5
  <2> QED BY <2>2 DEF PlacedInv
<1> QED BY <1>2, <1>3, <1>4, <1>5, <1>6
  DEF AuthNext, AuthStep, Arrive, Verify, LookupCache, ReadKey, ReadOrg, Leave, CreateKey,
      Administer, Revoke, Rotate, SetStatus, Invalidate, ReadMembers, LoseInvalidation, Redis,
      authVars

\* WithdrawnKeysExplained: a withdrawn key is in the cache only while its
\* invalidation is to come, was lost, or was overtaken by an older verification,
\* or because an overlapping invalidation of its Organization deleted the set
\* that named its entry.
THEOREM CacheIsExplained == AuthSpec => []WithdrawnKeysExplained
<1> DEFINE CacheInv == KeyInv /\ PlacedInv
<1>1. ASSUME CacheInv PROVE WithdrawnKeysExplained
  <2>1. RevokedEntryExplained /\ NamedEntryExplained /\ PlacedInv
    BY <1>1 DEF KeyInv, ExplainedInv
  <2> QED BY <2>1
    DEF WithdrawnKeysExplained, WithdrawnEntryExplained, NamedEntryExplained, PlacedInv
<1>2. AuthInit => CacheInv
  <2>1. ASSUME AuthInit PROVE PlacedInv
    BY <2>1 DEF AuthInit, PlacedInv
  <2> QED BY <2>1, KeyStart
<1>3. CacheInv /\ [AuthNext]_authVars => CacheInv'
  BY KeyStep, PlacedStep
<1> HIDE DEF CacheInv
<1> QED BY <1>1, <1>2, <1>3, PTL DEF AuthSpec
=============================================================================
