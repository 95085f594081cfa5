---------------------------- MODULE StoredStateMC ----------------------------
(***************************************************************************)
(* Components that share no state, checked side by side: a behaviour picks *)
(* one of them and only that one steps, so their state spaces add up       *)
(* instead of multiplying.                                                 *)
(***************************************************************************)
EXTENDS VerifiedKeys, GenerationRequests, ProviderSpending, EmbeddingCache,
        SourceHistory, TLC

CONSTANTS acme, call1, call2, call3, ref1, ref2

AllOfAcme == [k \in Keys |-> acme]
TwoUnderOneReference == call1 :> ref1 @@ call2 :> ref1 @@ call3 :> ref2
SecondCostsTwo == call1 :> 1 @@ call2 :> 2 @@ call3 :> 1

\* Documents and editors are interchangeable.
Interchangeable == Permutations(Sources) \cup Permutations(Editors)

VARIABLE part

Init ==
    /\ part \in {"keys", "generations", "spending", "cache", "history"}
    /\ AuthInit /\ GenInit /\ SpendingInit /\ CacheInit /\ HistoryInit

Next ==
    /\ \/ /\ part = "keys" /\ AuthNext
          /\ UNCHANGED <<genVars, spendingVars, cacheVars, historyVars>>
       \/ /\ part = "generations" /\ GenNext
          /\ UNCHANGED <<authVars, spendingVars, cacheVars, historyVars>>
       \/ /\ part = "spending" /\ SpendingNext
          /\ UNCHANGED <<authVars, genVars, cacheVars, historyVars>>
       \/ /\ part = "cache" /\ CacheNext
          /\ UNCHANGED <<authVars, genVars, spendingVars, historyVars>>
       \/ /\ part = "history" /\ HistoryNext
          /\ UNCHANGED <<authVars, genVars, spendingVars, cacheVars>>
    /\ UNCHANGED part

Spec == Init /\ [][Next]_<<part, authVars, genVars, spendingVars, cacheVars,
                           historyVars>>

TypeOK ==
    /\ AuthTypeOK /\ GenTypeOK /\ SpendingTypeOK /\ CacheTypeOK
    /\ HistoryTypeOK
=============================================================================
