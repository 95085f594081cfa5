------------------------------- MODULE TurnMC -------------------------------
(***************************************************************************)
(* Components that share no state, checked side by side: a behaviour picks *)
(* one of them and only that one steps, so their state spaces add up       *)
(* instead of multiplying.                                                 *)
(***************************************************************************)
EXTENDS RecoveryBatch, ChatTurn, EvidenceRepair, SourceReview, TLC

CONSTANTS turn1, turn2, search1, search2, search3, api1, api2,
          duty1, duty2, law, act, law1, law2, act1, amendment

TwoInTheFirstTurn == search1 :> turn1 @@ search2 :> turn1 @@ search3 :> turn2
OneTurnEach == turn1 :> api1 @@ turn2 :> api2

SecondRestsOnFirst == duty1 :> {} @@ duty2 :> {duty1}
LawInTwoReadings == law1 :> law @@ law2 :> law @@ act1 :> act
OfTheLaw == amendment :> law
ByTheAct == amendment :> act

VARIABLE part

Init ==
    /\ part \in {"recovery", "turn", "repair", "review"}
    /\ RecoveryInit
    \* The values in which a part that does not step may start make no difference.
    /\ TurnInit /\ (part # "turn" => ~streamed)
    /\ RepairInit /\ (part # "repair" => records = {} /\ context = {})
    \* Both readings of the law are alike, and so are both identities.
    /\ law2 \notin context
    /\ ReviewInit /\ derived[1].identity = CHOOSE i \in Identities : TRUE

Next ==
    /\ \/ /\ part = "recovery" /\ RecoveryNext
          /\ UNCHANGED <<turnVars, repairVars, linkVars>>
       \/ /\ part = "turn" /\ TurnNext
          /\ UNCHANGED <<recoveryVars, repairVars, linkVars>>
       \/ /\ part = "repair" /\ RepairNext
          /\ UNCHANGED <<recoveryVars, turnVars, linkVars>>
       \/ /\ part = "review" /\ ReviewNext
          /\ UNCHANGED <<recoveryVars, turnVars, repairVars>>
    /\ UNCHANGED part

Spec == Init /\ [][Next]_<<part, recoveryVars, turnVars, repairVars,
                           linkVars>>

TypeOK == RecoveryTypeOK /\ TurnTypeOK /\ RepairTypeOK /\ ReviewTypeOK
=============================================================================
