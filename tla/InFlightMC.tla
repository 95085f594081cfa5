----------------------------- MODULE InFlightMC -----------------------------
(***************************************************************************)
(* Components that share no state, checked side by side: a behaviour picks *)
(* one of them and only that one steps, so their state spaces add up       *)
(* instead of multiplying.                                                 *)
(***************************************************************************)
EXTENDS VerifiedKeys, SingleFlight, CorpusIntake, TLC

CONSTANTS acme, pdf1, text

AllOfAcme == [k \in Keys |-> acme]

\* Two documents are coalesced into one batch, or one document is reprocessed
\* while two uploads race for its content.
TwoContents == \E d \in Uploads : content[d] # content[pdf1]

VARIABLE part

Init ==
    /\ part \in {"keys", "flight", "corpus"}
    /\ AuthInit /\ FlightInit
    /\ IntakeInit /\ content[pdf1] = text
    \* The contents of uploads that never come make no difference.
    /\ part # "corpus" => ~TwoContents

Next ==
    /\ \/ /\ part = "keys" /\ AuthNext
          /\ UNCHANGED <<flightVars, intakeVars>>
       \/ /\ part = "flight" /\ FlightNext
          /\ UNCHANGED <<authVars, intakeVars>>
       \/ /\ part = "corpus" /\ IntakeNext /\ (TwoContents => reprocess' = reprocess)
          /\ UNCHANGED <<authVars, flightVars>>
    /\ UNCHANGED part

\* Nothing of a component that was not picked is ever under way, so its
\* fairness asks for nothing.
Spec ==
    /\ Init /\ [][Next]_<<part, authVars, flightVars, intakeVars>>
    /\ AuthFairness /\ FlightFairness /\ IntakeFairness
=============================================================================
