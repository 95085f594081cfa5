-------------------------- MODULE IndexLifecycleMC --------------------------
(* Small instances of IndexLifecycle for TLC.                               *)
EXTENDS IndexLifecycle, TLC

CONSTANTS d1, d2, b1, b2, b3, r1, r2

MCNoDoc == {}
MCOneDoc == {d1}
MCTwoDocs == {d1, d2}
MCTwoBuilds == {b1, b2}
MCThreeBuilds == {b1, b2, b3}
MCOneRequest == {r1}
MCTwoRequests == {r1, r2}

\* Builds and requests are interchangeable in every safety property.
MCSymmetry == Permutations(MCThreeBuilds) \cup Permutations(MCTwoRequests)
=============================================================================
