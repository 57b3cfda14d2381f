------------------------- MODULE MCApprovalPayment -------------------------
(* Instances of ApprovalPayment for TLC.                                   *)
EXTENDS ApprovalPayment, TLC

CONSTANTS g1, g2, c1, c2, c3, c4

\* The budget pays for either goal, not for both.
RacePrice == g1 :> 2 @@ g2 :> 3

\* c1, c2 and c3 are about g1, c4 is about g2.
RejectGoalOf == c1 :> g1 @@ c3 :> g1 @@ c4 :> g2
TwiceGoalOf == c1 :> g1 @@ c2 :> g1 @@ c4 :> g2
PairGoalOf == c1 :> g1 @@ c4 :> g2
DoubleGoalOf == c1 :> g1 @@ c2 :> g1
SoloGoalOf == c1 :> g1
SoloPrice == g1 :> 2
============================================================================
