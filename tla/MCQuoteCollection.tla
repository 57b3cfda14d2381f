------------------------- MODULE MCQuoteCollection -------------------------
(* Instances of QuoteCollection for TLC.                                   *)
EXTENDS QuoteCollection, TLC

CONSTANTS g1, g2, r1, r2

\* Two replies to one goal, one reply.
PairToOne == r1 :> g1 @@ r2 :> g1
SoleReply == r1 :> g1
============================================================================
