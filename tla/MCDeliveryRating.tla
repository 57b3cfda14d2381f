-------------------------- MODULE MCDeliveryRating --------------------------
(* Instances of DeliveryRating for TLC.                                    *)
EXTENDS DeliveryRating

CONSTANTS o1, o2

\* Every press is about the first order.
AllOnFirst == [c \in Presses |-> o1]
============================================================================
