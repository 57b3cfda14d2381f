-------------------------- MODULE DeliveryPromise --------------------------
(***************************************************************************)
(* What core/delivery.py and core/rating.py promise together: an order is  *)
(* delivered or it fails, once; a delivered order gets one rating row; and *)
(* only a rated order is completed.                                        *)
(***************************************************************************)
EXTENDS Integers

CONSTANT Orders

VARIABLES
  outcome,  \* outcome[o]: "open", "delivered", "failed" or "completed"
  ratings   \* ratings[o]: the number of o's rows in vendor_ratings

promiseVars == <<outcome, ratings>>

PromiseInit ==
  /\ outcome = [o \in Orders |-> "open"]
  /\ ratings = [o \in Orders |-> 0]

\* Delivered or failed, never both.
Settle(o) ==
  /\ outcome[o] = "open"
  /\ \E r \in {"delivered", "failed"} : outcome' = [outcome EXCEPT ![o] = r]
  /\ UNCHANGED ratings

CreateRating(o) ==
  /\ outcome[o] = "delivered" /\ ratings[o] = 0
  /\ ratings' = [ratings EXCEPT ![o] = 1]
  /\ UNCHANGED outcome

Complete(o) ==
  /\ outcome[o] = "delivered" /\ ratings[o] = 1
  /\ outcome' = [outcome EXCEPT ![o] = "completed"]
  /\ UNCHANGED ratings

PromiseNext == \E o \in Orders : Settle(o) \/ CreateRating(o) \/ Complete(o)

PromiseSpec == PromiseInit /\ [][PromiseNext]_promiseVars
============================================================================
