--------------------------- MODULE DeliveryRating ---------------------------
(***************************************************************************)
(* From a paid order to a completed goal: core/delivery.py, core/rating.py *)
(* and worker/delivery_tracker.py.                                         *)
(*                                                                         *)
(* An actor is one delivery of a button press on the WhatsApp webhook (the *)
(* vendor confirms or denies a delivery, the employee rates it) or the     *)
(* worker's poll.  Presses may be repeated, arrive at any time, and run    *)
(* concurrently.  Every goal here has one order, and goes by its name.     *)
(*                                                                         *)
(* A call of transition_goal_state is three steps, as in ApprovalPayment.  *)
(* The vendor's score is left out: a tap reads and writes it between its   *)
(* first step and its first transition, and nothing here depends on it.    *)
(***************************************************************************)
EXTENDS Integers, GoalStates

CONSTANTS
  Orders,
  Confirms, Denials, Taps,  \* button presses
  Worker,
  OrderOf,    \* OrderOf[c]: the order that press c is about
  Courier,    \* TRUE: is_delivered_fn is injected; main.py does not
  MaxFaults   \* bound: how many commands raise or processes die

Presses == Confirms \cup Denials \cup Taps
Actors == Presses \cup {Worker}

ASSUME DeliveryAssumption ==
  /\ Confirms \cap Denials = {} /\ Taps \cap (Confirms \cup Denials) = {}
  /\ Worker \notin Presses
  /\ Orders # {}
  /\ OrderOf \in [Presses -> Orders]
  /\ Courier \in BOOLEAN
  /\ MaxFaults \in Nat

VARIABLES
  status,       \* status[o]: goals.status
  stateLock,    \* stateLock[o]: the key goal_lock:{goal} exists
  orderStatus,  \* orderStatus[o]: orders.status
  ratings,      \* ratings[o]: the number of o's rows in vendor_ratings
  ratingSent,   \* orders with rating_sent
  tapped,       \* orders whose rating has an overall_rating
  pc, tx,       \* where each actor is, and how far in a transition
  at,           \* at[a]: the order a works on
  polling,      \* the worker is in the second half of its poll
  todo, due,    \* orders left in the first half, and in the second
  faults        \* bound: how many faults there were

goalVars == <<status, stateLock>>
rowVars == <<orderStatus, ratings, ratingSent, tapped>>
jobVars == <<polling, todo, due>>
vars == <<goalVars, rowVars, pc, tx, at, jobVars, faults>>

\* The calls of transition_goal_state, by name, and their arguments.
Sites == {"begin", "deliver", "deny", "rate", "complete"}
From(a) ==
  CASE pc[a] = "begin" -> "ordered"
    [] pc[a] \in {"deliver", "deny"} -> "in_transit"
    [] pc[a] = "rate" -> "delivered"
    [] pc[a] = "complete" -> "rated"
To(a) ==
  CASE pc[a] = "begin" -> "in_transit"
    [] pc[a] = "deliver" -> "delivered"
    [] pc[a] = "deny" -> "delivery_failed"
    [] pc[a] = "rate" -> "rated"
    [] pc[a] = "complete" -> "completed"

Idle == {"unsent", "sleep", "done"}
Commands == {"mark_transit", "mark_delivered", "create_rating", "mark_sent",
             "mark_failed", "tap", "list_placed", "list_transit"}
Labels == Sites \cup Idle \cup Commands \cup {"advance", "poll"}

Init ==
  /\ status = [o \in Orders |-> "ordered"]
  /\ stateLock = [o \in Orders |-> FALSE]
  /\ orderStatus = [o \in Orders |-> "placed"]
  /\ ratings = [o \in Orders |-> 0]
  /\ ratingSent = {} /\ tapped = {}
  /\ pc = [a \in Actors |-> IF a = Worker THEN "sleep" ELSE "unsent"]
  /\ tx = [a \in Actors |-> "lock"]
  /\ at \in [Actors -> Orders] /\ \A c \in Presses : at[c] = OrderOf[c]
  /\ polling = FALSE /\ todo = {} /\ due = {}
  /\ faults = 0

----------------------------------------------------------------------------
(* Control helpers *)

At(a, l) == pc[a] = l /\ tx[a] = "lock"

Goto(a, l) == pc' = [pc EXCEPT ![a] = l]

\* begin_transit is all that the first half of the poll does, and what
\* mark_delivered does first.
AfterTransit(a) ==
  Goto(a, IF a = Worker /\ ~polling THEN "advance" ELSE "deliver")

\* The handler ends; the worker goes on with the next order.
Finish(a) ==
  Goto(a, IF a # Worker THEN "done" ELSE IF polling THEN "poll" ELSE "advance")

\* An exception: one bad order does not stop the sweep, a failed listing does.
Raise(a) ==
  IF pc[a] \in {"list_placed", "list_transit"} THEN Goto(a, "sleep") ELSE Finish(a)

----------------------------------------------------------------------------
(* transition_goal_state, for every call site *)

\* Wrong variant: a delivery that was handled already is handled again.
AfterDeliverIgnored(a, moved) == Goto(a, "mark_delivered")

AfterDeliver(a, moved) == IF moved THEN Goto(a, "mark_delivered") ELSE Finish(a)

After(a, moved) ==
  \/ /\ pc[a] = "begin"
     /\ IF moved THEN Goto(a, "mark_transit") ELSE AfterTransit(a)
  \/ pc[a] = "deliver" /\ AfterDeliver(a, moved)
  \/ pc[a] = "deny" /\ IF moved THEN Goto(a, "mark_failed") ELSE Finish(a)
  \/ pc[a] = "rate" /\ IF moved THEN Goto(a, "complete") ELSE Finish(a)
  \/ pc[a] = "complete" /\ Finish(a)

TakeLock(a) ==
  LET o == at[a] IN
  /\ pc[a] \in Sites /\ tx[a] = "lock"
  /\ \/ /\ ~stateLock[o]
        /\ stateLock' = [stateLock EXCEPT ![o] = TRUE]
        /\ tx' = [tx EXCEPT ![a] = "cas"]
        /\ UNCHANGED pc
     \/ /\ stateLock[o]
        /\ After(a, FALSE)
        /\ UNCHANGED <<stateLock, tx>>
  /\ UNCHANGED <<status, rowVars, at, jobVars, faults>>

Matches(a) == status[at[a]] = From(a)

CompareAndSet(a) ==
  /\ pc[a] \in Sites /\ tx[a] = "cas"
  /\ \/ /\ Matches(a)
        /\ status' = [status EXCEPT ![at[a]] = To(a)]
        /\ tx' = [tx EXCEPT ![a] = "won"]
     \/ /\ ~Matches(a)
        /\ tx' = [tx EXCEPT ![a] = "lost"]
        /\ UNCHANGED status
  /\ UNCHANGED <<stateLock, rowVars, pc, at, jobVars, faults>>

GiveLock(a) ==
  /\ tx[a] \in {"won", "lost"}
  /\ stateLock' = [stateLock EXCEPT ![at[a]] = FALSE]
  /\ tx' = [tx EXCEPT ![a] = "lock"]
  /\ After(a, tx[a] = "won")
  /\ UNCHANGED <<status, rowVars, at, jobVars, faults>>

----------------------------------------------------------------------------
(* mark_delivered, mark_delivery_failed and the rating *)

\* The vendor presses; the employee does once there is a rating to press on.
Press(c) ==
  /\ pc[c] = "unsent"
  /\ \/ c \in Confirms /\ Goto(c, "begin")
     \/ c \in Denials /\ Goto(c, "deny")
     \/ c \in Taps /\ ratings[OrderOf[c]] > 0 /\ Goto(c, "tap")
  /\ UNCHANGED <<goalVars, rowVars, tx, at, jobVars, faults>>

SetOrderStatus(a, s) ==
  /\ orderStatus' = [orderStatus EXCEPT ![at[a]] = s]
  /\ UNCHANGED <<goalVars, ratings, ratingSent, tapped, tx, at, jobVars, faults>>

MarkTransit(a) ==
  /\ At(a, "mark_transit")
  /\ SetOrderStatus(a, "in_transit")
  /\ AfterTransit(a)

\* Wrong variant: the rating is forgotten.
MarkDeliveredUnrated(a) ==
  /\ At(a, "mark_delivered")
  /\ SetOrderStatus(a, "delivered")
  /\ Finish(a)

MarkDelivered(a) ==
  /\ At(a, "mark_delivered")
  /\ SetOrderStatus(a, "delivered")
  /\ Goto(a, "create_rating")

\* Wrong variant: the goal's word for the order's.
MarkFailedAsGoal(a) ==
  /\ At(a, "mark_failed")
  /\ SetOrderStatus(a, "delivery_failed")
  /\ Finish(a)

MarkFailed(a) ==
  /\ At(a, "mark_failed")
  /\ SetOrderStatus(a, "failed")
  /\ Finish(a)

\* A rating row for every delivery, with the signals of the order.
CreateRating(a) ==
  /\ At(a, "create_rating")
  /\ ratings' = [ratings EXCEPT ![at[a]] = @ + 1]
  /\ Goto(a, "mark_sent")
  /\ UNCHANGED <<goalVars, orderStatus, ratingSent, tapped, tx, at, jobVars,
                 faults>>

\* No caller passes the employee's number, so no prompt is sent here.
MarkSent(a) ==
  /\ At(a, "mark_sent")
  /\ ratingSent' = ratingSent \cup {at[a]}
  /\ Finish(a)
  /\ UNCHANGED <<goalVars, orderStatus, ratings, tapped, tx, at, jobVars,
                 faults>>

\* Record the tap, then recompute the vendor's score.
RecordTap(c) ==
  /\ At(c, "tap")
  /\ tapped' = tapped \cup {at[c]}
  /\ Goto(c, "rate")
  /\ UNCHANGED <<goalVars, orderStatus, ratings, ratingSent, tx, at, jobVars,
                 faults>>

----------------------------------------------------------------------------
(* poll_deliveries: one run at a time *)

StartPoll ==
  /\ At(Worker, "sleep")
  /\ Goto(Worker, "list_placed")
  /\ polling' = FALSE
  /\ UNCHANGED <<goalVars, rowVars, tx, at, todo, due, faults>>

\* Wrong variant: the placed orders are not looked at.
PlacedForgotten == {o \in Orders : orderStatus[o] = "in_transit"}

Placed == {o \in Orders : orderStatus[o] = "placed"}

ListPlaced ==
  /\ At(Worker, "list_placed")
  /\ todo' = Placed
  /\ Goto(Worker, "list_transit")
  /\ UNCHANGED <<goalVars, rowVars, tx, at, polling, due, faults>>

ListTransit ==
  /\ At(Worker, "list_transit")
  /\ due' = {o \in Orders : orderStatus[o] = "in_transit"}
  /\ Goto(Worker, "advance")
  /\ UNCHANGED <<goalVars, rowVars, tx, at, polling, todo, faults>>

AdvanceNext ==
  /\ At(Worker, "advance")
  /\ \/ /\ todo = {}
        /\ polling' = TRUE
        /\ Goto(Worker, "poll")
        /\ UNCHANGED <<todo, at>>
     \/ \E o \in todo :
          /\ todo' = todo \ {o}
          /\ at' = [at EXCEPT ![Worker] = o]
          /\ Goto(Worker, "begin")
          /\ UNCHANGED polling
  /\ UNCHANGED <<goalVars, rowVars, tx, due, faults>>

PollNext ==
  /\ At(Worker, "poll")
  /\ \/ /\ due = {}
        /\ Goto(Worker, "sleep")
        /\ UNCHANGED <<due, at>>
     \/ \E o \in due :
          /\ due' = due \ {o}
          /\ \/ UNCHANGED <<pc, at>>
             \/ /\ Courier
                /\ at' = [at EXCEPT ![Worker] = o]
                /\ Goto(Worker, "begin")
  /\ UNCHANGED <<goalVars, rowVars, tx, polling, todo, faults>>

----------------------------------------------------------------------------
(* The environment *)

Fault == faults < MaxFaults /\ faults' = faults + 1

\* A command of a's handler raises.  A command that takes effect and raises
\* is the effect followed by an error of the next command.
Error(a) ==
  /\ Fault
  /\ pc[a] \in Sites \cup Commands /\ tx[a] = "lock"
  /\ Raise(a)
  /\ UNCHANGED <<goalVars, rowVars, tx, at, jobVars>>

\* A command of a transition raises: the state may have been written, and
\* the key may be left behind until it expires.
TransitionError(a) ==
  LET o == at[a] IN
  /\ Fault
  /\ pc[a] \in Sites
  /\ \/ UNCHANGED status
     \/ /\ tx[a] = "cas" /\ Matches(a)
        /\ status' = [status EXCEPT ![o] = To(a)]
  /\ \/ tx[a] = "lock" /\ stateLock' = [stateLock EXCEPT ![o] = TRUE]
     \/ tx[a] # "lock" /\ UNCHANGED stateLock
     \/ tx[a] # "lock" /\ stateLock' = [stateLock EXCEPT ![o] = FALSE]
  /\ tx' = [tx EXCEPT ![a] = "lock"]
  /\ Raise(a)
  /\ UNCHANGED <<rowVars, at, jobVars>>

\* The process of a dies; that of the worker is started again.
Crash(a) ==
  /\ Fault
  /\ pc[a] \notin Idle
  /\ Goto(a, IF a = Worker THEN "sleep" ELSE "done")
  /\ tx' = [tx EXCEPT ![a] = "lock"]
  /\ UNCHANGED <<goalVars, rowVars, at, jobVars>>

\* The 30 s lease of a goal's lock whose holder is gone runs out.
ExpireState(o) ==
  /\ stateLock[o]
  /\ \A a \in Actors : at[a] = o => tx[a] = "lock"
  /\ stateLock' = [stateLock EXCEPT ![o] = FALSE]
  /\ UNCHANGED <<status, rowVars, pc, tx, at, jobVars, faults>>

----------------------------------------------------------------------------

Handle(a) ==
  \/ TakeLock(a) \/ CompareAndSet(a) \/ GiveLock(a)
  \/ MarkTransit(a) \/ MarkDelivered(a) \/ MarkFailed(a)
  \/ CreateRating(a) \/ MarkSent(a) \/ RecordTap(a)

Job ==
  \/ StartPoll \/ ListPlaced \/ ListTransit \/ AdvanceNext \/ PollNext
  \/ Handle(Worker)

Next ==
  \/ \E c \in Presses : Press(c) \/ Handle(c)
  \/ Job
  \/ \E a \in Actors : Error(a) \/ TransitionError(a) \/ Crash(a)
  \/ \E o \in Orders : ExpireState(o)

\* A handler that is alive goes on, the scheduler runs its job again and
\* again, Redis expires keys.  Nobody has to press anything.
Fairness ==
  /\ \A c \in Presses : WF_vars(Handle(c))
  /\ WF_vars(Job)
  /\ \A o \in Orders : WF_vars(ExpireState(o))

Spec == Init /\ [][Next]_vars
FairSpec == Spec /\ Fairness

----------------------------------------------------------------------------
(* Properties *)

TypeOK ==
  /\ status \in [Orders -> GoalState]
  /\ stateLock \in [Orders -> BOOLEAN]
  /\ orderStatus \in [Orders -> {"placed", "in_transit", "delivered", "failed"}]
  /\ ratings \in [Orders -> Nat]
  /\ ratingSent \subseteq Orders /\ tapped \subseteq Orders
  /\ pc \in [Actors -> Labels]
  /\ tx \in [Actors -> {"lock", "cas", "won", "lost"}]
  /\ at \in [Actors -> Orders]
  /\ polling \in BOOLEAN /\ todo \subseteq Orders /\ due \subseteq Orders
  /\ faults \in 0..MaxFaults

Outcome(s) ==
  CASE s = "delivery_failed" -> "failed"
    [] s \in {"delivered", "rated"} -> "delivered"
    [] s = "completed" -> "completed"
    [] OTHER -> "open"

Promise == INSTANCE DeliveryPromise WITH
             outcome <- [o \in Orders |-> Outcome(status[o])]

\* However often the buttons are pressed beside the worker's poll, an order
\* is delivered or fails once, gets one rating, and is completed after it:
\* no second webhook creates a second rating (core/delivery.py:34-41, 70-77).
ImplementsPromise == Promise!PromiseSpec

\* A paid order does not stay behind: the worker, or an early confirmation,
\* gets it into transit, also when others hold the goal's lock at times and
\* processes die (worker/delivery_tracker.py:23-37, core/delivery.py:50-55).
TransitStarts == \A o \in Orders : status[o] = "ordered" ~> status[o] # "ordered"

\* "exactly ONE rating row is created per delivered order", unless something
\* failed (core/vendor_scorer.py:9-14, core/delivery.py:37-45).
DeliveredIsRated ==
  \A o \in Orders : status[o] = "delivered" ~> ratings[o] = 1 \/ faults > 0
============================================================================
