------------------------ MODULE DeliveryRatingProofs ------------------------
(***************************************************************************)
(* Proofs about DeliveryRating, for any orders, presses and faults, with   *)
(* or without a courier: types, and that it implements DeliveryPromise.    *)
(***************************************************************************)
EXTENDS DeliveryRating, TLAPS

USE DeliveryAssumption DEF DeliveryAssumption

----------------------------------------------------------------------------
(* Control *)

\* Where a handler goes after a transition: it starts to deliver only if it
\* moved the goal, and completes only what it rated.
LEMMA AfterGoes ==
  ASSUME TypeOK, NEW a \in Actors, NEW moved \in BOOLEAN, After(a, moved)
  PROVE  \E l \in Labels :
           /\ pc' = [pc EXCEPT ![a] = l]
           /\ l \in Sites => l \in {"deliver", "complete"}
           /\ l = "mark_delivered" => pc[a] = "deliver" /\ moved
           /\ l = "complete" => pc[a] = "rate"
           /\ l \notin {"create_rating", "tap"}
<1> USE DEF Goto, Finish, AfterTransit, Labels, Sites, Idle, Commands
<1>1. CASE pc[a] = "begin"
  BY <1>1 DEF After
<1>2. CASE pc[a] = "deliver"
  BY <1>2 DEF After, AfterDeliver
<1>3. CASE pc[a] = "deny"
  BY <1>3 DEF After
<1>4. CASE pc[a] = "rate"
  BY <1>4 DEF After
<1>5. CASE pc[a] = "complete"
  BY <1>5 DEF After
<1> QED
  BY <1>1, <1>2, <1>3, <1>4, <1>5 DEF After

\* After an exception a handler is finished, or the sweep goes on.
LEMMA RaiseGoes ==
  ASSUME TypeOK, NEW a \in Actors, Raise(a)
  PROVE  \E l \in {"sleep", "done", "poll", "advance"} : pc' = [pc EXCEPT ![a] = l]
  BY DEF Raise, Finish, Goto

----------------------------------------------------------------------------
(* Types *)

\* The initial states are well typed.
LEMMA TypeInit == Init => TypeOK
<1> SUFFICES ASSUME Init PROVE TypeOK
  OBVIOUS
<1>1. status \in [Orders -> GoalState]
  BY DEF Init, GoalState
<1>2. pc \in [Actors -> Labels]
  BY DEF Init, Labels, Idle
<1>3. faults \in 0..MaxFaults /\ ratings \in [Orders -> Nat]
  BY DEF Init
<1> QED
  BY <1>1, <1>2, <1>3 DEF Init, TypeOK

\* Every step keeps the types.
LEMMA TypeStep == TypeOK /\ [Next]_vars => TypeOK'
<1> SUFFICES ASSUME TypeOK, [Next]_vars PROVE TypeOK'
  OBVIOUS
<1> USE DEF goalVars, rowVars, jobVars
<1> DEFINE Plain == {"sleep", "done", "poll", "advance"}
<1>0. Sites \subseteq Labels /\ Idle \subseteq Labels /\ Commands \subseteq Labels
      /\ Plain \subseteq Labels /\ Presses \subseteq Actors /\ Worker \in Actors
  BY DEF Labels, Idle, Actors
<1>1. ASSUME NEW a \in Actors, TakeLock(a)
      PROVE  TypeOK'
  <2>1. CASE ~stateLock[at[a]]
    BY <1>1, <2>1 DEF TakeLock, TypeOK
  <2>2. CASE stateLock[at[a]]
    <3>1. After(a, FALSE)
      BY <1>1, <2>2 DEF TakeLock
    <3>2. PICK l \in Labels : pc' = [pc EXCEPT ![a] = l]
      BY <3>1, AfterGoes
    <3>3. pc' \in [Actors -> Labels]
      BY <3>2 DEF TypeOK
    <3> QED
      BY <1>1, <2>2, <3>3 DEF TakeLock, TypeOK
  <2> QED
    BY <2>1, <2>2
<1>2. ASSUME NEW a \in Actors, CompareAndSet(a)
      PROVE  TypeOK'
  <2>1. To(a) \in GoalState
    BY <1>2 DEF CompareAndSet, To, Sites, GoalState
  <2> QED
    BY <1>2, <2>1 DEF CompareAndSet, TypeOK
<1>3. ASSUME NEW a \in Actors, GiveLock(a)
      PROVE  TypeOK'
  <2>1. After(a, tx[a] = "won") /\ (tx[a] = "won") \in BOOLEAN
    BY <1>3 DEF GiveLock
  <2>2. PICK l \in Labels : pc' = [pc EXCEPT ![a] = l]
    BY <2>1, AfterGoes
  <2>3. pc' \in [Actors -> Labels]
    BY <2>2 DEF TypeOK
  <2> QED
    BY <1>3, <2>3 DEF GiveLock, TypeOK
<1>4. ASSUME NEW a \in Actors,
             MarkTransit(a) \/ MarkDelivered(a) \/ MarkFailed(a)
      PROVE  TypeOK'
  <2>1. pc' \in [Actors -> Labels]
    BY <1>4, <1>0 DEF MarkTransit, MarkDelivered, MarkFailed, AfterTransit,
                      Finish, Goto, TypeOK, Sites, Commands
  <2> QED
    BY <1>4, <2>1 DEF MarkTransit, MarkDelivered, MarkFailed, SetOrderStatus, TypeOK
<1>5. ASSUME NEW a \in Actors,
             CreateRating(a) \/ MarkSent(a) \/ RecordTap(a)
      PROVE  TypeOK'
  <2>1. pc' \in [Actors -> Labels]
    BY <1>5, <1>0 DEF CreateRating, MarkSent, RecordTap, Finish, Goto, TypeOK,
                      Sites, Commands
  <2> QED
    BY <1>5, <2>1 DEF CreateRating, MarkSent, RecordTap, TypeOK
<1>6. ASSUME NEW c \in Presses, Press(c)
      PROVE  TypeOK'
  <2>1. pc' \in [Actors -> Labels]
    BY <1>6, <1>0 DEF Press, Goto, TypeOK, Sites, Commands
  <2> QED
    BY <1>6, <2>1 DEF Press, TypeOK
<1>7. CASE StartPoll \/ ListPlaced \/ ListTransit \/ AdvanceNext \/ PollNext
  <2>1. pc' \in [Actors -> Labels]
    BY <1>7, <1>0 DEF StartPoll, ListPlaced, ListTransit, AdvanceNext, PollNext,
                      Goto, TypeOK, Sites, Commands, Idle
  <2> QED
    BY <1>7, <1>0, <2>1 DEF StartPoll, ListPlaced, Placed, ListTransit,
                            AdvanceNext, PollNext, TypeOK
<1>8. ASSUME NEW a \in Actors, Error(a)
      PROVE  TypeOK'
  <2>1. pc' \in [Actors -> Labels]
    <3>1. Raise(a)
      BY <1>8 DEF Error
    <3>2. PICK l \in Plain : pc' = [pc EXCEPT ![a] = l]
      BY <3>1, RaiseGoes
    <3> QED
      BY <3>2, <1>0 DEF TypeOK
  <2> QED
    BY <1>8, <2>1 DEF Error, Fault, TypeOK
<1>9. ASSUME NEW a \in Actors, TransitionError(a)
      PROVE  TypeOK'
  <2>1. pc' \in [Actors -> Labels]
    <3>1. Raise(a)
      BY <1>9 DEF TransitionError
    <3>2. PICK l \in Plain : pc' = [pc EXCEPT ![a] = l]
      BY <3>1, RaiseGoes
    <3> QED
      BY <3>2, <1>0 DEF TypeOK
  <2>2. To(a) \in GoalState
    BY <1>9 DEF TransitionError, To, Sites, GoalState
  <2>3. status' \in [Orders -> GoalState]
    BY <1>9, <2>2 DEF TransitionError, TypeOK
  <2>4. stateLock' \in [Orders -> BOOLEAN]
    BY <1>9 DEF TransitionError, TypeOK
  <2>5. tx' \in [Actors -> {"lock", "cas", "won", "lost"}] /\ faults' \in 0..MaxFaults
    BY <1>9 DEF TransitionError, Fault, TypeOK
  <2>6. UNCHANGED <<rowVars, at, jobVars>>
    BY <1>9 DEF TransitionError
  <2> QED
    BY <2>1, <2>3, <2>4, <2>5, <2>6 DEF TypeOK
<1>10. ASSUME NEW a \in Actors, Crash(a)
       PROVE  TypeOK'
  <2>1. pc' \in [Actors -> Labels]
    BY <1>10, <1>0 DEF Crash, Goto, TypeOK
  <2>2. tx' \in [Actors -> {"lock", "cas", "won", "lost"}] /\ faults' \in 0..MaxFaults
    BY <1>10 DEF Crash, Fault, TypeOK
  <2>3. UNCHANGED <<goalVars, rowVars, at, jobVars>>
    BY <1>10 DEF Crash
  <2> QED
    BY <2>1, <2>2, <2>3 DEF TypeOK
<1>11. ASSUME NEW o \in Orders, ExpireState(o)
       PROVE  TypeOK'
  BY <1>11 DEF ExpireState, TypeOK
<1>12. CASE UNCHANGED vars
  BY <1>12 DEF vars, TypeOK
<1> QED
  BY <1>0, <1>1, <1>2, <1>3, <1>4, <1>5, <1>6, <1>7, <1>8, <1>9, <1>10, <1>11,
     <1>12 DEF Next, Handle, Job

\* The types of the variables hold in every reachable state.
THEOREM TypeCorrect == Spec => []TypeOK
<1> QED
  BY TypeInit, TypeStep, PTL DEF Spec

----------------------------------------------------------------------------
(* One delivery, one rating *)

\* a has moved its goal to delivered, and has yet to create the rating.
Delivering(a) ==
  \/ pc[a] \in {"mark_delivered", "create_rating"}
  \/ pc[a] = "deliver" /\ tx[a] = "won"

\* a handles a tap, on a rating that therefore exists.
Tapping(a) == pc[a] \in {"tap", "rate", "complete"}

\* A press stays with its order, and only a transition holds a lock.
ControlInv ==
  /\ \A c \in Presses : at[c] = OrderOf[c]
  /\ \A a \in Actors : tx[a] # "lock" => pc[a] \in Sites

\* Who delivers an order does so alone, and nothing passes it by.
DeliverInv ==
  /\ \A a \in Actors :
       Delivering(a) => status[at[a]] = "delivered" /\ ratings[at[a]] = 0
  /\ \A a, b \in Actors :
       Delivering(a) /\ Delivering(b) /\ at[a] = at[b] => a = b

TapInv == \A a \in Actors : Tapping(a) => ratings[at[a]] = 1

\* How many ratings an order has, by the state of its goal.
RatingInv ==
  \A o \in Orders :
    /\ ratings[o] \in {0, 1}
    /\ status[o] \in {"ordered", "in_transit", "delivery_failed"} => ratings[o] = 0
    /\ status[o] \in {"rated", "completed"} => ratings[o] = 1

IInv == TypeOK /\ ControlInv /\ DeliverInv /\ TapInv /\ RatingInv

----------------------------------------------------------------------------
(* What a step may do to it *)

\* Most steps touch neither goals nor ratings, and nobody starts to deliver
\* or to handle a tap.
Quiet ==
  /\ UNCHANGED <<status, ratings>>
  /\ \A a \in Actors :
       /\ Delivering(a)' => Delivering(a) /\ at'[a] = at[a]
       /\ Tapping(a)' => Tapping(a) /\ at'[a] = at[a]

\* A transition takes effect, whether or not its caller learns of it.
Moves(a) ==
  /\ pc[a] \in Sites /\ tx[a] = "cas" /\ Matches(a)
  /\ status' = [status EXCEPT ![at[a]] = To(a)]
  /\ UNCHANGED <<ratings, at>>
  /\ \A b \in Actors \ {a} : pc'[b] = pc[b] /\ tx'[b] = tx[b]
  /\ Delivering(a)' => pc[a] = "deliver"
  /\ Tapping(a)' => Tapping(a)

\* A step that only moves a's control, not into a delivery or a tap.
LEMMA MovingOnIsQuiet ==
  ASSUME TypeOK, NEW a \in Actors, NEW l,
         pc' = [pc EXCEPT ![a] = l], tx' = [tx EXCEPT ![a] = "lock"],
         \A b \in Actors \ {a} : at'[b] = at[b],
         UNCHANGED <<status, ratings>>,
         l \in {"mark_delivered", "create_rating"} => Delivering(a),
         l \in {"tap", "rate", "complete"} => Tapping(a),
         at'[a] = at[a] \/ l \notin {"mark_delivered", "create_rating", "tap", "rate", "complete"}
  PROVE  Quiet
<1> SUFFICES ASSUME NEW b \in Actors
             PROVE  /\ Delivering(b)' => Delivering(b) /\ at'[b] = at[b]
                    /\ Tapping(b)' => Tapping(b) /\ at'[b] = at[b]
  BY DEF Quiet
<1>1. CASE b = a
  <2>1. pc'[a] = l /\ tx'[a] = "lock"
    BY DEF TypeOK
  <2> QED
    BY <1>1, <2>1 DEF Delivering, Tapping
<1>2. CASE b # a
  <2>1. pc'[b] = pc[b] /\ tx'[b] = tx[b] /\ at'[b] = at[b]
    BY <1>2 DEF TypeOK
  <2> QED
    BY <2>1 DEF Delivering, Tapping
<1> QED
  BY <1>1, <1>2

\* Every step but three kinds is quiet.
LEMMA Effects ==
  ASSUME IInv, [Next]_vars
  PROVE  \/ Quiet
         \/ \E a \in Actors : Moves(a) \/ CreateRating(a)
         \/ \E c \in Presses : Press(c)
<1> USE DEF IInv, goalVars, rowVars, jobVars
<1>0. Presses \subseteq Actors /\ Worker \in Actors
  BY DEF Actors
<1>1. ASSUME NEW a \in Actors, TakeLock(a)
      PROVE  Quiet
  <2>1. CASE ~stateLock[at[a]]
    <3>1. /\ pc' = pc /\ at' = at /\ UNCHANGED <<status, ratings>>
          /\ tx' = [tx EXCEPT ![a] = "cas"]
      BY <1>1, <2>1 DEF TakeLock
    <3> QED
      BY <3>1 DEF Quiet, Delivering, Tapping, TypeOK
  <2>2. CASE stateLock[at[a]]
    <3>1. /\ After(a, FALSE) /\ tx[a] = "lock" /\ pc[a] \in Sites
          /\ tx' = tx /\ at' = at /\ UNCHANGED <<status, ratings>>
      BY <1>1, <2>2 DEF TakeLock
    <3>2. tx' = [tx EXCEPT ![a] = "lock"]
      BY <3>1 DEF TypeOK
    <3>3. PICK l \in Labels :
            /\ pc' = [pc EXCEPT ![a] = l]
            /\ l \in Sites => l \in {"deliver", "complete"}
            /\ l # "mark_delivered"
            /\ l = "complete" => pc[a] = "rate"
            /\ l \notin {"create_rating", "tap"}
      BY <3>1, AfterGoes
    <3> QED
      BY <3>1, <3>2, <3>3, MovingOnIsQuiet DEF Tapping, Sites
  <2> QED
    BY <2>1, <2>2
<1>2. ASSUME NEW a \in Actors, CompareAndSet(a)
      PROVE  Quiet \/ Moves(a)
  <2>1. CASE Matches(a)
    <3>1. /\ status' = [status EXCEPT ![at[a]] = To(a)]
          /\ tx' = [tx EXCEPT ![a] = "won"]
          /\ UNCHANGED <<ratings, at, pc>> /\ pc[a] \in Sites /\ tx[a] = "cas"
      BY <1>2, <2>1 DEF CompareAndSet
    <3>2. \A b \in Actors \ {a} : pc'[b] = pc[b] /\ tx'[b] = tx[b]
      BY <3>1 DEF TypeOK
    <3>3. (Delivering(a)' => pc[a] = "deliver") /\ (Tapping(a)' => Tapping(a))
      BY <3>1 DEF Delivering, Tapping, Sites
    <3> QED
      BY <2>1, <3>1, <3>2, <3>3 DEF Moves
  <2>2. CASE ~Matches(a)
    <3>1. pc' = pc /\ at' = at /\ UNCHANGED <<status, ratings>>
          /\ tx' = [tx EXCEPT ![a] = "lost"]
      BY <1>2, <2>2 DEF CompareAndSet
    <3> QED
      BY <3>1 DEF Quiet, Delivering, Tapping, TypeOK
  <2> QED
    BY <2>1, <2>2
<1>3. ASSUME NEW a \in Actors, GiveLock(a)
      PROVE  Quiet
  <2>1. /\ After(a, tx[a] = "won") /\ tx' = [tx EXCEPT ![a] = "lock"]
        /\ at' = at /\ UNCHANGED <<status, ratings>>
    BY <1>3 DEF GiveLock
  <2>2. PICK l \in Labels :
          /\ pc' = [pc EXCEPT ![a] = l]
          /\ l \in Sites => l \in {"deliver", "complete"}
          /\ l = "mark_delivered" => pc[a] = "deliver" /\ tx[a] = "won"
          /\ l = "complete" => pc[a] = "rate"
          /\ l \notin {"create_rating", "tap"}
    BY <2>1, AfterGoes
  <2> QED
    BY <2>1, <2>2, MovingOnIsQuiet DEF Delivering, Tapping, Sites
<1>4. ASSUME NEW a \in Actors,
             MarkTransit(a) \/ MarkDelivered(a) \/ MarkFailed(a) \/ MarkSent(a)
             \/ RecordTap(a)
      PROVE  Quiet
  <2>1. at' = at /\ tx' = tx /\ tx[a] = "lock" /\ UNCHANGED <<status, ratings>>
    BY <1>4 DEF MarkTransit, MarkDelivered, MarkFailed, MarkSent, RecordTap,
                SetOrderStatus, At
  <2>2. tx' = [tx EXCEPT ![a] = "lock"]
    BY <2>1 DEF TypeOK
  <2>3. \E l : /\ pc' = [pc EXCEPT ![a] = l]
               /\ l \in {"mark_delivered", "create_rating"} => Delivering(a)
               /\ l \in {"tap", "rate", "complete"} => Tapping(a)
    BY <1>4 DEF MarkTransit, MarkDelivered, MarkFailed, MarkSent, RecordTap,
                At, AfterTransit, Finish, Goto, Delivering, Tapping
  <2> QED
    BY <2>1, <2>2, <2>3, MovingOnIsQuiet
<1>5. CASE StartPoll \/ ListPlaced \/ ListTransit
  <2>1. at' = at /\ tx' = tx /\ tx[Worker] = "lock" /\ UNCHANGED <<status, ratings>>
    BY <1>5 DEF StartPoll, ListPlaced, ListTransit, At
  <2>2. tx' = [tx EXCEPT ![Worker] = "lock"]
    BY <2>1, <1>0 DEF TypeOK
  <2>3. \E l \in {"list_placed", "list_transit", "advance"} :
          pc' = [pc EXCEPT ![Worker] = l]
    BY <1>5 DEF StartPoll, ListPlaced, ListTransit, Goto
  <2> QED
    BY <1>0, <2>1, <2>2, <2>3, MovingOnIsQuiet
<1>6. CASE AdvanceNext \/ PollNext
  <2>1. tx' = tx /\ tx[Worker] = "lock" /\ UNCHANGED <<status, ratings>>
    BY <1>6 DEF AdvanceNext, PollNext, At
  <2>2. tx' = [tx EXCEPT ![Worker] = "lock"]
    BY <2>1, <1>0 DEF TypeOK
  <2>3. \E l \in {"sleep", "advance", "poll", "begin"} : pc' = [pc EXCEPT ![Worker] = l]
    BY <1>0, <1>6 DEF AdvanceNext, PollNext, Goto, At, TypeOK
  <2>4. \A b \in Actors \ {Worker} : at'[b] = at[b]
    BY <1>6 DEF AdvanceNext, PollNext, TypeOK
  <2> QED
    BY <1>0, <2>1, <2>2, <2>3, <2>4, MovingOnIsQuiet
<1>7. ASSUME NEW a \in Actors, Error(a)
      PROVE  Quiet
  <2>1. /\ Raise(a) /\ at' = at /\ tx' = tx /\ tx[a] = "lock"
        /\ UNCHANGED <<status, ratings>>
    BY <1>7 DEF Error
  <2>2. tx' = [tx EXCEPT ![a] = "lock"]
    BY <2>1 DEF TypeOK
  <2> QED
    BY <2>1, <2>2, RaiseGoes, MovingOnIsQuiet
<1>8. ASSUME NEW a \in Actors, TransitionError(a)
      PROVE  Quiet \/ Moves(a)
  <2>1. /\ Raise(a) /\ at' = at /\ tx' = [tx EXCEPT ![a] = "lock"]
        /\ UNCHANGED ratings /\ pc[a] \in Sites
    BY <1>8 DEF TransitionError
  <2>2. CASE UNCHANGED status
    BY <2>1, <2>2, RaiseGoes, MovingOnIsQuiet
  <2>3. CASE ~UNCHANGED status
    <3>1. /\ tx[a] = "cas" /\ Matches(a)
          /\ status' = [status EXCEPT ![at[a]] = To(a)]
      BY <1>8, <2>3 DEF TransitionError
    <3>2. PICK l \in {"sleep", "done", "poll", "advance"} : pc' = [pc EXCEPT ![a] = l]
      BY <2>1, RaiseGoes
    <3>3. \A b \in Actors \ {a} : pc'[b] = pc[b] /\ tx'[b] = tx[b]
      BY <2>1, <3>2 DEF TypeOK
    <3>4. pc'[a] = l
      BY <3>2 DEF TypeOK
    <3>5. ~Delivering(a)' /\ ~Tapping(a)'
      BY <3>4 DEF Delivering, Tapping
    <3> QED
      BY <2>1, <3>1, <3>3, <3>5 DEF Moves
  <2> QED
    BY <2>2, <2>3
<1>9. ASSUME NEW a \in Actors, Crash(a)
      PROVE  Quiet
  <2>1. /\ \E l \in {"sleep", "done"} : pc' = [pc EXCEPT ![a] = l]
        /\ at' = at /\ tx' = [tx EXCEPT ![a] = "lock"]
        /\ UNCHANGED <<status, ratings>>
    BY <1>9 DEF Crash, Goto
  <2> QED
    BY <2>1, MovingOnIsQuiet
<1>10. CASE UNCHANGED vars \/ \E o \in Orders : ExpireState(o)
  BY <1>10 DEF ExpireState, vars, Quiet, Delivering, Tapping
<1> QED
  BY <1>0, <1>1, <1>2, <1>3, <1>4, <1>5, <1>6, <1>7, <1>8, <1>9, <1>10
     DEF Next, Handle, Job

----------------------------------------------------------------------------
(* The invariant *)

\* The initial states satisfy it.
LEMMA IInvInit == Init => IInv
<1> SUFFICES ASSUME Init PROVE IInv
  OBVIOUS
<1>1. TypeOK
  BY TypeInit
<1>2. \A a \in Actors : ~Delivering(a) /\ ~Tapping(a) /\ tx[a] = "lock"
  BY DEF Init, Delivering, Tapping
<1>3. \A o \in Orders : status[o] = "ordered" /\ ratings[o] = 0
  BY DEF Init
<1>4. \A c \in Presses : at[c] = OrderOf[c]
  BY DEF Init
<1> QED
  BY <1>1, <1>2, <1>3, <1>4 DEF IInv, ControlInv, DeliverInv, TapInv, RatingInv

\* Only the worker changes its order, and only a transition holds a lock.
LEMMA ControlStep == TypeOK /\ ControlInv /\ [Next]_vars => ControlInv'
<1> SUFFICES ASSUME TypeOK, ControlInv, [Next]_vars PROVE ControlInv'
  OBVIOUS
<1> USE DEF ControlInv, goalVars, rowVars, jobVars
<1>0. Presses \subseteq Actors /\ Worker \in Actors /\ Worker \notin Presses
  BY DEF Actors
<1>1. ASSUME NEW a \in Actors, NEW l, pc' = [pc EXCEPT ![a] = l],
             tx' = [tx EXCEPT ![a] = "lock"], \A c \in Presses : at'[c] = at[c]
      PROVE  ControlInv'
  BY <1>1 DEF TypeOK
<1>2. ASSUME NEW a \in Actors, TakeLock(a) \/ CompareAndSet(a)
      PROVE  ControlInv'
  <2>1. CASE TakeLock(a) /\ stateLock[at[a]]
    <3>1. After(a, FALSE) /\ tx[a] = "lock" /\ tx' = tx /\ at' = at
      BY <2>1 DEF TakeLock
    <3>2. tx' = [tx EXCEPT ![a] = "lock"]
      BY <3>1 DEF TypeOK
    <3> QED
      BY <3>1, <3>2, <1>0, <1>1, AfterGoes
  <2>2. CASE ~(TakeLock(a) /\ stateLock[at[a]])
    <3>1. /\ pc[a] \in Sites /\ pc' = pc /\ at' = at
          /\ \E t \in {"cas", "won", "lost"} : tx' = [tx EXCEPT ![a] = t]
      BY <1>2, <2>2 DEF TakeLock, CompareAndSet
    <3> QED
      BY <3>1, <1>0 DEF TypeOK
  <2> QED
    BY <2>1, <2>2
<1>3. ASSUME NEW a \in Actors, GiveLock(a)
      PROVE  ControlInv'
  BY <1>3, <1>0, <1>1, AfterGoes DEF GiveLock
<1>4. ASSUME NEW a \in Actors,
             \/ MarkTransit(a) \/ MarkDelivered(a) \/ MarkFailed(a)
             \/ CreateRating(a) \/ MarkSent(a) \/ RecordTap(a)
      PROVE  ControlInv'
  <2>1. at' = at /\ tx' = tx /\ tx[a] = "lock" /\ \E l : pc' = [pc EXCEPT ![a] = l]
    BY <1>4 DEF MarkTransit, MarkDelivered, MarkFailed, CreateRating, MarkSent,
                RecordTap, SetOrderStatus, At, AfterTransit, Finish, Goto
  <2>2. tx' = [tx EXCEPT ![a] = "lock"]
    BY <2>1 DEF TypeOK
  <2> QED
    BY <1>0, <1>1, <2>1, <2>2
<1>5. ASSUME NEW c \in Presses, Press(c)
      PROVE  ControlInv'
  <2>1. at' = at /\ tx' = tx /\ pc[c] = "unsent" /\ \E l : pc' = [pc EXCEPT ![c] = l]
    BY <1>5 DEF Press, Goto
  <2>2. tx[c] = "lock"
    BY <1>0, <2>1 DEF Sites
  <2>3. tx' = [tx EXCEPT ![c] = "lock"]
    BY <1>0, <2>1, <2>2 DEF TypeOK
  <2> QED
    BY <1>0, <1>1, <2>1, <2>3
<1>6. CASE StartPoll \/ ListPlaced \/ ListTransit \/ AdvanceNext \/ PollNext
  <2>1. tx' = tx /\ tx[Worker] = "lock"
    BY <1>6 DEF StartPoll, ListPlaced, ListTransit, AdvanceNext, PollNext, At
  <2>2. tx' = [tx EXCEPT ![Worker] = "lock"]
    BY <2>1, <1>0 DEF TypeOK
  <2>3. \A c \in Presses : at'[c] = at[c]
    BY <1>6, <1>0 DEF StartPoll, ListPlaced, ListTransit, AdvanceNext, PollNext, TypeOK
  <2>4. \E l : pc' = [pc EXCEPT ![Worker] = l]
    BY <1>6, <1>0 DEF StartPoll, ListPlaced, ListTransit, AdvanceNext, PollNext,
                      Goto, TypeOK
  <2> QED
    BY <1>0, <1>1, <2>2, <2>3, <2>4
<1>7. ASSUME NEW a \in Actors, Error(a) \/ TransitionError(a) \/ Crash(a)
      PROVE  ControlInv'
  <2>1. at' = at /\ tx' = [tx EXCEPT ![a] = "lock"]
    BY <1>7 DEF Error, TransitionError, Crash, TypeOK
  <2>2. \E l : pc' = [pc EXCEPT ![a] = l]
    BY <1>7, RaiseGoes DEF Error, TransitionError, Crash, Goto
  <2> QED
    BY <1>0, <1>1, <2>1, <2>2
<1>8. CASE UNCHANGED vars \/ \E o \in Orders : ExpireState(o)
  BY <1>8 DEF vars, ExpireState
<1> QED
  BY <1>0, <1>2, <1>3, <1>4, <1>5, <1>6, <1>7, <1>8 DEF Next, Handle, Job

\* A quiet step keeps the rest of it.
LEMMA QuietKeeps ==
  ASSUME IInv, Quiet
  PROVE  DeliverInv' /\ TapInv' /\ RatingInv'
  BY DEF Quiet, IInv, DeliverInv, TapInv, RatingInv

\* Which order a transition may move, and what that does to its ratings.
LEMMA MoveCases ==
  ASSUME IInv, NEW a \in Actors, Moves(a)
  PROVE  LET o == at[a] IN
         /\ o \in Orders /\ status'[o] = To(a)
         /\ \A p \in Orders \ {o} : status'[p] = status[p]
         /\ \/ status[o] = "ordered" /\ To(a) = "in_transit" /\ ratings[o] = 0
            \/ status[o] = "in_transit" /\ To(a) = "delivered" /\ ratings[o] = 0
            \/ status[o] = "in_transit" /\ To(a) = "delivery_failed" /\ ratings[o] = 0
            \/ status[o] = "delivered" /\ To(a) = "rated" /\ ratings[o] = 1
            \/ status[o] = "rated" /\ To(a) = "completed" /\ ratings[o] = 1
         /\ pc[a] = "deliver" => status[o] = "in_transit" /\ To(a) = "delivered"
<1>1. at[a] \in Orders /\ status' = [status EXCEPT ![at[a]] = To(a)]
      /\ status[at[a]] = From(a) /\ pc[a] \in Sites
  BY DEF Moves, Matches, IInv, TypeOK
<1>2. status'[at[a]] = To(a) /\ \A p \in Orders \ {at[a]} : status'[p] = status[p]
  BY <1>1 DEF IInv, TypeOK
<1>3. status[at[a]] \in {"ordered", "in_transit"} => ratings[at[a]] = 0
  BY <1>1 DEF IInv, RatingInv
<1>4. pc[a] \in {"rate", "complete"} => ratings[at[a]] = 1
  BY DEF IInv, TapInv, Tapping
<1> QED
  BY <1>1, <1>2, <1>3, <1>4 DEF From, To, Sites

\* A transition that takes effect keeps the rest of it.
LEMMA MoveKeeps ==
  ASSUME IInv, NEW a \in Actors, Moves(a)
  PROVE  DeliverInv' /\ TapInv' /\ RatingInv'
<1>1. at' = at /\ ratings' = ratings
  BY DEF Moves
<1>2. \A b \in Actors : Tapping(b)' => Tapping(b)
  BY DEF Moves, Tapping
<1>3. \A b \in Actors \ {a} : Delivering(b)' => Delivering(b)
  BY DEF Moves, Delivering
<1>4. \A b \in Actors : Delivering(b) => status[at[b]] = "delivered" /\ ratings[at[b]] = 0
  BY DEF IInv, DeliverInv
<1>5. \A b \in Actors : at[b] \in Orders
  BY DEF IInv, TypeOK
<1>6. \A b \in Actors : Delivering(b) => at[b] # at[a]
  BY <1>4, MoveCases
<1>7. \A b \in Actors : Delivering(b)' => status'[at[b]] = "delivered" /\ ratings[at[b]] = 0
  <2> SUFFICES ASSUME NEW b \in Actors, Delivering(b)'
               PROVE  status'[at[b]] = "delivered" /\ ratings[at[b]] = 0
    OBVIOUS
  <2>1. CASE b = a
    BY <2>1, MoveCases DEF Moves
  <2>2. CASE b # a
    BY <2>2, <1>3, <1>4, <1>5, <1>6, MoveCases
  <2> QED
    BY <2>1, <2>2
<1>8. \A b, c \in Actors :
        Delivering(b)' /\ Delivering(c)' /\ at[b] = at[c] => b = c
  BY <1>3, <1>6 DEF IInv, DeliverInv
<1>9. DeliverInv'
  BY <1>1, <1>7, <1>8 DEF DeliverInv
<1>10. TapInv'
  BY <1>1, <1>2 DEF IInv, TapInv
<1>11. RatingInv'
  BY <1>1, MoveCases DEF IInv, RatingInv
<1> QED
  BY <1>9, <1>10, <1>11

\* A new rating keeps the rest of it.
LEMMA RatingKeeps ==
  ASSUME IInv, NEW a \in Actors, CreateRating(a)
  PROVE  DeliverInv' /\ TapInv' /\ RatingInv'
<1>1. /\ pc[a] = "create_rating" /\ pc' = [pc EXCEPT ![a] = "mark_sent"]
      /\ ratings' = [ratings EXCEPT ![at[a]] = @ + 1]
      /\ UNCHANGED <<status, tx, at>>
  BY DEF CreateRating, At, Goto, goalVars
<1>2. /\ at[a] \in Orders /\ status[at[a]] = "delivered" /\ ratings[at[a]] = 0
      /\ \A b \in Actors : Delivering(b) /\ at[b] = at[a] => b = a
      /\ \A b \in Actors : Tapping(b) => at[b] # at[a]
  BY <1>1 DEF IInv, TypeOK, DeliverInv, TapInv, Delivering
<1>3. /\ ratings'[at[a]] = 1
      /\ \A p \in Orders \ {at[a]} : ratings'[p] = ratings[p]
  BY <1>1, <1>2 DEF IInv, TypeOK
<1>4. \A b \in Actors : (Delivering(b)' => Delivering(b) /\ b # a) /\ (Tapping(b)' => Tapping(b))
  BY <1>1 DEF Delivering, Tapping, IInv, TypeOK
<1>5. \A b \in Actors : at[b] \in Orders
  BY DEF IInv, TypeOK
<1>6. DeliverInv'
  BY <1>1, <1>2, <1>3, <1>4, <1>5 DEF IInv, DeliverInv
<1>7. TapInv'
  BY <1>1, <1>2, <1>3, <1>4, <1>5 DEF IInv, TapInv
<1>8. RatingInv'
  BY <1>1, <1>2, <1>3 DEF IInv, RatingInv
<1> QED
  BY <1>6, <1>7, <1>8

\* A press keeps the rest of it: a tap is on a rating that exists.
LEMMA PressKeeps ==
  ASSUME IInv, NEW c \in Presses, Press(c)
  PROVE  DeliverInv' /\ TapInv' /\ RatingInv'
<1>1. UNCHANGED <<status, ratings, tx, at>> /\ c \in Actors
  BY DEF Press, goalVars, rowVars, Actors
<1>2. \A b \in Actors : Delivering(b)' => Delivering(b)
  BY <1>1 DEF Press, Goto, Delivering, IInv, TypeOK, ControlInv, Sites
<1>3. \A b \in Actors : Tapping(b)' => Tapping(b) \/ (b = c /\ ratings[at[c]] > 0)
  BY <1>1 DEF Press, Goto, Tapping, IInv, TypeOK, ControlInv
<1>4. \A b \in Actors : Tapping(b)' => ratings[at[b]] = 1
  BY <1>1, <1>3 DEF IInv, TapInv, RatingInv, TypeOK
<1> QED
  BY <1>1, <1>2, <1>4 DEF IInv, DeliverInv, TapInv, RatingInv

\* Every step keeps the invariant.
LEMMA IInvStep == IInv /\ [Next]_vars => IInv'
<1> SUFFICES ASSUME IInv, [Next]_vars PROVE IInv'
  OBVIOUS
<1>1. TypeOK' /\ ControlInv'
  BY TypeStep, ControlStep DEF IInv
<1>2. DeliverInv' /\ TapInv' /\ RatingInv'
  BY Effects, QuietKeeps, MoveKeeps, RatingKeeps, PressKeeps
<1> QED
  BY <1>1, <1>2 DEF IInv

----------------------------------------------------------------------------
(* The promise is kept *)

\* A paid order has no outcome and no rating.
LEMMA PromiseInitially == Init => Promise!PromiseInit
  BY DEF Init, Promise!PromiseInit, Outcome

\* Every step is a step of the promise, or changes nothing it speaks of.
LEMMA PromiseStep ==
  ASSUME IInv, [Next]_vars
  PROVE  [Promise!PromiseNext]_(Promise!promiseVars)
<1> DEFINE outcome == [o \in Orders |-> Outcome(status[o])]
<1>1. CASE Quiet \/ \E c \in Presses : Press(c)
  <2>1. UNCHANGED <<status, ratings>>
    BY <1>1 DEF Quiet, Press, goalVars, rowVars
  <2> QED
    BY <2>1 DEF Promise!promiseVars
<1>2. ASSUME NEW a \in Actors, Moves(a)
      PROVE  [Promise!PromiseNext]_(Promise!promiseVars)
  <2> DEFINE o == at[a]
  <2>1. o \in Orders /\ ratings' = ratings
    BY <1>2 DEF IInv, TypeOK, Moves
  <2>2. outcome' = [outcome EXCEPT ![o] = Outcome(To(a))]
    BY <1>2, MoveCases, <2>1
  <2>3. CASE \/ status[o] = "ordered" /\ To(a) = "in_transit"
             \/ status[o] = "delivered" /\ To(a) = "rated"
    <3>1. Outcome(To(a)) = outcome[o]
      BY <2>1, <2>3 DEF Outcome
    <3>2. outcome' = outcome
      BY <2>1, <2>2, <3>1
    <3> QED
      BY <2>1, <3>2 DEF Promise!promiseVars
  <2>4. CASE status[o] = "in_transit" /\ To(a) \in {"delivered", "delivery_failed"}
    <3>1. outcome[o] = "open" /\ Outcome(To(a)) \in {"delivered", "failed"}
      BY <2>1, <2>4 DEF Outcome
    <3>2. Promise!Settle(o)
      BY <2>1, <2>2, <3>1 DEF Promise!Settle
    <3> QED
      BY <2>1, <3>2 DEF Promise!PromiseNext
  <2>5. CASE status[o] = "rated" /\ To(a) = "completed" /\ ratings[o] = 1
    <3>1. outcome[o] = "delivered" /\ Outcome(To(a)) = "completed"
      BY <2>1, <2>5 DEF Outcome
    <3>2. Promise!Complete(o)
      BY <2>1, <2>2, <2>5, <3>1 DEF Promise!Complete
    <3> QED
      BY <2>1, <3>2 DEF Promise!PromiseNext
  <2> QED
    BY <1>2, MoveCases, <2>3, <2>4, <2>5
<1>3. ASSUME NEW a \in Actors, CreateRating(a)
      PROVE  [Promise!PromiseNext]_(Promise!promiseVars)
  <2>1. /\ at[a] \in Orders /\ status[at[a]] = "delivered" /\ ratings[at[a]] = 0
        /\ ratings' = [ratings EXCEPT ![at[a]] = @ + 1] /\ status' = status
    BY <1>3 DEF CreateRating, At, goalVars, IInv, TypeOK, DeliverInv, Delivering
  <2>2. ratings' = [ratings EXCEPT ![at[a]] = 1]
    BY <2>1 DEF IInv, TypeOK
  <2>3. outcome[at[a]] = "delivered" /\ outcome' = outcome
    BY <2>1 DEF Outcome
  <2>4. Promise!CreateRating(at[a])
    BY <2>1, <2>2, <2>3 DEF Promise!CreateRating
  <2> QED
    BY <2>1, <2>4 DEF Promise!PromiseNext
<1> QED
  BY Effects, <1>1, <1>2, <1>3

\* However presses, poll, errors and deaths interleave, an order is delivered
\* or fails once, gets at most one rating, and only then is completed.
THEOREM Refinement == Spec => ImplementsPromise
<1>1. IInv /\ [Next]_vars => [Promise!PromiseNext]_(Promise!promiseVars)
  BY PromiseStep
<1> QED
  BY <1>1, PromiseInitially, IInvInit, IInvStep, PTL
     DEF Spec, ImplementsPromise, Promise!PromiseSpec

=============================================================================
