----------------------- MODULE ApprovalPaymentProofs -----------------------
(***************************************************************************)
(* Proofs about ApprovalPayment, for any goals, clicks, prices and budget, *)
(* with or without the agents wired in, and under any of the faults.       *)
(***************************************************************************)
EXTENDS ApprovalPayment, SumTheorems, TLAPS

USE PaymentAssumption DEF PaymentAssumption

----------------------------------------------------------------------------
(* Types *)

\* Every target of a transition is a state of the graph.
LEMMA ToIsAState ==
  ASSUME NEW c \in Clicks, pc[c] \in Sites
  PROVE  To(c) \in GoalState
  BY DEF To, Sites, GoalState

\* What the caller does with an answer keeps its control well typed.
LEMMA ControlTypes ==
  ASSUME TypeOK, NEW c \in Clicks,
         \/ Throw(c)
         \/ \E moved \in BOOLEAN : After(c, moved)
  PROVE  pc' \in [Clicks -> Labels] /\ res' \in [Clicks -> Results]
<1>1. CASE Throw(c)
  BY <1>1 DEF Throw, TypeOK, Labels, Results, Sites, InBudgetLock, BeforeDebit
<1>2. ASSUME NEW moved \in BOOLEAN, After(c, moved)
      PROVE  pc' \in [Clicks -> Labels] /\ res' \in [Clicks -> Results]
  BY <1>2 DEF After, AfterApprove, AfterQueue, AfterFail, Goto, Leave, TypeOK, Labels, Results, Sites
<1> QED
  BY <1>1, <1>2

\* The initial states are well typed.
LEMMA TypeInit == Init => TypeOK
  BY DEF Init, TypeOK, GoalState, Labels, Results, Sites, InBudgetLock, BeforeDebit

\* Every step keeps the types.
LEMMA TypeStep == TypeOK /\ [Next]_vars => TypeOK'
<1> SUFFICES ASSUME TypeOK, [Next]_vars PROVE TypeOK'
  OBVIOUS
<1> USE DEF TypeOK, Labels, Results, Sites, InBudgetLock, BeforeDebit, At, Goto, Leave,
            Proceed, goalVars, moneyVars, clickVars
<1>1. ASSUME NEW c \in Clicks, TakeLock(c)
      PROVE  TypeOK'
  <2>1. CASE ~stateLock[GoalOf[c]]
    <3>1. /\ stateLock' = [stateLock EXCEPT ![GoalOf[c]] = TRUE]
          /\ tx' = [tx EXCEPT ![c] = "cas"]
          /\ UNCHANGED <<pc, res>>
          /\ UNCHANGED <<status, options, sentStale, approver,
                         moneyVars, picked, current>>
      BY <1>1, <2>1 DEF TakeLock
    <3> QED
      BY <3>1
  <2>2. CASE stateLock[GoalOf[c]]
    <3>1. pc' \in [Clicks -> Labels] /\ res' \in [Clicks -> Results]
      BY <1>1, <2>2, ControlTypes DEF TakeLock
    <3> QED
      BY <1>1, <2>2, <3>1 DEF TakeLock, After, AfterApprove, AfterQueue, AfterFail
  <2> QED
    BY <1>1, <2>1, <2>2 DEF TakeLock
<1>2. ASSUME NEW c \in Clicks, CompareAndSet(c)
      PROVE  TypeOK'
  BY <1>2, ToIsAState DEF CompareAndSet, Matches
<1>3. ASSUME NEW c \in Clicks, GiveLock(c)
      PROVE  TypeOK'
  <2>1. pc' \in [Clicks -> Labels] /\ res' \in [Clicks -> Results]
    BY <1>3, ControlTypes DEF GiveLock
  <2> QED
    BY <1>3, <2>1 DEF GiveLock
<1>4. ASSUME NEW c \in Clicks, Look(c)
      PROVE  TypeOK'
  BY <1>4, ControlTypes DEF Look
<1>5. ASSUME NEW c \in Clicks, RecordApproval(c)
      PROVE  TypeOK'
  BY <1>5, ControlTypes DEF RecordApproval
<1>6. ASSUME NEW c \in Clicks, CheckFreshness(c)
      PROVE  TypeOK'
  BY <1>6, ControlTypes DEF CheckFreshness
<1>7. ASSUME NEW c \in Clicks, Refetch(c)
      PROVE  TypeOK'
  BY <1>7, ControlTypes DEF Refetch
<1>8. ASSUME NEW c \in Clicks, NotifyApprover(c)
      PROVE  TypeOK'
  BY <1>8, ControlTypes DEF NotifyApprover
<1>9. ASSUME NEW c \in Clicks, ReadCurrent(c)
      PROVE  TypeOK'
  BY <1>9 DEF ReadCurrent
<1>10. ASSUME NEW c \in Clicks, CreateOrder(c)
       PROVE  TypeOK'
  BY <1>10, ControlTypes DEF CreateOrder
<1>11. ASSUME NEW c \in Clicks, AcquireBudget(c)
       PROVE  TypeOK'
  BY <1>11, ControlTypes DEF AcquireBudget, BudgetLockFree
<1>12. ASSUME NEW c \in Clicks, CheckBudget(c)
       PROVE  TypeOK'
  BY <1>12, ControlTypes DEF CheckBudget, OverBudget
<1>13. ASSUME NEW c \in Clicks, Pay(c)
       PROVE  TypeOK'
  BY <1>13, ControlTypes DEF Pay
<1>14. ASSUME NEW c \in Clicks, RecordSpend(c)
       PROVE  TypeOK'
  BY <1>14, ControlTypes DEF RecordSpend, Debit
<1>15. ASSUME NEW c \in Clicks, ReleaseBudget(c)
       PROVE  TypeOK'
  BY <1>15, ControlTypes DEF ReleaseBudget
<1>16. ASSUME NEW c \in Clicks, Error(c)
       PROVE  TypeOK'
  BY <1>16, ControlTypes DEF Error
<1>17. ASSUME NEW c \in Clicks, TransitionError(c)
       PROVE  TypeOK'
  <2>1. pc' \in [Clicks -> Labels] /\ res' \in [Clicks -> Results]
    BY <1>17, ControlTypes DEF TransitionError, Matches
  <2>2. status' \in [Goals -> GoalState]
    BY <1>17, ToIsAState DEF TransitionError, Matches
  <2>3. stateLock' \in [Goals -> BOOLEAN]
    BY <1>17 DEF TransitionError, Matches
  <2> QED
    BY <1>17, <2>1, <2>2, <2>3 DEF TransitionError
<1>18. ASSUME NEW c \in Clicks, Crash(c)
       PROVE  TypeOK'
  BY <1>18 DEF Crash
<1>19. ASSUME NEW g \in Goals, Age(g)
       PROVE  TypeOK'
  BY <1>19 DEF Age
<1>20. ASSUME NEW g \in Goals, ExpireState(g)
       PROVE  TypeOK'
  BY <1>20 DEF ExpireState
<1>21. CASE ExpireBudget
  BY <1>21 DEF ExpireBudget
<1>22. CASE UNCHANGED vars
  BY <1>22 DEF vars
<1> QED
  BY <1>1, <1>2, <1>3, <1>4, <1>5, <1>6, <1>7, <1>8, <1>9, <1>10,
     <1>11, <1>12, <1>13, <1>14, <1>15, <1>16, <1>17, <1>18, <1>19, <1>20,
     <1>21, <1>22
     DEF Next, Step, Fault

\* The types of the variables hold in every reachable state.
THEOREM TypeCorrect == Spec => []TypeOK
<1> QED
  BY TypeInit, TypeStep, PTL DEF Spec

----------------------------------------------------------------------------
(* At most one payment per goal.  A click that won a goal drives it until  *)
(* its handler ends or hands the goal back for re-approval.  While it      *)
(* does, and for ever after a payment, the goal's state is none a click    *)
(* can win it from, so the goal never gets a second driver.                *)

Closed == {"approved", "payment_queued", "ordered", "payment_failed"}

Won == {"record", "fresh", "refetch", "notify", "recheck", "order_row",
        "queue", "budget", "check", "pay", "debit", "unlock", "order", "fail"}

Drives(c) ==
  \/ pc[c] \in Won
  \/ pc[c] = "approve" /\ tx[c] = "won"
  \/ pc[c] = "requeue" /\ tx[c] \in {"lock", "cas"}

InTransition ==
  \A c \in Clicks : tx[c] # "lock" => pc[c] \in Sites

DrivenIsClosed ==
  \A c \in Clicks : Drives(c) => status[GoalOf[c]] \in Closed

OneDriver ==
  \A c, d \in Clicks :
    Drives(c) /\ Drives(d) /\ GoalOf[c] = GoalOf[d] => c = d

PayerDrove ==
  \A c \in charged :
    /\ pc[c] \in {"debit", "unlock", "order", "fail", "done"}
    /\ \A d \in Clicks : Drives(d) /\ GoalOf[d] = GoalOf[c] => d = c

DriveInv ==
  /\ TypeOK /\ InTransition /\ DrivenIsClosed /\ OneDriver /\ PayerDrove
  /\ PaidGoalIsClosed /\ SinglePayment

\* Most steps only move one click: it may stop driving its goal, none starts.
PaidLabels == {"debit", "unlock", "order", "fail", "done"}

Quiet ==
  /\ UNCHANGED <<status, charged>>
  /\ InTransition'
  /\ \A d \in Clicks : Drives(d)' => Drives(d)
  /\ \A d \in charged : pc'[d] \in PaidLabels

\* Such a step keeps the invariant.
LEMMA QuietKeeps ==
  ASSUME DriveInv, TypeOK', Quiet
  PROVE  DriveInv'
<1>1. /\ status' = status /\ charged' = charged /\ charged \subseteq Clicks
      /\ \A d \in Clicks : Drives(d)' => Drives(d)
  BY DEF Quiet, DriveInv, TypeOK
<1>2. DrivenIsClosed' /\ OneDriver'
  BY <1>1 DEF DriveInv, DrivenIsClosed, OneDriver
<1>3. PayerDrove'
  BY <1>1 DEF Quiet, PaidLabels, DriveInv, PayerDrove
<1>4. PaidGoalIsClosed' /\ SinglePayment'
  BY <1>1 DEF DriveInv, PaidGoalIsClosed, SinglePayment
<1> QED
  BY <1>2, <1>3, <1>4 DEF Quiet, DriveInv

\* Every step but a compare-and-set and a payment is such a step.
LEMMA MostAreQuiet ==
  ASSUME TypeOK, InTransition, PayerDrove, [Next]_vars,
         ~\E c \in Clicks : CompareAndSet(c) \/ Pay(c) \/ TransitionError(c)
  PROVE  Quiet
<1> USE DEF TypeOK, InTransition, PayerDrove, PaidLabels, Drives, Won, Quiet,
            Sites, InBudgetLock, BeforeDebit, At, Goto, Leave, Throw, Proceed, goalVars,
            moneyVars, clickVars
<1>1. ASSUME NEW c \in Clicks, GiveLock(c)
      PROVE  Quiet
  <2>1. UNCHANGED <<status, charged>> /\ tx' = [tx EXCEPT ![c] = "lock"]
        /\ tx[c] \in {"won", "lost"}
    BY <1>1 DEF GiveLock
  <2>2. CASE pc[c] = "approve"
    BY <1>1, <2>1, <2>2 DEF GiveLock, After, AfterApprove, AfterQueue, AfterFail
  <2>3. CASE pc[c] \in {"reject", "requeue"}
    BY <1>1, <2>1, <2>3 DEF GiveLock, After, AfterApprove, AfterQueue, AfterFail
  <2>4. CASE pc[c] \in {"queue", "order", "fail"}
    BY <1>1, <2>1, <2>4 DEF GiveLock, After, AfterApprove, AfterQueue, AfterFail
  <2> QED
    BY <2>1, <2>2, <2>3, <2>4
<1>2. ASSUME NEW c \in Clicks, TakeLock(c)
      PROVE  Quiet
  BY <1>2 DEF TakeLock, After, AfterApprove, AfterQueue, AfterFail
<1>3. ASSUME NEW c \in Clicks, Look(c)
      PROVE  Quiet
  BY <1>3 DEF Look
<1>4. ASSUME NEW c \in Clicks, RecordApproval(c)
      PROVE  Quiet
  BY <1>4 DEF RecordApproval
<1>5. ASSUME NEW c \in Clicks, CheckFreshness(c)
      PROVE  Quiet
  BY <1>5 DEF CheckFreshness
<1>6. ASSUME NEW c \in Clicks, Refetch(c)
      PROVE  Quiet
  BY <1>6 DEF Refetch
<1>7. ASSUME NEW c \in Clicks, NotifyApprover(c)
      PROVE  Quiet
  BY <1>7 DEF NotifyApprover
<1>8. ASSUME NEW c \in Clicks, ReadCurrent(c)
      PROVE  Quiet
  BY <1>8 DEF ReadCurrent
<1>9. ASSUME NEW c \in Clicks, CreateOrder(c)
      PROVE  Quiet
  BY <1>9 DEF CreateOrder
<1>10. ASSUME NEW c \in Clicks, AcquireBudget(c)
       PROVE  Quiet
  BY <1>10 DEF AcquireBudget, BudgetLockFree
<1>11. ASSUME NEW c \in Clicks, CheckBudget(c)
       PROVE  Quiet
  BY <1>11 DEF CheckBudget, OverBudget
<1>12. ASSUME NEW c \in Clicks, RecordSpend(c)
       PROVE  Quiet
  BY <1>12 DEF RecordSpend, Debit
<1>13. ASSUME NEW c \in Clicks, ReleaseBudget(c)
       PROVE  Quiet
  BY <1>13 DEF ReleaseBudget
<1>14. ASSUME NEW c \in Clicks, Error(c)
       PROVE  Quiet
  BY <1>14 DEF Error
<1>15. ASSUME NEW c \in Clicks, Crash(c)
       PROVE  Quiet
  BY <1>15 DEF Crash
<1>16. ASSUME NEW g \in Goals, Age(g)
       PROVE  Quiet
  BY <1>16 DEF Age
<1>17. ASSUME NEW g \in Goals, ExpireState(g)
       PROVE  Quiet
  BY <1>17 DEF ExpireState
<1>18. CASE ExpireBudget
  BY <1>18 DEF ExpireBudget
<1>19. CASE UNCHANGED vars
  BY <1>19 DEF vars
<1> QED
  BY <1>1, <1>2, <1>3, <1>4, <1>5, <1>6, <1>7, <1>8, <1>9, <1>10,
     <1>11, <1>12, <1>13, <1>14, <1>15, <1>16, <1>17, <1>18, <1>19
     DEF Next, Step, Fault

\* The invariant is kept by every step.
LEMMA DriveStep ==
  ASSUME DriveInv, [Next]_vars
  PROVE  DriveInv'
<1> TypeOK'
  BY TypeStep DEF DriveInv
<1> USE DEF DriveInv, TypeOK, InTransition, DrivenIsClosed, OneDriver,
            PayerDrove, PaidGoalIsClosed, SinglePayment, Drives, Won, Closed,
            Sites, InBudgetLock, BeforeDebit, At, Goto, Leave, Throw, Proceed, goalVars,
            moneyVars, clickVars
<1>1. ASSUME NEW c \in Clicks, CompareAndSet(c)
      PROVE  DriveInv'
  <2>1. CASE tx'[c] = "lost"
    <3>1. UNCHANGED <<status, charged, pc>> /\ tx' = [tx EXCEPT ![c] = "lost"]
      BY <1>1, <2>1 DEF CompareAndSet, Matches
    <3> QED
      BY <1>1, <3>1 DEF CompareAndSet, Matches
  <2>2. CASE tx'[c] = "won"
    <3>1. /\ UNCHANGED <<charged, pc>>
          /\ tx[c] = "cas" /\ tx' = [tx EXCEPT ![c] = "won"]
          /\ status[GoalOf[c]] = From(c) /\ pc[c] \in Sites
          /\ status' = [status EXCEPT ![GoalOf[c]] = To(c)]
      BY <1>1, <2>2 DEF CompareAndSet, Matches
    <3>2. CASE pc[c] = "approve"
      <4>1. From(c) = "pending_approval" /\ To(c) = "approved"
        BY <3>2 DEF From, To
      <4>2. status[GoalOf[c]] \notin Closed
        BY <3>1, <4>1
      <4>3. \A d \in Clicks : Drives(d) => GoalOf[d] # GoalOf[c]
        BY <4>2
      <4>4. \A d \in charged : GoalOf[d] # GoalOf[c]
        BY <4>2
      <4> QED
        BY <3>1, <3>2, <4>1, <4>3, <4>4
    <3>3. CASE pc[c] = "reject"
      BY <3>1, <3>3 DEF From, To
    <3>4. CASE pc[c] = "requeue"
      BY <3>1, <3>4 DEF To
    <3>5. CASE pc[c] \in {"queue", "order", "fail"}
      BY <3>1, <3>5 DEF To
    <3> QED
      BY <3>1, <3>2, <3>3, <3>4, <3>5
  <2> QED
    BY <1>1, <2>1, <2>2 DEF CompareAndSet, Matches
<1>2. ASSUME NEW c \in Clicks, Pay(c)
      PROVE  DriveInv'
  BY <1>2 DEF Pay
<1>3. ASSUME NEW c \in Clicks, TransitionError(c)
      PROVE  DriveInv'
  BY <1>3 DEF TransitionError, From, To, Matches
<1>4. CASE ~\E c \in Clicks : CompareAndSet(c) \/ Pay(c) \/ TransitionError(c)
  BY <1>4, MostAreQuiet, QuietKeeps
<1> QED
  BY <1>1, <1>2, <1>3, <1>4

\* No click drives a goal at first.
LEMMA DriveInvInit == Init => DriveInv
  BY TypeInit DEF Init, DriveInv, InTransition, DrivenIsClosed, OneDriver,
                  PayerDrove, PaidGoalIsClosed, SinglePayment, Drives, Won

\* DriveInv holds in every reachable state.
LEMMA DriveInvThm == Spec => []DriveInv
<1>1. DriveInv /\ [Next]_vars => DriveInv'
  BY DriveStep
<1> QED
  BY <1>1, DriveInvInit, PTL DEF Spec

\* No goal is ever paid for twice, however many clicks race for it, whatever
\* command fails and whoever crashes, even if payers outlast their lease.
THEOREM SinglePaymentThm == Spec => []SinglePayment
<1>1. DriveInv => SinglePayment
  BY DEF DriveInv
<1> QED
  BY <1>1, DriveInvThm, PTL

\* A goal that was paid for can no longer be rejected or approved again.
THEOREM PaidGoalIsClosedThm == Spec => []PaidGoalIsClosed
<1>1. DriveInv => PaidGoalIsClosed
  BY DEF DriveInv
<1> QED
  BY <1>1, DriveInvThm, PTL

----------------------------------------------------------------------------
(* The approval that is recorded is the payer's.  Only the driver of a     *)
(* goal records an approval, and it does so before it goes on.             *)

DriverRecorded ==
  \A c \in Clicks :
    Drives(c) /\ pc[c] \notin {"approve", "record"} => approver[GoalOf[c]] = c

ApproverInv == DriverRecorded /\ PayerIsApprover

\* The recorded approval is only overwritten by the goal's one driver.
LEMMA ApproverStep ==
  ASSUME DriveInv, ApproverInv, [Next]_vars
  PROVE  ApproverInv'
<1> USE DEF DriveInv, ApproverInv, TypeOK, InTransition, OneDriver,
            PayerDrove, DriverRecorded, PayerIsApprover, Drives, Won,
            Sites, InBudgetLock, BeforeDebit, At, Goto, Leave, Throw, Proceed, goalVars,
            moneyVars, clickVars
<1>1. ASSUME NEW c \in Clicks, TakeLock(c)
      PROVE  ApproverInv'
  BY <1>1 DEF TakeLock, After, AfterApprove, AfterQueue, AfterFail
<1>2. ASSUME NEW c \in Clicks, CompareAndSet(c)
      PROVE  ApproverInv'
  BY <1>2 DEF CompareAndSet, Matches
<1>3. ASSUME NEW c \in Clicks, GiveLock(c)
      PROVE  ApproverInv'
  BY <1>3 DEF GiveLock, After, AfterApprove, AfterQueue, AfterFail
<1>4. ASSUME NEW c \in Clicks, Look(c)
      PROVE  ApproverInv'
  BY <1>4 DEF Look
<1>5. ASSUME NEW c \in Clicks, RecordApproval(c)
      PROVE  ApproverInv'
  BY <1>5 DEF RecordApproval
<1>6. ASSUME NEW c \in Clicks, CheckFreshness(c)
      PROVE  ApproverInv'
  BY <1>6 DEF CheckFreshness
<1>7. ASSUME NEW c \in Clicks, Refetch(c)
      PROVE  ApproverInv'
  BY <1>7 DEF Refetch
<1>8. ASSUME NEW c \in Clicks, NotifyApprover(c)
      PROVE  ApproverInv'
  BY <1>8 DEF NotifyApprover
<1>9. ASSUME NEW c \in Clicks, ReadCurrent(c)
      PROVE  ApproverInv'
  BY <1>9 DEF ReadCurrent
<1>10. ASSUME NEW c \in Clicks, CreateOrder(c)
       PROVE  ApproverInv'
  BY <1>10 DEF CreateOrder
<1>11. ASSUME NEW c \in Clicks, AcquireBudget(c)
       PROVE  ApproverInv'
  BY <1>11 DEF AcquireBudget, BudgetLockFree
<1>12. ASSUME NEW c \in Clicks, CheckBudget(c)
       PROVE  ApproverInv'
  BY <1>12 DEF CheckBudget, OverBudget
<1>13. ASSUME NEW c \in Clicks, Pay(c)
       PROVE  ApproverInv'
  BY <1>13 DEF Pay
<1>14. ASSUME NEW c \in Clicks, RecordSpend(c)
       PROVE  ApproverInv'
  BY <1>14 DEF RecordSpend, Debit
<1>15. ASSUME NEW c \in Clicks, ReleaseBudget(c)
       PROVE  ApproverInv'
  BY <1>15 DEF ReleaseBudget
<1>16. ASSUME NEW c \in Clicks, Error(c)
       PROVE  ApproverInv'
  BY <1>16 DEF Error
<1>17. ASSUME NEW c \in Clicks, TransitionError(c)
       PROVE  ApproverInv'
  BY <1>17 DEF TransitionError, Matches
<1>18. ASSUME NEW c \in Clicks, Crash(c)
       PROVE  ApproverInv'
  BY <1>18 DEF Crash
<1>19. ASSUME NEW g \in Goals, Age(g)
       PROVE  ApproverInv'
  BY <1>19 DEF Age
<1>20. ASSUME NEW g \in Goals, ExpireState(g)
       PROVE  ApproverInv'
  BY <1>20 DEF ExpireState
<1>21. CASE ExpireBudget
  BY <1>21 DEF ExpireBudget
<1>22. CASE UNCHANGED vars
  BY <1>22 DEF vars
<1> QED
  BY <1>1, <1>2, <1>3, <1>4, <1>5, <1>6, <1>7, <1>8, <1>9, <1>10,
     <1>11, <1>12, <1>13, <1>14, <1>15, <1>16, <1>17, <1>18, <1>19, <1>20,
     <1>21, <1>22
     DEF Next, Step, Fault

\* The option and time recorded for a paid goal are those of the click that
\* paid.
THEOREM PayerIsApproverThm == Spec => []PayerIsApprover
<1>1. Init => ApproverInv
  BY DEF Init, ApproverInv, DriverRecorded, PayerIsApprover, Drives, Won
<1>2. DriveInv /\ ApproverInv /\ [Next]_vars => ApproverInv'
  BY ApproverStep
<1>3. ApproverInv => PayerIsApprover
  BY DEF ApproverInv
<1> QED
  BY <1>1, <1>2, <1>3, DriveInvThm, PTL DEF Spec

----------------------------------------------------------------------------
(* What is paid for is still on offer.  Options are only replaced for a    *)
(* goal whose staleness clock ran out, and that clock is never reset, so a *)
(* click that found the clock running has the only options there ever were *)

OptionInv ==
  /\ \A g \in Goals : options[g] > 0 => sentStale[g]
  /\ \A c \in Clicks : pc[c] = "refetch" => sentStale[GoalOf[c]]
  /\ \A c \in Clicks : picked[c] <= options[GoalOf[c]]
  /\ \A c \in Clicks :
       pc[c] \in {"order_row", "queue", "budget", "check", "pay"} =>
         picked[c] = options[GoalOf[c]]

\* Options are only replaced where the clock has run out.
LEMMA OptionStep ==
  ASSUME DriveInv, OptionInv, [Next]_vars
  PROVE  OptionInv'
<1> USE DEF DriveInv, OptionInv, TypeOK, InTransition, OneDriver, Drives, Won,
            Sites, InBudgetLock, BeforeDebit, At, Goto, Leave, Throw, Proceed, goalVars,
            moneyVars, clickVars
<1>1. ASSUME NEW c \in Clicks, TakeLock(c)
      PROVE  OptionInv'
  BY <1>1 DEF TakeLock, After, AfterApprove, AfterQueue, AfterFail
<1>2. ASSUME NEW c \in Clicks, CompareAndSet(c)
      PROVE  OptionInv'
  BY <1>2 DEF CompareAndSet, Matches
<1>3. ASSUME NEW c \in Clicks, GiveLock(c)
      PROVE  OptionInv'
  BY <1>3 DEF GiveLock, After, AfterApprove, AfterQueue, AfterFail
<1>4. ASSUME NEW c \in Clicks, Look(c)
      PROVE  OptionInv'
  BY <1>4 DEF Look
<1>5. ASSUME NEW c \in Clicks, RecordApproval(c)
      PROVE  OptionInv'
  BY <1>5 DEF RecordApproval
<1>6. ASSUME NEW c \in Clicks, CheckFreshness(c)
      PROVE  OptionInv'
  BY <1>6 DEF CheckFreshness
<1>7. ASSUME NEW c \in Clicks, Refetch(c)
      PROVE  OptionInv'
  BY <1>7 DEF Refetch
<1>8. ASSUME NEW c \in Clicks, NotifyApprover(c)
      PROVE  OptionInv'
  BY <1>8 DEF NotifyApprover
<1>9. ASSUME NEW c \in Clicks, ReadCurrent(c)
      PROVE  OptionInv'
  BY <1>9 DEF ReadCurrent
<1>10. ASSUME NEW c \in Clicks, CreateOrder(c)
       PROVE  OptionInv'
  BY <1>10 DEF CreateOrder
<1>11. ASSUME NEW c \in Clicks, AcquireBudget(c)
       PROVE  OptionInv'
  BY <1>11 DEF AcquireBudget, BudgetLockFree
<1>12. ASSUME NEW c \in Clicks, CheckBudget(c)
       PROVE  OptionInv'
  BY <1>12 DEF CheckBudget, OverBudget
<1>13. ASSUME NEW c \in Clicks, Pay(c)
       PROVE  OptionInv'
  BY <1>13 DEF Pay
<1>14. ASSUME NEW c \in Clicks, RecordSpend(c)
       PROVE  OptionInv'
  BY <1>14 DEF RecordSpend, Debit
<1>15. ASSUME NEW c \in Clicks, ReleaseBudget(c)
       PROVE  OptionInv'
  BY <1>15 DEF ReleaseBudget
<1>16. ASSUME NEW c \in Clicks, Error(c)
       PROVE  OptionInv'
  BY <1>16 DEF Error
<1>17. ASSUME NEW c \in Clicks, TransitionError(c)
       PROVE  OptionInv'
  BY <1>17 DEF TransitionError, Matches
<1>18. ASSUME NEW c \in Clicks, Crash(c)
       PROVE  OptionInv'
  BY <1>18 DEF Crash
<1>19. ASSUME NEW g \in Goals, Age(g)
       PROVE  OptionInv'
  BY <1>19 DEF Age
<1>20. ASSUME NEW g \in Goals, ExpireState(g)
       PROVE  OptionInv'
  BY <1>20 DEF ExpireState
<1>21. CASE ExpireBudget
  BY <1>21 DEF ExpireBudget
<1>22. CASE UNCHANGED vars
  BY <1>22 DEF vars
<1> QED
  BY <1>1, <1>2, <1>3, <1>4, <1>5, <1>6, <1>7, <1>8, <1>9, <1>10,
     <1>11, <1>12, <1>13, <1>14, <1>15, <1>16, <1>17, <1>18, <1>19, <1>20,
     <1>21, <1>22
     DEF Next, Step, Fault

\* The provider charges a click's order only in that click's payment.
LEMMA OnlyPayCharges ==
  ASSUME [Next]_vars, NEW c \in charged', c \notin charged
  PROVE  c \in Clicks /\ pc[c] = "pay" /\ UNCHANGED <<picked, options>>
<1> USE DEF goalVars, moneyVars, clickVars
<1>1. ASSUME NEW d \in Clicks, Pay(d)
      PROVE  c = d /\ pc[c] = "pay" /\ UNCHANGED <<picked, options>>
  BY <1>1 DEF Pay, At
<1>2. ASSUME NEW d \in Clicks,
             \/ TakeLock(d) \/ CompareAndSet(d) \/ GiveLock(d) \/ Look(d)
             \/ RecordApproval(d) \/ CheckFreshness(d) \/ Refetch(d)
             \/ NotifyApprover(d) \/ ReadCurrent(d) \/ CreateOrder(d)
             \/ AcquireBudget(d) \/ CheckBudget(d) \/ RecordSpend(d)
             \/ ReleaseBudget(d) \/ Fault(d)
      PROVE  charged' = charged
  BY <1>2 DEF TakeLock, CompareAndSet, GiveLock, Look, RecordApproval,
              CheckFreshness, Refetch, NotifyApprover, ReadCurrent,
              CreateOrder, AcquireBudget, CheckBudget, RecordSpend,
              ReleaseBudget, Fault, Error, TransitionError, Crash
<1>3. CASE (\E g \in Goals : Age(g) \/ ExpireState(g)) \/ ExpireBudget
  BY <1>3 DEF Age, ExpireState, ExpireBudget
<1>4. CASE UNCHANGED vars
  BY <1>4 DEF vars
<1> QED
  BY <1>1, <1>2, <1>3, <1>4 DEF Next, Step

\* No click pays for an option that was replaced after it was chosen.
THEOREM PaysCurrentOptionThm == Spec => PaysCurrentOption
<1> DEFINE Inv == DriveInv /\ OptionInv
           Current == \A c \in charged' \ charged : picked[c] = options[GoalOf[c]]
<1>1. Init => OptionInv
  BY DEF Init, OptionInv
<1>2. Inv /\ [Next]_vars => OptionInv'
  BY OptionStep
<1>3. Inv /\ [Next]_vars => [Current]_vars
  <2> SUFFICES ASSUME Inv, [Next]_vars, NEW c \in charged', c \notin charged
               PROVE  picked[c] = options[GoalOf[c]]
    OBVIOUS
  <2>1. c \in Clicks /\ pc[c] = "pay"
    BY OnlyPayCharges
  <2> QED
    BY <2>1 DEF OptionInv
<1> QED
  BY <1>1, <1>2, <1>3, DriveInvThm, PTL DEF Spec, PaysCurrentOption
----------------------------------------------------------------------------
(* What a click is told agrees with what was spent.  A click creates its   *)
(* order only when it can no longer be told that it lost, and it reaches   *)
(* the last transition only with its charge and its row in the ledger.     *)

BeforeOrder == {"look", "approve", "reject", "record", "fresh", "refetch",
                "notify", "recheck", "requeue", "order_row"}

SpendsLate ==
  \A c \in Clicks : pc[c] \in BeforeOrder => c \notin orders \cup charged \cup ledger

PaidOnTheWay ==
  \A c \in Clicks :
    /\ pc[c] = "debit" => c \in charged
    /\ pc[c] = "order" \/ (pc[c] = "unlock" /\ res[c] = "none") =>
         c \in charged \cap ledger

AnswersAreLast ==
  \A c \in Clicks :
    res[c] \in {"conflict", "not_found", "re_approval", "cancelled", "ordered"} =>
      pc[c] = "done"

LedgerOfCharged == ledger \subseteq charged

AnswerInv ==
  /\ SpendsLate /\ PaidOnTheWay /\ AnswersAreLast
  /\ LedgerOfCharged /\ LosersSpendNothing /\ OrderedIsPaid

\* Every step keeps answers and money in agreement.
LEMMA AnswerStep ==
  ASSUME TypeOK, InTransition, AnswerInv, [Next]_vars
  PROVE  AnswerInv'
<1> USE DEF AnswerInv, TypeOK, InTransition, SpendsLate, PaidOnTheWay,
            AnswersAreLast, LedgerOfCharged, LosersSpendNothing, OrderedIsPaid,
            BeforeOrder, Sites, InBudgetLock, BeforeDebit, At, Goto, Leave, Throw, Proceed,
            goalVars, moneyVars, clickVars
<1>1. ASSUME NEW c \in Clicks, TakeLock(c)
      PROVE  AnswerInv'
  BY <1>1 DEF TakeLock, After, AfterApprove, AfterQueue, AfterFail
<1>2. ASSUME NEW c \in Clicks, CompareAndSet(c)
      PROVE  AnswerInv'
  BY <1>2 DEF CompareAndSet, Matches
<1>3. ASSUME NEW c \in Clicks, GiveLock(c)
      PROVE  AnswerInv'
  BY <1>3 DEF GiveLock, After, AfterApprove, AfterQueue, AfterFail
<1>4. ASSUME NEW c \in Clicks, Look(c)
      PROVE  AnswerInv'
  BY <1>4 DEF Look
<1>5. ASSUME NEW c \in Clicks, RecordApproval(c)
      PROVE  AnswerInv'
  BY <1>5 DEF RecordApproval
<1>6. ASSUME NEW c \in Clicks, CheckFreshness(c)
      PROVE  AnswerInv'
  BY <1>6 DEF CheckFreshness
<1>7. ASSUME NEW c \in Clicks, Refetch(c)
      PROVE  AnswerInv'
  BY <1>7 DEF Refetch
<1>8. ASSUME NEW c \in Clicks, NotifyApprover(c)
      PROVE  AnswerInv'
  BY <1>8 DEF NotifyApprover
<1>9. ASSUME NEW c \in Clicks, ReadCurrent(c)
      PROVE  AnswerInv'
  BY <1>9 DEF ReadCurrent
<1>10. ASSUME NEW c \in Clicks, CreateOrder(c)
       PROVE  AnswerInv'
  BY <1>10 DEF CreateOrder
<1>11. ASSUME NEW c \in Clicks, AcquireBudget(c)
       PROVE  AnswerInv'
  BY <1>11 DEF AcquireBudget, BudgetLockFree
<1>12. ASSUME NEW c \in Clicks, CheckBudget(c)
       PROVE  AnswerInv'
  BY <1>12 DEF CheckBudget, OverBudget
<1>13. ASSUME NEW c \in Clicks, Pay(c)
       PROVE  AnswerInv'
  BY <1>13 DEF Pay
<1>14. ASSUME NEW c \in Clicks, RecordSpend(c)
       PROVE  AnswerInv'
  BY <1>14 DEF RecordSpend, Debit
<1>15. ASSUME NEW c \in Clicks, ReleaseBudget(c)
       PROVE  AnswerInv'
  BY <1>15 DEF ReleaseBudget
<1>16. ASSUME NEW c \in Clicks, Error(c)
       PROVE  AnswerInv'
  BY <1>16 DEF Error
<1>17. ASSUME NEW c \in Clicks, TransitionError(c)
       PROVE  AnswerInv'
  BY <1>17 DEF TransitionError, Matches
<1>18. ASSUME NEW c \in Clicks, Crash(c)
       PROVE  AnswerInv'
  BY <1>18 DEF Crash
<1>19. ASSUME NEW g \in Goals, Age(g) \/ ExpireState(g)
       PROVE  AnswerInv'
  BY <1>19 DEF Age, ExpireState
<1>20. CASE ExpireBudget
  BY <1>20 DEF ExpireBudget
<1>21. CASE UNCHANGED vars
  BY <1>21 DEF vars
<1> QED
  BY <1>1, <1>2, <1>3, <1>4, <1>5, <1>6, <1>7, <1>8, <1>9, <1>10,
     <1>11, <1>12, <1>13, <1>14, <1>15, <1>16, <1>17, <1>18, <1>19, <1>20,
     <1>21
     DEF Next, Step, Fault

\* Answers and money agree in every reachable state.
LEMMA AnswerInvThm == Spec => []AnswerInv
<1>1. Init => AnswerInv
  BY DEF Init, AnswerInv, SpendsLate, PaidOnTheWay, AnswersAreLast,
         LedgerOfCharged, LosersSpendNothing, OrderedIsPaid
<1>2. DriveInv /\ AnswerInv /\ [Next]_vars => AnswerInv'
  BY AnswerStep DEF DriveInv
<1> QED
  BY <1>1, <1>2, DriveInvThm, PTL DEF Spec

----------------------------------------------------------------------------
(* The running total.  The ledger grows by one row at a time, hence it is  *)
(* finite however many clicks there are, and a row that is not in it yet   *)
(* adds its price to the sum.                                              *)

TotalIsSum == IsFiniteSet(ledger) /\ spent = SumFunctionOnSet(PriceOf, ledger)

\* The debit of an order is the only step that changes total or ledger.
LEMMA OnlyDebitsSpend ==
  ASSUME [Next]_vars, \A c \in Clicks : ~RecordSpend(c)
  PROVE  UNCHANGED <<spent, ledger>>
<1> USE DEF moneyVars
<1>1. ASSUME NEW c \in Clicks,
             \/ TakeLock(c) \/ CompareAndSet(c) \/ GiveLock(c) \/ Look(c)
             \/ RecordApproval(c) \/ CheckFreshness(c) \/ Refetch(c)
             \/ NotifyApprover(c) \/ ReadCurrent(c)
      PROVE  UNCHANGED <<spent, ledger>>
  BY <1>1 DEF TakeLock, CompareAndSet, GiveLock, Look, RecordApproval,
              CheckFreshness, Refetch, NotifyApprover, ReadCurrent
<1>2. ASSUME NEW c \in Clicks,
             \/ CreateOrder(c) \/ AcquireBudget(c) \/ CheckBudget(c) \/ Pay(c)
             \/ ReleaseBudget(c) \/ Error(c) \/ TransitionError(c) \/ Crash(c)
      PROVE  UNCHANGED <<spent, ledger>>
  BY <1>2 DEF CreateOrder, AcquireBudget, CheckBudget, Pay, ReleaseBudget,
              Error, TransitionError, Crash
<1>3. ASSUME \/ \E g \in Goals : Age(g) \/ ExpireState(g)
             \/ ExpireBudget
             \/ UNCHANGED vars
      PROVE  UNCHANGED <<spent, ledger>>
  BY <1>3 DEF Age, ExpireState, ExpireBudget, vars
<1> QED
  BY <1>1, <1>2, <1>3 DEF Next, Step, Fault

\* A debit keeps the total the sum of the rows.
LEMMA DebitKeepsTotal ==
  ASSUME TypeOK, TotalIsSum, NEW c \in Clicks, RecordSpend(c)
  PROVE  TotalIsSum'
<1>1. CASE c \in ledger
  BY <1>1 DEF RecordSpend, TotalIsSum
<1>2. CASE c \notin ledger
  <2>1. spent' = spent + PriceOf[c] /\ ledger' = ledger \cup {c}
    BY <1>2 DEF RecordSpend, Debit, PriceOf
  <2>2. /\ IsFiniteSet(ledger) /\ spent = SumFunctionOnSet(PriceOf, ledger)
        /\ spent \in Int
    BY DEF TotalIsSum, TypeOK
  <2>3. \A d \in ledger \cup {c} : PriceOf[d] \in Int
    BY DEF TypeOK, PriceOf
  <2>4. SumFunctionOnSet(PriceOf, ledger \cup {c}) = PriceOf[c] + spent
    BY <1>2, <2>2, <2>3, SumWith
  <2>5. IsFiniteSet(ledger \cup {c})
    BY <2>2, FS_AddElement
  <2> QED
    BY <2>1, <2>2, <2>3, <2>4, <2>5 DEF TotalIsSum
<1> QED
  BY <1>1, <1>2

\* The total is the sum of the rows in every reachable state.
LEMMA TotalIsSumThm == Spec => []TotalIsSum
<1>1. Init => TotalIsSum
  BY SumOfNone, FS_EmptySet DEF Init, TotalIsSum
<1>2. TypeOK /\ TotalIsSum /\ [Next]_vars => TotalIsSum'
  <2> SUFFICES ASSUME TypeOK, TotalIsSum, [Next]_vars PROVE TotalIsSum'
    OBVIOUS
  <2>1. CASE \E c \in Clicks : RecordSpend(c)
    BY <2>1, DebitKeepsTotal
  <2>2. CASE \A c \in Clicks : ~RecordSpend(c)
    BY <2>2, OnlyDebitsSpend DEF TotalIsSum
  <2> QED
    BY <2>1, <2>2
<1> QED
  BY <1>1, <1>2, TypeCorrect, PTL DEF Spec

\* A click that is told it lost, found nothing, must re-approve or rejected
\* has spent nothing, one that is told "ordered" was charged and debited, and
\* the running total is the sum of the rows of charged orders.
THEOREM AnswersMatchMoneyThm == Spec => []AnswersMatchMoney
<1>1. AnswerInv /\ TotalIsSum => AnswersMatchMoney
  BY DEF AnswerInv, LedgerOfCharged, TotalIsSum, AnswersMatchMoney,
         LedgerIsSound
<1> QED
  BY <1>1, AnswerInvThm, TotalIsSumThm, PTL

----------------------------------------------------------------------------
(* The budget.  Whoever passed the check and kept the lock finds the check *)
(* still standing, since only payers that lost the lock debit beside it,   *)
(* and what they debit is overdrawn by definition.                         *)

HoldsBudgetLock ==
  \A c \in Clicks : pc[c] \in BeforeDebit /\ c \notin overrun => budgetLock = c

CheckStands ==
  \A c \in Clicks :
    pc[c] \in {"pay", "debit"} /\ c \notin overrun =>
      spent + PriceOf[c] <= Limit + Overdrawn

\* The row of an order is not there before its debit.
DebitsOnce ==
  \A c \in Clicks :
    pc[c] \in BeforeOrder \cup BeforeDebit \cup {"queue", "budget"} => c \notin ledger

BudgetInv ==
  /\ HoldsBudgetLock /\ CheckStands /\ DebitsOnce
  /\ Overdrawn \in Nat /\ LedgerWithinBudget

\* A payer is marked by the end of its lease, and only before its debit.
LEMMA MarkedBeforeDebit ==
  ASSUME [Next]_vars
  PROVE  \/ overrun' = overrun
         \/ /\ ExpireBudget /\ ledger' = ledger
            /\ overrun' = overrun \cup {c \in {budgetLock} : pc[c] \in BeforeDebit}
<1> USE DEF moneyVars
<1>1. ASSUME NEW c \in Clicks,
             \/ TakeLock(c) \/ CompareAndSet(c) \/ GiveLock(c) \/ Look(c)
             \/ RecordApproval(c) \/ CheckFreshness(c) \/ Refetch(c)
             \/ NotifyApprover(c) \/ ReadCurrent(c)
      PROVE  overrun' = overrun
  BY <1>1 DEF TakeLock, CompareAndSet, GiveLock, Look, RecordApproval,
              CheckFreshness, Refetch, NotifyApprover, ReadCurrent
<1>2. ASSUME NEW c \in Clicks,
             \/ CreateOrder(c) \/ AcquireBudget(c) \/ CheckBudget(c) \/ Pay(c)
             \/ RecordSpend(c) \/ ReleaseBudget(c) \/ Error(c)
             \/ TransitionError(c) \/ Crash(c)
      PROVE  overrun' = overrun
  BY <1>2 DEF CreateOrder, AcquireBudget, CheckBudget, Pay, RecordSpend,
              ReleaseBudget, Error, TransitionError, Crash
<1>3. ASSUME \/ \E g \in Goals : Age(g) \/ ExpireState(g)
             \/ UNCHANGED vars
      PROVE  overrun' = overrun
  BY <1>3 DEF Age, ExpireState, vars
<1>4. CASE ExpireBudget
  BY <1>4 DEF ExpireBudget
<1> QED
  BY <1>1, <1>2, <1>3, <1>4 DEF Next, Step, Fault

\* Only the debit of a marked payer moves the overdraft.
LEMMA OverdraftMoves ==
  ASSUME TypeOK, IsFiniteSet(ledger), DebitsOnce, [Next]_vars
  PROVE  /\ (\A c \in Clicks : ~RecordSpend(c)) => UNCHANGED <<spent, Overdrawn>>
         /\ \A c \in Clicks : RecordSpend(c) =>
              /\ spent' = spent + PriceOf[c] /\ ledger' = ledger \cup {c}
              /\ overrun' = overrun
              /\ Overdrawn' = IF c \in overrun THEN PriceOf[c] + Overdrawn
                                               ELSE Overdrawn
<1>1. ASSUME \A c \in Clicks : ~RecordSpend(c)
      PROVE  UNCHANGED <<spent, Overdrawn>>
  <2>1. ledger' = ledger /\ spent' = spent
    BY <1>1, OnlyDebitsSpend
  <2>2. ledger' \cap overrun' = ledger \cap overrun
    BY <2>1, MarkedBeforeDebit DEF DebitsOnce, TypeOK
  <2> QED
    BY <2>1, <2>2 DEF Overdrawn
<1>2. ASSUME NEW c \in Clicks, RecordSpend(c)
      PROVE  /\ spent' = spent + PriceOf[c] /\ ledger' = ledger \cup {c}
             /\ overrun' = overrun
             /\ Overdrawn' = IF c \in overrun THEN PriceOf[c] + Overdrawn
                                              ELSE Overdrawn
  <2>1. c \notin ledger
    BY <1>2 DEF RecordSpend, At, DebitsOnce, BeforeDebit
  <2>2. /\ spent' = spent + PriceOf[c] /\ ledger' = ledger \cup {c}
        /\ overrun' = overrun
    BY <1>2, <2>1 DEF RecordSpend, Debit, PriceOf
  <2>3. CASE c \notin overrun
    <3>1. ledger' \cap overrun' = ledger \cap overrun
      BY <2>2, <2>3
    <3> QED
      BY <2>2, <2>3, <3>1 DEF Overdrawn
  <2>4. CASE c \in overrun
    <3> DEFINE late == ledger \cap overrun
    <3>1. ledger' \cap overrun' = late \cup {c} /\ c \notin late
      BY <2>1, <2>2, <2>4
    <3>2. IsFiniteSet(late)
      BY FS_Subset
    <3>3. \A d \in late \cup {c} : PriceOf[d] \in Int
      BY DEF TypeOK, PriceOf
    <3> HIDE DEF late
    <3>4. SumFunctionOnSet(PriceOf, late \cup {c})
            = PriceOf[c] + SumFunctionOnSet(PriceOf, late)
      BY <3>1, <3>2, <3>3, SumWith
    <3> QED
      BY <2>2, <2>4, <3>1, <3>4 DEF Overdrawn, late
  <2> QED
    BY <2>2, <2>3, <2>4
<1> QED
  BY <1>1, <1>2

\* A debit is that of the only payer that kept the lock, or overdrawn.
LEMMA DebitWithinBudget ==
  ASSUME TypeOK, IsFiniteSet(ledger), BudgetInv, [Next]_vars,
         NEW c \in Clicks, RecordSpend(c)
  PROVE  BudgetInv'
<1>1. /\ spent' = spent + PriceOf[c] /\ ledger' = ledger \cup {c}
      /\ overrun' = overrun
      /\ Overdrawn' = IF c \in overrun THEN PriceOf[c] + Overdrawn ELSE Overdrawn
  BY OverdraftMoves DEF BudgetInv
<1>2. /\ spent \in Int /\ Limit \in Int /\ Overdrawn \in Nat
      /\ \A d \in Clicks : PriceOf[d] \in Nat
  BY DEF TypeOK, PriceOf, BudgetInv
<1>3. /\ pc[c] = "debit" /\ pc'[c] \in {"unlock"}
      /\ \A d \in Clicks \ {c} : pc'[d] = pc[d]
      /\ budgetLock' = budgetLock
  BY DEF RecordSpend, At, Proceed, Goto, Throw, TypeOK, InBudgetLock, BeforeDebit
<1>4. HoldsBudgetLock'
  BY <1>1, <1>3 DEF BudgetInv, HoldsBudgetLock, InBudgetLock, BeforeDebit
<1>5. DebitsOnce'
  BY <1>1, <1>3 DEF BudgetInv, DebitsOnce, BeforeOrder, BeforeDebit
<1>6. CheckStands'
  <2> SUFFICES ASSUME NEW d \in Clicks, pc'[d] \in {"pay", "debit"}, d \notin overrun'
               PROVE  spent' + PriceOf[d] <= Limit + Overdrawn'
    BY DEF CheckStands, PriceOf
  <2>1. d # c /\ pc[d] = pc'[d] /\ d \notin overrun
    BY <1>1, <1>3
  <2>2. budgetLock = d /\ spent + PriceOf[d] <= Limit + Overdrawn
    BY <2>1 DEF BudgetInv, HoldsBudgetLock, CheckStands, InBudgetLock, BeforeDebit
  <2>3. c \in overrun
    BY <1>3, <2>1, <2>2 DEF BudgetInv, HoldsBudgetLock, InBudgetLock, BeforeDebit
  <2> QED
    BY <1>1, <1>2, <2>2, <2>3
<1>7. LedgerWithinBudget' /\ Overdrawn' \in Nat
  <2>1. CASE c \in overrun
    BY <1>1, <1>2, <2>1 DEF BudgetInv, LedgerWithinBudget
  <2>2. CASE c \notin overrun
    BY <1>1, <1>2, <1>3, <2>2 DEF BudgetInv, LedgerWithinBudget, CheckStands
  <2> QED
    BY <2>1, <2>2
<1> QED
  BY <1>4, <1>5, <1>6, <1>7 DEF BudgetInv

\* Every other step leaves spend and overdraft as they were.
LEMMA BudgetStep ==
  ASSUME TypeOK, InTransition, BudgetInv, [Next]_vars,
         UNCHANGED <<spent, ledger, Overdrawn>>
  PROVE  HoldsBudgetLock' /\ CheckStands' /\ DebitsOnce'
<1> DEFINE Goal == HoldsBudgetLock' /\ CheckStands' /\ DebitsOnce'
<1> USE DEF BudgetInv, TypeOK, InTransition, HoldsBudgetLock, CheckStands,
            DebitsOnce, PriceOf, BeforeOrder, Sites, InBudgetLock, BeforeDebit, At,
            Goto, Leave, Throw, Proceed, goalVars, moneyVars, clickVars
<1>1. ASSUME NEW c \in Clicks, TakeLock(c)
      PROVE  Goal
  BY <1>1 DEF TakeLock, After, AfterApprove, AfterQueue, AfterFail
<1>2. ASSUME NEW c \in Clicks, CompareAndSet(c)
      PROVE  Goal
  BY <1>2 DEF CompareAndSet, Matches
<1>3. ASSUME NEW c \in Clicks, GiveLock(c)
      PROVE  Goal
  BY <1>3 DEF GiveLock, After, AfterApprove, AfterQueue, AfterFail
<1>4. ASSUME NEW c \in Clicks, Look(c)
      PROVE  Goal
  BY <1>4 DEF Look
<1>5. ASSUME NEW c \in Clicks, RecordApproval(c)
      PROVE  Goal
  BY <1>5 DEF RecordApproval
<1>6. ASSUME NEW c \in Clicks, CheckFreshness(c)
      PROVE  Goal
  BY <1>6 DEF CheckFreshness
<1>7. ASSUME NEW c \in Clicks, Refetch(c)
      PROVE  Goal
  BY <1>7 DEF Refetch
<1>8. ASSUME NEW c \in Clicks, NotifyApprover(c)
      PROVE  Goal
  BY <1>8 DEF NotifyApprover
<1>9. ASSUME NEW c \in Clicks, ReadCurrent(c)
      PROVE  Goal
  BY <1>9 DEF ReadCurrent
<1>10. ASSUME NEW c \in Clicks, CreateOrder(c)
       PROVE  Goal
  BY <1>10 DEF CreateOrder
<1>11. ASSUME NEW c \in Clicks, AcquireBudget(c)
       PROVE  Goal
  BY <1>11 DEF AcquireBudget, BudgetLockFree
<1>12. ASSUME NEW c \in Clicks, CheckBudget(c)
       PROVE  Goal
  BY <1>12 DEF CheckBudget, OverBudget
<1>13. ASSUME NEW c \in Clicks, Pay(c)
       PROVE  Goal
  BY <1>13 DEF Pay
<1>14. ASSUME NEW c \in Clicks, RecordSpend(c)
       PROVE  Goal
  BY <1>14 DEF RecordSpend, Debit
<1>15. ASSUME NEW c \in Clicks, ReleaseBudget(c)
       PROVE  Goal
  BY <1>15 DEF ReleaseBudget
<1>16. ASSUME NEW c \in Clicks, Error(c)
       PROVE  Goal
  BY <1>16 DEF Error
<1>17. ASSUME NEW c \in Clicks, TransitionError(c)
       PROVE  Goal
  BY <1>17 DEF TransitionError, Matches
<1>18. ASSUME NEW c \in Clicks, Crash(c)
       PROVE  Goal
  BY <1>18 DEF Crash
<1>19. ASSUME NEW g \in Goals, Age(g)
       PROVE  Goal
  BY <1>19 DEF Age
<1>20. ASSUME NEW g \in Goals, ExpireState(g)
       PROVE  Goal
  BY <1>20 DEF ExpireState
<1>21. CASE ExpireBudget
  BY <1>21 DEF ExpireBudget
<1>22. CASE UNCHANGED vars
  BY <1>22 DEF vars
<1> QED
  BY <1>1, <1>2, <1>3, <1>4, <1>5, <1>6, <1>7, <1>8, <1>9, <1>10,
     <1>11, <1>12, <1>13, <1>14, <1>15, <1>16, <1>17, <1>18, <1>19, <1>20,
     <1>21, <1>22
     DEF Next, Step, Fault

\* The recorded spend exceeds the budget by no more than the payments that
\* outlasted the lock's lease, whatever fails and however long they take.
THEOREM LedgerWithinBudgetThm == Spec => []LedgerWithinBudget
<1>1. Init => BudgetInv
  <2> SUFFICES ASSUME Init PROVE BudgetInv
    OBVIOUS
  <2>1. Overdrawn = 0
    <3>1. ledger \cap overrun = {}
      BY DEF Init
    <3> QED
      BY <3>1, SumOfNone DEF Overdrawn
  <2> QED
    BY <2>1 DEF Init, BudgetInv, HoldsBudgetLock, CheckStands, DebitsOnce,
                LedgerWithinBudget, InBudgetLock, BeforeDebit
<1>2. DriveInv /\ TotalIsSum /\ BudgetInv /\ [Next]_vars => BudgetInv'
  <2> SUFFICES ASSUME DriveInv, TotalIsSum, BudgetInv, [Next]_vars PROVE BudgetInv'
    OBVIOUS
  <2>1. TypeOK /\ InTransition /\ IsFiniteSet(ledger)
    BY DEF DriveInv, TotalIsSum
  <2>2. CASE \E c \in Clicks : RecordSpend(c)
    BY <2>1, <2>2, DebitWithinBudget
  <2>3. CASE \A c \in Clicks : ~RecordSpend(c)
    <3>1. UNCHANGED <<spent, ledger, Overdrawn>>
      BY <2>1, <2>3, OnlyDebitsSpend, OverdraftMoves DEF BudgetInv
    <3> QED
      BY <2>1, <3>1, BudgetStep DEF BudgetInv, LedgerWithinBudget
  <2> QED
    BY <2>2, <2>3
<1>3. BudgetInv => LedgerWithinBudget
  BY DEF BudgetInv
<1> QED
  BY <1>1, <1>2, <1>3, DriveInvThm, TotalIsSumThm, PTL DEF Spec
============================================================================
