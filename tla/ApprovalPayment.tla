-------------------------- MODULE ApprovalPayment --------------------------
(***************************************************************************)
(* From a click on Approve or Reject to a paid order:                      *)
(* core/approval_manager.py approve_goal, reject_goal and the freshness    *)
(* check, core/budget_engine.py execute_payment_with_budget_check, and     *)
(* the payment provider and spend ledger they talk to.                     *)
(*                                                                         *)
(* A click is one delivery of a button press: a Slack action, a magic      *)
(* link, or a repetition of either.  All clicks run concurrently, an       *)
(* "await" of the code separates two actions of one click, and all goals   *)
(* draw on one company's budget for one category in one month.             *)
(*                                                                         *)
(* A call of transition_goal_state is three steps of its caller: take the  *)
(* goal's lock, compare and set, give the lock back.  GoalStateLock is its *)
(* detailed model, and proves that the middle step is atomic.              *)
(***************************************************************************)
EXTENDS Integers, FiniteSetsExt, GoalStates

CONSTANTS
  Goals, Clicks,
  GoalOf,        \* GoalOf[c]: the goal click c is about
  Rejects,       \* the clicks on Reject; the others are on Approve
  Price,         \* Price[g]: the price of goal g's option
  Limit,         \* the budget of the category for the period
  Wired,         \* TRUE: the search agent and the notifier are injected
  SlowPayments,  \* TRUE: a live payer may outlast the budget lock's 10 s
  Faults,        \* subset of {"error", "crash"}
  NoClick

ASSUME PaymentAssumption ==
  /\ GoalOf \in [Clicks -> Goals]
  /\ Rejects \subseteq Clicks
  /\ Price \in [Goals -> Nat]
  /\ Limit \in Nat
  /\ Wired \in BOOLEAN /\ SlowPayments \in BOOLEAN
  /\ Faults \subseteq {"error", "crash"}
  /\ NoClick \notin Clicks

VARIABLES
  status,       \* status[g]: goals.status
  stateLock,    \* stateLock[g]: the key goal_lock:{g} exists
  options,      \* options[g]: how often the goal's options were replaced
  sentStale,    \* sentStale[g]: goals.approval_sent_at is older than the TTL
  approver,     \* approver[g]: the click whose option and time are recorded
  budgetLock,   \* the click whose token is in budget_lock:{company}:{cat}
  orders,       \* clicks that created their order row
  spent,        \* the spend of the period
  ledger,       \* clicks whose order has a spend_records row
  charged,      \* external: clicks whose order the provider charged
  overrun,      \* history: payers whose budget lock ended before their debit
  pc, tx,       \* where each click is, and how far in a transition
  picked,       \* picked[c]: the version of the options c chose from
  current,      \* current[c]: the state c read before it asks to re-approve
  res           \* res[c]: "none", or how c's handler ended or is ending

goalVars == <<status, stateLock, options, sentStale, approver>>
moneyVars == <<budgetLock, orders, spent, ledger, charged, overrun>>
clickVars == <<pc, tx, picked, current, res>>
vars == <<goalVars, moneyVars, clickVars>>

\* The calls of transition_goal_state, by name, and their arguments.  The
\* re-approval leaves whatever state it read just before.
Sites == {"approve", "reject", "requeue", "queue", "order", "fail"}
From(c) ==
  CASE pc[c] \in {"approve", "reject"} -> "pending_approval"
    [] pc[c] = "requeue" -> current[c]
    [] pc[c] = "queue" -> "approved"
    [] pc[c] \in {"order", "fail"} -> "payment_queued"
To(c) ==
  CASE pc[c] = "approve" -> "approved"
    [] pc[c] = "reject" -> "cancelled"
    [] pc[c] = "requeue" -> "pending_approval"
    [] pc[c] = "queue" -> "payment_queued"
    [] pc[c] = "order" -> "ordered"
    [] pc[c] = "fail" -> "payment_failed"

BeforeDebit == {"check", "pay", "debit"}
InBudgetLock == BeforeDebit \cup {"unlock"}

Labels == Sites \cup InBudgetLock \cup
  {"look", "record", "fresh", "refetch", "notify", "recheck", "order_row",
   "budget", "done"}

Results == {"none", "conflict", "not_found", "re_approval", "ordered",
            "cancelled", "raised", "crashed"}

Init ==
  /\ status = [g \in Goals |-> "pending_approval"]
  /\ stateLock = [g \in Goals |-> FALSE]
  /\ options = [g \in Goals |-> 0]
  /\ sentStale = [g \in Goals |-> FALSE]
  /\ approver = [g \in Goals |-> NoClick]
  /\ budgetLock = NoClick
  /\ orders = {} /\ spent = 0 /\ ledger = {} /\ charged = {} /\ overrun = {}
  /\ pc = [c \in Clicks |-> "look"]
  /\ tx = [c \in Clicks |-> "lock"]
  /\ picked = [c \in Clicks |-> 0]
  /\ current = [c \in Clicks |-> "pending_approval"]
  /\ res = [c \in Clicks |-> "none"]

----------------------------------------------------------------------------
(* Control helpers *)

At(c, l) == pc[c] = l /\ tx[c] = "lock"

Goto(c, l) == pc' = [pc EXCEPT ![c] = l] /\ UNCHANGED res

Leave(c, r) ==
  pc' = [pc EXCEPT ![c] = "done"] /\ res' = [res EXCEPT ![c] = r]

\* An exception: inside the budget lock it first releases the lock, then
\* the except clause moves the goal to payment_failed; elsewhere it leaves
\* the handler.
Throw(c) ==
  /\ res' = [res EXCEPT ![c] = "raised"]
  /\ pc' = [pc EXCEPT ![c] =
              CASE pc[c] \in InBudgetLock \ {"unlock"} -> "unlock"
                [] pc[c] \in {"budget", "unlock"} -> "fail"
                [] OTHER -> "done"]

\* The command took effect; the caller goes on, or its reply was lost.
Proceed(c, l) ==
  Goto(c, l) \/ ("error" \in Faults /\ Throw(c))

\* The command raised without effect.
Error(c) ==
  /\ "error" \in Faults
  /\ pc[c] # "done" /\ tx[c] = "lock"
  /\ Throw(c)
  /\ UNCHANGED <<goalVars, moneyVars, tx, picked, current>>

----------------------------------------------------------------------------
(* transition_goal_state, for every call site *)

\* What the caller does with the answer.  Only the calls that approve and
\* that reject look at it.

\* Wrong variant: the answer of the approving call is not looked at.
AfterApproveIgnored(c, moved) == Goto(c, "record")

\* Wrong variant: a loser tries again until it wins.
AfterApproveRetried(c, moved) ==
  IF moved THEN Goto(c, "record") ELSE Goto(c, "approve")

AfterApprove(c, moved) ==
  IF moved THEN Goto(c, "record") ELSE Leave(c, "conflict")

AfterQueue(c, moved) == Goto(c, "budget")

\* Wrong variant: the except clause does not raise again.
AfterFailSwallowed(c, moved) == Goto(c, "order")

AfterFail(c, moved) == Leave(c, "raised")

After(c, moved) ==
  \/ pc[c] = "approve" /\ AfterApprove(c, moved)
  \/ pc[c] = "reject" /\ Leave(c, IF moved THEN "cancelled" ELSE "conflict")
  \/ pc[c] = "requeue" /\ Leave(c, "re_approval")
  \/ pc[c] = "queue" /\ AfterQueue(c, moved)
  \/ pc[c] = "order" /\ Leave(c, "ordered")
  \/ pc[c] = "fail" /\ AfterFail(c, moved)

TakeLock(c) ==
  LET g == GoalOf[c] IN
  /\ pc[c] \in Sites /\ tx[c] = "lock"
  /\ \/ /\ ~stateLock[g]
        /\ stateLock' = [stateLock EXCEPT ![g] = TRUE]
        /\ tx' = [tx EXCEPT ![c] = "cas"]
        /\ UNCHANGED <<pc, res>>
     \/ /\ stateLock[g]
        /\ After(c, FALSE)
        /\ UNCHANGED <<stateLock, tx>>
  /\ UNCHANGED <<status, options, sentStale, approver, moneyVars,
                 picked, current>>

Matches(c) == status[GoalOf[c]] = From(c)

CompareAndSet(c) ==
  LET g == GoalOf[c] IN
  /\ pc[c] \in Sites /\ tx[c] = "cas"
  /\ \/ /\ Matches(c)
        /\ status' = [status EXCEPT ![g] = To(c)]
        /\ tx' = [tx EXCEPT ![c] = "won"]
     \/ /\ ~Matches(c)
        /\ tx' = [tx EXCEPT ![c] = "lost"]
        /\ UNCHANGED status
  /\ UNCHANGED <<stateLock, options, sentStale, approver,
                 moneyVars, pc, picked, current, res>>

GiveLock(c) ==
  /\ tx[c] \in {"won", "lost"}
  /\ stateLock' = [stateLock EXCEPT ![GoalOf[c]] = FALSE]
  /\ tx' = [tx EXCEPT ![c] = "lock"]
  /\ After(c, tx[c] = "won")
  /\ UNCHANGED <<status, options, sentStale, approver, moneyVars,
                 picked, current>>

\* One of its commands raises: the state may have been written, and the key
\* may be left behind until it expires.
TransitionError(c) ==
  LET g == GoalOf[c] IN
  /\ "error" \in Faults
  /\ pc[c] \in Sites
  /\ \/ UNCHANGED status
     \/ /\ tx[c] = "cas" /\ Matches(c)
        /\ status' = [status EXCEPT ![g] = To(c)]
  /\ \/ tx[c] = "lock" /\ stateLock' = [stateLock EXCEPT ![g] = TRUE]
     \/ tx[c] # "lock" /\ UNCHANGED stateLock
     \/ tx[c] # "lock" /\ stateLock' = [stateLock EXCEPT ![g] = FALSE]
  /\ tx' = [tx EXCEPT ![c] = "lock"]
  /\ Throw(c)
  /\ UNCHANGED <<options, sentStale, approver, moneyVars, picked,
                 current>>

----------------------------------------------------------------------------
(* approve_goal and reject_goal up to the payment *)

\* Read the goal; the option the button names may no longer be on its list.
Look(c) ==
  LET g == GoalOf[c] IN
  /\ At(c, "look")
  /\ \/ /\ status[g] # "pending_approval"
        /\ Leave(c, "conflict")
        /\ UNCHANGED picked
     \/ /\ status[g] = "pending_approval" /\ c \in Rejects
        /\ Goto(c, "reject")
        /\ UNCHANGED picked
     \/ /\ status[g] = "pending_approval" /\ c \notin Rejects
        /\ options[g] > 0
        /\ Leave(c, "not_found")
        /\ UNCHANGED picked
     \/ /\ status[g] = "pending_approval" /\ c \notin Rejects
        /\ picked' = [picked EXCEPT ![c] = options[g]]
        /\ Goto(c, "approve")
  /\ UNCHANGED <<goalVars, moneyVars, tx, current>>

RecordApproval(c) ==
  /\ At(c, "record")
  /\ approver' = [approver EXCEPT ![GoalOf[c]] = c]
  /\ Proceed(c, "fresh")
  /\ UNCHANGED <<status, stateLock, options, sentStale, moneyVars,
                 tx, picked, current>>

CheckFreshness(c) ==
  /\ At(c, "fresh")
  /\ IF sentStale[GoalOf[c]] THEN Goto(c, "refetch") ELSE Goto(c, "order_row")
  /\ UNCHANGED <<goalVars, moneyVars, tx, picked, current>>

\* Search again and replace the options; the approver has not seen them yet.
\* Not wired, as in the routes: NotImplementedError.
Refetch(c) ==
  /\ At(c, "refetch")
  /\ \/ /\ Wired
        /\ options' = [options EXCEPT ![GoalOf[c]] = @ + 1]
        /\ Proceed(c, "notify")
     \/ /\ ~Wired
        /\ Throw(c)
        /\ UNCHANGED options
  /\ UNCHANGED <<status, stateLock, sentStale, approver,
                 moneyVars, tx, picked, current>>

\* Wrong variant: the staleness clock restarts with the new options.
NotifyAndRestartClock(c) ==
  /\ At(c, "notify")
  /\ sentStale' = [sentStale EXCEPT ![GoalOf[c]] = FALSE]
  /\ Proceed(c, "recheck")
  /\ UNCHANGED <<status, stateLock, options, approver, moneyVars, tx, picked,
                 current>>

\* Show them to the approver; approval_sent_at stays what it was.
NotifyApprover(c) ==
  /\ At(c, "notify")
  /\ Proceed(c, "recheck")
  /\ UNCHANGED <<goalVars, moneyVars, tx, picked, current>>

ReadCurrent(c) ==
  /\ At(c, "recheck")
  /\ current' = [current EXCEPT ![c] = status[GoalOf[c]]]
  /\ Goto(c, "requeue")
  /\ UNCHANGED <<goalVars, moneyVars, tx, picked>>

CreateOrder(c) ==
  /\ At(c, "order_row")
  /\ orders' = orders \cup {c}
  /\ Proceed(c, "queue")
  /\ UNCHANGED <<goalVars, budgetLock, spent, ledger, charged, overrun, tx,
                 picked, current>>

----------------------------------------------------------------------------
(* execute_payment_with_budget_check *)

\* Wrong variant: the payment does not wait for the lock.
NoLockNeeded(c) == c \in Clicks

BudgetLockFree(c) == budgetLock = NoClick

\* Wait at most 5 s for the lock; a lost reply leaves it behind.
AcquireBudget(c) ==
  /\ At(c, "budget")
  /\ \/ /\ BudgetLockFree(c)
        /\ budgetLock' = c
        /\ Proceed(c, "check")
     \/ /\ ~BudgetLockFree(c)
        /\ Throw(c)
        /\ UNCHANGED budgetLock
  /\ UNCHANGED <<goalVars, orders, spent, ledger, charged, overrun, tx, picked,
                 current>>

OverBudget(c) == Price[GoalOf[c]] > Limit - spent

CheckBudget(c) ==
  /\ At(c, "check")
  /\ IF OverBudget(c) THEN Throw(c) ELSE Goto(c, "pay")
  /\ UNCHANGED <<goalVars, moneyVars, tx, picked, current>>

\* The provider charges the order and answers, or refuses.
Pay(c) ==
  /\ At(c, "pay")
  /\ \/ charged' = charged \cup {c} /\ Proceed(c, "debit")
     \/ Throw(c) /\ UNCHANGED charged
  /\ UNCHANGED <<goalVars, budgetLock, orders, spent, ledger, overrun, tx,
                 picked, current>>

\* Wrong variant: the spend is taken off.
Credit(c) == spent - Price[GoalOf[c]]

Debit(c) == spent + Price[GoalOf[c]]

\* Idempotent per order.
RecordSpend(c) ==
  /\ At(c, "debit")
  /\ IF c \in ledger
       THEN UNCHANGED <<spent, ledger>>
       ELSE /\ spent' = Debit(c)
            /\ ledger' = ledger \cup {c}
  /\ Proceed(c, "unlock")
  /\ UNCHANGED <<goalVars, budgetLock, orders, charged, overrun, tx, picked,
                 current>>

\* Release raises if the token in the key is no longer the caller's.
ReleaseBudget(c) ==
  /\ At(c, "unlock")
  /\ \/ /\ budgetLock = c
        /\ budgetLock' = NoClick
        /\ \/ res[c] = "none" /\ Proceed(c, "order")
           \/ res[c] = "raised" /\ Throw(c)
     \/ budgetLock # c /\ Throw(c) /\ UNCHANGED budgetLock
  /\ UNCHANGED <<goalVars, orders, spent, ledger, charged, overrun, tx, picked,
                 current>>

----------------------------------------------------------------------------
(* The environment *)

\* The process of c dies: what it held is left to expire.
Crash(c) ==
  /\ "crash" \in Faults
  /\ pc[c] # "done"
  /\ Leave(c, "crashed")
  /\ tx' = [tx EXCEPT ![c] = "lock"]
  /\ UNCHANGED <<goalVars, moneyVars, picked, current>>

\* The goal's options grow older than its category's TTL.
Age(g) ==
  /\ ~sentStale[g]
  /\ sentStale' = [sentStale EXCEPT ![g] = TRUE]
  /\ UNCHANGED <<status, stateLock, options, approver, moneyVars, clickVars>>

\* The 30 s lease of a goal's lock whose holder is gone runs out.
ExpireState(g) ==
  /\ stateLock[g]
  /\ \A c \in Clicks : GoalOf[c] = g => tx[c] = "lock"
  /\ stateLock' = [stateLock EXCEPT ![g] = FALSE]
  /\ UNCHANGED <<status, options, sentStale, approver, moneyVars,
                 clickVars>>

\* Wrong variant: a lock without timeout.
NoBudgetLease == budgetLock # NoClick /\ FALSE /\ UNCHANGED vars

\* The 10 s lease of the budget lock runs out: its holder is gone, or slow.
ExpireBudget ==
  /\ budgetLock # NoClick
  /\ SlowPayments \/ pc[budgetLock] \notin InBudgetLock
  /\ budgetLock' = NoClick
  /\ overrun' = overrun \cup {c \in {budgetLock} : pc[c] \in BeforeDebit}
  /\ UNCHANGED <<goalVars, orders, spent, ledger, charged, clickVars>>

----------------------------------------------------------------------------

Step(c) ==
  \/ TakeLock(c) \/ CompareAndSet(c) \/ GiveLock(c)
  \/ Look(c) \/ RecordApproval(c) \/ CheckFreshness(c)
  \/ Refetch(c) \/ NotifyApprover(c) \/ ReadCurrent(c) \/ CreateOrder(c)
  \/ AcquireBudget(c) \/ CheckBudget(c) \/ Pay(c) \/ RecordSpend(c)
  \/ ReleaseBudget(c)

Fault(c) == Error(c) \/ TransitionError(c) \/ Crash(c)

Next ==
  \/ \E c \in Clicks : Step(c) \/ Fault(c)
  \/ \E g \in Goals : Age(g) \/ ExpireState(g)
  \/ ExpireBudget

\* A handler that is alive goes on, and Redis expires keys.
Fairness ==
  /\ \A c \in Clicks : WF_vars(Step(c))
  /\ \A g \in Goals : WF_vars(ExpireState(g))
  /\ WF_vars(ExpireBudget)

Spec == Init /\ [][Next]_vars
FairSpec == Spec /\ Fairness

----------------------------------------------------------------------------
(* Properties *)

TypeOK ==
  /\ status \in [Goals -> GoalState]
  /\ stateLock \in [Goals -> BOOLEAN]
  /\ options \in [Goals -> Nat]
  /\ sentStale \in [Goals -> BOOLEAN]
  /\ approver \in [Goals -> Clicks \cup {NoClick}]
  /\ budgetLock \in Clicks \cup {NoClick}
  /\ orders \subseteq Clicks /\ ledger \subseteq Clicks
  /\ charged \subseteq Clicks /\ overrun \subseteq Clicks
  /\ spent \in Nat
  /\ pc \in [Clicks -> Labels]
  /\ tx \in [Clicks -> {"lock", "cas", "won", "lost"}]
  /\ picked \in [Clicks -> Nat]
  /\ current \in [Clicks -> GoalState]
  /\ res \in [Clicks -> Results]

\* A goal is paid for at most once: every approval creates its own order,
\* with its own idempotency key, so nothing but the goal's state stops a
\* second click from paying (core/approval_manager.py:203-209).
SinglePayment ==
  \A c, d \in charged : GoalOf[c] = GoalOf[d] => c = d

\* The recorded option and approval time of a paid goal are those of the
\* click that paid: a losing click leaves them alone
\* (core/approval_manager.py:203-210).
PayerIsApprover ==
  \A c \in charged : approver[GoalOf[c]] = c

\* What is paid for is on the goal's list of options at that moment.  The
\* click chose before it won the goal, and in between another click may have
\* replaced the options and put the goal back to pending_approval
\* (core/approval_manager.py:196-224).
PaysCurrentOption ==
  [][\A c \in charged' \ charged : picked[c] = options[GoalOf[c]]]_vars

\* A click that is told it lost, found nothing, must re-approve or rejected
\* has created no order and spent nothing (core/approval_manager.py:197-218).
LosersSpendNothing ==
  \A c \in Clicks :
    res[c] \in {"conflict", "not_found", "re_approval", "cancelled"} =>
      c \notin orders \cup charged \cup ledger

\* "ordered" is only answered for an order that was charged and debited
\* (core/approval_manager.py:231-246).
OrderedIsPaid ==
  \A c \in Clicks : res[c] = "ordered" => c \in charged \cap ledger

\* Once paid, a goal can no longer be rejected or approved again
\* (core/approval_manager.py:230-244).
PaidGoalIsClosed ==
  \A c \in charged :
    status[GoalOf[c]] \in {"approved", "payment_queued", "ordered",
                          "payment_failed"}

PriceOf == [c \in Clicks |-> Price[GoalOf[c]]]

\* What was debited for payments that outlasted the budget lock: the lock's
\* lease is 10 s, one attempt to pay may take 20.
Overdrawn == SumFunctionOnSet(PriceOf, ledger \cap overrun)

\* The recorded spend exceeds the budget by no more than the payments that
\* outlasted the lock: whoever kept it is stopped by the check, whatever the
\* others debit beside it (core/budget_engine.py:5-8, 56-57, 96-117).
LedgerWithinBudget == spent <= Limit + Overdrawn

\* The running total of the ledger is the sum of its rows, and a row is for
\* an order that was charged (core/db.py:208-215, core/budget_engine.py:116).
LedgerIsSound ==
  /\ ledger \subseteq charged
  /\ spent = SumFunctionOnSet(PriceOf, ledger)

\* What the clicks are told, what was charged and what the ledger says agree,
\* whatever fails after the provider charged (core/approval_manager.py:231-246,
\* core/budget_engine.py:109-118).
AnswersMatchMoney == LosersSpendNothing /\ OrderedIsPaid /\ LedgerIsSound

\* Every click gets its answer (core/budget_engine.py:55-64).
ClicksReturn == \A c \in Clicks : <>(pc[c] = "done")

\* Nobody keeps the budget of a category locked: a holder releases it, or
\* its lease ends (core/budget_engine.py:56-57).
BudgetFreed == \A c \in Clicks : budgetLock = c ~> budgetLock # c

----------------------------------------------------------------------------
(* What the code's texts say and the code does not do *)

\* "move to 'ordered'; on any payment failure move to 'payment_failed'"
\* (core/approval_manager.py:193): an order reported as ordered is.
OrderedMeansOrdered ==
  \A c \in Clicks : res[c] = "ordered" => status[GoalOf[c]] = "ordered"

\* "the options are re-fetched and the approver is asked to re-approve"
\* (core/approval_manager.py:4-6): a stale approval does not stay approved.
StaleGoesBack ==
  \A g \in Goals :
    status[g] = "approved" /\ sentStale[g] ~> status[g] # "approved"
============================================================================
