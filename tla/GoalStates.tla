---------------------------- MODULE GoalStates ----------------------------
(***************************************************************************)
(* The states of a procurement goal and the reference graph of transitions *)
(* of core/state_machine.py.  The graph is advisory in the code: nothing   *)
(* consults is_allowed_transition before a move, so the modules that model *)
(* the handlers check that what they do stays inside it.                   *)
(***************************************************************************)

GoalState ==
  { "processing", "pending_rfq", "quotes_received", "pending_approval",
    "approved", "payment_queued", "ordered", "in_transit", "delivered",
    "rated", "rfq_timeout", "approval_expired", "payment_failed",
    "delivery_failed", "operator_escalated", "governance_hold",
    "completed", "cancelled", "failed" }

AllowedTransitions ==
  [ s \in GoalState |->
      CASE s = "processing" ->
             {"pending_rfq", "operator_escalated", "cancelled", "failed"}
        [] s = "pending_rfq" ->
             {"quotes_received", "rfq_timeout", "cancelled"}
        [] s = "quotes_received" ->
             {"pending_approval", "operator_escalated", "cancelled"}
        [] s = "pending_approval" ->
             {"approved", "approval_expired", "governance_hold", "cancelled"}
        [] s = "approved" ->
             {"payment_queued", "pending_approval", "payment_failed"}
        [] s = "payment_queued" -> {"ordered", "payment_failed"}
        [] s = "ordered" -> {"in_transit", "delivery_failed"}
        [] s = "in_transit" -> {"delivered", "delivery_failed"}
        [] s = "delivered" -> {"rated"}
        [] s = "rated" -> {"completed"}
        [] s = "rfq_timeout" ->
             {"operator_escalated", "pending_rfq", "cancelled"}
        [] s = "approval_expired" -> {"pending_approval", "cancelled"}
        [] s = "payment_failed" ->
             {"payment_queued", "operator_escalated", "failed"}
        [] s = "delivery_failed" ->
             {"operator_escalated", "in_transit", "failed"}
        [] s = "governance_hold" ->
             {"pending_approval", "operator_escalated", "cancelled"}
        [] s = "operator_escalated" ->
             {"pending_rfq", "pending_approval", "cancelled", "failed"}
        [] OTHER -> {} ]

IsAllowedTransition(from, to) == to \in AllowedTransitions[from]
===========================================================================
