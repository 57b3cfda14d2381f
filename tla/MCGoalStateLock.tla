-------------------------- MODULE MCGoalStateLock --------------------------
(* Instances of GoalStateLock for TLC.                                     *)
EXTENDS GoalStateLock, GoalStates

\* The contended part of a goal's life: the approver approves, or rejects,
\* and an approval found stale goes back to pending_approval.
MCStates == {"pending_approval", "approved", "cancelled"}
MCEdges ==
  { <<"pending_approval", "approved">>,
    <<"pending_approval", "cancelled">>,
    <<"approved", "pending_approval">> }

\* Every transition the callers ask for is one of the reference graph.
ASSUME MCEdgesAllowed == \A e \in MCEdges : IsAllowedTransition(e[1], e[2])
============================================================================
