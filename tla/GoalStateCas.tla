--------------------------- MODULE GoalStateCas ---------------------------
(***************************************************************************)
(* What core/state_machine.py promises its callers, as an abstract         *)
(* specification: transition_goal_state(goal, from, to) is an atomic       *)
(* compare-and-set of the goal's state.                                    *)
(*                                                                         *)
(* A call changes the state at most once, in one step, and only from the   *)
(* state the caller named; it returns "true" if it did, and "false" only   *)
(* if it did not.  It may be refused for no visible reason (the lock of    *)
(* another caller), and it may raise or die before or after it moved the   *)
(* goal: then the caller knows nothing.                                    *)
(***************************************************************************)
CONSTANTS
  Goals,     \* goal ids
  Procs,     \* callers: request handlers and worker jobs
  States,    \* goal states
  Requests   \* the transitions callers ask for

VARIABLES
  status,    \* status[g]: the goal's state in the store
  req,       \* req[p]: the arguments of p's current or last call
  stage,     \* stage[p]: "idle", "open" (called) or "moved" (goal changed)
  outcome    \* outcome[p]: how p's last call ended

casVars == <<status, req, stage, outcome>>

Outcomes == {"none", "true", "false", "raised", "crashed"}

CasInit ==
  /\ status \in [Goals -> States]
  /\ req \in [Procs -> Requests]
  /\ stage = [p \in Procs |-> "idle"]
  /\ outcome = [p \in Procs |-> "none"]

Call(p, r) ==
  /\ stage[p] = "idle"
  /\ req' = [req EXCEPT ![p] = r]
  /\ stage' = [stage EXCEPT ![p] = "open"]
  /\ outcome' = [outcome EXCEPT ![p] = "none"]
  /\ UNCHANGED status

Move(p) ==
  /\ stage[p] = "open"
  /\ status[req[p].goal] = req[p].from
  /\ status' = [status EXCEPT ![req[p].goal] = req[p].to]
  /\ stage' = [stage EXCEPT ![p] = "moved"]
  /\ UNCHANGED <<req, outcome>>

Return(p) ==
  /\ \/ /\ stage[p] = "open"
        /\ \E o \in {"false", "raised", "crashed"} :
             outcome' = [outcome EXCEPT ![p] = o]
     \/ /\ stage[p] = "moved"
        /\ \E o \in {"true", "raised", "crashed"} :
             outcome' = [outcome EXCEPT ![p] = o]
  /\ stage' = [stage EXCEPT ![p] = "idle"]
  /\ UNCHANGED <<status, req>>

CasNext ==
  \E p \in Procs :
    \/ \E r \in Requests : Call(p, r)
    \/ Move(p)
    \/ Return(p)

CasSpec == CasInit /\ [][CasNext]_casVars
===========================================================================
