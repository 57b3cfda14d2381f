--------------------------- MODULE ApprovalLinks ---------------------------
(***************************************************************************)
(* How an approver's decision reaches a goal: by a magic link of an e-mail *)
(* (generate_approval_token and consume_approval_token in                  *)
(* core/approval_manager.py, the routes of api/routes/approvals.py) or by  *)
(* a button in Slack (api/routes/webhooks.py), which delivers a click      *)
(* again when it was answered with an error.                               *)
(*                                                                         *)
(* The approval itself is ApprovalPayment: here it is the compare-and-set  *)
(* on the goal, and what comes after it is the answer.                     *)
(***************************************************************************)
EXTENDS Naturals, FiniteSets

CONSTANTS
  Links, Owner,     \* tokens, and [Links -> Goals]: the goal each was made for
  Decided,          \* goals
  Clicks,           \* requests
  NoLink            \* an unknown token

VARIABLES
  used, expired,    \* of each link
  decision,         \* of each goal: "none", "approved", "cancelled"
  click,            \* of each request: [at, by, goal, wants, answer]
  winners           \* of each goal: the requests that decided it

linkVars == <<used, expired, decision, click, winners>>

Fresh == [at |-> "new", by |-> NoLink, goal |-> CHOOSE g \in Decided : TRUE,
          wants |-> "none", answer |-> 0]

LinkInit ==
  /\ used = [l \in Links |-> FALSE] /\ expired = [l \in Links |-> FALSE]
  /\ decision = [g \in Decided |-> "none"]
  /\ click = [c \in Clicks |-> Fresh]
  /\ winners = [g \in Decided |-> {}]

Answer(c, code) == click' = [click EXCEPT ![c].at = "done", ![c].answer = code]
GoOn(c, label) == click' = [click EXCEPT ![c].at = label]

\* A link is opened for the goal in its URL; consume_approval_token reads it.
OpenLink(c) ==
  /\ click[c].at = "new"
  /\ \E l \in Links \cup {NoLink}, g \in Decided, w \in {"approved", "cancelled"} :
       click' = [click EXCEPT ![c] =
         [at |-> IF l = NoLink \/ used[l] \/ expired[l] THEN "done" ELSE "burn",
          by |-> l, goal |-> g, wants |-> w,
          answer |-> IF l = NoLink \/ used[l] \/ expired[l] THEN 410 ELSE 0]]
  /\ UNCHANGED <<used, expired, decision, winners>>

\* A button of a card: Slack's signature stands for the link.
PressButton(c) ==
  /\ click[c].at = "new"
  /\ \E g \in Decided, w \in {"approved", "cancelled"} :
       click' = [click EXCEPT ![c].at = "look", ![c].goal = g, ![c].wants = w]
  /\ UNCHANGED <<used, expired, decision, winners>>

\* Wrong variant: the link's own goal is not compared.
GoalMatchesAny(c) == TRUE

GoalMatches(c) == Owner[click[c].by] = click[c].goal

\* The link is marked, whatever was marked meanwhile, before the goals are
\* compared.
Burn(c) ==
  /\ click[c].at = "burn"
  /\ used' = [used EXCEPT ![click[c].by] = TRUE]
  /\ IF GoalMatches(c) THEN GoOn(c, "look") ELSE Answer(c, 403)
  /\ UNCHANGED <<expired, decision, winners>>

\* approve_goal and reject_goal read the goal, and its options.
Look(c) ==
  /\ click[c].at = "look"
  /\ \/ decision[click[c].goal] = "none" /\ GoOn(c, "claim")
     \/ decision[click[c].goal] # "none" /\ Answer(c, 409)
     \/ decision[click[c].goal] = "none" /\ click[c].wants = "approved" /\ Answer(c, 404)
  /\ UNCHANGED <<used, expired, decision, winners>>

\* Wrong variant: what was read decides.
StillPendingAsRead(g) == TRUE

StillPending(g) == decision[g] = "none"

\* The transition out of pending_approval, and the rest of the handler: an
\* approval may still fail for want of budget (402) or in another way.
Claim(c) ==
  LET g == click[c].goal IN
  /\ click[c].at = "claim"
  /\ IF StillPending(g)
     THEN /\ decision' = [decision EXCEPT ![g] = click[c].wants]
          /\ winners' = [winners EXCEPT ![g] = @ \cup {c}]
          /\ \/ Answer(c, 200)
             \/ click[c].wants = "approved" /\ \E code \in {402, 500} : Answer(c, code)
     ELSE Answer(c, 409) /\ UNCHANGED <<decision, winners>>
  /\ UNCHANGED <<used, expired>>

\* A command raises; the link may have been marked.
Fail(c) ==
  /\ click[c].at \in {"burn", "look", "claim"} /\ Answer(c, 500)
  /\ \/ UNCHANGED used
     \/ click[c].at = "burn" /\ used' = [used EXCEPT ![click[c].by] = TRUE]
  /\ UNCHANGED <<expired, decision, winners>>

\* Slack repeats what was answered with an error.
Redeliver(c) ==
  /\ click[c].at = "done" /\ click[c].by = NoLink /\ click[c].answer = 500
  /\ GoOn(c, "look")
  /\ UNCHANGED <<used, expired, decision, winners>>

ExpireLink(l) ==
  /\ ~expired[l] /\ expired' = [expired EXCEPT ![l] = TRUE]
  /\ UNCHANGED <<used, decision, click, winners>>

LinkNext ==
  \/ \E c \in Clicks :
       \/ OpenLink(c) \/ PressButton(c) \/ Burn(c) \/ Look(c) \/ Claim(c)
       \/ Fail(c) \/ Redeliver(c)
  \/ \E l \in Links : ExpireLink(l)

LinkSpec == LinkInit /\ [][LinkNext]_linkVars

----------------------------------------------------------------------------
(* Properties *)

\* A goal is decided once, although two requests may both find one link
\* unused, a link and a button race, and Slack repeats a click
\* (core/approval_manager.py:150-160, 203-209).
DecidedOnce == \A g \in Decided : Cardinality(winners[g]) <= 1

\* Whoever decides a goal by a link holds one of that goal, and has burnt it
\* (api/routes/approvals.py:37-39).
DecidedByItsLink ==
  \A g \in Decided : \A c \in winners[g] :
    click[c].by = NoLink \/ (Owner[click[c].by] = g /\ used[click[c].by])
============================================================================
