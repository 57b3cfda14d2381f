-------------------------- MODULE QuoteCollection --------------------------
(***************************************************************************)
(* From a new goal to the approval card: agents/orchestrator.py            *)
(* (process_goal, dispatch_rfqs, on_quote_collected,                       *)
(* _rank_and_request_approval) and the three callers that run it           *)
(* concurrently: the background task of POST /goals or the chat's          *)
(* confirmation, the WhatsApp webhook, and the worker's rfq_timeout job.   *)
(*                                                                         *)
(* An actor is the task that starts a goal (named by the goal itself), a   *)
(* vendor's reply, or the worker.  An "await" of the code separates two    *)
(* actions of an actor.  A call of transition_goal_state is three of them, *)
(* as in ApprovalPayment: take the goal's lock, compare and set, give the  *)
(* lock back.                                                              *)
(*                                                                         *)
(* Providers (vendor search, WhatsApp, the language models, Slack) may     *)
(* fail at any time; commands of the database and of Redis only under      *)
(* Faults.  A command that raises after it took effect is the effect       *)
(* followed by an error of the next command.                               *)
(***************************************************************************)
EXTENDS Integers, FiniteSets, GoalStates

CONSTANTS
  Goals, Replies, Worker,
  ReplyTo,    \* ReplyTo[r]: the goal whose REF code reply r carries
  MinQuotes,  \* MIN_QUOTES_TO_RANK
  Chat,       \* goals confirmed in the chat; the others are from POST /goals
  Unclear,    \* goals whose intent lacks a mandatory field
  NoChannel,  \* goals of a company without a Slack approval channel
  Faults      \* subset of {"error", "crash", "restart"}

Actors == Goals \cup Replies \cup {Worker}

ASSUME QuoteAssumption ==
  /\ Goals \cap Replies = {} /\ Worker \notin Goals \cup Replies
  /\ Goals # {} /\ IsFiniteSet(Goals) /\ IsFiniteSet(Replies)
  /\ ReplyTo \in [Replies -> Goals]
  /\ MinQuotes \in Nat \ {0}
  /\ Chat \subseteq Goals /\ Unclear \subseteq Goals \ Chat
  /\ NoChannel \subseteq Goals
  /\ Faults \subseteq {"error", "crash", "restart"}

VARIABLES
  status,     \* status[g]: goals.status
  age,        \* age[g]: since updated_at: 0, 1 (over 30 min), 2 (over 120 min)
  quotes,     \* quotes[g]: goals.collected_quotes
  options,    \* options[g]: goals.options, by the reply that quoted each
  stamped,    \* stamped[g]: goals.approval_sent_at is set
  stateLock,  \* stateLock[g]: the key goal_lock:{g} exists
  asked,      \* external: a vendor has received an RFQ of g
  cards,      \* external: how many approval cards of g were sent
  shown,      \* external: the options with a button on the last of them
  pc, tx,     \* where each actor is, and how far in a transition
  at,         \* at[a]: the goal that actor a works on
  current,    \* current[g]: the state task g read before it escalates
  count,      \* count[r]: the number of quotes r saw
  ranked,     \* ranked[a]: the quotes a ranks, then the answer it got
  todo        \* goals left in the worker's sweep

goalVars == <<status, age, quotes, options, stamped, stateLock>>
outside == <<asked, cards, shown>>
actorVars == <<pc, tx, at, current, count, ranked, todo>>
vars == <<goalVars, outside, actorVars>>

\* The calls of transition_goal_state, by name, and their arguments.
Sites == {"escalate", "no_vendors", "to_pending", "receive", "claim",
          "time_out"}
From(a) ==
  CASE pc[a] = "escalate" -> current[a]
    [] pc[a] \in {"no_vendors", "to_pending"} -> "processing"
    [] pc[a] \in {"receive", "time_out"} -> "pending_rfq"
    [] pc[a] = "claim" -> "quotes_received"
To(a) ==
  CASE pc[a] \in {"escalate", "no_vendors"} -> "operator_escalated"
    [] pc[a] = "to_pending" -> "pending_rfq"
    [] pc[a] = "receive" -> "quotes_received"
    [] pc[a] = "claim" -> "pending_approval"
    [] pc[a] = "time_out" -> "rfq_timeout"

TaskLabels == {"start", "search", "upsert", "dispatch", "escalate_read"}
ReplyLabels == {"unsent", "sole", "parse", "add", "count", "look",
                "look_again"}
Ranking == {"fetch", "rank", "save", "stamp", "card"}
WorkerLabels == {"sleep", "stuck", "list_silent", "silent"}
Labels ==
  Sites \cup TaskLabels \cup ReplyLabels \cup Ranking \cup WorkerLabels
        \cup {"done"}

Init ==
  /\ status = [g \in Goals |-> "processing"]
  /\ age = [g \in Goals |-> 0]
  /\ quotes = [g \in Goals |-> {}] /\ options = [g \in Goals |-> {}]
  /\ stamped = [g \in Goals |-> FALSE]
  /\ stateLock = [g \in Goals |-> FALSE]
  /\ asked = [g \in Goals |-> FALSE]
  /\ cards = [g \in Goals |-> 0] /\ shown = [g \in Goals |-> {}]
  /\ pc = [a \in Actors |-> CASE a \in Chat -> "to_pending"
                              [] a \in Goals \ Chat -> "start"
                              [] a \in Replies -> "unsent"
                              [] a = Worker -> "sleep"]
  /\ tx = [a \in Actors |-> "lock"]
  /\ at = [a \in Actors |-> CASE a \in Goals -> a
                              [] a \in Replies -> ReplyTo[a]
                              [] a = Worker -> CHOOSE g \in Goals : TRUE]
  /\ current = [g \in Goals |-> "processing"]
  /\ count = [r \in Replies |-> 0]
  /\ ranked = [a \in Actors |-> {}]
  /\ todo = {}

----------------------------------------------------------------------------
(* Control helpers *)

At(a, l) == pc[a] = l /\ tx[a] = "lock"

Goto(a, l) == pc' = [pc EXCEPT ![a] = l]

\* Leave _rank_and_request_approval: a reply's handler ends, the worker goes
\* on with its sweep.
Resume(a) == Goto(a, IF a = Worker THEN "stuck" ELSE "done")

\* Wrong variant: the background task swallows it.
RaiseVanishes(a) == Goto(a, IF a = Worker THEN "sleep" ELSE "done")

\* An exception.  The background task escalates its goal, unless it was doing
\* so; the chat goes on after a failed upsert and reports the rest; nothing
\* in the worker's job catches it, so the rest of the sweep is skipped.
Raise(a) ==
  Goto(a, CASE a = Worker -> "sleep"
            [] a \in Goals \ Chat /\ pc[a] \notin {"escalate_read", "escalate"}
                 -> "escalate_read"
            [] a \in Chat /\ pc[a] = "upsert" -> "dispatch"
            [] OTHER -> "done")

\* A command of the database or of Redis raises.
Error(a) ==
  /\ "error" \in Faults
  /\ pc[a] \notin {"done", "unsent", "sleep"} /\ tx[a] = "lock"
  /\ Raise(a)
  /\ UNCHANGED <<goalVars, outside, tx, at, current, count, ranked, todo>>

----------------------------------------------------------------------------
(* transition_goal_state, for every call site *)

\* What the caller does with the answer.  Only the call that claims the
\* right to rank looks at it.

\* Wrong variant: the answer of the claiming call is not looked at.
AfterClaimIgnored(a, moved) == Goto(a, "fetch")

AfterClaim(a, moved) == IF moved THEN Goto(a, "fetch") ELSE Resume(a)

After(a, moved) ==
  \/ pc[a] \in {"escalate", "no_vendors"} /\ Goto(a, "done")
  \/ pc[a] = "to_pending" /\ Goto(a, IF a \in Chat THEN "upsert" ELSE "done")
  \/ pc[a] = "receive" /\ Goto(a, "look_again")
  \/ pc[a] = "claim" /\ AfterClaim(a, moved)
  \/ pc[a] = "time_out" /\ Goto(a, "silent")

TakeLock(a) ==
  LET g == at[a] IN
  /\ pc[a] \in Sites /\ tx[a] = "lock"
  /\ \/ /\ ~stateLock[g]
        /\ stateLock' = [stateLock EXCEPT ![g] = TRUE]
        /\ tx' = [tx EXCEPT ![a] = "cas"]
        /\ UNCHANGED pc
     \/ /\ stateLock[g]
        /\ After(a, FALSE)
        /\ UNCHANGED <<stateLock, tx>>
  /\ UNCHANGED <<status, age, quotes, options, stamped, outside, at, current,
                 count, ranked, todo>>

\* Wrong variant: the enum is stored through str(), "GoalState.X".
SetStateUnnormalised(a) ==
  /\ status' = [status EXCEPT ![at[a]] = <<"GoalState", To(a)>>]
  /\ age' = [age EXCEPT ![at[a]] = 0]

\* Writing the state renews updated_at.
SetState(a) ==
  /\ status' = [status EXCEPT ![at[a]] = To(a)]
  /\ age' = [age EXCEPT ![at[a]] = 0]

Matches(a) == status[at[a]] = From(a)

CompareAndSet(a) ==
  /\ pc[a] \in Sites /\ tx[a] = "cas"
  /\ \/ Matches(a) /\ SetState(a) /\ tx' = [tx EXCEPT ![a] = "won"]
     \/ ~Matches(a) /\ UNCHANGED <<status, age>>
                    /\ tx' = [tx EXCEPT ![a] = "lost"]
  /\ UNCHANGED <<quotes, options, stamped, stateLock, outside, pc, at, current,
                 count, ranked, todo>>

GiveLock(a) ==
  /\ tx[a] \in {"won", "lost"}
  /\ stateLock' = [stateLock EXCEPT ![at[a]] = FALSE]
  /\ tx' = [tx EXCEPT ![a] = "lock"]
  /\ After(a, tx[a] = "won")
  /\ UNCHANGED <<status, age, quotes, options, stamped, outside, at, current,
                 count, ranked, todo>>

\* One of its commands raises: the state may have been written, and the key
\* may be left behind until it expires.
TransitionError(a) ==
  /\ "error" \in Faults
  /\ pc[a] \in Sites
  /\ \/ UNCHANGED <<status, age>>
     \/ tx[a] = "cas" /\ Matches(a) /\ SetState(a)
  /\ \/ tx[a] = "lock" /\ stateLock' = [stateLock EXCEPT ![at[a]] = TRUE]
     \/ tx[a] # "lock" /\ UNCHANGED stateLock
     \/ tx[a] # "lock" /\ stateLock' = [stateLock EXCEPT ![at[a]] = FALSE]
  /\ tx' = [tx EXCEPT ![a] = "lock"]
  /\ Raise(a)
  /\ UNCHANGED <<quotes, options, stamped, outside, at, current, count,
                 ranked, todo>>

----------------------------------------------------------------------------
(* The task that starts a goal: process_goal, or the chat's confirmation *)

\* Move only the program counter.
Jump(a) ==
  UNCHANGED <<goalVars, outside, tx, at, current, count, ranked, todo>>

\* A goal that lacks a mandatory field is left alone.
CheckIntake(g) ==
  /\ At(g, "start")
  /\ Goto(g, IF g \in Unclear THEN "done" ELSE "search")
  /\ Jump(g)

Search(g) ==
  /\ At(g, "search")
  /\ Goto(g, "upsert") \/ Goto(g, "no_vendors") \/ Raise(g)
  /\ Jump(g)

UpsertVendors(g) ==
  /\ At(g, "upsert")
  /\ Goto(g, "dispatch")
  /\ Jump(g)

\* Wrong variant: that nobody was reachable goes unnoticed.
DispatchedUnchecked(g) ==
  \/ asked' = [asked EXCEPT ![g] = TRUE] /\ Goto(g, "to_pending")
  \/ UNCHANGED asked /\ Goto(g, "to_pending")

\* Somebody was sent an RFQ, or nobody has a phone.
Dispatched(g) ==
  \/ asked' = [asked EXCEPT ![g] = TRUE] /\ Goto(g, "to_pending")
  \/ UNCHANGED asked /\ Goto(g, "no_vendors")

\* The chat's goal is pending already; WhatsApp may not be configured.
DispatchedInChat(g) ==
  /\ \/ asked' = [asked EXCEPT ![g] = TRUE]
     \/ UNCHANGED asked
  /\ Goto(g, "done")

\* RFQs go out in parallel: when one fails, others may have been sent.
DispatchFailed(g) ==
  /\ \/ asked' = [asked EXCEPT ![g] = TRUE]
     \/ UNCHANGED asked
  /\ Raise(g)

DispatchRfqs(g) ==
  /\ At(g, "dispatch")
  /\ \/ g \notin Chat /\ Dispatched(g)
     \/ g \in Chat /\ DispatchedInChat(g)
     \/ DispatchFailed(g)
  /\ UNCHANGED <<goalVars, cards, shown, tx, at, current, count, ranked, todo>>

ReadToEscalate(g) ==
  /\ At(g, "escalate_read")
  /\ current' = [current EXCEPT ![g] = status[g]]
  /\ Goto(g, "escalate")
  /\ UNCHANGED <<goalVars, outside, tx, at, count, ranked, todo>>

----------------------------------------------------------------------------
(* A vendor's reply on the WhatsApp webhook *)

Active == {g \in Goals : status[g] \in {"pending_rfq", "quotes_received"}}

\* By its REF code, if that goal still waits for quotes ...
Route(r) ==
  /\ At(r, "unsent")
  /\ asked[ReplyTo[r]]
  /\ Goto(r, IF ReplyTo[r] \in Active THEN "parse" ELSE "sole")
  /\ Jump(r)

\* ... else to the only goal that does, else to the operator.
RouteToSole(r) ==
  /\ At(r, "sole")
  /\ \/ \E g \in Goals :
          /\ Active = {g}
          /\ at' = [at EXCEPT ![r] = g]
          /\ Goto(r, "parse")
     \/ Cardinality(Active) # 1 /\ Goto(r, "done") /\ UNCHANGED at
  /\ UNCHANGED <<goalVars, outside, tx, current, count, ranked, todo>>

\* Ambiguous, or from an unknown vendor: to the operator.
ParseQuote(r) ==
  /\ At(r, "parse")
  /\ Goto(r, "add") \/ Goto(r, "done")
  /\ Jump(r)

AddQuote(r) ==
  /\ At(r, "add")
  /\ quotes' = [quotes EXCEPT ![at[r]] = @ \cup {r}]
  /\ Goto(r, "count")
  /\ UNCHANGED <<status, age, options, stamped, stateLock, outside, tx, at,
                 current, count, ranked, todo>>

CountQuotes(r) ==
  /\ At(r, "count")
  /\ count' = [count EXCEPT ![r] = Cardinality(quotes[at[r]])]
  /\ Goto(r, "look")
  /\ UNCHANGED <<goalVars, outside, tx, at, current, ranked, todo>>

\* Wrong variant: the first quote is enough.
AnyQuote(r) == count[r] > 0

EnoughQuotes(r) == count[r] >= MinQuotes

RankOrEnd(r) ==
  IF status[at[r]] = "quotes_received" /\ EnoughQuotes(r)
    THEN Goto(r, "claim")
    ELSE Goto(r, "done")

LookAtGoal(r) ==
  /\ At(r, "look")
  /\ \/ status[at[r]] = "pending_rfq" /\ Goto(r, "receive")
     \/ status[at[r]] # "pending_rfq" /\ RankOrEnd(r)
  /\ Jump(r)

LookAgain(r) ==
  /\ At(r, "look_again")
  /\ RankOrEnd(r)
  /\ Jump(r)

----------------------------------------------------------------------------
(* _rank_and_request_approval, of a reply or of the worker *)

FetchQuotes(a) ==
  /\ At(a, "fetch")
  /\ ranked' = [ranked EXCEPT ![a] = quotes[at[a]]]
  /\ Goto(a, "rank")
  /\ UNCHANGED <<goalVars, outside, tx, at, current, count, todo>>

\* Nothing checks the answer of the language model: it may list any options,
\* none included; one that cannot be read raises.
RankOptions(a) ==
  /\ At(a, "rank")
  /\ \/ \E listed \in SUBSET Replies :
          ranked' = [ranked EXCEPT ![a] = listed] /\ Goto(a, "save")
     \/ UNCHANGED ranked /\ Raise(a)
  /\ UNCHANGED <<goalVars, outside, tx, at, current, count, todo>>

SaveOptions(a) ==
  /\ At(a, "save")
  /\ options' = [options EXCEPT ![at[a]] = ranked[a]]
  /\ Goto(a, "stamp")
  /\ UNCHANGED <<status, age, quotes, stamped, stateLock, outside, tx, at,
                 current, count, ranked, todo>>

StampSent(a) ==
  /\ At(a, "stamp")
  /\ stamped' = [stamped EXCEPT ![at[a]] = TRUE]
  /\ Goto(a, "card")
  /\ UNCHANGED <<status, age, quotes, options, stateLock, outside, tx, at,
                 current, count, ranked, todo>>

\* Building the card raises for options of an odd shape.
SendCard(a) ==
  LET sent == /\ at[a] \notin NoChannel
              /\ cards' = [cards EXCEPT ![at[a]] = @ + 1]
              /\ shown' = [shown EXCEPT ![at[a]] = ranked[a]]
      unsent == UNCHANGED <<cards, shown>>
  IN
  /\ At(a, "card")
  /\ \/ sent /\ (Resume(a) \/ Raise(a))
     \/ unsent /\ Raise(a)
     \/ unsent /\ at[a] \in NoChannel /\ Resume(a)
  /\ UNCHANGED <<goalVars, asked, tx, at, current, count, ranked, todo>>

----------------------------------------------------------------------------
(* The worker's rfq_timeout job: one run at a time *)

ListStuck ==
  /\ At(Worker, "sleep")
  /\ todo' = {g \in Goals : status[g] = "quotes_received" /\ age[g] >= 1}
  /\ Goto(Worker, "stuck")
  /\ UNCHANGED <<goalVars, outside, tx, at, current, count, ranked>>

\* Wrong variant: the worker waits for enough quotes too.
WorthRankingEnough(g) == Cardinality(quotes[g]) >= MinQuotes

WorthRanking(g) == quotes[g] # {}

NextStuck ==
  /\ At(Worker, "stuck")
  /\ \/ /\ todo = {}
        /\ Goto(Worker, "list_silent")
        /\ UNCHANGED <<todo, at>>
     \/ \E g \in todo :
          /\ todo' = todo \ {g}
          /\ at' = [at EXCEPT ![Worker] = g]
          /\ Goto(Worker, IF WorthRanking(g) THEN "claim" ELSE "stuck")
  /\ UNCHANGED <<goalVars, outside, tx, current, count, ranked>>

ListSilent ==
  /\ At(Worker, "list_silent")
  /\ todo' = {g \in Goals : status[g] = "pending_rfq" /\ age[g] = 2}
  /\ Goto(Worker, "silent")
  /\ UNCHANGED <<goalVars, outside, tx, at, current, count, ranked>>

\* Wrong variant: the branches are swapped.
NobodyRepliedInverted(g) == quotes[g] # {}

NobodyReplied(g) == quotes[g] = {}

NextSilent ==
  /\ At(Worker, "silent")
  /\ \/ /\ todo = {}
        /\ Goto(Worker, "sleep")
        /\ UNCHANGED <<todo, at>>
     \/ \E g \in todo :
          /\ todo' = todo \ {g}
          /\ at' = [at EXCEPT ![Worker] = g]
          /\ Goto(Worker, IF NobodyReplied(g) THEN "time_out" ELSE "silent")
  /\ UNCHANGED <<goalVars, outside, tx, current, count, ranked>>

----------------------------------------------------------------------------
(* The environment *)

\* The process of a dies; that of the worker is started again.
Crash(a) ==
  /\ \/ a # Worker /\ "crash" \in Faults
        /\ pc[a] \notin {"done", "unsent"} /\ Goto(a, "done")
     \/ a = Worker /\ "restart" \in Faults
        /\ pc[a] # "sleep" /\ Goto(a, "sleep")
  /\ tx' = [tx EXCEPT ![a] = "lock"]
  /\ UNCHANGED <<goalVars, outside, at, current, count, ranked, todo>>

\* Time passes.  Only the worker asks for the age, and only in two states.
Age(g) ==
  /\ age[g] < 2
  /\ status[g] \in {"pending_rfq", "quotes_received"}
  /\ age' = [age EXCEPT ![g] = @ + 1]
  /\ UNCHANGED <<status, quotes, options, stamped, stateLock, outside,
                 actorVars>>

\* The 30 s lease of a goal's lock whose holder is gone runs out.
ExpireState(g) ==
  /\ stateLock[g]
  /\ \A a \in Actors : at[a] = g => tx[a] = "lock"
  /\ stateLock' = [stateLock EXCEPT ![g] = FALSE]
  /\ UNCHANGED <<status, age, quotes, options, stamped, outside, actorVars>>

----------------------------------------------------------------------------

Transition(a) == TakeLock(a) \/ CompareAndSet(a) \/ GiveLock(a)

Task(g) ==
  \/ CheckIntake(g) \/ Search(g) \/ UpsertVendors(g) \/ DispatchRfqs(g)
  \/ ReadToEscalate(g) \/ Transition(g)

Rank(a) ==
  \/ FetchQuotes(a) \/ RankOptions(a) \/ SaveOptions(a) \/ StampSent(a)
  \/ SendCard(a)

Handle(r) ==
  \/ RouteToSole(r) \/ ParseQuote(r) \/ AddQuote(r)
  \/ CountQuotes(r) \/ LookAtGoal(r) \/ LookAgain(r)
  \/ Transition(r) \/ Rank(r)

Job ==
  \/ ListStuck \/ NextStuck \/ ListSilent \/ NextSilent
  \/ Transition(Worker) \/ Rank(Worker)

Fault(a) == Error(a) \/ TransitionError(a) \/ Crash(a)

Next ==
  \/ \E g \in Goals : Task(g) \/ Age(g) \/ ExpireState(g)
  \/ \E r \in Replies : Route(r) \/ Handle(r)
  \/ Job
  \/ \E a \in Actors : Fault(a)

\* Tasks and handlers that are alive go on, the scheduler runs its job again
\* and again, time passes.  No vendor has to reply.
Fairness ==
  /\ \A g \in Goals : WF_vars(Task(g)) /\ WF_vars(Age(g))
                      /\ WF_vars(ExpireState(g))
  /\ \A r \in Replies : WF_vars(Handle(r))
  /\ WF_vars(Job)

Spec == Init /\ [][Next]_vars
FairSpec == Spec /\ Fairness

----------------------------------------------------------------------------
(* Properties *)

TypeOK ==
  /\ status \in [Goals -> GoalState]
  /\ age \in [Goals -> 0..2]
  /\ quotes \in [Goals -> SUBSET Replies]
  /\ options \in [Goals -> SUBSET Replies]
  /\ stamped \in [Goals -> BOOLEAN]
  /\ stateLock \in [Goals -> BOOLEAN]
  /\ asked \in [Goals -> BOOLEAN]
  /\ cards \in [Goals -> Nat]
  /\ shown \in [Goals -> SUBSET Replies]
  /\ pc \in [Actors -> Labels]
  /\ tx \in [Actors -> {"lock", "cas", "won", "lost"}]
  /\ at \in [Actors -> Goals]
  /\ current \in [Goals -> GoalState]
  /\ count \in [Replies -> Nat]
  /\ ranked \in [Actors -> SUBSET Replies]
  /\ todo \subseteq Goals

\* One approval card per goal, however many replies and sweeps try to rank
\* it at once (agents/orchestrator.py:292-299).
OneCard == \A g \in Goals : cards[g] <= 1

\* Until somebody decides on it, which is ApprovalPayment's part, a goal whose
\* card was sent awaits approval, its clock runs, and the buttons of the card
\* are for the options the goal has: no second ranking, whose answer may
\* differ, was stored under the card (agents/orchestrator.py:292-323).
CardMatchesGoal ==
  \A g \in Goals :
    cards[g] > 0 =>
      status[g] = "pending_approval" /\ stamped[g] /\ shown[g] = options[g]

\* What a reply's handler gives to rank is enough quotes, although it counted
\* them before it won the goal; only the worker gives fewer
\* (agents/orchestrator.py:30-32, 284).
RepliesRankEnough ==
  \A r \in Replies : pc[r] = "rank" => Cardinality(ranked[r]) >= MinQuotes

\* "RFQs sent, awaiting vendor replies": a goal from POST /goals that waits
\* for quotes has asked somebody (agents/orchestrator.py:251-262).
PendingMeansAsked ==
  \A g \in Goals \ Chat : status[g] = "pending_rfq" => asked[g]

\* No goal stays in quotes_received: with too few quotes, or after a refused
\* claim, the worker ranks it past the deadline (worker/rfq_timeout.py:3-6).
NotStuckWithQuotes ==
  \A g \in Goals : status[g] = "quotes_received" ~> status[g] # "quotes_received"

\* No goal waits for ever for a first reply (worker/rfq_timeout.py:7-8).
SilenceTimesOut ==
  \A g \in Goals :
    status[g] = "pending_rfq" /\ quotes[g] = {}
      ~> status[g] # "pending_rfq" \/ quotes[g] # {}

\* A new goal with a complete intent gets somewhere, or to an operator: a
\* failure of the background task does not leave it behind
\* (api/routes/goals.py:31-41).
NoSilentStall ==
  \A g \in Goals \ Unclear :
    status[g] = "processing" ~> status[g] # "processing"

----------------------------------------------------------------------------
(* What the code's text says and the code does not do *)

\* "Past a deadline we rank with whatever we have" (worker/rfq_timeout.py:6):
\* a goal with a quote does not stay in pending_rfq.
QuotedGoalMovesOn ==
  \A g \in Goals :
    status[g] = "pending_rfq" /\ quotes[g] # {} ~> status[g] # "pending_rfq"
============================================================================
