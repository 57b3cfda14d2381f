---------------------------- MODULE ChatSession ----------------------------
(***************************************************************************)
(* One chat session (api/routes/chat.py): turns of the conversation, in    *)
(* which a model calls the tools find_vendors and                          *)
(* confirm_and_create_goal, and polls of /chat/updates, which report what  *)
(* vendors answered.  All of them share the session's record in memory;    *)
(* between two awaits a handler runs alone.                                *)
(*                                                                         *)
(* The page has one turn at a time, but a poll whenever its timer fires;   *)
(* clients that name no session share "default", so turns overlap too.     *)
(***************************************************************************)
EXTENDS VendorRanking, SequencesExt, GoalStates

CONSTANTS
  Turns,           \* requests of /chat/message that can be under way at once
  Polls,           \* requests of /chat/updates that can be
  Plans,           \* sequences of tool names a model may call in one answer
  Requirements,    \* records [topic, specific]: what find_vendors is asked
  Listings,        \* [topic -> candidate lists the search may return]
  Assessments,     \* risk levels and scores of the vendors found, by position
  Recommendations, \* recommended_vendor, NoName when it is left out
  Picks,           \* the vendor argument of a confirmation: a name or "all"
  TopN,            \* TOP_N
  NoName,
  TestRecipient,   \* settings.rfq_test_recipient is set
  ToolsMayRaise,   \* the search for vendors may raise
  Course,          \* pairs of states the rest of the system moves a goal along
  MaxMessages, MaxRounds, MaxGoals, MaxQuotes, MaxFailures
                   \* bounds; MaxRounds is 5 in the code

ASSUME BoundsAssumption ==
  /\ MaxMessages \in Nat /\ MaxRounds \in Nat \ {0}
  /\ MaxGoals \in Nat /\ MaxQuotes \in Nat /\ MaxFailures \in Nat

ASSUME CourseAssumption == Course \subseteq GoalState \X GoalState

ASSUME PlansAssumption == Plans \subseteq Seq({"find", "confirm", "other"}) \ {<<>>}

ASSUME SearchAssumption ==
  /\ TopN \in Nat
  /\ \A r \in Requirements : \A cs \in Listings[r.topic] :
       /\ Len(cs) \in Nat /\ DOMAIN cs = 1..Len(cs)
       /\ \A i \in DOMAIN cs : cs[i].rating \in Int /\ cs[i].reviews \in Nat
  /\ \A a \in Assessments : \A i \in DOMAIN a : a[i].score \in Int

VARIABLES
  pc, round, plan, done,   \* of each turn: where it is, and its tool calls
  order,                   \* of each turn: the locals of its confirmation
  messages, history, last, \* session: the conversation, the last search
  goals, seen, lastStatus, \* session: confirmed goals, their high-water marks
  store,                   \* the goals table: [status, from, quotes]; a goal's
                           \* intent is that of the confirmation it is from
  sent,                    \* RFQs that went out: pairs <<goal, vendor>>
  reading,                 \* of each poll: where it is, and what it read
  failures,                \* reads of the store that raised
  told, announced          \* quotes, and goals as ranked, some poll reported

turnVars == <<pc, round, plan, done, order>>
talkVars == <<messages, history, last>>
hubVars == <<goals, seen, lastStatus>>
pollVars == <<reading, failures, told, announced>>
vars == <<turnVars, talkVars, hubVars, store, sent, pollVars>>

Goals == 1..MaxGoals
Unsearched == [intent |-> NoName, recipient |-> NoName, advice |-> NoName,
               dispatch |-> <<>>]
Blank == [status |-> "none", from |-> Unsearched, quotes |-> 0]
Off == [at |-> "off", next |-> 1, status |-> "none", quotes |-> 0]

Init ==
  /\ pc = [t \in Turns |-> "idle"] /\ round = [t \in Turns |-> 0]
  /\ plan = [t \in Turns |-> <<>>] /\ done = [t \in Turns |-> 0]
  /\ order = [t \in Turns |-> Unsearched]
  /\ messages = 0 /\ history = <<>> /\ last = Unsearched
  /\ goals = <<>>
  /\ seen = [g \in Goals |-> 0] /\ lastStatus = [g \in Goals |-> "none"]
  /\ store = [g \in Goals |-> Blank] /\ sent = {}
  /\ reading = [p \in Polls |-> Off] /\ failures = 0
  /\ told = {} /\ announced = {}

Goto(t, label) == pc' = [pc EXCEPT ![t] = label]
End(t) == Goto(t, "idle") /\ round' = [round EXCEPT ![t] = 0]

----------------------------------------------------------------------------
(* The conversation *)

\* What a provider accepts: the results of an answer's tool calls follow it.
Canonical(h) ==
  \A i \in DOMAIN h :
    h[i].kind = "assistant" /\ h[i].calls > 0 =>
      i < Len(h) /\ h[i + 1] = [by |-> h[i].by, kind |-> "results", calls |-> h[i].calls]

\* The history keeps every entry; the model forgets a canonical one, to which
\* anything acceptable may be appended.
Says(t, kind, n) ==
  LET h == Append(history, [by |-> t, kind |-> kind, calls |-> n])
  IN  history' = IF Canonical(h) THEN <<>> ELSE h

\* For Groq an entry with results becomes one message per call.
ToOpenAiMessages(h) ==
  FlattenSeq([i \in DOMAIN h |->
    IF h[i].kind = "results"
    THEN [k \in 1..h[i].calls |-> [role |-> "tool", by |-> h[i].by]]
    ELSE <<[role |-> h[i].kind, by |-> h[i].by, calls |-> h[i].calls]>>])

CanonicalMessages(ms) ==
  \A i \in DOMAIN ms :
    ms[i].role = "assistant" =>
      /\ i + ms[i].calls <= Len(ms)
      /\ \A k \in 1..ms[i].calls : ms[i + k] = [role |-> "tool", by |-> ms[i].by]

\* Anthropic, or Groq after it.
Accepted(h) == Canonical(h) \/ CanonicalMessages(ToOpenAiMessages(h))

\* A provider is called with the history as it is: other turns may append to
\* it before the answer comes.
Ask(t) == Goto(t, IF Accepted(history') THEN "ask" ELSE "refused")

\* chat_message up to its first call of a provider.
Message(t) ==
  /\ pc[t] = "idle" /\ messages < MaxMessages
  /\ messages' = messages + 1 /\ Says(t, "user", 0)
  /\ round' = [round EXCEPT ![t] = 1] /\ Ask(t)
  /\ UNCHANGED <<plan, done, order, last, hubVars, store, sent, pollVars>>

\* The model answers in words: the end of the turn.
Answer(t) ==
  /\ pc[t] = "ask"
  /\ Says(t, "assistant", 0) /\ End(t)
  /\ UNCHANGED <<plan, done, order, messages, last, hubVars, store, sent, pollVars>>

\* The model calls tools.
CallTools(t) ==
  /\ pc[t] = "ask"
  /\ \E calls \in Plans :
       plan' = [plan EXCEPT ![t] = calls] /\ Says(t, "assistant", Len(calls))
  /\ Goto(t, "tool")
  /\ UNCHANGED <<round, done, order, messages, last, hubVars, store, sent, pollVars>>

\* Both providers failed: the user reads an apology, the history stays.
NoAnswer(t) ==
  /\ pc[t] \in {"ask", "refused"} /\ End(t)
  /\ UNCHANGED <<plan, done, order, talkVars, hubVars, store, sent, pollVars>>

Calls(t, tool) == pc[t] = "tool" /\ plan[t][done[t] + 1] = tool

Dismiss(t) == plan' = [plan EXCEPT ![t] = <<>>] /\ done' = [done EXCEPT ![t] = 0]

\* A tool's result: the next call, or all results to the model, which is
\* asked again unless it is stuck.
Result(t) ==
  /\ order' = [order EXCEPT ![t] = Unsearched]
  /\ IF done[t] + 1 < Len(plan[t])
     THEN /\ done' = [done EXCEPT ![t] = @ + 1] /\ Goto(t, "tool")
          /\ UNCHANGED <<plan, round, history>>
     ELSE /\ Says(t, "results", Len(plan[t])) /\ Dismiss(t)
          /\ IF round[t] < MaxRounds
             THEN Ask(t) /\ round' = [round EXCEPT ![t] = @ + 1]
             ELSE End(t)
  /\ UNCHANGED messages

UnknownTool(t) ==
  /\ Calls(t, "other") /\ Result(t)
  /\ UNCHANGED <<last, hubVars, store, sent, pollVars>>

----------------------------------------------------------------------------
(* find_vendors *)

\* The vendors to write to, each with the requirement's category and city; the
\* risk is not sent along, the model keeps it for the properties.
Addressed(vs, requirement) ==
  [i \in DOMAIN vs |->
     [name |-> vs[i].name, risk |-> vs[i].risk, intent |-> requirement]]

\* What the session keeps of a search: the intent, the vendors that can be
\* messaged, and whom the drafted RFQ addresses; no draft when there is none, or the address is vague.
Found(requirement, vendors, recommended) ==
  IF ~requirement.specific \/ Reachable(vendors) = <<>>
  THEN [Unsearched EXCEPT !.intent = requirement]
  ELSE [intent |-> requirement, advice |-> recommended,
        recipient |-> Recipient(Reachable(vendors), recommended).name,
        dispatch |-> Addressed(Reachable(vendors), requirement)]

FindVendors(t) ==
  /\ Calls(t, "find") /\ Result(t)
  /\ \E r \in Requirements, assessed \in Assessments, advice \in Recommendations :
       \E cs \in Listings[r.topic] :
         last' = Found(r, Vetted(Discovered(cs, TopN), assessed), advice)
  /\ UNCHANGED <<hubVars, store, sent, pollVars>>

\* The search raises: the turn ends with its tool calls unanswered.
SearchRaises(t) ==
  /\ ToolsMayRaise /\ Calls(t, "find") /\ End(t) /\ Dismiss(t)
  /\ UNCHANGED <<order, talkVars, hubVars, store, sent, pollVars>>

----------------------------------------------------------------------------
(* confirm_and_create_goal *)

NothingFound(t) ==
  /\ Calls(t, "confirm") /\ last.recipient = NoName /\ Result(t)
  /\ UNCHANGED <<last, hubVars, store, sent, pollVars>>

\* The last search and the targets are read before the first await.
Confirm(t) ==
  /\ Calls(t, "confirm") /\ last.recipient # NoName
  /\ \E pick \in Picks :
       LET targets == PickTargets(last.dispatch, last.recipient, pick)
       IN  order' = [order EXCEPT ![t] =
             [goal |-> 0, intent |-> last.intent, pick |-> pick, search |-> last,
              targets |-> IF TestRecipient THEN SubSeq(targets, 1, 1) ELSE targets]]
  /\ Goto(t, "save")
  /\ UNCHANGED <<round, plan, done, talkVars, hubVars, store, sent, pollVars>>

Free == {g \in Goals : store[g].status = "none"}

Created(t, status) == [status |-> status, from |-> order[t], quotes |-> 0]

SaveGoal(t) ==
  /\ pc[t] = "save"
  /\ \E g \in Free :
       /\ \A h \in Free : g <= h
       /\ store' = [store EXCEPT ![g] = Created(t, "pending_rfq")]
       /\ order' = [order EXCEPT ![t].goal = g]
  /\ Goto(t, "send")
  /\ UNCHANGED <<round, plan, done, talkVars, hubVars, sent, pollVars>>

\* Any of the commands raised; the goal may be there all the same.
SaveFails(t) ==
  /\ pc[t] = "save" /\ Result(t)
  /\ \/ UNCHANGED store
     \/ \E g \in Free :
          /\ \A h \in Free : g <= h
          /\ store' = [store EXCEPT ![g] = Created(t, "processing")]
  /\ UNCHANGED <<last, hubVars, sent, pollVars>>

\* Wrong variant: the vendors are those of the session's last search.
SendLast(t) ==
  /\ pc[t] = "send"
  /\ \E delivered \in SUBSET ToSet(PickTargets(last.dispatch, last.recipient,
                                               order[t].pick)) :
       sent' = sent \cup {<<order[t].goal, v>> : v \in delivered}
  /\ Goto(t, "register")
  /\ UNCHANGED <<round, plan, done, order, talkVars, hubVars, store, pollVars>>

\* dispatch_rfqs: any of the messages may fail, all do without an API key.
Send(t) ==
  /\ pc[t] = "send"
  /\ \E delivered \in SUBSET ToSet(order[t].targets) :
       sent' = sent \cup {<<order[t].goal, v>> : v \in delivered}
  /\ Goto(t, "register")
  /\ UNCHANGED <<round, plan, done, order, talkVars, hubVars, store, pollVars>>

\* Wrong variant: replies that are already there count as reported.
MarkAtCount(g) == seen' = [seen EXCEPT ![g] = store[g].quotes]

MarkUnseen(g) == seen' = [seen EXCEPT ![g] = 0]

Register(t) ==
  /\ pc[t] = "register" /\ Result(t)
  /\ goals' = Append(goals, order[t].goal) /\ MarkUnseen(order[t].goal)
  /\ UNCHANGED <<last, lastStatus, store, sent, pollVars>>

----------------------------------------------------------------------------
(* chat_updates *)

PollStart(p) ==
  /\ reading[p].at = "off" /\ goals # <<>>
  /\ reading' = [reading EXCEPT ![p] = [Off EXCEPT !.at = "status"]]
  /\ UNCHANGED <<turnVars, talkVars, hubVars, store, sent, failures, told, announced>>

\* The loop runs over the session's own list: goals confirmed meanwhile come in.
Looks(p, label) == reading[p].at = label /\ reading[p].next <= Len(goals)
Looked(p) == goals[reading[p].next]

PollStatus(p) ==
  /\ Looks(p, "status")
  /\ reading' = [reading EXCEPT ![p].at = "quotes",
                                ![p].status = store[Looked(p)].status]
  /\ UNCHANGED <<turnVars, talkVars, hubVars, store, sent, failures, told, announced>>

PollQuotes(p) ==
  /\ Looks(p, "quotes")
  /\ reading' = [reading EXCEPT ![p].at = "note",
                                ![p].quotes = store[Looked(p)].quotes]
  /\ UNCHANGED <<turnVars, talkVars, hubVars, store, sent, failures, told, announced>>

\* Both reads are there: the mark moves to what was read, and what lies
\* between is reported, with the new status if an earlier poll saw another;
\* the page shows it when it is pending_approval.
Fresh(p) == {<<Looked(p), n>> : n \in (seen[Looked(p)] + 1)..reading[p].quotes}

\* Wrong variant: the old status is looked up after it was replaced.
MovedLate(p) ==
  LET known == [lastStatus EXCEPT ![Looked(p)] = reading[p].status]
  IN  known[Looked(p)] \notin {"none", reading[p].status}

Moved(p) == lastStatus[Looked(p)] \notin {"none", reading[p].status}

\* Wrong variant: the loop ends after the first goal.
NextGoalReturns(p) ==
  reading' = [reading EXCEPT ![p] = [Off EXCEPT !.at = "status", !.next = Len(goals) + 1]]

NextGoal(p) ==
  reading' = [reading EXCEPT ![p] = [Off EXCEPT !.at = "status", !.next = reading[p].next + 1]]

PollNote(p) ==
  /\ Looks(p, "note")
  /\ told' = told \cup Fresh(p)
  /\ announced' = announced \cup
       (IF Moved(p) /\ reading[p].status = "pending_approval" THEN {Looked(p)} ELSE {})
  /\ seen' = [seen EXCEPT ![Looked(p)] = reading[p].quotes]
  /\ lastStatus' = [lastStatus EXCEPT ![Looked(p)] = reading[p].status]
  /\ NextGoal(p)
  /\ UNCHANGED <<turnVars, talkVars, goals, store, sent, failures>>

\* A read raises: on to the next goal.
PollFails(p) ==
  /\ Looks(p, "status") \/ Looks(p, "quotes")
  /\ failures < MaxFailures /\ failures' = failures + 1
  /\ NextGoal(p)
  /\ UNCHANGED <<turnVars, talkVars, hubVars, store, sent, told, announced>>

PollEnd(p) ==
  /\ reading[p].at = "status" /\ reading[p].next > Len(goals)
  /\ reading' = [reading EXCEPT ![p] = Off]
  /\ UNCHANGED <<turnVars, talkVars, hubVars, store, sent, failures, told, announced>>

----------------------------------------------------------------------------
(* The rest of the system: QuoteCollection models it *)

\* A vendor that got the RFQ answers it; the handler stores the quote.
Reply(g) ==
  /\ \E s \in sent : s[1] = g
  /\ store[g].quotes < MaxQuotes
  /\ store' = [store EXCEPT ![g].quotes = @ + 1]
  /\ UNCHANGED <<turnVars, talkVars, hubVars, sent, pollVars>>

\* The goal moves on, between any two polls: ranked once it has quotes, decided
\* on, sent back for another approval.
Advance(g) ==
  /\ \E s \in GoalState :
       /\ <<store[g].status, s>> \in Course
       /\ s = "quotes_received" => store[g].quotes > 0
       /\ store' = [store EXCEPT ![g].status = s]
  /\ UNCHANGED <<turnVars, talkVars, hubVars, sent, pollVars>>

Tool(t) ==
  \/ UnknownTool(t) \/ FindVendors(t) \/ NothingFound(t) \/ Confirm(t)
  \/ SaveGoal(t) \/ SaveFails(t) \/ Send(t) \/ Register(t) \/ SearchRaises(t)

Turn(t) == Message(t) \/ Answer(t) \/ CallTools(t) \/ NoAnswer(t) \/ Tool(t)

Poll(p) ==
  \/ PollStart(p) \/ PollStatus(p) \/ PollQuotes(p) \/ PollNote(p)
  \/ PollFails(p) \/ PollEnd(p)

Next ==
  \/ \E t \in Turns : Turn(t)
  \/ \E p \in Polls : Poll(p)
  \/ \E g \in Goals : Reply(g) \/ Advance(g)

\* The page's timer goes on polling; one request may hang, not all of them.
Fairness == WF_vars(\E p \in Polls : Poll(p))

Spec == Init /\ [][Next]_vars
FairSpec == Spec /\ Fairness

----------------------------------------------------------------------------
(* Properties *)

\* The high-water mark passes no quote that was not reported, however polls
\* overlap and whenever the goal was registered (api/routes/chat.py:669,
\* 683-685).
NoQuoteSkipped ==
  \A i \in DOMAIN goals : \A n \in 1..seen[goals[i]] : <<goals[i], n>> \in told

\* An RFQ goes to vendors that were found for the requirement of its goal,
\* although other turns may search meanwhile (api/routes/chat.py:434-444,
\* 618-625).
RfqMatchesSearch ==
  \A s \in sent : s[2].intent = store[s[1]].from.intent

\* A vendor whose reviews speak against it gets an RFQ only if the user or the
\* model named it, the user asked for all, or there was no other; or if its
\* name contains that of a recipient which is not high-risk, since targets are
\* matched by name (api/routes/chat.py:374-383, 421-425).
HighRiskOnlyOnRequest ==
  \A s \in sent :
    LET from == store[s[1]].from  v == s[2]
    IN  v.risk.level = "high" =>
          \/ from.pick = "all"
          \/ \E text \in {from.pick, from.search.advice} : <<text, v.name>> \in Within
          \/ \A w \in ToSet(from.search.dispatch) : w.risk.level = "high"
          \/ /\ <<from.search.recipient, v.name>> \in Within
             /\ \E w \in ToSet(from.search.dispatch) :
                  w.name = from.search.recipient /\ w.risk.level # "high"

\* "any vendor reply will appear right here in the chat"
\* (api/routes/chat.py:499): each quote of a registered goal is reported.
QuotesAnnounced ==
  \A g \in Goals : \A n \in 1..MaxQuotes :
    Contains(goals, g) /\ store[g].quotes >= n ~> <<g, n>> \in told

\* A goal that is ranked after a poll saw it in another state is announced as
\* ready for approval, unless it moves on first: between two polls it may be
\* ranked and decided on, and then nothing is announced
\* (api/routes/chat.py:681-692, 775).
RankingAnnounced ==
  \A g \in Goals :
    Contains(goals, g) /\ lastStatus[g] \notin {"none", "pending_approval"}
      /\ store[g].status = "pending_approval"
        ~> g \in announced \/ store[g].status # "pending_approval"
============================================================================
