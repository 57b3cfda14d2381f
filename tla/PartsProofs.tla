---------------------------- MODULE PartsProofs ----------------------------
(***************************************************************************)
(* Proofs about the components that MCParts runs: approval links, inbound  *)
(* routing, the vendor score, payment retries and the migration runner,    *)
(* for any number of requests, goals, rows, callers and files.             *)
(***************************************************************************)
EXTENDS ApprovalLinks, InboundRouting, VendorScore, PaymentRetry, MigrationRunner,
        SumTheorems, SequenceTheorems, TLAPS

----------------------------------------------------------------------------
(* ApprovalLinks.  That a link works once is not what makes a goal be      *)
(* decided once: two requests may pass one link.  The argument is about    *)
(* the compare-and-set, which lets nobody in once the goal is decided.     *)

Labels == {"new", "burn", "look", "claim", "done"}

Codes == {0, 200, 402, 403, 404, 409, 410, 500}
Wishes == {"none", "approved", "cancelled"}
Tokens == Links \cup {NoLink}

Requests ==
  [at : Labels, by : Tokens, goal : Decided,
   wants : Wishes, answer : Codes]

LinkTyped ==
  /\ used \in [Links -> BOOLEAN] /\ expired \in [Links -> BOOLEAN]
  /\ decision \in [Decided -> {"none", "approved", "cancelled"}]
  /\ click \in [Clicks -> Requests]
  /\ winners \in [Decided -> SUBSET Clicks]

\* A request that got past its link has burnt it, and it is its goal's.
PastItsLink(c) ==
  click[c].by # NoLink =>
    Owner[click[c].by] = click[c].goal /\ used[click[c].by]

OnItsWay ==
  \A c \in Clicks :
    /\ click[c].at = "burn" => click[c].by \in Links
    /\ click[c].at = "new" => click[c].by = NoLink
    /\ click[c].at # "new" => click[c].wants \in {"approved", "cancelled"}
    /\ click[c].at \in {"look", "claim"} => PastItsLink(c)

\* Who decided a goal has answered for it, and the goal has its decision.
WinnersDecided ==
  \A g \in Decided : \A c \in winners[g] :
    decision[g] # "none" /\ click[c].goal = g /\ PastItsLink(c)
      /\ click[c].at # "new"

OneWinner ==
  \A g \in Decided : \A c, d \in winners[g] : c = d

LinkInv == LinkTyped /\ OnItsWay /\ WinnersDecided /\ OneWinner

\* What moving one request changes, and what it leaves as it was.
SameButAt(c, label) ==
  /\ click' \in [Clicks -> Requests]
  /\ click'[c].at = label
  /\ \A d \in Clicks :
       /\ click'[d].by = click[d].by /\ click'[d].goal = click[d].goal
       /\ click'[d].wants = click[d].wants
       /\ d # c => click'[d].at = click[d].at

\* A request is given its answer.
LEMMA AnswerLeaves ==
  ASSUME click \in [Clicks -> Requests], NEW c \in Clicks,
         NEW code \in Codes, Answer(c, code)
  PROVE  SameButAt(c, "done")
<1>1. click' = [click EXCEPT ![c].at = "done", ![c].answer = code] /\ "done" \in Labels
  BY DEF Answer, Labels
<1>2. click' \in [Clicks -> Requests]
  BY <1>1 DEF Requests
<1>3. click'[c].at = "done"
  BY <1>1 DEF Requests
<1>4. ASSUME NEW d \in Clicks
      PROVE  /\ click'[d].by = click[d].by /\ click'[d].goal = click[d].goal
             /\ click'[d].wants = click[d].wants
  BY <1>1 DEF Requests
<1>5. ASSUME NEW d \in Clicks, d # c
      PROVE  click'[d].at = click[d].at
  BY <1>1, <1>5 DEF Requests
<1> QED
  BY <1>2, <1>3, <1>4, <1>5 DEF SameButAt

\* A request goes on to a label.
LEMMA GoOnLeaves ==
  ASSUME click \in [Clicks -> Requests], NEW c \in Clicks,
         NEW label \in Labels, GoOn(c, label)
  PROVE  SameButAt(c, label)
<1>1. click' = [click EXCEPT ![c].at = label]
  BY DEF GoOn
<1>2. click' \in [Clicks -> Requests]
  BY <1>1 DEF Requests
<1>3. click'[c].at = label
  BY <1>1 DEF Requests
<1>4. ASSUME NEW d \in Clicks
      PROVE  /\ click'[d].by = click[d].by /\ click'[d].goal = click[d].goal
             /\ click'[d].wants = click[d].wants
  BY <1>1 DEF Requests
<1>5. ASSUME NEW d \in Clicks, d # c
      PROVE  click'[d].at = click[d].at
  BY <1>1, <1>5 DEF Requests
<1> QED
  BY <1>2, <1>3, <1>4, <1>5 DEF SameButAt

\* A step that decides no goal and lets its request past the link only when
\* the link is the goal's and burnt.
LEMMA UndecidedStep ==
  ASSUME LinkInv, NEW c \in Clicks, NEW label \in {"look", "claim", "done"},
         SameButAt(c, label), click[c].at # "new",
         label # "done" => PastItsLink(c)',
         UNCHANGED <<expired, decision, winners>>,
         used' \in [Links -> BOOLEAN], \A l \in Links : used[l] => used'[l]
  PROVE  LinkInv'
<1>1. LinkTyped'
  BY DEF LinkInv, LinkTyped, SameButAt
<1>2. /\ \A d \in Clicks : click'[d].by = click[d].by /\ click'[d].goal = click[d].goal
           /\ click'[d].wants = click[d].wants
           /\ (d # c => click'[d].at = click[d].at)
      /\ click'[c].at = label
  BY DEF SameButAt
<1>3. \A d \in Clicks : click[d].by \in Links \cup {NoLink}
  BY DEF LinkInv, LinkTyped, Requests, Tokens
<1>4. \A d \in Clicks : PastItsLink(d) => PastItsLink(d)'
  BY <1>2, <1>3 DEF PastItsLink
<1>5. OnItsWay'
  BY <1>2, <1>4 DEF LinkInv, OnItsWay
<1>6. WinnersDecided' /\ OneWinner'
  BY <1>2, <1>4 DEF LinkInv, LinkTyped, WinnersDecided, OneWinner
<1> QED
  BY <1>1, <1>5, <1>6 DEF LinkInv

\* Every step keeps the invariant.
LEMMA LinkStep ==
  ASSUME LinkInv, [LinkNext]_linkVars
  PROVE  LinkInv'
<1>0. /\ click \in [Clicks -> Requests] /\ used \in [Links -> BOOLEAN]
      /\ \A d \in Clicks : click[d].by \in Tokens /\ click[d].goal \in Decided
      /\ \A d \in Clicks : click[d].at = "burn" => click[d].by \in Links
  BY DEF LinkInv, OnItsWay, LinkTyped, Requests
<1>1. ASSUME NEW c \in Clicks, OpenLink(c)
      PROVE  LinkInv'
  <2>a. PICK l \in Links \cup {NoLink}, g \in Decided, w \in {"approved", "cancelled"} :
          click' = [click EXCEPT ![c] =
            [at |-> IF l = NoLink \/ used[l] \/ expired[l] THEN "done" ELSE "burn",
             by |-> l, goal |-> g, wants |-> w,
             answer |-> IF l = NoLink \/ used[l] \/ expired[l] THEN 410 ELSE 0]]
    BY <1>1 DEF OpenLink
  <2> DEFINE a == IF l = NoLink \/ used[l] \/ expired[l] THEN "done" ELSE "burn"
             n == IF l = NoLink \/ used[l] \/ expired[l] THEN 410 ELSE 0
  <2>b. a \in {"done", "burn"} /\ n \in {0, 410} /\ (a = "burn" => l \in Links)
    OBVIOUS
  <2>1. click' = [click EXCEPT ![c] = [at |-> a, by |-> l, goal |-> g,
                                      wants |-> w, answer |-> n]]
    BY <2>a
  <2> HIDE DEF a, n
  <2>2. UNCHANGED <<used, expired, decision, winners>> /\ click[c].at = "new"
    BY <1>1 DEF OpenLink
  <2>3. [at |-> a, by |-> l, goal |-> g, wants |-> w, answer |-> n] \in Requests
    BY <2>b DEF Requests, Labels, Codes, Wishes, Tokens
  <2>4. click' \in [Clicks -> Requests]
    BY <1>0, <2>1, <2>3
  <2>5. /\ click'[c].at = a /\ click'[c].by = l /\ click'[c].wants = w
        /\ \A d \in Clicks \ {c} : click'[d] = click[d]
    BY <1>0, <2>1
  <2>6. OnItsWay'
    BY <2>b, <2>2, <2>5 DEF LinkInv, OnItsWay, PastItsLink
  <2>7. \A h \in Decided : c \notin winners[h]
    BY <2>2 DEF LinkInv, WinnersDecided
  <2>8. WinnersDecided' /\ OneWinner'
    BY <2>2, <2>5, <2>7 DEF LinkInv, LinkTyped, WinnersDecided, OneWinner, PastItsLink
  <2> QED
    BY <2>2, <2>4, <2>6, <2>8 DEF LinkInv, LinkTyped
<1>2. ASSUME NEW c \in Clicks, PressButton(c)
      PROVE  LinkInv'
  <2>1. PICK g \in Decided, w \in {"approved", "cancelled"} :
          click' = [click EXCEPT ![c].at = "look", ![c].goal = g, ![c].wants = w]
    BY <1>2 DEF PressButton
  <2>2. UNCHANGED <<used, expired, decision, winners>> /\ click[c].at = "new"
        /\ click[c].by = NoLink
    BY <1>2 DEF PressButton, LinkInv, OnItsWay
  <2>3. "look" \in Labels /\ w \in Wishes
    BY DEF Labels, Wishes
  <2>4. click' \in [Clicks -> Requests]
    <3> DEFINE q == [click[c] EXCEPT !.at = "look", !.goal = g, !.wants = w]
    <3>1. click[c] \in Requests
      BY <1>0
    <3>2. q \in Requests
      BY <2>3, <3>1 DEF Requests
    <3>3. click' = [click EXCEPT ![c] = q]
      BY <2>1
    <3> QED
      BY <1>0, <3>2, <3>3
  <2>5. click'[c].at = "look" /\ click'[c].by = NoLink /\ click'[c].wants = w
    BY <1>0, <2>1, <2>2 DEF Requests
  <2>6. \A d \in Clicks \ {c} : click'[d] = click[d]
    BY <1>0, <2>1 DEF Requests
  <2>7. OnItsWay'
    BY <2>2, <2>5, <2>6 DEF LinkInv, OnItsWay, PastItsLink
  <2>8. \A h \in Decided : c \notin winners[h]
    BY <2>2 DEF LinkInv, WinnersDecided
  <2>9. WinnersDecided' /\ OneWinner'
    BY <2>2, <2>6, <2>8 DEF LinkInv, LinkTyped, WinnersDecided, OneWinner, PastItsLink
  <2> QED
    BY <2>2, <2>4, <2>7, <2>9 DEF LinkInv, LinkTyped
<1>3. ASSUME NEW c \in Clicks, Burn(c)
      PROVE  LinkInv'
  <2>1. /\ click[c].at = "burn" /\ click[c].by \in Links
        /\ used' = [used EXCEPT ![click[c].by] = TRUE]
        /\ UNCHANGED <<expired, decision, winners>>
    BY <1>0, <1>3 DEF Burn
  <2>2. used' \in [Links -> BOOLEAN] /\ used'[click[c].by]
        /\ \A l \in Links : used[l] => used'[l]
    BY <1>0, <2>1
  <2>3. CASE GoalMatches(c)
    <3>1. SameButAt(c, "look")
      BY <1>0, <1>3, <2>3, GoOnLeaves DEF Burn, Labels
    <3>2. PastItsLink(c)'
      BY <2>2, <2>3, <3>1 DEF PastItsLink, GoalMatches, SameButAt
    <3> QED
      BY <2>1, <2>2, <3>1, <3>2, UndecidedStep
  <2>4. CASE ~GoalMatches(c)
    <3>1. SameButAt(c, "done")
      BY <1>0, <1>3, <2>4, AnswerLeaves DEF Burn, Codes
    <3> QED
      BY <2>1, <2>2, <3>1, UndecidedStep
  <2> QED
    BY <2>3, <2>4
<1>4. ASSUME NEW c \in Clicks, Look(c)
      PROVE  LinkInv'
  <2>1. click[c].at = "look" /\ UNCHANGED <<used, expired, decision, winners>>
        /\ PastItsLink(c)
    BY <1>4 DEF Look, LinkInv, OnItsWay
  <2>2. CASE GoOn(c, "claim")
    <3>1. SameButAt(c, "claim")
      BY <1>0, <2>2, GoOnLeaves DEF Labels
    <3> QED
      BY <1>0, <2>1, <3>1, UndecidedStep DEF SameButAt, PastItsLink
  <2>3. CASE \E code \in {404, 409} : Answer(c, code)
    <3>1. SameButAt(c, "done")
      BY <1>0, <2>3, AnswerLeaves DEF Codes
    <3> QED
      BY <1>0, <2>1, <3>1, UndecidedStep
  <2> QED
    BY <1>4, <2>2, <2>3 DEF Look
<1>5. ASSUME NEW c \in Clicks, Claim(c)
      PROVE  LinkInv'
  <2> DEFINE g == click[c].goal
  <2>1. click[c].at = "claim" /\ UNCHANGED <<used, expired>> /\ PastItsLink(c)
        /\ g \in Decided /\ click[c].wants \in {"approved", "cancelled"}
    BY <1>0, <1>5 DEF Claim, LinkInv, OnItsWay
  <2>2. \E code \in {200, 402, 500, 409} : Answer(c, code)
    BY <1>5 DEF Claim
  <2>3. SameButAt(c, "done")
    BY <1>0, <2>2, AnswerLeaves DEF Codes
  <2>4. CASE StillPending(g)
    <3>1. /\ decision' = [decision EXCEPT ![g] = click[c].wants]
          /\ winners' = [winners EXCEPT ![g] = @ \cup {c}]
      BY <1>5, <2>4 DEF Claim
    <3>2. decision[g] = "none" /\ winners[g] = {}
      BY <2>1, <2>4 DEF StillPending, LinkInv, WinnersDecided
    <3>3. LinkTyped'
      BY <2>1, <2>3, <3>1 DEF LinkInv, LinkTyped, SameButAt
    <3>4. \A d \in Clicks : PastItsLink(d) => PastItsLink(d)'
      BY <2>1, <2>3 DEF SameButAt, PastItsLink
    <3>5. OnItsWay'
      BY <2>1, <2>3, <3>4 DEF LinkInv, OnItsWay, SameButAt
    <3>6. WinnersDecided'
      BY <2>1, <2>3, <3>1, <3>2, <3>4 DEF LinkInv, LinkTyped, WinnersDecided, SameButAt
    <3>7. OneWinner'
      BY <3>1, <3>2 DEF LinkInv, LinkTyped, OneWinner
    <3> QED
      BY <3>3, <3>5, <3>6, <3>7 DEF LinkInv
  <2>5. CASE ~StillPending(g)
    <3>1. UNCHANGED <<decision, winners>>
      BY <1>5, <2>5 DEF Claim
    <3> QED
      BY <1>0, <2>1, <2>3, <3>1, UndecidedStep
  <2> QED
    BY <2>4, <2>5
<1>6. ASSUME NEW c \in Clicks, Fail(c)
      PROVE  LinkInv'
  <2>1. SameButAt(c, "done")
    BY <1>0, <1>6, AnswerLeaves DEF Fail, Codes
  <2>2. click[c].at # "new" /\ UNCHANGED <<expired, decision, winners>>
    BY <1>6 DEF Fail
  <2>3. used' \in [Links -> BOOLEAN] /\ \A l \in Links : used[l] => used'[l]
    BY <1>0, <1>6 DEF Fail
  <2> QED
    BY <2>1, <2>2, <2>3, UndecidedStep
<1>7. ASSUME NEW c \in Clicks, Redeliver(c)
      PROVE  LinkInv'
  <2>1. SameButAt(c, "look")
    BY <1>0, <1>7, GoOnLeaves DEF Redeliver, Labels
  <2>2. click[c].at # "new" /\ click[c].by = NoLink
        /\ UNCHANGED <<used, expired, decision, winners>>
    BY <1>7 DEF Redeliver
  <2>3. PastItsLink(c)'
    BY <2>1, <2>2 DEF SameButAt, PastItsLink
  <2> QED
    BY <1>0, <2>1, <2>2, <2>3, UndecidedStep
<1>8. ASSUME NEW l \in Links, ExpireLink(l)
      PROVE  LinkInv'
  BY <1>8 DEF ExpireLink, LinkInv, LinkTyped, OnItsWay, WinnersDecided, OneWinner, PastItsLink
<1>9. CASE UNCHANGED linkVars
  BY <1>9 DEF linkVars, LinkInv, LinkTyped, OnItsWay, WinnersDecided, OneWinner, PastItsLink
<1> QED
  BY <1>1, <1>2, <1>3, <1>4, <1>5, <1>6, <1>7, <1>8, <1>9 DEF LinkNext

\* Nothing was decided at first.
LEMMA LinkStart ==
  ASSUME Decided # {}, LinkInit
  PROVE  LinkInv
<1>1. Fresh \in Requests /\ Fresh.at = "new" /\ Fresh.by = NoLink
  BY DEF Fresh, Requests, Labels, Codes, Wishes, Tokens
<1>2. \A c \in Clicks : click[c] = Fresh
  BY DEF LinkInit
<1>3. LinkTyped
  BY <1>1 DEF LinkInit, LinkTyped
<1>4. OnItsWay
  BY <1>1, <1>2 DEF OnItsWay
<1>5. WinnersDecided /\ OneWinner
  BY DEF LinkInit, WinnersDecided, OneWinner
<1> QED
  BY <1>3, <1>4, <1>5 DEF LinkInv

\* LinkInv holds in every reachable state.
LEMMA LinkInvThm ==
  ASSUME Decided # {}
  PROVE  LinkSpec => []LinkInv
<1>1. LinkInit => LinkInv
  BY LinkStart
<1>2. LinkInv /\ [LinkNext]_linkVars => LinkInv'
  BY LinkStep
<1> QED
  BY <1>1, <1>2, PTL DEF LinkSpec

\* A goal is decided at most once, for any links, goals and requests: by two
\* requests that passed one link, by a link and a button, or by a click that
\* Slack repeats.
THEOREM DecidedOnceThm ==
  ASSUME Decided # {}
  PROVE  LinkSpec => []DecidedOnce
<1>1. LinkInv => DecidedOnce
  <2> SUFFICES ASSUME LinkInv, NEW g \in Decided PROVE Cardinality(winners[g]) <= 1
    BY DEF DecidedOnce
  <2>1. CASE winners[g] = {}
    BY <2>1, FS_EmptySet
  <2>2. CASE winners[g] # {}
    <3>1. PICK c \in winners[g] : TRUE
      BY <2>2
    <3>2. winners[g] = {c}
      BY <3>1 DEF LinkInv, OneWinner
    <3> QED
      BY <3>2, FS_Singleton
  <2> QED
    BY <2>1, <2>2
<1> QED
  BY <1>1, LinkInvThm, PTL

\* Whoever decides a goal by a link holds one of that goal, and burnt it.
THEOREM DecidedByItsLinkThm ==
  ASSUME Decided # {}
  PROVE  LinkSpec => []DecidedByItsLink
<1>1. LinkInv => DecidedByItsLink
  BY DEF LinkInv, WinnersDecided, PastItsLink, DecidedByItsLink
<1> QED
  BY <1>1, LinkInvThm, PTL

----------------------------------------------------------------------------
(* InboundRouting.  The cascade looks at the goals twice while they open   *)
(* and close.  A goal opens once and closes for good, hence one that the   *)
(* request saw open and that still waits has been waiting at each look.    *)

AMessage == CHOOSE m \in Said : TRUE
Handlers == Taps \cup {"none", "unauthorized", "ignored", "quote", "optout", "operator"}
Inquiries ==
  [at : {"out", "ref", "sole", "done"}, message : Said \cup {AMessage},
   open : SUBSET Goals, handler : Handlers, about : Goals \cup {NoGoal}]

\* What the property says of one request, with what waits for quotes now.
Content(q, active) ==
  q.handler \notin {"unauthorized", "ignored"} =>
    /\ q.message.tap \in Taps
         /\ ~(q.message.envelope = "flat" /\ q.message.kind = "template")
         => q.handler = q.message.tap
    /\ q.message.tap \notin Taps /\ q.message.stop /\ q.message.ref = NoGoal
         => q.handler = "optout"
    /\ q.message.tap \notin Taps /\ q.message.ref \in q.open \cap active
         => q.handler = "quote" /\ q.about = q.message.ref

\* A request whose message is not a tap looks for its goal; it looks for the
\* only one when neither a code nor a refusal decided.
Looking(q) == q.at \in {"ref", "sole"} =>
  Normalized(q.message).from /\ Normalized(q.message).tap \notin Taps
Undecided(q, active) == q.at = "sole" =>
  ~q.message.stop /\ q.message.ref \notin q.open \cap active

\* A goal that a request saw open is not new.
Hooked(q) == q.at # "out" =>
  q.message \in Said /\ \A g \in q.open : goal[g] # "new"

InquiryInv(h) ==
  /\ Hooked(hook[h]) /\ Looking(hook[h]) /\ Undecided(hook[h], Active)
  /\ hook[h].at = "done" => Content(hook[h], Active)

RoutingInv ==
  /\ goal \in [Goals -> {"new", "active", "closed"}]
  /\ hook \in [Hooks -> Inquiries]
  /\ \A h \in Hooks : InquiryInv(h)

\* The one shape keeps what a message says; only a template in a flat payload
\* is no longer a tap.
LEMMA NormalizedKeeps ==
  ASSUME NEW m \in Said
  PROVE  LET e == Normalized(m) IN
         /\ e.from => e.ref = m.ref /\ e.stop = m.stop
         /\ e.tap \in Taps => e.tap = m.tap
         /\ e.from /\ m.tap \in Taps /\ ~(m.envelope = "flat" /\ m.kind = "template")
              => e.tap = m.tap
<1>1. m.envelope \in {"meta", "mitra", "flat"} /\ "none" \notin Taps
  BY RoutingAssumption DEF RoutingAssumption, Taps
<1>2. CASE m.envelope \in {"meta", "mitra"}
  <2>1. Normalized(m) = IF m.kind = "receipt" THEN Nothing
                        ELSE Event(m, m.kind \in {"interactive", "template"})
    BY <1>2 DEF Normalized, FromMeta, FromMitra
  <2> QED
    BY <1>1, <2>1, RoutingAssumption DEF RoutingAssumption, Nothing, Event
<1>3. CASE m.envelope = "flat"
  <2>1. Normalized(m) = Event(m, m.kind = "interactive")
    BY <1>3 DEF Normalized
  <2> QED
    BY <1>1, <1>3, <2>1, RoutingAssumption DEF RoutingAssumption, Event
<1> QED
  BY <1>1, <1>2, <1>3

\* A request moves, the goals do not.
LEMMA HookMoves ==
  ASSUME RoutingInv, NEW h \in Hooks, NEW q \in Inquiries,
         hook' = [hook EXCEPT ![h] = q], UNCHANGED goal,
         Hooked(q), Looking(q), Undecided(q, Active),
         q.at = "done" => Content(q, Active)
  PROVE  RoutingInv'
<1>1. Active' = Active
  BY DEF Active
<1>2. hook'[h] = q /\ \A d \in Hooks \ {h} : hook'[d] = hook[d]
  BY DEF RoutingInv
<1>3. \A d : Hooked(d)' <=> Hooked(d)
  BY DEF Hooked
<1>4. ASSUME NEW d \in Hooks PROVE InquiryInv(d)'
  <2>1. CASE d = h
    BY <1>1, <1>2, <2>1 DEF InquiryInv, Hooked, Looking, Undecided, Content
  <2>2. CASE d # h
    BY <1>1, <1>2, <2>2 DEF RoutingInv, InquiryInv, Hooked, Looking, Undecided, Content
  <2> QED
    BY <2>1, <2>2
<1>5. hook' \in [Hooks -> Inquiries]
  BY DEF RoutingInv
<1> QED
  BY <1>4, <1>5 DEF RoutingInv

\* A goal opens or closes, the requests stay: none that had seen the goal open
\* sees it open for the first time.
LEMMA GoalMoves ==
  ASSUME RoutingInv, NEW g \in Goals, OpenGoal(g) \/ CloseGoal(g)
  PROVE  RoutingInv'
<1>1. /\ hook' = hook
      /\ \/ goal[g] = "new" /\ goal' = [goal EXCEPT ![g] = "active"]
         \/ goal[g] = "active" /\ goal' = [goal EXCEPT ![g] = "closed"]
  BY DEF OpenGoal, CloseGoal
<1>2. goal' \in [Goals -> {"new", "active", "closed"}]
  BY <1>1 DEF RoutingInv
<1>3. ASSUME NEW S \in SUBSET Goals, \A x \in S : goal[x] # "new"
      PROVE  /\ S \cap Active' \subseteq S \cap Active
             /\ \A x \in S : goal'[x] # "new"
  BY <1>1, <1>3 DEF RoutingInv, Active
<1>4. ASSUME NEW d \in Hooks PROVE InquiryInv(d)'
  <2> DEFINE q == hook[d]
  <2>1. /\ Hooked(q) /\ Looking(q) /\ Undecided(q, Active)
        /\ q.at = "done" => Content(q, Active)
    BY DEF RoutingInv, InquiryInv
  <2>2. CASE q.at = "out"
    BY <1>1, <2>2 DEF InquiryInv, Hooked, Looking, Undecided
  <2>3. CASE q.at # "out"
    <3>1. /\ q.open \cap Active' \subseteq q.open \cap Active
          /\ \A x \in q.open : goal'[x] # "new"
      <4>1. q.open \in SUBSET Goals
        BY DEF RoutingInv, Inquiries
      <4> QED
        BY <1>3, <2>1, <2>3, <4>1 DEF Hooked
    <3>2. Hooked(hook[d])' /\ Looking(hook[d])'
      BY <1>1, <2>1, <3>1 DEF Hooked, Looking
    <3>3. Undecided(q, Active')
      BY <2>1, <3>1 DEF Undecided
    <3>4. q.at = "done" => Content(q, Active')
      BY <2>1, <3>1 DEF Content
    <3> QED
      BY <1>1, <3>2, <3>3, <3>4 DEF InquiryInv
  <2> QED
    BY <2>2, <2>3
<1> QED
  BY <1>1, <1>2, <1>4 DEF RoutingInv

\* Every step keeps the invariant.
LEMMA RoutingStep ==
  ASSUME RoutingInv, [RoutingNext]_routingVars
  PROVE  RoutingInv'
<1>0. /\ Active \in SUBSET Goals /\ \A g \in Active : goal[g] # "new"
      /\ \A h \in Hooks : hook[h] \in Inquiries
  BY DEF Active, RoutingInv
<1>1. ASSUME NEW h \in Hooks, Receive(h)
      PROVE  RoutingInv'
  <2>1. PICK m \in Said, label \in {"done", "ref"}, handler \in Handlers :
          /\ hook' = [hook EXCEPT ![h] =
               [at |-> label, message |-> m, open |-> Active,
                handler |-> handler, about |-> NoGoal]]
          /\ \/ label = "done" /\ handler \in {"unauthorized", "ignored"}
             \/ /\ label = "done" /\ Normalized(m).from
                /\ Normalized(m).tap \in Taps /\ handler = Normalized(m).tap
             \/ label = "ref" /\ Normalized(m).from /\ Normalized(m).tap \notin Taps
    BY <1>1 DEF Receive, Handlers
  <2> DEFINE q == [at |-> label, message |-> m, open |-> Active,
                   handler |-> handler, about |-> NoGoal]
  <2>2. Hooked(q) /\ Looking(q) /\ Undecided(q, Active)
    BY <1>0, <2>1 DEF Hooked, Looking, Undecided
  <2>3. label = "done" => Content(q, Active)
    BY <2>1, NormalizedKeeps DEF Content
  <2>4. UNCHANGED goal
    BY <1>1 DEF Receive
  <2>5. q \in Inquiries
    BY <1>0 DEF Inquiries
  <2>6. hook' = [hook EXCEPT ![h] = q] /\ (q.at = "done" => Content(q, Active))
    BY <2>1, <2>3
  <2> HIDE DEF q
  <2> QED
    BY <2>2, <2>4, <2>5, <2>6, HookMoves
<1>2. ASSUME NEW h \in Hooks, LookUpRef(h)
      PROVE  RoutingInv'
  <2> DEFINE o == hook[h]
             m == o.message
  <2>1. /\ o.at = "ref" /\ m \in Said /\ Hooked(o)
        /\ Normalized(m).from /\ Normalized(m).tap \notin Taps
        /\ UNCHANGED goal /\ o \in Inquiries
    BY <1>0, <1>2 DEF LookUpRef, RoutingInv, InquiryInv, Hooked, Looking
  <2>2. /\ Normalized(m).ref = m.ref /\ Normalized(m).stop = m.stop
        /\ m.tap \in Taps => m.envelope = "flat" /\ m.kind = "template"
    BY <2>1, NormalizedKeeps
  <2>3. CASE m.ref \in Active /\ Handle(h, "quote", m.ref)
    <3> DEFINE q == [o EXCEPT !.at = "done", !.handler = "quote", !.about = m.ref]
    <3>1. hook' = [hook EXCEPT ![h] = q]
      BY <2>3 DEF Handle
    <3>2. q \in Inquiries /\ Hooked(q) /\ Looking(q) /\ Undecided(q, Active)
      BY <1>0, <2>1, <2>3 DEF Hooked, Looking, Undecided, Inquiries, Handlers
    <3>3. Content(q, Active)
      BY <2>2, <2>3, RoutingAssumption DEF RoutingAssumption, Content, Active
    <3> HIDE DEF q
    <3> QED
      BY <2>1, <3>1, <3>2, <3>3, HookMoves
  <2>4. CASE m.ref \notin Active /\ Handle(h, "optout", NoGoal)
    <3> DEFINE q == [o EXCEPT !.at = "done", !.handler = "optout", !.about = NoGoal]
    <3>1. hook' = [hook EXCEPT ![h] = q]
      BY <2>4 DEF Handle
    <3>2. q \in Inquiries /\ Hooked(q) /\ Looking(q) /\ Undecided(q, Active)
      BY <2>1 DEF Hooked, Looking, Undecided, Inquiries, Handlers
    <3>3. Content(q, Active)
      BY <2>2, <2>4 DEF Content
    <3> HIDE DEF q
    <3> QED
      BY <2>1, <3>1, <3>2, <3>3, HookMoves
  <2>5. CASE m.ref \notin Active /\ ~m.stop /\ hook' = [hook EXCEPT ![h].at = "sole"]
    <3> DEFINE q == [o EXCEPT !.at = "sole"]
    <3>1. hook' = [hook EXCEPT ![h] = q]
      BY <2>5
    <3>2. q \in Inquiries /\ Hooked(q) /\ Looking(q) /\ Undecided(q, Active) /\ q.at # "done"
      BY <2>1, <2>5 DEF Hooked, Looking, Undecided, Inquiries
    <3> HIDE DEF q
    <3> QED
      BY <2>1, <3>1, <3>2, HookMoves
  <2> QED
    BY <1>2, <2>2, <2>3, <2>4, <2>5 DEF LookUpRef
<1>3. ASSUME NEW h \in Hooks, LookUpSole(h)
      PROVE  RoutingInv'
  <2> DEFINE o == hook[h]
             m == o.message
  <2>1. /\ o.at = "sole" /\ m \in Said /\ Hooked(o) /\ Undecided(o, Active)
        /\ Normalized(m).from /\ Normalized(m).tap \notin Taps
        /\ UNCHANGED goal /\ o \in Inquiries
    BY <1>0, <1>3 DEF LookUpSole, RoutingInv, InquiryInv, Hooked, Looking
  <2>2. m.tap \in Taps => m.envelope = "flat" /\ m.kind = "template"
    BY <2>1, NormalizedKeeps
  <2>3. PICK handler \in Handlers, g \in Goals \cup {NoGoal} : Handle(h, handler, g)
    BY <1>0, <1>3 DEF LookUpSole, Handlers
  <2> DEFINE q == [o EXCEPT !.at = "done", !.handler = handler, !.about = g]
  <2>4. hook' = [hook EXCEPT ![h] = q]
    BY <2>3 DEF Handle
  <2>5. q \in Inquiries /\ Hooked(q) /\ Looking(q) /\ Undecided(q, Active)
    BY <2>1 DEF Hooked, Looking, Undecided, Inquiries
  <2>6. Content(q, Active)
    BY <2>1, <2>2 DEF Content, Undecided
  <2> HIDE DEF q
  <2> QED
    BY <2>1, <2>4, <2>5, <2>6, HookMoves
<1>4. ASSUME NEW h \in Hooks, LookUpFails(h)
      PROVE  RoutingInv'
  <2> DEFINE o == hook[h]
             q == [o EXCEPT !.at = "ref", !.open = Active]
  <2>1. /\ o.at \in {"ref", "sole"} /\ Hooked(o) /\ Looking(o) /\ UNCHANGED goal
        /\ o \in Inquiries /\ hook' = [hook EXCEPT ![h] = q]
    BY <1>0, <1>4 DEF LookUpFails, RoutingInv, InquiryInv
  <2>2. q \in Inquiries /\ Hooked(q) /\ Looking(q) /\ Undecided(q, Active)
        /\ q.at # "done"
    BY <1>0, <2>1 DEF Hooked, Looking, Undecided, Inquiries
  <2> HIDE DEF q
  <2> QED
    BY <2>1, <2>2, HookMoves
<1>5. CASE UNCHANGED routingVars
  BY <1>5 DEF routingVars, RoutingInv, InquiryInv, Hooked, Looking, Undecided,
              Content, Active
<1> QED
  BY <1>1, <1>2, <1>3, <1>4, <1>5, GoalMoves DEF RoutingNext

\* What a verified message says decides its handler.
THEOREM RoutedByContentThm == RoutingSpec => []RoutedByContent
<1>1. RoutingInit => RoutingInv
  <2> DEFINE q == [at |-> "out", message |-> AMessage, open |-> {},
                   handler |-> "none", about |-> NoGoal]
  <2>1. q \in Inquiries
    BY DEF Inquiries, Handlers
  <2>2. \A active : /\ q.at \notin {"ref", "sole", "done"}
                    /\ Hooked(q) /\ Looking(q) /\ Undecided(q, active)
    BY DEF Hooked, Looking, Undecided
  <2>3. RoutingInit => /\ hook = [h \in Hooks |-> q]
                       /\ goal = [g \in Goals |-> "new"]
    BY DEF RoutingInit, AMessage
  <2> HIDE DEF q
  <2> QED
    BY <2>1, <2>2, <2>3 DEF RoutingInv, InquiryInv
<1>2. RoutingInv /\ [RoutingNext]_routingVars => RoutingInv'
  BY RoutingStep
<1>3. RoutingInv => RoutedByContent
  BY DEF RoutingInv, InquiryInv, Content, RoutedByContent
<1> QED
  BY <1>1, <1>2, <1>3, PTL DEF RoutingSpec

----------------------------------------------------------------------------
(* VendorScore.  Every tap is followed by a reading of its own: while one   *)
(* is to come, somebody is about to read; once none is, the newest reading *)
(* has every tap, and it is still to be written, or was, or is replaced.   *)

Grades == {Absent, Untapped, Issue, Satisfied}
Marks == [Rows -> Grades]
Stages == {"out", "read", "write", "log"}

ToRead == \E t \in Tappers : tapper[t].at = "read"

\* The rows that the newest reading had, as they are now.
Kept == [r \in Rows |-> IF r \in counted THEN stars[r] ELSE Absent]

ScoreTyped ==
  /\ stars \in Marks
  /\ tapper \in [Tappers -> [at : Stages, read : Marks]]
  /\ counted \subseteq Delivered(stars)

\* The newest reading has every tap that nobody is yet to read.
NewestIsWhole ==
  \A t \in Tappers : t \in newest =>
    /\ tapper[t].at = "write"
    /\ ToRead \/ tapper[t].read = Kept

\* So has what was written of it, while nothing was written over it.
WrittenIsWhole ==
  stands => ToRead \/ (score = Composite(Kept) /\ band = Band(Composite(Kept)))

ScoreInv == ScoreTyped /\ NewestIsWhole /\ WrittenIsWhole

\* Every step keeps the invariant.
LEMMA ScoreStep ==
  ASSUME ScoreInv, [ScoreNext]_scoreVars
  PROVE  ScoreInv'
<1>0. /\ stars \in Marks /\ counted \subseteq Delivered(stars)
      /\ tapper \in [Tappers -> [at : Stages, read : Marks]]
      /\ \A t \in Tappers : tapper[t].at \in Stages /\ tapper[t].read \in Marks
  BY DEF ScoreInv, ScoreTyped
<1>a. Out.at = "out" /\ Out \in [at : Stages, read : Marks]
  BY DEF Out, Marks, Grades, Stages
<1>1. ASSUME NEW r \in Rows, DeliverRow(r)
      PROVE  ScoreInv'
  <2>1. /\ stars[r] = Absent /\ stars' = [stars EXCEPT ![r] = Untapped]
        /\ UNCHANGED <<score, band, tapper, newest, counted, stands>>
    BY <1>1 DEF DeliverRow, history
  <2>2. stars' \in Marks
    BY <1>0, <2>1 DEF Marks, Grades
  <2>3. r \notin counted /\ \A q \in Rows : q # r => stars'[q] = stars[q]
    BY <1>0, <2>1 DEF Delivered, Marks
  <2>4. counted' \subseteq Delivered(stars')
    BY <1>0, <2>1, <2>3 DEF Delivered, Marks
  <2>5. Kept' = Kept
    BY <2>1, <2>3 DEF Kept
  <2> QED
    BY <2>1, <2>2, <2>4, <2>5
       DEF ScoreInv, ScoreTyped, NewestIsWhole, WrittenIsWhole, ToRead
<1>2. ASSUME NEW t \in Tappers, Tap(t)
      PROVE  ScoreInv'
  <2>1. PICK r \in Rows, s \in {Satisfied, Issue} :
          stars[r] # Absent /\ stars' = [stars EXCEPT ![r] = s]
    BY <1>2 DEF Tap, TapOn
  <2>2. /\ tapper[t].at = "out"
        /\ tapper' = [tapper EXCEPT ![t].at = "read"]
        /\ UNCHANGED <<score, band, newest, counted, stands>>
    BY <1>2 DEF Tap, history
  <2>3. /\ tapper' \in [Tappers -> [at : Stages, read : Marks]]
        /\ tapper'[t].at = "read"
        /\ \A u \in Tappers \ {t} : tapper'[u] = tapper[u]
    BY <1>0, <2>2 DEF Stages
  <2>4. stars' \in Marks /\ Delivered(stars') = Delivered(stars)
    BY <1>0, <2>1 DEF Marks, Grades, Delivered, Satisfied, Issue, Absent
  <2>5. ToRead'
    BY <2>3 DEF ToRead
  <2>6. t \notin newest
    BY <2>2 DEF ScoreInv, NewestIsWhole
  <2>7. NewestIsWhole'
    BY <2>2, <2>3, <2>5, <2>6 DEF ScoreInv, NewestIsWhole
  <2> QED
    BY <1>0, <2>2, <2>3, <2>4, <2>5, <2>7 DEF ScoreInv, ScoreTyped, WrittenIsWhole
<1>3. ASSUME NEW t \in Tappers, ReadRows(t)
      PROVE  ScoreInv'
  <2>1. /\ tapper[t].at = "read"
        /\ tapper' = [tapper EXCEPT ![t] = [at |-> "write", read |-> stars]]
        /\ newest' = {t} /\ counted' = Delivered(stars) /\ stands' = FALSE
        /\ stars' = stars
    BY <1>3 DEF ReadRows
  <2>2. /\ tapper' \in [Tappers -> [at : Stages, read : Marks]]
        /\ tapper'[t].at = "write" /\ tapper'[t].read = stars
    BY <1>0, <2>1 DEF Stages
  <2>3. counted' \subseteq Delivered(stars')
    BY <2>1 DEF Delivered
  <2>4. Kept' = stars
    BY <1>0, <2>1 DEF Kept, Delivered, Marks
  <2> QED
    BY <1>0, <2>1, <2>2, <2>3, <2>4 DEF ScoreInv, ScoreTyped, NewestIsWhole, WrittenIsWhole
<1>4. ASSUME NEW t \in Tappers, WriteScore(t)
      PROVE  ScoreInv'
  <2> DEFINE label == IF score' = Unproven THEN "out" ELSE "log"
  <2>1. /\ tapper[t].at = "write"
        /\ score' = Composite(tapper[t].read) /\ band' = Band(Composite(tapper[t].read))
        /\ tapper' = [tapper EXCEPT ![t] = [Out EXCEPT !.at = label]]
        /\ stands' = (t \in newest) /\ newest' = newest \ {t}
        /\ UNCHANGED <<stars, counted>>
    BY <1>4 DEF WriteScore, Scored
  <2>2. label \in {"out", "log"}
    OBVIOUS
  <2> HIDE DEF label
  <2>3. [Out EXCEPT !.at = label] \in [at : Stages, read : Marks]
        /\ [Out EXCEPT !.at = label].at = label
    BY <1>a, <2>2 DEF Stages
  <2>4. /\ tapper' \in [Tappers -> [at : Stages, read : Marks]]
        /\ tapper'[t].at = label
        /\ \A u \in Tappers \ {t} : tapper'[u] = tapper[u]
    BY <1>0, <2>1, <2>3
  <2>5. ToRead' <=> ToRead
    BY <2>1, <2>2, <2>4 DEF ToRead
  <2>6. Kept' = Kept /\ Delivered(stars') = Delivered(stars)
    BY <2>1 DEF Kept, Delivered
  <2>7. NewestIsWhole'
    BY <2>1, <2>4, <2>5, <2>6 DEF ScoreInv, NewestIsWhole
  <2>8. WrittenIsWhole'
    BY <2>1, <2>5, <2>6 DEF ScoreInv, NewestIsWhole, WrittenIsWhole
  <2> QED
    BY <1>0, <2>1, <2>4, <2>6, <2>7, <2>8 DEF ScoreInv, ScoreTyped
<1>5. ASSUME NEW t \in Tappers, LogScore(t) \/ FailScore(t)
      PROVE  ScoreInv'
  <2>1. /\ tapper[t].at \in {"read", "write", "log"}
        /\ tapper' = [tapper EXCEPT ![t] = Out]
        /\ UNCHANGED <<stars, score, band, counted>>
    BY <1>5 DEF LogScore, FailScore, history
  <2>2. \/ tapper[t].at = "log" /\ UNCHANGED <<newest, stands>>
        \/ newest' = {} /\ stands' = FALSE
        \/ tapper[t].at # "read" /\ newest' = newest \ {t} /\ (stands' => stands)
    <3>1. CASE LogScore(t)
      BY <3>1 DEF LogScore, history
    <3>2. CASE FailScore(t) /\ tapper[t].at = "read"
      BY <3>2 DEF FailScore
    <3>3. CASE FailScore(t) /\ tapper[t].at # "read"
      <4>1. newest' = newest \ {t}
        BY <3>3 DEF FailScore
      <4>2. stands' => stands
        BY <3>3 DEF FailScore
      <4> QED
        BY <3>3, <4>1, <4>2
    <3> QED
      BY <1>5, <3>1, <3>2, <3>3
  <2>3. /\ tapper' \in [Tappers -> [at : Stages, read : Marks]] /\ tapper'[t] = Out
        /\ \A u \in Tappers \ {t} : tapper'[u] = tapper[u]
    BY <1>0, <1>a, <2>1
  <2>4. Kept' = Kept /\ Delivered(stars') = Delivered(stars)
    BY <2>1 DEF Kept, Delivered
  <2>5. CASE newest' = {} /\ stands' = FALSE
    BY <1>0, <2>1, <2>3, <2>4, <2>5
       DEF ScoreInv, ScoreTyped, NewestIsWhole, WrittenIsWhole
  <2>6. CASE tapper[t].at # "read" /\ newest' = newest \ {t} /\ (stands' => stands)
    <3>1. ToRead' <=> ToRead
      BY <1>a, <2>3, <2>6 DEF ToRead
    <3>2. NewestIsWhole'
      BY <2>3, <2>4, <2>6, <3>1 DEF ScoreInv, NewestIsWhole
    <3>3. WrittenIsWhole'
      BY <2>1, <2>4, <2>6, <3>1 DEF ScoreInv, WrittenIsWhole
    <3> QED
      BY <1>0, <2>1, <2>3, <2>4, <3>2, <3>3 DEF ScoreInv, ScoreTyped
  <2>7. CASE tapper[t].at = "log" /\ UNCHANGED <<newest, stands>>
    <3>1. newest \ {t} = newest
      BY <2>7 DEF ScoreInv, NewestIsWhole
    <3>2. tapper[t].at # "read" /\ newest' = newest \ {t}
      BY <2>7, <3>1
    <3>3. stands' => stands
      BY <2>7
    <3> QED
      BY <2>6, <3>2, <3>3
  <2> QED
    BY <2>2, <2>5, <2>6, <2>7
<1>6. CASE UNCHANGED scoreVars
  BY <1>6 DEF scoreVars, ScoreInv, ScoreTyped, NewestIsWhole, WrittenIsWhole,
              ToRead, Kept, Delivered
<1> QED
  BY <1>1, <1>2, <1>3, <1>4, <1>5, <1>6 DEF ScoreNext

\* However taps overlap and recomputations fail, the newest reading that stands
\* leaves a score and a band that miss no tap.
THEOREM LatestReadingStandsThm == ScoreSpec => []LatestReadingStands
<1>1. ScoreInit => ScoreInv
  <2>1. Out \in [at : Stages, read : Marks]
    BY DEF Out, Marks, Grades, Stages
  <2>2. [r \in Rows |-> Absent] \in Marks
    BY DEF Marks, Grades
  <2> QED
    BY <2>1, <2>2 DEF ScoreInit, ScoreInv, ScoreTyped, NewestIsWhole, WrittenIsWhole
<1>2. ScoreInv /\ [ScoreNext]_scoreVars => ScoreInv'
  BY ScoreStep
<1>3. ScoreInv => LatestReadingStands
  <2> SUFFICES ASSUME ScoreInv, stands,
                      \A t \in Tappers : tapper[t].at \notin {"read", "write"}
               PROVE  score = Composite(Kept) /\ band = Band(Composite(Kept))
    BY DEF LatestReadingStands, Kept
  <2> QED
    BY DEF ScoreInv, WrittenIsWhole, ToRead
<1> QED
  BY <1>1, <1>2, <1>3, PTL DEF ScoreSpec

----------------------------------------------------------------------------
(* A tap moves the score the way it points.  With the rows delivered, the   *)
(* signals and the response times stay, and the score is a fraction that    *)
(* grows with the average of the stars, which lies between 2 and 5.         *)

System(rows) ==
  25 * Share(rows, LAMBDA r : Signals[r].onTime)
    + 20 * Share(rows, LAMBDA r : Signals[r].priceKept)
    + 10 * Share(rows, LAMBDA r : Signals[r].repeat)

\* The score of n orders, as a fraction: a stars in b ratings.
Top(a, b, n, system, response) ==
  35 * 20 * a * n + 100 * system * b + 10 * response * n * b
Bottom(b, n) == 100 * n * b

\* The two terms of such a fraction multiplied with another's number of ratings.
Ours(n) == 70000 * (n * n)
Theirs(n, system, response) == 10000 * (system * n) + 1000 * (response * (n * n))

\* The better average has the better score.
LEMMA BetterAverage ==
  ASSUME NEW a \in Int, NEW b \in Int, NEW c \in Int, NEW d \in Int,
         NEW n \in Nat, NEW y \in Int, NEW z \in Int, c * b <= a * d
  PROVE  Top(c, d, n, y, z) * Bottom(b, n) <= Top(a, b, n, y, z) * Bottom(d, n)
<1>1. /\ Top(c, d, n, y, z) * Bottom(b, n) = Ours(n) * (c * b) + Theirs(n, y, z) * (d * b)
      /\ Top(a, b, n, y, z) * Bottom(d, n) = Ours(n) * (a * d) + Theirs(n, y, z) * (b * d)
  <2>1. Top(c, d, n, y, z) * Bottom(b, n) = Ours(n) * (c * b) + Theirs(n, y, z) * (d * b)
    BY DEF Top, Bottom, Ours, Theirs
  <2>2. Top(a, b, n, y, z) * Bottom(d, n) = Ours(n) * (a * d) + Theirs(n, y, z) * (b * d)
    BY DEF Top, Bottom, Ours, Theirs
  <2> QED
    BY <2>1, <2>2
<1>2. /\ Ours(n) \in Nat /\ Theirs(n, y, z) \in Int /\ d * b = b * d
      /\ b * d \in Int /\ c * b \in Int /\ a * d \in Int
  BY DEF Ours, Theirs
<1>3. /\ Ours(n) * (c * b) <= Ours(n) * (a * d) /\ Theirs(n, y, z) * (b * d) \in Int
      /\ Ours(n) * (c * b) \in Int /\ Ours(n) * (a * d) \in Int
  BY <1>2
<1> QED
  BY <1>1, <1>2, <1>3

\* The stars of a vendor's ratings.
LEMMA StarsBounds ==
  ASSUME NEW rows \in Marks, IsFiniteSet(Tapped(rows))
  PROVE  /\ Stars(rows) \in Int /\ Cardinality(Tapped(rows)) \in Nat
         /\ 2 * Cardinality(Tapped(rows)) <= Stars(rows)
         /\ Stars(rows) <= 5 * Cardinality(Tapped(rows))
<1>1. \A r \in Tapped(rows) : rows[r] \in Int /\ 2 <= rows[r] /\ rows[r] <= 5
  BY DEF Tapped, Issue, Satisfied
<1> QED
  BY <1>1, SumBounds, FS_CardinalityType DEF Stars

\* The rows after a tap.
Marked(rows, r, s) == [rows EXCEPT ![r] = s]

\* What a tap does to the stars, and to the number of ratings.
LEMMA TapCounts ==
  ASSUME NEW rows \in Marks, IsFiniteSet(Tapped(rows)), NEW r \in Rows,
         NEW s \in {Issue, Satisfied}
  PROVE  LET new == Marked(rows, r, s) IN
         /\ Tapped(new) = Tapped(rows) \cup {r}
         /\ r \notin Tapped(rows) =>
              /\ Stars(new) = Stars(rows) + s
              /\ Cardinality(Tapped(new)) = Cardinality(Tapped(rows)) + 1
         /\ r \in Tapped(rows) => /\ Stars(new) = Stars(rows) - rows[r] + s
                                  /\ Tapped(new) = Tapped(rows)
<1> DEFINE new == Marked(rows, r, s)
           T == Tapped(rows)
           Rest == T \ {r}
<1>1. Tapped(new) = T \cup {r}
  BY DEF Marks, Grades, Tapped, Marked
<1>2. /\ IsFiniteSet(T \cup {r}) /\ IsFiniteSet(Rest)
      /\ r \notin T => Cardinality(T \cup {r}) = Cardinality(T) + 1
  BY FS_AddElement, FS_RemoveElement
<1>3. /\ \A x \in T \cup {r} : new[x] \in Int
      /\ \A x \in T : rows[x] \in Int
      /\ new[r] = s /\ s \in Int
      /\ \A x \in Rest : new[x] = rows[x]
  BY DEF Marks, Tapped, Issue, Satisfied, Marked
<1>4. (T \cup {r}) \ {r} = Rest /\ IsFiniteSet(T)
  OBVIOUS
<1>5. Stars(new) = SumFunctionOnSet(new, T \cup {r}) /\ Stars(rows) = SumFunctionOnSet(rows, T)
  BY <1>1 DEF Stars
<1> HIDE DEF T, Rest, new
<1>6. SumFunctionOnSet(new, Rest) = SumFunctionOnSet(rows, Rest)
  BY <1>2, <1>3, SumSame
<1>7. SumFunctionOnSet(new, T \cup {r}) = s + SumFunctionOnSet(new, Rest)
  <2>1. r \in T \cup {r}
    OBVIOUS
  <2>2. SumFunctionOnSet(new, T \cup {r}) =
          new[r] + SumFunctionOnSet(new, (T \cup {r}) \ {r})
    BY <1>2, <1>3, <2>1, SumWithout
  <2> QED
    BY <1>3, <1>4, <2>2
<1>8. SumFunctionOnSet(rows, Rest) \in Int
  BY <1>2, <1>3, SumIsInt DEF Rest
<1>9. CASE r \notin T
  <2>1. Rest = T
    BY <1>9 DEF Rest
  <2>2. Stars(new) = Stars(rows) + s
    BY <1>3, <1>5, <1>6, <1>7, <1>8, <2>1
  <2> QED
    BY <1>1, <1>2, <1>9, <2>2 DEF T, new
<1>10. CASE r \in T
  <2>1. SumFunctionOnSet(rows, T) = rows[r] + SumFunctionOnSet(rows, Rest)
    BY <1>3, <1>4, <1>10, SumWithout DEF Rest
  <2>2. T \cup {r} = T /\ rows[r] \in Int
    BY <1>3, <1>10
  <2>3. Stars(new) = Stars(rows) - rows[r] + s
    BY <1>3, <1>5, <1>6, <1>7, <1>8, <2>1, <2>2
  <2> QED
    BY <1>1, <1>10, <2>2, <2>3 DEF T, new
<1> QED
  BY <1>9, <1>10

\* A tap that changes a row moves the average of the stars, be it from the
\* neutral 3.
LEMMA TapMovesAverage ==
  ASSUME NEW rows \in Marks, IsFiniteSet(Tapped(rows)), NEW r \in Rows,
         NEW s \in {Issue, Satisfied}, s # rows[r]
  PROVE  LET old == Satisfaction(rows)
             now == Satisfaction(Marked(rows, r, s))
         IN  /\ old[1] \in Int /\ old[2] \in Int /\ now[1] \in Int /\ now[2] \in Int
             /\ s = Satisfied => old[1] * now[2] <= now[1] * old[2]
             /\ s = Issue => now[1] * old[2] <= old[1] * now[2]
<1> DEFINE new == Marked(rows, r, s)
           k == Cardinality(Tapped(rows))
           S == Stars(rows)
<1>1. S \in Int /\ k \in Int /\ 2 * k <= S /\ S <= 5 * k
  BY StarsBounds
<1>2. /\ Tapped(new) = Tapped(rows) \cup {r}
      /\ r \notin Tapped(rows) => Stars(new) = S + s /\ Cardinality(Tapped(new)) = k + 1
      /\ r \in Tapped(rows) => Stars(new) = S - rows[r] + s /\ Tapped(new) = Tapped(rows)
  BY TapCounts
<1>3. Satisfaction(new) = <<Stars(new), Cardinality(Tapped(new))>>
  BY <1>2 DEF Satisfaction
<1>4. s \in {2, 5} /\ Satisfied = 5 /\ Issue = 2
  BY DEF Satisfied, Issue
<1>5. CASE Tapped(rows) = {}
  <2>1. S = 0 /\ k = 0 /\ r \notin Tapped(rows)
    BY <1>5, SumOfNone, FS_EmptySet DEF Stars
  <2>2. Satisfaction(rows) = <<3, 1>>
    BY <1>5 DEF Satisfaction
  <2>3. Satisfaction(new) = <<s, 1>>
    BY <1>2, <1>3, <1>4, <2>1
  <2> QED
    BY <1>4, <2>2, <2>3
<1>6. CASE Tapped(rows) # {} /\ r \notin Tapped(rows)
  <2>1. Satisfaction(rows) = <<S, k>> /\ Satisfaction(new) = <<S + s, k + 1>>
    BY <1>2, <1>3, <1>6 DEF Satisfaction
  <2> HIDE DEF S, k, new
  <2>2. S * (k + 1) = S * k + S /\ S * k \in Int
    BY <1>1
  <2>3. (S + 5) * k = S * k + 5 * k /\ (S + 2) * k = S * k + 2 * k
    BY <1>1
  <2>4. CASE s = 5
    BY <1>1, <1>4, <2>1, <2>2, <2>3, <2>4 DEF new
  <2>5. CASE s = 2
    BY <1>1, <1>4, <2>1, <2>2, <2>3, <2>5 DEF new
  <2> QED
    BY <1>4, <2>4, <2>5
<1>7. CASE r \in Tapped(rows)
  <2>1. Satisfaction(rows) = <<S, k>> /\ Satisfaction(new) = <<S - rows[r] + s, k>>
    BY <1>2, <1>3, <1>7 DEF Satisfaction
  <2>2. (rows[r] = 5 /\ s = 2) \/ (rows[r] = 2 /\ s = 5)
    BY <1>4, <1>7 DEF Tapped, Issue, Satisfied
  <2>3. k >= 0
    BY FS_CardinalityType
  <2> HIDE DEF S, k, new
  <2>4. /\ S * k \in Int /\ (S - 5 + 2) * k = S * k - 3 * k
        /\ (S - 2 + 5) * k = S * k + 3 * k
    BY <1>1
  <2> QED
    BY <1>1, <1>4, <2>1, <2>2, <2>3, <2>4 DEF new
<1> QED
  BY <1>5, <1>6, <1>7

\* Only the stars of the score change with a tap.
LEMMA TapKeepsTheRest ==
  ASSUME NEW rows, NEW new, Delivered(new) = Delivered(rows)
  PROVE  System(new) = System(rows) /\ Response(new) = Response(rows)
  BY DEF System, Share, Response

LEMMA SystemIsInt ==
  ASSUME NEW rows, IsFiniteSet(Delivered(rows))
  PROVE  System(rows) \in Int /\ Response(rows) \in Int
<1>1. \A D \in SUBSET Delivered(rows) : Cardinality(D) \in Nat
  BY FS_Subset, FS_CardinalityType
<1>2. /\ Share(rows, LAMBDA r : Signals[r].onTime) \in Nat
      /\ Share(rows, LAMBDA r : Signals[r].priceKept) \in Nat
      /\ Share(rows, LAMBDA r : Signals[r].repeat) \in Nat
  BY <1>1 DEF Share
<1>3. System(rows) \in Int
  BY <1>2 DEF System
<1>4. Response(rows) \in {30, 60, 80, 100}
  BY DEF Response
<1> QED
  BY <1>3, <1>4

LEMMA TapMovesComposite ==
  ASSUME NEW rows \in Marks, IsFiniteSet(Delivered(rows)), NEW r \in Rows,
         rows[r] # Absent, NEW s \in {Issue, Satisfied}, s # rows[r]
  PROVE  LET new == Marked(rows, r, s) IN
         /\ s = Satisfied => NotBelow(Composite(new), Composite(rows))
         /\ s = Issue => NotBelow(Composite(rows), Composite(new))
<1> DEFINE new == Marked(rows, r, s)
           n == Cardinality(Delivered(rows))
           y == System(rows)
           z == Response(rows)
           old == Satisfaction(rows)
           now == Satisfaction(new)
<1>1. /\ Delivered(new) = Delivered(rows)
      /\ Tapped(rows) \subseteq Delivered(rows)
  BY DEF Marks, Grades, Delivered, Tapped, Absent, Issue, Satisfied,
         Marked
<1>2. /\ IsFiniteSet(Tapped(rows)) /\ n \in Nat /\ y \in Int /\ z \in Int
      /\ System(new) = y /\ Response(new) = z
  BY <1>1, FS_Subset, FS_CardinalityType, SystemIsInt, TapKeepsTheRest
<1>3. CASE n < MinOrders
  <2>1. Composite(rows) = <<-1, 1>> /\ Composite(new) = <<-1, 1>>
    BY <1>1, <1>3 DEF Composite, Unproven
  <2> QED
    BY <2>1 DEF NotBelow
<1>4. CASE ~(n < MinOrders)
  <2>1. /\ Composite(rows) = <<Top(old[1], old[2], n, y, z), Bottom(old[2], n)>>
        /\ Composite(new) = <<Top(now[1], now[2], n, y, z), Bottom(now[2], n)>>
    BY <1>1, <1>2, <1>4 DEF Composite, System, Top, Bottom
  <2>2. /\ old[1] \in Int /\ old[2] \in Int /\ now[1] \in Int /\ now[2] \in Int
        /\ s = Satisfied => old[1] * now[2] <= now[1] * old[2]
        /\ s = Issue => now[1] * old[2] <= old[1] * now[2]
    BY <1>2, TapMovesAverage
  <2> DEFINE a == old[1]
             b == old[2]
             c == now[1]
             d == now[2]
  <2>3. a \in Int /\ b \in Int /\ c \in Int /\ d \in Int
    BY <2>2
  <2> HIDE DEF n, y, z, a, b, c, d
  <2>4. s = Satisfied =>
          Top(a, b, n, y, z) * Bottom(d, n) <= Top(c, d, n, y, z) * Bottom(b, n)
    BY <1>2, <2>2, <2>3, BetterAverage DEF a, b, c, d
  <2>5. s = Issue =>
          Top(c, d, n, y, z) * Bottom(b, n) <= Top(a, b, n, y, z) * Bottom(d, n)
    BY <1>2, <2>2, <2>3, BetterAverage DEF a, b, c, d
  <2>6. /\ Top(a, b, n, y, z) \in Int /\ Bottom(b, n) \in Int
        /\ Top(c, d, n, y, z) \in Int /\ Bottom(d, n) \in Int
    BY <1>2, <2>3 DEF Top, Bottom
  <2> HIDE DEF old, now
  <2> QED
    BY <2>1, <2>4, <2>5, <2>6 DEF NotBelow, a, b, c, d
<1> QED
  BY <1>3, <1>4

\* Rows are delivered one at a time: there are finitely many.
Finite == stars \in Marks /\ IsFiniteSet(Delivered(stars))

LEMMA FiniteThm == ScoreSpec => []Finite
<1>1. ScoreInit => Finite
  <2>1. ScoreInit => stars \in Marks /\ Delivered(stars) = {}
    BY DEF ScoreInit, Marks, Grades, Delivered
  <2> QED
    BY <2>1, FS_EmptySet DEF Finite
<1>2. Finite /\ [ScoreNext]_scoreVars => Finite'
  <2> SUFFICES ASSUME Finite, [ScoreNext]_scoreVars PROVE Finite'
    OBVIOUS
  <2>1. ASSUME NEW r \in Rows, DeliverRow(r) PROVE Finite'
    <3>1. stars' = [stars EXCEPT ![r] = Untapped]
      BY <2>1 DEF DeliverRow
    <3>2. stars' \in Marks /\ Delivered(stars') = Delivered(stars) \cup {r}
      BY <3>1 DEF Finite, Marks, Grades, Delivered, Untapped, Absent
    <3> QED
      BY <3>2, FS_AddElement DEF Finite
  <2>2. ASSUME NEW t \in Tappers, Tap(t) PROVE Finite'
    <3>1. PICK r \in Rows, s \in {Satisfied, Issue} :
            stars[r] # Absent /\ stars' = [stars EXCEPT ![r] = s]
      BY <2>2 DEF Tap, TapOn
    <3>2. stars' \in Marks /\ Delivered(stars') = Delivered(stars)
      BY <3>1 DEF Finite, Marks, Grades, Delivered, Satisfied, Issue, Absent
    <3> QED
      BY <3>2 DEF Finite
  <2>3. ASSUME UNCHANGED stars PROVE Finite'
    BY <2>3 DEF Finite, Delivered
  <2> QED
    BY <2>1, <2>2, <2>3 DEF ScoreNext, ReadRows, WriteScore, LogScore, FailScore,
                            scoreVars
<1> QED
  BY <1>1, <1>2, PTL DEF ScoreSpec

\* A tap on a delivered row, first or changed, moves the score its way.
THEOREM TapsMoveScoreThm == ScoreSpec => TapsMoveScore
<1> DEFINE Moves ==
      \A r \in Rows :
        stars'[r] # stars[r] /\ stars[r] # Absent =>
          IF stars'[r] = Satisfied
          THEN NotBelow(Composite(stars'), Composite(stars))
          ELSE NotBelow(Composite(stars), Composite(stars'))
<1>1. Finite /\ [ScoreNext]_scoreVars => [Moves]_scoreVars
  <2> SUFFICES ASSUME Finite, ScoreNext PROVE Moves
    OBVIOUS
  <2> SUFFICES ASSUME NEW q \in Rows, stars'[q] # stars[q], stars[q] # Absent
               PROVE  IF stars'[q] = Satisfied
                      THEN NotBelow(Composite(stars'), Composite(stars))
                      ELSE NotBelow(Composite(stars), Composite(stars'))
    OBVIOUS
  <2>1. \A r \in Rows : ~DeliverRow(r)
    BY DEF Finite, Marks, DeliverRow
  <2>2. PICK t \in Tappers : Tap(t)
    BY <2>1 DEF ScoreNext, ReadRows, WriteScore, LogScore, FailScore
  <2>3. PICK r \in Rows, s \in {Satisfied, Issue} :
          stars[r] # Absent /\ stars' = [stars EXCEPT ![r] = s]
    BY <2>2 DEF Tap, TapOn
  <2>4. q = r /\ stars'[q] = s /\ s # stars[r]
    BY <2>3 DEF Finite, Marks
  <2>5. Satisfied # Issue
    BY DEF Satisfied, Issue
  <2> QED
    BY <2>3, <2>4, <2>5, TapMovesComposite DEF Finite, Marked
<1> QED
  BY <1>1, FiniteThm, PTL DEF ScoreSpec, TapsMoveScore

----------------------------------------------------------------------------
(* PaymentRetry.  The key has no attempt in it, so the provider has at     *)
(* most one payment per order, and it forgets none.                        *)

Progress == {"out", "create", "fetch", "escalate"}
Results == {"none", "settled", "processing", "duplicate", "error"}
AnOrder == CHOOSE o \in Orders : TRUE

Calls ==
  [at : Progress, order : Orders \cup {AnOrder}, attempt : Nat, result : Results]

RetryTyped ==
  /\ issued \in [Keys -> {"none", "created", "paid", "cancelled"}]
  /\ payer \in [Payers -> Calls]

\* Only a key without an attempt in it was ever sent to the provider.
OneKeyPerOrder == \A k \in Keys : issued[k] # "none" => k[2] = 0

\* Whoever is at work or settled got an order, and a settled one is paid for.
SettledIsIssued ==
  \A p \in Payers :
    /\ payer[p].at # "out" => payer[p].order \in Orders
    /\ payer[p].result = "settled" =>
         payer[p].order \in Orders /\ issued[<<payer[p].order, 0>>] # "none"

RetryInv == RetryTyped /\ OneKeyPerOrder /\ SettledIsIssued

\* How a caller at work moves on: with its order, and "settled" only when the
\* provider has the payment.
MovesOn(p, c) ==
  /\ payer' = [payer EXCEPT ![p] = c]
  /\ c.order = payer[p].order
  /\ c.result = "settled" /\ payer[p].result # "settled" => issued'[Key(p)] # "none"

LEMMA ReturnMoves ==
  ASSUME payer \in [Payers -> Calls], NEW p \in Payers, NEW result \in Results,
         Return(p, result), result = "settled" => issued'[Key(p)] # "none"
  PROVE  \E c \in Calls : MovesOn(p, c)
<1> DEFINE c == [payer[p] EXCEPT !.at = "out", !.result = result]
<1>1. payer[p] \in Calls
  OBVIOUS
<1>2. c \in Calls /\ c.order = payer[p].order /\ c.result = result
  BY <1>1 DEF Calls, Progress
<1>3. payer' = [payer EXCEPT ![p] = c]
  BY DEF Return
<1> QED
  BY <1>2, <1>3 DEF MovesOn

LEMMA AgainMoves ==
  ASSUME payer \in [Payers -> Calls], NEW p \in Payers, Again(p)
  PROVE  \E c \in Calls : MovesOn(p, c)
<1> DEFINE c == [payer[p] EXCEPT !.at = "create", !.attempt = @ + 1]
<1>1. payer[p] \in Calls
  OBVIOUS
<1>2. c \in Calls /\ c.order = payer[p].order /\ c.result = payer[p].result
  <2>1. "create" \in Progress /\ payer[p].attempt + 1 \in Nat
    BY <1>1 DEF Calls, Progress
  <2> QED
    BY <1>1, <2>1 DEF Calls
<1>3. payer' = [payer EXCEPT ![p] = c]
  BY DEF Again
<1> QED
  BY <1>2, <1>3 DEF MovesOn

LEMMA AdvanceMoves ==
  ASSUME payer \in [Payers -> Calls], NEW p \in Payers, NEW label \in Progress,
         payer' = [payer EXCEPT ![p].at = label]
  PROVE  \E c \in Calls : MovesOn(p, c)
<1> DEFINE c == [payer[p] EXCEPT !.at = label]
<1>1. payer[p] \in Calls
  OBVIOUS
<1>2. c \in Calls /\ c.order = payer[p].order /\ c.result = payer[p].result
  BY <1>1 DEF Calls
<1>3. payer' = [payer EXCEPT ![p] = c]
  OBVIOUS
<1> QED
  BY <1>2, <1>3 DEF MovesOn

\* Every step keeps the invariant.
LEMMA RetryStep ==
  ASSUME RetryInv, [RetryNext]_retryVars
  PROVE  RetryInv'
<1>0. /\ issued \in [Keys -> {"none", "created", "paid", "cancelled"}]
      /\ payer \in [Payers -> Calls]
  BY DEF RetryInv, RetryTyped
<1>1. ASSUME NEW p \in Payers, Begin(p)
      PROVE  RetryInv'
  <2>1. PICK o \in Orders :
          payer' = [payer EXCEPT ![p] =
            [at |-> "create", order |-> o, attempt |-> 1, result |-> "none"]]
    BY <1>1 DEF Begin
  <2>2. issued' = issued
    BY <1>1 DEF Begin
  <2>3. RetryTyped'
    <3>1. [at |-> "create", order |-> o, attempt |-> 1, result |-> "none"] \in Calls
      BY DEF Calls, Progress, Results
    <3> QED
      BY <1>0, <2>1, <2>2, <3>1 DEF RetryTyped
  <2>4. OneKeyPerOrder' /\ SettledIsIssued'
    BY <2>1, <2>2 DEF RetryInv, RetryTyped, OneKeyPerOrder, SettledIsIssued
  <2> QED
    BY <2>3, <2>4 DEF RetryInv
<1>2. ASSUME NEW p \in Payers,
             \/ Create(p) \/ Duplicate(p) \/ Fetch(p) \/ ProviderFails(p)
             \/ Escalate(p) \/ PayerDies(p)
      PROVE  RetryInv'
  <2>1. /\ payer[p].at # "out" /\ payer[p].order \in Orders
        /\ Key(p) \in Keys /\ Key(p) = <<payer[p].order, 0>>
    <3>1. payer[p].at # "out"
      BY <1>2 DEF Create, Duplicate, Fetch, ProviderFails, Escalate, PayerDies
    <3> QED
      BY <3>1 DEF RetryInv, SettledIsIssued, Key, Keys, MaxRetries
  <2>2. \/ issued' = issued
        \/ issued' = [issued EXCEPT ![Key(p)] = "created"]
    BY <1>2 DEF Create, Duplicate, Fetch, ProviderFails, Escalate, PayerDies
  <2>3. /\ issued' \in [Keys -> {"none", "created", "paid", "cancelled"}]
        /\ \A k \in Keys : issued[k] # "none" => issued'[k] # "none"
        /\ OneKeyPerOrder'
    BY <1>0, <2>1, <2>2 DEF RetryInv, OneKeyPerOrder
  <2>4. \/ \E result \in Results :
             /\ Return(p, result)
             /\ result = "settled" => issued'[Key(p)] # "none"
        \/ Again(p)
        \/ \E label \in Progress : payer' = [payer EXCEPT ![p].at = label]
    <3>1. Create(p) => issued'[Key(p)] # "none"
      BY <1>0, <2>1 DEF Create
    <3>2. Fetch(p) => issued[Key(p)] \in {"created", "paid"} \/ Return(p, "duplicate")
      BY DEF Fetch
    <3> QED
      BY <1>2, <2>1, <2>3, <3>1, <3>2
         DEF Create, Duplicate, Fetch, ProviderFails, Escalate, PayerDies,
             Failed, Results, Progress
  <2>5. PICK c \in Calls : MovesOn(p, c)
    BY <1>0, <2>4, ReturnMoves, AgainMoves, AdvanceMoves
  <2>6. RetryTyped'
    BY <1>0, <2>3, <2>5 DEF RetryTyped, MovesOn
  <2>7. /\ payer'[p] = c /\ \A q \in Payers \ {p} : payer'[q] = payer[q]
        /\ c.result = "settled" => issued'[Key(p)] # "none"
    BY <1>0, <2>1, <2>3, <2>5 DEF RetryInv, SettledIsIssued, MovesOn
  <2>8. \A o \in Orders : <<o, 0>> \in Keys
    BY DEF Keys, MaxRetries
  <2>9. SettledIsIssued'
    BY <2>1, <2>3, <2>5, <2>7, <2>8 DEF RetryInv, SettledIsIssued, MovesOn
  <2> QED
    BY <2>3, <2>6, <2>9 DEF RetryInv
<1>3. ASSUME NEW k \in Keys, LinkMoves(k)
      PROVE  RetryInv'
  <2>1. /\ \E s \in {"paid", "cancelled"} : issued' = [issued EXCEPT ![k] = s]
        /\ issued[k] # "none" /\ payer' = payer
    BY <1>3 DEF LinkMoves
  <2>2. \A o \in Orders : <<o, 0>> \in Keys
    BY DEF Keys, MaxRetries
  <2> QED
    BY <2>1, <2>2 DEF RetryInv, RetryTyped, OneKeyPerOrder, SettledIsIssued
<1>4. CASE UNCHANGED retryVars
  BY <1>4 DEF retryVars, RetryInv, RetryTyped, OneKeyPerOrder, SettledIsIssued
<1> QED
  BY <1>1, <1>2, <1>3, <1>4 DEF RetryNext

\* An order is paid for at most once, by any number of callers.
THEOREM SettledOnceThm == RetrySpec => []SettledOnce
<1>1. RetryInit => RetryInv
  <2>1. 0 \in Nat /\ "out" \in Progress /\ "none" \in Results
    BY DEF Progress, Results
  <2> QED
    BY <2>1 DEF RetryInit, RetryInv, RetryTyped, OneKeyPerOrder, SettledIsIssued,
                AnOrder, Calls
<1>2. RetryInv /\ [RetryNext]_retryVars => RetryInv'
  BY RetryStep
<1>3. RetryInv => SettledOnce
  <2> SUFFICES ASSUME RetryInv PROVE SettledOnce
    OBVIOUS
  <2>1. ASSUME NEW o \in Orders
        PROVE  Cardinality({k \in Keys : k[1] = o /\ issued[k] # "none"}) <= 1
    <3> DEFINE K == {k \in Keys : k[1] = o /\ issued[k] # "none"}
    <3>1. K \subseteq {<<o, 0>>}
      BY DEF RetryInv, OneKeyPerOrder, Keys
    <3>2. K = {} \/ K = {<<o, 0>>}
      BY <3>1
    <3>3. Cardinality(K) \in {0, 1}
      BY <3>2, FS_EmptySet, FS_Singleton
    <3> QED
      BY <3>3
  <2> QED
    BY <2>1 DEF RetryInv, SettledIsIssued, SettledOnce
<1> QED
  BY <1>1, <1>2, <1>3, PTL DEF RetrySpec

----------------------------------------------------------------------------
(* MigrationRunner.  The runners share no lock: what keeps them in order is*)
(* that each goes through its files from the smallest up, and that a name  *)
(* is inserted once.                                                       *)

MigrationTyped ==
  /\ schema \in Seq(Files)
  /\ ledger \subseteq Files
  /\ runner \in [Runners -> {"out", "next", "insert", "commit"}]
  /\ pending \in [Runners -> SUBSET Files]

\* What a runner at work no longer waits for is applied.
PassedIsApplied ==
  \A r \in Runners : runner[r] # "out" => Files \ pending[r] \subseteq ledger

\* The file a runner is about to commit is applied by nobody else.
OneCommitter ==
  \A r \in Runners, f \in Files :
    runner[r] = "commit" /\ AtFile(r, f) =>
      /\ f \notin ledger
      /\ \A q \in Runners : runner[q] = "commit" /\ AtFile(q, f) => q = r

MigrationInv == MigrationTyped /\ PrefixApplied /\ PassedIsApplied /\ OneCommitter

\* Numbers 1, 2, ..., n followed by n + 1 are 1, 2, ..., n + 1.
LEMMA CountOn ==
  ASSUME NEW S, NEW s \in Seq(S), NEW f \in S, f = Len(s) + 1,
         s = [i \in 1..Len(s) |-> i]
  PROVE  /\ Append(s, f) = [i \in 1..Len(Append(s, f)) |-> i]
         /\ 1..Len(Append(s, f)) = 1..Len(s) \cup {f}
<1> DEFINE t == Append(s, f)
<1>1. /\ t \in Seq(S) /\ Len(t) = Len(s) + 1 /\ Len(s) \in Nat
      /\ \A i \in 1..Len(s) : t[i] = s[i]
      /\ t[Len(s) + 1] = f
  BY AppendProperties, LenProperties
<1>2. \A i \in 1..Len(t) : t[i] = i
  <2> SUFFICES ASSUME NEW i \in 1..Len(t) PROVE t[i] = i
    OBVIOUS
  <2>1. CASE i = Len(s) + 1
    BY <1>1, <2>1
  <2>2. CASE i \in 1..Len(s)
    BY <1>1, <2>2
  <2> QED
    BY <1>1, <2>1, <2>2
<1>3. t = [i \in 1..Len(t) |-> t[i]]
  BY <1>1, LenProperties
<1>4. 1..Len(t) = 1..Len(s) \cup {f}
  BY <1>1
<1> QED
  BY <1>2, <1>3, <1>4

\* The file a runner commits is the first one that is not applied.
LEMMA CommitsTheNext ==
  ASSUME MigrationInv, LastFile \in Nat,
         NEW r \in Runners, NEW f \in Files, Commit(r, f)
  PROVE  f = Len(schema) + 1
<1>1. f \notin 1..Len(schema) /\ Len(schema) \in Nat /\ f \in 1..LastFile
  BY LenProperties DEF MigrationInv, MigrationTyped, OneCommitter, PrefixApplied, Commit, Files
<1>2. \A g \in Files : g < f => g \in 1..Len(schema)
  <2> SUFFICES ASSUME NEW g \in Files, g < f PROVE g \in 1..Len(schema)
    OBVIOUS
  <2>1. g \notin pending[r]
    BY <1>1 DEF Commit, AtFile, Files
  <2> QED
    BY <2>1 DEF MigrationInv, PassedIsApplied, PrefixApplied, Commit
<1>3. f - 1 \in Nat /\ (f - 1 = 0 \/ f - 1 \in Files)
  BY <1>1 DEF Files
<1> QED
  BY <1>1, <1>2, <1>3

\* Every step keeps the invariant.
LEMMA MigrationStep ==
  ASSUME LastFile \in Nat, MigrationInv, [MigrationNext]_migrationVars
  PROVE  MigrationInv'
<1> USE DEF MigrationInv, Step
<1>1. ASSUME NEW r \in Runners, NEW f \in Files, Commit(r, f)
      PROVE  MigrationInv'
  <2>1. /\ schema' = Append(schema, f) /\ ledger' = ledger \cup {f}
        /\ pending' = [pending EXCEPT ![r] = @ \ {f}]
        /\ runner' = [runner EXCEPT ![r] = "next"]
        /\ runner[r] = "commit" /\ AtFile(r, f)
    BY <1>1 DEF Commit
  <2>2. MigrationTyped'
    BY <2>1, AppendProperties DEF MigrationTyped
  <2>3. PrefixApplied'
    BY <1>1, <2>1, CommitsTheNext, CountOn DEF MigrationTyped, PrefixApplied
  <2>4. PassedIsApplied'
    BY <2>1 DEF MigrationTyped, PassedIsApplied
  <2>5. OneCommitter'
    BY <2>1 DEF MigrationTyped, OneCommitter, AtFile
  <2> QED
    BY <2>2, <2>3, <2>4, <2>5
<1>2. ASSUME NEW r \in Runners, NEW f \in Files, InsertName(r, f)
      PROVE  MigrationInv'
  <2>1. UNCHANGED <<schema, ledger, pending>> /\ runner[r] = "insert"
        /\ runner' = [runner EXCEPT ![r] = "commit"] /\ AtFile(r, f) /\ f \notin ledger
        /\ \A q \in Runners \ {r} : ~(runner[q] = "commit" /\ AtFile(q, f))
    BY <1>2 DEF InsertName
  <2>2. \A g \in Files : AtFile(r, g) => g = f
    BY <2>1 DEF AtFile, Files
  <2>3. OneCommitter'
    BY <2>1, <2>2 DEF MigrationTyped, OneCommitter, AtFile
  <2> QED
    BY <2>1, <2>3 DEF MigrationTyped, PassedIsApplied, PrefixApplied
<1>3. ASSUME NEW r \in Runners,
             \/ AllApplied(r) \/ Execute(r) \/ Die(r) \/ ReadLedger(r)
             \/ \E f \in Files : GiveUp(r, f)
      PROVE  MigrationInv'
  <2>1. /\ UNCHANGED <<schema, ledger>>
        /\ \E p \in SUBSET Files, l \in {"out", "next", "insert"} :
             /\ pending' = [pending EXCEPT ![r] = p]
             /\ runner' = [runner EXCEPT ![r] = l]
             /\ l # "out" => Files \ p \subseteq ledger
    BY <1>3 DEF AllApplied, Execute, Die, ReadLedger, GiveUp, MigrationTyped, PassedIsApplied
  <2>2. MigrationTyped' /\ PassedIsApplied'
    BY <2>1 DEF MigrationTyped, PassedIsApplied
  <2>3. OneCommitter'
    BY <2>1 DEF MigrationTyped, OneCommitter, AtFile
  <2> QED
    BY <2>1, <2>2, <2>3 DEF PrefixApplied
<1>4. CASE UNCHANGED migrationVars
  BY <1>4 DEF migrationVars, MigrationTyped, PrefixApplied, PassedIsApplied, OneCommitter, AtFile
<1> QED
  BY <1>1, <1>2, <1>3, <1>4 DEF MigrationNext

\* However many runners start together and wherever each one stops, the
\* schema is that of the first files, each applied once and in order, and the
\* ledger names exactly those.
THEOREM PrefixAppliedThm ==
  ASSUME LastFile \in Nat
  PROVE  MigrationSpec => []PrefixApplied
<1>1. MigrationInit => MigrationInv
  BY DEF MigrationInit, MigrationInv, MigrationTyped, PrefixApplied, PassedIsApplied,
         OneCommitter
<1>2. MigrationInv /\ [MigrationNext]_migrationVars => MigrationInv'
  BY MigrationStep
<1>3. MigrationInv => PrefixApplied
  BY DEF MigrationInv
<1> QED
  BY <1>1, <1>2, <1>3, PTL DEF MigrationSpec
============================================================================
