# Procureos in TLA+

Procureos buys things for a company. An employee states a goal ("18 office
chairs, delivered to Pune"); the program finds vendors, asks them for quotes on
WhatsApp, ranks the quotes with language models, posts an approval card to
Slack, and on approval pays and tracks the delivery. This directory holds a
formal model of the concurrent core of that program, the runs that check it
with TLC, and theorems about it that TLAPS proves. Paths below are relative to
the repository's `src/`.

Run anything from this directory:

    tlc -workers 2 -config lock.cfg MCGoalStateLock
    tlapm ApprovalPaymentProofs.tla

## 1. Inventory

The program is a FastAPI process (`api/`), a scheduler process (`worker/`),
Supabase Postgres, Redis, and four outside services: WhatsApp, Slack, payment
providers, language models. All handlers are `async`; every `await` lets
another handler run, and the API, its background tasks and the worker share
nothing but the database and Redis.

| Component | State it keeps | Operations | Talks to |
| --- | --- | --- | --- |
| goal state machine (`core/state_machine.py`) | `goals.status`; Redis `goal_lock:{id}` (30 s), `goal_state:{id}` (24 h) | `transition_goal_state` | store, Redis; called by everything |
| approval lifecycle (`core/approval_manager.py`, `api/routes/approvals.py`) | selected option, approval time, order row, magic-link tokens | `approve_goal`, `reject_goal`, freshness check, re-approval, links, Slack's buttons | state machine, budget engine |
| budget engine (`core/budget_engine.py`) | Redis `budget_lock:{company}:{category}` (10 s), `spend_records` | `execute_payment_with_budget_check` | payment service |
| payment (`services/payment.py`, `razorpay.py`) | a provider's charges and its idempotency keys | issue, poll, `payment_with_retry` | external providers |
| goal processor (`agents/orchestrator.py`, `api/routes/goals.py`) | collected quotes, options, `approval_sent_at` | `process_goal`, `dispatch_rfqs`, `on_quote_collected`, ranking | WhatsApp, language models, Slack |
| RFQ timeout worker (`worker/rfq_timeout.py`, `main.py`) | none of its own | the sweep, every 5 min, one run at a time | goal processor, state machine |
| WhatsApp routing (`api/routes/webhooks.py`, `services/whatsapp.py`, `core/waba_router.py`, `waba_handlers.py`) | vendors' opt-out | verify, normalise, route by content, attribute a reply | goal processor, delivery and rating |
| chat (`api/routes/chat.py`) | sessions in memory: the conversation, the last search, confirmed goals and their high-water marks | a turn, the tools `find_vendors` and `confirm_and_create_goal`, the updates poll | store, WhatsApp, language models |
| vendor discovery (`agents/specialist/places_agent.py`) | none | deduplicate, look up scores, rank, choose | chat, goal processor |
| delivery and rating (`core/delivery.py`, `rating.py`, worker jobs) | order status, ratings | confirm, deny, poll (every 30 min), rate | state machine |
| vendor score (`core/vendor_scorer.py`) | a vendor's composite score, its band, its history | recompute after a tap | delivery and rating |
| language model router (`agents/llm_router.py`) | per-provider circuit breakers | fallback chain, confidence gate, cost log | external providers |
| store (`core/db.py`, `store.py`) | all tables | one statement each | Postgres |
| migrations (`migrations/apply.py`) | the schema, `schema_migrations` | `apply_all` | Postgres |
| API application, quote parser and option ranker, Slack notifier, scripts, prompts, configuration | - | parsing, formatting, HTTP | - |

What makes each of them correct:

- *State machine*: one caller at a time between the comparison and the write;
  a stale caller changes nothing; every change is an edge of
  `ALLOWED_TRANSITIONS`; no lock stays for ever.
- *Approval, budget, payment*: a goal is paid once, by the click that won it,
  for an option still on offer; a paid goal cannot be rejected or approved
  again; the spend of a budget exceeds it by no more than the payments that
  outlasted the budget lock; the ledger agrees with the charges; every click
  gets an answer.
- *Goal processor, replies, worker*: one card per goal, for the options the goal
  has, its clock running; ranked from enough quotes unless the deadline passed;
  no goal waits for vendors nobody asked; no goal waits for ever.
- *Delivery and rating*: one rating per delivery, however often a webhook is
  repeated; a delivery is rated, an order gets into transit.
- *Vendor score*: however recomputations overlap, once the newest reading of the
  ratings is what was written last the score misses no tap, and a tap moves it
  the way the tap says.
- *Model router*: an outage is shed (a breaker opens after five failures in a
  row and lets calls through again after a cooldown) and costs no request that
  another provider could serve.
- *Links and buttons*: a goal is decided once, by an owner of its own link,
  though two requests may pass one link.
- *Routing*: a message goes to the handler its content asks for, whichever
  provider's envelope it came in; a vendor's reply is that of its own goal if
  the goal waits for quotes all the while.
- *Chat*: the RFQ that goes out is for what was searched and shown; a vendor
  found risky is written to only when named; every quote reaches the page, none
  is passed over, and so does a ranking unless the goal moves on first.
- *Payment retries*: an order is paid once, whoever pays and however often.
- *Migrations*: the files applied are always a prefix, in order, each once.

What is hard about them is listed under "hazards" in `PROJECT.json`, each at the
line where it bites: double clicks; a lock whose lease ends under its holder; a
compare-and-set whose answer nobody looks at; a process that dies between a
claim and what it claimed; a provider that charges and does not answer; a
worker that looks, and acts on what it saw; a page that polls while a turn of the
chat confirms another goal.

## 2. The modules

| Module | Models | Lines of code it stands for |
| --- | --- | --- |
| `GoalStates` | the states and the reference graph | `core/state_machine.py:25-77` |
| `GoalStateCas` | abstract: `transition_goal_state` as one atomic compare-and-set that may also raise | what `core/state_machine.py:99-144` promises |
| `GoalStateLock` | the same function, one action per Redis or database command | `core/state_machine.py:99-144` |
| `GoalStateLockProofs` | theorems about it | |
| `ApprovalPayment` | a click on Approve or Reject until it is answered | `core/approval_manager.py`, `core/budget_engine.py`, payment and ledger |
| `ApprovalPaymentProofs` | theorems about it | |
| `QuoteCollection` | a new goal until its approval card | `agents/orchestrator.py`, `api/routes/goals.py`, `core/waba_router.py`, `worker/rfq_timeout.py`, the chat's confirmation |
| `QuoteCollectionProofs` | theorems about it | |
| `DeliveryPromise` | abstract: what becomes of an order, and its one rating | what `core/delivery.py` and `core/rating.py` promise |
| `DeliveryRating` | presses and the worker's poll, from a paid order to a completed goal | `core/delivery.py`, `core/rating.py:41-91`, `worker/delivery_tracker.py` |
| `DeliveryRatingProofs` | theorems about it | |
| `VendorRanking` | how found vendors are ordered, and whom an RFQ is for (pure) | `agents/specialist/places_agent.py`, `_find_vendors` and `_pick_targets` of `api/routes/chat.py` |
| `ChatSession` | turns and polls of one chat session | `api/routes/chat.py` |
| `ChatSessionProofs` | theorems about it and `VendorRanking` | |
| `LlmRouting` | the table of models per task | `agents/llm_router.py:41-104` |
| `LlmRouter` | concurrent requests behind shared circuit breakers | `agents/llm_router.py:141-269`, what the handlers raise |
| `LlmRouterProofs` | theorems about it | |
| `ApprovalLinks` | a decision by magic link or Slack button, up to its HTTP answer | tokens in `core/approval_manager.py`, `api/routes/approvals.py`, Slack's part of `api/routes/webhooks.py` |
| `InboundRouting` | a WhatsApp message until its handler | `api/routes/webhooks.py`, `services/whatsapp.py`, `core/waba_router.py` |
| `VendorScore` | the score as an exact fraction, and its concurrent recomputation | `core/vendor_scorer.py`, the calls in `core/rating.py` |
| `PaymentRetry` | attempts to pay an order over a provider with keys | `services/payment.py`, `services/razorpay.py` |
| `MigrationRunner` | several runners of `apply_all` | `migrations/apply.py` |
| `PartsProofs` | theorems about the five components above | |
| `SumTheorems` | lemmas: the library's sum of a function over a finite set | |
| `MCParts` | the last six components for TLC, one at a time | |
| `MC...` | instances of the others for TLC | |

`map` in `PROJECT.json` names the lines behind every definition. Definitions
that start with the comment "Wrong variant" are not part of a specification:
each is a plausible mistake in the definition after it, and the property it
breaks is named under `mutants`.

### GoalStateLock

`lockKey[g]` says whether `goal_lock:{g}` exists. It does not say who set it,
because the code stores "1" whoever takes it; so releasing is a deletion of
whatever is there. `status` is the database column, `cache` the Redis mirror.
One action per `await`: `Invoke`, `Acquire` (SET NX EX 30), `ReadState`,
`WriteState`, `WriteCache`, `Release`. `AcquireError`, `TryError` and
`ReleaseError` let any of these commands raise, with and without its effect,
and run the `finally` clause as the code does; `Crash` stops the caller
between two commands, and `Expire` is the lease. A live caller outlasts its
lease only if the constant `SlowHolders` is TRUE.

`ImplementsCas` says this implements `GoalStateCas`: the comparison
and the write, two database commands with others in between, look like one.
`ApprovalPayment` and `QuoteCollection` rely on it: they model a call as three
steps (take the lock, compare and set, give it back), which keeps the window in
which another caller is *refused*, the window that matters to them.

### ApprovalPayment

An actor is a *click*: one delivery of a button press, from Slack or a magic
link. `pc[c]` is where its handler is, named for the step of `approve_goal`,
and `tx[c]` how far it is in a transition. The handler: `Look` (state and
option), transition to `approved`, `RecordApproval`, `CheckFreshness`; if the
options are stale `Refetch`, `NotifyApprover`, `ReadCurrent` and the transition
back; else `CreateOrder`, transition to `payment_queued`, `AcquireBudget`,
`CheckBudget`, `Pay`, `RecordSpend`, `ReleaseBudget`, transition to `ordered`,
or to `payment_failed` after an exception. `After` says what each caller does
with the answer of a transition: the first two branches look at it, the others
ignore it, as the code does. `Proceed` lets a command take effect and raise;
`Error` lets it raise without effect; `Crash` ends the process.

The money is `charged` (external: what the provider holds), `ledger` and
`spent` (`spend_records` and their sum) and `orders`. Every click creates an
order of its own, whose id is its idempotency key, so the provider's
idempotency does not help against a second click.

Abstracted: one company, one category, one period, so all goals share one
budget; the price is per goal; time is two facts, "the clock of the options has
run out" (`sentStale`) and "the lease has run out". A live payer outlasts the
lease of the budget lock if the constant `SlowPayments` is TRUE; `overrun` is a
history variable, the payers whose lease ended before their debit.

### QuoteCollection

An actor is the task that starts a goal (named by the goal), a vendor's reply, or
the worker. The task runs `CheckIntake`, `Search`, `UpsertVendors`, `DispatchRfqs`
and its transitions; a failure makes the background task read the state and
escalate whatever it read (`ReadToEscalate`). A goal confirmed in the chat starts
in `pending_rfq` instead and sends afterwards. A reply is routed by REF code, else
to the sole active goal (`Route`, `RouteToSole`), is parsed, stored, counted, and
moves the goal (`LookAtGoal`, `LookAgain`). Who wins `quotes_received ->
pending_approval` ranks and sends the card (`FetchQuotes` ... `SendCard`). Nothing
checks what the model answers: `RankOptions` goes on with any set of options, none
included, or raises, and `SendCard` sends what there is. `shown` is what the last
card shows. The worker does the same for goals it lists after 30 minutes, and
times out goals nobody answered after 120.

Abstracted: a quote is the reply it came in, and an option the quote it is for;
the search and the parse are a nondeterministic outcome; `age[g]` is 0, past 30
minutes or past
120. `SetState` resets it, because `updated_at` is what the worker compares.

### DeliveryRating

An actor is one delivery of a button press (the vendor confirms or denies, the
employee taps a rating), or the worker. A confirmation runs `begin`,
`mark_transit`, `deliver`, `mark_delivered`, `create_rating`, `mark_sent`; a
denial `deny`, `mark_failed`; a tap `tap`, `rate`, `complete`. The worker lists
the orders `placed`, then those `in_transit` (`ListPlaced`, `ListTransit`), begins
the transit of the first, and delivers those of the second that the courier
reports (the constant `Courier`: `worker/main.py` injects no such function, so
with FALSE the second half of the poll looks at each order and does nothing).
An exception ends a press, and the worker's work on one order; a listing that
fails ends the poll. A press may come at any time, so a confirmation may be
early, late or repeated; an employee taps a rating that exists. (No caller
passes `notify_to`, so in the code as it is nobody is sent the prompt; the
router handles the tap all the same.)

`ImplementsPromise` is the refinement: with `outcome` read off the goal's
status, the orders follow `DeliveryPromise`. Abstracted: one order per goal; what
a tap does to the vendor's score is `VendorScore`.

### LlmRouter

A request suspends only in `await handler(...)`. Between two of these it runs
undisturbed, so what it does with an outcome, including the scan for the next
model whose breaker is not open, is one action: `RateLimited`, `Fails`,
`Unparseable`, `OddJson`, `LowConfidence` or `Answers`. The breakers are shared,
so other requests change them while this one waits. `opened[p]` says whether
`_opened_at` is None, recent or older than the cooldown; `failures[p]` is
`_failures`, never capped. `waves` counts cooldowns between two resets, for
the property only. A provider in `Solid` answers every request well; of the
others nothing is assumed.

### ChatSession and VendorRanking

A turn is a request of `/chat/message`, a poll one of `/chat/updates`; both work
on one record in memory. Turns overlap because a client that names no session
gets the one called "default"; polls because the page's timer does not wait. A
turn is `Message`, then rounds of `Answer`, `CallTools` or `NoAnswer`, the calls
one after another: `find_vendors` searches, assesses risk and overwrites the
session's last search; `confirm_and_create_goal` copies it into `order` (its
locals), saves the goal, writes to the vendors and registers the goal with the
session. A poll (`reading`) walks the session's goals, reads the status, then
the quotes, then notes both (`PollNote`). The `store` column `status` moves
between any two of these steps (`Advance`), along the pairs of the constant
`Course`: what moves it is `QuoteCollection` and the modules after it. `announced`
holds the goals that some poll reported as `pending_approval`.

`history` is the conversation reduced to what decides whether a provider takes
it: an answer with tool calls must be followed by their results. Both formats are
there, `Canonical` for Anthropic and `ToOpenAiMessages` for Groq; a history that
became canonical again is forgotten, since anything may follow it.

`VendorRanking` is translated function by function: deduplication by place,
lookup of known scores, two stable sorts, the risk override, and `PickTargets`.
A sort lists positions by how many come before them (`Listed`), a list
comprehension likewise (`Selected`): no recursion, so both can be proved about.
Risk is judged by position in the list, as the code does, so two branches of
one name may differ in it; a level that is none of the four ranks as unknown.
Ratings are tenths of stars, credibility is an exact fraction; "this text occurs
in that name" is the relation `Within`, of which only transitivity is assumed.

### ApprovalLinks

A request is `new`, then at `burn`, `look`, `claim`, `done`: the link is read
(`OpenLink`), marked used and its goal compared (`Burn`), the goal read (`Look`)
and decided by compare-and-set (`Claim`), each in a transaction of its own. A button
press starts at `look`. `Fail` is an exception anywhere (500), `Redeliver`
Slack's repetition, `ExpireLink` the clock. `winners` is a history variable.

### InboundRouting

A request holds one message: envelope (Meta, Chat Mitra, flat), kind, what the
tapped button asks for, the goal of its REF code, its signatures. `Verified` and
`Normalized` are functions; the cascade is one action per question to the
store, while goals open and close beside it (`OpenGoal`, `CloseGoal`), which is
what attribution depends on.

### VendorScore

A row is a delivered order with its signals and, later, a tap; the tap writes
the row and then recomputes: read the rows, write score and band, append the
history, each of which may raise (`FailScore`). The score is `<<p, q>>`, the same
sums and weights as in the code, without its rounding. Three history variables
follow the request that read the rows last: `newest`, until it writes, `counted`,
the rows delivered when it read, and `stands`, that nothing was written after
what it wrote.

### PaymentRetry

A payer makes up to `MAX_RETRIES` attempts (create, poll) for an order; the
provider (external) keeps one payment per key. An answer may be lost after the
payment was made, a payer may die and be started again. `Key` is the hash of the
order; the wrong variant gives each attempt its own.

### MigrationRunner

A runner reads the ledger once, then takes each pending file in order: execute,
insert its name, commit; `schema` is what was committed. `GiveUp` rolls back
and ends the runner; another runner's row with the same name makes the insert
fail. `Die` loses the transaction.

### MCParts

These six parts have a few variables each and touch none in common. The initial
state of `PartsSpec` chooses the one that takes steps, so a run of all has the
sum and not the product of their states. All six are extended, so a property of
the run is the component's own definition, the one its theorem names.

## 3. The runs

| Run | Instance | States | What it shows |
| --- | --- | --- | --- |
| `lock` | 1 goal, 2 callers, errors and crashes, fair | 13 k | the lock excludes; a success leaves the mirror correct or expired; implements `GoalStateCas`; locks are freed, calls return |
| `pay_faults` | 2 goals, 2 clicks on one and 1 on the other, errors, crashes and payments that outlast the budget lock | 1.7 M | one payment per goal, by a paid goal's approver, for an option on offer; beyond the budget only what outlasted the lock; answers, orders, charges and ledger agree |
| `pay_live` | approve and reject of one goal, approve of another, crashes, not wired, fair | 56 k | every click is answered; the budget lock is always freed |
| `pay_contended` | 1 goal, 2 clicks, no fault at all | | **violates `OrderedMeansOrdered`** |
| `pay_stale_unwired` | 1 goal, 1 click, fair | | **violates `StaleGoesBack`** |
| `rfq` | a goal with 2 replies, a goal with an incomplete intent, providers may fail, the model may answer anything, fair | 52 k | one card, for the options the goal has, from enough quotes; no goal waits for ever |
| `rfq_faults` | an API goal, a chat goal without a Slack channel, 1 reply, all faults | 1.0 M | no goal waits for vendors nobody asked, under errors, crashes, worker restarts and misrouted replies |
| `rfq_stranded` | 1 goal, 1 reply, a handler may die, fair | | **violates `QuotedGoalMovesOn`** |
| `delivery` | 2 orders, a confirmation, a denial and a tap for one, the poll for both, one fault, fair | 236 k | implements `DeliveryPromise`; paid orders get into transit; deliveries are rated unless something failed |
| `chat` | 2 overlapping turns, 2 topics, 5 candidates, tools may raise | 1.9 M | RFQs are for the search they were confirmed from; a risky vendor is written to only on request |
| `chat_updates` | 1 turn, 2 polls, 2 goals that are ranked and decided on, a read may fail, a poll may hang, fair | 494 k | no quote is passed over; every quote is announced, and every ranking unless the goal moved on |
| `parts` | one of six parts at a time, see below | 292 k | an outage is shed, who has a good provider is served; a goal is decided once and by its own link; messages go where their content says; the newest reading leaves a score that misses no tap, and the score follows taps; migrations are a prefix; an order is settled once |

**Bounds.** Two callers are enough for every race on a lock, since its state is
one bit; the theorems cover any number. `pay_faults` has two clicks on one goal
(double payment) and a third elsewhere whose price fits the budget alone (2 and 3
out of 4) but not beside the other; a lease may end before any payment. `rfq` has
as many replies as `MIN_QUOTES_TO_RANK`, so either can be the one that completes
it, and both can rank at once; `rfq_faults` lowers the constant to 1 so that one
reply suffices. `delivery` has all presses on one order, where they can meet, and
a second order so that the worker has one to go on to when the first fails;
`MaxFaults` 1 allows a crash, a raising command or a key left behind anywhere.
`chat` has `TopN` 3 and five candidates: a duplicate of one place, one with too
few reviews, one without a phone, and two branches of one name of which one may be
found risky and not the other. Two messages of at most two rounds and two goals
are enough for a confirmation during another turn's search. Its two turns differ
in nothing but their names, which no definition compares in any other way than for
equality, so they are a symmetry set (there is no liveness in that run).
`chat_updates` needs one turn, two goals so that the list grows under a poll, two
polls that overlap, one quote per goal and one failing read; its goals go
`pending_rfq`, `quotes_received`, `pending_approval`, `approved`, where the last
stands for all that comes after, since the page tells only `pending_approval` from
the rest. (In `chat` no goal moves: its properties do not depend on it.)

In `parts` the router (113 k states) has three requests and a threshold of 2,
so two failures of one request, or one each of two, open a breaker (5 in the
code, which the theorems cover); the override makes one provider come twice in
a chain, and `MaxWaves` 1 lets every breaker cool down once between resets, so
half-open breakers and failed trials occur. The links (31 k) are one of each of
two goals, with two requests that may be repeated. Routing (9 k) is one request,
with any message of the three envelopes, and goals that open and close beside
it. The score (120 k) has three rows, one late and one dearer than quoted, two tappers
and `MinOrders` 2, so a vendor is unproven first. Three runners meet four files
(2 k), two payers two orders with the code's three attempts (17 k).

Nothing counts without bound: a click runs once, a reply comes once, `options`
grows at most once per stale approval, `age` stops at 2 (and only counts in the
two states whose age the worker asks for).

**Deadlock** is checked in `lock`, `rfq`, `rfq_faults`, `rfq_stranded` and
`delivery`, where callers come again or the worker never stops. The clicks of
`ApprovalPayment`, the messages of a chat and the requests of `MCParts` end.

**Fairness.** Weak fairness of a handler that is alive: the event loop resumes
it (`FairSpec` says nothing of faults, nor that anyone clicks, replies or
writes, and a crash ends a handler). Weak fairness of expiry: Redis deletes
keys whose TTL ended. Weak fairness of the job: APScheduler starts it again
every interval, `max_instances=1` (`worker/main.py:25-33`). Weak fairness of
polls as a whole: the page's timer sends the next whatever becomes of the last, so
one request may hang; a session whose page is closed is promised nothing.
No strong fairness anywhere: `TransitStarts` holds since every poll tries again
and no key stays for ever.

**In which runs a property is not claimed, and why.** In `QuoteCollection`
under `"error"`, a command that takes effect and raises lets the background
task escalate a goal out of `pending_rfq`, which the graph does not allow, or
send a card whose goal was moved meanwhile (`CardMatchesGoal`), and a task that
dies leaves its goal in `processing` (`NoSilentStall`): these are claimed for
working databases only. An exception inside the sweep skips the goals after it,
until the next sweep. `DeliveredIsRated` allows a rating to be missing after a fault.

## 4. Disagreements between the code and what it says

Each is a violation run; the quotations are under `findings`.

1. **"ordered" that is not** (`pay_contended`). `approve_goal` ignores the answer
   of its second and third transition. A losing click holds the goal's lock
   for an instant, and the winner's goal stays `approved` or `payment_queued`
   after payment. The payment is still unique.
2. **A stale approval is stuck** (`pay_stale_unwired`). No route passes the
   search agent and the notifier, so re-approval raises after the goal was
   moved to `approved`.
3. **A quote that nobody looks at** (`rfq_stranded`). A goal in `pending_rfq`
   with a quote is in neither half of the sweep.

Also seen in the models, without a run of their own:

- Goal lock: a mirror command that raises after the state was written leaves the
  old state in Redis for its 24 hours (nothing reads it to decide). With
  `SlowHolders` a holder that outlasts the 30 s lease writes
  over a state that has moved (`core/state_machine.py:6-7` says it cannot) and
  deletes the next holder's key.
- Budget: it is overspent when a payment outlasts the lock: the lease is 10 s, the
  HTTP call made under it may take 20 s (`core/budget_engine.py:8` says the lock
  prevents it). `pay_faults` reaches it; `LedgerWithinBudget` bounds the excess by
  what such payments debited.
- Approval: a payment whose answer is lost becomes `payment_failed` although it
  was charged. Refreshed options are judged by the time the old ones were sent,
  so every re-approval is stale at once; restarting the clock there would break
  `PaysCurrentOption`, since a click on the old card, chosen before the
  refresh, would then pay for a withdrawn option.
- Payment retries: a payment that is still "processing" is tried again without
  the sleep; the default escalation raises `NotImplementedError`; an answer
  without a body counts as "unknown". No handler calls `payment_with_retry` yet.
- Links: a link is burnt before the goal is compared and the approval tried, so a
  lost race, a refused payment or an exception (403, 404, 409, 500) leaves the
  approver without one. Two requests may both pass one link.
- Quotes: the claim to rank is the move to `pending_approval`, and after a
  failure of the models or of Slack nothing returns to the goal
  (`agents/orchestrator.py:296`). What the model ranks is stored and sent as it is
  (`agents/orchestrator.py:316-319`), and `tests/unit/test_llm_router.py:89-94` has the
  router accept an empty list, so a card may come with no button but "Reject all"
  (`services/slack_notifier.py:39-54`), or with fewer options than there are quotes. A
  quote stored between the worker's look and
  its transition is on a timed-out goal. A goal with an incomplete intent
  (`Unclear`) from `POST /goals` stays in `processing`. One failed RFQ of several
  escalates the goal although the others went out.
- Routing: a REF code that matches no active goal, because the reply is early or
  late, falls through to the sole active goal, whoever the vendor is
  (`core/waba_router.py:70`; `core/db.py:341` says "never mis-attribute"), and
  `get_active_rfq_goals` ignores the phone number it is given. Of several
  messages in one webhook only the first is handled. An opt-out is only logged.
  A tap on a template in a flat payload stays text. An exception in a handler
  answers 500, so the provider delivers again and the quote is stored twice.
- Chat: overlapping polls may repeat a quote, since the slower one puts the mark
  back; a poll whose answer is lost has still moved it. The first poll of a goal
  never reports a status, and a goal that is ranked and decided on between two
  polls, 6 s apart, is never announced as ranked (`api/routes/chat.py:681-692`,
  775). The vendor is looked up by substring, so an RFQ for one also goes,
  unasked, to a risky one whose name contains it, a branch of the same name
  included (`api/routes/chat.py:419-424`). `goal_text` is the session's first
  message, for all goals. A goal whose save raised stays in `processing`. A send
  that fails half-way is told as "not sent" though some vendors have it
  (`api/routes/chat.py:482-492`). A tool that raises, or two turns with tools at
  once, leaves tool calls without results, and every later call of the session is
  refused (`api/routes/chat.py:515` calls the history canonical). A restart
  forgets sessions, and with them what to announce.
- Delivery: `begin_transit` writes the order after it gave the goal's lock
  back, so a quick confirmation's `delivered` may become `in_transit` again
  (`core/delivery.py:62`), and then the second half of every poll looks at it. A
  confirmation that comes while the worker holds the goal's lock is dropped.
  Of two taps on one rating the second holds the goal's lock for an instant,
  the first one's `rated -> completed` is refused, and every later tap is
  refused at `delivered -> rated`: the goal stays `rated` (`core/rating.py:75-87`).
- Score: of two recomputations at once the one that read less may write last, and
  its score stays until the next tap, as it does after one that fails before its
  write. A delivery nobody rates changes no score. The job that
  would reconcile scores is a stub and not registered.
- Router: after a cooldown every concurrent request passes the half-open
  breaker, not "one trial" (`agents/llm_router.py:143`). Rate limits of gemini
  count as failures (line 337 against the comment on line 219). JSON that is no
  object, or has an odd confidence, raises out of `complete()` (line 240)
  instead of asking the next model.

## 5. The theorems

Every safety invariant and every action property that a passing run checks has a
theorem here; the theorem names the same definition, for every value of the
constants. Types are part of each inductive invariant.

`GoalStateLockProofs`, for any sets of goals, callers, states, edges, and any
faults, assuming `LockAssumption` (types) and, except for `TypeCorrect`,
`~SlowHolders`:

- `TypeCorrect`, `MutualExclusionThm`, `CheckedStateStandsThm`, `NoClobberThm`,
  `ReleasesOwnLockThm`, `SuccessIsMirroredThm`, and `Refinement`: `FairSpec`'s
  safety part implements `GoalStateCas`.
- Mutual exclusion is not inductive, because the key does not name its owner.
  The strengthening is `HeldKeyExists`: while somebody is in the try block, the
  key exists. Taking it then shows nobody is inside, and releasing one's own
  leaves nobody inside. `IInv` adds `CheckedStateStands`: the state compared is
  the state at the write, since only someone inside writes. The refinement also
  needs `WroteAgrees`: the value a call is about to return says whether it wrote.
- `MirrorInv`: between writing the state and the mirror the caller is inside, so
  the state it wrote still stands (`WrittenStands`), and the mirror it then
  writes is right.

`ApprovalPaymentProofs`, for any goals, clicks, prices, limit and faults,
assuming `PaymentAssumption`:

- `TypeCorrect`, `SinglePaymentThm`, `PaidGoalIsClosedThm`, `PayerIsApproverThm`,
  `PaysCurrentOptionThm`, `AnswersMatchMoneyThm` (who loses spends nothing, an
  "ordered" answer is paid, the total is the sum of the ledger), and
  `LedgerWithinBudgetThm`. None assumes anything of how long a payment takes.
- The core is `DriveInv`. A click *drives* its goal from the moment it wins
  `approved` until it gives the goal up; a driven goal is in one of the states
  after `pending_approval`, from which no click can win it; so a goal has one
  driver, and only drivers pay. That a driver may only let go by returning the
  goal to `pending_approval` *before* it created an order is what the proof
  turns on, and crashes and lost replies only ever stop a driver.
- `BudgetInv`: whoever is between check and debit and has not lost its lease holds
  the budget lock, so at most one such payer is there (`HoldsBudgetLock`), and the
  check it passed still stands (`CheckStands`): only payers without the lock debit
  beside it, and what they debit raises `Overdrawn`, the allowance, by as much as
  `spent`. The debit of a payer with the lock is covered by its check, that of one
  without by the allowance. That one row is added to a sum once takes `DebitsOnce` and
  `SumTheorems`. If no lease ends early, `Overdrawn` is 0 and the spend never
  exceeds the budget.
- `OptionInv`: options are only replaced on a goal whose clock ran out, and that
  clock is never reset, so a click that found it running has the only options
  there were.
- `AnswerInv`: what a click has charged and recorded follows from the step it is
  at, so its answer says it too. That the total is the sum of the ledger takes
  `SumTheorems`: a row is added once, by a click whose row is not there yet.

`QuoteCollectionProofs`, for any goals, replies, number of quotes to rank and
faults, assuming `QuoteAssumption`:

- `TypeCorrect`, `OneCardThm`, `PendingMeansAskedThm`, `RepliesRankEnoughThm`, and
  `CardMatchesGoalThm`, which also assumes `"error" \notin Faults`.
- `RankInv`: whoever ranks a goal has won its claim, and a goal that was claimed
  is not claimed again, so a goal has one ranker and one card. `AskedInv`: a goal
  the API made reaches `pending_rfq` only from the step after a successful
  dispatch. `FedInv`: stored quotes only grow, so those a ranker fetches include
  those it counted before its claim; whatever the model answers, the ranker stores
  it and sends the same, and nobody else stores options for that goal. `CalmInv`:
  without errors a task escalates only a goal it still finds in `processing`, so
  nobody takes a claimed goal from its ranker.

`DeliveryRatingProofs`, for any orders, presses and faults, assuming
`DeliveryAssumption`:

- `TypeCorrect`, and `Refinement`: the module implements `DeliveryPromise`.
- Exclusion by the goal's lock is not enough, since a raising command leaves
  the key to expire, and it is not needed: what the proof turns on is that a
  goal enters `delivered` once. `DeliverInv` says that of the actors on one
  order at most one is between winning `delivered` and creating the rating, and
  until then the goal is `delivered` and has no rating; `TapInv` that whoever
  taps has a rating to tap; `RatingInv` that an order has at most one rating,
  none before its goal is `delivered` and one after.

`LlmRouterProofs`, for any requests, chains and threshold, assuming
`RouterAssumption`:

- `TypeCorrect`, `OutageIsShedThm`, `SolidServesThm`.
- `ShedInv` counts: the failures of a provider, and the requests still waiting
  for it, stay within the bound. While its breaker is open no request joins
  them, so a failure moves one request from the waiting to the failed; a
  cooldown adds at most all requests once. It needs finite-set cardinalities.
- `SolidInv`: a solid provider's breaker has no failures, and a request whose
  chain has one is never past the first of them.

`SumTheorems`: the library defines a sum over a set by recursion on the set, and
its induction theorem has an operator parameter, which the provers cannot
instantiate. The lemmas are proved from a smallest counterexample instead: the
finite subsets for which a claim fails are a set, and a set of finite sets has a
member of least cardinality (`SmallestSet`). They say that the table of sums
exists, that taking one element out takes its value off (`SumWithout`), and what
bounds a sum.

`PartsProofs`, on components of `MCParts`, for any sizes:

- `DecidedOnceThm`, `DecidedByItsLinkThm`, assuming there is a goal
  (`Decided # {}`). That a link works once is not what makes a goal be decided
  once, and it is not true of the code; the compare-and-set is. `LinkInv` keeps
  that a request past `burn` has compared its link with its goal, and that a goal
  with a winner has its decision.
- `RoutedByContentThm`, assuming `RoutingAssumption`: only buttons and templates
  carry a tap. Normalisation keeps what a message says, with one exception
  (`NormalizedKeeps`: a template in a flat payload), and a goal that was open
  when the request came and is open at the end was open at each question to the
  store, since a closed goal stays closed.
- `LatestReadingStandsThm`, with no assumption on how recomputations overlap or which
  fail. Every tap is followed by a reading of its own, so while a tap is unread
  somebody is about to read (`ToRead`); once nobody is, the newest reading has every
  tap (`NewestIsWhole`), and so has what was written of it until something is
  written over it (`WrittenIsWhole`). Rows delivered since are not in `counted`.
- `TapsMoveScoreThm`. A tap changes one row's stars: satisfied puts in 5
  stars, the most, an issue 2, the least, so the average moves towards the tap
  (`TapMovesAverage`); the other signals do not depend on stars
  (`TapKeepsTheRest`), and the composite, compared by cross-multiplication, is
  monotone in the average (`TapMovesComposite`). The sums are over any finite set
  of delivered rows; that it is finite is an invariant (`FiniteThm`).
- `SettledOnceThm`. The key has no attempt in it (`OneKeyPerOrder`), the provider
  forgets no payment, and a payer is told "settled" only of a payment there is.
- `PrefixAppliedThm`, assuming `LastFile \in Nat`. The runners share no lock.
  `PassedIsApplied`: a file a runner does not wait for any more is in the ledger.
  `OneCommitter`: the file a runner is about to commit is not in the ledger, and
  nobody else is about to commit it. So what is committed is the first file
  missing.

`ChatSessionProofs`, for any turns, polls, plans, listings, assessments and
bounds, under the assumptions of `ChatSession` (bounds are numbers, a plan is a
sequence of tools, listings are finite lists with numbers in them) and of
`VendorRanking` (a known score is a number, `Within` is transitive):

- Lists first. For a strict order on finitely many positions, "how many come
  before me" is a bijection with the ranks (`RankBijects`, an injection between
  finite sets of one size), so `Listed` lists each position once and in order.
  Hence what a comprehension (`SelectedProperties`) and a stable sort by any weak
  order (`StableSort`) return, which is all that recursion would have given.
  Trust is such an order because fractions are (`FractionsAreOrdered`).
- `DiscoveredThm`: a search keeps at most `TopN` vendors, each place once, the
  most trusted first, and leaves out nobody more trusted than one it kept.
- `RfqMatchesSearchThm`, `HighRiskOnlyOnRequestThm`. The session's last search
  may be overwritten by another turn at any moment, so the invariant follows the
  data and not the search: `RfqInv` says that the last search, whosever it is, is
  consistent in itself (`DraftOk`: vendors of its requirement, the first of them
  risky only if all are, a recipient that was asked for or is adequate); that the
  targets of a confirmation fit first its own locals and, once it saved, its goal;
  and that every RFQ that went out fits its goal, whose origin never changes
  (`Kept`). `FirstIsLeastRisky` and `RecipientIsAdequate` get `DraftOk` from the
  sort by risk; `TargetsFit` goes through the four ways to pick.
- `NoQuoteSkippedThm`. What lies between the mark *as it is at the note* and what
  the poll read is reported in that step, so it does not matter that the mark
  moved, or went back, since the read.

**Only model-checked**: liveness, since fairness and ENABLED are beyond the
prover: `LockFreed`, `CallsReturn`, `BudgetFreed`, `ClicksReturn`,
`NotStuckWithQuotes`, `SilenceTimesOut`, `NoSilentStall`, `TransitStarts`,
`DeliveredIsRated`, `QuotesAnnounced`, `RankingAnnounced`. Of the refinements the
safety part is proved, which is all that the abstract specifications state. The
`~SlowHolders` of some theorems is not a convenience: without it the properties are
false (section 4). No run has a rejection beside errors: that a paid goal is not
rejected, whatever fails, is `PaidGoalIsClosedThm`; in `pay_live` one races an
approval, for liveness.

## 6. What is not modelled

- *Quote parser and option ranker* (`agents/`): a prompt, a call of the router and
  a record out of JSON. Their outcome, good or failed, is a step of
  `QuoteCollection`; what a language model says is not determined by the code, so a
  ranking is any set of options.
- *API application, envelope of answers, request schemas*: no state. The routes
  are modelled with the components they call.
- *Slack notifier*: formatting, HTTP and an HMAC; a card is one external step.
- *Google's places API, the hash behind a REF code, WhatsApp's sending*: HTTP and
  a digest. A REF code is its goal.
- *The SQL of the migrations*: data to the runner. `--status` only reads.
- *Scripts, prompts, configuration, the Supabase function*: demonstrations,
  texts and settings.
- *The store*: `SupabaseStore` and `InMemoryStore` have the same operations, each
  an atomic step of the module whose state it changes; plain reads and columns no
  decision depends on are left out, which is why the store is listed as partly
  modelled.
- *A composition of payment, quotes and delivery in one state space*: they meet
  only in a goal's state, whose every change is a compare-and-set. Each module
  starts from the state its predecessor leaves (`pending_approval`; an order
  that was paid), and the product of their states is beyond TLC.
