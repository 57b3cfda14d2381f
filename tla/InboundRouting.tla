--------------------------- MODULE InboundRouting ---------------------------
(***************************************************************************)
(* A WhatsApp message on its way to a handler: the webhook's checks        *)
(* (api/routes/webhooks.py), the envelopes of the providers brought to one *)
(* shape (services/whatsapp.py) and the cascade by content                 *)
(* (core/waba_router.py), which asks the store twice while goals open and  *)
(* close. The handlers are the modules DeliveryRating and QuoteCollection. *)
(*                                                                         *)
(* A message: [envelope, kind, tap, ref, stop, signed]; tap is what the id *)
(* of its button asks for, ref the goal of the REF code in its text.       *)
(***************************************************************************)
EXTENDS Naturals, FiniteSets

CONSTANTS
  Hooks,       \* webhook requests
  Goals,       \* goals, and NoGoal for a text without code
  NoGoal,
  Said         \* messages

Taps == {"rating", "delivered", "denied"}

\* Only a button has an id.
ASSUME RoutingAssumption ==
  /\ NoGoal \notin Goals
  /\ \A m \in Said :
       /\ m.envelope \in {"meta", "mitra", "flat"}
       /\ m.tap \in Taps => m.kind \in {"interactive", "template"}

VARIABLES
  goal,        \* of each goal: "new", "active" (waits for quotes) or "closed"
  hook         \* of each request: [at, message, open, handler, about]

routingVars == <<goal, hook>>

RoutingInit ==
  /\ goal = [g \in Goals |-> "new"]
  /\ hook = [h \in Hooks |-> [at |-> "out", message |-> CHOOSE m \in Said : TRUE,
                              open |-> {}, handler |-> "none", about |-> NoGoal]]

Active == {g \in Goals : goal[g] = "active"}

----------------------------------------------------------------------------
(* verify_inbound_signature and normalize_inbound *)

\* One header decides, Chat Mitra's before Meta's; none, or no secret, fails.
Verified(m) ==
  IF m.signed.mitra # "none" THEN m.signed.mitra = "good" ELSE m.signed.meta = "good"

Nothing == [from |-> FALSE, interactive |-> FALSE, tap |-> "none",
            ref |-> NoGoal, stop |-> FALSE]
Event(m, isTap) ==
  [from |-> TRUE, interactive |-> isTap, tap |-> IF isTap THEN m.tap ELSE "none",
   ref |-> m.ref, stop |-> m.stop]

\* Meta's messages: a tap on a template arrives as "button".
FromMeta(m) ==
  IF m.kind = "receipt" THEN Nothing ELSE Event(m, m.kind \in {"interactive", "template"})

\* Wrong variant: only what is called interactive is a tap.
FromMitraNoTemplate(m) ==
  IF m.kind = "receipt" THEN Nothing ELSE Event(m, m.kind = "interactive")

\* Chat Mitra's event "message.received".
FromMitra(m) ==
  IF m.kind = "receipt" THEN Nothing ELSE Event(m, m.kind \in {"interactive", "template"})

\* A flat payload is passed on as it is: its template taps stay text.
Normalized(m) ==
  CASE m.envelope = "meta" -> FromMeta(m)
    [] m.envelope = "mitra" -> FromMitra(m)
    [] m.envelope = "flat" -> Event(m, m.kind = "interactive")

----------------------------------------------------------------------------
(* The webhook and the cascade *)

Handle(h, handler, g) ==
  hook' = [hook EXCEPT ![h].at = "done", ![h].handler = handler, ![h].about = g]

Receive(h) ==
  /\ hook[h].at = "out"
  /\ \E m \in Said :
       LET e == Normalized(m)
           Seen(label, handler) ==
             hook' = [hook EXCEPT ![h] = [at |-> label, message |-> m, open |-> Active,
                                          handler |-> handler, about |-> NoGoal]]
       IN  \/ ~Verified(m) /\ Seen("done", "unauthorized")
           \/ Verified(m) /\ ~e.from /\ Seen("done", "ignored")
           \/ Verified(m) /\ e.from /\ e.tap \in Taps /\ Seen("done", e.tap)
           \/ Verified(m) /\ e.from /\ e.tap \notin Taps /\ Seen("ref", "none")
  /\ UNCHANGED goal

\* P2, the REF code of a goal that waits for quotes; P3, the opt-out.
LookUpRef(h) ==
  LET e == Normalized(hook[h].message) IN
  /\ hook[h].at = "ref"
  /\ \/ e.ref \in Active /\ Handle(h, "quote", e.ref)
     \/ e.ref \notin Active /\ e.stop /\ Handle(h, "optout", NoGoal)
     \/ e.ref \notin Active /\ ~e.stop /\ hook' = [hook EXCEPT ![h].at = "sole"]
  /\ UNCHANGED goal

\* P4, the only goal that waits for quotes, of whichever vendor; or the operator.
LookUpSole(h) ==
  /\ hook[h].at = "sole"
  /\ \/ Cardinality(Active) = 1 /\ \E g \in Active : Handle(h, "quote", g)
     \/ Cardinality(Active) # 1 /\ Handle(h, "operator", NoGoal)
  /\ UNCHANGED goal

\* The store raises, the provider sends the message again.
LookUpFails(h) ==
  /\ hook[h].at \in {"ref", "sole"}
  /\ hook' = [hook EXCEPT ![h].at = "ref", ![h].open = Active]
  /\ UNCHANGED goal

OpenGoal(g) ==
  /\ goal[g] = "new" /\ goal' = [goal EXCEPT ![g] = "active"]
  /\ UNCHANGED hook

CloseGoal(g) ==
  /\ goal[g] = "active" /\ goal' = [goal EXCEPT ![g] = "closed"]
  /\ UNCHANGED hook

RoutingNext ==
  \/ \E h \in Hooks : Receive(h) \/ LookUpRef(h) \/ LookUpSole(h) \/ LookUpFails(h)
  \/ \E g \in Goals : OpenGoal(g) \/ CloseGoal(g)

RoutingSpec == RoutingInit /\ [][RoutingNext]_routingVars

----------------------------------------------------------------------------
(* Properties *)

\* What a verified message says decides its handler, in whichever envelope it
\* came and whatever goals open and close meanwhile: a tap is a tap, a word of
\* refusal is no quote, and a reply with the code of a goal that waits for
\* quotes throughout is that goal's (core/waba_router.py:3-6; the taps on a
\* template in a flat payload are the exception).
RoutedByContent ==
  \A h \in Hooks :
    LET m == hook[h].message IN
    hook[h].at = "done" /\ hook[h].handler \notin {"unauthorized", "ignored"} =>
      /\ m.tap \in Taps /\ ~(m.envelope = "flat" /\ m.kind = "template")
           => hook[h].handler = m.tap
      /\ m.tap \notin Taps /\ m.stop /\ m.ref = NoGoal => hook[h].handler = "optout"
      /\ m.tap \notin Taps /\ m.ref \in hook[h].open \cap Active
           => hook[h].handler = "quote" /\ hook[h].about = m.ref
============================================================================
