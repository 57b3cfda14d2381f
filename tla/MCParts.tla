------------------------------ MODULE MCParts ------------------------------
(***************************************************************************)
(* The components whose state fits in a few variables, in one run: the     *)
(* initial state chooses the one that takes steps, so that the number of   *)
(* states is the sum and not the product of theirs.                        *)
(***************************************************************************)
EXTENDS LlmRouter, LlmRouting, ApprovalLinks, InboundRouting, VendorScore,
        PaymentRetry, MigrationRunner

CONSTANTS r1, r2, r3, l1, l2, c1, c2, g1, g2, o1, o2, o3, t1, t2, p1, p2,
          h1, none

VARIABLE part

----------------------------------------------------------------------------
(* LlmRouter: an intent, a quote and a text for vendors; intents are parsed *)
(* by a fallback model first. *)

IntentByHaiku == [t \in Tasks |-> IF t = "intent_parsing" THEN Haiku ELSE NoModel]
Mixed == [r \in Requests |->
            CASE r = r1 -> ResolvedChain("intent_parsing")
              [] r = r2 -> ResolvedChain("quote_parsing")
              [] r = r3 -> ResolvedChain("rfq_generation")]

----------------------------------------------------------------------------
(* ApprovalLinks: a link of each goal, and requests of all kinds. *)

Owners == [l \in {l1, l2} |-> IF l = l1 THEN g1 ELSE g2]

----------------------------------------------------------------------------
(* InboundRouting: texts with and without a code, opt-outs, taps, receipts. *)

Signed == [mitra : {"none", "good", "bad"}, meta : {"none", "good"}]
Says(kind, taps, refs) ==
  [envelope : {"meta", "mitra", "flat"}, kind : {kind}, tap : taps, ref : refs,
   stop : {FALSE}, signed : Signed]
Messages ==
  Says("text", {"none"}, {none, g1, g2})
    \cup {[m EXCEPT !.stop = TRUE] : m \in Says("text", {"none"}, {none})}
    \cup Says("interactive", {"rating", "delivered", "denied", "other"}, {none})
    \cup Says("template", {"rating", "other"}, {none})
    \cup {m \in Says("receipt", {"none"}, {none}) : m.envelope # "flat"}

----------------------------------------------------------------------------
(* VendorScore: three orders, one late, one dearer than quoted. *)

RowSignals == [r \in {o1, o2, o3} |->
  [onTime |-> r # o1, priceKept |-> r # o2, repeat |-> r = o3,
   minutes |-> CASE r = o1 -> 20 [] r = o2 -> 90 [] r = o3 -> -1]]

----------------------------------------------------------------------------
(* One component moves, the others stand still. *)

PartsInit ==
  /\ part \in {"router", "links", "inbound", "score", "migrations", "retries"}
  /\ Init /\ LinkInit /\ RoutingInit /\ ScoreInit
  /\ MigrationInit /\ RetryInit

PartsNext ==
  \/ /\ part = "router" /\ Next
     /\ UNCHANGED <<part, linkVars, routingVars, scoreVars, migrationVars, retryVars>>
  \/ /\ part = "links" /\ LinkNext
     /\ UNCHANGED <<part, vars, routingVars, scoreVars, migrationVars, retryVars>>
  \/ /\ part = "inbound" /\ RoutingNext
     /\ UNCHANGED <<part, vars, linkVars, scoreVars, migrationVars, retryVars>>
  \/ /\ part = "score" /\ ScoreNext
     /\ UNCHANGED <<part, vars, linkVars, routingVars, migrationVars, retryVars>>
  \/ /\ part = "migrations" /\ MigrationNext
     /\ UNCHANGED <<part, vars, linkVars, routingVars, scoreVars, retryVars>>
  \/ /\ part = "retries" /\ RetryNext
     /\ UNCHANGED <<part, vars, linkVars, routingVars, scoreVars, migrationVars>>

PartsSpec ==
  PartsInit /\ [][PartsNext]_<<part, vars, linkVars, routingVars, scoreVars,
                               migrationVars, retryVars>>
============================================================================
