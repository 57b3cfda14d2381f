---------------------------- MODULE PaymentRetry ----------------------------
(***************************************************************************)
(* Paying for an order with repetitions (services/payment.py) through the  *)
(* client of services/razorpay.py. The provider, which is external, keeps  *)
(* one payment per key and answers a second creation with "duplicate"; an  *)
(* answer may be lost after the payment was made. Callers may die and be   *)
(* started again for the same order.                                       *)
(***************************************************************************)
EXTENDS Naturals, FiniteSets

CONSTANTS Payers, Orders

MaxRetries == 3

VARIABLES
  issued,     \* the provider's payment of each key
  payer       \* of each caller: [at, order, attempt, result]

retryVars == <<issued, payer>>

Keys == Orders \X (0..MaxRetries)

RetryInit ==
  /\ issued = [k \in Keys |-> "none"]
  /\ payer = [p \in Payers |-> [at |-> "out", order |-> CHOOSE o \in Orders : TRUE,
                                attempt |-> 0, result |-> "none"]]

\* Wrong variant: every attempt has a key of its own.
FreshKey(p) == <<payer[p].order, payer[p].attempt>>

\* sha256("payment:<order>"), cut to 40 digits: one key per order.
Key(p) == <<payer[p].order, 0>>

Return(p, result) ==
  payer' = [payer EXCEPT ![p].at = "out", ![p].result = result]

Again(p) == payer' = [payer EXCEPT ![p].at = "create", ![p].attempt = @ + 1]

\* The attempt raised: 10 minutes of sleep, or the end.
Failed(p) ==
  IF payer[p].attempt = MaxRetries
  THEN payer' = [payer EXCEPT ![p].at = "escalate"]
  ELSE Again(p)

Begin(p) ==
  /\ payer[p].at = "out"
  /\ \E o \in Orders :
       payer' = [payer EXCEPT ![p] =
                   [at |-> "create", order |-> o, attempt |-> 1, result |-> "none"]]
  /\ UNCHANGED issued

\* A new key: the payment is made, and the answer is "settled", another
\* status, which is tried again at once, or is lost.
Create(p) ==
  /\ payer[p].at = "create" /\ issued[Key(p)] = "none"
  /\ issued' = [issued EXCEPT ![Key(p)] = "created"]
  /\ \/ Return(p, "settled")
     \/ payer[p].attempt < MaxRetries /\ Again(p)
     \/ payer[p].attempt = MaxRetries /\ Return(p, "processing")
     \/ Failed(p)

\* A known key is looked up.
Duplicate(p) ==
  /\ payer[p].at = "create" /\ issued[Key(p)] # "none"
  /\ payer' = [payer EXCEPT ![p].at = "fetch"]
  /\ UNCHANGED issued

\* The link that exists is an instruction already given; a cancelled one, or an
\* answer without links, is for a human and never tried again.
Fetch(p) ==
  /\ payer[p].at = "fetch"
  /\ \/ issued[Key(p)] \in {"created", "paid"} /\ Return(p, "settled")
     \/ Return(p, "duplicate")
  /\ UNCHANGED issued

\* Refused, or no answer.
ProviderFails(p) ==
  /\ payer[p].at \in {"create", "fetch"} /\ Failed(p)
  /\ UNCHANGED issued

\* The operator is told, and the last error raised.
Escalate(p) ==
  /\ payer[p].at = "escalate" /\ Return(p, "error")
  /\ UNCHANGED issued

PayerDies(p) ==
  /\ payer[p].at # "out" /\ Return(p, "none")
  /\ UNCHANGED issued

\* The vendor's side of a payment link.
LinkMoves(k) ==
  /\ issued[k] = "created"
  /\ \E s \in {"paid", "cancelled"} : issued' = [issued EXCEPT ![k] = s]
  /\ UNCHANGED payer

RetryNext ==
  \/ \E p \in Payers :
       \/ Begin(p) \/ Create(p) \/ Duplicate(p) \/ Fetch(p) \/ ProviderFails(p)
       \/ Escalate(p) \/ PayerDies(p)
  \/ \E k \in Keys : LinkMoves(k)

RetrySpec == RetryInit /\ [][RetryNext]_retryVars

----------------------------------------------------------------------------
(* Properties *)

\* "a network-timeout retry can never charge a vendor twice": one payment per
\* order whatever is lost, retried or restarted, and whoever was told
\* "settled" has one (services/payment.py:3-7).
SettledOnce ==
  /\ \A o \in Orders : Cardinality({k \in Keys : k[1] = o /\ issued[k] # "none"}) <= 1
  /\ \A p \in Payers :
       payer[p].result = "settled" => issued[<<payer[p].order, 0>>] # "none"
============================================================================
