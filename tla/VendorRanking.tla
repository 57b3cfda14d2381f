--------------------------- MODULE VendorRanking ---------------------------
(***************************************************************************)
(* How vendors found for a requirement are ordered, and which of them an   *)
(* RFQ is for: PlacesAgent.search (agents/specialist/places_agent.py) and  *)
(* the pure parts of _find_vendors and _pick_targets (api/routes/chat.py). *)
(* Ratings are in tenths of a star; None is a number no score can be.      *)
(*                                                                         *)
(* A candidate is a record [name, place, phone, rating, reviews].  That    *)
(* one name occurs in another, which the code tests on cleaned, lower-case *)
(* names, is the relation Within.                                          *)
(***************************************************************************)
EXTENDS Integers, Sequences, FiniteSets

CONSTANTS
  NoPlace,    \* a candidate without google_place_id
  Known,      \* Known[p]: the composite score of a rated vendor at place p
  Within      \* Within: pairs <<a, b>> such that text a occurs in name b

ASSUME KnownAssumption == \A p \in DOMAIN Known : Known[p] \in Nat

\* What occurs in a text that occurs in a name occurs in the name.
ASSUME WithinAssumption ==
  \A p, q \in Within : p[2] = q[1] => <<p[1], q[2]>> \in Within

None == -1
RiskRank == [low |-> 0, medium |-> 1, unknown |-> 2, high |-> 3]
DefaultRisk == [level |-> "unknown", score |-> None]

\* The positions I in the order R, pairs <<i, j>> such that i comes before j:
\* before the k-th come k - 1 others.
Listed(I, R) ==
  [k \in 1..Cardinality(I) |->
     CHOOSE i \in I : Cardinality({j \in I : <<j, i>> \in R}) = k - 1]

\* list.sort: stable, by "comes before".
SortedBy(s, Before(_, _)) ==
  LET R == {p \in (DOMAIN s) \X (DOMAIN s) :
              \/ Before(s[p[1]], s[p[2]])
              \/ ~Before(s[p[2]], s[p[1]]) /\ p[1] < p[2]}
  IN  [k \in DOMAIN s |-> s[Listed(DOMAIN s, R)[k]]]

\* A list comprehension: the elements of s at the positions I, as they stand.
Selected(s, I) ==
  LET R == {p \in I \X I : p[1] < p[2]}
  IN  [k \in 1..Cardinality(I) |-> s[Listed(I, R)[k]]]

\* The first candidate of each place; those without a place are kept.
Deduped(cs) ==
  Selected(cs, {i \in DOMAIN cs :
                  cs[i].place = NoPlace
                    \/ \A j \in 1..(i - 1) : cs[j].place # cs[i].place})

\* The review-weighted rating as a fraction <<p, q>>: 20 reviews at 4.0 stars
\* are mixed in, unless the number of reviews is unknown.
Credibility(c) ==
  CASE c.rating = None -> <<0, 1>>
    [] c.rating # None /\ c.reviews = 0 -> <<c.rating, 1>>
    [] OTHER -> <<c.reviews * c.rating + 20 * 40, c.reviews + 20>>

Score(c) == IF c.place \in DOMAIN Known THEN Known[c.place] ELSE None

\* Rated vendors first, by score; then by credibility.
MoreTrusted(c, d) ==
  LET p == Credibility(c)  q == Credibility(d)
  IN  \/ Score(c) > Score(d)
      \/ Score(c) = Score(d) /\ p[1] * q[2] > q[1] * p[2]

\* PlacesAgent.search
Discovered(cs, limit) ==
  LET ranked == SortedBy(Deduped(cs), MoreTrusted)
  IN  SubSeq(ranked, 1, IF Len(ranked) < limit THEN Len(ranked) ELSE limit)

\* A level that is none of the four ranks as unknown.
RankOf(risk) == IF risk.level \in DOMAIN RiskRank THEN RiskRank[risk.level] ELSE 2

LessRisky(v, w) ==
  \/ RankOf(v.risk) < RankOf(w.risk)
  \/ RankOf(v.risk) = RankOf(w.risk) /\ v.risk.score > w.risk.score

\* _assess_risk: assessed[i] is what the reviews of the i-th vendor were judged
\* to say; whoever is missing stays unknown.
Assessed(vs, assessed) ==
  [i \in DOMAIN vs |->
     [name |-> vs[i].name, place |-> vs[i].place, phone |-> vs[i].phone,
      rating |-> vs[i].rating, reviews |-> vs[i].reviews,
      risk |-> IF i \in DOMAIN assessed THEN assessed[i] ELSE DefaultRisk]]

\* ... and the sort after it.
Vetted(vs, assessed) == SortedBy(Assessed(vs, assessed), LessRisky)

Reachable(vs) == Selected(vs, {i \in DOMAIN vs : vs[i].phone})
Named(vs, text) == Selected(vs, {i \in DOMAIN vs : <<text, vs[i].name>> \in Within})
NonHigh(vs) == Selected(vs, {i \in DOMAIN vs : vs[i].risk.level # "high"})

\* Wrong variant: the best rated vendor, whatever its risk.
RecipientAnyRisk(vs, recommended) ==
  IF Named(vs, recommended) # <<>> THEN Named(vs, recommended)[1] ELSE
  SortedBy(vs, MoreTrusted)[1]

\* The vendor an RFQ is addressed to: the recommended one, else the first one
\* that is not high-risk, else the first one.
Recipient(vs, recommended) ==
  CASE Named(vs, recommended) # <<>> -> Named(vs, recommended)[1]
    [] Named(vs, recommended) = <<>> /\ NonHigh(vs) # <<>> -> NonHigh(vs)[1]
    [] OTHER -> vs[1]

\* _pick_targets: everybody reachable, those the user named, or the recipient.
PickTargets(vs, recipient, pick) ==
  CASE pick = "all" -> vs
    [] pick # "all" /\ Named(vs, pick) # <<>> -> Named(vs, pick)
    [] pick # "all" /\ Named(vs, pick) = <<>> /\ Named(vs, recipient) # <<>>
         -> Named(vs, recipient)
    [] OTHER -> IF vs = <<>> THEN <<>> ELSE <<vs[1]>>
============================================================================
