--------------------------- MODULE MCChatSession ---------------------------
(* Instances of ChatSession for TLC.                                       *)
EXTENDS ChatSession

CONSTANTS t1, t2, p1, p2, snacks, water, A, B, C, pA, pB

\* A is well rated but known to deliver badly, and has a branch of which less
\* is known; B has few reviews, C has no phone.
Vendor(n, p, phone, rating, reviews) ==
  [name |-> n, place |-> p, phone |-> phone, rating |-> rating, reviews |-> reviews]
Good == Vendor(A, pA, TRUE, 48, 600)
Twin == Vendor(A, pA, TRUE, 47, 10)
Branch == Vendor(A, NoPlace, TRUE, 47, 10)
Small == Vendor(B, pB, TRUE, 50, 4)
Mute == Vendor(C, NoPlace, FALSE, None, 0)

Searches == {[topic |-> snacks, specific |-> TRUE],
             [topic |-> water, specific |-> TRUE],
             [topic |-> water, specific |-> FALSE]}
Results == [x \in {snacks, water} |->
              IF x = snacks THEN {<<Mute, Small, Twin, Good>>}
              ELSE {<<Good, Mute, Branch>>, <<Mute>>}]
Risky == {(1 :> [level |-> "high", score |-> 20]) @@ (2 :> [level |-> "medium", score |-> 55])}
Names == {<<A, A>>, <<B, B>>, <<C, C>>}
Rated == pA :> 80
ToolPlans == {<<"find", "confirm">>, <<"confirm">>}
PollPlans == {<<"find", "confirm", "other", "confirm">>}
OneSearch == {[topic |-> snacks, specific |-> TRUE]}
OneResult == [x \in {snacks} |-> {<<Good>>}]

\* A goal gets quotes, is ranked and is decided on; "approved" stands for all
\* that comes after.
Ranked == {<<"pending_rfq", "quotes_received">>, <<"quotes_received", "pending_approval">>,
           <<"pending_approval", "approved">>}

\* Turns differ in nothing but their names.
AnyTurn == Permutations(Turns)
============================================================================
