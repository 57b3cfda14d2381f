----------------------- MODULE QuoteCollectionProofs -----------------------
(***************************************************************************)
(* Proofs about QuoteCollection, for any goals, replies, number of quotes  *)
(* to rank and faults: types; one card per goal; a card shows the options  *)
(* its goal has; a reply ranks enough quotes; a goal that waits asked      *)
(* somebody.                                                               *)
(***************************************************************************)
EXTENDS QuoteCollection, FiniteSetTheorems, TLAPS

USE QuoteAssumption DEF QuoteAssumption

----------------------------------------------------------------------------
(* Control *)

\* The labels an actor of each kind may be at.
Role(a) ==
  IF a \in Chat THEN {"to_pending", "upsert", "dispatch", "done"}
  ELSE IF a \in Goals
    THEN TaskLabels \cup {"escalate", "no_vendors", "to_pending", "done"}
  ELSE IF a \in Replies
    THEN ReplyLabels \cup Ranking \cup {"receive", "claim", "done"}
  ELSE WorkerLabels \cup Ranking \cup {"claim", "time_out"}

Roles ==
  /\ \A a \in Actors : pc[a] \in Role(a)
  /\ \A g \in Goals : at[g] = g

\* Types and roles together are inductive.
Typed == TypeOK /\ Roles

\* A step that only moves the program counter of a.
Walk(a) ==
  \/ a \in Goals /\ (CheckIntake(a) \/ Search(a) \/ UpsertVendors(a))
  \/ a \in Replies /\ (Route(a) \/ ParseQuote(a) \/ LookAtGoal(a) \/ LookAgain(a))
  \/ Error(a)

\* Every role is made of labels.
LEMMA RoleLabels == \A a \in Actors : Role(a) \subseteq Labels
  BY DEF Role, Labels, Sites, TaskLabels, ReplyLabels, Ranking, WorkerLabels

\* Where an actor goes after a transition: it ranks only what it won.
LEMMA AfterGoes ==
  ASSUME Typed, NEW a \in Actors, NEW moved \in BOOLEAN, After(a, moved)
  PROVE  \E l \in Role(a) :
           /\ pc' = [pc EXCEPT ![a] = l]
           /\ l \in {"done", "upsert", "look_again", "fetch", "stuck", "silent"}
           /\ l = "fetch" => pc[a] = "claim" /\ moved
           /\ l = "upsert" => a \in Chat
           /\ l = "look_again" => pc[a] = "receive"
<1>0. pc[a] \in Role(a) /\ a \in Goals \cup Replies \cup {Worker}
  BY DEF Typed, Roles, Actors
<1>c. pc[a] = "claim" =>
        \/ Goto(a, "fetch") /\ moved
        \/ Goto(a, "stuck") /\ a = Worker
        \/ Goto(a, "done") /\ a # Worker
  <2>1. CASE pc[a] = "claim"
    <3>1. AfterClaim(a, moved)
      BY <2>1 DEF After
    <3>2. CASE moved
      BY <3>1, <3>2, Zenon DEF AfterClaim
    <3>3. CASE ~moved
      BY <3>1, <3>3, Zenon DEF AfterClaim, Resume
    <3> QED
      BY <3>2, <3>3, Zenon
  <2> QED
    BY <2>1
<1> USE DEF Goto, Role
<1>1. CASE pc[a] \in {"escalate", "no_vendors"}
  BY <1>0, <1>1 DEF After, ReplyLabels, WorkerLabels, Ranking, TaskLabels
<1>2. CASE pc[a] = "to_pending"
  BY <1>0, <1>2 DEF After, ReplyLabels, WorkerLabels, Ranking
<1>3. CASE pc[a] = "receive"
  BY <1>0, <1>3 DEF After, ReplyLabels, WorkerLabels, Ranking, TaskLabels
<1>4. CASE pc[a] = "claim"
  <2>1. a \notin Goals
    BY <1>0, <1>4 DEF TaskLabels
  <2> QED
    BY <1>0, <1>4, <1>c, <2>1 DEF WorkerLabels, Ranking
<1>5. CASE pc[a] = "time_out"
  BY <1>0, <1>5 DEF After, ReplyLabels, WorkerLabels, Ranking, TaskLabels
<1> QED
  BY <1>1, <1>2, <1>3, <1>4, <1>5 DEF After

\* After an exception a task escalates, the chat reports, others end.
LEMMA RaiseGoes ==
  ASSUME Typed, NEW a \in Actors, Raise(a)
  PROVE  \E l \in Role(a) :
           /\ pc' = [pc EXCEPT ![a] = l]
           /\ l \in {"done", "sleep", "escalate_read", "dispatch"}
           /\ l = "escalate_read" => a \in Goals \ Chat
           /\ l = "dispatch" => a \in Chat
<1>0. pc[a] \in Role(a) /\ a \in Goals \cup Replies \cup {Worker} /\ Chat \subseteq Goals
  BY DEF Typed, Roles, Actors
<1>1. CASE a = Worker
  BY <1>0, <1>1 DEF Raise, Goto, Role, WorkerLabels
<1>2. CASE a \in Goals \ Chat
  <2>1. Goto(a, "escalate_read") \/ Goto(a, "done")
    BY <1>0, <1>2 DEF Raise
  <2> QED
    BY <1>2, <2>1 DEF Goto, Role, TaskLabels
<1>3. CASE a \in Chat
  <2>1. Goto(a, "dispatch") \/ Goto(a, "done")
    BY <1>0, <1>3 DEF Raise
  <2> QED
    BY <1>3, <2>1 DEF Goto, Role
<1>4. CASE a \in Replies
  <2>1. Goto(a, "done")
    BY <1>0, <1>4 DEF Raise
  <2> QED
    BY <1>0, <1>4, <2>1 DEF Goto, Role
<1> QED
  BY <1>0, <1>1, <1>2, <1>3, <1>4

\* Where a walking actor goes.
LEMMA WalkGoes ==
  ASSUME Typed, NEW a \in Actors, Walk(a)
  PROVE  /\ UNCHANGED <<goalVars, outside, tx, at, current, count, ranked, todo>>
         /\ tx[a] = "lock"
         /\ \E l \in Role(a) :
              /\ pc' = [pc EXCEPT ![a] = l]
              /\ l \notin {"start", "to_pending", "escalate"} \cup Ranking
              /\ l \in {"receive", "claim"} =>
                   a \in Replies /\ pc[a] \in {"look", "look_again"}
              /\ l \notin {"look", "look_again"}
              /\ l = "claim" => count[a] >= MinQuotes
              /\ l \in {"search", "upsert", "no_vendors", "dispatch"} =>
                   a \in Chat \/ pc[a] \in {"start", "search", "upsert"}
              /\ l = "escalate_read" => pc[a] = "search" \/ "error" \in Faults
<1>0. UNCHANGED <<goalVars, outside, tx, at, current, count, ranked, todo>>
      /\ tx[a] = "lock"
  BY DEF Walk, CheckIntake, Search, UpsertVendors, Route, ParseQuote, LookAtGoal,
         LookAgain, Error, Jump, At
<1> DEFINE Goes ==
      \E l \in Role(a) :
         /\ pc' = [pc EXCEPT ![a] = l]
         /\ l \notin {"start", "to_pending", "escalate"} \cup Ranking
         /\ l \in {"receive", "claim"} =>
              a \in Replies /\ pc[a] \in {"look", "look_again"}
         /\ l \notin {"look", "look_again"}
         /\ l = "claim" => count[a] >= MinQuotes
         /\ l \in {"search", "upsert", "no_vendors", "dispatch"} =>
              a \in Chat \/ pc[a] \in {"start", "search", "upsert"}
         /\ l = "escalate_read" => pc[a] = "search" \/ "error" \in Faults
<1> SUFFICES Goes
  BY <1>0
<1>r. pc[a] \in Role(a) /\ a \in Goals \cup Replies \cup {Worker} /\ Chat \subseteq Goals
  BY DEF Typed, Roles, Actors
<1>1. ASSUME Raise(a), pc[a] = "search" \/ "error" \in Faults
      PROVE  \E l \in Role(a) :
              /\ pc' = [pc EXCEPT ![a] = l]
              /\ l \in {"done", "sleep", "escalate_read", "dispatch"}
              /\ l = "dispatch" => a \in Chat
              /\ l = "escalate_read" => pc[a] = "search" \/ "error" \in Faults
  <2>1. PICK l \in Role(a) :
          /\ pc' = [pc EXCEPT ![a] = l]
          /\ l \in {"done", "sleep", "escalate_read", "dispatch"}
          /\ l = "escalate_read" => a \in Goals \ Chat
          /\ l = "dispatch" => a \in Chat
    BY <1>1, RaiseGoes
  <2> QED
    BY <1>1, <2>1
<1>2. CASE Raise(a) /\ (pc[a] = "search" \/ "error" \in Faults)
  BY <1>0, <1>1, <1>2 DEF Ranking
<1>3. CASE a \in Goals /\ (CheckIntake(a) \/ UpsertVendors(a)
                           \/ (Search(a) /\ (Goto(a, "upsert") \/ Goto(a, "no_vendors"))))
  <2>1. CASE a \in Chat
    BY <1>0, <1>r, <1>3, <2>1 DEF CheckIntake, UpsertVendors, Search, Goto, At, Role, Ranking,
                            TaskLabels
  <2>2. CASE a \notin Chat
    BY <1>0, <1>r, <1>3, <2>2 DEF CheckIntake, UpsertVendors, Search, Goto, At, Role, Ranking,
                            TaskLabels
  <2> QED
    BY <2>1, <2>2
<1>4. CASE a \in Replies /\ (Route(a) \/ ParseQuote(a))
  BY <1>0, <1>r, <1>4 DEF Route, ParseQuote, Goto, Role, Ranking, ReplyLabels
<1>5. CASE a \in Replies /\ (LookAtGoal(a) \/ LookAgain(a))
  BY <1>0, <1>r, <1>5 DEF LookAtGoal, LookAgain, At, RankOrEnd, EnoughQuotes, Goto, Role,
                    Ranking, ReplyLabels
<1>7. Search(a) /\ Raise(a) => pc[a] = "search"
  BY DEF Search, At
<1>9. Error(a) => Raise(a) /\ "error" \in Faults
  BY DEF Error
<1>10. Search(a) => Goto(a, "upsert") \/ Goto(a, "no_vendors") \/ Raise(a)
  BY DEF Search
<1>11. \/ Raise(a) /\ (pc[a] = "search" \/ "error" \in Faults)
       \/ a \in Goals /\ (CheckIntake(a) \/ UpsertVendors(a)
                           \/ (Search(a) /\ (Goto(a, "upsert") \/ Goto(a, "no_vendors"))))
       \/ a \in Replies /\ (Route(a) \/ ParseQuote(a))
       \/ a \in Replies /\ (LookAtGoal(a) \/ LookAgain(a))
  BY <1>7, <1>9, <1>10 DEF Walk
<1> HIDE DEF Goes
<1> QED
  BY <1>2, <1>3, <1>4, <1>5, <1>11

----------------------------------------------------------------------------
(* Types and roles *)

\* The initial states are well typed, and everybody is in its role.
LEMMA TypedInit == Init => Typed
<1> SUFFICES ASSUME Init PROVE Typed
  OBVIOUS
<1>0. Chat \subseteq Goals /\ Goals # {} /\ (CHOOSE g \in Goals : TRUE) \in Goals
  OBVIOUS
<1>1. \A a \in Actors : pc[a] \in Role(a)
  <2> SUFFICES ASSUME NEW a \in Actors PROVE pc[a] \in Role(a)
    OBVIOUS
  <2>1. CASE a \in Chat
    BY <2>1 DEF Init, Role
  <2>2. CASE a \in Goals \ Chat
    BY <2>2 DEF Init, Role, TaskLabels
  <2>3. CASE a \in Replies
    BY <1>0, <2>3 DEF Init, Role, ReplyLabels
  <2>4. CASE a = Worker
    BY <1>0, <2>4 DEF Init, Role, WorkerLabels
  <2> QED
    BY <2>1, <2>2, <2>3, <2>4 DEF Actors
<1>2. pc \in [Actors -> Labels]
  <2> DEFINE F(a) == CASE a \in Chat -> "to_pending"
                       [] a \in Goals \ Chat -> "start"
                       [] a \in Replies -> "unsent"
                       [] a = Worker -> "sleep"
  <2>1. pc = [a \in Actors |-> F(a)]
    BY DEF Init
  <2> HIDE DEF F
  <2>2. \A a \in Actors : F(a) \in Labels
    BY <1>1, <2>1, RoleLabels
  <2> QED
    BY <2>1, <2>2
<1>3. at \in [Actors -> Goals] /\ \A g \in Goals : at[g] = g
  BY <1>0 DEF Init, Actors
<1>4. status \in [Goals -> GoalState] /\ current \in [Goals -> GoalState]
  BY DEF Init, GoalState
<1>5. /\ age \in [Goals -> 0..2] /\ cards \in [Goals -> Nat]
      /\ count \in [Replies -> Nat] /\ todo \subseteq Goals
  BY DEF Init
<1>6. /\ quotes \in [Goals -> SUBSET Replies] /\ options \in [Goals -> SUBSET Replies]
      /\ stamped \in [Goals -> BOOLEAN] /\ stateLock \in [Goals -> BOOLEAN]
      /\ asked \in [Goals -> BOOLEAN] /\ shown \in [Goals -> SUBSET Replies]
  BY DEF Init
<1>7. /\ tx \in [Actors -> {"lock", "cas", "won", "lost"}]
      /\ ranked \in [Actors -> SUBSET Replies]
  BY DEF Init
<1> QED
  BY <1>1, <1>2, <1>3, <1>4, <1>5, <1>6, <1>7 DEF Typed, TypeOK, Roles

\* Moving one program counter within the role of its actor keeps the roles.
LEMMA MoveInRole ==
  ASSUME Typed, NEW a \in Actors, NEW l \in Role(a), pc' = [pc EXCEPT ![a] = l]
  PROVE  pc' \in [Actors -> Labels] /\ \A b \in Actors : pc'[b] \in Role(b)
<1>1. l \in Labels
  BY RoleLabels
<1> QED
  BY <1>1 DEF Typed, TypeOK, Roles

\* Every step keeps types and roles.
LEMMA TypedStep == Typed /\ [Next]_vars => Typed'
<1> SUFFICES ASSUME Typed, [Next]_vars PROVE Typed'
  OBVIOUS
<1> USE DEF goalVars, outside, actorVars
<1>0. /\ Goals \subseteq Actors /\ Replies \subseteq Actors /\ Worker \in Actors
      /\ Chat \subseteq Goals /\ Worker \notin Goals /\ Goals \cap Replies = {}
      /\ \A g \in Goals : at[g] = g
  BY DEF Actors, Typed, Roles
<1> DEFINE PcOK == pc' \in [Actors -> Labels] /\ \A b \in Actors : pc'[b] \in Role(b)
<1>m. ASSUME NEW a \in Actors, NEW l \in Role(a), Goto(a, l)
      PROVE  PcOK
  BY <1>m, MoveInRole DEF Goto
<1>a. ASSUME NEW a \in Actors, NEW moved \in BOOLEAN, After(a, moved)
      PROVE  PcOK
  <2>1. PICK l \in Role(a) : pc' = [pc EXCEPT ![a] = l]
    BY <1>a, AfterGoes
  <2> QED
    BY <2>1, MoveInRole
<1>r. ASSUME NEW a \in Actors, Raise(a)
      PROVE  PcOK
  <2>1. PICK l \in Role(a) : pc' = [pc EXCEPT ![a] = l]
    BY <1>r, RaiseGoes
  <2> QED
    BY <2>1, MoveInRole
<1>u. UNCHANGED pc => PcOK
  BY DEF Typed, TypeOK, Roles
<1>t. ASSUME PcOK,
             at' \in [Actors -> Goals], \A g \in Goals : at'[g] = g,
             status' \in [Goals -> GoalState], age' \in [Goals -> 0..2],
             quotes' \in [Goals -> SUBSET Replies],
             options' \in [Goals -> SUBSET Replies],
             stamped' \in [Goals -> BOOLEAN], stateLock' \in [Goals -> BOOLEAN],
             asked' \in [Goals -> BOOLEAN], cards' \in [Goals -> Nat],
             shown' \in [Goals -> SUBSET Replies],
             tx' \in [Actors -> {"lock", "cas", "won", "lost"}],
             current' \in [Goals -> GoalState], count' \in [Replies -> Nat],
             ranked' \in [Actors -> SUBSET Replies], todo' \subseteq Goals
      PROVE  Typed'
  BY <1>t DEF Typed, TypeOK, Roles
<1>T. /\ status \in [Goals -> GoalState] /\ age \in [Goals -> 0..2]
      /\ quotes \in [Goals -> SUBSET Replies]
      /\ options \in [Goals -> SUBSET Replies]
      /\ stamped \in [Goals -> BOOLEAN] /\ stateLock \in [Goals -> BOOLEAN]
      /\ asked \in [Goals -> BOOLEAN] /\ cards \in [Goals -> Nat]
      /\ shown \in [Goals -> SUBSET Replies]
      /\ tx \in [Actors -> {"lock", "cas", "won", "lost"}]
      /\ at \in [Actors -> Goals]
      /\ current \in [Goals -> GoalState] /\ count \in [Replies -> Nat]
      /\ ranked \in [Actors -> SUBSET Replies] /\ todo \subseteq Goals
  BY DEF Typed, TypeOK
<1> HIDE DEF PcOK
<1>1. ASSUME NEW a \in Actors, TakeLock(a) PROVE Typed'
  <2>1. PcOK
    <3>1. CASE ~stateLock[at[a]]
      BY <1>1, <3>1, <1>u DEF TakeLock
    <3>2. CASE stateLock[at[a]]
      BY <1>1, <3>2, <1>a DEF TakeLock
    <3> QED
      BY <3>1, <3>2
  <2> QED
    BY <1>0, <1>1, <2>1, <1>t, <1>T DEF TakeLock
<1>2. ASSUME NEW a \in Actors, CompareAndSet(a) PROVE Typed'
  <2>1. To(a) \in GoalState
    BY <1>2 DEF CompareAndSet, To, Sites, GoalState
  <2>2. status' \in [Goals -> GoalState] /\ age' \in [Goals -> 0..2]
    <3>1. SetState(a) \/ UNCHANGED <<status, age>>
      BY <1>2 DEF CompareAndSet
    <3>2. ASSUME SetState(a)
          PROVE  status' \in [Goals -> GoalState] /\ age' \in [Goals -> 0..2]
      BY <2>1, <3>2, <1>T DEF SetState
    <3> QED
      BY <3>1, <3>2, <1>T
  <2>3. tx' \in [Actors -> {"lock", "cas", "won", "lost"}]
    BY <1>2, <1>T DEF CompareAndSet
  <2> QED
    BY <1>0, <1>2, <2>2, <2>3, <1>t, <1>T, <1>u DEF CompareAndSet
<1>3. ASSUME NEW a \in Actors, GiveLock(a) PROVE Typed'
  <2>1. After(a, tx[a] = "won") /\ (tx[a] = "won") \in BOOLEAN
    BY <1>3 DEF GiveLock
  <2>2. PcOK
    BY <2>1, <1>a
  <2> QED
    BY <1>0, <1>3, <2>2, <1>t, <1>T DEF GiveLock
<1>4. ASSUME NEW a \in Actors, TransitionError(a) PROVE Typed'
  <2>1. To(a) \in GoalState
    BY <1>4 DEF TransitionError, To, Sites, GoalState
  <2>2. PcOK
    BY <1>4, <1>r DEF TransitionError
  <2>3. status' \in [Goals -> GoalState] /\ age' \in [Goals -> 0..2]
    <3>1. SetState(a) \/ UNCHANGED <<status, age>>
      BY <1>4 DEF TransitionError
    <3>2. ASSUME SetState(a)
          PROVE  status' \in [Goals -> GoalState] /\ age' \in [Goals -> 0..2]
      BY <2>1, <3>2, <1>T DEF SetState
    <3> QED
      BY <3>1, <3>2, <1>T
  <2>4. stateLock' \in [Goals -> BOOLEAN]
    BY <1>4, <1>T DEF TransitionError
  <2>5. tx' \in [Actors -> {"lock", "cas", "won", "lost"}]
    BY <1>4, <1>T DEF TransitionError
  <2> QED
    BY <1>0, <1>4, <2>2, <2>3, <2>4, <2>5, <1>t, <1>T DEF TransitionError
<1>5. ASSUME NEW a \in Actors, Walk(a) PROVE Typed'
  <2>1. PICK l \in Role(a) : pc' = [pc EXCEPT ![a] = l]
    BY <1>5, WalkGoes
  <2>2. PcOK
    BY <2>1, MoveInRole DEF PcOK
  <2> QED
    BY <1>0, <1>5, <2>2, <1>t, <1>T, WalkGoes
<1>6. ASSUME NEW a \in Actors, Crash(a) PROVE Typed'
  <2>1. PcOK
    <3>1. CASE a = Worker /\ Goto(a, "sleep")
      BY <1>0, <3>1, <1>m DEF Role, WorkerLabels
    <3>2. CASE a # Worker /\ Goto(a, "done")
      <4>1. "done" \in Role(a)
        BY <3>2 DEF Role, Actors
      <4> QED
        BY <3>2, <4>1, <1>m
    <3> QED
      BY <1>6, <3>1, <3>2 DEF Crash
  <2> QED
    BY <1>0, <1>6, <2>1, <1>t, <1>T DEF Crash
<1>7. ASSUME NEW g \in Goals, DispatchRfqs(g) PROVE Typed'
  <2>1. PcOK
    <3>1. g \in Actors /\ "done" \in Role(g)
            /\ (g \notin Chat => {"to_pending", "no_vendors"} \subseteq Role(g))
      BY <1>0 DEF Role
    <3>2. \/ g \notin Chat /\ (Goto(g, "to_pending") \/ Goto(g, "no_vendors"))
          \/ Goto(g, "done") \/ Raise(g)
      BY <1>7 DEF DispatchRfqs, Dispatched, DispatchedInChat, DispatchFailed
    <3> QED
      BY <3>1, <3>2, <1>m, <1>r
  <2>2. asked' \in [Goals -> BOOLEAN]
    BY <1>7, <1>T DEF DispatchRfqs, Dispatched, DispatchedInChat, DispatchFailed
  <2> QED
    BY <1>0, <1>7, <2>1, <2>2, <1>t, <1>T DEF DispatchRfqs
<1>8. ASSUME NEW g \in Goals, ReadToEscalate(g) PROVE Typed'
  <2>1. g \in Actors /\ "escalate" \in Role(g)
    <3>1. pc[g] = "escalate_read" /\ pc[g] \in Role(g)
      BY <1>0, <1>8 DEF ReadToEscalate, At, Typed, Roles
    <3> QED
      BY <1>0, <3>1 DEF Role
  <2>2. PcOK
    BY <1>8, <2>1, <1>m DEF ReadToEscalate
  <2> QED
    BY <1>0, <1>8, <2>2, <1>t, <1>T DEF ReadToEscalate
<1>9. ASSUME NEW r \in Replies,
             RouteToSole(r) \/ AddQuote(r) \/ CountQuotes(r)
      PROVE  Typed'
  <2>1. r \in Actors /\ {"parse", "done", "count", "look"} \subseteq Role(r)
    BY <1>0 DEF Role, ReplyLabels
  <2>2. PcOK
    BY <1>9, <2>1, <1>m DEF RouteToSole, AddQuote, CountQuotes
  <2>3. CASE RouteToSole(r)
    <3>1. at' \in [Actors -> Goals] /\ \A g \in Goals : at'[g] = g
      BY <1>0, <1>T, <2>1, <2>3 DEF RouteToSole
    <3> QED
      BY <2>2, <2>3, <3>1, <1>t, <1>T DEF RouteToSole
  <2>4. CASE AddQuote(r)
    BY <1>0, <2>1, <2>2, <2>4, <1>t, <1>T DEF AddQuote
  <2>5. CASE CountQuotes(r)
    <3>1. Cardinality(quotes[at[r]]) \in Nat
      <4>1. quotes[at[r]] \subseteq Replies
        BY <1>T, <2>1
      <4> QED
        BY <4>1, FS_Subset, FS_CardinalityType
    <3> QED
      BY <1>0, <2>1, <2>2, <2>5, <3>1, <1>t, <1>T DEF CountQuotes
  <2> QED
    BY <1>9, <2>3, <2>4, <2>5
<1>10. ASSUME NEW a \in Actors \ Goals,
              \/ FetchQuotes(a) \/ RankOptions(a) \/ SaveOptions(a)
              \/ StampSent(a)
       PROVE  Typed'
  <2>1. {"rank", "save", "stamp", "card"} \subseteq Role(a)
    BY <1>0 DEF Role, Ranking, Actors
  <2>2. PcOK
    BY <1>10, <2>1, <1>m, <1>r DEF FetchQuotes, RankOptions, SaveOptions, StampSent
  <2>3. CASE FetchQuotes(a)
    BY <1>0, <2>2, <2>3, <1>t, <1>T DEF FetchQuotes
  <2>4. CASE SaveOptions(a)
    BY <1>0, <2>2, <2>4, <1>t, <1>T DEF SaveOptions
  <2>5. CASE StampSent(a)
    BY <1>0, <2>2, <2>5, <1>t, <1>T DEF StampSent
  <2>6. CASE RankOptions(a)
    <3>1. ranked' \in [Actors -> SUBSET Replies]
      BY <2>6, <1>T DEF RankOptions
    <3> QED
      BY <1>0, <2>2, <2>6, <3>1, <1>t, <1>T DEF RankOptions
  <2> QED
    BY <1>10, <2>3, <2>4, <2>5, <2>6
<1>11. ASSUME NEW a \in Actors \ Goals, SendCard(a) PROVE Typed'
  <2>1. Resume(a) => PcOK
    <3>1. CASE a = Worker /\ Resume(a)
      BY <1>0, <3>1, <1>m DEF Resume, Role, WorkerLabels
    <3>2. CASE a # Worker /\ Resume(a)
      <4>1. "done" \in Role(a)
        BY <1>0, <3>2 DEF Role, Actors
      <4> QED
        BY <3>2, <4>1, <1>m DEF Resume
    <3> QED
      BY <3>1, <3>2
  <2>2. PcOK
    BY <1>11, <2>1, <1>r DEF SendCard
  <2>3. \/ UNCHANGED <<cards, shown>>
        \/ /\ cards' = [cards EXCEPT ![at[a]] = @ + 1]
           /\ shown' = [shown EXCEPT ![at[a]] = ranked[a]]
    BY <1>11 DEF SendCard
  <2>4. cards' \in [Goals -> Nat] /\ shown' \in [Goals -> SUBSET Replies]
    <3>1. at[a] \in Goals /\ ranked[a] \in SUBSET Replies
      BY <1>T
    <3>2. cards' \in [Goals -> Nat]
      BY <2>3, <3>1, <1>T
    <3>3. shown' \in [Goals -> SUBSET Replies]
      BY <2>3, <3>1, <1>T
    <3> QED
      BY <3>2, <3>3
  <2> QED
    BY <1>0, <1>11, <2>2, <2>4, <1>t, <1>T DEF SendCard
<1>12. ASSUME ListStuck \/ NextStuck \/ ListSilent \/ NextSilent PROVE Typed'
  <2>1. WorkerLabels \cup {"claim", "time_out"} \subseteq Role(Worker)
    BY <1>0 DEF Role
  <2>2. PcOK
    <3>1. \E l \in WorkerLabels \cup {"claim", "time_out"} : Goto(Worker, l)
      BY <1>12 DEF ListStuck, NextStuck, ListSilent, NextSilent, WorkerLabels
    <3> QED
      BY <1>0, <2>1, <3>1, <1>m
  <2>3. at' \in [Actors -> Goals] /\ \A g \in Goals : at'[g] = g
    BY <1>0, <1>12, <1>T DEF ListStuck, NextStuck, ListSilent, NextSilent
  <2>4. todo' \subseteq Goals
    BY <1>12, <1>T DEF ListStuck, NextStuck, ListSilent, NextSilent
  <2> QED
    BY <1>12, <2>2, <2>3, <2>4, <1>t, <1>T DEF ListStuck, NextStuck, ListSilent, NextSilent
<1>13. ASSUME NEW g \in Goals, Age(g) \/ ExpireState(g) PROVE Typed'
  <2>1. CASE Age(g)
    <3>1. age' \in [Goals -> 0..2]
      BY <2>1, <1>T DEF Age
    <3> QED
      BY <1>0, <2>1, <3>1, <1>u, <1>t, <1>T DEF Age
  <2>2. CASE ExpireState(g)
    BY <1>0, <2>2, <1>u, <1>t, <1>T DEF ExpireState
  <2> QED
    BY <1>13, <2>1, <2>2
<1>14. UNCHANGED vars => Typed'
  BY <1>0, <1>u, <1>t, <1>T DEF vars
<1>15. \A a \in Actors : a \in Goals => ~At(a, "fetch") /\ ~At(a, "rank") /\ ~At(a, "save")
                                        /\ ~At(a, "stamp") /\ ~At(a, "card")
  BY DEF Typed, Roles, Role, TaskLabels, At
<1> QED
  BY <1>0, <1>1, <1>2, <1>3, <1>4, <1>5, <1>6, <1>7, <1>8, <1>9, <1>10, <1>11, <1>12,
     <1>13, <1>14
     DEF Next, Task, Transition, Handle, Rank, Job, Fault, Walk

\* In every reachable state.
LEMMA TypedAlways == Spec => []Typed
<1>1. Init => Typed
  BY TypedInit
<1>2. Typed /\ [Next]_vars => Typed'
  BY TypedStep
<1> QED
  BY <1>1, <1>2, PTL DEF Spec

\* Every variable keeps its type, whatever fails (QuoteCollection!TypeOK).
THEOREM TypeCorrect == Spec => []TypeOK
<1>1. Typed => TypeOK
  BY DEF Typed
<1> QED
  BY <1>1, TypedAlways, PTL

----------------------------------------------------------------------------
(* One card *)

Claimed == {"pending_approval", "operator_escalated"}

\* a ranks the quotes of its goal: it moved the goal to pending_approval.
Ranks(a) == pc[a] \in Ranking \/ (pc[a] = "claim" /\ tx[a] = "won")

\* A goal is ranked by one actor, after it was claimed and before its card;
\* a claimed goal never waits for quotes again.
RankInv ==
  /\ \A a \in Actors : Ranks(a) => status[at[a]] \in Claimed /\ cards[at[a]] = 0
  /\ \A a, b \in Actors : Ranks(a) /\ Ranks(b) /\ at[a] = at[b] => a = b
  /\ \A g \in Goals : cards[g] > 0 => status[g] \in Claimed
  /\ OneCard

\* A step that makes nobody rank and sends no card.
LEMMA RankFrame ==
  ASSUME Typed, RankInv, cards' = cards,
         \A g \in Goals : status[g] \in Claimed => status'[g] \in Claimed,
         \A b \in Actors : Ranks(b)' => Ranks(b) /\ at'[b] = at[b]
  PROVE  RankInv'
<1>1. \A a \in Actors : at[a] \in Goals
  BY DEF Typed, TypeOK
<1>2. OneCard'
  BY DEF RankInv, OneCard
<1>3. \A g \in Goals : cards'[g] > 0 => status'[g] \in Claimed
  BY DEF RankInv
<1>4. \A a \in Actors : Ranks(a)' => status'[at'[a]] \in Claimed /\ cards'[at'[a]] = 0
  BY <1>1 DEF RankInv
<1>5. \A a, b \in Actors : Ranks(a)' /\ Ranks(b)' /\ at'[a] = at'[b] => a = b
  BY DEF RankInv
<1> QED
  BY <1>2, <1>3, <1>4, <1>5 DEF RankInv, OneCard

\* Every step keeps it.
LEMMA RankStep == Typed /\ RankInv /\ [Next]_vars => RankInv'
<1> SUFFICES ASSUME Typed, RankInv, [Next]_vars PROVE RankInv'
  OBVIOUS
<1> USE DEF goalVars, outside, actorVars
<1>T. /\ pc \in [Actors -> Labels] /\ at \in [Actors -> Goals]
      /\ tx \in [Actors -> {"lock", "cas", "won", "lost"}]
      /\ status \in [Goals -> GoalState] /\ cards \in [Goals -> Nat]
      /\ Goals \subseteq Actors /\ Replies \subseteq Actors /\ Worker \in Actors
      /\ Sites \cap Ranking = {}
  BY DEF Typed, TypeOK, Actors, Sites, Ranking
\* A step that only moves pc[a], to a place where a does not start to rank.
<1>w. ASSUME NEW a \in Actors, NEW l, pc' = [pc EXCEPT ![a] = l],
             (tx[a] # "won" /\ tx' = tx) \/ tx' = [tx EXCEPT ![a] = "lock"],
             l \in Ranking => Ranks(a),
             at' = at, status' = status, cards' = cards
      PROVE  RankInv'
  <2>1. \A b \in Actors : Ranks(b)' => Ranks(b)
    BY <1>w, <1>T DEF Ranks
  <2> QED
    BY <1>w, <2>1, RankFrame
<1>1. ASSUME NEW a \in Actors, TakeLock(a) PROVE RankInv'
  <2>1. CASE ~stateLock[at[a]]
    <3>1. \A b \in Actors : Ranks(b)' => Ranks(b)
      BY <1>1, <2>1, <1>T DEF TakeLock, Ranks
    <3> QED
      BY <1>1, <2>1, <3>1, RankFrame DEF TakeLock
  <2>2. CASE stateLock[at[a]]
    <3>1. After(a, FALSE) /\ UNCHANGED <<tx, at, status, cards>> /\ tx[a] = "lock"
      BY <1>1, <2>2 DEF TakeLock
    <3>2. PICK l : pc' = [pc EXCEPT ![a] = l] /\ l \notin Ranking
      BY <3>1, AfterGoes DEF Ranking
    <3> QED
      BY <3>1, <3>2, <1>w
  <2> QED
    BY <2>1, <2>2
<1>2. ASSUME NEW a \in Actors, CompareAndSet(a) PROVE RankInv'
  <2>0. /\ at' = at /\ pc' = pc /\ cards' = cards /\ pc[a] \in Sites /\ tx[a] = "cas"
        /\ at[a] \in Goals /\ ~Ranks(a)
    BY <1>2, <1>T DEF CompareAndSet, Ranks
  <2>1. CASE ~Matches(a)
    <3>1. \A b \in Actors : Ranks(b)' => Ranks(b)
      BY <1>2, <2>0, <2>1, <1>T DEF CompareAndSet, Ranks
    <3> QED
      BY <1>2, <2>0, <2>1, <3>1, RankFrame DEF CompareAndSet
  <2>2. CASE Matches(a) /\ pc[a] # "claim"
    <3>1. \A b \in Actors : Ranks(b)' => Ranks(b)
      BY <1>2, <2>0, <2>2, <1>T DEF CompareAndSet, Ranks
    <3>2. status' = [status EXCEPT ![at[a]] = To(a)]
      BY <1>2, <2>2 DEF CompareAndSet, SetState
    <3>3. status[at[a]] \in Claimed => To(a) \in Claimed
      BY <2>0, <2>2 DEF Matches, From, To, Claimed, Sites
    <3>4. \A g \in Goals : status[g] \in Claimed => status'[g] \in Claimed
      BY <3>2, <3>3, <2>0, <1>T
    <3> QED
      BY <2>0, <3>1, <3>4, RankFrame
  <2>3. CASE Matches(a) /\ pc[a] = "claim"
    <3>1. status[at[a]] = "quotes_received" /\ status[at[a]] \notin Claimed
      BY <2>3 DEF Matches, From, Claimed
    <3>2. status' = [status EXCEPT ![at[a]] = "pending_approval"]
            /\ tx' = [tx EXCEPT ![a] = "won"]
      BY <1>2, <2>3 DEF CompareAndSet, SetState, To
    <3>3. cards[at[a]] = 0 /\ \A b \in Actors : Ranks(b) => at[b] # at[a]
      BY <3>1, <2>0, <1>T DEF RankInv
    <3>4. \A b \in Actors \ {a} : Ranks(b)' => Ranks(b)
      BY <3>2, <2>0, <1>T DEF Ranks
    <3>5. \A b \in Actors : at[b] \in Goals
      BY <1>T
    <3>6. \A b \in Actors : Ranks(b)' => status'[at[b]] \in Claimed /\ cards[at[b]] = 0
      BY <3>2, <3>3, <3>4, <3>5, <2>0, <1>T DEF RankInv, Claimed
    <3>7. \A b, c \in Actors : Ranks(b)' /\ Ranks(c)' /\ at[b] = at[c] => b = c
      BY <3>3, <3>4 DEF RankInv
    <3>8. \A g \in Goals : cards[g] > 0 => status'[g] \in Claimed
      BY <3>2, <1>T DEF RankInv, Claimed
    <3> QED
      BY <2>0, <3>6, <3>7, <3>8 DEF RankInv, OneCard
  <2> QED
    BY <2>1, <2>2, <2>3
<1>3. ASSUME NEW a \in Actors, GiveLock(a) PROVE RankInv'
  <2>1. /\ After(a, tx[a] = "won") /\ (tx[a] = "won") \in BOOLEAN
        /\ tx' = [tx EXCEPT ![a] = "lock"] /\ UNCHANGED <<at, status, cards>>
    BY <1>3 DEF GiveLock
  <2>2. PICK l \in Role(a) :
          /\ pc' = [pc EXCEPT ![a] = l]
          /\ l \in {"done", "upsert", "look_again", "fetch", "stuck", "silent"}
          /\ l = "fetch" => pc[a] = "claim" /\ tx[a] = "won"
    BY <2>1, AfterGoes
  <2>3. l \in Ranking => Ranks(a)
    BY <2>2 DEF Ranking, Ranks
  <2> QED
    BY <2>1, <2>2, <2>3, <1>w
<1>4. ASSUME NEW a \in Actors, TransitionError(a) PROVE RankInv'
  <2>1. /\ Raise(a) /\ at' = at /\ cards' = cards /\ pc[a] \in Sites
        /\ tx' = [tx EXCEPT ![a] = "lock"] /\ at[a] \in Goals
    BY <1>4, <1>T DEF TransitionError
  <2>2. PICK l \in Role(a) : pc' = [pc EXCEPT ![a] = l] /\ l \notin Ranking
    BY <2>1, RaiseGoes DEF Ranking
  <2>3. \A b \in Actors : Ranks(b)' => Ranks(b)
    BY <2>1, <2>2, <1>T DEF Ranks
  <2>4. \A g \in Goals : status[g] \in Claimed => status'[g] \in Claimed
    <3>1. CASE status' = status
      BY <3>1
    <3>2. CASE Matches(a) /\ SetState(a)
      <4>1. status[at[a]] \in Claimed => To(a) \in Claimed
        BY <2>1, <3>2 DEF Matches, From, To, Claimed, Sites
      <4> QED
        BY <4>1, <3>2, <2>1, <1>T DEF SetState
    <3> QED
      BY <1>4, <3>1, <3>2 DEF TransitionError
  <2> QED
    BY <2>1, <2>3, <2>4, RankFrame
<1>5. ASSUME NEW a \in Actors, Walk(a) PROVE RankInv'
  <2>1. UNCHANGED <<goalVars, outside, tx, at>> /\ tx[a] = "lock"
    BY <1>5, WalkGoes
  <2>2. PICK l \in Role(a) : pc' = [pc EXCEPT ![a] = l] /\ l \notin Ranking
    BY <1>5, WalkGoes
  <2> QED
    BY <2>1, <2>2, <1>w
<1>6. ASSUME NEW a \in Actors, Crash(a) PROVE RankInv'
  <2>1. PICK l \in {"done", "sleep"} : pc' = [pc EXCEPT ![a] = l]
    BY <1>6 DEF Crash, Goto
  <2>2. l \notin Ranking
    BY DEF Ranking
  <2> QED
    BY <1>6, <2>1, <2>2, <1>w DEF Crash
<1>7. ASSUME NEW g \in Goals, DispatchRfqs(g) PROVE RankInv'
  <2>1. \/ Goto(g, "to_pending") \/ Goto(g, "no_vendors") \/ Goto(g, "done") \/ Raise(g)
    BY <1>7 DEF DispatchRfqs, Dispatched, DispatchedInChat, DispatchFailed
  <2>2. PICK l : pc' = [pc EXCEPT ![g] = l] /\ l \notin Ranking
    BY <2>1, <1>T, RaiseGoes DEF Goto, Ranking
  <2> QED
    BY <1>7, <2>2, <1>T, <1>w DEF DispatchRfqs, At
<1>8. ASSUME NEW g \in Goals, ReadToEscalate(g) PROVE RankInv'
  BY <1>8, <1>T, <1>w DEF ReadToEscalate, At, Goto, Ranking
<1>9. ASSUME NEW r \in Replies,
             RouteToSole(r) \/ AddQuote(r) \/ CountQuotes(r)
      PROVE  RankInv'
  <2>1. \A b \in Actors : Ranks(b)' => b # r /\ Ranks(b) /\ at'[b] = at[b]
    BY <1>9, <1>T DEF RouteToSole, AddQuote, CountQuotes, At, Goto, Ranks, Ranking
  <2>2. status' = status /\ cards' = cards
    BY <1>9 DEF RouteToSole, AddQuote, CountQuotes
  <2> QED
    BY <2>1, <2>2, RankFrame
<1>10. ASSUME NEW a \in Actors,
              FetchQuotes(a) \/ RankOptions(a) \/ SaveOptions(a) \/ StampSent(a)
       PROVE  RankInv'
  <2>1. /\ Ranks(a) /\ tx[a] = "lock"
        /\ \/ Goto(a, "rank") \/ Goto(a, "save") \/ Goto(a, "stamp") \/ Goto(a, "card")
           \/ Raise(a)
        /\ UNCHANGED <<tx, at, status, cards>>
    BY <1>10 DEF FetchQuotes, RankOptions, SaveOptions, StampSent, At, Ranks, Ranking
  <2>2. \E l : pc' = [pc EXCEPT ![a] = l]
    BY <2>1, RaiseGoes DEF Goto
  <2> QED
    BY <2>1, <2>2, <1>w
<1>11. ASSUME NEW a \in Actors, SendCard(a) PROVE RankInv'
  <2>1. /\ Ranks(a) /\ at[a] \in Goals /\ tx[a] = "lock"
        /\ UNCHANGED <<tx, at, status>>
    BY <1>11, <1>T DEF SendCard, At, Ranks, Ranking
  <2>2. PICK l : pc' = [pc EXCEPT ![a] = l] /\ l \notin Ranking
    <3>1. Resume(a) \/ Raise(a)
      BY <1>11 DEF SendCard
    <3> QED
      BY <3>1, RaiseGoes DEF Resume, Goto, Ranking
  <2>3. CASE cards' = cards
    BY <2>1, <2>2, <2>3, <1>w
  <2>4. CASE cards' = [cards EXCEPT ![at[a]] = @ + 1]
    <3>1. \A b \in Actors : Ranks(b)' => Ranks(b) /\ b # a
      BY <2>1, <2>2, <1>T DEF Ranks
    <3>2. \A b \in Actors : Ranks(b)' => at[b] # at[a] /\ cards'[at[b]] = cards[at[b]]
      BY <3>1, <2>1, <2>4, <1>T DEF RankInv
    <3>3. cards[at[a]] = 0 /\ status[at[a]] \in Claimed /\ cards'[at[a]] = 1
      BY <2>1, <2>4, <1>T DEF RankInv
    <3>4. \A g \in Goals : g # at[a] => cards'[g] = cards[g]
      BY <2>1, <2>4, <1>T
    <3>5. OneCard' /\ \A g \in Goals : cards'[g] > 0 => status'[g] \in Claimed
      BY <3>3, <3>4, <2>1 DEF RankInv, OneCard
    <3>6. \A b \in Actors :
            Ranks(b)' => status'[at'[b]] \in Claimed /\ cards'[at'[b]] = 0
      BY <3>1, <3>2, <2>1 DEF RankInv
    <3>7. \A b, c \in Actors : Ranks(b)' /\ Ranks(c)' /\ at'[b] = at'[c] => b = c
      BY <3>1, <2>1 DEF RankInv
    <3> QED
      BY <3>5, <3>6, <3>7 DEF RankInv
  <2> QED
    BY <1>11, <2>3, <2>4 DEF SendCard
<1>12. ASSUME ListStuck \/ NextStuck \/ ListSilent \/ NextSilent PROVE RankInv'
  <2>1. \A b \in Actors : Ranks(b)' => b # Worker /\ Ranks(b) /\ at'[b] = at[b]
    BY <1>12, <1>T DEF ListStuck, NextStuck, ListSilent, NextSilent, At, Goto, Ranks,
                       Ranking
  <2>2. status' = status /\ cards' = cards
    BY <1>12 DEF ListStuck, NextStuck, ListSilent, NextSilent
  <2> QED
    BY <2>1, <2>2, RankFrame
<1>13. CASE UNCHANGED <<status, cards, pc, tx, at>>
  <2>1. \A b \in Actors : Ranks(b)' => Ranks(b)
    BY <1>13 DEF Ranks
  <2> QED
    BY <1>13, <2>1, RankFrame
<1>14. ASSUME NEW g \in Goals, Age(g) \/ ExpireState(g)
       PROVE  UNCHANGED <<status, cards, pc, tx, at>>
  BY <1>14 DEF Age, ExpireState
<1>15. UNCHANGED vars => UNCHANGED <<status, cards, pc, tx, at>>
  BY DEF vars
<1> QED
  BY <1>T, <1>1, <1>2, <1>3, <1>4, <1>5, <1>6, <1>7, <1>8, <1>9, <1>10, <1>11, <1>12,
     <1>13, <1>14, <1>15
     DEF Next, Task, Transition, Handle, Rank, Job, Fault, Walk

\* It holds at first and always.
LEMMA RankAlways == Spec => []RankInv
<1>1. Init => RankInv
  <2> SUFFICES ASSUME Init PROVE RankInv
    OBVIOUS
  <2>1. Typed
    BY TypedInit
  <2>2. \A a \in Actors : tx[a] = "lock" /\ pc[a] \notin Ranking
    <3> SUFFICES ASSUME NEW a \in Actors PROVE tx[a] = "lock" /\ pc[a] \notin Ranking
      OBVIOUS
    <3>1. pc[a] \in {"to_pending", "start", "unsent", "sleep"}
      BY DEF Init, Actors
    <3> QED
      BY <3>1 DEF Init, Ranking
  <2>3. \A g \in Goals : cards[g] = 0
    BY DEF Init
  <2> QED
    BY <2>2, <2>3 DEF RankInv, Ranks, OneCard
<1> QED
  BY <1>1, TypedAlways, RankStep, PTL DEF Spec

\* However many replies and sweeps try to rank a goal at once, and whatever
\* fails, its approver gets one card (QuoteCollection!OneCard).
THEOREM OneCardThm == Spec => []OneCard
<1>1. RankInv => OneCard
  BY DEF RankInv
<1> QED
  BY <1>1, RankAlways, PTL

----------------------------------------------------------------------------
(* A goal that waits asked somebody *)

\* An RFQ went out before the task asks for the move to pending_rfq.
AskedInv ==
  \A g \in Goals \ Chat :
    pc[g] = "to_pending" \/ status[g] = "pending_rfq" => asked[g]

\* Every step keeps it.
LEMMA AskedStep == Typed /\ AskedInv /\ [Next]_vars => AskedInv'
<1> SUFFICES ASSUME Typed, AskedInv, [Next]_vars PROVE AskedInv'
  OBVIOUS
<1> USE DEF goalVars, outside, actorVars
<1>T. /\ pc \in [Actors -> Labels] /\ at \in [Actors -> Goals]
      /\ status \in [Goals -> GoalState] /\ asked \in [Goals -> BOOLEAN]
      /\ Goals \subseteq Actors /\ Replies \subseteq Actors /\ Worker \in Actors
      /\ Worker \notin Goals /\ Goals \cap Replies = {}
      /\ \A g \in Goals : at[g] = g
      /\ \A a \in Actors : pc[a] = "to_pending" => a \in Goals
  BY DEF Typed, TypeOK, Roles, Role, Actors, ReplyLabels, WorkerLabels, Ranking
\* A step that moves one actor, and not to "to_pending".
<1>w. ASSUME NEW a \in Actors, NEW l, pc' = [pc EXCEPT ![a] = l], l # "to_pending",
             status' = status, \A g \in Goals : asked[g] => asked'[g]
      PROVE  AskedInv'
  BY <1>w, <1>T DEF AskedInv
\* A state that is written is an answer to the call of its site.
<1>s. ASSUME NEW a \in Actors, pc[a] \in Sites, SetState(a), asked' = asked,
             \A g \in Goals : pc'[g] = "to_pending" => pc[g] = "to_pending"
      PROVE  AskedInv'
  <2>1. To(a) = "pending_rfq" => pc[a] = "to_pending"
    BY <1>s DEF To, Sites
  <2>2. \A g \in Goals : status'[g] = "pending_rfq" =>
          status[g] = "pending_rfq" \/ (g = a /\ pc[a] = "to_pending")
    BY <1>s, <2>1, <1>T DEF SetState
  <2> QED
    BY <1>s, <2>2 DEF AskedInv
<1>a. ASSUME NEW a \in Actors, NEW moved \in BOOLEAN, After(a, moved)
      PROVE  \E l : pc' = [pc EXCEPT ![a] = l] /\ l # "to_pending"
  BY <1>a, AfterGoes
<1>r. ASSUME NEW a \in Actors, Raise(a)
      PROVE  \E l : pc' = [pc EXCEPT ![a] = l] /\ l # "to_pending"
  BY <1>r, RaiseGoes
<1>1. ASSUME NEW a \in Actors, TakeLock(a) PROVE AskedInv'
  <2>1. CASE ~stateLock[at[a]]
    BY <1>1, <2>1 DEF TakeLock, AskedInv
  <2>2. CASE stateLock[at[a]]
    BY <1>1, <2>2, <1>a, <1>w DEF TakeLock
  <2> QED
    BY <2>1, <2>2
<1>2. ASSUME NEW a \in Actors, CompareAndSet(a) PROVE AskedInv'
  <2>1. CASE ~Matches(a)
    BY <1>2, <2>1 DEF CompareAndSet, AskedInv
  <2>2. CASE Matches(a)
    BY <1>2, <2>2, <1>s DEF CompareAndSet
  <2> QED
    BY <2>1, <2>2
<1>3. ASSUME NEW a \in Actors, GiveLock(a) PROVE AskedInv'
  <2>1. After(a, tx[a] = "won") /\ (tx[a] = "won") \in BOOLEAN
    BY <1>3 DEF GiveLock
  <2> QED
    BY <1>3, <2>1, <1>a, <1>w DEF GiveLock
<1>4. ASSUME NEW a \in Actors, TransitionError(a) PROVE AskedInv'
  <2>1. PICK l : pc' = [pc EXCEPT ![a] = l] /\ l # "to_pending"
    BY <1>4, <1>r DEF TransitionError
  <2>2. CASE status' = status
    BY <1>4, <2>1, <2>2, <1>w DEF TransitionError
  <2>3. CASE SetState(a)
    <3>1. \A g \in Goals : pc'[g] = "to_pending" => pc[g] = "to_pending"
      BY <2>1, <1>T
    <3> QED
      BY <1>4, <2>3, <3>1, <1>s DEF TransitionError
  <2> QED
    BY <1>4, <2>2, <2>3 DEF TransitionError
<1>5. ASSUME NEW a \in Actors, Walk(a) PROVE AskedInv'
  <2>1. PICK l : pc' = [pc EXCEPT ![a] = l] /\ l # "to_pending"
    BY <1>5, WalkGoes
  <2>2. status' = status /\ asked' = asked
    BY <1>5, WalkGoes
  <2> QED
    BY <2>1, <2>2, <1>w
<1>6. ASSUME NEW a \in Actors, Crash(a) PROVE AskedInv'
  BY <1>6, <1>w DEF Crash, Goto
<1>7. ASSUME NEW g \in Goals, DispatchRfqs(g) PROVE AskedInv'
  <2>1. status' = status /\ \A h \in Goals : asked[h] => asked'[h]
    BY <1>7, <1>T DEF DispatchRfqs, Dispatched, DispatchedInChat, DispatchFailed
  <2>2. CASE Goto(g, "to_pending") /\ asked' = [asked EXCEPT ![g] = TRUE]
    BY <2>1, <2>2, <1>T DEF Goto, AskedInv
  <2>3. CASE Goto(g, "no_vendors") \/ Goto(g, "done") \/ Raise(g)
    BY <2>1, <2>3, <1>T, <1>r, <1>w DEF Goto
  <2> QED
    BY <1>7, <2>2, <2>3 DEF DispatchRfqs, Dispatched, DispatchedInChat, DispatchFailed
<1>8. ASSUME NEW g \in Goals, ReadToEscalate(g) PROVE AskedInv'
  BY <1>8, <1>T, <1>w DEF ReadToEscalate, Goto
<1>9. ASSUME NEW r \in Replies,
             RouteToSole(r) \/ AddQuote(r) \/ CountQuotes(r)
      PROVE  AskedInv'
  <2>1. \E l : pc' = [pc EXCEPT ![r] = l] /\ l # "to_pending"
    <3>1. \E l \in {"parse", "done", "count", "look"} : Goto(r, l)
      BY <1>9 DEF RouteToSole, AddQuote, CountQuotes
    <3> QED
      BY <3>1 DEF Goto
  <2>2. status' = status /\ asked' = asked /\ r \in Actors
    BY <1>9, <1>T DEF RouteToSole, AddQuote, CountQuotes
  <2> QED
    BY <2>1, <2>2, <1>w
<1>10. ASSUME NEW a \in Actors,
              FetchQuotes(a) \/ RankOptions(a) \/ SaveOptions(a) \/ StampSent(a)
       PROVE  AskedInv'
  <2>1. \E l : pc' = [pc EXCEPT ![a] = l] /\ l # "to_pending"
    BY <1>10, <1>r DEF FetchQuotes, RankOptions, SaveOptions, StampSent, Goto
  <2> QED
    BY <1>10, <2>1, <1>w DEF FetchQuotes, RankOptions, SaveOptions, StampSent
<1>11. ASSUME NEW a \in Actors, SendCard(a) PROVE AskedInv'
  <2>1. \E l : pc' = [pc EXCEPT ![a] = l] /\ l # "to_pending"
    <3>1. Resume(a) \/ Raise(a)
      BY <1>11 DEF SendCard
    <3> QED
      BY <3>1, <1>r DEF Resume, Goto
  <2> QED
    BY <1>11, <2>1, <1>w DEF SendCard
<1>12. ASSUME ListStuck \/ NextStuck \/ ListSilent \/ NextSilent PROVE AskedInv'
  <2>1. \E l : pc' = [pc EXCEPT ![Worker] = l] /\ l # "to_pending"
    <3>1. \E l \in WorkerLabels \cup {"claim", "time_out"} : Goto(Worker, l)
      BY <1>12 DEF ListStuck, NextStuck, ListSilent, NextSilent, WorkerLabels
    <3> QED
      BY <3>1 DEF Goto, WorkerLabels
  <2> QED
    BY <1>12, <2>1, <1>T, <1>w DEF ListStuck, NextStuck, ListSilent, NextSilent
<1>13. CASE UNCHANGED <<status, asked, pc>>
  BY <1>13 DEF AskedInv
<1>14. ASSUME NEW g \in Goals, Age(g) \/ ExpireState(g)
       PROVE  UNCHANGED <<status, asked, pc>>
  BY <1>14 DEF Age, ExpireState
<1>15. UNCHANGED vars => UNCHANGED <<status, asked, pc>>
  BY DEF vars
<1> QED
  BY <1>T, <1>1, <1>2, <1>3, <1>4, <1>5, <1>6, <1>7, <1>8, <1>9, <1>10, <1>11, <1>12,
     <1>13, <1>14, <1>15
     DEF Next, Task, Transition, Handle, Rank, Job, Fault, Walk

\* A goal from POST /goals that waits for quotes has asked somebody, whatever
\* fails (QuoteCollection!PendingMeansAsked).
THEOREM PendingMeansAskedThm == Spec => []PendingMeansAsked
<1>1. Init => AskedInv
  <2> SUFFICES ASSUME Init, NEW g \in Goals \ Chat
               PROVE  pc[g] # "to_pending" /\ status[g] # "pending_rfq"
    BY DEF AskedInv
  <2> QED
    BY DEF Init, Actors
<1>2. AskedInv => PendingMeansAsked
  BY DEF AskedInv, PendingMeansAsked
<1> QED
  BY <1>1, <1>2, TypedAlways, AskedStep, PTL DEF Spec

----------------------------------------------------------------------------
(* What is ranked, stored and offered *)

\* The quotes a counted are still there and it claims for enough of them; what
\* it stored and stamped stands when it sends the card.
Fed(a) ==
  /\ a \in Replies =>
       /\ pc[a] \in {"look", "receive", "look_again", "claim"} =>
            count[a] <= Cardinality(quotes[at[a]])
       /\ pc[a] = "claim" => count[a] >= MinQuotes
       /\ pc[a] = "fetch" => Cardinality(quotes[at[a]]) >= MinQuotes
       /\ pc[a] = "rank" => Cardinality(ranked[a]) >= MinQuotes
  /\ pc[a] \in {"stamp", "card"} => options[at[a]] = ranked[a]
  /\ pc[a] = "card" => stamped[at[a]]

FedInv ==
  /\ \A a \in Actors : Fed(a)
  /\ \A g \in Goals : cards[g] > 0 => stamped[g] /\ shown[g] = options[g]

\* Labels where nothing was counted or claimed yet, or any more.
Idle == Labels \ (Ranking \cup {"look", "receive", "look_again", "claim"})

\* A set of replies is finite, and has no element fewer than a part of it.
LEMMA Counted ==
  ASSUME NEW S \in SUBSET Replies, NEW T \in SUBSET S
  PROVE  /\ Cardinality(S) \in Nat /\ Cardinality(T) \in Nat
         /\ Cardinality(T) <= Cardinality(S)
<1>1. IsFiniteSet(S) /\ IsFiniteSet(T)
  BY FS_Subset
<1>2. Cardinality(S) \in Nat /\ Cardinality(T) \in Nat /\ Cardinality(T) <= Cardinality(S)
  BY <1>1, FS_CardinalityType, FS_Subset
<1> QED
  BY <1>2

\* A step of a, which takes nothing from the others.
LEMMA FedFrame ==
  ASSUME Typed, Typed', FedInv, NEW a \in Actors, Fed(a)',
         \A b \in Actors \ {a} :
            pc'[b] = pc[b] /\ at'[b] = at[b] /\ ranked'[b] = ranked[b],
         \A r \in Replies \ {a} : count'[r] = count[r],
         \A g \in Goals : /\ quotes[g] \subseteq quotes'[g]
                          /\ stamped[g] => stamped'[g],
         \A b \in Actors \ {a} : Ranks(b) => options'[at[b]] = options[at[b]],
         \A g \in Goals : cards'[g] > 0 =>
            \/ cards[g] > 0 /\ shown'[g] = shown[g] /\ options'[g] = options[g]
            \/ stamped'[g] /\ shown'[g] = options'[g]
  PROVE  FedInv'
<1>1. \A b \in Actors \ {a} : Fed(b)'
  <2> SUFFICES ASSUME NEW b \in Actors \ {a} PROVE Fed(b)'
    OBVIOUS
  <2>1. /\ at[b] \in Goals /\ quotes[at[b]] \in SUBSET Replies
        /\ quotes'[at[b]] \in SUBSET Replies /\ Fed(b)
        /\ b \in Replies => count[b] \in Nat
    BY DEF Typed, TypeOK, FedInv
  <2>2. /\ Cardinality(quotes[at[b]]) \in Nat /\ Cardinality(quotes'[at[b]]) \in Nat
        /\ Cardinality(quotes[at[b]]) <= Cardinality(quotes'[at[b]])
    BY <2>1, Counted
  <2>3. pc[b] \in {"stamp", "card"} => options'[at[b]] = options[at[b]]
    BY DEF Ranks, Ranking
  <2> QED
    BY <2>1, <2>2, <2>3 DEF Fed
<1>2. \A g \in Goals : cards'[g] > 0 => stamped'[g] /\ shown'[g] = options'[g]
  BY DEF FedInv
<1> QED
  BY <1>1, <1>2 DEF FedInv

\* Every step keeps it.
LEMMA FedStep == Typed /\ RankInv /\ FedInv /\ [Next]_vars => FedInv'
<1> SUFFICES ASSUME Typed, RankInv, FedInv, [Next]_vars PROVE FedInv'
  OBVIOUS
<1> USE DEF goalVars, outside, actorVars
<1>0. Typed'
  BY TypedStep
<1>T. /\ pc \in [Actors -> Labels] /\ at \in [Actors -> Goals]
      /\ quotes \in [Goals -> SUBSET Replies] /\ options \in [Goals -> SUBSET Replies]
      /\ stamped \in [Goals -> BOOLEAN] /\ cards \in [Goals -> Nat]
      /\ count \in [Replies -> Nat] /\ ranked \in [Actors -> SUBSET Replies]
      /\ Goals \subseteq Actors /\ Replies \subseteq Actors /\ Worker \in Actors
      /\ Worker \notin Replies /\ Goals \cap Replies = {}
  BY DEF Typed, TypeOK, Actors
<1>F. \A a \in Actors : Fed(a)
  BY DEF FedInv
<1> DEFINE Still ==
      UNCHANGED <<quotes, options, stamped, cards, shown, at, count, ranked>>
\* A step that only moves a.
<1>w. ASSUME NEW a \in Actors, NEW l, pc' = [pc EXCEPT ![a] = l], Still, Fed(a)'
      PROVE  FedInv'
  BY <1>0, <1>w, <1>T, FedFrame
<1>i. ASSUME NEW a \in Actors, NEW l \in Idle, pc' = [pc EXCEPT ![a] = l]
      PROVE  Fed(a)'
  <2>1. pc'[a] = l
    BY <1>i, <1>T
  <2> QED
    BY <2>1 DEF Fed, Idle, Ranking
<1>c. \A a \in Actors : Cardinality(quotes[at[a]]) \in Nat
  BY <1>T, Counted
<1>r. ASSUME NEW a \in Actors, Raise(a)
      PROVE  \E l \in Idle : pc' = [pc EXCEPT ![a] = l]
  BY <1>r, RaiseGoes, RoleLabels DEF Idle, Ranking
<1>n. ASSUME pc' = pc, Still
      PROVE  FedInv'
  <2>1. Fed(Worker)'
    BY <1>n, <1>F, <1>T DEF Fed
  <2> QED
    BY <1>0, <1>n, <2>1, <1>T, FedFrame
\* After a transition: to rank what was claimed, or to look again.
<1>a. ASSUME NEW a \in Actors, NEW moved \in BOOLEAN, After(a, moved), Still
      PROVE  FedInv'
  <2>1. PICK l \in Role(a) :
          /\ pc' = [pc EXCEPT ![a] = l]
          /\ l \in {"done", "upsert", "look_again", "fetch", "stuck", "silent"}
          /\ l = "fetch" => pc[a] = "claim" /\ moved
          /\ l = "look_again" => pc[a] = "receive"
    BY <1>a, AfterGoes
  <2>2. pc'[a] = l /\ l \in Labels /\ (a \in Replies => count[a] \in Nat)
    BY <2>1, <1>T, RoleLabels
  <2>s. /\ quotes' = quotes /\ at' = at /\ count' = count /\ Fed(a)
        /\ Cardinality(quotes[at[a]]) \in Nat
    BY <1>a, <1>F, <1>c
  <2>3. ASSUME l = "fetch" PROVE Fed(a)'
    <3>1. a \in Replies => Cardinality(quotes[at[a]]) >= MinQuotes
      BY <2>1, <2>2, <2>3, <2>s DEF Fed
    <3> QED
      BY <2>2, <2>3, <2>s, <3>1 DEF Fed, Ranking
  <2>4. ASSUME l = "look_again" PROVE Fed(a)'
    <3>1. a \in Replies => count[a] <= Cardinality(quotes[at[a]])
      BY <2>1, <2>4, <2>s DEF Fed
    <3> QED
      BY <2>2, <2>4, <2>s, <3>1 DEF Fed, Ranking
  <2>5. ASSUME l \notin {"fetch", "look_again"} PROVE Fed(a)'
    <3>1. l \in Idle
      BY <2>1, <2>2, <2>5 DEF Idle, Ranking
    <3> QED
      BY <2>1, <3>1, <1>i
  <2>6. Fed(a)'
    BY <2>3, <2>4, <2>5
  <2> QED
    BY <1>a, <2>1, <2>6, <1>w
<1>1. ASSUME NEW a \in Actors, TakeLock(a) PROVE FedInv'
  BY <1>1, <1>n, <1>a DEF TakeLock
<1>2. ASSUME NEW a \in Actors, CompareAndSet(a) PROVE FedInv'
  BY <1>2, <1>n DEF CompareAndSet
<1>3. ASSUME NEW a \in Actors, GiveLock(a) PROVE FedInv'
  <2>1. After(a, tx[a] = "won") /\ (tx[a] = "won") \in BOOLEAN /\ Still
    BY <1>3 DEF GiveLock
  <2> QED
    BY <2>1, <1>a
<1>4. ASSUME NEW a \in Actors, TransitionError(a) PROVE FedInv'
  <2>1. PICK l \in Idle : pc' = [pc EXCEPT ![a] = l]
    BY <1>4, <1>r DEF TransitionError
  <2> QED
    BY <1>4, <2>1, <1>i, <1>w DEF TransitionError
<1>5. ASSUME NEW a \in Actors, Walk(a) PROVE FedInv'
  <2>0. Still
    BY <1>5, WalkGoes
  <2>1. PICK l \in Role(a) :
          /\ pc' = [pc EXCEPT ![a] = l]
          /\ l \notin Ranking \cup {"look", "look_again"}
          /\ l \in {"receive", "claim"} =>
               a \in Replies /\ pc[a] \in {"look", "look_again"}
          /\ l = "claim" => count[a] >= MinQuotes
    BY <1>5, WalkGoes
  <2>2. pc'[a] = l /\ l \in Labels /\ (a \in Replies => count[a] \in Nat)
    BY <2>1, <1>T, RoleLabels
  <2>s. /\ quotes' = quotes /\ at' = at /\ count' = count /\ ranked' = ranked /\ Fed(a)
        /\ Cardinality(quotes[at[a]]) \in Nat
    BY <2>0, <1>F, <1>c
  <2>4. ASSUME l \in {"receive", "claim"} PROVE Fed(a)'
    <3>1. a \in Replies /\ count[a] <= Cardinality(quotes[at[a]])
      BY <2>1, <2>4, <2>s DEF Fed
    <3> QED
      BY <2>1, <2>2, <2>4, <2>s, <3>1 DEF Fed, Ranking
  <2>5. ASSUME l \notin {"receive", "claim"} PROVE Fed(a)'
    <3>1. l \in Idle
      BY <2>1, <2>2, <2>5 DEF Idle
    <3> QED
      BY <2>1, <3>1, <1>i
  <2>6. Fed(a)'
    BY <2>4, <2>5
  <2> QED
    BY <2>0, <2>1, <2>6, <1>w
<1>6. ASSUME NEW a \in Actors, Crash(a) PROVE FedInv'
  <2>1. PICK l \in {"done", "sleep"} : pc' = [pc EXCEPT ![a] = l]
    BY <1>6 DEF Crash, Goto
  <2>2. l \in Idle
    BY DEF Idle, Ranking, Labels, WorkerLabels
  <2> QED
    BY <1>6, <2>1, <2>2, <1>i, <1>w DEF Crash
<1>7. ASSUME NEW g \in Goals,
             DispatchRfqs(g) \/ ReadToEscalate(g)
      PROVE  FedInv'
  <2>1. PICK l \in Idle : pc' = [pc EXCEPT ![g] = l]
    <3>1. {"to_pending", "no_vendors", "done", "escalate"} \subseteq Idle
      BY DEF Idle, Ranking, Labels, Sites
    <3>2. \/ Goto(g, "to_pending") \/ Goto(g, "no_vendors") \/ Goto(g, "done")
          \/ Goto(g, "escalate") \/ Raise(g)
      BY <1>7 DEF DispatchRfqs, Dispatched, DispatchedInChat, DispatchFailed,
                  ReadToEscalate
    <3> QED
      BY <3>1, <3>2, <1>r, <1>T DEF Goto
  <2>2. Still /\ g \in Actors
    BY <1>7, <1>T DEF DispatchRfqs, ReadToEscalate
  <2> QED
    BY <2>1, <2>2, <1>i, <1>w
<1>8. ASSUME NEW r \in Replies, RouteToSole(r) \/ AddQuote(r) PROVE FedInv'
  <2>1. PICK l \in Idle : pc' = [pc EXCEPT ![r] = l]
    <3>1. {"parse", "done", "count"} \subseteq Idle
      BY DEF Idle, Ranking, Labels, ReplyLabels
    <3> QED
      BY <1>8, <3>1 DEF RouteToSole, AddQuote, Goto
  <2>2. Fed(r)' /\ r \in Actors
    BY <2>1, <1>i, <1>T
  <2>3. CASE RouteToSole(r)
    <3>1. \A b \in Actors \ {r} : at'[b] = at[b]
      BY <2>3, <1>T DEF RouteToSole
    <3> QED
      BY <1>0, <2>1, <2>2, <2>3, <3>1, <1>T, FedFrame DEF RouteToSole
  <2>4. CASE AddQuote(r)
    <3>1. \A g \in Goals : quotes[g] \subseteq quotes'[g]
      BY <2>4, <1>T DEF AddQuote
    <3> QED
      BY <1>0, <2>1, <2>2, <2>4, <3>1, <1>T, FedFrame DEF AddQuote
  <2> QED
    BY <1>8, <2>3, <2>4
<1>9. ASSUME NEW r \in Replies, CountQuotes(r) PROVE FedInv'
  <2>1. /\ r \in Actors /\ pc'[r] = "look" /\ count'[r] = Cardinality(quotes[at[r]])
        /\ UNCHANGED <<quotes, options, stamped, cards, shown, at, ranked>>
        /\ \A b \in Actors \ {r} : pc'[b] = pc[b]
        /\ \A q \in Replies \ {r} : count'[q] = count[q]
    BY <1>9, <1>T DEF CountQuotes, Goto
  <2>2. Fed(r)'
    BY <2>1, <1>c DEF Fed, Ranking
  <2> QED
    BY <1>0, <2>1, <2>2, FedFrame
<1>10. ASSUME NEW a \in Actors, FetchQuotes(a) PROVE FedInv'
  <2>1. /\ pc[a] = "fetch" /\ pc'[a] = "rank" /\ ranked'[a] = quotes[at[a]]
        /\ UNCHANGED <<quotes, options, stamped, cards, shown, at, count>>
        /\ \A b \in Actors \ {a} : pc'[b] = pc[b] /\ ranked'[b] = ranked[b]
    BY <1>10, <1>T DEF FetchQuotes, At, Goto
  <2>2. Fed(a)'
    BY <2>1, <1>F DEF Fed, Ranking
  <2> QED
    BY <1>0, <2>1, <2>2, FedFrame
<1>11. ASSUME NEW a \in Actors, SaveOptions(a) PROVE FedInv'
  <2>1. /\ pc[a] = "save" /\ pc'[a] = "stamp" /\ options'[at[a]] = ranked[a]
        /\ UNCHANGED <<quotes, stamped, cards, shown, at, count, ranked>>
        /\ \A b \in Actors \ {a} : pc'[b] = pc[b]
        /\ \A g \in Goals \ {at[a]} : options'[g] = options[g]
    BY <1>11, <1>T DEF SaveOptions, At, Goto
  <2>2. cards[at[a]] = 0 /\ \A b \in Actors \ {a} : Ranks(b) => at[b] # at[a]
    BY <2>1 DEF RankInv, Ranks, Ranking
  <2>3. Fed(a)'
    BY <2>1, <1>F DEF Fed, Ranking
  <2>4. \A b \in Actors \ {a} : Ranks(b) => options'[at[b]] = options[at[b]]
    BY <2>1, <2>2, <1>T
  <2>5. \A g \in Goals : cards'[g] > 0 => cards[g] > 0 /\ options'[g] = options[g]
    BY <2>1, <2>2, <1>T
  <2> QED
    BY <1>0, <2>1, <2>3, <2>4, <2>5, FedFrame
<1>12. ASSUME NEW a \in Actors, StampSent(a) PROVE FedInv'
  <2>1. /\ pc[a] = "stamp" /\ pc'[a] = "card" /\ stamped'[at[a]]
        /\ UNCHANGED <<quotes, options, cards, shown, at, count, ranked>>
        /\ \A b \in Actors \ {a} : pc'[b] = pc[b]
        /\ \A g \in Goals : stamped[g] => stamped'[g]
    BY <1>12, <1>T DEF StampSent, At, Goto
  <2>2. Fed(a)'
    BY <2>1, <1>F DEF Fed, Ranking
  <2> QED
    BY <1>0, <2>1, <2>2, FedFrame
<1>13. ASSUME NEW a \in Actors, SendCard(a) PROVE FedInv'
  <2>1. PICK l \in Idle : pc' = [pc EXCEPT ![a] = l]
    <3>1. {"stuck", "done"} \subseteq Idle
      BY DEF Idle, Ranking, Labels, WorkerLabels
    <3> QED
      BY <1>13, <3>1, <1>r DEF SendCard, Resume, Goto
  <2>2. options[at[a]] = ranked[a] /\ stamped[at[a]]
    BY <1>13, <1>F DEF SendCard, At, Fed
  <2>5. \/ UNCHANGED <<cards, shown>>
        \/ /\ cards' = [cards EXCEPT ![at[a]] = @ + 1]
           /\ shown' = [shown EXCEPT ![at[a]] = ranked[a]]
    BY <1>13 DEF SendCard
  <2>3. UNCHANGED <<quotes, options, stamped, at, count, ranked>>
    BY <1>13 DEF SendCard
  <2>4. Fed(a)' /\ \A b \in Actors \ {a} : pc'[b] = pc[b]
    BY <2>1, <1>i, <1>T
  <2>6. \A g \in Goals : cards'[g] > 0 =>
           \/ cards[g] > 0 /\ shown'[g] = shown[g] /\ options'[g] = options[g]
           \/ stamped'[g] /\ shown'[g] = options'[g]
    <3>1. shown \in [Goals -> SUBSET Replies] /\ at[a] \in Goals
      BY <1>T DEF Typed, TypeOK
    <3>2. CASE UNCHANGED <<cards, shown>>
      BY <2>3, <3>2
    <3>3. CASE /\ cards' = [cards EXCEPT ![at[a]] = @ + 1]
               /\ shown' = [shown EXCEPT ![at[a]] = ranked[a]]
      <4>1. shown'[at[a]] = ranked[a]
        BY <3>1, <3>3
      <4>2. \A g \in Goals \ {at[a]} : cards'[g] = cards[g] /\ shown'[g] = shown[g]
        BY <3>1, <3>3, <1>T
      <4> QED
        BY <2>2, <2>3, <4>1, <4>2
    <3> QED
      BY <2>5, <3>2, <3>3
  <2> QED
    BY <1>0, <2>3, <2>4, <2>6, <1>T, FedFrame
<1>14. ASSUME ListStuck \/ NextStuck \/ ListSilent \/ NextSilent PROVE FedInv'
  <2>1. /\ UNCHANGED <<quotes, options, stamped, cards, shown, count, ranked>>
        /\ \A b \in Actors \ {Worker} : at'[b] = at[b] /\ pc'[b] = pc[b]
    BY <1>14, <1>T DEF ListStuck, NextStuck, ListSilent, NextSilent, Goto
  <2>2. Fed(Worker)'
    <3>1. \E l \in WorkerLabels \cup {"claim", "time_out"} : pc' = [pc EXCEPT ![Worker] = l]
      BY <1>14 DEF ListStuck, NextStuck, ListSilent, NextSilent, Goto, WorkerLabels
    <3>2. pc'[Worker] \in WorkerLabels \cup {"claim", "time_out"}
      BY <3>1, <1>T
    <3> QED
      BY <3>2, <1>T DEF Fed, WorkerLabels
  <2> QED
    BY <1>0, <2>1, <2>2, <1>T, FedFrame
<1>15. ASSUME NEW g \in Goals, Age(g) \/ ExpireState(g) PROVE FedInv'
  BY <1>15, <1>n DEF Age, ExpireState
<1>16. UNCHANGED vars => FedInv'
  BY <1>n DEF vars
<1>17. ASSUME NEW a \in Actors, RankOptions(a) PROVE FedInv'
  <2>1. /\ UNCHANGED <<quotes, options, stamped, cards, shown, at, count>>
        /\ \A b \in Actors \ {a} : ranked'[b] = ranked[b]
    BY <1>17, <1>T DEF RankOptions
  <2>2. PICK l \in Idle \cup {"save"} : pc' = [pc EXCEPT ![a] = l]
    BY <1>17, <1>r DEF RankOptions, Goto
  <2>3. Fed(a)'
    <3>1. CASE l = "save"
      BY <2>2, <3>1, <1>T DEF Fed
    <3>2. CASE l \in Idle
      BY <2>2, <3>2, <1>i
    <3> QED
      BY <3>1, <3>2
  <2> QED
    BY <1>0, <2>1, <2>2, <2>3, <1>T, FedFrame
<1> QED
  BY <1>T, <1>1, <1>2, <1>3, <1>4, <1>5, <1>6, <1>7, <1>8, <1>9, <1>10, <1>11, <1>12,
     <1>13, <1>14, <1>15, <1>16, <1>17
     DEF Next, Task, Transition, Handle, Rank, Job, Fault, Walk

\* It holds at first and always.
LEMMA FedAlways == Spec => []FedInv
<1>1. Init => FedInv
  <2> SUFFICES ASSUME Init PROVE FedInv
    OBVIOUS
  <2>1. \A a \in Actors : Fed(a)
    <3> SUFFICES ASSUME NEW a \in Actors PROVE Fed(a)
      OBVIOUS
    <3>1. pc[a] \in {"to_pending", "start", "unsent", "sleep"}
      BY DEF Init, Actors
    <3> QED
      BY <3>1 DEF Fed, Ranking
  <2>2. \A g \in Goals : cards[g] = 0
    BY DEF Init
  <2> QED
    BY <2>1, <2>2 DEF FedInv
<1> QED
  BY <1>1, TypedAlways, RankAlways, FedStep, PTL DEF Spec

\* A reply's handler ranks enough quotes, although it counted them before it
\* won the goal, whatever fails (QuoteCollection!RepliesRankEnough).
THEOREM RepliesRankEnoughThm == Spec => []RepliesRankEnough
<1>1. FedInv => RepliesRankEnough
  BY DEF FedInv, Fed, RepliesRankEnough, Actors
<1> QED
  BY <1>1, FedAlways, PTL

----------------------------------------------------------------------------
(* A card of its goal, while no command of the store fails *)

\* The task of g has not moved its goal yet.
Early(g) ==
  \/ g \notin Chat /\ pc[g] \in TaskLabels
  \/ pc[g] \in {"to_pending", "no_vendors", "escalate"} /\ tx[g] \in {"lock", "cas"}

\* Only its task moves a goal out of "processing", so no escalation takes a
\* goal out of pending_approval.
CalmInv ==
  /\ \A g \in Goals : current[g] = "processing"
  /\ \A g \in Goals : Early(g) => status[g] = "processing"
  /\ \A a \in Actors : Ranks(a) => status[at[a]] = "pending_approval"
  /\ \A g \in Goals : cards[g] > 0 => status[g] = "pending_approval"

\* Every step but an error keeps it.
LEMMA CalmStep ==
  ASSUME "error" \notin Faults, Typed, CalmInv, [Next]_vars
  PROVE  CalmInv'
<1> USE DEF goalVars, outside, actorVars
<1>T. /\ pc \in [Actors -> Labels] /\ at \in [Actors -> Goals]
      /\ tx \in [Actors -> {"lock", "cas", "won", "lost"}]
      /\ status \in [Goals -> GoalState] /\ cards \in [Goals -> Nat]
      /\ current \in [Goals -> GoalState]
      /\ Goals \subseteq Actors /\ Replies \subseteq Actors /\ Worker \in Actors
      /\ Sites \cap Ranking = {} /\ \A g \in Goals : at[g] = g
      /\ Worker \notin Goals /\ Goals \cap Replies = {} /\ Chat \subseteq Goals
  BY DEF Typed, TypeOK, Roles, Actors, Sites, Ranking
<1>p. \A a \in Actors :
        /\ pc[a] \in {"escalate", "no_vendors", "to_pending"} => a \in Goals
        /\ pc[a] \in Ranking \cup {"claim"} => a \notin Goals
  BY DEF Typed, Roles, Role, Actors, ReplyLabels, WorkerLabels, Ranking, TaskLabels
\* A step that moves no goal and lets nobody be early or rank.
<1>f. ASSUME status' = status, current' = current, cards' = cards,
             \A b \in Actors : Ranks(b)' => Ranks(b) /\ at'[b] = at[b],
             \A g \in Goals : Early(g)' => Early(g)
      PROVE  CalmInv'
  BY <1>f, <1>T DEF CalmInv
<1>w. ASSUME NEW a \in Actors, NEW l, pc' = [pc EXCEPT ![a] = l],
             (tx[a] # "won" /\ tx' = tx) \/ tx' = [tx EXCEPT ![a] = "lock"],
             l \in Ranking => Ranks(a),
             \/ Early(a)
             \/ l \notin TaskLabels \cup {"to_pending", "no_vendors", "escalate"}
             \/ a \notin Goals
             \/ a \in Chat /\ l \in {"upsert", "dispatch"},
             at' = at, status' = status, cards' = cards, current' = current
      PROVE  CalmInv'
  <2>1. \A b \in Actors : Ranks(b)' => Ranks(b)
    BY <1>w, <1>T DEF Ranks
  <2>2. \A g \in Goals \ {a} : Early(g)' => Early(g)
    BY <1>w, <1>T DEF Early
  <2>3. a \in Goals => (Early(a)' => Early(a))
    BY <1>w, <1>T DEF Early, TaskLabels
  <2> QED
    BY <1>w, <2>1, <2>2, <2>3, <1>f
<1>1. ASSUME NEW a \in Actors, TakeLock(a) PROVE CalmInv'
  <2>1. CASE ~stateLock[at[a]]
    <3>1. /\ pc' = pc /\ tx' = [tx EXCEPT ![a] = "cas"] /\ tx[a] = "lock"
          /\ pc[a] \in Sites /\ UNCHANGED <<at, status, cards, current>>
      BY <1>1, <2>1 DEF TakeLock
    <3>2. \A b \in Actors : Ranks(b)' => Ranks(b)
      BY <3>1, <1>T DEF Ranks
    <3>3. \A g \in Goals : Early(g)' => Early(g)
      BY <3>1, <1>T DEF Early
    <3> QED
      BY <3>1, <3>2, <3>3, <1>f
  <2>2. CASE stateLock[at[a]]
    <3>1. After(a, FALSE) /\ UNCHANGED <<tx, at, status, cards, current>> /\ tx[a] = "lock"
      BY <1>1, <2>2 DEF TakeLock
    <3>2. PICK l : /\ pc' = [pc EXCEPT ![a] = l]
                   /\ l \in {"done", "upsert", "look_again", "stuck", "silent"}
                   /\ l = "upsert" => a \in Chat
      BY <3>1, AfterGoes
    <3>3. /\ l \notin Ranking
          /\ \/ l \notin TaskLabels \cup {"to_pending", "no_vendors", "escalate"}
             \/ a \in Chat /\ l \in {"upsert", "dispatch"}
      BY <3>2 DEF TaskLabels, Ranking
    <3> QED
      BY <3>1, <3>2, <3>3, <1>w
  <2> QED
    BY <2>1, <2>2
<1>2. ASSUME NEW a \in Actors, CompareAndSet(a) PROVE CalmInv'
  <2>0. /\ at' = at /\ pc' = pc /\ cards' = cards /\ current' = current
        /\ pc[a] \in Sites /\ tx[a] = "cas" /\ at[a] \in Goals /\ ~Ranks(a)
    BY <1>2, <1>T DEF CompareAndSet, Ranks
  <2>1. CASE ~Matches(a)
    <3>1. tx' = [tx EXCEPT ![a] = "lost"] /\ status' = status
      BY <1>2, <2>1 DEF CompareAndSet
    <3>2. \A b \in Actors : Ranks(b)' => Ranks(b)
      BY <3>1, <2>0, <1>T DEF Ranks
    <3>3. \A g \in Goals : Early(g)' => Early(g)
      BY <3>1, <2>0, <1>T DEF Early
    <3> QED
      BY <2>0, <3>1, <3>2, <3>3, <1>f
  <2>2. CASE Matches(a)
    <3>1. status' = [status EXCEPT ![at[a]] = To(a)] /\ tx' = [tx EXCEPT ![a] = "won"]
      BY <1>2, <2>2 DEF CompareAndSet, SetState
    <3>2. status[at[a]] # "pending_approval"
      <4>1. pc[a] = "escalate" => current[a] = "processing"
        BY <1>p DEF CalmInv
      <4> QED
        BY <4>1, <2>0, <2>2 DEF Matches, From, Sites
    <3>3. pc[a] = "claim" => To(a) = "pending_approval"
      BY DEF To
    <3>4. \A g \in Goals : cards[g] > 0 => status'[g] = "pending_approval"
      BY <3>1, <3>2, <2>0, <1>T DEF CalmInv
    <3>5. \A b \in Actors : Ranks(b)' => status'[at[b]] = "pending_approval"
      <4>1. \A b \in Actors \ {a} : Ranks(b)' => Ranks(b) /\ at[b] # at[a]
        BY <3>1, <3>2, <2>0, <1>T DEF Ranks, CalmInv
      <4>2. Ranks(a)' => pc[a] = "claim"
        BY <2>0, <1>T DEF Ranks
      <4> QED
        BY <4>1, <4>2, <3>1, <3>3, <2>0, <1>T DEF CalmInv
    <3>6. \A g \in Goals : Early(g)' => status'[g] = "processing"
      <4>1. \A g \in Goals \ {a} : Early(g)' => Early(g)
        BY <3>1, <2>0, <1>T DEF Early
      <4>2. a \in Goals => ~Early(a)'
        <5>1. pc[a] \notin TaskLabels /\ tx'[a] = "won" /\ pc'[a] = pc[a]
          BY <3>1, <2>0, <1>T DEF Sites, TaskLabels
        <5> QED
          BY <5>1 DEF Early
      <4>3. a \notin Goals => status[at[a]] # "processing"
        <5>1. a \notin Goals => pc[a] \in {"receive", "claim", "time_out"}
          BY <2>0, <1>p DEF Sites
        <5> QED
          BY <5>1, <2>2 DEF Matches, From
      <4>4. \A g \in Goals \ {a} : Early(g) => g # at[a]
        BY <4>3, <1>T DEF CalmInv
      <4> QED
        BY <4>1, <4>2, <4>4, <3>1, <1>T DEF CalmInv
    <3> QED
      BY <2>0, <3>4, <3>5, <3>6 DEF CalmInv
  <2> QED
    BY <2>1, <2>2
<1>3. ASSUME NEW a \in Actors, GiveLock(a) PROVE CalmInv'
  <2>1. /\ After(a, tx[a] = "won") /\ (tx[a] = "won") \in BOOLEAN
        /\ tx' = [tx EXCEPT ![a] = "lock"] /\ UNCHANGED <<at, status, cards, current>>
    BY <1>3 DEF GiveLock
  <2>2. PICK l \in Role(a) :
          /\ pc' = [pc EXCEPT ![a] = l]
          /\ l \in {"done", "upsert", "look_again", "fetch", "stuck", "silent"}
          /\ l = "fetch" => pc[a] = "claim" /\ tx[a] = "won"
          /\ l = "upsert" => a \in Chat
    BY <2>1, AfterGoes
  <2>3. l \in Ranking => Ranks(a)
    BY <2>2 DEF Ranking, Ranks
  <2>4. \/ l \notin TaskLabels \cup {"to_pending", "no_vendors", "escalate"}
        \/ a \in Chat /\ l \in {"upsert", "dispatch"}
    BY <2>2 DEF TaskLabels
  <2> QED
    BY <2>1, <2>2, <2>3, <2>4, <1>w
<1>5. ASSUME NEW a \in Actors, Walk(a) PROVE CalmInv'
  <2>1. UNCHANGED <<goalVars, outside, tx, at, current>> /\ tx[a] = "lock"
    BY <1>5, WalkGoes
  <2>2. PICK l \in Role(a) :
          /\ pc' = [pc EXCEPT ![a] = l]
          /\ l \notin {"start", "to_pending", "escalate"} \cup Ranking
          /\ l \in {"search", "upsert", "no_vendors", "dispatch"} =>
               a \in Chat \/ pc[a] \in {"start", "search", "upsert"}
          /\ l = "escalate_read" => pc[a] = "search" \/ "error" \in Faults
    BY <1>5, WalkGoes
  <2>4. CASE a \in Chat
    <3>1. l \in {"upsert", "dispatch", "done"}
      BY <2>2, <2>4 DEF Role
    <3> QED
      BY <2>1, <2>2, <2>4, <3>1, <1>w DEF TaskLabels
  <2>5. CASE a \in Goals \ Chat
    <3>1. Early(a) \/ l \notin TaskLabels \cup {"to_pending", "no_vendors", "escalate"}
      BY <2>2, <2>5 DEF Early, TaskLabels
    <3> QED
      BY <2>1, <2>2, <3>1, <1>w
  <2>6. CASE a \notin Goals
    BY <2>1, <2>2, <2>6, <1>w
  <2> QED
    BY <2>4, <2>5, <2>6, <1>T
<1>6. ASSUME NEW a \in Actors, Crash(a) PROVE CalmInv'
  <2>1. PICK l \in {"done", "sleep"} : pc' = [pc EXCEPT ![a] = l]
    BY <1>6 DEF Crash, Goto
  <2>2. l \notin Ranking /\ l \notin TaskLabels \cup {"to_pending", "no_vendors", "escalate"}
    BY DEF Ranking, TaskLabels
  <2> QED
    BY <1>6, <2>1, <2>2, <1>w DEF Crash
<1>7. ASSUME NEW g \in Goals, DispatchRfqs(g) PROVE CalmInv'
  <2>1. /\ UNCHANGED <<tx, at, status, cards, current>> /\ tx[g] = "lock"
        /\ pc[g] = "dispatch" /\ g \in Actors
    BY <1>7, <1>T DEF DispatchRfqs, At
  <2>2. CASE g \notin Chat
    <3>1. Early(g)
      BY <2>1, <2>2 DEF Early, TaskLabels
    <3>2. \/ Goto(g, "to_pending") \/ Goto(g, "no_vendors") \/ Raise(g)
      BY <1>7, <2>2 DEF DispatchRfqs, Dispatched, DispatchFailed
    <3>3. PICK l : pc' = [pc EXCEPT ![g] = l] /\ l \notin Ranking
      BY <3>2, <2>1, RaiseGoes DEF Goto, Ranking
    <3> QED
      BY <2>1, <3>1, <3>3, <1>w
  <2>3. CASE g \in Chat
    <3>1. Goto(g, "done")
      BY <1>7, <2>1, <2>3, <1>T DEF DispatchRfqs, DispatchedInChat, DispatchFailed, Raise
    <3>2. "done" \notin Ranking
          /\ "done" \notin TaskLabels \cup {"to_pending", "no_vendors", "escalate"}
      BY DEF Ranking, TaskLabels
    <3> QED
      BY <2>1, <3>1, <3>2, <1>w DEF Goto
  <2> QED
    BY <2>2, <2>3
<1>8. ASSUME NEW g \in Goals, ReadToEscalate(g) PROVE CalmInv'
  <2>1. /\ UNCHANGED <<tx, at, status, cards>> /\ tx[g] = "lock" /\ g \in Actors
        /\ pc[g] = "escalate_read" /\ pc' = [pc EXCEPT ![g] = "escalate"]
        /\ current' = [current EXCEPT ![g] = status[g]]
    BY <1>8, <1>T DEF ReadToEscalate, At, Goto
  <2>2. g \notin Chat
    BY <2>1 DEF Typed, Roles, Role
  <2>3. Early(g)
    BY <2>1, <2>2 DEF Early, TaskLabels
  <2>4. current' = current
    BY <2>1, <2>3, <1>T DEF CalmInv
  <2>5. "escalate" \notin Ranking
    BY DEF Ranking
  <2> QED
    BY <2>1, <2>3, <2>4, <2>5, <1>w
<1>9. ASSUME NEW r \in Replies,
             RouteToSole(r) \/ AddQuote(r) \/ CountQuotes(r)
      PROVE  CalmInv'
  <2>1. \A b \in Actors : Ranks(b)' => Ranks(b) /\ at'[b] = at[b]
    BY <1>9, <1>T DEF RouteToSole, AddQuote, CountQuotes, At, Goto, Ranks, Ranking
  <2>2. /\ UNCHANGED <<status, cards, current, tx>> /\ r \notin Goals
        /\ \A g \in Goals : pc'[g] = pc[g]
    BY <1>9, <1>T DEF RouteToSole, AddQuote, CountQuotes, Goto
  <2> QED
    BY <2>1, <2>2, <1>f DEF Early
<1>10. ASSUME NEW a \in Actors,
              FetchQuotes(a) \/ RankOptions(a) \/ SaveOptions(a) \/ StampSent(a)
       PROVE  CalmInv'
  <2>1. /\ Ranks(a) /\ tx[a] = "lock" /\ pc[a] \in Ranking
        /\ \/ Goto(a, "rank") \/ Goto(a, "save") \/ Goto(a, "stamp") \/ Goto(a, "card")
           \/ Raise(a)
        /\ UNCHANGED <<tx, at, status, cards, current>>
    BY <1>10 DEF FetchQuotes, RankOptions, SaveOptions, StampSent, At, Ranks, Ranking
  <2>2. \E l : pc' = [pc EXCEPT ![a] = l]
    BY <2>1, RaiseGoes DEF Goto
  <2> QED
    BY <2>1, <2>2, <1>p, <1>w
<1>11. ASSUME NEW a \in Actors, SendCard(a) PROVE CalmInv'
  <2>1. /\ Ranks(a) /\ at[a] \in Goals /\ tx[a] = "lock" /\ a \notin Goals
        /\ UNCHANGED <<tx, at, status, current>>
    BY <1>11, <1>T, <1>p DEF SendCard, At, Ranks, Ranking
  <2>2. PICK l : pc' = [pc EXCEPT ![a] = l] /\ l \notin Ranking
    <3>1. Resume(a) \/ Raise(a)
      BY <1>11 DEF SendCard
    <3> QED
      BY <3>1, RaiseGoes DEF Resume, Goto, Ranking
  <2>3. \A g \in Goals : cards'[g] > 0 => status'[g] = "pending_approval"
    BY <1>11, <2>1, <1>T DEF SendCard, CalmInv
  <2>4. \A b \in Actors : Ranks(b)' => Ranks(b)
    BY <2>1, <2>2, <1>T DEF Ranks
  <2>5. \A g \in Goals : Early(g)' => Early(g)
    BY <2>1, <2>2, <1>T DEF Early
  <2> QED
    BY <2>1, <2>3, <2>4, <2>5, <1>T DEF CalmInv
<1>12. ASSUME ListStuck \/ NextStuck \/ ListSilent \/ NextSilent PROVE CalmInv'
  <2>1. \A b \in Actors : Ranks(b)' => Ranks(b) /\ at'[b] = at[b]
    BY <1>12, <1>T DEF ListStuck, NextStuck, ListSilent, NextSilent, At, Goto, Ranks,
                       Ranking
  <2>2. /\ UNCHANGED <<status, cards, current, tx>>
        /\ \A g \in Goals : pc'[g] = pc[g]
    BY <1>12, <1>T DEF ListStuck, NextStuck, ListSilent, NextSilent, Goto
  <2> QED
    BY <2>1, <2>2, <1>f DEF Early
<1>13. CASE UNCHANGED <<status, cards, pc, tx, at, current>>
  <2>1. \A b \in Actors : Ranks(b)' => Ranks(b)
    BY <1>13 DEF Ranks
  <2>2. \A g \in Goals : Early(g)' => Early(g)
    BY <1>13 DEF Early
  <2> QED
    BY <1>13, <2>1, <2>2, <1>f
<1>14. ASSUME NEW g \in Goals, Age(g) \/ ExpireState(g)
       PROVE  UNCHANGED <<status, cards, pc, tx, at, current>>
  BY <1>14 DEF Age, ExpireState
<1>15. UNCHANGED vars => UNCHANGED <<status, cards, pc, tx, at, current>>
  BY DEF vars
<1>16. \A a \in Actors : ~TransitionError(a) /\ ~Error(a)
  BY DEF TransitionError, Error
<1> QED
  BY <1>T, <1>1, <1>2, <1>3, <1>5, <1>6, <1>7, <1>8, <1>9, <1>10, <1>11, <1>12,
     <1>13, <1>14, <1>15, <1>16
     DEF Next, Task, Transition, Handle, Rank, Job, Fault, Walk

\* While no command of the store or of Redis fails, crashes or not, a card is
\* about a goal that awaits approval, with its clock running and the buttons of
\* the options it has, whatever the models answered (QuoteCollection!CardMatchesGoal).
THEOREM CardMatchesGoalThm ==
  ASSUME "error" \notin Faults
  PROVE  Spec => []CardMatchesGoal
<1>1. Init => CalmInv
  <2> SUFFICES ASSUME Init PROVE CalmInv
    OBVIOUS
  <2>1. \A a \in Actors : ~Ranks(a)
    <3> SUFFICES ASSUME NEW a \in Actors PROVE ~Ranks(a)
      OBVIOUS
    <3>1. pc[a] \in {"to_pending", "start", "unsent", "sleep"}
      BY DEF Init, Actors
    <3> QED
      BY <3>1 DEF Init, Ranks, Ranking
  <2>2. \A g \in Goals :
          cards[g] = 0 /\ status[g] = "processing" /\ current[g] = "processing"
    BY DEF Init
  <2> QED
    BY <2>1, <2>2 DEF CalmInv
<1>2. Typed /\ CalmInv /\ [Next]_vars => CalmInv'
  BY CalmStep
<1>3. CalmInv /\ FedInv => CardMatchesGoal
  BY DEF CalmInv, FedInv, CardMatchesGoal
<1> QED
  BY <1>1, <1>2, <1>3, TypedAlways, FedAlways, PTL DEF Spec
=============================================================================
