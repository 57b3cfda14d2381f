------------------------ MODULE GoalStateLockProofs ------------------------
(***************************************************************************)
(* Proofs about GoalStateLock, for any set of goals, callers, states and   *)
(* transitions, and any of the modelled faults.                            *)
(***************************************************************************)
EXTENDS GoalStateLock, TLAPS

----------------------------------------------------------------------------
(* The inductive invariant *)

\* A holder's key is in Redis: nobody deleted it and it did not expire.
HeldKeyExists ==
  \A p \in Procs, g \in Goals : Holds(p, g) => lockKey[g]

\* The history variable agrees with where the caller is and with what it is
\* about to return.
WroteAgrees ==
  \A p \in Procs :
    /\ pc[p] \in {"acquire", "read", "write"} => ~wrote[p]
    /\ pc[p] = "cache" => wrote[p]
    /\ pc[p] = "release" => \/ ret[p] = "raised"
                            \/ ret[p] = "true" /\ wrote[p]
                            \/ ret[p] = "false" /\ ~wrote[p]

LockInv == TypeOK /\ HeldKeyExists /\ MutualExclusion

IInv == LockInv /\ CheckedStateStands

----------------------------------------------------------------------------

\* A request names a goal and two states.
LEMMA RequestType ==
  ASSUME NEW r \in Requests
  PROVE  r.goal \in Goals /\ r.from \in States /\ r.to \in States
<1>1. PICK g \in Goals, e \in Edges : r = [goal |-> g, from |-> e[1], to |-> e[2]]
  BY DEF Requests
<1>2. e \in States \X States
  BY LockAssumption DEF LockAssumption
<1> QED
  BY <1>1, <1>2

\* The initial states are well typed.
LEMMA TypeInit == Init => TypeOK
  BY DEF Init, TypeOK, Labels, Results

\* Every step keeps the types.
LEMMA TypeStep == TypeOK /\ [Next]_vars => TypeOK'
<1> SUFFICES ASSUME TypeOK, [Next]_vars PROVE TypeOK'
  OBVIOUS
<1> USE DEF TypeOK, Labels, Results, Goto, Leave, Finally, SetStatus
<1>1. ASSUME NEW p \in Procs, NEW r \in Requests, Invoke(p, r) PROVE TypeOK'
  BY <1>1 DEF Invoke
<1>2. ASSUME NEW p \in Procs, Acquire(p) PROVE TypeOK'
  BY <1>2 DEF Acquire, TakeKey, KeyTaken
<1>3. ASSUME NEW p \in Procs, ReadState(p) PROVE TypeOK'
  BY <1>3 DEF ReadState, Matches
<1>4. ASSUME NEW p \in Procs, WriteState(p) PROVE TypeOK'
  BY <1>4, RequestType DEF WriteState
<1>5. ASSUME NEW p \in Procs, WriteCache(p) PROVE TypeOK'
  BY <1>5, RequestType DEF WriteCache
<1>6. ASSUME NEW p \in Procs, Release(p) PROVE TypeOK'
  BY <1>6 DEF Release
<1>7. ASSUME NEW p \in Procs, AcquireError(p) PROVE TypeOK'
  BY <1>7 DEF AcquireError
<1>8. ASSUME NEW p \in Procs, TryError(p) PROVE TypeOK'
  BY <1>8, RequestType DEF TryError
<1>9. ASSUME NEW p \in Procs, ReleaseError(p) PROVE TypeOK'
  BY <1>9 DEF ReleaseError
<1>10. ASSUME NEW p \in Procs, Crash(p) PROVE TypeOK'
  BY <1>10 DEF Crash
<1>11. ASSUME NEW g \in Goals, Expire(g) PROVE TypeOK'
  BY <1>11 DEF Expire
<1>12. ASSUME NEW g \in Goals, ExpireCache(g) PROVE TypeOK'
  BY <1>12 DEF ExpireCache
<1>13. CASE UNCHANGED vars
  BY <1>13 DEF vars
<1> QED
  BY <1>1, <1>2, <1>3, <1>4, <1>5, <1>6, <1>7, <1>8, <1>9, <1>10, <1>11,
     <1>12, <1>13 DEF Next, Command, Fault

\* The types of the variables hold in every reachable state, slow holders
\* and faults included (core/state_machine.py:99).
THEOREM TypeCorrect == Spec => []TypeOK
<1> QED
  BY TypeInit, TypeStep, PTL DEF Spec

----------------------------------------------------------------------------
(* Mutual exclusion.  The key has no owner, so the argument is that a key  *)
(* that exists is only deleted by its one holder, or expires when it has   *)
(* none; HeldKeyExists makes that inductive.                               *)

\* Every step keeps the key of whoever is inside, and keeps others out.
LEMMA LockStep ==
  ASSUME ~SlowHolders, LockInv, [Next]_vars
  PROVE  LockInv'
<1>1. TypeOK'
  BY TypeStep DEF LockInv
<1> USE DEF LockInv, TypeOK, HeldKeyExists, MutualExclusion, Holds, InTry,
            Goto, Leave, Finally, SetStatus
<1>2. HeldKeyExists' /\ MutualExclusion'
  <2>1. ASSUME NEW p \in Procs, NEW r \in Requests, Invoke(p, r)
        PROVE  HeldKeyExists' /\ MutualExclusion'
    BY <2>1 DEF Invoke
  <2>2. ASSUME NEW p \in Procs, Acquire(p)
        PROVE  HeldKeyExists' /\ MutualExclusion'
    <3>1. CASE ~lockKey[req[p].goal]
      BY <2>2, <3>1, RequestType DEF Acquire, TakeKey, KeyTaken
    <3>2. CASE lockKey[req[p].goal]
      BY <2>2, <3>2, RequestType DEF Acquire, TakeKey, KeyTaken
    <3> QED
      BY <3>1, <3>2
  <2>3. ASSUME NEW p \in Procs, ReadState(p)
        PROVE  HeldKeyExists' /\ MutualExclusion'
    BY <2>3 DEF ReadState, Matches
  <2>4. ASSUME NEW p \in Procs, WriteState(p)
        PROVE  HeldKeyExists' /\ MutualExclusion'
    BY <2>4 DEF WriteState
  <2>5. ASSUME NEW p \in Procs, WriteCache(p)
        PROVE  HeldKeyExists' /\ MutualExclusion'
    BY <2>5 DEF WriteCache
  <2>6. ASSUME NEW p \in Procs, Release(p)
        PROVE  HeldKeyExists' /\ MutualExclusion'
    BY <2>6, RequestType DEF Release
  <2>7. ASSUME NEW p \in Procs, AcquireError(p)
        PROVE  HeldKeyExists' /\ MutualExclusion'
    BY <2>7, RequestType DEF AcquireError
  <2>8. ASSUME NEW p \in Procs, TryError(p)
        PROVE  HeldKeyExists' /\ MutualExclusion'
    BY <2>8 DEF TryError
  <2>9. ASSUME NEW p \in Procs, ReleaseError(p)
        PROVE  HeldKeyExists' /\ MutualExclusion'
    BY <2>9, RequestType DEF ReleaseError
  <2>10. ASSUME NEW p \in Procs, Crash(p)
         PROVE  HeldKeyExists' /\ MutualExclusion'
    BY <2>10 DEF Crash
  <2>11. ASSUME NEW g \in Goals, Expire(g)
         PROVE  HeldKeyExists' /\ MutualExclusion'
    BY <2>11 DEF Expire
  <2>12. ASSUME NEW g \in Goals, ExpireCache(g)
         PROVE  HeldKeyExists' /\ MutualExclusion'
    BY <2>12 DEF ExpireCache
  <2>13. CASE UNCHANGED vars
    BY <2>13 DEF vars
  <2> QED
    BY <2>1, <2>2, <2>3, <2>4, <2>5, <2>6, <2>7, <2>8, <2>9, <2>10, <2>11,
       <2>12, <2>13 DEF Next, Command, Fault
<1> QED
  BY <1>1, <1>2

\* Nobody is inside at first.
LEMMA LockInit == Init => LockInv
  BY TypeInit DEF Init, LockInv, HeldKeyExists, MutualExclusion, Holds, InTry

\* When no holder outlives its lease, at most one caller at a time is in the
\* critical section of a goal, whatever commands fail and whoever crashes.
THEOREM MutualExclusionThm ==
  ASSUME ~SlowHolders
  PROVE  Spec => []MutualExclusion
<1>1. LockInv /\ [Next]_vars => LockInv'
  BY LockStep
<1>2. LockInv => MutualExclusion
  BY DEF LockInv
<1> QED
  BY <1>1, <1>2, LockInit, PTL DEF Spec

----------------------------------------------------------------------------
(* The comparison stands until the write *)

\* Nobody else writes between a caller's comparison and its write.
LEMMA CheckedStep ==
  ASSUME ~SlowHolders, IInv, [Next]_vars
  PROVE  CheckedStateStands'
<1> USE DEF IInv, LockInv, TypeOK, CheckedStateStands, Goto, Leave, Finally,
            SetStatus
<1>1. ASSUME NEW p \in Procs, NEW r \in Requests, Invoke(p, r)
      PROVE  CheckedStateStands'
  BY <1>1 DEF Invoke
<1>2. ASSUME NEW p \in Procs, Acquire(p)
      PROVE  CheckedStateStands'
  BY <1>2, RequestType DEF Acquire, TakeKey, KeyTaken
<1>3. ASSUME NEW p \in Procs, ReadState(p)
      PROVE  CheckedStateStands'
  BY <1>3 DEF ReadState, Matches
<1>4. ASSUME NEW p \in Procs, WriteState(p)
      PROVE  CheckedStateStands'
  BY <1>4, RequestType DEF WriteState, MutualExclusion, Holds, InTry
<1>5. ASSUME NEW p \in Procs, WriteCache(p)
      PROVE  CheckedStateStands'
  BY <1>5 DEF WriteCache
<1>6. ASSUME NEW p \in Procs, Release(p)
      PROVE  CheckedStateStands'
  BY <1>6 DEF Release
<1>7. ASSUME NEW p \in Procs, AcquireError(p)
      PROVE  CheckedStateStands'
  BY <1>7 DEF AcquireError
<1>8. ASSUME NEW p \in Procs, TryError(p)
      PROVE  CheckedStateStands'
  BY <1>8, RequestType DEF TryError, MutualExclusion, Holds, InTry
<1>9. ASSUME NEW p \in Procs, ReleaseError(p)
      PROVE  CheckedStateStands'
  BY <1>9 DEF ReleaseError
<1>10. ASSUME NEW p \in Procs, Crash(p)
       PROVE  CheckedStateStands'
  BY <1>10 DEF Crash
<1>11. ASSUME NEW g \in Goals, Expire(g)
       PROVE  CheckedStateStands'
  BY <1>11 DEF Expire
<1>12. ASSUME NEW g \in Goals, ExpireCache(g)
       PROVE  CheckedStateStands'
  BY <1>12 DEF ExpireCache
<1>13. CASE UNCHANGED vars
  BY <1>13 DEF vars
<1> QED
  BY <1>1, <1>2, <1>3, <1>4, <1>5, <1>6, <1>7, <1>8, <1>9, <1>10, <1>11,
     <1>12, <1>13 DEF Next, Command, Fault

\* The inductive invariant holds at first.
LEMMA IInvInit == Init => IInv
  BY LockInit DEF IInv, Init, CheckedStateStands

\* Every step keeps it.
LEMMA IInvStep ==
  ASSUME ~SlowHolders, IInv, [Next]_vars
  PROVE  IInv'
<1>1. LockInv'
  BY LockStep DEF IInv
<1>2. CheckedStateStands'
  BY CheckedStep
<1> QED
  BY <1>1, <1>2 DEF IInv

\* It holds in every reachable state.
LEMMA IInvThm ==
  ASSUME ~SlowHolders
  PROVE  Spec => []IInv
<1>1. IInv /\ [Next]_vars => IInv'
  BY IInvStep
<1> QED
  BY <1>1, IInvInit, PTL DEF Spec

\* A caller about to write finds the goal in the state it compared with.
THEOREM CheckedStateStandsThm ==
  ASSUME ~SlowHolders
  PROVE  Spec => []CheckedStateStands
<1>1. IInv => CheckedStateStands
  BY DEF IInv
<1> QED
  BY <1>1, IInvThm, PTL

----------------------------------------------------------------------------
(* No write is lost under another one *)

\* Only the two actions that issue the UPDATE change a state, and both start
\* from a comparison that still stands.
LEMMA OnlyWritesChangeStatus ==
  ASSUME [Next]_vars, status' # status
  PROVE  \E p \in Procs : /\ pc[p] = "write"
                          /\ status' = [status EXCEPT ![req[p].goal] = req[p].to]
<1> USE DEF Goto, Leave, Finally, SetStatus
<1>1. CASE \E p \in Procs : WriteState(p)
  BY <1>1 DEF WriteState
<1>2. CASE \E p \in Procs : TryError(p)
  BY <1>2 DEF TryError
<1>3. ASSUME NEW p \in Procs, NEW r \in Requests, Invoke(p, r)
      PROVE  UNCHANGED status
  BY <1>3 DEF Invoke
<1>4. ASSUME NEW p \in Procs,
             \/ Acquire(p) \/ ReadState(p) \/ WriteCache(p) \/ Release(p)
             \/ AcquireError(p) \/ ReleaseError(p) \/ Crash(p)
      PROVE  UNCHANGED status
  BY <1>4 DEF Acquire, TakeKey, KeyTaken, ReadState, WriteCache, Release, AcquireError,
              ReleaseError, Crash
<1>5. ASSUME NEW g \in Goals, Expire(g) \/ ExpireCache(g)
      PROVE  UNCHANGED status
  BY <1>5 DEF Expire, ExpireCache
<1> QED
  BY <1>1, <1>2, <1>3, <1>4, <1>5 DEF Next, Command, Fault, vars

\* Every change of a goal's state is made by a caller that asked to leave
\* exactly the state that was replaced.
THEOREM NoClobberThm ==
  ASSUME ~SlowHolders
  PROVE  Spec => NoClobber
<1> DEFINE Justified ==
      \A g \in Goals :
        status'[g] # status[g] =>
          \E p \in Procs : /\ req[p].goal = g
                           /\ req[p].from = status[g]
                           /\ req[p].to = status'[g]
<1>1. IInv /\ [Next]_vars => [Justified]_vars
  <2> SUFFICES ASSUME IInv, [Next]_vars, NEW g \in Goals,
                      status'[g] # status[g]
               PROVE  \E p \in Procs : /\ req[p].goal = g
                                       /\ req[p].from = status[g]
                                       /\ req[p].to = status'[g]
    OBVIOUS
  <2>1. PICK p \in Procs :
             /\ pc[p] = "write"
             /\ status' = [status EXCEPT ![req[p].goal] = req[p].to]
    BY OnlyWritesChangeStatus
  <2>2. status[req[p].goal] = req[p].from
    BY <2>1 DEF IInv, CheckedStateStands
  <2>3. req[p].goal = g /\ req[p].to = status'[g]
    BY <2>1, RequestType DEF IInv, LockInv, TypeOK
  <2> QED
    BY <2>2, <2>3
<1> QED
  BY <1>1, IInvThm, PTL DEF Spec, NoClobber

\* Nobody's release, and no lease that runs out, frees the lock of a caller
\* that is still in its critical section.
THEOREM ReleasesOwnLockThm ==
  ASSUME ~SlowHolders
  PROVE  Spec => ReleasesOwnLock
<1>1. IInv' => \A g \in Goals, q \in Procs :
                 Holds(q, g) /\ Holds(q, g)' => lockKey'[g]
  BY DEF IInv, LockInv, HeldKeyExists, Holds
<1> QED
  BY <1>1, IInvThm, PTL DEF Spec, ReleasesOwnLock

----------------------------------------------------------------------------
(* Refinement of the atomic compare-and-set *)

\* Every step keeps a call's answer in agreement with what it wrote.
LEMMA WroteStep ==
  ASSUME TypeOK, WroteAgrees, [Next]_vars
  PROVE  WroteAgrees'
<1> USE DEF TypeOK, WroteAgrees, Goto, Leave, Finally, SetStatus
<1>1. ASSUME NEW p \in Procs, NEW r \in Requests, Invoke(p, r)
      PROVE  WroteAgrees'
  BY <1>1 DEF Invoke
<1>2. ASSUME NEW p \in Procs, Acquire(p)
      PROVE  WroteAgrees'
  BY <1>2 DEF Acquire, TakeKey, KeyTaken
<1>3. ASSUME NEW p \in Procs, ReadState(p)
      PROVE  WroteAgrees'
  BY <1>3 DEF ReadState, Matches
<1>4. ASSUME NEW p \in Procs, WriteState(p)
      PROVE  WroteAgrees'
  BY <1>4 DEF WriteState
<1>5. ASSUME NEW p \in Procs, WriteCache(p)
      PROVE  WroteAgrees'
  BY <1>5 DEF WriteCache
<1>6. ASSUME NEW p \in Procs, Release(p)
      PROVE  WroteAgrees'
  BY <1>6 DEF Release
<1>7. ASSUME NEW p \in Procs, AcquireError(p)
      PROVE  WroteAgrees'
  BY <1>7 DEF AcquireError
<1>8. ASSUME NEW p \in Procs, TryError(p)
      PROVE  WroteAgrees'
  BY <1>8 DEF TryError
<1>9. ASSUME NEW p \in Procs, ReleaseError(p)
      PROVE  WroteAgrees'
  BY <1>9 DEF ReleaseError
<1>10. ASSUME NEW p \in Procs, Crash(p)
       PROVE  WroteAgrees'
  BY <1>10 DEF Crash
<1>11. ASSUME NEW g \in Goals, Expire(g)
       PROVE  WroteAgrees'
  BY <1>11 DEF Expire
<1>12. ASSUME NEW g \in Goals, ExpireCache(g)
       PROVE  WroteAgrees'
  BY <1>12 DEF ExpireCache
<1>13. CASE UNCHANGED vars
  BY <1>13 DEF vars
<1> QED
  BY <1>1, <1>2, <1>3, <1>4, <1>5, <1>6, <1>7, <1>8, <1>9, <1>10, <1>11,
     <1>12, <1>13 DEF Next, Command, Fault

RInv == IInv /\ WroteAgrees

\* The invariant of the refinement holds in every reachable state.
LEMMA RInvThm ==
  ASSUME ~SlowHolders
  PROVE  Spec => []RInv
<1>1. Init => RInv
  BY IInvInit DEF RInv, Init, WroteAgrees
<1>2. RInv /\ [Next]_vars => RInv'
  BY IInvStep, WroteStep DEF RInv, IInv, LockInv
<1> QED
  BY <1>1, <1>2, PTL DEF Spec

\* Every command of a call is a Call, a Move or a Return of the abstract
\* compare-and-set, or leaves its variables alone.
LEMMA StepRefines ==
  ASSUME RInv, RInv', [Next]_vars
  PROVE  [Cas!CasNext]_(Cas!casVars)
<1> USE DEF RInv, IInv, LockInv, TypeOK, WroteAgrees, Goto, Leave, Finally,
            SetStatus, Labels
<1>1. ASSUME NEW p \in Procs, NEW r \in Requests, Invoke(p, r)
      PROVE  Cas!Call(p, r)
  BY <1>1 DEF Invoke, Cas!Call
<1>2. ASSUME NEW p \in Procs, Acquire(p)
      PROVE  Cas!Return(p) \/ UNCHANGED Cas!casVars
  <2>1. CASE pc'[p] = "read"
    BY <1>2, <2>1 DEF Acquire, TakeKey, KeyTaken, Cas!casVars
  <2>2. CASE pc'[p] = "idle"
    <3>1. Leave(p, "false") /\ pc[p] = "acquire" /\ UNCHANGED <<status, req, wrote>>
      BY <1>2, <2>2 DEF Acquire, TakeKey, KeyTaken
    <3> QED
      BY <3>1 DEF Cas!Return
  <2> QED
    BY <1>2, <2>1, <2>2 DEF Acquire, TakeKey, KeyTaken
<1>3. ASSUME NEW p \in Procs, ReadState(p)
      PROVE  UNCHANGED Cas!casVars
  BY <1>3 DEF ReadState, Matches, Cas!casVars
<1>4. ASSUME NEW p \in Procs, WriteState(p)
      PROVE  Cas!Move(p)
  BY <1>4 DEF WriteState, Cas!Move, CheckedStateStands
<1>5. ASSUME NEW p \in Procs, WriteCache(p)
      PROVE  UNCHANGED Cas!casVars
  BY <1>5 DEF WriteCache, Cas!casVars
<1>6. ASSUME NEW p \in Procs, Release(p)
      PROVE  Cas!Return(p)
  BY <1>6 DEF Release, Cas!Return
<1>7. ASSUME NEW p \in Procs, AcquireError(p)
      PROVE  Cas!Return(p)
  BY <1>7 DEF AcquireError, Cas!Return
<1>8. ASSUME NEW p \in Procs, TryError(p)
      PROVE  Cas!Move(p) \/ UNCHANGED Cas!casVars
  <2>1. CASE UNCHANGED <<status, wrote>>
    BY <1>8, <2>1 DEF TryError, Cas!casVars
  <2>2. CASE pc[p] = "write" /\ SetStatus(p)
    BY <1>8, <2>2 DEF TryError, Cas!Move, CheckedStateStands
  <2> QED
    BY <1>8, <2>1, <2>2 DEF TryError
<1>9. ASSUME NEW p \in Procs, ReleaseError(p)
      PROVE  Cas!Return(p)
  BY <1>9 DEF ReleaseError, Cas!Return
<1>10. ASSUME NEW p \in Procs, Crash(p)
       PROVE  Cas!Return(p)
  BY <1>10 DEF Crash, Cas!Return
<1>11. ASSUME NEW g \in Goals, Expire(g) \/ ExpireCache(g)
       PROVE  UNCHANGED Cas!casVars
  BY <1>11 DEF Expire, ExpireCache, Cas!casVars
<1>12. CASE UNCHANGED vars
  BY <1>12 DEF vars, Cas!casVars
<1> QED
  BY <1>1, <1>2, <1>3, <1>4, <1>5, <1>6, <1>7, <1>8, <1>9, <1>10, <1>11,
     <1>12 DEF Next, Command, Fault, Cas!CasNext

\* Initial states are initial states of the abstract specification.
LEMMA InitRefines == Init => Cas!CasInit
  BY DEF Init, Cas!CasInit

\* transition_goal_state implements an atomic compare-and-set that may be
\* refused, or fail before or after its effect.
THEOREM Refinement ==
  ASSUME ~SlowHolders
  PROVE  Spec => ImplementsCas
<1>1. RInv /\ RInv' /\ [Next]_vars => [Cas!CasNext]_(Cas!casVars)
  BY StepRefines
<1> QED
  BY <1>1, InitRefines, RInvThm, PTL DEF Spec, ImplementsCas, Cas!CasSpec

----------------------------------------------------------------------------
(* The mirror.  Between its two writes a caller is alone with its goal, so *)
(* the state it puts into the cache is still the one it stored.            *)

WrittenStands ==
  \A p \in Procs : pc[p] = "cache" => status[req[p].goal] = req[p].to

MirrorInv == WrittenStands /\ SuccessIsMirrored

\* Nobody else writes between a caller's two writes.
LEMMA MirrorStep ==
  ASSUME LockInv, MirrorInv, [Next]_vars
  PROVE  MirrorInv'
<1> USE DEF MirrorInv, LockInv, TypeOK, WrittenStands, SuccessIsMirrored,
            Goto, Leave, Finally, SetStatus
<1>1. ASSUME NEW p \in Procs, NEW r \in Requests, Invoke(p, r)
      PROVE  MirrorInv'
  BY <1>1 DEF Invoke
<1>2. ASSUME NEW p \in Procs, Acquire(p)
      PROVE  MirrorInv'
  BY <1>2, RequestType DEF Acquire, TakeKey, KeyTaken
<1>3. ASSUME NEW p \in Procs, ReadState(p)
      PROVE  MirrorInv'
  BY <1>3 DEF ReadState, Matches
<1>4. ASSUME NEW p \in Procs, WriteState(p)
      PROVE  MirrorInv'
  BY <1>4, RequestType DEF WriteState, MutualExclusion, Holds, InTry
<1>5. ASSUME NEW p \in Procs, WriteCache(p)
      PROVE  MirrorInv'
  BY <1>5, RequestType DEF WriteCache, MutualExclusion, Holds, InTry
<1>6. ASSUME NEW p \in Procs, Release(p)
      PROVE  MirrorInv'
  BY <1>6 DEF Release
<1>7. ASSUME NEW p \in Procs, AcquireError(p)
      PROVE  MirrorInv'
  BY <1>7 DEF AcquireError
<1>8. ASSUME NEW p \in Procs, TryError(p)
      PROVE  MirrorInv'
  BY <1>8, RequestType DEF TryError, MutualExclusion, Holds, InTry
<1>9. ASSUME NEW p \in Procs, ReleaseError(p)
      PROVE  MirrorInv'
  BY <1>9 DEF ReleaseError
<1>10. ASSUME NEW p \in Procs, Crash(p)
       PROVE  MirrorInv'
  BY <1>10 DEF Crash
<1>11. ASSUME NEW g \in Goals, Expire(g)
       PROVE  MirrorInv'
  BY <1>11 DEF Expire
<1>12. ASSUME NEW g \in Goals, ExpireCache(g)
       PROVE  MirrorInv'
  BY <1>12 DEF ExpireCache
<1>13. CASE UNCHANGED vars
  BY <1>13 DEF vars
<1> QED
  BY <1>1, <1>2, <1>3, <1>4, <1>5, <1>6, <1>7, <1>8, <1>9, <1>10, <1>11,
     <1>12, <1>13 DEF Next, Command, Fault

\* A caller that succeeded leaves the mirror equal to the stored state, or
\* expired, until it gives the lock back.
THEOREM SuccessIsMirroredThm ==
  ASSUME ~SlowHolders
  PROVE  Spec => []SuccessIsMirrored
<1>1. Init => MirrorInv
  BY DEF Init, MirrorInv, WrittenStands, SuccessIsMirrored
<1>2. IInv /\ MirrorInv /\ [Next]_vars => MirrorInv'
  BY MirrorStep DEF IInv
<1>3. MirrorInv => SuccessIsMirrored
  BY DEF MirrorInv
<1> QED
  BY <1>1, <1>2, <1>3, IInvThm, PTL DEF Spec
============================================================================
