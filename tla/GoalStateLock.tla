--------------------------- MODULE GoalStateLock ---------------------------
(***************************************************************************)
(* core/state_machine.py transition_goal_state, one action per Redis or    *)
(* database command: every "await" is a point where another handler, or    *)
(* the worker process, runs.                                               *)
(*                                                                         *)
(* The lock is the Redis key goal_lock:{id}.  Its value is always "1", so  *)
(* the key does not say who took it; it is set with ex=30 and deleted by   *)
(* whoever leaves the try block.  Here lockKey[g] says if the key exists.  *)
(***************************************************************************)
EXTENDS Integers

CONSTANTS
  Goals,        \* goal ids
  Procs,        \* concurrent callers: request handlers, worker jobs
  States,       \* goal states
  Edges,        \* pairs <<from, to>> that callers ask for
  NoState,      \* what an empty cache entry holds
  SlowHolders,  \* TRUE: a live holder may outlast the 30 s lease
  Faults        \* subset of {"error", "crash"}

ASSUME LockAssumption ==
  /\ Edges \subseteq States \X States
  /\ SlowHolders \in BOOLEAN
  /\ Faults \subseteq {"error", "crash"}

VARIABLES
  lockKey,   \* lockKey[g]: the key goal_lock:{g} exists in Redis
  status,    \* status[g]: column goals.status
  cache,     \* cache[g]: the key goal_state:{g} (24 h), or NoState
  pc,        \* pc[p]: the command p issues next
  req,       \* req[p]: the arguments of p's current or last call
  ret,       \* ret[p]: the value that p's call returns, or returned
  wrote      \* history: wrote[p], p's current or last call changed status

vars == <<lockKey, status, cache, pc, req, ret, wrote>>

Requests ==
  { [goal |-> g, from |-> e[1], to |-> e[2]] : g \in Goals, e \in Edges }

Results == {"none", "true", "false", "raised", "crashed"}

Labels == {"idle", "acquire", "read", "write", "cache", "release"}

\* The labels inside the try block: the caller took the lock.
InTry == {"read", "write", "cache", "release"}

Holds(p, g) == pc[p] \in InTry /\ req[p].goal = g

Init ==
  /\ lockKey = [g \in Goals |-> FALSE]
  /\ status \in [Goals -> States]
  /\ cache = [g \in Goals |-> NoState]
  /\ pc = [p \in Procs |-> "idle"]
  /\ \E r \in Requests : req = [p \in Procs |-> r]
  /\ ret = [p \in Procs |-> "none"]
  /\ wrote = [p \in Procs |-> FALSE]

----------------------------------------------------------------------------
(* Control helpers *)

Goto(p, l) == pc' = [pc EXCEPT ![p] = l]

\* Leave the call: a value returned, an exception, or the death of p.
Leave(p, r) == Goto(p, "idle") /\ ret' = [ret EXCEPT ![p] = r]

\* Go to the finally block with the value, or exception, it will hand on.
Finally(p, r) == Goto(p, "release") /\ ret' = [ret EXCEPT ![p] = r]

\* Wrong variant: the enum is stored through str(), "GoalState.X".
SetStatusUnnormalised(p) ==
  /\ status' = [status EXCEPT ![req[p].goal] = "GoalState.X"]
  /\ wrote' = [wrote EXCEPT ![p] = TRUE]

SetStatus(p) ==
  /\ status' = [status EXCEPT ![req[p].goal] = req[p].to]
  /\ wrote' = [wrote EXCEPT ![p] = TRUE]

----------------------------------------------------------------------------
(* The commands of a call *)

Invoke(p, r) ==
  /\ pc[p] = "idle"
  /\ req' = [req EXCEPT ![p] = r]
  /\ wrote' = [wrote EXCEPT ![p] = FALSE]
  /\ ret' = [ret EXCEPT ![p] = "none"]
  /\ Goto(p, "acquire")
  /\ UNCHANGED <<lockKey, status, cache>>

\* Wrong variant: SET without nx.
TakeKeyNoNx(p) ==
  /\ lockKey' = [lockKey EXCEPT ![req[p].goal] = TRUE]
  /\ Goto(p, "read")
  /\ UNCHANGED ret

\* SET nx=True ex=30 ...
TakeKey(p) ==
  /\ ~lockKey[req[p].goal]
  /\ lockKey' = [lockKey EXCEPT ![req[p].goal] = TRUE]
  /\ Goto(p, "read")
  /\ UNCHANGED ret

\* Wrong variant: wait for the key.
KeyTakenWaits(p) == FALSE /\ UNCHANGED vars

\* ... or return at once, without touching the key.
KeyTaken(p) ==
  lockKey[req[p].goal] /\ Leave(p, "false") /\ UNCHANGED lockKey

Acquire(p) ==
  /\ pc[p] = "acquire"
  /\ TakeKey(p) \/ KeyTaken(p)
  /\ UNCHANGED <<status, cache, req, wrote>>

\* Wrong variant: no comparison under the lock.
AlwaysMatches(p) == p \in Procs

Matches(p) == status[req[p].goal] = req[p].from

ReadState(p) ==
  /\ pc[p] = "read"
  /\ \/ Matches(p) /\ Goto(p, "write") /\ UNCHANGED ret
     \/ ~Matches(p) /\ Finally(p, "false")
  /\ UNCHANGED <<lockKey, status, cache, req, wrote>>

WriteState(p) ==
  /\ pc[p] = "write"
  /\ SetStatus(p)
  /\ Goto(p, "cache")
  /\ UNCHANGED <<lockKey, cache, req, ret>>

\* Wrong variant: the arguments are swapped.
WriteCacheSwapped(p) ==
  /\ pc[p] = "cache"
  /\ cache' = [cache EXCEPT ![req[p].goal] = req[p].from]
  /\ Finally(p, "true")
  /\ UNCHANGED <<lockKey, status, req, wrote>>

WriteCache(p) ==
  /\ pc[p] = "cache"
  /\ cache' = [cache EXCEPT ![req[p].goal] = req[p].to]
  /\ Finally(p, "true")
  /\ UNCHANGED <<lockKey, status, req, wrote>>

Release(p) ==
  /\ pc[p] = "release"
  /\ lockKey' = [lockKey EXCEPT ![req[p].goal] = FALSE]
  /\ Leave(p, ret[p])
  /\ UNCHANGED <<status, cache, req, wrote>>

----------------------------------------------------------------------------
(* Faults.  A command that raises may or may not have taken effect.  An    *)
(* error of the first command is outside the try: nothing deletes the key. *)
(* An error in the finally replaces the value the try had returned.        *)

AcquireError(p) ==
  LET g == req[p].goal IN
  /\ "error" \in Faults
  /\ pc[p] = "acquire"
  /\ \/ UNCHANGED lockKey
     \/ lockKey' = [lockKey EXCEPT ![g] = TRUE]
  /\ Leave(p, "raised")
  /\ UNCHANGED <<status, cache, req, wrote>>

TryError(p) ==
  /\ "error" \in Faults
  /\ \/ pc[p] = "read" /\ UNCHANGED <<status, cache, wrote>>
     \/ pc[p] = "write" /\ UNCHANGED <<status, cache, wrote>>
     \/ pc[p] = "write" /\ SetStatus(p) /\ UNCHANGED cache
     \/ pc[p] = "cache" /\ UNCHANGED <<status, cache, wrote>>
     \/ /\ pc[p] = "cache"
        /\ cache' = [cache EXCEPT ![req[p].goal] = req[p].to]
        /\ UNCHANGED <<status, wrote>>
  /\ Finally(p, "raised")
  /\ UNCHANGED <<lockKey, req>>

ReleaseError(p) ==
  /\ "error" \in Faults
  /\ pc[p] = "release"
  /\ \/ UNCHANGED lockKey
     \/ lockKey' = [lockKey EXCEPT ![req[p].goal] = FALSE]
  /\ Leave(p, "raised")
  /\ UNCHANGED <<status, cache, req, wrote>>

Crash(p) ==
  /\ "crash" \in Faults
  /\ pc[p] # "idle"
  /\ Leave(p, "crashed")
  /\ UNCHANGED <<lockKey, status, cache, req, wrote>>

----------------------------------------------------------------------------
(* Redis *)

\* Wrong variant: SET without ex=30.
NeverExpires(g) == lockKey[g] /\ FALSE /\ UNCHANGED vars

\* The lease runs out 30 s after the key was set.  Unless holders can be
\* that slow, this only happens to a key whose holder is gone.
Expire(g) ==
  /\ lockKey[g]
  /\ SlowHolders \/ \A p \in Procs : ~Holds(p, g)
  /\ lockKey' = [lockKey EXCEPT ![g] = FALSE]
  /\ UNCHANGED <<status, cache, pc, req, ret, wrote>>

ExpireCache(g) ==
  /\ cache[g] # NoState
  /\ cache' = [cache EXCEPT ![g] = NoState]
  /\ UNCHANGED <<lockKey, status, pc, req, ret, wrote>>

----------------------------------------------------------------------------

Command(p) ==
  Acquire(p) \/ ReadState(p) \/ WriteState(p) \/ WriteCache(p) \/ Release(p)

Fault(p) ==
  AcquireError(p) \/ TryError(p) \/ ReleaseError(p) \/ Crash(p)

Next ==
  \/ \E p \in Procs :
       \/ \E r \in Requests : Invoke(p, r)
       \/ Command(p)
       \/ Fault(p)
  \/ \E g \in Goals : Expire(g) \/ ExpireCache(g)

\* A caller that is alive goes on with its call, and Redis expires keys.
\* Nobody has to call, to fail, or to let a cache entry run out.
Fairness ==
  /\ \A p \in Procs : WF_vars(Command(p))
  /\ \A g \in Goals : WF_vars(Expire(g))

Spec == Init /\ [][Next]_vars
FairSpec == Spec /\ Fairness

----------------------------------------------------------------------------
(* Properties *)

\* Every variable has its type (core/state_machine.py:99).
TypeOK ==
  /\ lockKey \in [Goals -> BOOLEAN]
  /\ status \in [Goals -> States]
  /\ cache \in [Goals -> States \cup {NoState}]
  /\ pc \in [Procs -> Labels]
  /\ req \in [Procs -> Requests]
  /\ ret \in [Procs -> Results]
  /\ wrote \in [Procs -> BOOLEAN]

\* While no holder outlives its lease, at most one caller is between taking
\* the lock of a goal and deleting it, although the key names no owner and
\* a failed command can leave it behind (core/state_machine.py:131-144).
MutualExclusion ==
  \A p, q \in Procs, g \in Goals : Holds(p, g) /\ Holds(q, g) => p = q

\* The answer of the comparison still stands when the write is issued: a
\* caller about to write finds the goal in the state it asked to leave, so a
\* stale caller cannot clobber a state that already moved, nor be fooled by
\* one that moved and came back (core/state_machine.py:136-140).
CheckedStateStands ==
  \A p \in Procs : pc[p] = "write" => status[req[p].goal] = req[p].from

\* A state is only ever replaced by a caller that asked to leave exactly that
\* state: no write is lost under another one (core/state_machine.py:6-7).
NoClobber ==
  [][\A g \in Goals :
       status'[g] # status[g] =>
         \E p \in Procs : /\ req[p].goal = g
                          /\ req[p].from = status[g]
                          /\ req[p].to = status'[g]]_vars

\* The key a caller deletes in its finally block is the one it set: nobody's
\* release frees the lock of another holder (core/state_machine.py:143-144).
ReleasesOwnLock ==
  [][\A g \in Goals, q \in Procs :
       Holds(q, g) /\ Holds(q, g)' => lockKey'[g]]_vars

\* A transition that succeeded leaves the mirror equal to the stored state,
\* or expired, until it gives the lock back: nobody moves the goal between
\* its two writes (core/state_machine.py:140-143).
SuccessIsMirrored ==
  \A p \in Procs :
    pc[p] = "release" /\ ret[p] = "true" =>
      cache[req[p].goal] \in {status[req[p].goal], NoState}

\* A lock is always given back, by its holder or by the lease of a holder
\* that died: no goal stays locked (core/state_machine.py:113-115).
LockFreed == \A g \in Goals : lockKey[g] ~> ~lockKey[g]

\* Every call ends: a held lock makes it return, never wait
\* (core/state_machine.py:132-134).
CallsReturn == \A p \in Procs : pc[p] # "idle" ~> pc[p] = "idle"

----------------------------------------------------------------------------
(* Refinement: a call takes effect when its write reaches the database.    *)

Cas ==
  INSTANCE GoalStateCas WITH
    stage <- [p \in Procs |-> IF pc[p] = "idle" THEN "idle"
                              ELSE IF wrote[p] THEN "moved" ELSE "open"],
    outcome <- [p \in Procs |-> IF pc[p] = "idle" THEN ret[p] ELSE "none"]

\* transition_goal_state implements an atomic compare-and-set
\* (core/state_machine.py:108-123).
ImplementsCas == Cas!CasSpec
============================================================================
