-------------------------- MODULE MigrationRunner --------------------------
(***************************************************************************)
(* migrations/apply.py: the files 001, 002, ... are applied in order, each *)
(* in a transaction with the insert of its name into schema_migrations.    *)
(* Several runners may be started; each may die at any moment.             *)
(***************************************************************************)
EXTENDS Naturals, Sequences

CONSTANTS Runners, LastFile

VARIABLES
  schema,     \* the files whose statements were committed, in that order
  ledger,     \* the rows of schema_migrations
  runner,     \* of each runner: "out", "next", "insert" or "commit"
  pending     \* of each runner: the files it still has to apply

migrationVars == <<schema, ledger, runner, pending>>

Files == 1..LastFile

MigrationInit ==
  /\ schema = <<>> /\ ledger = {}
  /\ runner = [r \in Runners |-> "out"] /\ pending = [r \in Runners |-> {}]

Step(r, label) == runner' = [runner EXCEPT ![r] = label]

\* apply_all: the ledger is read once.
ReadLedger(r) ==
  /\ runner[r] = "out"
  /\ Step(r, "next") /\ pending' = [pending EXCEPT ![r] = Files \ ledger]
  /\ UNCHANGED <<schema, ledger>>

\* The file this runner is at.
AtFile(r, f) == f \in pending[r] /\ \A g \in pending[r] : f <= g

AllApplied(r) ==
  /\ runner[r] = "next" /\ pending[r] = {} /\ Step(r, "out")
  /\ UNCHANGED <<schema, ledger, pending>>

Execute(r) ==
  /\ runner[r] = "next" /\ pending[r] # {} /\ Step(r, "insert")
  /\ UNCHANGED <<schema, ledger, pending>>

\* The primary key: the insert waits for a transaction that inserted the same
\* name, and fails if that one was committed.
InsertName(r, f) ==
  /\ runner[r] = "insert" /\ AtFile(r, f) /\ f \notin ledger
  /\ \A q \in Runners \ {r} : ~(runner[q] = "commit" /\ AtFile(q, f))
  /\ Step(r, "commit")
  /\ UNCHANGED <<schema, ledger, pending>>

Commit(r, f) ==
  /\ runner[r] = "commit" /\ AtFile(r, f)
  /\ schema' = Append(schema, f) /\ ledger' = ledger \cup {f}
  /\ pending' = [pending EXCEPT ![r] = @ \ {f}]
  /\ Step(r, "next")

\* Wrong variant: a failed file is skipped.
GiveUpSkips(r, f) ==
  /\ runner[r] \in {"insert", "commit"} /\ AtFile(r, f)
  /\ pending' = [pending EXCEPT ![r] = @ \ {f}]
  /\ Step(r, "next")
  /\ UNCHANGED <<schema, ledger>>

\* A statement, the insert or the commit fails: the file is rolled back and
\* the runner exits.
GiveUp(r, f) ==
  /\ runner[r] \in {"insert", "commit"} /\ AtFile(r, f)
  /\ pending' = [pending EXCEPT ![r] = {}]
  /\ Step(r, "out")
  /\ UNCHANGED <<schema, ledger>>

\* The process dies: the connection closes, its transaction is rolled back.
Die(r) ==
  /\ runner[r] # "out" /\ Step(r, "out")
  /\ pending' = [pending EXCEPT ![r] = {}]
  /\ UNCHANGED <<schema, ledger>>

MigrationNext ==
  \E r \in Runners :
    \/ ReadLedger(r) \/ AllApplied(r) \/ Execute(r) \/ Die(r)
    \/ \E f \in Files : InsertName(r, f) \/ Commit(r, f) \/ GiveUp(r, f)

MigrationSpec == MigrationInit /\ [][MigrationNext]_migrationVars

----------------------------------------------------------------------------
(* Properties *)

\* "a half-applied file never lands": the schema is that of the first files,
\* each applied once and in order, and the ledger says so, whoever else runs
\* and wherever a runner stops (migrations/apply.py:11-16).
PrefixApplied ==
  /\ schema = [i \in 1..Len(schema) |-> i]
  /\ ledger = 1..Len(schema)
============================================================================
