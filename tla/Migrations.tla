----------------------------- MODULE Migrations -----------------------------
(***************************************************************************)
(* Several notes-server processes start against one database, each running *)
(* Migrate (pkg/notes/module/migrate.go): take the session's advisory      *)
(* lock, then apply every embedded migration that schema_migrations does   *)
(* not list, each in a transaction that also lists it.  Processes die, are *)
(* started again and may be of an older version with fewer migrations; the *)
(* session of a dead process ends a little later.                          *)
(***************************************************************************)
EXTENDS Integers, FiniteSets

CONSTANTS
  Servers,    \* processes
  Nobody,     \* the holder of a lock nobody holds
  Last,       \* the newest migration; versions sort as 1, 2, ... Last
  Embedded,   \* Embedded[s]: the newest migration in the binary of s
  Statements, \* Statements[v]: number of SQL statements in migration v
  Migrated,   \* the newest migration of the database at first, 0: none
  MaxFaults   \* bound of the model: failures and crashes

Versions == 1 .. Last

ASSUME MigrationsAssumption ==
  /\ Nobody \notin Servers
  /\ Last \in Nat
  /\ Embedded \in [Servers -> 0 .. Last]
  /\ Statements \in [Versions -> Nat \ {0}]
  /\ Migrated \in 0 .. Last
  /\ MaxFaults \in Nat

VARIABLES
  schema,  \* schema[v]: how many statements of v the database shows
  ledger,  \* versions listed in schema_migrations
  lock,    \* whose session holds the advisory lock
  pc,      \* pc[s]: the next step of process s
  at,      \* at[s]: the migration it looks at
  ran,     \* ran[s]: statements of it executed in the open transaction
  faults   \* history: failures and crashes so far

vars == <<schema, ledger, lock, pc, at, ran, faults>>
database == <<schema, ledger>>

\* Steps within moduleApplyMigration's transaction.
InTx == {"apply", "record", "commit"}
UnderLock == {"check", "unlock", "giveup", "conflict"} \cup InTx
Steps == {"down", "lock", "serving", "dead"} \cup UnderLock

Goto(s, step) == pc' = [pc EXCEPT ![s] = step]

-----------------------------------------------------------------------------
\* main: newApplication opens the pool and calls Migrate.
Start(s) ==
  /\ pc[s] = "down" /\ Goto(s, "lock")
  /\ UNCHANGED <<database, lock, at, ran, faults>>

\* Variant: no lock is taken.
LockNot(s) ==
  /\ pc[s] = "lock" /\ lock' = s
  /\ Goto(s, "check") /\ at' = [at EXCEPT ![s] = 1]
  /\ UNCHANGED <<database, ran, faults>>

\* pg_advisory_lock waits for the lock; the ledger is created if absent.
Lock(s) ==
  /\ pc[s] = "lock" /\ lock = Nobody /\ lock' = s
  /\ Goto(s, "check") /\ at' = [at EXCEPT ![s] = 1]
  /\ UNCHANGED <<database, ran, faults>>

\* Variant: the newest migration is not looked at.
CheckButLast(s) ==
  /\ pc[s] = "check"
  /\ \/ at[s] >= Embedded[s] /\ Goto(s, "unlock") /\ UNCHANGED at
     \/ at[s] < Embedded[s] /\ at[s] \in ledger
        /\ at' = [at EXCEPT ![s] = @ + 1] /\ UNCHANGED pc
     \/ at[s] < Embedded[s] /\ at[s] \notin ledger
        /\ Goto(s, "apply") /\ UNCHANGED at
  /\ UNCHANGED <<database, lock, ran, faults>>

\* The loop over the embedded migrations, up to the next one to apply.
Check(s) ==
  /\ pc[s] = "check"
  /\ \/ at[s] > Embedded[s] /\ Goto(s, "unlock") /\ UNCHANGED at
     \/ at[s] <= Embedded[s] /\ at[s] \in ledger
        /\ at' = [at EXCEPT ![s] = @ + 1] /\ UNCHANGED pc
     \/ at[s] <= Embedded[s] /\ at[s] \notin ledger
        /\ Goto(s, "apply") /\ UNCHANGED at
  /\ UNCHANGED <<database, lock, ran, faults>>

\* Another transaction's uncommitted DDL on the same objects makes one wait.
Blocked(s) == \E t \in Servers \ {s} : at[t] = at[s] /\ ran[t] > ran[s]

\* The transaction's next statement, which fails on a schema that has it.
Execute(s) ==
  /\ pc[s] = "apply" /\ ~Blocked(s)
  /\ IF schema[at[s]] > ran[s]
       THEN Goto(s, "conflict") /\ UNCHANGED ran
       ELSE /\ ran' = [ran EXCEPT ![s] = @ + 1]
            /\ Goto(s, IF ran'[s] = Statements[at[s]] THEN "record" ELSE "apply")
  /\ UNCHANGED <<database, lock, at, faults>>

\* INSERT INTO schema_migrations, whose primary key is the version.
Record(s) ==
  /\ pc[s] = "record"
  /\ Goto(s, IF at[s] \in ledger THEN "conflict" ELSE "commit")
  /\ UNCHANGED <<database, lock, at, ran, faults>>

\* Variant: the version is not listed.
PublishUnlisted(s) ==
  schema' = [schema EXCEPT ![at[s]] = ran[s]] /\ UNCHANGED ledger

Publish(s) ==
  /\ schema' = [schema EXCEPT ![at[s]] = ran[s]]
  /\ ledger' = ledger \cup {at[s]}

Commit(s) ==
  /\ pc[s] = "commit" /\ Publish(s)
  /\ ran' = [ran EXCEPT ![s] = 0]
  /\ at' = [at EXCEPT ![s] = @ + 1]
  /\ Goto(s, "check")
  /\ UNCHANGED <<lock, faults>>

\* Variant: unlocking is forgotten when Migrate fails.
UnlockOnSuccess(s) ==
  /\ pc[s] \in {"unlock", "giveup", "conflict"}
  /\ lock' = IF pc[s] = "unlock" THEN Nobody ELSE lock
  /\ ran' = [ran EXCEPT ![s] = 0]
  /\ Goto(s, IF pc[s] = "unlock" THEN "serving" ELSE "down")
  /\ UNCHANGED <<database, at, faults>>

\* The deferred Rollback and pg_advisory_unlock; main exits on an error.
Unlock(s) ==
  /\ pc[s] \in {"unlock", "giveup", "conflict"}
  /\ lock' = Nobody
  /\ ran' = [ran EXCEPT ![s] = 0]
  /\ Goto(s, IF pc[s] = "unlock" THEN "serving" ELSE "down")
  /\ UNCHANGED <<database, at, faults>>

\* A process that has migrated ends, in order or not; it holds nothing.
Stop(s) ==
  /\ pc[s] = "serving" /\ Goto(s, "down")
  /\ UNCHANGED <<database, lock, at, ran, faults>>

-----------------------------------------------------------------------------
Fault == faults < MaxFaults /\ faults' = faults + 1

\* A statement fails.
Fail(s) ==
  /\ Fault /\ pc[s] \in {"check"} \cup InTx
  /\ Goto(s, "giveup")
  /\ UNCHANGED <<database, lock, at, ran>>

\* The process dies, or the start-up deadline passes and pgx closes the
\* connection; a COMMIT that was sent may still be carried out.
Die(s) ==
  /\ Fault /\ pc[s] \notin {"down", "dead"}
  /\ \/ UNCHANGED database
     \/ pc[s] = "commit" /\ Publish(s)
  /\ Goto(s, "dead")
  /\ UNCHANGED <<lock, at, ran>>

\* PostgreSQL ends the session: its transaction and its locks are gone.
SessionEnds(s) ==
  /\ pc[s] = "dead" /\ Goto(s, "down")
  /\ lock' = IF lock = s THEN Nobody ELSE lock
  /\ ran' = [ran EXCEPT ![s] = 0]
  /\ UNCHANGED <<database, at, faults>>

Init ==
  /\ ledger = 1 .. Migrated
  /\ schema = [v \in Versions |-> IF v <= Migrated THEN Statements[v] ELSE 0]
  /\ lock = Nobody
  /\ pc = [s \in Servers |-> "down"]
  /\ at = [s \in Servers |-> 1]
  /\ ran = [s \in Servers |-> 0]
  /\ faults = 0

\* What process s and its session do next.
Proceed(s) ==
  \/ Lock(s) \/ Check(s) \/ Execute(s) \/ Record(s) \/ Commit(s) \/ Unlock(s)
  \/ SessionEnds(s)

Next == \E s \in Servers :
  Start(s) \/ Proceed(s) \/ Stop(s) \/ Fail(s) \/ Die(s)

Spec == Init /\ [][Next]_vars
-----------------------------------------------------------------------------
TypeOK ==
  /\ schema \in [Versions -> Nat]
  /\ ledger \subseteq Versions
  /\ lock \in Servers \cup {Nobody}
  /\ pc \in [Servers -> Steps]
  /\ at \in [Servers -> 1 .. Last + 1]
  /\ ran \in [Servers -> Nat]
  /\ faults \in 0 .. MaxFaults

\* However starts overlap, fail and are repeated, no migration meets objects
\* that it, or another process, has created: no start fails for that reason,
\* for then every later one would.
NeverTwice == \A s \in Servers : pc[s] # "conflict"

\* The ledger tells what the database is: a migration is there as a whole and
\* listed, or not at all.
LedgerMatchesSchema == \A v \in Versions :
  schema[v] = IF v \in ledger THEN Statements[v] ELSE 0

\* A process serves requests only on a database with all its migrations.
ServesMigrated == \A s \in Servers :
  pc[s] = "serving" => 1 .. Embedded[s] \subseteq ledger

\* A start ends, although another process may have died with the lock or be
\* started again and again.
StartsEnd == \A s \in Servers : pc[s] = "lock" ~> pc[s] \in {"serving", "down"}

-----------------------------------------------------------------------------
\* The inductive invariant behind the three safety properties.

\* Only the holder of the lock has looked at the ledger or has a transaction.
HolderOK == \A s \in Servers :
  /\ pc[s] \in UnderLock => lock = s
  /\ ran[s] # 0 => lock = s

\* What the holder has found in the ledger is still so.
LookOK == \A s \in Servers :
  /\ pc[s] \in {"check", "unlock"} \cup InTx =>
       \A v \in Versions : v < at[s] => v \in ledger
  /\ pc[s] \in {"check", "unlock"} => ran[s] = 0
  /\ pc[s] = "apply" => ran[s] < Statements[at[s]]
  /\ pc[s] \in InTx => at[s] \in Versions /\ at[s] \notin ledger
  /\ pc[s] \in {"record", "commit"} => ran[s] = Statements[at[s]]
  /\ pc[s] = "unlock" => at[s] > Embedded[s]

MInv == /\ TypeOK /\ HolderOK /\ LookOK
        /\ NeverTwice /\ LedgerMatchesSchema /\ ServesMigrated
=============================================================================
