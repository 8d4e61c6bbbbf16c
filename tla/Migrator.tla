------------------------------ MODULE Migrator ------------------------------
(***************************************************************************)
(* shared/migrator: the migrations of one database.  Every instance of a   *)
(* service runs Up when it starts, so two may at once; an operator may run *)
(* Down, which undoes the last.  There is no lock: each migration is a     *)
(* transaction of its SQL and its row of schema_migrations, and what       *)
(* PostgreSQL does with two of them is all that keeps them apart.          *)
(***************************************************************************)
EXTENDS Integers, FiniteSets

CONSTANTS
  Latest, \* the number of migrations
  Seeds, \* those that only insert rows, which can be done twice
  Runs   \* runs of Up or Down

ASSUME MigratorAssumption == Latest \in Nat \ {0} /\ Seeds \subseteq 1..Latest

VARIABLES
  applied, \* schema_migrations
  effect,  \* how often each migration is in effect
  runs,    \* what each run is at
  mixed    \* history: a Down ran at the same time as another run

migratorVars == <<applied, effect, runs, mixed>>

Versions == 1..Latest
NotRun == [kind |-> "none", stage |-> "idle", version |-> 0, undone |-> 0, unrecorded |-> FALSE]

MigratorInit ==
  /\ \E n \in 0..Latest :
       /\ applied = 1..n
       /\ effect  = [v \in Versions |-> IF v <= n THEN 1 ELSE 0]
  /\ runs  = [r \in Runs |-> NotRun]
  /\ mixed = FALSE

Migrating(r) == runs[r].stage \notin {"idle", "done"}
Peers(r)     == {q \in Runs \ {r} : Migrating(q) /\ runs[q].version = runs[r].version}
Go(r, stage) == runs' = [runs EXCEPT ![r].stage = stage]

BeginUp(r) ==
  /\ runs[r].stage = "idle"
  /\ runs'  = [runs EXCEPT ![r] = [NotRun EXCEPT !.kind = "up", !.stage = "check", !.version = 1]]
  /\ mixed' = (mixed \/ \E q \in Runs : Migrating(q) /\ runs[q].kind = "down")
  /\ UNCHANGED <<applied, effect>>

\* A version that has its row is passed over; after the last, Up is done.
Check(r) ==
  /\ runs[r].stage = "check"
  /\ IF runs[r].version > Latest THEN Go(r, "done")
     ELSE IF runs[r].version \in applied THEN runs' = [runs EXCEPT ![r].version = @ + 1]
     ELSE Go(r, "apply")
  /\ UNCHANGED <<applied, effect, mixed>>

\* Who has created or dropped what the migration creates, and not committed.
HasApplied(q)  == runs[q].kind = "up" /\ runs[q].stage \in {"record", "commit"}
HasUndone(q)   == runs[q].undone > 0 /\ runs[q].stage \in {"unrecord", "commit"}

\* The SQL of an Up waits for them, and fails on what is there; rows it can
\* insert again.
Apply(r) ==
  LET v == runs[r].version IN
  /\ runs[r].stage = "apply"
  /\ v \in Seeds \/ \A q \in Peers(r) : ~HasApplied(q) /\ ~HasUndone(q)
  /\ Go(r, IF v \in Seeds \/ effect[v] = 0 THEN "record" ELSE "done")
  /\ UNCHANGED <<applied, effect, mixed>>

\* The row of schema_migrations: its primary key lets one run have it.
Record(r) ==
  /\ runs[r].stage = "record"
  /\ \A q \in Peers(r) : runs[q].stage # "commit"
  /\ Go(r, IF runs[r].version \in applied THEN "done" ELSE "commit")
  /\ UNCHANGED <<applied, effect, mixed>>

CommitUp(r) ==
  LET v == runs[r].version IN
  /\ runs[r].stage = "commit" /\ runs[r].kind = "up"
  /\ applied' = applied \cup {v}
  /\ effect'  = [effect EXCEPT ![v] = @ + 1]
  /\ runs'    = [runs EXCEPT ![r].stage = "check", ![r].version = @ + 1]
  /\ UNCHANGED mixed

\* Down looks for the last version, and undoes it in a transaction of its own.
BeginDown(r) ==
  /\ runs[r].stage = "idle"
  /\ applied # {}
  /\ LET v == CHOOSE v \in applied : \A w \in applied : w <= v IN
     runs' = [runs EXCEPT ![r] = [NotRun EXCEPT !.kind = "down", !.stage = "undo", !.version = v]]
  /\ mixed' = (mixed \/ \E q \in Runs : Migrating(q))
  /\ UNCHANGED <<applied, effect>>

\* Its SQL has IF EXISTS, or deletes rows: what is not there, or not committed,
\* it leaves alone.
Undo(r) ==
  /\ runs[r].stage = "undo"
  /\ \A q \in Peers(r) : ~HasUndone(q)
  /\ runs' = [runs EXCEPT ![r].stage = "unrecord", ![r].undone = effect[runs[r].version]]
  /\ UNCHANGED <<applied, effect, mixed>>

Unrecord(r) ==
  /\ runs[r].stage = "unrecord"
  /\ \A q \in Peers(r) : runs[q].stage = "commit" => ~runs[q].unrecorded
  /\ runs' = [runs EXCEPT ![r].stage = "commit", ![r].unrecorded = runs[r].version \in applied]
  /\ UNCHANGED <<applied, effect, mixed>>

CommitDown(r) ==
  LET v == runs[r].version IN
  /\ runs[r].stage = "commit" /\ runs[r].kind = "down"
  /\ effect'  = [effect EXCEPT ![v] = @ - runs[r].undone]
  /\ applied' = IF runs[r].unrecorded THEN applied \ {v} ELSE applied
  /\ Go(r, "done")
  /\ UNCHANGED mixed

\* Mutant: a migration that fails is passed over.
FailAndGoOn(r) ==
  /\ Migrating(r)
  /\ IF runs[r].kind = "up" /\ runs[r].version <= Latest
       THEN runs' = [runs EXCEPT ![r].stage = "check", ![r].version = @ + 1]
       ELSE Go(r, "done")
  /\ UNCHANGED <<applied, effect, mixed>>

\* A statement fails or the process dies: the transaction is rolled back, and
\* the service does not start.
MigrationFails(r) ==
  /\ Migrating(r)
  /\ Go(r, "done")
  /\ UNCHANGED <<applied, effect, mixed>>

MigratorNext == \E r \in Runs :
  \/ BeginUp(r) \/ Check(r) \/ Apply(r) \/ Record(r) \/ CommitUp(r)
  \/ BeginDown(r) \/ Undo(r) \/ Unrecord(r) \/ CommitDown(r)
  \/ MigrationFails(r)

-----------------------------------------------------------------------------
\* What is recorded is what is in effect, once, and a migration is there only
\* with those before it, on which it is built, however many instances start at
\* once or die half way (Up); a Down must have the database for itself.
AppliedIsInEffect == ~mixed => \E n \in 0..Latest :
  /\ applied = 1..n
  /\ effect = [v \in Versions |-> IF v <= n THEN 1 ELSE 0]
=============================================================================
