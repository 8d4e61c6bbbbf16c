------------------------------ MODULE Startup -------------------------------
(***************************************************************************)
(* The start of a service's instances over one database: each migrates it, *)
(* puts into it what a fresh system needs, connects to the broker and then *)
(* serves.  Core's EnsureSeedCatalog counts and inserts in statements of   *)
(* their own; Identity's EnsureDefaultOwner counts, and then inserts a     *)
(* user and its role in one transaction.  Another service has neither.     *)
(*                                                                         *)
(* A run of Migrator's Up is the start of one instance.  Nothing deletes   *)
(* these rows but a Down; what the admin endpoints add later changes no    *)
(* count that is above zero already.                                       *)
(***************************************************************************)
EXTENDS Migrator

VARIABLES
  service, \* whose database it is
  seeds,   \* the rows that a bootstrap has inserted, and committed
  boot     \* what each instance is at

startupVars == <<service, seeds, boot>>

Services == {"core", "identity", "payment"}
SeedRows == {"outlet", "service", "price", "owner", "role"}

\* The steps of main after the migrations, by service.
FirstStep == [core |-> "count_outlets", identity |-> "count_users", payment |-> "broker"]
Halted    == {"exited", "unpriced"}

StartupInit ==
  /\ service \in Services
  /\ seeds   = {}
  /\ boot    = [r \in Runs |-> "migrate"]

\* Up has come to its end: main goes on.
HasMigrated(r) == runs[r].kind = "up" /\ runs[r].stage = "done" /\ runs[r].version > Latest

Move(r, from, to) == boot[r] = from /\ boot' = [boot EXCEPT ![r] = to]

Migrated(r) ==
  /\ HasMigrated(r)
  /\ Move(r, "migrate", FirstStep[service])
  /\ UNCHANGED <<service, seeds>>

\* count(*): a table that has rows is left alone.
Count(r, count, row, insert, next) ==
  /\ Move(r, count, IF row \in seeds THEN next ELSE insert)
  /\ UNCHANGED <<service, seeds>>

\* An INSERT of a row with a code of its own: the second one is refused by
\* UNIQUE (code), and the instance exits.
InsertOnce(r, insert, row, next) ==
  /\ Move(r, insert, IF row \in seeds THEN "exited" ELSE next)
  /\ seeds' = seeds \cup {row}
  /\ UNCHANGED service

EnsureSeedCatalog(r) ==
  \/ Count(r, "count_outlets", "outlet", "outlet", "count_services")
  \/ InsertOnce(r, "outlet", "outlet", "count_services")
  \/ Count(r, "count_services", "service", "service", "broker")
  \/ InsertOnce(r, "service", "service", "price")
  \/ InsertOnce(r, "price", "price", "broker")

\* Mutant: the user is committed, and the role that follows is not.
InsertOwnerAlone(r) ==
  /\ Move(r, "owner", IF "owner" \in seeds THEN "exited" ELSE "broker")
  /\ seeds' = seeds \cup {"owner"}
  /\ UNCHANGED service

\* The transaction of EnsureDefaultOwner at its commit.  Its INSERT of the user
\* waits for another with the same e-mail, and is refused if that one commits;
\* the role is found if the migration that seeds it is in effect.
InsertOwner(r) ==
  /\ Move(r, "owner", IF "owner" \in seeds THEN "exited" ELSE "broker")
  /\ seeds' = IF "owner" \in seeds THEN seeds
              ELSE seeds \cup {"owner"} \cup {x \in {"role"} : \A v \in Seeds : effect[v] > 0}
  /\ UNCHANGED service

EnsureDefaultOwner(r) ==
  \/ Count(r, "count_users", "owner", "owner", "broker")
  \/ InsertOwner(r)

\* The broker, its exchanges and queues, the relay and the consumer, the server.
Serve(r) ==
  /\ Move(r, "broker", "serving")
  /\ UNCHANGED <<service, seeds>>

\* Any of these steps fails, or the instance dies.
Exit(r) ==
  /\ boot[r] \notin Halted \cup {"migrate", "serving"}
  /\ boot' = [boot EXCEPT ![r] = IF boot[r] = "price" THEN "unpriced" ELSE "exited"]
  /\ UNCHANGED <<service, seeds>>

BootNext == \E r \in Runs :
  Migrated(r) \/ EnsureSeedCatalog(r) \/ EnsureDefaultOwner(r) \/ Serve(r) \/ Exit(r)

\* Undoing the first migration drops the tables, and with them their rows.
SchemaNext ==
  /\ MigratorNext
  /\ seeds' = IF effect'[1] < effect[1] THEN {} ELSE seeds
  /\ UNCHANGED <<service, boot>>

StartupNext == SchemaNext \/ (BootNext /\ UNCHANGED migratorVars)

-----------------------------------------------------------------------------
\* What an instance needs of its service's rows, when it serves.
Bootstrapped ==
  CASE service = "core"     -> {"outlet", "service"} \subseteq seeds
    [] service = "identity" -> {"owner", "role"} \subseteq seeds
    [] OTHER                -> TRUE

\* However many instances start at once, and wherever some of them die, one that
\* serves finds an outlet and a service, or an owner with the OWNER role: no
\* instance is left to serve a half-made bootstrap of another, with one
\* exception.  The service is inserted apart from its price, so while an
\* instance is between the two, and for ever if it died there, others serve a
\* service that has none (EnsureSeedCatalog).  A Down takes anything away.
ServesBootstrapped ==
  (\E r \in Runs : boot[r] = "serving") /\ (\A r \in Runs : runs[r].kind # "down") =>
    /\ Bootstrapped
    /\ service = "core" =>
         "price" \in seeds \/ \E r \in Runs : boot[r] \in {"price", "unpriced"}
=============================================================================
