----------------------------- MODULE Catalogue ------------------------------
(***************************************************************************)
(* Core's versioned settings: the price of a service, of all outlets or of *)
(* one, and the tax rate.  A new version closes the active rows of its key *)
(* and inserts one of its own, in one READ COMMITTED transaction.  The     *)
(* UPDATE sees the rows that were committed when it began, waits for those *)
(* that another transaction holds, and leaves alone the ones it then finds *)
(* closed.                                                                 *)
(*                                                                         *)
(* No index keeps two rows of a key from being active: service_prices has  *)
(* none, and that of tax_rates is on a column that is NULL in every row it *)
(* covers, which are all distinct to PostgreSQL.                           *)
(***************************************************************************)
EXTENDS Integers, FiniteSets

CONSTANTS
  Settings, \* what has versions: a service, a service at an outlet, the tax rate
  Seeded,   \* those that a migration gives a first row
  Setters   \* requests, of one new version each


VARIABLES
  versions, \* rows of service_prices and tax_rates
  setting,  \* what each request is at
  clock,    \* transactions begun
  late,     \* history: requests that another committed past, after their UPDATE began
  together, \* history: pairs of requests of one setting that were open at once
  last      \* history: the last request that each setting had its version from

catalogueVars == <<versions, setting, clock, late, together, last>>

Open == 0  \* effective_to IS NULL
Seed == 0  \* the migration, where a request is expected

ASSUME CatalogueAssumption == Seeded \subseteq Settings /\ Seed \notin Setters

Row(k, s, from) == [key |-> k, by |-> s, from |-> from, to |-> Open, closer |-> Seed]
Idle == [step |-> "idle", key |-> "none", began |-> 0, rows |-> {}]

CatalogueInit ==
  /\ versions = {Row(k, Seed, 0) : k \in Seeded}
  /\ setting  = [s \in Setters |-> Idle]
  /\ clock    = 0
  /\ late     = {}
  /\ together = {}
  /\ last     = [k \in Settings |-> Seed]

Running(s) == setting[s].step \notin {"idle", "done"}
Rivals(s)  == {t \in Setters \ {s} : Running(t) /\ setting[t].key = setting[s].key}
Holds(s)   == IF setting[s].step = "insert" THEN setting[s].rows ELSE {}

\* What a reader may get: the rows of a setting that are active.
Active(k) == {r \in versions : r.key = k /\ r.to = Open}

\* now() is the time at which the transaction began.
BeginSetting(s, k) ==
  /\ setting[s].step = "idle"
  /\ clock'    = clock + 1
  /\ setting'  = [setting EXCEPT ![s] = [step |-> "update", key |-> k, began |-> clock + 1, rows |-> {}]]
  /\ together' = together \cup {{s, t} : t \in {t \in Setters : Running(t) /\ setting[t].key = k}}
  /\ UNCHANGED <<versions, late, last>>

\* The UPDATE begins, and finds the rows to close ...
StartClose(s) ==
  /\ setting[s].step = "update"
  /\ setting' = [setting EXCEPT ![s].step = "close", ![s].rows = Active(setting[s].key)]
  /\ UNCHANGED <<versions, clock, late, together, last>>

\* The effect of the UPDATE on rows, of a transaction that began then.
ClosedBy(s, rows) == {[r EXCEPT !.to = setting[s].began, !.closer = s] : r \in rows}

\* Mutant: the rows are closed outside the transaction.
CloseAtOnce(s) ==
  /\ setting[s].step = "close"
  /\ versions' = (versions \ setting[s].rows) \cup ClosedBy(s, setting[s].rows \cap versions)
  /\ setting'  = [setting EXCEPT ![s].step = "insert", ![s].rows = {}]
  /\ UNCHANGED <<clock, late, together, last>>

\* ... and has them, when nobody else does; a row that was closed meanwhile
\* does not fit the condition any more.
Close(s) ==
  /\ setting[s].step = "close"
  /\ \A t \in Rivals(s) : Holds(t) \cap setting[s].rows = {}
  /\ setting' = [setting EXCEPT ![s].step = "insert", ![s].rows = @ \cap versions]
  /\ UNCHANGED <<versions, clock, late, together, last>>

\* Mutant: the version is effective from the day after.
CommitTomorrow(s) ==
  LET k == setting[s].key IN
  /\ setting[s].step = "insert"
  /\ versions' = (versions \ setting[s].rows) \cup ClosedBy(s, setting[s].rows)
                   \cup {Row(k, s, clock + 2)}
  /\ setting'  = [setting EXCEPT ![s].step = "done"]
  /\ last'     = [last EXCEPT ![k] = s]
  /\ late'     = late \cup {t \in Rivals(s) : setting[t].step # "update"}
  /\ UNCHANGED <<clock, together>>

\* Mutant: the first price of an outlet closes no row, nor does any other.
CommitUnclosed(s) ==
  LET k == setting[s].key IN
  /\ setting[s].step = "insert"
  /\ versions' = versions \cup {Row(k, s, setting[s].began)}
  /\ setting'  = [setting EXCEPT ![s].step = "done"]
  /\ last'     = [last EXCEPT ![k] = s]
  /\ late'     = late \cup {t \in Rivals(s) : setting[t].step # "update"}
  /\ UNCHANGED <<clock, together>>

\* The INSERT and the commit.
CommitSetting(s) ==
  LET k == setting[s].key IN
  /\ setting[s].step = "insert"
  /\ versions' = (versions \ setting[s].rows) \cup ClosedBy(s, setting[s].rows)
                   \cup {Row(k, s, setting[s].began)}
  /\ setting'  = [setting EXCEPT ![s].step = "done"]
  /\ last'     = [last EXCEPT ![k] = s]
  /\ late'     = late \cup {t \in Rivals(s) : setting[t].step # "update"}
  /\ UNCHANGED <<clock, together>>

\* A statement fails, two transactions hold what the other needs, or Core dies.
SettingFails(s) ==
  /\ Running(s)
  /\ setting' = [setting EXCEPT ![s].step = "done", ![s].rows = {}]
  /\ UNCHANGED <<versions, clock, late, together, last>>

CatalogueNext == \E s \in Setters :
  \/ \E k \in Settings : BeginSetting(s, k)
  \/ StartClose(s)
  \/ Close(s)
  \/ CommitSetting(s)
  \/ SettingFails(s)

-----------------------------------------------------------------------------
\* A setting that has had a version has an active one, whatever is being set or
\* has failed: no order meets a service without its price, or no tax rate
\* (activePriceTx, activeTaxRateValue).
NeverUnset == \A k \in Settings : (\E r \in versions : r.key = k) => Active(k) # {}

\* It has one only (A-03, ADR-014), unless the request that set it last was
\* overtaken; the next one that is not puts it right.
OneActive == \A k \in Settings : last[k] \notin late => Cardinality(Active(k)) <= 1

\* The periods of two versions do not overlap and none ends before it begins
\* (docs 06, 2.6), unless two of the requests that set and closed them were
\* open at once.
Before(r, q) == r.to # Open /\ r.from < r.to /\ r.to <= q.from
PeriodsAreApart == \A r, q \in versions :
  \/ r = q \/ r.key # q.key
  \/ Before(r, q) \/ Before(q, r)
  \/ \E p \in together : p \subseteq {r.by, r.closer, q.by, q.closer}
=============================================================================
