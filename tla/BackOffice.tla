----------------------------- MODULE BackOffice -----------------------------
(***************************************************************************)
(* What goes on beside the orders: owners set prices and the tax rate in   *)
(* Core and update staff users in Identity, who sign in meanwhile; the     *)
(* gateway counts requests; Reporting projects events into the reports;    *)
(* instances start over a database, which operators migrate.  The five     *)
(* share no table and no process.                                          *)
(***************************************************************************)
EXTENDS Catalogue, StaffAccess, RateLimit, Reporting, Startup

vars == <<catalogueVars, staffVars, accessVars, limitVars, reportingVars, migratorVars, startupVars>>

Init ==
  /\ CatalogueInit
  /\ StaffInit /\ AccessInit
  /\ LimitInit
  /\ ReportingInit
  /\ MigratorInit /\ StartupInit

CatalogueStep ==
  CatalogueNext /\ UNCHANGED <<staffVars, accessVars, limitVars, reportingVars, migratorVars, startupVars>>
AccessStep ==
  AccessNext /\ UNCHANGED <<catalogueVars, limitVars, reportingVars, migratorVars, startupVars>>
LimitStep ==
  LimitNext /\ UNCHANGED <<catalogueVars, staffVars, accessVars, reportingVars, migratorVars, startupVars>>
ReportingStep ==
  ReportingNext /\ UNCHANGED <<catalogueVars, staffVars, accessVars, limitVars, migratorVars, startupVars>>
StartupStep ==
  StartupNext /\ UNCHANGED <<catalogueVars, staffVars, accessVars, limitVars, reportingVars>>

Next == CatalogueStep \/ AccessStep \/ LimitStep \/ ReportingStep \/ StartupStep

Spec == Init /\ [][Next]_vars
=============================================================================
