---------------------------- MODULE Registration ----------------------------
(***************************************************************************)
(* A customer's registration, over two services and two databases: Core    *)
(* has the customers, unique by phone, and Identity the accounts that can  *)
(* log in.  Register calls Core for the customer, inserts the account and  *)
(* calls Core again to link the two.  No transaction spans any two steps.  *)
(*                                                                         *)
(* A customer is never deleted and keeps its phone, so the phone stands    *)
(* for the customer; every request makes one account id at most, so the    *)
(* request stands for the account.                                         *)
(***************************************************************************)
EXTENDS Integers

CONSTANTS
  Requests,      \* requests to register
  Phones, Emails,
  PhoneOf, EmailOf, \* what each request gives; the e-mail may be Nobody
  Nobody         \* no account, no e-mail

ASSUME RequestsAssumption ==
  /\ PhoneOf \in [Requests -> Phones]
  /\ EmailOf \in [Requests -> Emails \cup {Nobody}]
  /\ Nobody \notin Requests \cup Emails

VARIABLES
  customers, \* Core: customers there are
  link,      \* Core: customers.identity_account_id
  accounts,  \* Identity: customer_accounts
  at,        \* next step of each request
  unlinked   \* history: accounts whose call of LinkIdentity did not come through

regVars == <<customers, link, accounts, at, unlinked>>

RegInit ==
  /\ customers = {}
  /\ link      = [p \in Phones |-> Nobody]
  /\ accounts  = {}
  /\ at        = [q \in Requests |-> "lookup"]
  /\ unlinked  = {}

GoTo(q, step) == at' = [at EXCEPT ![q] = step]

\* Core's CreateCustomer for a guest; the lookup before the insert only spares
\* the insert that would fail.
CreateGuest(p) ==
  /\ p \notin customers
  /\ customers' = customers \cup {p}
  /\ UNCHANGED <<link, accounts, at, unlinked>>

\* CreateCustomer for a registration: the lookup by phone ...
LookUpCustomer(q) ==
  /\ at[q] = "lookup"
  /\ GoTo(q, IF PhoneOf[q] \in customers THEN "account" ELSE "insert")
  /\ UNCHANGED <<customers, link, accounts, unlinked>>

\* ... and the insert.  A phone that was inserted since is an error, and the
\* registration answers that Core is unavailable.
InsertCustomer(q) ==
  /\ at[q] = "insert"
  /\ customers' = customers \cup {PhoneOf[q]}
  /\ GoTo(q, IF PhoneOf[q] \in customers THEN "done" ELSE "account")
  /\ UNCHANGED <<link, accounts, unlinked>>

\* The unique indexes of customer_accounts.
Taken(q) == \E a \in accounts :
  PhoneOf[a] = PhoneOf[q] \/ (EmailOf[q] # Nobody /\ EmailOf[a] = EmailOf[q])

\* Mutant: a conflict is taken for an earlier attempt, and the link retried.
InsertOrRelink(q) ==
  /\ at[q] = "account"
  /\ accounts' = IF Taken(q) THEN accounts ELSE accounts \cup {q}
  /\ GoTo(q, "link")
  /\ UNCHANGED <<customers, link, unlinked>>

InsertAccount(q) ==
  /\ at[q] = "account"
  /\ accounts' = IF Taken(q) THEN accounts ELSE accounts \cup {q}
  /\ GoTo(q, IF Taken(q) THEN "done" ELSE "link")
  /\ UNCHANGED <<customers, link, unlinked>>

\* LinkIdentity's UPDATE; no row for a customer that is linked already.
LinkIdentity(q) ==
  /\ at[q] = "link"
  /\ link' = IF link[PhoneOf[q]] = Nobody THEN [link EXCEPT ![PhoneOf[q]] = q] ELSE link
  /\ GoTo(q, "session")
  /\ UNCHANGED <<customers, accounts, unlinked>>

\* Core does not answer: the registration goes on without the link.
LinkFails(q) ==
  /\ at[q] = "link"
  /\ unlinked' = unlinked \cup {q}
  /\ GoTo(q, "session")
  /\ UNCHANGED <<customers, link, accounts>>

\* The UPDATE was on its way when the call was given up, and commits now.
LinkLate(q) ==
  /\ q \in unlinked
  /\ link[PhoneOf[q]] = Nobody
  /\ link' = [link EXCEPT ![PhoneOf[q]] = q]
  /\ UNCHANGED <<customers, accounts, at, unlinked>>

\* A call or a statement fails, or the process dies.  Core may have done what
\* it was asked for before the answer was lost: that is the step, then this.
RegistrationStops(q) ==
  /\ at[q] # "done"
  /\ unlinked' = IF at[q] = "link" THEN unlinked \cup {q} ELSE unlinked
  /\ GoTo(q, "done")
  /\ UNCHANGED <<customers, link, accounts>>

RegisterStep(q) ==
  \/ LookUpCustomer(q)
  \/ InsertCustomer(q)
  \/ InsertAccount(q)
  \/ LinkIdentity(q)
  \/ LinkFails(q)
  \/ LinkLate(q)
  \/ RegistrationStops(q)

-----------------------------------------------------------------------------
\* The two services agree on who is who.  An account has a customer in
\* Core, although no foreign key can say so; a customer is linked to an account
\* of its own; an account is linked, or its link is still to come, or the call
\* failed.  (Register says that a retry can repair the last; it cannot.)
LinkIsMutual ==
  /\ \A a \in accounts : PhoneOf[a] \in customers
  /\ \A p \in Phones : link[p] # Nobody => link[p] \in accounts /\ PhoneOf[link[p]] = p
  /\ \A a \in accounts : link[PhoneOf[a]] = a \/ at[a] = "link" \/ a \in unlinked
=============================================================================
