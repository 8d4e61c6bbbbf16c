----------------------------- MODULE StaffUsers -----------------------------
(***************************************************************************)
(* Identity's staff users.  UpdateUser sets is_active, if the request says *)
(* so, and replaces the roles and then the outlets that it names: a DELETE *)
(* and an INSERT for each, in one READ COMMITTED transaction.  A DELETE    *)
(* removes what was committed when it began, and waits for who holds one   *)
(* of those rows.                                                          *)
(*                                                                         *)
(* Users share no row, so that one stands for all.                         *)
(***************************************************************************)
EXTENDS Integers, Sequences, SequencesExt

CONSTANTS
  Roles,
  GlobalRoles, \* OWNER and SUPER_ADMIN, which need no outlet
  Outlets,
  Updates,     \* requests to update the user
  Asked,       \* the roles and outlets that they may ask for
  Untouched    \* what a request does not name, or the update that is none

Contents == {[roles |-> r, outlets |-> o] :
  r \in (SUBSET Roles) \cup {Untouched}, o \in (SUBSET Outlets) \cup {Untouched}}

ASSUME StaffAssumption ==
  /\ GlobalRoles \subseteq Roles
  /\ Asked \subseteq Contents
  /\ Untouched \notin Updates

VARIABLES
  members,   \* the user's rows in user_roles and in user_outlets
  update,    \* what each request asks for and what it is at
  overtaken, \* history: <<u, v>>, v committed after u had begun its DELETE, by table
  lastSet    \* history: the update that each table was last replaced by

staffVars == <<members, update, overtaken, lastSet>>

Tables == {"roles", "outlets"}
None == [roles |-> {}, outlets |-> {}]
NotAsked == [stage |-> "idle", active |-> FALSE, content |-> None, todo |-> <<>>, deleted |-> None]

\* CreateUser's checks, and its one transaction.
IsUser(m) ==
  /\ m.roles # {}
  /\ m.outlets = {} <=> m.roles \cap GlobalRoles # {}

StaffInit ==
  /\ members   \in {m \in [roles : SUBSET Roles, outlets : SUBSET Outlets] : IsUser(m)}
  /\ update    = [u \in Updates |-> NotAsked]
  /\ overtaken = [t \in Tables |-> {}]
  /\ lastSet   = [t \in Tables |-> Untouched]

Updating(u) == update[u].stage \notin {"idle", "done"}
Others(u)   == {v \in Updates \ {u} : Updating(v)}
Names(u, t) == update[u].content[t] # Untouched

\* Whether u is about to find, to delete or to insert the rows of table t.
At(u, stage, t) == update[u].stage = stage /\ update[u].todo # <<>> /\ Head(update[u].todo) = t
Finished(u, t)  == Names(u, t) /\ t \notin Range(update[u].todo)

\* Rows that u has deleted or inserted and not committed.
HoldsRows(u, t) ==
  CASE At(u, "insert", t) -> update[u].deleted[t]
    [] Finished(u, t)     -> update[u].deleted[t] \cup update[u].content[t]
    [] OTHER              -> {}
HoldsAccount(u) == update[u].active /\ update[u].stage # "account"

Named(content, t) == IF content[t] = Untouched THEN <<>> ELSE <<t>>

BeginUpdate(u, active, content) ==
  /\ update[u].stage = "idle"
  /\ update' = [update EXCEPT ![u] =
       [stage |-> IF active THEN "account" ELSE "find", active |-> active, content |-> content,
        todo |-> Named(content, "roles") \o Named(content, "outlets"), deleted |-> None]]
  /\ UNCHANGED <<members, overtaken, lastSet>>

\* The UPDATE of the account, which the transaction holds from then on.
SetActive(u) ==
  /\ update[u].stage = "account"
  /\ \A v \in Others(u) : ~HoldsAccount(v)
  /\ update' = [update EXCEPT ![u].stage = "find"]
  /\ UNCHANGED <<members, overtaken, lastSet>>

\* Mutant: a list that is empty replaces nothing.
FindUnlessEmpty(u, t) ==
  /\ At(u, "find", t)
  /\ update' = [update EXCEPT ![u].stage = "delete",
                              ![u].deleted[t] = IF update[u].content[t] = {} THEN {} ELSE members[t]]
  /\ UNCHANGED <<members, overtaken, lastSet>>

\* The DELETE begins, and finds the rows ...
FindRows(u, t) ==
  /\ At(u, "find", t)
  /\ update' = [update EXCEPT ![u].stage = "delete", ![u].deleted[t] = members[t]]
  /\ UNCHANGED <<members, overtaken, lastSet>>

\* ... and has those that nobody has deleted meanwhile, when nobody holds them.
DeleteRows(u, t) ==
  /\ At(u, "delete", t)
  /\ \A v \in Others(u) : HoldsRows(v, t) \cap update[u].deleted[t] = {}
  /\ update' = [update EXCEPT ![u].stage = "insert"]
  /\ UNCHANGED <<members, overtaken, lastSet>>

\* The INSERTs wait for who has inserted or deleted the same rows, and fail on
\* one that is there: then nothing of the update remains.
InsertRows(u, t) ==
  /\ At(u, "insert", t)
  /\ \A v \in Others(u) : HoldsRows(v, t) \cap update[u].content[t] = {}
  /\ LET there == members[t] \ update[u].deleted[t] IN
     update' = IF there \cap update[u].content[t] = {}
                 THEN [update EXCEPT ![u].stage = "find", ![u].todo = Tail(@)]
                 ELSE [update EXCEPT ![u].stage = "done"]
  /\ UNCHANGED <<members, overtaken, lastSet>>

Found(v, t) == Finished(v, t) \/ At(v, "delete", t) \/ At(v, "insert", t)

\* The rows that v has found, when u has deleted some: inserted again, they are
\* others, which v has not found.
WithoutRows(v, u) == [update[v] EXCEPT !.deleted = [t \in Tables |->
  IF At(v, "delete", t) /\ Names(u, t) THEN @[t] \ update[u].deleted[t] ELSE @[t]]]

CommitUpdate(u) ==
  /\ update[u].stage = "find" /\ update[u].todo = <<>>
  /\ members' = [t \in Tables |-> IF Names(u, t)
       THEN (members[t] \ update[u].deleted[t]) \cup update[u].content[t] ELSE members[t]]
  /\ lastSet' = [t \in Tables |-> IF Names(u, t) THEN u ELSE lastSet[t]]
  /\ overtaken' = [t \in Tables |-> IF Names(u, t)
       THEN overtaken[t] \cup {<<v, u>> : v \in {v \in Others(u) : Found(v, t)}} ELSE overtaken[t]]
  /\ update' = [v \in Updates |-> IF v = u THEN [update[u] EXCEPT !.stage = "done"] ELSE WithoutRows(v, u)]

\* A role that is not known, a statement that fails, or the process dies.
UpdateFails(u) ==
  /\ Updating(u)
  /\ update' = [update EXCEPT ![u].stage = "done"]
  /\ UNCHANGED <<members, overtaken, lastSet>>

StaffNext == \E u \in Updates :
  \/ \E active \in BOOLEAN, content \in Asked : BeginUpdate(u, active, content)
  \/ SetActive(u)
  \/ \E t \in Tables : FindRows(u, t) \/ DeleteRows(u, t) \/ InsertRows(u, t)
  \/ CommitUpdate(u)
  \/ UpdateFails(u)

-----------------------------------------------------------------------------
\* The user has the roles and the outlets of the update that replaced them
\* last, unless another was committed since it had begun to: then it may have
\* those of both.  Updates that set is_active too never overtake one another, as
\* the account's row, which they have first, keeps one waiting (UpdateUser).
MembersAreOfOneUpdate == \A t \in Tables : \A u \in Updates :
  (lastSet[t] = u /\ \A v \in Updates : <<u, v>> \in overtaken[t] => update[u].active /\ update[v].active)
    => members[t] = update[u].content[t]
=============================================================================
