------------------------------ MODULE Sessions ------------------------------
(***************************************************************************)
(* Identity's sessions: a login or a registration issues a refresh token,  *)
(* a refresh revokes the token it is shown and issues another, a logout    *)
(* revokes it.  Staff and customers have a table each and the same code.   *)
(*                                                                         *)
(* A session is known by the number it was issued under, and its family is *)
(* the number of the login it descends from.                               *)
(***************************************************************************)
EXTENDS Integers, FiniteSets

CONSTANTS
  Refreshes,   \* concurrent requests to refresh
  MaxSessions  \* bound on the sessions issued

ASSUME SessionsAssumption == MaxSessions \in Nat

VARIABLES
  issued,     \* sessions issued so far
  family,     \* the login each session descends from
  revoked,    \* sessions with revoked_at
  refreshing, \* the session each request has read, with its next step
  unsafe      \* history: families in which two refreshes read one session, or
              \* a revocation failed

sessionVars == <<issued, family, revoked, refreshing, unsafe>>

Idle == [step |-> "idle", session |-> 0]

SessionsInit ==
  /\ issued     = 0
  /\ family     = [s \in 1..MaxSessions |-> 0]
  /\ revoked    = {}
  /\ refreshing = [q \in Refreshes |-> Idle]
  /\ unsafe     = {}

\* issueCustomerSession, issueStaffSession: one more session of family f.
Issue(f) ==
  /\ issued < MaxSessions
  /\ issued' = issued + 1
  /\ family' = [family EXCEPT ![issued + 1] = f]

\* Login, and the end of Register.
LogIn ==
  /\ Issue(issued + 1)
  /\ UNCHANGED <<revoked, refreshing, unsafe>>

\* Two requests hold a session that neither has revoked.
Raced(s) == \E q \in Refreshes : refreshing[q] = [step |-> "revoke", session |-> s]

TakeSession(q, s) ==
  /\ refreshing[q] = Idle
  /\ refreshing' = [refreshing EXCEPT ![q] = [step |-> "revoke", session |-> s]]
  /\ unsafe' = IF Raced(s) THEN unsafe \cup {family[s]} ELSE unsafe
  /\ UNCHANGED <<issued, family, revoked>>

\* Mutant: a revoked session is let through.
ReadAnySession(q, s) == TakeSession(q, s)

\* StaffRefresh, CustomerRefresh: the SELECT.  (An expired session is refused
\* like a revoked one, which is the same as never showing it again.)
ReadSession(q, s) == s \notin revoked /\ TakeSession(q, s)

\* Mutant: the session that was shown is left to expire.
LeaveSession(q) ==
  /\ refreshing[q].step = "revoke"
  /\ refreshing' = [refreshing EXCEPT ![q].step = "issue"]
  /\ UNCHANGED <<issued, family, revoked, unsafe>>

\* The UPDATE, by id and whatever the session is by now.
RevokeSession(q) ==
  /\ refreshing[q].step = "revoke"
  /\ revoked' = revoked \cup {refreshing[q].session}
  /\ refreshing' = [refreshing EXCEPT ![q].step = "issue"]
  /\ UNCHANGED <<issued, family, unsafe>>

\* An UPDATE that fails is only logged.
RevokeFails(q) ==
  /\ refreshing[q].step = "revoke"
  /\ unsafe' = unsafe \cup {family[refreshing[q].session]}
  /\ refreshing' = [refreshing EXCEPT ![q].step = "issue"]
  /\ UNCHANGED <<issued, family, revoked>>

IssueSession(q) ==
  /\ refreshing[q].step = "issue"
  /\ Issue(family[refreshing[q].session])
  /\ refreshing' = [refreshing EXCEPT ![q] = Idle]
  /\ UNCHANGED <<revoked, unsafe>>

\* Core does not answer for the customer, the insert fails or the process dies.
RefreshStops(q) ==
  /\ refreshing[q] # Idle
  /\ refreshing' = [refreshing EXCEPT ![q] = Idle]
  /\ UNCHANGED <<issued, family, revoked, unsafe>>

LogOut(s) ==
  /\ s \notin revoked
  /\ revoked' = revoked \cup {s}
  /\ UNCHANGED <<issued, family, refreshing, unsafe>>

-----------------------------------------------------------------------------
Live(f)     == {s \in 1..issued : family[s] = f /\ s \notin revoked}
InFlight(f) == \E q \in Refreshes : refreshing[q] # Idle /\ family[refreshing[q].session] = f

\* Rotation (StaffRefresh, CustomerRefresh): a login has one live session at most,
\* unless two refreshes read one session before either revoked it, or an UPDATE
\* that revokes failed and was only logged.  Then it can have two, although
\* refresh_logout.go:18 and docs/12 section 4 call a token single-use; and no
\* code revokes the family when a used token is shown again, as docs/12 has it.
OneLivePerLogin == \A f \in (1..issued) \ unsafe : Cardinality(Live(f)) <= 1

\* A login that has ended, by logout or by a refresh that stopped half way,
\* with no refresh in flight, is over: no token of it gets a refresh, and no
\* session of it comes back.
Over(f) == Live(f) = {} /\ ~InFlight(f)
EndedStaysEnded == [][\A f \in 1..issued : Over(f) => Over(f)']_sessionVars
=============================================================================
