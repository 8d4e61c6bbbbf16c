---------------------------- MODULE StaffAccess -----------------------------
(***************************************************************************)
(* What a staff user may do, by the access token of a login or a refresh.  *)
(* StaffLogin and StaffRefresh read the roles and then the outlets, each   *)
(* in a statement of its own, while UpdateUser replaces them; the token    *)
(* keeps what they read until it expires.  The gateway's Authenticate      *)
(* hands it on as headers, and the services decide by these alone          *)
(* (shared/httpauth).                                                      *)
(***************************************************************************)
EXTENDS StaffUsers

CONSTANT SignIns  \* logins and refreshes of the user

VARIABLES
  signIn, \* the step of each, with the claims it has read
  since,  \* history: roles and outlets that were committed since it began
  torn    \* history: sign-ins between whose reads an update has given the user an outlet
          \* and left him without a role that they had read

accessVars == <<signIn, since, torn>>

NotSignedIn == [stage |-> "idle", kind |-> "login", roles |-> {}, outlets |-> {}]

AccessInit ==
  /\ signIn = [s \in SignIns |-> NotSignedIn]
  /\ since  = [s \in SignIns |-> {}]
  /\ torn   = {}

Reading(s) == signIn[s].stage \notin {"idle", "token", "failed"}
IsAt(s, stage) == signIn[s].stage = stage

\* The account is active and the password right, or the session has not been
\* used: the handler goes on to the roles.
BeginSignIn(s, kind) ==
  /\ IsAt(s, "idle")
  /\ signIn' = [signIn EXCEPT ![s] = [NotSignedIn EXCEPT !.kind = kind, !.stage = "roles"]]
  /\ since'  = [since EXCEPT ![s] = {members}]
  /\ UNCHANGED torn

ReadRoles(s) ==
  /\ IsAt(s, "roles")
  /\ signIn' = [signIn EXCEPT ![s].roles = members.roles, ![s].stage = "outlets"]
  /\ UNCHANGED <<since, torn>>

ReadOutlets(s) ==
  /\ IsAt(s, "outlets")
  /\ signIn' = [signIn EXCEPT ![s].outlets = members.outlets, ![s].stage = "issue"]
  /\ UNCHANGED <<since, torn>>

\* A login ends when a read fails; a refresh takes the claim as empty.
ReadFails(s) ==
  /\ signIn[s].stage \in {"roles", "outlets"}
  /\ signIn' = [signIn EXCEPT ![s].stage =
       IF signIn[s].kind = "login" THEN "failed" ELSE IF IsAt(s, "roles") THEN "outlets" ELSE "issue"]
  /\ UNCHANGED <<since, torn>>

\* The token is made and its session inserted, or the handler fails.
IssueToken(s) ==
  /\ IsAt(s, "issue")
  /\ \E end \in {"token", "failed"} : signIn' = [signIn EXCEPT ![s].stage = end]
  /\ UNCHANGED <<since, torn>>

SignInNext == \E s \in SignIns :
  \/ \E kind \in {"login", "refresh"} : BeginSignIn(s, kind)
  \/ ReadRoles(s) \/ ReadOutlets(s) \/ ReadFails(s) \/ IssueToken(s)

\* What an update does to the sign-ins that go on.
Tears(s) ==
  /\ IsAt(s, "outlets")
  /\ ~ (signIn[s].roles \subseteq members'.roles)
  /\ ~ (members'.outlets \subseteq members.outlets)

Witness ==
  /\ since' = [s \in SignIns |-> IF Reading(s) THEN since[s] \cup {members'} ELSE since[s]]
  /\ torn'  = torn \cup {s \in SignIns : Tears(s)}
  /\ UNCHANGED signIn

AccessNext ==
  \/ StaffNext /\ Witness
  \/ SignInNext /\ UNCHANGED staffVars

-----------------------------------------------------------------------------
(***************************************************************************)
(* The decisions of shared/httpauth on claims c.                           *)
(***************************************************************************)
HasAnyRole(c, allowed) == c.roles \cap allowed # {}
IsGlobalStaff(c)       == HasAnyRole(c, GlobalRoles)

\* Mutant: no outlets are taken for all, as the comment on Principal has it.
CanAccessUnlessNone(c, o) == IsGlobalStaff(c) \/ c.outlets = {} \/ o \in c.outlets

CanAccessOutlet(c, o) == IsGlobalStaff(c) \/ o \in c.outlets

\* A token is for some moment since the sign-in began: its user had then all of
\* its roles, and with them access to all of its outlets, whatever updates were
\* committed between the two reads and whichever of them failed (StaffLogin,
\* StaffRefresh).  An action asks for a role and an outlet, so it allows none that
\* he was never allowed.  Only one who is given an outlet and loses a role between
\* the reads may get both; even then each of the two is what he had, in full, at a
\* moment of its own, or, in a refresh, nothing.
TokensGrantWhatWasHeld == \A s \in SignIns : IsAt(s, "token") =>
  LET claims == [roles |-> signIn[s].roles, outlets |-> signIn[s].outlets]
      unread == IF signIn[s].kind = "refresh" THEN {{}} ELSE {}
  IN
  /\ s \notin torn => \E m \in since[s] :
       /\ claims.roles \subseteq m.roles
       /\ \A o \in Outlets : CanAccessOutlet(claims, o) => CanAccessOutlet(m, o)
  /\ \E m \in since[s] : claims.roles \in {m.roles} \cup unread
  /\ \E m \in since[s] : claims.outlets \in {m.outlets} \cup unread
=============================================================================
