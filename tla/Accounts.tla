------------------------------ MODULE Accounts ------------------------------
(***************************************************************************)
(* Identity's customer side: registration with Core, the sessions of the   *)
(* accounts it makes, and a browser that has some of these sessions.       *)
(* Staff sessions take the same steps, from users that are there already.  *)
(***************************************************************************)
EXTENDS Registration, Browser

vars == <<regVars, sessionVars, browserVars>>

Init == RegInit /\ SessionsInit /\ BrowserInit

\* The answer of a login goes to the browser, or to another client.
AnyLogIn == LogInHere \/ (LogIn /\ UNCHANGED browserVars)

\* Register ends with a session, although its link may have failed.
EndRegistration(q) ==
  /\ at[q] = "session"
  /\ GoTo(q, "done")
  /\ AnyLogIn
  /\ UNCHANGED <<customers, link, accounts, unlinked>>

\* Login finds an account by e-mail or phone.
NextLogIn ==
  /\ accounts # {}
  /\ AnyLogIn
  /\ UNCHANGED regVars

\* Another client shows a session of its own, to refresh it or to log out.
Elsewhere == \E s \in 1..issued :
  /\ family[s] \notin here
  /\ LogOut(s) \/ \E q \in Refreshes : ~Fetching(q) /\ ReadSession(q, s)
  /\ UNCHANGED browserVars

SessionNext ==
  /\ Elsewhere \/ ClearSession \/ \E t \in Refreshes : BrowserStep(t)
  /\ UNCHANGED regVars

Next ==
  \/ \E q \in Requests : RegisterStep(q) /\ UNCHANGED <<sessionVars, browserVars>>
  \/ \E p \in Phones : CreateGuest(p) /\ UNCHANGED <<sessionVars, browserVars>>
  \/ \E q \in Requests : EndRegistration(q)
  \/ NextLogIn
  \/ SessionNext

Spec == Init /\ [][Next]_vars

=============================================================================
