------------------------------ MODULE Browser -------------------------------
(***************************************************************************)
(* The web application's side of a session: one browser, with one stored   *)
(* session (lib/auth.ts) that all of its tabs share, and in each tab at    *)
(* most one refresh in flight (lib/api.ts).  A tab refreshes when a call   *)
(* of it comes back with 401, which may be at any time: access tokens      *)
(* expire, and a call may carry one that was replaced since.               *)
(*                                                                         *)
(* Customers and staff have a key of the storage each, and the same code.  *)
(* A tab is named after the request to refresh that it may have at         *)
(* Identity.  A session tells whose it is by its family, as the stored     *)
(* names and roles are those of the session that was refreshed.            *)
(***************************************************************************)
EXTENDS Sessions

VARIABLES
  stored,     \* the session in localStorage, 0 for none
  tab,        \* the refresh that each tab has in flight
  here,       \* history: logins of this browser
  lastLogin,  \* history: the login that this browser has seen last, 0 after a logout
  overlapped, \* history: a refresh was in flight then
  spoiled     \* history: logins of which the answer to a refresh was lost

browserVars == <<stored, tab, here, lastLogin, overlapped, spoiled>>

NoFetch == [step |-> "none", shown |-> 0, got |-> 0]

BrowserInit ==
  /\ stored     = 0
  /\ tab        = [t \in Refreshes |-> NoFetch]
  /\ here       = {}
  /\ lastLogin  = 0
  /\ overlapped = FALSE
  /\ spoiled    = {}

Fetching(t) == tab[t] # NoFetch

\* setCustomerSession after a login or a registration, or the clearing of it.
Store(s) ==
  /\ stored'     = s
  /\ lastLogin'  = s
  /\ overlapped' = \E t \in Refreshes : Fetching(t)
  /\ UNCHANGED <<tab, spoiled>>

LogInHere ==
  /\ LogIn
  /\ Store(issued + 1)
  /\ here' = here \cup {issued + 1}

\* Mutant: a logout leaves the page and nothing else.
LeavePage ==
  /\ stored # 0
  /\ lastLogin' = 0 /\ overlapped' = \E t \in Refreshes : Fetching(t)
  /\ UNCHANGED <<sessionVars, stored, tab, here, spoiled>>

\* A logout is of the browser alone: Identity is not told.
ClearSession ==
  /\ stored # 0
  /\ Store(0)
  /\ UNCHANGED <<sessionVars, here>>

StartRefresh(t) ==
  /\ ~Fetching(t) /\ refreshing[t] = Idle
  /\ stored # 0
  /\ tab' = [tab EXCEPT ![t] = [step |-> "sent", shown |-> stored, got |-> 0]]
  /\ UNCHANGED <<sessionVars, stored, here, lastLogin, overlapped, spoiled>>

\* Identity takes the request up ...
TakeUp(t) ==
  /\ tab[t].step = "sent"
  /\ ReadSession(t, tab[t].shown)
  /\ tab' = [tab EXCEPT ![t].step = "served"]
  /\ UNCHANGED <<stored, here, lastLogin, overlapped, spoiled>>

\* ... or refuses a session that was revoked.
Refuse(t) ==
  /\ tab[t].step = "sent" /\ tab[t].shown \in revoked
  /\ tab' = [tab EXCEPT ![t] = NoFetch]
  /\ UNCHANGED <<sessionVars, stored, here, lastLogin, overlapped, spoiled>>

\* The answer, unless the tab has given up.
AnswerTab(q) ==
  /\ IssueSession(q)
  /\ tab' = IF tab[q].step = "served" THEN [tab EXCEPT ![q].step = "answered", ![q].got = issued + 1] ELSE tab
  /\ UNCHANGED <<stored, here, lastLogin, overlapped, spoiled>>

\* An answer with an error, or none.
FailTab(q) ==
  /\ RefreshStops(q)
  /\ IF tab[q].step = "served"
       THEN /\ tab' = [tab EXCEPT ![q] = NoFetch]
            /\ spoiled' = spoiled \cup {family[tab[q].shown]}
       ELSE UNCHANGED <<tab, spoiled>>
  /\ UNCHANGED <<stored, here, lastLogin, overlapped>>

\* The fetch fails or the tab is closed, whatever Identity does with it.
GiveUp(t) ==
  /\ Fetching(t)
  /\ tab' = [tab EXCEPT ![t] = NoFetch]
  /\ spoiled' = IF tab[t].step = "sent" THEN spoiled ELSE spoiled \cup {family[tab[t].shown]}
  /\ UNCHANGED <<sessionVars, stored, here, lastLogin, overlapped>>

\* Mutant: the new access token is stored and the new refresh token is not.
StoreAccessToken(t) ==
  /\ tab[t].step = "answered"
  /\ stored' = tab[t].shown
  /\ tab' = [tab EXCEPT ![t] = NoFetch]
  /\ UNCHANGED <<sessionVars, here, lastLogin, overlapped, spoiled>>

\* The answer is stored, over whatever is stored by then.
StoreRefreshed(t) ==
  /\ tab[t].step = "answered"
  /\ stored' = tab[t].got
  /\ tab' = [tab EXCEPT ![t] = NoFetch]
  /\ UNCHANGED <<sessionVars, here, lastLogin, overlapped, spoiled>>

BrowserStep(t) ==
  \/ StartRefresh(t) \/ TakeUp(t) \/ Refuse(t)
  \/ RevokeSession(t) /\ UNCHANGED browserVars
  \/ RevokeFails(t) /\ UNCHANGED browserVars
  \/ AnswerTab(t) \/ FailTab(t)
  \/ GiveUp(t) \/ StoreRefreshed(t)

-----------------------------------------------------------------------------
\* Tabs that refresh one stored session never leave one that Identity has
\* revoked, with which the user could only log in again: a tab that is about to
\* replace it is there, or the answer to a refresh was lost (refreshAccessToken).
StoredIsLive ==
  stored \in revoked => \/ \E t \in Refreshes : Fetching(t) /\ tab[t].shown = stored
                        \/ family[stored] \in spoiled

\* The browser has the session of whom it saw log in last, and none after a
\* logout, unless a refresh was in flight at that time: its answer brings back
\* who has left.
StoredIsOfLastLogin == stored # 0 /\ ~overlapped => family[stored] = lastLogin
=============================================================================
