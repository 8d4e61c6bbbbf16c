--------------------------- MODULE AccountsProofs ---------------------------
(***************************************************************************)
(* Identity's customer side, for any number of registrations, sessions,    *)
(* concurrent refreshes and tabs.                                          *)
(***************************************************************************)
EXTENDS Accounts, FiniteSetTheorems, TLAPS

-----------------------------------------------------------------------------
(***************************************************************************)
(* Sessions.                                                               *)
(***************************************************************************)
InHand(n) == [step : {"revoke", "issue"}, session : 1..n]

SessionTypes ==
  /\ issued \in Nat /\ issued <= MaxSessions
  /\ family \in [1..MaxSessions -> Nat]
  /\ \A s \in 1..issued : family[s] \in 1..issued
  /\ revoked \subseteq 1..issued
  /\ refreshing \in [Refreshes -> {Idle} \cup InHand(issued)]

\* The refresh q is of the family f.
IsOf(q, f) == refreshing[q] # Idle /\ family[refreshing[q].session] = f

\* One refresh at most is under way in a login, and the only session that can be
\* live is the one it has read, until it has revoked that.
Rotates(f) ==
  /\ \A s, t \in Live(f) : s = t
  /\ \A q, p \in Refreshes : IsOf(q, f) /\ IsOf(p, f) => q = p
  /\ \A q \in Refreshes : IsOf(q, f) =>
       /\ refreshing[q].step = "revoke" => Live(f) \subseteq {refreshing[q].session}
       /\ refreshing[q].step = "issue" => Live(f) = {}

SessionInv == SessionTypes /\ \A f \in (1..issued) \ unsafe : Rotates(f)

\* What the rest of Accounts may do to the sessions.
SessionStep ==
  \/ LogIn
  \/ \E q \in Refreshes : RevokeSession(q) \/ RevokeFails(q) \/ IssueSession(q) \/ RefreshStops(q)
  \/ \E q \in Refreshes, s \in 1..issued : ReadSession(q, s)
  \/ \E s \in 1..issued : LogOut(s)
  \/ UNCHANGED sessionVars

\* A new session of family f changes nothing of the others.
LEMMA IssueFacts ==
  ASSUME SessionTypes, NEW f \in 1..(issued + 1), Issue(f)
  PROVE  /\ issued' = issued + 1 /\ issued' \in Nat /\ issued' <= MaxSessions
         /\ family' \in [1..MaxSessions -> Nat]
         /\ family'[issued + 1] = f
         /\ \A s \in 1..issued : family'[s] = family[s]
         /\ \A s \in 1..issued' : family'[s] \in 1..issued'
  BY SessionsAssumption DEF SessionTypes, Issue

LEMMA LogInInv ==
  ASSUME SessionInv, LogIn
  PROVE  SessionInv'
<1>0. PICK n \in Nat : n = issued + 1
  BY DEF SessionInv, SessionTypes
<1>1. /\ issued' = n /\ n \in Nat /\ n <= MaxSessions
      /\ family' \in [1..MaxSessions -> Nat]
      /\ family'[n] = n
      /\ \A s \in 1..issued : family'[s] = family[s]
      /\ \A s \in 1..n : family'[s] \in 1..n
  BY <1>0, IssueFacts DEF LogIn, SessionInv, SessionTypes
<1>2. UNCHANGED <<revoked, refreshing, unsafe>>
  BY DEF LogIn
<1>3. SessionTypes'
  BY <1>0, <1>1, <1>2 DEF SessionInv, SessionTypes, InHand
<1>4. \A f \in 1..issued : Live(f)' = Live(f)
  BY <1>0, <1>1 DEF LogIn, Live, SessionInv, SessionTypes
<1>5. \A q \in Refreshes : refreshing[q] # Idle =>
        /\ refreshing[q].session \in 1..issued
        /\ family'[refreshing[q].session] = family[refreshing[q].session]
        /\ family[refreshing[q].session] \in 1..issued
  BY <1>0, <1>1 DEF SessionInv, SessionTypes, InHand
<1>6. \A f \in 1..issued, q \in Refreshes : IsOf(q, f)' <=> IsOf(q, f)
  BY <1>2, <1>5 DEF IsOf
<1>7. Live(n)' \subseteq {n} /\ \A q \in Refreshes : ~IsOf(q, n)'
  BY <1>0, <1>1, <1>2, <1>5 DEF Live, IsOf, SessionInv, SessionTypes
<1>8. ASSUME NEW f \in (1..n) \ unsafe'
      PROVE  Rotates(f)'
  <2>1. CASE f = n
    BY <1>7, <2>1 DEF Rotates
  <2>2. CASE f # n
    <3>1. f \in (1..issued) \ unsafe
      BY <1>0, <1>2, <2>2 DEF SessionInv, SessionTypes
    <3>2. QED
      BY <1>2, <1>4, <1>6, <3>1 DEF SessionInv, Rotates
  <2>3. QED
    BY <2>1, <2>2
<1>9. QED
  BY <1>1, <1>3, <1>8 DEF SessionInv

\* A refresh that ends, or a session that is revoked, makes room and no more.
LEMMA LessInv ==
  ASSUME SessionInv, UNCHANGED <<issued, family>>, revoked \subseteq revoked',
         revoked' \subseteq 1..issued, unsafe \subseteq unsafe',
         refreshing' \in [Refreshes -> {Idle} \cup InHand(issued)],
         \A q \in Refreshes : refreshing'[q] \in {Idle, refreshing[q]}
  PROVE  SessionInv'
<1>1. SessionTypes'
  BY DEF SessionInv, SessionTypes
<1>2. ASSUME NEW f \in (1..issued) \ unsafe'
      PROVE  Rotates(f)'
  <2>1. Live(f)' \subseteq Live(f)
    BY DEF Live
  <2>2. \A q \in Refreshes : IsOf(q, f)' => IsOf(q, f) /\ refreshing'[q] = refreshing[q]
    BY DEF IsOf
  <2>3. QED
    BY <1>2, <2>1, <2>2 DEF SessionInv, Rotates
<1>3. QED
  BY <1>1, <1>2 DEF SessionInv

LEMMA RefreshStopsInv ==
  ASSUME SessionInv, NEW q \in Refreshes, RefreshStops(q)
  PROVE  SessionInv'
  BY LessInv DEF RefreshStops, SessionInv, SessionTypes

LEMMA LogOutInv ==
  ASSUME SessionInv, NEW s \in 1..issued, LogOut(s)
  PROVE  SessionInv'
  BY LessInv DEF LogOut, SessionInv, SessionTypes

\* The session that is read is live, so a refresh of its login that is under way
\* has read it too, and both are known to have.
LEMMA ReadInv ==
  ASSUME SessionInv, NEW q \in Refreshes, NEW s \in 1..issued, ReadSession(q, s)
  PROVE  SessionInv'
<1> DEFINE task == [step |-> "revoke", session |-> s]
<1>1. /\ refreshing[q] = Idle /\ s \notin revoked
      /\ refreshing' = [refreshing EXCEPT ![q] = task]
      /\ unsafe' = IF Raced(s) THEN unsafe \cup {family[s]} ELSE unsafe
      /\ UNCHANGED <<issued, family, revoked>>
  BY DEF ReadSession, TakeSession
<1>2. task \in InHand(issued) /\ task.step = "revoke" /\ task.session = s
  BY DEF InHand
<1>3. /\ refreshing' \in [Refreshes -> {Idle} \cup InHand(issued)]
      /\ \A p \in Refreshes : refreshing'[p] = IF p = q THEN task ELSE refreshing[p]
  BY <1>1, <1>2 DEF SessionInv, SessionTypes
<1> HIDE DEF task
<1>4. SessionTypes'
  BY <1>1, <1>3 DEF SessionInv, SessionTypes
<1>5. ASSUME NEW f \in (1..issued) \ unsafe'
      PROVE  Rotates(f)'
  <2>1. Live(f)' = Live(f) /\ Rotates(f)
    BY <1>1, <1>5 DEF Live, SessionInv
  <2>2. CASE f # family[s]
    <3>1. \A p \in Refreshes : IsOf(p, f)' => p # q /\ IsOf(p, f)
      BY <1>1, <1>2, <1>3, <2>2 DEF IsOf
    <3>2. QED
      BY <1>3, <2>1, <3>1 DEF Rotates
  <2>3. CASE f = family[s]
    <3>1. s \in Live(f)
      BY <1>1, <2>3 DEF Live
    <3>2. ~Raced(s)
      BY <1>1, <1>5, <2>3
    <3>3. ASSUME NEW p \in Refreshes, IsOf(p, f)
          PROVE  FALSE
      <4>1. refreshing[p] \in InHand(issued)
        BY <3>3 DEF IsOf, SessionInv, SessionTypes
      <4>2. refreshing[p].step = "revoke" /\ refreshing[p].session = s
        BY <2>1, <3>1, <3>3, <4>1 DEF Rotates, InHand
      <4>3. refreshing[p] = [step |-> "revoke", session |-> s]
        BY <4>1, <4>2 DEF InHand
      <4>4. QED
        BY <3>2, <4>3 DEF Raced
    <3>4. \A p \in Refreshes : IsOf(p, f)' => p = q
      BY <1>1, <1>3, <3>3 DEF IsOf
    <3>5. Live(f) \subseteq {s}
      BY <2>1, <3>1 DEF Rotates
    <3>6. QED
      BY <1>2, <1>3, <2>1, <3>4, <3>5 DEF Rotates
  <2>4. QED
    BY <2>2, <2>3
<1>6. QED
  BY <1>1, <1>4, <1>5 DEF SessionInv

\* Revoked, or not: the refresh goes on.
LEMMA RevokeInv ==
  ASSUME SessionInv, NEW q \in Refreshes, RevokeSession(q) \/ RevokeFails(q)
  PROVE  SessionInv'
<1>1. refreshing[q] \in InHand(issued) /\ refreshing[q].step = "revoke"
  BY DEF RevokeSession, RevokeFails, SessionInv, SessionTypes, Idle
<1>2. /\ refreshing' = [refreshing EXCEPT ![q].step = "issue"]
      /\ UNCHANGED <<issued, family>> /\ revoked \subseteq revoked' /\ unsafe \subseteq unsafe'
      /\ \/ refreshing[q].session \in revoked'
         \/ family[refreshing[q].session] \in unsafe'
      /\ revoked' \subseteq revoked \cup {refreshing[q].session}
  BY DEF RevokeSession, RevokeFails
<1>3. [refreshing[q] EXCEPT !.step = "issue"] \in InHand(issued)
  BY <1>1 DEF InHand
<1>4. /\ refreshing' \in [Refreshes -> {Idle} \cup InHand(issued)]
      /\ \A p \in Refreshes : p # q => refreshing'[p] = refreshing[p]
      /\ refreshing'[q] = [refreshing[q] EXCEPT !.step = "issue"]
  BY <1>2, <1>3 DEF SessionInv, SessionTypes
<1>5. refreshing'[q].session = refreshing[q].session /\ refreshing'[q].step = "issue"
      /\ refreshing[q] # Idle
  BY <1>1, <1>4 DEF InHand, Idle
<1>6. SessionTypes'
  BY <1>1, <1>2, <1>4 DEF SessionInv, SessionTypes, InHand
<1>7. ASSUME NEW f \in (1..issued) \ unsafe'
      PROVE  Rotates(f)'
  <2>1. Live(f)' \subseteq Live(f) /\ Rotates(f)
    BY <1>2, <1>7 DEF Live, SessionInv
  <2>2. \A p \in Refreshes : IsOf(p, f)' => IsOf(p, f)
    BY <1>2, <1>4, <1>5 DEF IsOf
  <2>3. IsOf(q, f) => Live(f)' = {}
    BY <1>1, <1>2, <1>7, <2>1 DEF Live, IsOf, Rotates
  <2>4. \A p \in Refreshes : IsOf(p, f)' =>
          /\ refreshing'[p].step = "revoke" => Live(f)' \subseteq {refreshing'[p].session}
          /\ refreshing'[p].step = "issue" => Live(f)' = {}
    BY <1>4, <1>5, <2>1, <2>2, <2>3 DEF Rotates
  <2>5. QED
    BY <2>1, <2>2, <2>4 DEF Rotates
<1>8. QED
  BY <1>2, <1>6, <1>7 DEF SessionInv

\* The new session is the only live one of its login: nothing else is under way
\* there, and what was read is revoked.
LEMMA IssueInv ==
  ASSUME SessionInv, NEW q \in Refreshes, IssueSession(q)
  PROVE  SessionInv'
<1>1. refreshing[q] \in InHand(issued) /\ refreshing[q].step = "issue" /\ refreshing[q] # Idle
  BY DEF IssueSession, SessionInv, SessionTypes, Idle
<1>2. PICK n \in Nat, g \in 1..issued : n = issued + 1 /\ g = family[refreshing[q].session]
  <2>1. issued + 1 \in Nat /\ refreshing[q].session \in 1..issued
    BY <1>1 DEF SessionInv, SessionTypes, InHand
  <2>2. family[refreshing[q].session] \in 1..issued
    BY <2>1 DEF SessionInv, SessionTypes
  <2>3. QED
    BY <2>1, <2>2
<1>3. /\ issued' = n /\ n \in Nat /\ n <= MaxSessions
      /\ family' \in [1..MaxSessions -> Nat]
      /\ family'[n] = g
      /\ \A s \in 1..issued : family'[s] = family[s]
      /\ \A s \in 1..n : family'[s] \in 1..n
  BY <1>2, IssueFacts DEF IssueSession, SessionInv, SessionTypes
<1>4. /\ refreshing' \in [Refreshes -> {Idle} \cup InHand(issued)]
      /\ \A p \in Refreshes : refreshing'[p] = IF p = q THEN Idle ELSE refreshing[p]
      /\ UNCHANGED <<revoked, unsafe>>
  BY DEF IssueSession, SessionInv, SessionTypes
<1>5. SessionTypes'
  <2>1. InHand(issued) \subseteq InHand(n)
    BY <1>2 DEF InHand, SessionInv, SessionTypes
  <2>2. QED
    BY <1>2, <1>3, <1>4, <2>1 DEF SessionInv, SessionTypes
<1>6. \A p \in Refreshes : refreshing[p] # Idle =>
        /\ refreshing[p].session \in 1..issued
        /\ family'[refreshing[p].session] = family[refreshing[p].session]
  BY <1>3 DEF SessionInv, SessionTypes, InHand
<1>7. ASSUME NEW f \in (1..n) \ unsafe'
      PROVE  Rotates(f)'
  <2>1. \A p \in Refreshes : IsOf(p, f)' => p # q /\ IsOf(p, f) /\ refreshing'[p] = refreshing[p]
    BY <1>4, <1>6 DEF IsOf
  <2>2. CASE f = g
    <3>1. Rotates(f) /\ IsOf(q, f)
      BY <1>1, <1>2, <1>4, <1>7, <2>2 DEF SessionInv, IsOf
    <3>2. Live(f) = {} /\ \A p \in Refreshes : ~IsOf(p, f)'
      BY <1>1, <2>1, <3>1 DEF Rotates
    <3>3. Live(f)' \subseteq {n}
      BY <1>2, <1>3, <1>4, <3>2 DEF Live, SessionInv, SessionTypes
    <3>4. QED
      BY <3>2, <3>3 DEF Rotates
  <2>3. CASE f # g
    <3>1. f \in 1..issued => Live(f)' = Live(f) /\ Rotates(f)
      BY <1>2, <1>3, <1>4, <1>7, <2>3 DEF Live, SessionInv, SessionTypes
    <3>2. f \notin 1..issued => Live(f)' = {} /\ \A p \in Refreshes : ~IsOf(p, f)'
      <4>1. \A p \in Refreshes : IsOf(p, f) => f \in 1..issued
        BY <1>6 DEF IsOf, SessionInv, SessionTypes
      <4>2. QED
        BY <1>2, <1>3, <2>1, <2>3, <4>1 DEF Live, SessionInv, SessionTypes
    <3>3. QED
      BY <2>1, <3>1, <3>2 DEF Rotates
  <2>4. QED
    BY <2>2, <2>3
<1>8. QED
  BY <1>3, <1>5, <1>7 DEF SessionInv

LEMMA SessionStepInv ==
  ASSUME SessionInv, SessionStep
  PROVE  SessionInv'
<1>1. CASE UNCHANGED sessionVars
  BY <1>1
  DEF sessionVars, SessionInv, SessionTypes, InHand, Rotates, Live, IsOf
<1>2. QED
  BY <1>1, LogInInv, RevokeInv, IssueInv, RefreshStopsInv, ReadInv, LogOutInv DEF SessionStep

\* Who is to have a session of a login that is over needs one of it first.
LEMMA OverStays ==
  ASSUME SessionTypes, SessionTypes', SessionStep, NEW f \in 1..issued, Over(f)
  PROVE  Over(f)'
<1>1. \A q \in Refreshes : refreshing[q] # Idle =>
        refreshing[q].session \in 1..issued /\ family[refreshing[q].session] # f
  BY DEF Over, InFlight, SessionTypes, InHand
<1>2. \A s \in 1..issued : family[s] = f => s \in revoked
  BY DEF Over, Live
<1>3. SUFFICES /\ \A s \in 1..issued' : family'[s] = f => s \in revoked'
               /\ \A q \in Refreshes : refreshing'[q] # Idle => family'[refreshing'[q].session] # f
  BY DEF Over, Live, InFlight
<1>4. CASE LogIn
  BY SMTT(30), <1>1, <1>2, <1>4, IssueFacts DEF LogIn, SessionTypes
<1>5. ASSUME NEW q \in Refreshes, IssueSession(q)
      PROVE  /\ \A s \in 1..issued' : family'[s] = f => s \in revoked'
             /\ \A p \in Refreshes : refreshing'[p] # Idle => family'[refreshing'[p].session] # f
  <2>1. refreshing[q] # Idle
    BY <1>5 DEF IssueSession, Idle
  <2>2. refreshing[q].session \in 1..issued /\ family[refreshing[q].session] # f
    BY <1>1, <2>1
  <2>3. family[refreshing[q].session] \in 1..(issued + 1)
    BY <2>2 DEF SessionTypes
  <2>4. /\ issued' = issued + 1 /\ family'[issued + 1] = family[refreshing[q].session]
        /\ \A s \in 1..issued : family'[s] = family[s]
    BY <1>5, <2>3, IssueFacts DEF IssueSession
  <2>5. \A p \in Refreshes : refreshing'[p] \in {Idle, refreshing[p]}
    BY <1>5 DEF IssueSession, SessionTypes
  <2>6. revoked' = revoked
    BY <1>5 DEF IssueSession
  <2>7. \A s \in 1..issued' : s \in 1..issued \/ s = issued + 1
    BY <2>4 DEF SessionTypes
  <2>8. QED
    BY <1>1, <1>2, <2>2, <2>4, <2>5, <2>6, <2>7
<1>6. ASSUME NEW q \in Refreshes, NEW s \in 1..issued, ReadSession(q, s)
      PROVE  /\ \A t \in 1..issued' : family'[t] = f => t \in revoked'
             /\ \A p \in Refreshes : refreshing'[p] # Idle => family'[refreshing'[p].session] # f
  <2>1. family[s] # f
    BY <1>2, <1>6 DEF ReadSession
  <2>2. \A p \in Refreshes : \/ refreshing'[p] = refreshing[p]
                             \/ refreshing'[p].session = s
    BY <1>6 DEF ReadSession, TakeSession, SessionTypes
  <2>3. QED
    BY <1>1, <1>2, <1>6, <2>1, <2>2 DEF ReadSession, TakeSession
<1>7. ASSUME NEW q \in Refreshes, RevokeSession(q) \/ RevokeFails(q) \/ RefreshStops(q)
      PROVE  /\ \A s \in 1..issued' : family'[s] = f => s \in revoked'
             /\ \A p \in Refreshes : refreshing'[p] # Idle => family'[refreshing'[p].session] # f
  <2>1. refreshing[q] # Idle /\ refreshing[q] \in InHand(issued)
    BY <1>7 DEF RevokeSession, RevokeFails, RefreshStops, SessionTypes, Idle
  <2>2. \A p \in Refreshes : refreshing'[p] # Idle =>
          refreshing[p] # Idle /\ refreshing'[p].session = refreshing[p].session
    BY SMTT(30), <1>7, <2>1 DEF RevokeSession, RevokeFails, RefreshStops, SessionTypes, InHand
  <2>3. UNCHANGED <<issued, family>> /\ revoked \subseteq revoked'
    BY <1>7 DEF RevokeSession, RevokeFails, RefreshStops
  <2>4. QED
    BY <1>1, <1>2, <2>2, <2>3
<1>8. ASSUME NEW s \in 1..issued, LogOut(s)
      PROVE  /\ \A t \in 1..issued' : family'[t] = f => t \in revoked'
             /\ \A p \in Refreshes : refreshing'[p] # Idle => family'[refreshing'[p].session] # f
  BY <1>1, <1>2, <1>8 DEF LogOut
<1>9. CASE UNCHANGED sessionVars
  BY <1>1, <1>2, <1>9 DEF sessionVars
<1>10. QED
  BY <1>4, <1>5, <1>6, <1>7, <1>8, <1>9 DEF SessionStep

-----------------------------------------------------------------------------
(***************************************************************************)
(* The browser.                                                            *)
(***************************************************************************)
Fetch(n) == [step : {"sent", "served", "answered"}, shown : 1..n, got : 0..n]

BrowserTypes ==
  /\ stored \in 0..issued
  /\ tab \in [Refreshes -> {NoFetch} \cup Fetch(issued)]
  /\ here \subseteq 1..issued

\* The browser's sessions are of its own logins.
Ours(s) == s \in 1..issued /\ family[s] \in here

\* Nobody but the tab t has seen the session that it has got.
Secret(t) ==
  LET s == tab[t].got IN
  /\ s \in 1..issued
  /\ s \notin revoked
  /\ s # stored
  /\ family[s] = family[tab[t].shown]
  /\ \A u \in Refreshes : Fetching(u) => tab[u].shown # s
  /\ \A u \in Refreshes : Fetching(u) /\ u # t => tab[u].got # s
  /\ \A q \in Refreshes : refreshing[q] # Idle => refreshing[q].session # s

OursOnly ==
  /\ stored # 0 => Ours(stored)
  /\ \A t \in Refreshes : Fetching(t) => Ours(tab[t].shown)

AnswersAreSecret == \A t \in Refreshes : tab[t].step = "answered" => Secret(t)

\* What Identity has in hand of a login of the browser, a tab waits for, unless it
\* has given up.
ServedIsInHand ==
  /\ \A t \in Refreshes : tab[t].step = "served" =>
       refreshing[t] # Idle /\ refreshing[t].session = tab[t].shown
  /\ \A q \in Refreshes : refreshing[q] # Idle /\ Ours(refreshing[q].session) =>
       tab[q].step = "served" \/ family[refreshing[q].session] \in spoiled

\* A stored session that is revoked is one that a tab is about to replace.
ReplacementComes ==
  stored \in revoked =>
    \/ \E t \in Refreshes : tab[t].step \in {"served", "answered"} /\ tab[t].shown = stored
    \/ family[stored] \in spoiled

AllOfLastLogin == ~overlapped =>
  /\ stored # 0 => family[stored] = lastLogin
  /\ \A t \in Refreshes : Fetching(t) => family[tab[t].shown] = lastLogin

BrowserInv ==
  BrowserTypes /\ OursOnly /\ AnswersAreSecret /\ ServedIsInHand /\ ReplacementComes /\ AllOfLastLogin

\* What the types say of one tab and of one refresh.
LEMMA TabFacts ==
  ASSUME SessionTypes, BrowserTypes, NEW t \in Refreshes
  PROVE  /\ Fetching(t) => /\ tab[t] \in Fetch(issued)
                           /\ tab[t].step \in {"sent", "served", "answered"}
                           /\ tab[t].shown \in 1..issued /\ tab[t].got \in 0..issued
         /\ tab[t].step \in {"sent", "served", "answered"} => Fetching(t)
         /\ refreshing[t] # Idle => /\ refreshing[t] \in InHand(issued)
                                    /\ refreshing[t].session \in 1..issued
                                    /\ refreshing[t].step \in {"revoke", "issue"}
         /\ refreshing[t].step \in {"revoke", "issue"} => refreshing[t] # Idle
  BY DEF SessionTypes, BrowserTypes, Fetch, InHand, Fetching, NoFetch, Idle

\* Steps that issue no session and change no tab: a revocation, and another
\* client's refresh or logout.
LEMMA OtherSideInv ==
  ASSUME SessionTypes, SessionTypes', BrowserInv, UNCHANGED <<browserVars, issued, family>>,
         \A s \in revoked' : s \in revoked \/ (s \in 1..issued /\ (Ours(s) =>
           \/ \E t \in Refreshes : tab[t].step = "served" /\ tab[t].shown = s
           \/ family[s] \in spoiled /\ \E q \in Refreshes : refreshing[q] # Idle /\ refreshing[q].session = s)),
         \A q \in Refreshes :
           \/ refreshing'[q] # Idle /\ refreshing[q] # Idle /\ refreshing'[q].session = refreshing[q].session
           \/ refreshing'[q] = Idle /\ refreshing[q] = Idle
           \/ /\ refreshing[q] = Idle /\ tab[q].step # "served"
              /\ refreshing'[q].session \in 1..issued /\ ~Ours(refreshing'[q].session)
  PROVE  BrowserInv'
<1> USE DEF browserVars, BrowserInv
<1>1. BrowserTypes' /\ OursOnly' /\ AllOfLastLogin'
  BY DEF BrowserTypes, OursOnly, Ours, Fetching, AllOfLastLogin
<1>2. ServedIsInHand'
  BY DEF ServedIsInHand, Ours
<1>3. AnswersAreSecret'
  <2> SUFFICES ASSUME NEW t \in Refreshes, tab[t].step = "answered"
               PROVE  Secret(t)'
    BY DEF AnswersAreSecret
  <2>1. Secret(t) /\ Ours(tab[t].got)
    BY TabFacts DEF AnswersAreSecret, Secret, OursOnly, Ours
  <2>2. \A u \in Refreshes : tab[u].step = "served" => tab[u].shown # tab[t].got
    BY <2>1, TabFacts DEF Secret
  <2>3. tab[t].got \notin revoked'
    BY <2>1, <2>2 DEF Secret
  <2>4. \A q \in Refreshes : refreshing'[q] # Idle => refreshing'[q].session # tab[t].got
    BY <2>1 DEF Secret
  <2>5. QED
    BY <2>1, <2>3, <2>4 DEF Secret, Fetching
<1>4. ReplacementComes'
  <2>1. stored \in 1..issued => Ours(stored)
    BY DEF OursOnly
  <2>2. QED
    BY <2>1 DEF ReplacementComes
<1>5. QED
  BY <1>1, <1>2, <1>3, <1>4

\* What a step that issues a session leaves as it was.
LEMMA OldSessions ==
  ASSUME SessionTypes, BrowserInv, NEW f \in 1..(issued + 1), Issue(f),
         here' \in {here, here \cup {issued + 1}}
  PROVE  /\ \A s \in 1..issued : Ours(s)' <=> Ours(s)
         /\ \A s \in revoked : s # issued + 1
         /\ \A t \in Refreshes : tab[t].step \in {"sent", "served", "answered"} =>
              Ours(tab[t].shown) /\ family'[tab[t].shown] = family[tab[t].shown]
         /\ stored # 0 => stored \in 1..issued /\ family'[stored] = family[stored]
         /\ stored # issued + 1
<1>1. \A s \in 1..issued : family'[s] = family[s] /\ family[s] \in 1..issued /\ family[s] # issued + 1
  BY IssueFacts DEF SessionTypes
<1>2. issued' = issued + 1 /\ issued \in Nat
  BY DEF Issue, SessionTypes
<1>3. \A s \in 1..issued : Ours(s)' <=> Ours(s)
  BY <1>1, <1>2 DEF Ours
<1>4. stored # 0 => stored \in 1..issued
  BY <1>2 DEF BrowserInv, BrowserTypes
<1>5. \A s \in revoked : s # issued + 1
  BY <1>2 DEF SessionTypes
<1>6. \A t \in Refreshes : tab[t].step \in {"sent", "served", "answered"} =>
        Ours(tab[t].shown) /\ tab[t].shown \in 1..issued
  BY TabFacts DEF BrowserInv, OursOnly
<1>7. QED
  BY <1>1, <1>2, <1>3, <1>4, <1>5, <1>6

\* A login, whose session the browser stores or does not see.
LEMMA LogInBrowserInv ==
  ASSUME SessionTypes, SessionTypes', BrowserInv,
         LogInHere \/ (LogIn /\ UNCHANGED browserVars)
  PROVE  BrowserInv'
<1>0. PICK n \in Nat : n = issued + 1
  BY DEF SessionTypes
<1>1. /\ issued' = n /\ family'[n] = n /\ \A s \in 1..issued : family'[s] = family[s]
      /\ UNCHANGED <<revoked, refreshing, tab, spoiled>>
  <2>1. LogIn /\ issued + 1 \in 1..(issued + 1)
    BY DEF LogInHere, SessionTypes
  <2>2. UNCHANGED <<tab, spoiled>>
    BY DEF LogInHere, Store, browserVars
  <2>3. QED
    BY <1>0, <2>1, <2>2, IssueFacts DEF LogIn
<1>2. /\ \A s \in 1..issued : Ours(s)' <=> Ours(s)
      /\ \A s \in revoked : s # n
      /\ \A t \in Refreshes : tab[t].step \in {"sent", "served", "answered"} =>
           Ours(tab[t].shown) /\ family'[tab[t].shown] = family[tab[t].shown]
      /\ stored # 0 => stored \in 1..issued /\ family'[stored] = family[stored]
  BY <1>0, OldSessions DEF LogInHere, LogIn, browserVars, SessionTypes
<1>3. \/ stored' = stored /\ lastLogin' = lastLogin /\ overlapped' = overlapped /\ here' = here
      \/ /\ stored' = n /\ lastLogin' = n /\ here' = here \cup {n}
         /\ overlapped' = \E t \in Refreshes : Fetching(t)
  BY <1>0 DEF LogInHere, Store, browserVars
<1>4. BrowserTypes'
  <2>1. Fetch(issued) \subseteq Fetch(n)
    BY <1>0 DEF Fetch, SessionTypes
  <2>2. stored' \in 0..n /\ here' \subseteq 1..n
    <3>1. issued \in Nat /\ stored \in 0..issued /\ here \subseteq 1..issued
      BY DEF BrowserInv, BrowserTypes, SessionTypes
    <3>2. 0..issued \subseteq 0..n /\ 1..issued \subseteq 1..n /\ n \in 0..n /\ n \in 1..n
      BY <1>0, <3>1
    <3>3. QED
      BY <1>3, <3>1, <3>2
  <2>3. QED
    BY <1>1, <2>1, <2>2 DEF BrowserInv, BrowserTypes
<1>5. \A t \in Refreshes : Fetching(t)' <=> Fetching(t)
  BY <1>1 DEF Fetching
<1>6. OursOnly'
  <2>1. \A t \in Refreshes : Fetching(t) => Ours(tab[t].shown)'
    <3>1. \A t \in Refreshes : Fetching(t) => Ours(tab[t].shown) /\ tab[t].shown \in 1..issued
      BY DEF BrowserInv, OursOnly, Ours
    <3>2. QED
      BY <1>1, <1>2, <3>1 DEF Ours
  <2>2. stored' # 0 => Ours(stored)'
    <3>1. CASE stored' = n /\ here' = here \cup {n}
      BY <1>0, <1>1, <3>1 DEF Ours
    <3>2. CASE stored' = stored /\ here' = here
      BY <1>1, <1>2, <3>2 DEF Ours, BrowserInv, OursOnly
    <3>3. QED
      BY <1>3, <3>1, <3>2
  <2>3. QED
    BY <1>1, <1>5, <2>1, <2>2 DEF OursOnly
<1>7. AllOfLastLogin'
  BY <1>0, <1>1, <1>2, <1>3, <1>5, TabFacts DEF BrowserInv, AllOfLastLogin
<1>8. AnswersAreSecret'
  <2> SUFFICES ASSUME NEW t \in Refreshes, tab[t].step = "answered"
               PROVE  Secret(t)'
    BY <1>1 DEF AnswersAreSecret
  <2>1. Secret(t) /\ tab[t].got \in 1..issued /\ tab[t].got # n
    BY <1>0 DEF BrowserInv, AnswersAreSecret, Secret, SessionTypes
  <2>2. family'[tab[t].got] = family'[tab[t].shown] /\ tab[t].got \in 1..issued'
    BY <1>0, <1>1, <1>2, <2>1 DEF Secret, SessionTypes
  <2>3. QED
    BY <1>1, <1>3, <1>5, <2>1, <2>2 DEF Secret
<1>9. ServedIsInHand'
  <2>1. \A q \in Refreshes : refreshing[q] # Idle =>
          /\ Ours(refreshing[q].session)' <=> Ours(refreshing[q].session)
          /\ family'[refreshing[q].session] = family[refreshing[q].session]
    BY <1>1, <1>2, TabFacts DEF BrowserInv
  <2>2. QED
    BY <1>1, <2>1 DEF BrowserInv, ServedIsInHand
<1>10. ReplacementComes'
  BY <1>1, <1>2, <1>3 DEF BrowserInv, ReplacementComes, BrowserTypes, SessionTypes
<1>11. QED
  BY <1>4, <1>6, <1>7, <1>8, <1>9, <1>10 DEF BrowserInv

\* Steps of the browser that Identity has no part in.
LEMMA ClearSessionInv ==
  ASSUME SessionTypes, BrowserInv, ClearSession
  PROVE  BrowserInv'
<1> USE DEF BrowserInv, ClearSession, Store, sessionVars
<1>1. BrowserTypes' /\ OursOnly' /\ AllOfLastLogin'
  BY DEF BrowserTypes, SessionTypes, OursOnly, Ours, Fetching, AllOfLastLogin
<1>2. ServedIsInHand' /\ ReplacementComes'
  BY DEF ServedIsInHand, Ours, ReplacementComes, SessionTypes
<1>3. AnswersAreSecret'
  BY DEF AnswersAreSecret, Secret, Fetching
<1>4. QED
  BY <1>1, <1>2, <1>3

LEMMA StartRefreshInv ==
  ASSUME SessionTypes, BrowserInv, NEW t \in Refreshes, StartRefresh(t)
  PROVE  BrowserInv'
<1> USE DEF BrowserInv
<1>0. stored \in 1..issued /\ refreshing[t] = Idle /\ ~Fetching(t)
  BY DEF BrowserTypes, SessionTypes, StartRefresh
<1>1. /\ tab'[t] = [step |-> "sent", shown |-> stored, got |-> 0]
      /\ \A u \in Refreshes : u # t => tab'[u] = tab[u]
      /\ UNCHANGED <<sessionVars, stored, here, lastLogin, overlapped, spoiled>>
      /\ tab[t] = NoFetch
  BY DEF BrowserTypes, StartRefresh, Fetching
<1>2. tab'[t] \in Fetch(issued)
  BY <1>0, <1>1 DEF Fetch, SessionTypes
<1>3. BrowserTypes'
  BY <1>0, <1>1, <1>2 DEF BrowserTypes, StartRefresh, sessionVars
<1>4. OursOnly' /\ AllOfLastLogin'
  BY <1>0, <1>1 DEF OursOnly, Ours, Fetching, AllOfLastLogin, sessionVars
<1>5. ServedIsInHand' /\ ReplacementComes'
  BY <1>0, <1>1 DEF ServedIsInHand, Ours, ReplacementComes, sessionVars, NoFetch
<1>6. AnswersAreSecret'
  BY <1>0, <1>1 DEF AnswersAreSecret, Secret, Fetching, sessionVars
<1>7. QED
  BY <1>3, <1>4, <1>5, <1>6

\* A tab that gives up, or is refused.
LEMMA TabEndsInv ==
  ASSUME SessionTypes, BrowserInv, NEW t \in Refreshes, Refuse(t) \/ GiveUp(t)
  PROVE  BrowserInv'
<1> USE DEF BrowserInv
<1>1. /\ tab' = [tab EXCEPT ![t] = NoFetch]
      /\ UNCHANGED <<sessionVars, stored, here, lastLogin, overlapped>>
      /\ spoiled \subseteq spoiled'
      /\ tab[t].step = "sent" \/ family[tab[t].shown] \in spoiled'
      /\ Fetching(t)
  BY DEF Refuse, GiveUp, Fetching, NoFetch
<1>2. tab'[t] = NoFetch /\ \A u \in Refreshes : u # t => tab'[u] = tab[u]
  BY <1>1 DEF BrowserTypes
<1>3. BrowserTypes' /\ OursOnly' /\ AllOfLastLogin'
  BY <1>1, <1>2 DEF BrowserTypes, OursOnly, Ours, Fetching, AllOfLastLogin, sessionVars
<1>4. AnswersAreSecret'
  BY <1>1, <1>2 DEF AnswersAreSecret, Secret, Fetching, NoFetch, sessionVars
<1>5. ServedIsInHand'
  BY <1>1, <1>2 DEF ServedIsInHand, Ours, NoFetch, sessionVars
<1>6. ReplacementComes'
  BY <1>1, <1>2 DEF ReplacementComes, sessionVars
<1>7. QED
  BY <1>3, <1>4, <1>5, <1>6

\* What a tab has got is nobody else's, so that it may be stored over anything.
LEMMA StoreRefreshedInv ==
  ASSUME SessionTypes, BrowserInv, NEW t \in Refreshes, StoreRefreshed(t)
  PROVE  BrowserInv'
<1> USE DEF BrowserInv
<1>1. /\ tab' = [tab EXCEPT ![t] = NoFetch] /\ stored' = tab[t].got
      /\ UNCHANGED <<sessionVars, here, lastLogin, overlapped, spoiled>>
      /\ tab[t].step = "answered" /\ Secret(t) /\ Fetching(t) /\ Ours(tab[t].shown)
  BY TabFacts DEF StoreRefreshed, AnswersAreSecret, OursOnly
<1>2. tab'[t] = NoFetch /\ \A u \in Refreshes : u # t => tab'[u] = tab[u]
  BY <1>1 DEF BrowserTypes
<1>3. tab[t].got \in 1..issued /\ tab[t].got \notin revoked /\ family[tab[t].got] = family[tab[t].shown]
  BY <1>1 DEF Secret
<1>4. BrowserTypes'
  BY <1>1, <1>2, <1>3 DEF BrowserTypes, sessionVars, SessionTypes
<1>5. OursOnly' /\ AllOfLastLogin'
  BY <1>1, <1>2, <1>3 DEF OursOnly, Ours, Fetching, AllOfLastLogin, sessionVars
<1>6. AnswersAreSecret'
  <2> SUFFICES ASSUME NEW u \in Refreshes, u # t, tab[u].step = "answered"
               PROVE  Secret(u)'
    BY <1>2 DEF AnswersAreSecret, NoFetch
  <2>1. Secret(u) /\ tab[u].got # tab[t].got
    BY <1>1 DEF AnswersAreSecret, Secret
  <2>2. QED
    BY <1>1, <1>2, <2>1 DEF Secret, Fetching, sessionVars
<1>7. ServedIsInHand' /\ ReplacementComes'
  BY <1>1, <1>2, <1>3 DEF ServedIsInHand, Ours, NoFetch, ReplacementComes, sessionVars
<1>8. QED
  BY <1>4, <1>5, <1>6, <1>7

\* Steps of Identity for a tab.
LEMMA TakeUpInv ==
  ASSUME SessionTypes, BrowserInv, NEW t \in Refreshes, TakeUp(t)
  PROVE  BrowserInv'
<1> USE DEF BrowserInv
<1>1. /\ refreshing' = [refreshing EXCEPT ![t] = [step |-> "revoke", session |-> tab[t].shown]]
      /\ tab' = [tab EXCEPT ![t].step = "served"]
      /\ UNCHANGED <<issued, family, revoked, stored, here, lastLogin, overlapped, spoiled>>
      /\ tab[t].step = "sent" /\ Fetching(t) /\ tab[t] \in Fetch(issued)
  BY TabFacts DEF TakeUp, ReadSession, TakeSession
<1>2. /\ tab'[t] = [tab[t] EXCEPT !.step = "served"]
      /\ \A u \in Refreshes : u # t => tab'[u] = tab[u] /\ refreshing'[u] = refreshing[u]
      /\ refreshing'[t] = [step |-> "revoke", session |-> tab[t].shown]
  BY <1>1 DEF BrowserTypes, SessionTypes
<1>3. /\ tab'[t] \in Fetch(issued)
      /\ tab'[t].step = "served" /\ tab'[t].shown = tab[t].shown /\ tab'[t].got = tab[t].got
      /\ refreshing'[t].session = tab[t].shown /\ refreshing'[t].step = "revoke"
      /\ refreshing'[t] # Idle
  BY <1>1, <1>2 DEF Fetch, Idle
<1>4. BrowserTypes'
  BY <1>1, <1>3 DEF BrowserTypes
<1>5. \A u \in Refreshes : Fetching(u)' <=> Fetching(u)
  BY <1>1, <1>2, <1>3 DEF Fetching, NoFetch
<1>6. \A u \in Refreshes : tab'[u].shown = tab[u].shown /\ tab'[u].got = tab[u].got
  BY <1>2, <1>3
<1>7. OursOnly' /\ AllOfLastLogin'
  BY <1>1, <1>5, <1>6 DEF OursOnly, Ours, AllOfLastLogin
<1>8. AnswersAreSecret'
  <2> SUFFICES ASSUME NEW u \in Refreshes, u # t, tab[u].step = "answered"
               PROVE  Secret(u)'
    BY <1>2, <1>3 DEF AnswersAreSecret
  <2>1. Secret(u) /\ tab[u].got # tab[t].shown
    BY <1>1 DEF AnswersAreSecret, Secret
  <2>2. \A q \in Refreshes : refreshing'[q] # Idle => refreshing'[q].session # tab[u].got
    BY <1>2, <1>3, <2>1 DEF Secret
  <2>3. QED
    BY <1>1, <1>5, <1>6, <2>1, <2>2 DEF Secret
<1>9. ServedIsInHand'
  BY <1>1, <1>2, <1>3 DEF ServedIsInHand, Ours
<1>10. ReplacementComes'
  BY <1>1, <1>2, <1>3 DEF ReplacementComes
<1>11. QED
  BY <1>4, <1>7, <1>8, <1>9, <1>10

LEMMA FailTabInv ==
  ASSUME SessionTypes, BrowserInv, NEW q \in Refreshes, FailTab(q)
  PROVE  BrowserInv'
<1> USE DEF BrowserInv
<1>1. /\ refreshing' = [refreshing EXCEPT ![q] = Idle]
      /\ UNCHANGED <<issued, family, revoked, stored, here, lastLogin, overlapped>>
      /\ spoiled \subseteq spoiled'
      /\ IF tab[q].step = "served"
           THEN tab' = [tab EXCEPT ![q] = NoFetch] /\ family[tab[q].shown] \in spoiled'
           ELSE tab' = tab
  BY DEF FailTab, RefreshStops
<1>2. /\ refreshing'[q] = Idle
      /\ tab'[q] = NoFetch \/ (tab'[q] = tab[q] /\ tab[q].step # "served")
      /\ \A u \in Refreshes : u # q => tab'[u] = tab[u] /\ refreshing'[u] = refreshing[u]
      /\ tab[q].step = "served" => family[tab[q].shown] \in spoiled'
  BY <1>1 DEF BrowserTypes, SessionTypes
<1>3. BrowserTypes'
  BY <1>1 DEF BrowserTypes
<1>4. OursOnly' /\ AllOfLastLogin'
  BY <1>1, <1>2 DEF OursOnly, Ours, Fetching, AllOfLastLogin
<1>5. AnswersAreSecret'
  <2> SUFFICES ASSUME NEW u \in Refreshes, tab'[u].step = "answered"
               PROVE  Secret(u)'
    BY DEF AnswersAreSecret
  <2>1. tab'[u] = tab[u] /\ Secret(u)
    BY <1>2 DEF AnswersAreSecret, NoFetch
  <2>2. QED
    BY <1>1, <1>2, <2>1 DEF Secret, Fetching
<1>6. ServedIsInHand'
  BY <1>1, <1>2 DEF ServedIsInHand, Ours, NoFetch
<1>7. ReplacementComes'
  BY <1>1, <1>2 DEF ReplacementComes
<1>8. QED
  BY <1>3, <1>4, <1>5, <1>6, <1>7

\* The new session goes to the tab, or to nobody.
LEMMA AnswerTabInv ==
  ASSUME SessionTypes, SessionTypes', BrowserInv, NEW q \in Refreshes, AnswerTab(q)
  PROVE  BrowserInv'
<1>0. PICK n \in Nat : n = issued + 1
  BY DEF SessionTypes
<1>1. /\ refreshing[q] # Idle /\ refreshing[q].session \in 1..issued
      /\ family[refreshing[q].session] \in 1..(issued + 1)
      /\ Issue(family[refreshing[q].session])
  <2>1. refreshing[q] # Idle /\ Issue(family[refreshing[q].session])
    BY DEF AnswerTab, IssueSession, Idle
  <2>2. refreshing[q].session \in 1..issued
    BY <2>1, TabFacts DEF BrowserInv
  <2>3. QED
    BY <2>1, <2>2 DEF SessionTypes
<1>2. /\ issued' = n /\ family'[n] = family[refreshing[q].session]
      /\ \A s \in 1..issued : family'[s] = family[s]
      /\ refreshing' = [refreshing EXCEPT ![q] = Idle]
      /\ UNCHANGED <<revoked, stored, here, lastLogin, overlapped, spoiled>>
  BY <1>0, <1>1, IssueFacts DEF AnswerTab, IssueSession
<1>3. /\ \A s \in 1..issued : Ours(s)' <=> Ours(s)
      /\ \A s \in revoked : s # n
      /\ \A t \in Refreshes : tab[t].step \in {"sent", "served", "answered"} =>
           Ours(tab[t].shown) /\ family'[tab[t].shown] = family[tab[t].shown]
      /\ stored # 0 => stored \in 1..issued /\ family'[stored] = family[stored]
      /\ stored # n
  BY <1>0, <1>1, <1>2, OldSessions
<1>4. /\ refreshing'[q] = Idle
      /\ \A u \in Refreshes : u # q => refreshing'[u] = refreshing[u] /\ tab'[u] = tab[u]
      /\ IF tab[q].step = "served"
           THEN tab'[q] = [tab[q] EXCEPT !.step = "answered", !.got = n]
           ELSE tab'[q] = tab[q]
      /\ tab' \in [Refreshes -> {tab'[u] : u \in Refreshes}]
  BY <1>0, <1>2 DEF AnswerTab, SessionTypes, BrowserInv, BrowserTypes
<1>5. tab[q].step = "served" => /\ tab[q] \in Fetch(issued) /\ tab'[q] \in Fetch(n)
                                /\ tab'[q].step = "answered" /\ tab'[q].got = n
                                /\ tab'[q].shown = tab[q].shown
                                /\ refreshing[q].session = tab[q].shown
  <2> HAVE tab[q].step = "served"
  <2>1. tab[q] \in Fetch(issued)
    BY TabFacts DEF BrowserInv
  <2>2. refreshing[q].session = tab[q].shown
    BY DEF BrowserInv, ServedIsInHand
  <2>3. tab'[q] = [tab[q] EXCEPT !.step = "answered", !.got = n]
    BY <1>4
  <2>4. n \in 0..n /\ 1..issued \subseteq 1..n
    BY <1>0 DEF SessionTypes
  <2>5. tab'[q] = [step |-> "answered", shown |-> tab[q].shown, got |-> n]
    BY <2>1, <2>3 DEF Fetch
  <2>6. tab[q].shown \in 1..n
    BY <2>1, <2>4 DEF Fetch
  <2>7. QED
    BY <2>1, <2>2, <2>4, <2>5, <2>6 DEF Fetch
<1>6. \A u \in Refreshes : /\ Fetching(u)' <=> Fetching(u)
                           /\ Fetching(u) => tab'[u].shown = tab[u].shown
  BY <1>4, <1>5, TabFacts DEF Fetching, NoFetch, BrowserInv
<1>7. BrowserTypes'
  <2>1. Fetch(issued) \subseteq Fetch(n)
    BY <1>0 DEF Fetch, SessionTypes
  <2>2. \A u \in Refreshes : tab'[u] \in {NoFetch} \cup Fetch(n)
    BY <1>4, <1>5, <2>1 DEF BrowserInv, BrowserTypes
  <2>3. tab' \in [Refreshes -> {NoFetch} \cup Fetch(n)]
    BY <1>4, <2>2
  <2>4. stored \in 0..issued /\ here \subseteq 1..issued /\ 0..issued \subseteq 0..n /\ 1..issued \subseteq 1..n
    BY <1>0 DEF BrowserInv, BrowserTypes, SessionTypes
  <2>5. QED
    BY <1>2, <2>3, <2>4 DEF BrowserTypes
<1>8. OursOnly' /\ AllOfLastLogin'
  <2>1. \A u \in Refreshes : Fetching(u) => tab[u].step \in {"sent", "served", "answered"}
    BY TabFacts DEF BrowserInv
  <2>2. \A s \in 1..issued : Ours(s) => s \in 1..issued' /\ family'[s] \in here'
    BY <1>3 DEF Ours
  <2>3. \A u \in Refreshes : Fetching(u) =>
          tab[u].shown \in 1..issued' /\ family'[tab[u].shown] \in here'
    BY <1>3, <2>1, <2>2 DEF Ours
  <2>4. stored # 0 => stored \in 1..issued' /\ family'[stored] \in here'
    BY <1>3, <2>2 DEF BrowserInv, OursOnly
  <2>5. QED
    BY <1>2, <1>3, <1>6, <2>1, <2>3, <2>4 DEF BrowserInv, OursOnly, AllOfLastLogin, Ours
<1>9. AnswersAreSecret'
  <2> SUFFICES ASSUME NEW t \in Refreshes, tab'[t].step = "answered"
               PROVE  Secret(t)'
    BY DEF AnswersAreSecret
  <2>1. CASE t = q /\ tab[q].step = "served"
    <3>1. tab'[t].got = n /\ n \in 1..issued' /\ n \notin revoked' /\ n # stored'
      BY <1>0, <1>2, <1>3, <1>5, <2>1 DEF SessionTypes
    <3>2. family'[n] = family'[tab'[t].shown]
      BY <1>2, <1>3, <1>5, <2>1
    <3>3. \A u \in Refreshes : Fetching(u) => tab'[u].shown # n
      BY <1>0, <1>6, TabFacts DEF BrowserInv, SessionTypes
    <3>4. \A u \in Refreshes : Fetching(u) /\ u # t => tab'[u].got # n
      BY <1>0, <1>4, <2>1, TabFacts DEF BrowserInv, SessionTypes
    <3>5. \A p \in Refreshes : refreshing'[p] # Idle => refreshing'[p].session # n
      BY <1>0, <1>4, TabFacts DEF BrowserInv, SessionTypes
    <3>6. QED
      BY <1>6, <3>1, <3>2, <3>3, <3>4, <3>5 DEF Secret
  <2>2. CASE t # q \/ tab[q].step # "served"
    <3>1. tab'[t] = tab[t] /\ tab[t].step = "answered"
      BY <1>4, <2>2
    <3>2. Secret(t) /\ tab[t].got \in 1..issued /\ tab[t].got # n /\ Fetching(t)
      BY <1>0, <3>1, TabFacts DEF BrowserInv, AnswersAreSecret, Secret, SessionTypes
    <3>3. family'[tab[t].got] = family'[tab[t].shown] /\ tab[t].got \in 1..issued'
      BY <1>0, <1>2, <1>3, <3>1, <3>2 DEF Secret, SessionTypes
    <3>4. \A u \in Refreshes : Fetching(u) /\ u # t => tab'[u].got # tab[t].got
      BY <1>4, <1>5, <3>2 DEF Secret
    <3>5. QED
      BY <1>2, <1>4, <1>6, <3>1, <3>2, <3>3, <3>4 DEF Secret
  <2>3. QED
    BY <2>1, <2>2
<1>10. ServedIsInHand'
  <2>1. \A p \in Refreshes : refreshing[p] # Idle =>
          refreshing[p].session \in 1..issued
    BY TabFacts DEF BrowserInv
  <2>2. \A p \in Refreshes : refreshing'[p] # Idle => p # q /\ refreshing'[p] = refreshing[p] /\ tab'[p] = tab[p]
    BY <1>4
  <2>3. \A p \in Refreshes : refreshing'[p] # Idle /\ family'[refreshing'[p].session] \in here' =>
          /\ Ours(refreshing[p].session)
          /\ family'[refreshing'[p].session] = family[refreshing[p].session]
    BY <1>2, <2>1, <2>2 DEF Ours
  <2>4. \A t \in Refreshes : tab'[t].step = "served" => t # q /\ tab'[t] = tab[t] /\ refreshing'[t] = refreshing[t]
    BY <1>4, <1>5
  <2>5. QED
    BY <1>2, <2>2, <2>3, <2>4 DEF BrowserInv, ServedIsInHand, Ours
<1>11. ReplacementComes'
  <2>1. \A t \in Refreshes : tab[t].step \in {"served", "answered"} =>
          tab'[t].step \in {"served", "answered"} /\ tab'[t].shown = tab[t].shown
    BY <1>4, <1>5
  <2>2. stored \in revoked => family'[stored] = family[stored]
    BY <1>3 DEF SessionTypes
  <2>3. QED
    BY <1>2, <2>1, <2>2 DEF BrowserInv, ReplacementComes
<1>12. QED
  BY <1>7, <1>8, <1>9, <1>10, <1>11 DEF BrowserInv

LEMMA RevokeTabInv ==
  ASSUME SessionTypes, SessionTypes', BrowserInv, NEW q \in Refreshes,
         RevokeSession(q) \/ RevokeFails(q), UNCHANGED browserVars
  PROVE  BrowserInv'
<1>1. /\ refreshing' = [refreshing EXCEPT ![q].step = "issue"]
      /\ UNCHANGED <<issued, family>>
      /\ revoked' \subseteq revoked \cup {refreshing[q].session}
  BY DEF RevokeSession, RevokeFails
<1>2. refreshing[q] \in InHand(issued) /\ refreshing[q].session \in 1..issued /\ refreshing[q] # Idle
  BY TabFacts DEF BrowserInv, RevokeSession, RevokeFails
<1>3. /\ refreshing'[q].session = refreshing[q].session /\ refreshing'[q].step = "issue"
      /\ refreshing'[q] # Idle
      /\ \A p \in Refreshes : p # q => refreshing'[p] = refreshing[p]
  BY <1>1, <1>2 DEF SessionTypes, InHand, Idle
<1>4. Ours(refreshing[q].session) =>
        \/ tab[q].step = "served" /\ tab[q].shown = refreshing[q].session
        \/ family[refreshing[q].session] \in spoiled
  BY <1>2 DEF BrowserInv, ServedIsInHand
<1>5. QED
  BY <1>1, <1>2, <1>3, <1>4, OtherSideInv

LEMMA ElsewhereInv ==
  ASSUME SessionTypes, SessionTypes', BrowserInv, Elsewhere
  PROVE  BrowserInv'
<1>1. PICK s \in 1..issued : /\ family[s] \notin here
                             /\ LogOut(s) \/ \E q \in Refreshes : ~Fetching(q) /\ ReadSession(q, s)
  BY DEF Elsewhere
<1>2. ~Ours(s) /\ UNCHANGED <<browserVars, issued, family>> /\ revoked' \subseteq revoked \cup {s}
  BY <1>1 DEF Ours, Elsewhere, LogOut, ReadSession, TakeSession
<1>3. \A q \in Refreshes :
        \/ refreshing'[q] = refreshing[q]
        \/ refreshing[q] = Idle /\ tab[q].step # "served" /\ refreshing'[q].session = s
  BY <1>1, TabFacts DEF LogOut, ReadSession, TakeSession, BrowserInv, SessionTypes
<1>4. QED
  BY <1>2, <1>3, OtherSideInv

\* Every step of the system is a step of the sessions ...
LEMMA NextIsSessionStep ==
  ASSUME SessionTypes, BrowserTypes, [Next]_vars
  PROVE  SessionStep
<1>1. CASE UNCHANGED sessionVars
  BY <1>1 DEF SessionStep
<1>2. CASE AnyLogIn
  BY <1>2 DEF AnyLogIn, LogInHere, SessionStep
<1>3. CASE Elsewhere
  BY <1>3 DEF Elsewhere, SessionStep
<1>4. ASSUME NEW t \in Refreshes, BrowserStep(t)
      PROVE  SessionStep
  <2>1. CASE TakeUp(t)
    <3>1. tab[t].shown \in 1..issued
      BY <2>1, TabFacts DEF TakeUp
    <3>2. QED
      BY <2>1, <3>1 DEF TakeUp, SessionStep
  <2>2. CASE ~TakeUp(t)
    BY <1>4, <2>2
    DEF BrowserStep, SessionStep, StartRefresh, Refuse, AnswerTab, FailTab, GiveUp, StoreRefreshed
  <2>3. QED
    BY <2>1, <2>2
<1>5. QED
  BY <1>1, <1>2, <1>3, <1>4
  DEF Next, EndRegistration, NextLogIn, SessionNext, ClearSession, vars

\* ... and of the browser.
LEMMA NextBrowserInv ==
  ASSUME SessionTypes, SessionTypes', BrowserInv, [Next]_vars
  PROVE  BrowserInv'
<1>1. CASE UNCHANGED <<sessionVars, browserVars>>
  BY <1>1
  DEF sessionVars, browserVars, BrowserInv, BrowserTypes, OursOnly, Ours, AnswersAreSecret, Secret,
      ServedIsInHand, ReplacementComes, AllOfLastLogin, Fetching
<1>2. CASE AnyLogIn
  BY <1>2, LogInBrowserInv DEF AnyLogIn
<1>3. CASE Elsewhere
  BY <1>3, ElsewhereInv
<1>4. CASE ClearSession
  BY <1>4, ClearSessionInv
<1>5. ASSUME NEW t \in Refreshes, BrowserStep(t)
      PROVE  BrowserInv'
  BY <1>5, StartRefreshInv, TakeUpInv, TabEndsInv, RevokeTabInv, AnswerTabInv, FailTabInv,
     StoreRefreshedInv DEF BrowserStep
<1>6. QED
  BY <1>1, <1>2, <1>3, <1>4, <1>5 DEF Next, EndRegistration, NextLogIn, SessionNext, vars

-----------------------------------------------------------------------------
(***************************************************************************)
(* Registration.                                                           *)
(***************************************************************************)
RegTypes ==
  /\ customers \subseteq Phones
  /\ link \in [Phones -> Requests \cup {Nobody}]
  /\ accounts \subseteq Requests
  /\ at \in [Requests -> {"lookup", "insert", "account", "link", "session", "done"}]
  /\ unlinked \subseteq accounts

\* A request that is past Core's first answer has a customer, one that is past
\* its insert an account, and no two accounts share a phone.
RegInv ==
  /\ RegTypes
  /\ \A q \in Requests : at[q] \in {"account", "link", "session"} => PhoneOf[q] \in customers
  /\ \A q \in Requests : at[q] = "link" => q \in accounts
  /\ \A a, b \in accounts : PhoneOf[a] = PhoneOf[b] => a = b
  /\ LinkIsMutual

LEMMA RegisterStepInv ==
  ASSUME RegInv, NEW q \in Requests, RegisterStep(q)
  PROVE  RegInv'
<1> USE RequestsAssumption
<1> PhoneOf[q] \in Phones /\ q # Nobody
  OBVIOUS
<1>1. CASE LookUpCustomer(q)
  BY <1>1 DEF LookUpCustomer, GoTo, RegInv, RegTypes, LinkIsMutual
<1>2. CASE InsertCustomer(q)
  BY <1>2 DEF InsertCustomer, GoTo, RegInv, RegTypes, LinkIsMutual
<1>3. CASE InsertAccount(q)
  <2>1. CASE Taken(q)
    BY <1>3, <2>1 DEF InsertAccount, GoTo, RegInv, RegTypes, LinkIsMutual
  <2>2. CASE ~Taken(q)
    <3>1. \A a \in accounts : PhoneOf[a] # PhoneOf[q]
      BY <2>2 DEF Taken
    <3>2. /\ accounts' = accounts \cup {q} /\ at' = [at EXCEPT ![q] = "link"]
          /\ at[q] = "account" /\ UNCHANGED <<customers, link, unlinked>>
      BY <1>3, <2>2 DEF InsertAccount, GoTo
    <3>3. QED
      BY <3>1, <3>2 DEF RegInv, RegTypes, LinkIsMutual
  <2>3. QED
    BY <2>1, <2>2
<1>4. CASE LinkIdentity(q) \/ LinkLate(q)
  <2>1. q \in accounts
    BY <1>4 DEF LinkIdentity, LinkLate, RegInv, RegTypes
  <2>2. link' = IF link[PhoneOf[q]] = Nobody THEN [link EXCEPT ![PhoneOf[q]] = q] ELSE link
    BY <1>4 DEF LinkIdentity, LinkLate
  <2>3. /\ link' \in [Phones -> Requests \cup {Nobody}]
        /\ link'[PhoneOf[q]] = q
        /\ \A p \in Phones : p # PhoneOf[q] => link'[p] = link[p]
    BY <2>1, <2>2 DEF RegInv, RegTypes, LinkIsMutual
  <2>4. /\ at' \in [Requests -> {"lookup", "insert", "account", "link", "session", "done"}]
        /\ \A r \in Requests : at'[r] = at[r] \/ (r = q /\ at[r] = "link" /\ at'[r] = "session")
        /\ UNCHANGED <<customers, accounts, unlinked>>
    BY <1>4 DEF LinkIdentity, LinkLate, GoTo, RegInv, RegTypes
  <2>5. RegTypes'
    BY <2>3, <2>4 DEF RegInv, RegTypes
  <2>6. LinkIsMutual'
    <3>1. \A a \in accounts : a # q => PhoneOf[a] # PhoneOf[q] /\ PhoneOf[a] \in Phones
      BY <2>1 DEF RegInv, RegTypes
    <3>2. QED
      BY <2>1, <2>3, <2>4, <3>1 DEF RegInv, RegTypes, LinkIsMutual
  <2>7. QED
    BY <2>4, <2>5, <2>6 DEF RegInv
<1>5. CASE LinkFails(q)
  BY <1>5 DEF LinkFails, GoTo, RegInv, RegTypes, LinkIsMutual
<1>6. CASE RegistrationStops(q)
  BY <1>6 DEF RegistrationStops, GoTo, RegInv, RegTypes, LinkIsMutual
<1>7. QED
  BY <1>1, <1>2, <1>3, <1>4, <1>5, <1>6 DEF RegisterStep

LEMMA NextRegInv ==
  ASSUME RegInv, [Next]_vars
  PROVE  RegInv'
<1>1. CASE UNCHANGED regVars
  BY <1>1 DEF regVars, RegInv, RegTypes, LinkIsMutual
<1>2. ASSUME NEW q \in Requests, EndRegistration(q)
      PROVE  RegInv'
  BY <1>2 DEF EndRegistration, GoTo, RegInv, RegTypes, LinkIsMutual
<1>3. ASSUME NEW p \in Phones, CreateGuest(p)
      PROVE  RegInv'
  BY <1>3 DEF CreateGuest, RegInv, RegTypes, LinkIsMutual
<1>4. QED
  BY <1>1, <1>2, <1>3, RegisterStepInv DEF Next, NextLogIn, SessionNext, vars

-----------------------------------------------------------------------------
IInv == SessionInv /\ BrowserInv /\ RegInv

LEMMA InitInv ==
  ASSUME Init
  PROVE  IInv
<1> USE DEF Init, SessionsInit, BrowserInit, RegInit
<1>1. SessionInv
  BY SessionsAssumption DEF SessionInv, SessionTypes
<1>2. BrowserInv
  BY DEF BrowserInv, BrowserTypes, OursOnly, AnswersAreSecret, ServedIsInHand, ReplacementComes,
         AllOfLastLogin, Fetching, NoFetch
<1>3. RegInv
  BY RequestsAssumption DEF RegInv, RegTypes, LinkIsMutual
<1>4. QED
  BY <1>1, <1>2, <1>3 DEF IInv

LEMMA NextInv ==
  ASSUME IInv, [Next]_vars
  PROVE  IInv'
<1>1. SessionInv'
  BY NextIsSessionStep, SessionStepInv DEF IInv, SessionInv, BrowserInv
<1>2. BrowserInv'
  BY <1>1, NextBrowserInv DEF IInv, SessionInv
<1>3. QED
  BY <1>1, <1>2, NextRegInv DEF IInv

LEMMA Inductive == Spec => []IInv
<1>1. Init => IInv
  BY InitInv
<1>2. IInv /\ [Next]_vars => IInv'
  BY NextInv
<1>3. QED
  BY <1>1, <1>2, PTL DEF Spec

-----------------------------------------------------------------------------
\* Whatever calls between Identity and Core are lost or late, no account is
\* linked to another's customer and none is left unlinked but by a call that
\* failed (Register).
THEOREM LinksAreMutual == Spec => []LinkIsMutual
<1>1. IInv => LinkIsMutual
  BY DEF IInv, RegInv
<1>2. QED
  BY <1>1, Inductive, PTL

\* However many requests show the refresh tokens of a login, no two of its
\* sessions are live, unless two of them read one session before either had
\* revoked it, or a revocation failed (StaffRefresh, CustomerRefresh).
THEOREM RotationIsSingleUse == Spec => []OneLivePerLogin
<1>1. IInv => OneLivePerLogin
  <2> SUFFICES ASSUME IInv, NEW f \in (1..issued) \ unsafe
               PROVE  Cardinality(Live(f)) <= 1
    BY DEF OneLivePerLogin
  <2>1. \A s, t \in Live(f) : s = t
    BY DEF IInv, SessionInv, Rotates
  <2>2. CASE Live(f) = {}
    BY <2>2, FS_EmptySet
  <2>3. ASSUME NEW s \in Live(f)
        PROVE  Cardinality(Live(f)) <= 1
    <3>1. Live(f) = {s}
      BY <2>1
    <3>2. Cardinality({s}) = 1
      BY FS_Singleton
    <3>3. QED
      BY <3>1, <3>2
  <2>4. QED
    BY <2>2, <2>3
<1>2. QED
  BY <1>1, Inductive, PTL

\* A login that is over stays over, whatever tokens of it are shown again.
THEOREM EndedIsEnded == Spec => EndedStaysEnded
<1>1. IInv /\ IInv' /\ [Next]_vars => [\A f \in 1..issued : Over(f) => Over(f)']_sessionVars
  <2> SUFFICES ASSUME IInv, IInv', [Next]_vars, NEW f \in 1..issued, Over(f)
               PROVE  Over(f)'
    OBVIOUS
  <2>1. SessionTypes /\ SessionTypes' /\ SessionStep
    BY NextIsSessionStep DEF IInv, SessionInv, BrowserInv
  <2>2. QED
    BY <2>1, OverStays
<1>2. QED
  BY <1>1, Inductive, PTL DEF Spec, EndedStaysEnded

\* In any number of tabs, the stored session is never one that Identity has
\* revoked and that nobody is about to replace (refreshAccessToken).
THEOREM StoredStaysLive == Spec => []StoredIsLive
<1>1. IInv => StoredIsLive
  <2>1. IInv => \A t \in Refreshes : tab[t].step \in {"served", "answered"} => Fetching(t)
    BY TabFacts DEF IInv, SessionInv, BrowserInv
  <2>2. QED
    BY <2>1 DEF IInv, BrowserInv, ReplacementComes, StoredIsLive
<1>2. QED
  BY <1>1, Inductive, PTL

\* A refresh stores no session of who has left the browser before it began.
THEOREM StoredStaysOfLastLogin == Spec => []StoredIsOfLastLogin
<1>1. IInv => StoredIsOfLastLogin
  BY DEF IInv, BrowserInv, AllOfLastLogin, StoredIsOfLastLogin
<1>2. QED
  BY <1>1, Inductive, PTL
=============================================================================
