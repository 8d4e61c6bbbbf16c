----------------------------- MODULE MCAccounts -----------------------------
(***************************************************************************)
(* Three requests to register, two with one phone and two with one e-mail, *)
(* so that each of the unique indexes refuses one.                         *)
(***************************************************************************)
EXTENDS Accounts, TLC

CONSTANTS q1, q2, q3, p1, p2, e1, e2

ThePhones == q1 :> p1 @@ q2 :> p1 @@ q3 :> p2
TheEmails == q1 :> e1 @@ q2 :> e2 @@ q3 :> e1

\* Bound: registrations collide with one another, or one of them ends and its
\* and later sessions go on.  The two sides meet only where a registration ends.
Collide   == issued <= 1 /\ revoked = {} /\ \A q \in Refreshes : refreshing[q] = Idle /\ ~Fetching(q)
OneGoesOn ==
  /\ at = (q1 :> "done" @@ q2 :> "lookup" @@ q3 :> "lookup")
  /\ customers = {p1} /\ link[p1] = q1 /\ unlinked = {}
  /\ Cardinality({s \in 1..issued : family[s] = s}) <= 2
OneSide   == Collide \/ OneGoesOn

Symmetry == Permutations(Refreshes)
=============================================================================
