----------------------------- MODULE RateLimit ------------------------------
(***************************************************************************)
(* The gateway's limit of requests, ratelimit.PerIP: one counter in Redis  *)
(* for each key and window, which any number of gateways increment.  The   *)
(* key is the X-Forwarded-For header as it was sent or else the peer's     *)
(* address with its port, so one client may have many and several may      *)
(* share one.  The first to increment a counter sets its time to live with *)
(* a second command; when Redis does not answer in time, the request goes  *)
(* through.                                                                *)
(***************************************************************************)
EXTENDS Integers

CONSTANTS
  Limit, \* requests in a window
  Calls  \* requests of one key, through any of the gateways

ASSUME LimitAssumption == Limit \in Nat \ {0}

VARIABLES
  counter,  \* the key in Redis, 0 without it
  ttl,      \* whether the key expires
  call,     \* what each request is at
  admitted, \* history: requests let through by the count, in the life of the key
  spoiled   \* history: the answer to the first INCR, or its EXPIRE, was lost in that life

limitVars == <<counter, ttl, call, admitted, spoiled>>

LimitInit ==
  /\ counter  = 0
  /\ ttl      = FALSE
  /\ call     = [c \in Calls |-> "new"]
  /\ admitted = 0
  /\ spoiled  = FALSE

Becomes(c, stage) == call' = [call EXCEPT ![c] = stage]

\* Mutant: the time to live is set by the request that is refused first.
CountExpiringLate(c) ==
  /\ call[c] = "new"
  /\ counter' = counter + 1
  /\ Becomes(c, IF counter' > Limit + 1 THEN "refused" ELSE IF counter' = Limit + 1 THEN "expire" ELSE "through")
  /\ admitted' = admitted + (IF counter' <= Limit THEN 1 ELSE 0)
  /\ UNCHANGED <<ttl, spoiled>>

\* INCR, and what its answer decides.
CountCall(c) ==
  /\ call[c] = "new"
  /\ counter' = counter + 1
  /\ Becomes(c, IF counter' = 1 THEN "expire" ELSE IF counter' > Limit THEN "refused" ELSE "through")
  /\ admitted' = admitted + (IF counter' <= Limit THEN 1 ELSE 0)
  /\ UNCHANGED <<ttl, spoiled>>

\* No client, no connection, or no answer: INCR may have been done all the same.
FailOpen(c) ==
  /\ call[c] = "new"
  /\ Becomes(c, "through")
  /\ \/ UNCHANGED <<counter, spoiled>>
     \/ counter' = counter + 1 /\ spoiled' = (spoiled \/ counter = 0)
  /\ UNCHANGED <<ttl, admitted>>

\* EXPIRE, on the key that is there by now; its error is ignored.
SetExpiry(c) ==
  /\ call[c] = "expire"
  /\ Becomes(c, "through")
  /\ \/ ttl' = (counter > 0) /\ UNCHANGED spoiled
     \/ spoiled' = (counter > 0) /\ UNCHANGED ttl
  /\ UNCHANGED <<counter, admitted>>

\* The window ends, or Redis starts again without its data.
KeyGoes ==
  /\ counter > 0
  /\ counter' = 0 /\ ttl' = FALSE /\ admitted' = 0 /\ spoiled' = FALSE
  /\ UNCHANGED call

LimitNext == KeyGoes \/ \E c \in Calls : CountCall(c) \/ FailOpen(c) \/ SetExpiry(c)

-----------------------------------------------------------------------------
\* A window of one key lets Limit requests through by its count, from all gateways
\* together (those that Redis did not answer go through beside the count, in any
\* number); and it ends: the key has a time to live, unless its first request is
\* about to set one, or Redis did not answer that request.  Only in the last case
\* can the counter stay, and the key be refused from then on (PerIP).
LimitIsOfAWindow ==
  /\ admitted <= Limit
  /\ counter > 0 => ttl \/ spoiled \/ \E c \in Calls : call[c] = "expire"
=============================================================================
