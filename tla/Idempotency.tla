---------------------------- MODULE Idempotency ----------------------------
(***************************************************************************)
(* shared/idempotency: the middleware in front of the endpoints that take  *)
(* an Idempotency-Key.  It looks the key up, lets the handler run if there *)
(* is no row, and inserts the handler's answer afterwards: three steps,    *)
(* with no lock or row held while the handler runs.                        *)
(*                                                                         *)
(* A key stands for a key and its endpoint, a body for a request's hash.   *)
(* An answer is what a handler replied below status 500.                   *)
(***************************************************************************)
EXTENDS FiniteSets

CONSTANTS
  Keys,
  NoRow  \* no idempotency_keys row

VARIABLES
  stored,    \* idempotency_keys: the body and the answer under each key
  guarded,   \* the requests past the lookup whose outcome is not recorded
  replayed,  \* history: the stored answers given to repeated requests
  executed,  \* history: the answers handlers gave, by key
  unsafe     \* history: keys whose requests overlapped or lost an outcome

idemVars == <<stored, guarded, replayed, executed, unsafe>>
history  == <<replayed, executed>>

IdemInit ==
  /\ stored   = [k \in Keys |-> NoRow]
  /\ guarded  = {}
  /\ replayed = {}
  /\ executed = {}
  /\ unsafe   = {}

Guarding(r) == \E g \in guarded : g.req = r

\* Mutant: a key used with another body counts as one not seen before.
AdmitOtherBody(r, k, b) ==
  /\ ~Guarding(r)
  /\ ~(stored[k] # NoRow /\ stored[k].body = b)
  /\ guarded' = guarded \cup {[req |-> r, key |-> k, body |-> b, answer |-> NoRow]}
  /\ unsafe'  = IF \E g \in guarded : g.key = k THEN unsafe \cup {k} ELSE unsafe
  /\ UNCHANGED <<stored, history>>

\* The lookup finds no row: the request goes on to its handler.
Admit(r, k, b) ==
  /\ ~Guarding(r)
  /\ stored[k] = NoRow
  /\ guarded' = guarded \cup {[req |-> r, key |-> k, body |-> b, answer |-> NoRow]}
  /\ unsafe'  = IF \E g \in guarded : g.key = k THEN unsafe \cup {k} ELSE unsafe
  /\ UNCHANGED <<stored, history>>

\* Mutant: the hash of the body is not compared.
ReplayAnyBody(k, b) ==
  /\ stored[k] # NoRow
  /\ replayed' = replayed \cup {[body |-> b, answer |-> stored[k].answer]}
  /\ UNCHANGED <<stored, guarded, executed, unsafe>>

\* It finds the same body's row and replays it; another body's is a 409.
Replay(k, b) ==
  /\ stored[k] # NoRow
  /\ stored[k].body = b
  /\ replayed' = replayed \cup {[body |-> b, answer |-> stored[k].answer]}
  /\ UNCHANGED <<stored, guarded, executed, unsafe>>

\* The handler of g answers, which reaches the client before it is recorded.
Running(g)  == g.answer = NoRow
Reply(g, a) ==
  /\ Running(g)
  /\ guarded'  = (guarded \ {g}) \cup {[g EXCEPT !.answer = a]}
  /\ executed' = executed \cup {[key |-> g.key, answer |-> a]}
  /\ UNCHANGED <<stored, replayed, unsafe>>

\* INSERT ... ON CONFLICT DO NOTHING.
Record(g) ==
  /\ ~Running(g)
  /\ stored'  = IF stored[g.key] = NoRow
                  THEN [stored EXCEPT ![g.key] = [body |-> g.body, answer |-> g.answer]] ELSE stored
  /\ guarded' = guarded \ {g}
  /\ UNCHANGED <<history, unsafe>>

\* The process dies, the INSERT fails or the handler ends in a 5xx, before or
\* after its own commit.
Forget(g) ==
  /\ guarded' = guarded \ {g}
  /\ unsafe'  = IF Running(g) THEN unsafe ELSE unsafe \cup {g.key}
  /\ UNCHANGED <<stored, history>>

-----------------------------------------------------------------------------
\* One key runs its handler to two different answers only if two of its requests
\* overlapped, or an outcome was lost between the commit and the record.
ExecutesOnceIfSafe ==
  \A x, y \in executed : x.key = y.key /\ x.answer # y.answer => x.key \in unsafe
=============================================================================
