-------------------------- MODULE MCEventPipeline ---------------------------
(***************************************************************************)
(* Small instances of the event pipeline.  Every event may reach the one   *)
(* queue, so the queue's messages are the outbox's events.                 *)
(***************************************************************************)
EXTENDS EventPipeline, TLC

Symmetry == Permutations(Relays) \cup Permutations(Consumers)

=============================================================================
