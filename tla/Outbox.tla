------------------------------- MODULE Outbox -------------------------------
(***************************************************************************)
(* shared/outbox: the relay that every service runs over its own           *)
(* outbox_events table.  A tick claims a batch of PENDING rows in one      *)
(* statement, then publishes each outside any transaction and writes back  *)
(* what became of it.  Several instances of a service run one relay each.  *)
(***************************************************************************)
EXTENDS Integers, FiniteSets

CONSTANTS
  Events,    \* rows of outbox_events, known by their ids
  Relays,    \* instances of the service
  BatchSize  \* rows one tick claims at most

RowStatuses == {"NONE", "PENDING", "PUBLISHING", "PUBLISHED"}

VARIABLES
  row,    \* outbox_events.status, "NONE" before the row is committed
  claims, \* the rows each relay has claimed and not settled, with the next step
  handed  \* history: how often each event was handed to the broker's channel

outboxVars == <<row, claims, handed>>

OutboxInit ==
  /\ row    = [e \in Events |-> "NONE"]
  /\ claims = {}
  /\ handed = [e \in Events |-> 0]

\* A handler's transaction commits its outbox row.
Append(e) ==
  /\ row[e] = "NONE"
  /\ row' = [row EXCEPT ![e] = "PENDING"]
  /\ UNCHANGED <<claims, handed>>

ClaimsOf(r) == {c \in claims : c.relay = r}
Claimed(r, batch) == claims' = claims \cup [relay : {r}, event : batch, step : {"publish"}]

\* Mutant: the rows are selected and locked, but not set to PUBLISHING.
ClaimBySelect(r) ==
  /\ ClaimsOf(r) = {}
  /\ \E batch \in (SUBSET {e \in Events : row[e] = "PENDING"}) \ {{}} :
       /\ Cardinality(batch) <= BatchSize
       /\ Claimed(r, batch)
  /\ UNCHANGED <<row, handed>>

\* tick's UPDATE ... SKIP LOCKED RETURNING.  Rows another relay is claiming at
\* the same time are skipped, so any of the pending rows may be in the batch.  If
\* the connection breaks while the answer is read, the relay goes on with the rows
\* it has read, or with none, and the others stay PUBLISHING.
Claim(r) ==
  /\ ClaimsOf(r) = {}
  /\ \E batch \in (SUBSET {e \in Events : row[e] = "PENDING"}) \ {{}} :
       /\ Cardinality(batch) <= BatchSize
       /\ row' = [e \in Events |-> IF e \in batch THEN "PUBLISHING" ELSE row[e]]
       /\ \E read \in SUBSET batch : Claimed(r, read)
  /\ UNCHANGED handed

\* A relay publishes and settles its rows one after the other.
Settling(r) == \E c \in ClaimsOf(r) : c.step # "publish"

GoOn(c, step) == claims' = (claims \ {c}) \cup {[c EXCEPT !.step = step]}

\* Publish hands the message to the channel; no confirm is awaited.
PublishRow(c) ==
  /\ c.step = "publish"
  /\ ~Settling(c.relay)
  /\ GoOn(c, "mark")
  /\ handed' = [handed EXCEPT ![c.event] = @ + 1]
  /\ UNCHANGED row

\* Publish fails: the channel is closed, or the message was not written whole, so
\* that the broker does not have it.
PublishRowFails(c) ==
  /\ c.step = "publish"
  /\ ~Settling(c.relay)
  /\ GoOn(c, "revert")
  /\ UNCHANGED <<row, handed>>

\* Mutant: the relay gives a row up when its publishing fails.
SettleOrGiveUp(c) ==
  /\ c.step # "publish"
  /\ row' = [row EXCEPT ![c.event] = IF c.step = "mark" THEN "PUBLISHED" ELSE "FAILED"]
  /\ claims' = claims \ {c}
  /\ UNCHANGED handed

\* The UPDATE that marks the row, or reverts it after a failure.
Settle(c) ==
  /\ c.step # "publish"
  /\ row' = [row EXCEPT ![c.event] = IF c.step = "mark" THEN "PUBLISHED" ELSE "PENDING"]
  /\ claims' = claims \ {c}
  /\ UNCHANGED handed

\* That UPDATE fails: an error is logged and the next row taken.
SettleFails(c) ==
  /\ c.step # "publish"
  /\ claims' = claims \ {c}
  /\ UNCHANGED <<row, handed>>

\* The instance stops.
RelayDies(r) ==
  /\ ClaimsOf(r) # {}
  /\ claims' = claims \ ClaimsOf(r)
  /\ UNCHANGED <<row, handed>>

\* The steps of a relay that hand nothing to the broker.
RelayStep(r) ==
  \/ Claim(r)
  \/ \E c \in ClaimsOf(r) : PublishRowFails(c) \/ Settle(c) \/ SettleFails(c)
  \/ RelayDies(r)

-----------------------------------------------------------------------------
OutboxTypes ==
  /\ row \in [Events -> RowStatuses]
  /\ claims \subseteq [relay : Relays, event : Events, step : {"publish", "mark", "revert"}]
  /\ handed \in [Events -> Nat]

\* docs/06 section 6: two relay instances can never publish the same row twice;
\* nor does one that is started again, whatever updates failed.
PublishedOnce == \A e \in Events : handed[e] <= 1
=============================================================================
