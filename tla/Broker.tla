------------------------------- MODULE Broker -------------------------------
(***************************************************************************)
(* shared/broker, as a consuming instance uses it: its connection to       *)
(* RabbitMQ with the one channel on it, the watcher that dials again, and  *)
(* the goroutine of DeclareConsumerQueue that forwards deliveries and      *)
(* subscribes anew when they end.                                          *)
(*                                                                         *)
(* Every dial closes the `reconnected` signal of the one before and makes  *)
(* a new one, so a signal is known by the number of the dial that made it. *)
(***************************************************************************)
EXTENDS Integers

CONSTANTS
  Consumers,  \* instances of the consuming service
  MaxDials    \* bound on the dials of an instance

ASSUME DialsAssumption == MaxDials \in Nat \ {0}

VARIABLES
  link,   \* "up", "closed" (the channel alone) or "down" (the connection)
  dials,  \* dials that succeeded; the current channel is that of the last
  reader  \* the forwarding goroutine: where it is and the dial it knows, if any

brokerVars == <<link, dials, reader>>

BrokerInit ==
  /\ link   = [x \in Consumers |-> "up"]
  /\ dials  = [x \in Consumers |-> 1]
  /\ reader = [x \in Consumers |-> [at |-> "forward", dial |-> 1]]

MoveReader(x, at, dial) == reader' = [reader EXCEPT ![x] = [at |-> at, dial |-> dial]]

\* The channel the reader forwards from is the current one, and open.
Forwarding(x) == reader[x].at = "forward" /\ reader[x].dial = dials[x] /\ link[x] = "up"

\* The connection drops, or the server closes the channel alone; watch sees
\* the first only.
LinkBreaks(x) ==
  /\ link[x] # "down"
  /\ \E broken \in {"closed", "down"} :
       /\ broken # link[x]
       /\ link' = [link EXCEPT ![x] = broken]
  /\ UNCHANGED <<dials, reader>>

\* watch redials.
Redial(x) ==
  /\ link[x] = "down"
  /\ dials[x] < MaxDials
  /\ link'  = [link EXCEPT ![x] = "up"]
  /\ dials' = [dials EXCEPT ![x] = @ + 1]
  /\ UNCHANGED reader

\* The deliveries the reader ranges over end.
DeliveriesEnd(x) ==
  /\ reader[x].at = "forward"
  /\ ~Forwarding(x)
  /\ MoveReader(x, "subscribe", 0)
  /\ UNCHANGED <<link, dials>>

\* subscribe, on the channel that is current when it is called.
Subscribe(x) ==
  /\ reader[x].at = "subscribe"
  /\ IF link[x] = "up" THEN MoveReader(x, "forward", dials[x]) ELSE MoveReader(x, "failed", 0)
  /\ UNCHANGED <<link, dials>>

\* waitReconnect, which returns the signal that is current now.
WaitReconnect(x) ==
  /\ reader[x].at = "failed"
  /\ MoveReader(x, "wait", dials[x])
  /\ UNCHANGED <<link, dials>>

\* The dial after the one the reader knows closes its signal.
Reconnected(x) ==
  /\ reader[x].at = "wait"
  /\ dials[x] > reader[x].dial
  /\ MoveReader(x, "subscribe", 0)
  /\ UNCHANGED <<link, dials>>

\* The process is started again: Connect, then DeclareConsumerQueue.
Restart(x) ==
  /\ dials[x] < MaxDials
  /\ link'  = [link EXCEPT ![x] = "up"]
  /\ dials' = [dials EXCEPT ![x] = @ + 1]
  /\ MoveReader(x, "forward", dials[x] + 1)

ReaderStep(x) == DeliveriesEnd(x) \/ Subscribe(x) \/ WaitReconnect(x) \/ Reconnected(x)

-----------------------------------------------------------------------------
BrokerTypes ==
  /\ link \in [Consumers -> {"up", "closed", "down"}]
  /\ dials \in [Consumers -> 1..MaxDials]
  /\ reader \in [Consumers -> [at : {"forward", "subscribe", "failed", "wait"}, dial : 0..MaxDials]]

-----------------------------------------------------------------------------
\* DeclareConsumerQueue's comment: the delivery channel stays valid for the
\* lifetime of the connection and forwarding resumes once it is back.  Not so:
\* a dial between the failed subscribe and waitReconnect is never seen.
ForwardingResumes ==
  \A x \in Consumers : <>[](link[x] = "up") => []<>Forwarding(x)
=============================================================================
