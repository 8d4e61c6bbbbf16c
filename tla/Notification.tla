---------------------------- MODULE Notification ----------------------------
(***************************************************************************)
(* The Notification service: one WhatsApp message for an event.  Each      *)
(* instance handles the deliveries of its queue one after the other:       *)
(* notifyCustomer looks for the event's row, asks Core for the customer,   *)
(* inserts the row, sends the message and records the delivery.            *)
(*                                                                         *)
(* The queue is durable and its messages persistent; a message that was    *)
(* delivered and not acked goes back when its channel ends.                *)
(***************************************************************************)
EXTENDS Broker

CONSTANTS
  Messages,  \* events that reach the queue
  Silent,    \* those without a message: other types, customers without a phone
  Nothing    \* what an instance without a delivery is handling

Step == {"check", "insert", "send", "record"}
Deliveries == [event : Messages, dial : 1..MaxDials, step : Step]

ASSUME NothingAssumption == Nothing \notin Deliveries

VARIABLES
  queue,     \* messages ready for delivery
  acked,     \* messages gone from the queue for good
  handling,  \* the delivery each instance is handling, with its next step
  notified,  \* notifications, unique by source_event_id
  sent       \* history: WhatsApp messages sent for each event

notifyVars == <<queue, acked, handling, notified, sent>>

NotifyInit ==
  /\ queue    = {}
  /\ acked    = {}
  /\ handling = [x \in Consumers |-> Nothing]
  /\ notified = {}
  /\ sent     = [e \in Messages |-> 0]

\* A delivery is unacked as long as the channel it came on is open.
Unacked(x) == handling[x] # Nothing /\ handling[x].dial = dials[x] /\ link[x] = "up"

\* The broker requeues what x has not acked when its channel goes.
Requeue(x) == queue' = IF Unacked(x) THEN queue \cup {handling[x].event} ELSE queue

At(x, step)   == handling[x] # Nothing /\ handling[x].step = step
Proceed(x, s) == handling' = [handling EXCEPT ![x].step = s]
Done(x)       == handling' = [handling EXCEPT ![x] = Nothing]

\* Ack and Nack: on a channel that is gone they have no effect.
Ack(x) ==
  /\ acked' = IF Unacked(x) THEN acked \cup {handling[x].event} ELSE acked
  /\ Done(x)
  /\ UNCHANGED queue

\* Mutant: a nack does not ask for the message to be requeued.
NackDropping(x) ==
  /\ Done(x)
  /\ UNCHANGED <<queue, acked>>

Nack(x) ==
  /\ Requeue(x)
  /\ Done(x)
  /\ UNCHANGED acked

\* A delivery reaches the consume loop of x.
Deliver(x, e) ==
  /\ handling[x] = Nothing
  /\ e \in queue
  /\ Forwarding(x)
  /\ queue'    = queue \ {e}
  /\ handling' = [handling EXCEPT ![x] = [event |-> e, dial |-> dials[x], step |-> "check"]]
  /\ UNCHANGED <<acked, notified, sent, brokerVars>>

\* The dedup read; an event without a message is acked too.
Check(x) ==
  /\ At(x, "check")
  /\ IF handling[x].event \in notified \cup Silent
       THEN Ack(x)
       ELSE Proceed(x, "insert") /\ UNCHANGED <<queue, acked>>
  /\ UNCHANGED <<notified, sent, brokerVars>>

\* Mutant: the row is not unique by event.
InsertAnother(x) ==
  /\ At(x, "insert")
  /\ notified' = notified \cup {handling[x].event}
  /\ Proceed(x, "send")
  /\ UNCHANGED <<queue, acked, sent, brokerVars>>

\* INSERT ... ON CONFLICT DO NOTHING RETURNING id: on a conflict there is no id
\* to scan, which is an error, and the delivery is nacked.
Insert(x) ==
  /\ At(x, "insert")
  /\ IF handling[x].event \in notified
       THEN Nack(x) /\ UNCHANGED notified
       ELSE /\ notified' = notified \cup {handling[x].event}
            /\ Proceed(x, "send")
            /\ UNCHANGED <<queue, acked>>
  /\ UNCHANGED <<sent, brokerVars>>

\* Sender.Send; a failure is only recorded.
Send(x) ==
  /\ At(x, "send")
  /\ \/ sent' = [sent EXCEPT ![handling[x].event] = @ + 1]
     \/ UNCHANGED sent
  /\ Proceed(x, "record")
  /\ UNCHANGED <<queue, acked, notified, brokerVars>>

\* The delivery row, and the ack.
Record(x) ==
  /\ At(x, "record")
  /\ Ack(x)
  /\ UNCHANGED <<notified, sent, brokerVars>>

\* Mutant: a handler that fails acks its delivery.
HandlingFailsAcked(x) ==
  /\ \E s \in {"check", "insert", "record"} : At(x, s)
  /\ Ack(x)
  /\ UNCHANGED <<notified, sent, brokerVars>>

\* A statement fails, or Core does not answer: nack with requeue.
HandlingFails(x) ==
  /\ \E s \in {"check", "insert", "record"} : At(x, s)
  /\ Nack(x)
  /\ UNCHANGED <<notified, sent, brokerVars>>

HandleDelivery(x) == Check(x) \/ Insert(x) \/ Send(x) \/ Record(x)

\* What the connection does, and what that does to the delivery in hand.
LinkStep(x) ==
  \/ /\ LinkBreaks(x)
     /\ Requeue(x)
     /\ UNCHANGED <<acked, handling, notified, sent>>
  \/ (Redial(x) \/ ReaderStep(x)) /\ UNCHANGED notifyVars

\* The instance dies and is started again.
InstanceDies(x) ==
  /\ Restart(x)
  /\ Nack(x)
  /\ UNCHANGED <<notified, sent>>

NotifyNext(x) ==
  \/ \E e \in Messages : Deliver(x, e)
  \/ HandleDelivery(x)
  \/ HandlingFails(x)
  \/ LinkStep(x)
  \/ InstanceDies(x)

-----------------------------------------------------------------------------
NotifyTypes ==
  /\ BrokerTypes
  /\ queue \subseteq Messages
  /\ acked \subseteq Messages
  /\ handling \in [Consumers -> Deliveries \cup {Nothing}]
  /\ notified \subseteq Messages
  /\ sent \in [Messages -> Nat]

\* The customer gets one message at most for an event, although it may be
\* delivered to several instances at once, after a nack, a crash or a channel
\* that went while its handler was running (notifyCustomer).
SentAtMostOnce == \A e \in Messages : sent[e] <= 1

\* No instance gives an event up: one that left the queue for good has its
\* notification row, or needed none.
AckedIsNotified == acked \subseteq notified \cup Silent
=============================================================================
