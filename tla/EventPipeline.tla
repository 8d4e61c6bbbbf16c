--------------------------- MODULE EventPipeline ----------------------------
(***************************************************************************)
(* An event's way from the transaction that writes it to the customer's    *)
(* telephone: outbox row, relay, exchange and queue, Notification.         *)
(***************************************************************************)
EXTENDS Outbox, Notification

ASSUME MessagesAssumption == Messages = Events

VARIABLE lost  \* history: events whose message never came to the queue

vars == <<outboxVars, notifyVars, brokerVars, lost>>

Init == OutboxInit /\ NotifyInit /\ BrokerInit /\ lost = {}

\* A message handed to the publisher's channel comes to the durable queue or,
\* since no confirm is awaited, is lost with the channel, or because no consumer
\* has declared its queue yet.  (The queue is a set: a message that comes late is
\* one that is delivered late.)
Publish(c) ==
  /\ PublishRow(c)
  /\ \/ queue' = queue \cup {c.event} /\ UNCHANGED lost
     \/ lost' = lost \cup {c.event} /\ UNCHANGED queue
  /\ UNCHANGED <<acked, handling, notified, sent, brokerVars>>

Next ==
  \/ /\ \/ \E e \in Events : Append(e)
        \/ \E r \in Relays : RelayStep(r)
     /\ UNCHANGED <<notifyVars, brokerVars, lost>>
  \/ \E c \in claims : Publish(c)
  \/ \E x \in Consumers : NotifyNext(x) /\ UNCHANGED <<outboxVars, lost>>

Spec == Init /\ [][Next]_vars

(***************************************************************************)
(* Fairness: a relay's ticker fires for ever and a tick goes through its   *)
(* rows; watch redials for ever; the forwarding goroutine and the consume  *)
(* loop run when they can.  Faults and crashes promise nothing.            *)
(***************************************************************************)
Fairness ==
  /\ \A r \in Relays :
       WF_vars(/\ \/ Claim(r)
                  \/ \E c \in ClaimsOf(r) : Settle(c)
               /\ UNCHANGED <<notifyVars, brokerVars, lost>>)
  /\ \A r \in Relays : WF_vars(\E c \in ClaimsOf(r) : Publish(c))
  /\ \A x \in Consumers :
       WF_vars((Redial(x) \/ ReaderStep(x)) /\ UNCHANGED <<notifyVars, outboxVars, lost>>)

FairSpec == Spec /\ Fairness

-----------------------------------------------------------------------------
\* Every variable of the pipeline keeps its type.
TypeOK == OutboxTypes /\ NotifyTypes /\ lost \subseteq Events

\* The one place where the pipeline loses an event it has marked PUBLISHED is the
\* publish that nobody confirms (ExchangePublisher.Publish).  Whatever else came
\* through, it is in the queue, in the hands of an instance whose channel is
\* open, or acked: no nack, crash, broken connection or failed UPDATE drops it,
\* and no row is marked that was not published.
PublishedIsKept ==
  \A e \in Events : row[e] = "PUBLISHED" =>
    e \in queue \cup acked \cup lost \/ \E x \in Consumers : Unacked(x) /\ handling[x].event = e
=============================================================================
