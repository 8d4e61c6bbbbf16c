------------------------ MODULE EventPipelineProofs ------------------------
(***************************************************************************)
(* The pipeline publishes a row once, keeps what it has published, and     *)
(* sends at most one message for an event, for any number of events,       *)
(* relays, consumers and dials, and wherever a process or a connection     *)
(* fails.                                                                  *)
(***************************************************************************)
EXTENDS EventPipeline, FiniteSetTheorems, TLAPS

\* The message of e is in the queue, acked, lost by the publisher, or unacked.
Kept(e) ==
  e \in queue \cup acked \cup lost \/ \E x \in Consumers : Unacked(x) /\ handling[x].event = e

\* A row is claimed by one relay, is PUBLISHING as long as it is, and was handed
\* to the broker only if the claim is past that step.
ClaimsAreSound ==
  /\ \A c, d \in claims : c.event = d.event => c = d
  /\ \A c \in claims :
       /\ row[c.event] = "PUBLISHING"
       /\ c.step # "mark" => handed[c.event] = 0
       /\ c.step = "mark" => Kept(c.event)
  /\ \A e \in Events : row[e] \in {"NONE", "PENDING"} => handed[e] = 0

\* One instance at most is about to send for an event: the one that inserted its
\* row, and nothing was sent before.
SendersAreAlone ==
  /\ \A x, y \in Consumers :
       At(x, "send") /\ At(y, "send") /\ handling[x].event = handling[y].event => x = y
  /\ \A x \in Consumers :
       /\ At(x, "send") => handling[x].event \in notified /\ sent[handling[x].event] = 0
       /\ At(x, "record") => handling[x].event \in notified
  /\ \A e \in Messages : e \notin notified => sent[e] = 0

Inv ==
  /\ TypeOK
  /\ ClaimsAreSound
  /\ PublishedOnce
  /\ PublishedIsKept
  /\ SendersAreAlone
  /\ SentAtMostOnce
  /\ AckedIsNotified

LEMMA InitInv == Init => Inv
<1> SUFFICES ASSUME Init
             PROVE  Inv
  OBVIOUS
<1> USE DEF Init, OutboxInit, NotifyInit, BrokerInit
<1>1. TypeOK
  BY DialsAssumption DEF TypeOK, OutboxTypes, NotifyTypes, BrokerTypes, RowStatuses
<1>2. ClaimsAreSound /\ PublishedOnce /\ PublishedIsKept
  BY DEF ClaimsAreSound, PublishedOnce, PublishedIsKept
<1>3. SendersAreAlone /\ SentAtMostOnce /\ AckedIsNotified
  BY DEF SendersAreAlone, SentAtMostOnce, AckedIsNotified, At
<1>4. QED
  BY <1>1, <1>2, <1>3 DEF Inv

-----------------------------------------------------------------------------
(***************************************************************************)
(* The relays.                                                             *)
(***************************************************************************)
OutboxInv == OutboxTypes /\ ClaimsAreSound /\ PublishedOnce /\ PublishedIsKept

\* As long as nothing is taken from the consumers' side, what is kept is kept.
LEMMA KeptStays ==
  ASSUME UNCHANGED <<notifyVars, brokerVars, lost>>, NEW e
  PROVE  Kept(e) => Kept(e)'
  BY DEF Kept, Unacked, notifyVars, brokerVars

LEMMA AppendInv ==
  ASSUME OutboxInv, NEW e \in Events, Append(e), UNCHANGED <<notifyVars, brokerVars, lost>>
  PROVE  OutboxInv'
<1>1. \A f \in Events : row'[f] = IF f = e THEN "PENDING" ELSE row[f]
  BY DEF Append, OutboxInv, OutboxTypes
<1>2. OutboxTypes'
  BY DEF Append, OutboxInv, OutboxTypes, RowStatuses
<1>3. ClaimsAreSound'
  BY <1>1, KeptStays DEF Append, OutboxInv, OutboxTypes, ClaimsAreSound
<1>4. PublishedOnce' /\ PublishedIsKept'
  BY <1>1, KeptStays DEF Append, OutboxInv, PublishedOnce, PublishedIsKept, Kept
<1>5. QED
  BY <1>2, <1>3, <1>4 DEF OutboxInv

LEMMA ClaimInv ==
  ASSUME OutboxInv, NEW r \in Relays, Claim(r), UNCHANGED <<notifyVars, brokerVars, lost>>
  PROVE  OutboxInv'
<1>1. PICK batch \in SUBSET {e \in Events : row[e] = "PENDING"} :
        /\ row' = [e \in Events |-> IF e \in batch THEN "PUBLISHING" ELSE row[e]]
        /\ \E read \in SUBSET batch : Claimed(r, read)
  BY DEF Claim
<1>2. PICK read \in SUBSET batch : Claimed(r, read)
  BY <1>1
<1>3. \A c \in claims' : \/ c \in claims
                         \/ /\ c \in [relay : {r}, event : read, step : {"publish"}]
                            /\ c.event \in batch /\ c.event \in Events /\ c.step = "publish"
                            /\ row[c.event] = "PENDING"
  BY <1>1, <1>2 DEF Claimed
<1>4. OutboxTypes'
  <2>1. row' \in [Events -> RowStatuses]
    BY <1>1 DEF OutboxInv, OutboxTypes, RowStatuses
  <2>2. claims' \subseteq [relay : Relays, event : Events, step : {"publish", "mark", "revert"}]
    BY <1>1, <1>2 DEF Claimed, OutboxInv, OutboxTypes
  <2>3. QED
    BY <2>1, <2>2 DEF Claim, OutboxInv, OutboxTypes
<1>5. \A c, d \in claims' : c.event = d.event => c = d
  <2>1. \A c \in claims : c.event \in Events /\ row[c.event] # "PENDING"
    BY DEF OutboxInv, OutboxTypes, ClaimsAreSound
  <2>2. \A c, d \in [relay : {r}, event : read, step : {"publish"}] : c.event = d.event => c = d
    OBVIOUS
  <2>3. QED
    BY <1>3, <2>1, <2>2 DEF OutboxInv, ClaimsAreSound
<1>6. \A c \in claims' : /\ row'[c.event] = "PUBLISHING"
                         /\ c.step # "mark" => handed'[c.event] = 0
                         /\ c.step = "mark" => Kept(c.event)'
  BY <1>1, <1>3, KeptStays DEF Claim, OutboxInv, OutboxTypes, ClaimsAreSound
<1>7. \A e \in Events : row'[e] \in {"NONE", "PENDING"} => handed'[e] = 0
  BY <1>1 DEF Claim, OutboxInv, ClaimsAreSound
<1>8. PublishedOnce' /\ PublishedIsKept'
  BY <1>1, KeptStays DEF Claim, OutboxInv, PublishedOnce, PublishedIsKept, Kept
<1>9. QED
  BY <1>4, <1>5, <1>6, <1>7, <1>8 DEF OutboxInv, ClaimsAreSound

\* The step of a claim that does not settle its row.
LEMMA RevertInv ==
  ASSUME OutboxInv, NEW c \in claims, PublishRowFails(c),
         UNCHANGED <<notifyVars, brokerVars, lost>>
  PROVE  OutboxInv'
<1>1. c \in [relay : Relays, event : Events, step : {"publish", "mark", "revert"}]
  BY DEF OutboxInv, OutboxTypes
<1>2. DEFINE d == [c EXCEPT !.step = "revert"]
<1>3. d.event = c.event /\ d.step = "revert"
      /\ d \in [relay : Relays, event : Events, step : {"publish", "mark", "revert"}]
  BY <1>1
<1>4. claims' = (claims \ {c}) \cup {d} /\ c.step = "publish" /\ UNCHANGED <<row, handed>>
  BY DEF PublishRowFails, GoOn
<1> HIDE DEF d
<1>5. OutboxTypes'
  BY <1>3, <1>4 DEF OutboxInv, OutboxTypes
<1>6. ClaimsAreSound'
  BY <1>3, <1>4, KeptStays DEF OutboxInv, ClaimsAreSound
<1>7. PublishedOnce' /\ PublishedIsKept'
  BY <1>4, KeptStays DEF OutboxInv, PublishedOnce, PublishedIsKept, Kept
<1>8. QED
  BY <1>5, <1>6, <1>7 DEF OutboxInv

\* A row becomes PUBLISHED if its message was handed over, PENDING if not.
LEMMA SettleInv ==
  ASSUME OutboxInv, NEW c \in claims, Settle(c), UNCHANGED <<notifyVars, brokerVars, lost>>
  PROVE  OutboxInv'
<1>1. c \in [relay : Relays, event : Events, step : {"publish", "mark", "revert"}]
  BY DEF OutboxInv, OutboxTypes
<1>2. /\ claims' = claims \ {c} /\ UNCHANGED handed
      /\ c.step # "publish"
      /\ row' \in [Events -> RowStatuses]
      /\ \A e \in Events : row'[e] = IF e = c.event
                                       THEN IF c.step = "mark" THEN "PUBLISHED" ELSE "PENDING"
                                       ELSE row[e]
  BY <1>1 DEF Settle, OutboxInv, OutboxTypes, RowStatuses
<1>3. OutboxTypes'
  BY <1>2 DEF OutboxInv, OutboxTypes
<1>4. ClaimsAreSound'
  <2>1. \A d \in claims' : d \in claims /\ d.event # c.event /\ d.event \in Events
    BY <1>2 DEF OutboxInv, OutboxTypes, ClaimsAreSound
  <2>2. \A e \in Events : row'[e] \in {"NONE", "PENDING"} => handed'[e] = 0
    BY <1>2 DEF OutboxInv, ClaimsAreSound
  <2>3. QED
    BY <1>2, <2>1, <2>2, KeptStays DEF OutboxInv, ClaimsAreSound
<1>5. PublishedIsKept'
  <2>1. \A e \in Events : row'[e] = "PUBLISHED" => Kept(e)
    BY <1>2 DEF OutboxInv, ClaimsAreSound, PublishedIsKept, Kept
  <2>2. QED
    BY <2>1, KeptStays DEF PublishedIsKept, Kept
<1>6. PublishedOnce'
  BY <1>2 DEF OutboxInv, PublishedOnce
<1>7. QED
  BY <1>3, <1>4, <1>5, <1>6 DEF OutboxInv

\* A relay that forgets claims leaves their rows as they are.
LEMMA ForgetInv ==
  ASSUME OutboxInv, claims' \subseteq claims, UNCHANGED <<row, handed>>,
         UNCHANGED <<notifyVars, brokerVars, lost>>
  PROVE  OutboxInv'
<1>1. OutboxTypes' /\ ClaimsAreSound'
  BY KeptStays DEF OutboxInv, OutboxTypes, ClaimsAreSound
<1>2. PublishedOnce' /\ PublishedIsKept'
  BY KeptStays DEF OutboxInv, PublishedOnce, PublishedIsKept, Kept
<1>3. QED
  BY <1>1, <1>2 DEF OutboxInv

LEMMA RelayInv ==
  ASSUME OutboxInv, NEW r \in Relays, RelayStep(r), UNCHANGED <<notifyVars, brokerVars, lost>>
  PROVE  OutboxInv'
<1>1. CASE Claim(r)
  BY <1>1, ClaimInv
<1>2. ASSUME NEW c \in ClaimsOf(r), PublishRowFails(c) \/ Settle(c) \/ SettleFails(c)
      PROVE  OutboxInv'
  <2>1. c \in claims
    BY DEF ClaimsOf
  <2>2. CASE PublishRowFails(c)
    BY <2>1, <2>2, RevertInv
  <2>3. CASE Settle(c)
    BY <2>1, <2>3, SettleInv
  <2>4. CASE SettleFails(c)
    BY <2>4, ForgetInv DEF SettleFails
  <2>5. QED
    BY <1>2, <2>2, <2>3, <2>4
<1>3. CASE RelayDies(r)
  BY <1>3, ForgetInv DEF RelayDies
<1>4. QED
  BY <1>1, <1>2, <1>3 DEF RelayStep

\* A row is handed over by the one claim on it, which was not past that step: the
\* event was never handed over before, and its message is now queued or lost.
LEMMA PublishInv ==
  ASSUME OutboxInv, NEW c \in claims, Publish(c)
  PROVE  OutboxInv'
<1>1. c \in [relay : Relays, event : Events, step : {"publish", "mark", "revert"}]
  BY DEF OutboxInv, OutboxTypes
<1>2. DEFINE d == [c EXCEPT !.step = "mark"]
<1>3. d.event = c.event /\ d.step = "mark"
      /\ d \in [relay : Relays, event : Events, step : {"publish", "mark", "revert"}]
  BY <1>1
<1>4. /\ claims' = (claims \ {c}) \cup {d} /\ c.step = "publish" /\ UNCHANGED row
      /\ handed' = [handed EXCEPT ![c.event] = @ + 1]
      /\ queue \subseteq queue' /\ lost \subseteq lost' /\ c.event \in queue' \cup lost'
      /\ UNCHANGED <<acked, handling, dials, link>>
  BY DEF Publish, PublishRow, GoOn, brokerVars
<1> HIDE DEF d
<1>5. /\ handed' \in [Events -> Nat] /\ handed'[c.event] = 1
      /\ \A e \in Events : e # c.event => handed'[e] = handed[e]
  BY <1>1, <1>4 DEF OutboxInv, OutboxTypes, ClaimsAreSound
<1>6. Kept(c.event)' /\ \A e : Kept(e) => Kept(e)'
  BY <1>4 DEF Kept, Unacked
<1>7. OutboxTypes'
  BY <1>3, <1>4, <1>5 DEF OutboxInv, OutboxTypes
<1>8. ClaimsAreSound'
  <2>1. \A x \in claims' : x = d \/ (x \in claims /\ x.event # c.event /\ x.event \in Events)
    BY <1>4 DEF OutboxInv, OutboxTypes, ClaimsAreSound
  <2>2. \A x, y \in claims' : x.event = y.event => x = y
    BY <1>3, <2>1 DEF OutboxInv, ClaimsAreSound
  <2>3. ASSUME NEW x \in claims'
        PROVE  /\ row'[x.event] = "PUBLISHING"
               /\ x.step # "mark" => handed'[x.event] = 0
               /\ x.step = "mark" => Kept(x.event)'
    <3>1. CASE x = d
      BY <1>3, <1>4, <1>6, <3>1 DEF OutboxInv, ClaimsAreSound
    <3>2. CASE x \in claims /\ x.event # c.event /\ x.event \in Events
      BY <1>4, <1>5, <1>6, <3>2 DEF OutboxInv, ClaimsAreSound
    <3>3. QED
      BY <2>1, <3>1, <3>2
  <2>4. \A e \in Events : row'[e] \in {"NONE", "PENDING"} => handed'[e] = 0
    BY <1>4, <1>5 DEF OutboxInv, ClaimsAreSound
  <2>5. QED
    BY <2>2, <2>3, <2>4 DEF ClaimsAreSound
<1>9. PublishedOnce'
  BY <1>5 DEF OutboxInv, PublishedOnce
<1>10. PublishedIsKept'
  BY <1>4, <1>6 DEF OutboxInv, PublishedIsKept, Kept
<1>11. QED
  BY <1>7, <1>8, <1>9, <1>10 DEF OutboxInv

-----------------------------------------------------------------------------
(***************************************************************************)
(* The consumers.                                                          *)
(***************************************************************************)
ConsumerInv == NotifyTypes /\ SendersAreAlone /\ SentAtMostOnce /\ AckedIsNotified

\* Nothing that was kept is lost by the step.
KeepsAll == \A e : Kept(e) => Kept(e)'

LEMMA HandlingTypes ==
  ASSUME ConsumerInv, NEW x \in Consumers, handling[x] # Nothing
  PROVE  /\ handling[x] \in Deliveries
         /\ handling[x].event \in Messages
         /\ handling[x].dial \in 1..MaxDials
         /\ handling[x].step \in Step
  BY NothingAssumption DEF ConsumerInv, NotifyTypes, Deliveries

\* An instance that lets its delivery go disturbs no other's.
LEMMA DoneInv ==
  ASSUME ConsumerInv, NEW x \in Consumers, Done(x), UNCHANGED <<notified, sent>>
  PROVE  /\ handling' \in [Consumers -> Deliveries \cup {Nothing}]
         /\ \A y \in Consumers : handling'[y] = IF y = x THEN Nothing ELSE handling[y]
         /\ SendersAreAlone' /\ SentAtMostOnce'
<1>1. /\ handling' \in [Consumers -> Deliveries \cup {Nothing}]
      /\ \A y \in Consumers : handling'[y] = IF y = x THEN Nothing ELSE handling[y]
  BY DEF Done, ConsumerInv, NotifyTypes
<1>2. SendersAreAlone' /\ SentAtMostOnce'
  BY <1>1 DEF At, ConsumerInv, SendersAreAlone, SentAtMostOnce
<1>3. QED
  BY <1>1, <1>2

\* An ack, of an event that has its row or needs none.
LEMMA AckInv ==
  ASSUME ConsumerInv, NEW x \in Consumers, Ack(x), UNCHANGED <<notified, sent, brokerVars, lost>>,
         handling[x] # Nothing, handling[x].event \in notified \cup Silent
  PROVE  ConsumerInv' /\ KeepsAll
<1>1. /\ handling' \in [Consumers -> Deliveries \cup {Nothing}]
      /\ \A y \in Consumers : handling'[y] = IF y = x THEN Nothing ELSE handling[y]
      /\ SendersAreAlone' /\ SentAtMostOnce'
  BY DoneInv DEF Ack
<1>2. handling[x].event \in Messages
  BY HandlingTypes
<1>3. NotifyTypes' /\ AckedIsNotified'
  BY <1>1, <1>2 DEF Ack, ConsumerInv, NotifyTypes, BrokerTypes, brokerVars, AckedIsNotified
<1>4. KeepsAll
  BY <1>1 DEF KeepsAll, Kept, Unacked, Ack, brokerVars
<1>5. QED
  BY <1>1, <1>3, <1>4 DEF ConsumerInv

\* A nack, on a channel that need not be open, of an instance that may be dying.
LEMMA NackInv ==
  ASSUME ConsumerInv, NEW x \in Consumers, Nack(x), UNCHANGED <<notified, sent, lost>>,
         BrokerTypes', \A y \in Consumers \ {x} : link'[y] = link[y] /\ dials'[y] = dials[y]
  PROVE  ConsumerInv' /\ KeepsAll
<1>1. /\ handling' \in [Consumers -> Deliveries \cup {Nothing}]
      /\ \A y \in Consumers : handling'[y] = IF y = x THEN Nothing ELSE handling[y]
      /\ SendersAreAlone' /\ SentAtMostOnce'
  BY DoneInv DEF Nack
<1>2. Unacked(x) => handling[x].event \in Messages
  BY HandlingTypes DEF Unacked
<1>3. NotifyTypes' /\ AckedIsNotified'
  BY <1>1, <1>2 DEF Nack, Requeue, ConsumerInv, NotifyTypes, AckedIsNotified
<1>4. KeepsAll
  BY <1>1 DEF KeepsAll, Kept, Unacked, Nack, Requeue
<1>5. QED
  BY <1>1, <1>3, <1>4 DEF ConsumerInv

\* A handler goes on to its next step.
LEMMA ProceedTypes ==
  ASSUME ConsumerInv, NEW x \in Consumers, NEW s \in Step, handling[x] # Nothing, Proceed(x, s)
  PROVE  /\ handling' \in [Consumers -> Deliveries \cup {Nothing}]
         /\ \A y \in Consumers \ {x} : handling'[y] = handling[y]
         /\ handling'[x] # Nothing
         /\ handling'[x].event = handling[x].event
         /\ handling'[x].dial = handling[x].dial
         /\ handling'[x].step = s
<1>1. handling[x] \in Deliveries
  BY HandlingTypes
<1>2. [handling[x] EXCEPT !.step = s] \in Deliveries
  BY <1>1 DEF Deliveries
<1>3. handling' = [handling EXCEPT ![x] = [handling[x] EXCEPT !.step = s]]
  BY DEF Proceed
<1>4. handling'[x] = [handling[x] EXCEPT !.step = s] /\ handling'[x] # Nothing
  BY <1>2, <1>3, NothingAssumption DEF ConsumerInv, NotifyTypes
<1>5. /\ handling' \in [Consumers -> Deliveries \cup {Nothing}]
      /\ \A y \in Consumers \ {x} : handling'[y] = handling[y]
  BY <1>2, <1>3 DEF ConsumerInv, NotifyTypes
<1>6. handling'[x].event = handling[x].event /\ handling'[x].dial = handling[x].dial
      /\ handling'[x].step = s
  BY <1>1, <1>4 DEF Deliveries
<1>7. QED
  BY <1>4, <1>5, <1>6

LEMMA ProceedKeeps ==
  ASSUME ConsumerInv, NEW x \in Consumers, NEW s \in Step, handling[x] # Nothing, Proceed(x, s),
         UNCHANGED <<queue, acked, brokerVars, lost>>
  PROVE  KeepsAll
  BY ProceedTypes DEF KeepsAll, Kept, Unacked, brokerVars

-----------------------------------------------------------------------------
LEMMA DeliverInv ==
  ASSUME ConsumerInv, NEW x \in Consumers, NEW m \in Messages, Deliver(x, m), UNCHANGED lost
  PROVE  ConsumerInv' /\ KeepsAll
<1> DEFINE d == [event |-> m, dial |-> dials[x], step |-> "check"]
<1>1. d \in Deliveries /\ d # Nothing
  BY NothingAssumption DEF ConsumerInv, NotifyTypes, BrokerTypes, Deliveries, Step
<1>2. handling' = [handling EXCEPT ![x] = d] /\ handling[x] = Nothing /\ link[x] = "up"
      /\ queue' = queue \ {m} /\ UNCHANGED <<acked, notified, sent, brokerVars>>
  BY DEF Deliver, Forwarding
<1>3. /\ handling' \in [Consumers -> Deliveries \cup {Nothing}]
      /\ \A y \in Consumers : handling'[y] = IF y = x THEN d ELSE handling[y]
  BY <1>1, <1>2 DEF ConsumerInv, NotifyTypes
<1>4. d.event = m /\ d.dial = dials[x] /\ d.step = "check"
  OBVIOUS
<1> HIDE DEF d
<1>5. NotifyTypes' /\ AckedIsNotified'
  BY <1>2, <1>3 DEF ConsumerInv, NotifyTypes, BrokerTypes, brokerVars, AckedIsNotified
<1>6. SendersAreAlone' /\ SentAtMostOnce'
  BY <1>2, <1>3, <1>4 DEF At, ConsumerInv, SendersAreAlone, SentAtMostOnce
<1>7. KeepsAll
  <2>1. Unacked(x)' /\ handling'[x].event = m
    BY <1>1, <1>2, <1>3, <1>4 DEF Unacked, brokerVars
  <2>2. QED
    BY <1>2, <1>3, <2>1 DEF KeepsAll, Kept, Unacked, brokerVars
<1>8. QED
  BY <1>5, <1>6, <1>7 DEF ConsumerInv

LEMMA CheckInv ==
  ASSUME ConsumerInv, NEW x \in Consumers, Check(x), UNCHANGED lost
  PROVE  ConsumerInv' /\ KeepsAll
<1>1. handling[x] # Nothing
  BY DEF Check, At
<1>2. CASE handling[x].event \in notified \cup Silent
  BY <1>1, <1>2, AckInv DEF Check
<1>3. CASE handling[x].event \notin notified \cup Silent
  <2>1. Proceed(x, "insert") /\ UNCHANGED <<queue, acked, notified, sent, brokerVars>>
    BY <1>3 DEF Check
  <2>2. "insert" \in Step
    BY DEF Step
  <2>3. /\ handling' \in [Consumers -> Deliveries \cup {Nothing}]
        /\ \A y \in Consumers \ {x} : handling'[y] = handling[y]
        /\ handling'[x].step = "insert"
    BY <1>1, <2>1, <2>2, ProceedTypes
  <2>4. NotifyTypes' /\ AckedIsNotified'
    BY <2>1, <2>3 DEF ConsumerInv, NotifyTypes, BrokerTypes, brokerVars, AckedIsNotified
  <2>5. SendersAreAlone' /\ SentAtMostOnce'
    BY <2>1, <2>3 DEF At, ConsumerInv, SendersAreAlone, SentAtMostOnce
  <2>6. KeepsAll
    BY <1>1, <2>1, <2>2, ProceedKeeps
  <2>7. QED
    BY <2>4, <2>5, <2>6 DEF ConsumerInv
<1>4. QED
  BY <1>2, <1>3

\* The instance whose INSERT took the row is the one that sends; nobody has.
LEMMA InsertInv ==
  ASSUME ConsumerInv, NEW x \in Consumers, Insert(x), UNCHANGED lost
  PROVE  ConsumerInv' /\ KeepsAll
<1>1. handling[x] # Nothing /\ handling[x].event \in Messages
  BY HandlingTypes DEF Insert, At
<1>2. CASE handling[x].event \in notified
  <2>1. Nack(x) /\ UNCHANGED <<notified, sent, link, dials, reader>>
    BY <1>2 DEF Insert, brokerVars
  <2>2. BrokerTypes'
    BY <2>1 DEF ConsumerInv, NotifyTypes, BrokerTypes
  <2>3. QED
    BY <2>1, <2>2, NackInv
<1>3. CASE handling[x].event \notin notified
  <2>1. Proceed(x, "send") /\ notified' = notified \cup {handling[x].event}
        /\ UNCHANGED <<queue, acked, sent, brokerVars>>
    BY <1>3 DEF Insert
  <2>2. "send" \in Step
    BY DEF Step
  <2>3. /\ handling' \in [Consumers -> Deliveries \cup {Nothing}]
        /\ \A y \in Consumers \ {x} : handling'[y] = handling[y]
        /\ handling'[x].event = handling[x].event
        /\ handling'[x].step = "send"
    BY <1>1, <2>1, <2>2, ProceedTypes
  <2>4. NotifyTypes' /\ AckedIsNotified'
    BY <1>1, <2>1, <2>3 DEF ConsumerInv, NotifyTypes, BrokerTypes, brokerVars, AckedIsNotified
  <2>5. sent[handling[x].event] = 0
    BY <1>1, <1>3 DEF ConsumerInv, SendersAreAlone
  <2>6. \A y \in Consumers \ {x} : At(y, "send") => handling[y].event # handling[x].event
    BY <1>3 DEF ConsumerInv, SendersAreAlone
  <2>7. SendersAreAlone' /\ SentAtMostOnce'
    BY <2>1, <2>3, <2>5, <2>6 DEF At, ConsumerInv, SendersAreAlone, SentAtMostOnce
  <2>8. KeepsAll
    BY <1>1, <2>1, <2>2, ProceedKeeps
  <2>9. QED
    BY <2>4, <2>7, <2>8 DEF ConsumerInv
<1>4. QED
  BY <1>2, <1>3

LEMMA SendInv ==
  ASSUME ConsumerInv, NEW x \in Consumers, Send(x), UNCHANGED lost
  PROVE  ConsumerInv' /\ KeepsAll
<1>1. At(x, "send") /\ handling[x] # Nothing /\ handling[x].event \in Messages
  BY HandlingTypes DEF Send, At
<1>2. handling[x].event \in notified /\ sent[handling[x].event] = 0
  BY <1>1 DEF ConsumerInv, SendersAreAlone
<1>3. Proceed(x, "record") /\ UNCHANGED <<queue, acked, notified, brokerVars>>
      /\ (sent' = [sent EXCEPT ![handling[x].event] = @ + 1] \/ UNCHANGED sent)
  BY DEF Send
<1>4. "record" \in Step
  BY DEF Step
<1>5. /\ handling' \in [Consumers -> Deliveries \cup {Nothing}]
      /\ \A y \in Consumers \ {x} : handling'[y] = handling[y]
      /\ handling'[x].event = handling[x].event
      /\ handling'[x].step = "record"
  BY <1>1, <1>3, <1>4, ProceedTypes
<1>6. /\ sent' \in [Messages -> Nat] /\ sent'[handling[x].event] <= 1
      /\ \A e \in Messages : e # handling[x].event => sent'[e] = sent[e]
  BY <1>1, <1>2, <1>3 DEF ConsumerInv, NotifyTypes
<1>7. NotifyTypes' /\ AckedIsNotified'
  BY <1>3, <1>5, <1>6 DEF ConsumerInv, NotifyTypes, BrokerTypes, brokerVars, AckedIsNotified
<1>8. \A y \in Consumers \ {x} : At(y, "send") =>
        handling[y].event # handling[x].event /\ handling[y].event \in Messages
  BY <1>1, HandlingTypes DEF At, ConsumerInv, SendersAreAlone
<1>9. SendersAreAlone'
  BY <1>2, <1>3, <1>5, <1>6, <1>8 DEF At, ConsumerInv, SendersAreAlone
<1>10. SentAtMostOnce'
  BY <1>6 DEF ConsumerInv, SentAtMostOnce
<1>11. KeepsAll
  BY <1>1, <1>3, <1>4, ProceedKeeps
<1>12. QED
  BY <1>7, <1>9, <1>10, <1>11 DEF ConsumerInv

LEMMA RecordInv ==
  ASSUME ConsumerInv, NEW x \in Consumers, Record(x), UNCHANGED lost
  PROVE  ConsumerInv' /\ KeepsAll
<1>1. handling[x] # Nothing /\ handling[x].event \in notified
  BY DEF Record, At, ConsumerInv, SendersAreAlone
<1>2. QED
  BY <1>1, AckInv DEF Record

LEMMA HandlingFailsInv ==
  ASSUME ConsumerInv, NEW x \in Consumers, HandlingFails(x), UNCHANGED lost
  PROVE  ConsumerInv' /\ KeepsAll
<1>1. Nack(x) /\ UNCHANGED <<notified, sent, link, dials, reader>>
  BY DEF HandlingFails, brokerVars
<1>2. BrokerTypes'
  BY <1>1 DEF ConsumerInv, NotifyTypes, BrokerTypes
<1>3. QED
  BY <1>1, <1>2, NackInv

-----------------------------------------------------------------------------
\* The connection: what it takes from an instance goes back to the queue.
LEMMA LinkInv ==
  ASSUME ConsumerInv, NEW x \in Consumers, LinkStep(x), UNCHANGED lost
  PROVE  ConsumerInv' /\ KeepsAll
<1>1. CASE LinkBreaks(x) /\ Requeue(x) /\ UNCHANGED <<acked, handling, notified, sent>>
  <2>1. BrokerTypes' /\ UNCHANGED dials /\ \A y \in Consumers \ {x} : link'[y] = link[y]
    BY <1>1 DEF LinkBreaks, ConsumerInv, NotifyTypes, BrokerTypes
  <2>2. Unacked(x) => handling[x].event \in Messages
    BY HandlingTypes DEF Unacked
  <2>3. NotifyTypes' /\ AckedIsNotified' /\ SendersAreAlone' /\ SentAtMostOnce'
    BY <1>1, <2>1, <2>2
    DEF Requeue, ConsumerInv, NotifyTypes, AckedIsNotified, SendersAreAlone, SentAtMostOnce, At
  <2>4. KeepsAll
    BY <1>1, <2>1 DEF KeepsAll, Kept, Unacked, Requeue
  <2>5. QED
    BY <2>3, <2>4 DEF ConsumerInv
<1>2. CASE Redial(x) /\ UNCHANGED notifyVars
  <2>1. /\ BrokerTypes' /\ link[x] = "down"
        /\ \A y \in Consumers \ {x} : link'[y] = link[y] /\ dials'[y] = dials[y]
    BY <1>2, DialsAssumption DEF Redial, ConsumerInv, NotifyTypes, BrokerTypes
  <2>2. ConsumerInv'
    BY <1>2, <2>1
    DEF notifyVars, ConsumerInv, NotifyTypes, AckedIsNotified, SendersAreAlone, SentAtMostOnce, At
  <2>3. KeepsAll
    BY <1>2, <2>1 DEF KeepsAll, Kept, Unacked, notifyVars
  <2>4. QED
    BY <2>2, <2>3
<1>3. CASE ReaderStep(x) /\ UNCHANGED notifyVars
  <2>1. UNCHANGED <<link, dials>>
    BY <1>3 DEF ReaderStep, DeliveriesEnd, Subscribe, WaitReconnect, Reconnected
  <2>2. PICK at \in {"forward", "subscribe", "failed", "wait"}, dial \in 0..MaxDials :
          MoveReader(x, at, dial)
    BY <1>3, DialsAssumption
    DEF ReaderStep, DeliveriesEnd, Subscribe, WaitReconnect, Reconnected, ConsumerInv, NotifyTypes,
        BrokerTypes
  <2>3. BrokerTypes'
    BY <2>1, <2>2 DEF MoveReader, ConsumerInv, NotifyTypes, BrokerTypes
  <2>4. ConsumerInv'
    BY <1>3, <2>3
    DEF notifyVars, ConsumerInv, NotifyTypes, AckedIsNotified, SendersAreAlone, SentAtMostOnce, At
  <2>5. KeepsAll
    BY <1>3, <2>1 DEF KeepsAll, Kept, Unacked, notifyVars
  <2>6. QED
    BY <2>4, <2>5
<1>4. QED
  BY <1>1, <1>2, <1>3 DEF LinkStep

LEMMA InstanceDiesInv ==
  ASSUME ConsumerInv, NEW x \in Consumers, InstanceDies(x), UNCHANGED lost
  PROVE  ConsumerInv' /\ KeepsAll
<1>1. BrokerTypes'
  BY DialsAssumption DEF InstanceDies, Restart, MoveReader, ConsumerInv, NotifyTypes, BrokerTypes
<1>2. \A y \in Consumers \ {x} : link'[y] = link[y] /\ dials'[y] = dials[y]
  BY DEF InstanceDies, Restart, ConsumerInv, NotifyTypes, BrokerTypes
<1>3. QED
  BY <1>1, <1>2, NackInv DEF InstanceDies

LEMMA NotifyInv ==
  ASSUME ConsumerInv, NEW x \in Consumers, NotifyNext(x), UNCHANGED lost
  PROVE  ConsumerInv' /\ KeepsAll
  BY DeliverInv, CheckInv, InsertInv, SendInv, RecordInv, HandlingFailsInv, LinkInv, InstanceDiesInv
  DEF NotifyNext, HandleDelivery

-----------------------------------------------------------------------------
LEMMA Inductive == Inv /\ [Next]_vars => Inv'
<1> SUFFICES ASSUME Inv, [Next]_vars
             PROVE  Inv'
  OBVIOUS
<1>1. OutboxInv /\ ConsumerInv /\ lost \subseteq Events
  BY DEF Inv, TypeOK, OutboxInv, ConsumerInv
<1>2. ASSUME OutboxInv', ConsumerInv', lost' \subseteq Events
      PROVE  Inv'
  BY <1>2 DEF Inv, TypeOK, OutboxInv, ConsumerInv
<1>3. ASSUME UNCHANGED <<notifyVars, brokerVars, lost>>
      PROVE  ConsumerInv' /\ lost' \subseteq Events
  BY <1>1, <1>3
  DEF notifyVars, brokerVars, ConsumerInv, NotifyTypes, BrokerTypes, SendersAreAlone, At,
      SentAtMostOnce, AckedIsNotified
<1>4. ASSUME NEW e \in Events, Append(e), UNCHANGED <<notifyVars, brokerVars, lost>>
      PROVE  Inv'
  BY <1>1, <1>2, <1>3, <1>4, AppendInv
<1>5. ASSUME NEW r \in Relays, RelayStep(r), UNCHANGED <<notifyVars, brokerVars, lost>>
      PROVE  Inv'
  BY <1>1, <1>2, <1>3, <1>5, RelayInv
<1>6. ASSUME NEW c \in claims, Publish(c)
      PROVE  Inv'
  <2>1. OutboxInv'
    BY <1>1, <1>6, PublishInv
  <2>2. c.event \in Events
    BY <1>1 DEF OutboxInv, OutboxTypes
  <2>3. /\ queue' \subseteq queue \cup {c.event} /\ lost' \subseteq lost \cup {c.event}
        /\ UNCHANGED <<acked, handling, notified, sent, link, dials, reader>>
    BY <1>6 DEF Publish, brokerVars
  <2>4. ConsumerInv' /\ lost' \subseteq Events
    BY <1>1, <2>2, <2>3, MessagesAssumption
    DEF ConsumerInv, NotifyTypes, BrokerTypes, SendersAreAlone, At, SentAtMostOnce, AckedIsNotified
  <2>5. QED
    BY <1>2, <2>1, <2>4
<1>7. ASSUME NEW x \in Consumers, NotifyNext(x), UNCHANGED <<outboxVars, lost>>
      PROVE  Inv'
  <2>1. ConsumerInv' /\ KeepsAll
    BY <1>1, <1>7, NotifyInv
  <2>2. OutboxInv'
    BY <1>1, <1>7, <2>1
    DEF KeepsAll, outboxVars, OutboxInv, OutboxTypes, ClaimsAreSound, PublishedOnce,
        PublishedIsKept, Kept
  <2>3. QED
    BY <1>1, <1>2, <1>7, <2>1, <2>2
<1>8. CASE UNCHANGED vars
  <2>1. OutboxInv'
    BY <1>1, <1>8
    DEF vars, outboxVars, notifyVars, brokerVars, OutboxInv, OutboxTypes, ClaimsAreSound,
        PublishedOnce, PublishedIsKept, Kept, Unacked
  <2>2. QED
    BY <1>2, <1>3, <1>8, <2>1 DEF vars
<1>9. QED
  BY <1>4, <1>5, <1>6, <1>7, <1>8 DEF Next

LEMMA Invariant == Spec => []Inv
BY InitInv, Inductive, PTL DEF Spec

\* The rows, claims and histories of the relays, and the queue, deliveries and
\* connections of the consumers, stay what the tables and the client library hold.
THEOREM Types == Spec => []TypeOK
<1>1. Inv => TypeOK
  BY DEF Inv
<1>2. QED
  BY <1>1, Invariant, PTL

\* However many relays run, and wherever one stops or a write-back fails, no row
\* is handed to the broker twice: it is claimed once and never offered again
\* after it was handed over (tick, claimed in one UPDATE).
THEOREM PublishesOnce == Spec => []PublishedOnce
<1>1. Inv => PublishedOnce
  BY DEF Inv
<1>2. QED
  BY <1>1, Invariant, PTL

\* Past the unconfirmed publish nothing drops an event: it is in the queue, with
\* an instance that can still ack it, or acked.
THEOREM PublishedStays == Spec => []PublishedIsKept
<1>1. Inv => PublishedIsKept
  BY DEF Inv
<1>2. QED
  BY <1>1, Invariant, PTL

\* However often an event is delivered, and to however many instances at once,
\* one of them sends its message and only once: the one whose INSERT took the row.
THEOREM SendsOnce == Spec => []SentAtMostOnce
<1>1. Inv => SentAtMostOnce
  BY DEF Inv
<1>2. QED
  BY <1>1, Invariant, PTL

\* An event leaves the queue for good only with its notification row, or because
\* it needs none.
THEOREM AcksAreNotified == Spec => []AckedIsNotified
<1>1. Inv => AckedIsNotified
  BY DEF Inv
<1>2. QED
  BY <1>1, Invariant, PTL

=============================================================================
