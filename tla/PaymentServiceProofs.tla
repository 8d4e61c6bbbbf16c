------------------------ MODULE PaymentServiceProofs ------------------------
(***************************************************************************)
(* The Payment service keeps its promises whatever Core answers it and     *)
(* however the middleware admits requests to its handlers: on Payment's    *)
(* own variables a step of the service is a step of Payments.  Then the    *)
(* middleware: when a key runs its handler once, and why a replay is       *)
(* faithful.                                                               *)
(***************************************************************************)
EXTENDS PaymentService, PaymentsProofs

\* The types of the middleware's variables, as TypeOK states them.
KeyTypes ==
  /\ stored \in [Keys -> [body : Bodies, answer : Answer] \cup {NoRow}]
  /\ guarded \subseteq [req : PayReqs, key : Keys, body : Bodies, answer : Answer \cup {NoRow}]
  /\ replayed \subseteq [body : Bodies, answer : Answer]
  /\ executed \subseteq [key : Keys, answer : Answer]
  /\ unsafe \subseteq Keys

\* Of the requests of a key that is still safe at most one is past the lookup,
\* and none once the key has its row.
GuardedApart ==
  /\ \A g, h \in guarded : g.key = h.key /\ g # h => g.key \in unsafe
  /\ \A g \in guarded : stored[g.key] # NoRow => g.key \in unsafe

\* The answer of a safe key is in its row, or in the request about to write it.
AnswerIsKept ==
  \A x \in executed :
    \/ x.key \in unsafe
    \/ stored[x.key] # NoRow /\ stored[x.key].answer = x.answer
    \/ \E g \in guarded : g.key = x.key /\ g.answer = x.answer /\ ~Running(g)

KeyInv == KeyTypes /\ GuardedApart /\ AnswerIsKept

\* A row's answer, and that of a request, is an answer and not a missing row.
LEMMA AnswersAreRows ==
  /\ NoRow \notin Answer /\ NoRow \notin [body : Bodies, answer : Answer]
  /\ \A k \in Keys : KeyTypes /\ stored[k] # NoRow => stored[k] \in [body : Bodies, answer : Answer]
  /\ \A k \in Keys : BodiesFor(k) \subseteq Bodies
BY AnswersAssumption, NoRowAssumption DEF Answer, KeyTypes, BodiesFor, Bodies

\* Admitting a request keeps KeyInv: the key has no row, and a request already
\* under way makes it unsafe.
LEMMA AdmitKeeps ==
  ASSUME KeyInv, NEW r \in PayReqs, NEW k \in Keys, NEW b \in BodiesFor(k), Admit(r, k, b)
  PROVE  KeyInv'
<1> DEFINE new == [req |-> r, key |-> k, body |-> b, answer |-> NoRow]
<1>1. KeyTypes'
  BY AnswersAreRows DEF KeyInv, KeyTypes, Admit, history
<1>2. GuardedApart'
  BY DEF KeyInv, KeyTypes, GuardedApart, Admit
<1>3. AnswerIsKept'
  BY DEF KeyInv, KeyTypes, AnswerIsKept, Admit, history, Running
<1>4. QED
  BY <1>1, <1>2, <1>3 DEF KeyInv

\* A replay only adds to the history of replays.
LEMMA ReplayKeeps ==
  ASSUME KeyInv, NEW k \in Keys, NEW b \in BodiesFor(k), Replay(k, b)
  PROVE  KeyInv'
<1>1. KeyTypes'
  BY AnswersAreRows DEF KeyInv, KeyTypes, Replay
<1>2. GuardedApart' /\ AnswerIsKept'
  BY DEF KeyInv, GuardedApart, AnswerIsKept, Replay, Running
<1>3. QED
  BY <1>1, <1>2 DEF KeyInv

\* A reply moves its request on and keeps the answer in it.
LEMMA ReplyKeeps ==
  ASSUME KeyInv, NEW g \in guarded, NEW a \in Answer, Reply(g, a)
  PROVE  KeyInv'
<1> DEFINE done == [g EXCEPT !.answer = a]
<1>1. /\ g \in [req : PayReqs, key : Keys, body : Bodies, answer : Answer \cup {NoRow}]
      /\ done \in [req : PayReqs, key : Keys, body : Bodies, answer : Answer \cup {NoRow}]
      /\ done.key = g.key /\ done.answer = a /\ ~Running(done)
  BY AnswersAreRows DEF KeyInv, KeyTypes, Running
<1> HIDE DEF done
<1>2. guarded' = (guarded \ {g}) \cup {done} /\ executed' = executed \cup {[key |-> g.key, answer |-> a]}
      /\ UNCHANGED <<stored, replayed, unsafe>> /\ Running(g)
  BY DEF Reply, done
<1>3. KeyTypes'
  BY <1>1, <1>2 DEF KeyInv, KeyTypes
<1>4. GuardedApart'
  BY <1>1, <1>2 DEF KeyInv, GuardedApart
<1>5. AnswerIsKept'
  BY <1>1, <1>2 DEF KeyInv, AnswerIsKept, Running
<1>6. QED
  BY <1>3, <1>4, <1>5 DEF KeyInv

\* Recording an answer hands it from the request to the row of its key.
LEMMA RecordKeeps ==
  ASSUME KeyInv, NEW g \in guarded, Record(g)
  PROVE  KeyInv'
<1>1. g \in [req : PayReqs, key : Keys, body : Bodies, answer : Answer]
  BY DEF KeyInv, KeyTypes, Record, Running
<1>2. KeyTypes'
  BY <1>1 DEF KeyInv, KeyTypes, Record, history
<1>3. GuardedApart'
  BY <1>1 DEF KeyInv, KeyTypes, GuardedApart, Record
<1>4. AnswerIsKept'
  <2> SUFFICES ASSUME NEW x \in executed, x.key \notin unsafe
               PROVE  \/ stored'[x.key] # NoRow /\ stored'[x.key].answer = x.answer
                      \/ \E h \in guarded' : h.key = x.key /\ h.answer = x.answer /\ ~Running(h)
    BY DEF AnswerIsKept, Record, history, Running
  <2>1. CASE stored[x.key] # NoRow /\ stored[x.key].answer = x.answer
    BY <2>1, <1>1 DEF KeyInv, KeyTypes, GuardedApart, Record
  <2>2. ASSUME NEW h \in guarded, h.key = x.key, h.answer = x.answer, ~Running(h)
        PROVE  \/ stored'[x.key] # NoRow /\ stored'[x.key].answer = x.answer
               \/ \E i \in guarded' : i.key = x.key /\ i.answer = x.answer /\ ~Running(i)
    <3>1. CASE h # g
      BY <2>2, <3>1 DEF Record
    <3>2. CASE h = g
      <4>1. stored[g.key] = NoRow
        BY <2>2, <3>2 DEF KeyInv, GuardedApart
      <4>2. stored'[g.key] = [body |-> g.body, answer |-> g.answer]
        BY <4>1, <1>1 DEF Record, KeyInv, KeyTypes
      <4>3. stored'[g.key] # NoRow
        BY <4>2, <1>1, AnswersAreRows
      <4>4. QED
        BY <2>2, <3>2, <4>2, <4>3
    <3>3. QED
      BY <3>1, <3>2
  <2>3. QED
    BY <2>1, <2>2 DEF KeyInv, AnswerIsKept
<1>5. QED
  BY <1>2, <1>3, <1>4 DEF KeyInv

\* Losing a request loses no answer of a safe key.
LEMMA ForgetKeeps ==
  ASSUME KeyInv, NEW g \in guarded, Forget(g)
  PROVE  KeyInv'
<1>1. KeyTypes'
  BY DEF KeyInv, KeyTypes, Forget, history
<1>2. GuardedApart'
  BY DEF KeyInv, GuardedApart, Forget
<1>3. AnswerIsKept'
  BY DEF KeyInv, AnswerIsKept, Forget, history, Running
<1>4. QED
  BY <1>1, <1>2, <1>3 DEF KeyInv

-----------------------------------------------------------------------------
(***************************************************************************)
(* Payment's rows stay, and an answer is about what was asked.             *)
(***************************************************************************)
RowsStay ==
  /\ \A p \in Payments : pStatus[p] # "NONE" => pStatus'[p] # "NONE" /\ pOrder'[p] = pOrder[p]
  /\ \A f \in Refunds : rStatus[f] # "NONE" => rStatus'[f] # "NONE" /\ rPayment'[f] = rPayment[f]

About(b, a) ==
  /\ a \in Payments => b.kind = "pay" /\ pStatus[a] # "NONE" /\ pOrder[a] = b.order
  /\ a \in Refunds  => b.kind = "refund" /\ rStatus[a] # "NONE" /\ rPayment[a] = b.payment

AnswersAreAbout ==
  /\ \A g \in guarded : About(g.body, g.answer)
  /\ \A k \in Keys : stored[k] # NoRow => About(stored[k].body, stored[k].answer)
  /\ \A x \in replayed : About(x.body, x.answer)

\* A slot serves one request, whose handler works for the body the middleware saw.
SlotsFit ==
  /\ \A q, s \in payReqs : q.req = s.req => q = s
  /\ \A g, h \in guarded : g.req = h.req => g = h
  /\ \A q \in payReqs, g \in guarded : q.req = g.req =>
       /\ Running(g)
       /\ q.kind = g.body.kind
       /\ q.kind = "pay" => q.order = g.body.order
       /\ q.kind = "refund" => q.payment = g.body.payment

ServiceInv == PayInv /\ KeyInv /\ SlotsFit /\ AnswersAreAbout

\* A step of the service is, on Payment's variables, a step of Payments against
\* some answer of Core, or no step at all.
LEMMA ServiceStep ==
  ASSUME KeyTypes, [Next]_vars
  PROVE  \/ PayLocal
         \/ \E a \in Answers : AskCore([o \in Orders |-> a])
         \/ UNCHANGED payVars
<1>1. ASSUME NEW g \in guarded, StartKeyed(g)
      PROVE  PayLocal \/ \E a \in Answers : AskCore([o \in Orders |-> a])
  <2>1. g.req \in PayReqs /\ (g.body.kind = "pay" => g.body.order \in Orders /\ g.body.method \in {"CASH", "QRIS"})
        /\ (g.body.kind = "refund" => g.body.payment \in Payments)
    BY DEF KeyTypes, Bodies, PayBodies, RefundBodies
  <2>2. QED
    BY <1>1, <2>1 DEF StartKeyed, PayLocal, StartPayRequest, AskCore
<1>2. ASSUME NEW g \in guarded, NEW q \in payReqs, StepKeyed(g, q)
      PROVE  PayLocal \/ \E a \in Answers : AskCore([o \in Orders |-> a])
  BY <1>2 DEF StepKeyed, PayLocal, StepPayRequest, AskCore
<1>3. CASE KeyedNext
  BY <1>1, <1>2, <1>3 DEF KeyedNext, Arrive, RefuseKeyed, EndKeyed
<1>4. CASE UnkeyedNext
  BY <1>4 DEF UnkeyedNext, PayLocal, StartPayRequest, StepPayRequest
<1>5. CASE UNCHANGED vars
  BY <1>5 DEF vars
<1>6. QED
  BY <1>3, <1>4, <1>5 DEF Next

\* No step takes a payment or a refund away or moves it elsewhere.
LEMMA RowsAreKept ==
  ASSUME PayInv, KeyTypes, [Next]_vars
  PROVE  RowsStay
<1>1. CASE UNCHANGED payVars \/ UNCHANGED paymentVars
  BY <1>1 DEF RowsStay, payVars, paymentVars
<1>2. ASSUME NEW a \in Answers, AskCore([o \in Orders |-> a])
      PROVE  RowsStay
  BY <1>1, <1>2 DEF AskCore, FetchForPayment, FetchForRefund
<1>3. CASE PayLocal
  <2>1. ASSUME NEW r \in PayReqs, StartPayRequest(r)
        PROVE  RowsStay
    BY <1>1, <2>1 DEF StartPayRequest, ReadForCallback, ReadForRefund, ReadForApproval
  <2>2. ASSUME NEW q \in payReqs, NEW p \in Payments, CommitPayment(q, p)
        PROVE  RowsStay
    BY <1>1, <2>2 DEF CommitPayment, RowsStay, PayInv, PayTypes, refundVars
  <2>3. ASSUME NEW q \in payReqs, CommitCallback(q)
        PROVE  RowsStay
    BY <1>1, <2>3 DEF CommitCallback, RowsStay, PayInv, PayTypes, PayRequest, refundVars
  <2>4. ASSUME NEW q \in payReqs, CheckForRefund(q) \/ AbortPayRequest(q)
        PROVE  RowsStay
    BY <1>1, <2>4 DEF CheckForRefund, AbortPayRequest
  <2>5. ASSUME NEW q \in payReqs, NEW f \in Refunds, InsertRefund(q, f)
        PROVE  RowsStay
    BY <2>5 DEF InsertRefund, RowsStay, PayInv, PayTypes
  <2>6. ASSUME NEW q \in payReqs, CommitApproval(q)
        PROVE  RowsStay
    BY <2>6 DEF CommitApproval, RowsStay, PayInv, PayTypes
  <2>7. ASSUME NEW f \in Refunds, RejectRefund(f)
        PROVE  RowsStay
    BY <2>7 DEF RejectRefund, RowsStay, PayInv, PayTypes
  <2>8. QED
    BY <1>3, <2>1, <2>2, <2>3, <2>4, <2>5, <2>6, <2>7 DEF PayLocal, StepPayRequest
<1>4. QED
  BY <1>1, <1>2, <1>3, ServiceStep

\* On the middleware's variables a step is one of its operations, and a handler's
\* reply is about the body its request was admitted with.
LEMMA KeyStep ==
  ASSUME ServiceInv, [Next]_vars
  PROVE  \/ \E r \in PayReqs, k \in Keys : \E b \in BodiesFor(k) : Admit(r, k, b) \/ Replay(k, b)
         \/ \E g \in guarded, a \in Answer : Reply(g, a) /\ About(g.body, a)'
         \/ \E g \in guarded : Record(g) \/ Forget(g)
         \/ UNCHANGED idemVars
<1>1. \A g \in guarded : About(g.body, Refused)' /\ Refused \in Answer
  BY AnswersAssumption DEF About, Answer
<1>2. ASSUME NEW g \in guarded, NEW q \in payReqs, q.req = g.req, StepKeyed(g, q)
      PROVE  \/ \E a \in Answer : Reply(g, a) /\ About(g.body, a)'
             \/ Forget(g)
             \/ UNCHANGED idemVars
  <2>1. ASSUME NEW p \in Payments, CommitPayment(q, p), Reply(g, IF pStatus'[p] = "NONE" THEN Refused ELSE p)
        PROVE  \E a \in Answer : Reply(g, a) /\ About(g.body, a)'
    <3>1. CASE pStatus'[p] = "NONE"
      BY <1>1, <2>1, <3>1
    <3>2. CASE pStatus'[p] # "NONE"
      <4>1. pOrder'[p] = g.body.order /\ g.body.kind = "pay"
        BY <1>2, <2>1, <3>2 DEF CommitPayment, ServiceInv, SlotsFit, PayInv, PayTypes, paymentVars
      <4>2. About(g.body, p)' /\ p \in Answer
        BY <4>1, <3>2, AnswersAssumption DEF About, Answer
      <4>3. QED
        BY <2>1, <3>2, <4>2
    <3>3. QED
      BY <3>1, <3>2
  <2>2. ASSUME NEW f \in Refunds, InsertRefund(q, f), Reply(g, f)
        PROVE  \E a \in Answer : Reply(g, a) /\ About(g.body, a)'
    <3>1. rPayment'[f] = g.body.payment /\ g.body.kind = "refund" /\ rStatus'[f] = "REQUESTED"
      BY <1>2, <2>2 DEF InsertRefund, ServiceInv, SlotsFit, PayInv, PayTypes
    <3>2. About(g.body, f)' /\ f \in Answer
      BY <3>1, AnswersAssumption DEF About, Answer
    <3>3. QED
      BY <2>2, <3>2
  <2>3. QED
    BY <1>1, <1>2, <2>1, <2>2 DEF StepKeyed
<1>3. CASE KeyedNext
  <2>1. ASSUME NEW g \in guarded, RefuseKeyed(g)
        PROVE  \E a \in Answer : Reply(g, a) /\ About(g.body, a)'
    BY <1>1, <2>1 DEF RefuseKeyed
  <2>2. QED
    BY <1>2, <1>3, <2>1 DEF KeyedNext, Arrive, StartKeyed, EndKeyed
<1>4. QED
  BY <1>3 DEF Next, UnkeyedNext, vars

\* What a step does to the answers keeps them about what was asked.
LEMMA AnswersStayAbout ==
  ASSUME ServiceInv, [Next]_vars
  PROVE  AnswersAreAbout'
<1>1. \A b, a : About(b, a) => About(b, a)'
  BY RowsAreKept DEF ServiceInv, KeyInv, RowsStay, About
<1>2. ASSUME NEW r \in PayReqs, NEW k \in Keys, NEW b \in BodiesFor(k), Admit(r, k, b) \/ Replay(k, b)
      PROVE  AnswersAreAbout'
  <2>1. About(b, NoRow)'
    BY AnswersAssumption DEF About
  <2>2. QED
    BY <1>1, <1>2, <2>1 DEF Admit, Replay, history, ServiceInv, AnswersAreAbout
<1>3. ASSUME NEW g \in guarded, NEW a \in Answer, Reply(g, a), About(g.body, a)'
      PROVE  AnswersAreAbout'
  <2>1. [g EXCEPT !.answer = a].body = g.body /\ [g EXCEPT !.answer = a].answer = a
    BY DEF ServiceInv, KeyInv, KeyTypes
  <2>2. QED
    BY <1>1, <1>3, <2>1 DEF Reply, ServiceInv, AnswersAreAbout
<1>4. ASSUME NEW g \in guarded, Record(g) \/ Forget(g)
      PROVE  AnswersAreAbout'
  BY <1>1, <1>4 DEF Record, Forget, history, ServiceInv, AnswersAreAbout, KeyInv, KeyTypes
<1>5. CASE UNCHANGED idemVars
  BY <1>1, <1>5 DEF idemVars, ServiceInv, AnswersAreAbout
<1>6. QED
  BY <1>2, <1>3, <1>4, <1>5, KeyStep

\* A step keeps every slot to one request, whose handler fits its body.
LEMMA SlotsStayFit ==
  ASSUME ServiceInv, [Next]_vars
  PROVE  SlotsFit'
<1> USE DEF ServiceInv, SlotsFit
<1>1. ASSUME payReqs' \subseteq payReqs, guarded' \subseteq guarded
      PROVE  SlotsFit'
  BY <1>1 DEF Running
<1>2. ASSUME NEW g \in guarded, NEW a, Reply(g, a), payReqs' \subseteq payReqs,
             \A q \in payReqs' : q.req # g.req
      PROVE  SlotsFit'
  <2> DEFINE done == [g EXCEPT !.answer = a]
  <2>1. done.req = g.req
    BY DEF KeyInv, KeyTypes
  <2>2. guarded' = (guarded \ {g}) \cup {done}
    BY <1>2 DEF Reply
  <2> HIDE DEF done
  <2>3. QED
    BY <1>2, <2>1, <2>2 DEF Running
<1>3. ASSUME NEW q, payReqs' \subseteq payReqs \cup {q}, UNCHANGED guarded,
             \A s \in payReqs \cap payReqs' : s.req # q.req,
             \A g \in guarded : g.req = q.req =>
               /\ Running(g) /\ q.kind = g.body.kind
               /\ q.kind = "pay" => q.order = g.body.order
               /\ q.kind = "refund" => q.payment = g.body.payment
      PROVE  SlotsFit'
  BY <1>3 DEF Running
<1>4. ASSUME NEW r \in PayReqs, NEW k \in Keys, NEW b \in BodiesFor(k), Arrive(r, k, b)
      PROVE  SlotsFit'
  <2>1. CASE Admit(r, k, b)
    BY <1>4, <2>1 DEF Arrive, Admit, Guarding, BusyPay, payVars, Running
  <2>2. CASE Replay(k, b)
    BY <1>1, <1>4, <2>2 DEF Arrive, Replay, payVars
  <2>3. QED
    BY <1>4, <2>1, <2>2 DEF Arrive
<1>5. ASSUME NEW g \in guarded, StartKeyed(g)
      PROVE  SlotsFit'
  <2>1. UNCHANGED guarded
    BY <1>5 DEF StartKeyed, idemVars
  <2>2. ~BusyPay(g.req) /\ Running(g)
    BY <1>5 DEF StartKeyed, FetchForPayment, ReadForRefund
  <2>3. CASE g.body.kind = "pay"
    <3>1. PICK a \in Answers : FetchForPayment(g.req, g.body.order, g.body.method, [o \in Orders |-> a])
      BY <1>5, <2>3 DEF StartKeyed
    <3>2. PICK amount : payReqs' = payReqs \cup {[kind |-> "pay", req |-> g.req, order |-> g.body.order,
                                                  amount |-> amount, method |-> g.body.method]}
      BY <3>1 DEF FetchForPayment, ServePay
    <3>3. QED
      BY <1>3, <2>1, <2>2, <2>3, <3>2 DEF BusyPay
  <2>4. CASE g.body.kind = "refund"
    <3>1. payReqs' = payReqs \cup {[kind |-> "refund", req |-> g.req, payment |-> g.body.payment, stage |-> "fetch"]}
      BY <1>5, <2>4 DEF StartKeyed, ReadForRefund, ServePay
    <3>2. QED
      BY <1>3, <2>1, <2>2, <2>4, <3>1 DEF BusyPay
  <2>5. QED
    BY <1>5, <2>3, <2>4 DEF StartKeyed
<1>6. ASSUME NEW g \in guarded, RefuseKeyed(g) \/ EndKeyed(g)
      PROVE  SlotsFit'
  BY <1>1, <1>2, <1>6 DEF RefuseKeyed, EndKeyed, Record, Forget, payVars, BusyPay
<1>7. ASSUME NEW g \in guarded, NEW q \in payReqs, q.req = g.req, StepKeyed(g, q)
      PROVE  SlotsFit'
  <2>1. ASSUME FinishPay(q), NEW a, Reply(g, a)
        PROVE  SlotsFit'
    BY <1>2, <1>7, <2>1 DEF FinishPay
  <2>2. ASSUME FinishPay(q), Forget(g)
        PROVE  SlotsFit'
    BY <1>1, <2>2 DEF FinishPay, Forget
  <2>3. ASSUME NEW stage, q.kind = "refund", Advance(q, stage), UNCHANGED guarded
        PROVE  SlotsFit'
    <3> DEFINE n == [q EXCEPT !.stage = stage]
    <3>1. n.req = q.req /\ n.kind = q.kind /\ n.payment = q.payment
      BY <2>3 DEF PayInv, PayTypes, PayRequest
    <3>2. payReqs' = (payReqs \ {q}) \cup {n}
      BY <2>3 DEF Advance
    <3> HIDE DEF n
    <3>3. QED
      BY <1>3, <1>7, <2>3, <3>1, <3>2
  <2>4. QED
    BY <1>7, <2>1, <2>2, <2>3
    DEF StepKeyed, CommitPayment, InsertRefund, AbortPayRequest, FetchForRefund, CheckForRefund, idemVars
<1>8. CASE UnkeyedNext
  <2>1. UNCHANGED guarded
    BY <1>8 DEF UnkeyedNext, idemVars
  <2>2. ASSUME NEW r \in PayReqs, ~Guarding(r), NEW p \in Payments, NEW outcome \in {"PAID", "FAILED"},
               ReadForCallback(r, p, outcome)
        PROVE  SlotsFit'
    BY <1>3, <2>1, <2>2 DEF ReadForCallback, ServePay, BusyPay, Guarding
  <2>3. ASSUME NEW r \in PayReqs, ~Guarding(r), NEW f \in Refunds, ReadForApproval(r, f)
        PROVE  SlotsFit'
    BY <1>3, <2>1, <2>3 DEF ReadForApproval, ServePay, BusyPay, Guarding
  <2>4. ASSUME NEW q \in payReqs, CommitCallback(q) \/ CommitApproval(q) \/ AbortPayRequest(q)
        PROVE  SlotsFit'
    BY <1>1, <2>1, <2>4 DEF CommitCallback, CommitApproval, AbortPayRequest, FinishPay
  <2>5. ASSUME NEW f \in Refunds, RejectRefund(f)
        PROVE  SlotsFit'
    BY <1>1, <2>1, <2>5 DEF RejectRefund
  <2>6. QED
    BY <1>8, <2>2, <2>3, <2>4, <2>5 DEF UnkeyedNext
<1>9. CASE UNCHANGED vars
  BY <1>1, <1>9 DEF vars, payVars, idemVars
<1>10. QED
  BY <1>4, <1>5, <1>6, <1>7, <1>8, <1>9 DEF Next, KeyedNext

\* Payment's invariant holds whatever totals Core answers.
LEMMA PayInvStep ==
  ASSUME ServiceInv, [Next]_vars
  PROVE  PayInv'
<1>1. \A a \in Answers : GoodView([o \in Orders |-> a])
  BY TotalsAssumption DEF Answers, GoodView
<1>2. QED
  BY <1>1, ServiceStep, PayStepInv, AskCoreInv, PayStutterInv DEF ServiceInv, KeyInv

\* The middleware's invariant holds whatever the handlers do.
LEMMA KeyInvStep ==
  ASSUME ServiceInv, [Next]_vars
  PROVE  KeyInv'
<1>1. CASE UNCHANGED idemVars
  BY <1>1 DEF ServiceInv, KeyInv, KeyTypes, GuardedApart, AnswerIsKept, idemVars, Running
<1>2. QED
  BY <1>1, KeyStep, AdmitKeeps, ReplayKeeps, ReplyKeeps, RecordKeeps, ForgetKeeps DEF ServiceInv

\* An empty database and no requests satisfy the invariant.
LEMMA ServiceInit == Init => ServiceInv
<1> SUFFICES ASSUME Init
             PROVE  ServiceInv
  OBVIOUS
<1>1. PayInv
  BY PayInitInv DEF Init
<1>2. KeyInv
  BY DEF Init, IdemInit, KeyInv, KeyTypes, GuardedApart, AnswerIsKept
<1>3. SlotsFit /\ AnswersAreAbout
  BY DEF Init, IdemInit, PayInit, SlotsFit, AnswersAreAbout
<1>4. QED
  BY <1>1, <1>2, <1>3 DEF ServiceInv

-----------------------------------------------------------------------------
\* ServiceInv is an inductive invariant of the Payment service.
THEOREM ServiceInvariant == Spec => []ServiceInv
<1>1. ServiceInv /\ [Next]_vars => ServiceInv'
  BY PayInvStep, KeyInvStep, SlotsStayFit, AnswersStayAbout DEF ServiceInv
<1>2. QED
  BY <1>1, ServiceInit, PTL DEF Spec

\* Every variable of the service keeps its type.
THEOREM PaymentTypes == Spec => []TypeOK
<1>1. ServiceInv => TypeOK
  BY DEF ServiceInv, PayInv, KeyInv, KeyTypes, TypeOK
<1>2. QED
  BY <1>1, ServiceInvariant, PTL

\* A payment is REFUNDED only through a COMPLETED refund (ApproveRefund).
THEOREM RefundsAreBacked == Spec => []RefundBacked
<1>1. ServiceInv => RefundBacked
  BY DEF ServiceInv, PayInv
<1>2. QED
  BY <1>1, ServiceInvariant, PTL

\* Money is paid back only from a payment that was charged (CreateRefund).
THEOREM RefundsFollowCharges == Spec => []RefundOnlyIfCharged
<1>1. ServiceInv => RefundOnlyIfCharged
  BY DEF ServiceInv, PayInv
<1>2. QED
  BY <1>1, ServiceInvariant, PTL

\* The partial unique index: an order is charged twice only after a refund or a
\* failed callback of one of its payments.
THEOREM DoubleChargeIsReversed == Spec => []DoubleChargeNeedsReversal
<1>1. ServiceInv => DoubleChargeNeedsReversal
  BY DoubleChargeFollows DEF ServiceInv
<1>2. QED
  BY <1>1, ServiceInvariant, PTL

\* A key runs its handler to one answer unless its requests overlapped or an
\* outcome was lost (idempotency.Require): every answer of a safe key is the
\* one its row holds, or the one about to be recorded.
THEOREM ExecutesOnce == Spec => []ExecutesOnceIfSafe
<1>1. ServiceInv => ExecutesOnceIfSafe
  BY DEF ServiceInv, KeyInv, GuardedApart, AnswerIsKept, ExecutesOnceIfSafe, Running
<1>2. QED
  BY <1>1, ServiceInvariant, PTL

\* A replayed answer is about what the repeated request asked for.
THEOREM ReplaysAreFaithful == Spec => []ReplayIsFaithful
<1>1. ServiceInv => ReplayIsFaithful
  BY DEF ServiceInv, AnswersAreAbout, About, ReplayIsFaithful
<1>2. QED
  BY <1>1, ServiceInvariant, PTL
=============================================================================
