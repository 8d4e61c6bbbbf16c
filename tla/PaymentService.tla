-------------------------- MODULE PaymentService ---------------------------
(***************************************************************************)
(* The Payment service as its router mounts it, against a Core that may    *)
(* answer anything a committed order row can say: creating a payment and   *)
(* requesting a refund go through the idempotency middleware, the other    *)
(* endpoints straight to their handlers.  (OrderToCash composes Payments   *)
(* with the real Core.)                                                    *)
(***************************************************************************)
EXTENDS Payments, Idempotency

CONSTANTS
  Totals,      \* the totals Core may report
  RefundKeys,  \* the keys used with POST /refunds; the others are POST /payments'
  Refused      \* an answer in the 4xx range

ASSUME TotalsAssumption == Totals \subseteq Nat
ASSUME RefundKeysAssumption == RefundKeys \subseteq Keys
ASSUME AnswersAssumption ==
  /\ Payments \cap Refunds = {}
  /\ {Refused, NoRow} \cap (Payments \cup Refunds) = {}
  /\ Refused # NoRow

vars == <<payVars, idemVars>>

\* What Core may answer about an order; a handler asks about one order only.
Answers ==
  [status : OrderStatuses \cup {NoOrder}, payStatus : PaymentStatuses, total : Totals \cup {NoTotal}]

PayBodies    == [kind : {"pay"}, order : Orders, method : {"CASH", "QRIS"}]
RefundBodies == [kind : {"refund"}, payment : Payments]

Bodies == PayBodies \cup RefundBodies
Answer == Payments \cup Refunds \cup {Refused}

ASSUME NoRowAssumption == NoRow \notin [body : Bodies, answer : Answer]

BodiesFor(k) == IF k \in RefundKeys THEN RefundBodies ELSE PayBodies

\* A request with a key arrives.
Arrive(r, k, b) ==
  /\ ~BusyPay(r)
  /\ Admit(r, k, b) \/ Replay(k, b)
  /\ UNCHANGED payVars

\* The first read of the handler behind the middleware.
StartKeyed(g) ==
  /\ Running(g)
  /\ \/ /\ g.body.kind = "pay"
        /\ \E a \in Answers : FetchForPayment(g.req, g.body.order, g.body.method, [o \in Orders |-> a])
     \/ /\ g.body.kind = "refund"
        /\ ReadForRefund(g.req, g.body.payment)
  /\ UNCHANGED idemVars

\* A guard before that read fails: validation, or what the read showed.
RefuseKeyed(g) ==
  /\ ~BusyPay(g.req)
  /\ Reply(g, Refused)
  /\ UNCHANGED payVars

\* The later statements of the handler of g, whose snapshot is q.
StepKeyed(g, q) ==
  \/ \E p \in Payments : CommitPayment(q, p) /\ Reply(g, IF pStatus'[p] = "NONE" THEN Refused ELSE p)
  \/ /\ \/ \E a \in Answers : FetchForRefund(q, [o \in Orders |-> a])
        \/ CheckForRefund(q)
     /\ UNCHANGED idemVars
  \/ \E f \in Refunds : InsertRefund(q, f) /\ Reply(g, f)
  \/ q.kind = "refund" /\ AbortPayRequest(q) /\ Reply(g, Refused)
  \/ AbortPayRequest(q) /\ Forget(g)

\* The answer is recorded, or the request ends without a record.
EndKeyed(g) ==
  /\ ~BusyPay(g.req)
  /\ Record(g) \/ Forget(g)
  /\ UNCHANGED payVars

KeyedNext ==
  \/ \E r \in PayReqs, k \in Keys : \E b \in BodiesFor(k) : Arrive(r, k, b)
  \/ \E g \in guarded :
       \/ StartKeyed(g) \/ RefuseKeyed(g) \/ EndKeyed(g)
       \/ \E q \in payReqs : q.req = g.req /\ StepKeyed(g, q)

\* The gateway's callback, and the decision on a refund.
UnkeyedNext ==
  /\ \/ \E r \in PayReqs :
          /\ ~Guarding(r)
          /\ \/ \E p \in Payments, outcome \in {"PAID", "FAILED"} : ReadForCallback(r, p, outcome)
             \/ \E f \in Refunds : ReadForApproval(r, f)
     \/ \E q \in payReqs :
          \/ CommitCallback(q)
          \/ CommitApproval(q)
          \/ q.kind \in {"callback", "approve"} /\ AbortPayRequest(q)
     \/ \E f \in Refunds : RejectRefund(f)
  /\ UNCHANGED idemVars

Init == PayInit /\ IdemInit

Next == KeyedNext \/ UnkeyedNext

Spec == Init /\ [][Next]_vars

-----------------------------------------------------------------------------

\* Every variable of the service keeps its type.
TypeOK ==
  /\ PayTypes
  /\ stored \in [Keys -> [body : Bodies, answer : Answer] \cup {NoRow}]
  /\ guarded \subseteq [req : PayReqs, key : Keys, body : Bodies, answer : Answer \cup {NoRow}]
  /\ replayed \subseteq [body : Bodies, answer : Answer]
  /\ executed \subseteq [key : Keys, answer : Answer]
  /\ unsafe \subseteq Keys

\* A replayed answer is about what the repeated request asked for: it names a
\* payment of that order, or a refund of that payment, that exists.
ReplayIsFaithful ==
  \A x \in replayed :
    /\ x.answer \in Payments =>
         x.body.kind = "pay" /\ pStatus[x.answer] # "NONE" /\ pOrder[x.answer] = x.body.order
    /\ x.answer \in Refunds =>
         x.body.kind = "refund" /\ rStatus[x.answer] # "NONE" /\ rPayment[x.answer] = x.body.payment

=============================================================================
